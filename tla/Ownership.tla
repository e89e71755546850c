----------------------------- MODULE Ownership -----------------------------
(***************************************************************************)
(* What the movable classes own: the Linux Reactor its two descriptors     *)
(* (src/io/epoll_reactor.cpp), the Windows Reactor its port and its        *)
(* contexts (src/io/iocp_reactor.cpp), Task and SpawnHandle a coroutine    *)
(* frame (async/task.h, async/spawn.h).  An Executor is moved before it    *)
(* has work and owns what its Reactor does (async/executor.h, 73-89).      *)
(* Objects are in different threads' hands, so a number that was closed    *)
(* may be given to another object at once.  In which order an object gives *)
(* back what it has is left open.  A map that was moved from is empty.     *)
(***************************************************************************)
EXTENDS Integers, FiniteSets

CONSTANTS Owners,      \* places for objects
          Resources,   \* descriptors, handles or addresses
          MaxContexts  \* bound: contexts of one Windows Reactor

VARIABLES kind,        \* the class of the objects in this behaviour
          phase,       \* of each object; "source" while it is assigned from
          has,         \* what it has to give back
          closing,     \* what the call in progress gives back
          from,        \* what an assignment in progress assigns from
          open,        \* resources there are
          pending,     \* frames whose coroutine has not ended
          loose        \* frames that free themselves at final_suspend

ownerVars == <<kind, phase, has, closing, from, open, pending, loose>>
frameVars == <<pending, loose>>

Kinds == {"epoll", "iocp", "task", "spawn"}
IsFrame == kind \in {"task", "spawn"}
Need == IF kind = "epoll" THEN 2 ELSE 1

OwnersInit ==
  /\ kind \in Kinds
  /\ phase = [x \in Owners |-> "none"]
  /\ has = [x \in Owners |-> {}] /\ closing = [x \in Owners |-> {}]
  /\ from = [x \in Owners |-> x]
  /\ open = {} /\ pending = {} /\ loose = {}

\* epoll_create1, then eventfd (epoll 46-55); CreateIoCompletionPort (iocp
\* 197-204); a coroutine is called and its frame made (task.h 80-84, spawn.h
\* 72-76).
Opens(x, r) ==
  /\ phase[x] \in {"none", "creating"} /\ Cardinality(has[x]) < Need /\ r \notin open
  /\ phase' = [phase EXCEPT ![x] = "creating"]
  /\ has' = [has EXCEPT ![x] = @ \cup {r}]
  /\ open' = open \cup {r}
  /\ pending' = IF IsFrame THEN pending \cup {r} ELSE pending
  /\ UNCHANGED <<kind, closing, from, loose>>

\* create has it all and returns the object (epoll 68-72, iocp 205-208).
Created(x) ==
  /\ phase[x] = "creating" /\ Cardinality(has[x]) = Need
  /\ phase' = [phase EXCEPT ![x] = "live"]
  /\ UNCHANGED <<kind, has, closing, from, open, frameVars>>

\* eventfd or epoll_ctl fails: what was opened is closed (epoll 51-66).
CreateFails(x) ==
  /\ kind = "epoll" /\ phase[x] = "creating"
  /\ phase' = [phase EXCEPT ![x] = "dying"]
  /\ closing' = [closing EXCEPT ![x] = has[x]]
  /\ has' = [has EXCEPT ![x] = {}]
  /\ UNCHANGED <<kind, from, open, frameVars>>

\* add of the Windows Reactor makes a context (iocp 302-317).
AddContext(x, r) ==
  /\ kind = "iocp" /\ phase[x] = "live" /\ r \notin open
  /\ has[x] # {} /\ Cardinality(has[x]) <= MaxContexts
  /\ has' = [has EXCEPT ![x] = @ \cup {r}]
  /\ open' = open \cup {r}
  /\ UNCHANGED <<kind, phase, closing, from, frameVars>>

\* x takes what y has; y is left with -1, nullptr or an empty handle.
TakesCopy(x, y) == [has EXCEPT ![x] = has[y]]
Takes(x, y) == [has EXCEPT ![x] = has[y], ![y] = {}]

\* The move constructors (epoll 81-84, iocp 247, task.h 95, spawn.h 86).
MoveConstruct(x, y) ==
  /\ phase[x] = "none" /\ phase[y] = "live"
  /\ phase' = [phase EXCEPT ![x] = "live"]
  /\ has' = Takes(x, y)
  /\ UNCHANGED <<kind, closing, from, open, frameVars>>

\* SpawnHandle::release (spawn.h 121-131) leaves a frame that is not done to its
\* runner; the other classes give back what they have.
Dropped(x) == IF kind = "spawn" THEN has[x] \cap pending ELSE {}
Released(x) ==
  /\ closing' = [closing EXCEPT ![x] = has[x] \ Dropped(x)]
  /\ loose' = loose \cup Dropped(x)

\* The destructors (epoll 74-79, iocp 210-245, task.h 106-109, spawn.h 97).
DestroyOwner(x) ==
  /\ phase[x] = "live"
  /\ phase' = [phase EXCEPT ![x] = "dying"]
  /\ Released(x)
  /\ has' = [has EXCEPT ![x] = {}]
  /\ UNCHANGED <<kind, from, open, pending>>

\* Move assignment: x gives back what it has, then takes what y has (epoll 86-98,
\* task.h 97-104, spawn.h 88-95).
MoveAssign(x, y) ==
  /\ kind # "iocp" /\ x # y /\ phase[x] = "live" /\ phase[y] = "live"
  /\ phase' = [phase EXCEPT ![x] = "assigning", ![y] = "source"]
  /\ from' = [from EXCEPT ![x] = y]
  /\ Released(x)
  /\ has' = [has EXCEPT ![x] = {}]
  /\ UNCHANGED <<kind, open, pending>>

\* On Windows a temporary takes from y, swaps with x and is destroyed with what x
\* had (iocp 249-259).
MoveAssignSwaps(x, y) ==
  /\ kind = "iocp" /\ x # y /\ phase[x] = "live" /\ phase[y] = "live"
  /\ phase' = [phase EXCEPT ![x] = "tearing", ![y] = "source"]
  /\ from' = [from EXCEPT ![x] = y]
  /\ closing' = [closing EXCEPT ![x] = has[x]]
  /\ has' = Takes(x, y)
  /\ UNCHANGED <<kind, open, frameVars>>

\* One close, CloseHandle, delete or destroy, and the end of the call.
CloseNext(x, r) ==
  /\ r \in closing[x]
  /\ open' = open \ {r} /\ pending' = pending \ {r}
  /\ closing' = [closing EXCEPT ![x] = @ \ {r}]
  /\ UNCHANGED <<kind, phase, has, from, loose>>
CallEnds(x) ==
  /\ phase[x] \in {"dying", "assigning", "tearing"} /\ closing[x] = {}
  /\ has' = IF phase[x] = "assigning" THEN Takes(x, from[x]) ELSE has
  /\ phase' = IF phase[x] = "dying" THEN [phase EXCEPT ![x] = "none"]
              ELSE [phase EXCEPT ![x] = "live", ![from[x]] = "live"]
  /\ from' = [from EXCEPT ![x] = x]
  /\ UNCHANGED <<kind, closing, open, frameVars>>

\* Task::detach (task.h 130-136): from now on the frame frees itself.
DetachFrame(x) ==
  /\ kind = "task" /\ phase[x] = "live" /\ has[x] # {} /\ has[x] \subseteq pending
  /\ loose' = loose \cup has[x]
  /\ has' = [has EXCEPT ![x] = {}]
  /\ UNCHANGED <<kind, phase, closing, from, open, pending>>

\* A coroutine ends (task.h 48-62, spawn.h 44-56): its frame is freed if it is
\* detached or its handle was dropped, and kept for its owner otherwise.
FrameEnds(r) ==
  /\ r \in pending /\ \A x \in Owners : r \notin closing[x]
  /\ pending' = pending \ {r}
  /\ open' = IF r \in loose THEN open \ {r} ELSE open
  /\ loose' = loose \ {r}
  /\ UNCHANGED <<kind, phase, has, closing, from>>

OwnersNext ==
  \/ \E x \in Owners :
       \/ \E r \in Resources : Opens(x, r) \/ AddContext(x, r) \/ CloseNext(x, r)
       \/ \E y \in Owners : MoveConstruct(x, y) \/ MoveAssign(x, y) \/ MoveAssignSwaps(x, y)
       \/ Created(x) \/ CreateFails(x) \/ DestroyOwner(x) \/ DetachFrame(x)
       \/ CallEnds(x)
  \/ \E r \in pending : FrameEnds(r)

OwnersSpec == OwnersInit /\ [][OwnersNext]_ownerVars
-----------------------------------------------------------------------------
\* The shape of the state: a call has something to close only while it runs, and
\* one that assigns has its source to itself.
Calls == {"dying", "assigning", "tearing"}
OwnerTypeOK ==
  /\ kind \in Kinds
  /\ phase \in [Owners -> {"none", "creating", "live", "source"} \cup Calls]
  /\ has \in [Owners -> SUBSET Resources] /\ closing \in [Owners -> SUBSET Resources]
  /\ from \in [Owners -> Owners]
  /\ loose \subseteq pending /\ pending \subseteq open /\ open \subseteq Resources
  /\ \A x \in Owners :
       /\ phase[x] \notin Calls => closing[x] = {}
       /\ phase[x] \in {"none", "dying", "assigning"} => has[x] = {}
       /\ phase[x] \in {"assigning", "tearing"} =>
            /\ phase[from[x]] = "source"
            /\ \A y \in Owners \ {x} : phase[y] \in {"assigning", "tearing"} => from[y] # from[x]

\* Through creations that fail half-way, moves and assignments in any order,
\* every resource that is open is with exactly one object, call in progress or
\* detached coroutine, and all they have is open: nothing leaks, and nothing is
\* closed twice, which would close what another thread has just been given under
\* the same number (epoll 46-98, iocp 197-259, task.h 95-136, spawn.h 86-131).
OneOwner ==
  /\ OwnerTypeOK
  /\ open = (UNION {has[x] \cup closing[x] : x \in Owners}) \cup loose
  /\ \A x, y \in Owners :
       /\ x # y => has[x] \cap has[y] = {} /\ closing[x] \cap closing[y] = {}
       /\ has[x] \cap closing[y] = {}
  /\ \A x \in Owners : (has[x] \cup closing[x]) \cap loose = {}
=============================================================================
