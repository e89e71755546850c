---------------------------- MODULE TasksProofs -----------------------------
(***************************************************************************)
(* The Executor's inductive invariant IInv says what the parts of the state *)
(* know of each other; each of its conjuncts is about a few variables, so   *)
(* that a step need be looked at only for those whose variables it changes. *)
(* Here: the steps of the loop that move it on, and of the coroutines, up   *)
(* to the suspensions that register nothing.  ExecutorProofs has the rest.  *)
(***************************************************************************)
EXTENDS Executor, ListsProofs

\* Most leaves are first-order; those that need arithmetic or records say SMT.
USE Zenon

\* The body of t has begun and has not ended.
Pending(t) == frame[t] \in {"body", "parked", "joining"}

\* Tasks are numbered as they come, and a holder is older than what it holds.
NumberedInv ==
  \A t \in Tasks :
    /\ frame[t] = "none" <=> t > n_tasks
    /\ frame[t] = "none" => continuation[t] = None /\ ~handle_dropped[t]
    /\ frame[t] \in {"none", "freed"} => owner[t] = None
    /\ owner[t] < t

\* A pending task is awaited by its holder alone, which awaits no other.
AwaitedInv ==
  \A t \in Tasks : Pending(t) /\ continuation[t] # None =>
    /\ continuation[t] = owner[t] /\ frame[continuation[t]] = "joining"
    /\ \A u \in Tasks : Pending(u) /\ continuation[u] = continuation[t] => u = t

\* A coroutine is joining only while the task it awaits is pending.
JoiningInv ==
  \A t \in Tasks : frame[t] = "joining" => \E u \in Tasks : Pending(u) /\ continuation[u] = t

TasksInv == NumberedInv /\ AwaitedInv /\ JoiningInv

\* FramesAreOwned of one task.
Owned(t) ==
  IF owner[t] = None THEN handle_dropped[t] /\ frame[t] # "done"
  ELSE ~handle_dropped[t] /\
       (owner[t] # Main => frame[owner[t]] \in {"body", "parked", "joining"})

\* The coroutines on the stack of resume calls are those whose body runs, and
\* the loop's own steps are taken when it is empty.
StackInv ==
  /\ OnceEach(stack)
  /\ \A t \in Tasks : frame[t] = "body" <=> t \in ToSet(stack)
  /\ l_pc \in {"start", "top", "drain", "gate", "wait"} => stack = <<>>

\* Main holds what it waits for.
TargetInv ==
  /\ l_pc # "off" /\ target # None => owner[target] = Main
  /\ l_pc = "acquire" => target # None

\* A suspended coroutine is parked in an awaiter of its own or was scheduled, and
\* the ready queue holds it once exactly if its awaiter says so.
ParkedInv ==
  /\ OnceEach(m_ready)
  /\ \A t \in Tasks : t \in ToSet(m_ready) =>
       frame[t] = "parked" /\ (waits_for[t] # 0 => aw[waits_for[t]].m_queued)
  /\ \A t \in Tasks : frame[t] = "parked" =>
       IF waits_for[t] = 0 THEN t \in ToSet(m_ready)
       ELSE aw[waits_for[t]].state = "parked" /\ aw[waits_for[t]].task = t
  /\ \A a \in Awaiters : aw[a].state = "parked" =>
       /\ aw[a].task \in Tasks /\ frame[aw[a].task] = "parked" /\ waits_for[aw[a].task] = a
       /\ aw[a].m_queued => aw[a].task \in ToSet(m_ready)

\* What an awaiter's members say of each other.
AwaitersInv ==
  \A a \in Awaiters :
    /\ aw[a].state = "none" => aw[a] = NoAwaiter
    /\ a > n_suspends => aw[a].state = "none"
    /\ aw[a].state = "parked" => aw[a].result \in {"none", "error"}
    /\ aw[a].state = "parked" /\ ~aw[a].m_queued => aw[a].m_registered
    /\ aw[a].state = "parked" /\ aw[a].m_queued =>
         aw[a].result = "error" \/ aw[a].m_cancelled \/ aw[a].m_fired
    /\ aw[a].m_cancelled => stopped /\ aw[a].m_token
    /\ aw[a].m_registered => aw[a].state = "parked"

\* The list of callbacks: awaiters in scope that took a token, none left once a
\* stop was requested, and every one that neither was queued nor has run.
CallbacksInv ==
  /\ OnceEach(callbacks)
  /\ stopped => callbacks = <<>>
  /\ \A a \in Awaiters : a \in ToSet(callbacks) =>
       aw[a].state # "none" /\ aw[a].m_token /\ (aw[a].state = "resumed" => aw[a].m_queued)
  /\ \A a \in Awaiters : aw[a].state = "parked" /\ aw[a].m_token /\ ~aw[a].m_queued =>
       ~stopped /\ a \in ToSet(callbacks)

\* The reactor and the awaiters agree on what is registered, and for whom.
RegisteredInv ==
  /\ IsFiniteSet(Registered) /\ m_pending_io = Cardinality(Registered)
  /\ \A h \in Registered : aw[interest[h].token].m_registered /\ aw[interest[h].token].m_handle = h
  /\ \A a \in Awaiters : aw[a].m_registered =>
       aw[a].m_handle \in Registered /\ interest[aw[a].m_handle].token = a

\* A timerfd belongs to one sleep_for, and nobody else awaits it.
TimerFdInv ==
  \A t \in Tasks : tfd[t] # NoFd =>
    /\ \A u \in Tasks : tfd[u] = tfd[t] => u = t
    /\ \A a \in Awaiters : aw[a].m_handle = tfd[t] => aw[a].task = t

IInv ==
  /\ TypeOK /\ TasksInv /\ FramesAreOwned /\ StackInv /\ TargetInv /\ ParkedInv
  /\ AwaitersInv /\ CallbacksInv /\ RegisteredInv /\ TimerFdInv /\ ResultsHaveReasons
-----------------------------------------------------------------------------
(* Facts about the state. *)

\* The code that runs is on top of the stack, its body has begun, and the loop
\* waits for it.
LEMMA ExecutingFacts ==
  ASSUME TypeOK, StackInv, NEW c \in Tasks, Executing(c)
  PROVE  /\ frame[c] = "body" /\ stack # <<>>
         /\ Front \in Seq(Tasks) /\ OnceEach(Front) /\ ToSet(Front) = ToSet(stack) \ {c}
         /\ l_pc \notin {"start", "top", "drain", "gate", "wait"}
<1>1. stack \in Seq(Tasks) /\ OnceEach(stack)
  BY DEF TypeOK, StackInv
<1>2. stack # <<>> /\ stack[Len(stack)] = c
  BY SMT DEF Executing, Tasks, Main
<1>3. c \in ToSet(stack) /\ Front \in Seq(Tasks) /\ OnceEach(Front) /\ ToSet(Front) = ToSet(stack) \ {c}
  BY <1>1, <1>2, FrontFacts DEF Front
<1> QED  BY <1>2, <1>3 DEF StackInv

\* Main runs when nothing else does.
LEMMA MainFacts ==
  ASSUME Executing(Main)
  PROVE  stack = <<>> /\ l_pc = "off"
  BY DEF Executing

\* An awaiter's members.
AwaiterSet ==
  [task : Tasks \cup {None}, m_handle : Handles \cup {WakeFd}, m_token : BOOLEAN,
   state : {"none", "parked", "resumed"}, m_queued : BOOLEAN, m_cancelled : BOOLEAN,
   m_registered : BOOLEAN, m_fired : BOOLEAN,
   result : {"none", "ok", "cancelled", "error"}]

\* What the constructors make.
LEMMA AwaiterTypes ==
  /\ NoAwaiter \in AwaiterSet
  /\ \A t \in Tasks, h \in Handles, tok \in BOOLEAN : Awaiter(t, h, tok) \in AwaiterSet
  BY DEF AwaiterSet, NoAwaiter, Awaiter

\* No memory is reached through an awaiter that is gone.
LEMMA NoAwaiterFacts ==
  /\ NoAwaiter.state = "none" /\ NoAwaiter.task = None /\ NoAwaiter.m_handle = WakeFd
  /\ ~NoAwaiter.m_queued /\ ~NoAwaiter.m_cancelled /\ ~NoAwaiter.m_registered
  /\ ~NoAwaiter.m_token /\ NoAwaiter.result = "none"
  BY DEF NoAwaiter, Awaiter

\* TypeOK in parts.
TypeReactor ==
  /\ Registered \subseteq Handles
  /\ interest \in [Registered -> [token : Awaiters, mask : SUBSET Conditions]]
  /\ m_pending_io \in Nat
TypeLoop ==
  /\ m_running \in BOOLEAN
  /\ l_pc \in {"off", "start", "top", "drain", "resumed", "gate", "wait", "acquire"}
  /\ target \in Tasks \cup {None}
  /\ x_pc \in {"idle", "wake"}
TypeTasks ==
  /\ stack \in Seq(Tasks)
  /\ n_tasks \in 0 .. NTasks
  /\ frame \in [Tasks -> {"none", "body", "parked", "joining", "done", "freed"}]
  /\ continuation \in [Tasks -> Tasks \cup {None}]
  /\ handle_dropped \in [Tasks -> BOOLEAN]
  /\ owner \in [Tasks -> Callers \cup {None}]
  /\ tfd \in [Tasks -> Handles \cup {NoFd}]
TypeAwaiters ==
  /\ m_ready \in Seq(Tasks)
  /\ waits_for \in [Tasks -> Awaiters \cup {0}]
  /\ n_suspends \in 0 .. MaxSuspends
  /\ aw \in [Awaiters -> AwaiterSet]
  /\ stopped \in BOOLEAN
  /\ callbacks \in Seq(Awaiters)

\* The parts are the whole, now and after a step.
LEMMA TypeSplit == TypeOK <=> TypeReactor /\ TypeLoop /\ TypeTasks /\ TypeAwaiters
  BY DEF TypeOK, TypeReactor, TypeLoop, TypeTasks, TypeAwaiters, AwaiterSet

\* TypeSplit of the next state.
LEMMA TypeSplitNext == TypeOK' <=> TypeReactor' /\ TypeLoop' /\ TypeTasks' /\ TypeAwaiters'
  BY TypeSplit, PTL

-----------------------------------------------------------------------------
(* Steps that leave tasks, awaiters and registrations alone. *)

\* The variables of the tasks alone, of the awaiters and of the registrations.
tasksOnly == <<stack, n_tasks, frame, continuation, handle_dropped, owner, tfd>>
awaitersOnly == <<m_ready, waits_for, awaiterVars, stopVars>>
regsOnly == <<interest, m_pending_io>>

\* A step that leaves the timer descriptors, and the descriptor and the task of
\* every awaiter, as they were: each timer descriptor is still one sleep's own.
LEMMA TimerFdKeeps ==
  ASSUME IInv, tfd' = tfd,
         \A a \in Awaiters : aw'[a].m_handle = aw[a].m_handle /\ aw'[a].task = aw[a].task
  PROVE  TimerFdInv'
<1>1. TimerFdInv
  BY DEF IInv
<1>2. ASSUME NEW t \in Tasks, tfd[t] # NoFd
      PROVE  /\ \A u \in Tasks : tfd[u] = tfd[t] => u = t
             /\ \A a \in Awaiters : aw'[a].m_handle = tfd[t] => aw'[a].task = t
  BY <1>1, <1>2 DEF TimerFdInv
<1> QED  BY <1>2 DEF TimerFdInv, NoFd

\* Where a suspended coroutine is: in the ready queue, or in an awaiter.
LEMMA ParkedAt ==
  ASSUME IInv, NEW t \in Tasks, frame[t] = "parked"
  PROVE  /\ waits_for[t] = 0 => t \in ToSet(m_ready)
         /\ waits_for[t] # 0 => /\ waits_for[t] \in Awaiters
                                /\ aw[waits_for[t]].state = "parked" /\ aw[waits_for[t]].task = t
<1>1. waits_for[t] \in Awaiters \cup {0}
  BY TypeSplit DEF IInv, TypeAwaiters
<1>2. IF waits_for[t] = 0 THEN t \in ToSet(m_ready)
      ELSE aw[waits_for[t]].state = "parked" /\ aw[waits_for[t]].task = t
  BY DEF IInv, ParkedInv
<1> QED  BY <1>1, <1>2

\* A step that leaves the tasks alone keeps what is said of them only.
LEMMA TasksKeep ==
  ASSUME IInv, UNCHANGED tasksOnly
  PROVE  TasksInv' /\ FramesAreOwned'
<1>1. TasksInv /\ FramesAreOwned
  BY DEF IInv
<1>2. UNCHANGED <<n_tasks, frame, continuation, handle_dropped, owner>>
  BY DEF tasksOnly
<1> QED  BY <1>1, <1>2, ZenonT(30) DEF TasksInv, NumberedInv, AwaitedInv, JoiningInv, FramesAreOwned, Pending, Alive

\* The loop moves on, a flag is set, or something happens to a descriptor: what
\* remains to be shown is about the loop.
LEMMA QuietStep ==
  ASSUME IInv, UNCHANGED <<tasksOnly, awaitersOnly, regsOnly>>, TypeLoop',
         l_pc' \in {"start", "top", "drain", "gate", "wait"} => stack = <<>>,
         TargetInv'
  PROVE  IInv'
<1> USE DEF tasksOnly, awaitersOnly, regsOnly, awaiterVars, stopVars
<1>1. TypeOK'
  <2>1. TypeReactor' /\ TypeTasks' /\ TypeAwaiters'
    BY TypeSplit DEF IInv, TypeReactor, TypeTasks, TypeAwaiters, Registered
  <2> QED  BY <2>1, TypeSplitNext
<1>2. TasksInv' /\ FramesAreOwned'
  BY SMT DEF IInv, TasksInv, NumberedInv, AwaitedInv, JoiningInv, FramesAreOwned, Pending, Alive
<1>3. StackInv'
  BY DEF IInv, StackInv
<1>4. ParkedInv'
  BY DEF IInv, ParkedInv
<1>5. AwaitersInv' /\ ResultsHaveReasons'
  BY DEF IInv, AwaitersInv, ResultsHaveReasons
<1>6. CallbacksInv'
  BY DEF IInv, CallbacksInv
<1>7. RegisteredInv'
  BY DEF IInv, RegisteredInv, Registered
<1>8. TimerFdInv'
  BY DEF IInv, TimerFdInv
<1> QED  BY <1>1, <1>2, <1>3, <1>4, <1>5, <1>6, <1>7, <1>8 DEF IInv

\* stop() on this thread and on the other, wake() and what the world does to
\* descriptors (executor.cpp, 24-27).
LEMMA OutsideSteps ==
  ASSUME IInv,
         \/ \E c \in Callers : StopHere(c) \/ \E h \in Handles : ReadHandle(c, h)
         \/ StopStore \/ StopWake \/ Nudge
         \/ \E h \in Handles : HandleReady(h)
  PROVE  IInv'
<1>1. UNCHANGED <<tasksOnly, awaitersOnly, regsOnly, l_pc, target>>
  BY DEF StopHere, ReadHandle, StopStore, StopWake, Nudge, HandleReady, ConditionChanges, wake,
         reactorVars, tasksOnly, awaitersOnly, regsOnly, taskVars, loopVars, userVars
<1>2. TypeLoop'
  BY TypeSplit DEF IInv, TypeLoop, StopHere, ReadHandle, StopStore, StopWake, Nudge, HandleReady,
         loopVars, otherVars
<1>3. TargetInv' /\ (l_pc' \in {"start", "top", "drain", "gate", "wait"} => stack = <<>>)
  BY <1>1 DEF IInv, TargetInv, StackInv, tasksOnly
<1> QED  BY <1>1, <1>2, <1>3, QuietStep

\* The loop's steps other than resuming and waiting, and the calls that start it
\* (executor.cpp, 31-58).
LEMMA LoopSteps ==
  ASSUME IInv,
         \/ RunUntil(None) \/ \E t \in Tasks : SyncWaitHandle(t)
         \/ RunStart \/ LoopTop \/ LoopDrained \/ LoopResumed \/ LoopGate
         \/ LoopWaitInterrupted \/ LoopWaitFails
  PROVE  IInv'
<1>1. UNCHANGED <<tasksOnly, awaitersOnly, regsOnly, x_pc>>
  BY DEF RunUntil, SyncWaitHandle, RunStart, LoopTop, LoopDrained, LoopResumed, LoopGate,
         LoopWaitInterrupted, LoopWaitFails,
         reactorVars, tasksOnly, awaitersOnly, regsOnly, taskVars, otherVars, userVars
<1>2. TypeLoop'
  <2>1. TypeLoop
    BY TypeSplit DEF IInv
  <2> QED  BY <1>1, <2>1 DEF TypeLoop, RunUntil, SyncWaitHandle, RunStart, LoopTop, LoopDrained,
              LoopResumed, LoopGate, LoopWaitInterrupted, LoopWaitFails, Return, Goto
<1>3. l_pc' \in {"start", "top", "drain", "gate", "wait"} => stack = <<>>
  BY MainFacts DEF IInv, StackInv, RunUntil, SyncWaitHandle, RunStart, LoopTop, LoopDrained,
         LoopResumed, LoopGate, LoopWaitInterrupted, LoopWaitFails, Return, Goto
<1>4. TargetInv'
  <2>1. TargetInv
    BY DEF IInv
  <2>2. UNCHANGED owner
    BY <1>1 DEF tasksOnly
  <2> QED  BY <2>1, <2>2 DEF TargetInv, RunUntil, SyncWaitHandle, RunStart, LoopTop,
              LoopDrained, LoopResumed, LoopGate, LoopWaitInterrupted, LoopWaitFails, Return, Goto
<1> QED  BY <1>1, <1>2, <1>3, <1>4, QuietStep
-----------------------------------------------------------------------------
(* Tasks begin, wait for each other and are released. *)

\* A step of the tasks that suspends and resumes none in an awaiter.
LEMMA TaskStepKeeps ==
  ASSUME IInv, UNCHANGED <<awaitersOnly, regsOnly>>,
         \A t \in Tasks : frame'[t] = "parked" <=> frame[t] = "parked"
  PROVE  /\ TypeReactor' /\ TypeAwaiters' /\ ParkedInv' /\ AwaitersInv' /\ CallbacksInv'
         /\ RegisteredInv' /\ ResultsHaveReasons'
<1> USE DEF awaitersOnly, regsOnly, awaiterVars, stopVars
<1>1. TypeReactor' /\ TypeAwaiters'
  BY TypeSplit DEF IInv, TypeReactor, TypeAwaiters, Registered
<1>2. ParkedInv'
  BY TypeSplit DEF IInv, ParkedInv, TypeAwaiters
<1>3. AwaitersInv' /\ ResultsHaveReasons'
  BY DEF IInv, AwaitersInv, ResultsHaveReasons
<1>4. CallbacksInv'
  BY DEF IInv, CallbacksInv
<1>5. RegisteredInv'
  BY DEF IInv, RegisteredInv, Registered
<1> QED  BY <1>1, <1>2, <1>3, <1>4, <1>5

\* The number a new task gets.
LEMMA NewTask ==
  ASSUME IInv, n_tasks < NTasks
  PROVE  /\ n_tasks + 1 \in Tasks /\ n_tasks + 1 \in 0 .. NTasks /\ frame[n_tasks + 1] = "none"
         /\ \A t \in Tasks : t > n_tasks + 1 <=> t > n_tasks /\ t # n_tasks + 1
<1>1. n_tasks \in 0 .. NTasks /\ NTasks \in Nat
  BY BoundsAssumption DEF IInv, TypeOK, BoundsAssumption
<1>2. n_tasks + 1 \in Tasks
  BY <1>1, SMT DEF Tasks
<1> QED  BY <1>1, <1>2, SMT DEF IInv, TasksInv, NumberedInv, Tasks

\* A descriptor that a new body may own.
LEMMA BodyFacts ==
  ASSUME IInv, NEW fd \in Bodies
  PROVE  /\ fd \in Handles \cup {NoFd}
         /\ fd # NoFd => /\ \A a \in Awaiters : aw[a].m_handle # fd
                         /\ \A t \in Tasks : tfd[t] # fd
  BY DEF Bodies, Used

\* A task is begun inside c (task.h, 130-136; spawn.h, 151-158).
LEMMA StartsKeeps ==
  ASSUME IInv, NEW c \in Callers, NEW fd \in Bodies, NEW holder \in {c, None},
         Starts(c, fd, holder), TypeLoop', TargetInv',
         l_pc' \notin {"start", "top", "drain", "gate", "wait"}
  PROVE  IInv'
<1>0. PICK t : t = n_tasks + 1
  OBVIOUS
<1>1. /\ t \in Tasks /\ t \in 0 .. NTasks /\ frame[t] = "none"
      /\ \A u \in Tasks : u > t <=> u > n_tasks /\ u # t
  BY <1>0, NewTask DEF Starts
<1>2. /\ n_tasks' = t
      /\ frame' = [frame EXCEPT ![t] = "body"]
      /\ owner' = [owner EXCEPT ![t] = holder]
      /\ handle_dropped' = [handle_dropped EXCEPT ![t] = holder = None]
      /\ stack' = Append(stack, t)
      /\ tfd' = [tfd EXCEPT ![t] = fd]
      /\ continuation' = continuation
      /\ UNCHANGED <<awaitersOnly, regsOnly>>
  BY <1>0 DEF Starts, reactorVars, awaitersOnly, regsOnly
<1>3. TypeTasks
  BY TypeSplit DEF IInv
<1>4. c # Main => c \in Tasks /\ frame[c] = "body"
  BY ExecutingFacts DEF IInv, Callers, Starts
<1>5. holder \in Callers \cup {None} /\ holder < t /\ c # t /\ c \in Int /\ t \in Int
  <2>1. t \in Nat /\ t > 0 /\ c \in Int
    BY <1>1, BoundsAssumption, SMT DEF BoundsAssumption, Tasks, Callers, Main
  <2>2. c # Main => ~(c > n_tasks)
    BY <1>4 DEF IInv, TasksInv, NumberedInv
  <2>3. n_tasks \in Int /\ t = n_tasks + 1
    BY <1>0, <1>3, SMT DEF TypeTasks
  <2> QED  BY <2>1, <2>2, <2>3, SMT DEF Callers, None, Main
<1>6. t \notin ToSet(stack) /\ OnceEach(stack)
  BY <1>1 DEF IInv, StackInv
<1>7. stack' \in Seq(Tasks) /\ OnceEach(stack') /\ ToSet(stack') = ToSet(stack) \cup {t}
  BY <1>1, <1>2, <1>3, <1>6, AppendFacts, SMT DEF TypeTasks
<1>8. TypeTasks'
  BY <1>1, <1>2, <1>3, <1>5, <1>7, BodyFacts DEF TypeTasks
<1>9. /\ TypeReactor' /\ TypeAwaiters' /\ ParkedInv' /\ AwaitersInv' /\ CallbacksInv'
      /\ RegisteredInv' /\ ResultsHaveReasons'
  <2>1. \A u \in Tasks : frame'[u] = "parked" <=> frame[u] = "parked"
    BY <1>1, <1>2, <1>3 DEF TypeTasks
  <2> QED  BY <1>2, <2>1, TaskStepKeeps
<1>10. TypeOK'
  BY <1>8, <1>9, TypeSplitNext
<1>11. TasksInv'
  <2>1. NumberedInv /\ AwaitedInv /\ JoiningInv
    BY DEF IInv, TasksInv
  <2>2. NumberedInv'
    BY <1>1, <1>2, <1>3, <1>5, <2>1 DEF NumberedInv, TypeTasks
  <2>3. AwaitedInv'
    BY <1>1, <1>2, <1>3, <2>1, SMT DEF AwaitedInv, NumberedInv, TypeTasks, Pending
  <2>4. JoiningInv'
    BY <1>1, <1>2, <1>3, <2>1 DEF JoiningInv, TypeTasks, Pending
  <2> QED  BY <2>2, <2>3, <2>4 DEF TasksInv
<1>12. FramesAreOwned'
  <2>1. ASSUME NEW u \in Tasks, u # t, Alive(u)'
        PROVE  Owned(u)'
    <3>1. owner'[u] = owner[u] /\ handle_dropped'[u] = handle_dropped[u] /\ frame'[u] = frame[u] /\ Alive(u)
      BY <1>1, <1>2, <1>3, <2>1 DEF TypeTasks, Alive
    <3>2. owner[u] # None /\ owner[u] # Main => owner[u] \in Tasks
      BY <1>3 DEF TypeTasks, Callers
    <3>3. owner[u] \in Tasks /\ frame[owner[u]] # "none" => frame'[owner[u]] = frame[owner[u]]
      BY <1>1, <1>2, <1>3 DEF TypeTasks
    <3> QED  BY <3>1, <3>2, <3>3 DEF IInv, FramesAreOwned, Owned
  <2>2. Owned(t)'
    BY <1>1, <1>2, <1>3, <1>4, <1>5 DEF TypeTasks, Callers, Owned
  <2> QED  BY <2>1, <2>2 DEF FramesAreOwned, Owned
<1>13. StackInv'
  BY <1>1, <1>2, <1>3, <1>7 DEF IInv, StackInv, TypeTasks
<1>14. TimerFdInv'
  <2>1. UNCHANGED aw
    BY <1>2 DEF awaitersOnly, awaiterVars
  <2> QED  BY <1>1, <1>2, <1>3, <2>1, BodyFacts DEF IInv, TimerFdInv, TypeTasks
<1> QED  BY <1>9, <1>10, <1>11, <1>12, <1>13, <1>14 DEF IInv

\* spawn, detach, and sync_wait of a Task (spawn.h, 151-158; sync_wait.h, 94-111).
LEMMA StartSteps ==
  ASSUME IInv,
         \/ \E c \in Callers, fd \in Bodies : Spawn(c, fd) \/ Detach(c, fd)
         \/ \E fd \in Bodies : SyncWaitTask(fd)
  PROVE  IInv'
<1>1. TypeLoop /\ TargetInv
  BY TypeSplit DEF IInv
<1>2. ASSUME NEW c \in Callers, NEW fd \in Bodies, NEW holder \in {c, None},
             Starts(c, fd, holder), UNCHANGED loopVars
      PROVE  IInv'
  <2>1. l_pc' \notin {"start", "top", "drain", "gate", "wait"}
    BY <1>2, ExecutingFacts, MainFacts DEF IInv, Starts, loopVars, Callers
  <2>2. TypeLoop'
    BY <1>1, <1>2 DEF TypeLoop, Starts, loopVars, otherVars
  <2>3. TargetInv'
    <3>1. n_tasks + 1 \in Tasks /\ owner[n_tasks + 1] = None
      BY <1>2, NewTask DEF IInv, TasksInv, NumberedInv, Starts
    <3>2. owner \in [Tasks -> Callers \cup {None}] /\ target \in Tasks \cup {None}
      BY DEF IInv, TypeOK
    <3>3. owner' = [owner EXCEPT ![n_tasks + 1] = holder] /\ UNCHANGED <<l_pc, target>>
      BY <1>2 DEF Starts, loopVars
    <3> QED  BY <1>1, <3>1, <3>2, <3>3, SMT DEF TargetInv, None, Main
  <2> QED  BY <1>2, <2>1, <2>2, <2>3, StartsKeeps
<1>3. ASSUME NEW fd \in Bodies, SyncWaitTask(fd)
      PROVE  IInv'
  <2>1. Starts(Main, fd, Main) /\ l_pc' = "acquire" /\ target' = n_tasks + 1 /\ UNCHANGED <<m_running, x_pc>>
    BY <1>3 DEF SyncWaitTask, Starts, otherVars
  <2>2. n_tasks + 1 \in Tasks
    BY <2>1, NewTask DEF Starts
  <2>3. TypeLoop'
    BY <1>1, <2>1, <2>2 DEF TypeLoop
  <2>4. TargetInv'
    <3>1. owner \in [Tasks -> Callers \cup {None}]
      BY DEF IInv, TypeOK
    <3>2. owner' = [owner EXCEPT ![n_tasks + 1] = Main]
      BY <2>1 DEF Starts
    <3> QED  BY <2>1, <2>2, <3>1, <3>2, BoundsAssumption, SMT DEF TargetInv, None, Tasks, BoundsAssumption
  <2> QED  BY <2>1, <2>3, <2>4, StartsKeeps DEF Callers
<1> QED  BY <1>2, <1>3 DEF Spawn, Detach

\* co_await of a Task: its body takes the coroutine's place (task.h).
LEMMA CoAwaitTaskStep ==
  ASSUME IInv, NEW c \in Callers, NEW fd \in Bodies, CoAwaitTask(c, fd)
  PROVE  IInv'
<1>0. PICK t : t = n_tasks + 1
  OBVIOUS
<1>1. /\ t \in Tasks /\ t \in 0 .. NTasks /\ frame[t] = "none"
      /\ \A u \in Tasks : u > t <=> u > n_tasks /\ u # t
  BY <1>0, NewTask DEF CoAwaitTask
<1>2. /\ c \in Tasks
      /\ n_tasks' = t
      /\ frame' = [frame EXCEPT ![t] = "body", ![c] = "joining"]
      /\ owner' = [owner EXCEPT ![t] = c]
      /\ continuation' = [continuation EXCEPT ![t] = c]
      /\ handle_dropped' = handle_dropped
      /\ stack' = Append(Front, t)
      /\ tfd' = [tfd EXCEPT ![t] = fd]
      /\ UNCHANGED <<awaitersOnly, regsOnly, l_pc, target, m_running, x_pc>>
  BY <1>0 DEF CoAwaitTask, reactorVars, awaitersOnly, regsOnly, Callers, loopVars, otherVars
<1>3. TypeTasks
  BY TypeSplit DEF IInv
<1>4. /\ frame[c] = "body" /\ Front \in Seq(Tasks) /\ OnceEach(Front) /\ ToSet(Front) = ToSet(stack) \ {c}
      /\ l_pc \notin {"start", "top", "drain", "gate", "wait"}
  BY <1>2, ExecutingFacts DEF IInv, CoAwaitTask
<1>5. c < t /\ c # t
  <2>1. n_tasks \in Int /\ c \in Int /\ t = n_tasks + 1
    BY <1>0, <1>2, <1>3, SMT DEF TypeTasks, Tasks
  <2>2. ~(c > n_tasks)
    BY <1>2, <1>4 DEF IInv, TasksInv, NumberedInv
  <2> QED  BY <2>1, <2>2, SMT
<1>6. /\ frame'[t] = "body" /\ frame'[c] = "joining"
      /\ \A u \in Tasks : u # t /\ u # c => frame'[u] = frame[u]
      /\ owner'[t] = c /\ continuation'[t] = c
      /\ \A u \in Tasks : u # t => owner'[u] = owner[u] /\ continuation'[u] = continuation[u]
  BY <1>1, <1>2, <1>3, <1>5 DEF TypeTasks
<1>7. t \notin ToSet(Front)
  BY <1>1, <1>4 DEF IInv, StackInv
<1>8. stack' \in Seq(Tasks) /\ OnceEach(stack') /\ ToSet(stack') = (ToSet(stack) \ {c}) \cup {t}
  BY <1>1, <1>2, <1>4, <1>7, AppendFacts, SMT
<1>9. TypeTasks'
  BY <1>1, <1>2, <1>3, <1>8, BodyFacts DEF TypeTasks, Callers
<1>10. /\ TypeReactor' /\ TypeAwaiters' /\ ParkedInv' /\ AwaitersInv' /\ CallbacksInv'
       /\ RegisteredInv' /\ ResultsHaveReasons'
  <2>1. \A u \in Tasks : frame'[u] = "parked" <=> frame[u] = "parked"
    BY <1>1, <1>4, <1>6
  <2> QED  BY <1>2, <2>1, TaskStepKeeps
<1>11. TypeOK' /\ TargetInv'
  <2>1. TypeLoop'
    BY <1>2, TypeSplit DEF IInv, TypeLoop
  <2>2. TargetInv'
    <3>1. owner[t] = None
      BY <1>1 DEF IInv, TasksInv, NumberedInv
    <3> QED  BY <1>2, <1>6, <3>1, SMT DEF IInv, TypeOK, TargetInv, None, Main
  <2> QED  BY <1>9, <1>10, <2>1, <2>2, TypeSplitNext
<1>12. TasksInv'
  <2>1. NumberedInv /\ AwaitedInv /\ JoiningInv
    BY DEF IInv, TasksInv
  <2>2. NumberedInv'
    BY <1>1, <1>2, <1>4, <1>5, <1>6, <2>1, ZenonT(40) DEF NumberedInv
  <2>3. AwaitedInv'
    <3>1. ASSUME NEW u \in Tasks, Pending(u)', continuation'[u] # None, u # t
          PROVE  /\ continuation'[u] = owner'[u] /\ frame'[continuation'[u]] = "joining"
                 /\ \A v \in Tasks : Pending(v)' /\ continuation'[v] = continuation'[u] => v = u
      <4>1. Pending(u) /\ continuation'[u] = continuation[u] /\ owner'[u] = owner[u]
        BY <1>4, <1>6, <3>1 DEF Pending
      <4>2. /\ continuation[u] = owner[u] /\ continuation[u] \in Tasks /\ frame[continuation[u]] = "joining"
            /\ \A v \in Tasks : Pending(v) /\ continuation[v] = continuation[u] => v = u
        BY <1>3, <2>1, <3>1, <4>1 DEF AwaitedInv, TypeTasks
      <4>3. continuation[u] # c /\ continuation[u] # t
        BY <1>1, <1>4, <4>2
      <4>4. \A v \in Tasks : Pending(v)' /\ v # t => Pending(v)
        BY <1>4, <1>6 DEF Pending
      <4> QED  BY <1>6, <4>1, <4>2, <4>3, <4>4
    <3>2. /\ continuation'[t] = owner'[t] /\ frame'[continuation'[t]] = "joining"
          /\ \A v \in Tasks : Pending(v)' /\ continuation'[v] = continuation'[t] => v = t
      <4>1. ASSUME NEW v \in Tasks, Pending(v)', v # t, continuation'[v] = c
            PROVE  FALSE
        <5>1. continuation'[v] # None
          BY <1>2, <4>1, BoundsAssumption, SMT DEF Tasks, None, BoundsAssumption
        <5>2. Pending(v) /\ continuation[v] = c /\ continuation[v] # None
          BY <1>4, <1>6, <4>1, <5>1 DEF Pending
        <5> QED  BY <1>4, <2>1, <5>2 DEF AwaitedInv
      <4> QED  BY <1>6, <4>1
    <3> QED  BY <3>1, <3>2 DEF AwaitedInv
  <2>4. JoiningInv'
    <3>1. ASSUME NEW u \in Tasks, frame'[u] = "joining"
          PROVE  \E v \in Tasks : Pending(v)' /\ continuation'[v] = u
      <4>1. CASE u = c
        BY <1>1, <1>6, <4>1 DEF Pending
      <4>2. CASE u # c
        <5>1. frame[u] = "joining"
          BY <1>6, <3>1, <4>2
        <5>2. PICK v \in Tasks : Pending(v) /\ continuation[v] = u
          BY <2>1, <5>1 DEF JoiningInv
        <5>3. v # t /\ Pending(v)'
          BY <1>1, <1>6, <5>2 DEF Pending
        <5> QED  BY <1>6, <5>2, <5>3
      <4> QED  BY <4>1, <4>2
    <3> QED  BY <3>1 DEF JoiningInv
  <2> QED  BY <2>2, <2>3, <2>4 DEF TasksInv
<1>13. FramesAreOwned'
  <2>1. ASSUME NEW u \in Tasks, u # t, Alive(u)'
        PROVE  Owned(u)'
    <3>1. /\ owner'[u] = owner[u] /\ handle_dropped'[u] = handle_dropped[u] /\ Alive(u)
          /\ frame'[u] = "done" => frame[u] = "done"
      BY <1>2, <1>4, <1>6, <2>1 DEF Alive
    <3>2. owner[u] # None /\ owner[u] # Main => owner[u] \in Tasks
      BY <1>3 DEF TypeTasks, Callers
    <3>3. owner[u] \in Tasks /\ frame[owner[u]] \in {"body", "parked", "joining"} =>
            frame'[owner[u]] \in {"body", "parked", "joining"}
      BY <1>1, <1>6
    <3> QED  BY <3>1, <3>2, <3>3 DEF IInv, FramesAreOwned, Owned
  <2>2. Owned(t)'
    <3>1. ~handle_dropped[t]
      BY <1>1 DEF IInv, TasksInv, NumberedInv
    <3> QED  BY <1>2, <1>6, <3>1, SMT DEF Owned, Tasks, None
  <2> QED  BY <2>1, <2>2 DEF FramesAreOwned, Owned
<1>14. StackInv'
  BY <1>1, <1>2, <1>4, <1>6, <1>8 DEF IInv, StackInv
<1>15. TimerFdInv'
  <2>1. UNCHANGED aw
    BY <1>2 DEF awaitersOnly, awaiterVars
  <2> QED  BY <1>1, <1>2, <1>3, <2>1, BodyFacts DEF IInv, TimerFdInv, TypeTasks
<1> QED  BY <1>10, <1>11, <1>12, <1>13, <1>14, <1>15 DEF IInv

\* co_await of a SpawnHandle (spawn.h).
LEMMA CoAwaitHandleStep ==
  ASSUME IInv, NEW c \in Callers, NEW t \in Tasks, CoAwaitHandle(c, t)
  PROVE  IInv'
<1>1. /\ c \in Tasks /\ owner[t] = c /\ frame[t] # "done" /\ continuation[t] = None
      /\ continuation' = [continuation EXCEPT ![t] = c]
      /\ frame' = [frame EXCEPT ![c] = "joining"]
      /\ stack' = Front
      /\ UNCHANGED <<n_tasks, handle_dropped, owner, tfd>>
      /\ UNCHANGED <<awaitersOnly, regsOnly, l_pc, target, m_running, x_pc>>
  BY DEF CoAwaitHandle, reactorVars, awaitersOnly, regsOnly, Callers, loopVars, otherVars
<1>2. TypeTasks /\ NumberedInv /\ AwaitedInv /\ JoiningInv
  BY TypeSplit DEF IInv, TasksInv
<1>3. /\ frame[c] = "body" /\ Front \in Seq(Tasks) /\ OnceEach(Front) /\ ToSet(Front) = ToSet(stack) \ {c}
      /\ l_pc \notin {"start", "top", "drain", "gate", "wait"}
  BY <1>1, ExecutingFacts DEF IInv, CoAwaitHandle
<1>4. c # None /\ c # t /\ Pending(t)
  <2>1. c # None /\ c \in Int
    BY <1>1, BoundsAssumption, SMT DEF BoundsAssumption, Tasks, None
  <2> QED  BY <1>1, <1>2, <2>1, SMT DEF NumberedInv, Pending, TypeTasks
<1>5. /\ frame'[c] = "joining" /\ continuation'[t] = c
      /\ \A u \in Tasks : u # c => frame'[u] = frame[u]
      /\ \A u \in Tasks : u # t => continuation'[u] = continuation[u]
      /\ \A u \in Tasks : Pending(u)' <=> Pending(u)
  BY <1>1, <1>2, <1>3 DEF TypeTasks, Pending
<1>6. TypeTasks'
  BY <1>1, <1>2, <1>3 DEF TypeTasks
<1>7. /\ TypeReactor' /\ TypeAwaiters' /\ ParkedInv' /\ AwaitersInv' /\ CallbacksInv'
      /\ RegisteredInv' /\ ResultsHaveReasons'
  <2>1. \A u \in Tasks : frame'[u] = "parked" <=> frame[u] = "parked"
    BY <1>3, <1>5
  <2> QED  BY <1>1, <2>1, TaskStepKeeps
<1>8. TypeOK' /\ TargetInv' /\ TimerFdInv'
  <2>1. TypeLoop'
    BY <1>1, TypeSplit DEF IInv, TypeLoop
  <2>2. TargetInv' /\ TimerFdInv'
    BY <1>1 DEF IInv, TargetInv, TimerFdInv, awaitersOnly, awaiterVars
  <2> QED  BY <1>6, <1>7, <2>1, <2>2, TypeSplitNext
<1>9. NumberedInv'
  BY <1>1, <1>2, <1>3, <1>4, <1>5, SMT DEF NumberedInv, Pending
<1>10. AwaitedInv'
  <2>1. \A u \in Tasks : Pending(u) => continuation[u] # c
    BY <1>2, <1>3, <1>4 DEF AwaitedInv
  <2> QED  BY <1>1, <1>2, <1>4, <1>5, <2>1, SMT DEF AwaitedInv, TypeTasks
<1>11. JoiningInv'
  <2>1. ASSUME NEW u \in Tasks, u # c, frame'[u] = "joining"
        PROVE  \E v \in Tasks : Pending(v)' /\ continuation'[v] = u
    <3>1. PICK v \in Tasks : Pending(v) /\ continuation[v] = u
      BY <1>2, <1>5, <2>1 DEF JoiningInv
    <3>2. v # t
      BY <1>1, <3>1, BoundsAssumption, SMT DEF BoundsAssumption, Tasks, None
    <3> QED  BY <1>5, <3>1, <3>2
  <2> QED  BY <1>4, <1>5, <2>1 DEF JoiningInv
<1>12. FramesAreOwned'
  <2>1. ASSUME NEW u \in Tasks, Alive(u)'
        PROVE  Owned(u)'
    <3>1. Alive(u) /\ (frame'[u] = "done" => frame[u] = "done")
      BY <1>3, <1>5, <2>1 DEF Alive
    <3>2. owner[u] # None /\ owner[u] # Main => owner[u] \in Tasks
      BY <1>2 DEF TypeTasks, Callers
    <3> QED  BY <1>1, <1>5, <3>1, <3>2, SMT DEF IInv, FramesAreOwned, Owned
  <2> QED  BY <2>1 DEF FramesAreOwned, Owned
<1>13. StackInv'
  BY <1>1, <1>3, <1>5 DEF IInv, StackInv
<1> QED  BY <1>7, <1>8, <1>9, <1>10, <1>11, <1>12, <1>13 DEF IInv, TasksInv

\* A finished frame that is freed: nothing waits for it and it holds nothing.
LEMMA FreedKeeps ==
  ASSUME IInv, NEW t \in Tasks, frame[t] = "done",
         frame' = [frame EXCEPT ![t] = "freed"], owner' = [owner EXCEPT ![t] = None],
         UNCHANGED <<stack, n_tasks, continuation, handle_dropped, tfd, awaitersOnly, regsOnly>>,
         TypeLoop', TargetInv', l_pc' \notin {"start", "top", "drain", "gate", "wait"}
  PROVE  IInv'
<1>1. TypeTasks /\ NumberedInv /\ AwaitedInv /\ JoiningInv
  BY TypeSplit DEF IInv, TasksInv
<1>2. /\ frame'[t] = "freed" /\ owner'[t] = None
      /\ \A u \in Tasks : u # t => frame'[u] = frame[u] /\ owner'[u] = owner[u]
      /\ \A u \in Tasks : Pending(u)' <=> Pending(u)
  BY <1>1 DEF TypeTasks, Pending
<1>3. TypeTasks'
  BY <1>1 DEF TypeTasks
<1>4. /\ TypeReactor' /\ TypeAwaiters' /\ ParkedInv' /\ AwaitersInv' /\ CallbacksInv'
      /\ RegisteredInv' /\ ResultsHaveReasons'
  <2>1. \A u \in Tasks : frame'[u] = "parked" <=> frame[u] = "parked"
    BY <1>2
  <2> QED  BY <2>1, TaskStepKeeps
<1>5. TypeOK' /\ TimerFdInv'
  <2>1. TimerFdInv'
    BY DEF IInv, TimerFdInv, awaitersOnly, awaiterVars
  <2> QED  BY <1>3, <1>4, <2>1, TypeSplitNext
<1>6. NumberedInv'
  <2>1. None < t
    BY BoundsAssumption, SMT DEF BoundsAssumption, Tasks, None
  <2> QED  BY <1>1, <1>2, <2>1 DEF NumberedInv
<1>7. AwaitedInv'
  <2>1. \A u \in Tasks : Pending(u) => u # t
    BY DEF Pending
  <2>2. \A u \in Tasks : continuation[u] # None => continuation[u] \in Tasks
    BY <1>1 DEF TypeTasks
  <2> QED  BY <1>1, <1>2, <2>1, <2>2 DEF AwaitedInv
<1>8. JoiningInv'
  BY <1>1, <1>2 DEF JoiningInv
<1>9. FramesAreOwned'
  <2>1. ASSUME NEW u \in Tasks, Alive(u)'
        PROVE  Owned(u)'
    <3>1. Alive(u) /\ u # t
      BY <1>2, <2>1 DEF Alive
    <3>2. owner[u] # None /\ owner[u] # Main => owner[u] \in Tasks
      BY <1>1 DEF TypeTasks, Callers
    <3> QED  BY <1>2, <3>1, <3>2, SMT DEF IInv, FramesAreOwned, Owned
  <2> QED  BY <2>1 DEF FramesAreOwned, Owned
<1>10. StackInv'
  BY <1>2 DEF IInv, StackInv
<1> QED  BY <1>4, <1>5, <1>6, <1>7, <1>8, <1>9, <1>10 DEF IInv, TasksInv

\* sync_wait destroys the finished runner (sync_wait.h, 97-111).
LEMMA SyncWaitReturnStep ==
  ASSUME IInv, SyncWaitReturn
  PROVE  IInv'
<1>1. target \in Tasks /\ frame[target] = "done"
  BY DEF IInv, TargetInv, TypeOK, SyncWaitReturn
<1>2. PICK t \in Tasks : t = target
  BY <1>1
<1>3. TypeLoop' /\ TargetInv' /\ l_pc' = "off"
  BY TypeSplit DEF IInv, TypeLoop, TargetInv, SyncWaitReturn, otherVars
<1> QED
  BY <1>1, <1>2, <1>3, FreedKeeps DEF SyncWaitReturn, awaitersOnly, regsOnly, reactorVars

\* The holder lets go of a task: a finished frame is destroyed, a pending one will
\* destroy itself (spawn.h, 121-131).
LEMMA DropHandleStep ==
  ASSUME IInv, NEW c \in Callers, NEW t \in Tasks, DropHandle(c, t)
  PROVE  IInv'
<1>1. /\ owner[t] = c /\ Executing(c)
      /\ owner' = [owner EXCEPT ![t] = None]
      /\ frame' = [frame EXCEPT ![t] = Released(t)]
      /\ handle_dropped' = [handle_dropped EXCEPT ![t] = handle_dropped[t] \/ frame[t] # "done"]
      /\ UNCHANGED <<stack, n_tasks, continuation, tfd, awaitersOnly, regsOnly, l_pc, target, m_running, x_pc>>
  BY DEF DropHandle, reactorVars, awaitersOnly, regsOnly, loopVars, otherVars
<1>2. TypeTasks /\ NumberedInv /\ AwaitedInv /\ JoiningInv
  BY TypeSplit DEF IInv, TasksInv
<1>3. /\ owner'[t] = None /\ \A u \in Tasks : u # t => owner'[u] = owner[u]
      /\ \A u \in Tasks : u # t => handle_dropped'[u] = handle_dropped[u]
  BY <1>1, <1>2 DEF TypeTasks
<1>4. /\ l_pc' \notin {"start", "top", "drain", "gate", "wait"}
      /\ c \in Tasks => frame[c] = "body"
      /\ c \notin Tasks => c = Main /\ l_pc = "off"
  BY <1>1, ExecutingFacts, MainFacts DEF IInv, Callers
<1>5. TypeLoop' /\ TargetInv'
  <2>1. TypeLoop'
    BY <1>1, TypeSplit DEF IInv, TypeLoop
  <2>2. TargetInv'
    <3>1. 0 \notin Tasks
      BY BoundsAssumption, SMT DEF BoundsAssumption, Tasks
    <3>2. target \in Tasks /\ l_pc # "off" => target # t
      BY <1>1, <1>4, <3>1, SMT DEF IInv, TargetInv, None, Tasks, Main
    <3> QED  BY <1>1, <1>3, <3>2 DEF IInv, TargetInv, TypeOK
  <2> QED  BY <2>1, <2>2
<1>6. CASE frame[t] = "done"
  <2>1. frame' = [frame EXCEPT ![t] = "freed"]
    BY <1>1, <1>6 DEF Released
  <2>2. handle_dropped' = handle_dropped
    BY <1>1, <1>2, <1>6 DEF TypeTasks
  <2> QED  BY <1>1, <1>4, <1>5, <1>6, <2>1, <2>2, FreedKeeps
<1>7. CASE frame[t] # "done"
  <2>1. frame' = frame /\ handle_dropped'[t]
    BY <1>1, <1>2, <1>7 DEF Released, TypeTasks
  <2>2. TypeTasks'
    BY <1>1, <1>2, <2>1 DEF TypeTasks
  <2>3. /\ TypeReactor' /\ TypeAwaiters' /\ ParkedInv' /\ AwaitersInv' /\ CallbacksInv'
        /\ RegisteredInv' /\ ResultsHaveReasons'
    BY <1>1, <2>1, TaskStepKeeps
  <2>4. TypeOK' /\ TimerFdInv' /\ StackInv'
    <3>1. TimerFdInv' /\ StackInv'
      BY <1>1, <2>1 DEF IInv, TimerFdInv, StackInv, awaitersOnly, awaiterVars
    <3> QED  BY <1>5, <2>2, <2>3, <3>1, TypeSplitNext
  <2>5. continuation[t] = None \/ ~Pending(t)
    <3>1. c # None
      BY BoundsAssumption, SMT DEF BoundsAssumption, Callers, Tasks, None, Main
    <3>2. ASSUME Pending(t), continuation[t] # None
          PROVE  FALSE
      <4>1. continuation[t] = c /\ c \in Tasks /\ frame[c] = "joining"
        BY <1>1, <1>2, <3>2 DEF AwaitedInv, TypeTasks
      <4> QED  BY <1>4, <4>1
    <3> QED  BY <1>1, <1>2, <3>1, <3>2 DEF NumberedInv
  <2>6. NumberedInv'
    <3>1. None < t /\ c # None
      BY BoundsAssumption, SMT DEF BoundsAssumption, Callers, Tasks, None, Main
    <3>2. frame[t] \notin {"none", "freed"}
      BY <1>1, <1>2, <3>1 DEF NumberedInv
    <3> QED  BY <1>1, <1>2, <1>3, <2>1, <3>1, <3>2, SMT DEF NumberedInv
  <2>7. AwaitedInv' /\ JoiningInv'
    BY <1>1, <1>2, <1>3, <2>1, <2>5, SMT DEF AwaitedInv, JoiningInv, Pending
  <2>8. FramesAreOwned'
    <3>1. ASSUME NEW u \in Tasks, Alive(u)'
          PROVE  Owned(u)'
      BY <1>3, <1>7, <2>1, <3>1 DEF IInv, FramesAreOwned, Owned, Alive
    <3> QED  BY <3>1 DEF FramesAreOwned, Owned
  <2> QED  BY <1>5, <2>3, <2>4, <2>6, <2>7, <2>8 DEF IInv, TasksInv
<1> QED  BY <1>6, <1>7

\* The body of t ends (task.h, 53-60; spawn.h, 48-55, 121-131).
LEMMA FinishStep ==
  ASSUME IInv, NEW t \in Callers, Finish(t)
  PROVE  IInv'
<1> DEFINE locals == {a \in Awaiters : aw[a].task = t}
           kids == {k \in Tasks : owner[k] = t}
<1>0. PICK next : next = IF handle_dropped[t] THEN None ELSE continuation[t]
  OBVIOUS
<1>1. /\ t \in Tasks /\ Executing(t)
      /\ aw' = [a \in Awaiters |-> IF a \in locals THEN NoAwaiter ELSE aw[a]]
      /\ callbacks' = Without(callbacks, locals)
      /\ owner' = [k \in Tasks |-> IF k \in kids THEN None ELSE owner[k]]
      /\ handle_dropped' = [k \in Tasks |-> handle_dropped[k] \/ (k \in kids /\ frame[k] # "done")]
      /\ frame' = [k \in Tasks |->
                     IF k = t THEN IF handle_dropped[t] THEN "freed" ELSE "done"
                     ELSE IF k = next THEN "body"
                     ELSE IF k \in kids THEN Released(k) ELSE frame[k]]
      /\ stack' = IF next = None THEN Front ELSE Append(Front, next)
      /\ tfd' = [tfd EXCEPT ![t] = NoFd]
      /\ interest' = [h \in Registered \ {tfd[t]} |-> interest[h]]
      /\ UNCHANGED <<m_ready, m_pending_io, l_pc, target, m_running, x_pc, n_tasks, waits_for,
                     continuation, n_suspends, stopped>>
  BY <1>0 DEF Finish, closes, Callers, loopVars, otherVars
<1> HIDE DEF locals, kids
<1>2. TypeTasks /\ TypeAwaiters /\ TypeReactor /\ NumberedInv /\ AwaitedInv /\ JoiningInv
  BY TypeSplit DEF IInv, TasksInv
<1>3. /\ frame[t] = "body" /\ Front \in Seq(Tasks) /\ OnceEach(Front) /\ ToSet(Front) = ToSet(stack) \ {t}
      /\ l_pc \notin {"start", "top", "drain", "gate", "wait"}
  BY <1>1, ExecutingFacts DEF IInv
<1>4. t \in Nat \ {0} /\ None = -1 /\ Main = 0 /\ \A k \in Tasks : k # None
  BY <1>1, BoundsAssumption, SMT DEF BoundsAssumption, Tasks, None, Main
\* The one that waits is the holder, which no kid is.
<1>5. /\ Pending(t) /\ Owned(t) /\ t \notin kids
      /\ next = None \/ (next \in Tasks /\ next = continuation[t] /\ next = owner[t]
                           /\ frame[next] = "joining" /\ next # t /\ next \notin kids)
  <2>1. Pending(t) /\ Owned(t)
    BY <1>1, <1>3 DEF IInv, FramesAreOwned, Owned, Alive, Pending
  <2>2. t \notin kids
    BY <1>1, <1>2, <1>4, SMT DEF NumberedInv, kids
  <2>3. ASSUME next # None
        PROVE  /\ next \in Tasks /\ next = continuation[t] /\ next = owner[t]
               /\ frame[next] = "joining"
    BY <1>0, <1>1, <1>2, <2>1, <2>3 DEF AwaitedInv, TypeTasks
  <2>4. ASSUME next \in Tasks, next = owner[t]
        PROVE  next \notin kids
    <3>1. next \in Int /\ next < t
      BY <1>1, <1>2, <2>4, SMT DEF NumberedInv, Tasks
    <3> QED  BY <1>2, <1>4, <2>4, <3>1, SMT DEF NumberedInv, kids
  <2> QED  BY <1>3, <2>1, <2>2, <2>3, <2>4
<1>6. /\ frame'[t] = IF handle_dropped[t] THEN "freed" ELSE "done"
      /\ next # None => frame'[next] = "body"
      /\ \A k \in Tasks : k # t /\ k # next /\ k \in kids => frame'[k] = IF frame[k] = "done" THEN "freed" ELSE frame[k]
      /\ \A k \in Tasks : k # t /\ k # next /\ k \notin kids => frame'[k] = frame[k]
  <2>1. \A k \in Tasks : Released(k) = IF frame[k] = "done" THEN "freed" ELSE frame[k]
    BY DEF Released
  <2> HIDE DEF Released
  <2> QED  BY <1>1, <1>5, <2>1
<1>7. /\ \A k \in Tasks : owner'[k] = IF k \in kids THEN None ELSE owner[k]
      /\ \A k \in Tasks : handle_dropped'[k] <=> handle_dropped[k] \/ (k \in kids /\ frame[k] # "done")
  BY <1>1
<1>8. /\ \A k \in Tasks : Pending(k)' <=> Pending(k) /\ k # t
      /\ \A k \in Tasks : frame'[k] = "parked" <=> frame[k] = "parked"
      /\ \A k \in Tasks : frame'[k] = "joining" <=> frame[k] = "joining" /\ k # next
      /\ \A k \in Tasks : frame'[k] = "none" <=> frame[k] = "none"
      /\ \A k \in Tasks : frame'[k] = "body" <=> k = next \/ (frame[k] = "body" /\ k # t)
  <2>1. ASSUME NEW k \in Tasks
        PROVE  /\ Pending(k)' <=> Pending(k) /\ k # t
               /\ frame'[k] = "parked" <=> frame[k] = "parked"
               /\ frame'[k] = "joining" <=> frame[k] = "joining" /\ k # next
               /\ frame'[k] = "none" <=> frame[k] = "none"
               /\ frame'[k] = "body" <=> k = next \/ (frame[k] = "body" /\ k # t)
    <3>1. CASE k = t
      BY <1>3, <1>4, <1>5, <1>6, <3>1 DEF Pending
    <3>2. CASE k # t /\ k = next
      BY <1>4, <1>5, <1>6, <3>2 DEF Pending
    <3>3. CASE k # t /\ k # next /\ k \in kids
      BY <1>6, <3>3 DEF Pending
    <3>4. CASE k # t /\ k # next /\ k \notin kids
      BY <1>6, <3>4 DEF Pending
    <3> QED  BY <3>1, <3>2, <3>3, <3>4
  <2> QED  BY <2>1
\* The awaiter of a timerfd is gone before the descriptor is.
<1>9. tfd[t] \notin Registered /\ interest' = interest
  <2>1. ASSUME tfd[t] \in Registered
        PROVE  FALSE
    <3>1. tfd[t] \in Handles /\ tfd[t] # NoFd /\ interest[tfd[t]].token \in Awaiters
      BY <1>2, <2>1, WakeFdAssumption DEF WakeFdAssumption, NoFd, TypeReactor
    <3>2. PICK a \in Awaiters : a = interest[tfd[t]].token
      BY <3>1
    <3>3. aw[a].m_registered /\ aw[a].m_handle = tfd[t]
      BY <2>1, <3>2 DEF IInv, RegisteredInv
    <3>4. aw[a].task = t /\ aw[a].state = "parked"
      BY <1>1, <3>1, <3>3 DEF IInv, TimerFdInv, AwaitersInv
    <3> QED  BY <1>3, <3>4 DEF IInv, ParkedInv
  <2>2. Registered \ {tfd[t]} = Registered
    BY <2>1
  <2> QED  BY <1>1, <1>2, <2>1, <2>2 DEF TypeReactor
\* Nor does anything else reach an awaiter of t.
<1>10. /\ \A a \in locals : aw[a].state # "parked" /\ ~aw[a].m_registered
       /\ \A a \in Awaiters : aw'[a] = IF a \in locals THEN NoAwaiter ELSE aw[a]
       /\ callbacks' \in Seq(Awaiters) /\ ToSet(callbacks') = ToSet(callbacks) \ locals
       /\ OnceEach(callbacks) => OnceEach(callbacks')
  <2>1. \A a \in locals : a \in Awaiters /\ aw[a].task = t
    BY DEF locals
  <2>2. \A a \in locals : aw[a].state # "parked"
    BY <1>3, <2>1 DEF IInv, ParkedInv
  <2>3. \A a \in locals : ~aw[a].m_registered
    BY <2>1, <2>2 DEF IInv, AwaitersInv
  <2> QED  BY <1>1, <1>2, <2>2, <2>3, WithoutFacts DEF TypeAwaiters
<1>11. TypeOK'
  <2>1. TypeLoop'
    BY <1>1, TypeSplit DEF IInv, TypeLoop
  <2>2. TypeReactor'
    BY <1>1, <1>2, <1>9 DEF TypeReactor, Registered
  <2>3. TypeAwaiters'
    BY <1>1, <1>2, <1>10, AwaiterTypes DEF TypeAwaiters
  <2>4. stack' \in Seq(Tasks)
    BY <1>1, <1>3, <1>5, AppendFacts
  <2>5. frame' \in [Tasks -> {"none", "body", "parked", "joining", "done", "freed"}]
    <3>2. ASSUME NEW k \in Tasks
          PROVE  frame'[k] \in {"none", "body", "parked", "joining", "done", "freed"}
      <4>1. frame[k] \in {"none", "body", "parked", "joining", "done", "freed"}
        BY <1>2 DEF TypeTasks
      <4> QED  BY <1>4, <1>6, <4>1
    <3> QED  BY <1>1, <3>2
  <2>6. TypeTasks'
    BY <1>1, <1>2, <2>4, <2>5 DEF TypeTasks
  <2> QED  BY <2>1, <2>2, <2>3, <2>6, TypeSplitNext
<1>12. StackInv'
  <2>1. next # None => next \notin ToSet(Front)
    BY <1>3, <1>5 DEF IInv, StackInv
  <2>2. OnceEach(stack') /\ ToSet(stack') = (ToSet(stack) \ {t}) \cup (IF next = None THEN {} ELSE {next})
    BY <1>1, <1>3, <1>5, <2>1, AppendFacts, SMT
  <2>3. \A k \in Tasks : k # None
    BY BoundsAssumption, SMT DEF BoundsAssumption, Tasks, None
  <2> QED  BY <1>1, <1>3, <1>8, <2>2, <2>3, SMT DEF IInv, StackInv
<1>13. TargetInv'
  <2>1. l_pc # "off" /\ target # None => target \notin kids /\ target \in Tasks
    BY <1>4 DEF IInv, TargetInv, TypeOK, kids
  <2> QED  BY <1>1, <1>7, <2>1 DEF IInv, TargetInv
<1>14. NumberedInv'
  <2>1. ASSUME NEW k \in Tasks
        PROVE  /\ frame'[k] = "none" <=> k > n_tasks
               /\ frame'[k] = "none" => continuation[k] = None /\ ~handle_dropped'[k]
               /\ owner'[k] < k
    <3>1. k \in Nat \ {0}
      BY BoundsAssumption, SMT DEF BoundsAssumption, Tasks
    <3>2. frame[k] = "none" => k \notin kids
      BY <1>2, <1>4, SMT DEF NumberedInv, kids
    <3> QED  BY <1>2, <1>4, <1>7, <1>8, <3>1, <3>2, SMT DEF NumberedInv
  <2>2. ASSUME NEW k \in Tasks, frame'[k] \in {"none", "freed"}
        PROVE  owner'[k] = None
    <3>1. CASE k = t
      BY <1>1, <1>5, <1>6, <1>7, <2>2, <3>1 DEF Owned
    <3>2. CASE k # t
      <4>1. k # next \/ next = None
        BY <1>6, <2>2
      <4>2. CASE k \in kids
        BY <1>7, <4>2
      <4>3. CASE k \notin kids
        BY <1>2, <1>4, <1>6, <1>7, <2>2, <3>2, <4>1, <4>3, BoundsAssumption
           DEF NumberedInv, BoundsAssumption, Tasks
      <4> QED  BY <4>2, <4>3
    <3> QED  BY <3>1, <3>2
  <2> QED  BY <1>1, <2>1, <2>2 DEF NumberedInv
<1>15. AwaitedInv'
  <2>1. ASSUME NEW k \in Tasks, Pending(k)', continuation[k] # None
        PROVE  /\ continuation[k] = owner'[k] /\ frame'[continuation[k]] = "joining"
               /\ \A u \in Tasks : Pending(u)' /\ continuation[u] = continuation[k] => u = k
    <3>1. Pending(k) /\ k # t
      BY <1>8, <2>1
    <3>2. /\ continuation[k] = owner[k] /\ frame[continuation[k]] = "joining" /\ continuation[k] \in Tasks
          /\ \A u \in Tasks : Pending(u) /\ continuation[u] = continuation[k] => u = k
      BY <1>2, <2>1, <3>1 DEF AwaitedInv, TypeTasks
    <3>3. k \notin kids
      BY <1>3, <3>2 DEF kids
    <3>4. continuation[k] # next
      BY <1>1, <1>5, <2>1, <3>1, <3>2
    <3> QED  BY <1>7, <1>8, <3>2, <3>3, <3>4
  <2> QED  BY <1>1, <2>1 DEF AwaitedInv
<1>16. JoiningInv'
  <2>1. ASSUME NEW k \in Tasks, frame'[k] = "joining"
        PROVE  \E u \in Tasks : Pending(u)' /\ continuation[u] = k
    <3>1. frame[k] = "joining" /\ k # next
      BY <1>8, <2>1
    <3>2. PICK u \in Tasks : Pending(u) /\ continuation[u] = k
      BY <1>2, <3>1 DEF JoiningInv
    <3>3. u # t
      <4>1. ASSUME u = t
            PROVE  FALSE
        <5>1. k # None /\ owner[t] = k
          BY <1>2, <3>2, <4>1, BoundsAssumption, SMT DEF AwaitedInv, BoundsAssumption, Tasks, None
        <5>2. ~handle_dropped[t]
          BY <1>5, <5>1 DEF Owned
        <5> QED  BY <1>0, <3>1, <3>2, <4>1, <5>2
      <4> QED  BY <4>1
    <3> QED  BY <1>8, <3>2, <3>3
  <2> QED  BY <1>1, <2>1 DEF JoiningInv
<1>17. FramesAreOwned'
  <2>1. ASSUME NEW k \in Tasks, Alive(k)'
        PROVE  Owned(k)'
    <3>1. owner[k] # None /\ owner[k] # Main => owner[k] \in Tasks
      BY <1>2 DEF TypeTasks, Callers
    <3>2. CASE k = t
      <4>1. ~handle_dropped[t] /\ frame'[t] = "done"
        BY <1>6, <2>1, <3>2 DEF Alive
      <4>2. owner[t] # None /\ owner'[t] = owner[t] /\ ~handle_dropped'[t] /\ owner[t] # t
        BY <1>1, <1>5, <1>7, <4>1 DEF Owned, kids
      <4> QED  BY <1>5, <1>8, <3>1, <3>2, <4>1, <4>2 DEF Owned, Pending
    <3>3. CASE k # t
      <4>1. Alive(k)
        <5>1. frame[next] = "joining" \/ k # next
          BY <1>4, <1>5
        <5> QED  BY <1>6, <2>1, <3>3, <5>1 DEF Alive
      <4>2. Owned(k)
        BY <4>1 DEF IInv, FramesAreOwned, Owned
      <4>3. CASE k \in kids
        <5>1. frame[k] # "done"
          BY <1>4, <1>5, <1>6, <2>1, <3>3, <4>3 DEF Alive
        <5>2. frame'[k] # "done"
          BY <1>4, <1>5, <1>6, <3>3, <4>3, <5>1
        <5> QED  BY <1>7, <4>3, <5>1, <5>2 DEF Owned
      <4>4. CASE k \notin kids
        <5>1. owner'[k] = owner[k] /\ (handle_dropped'[k] <=> handle_dropped[k]) /\ owner[k] # t
          BY <1>7, <4>4 DEF kids
        <5>2. frame'[k] = "done" => frame[k] = "done"
          BY <1>4, <1>5, <1>6, <3>3, <4>4
        <5> QED  BY <1>8, <3>1, <4>2, <5>1, <5>2 DEF Owned, Pending
      <4> QED  BY <4>3, <4>4
    <3> QED  BY <3>2, <3>3
  <2> QED  BY <2>1 DEF FramesAreOwned, Owned
<1>18. ParkedInv'
  <2>1. ParkedInv
    BY DEF IInv
  <2>2. \A k \in Tasks : frame[k] = "parked" /\ waits_for[k] # 0 => aw'[waits_for[k]] = aw[waits_for[k]]
    BY <1>2, <1>10, <2>1, SMT DEF ParkedInv, TypeAwaiters
  <2>3. \A a \in Awaiters : aw'[a].state = "parked" => aw'[a] = aw[a]
    BY <1>10, NoAwaiterFacts
  <2>4. \A k \in Tasks : k \in ToSet(m_ready) =>
          frame'[k] = "parked" /\ (waits_for[k] # 0 => aw'[waits_for[k]].m_queued)
    BY <1>8, <2>1, <2>2 DEF ParkedInv
  <2>5. \A k \in Tasks : frame'[k] = "parked" =>
          IF waits_for[k] = 0 THEN k \in ToSet(m_ready)
          ELSE aw'[waits_for[k]].state = "parked" /\ aw'[waits_for[k]].task = k
    BY <1>8, <2>1, <2>2, SMT DEF ParkedInv
  <2>6. \A a \in Awaiters : aw'[a].state = "parked" =>
          /\ aw'[a].task \in Tasks /\ frame'[aw'[a].task] = "parked" /\ waits_for[aw'[a].task] = a
          /\ aw'[a].m_queued => aw'[a].task \in ToSet(m_ready)
    BY <1>8, <2>1, <2>3, SMT DEF ParkedInv
  <2>7. OnceEach(m_ready) /\ m_ready' = m_ready /\ waits_for' = waits_for
    BY <1>1, <2>1 DEF ParkedInv
  <2> QED  BY <2>4, <2>5, <2>6, <2>7 DEF ParkedInv
<1>19. AwaitersInv' /\ ResultsHaveReasons'
  BY <1>1, <1>10, NoAwaiterFacts DEF IInv, AwaitersInv, ResultsHaveReasons
<1>20. CallbacksInv'
  <2>1. CallbacksInv
    BY DEF IInv
  <2>2. stopped => callbacks' = <<>>
    BY <1>2, <1>10, <2>1, SeqFacts, ZenonT(40) DEF CallbacksInv, TypeAwaiters
  <2>3. \A a \in Awaiters : a \in ToSet(callbacks') => aw'[a] = aw[a] /\ a \in ToSet(callbacks)
    BY <1>10
  <2>4. \A a \in Awaiters : aw'[a].state = "parked" => aw'[a] = aw[a] /\ a \notin locals
    BY <1>10, NoAwaiterFacts
  <2> QED  BY <1>1, <1>10, <2>1, <2>2, <2>3, <2>4 DEF CallbacksInv
<1>21. RegisteredInv'
  <2>1. RegisteredInv /\ Registered' = Registered
    BY <1>9 DEF IInv, Registered
  <2>2. \A h \in Registered : interest[h].token \in Awaiters
    BY <1>2 DEF TypeReactor
  <2>3. \A h \in Registered : aw'[interest[h].token] = aw[interest[h].token]
    BY <1>10, <2>1, <2>2 DEF RegisteredInv
  <2> QED  BY <1>1, <1>9, <1>10, <2>1, <2>3, NoAwaiterFacts, SMTT(30) DEF RegisteredInv
<1>22. TimerFdInv'
  <2>1. \A u \in Tasks : tfd'[u] = IF u = t THEN NoFd ELSE tfd[u]
    BY <1>1, <1>2 DEF TypeTasks
  <2> QED  BY <1>10, <2>1, NoAwaiterFacts, SMT DEF IInv, TimerFdInv, NoFd
<1> QED
  BY <1>11, <1>12, <1>13, <1>14, <1>15, <1>16, <1>17, <1>18, <1>19, <1>20, <1>21, <1>22
     DEF IInv, TasksInv
-----------------------------------------------------------------------------
(* Coroutines are suspended and resumed. *)

\* Between running and being suspended nothing changes for those that wait for a
\* task or hold it.
LEMMA MovesKeep ==
  ASSUME IInv, NEW c \in Tasks, NEW s \in {"body", "parked"}, frame[c] \in {"body", "parked"},
         frame' = [frame EXCEPT ![c] = s],
         UNCHANGED <<n_tasks, continuation, handle_dropped, owner>>
  PROVE  TasksInv' /\ FramesAreOwned'
<1>1. TypeTasks /\ NumberedInv /\ AwaitedInv /\ JoiningInv
  BY TypeSplit DEF IInv, TasksInv
<1>2. ASSUME NEW u \in Tasks
      PROVE  /\ Pending(u)' <=> Pending(u)
             /\ frame'[u] = "joining" <=> frame[u] = "joining"
             /\ frame'[u] = "none" <=> frame[u] = "none"
             /\ frame'[u] = "freed" <=> frame[u] = "freed"
             /\ frame'[u] = "done" <=> frame[u] = "done"
  BY <1>1 DEF TypeTasks, Pending
<1>3. NumberedInv'
  BY <1>1, <1>2 DEF NumberedInv
<1>4. AwaitedInv'
  BY <1>1, <1>2, SMT DEF AwaitedInv, TypeTasks
<1>5. JoiningInv'
  BY <1>1, <1>2 DEF JoiningInv
<1>6. FramesAreOwned'
  <2>1. ASSUME NEW u \in Tasks, Alive(u)'
        PROVE  Owned(u)'
    <3>1. Alive(u)
      BY <1>1, <1>2, <2>1 DEF Alive, TypeTasks
    <3>2. owner[u] # None /\ owner[u] # Main => owner[u] \in Tasks
      BY <1>1 DEF TypeTasks, Callers
    <3> QED  BY <1>2, <3>1, <3>2 DEF IInv, FramesAreOwned, Owned, Pending
  <2> QED  BY <2>1 DEF FramesAreOwned, Owned
<1> QED  BY <1>3, <1>4, <1>5, <1>6 DEF TasksInv

\* c is suspended and its resumer goes on.
LEMMA SuspendKeeps ==
  ASSUME IInv, NEW c \in Tasks, Executing(c), NEW a \in Awaiters \cup {0}, Suspend(c, a),
         UNCHANGED <<loopVars, otherVars>>
  PROVE  /\ TypeLoop' /\ TypeTasks' /\ TasksInv' /\ FramesAreOwned' /\ StackInv' /\ TargetInv'
         /\ waits_for' \in [Tasks -> Awaiters \cup {0}]
         /\ frame[c] = "body"
         /\ \A u \in Tasks : frame'[u] = IF u = c THEN "parked" ELSE frame[u]
         /\ \A u \in Tasks : waits_for'[u] = IF u = c THEN a ELSE waits_for[u]
         /\ UNCHANGED tfd
<1>1. /\ frame' = [frame EXCEPT ![c] = "parked"]
      /\ waits_for' = [waits_for EXCEPT ![c] = a]
      /\ stack' = Front
      /\ UNCHANGED <<n_tasks, continuation, handle_dropped, owner, tfd, l_pc, target, m_running, x_pc>>
  BY DEF Suspend, loopVars, otherVars
<1>2. TypeTasks /\ TypeAwaiters
  BY TypeSplit DEF IInv
<1>3. /\ frame[c] = "body" /\ Front \in Seq(Tasks) /\ OnceEach(Front) /\ ToSet(Front) = ToSet(stack) \ {c}
      /\ l_pc \notin {"start", "top", "drain", "gate", "wait"}
  BY ExecutingFacts DEF IInv
<1>4. TasksInv' /\ FramesAreOwned'
  BY <1>1, <1>3, MovesKeep
<1>5. TypeLoop' /\ TargetInv'
  BY <1>1, TypeSplit DEF IInv, TypeLoop, TargetInv
<1>6. TypeTasks' /\ waits_for' \in [Tasks -> Awaiters \cup {0}]
  BY <1>1, <1>2, <1>3 DEF TypeTasks, TypeAwaiters
<1>7. /\ \A u \in Tasks : frame'[u] = IF u = c THEN "parked" ELSE frame[u]
      /\ \A u \in Tasks : waits_for'[u] = IF u = c THEN a ELSE waits_for[u]
  BY <1>1, <1>2 DEF TypeTasks, TypeAwaiters
<1>8. StackInv'
  BY <1>1, <1>3, <1>7, SMT DEF IInv, StackInv
<1> QED  BY <1>1, <1>3, <1>4, <1>5, <1>6, <1>7, <1>8

\* The awaiter that is constructed next is not reached from anywhere.
LEMMA NewAwaiterFacts ==
  ASSUME IInv, n_suspends < MaxSuspends
  PROVE  /\ n_suspends + 1 \in Awaiters /\ n_suspends + 1 \in 0 .. MaxSuspends
         /\ n_suspends + 1 # 0
         /\ aw[n_suspends + 1] = NoAwaiter
         /\ n_suspends + 1 \notin ToSet(callbacks)
         /\ \A h \in Registered : interest[h].token # n_suspends + 1
         /\ \A t \in Tasks : frame[t] = "parked" => waits_for[t] # n_suspends + 1
         /\ \A b \in Awaiters : b > n_suspends + 1 <=> b > n_suspends /\ b # n_suspends + 1
<1>1. n_suspends \in 0 .. MaxSuspends /\ MaxSuspends \in Nat
  BY BoundsAssumption DEF IInv, TypeOK, BoundsAssumption
<1>2. PICK a : a = n_suspends + 1
  OBVIOUS
<1>3. a \in Awaiters /\ a \in 0 .. MaxSuspends /\ a # 0 /\ a > n_suspends
  BY <1>1, <1>2, SMT DEF Awaiters
<1>4. aw[a] = NoAwaiter
  BY <1>3 DEF IInv, AwaitersInv
<1>5. a \notin ToSet(callbacks)
  BY <1>3, <1>4, NoAwaiterFacts DEF IInv, CallbacksInv
<1>6. \A h \in Registered : interest[h].token # a
  BY <1>4, NoAwaiterFacts DEF IInv, RegisteredInv
<1>7. \A t \in Tasks : frame[t] = "parked" => waits_for[t] # a
  BY <1>3, <1>4, NoAwaiterFacts DEF IInv, ParkedInv
<1>8. \A b \in Awaiters : b > a <=> b > n_suspends /\ b # a
  BY <1>1, <1>2, SMT DEF Awaiters
<1> QED  BY <1>2, <1>3, <1>4, <1>5, <1>6, <1>7, <1>8

\* A new awaiter that is not registered and, if it is parked, was queued at once.
LEMMA NewAwaiterKeeps ==
  ASSUME IInv, NEW a \in Awaiters, NEW w, UNCHANGED <<regsOnly, stopped, callbacks>>, n_suspends' = a,
         a \notin ToSet(callbacks), \A x \in Registered : interest[x].token # a,
         \A b \in Awaiters : b > a <=> b > n_suspends /\ b # a,
         aw'[a] = w, \A b \in Awaiters : b # a => aw'[b] = aw[b],
         w.state # "none", ~w.m_registered, ~w.m_cancelled,
         w.state = "parked" => w.m_queued /\ w.result = "error",
         w.result # "ok", w.result = "cancelled" => w.m_token /\ stopped
  PROVE  TypeReactor' /\ RegisteredInv' /\ AwaitersInv' /\ ResultsHaveReasons' /\ CallbacksInv'
<1>1. TypeReactor /\ RegisteredInv /\ AwaitersInv /\ ResultsHaveReasons /\ CallbacksInv
  BY TypeSplit DEF IInv
<1>2. /\ interest' = interest /\ Registered' = Registered /\ m_pending_io' = m_pending_io
      /\ stopped' = stopped /\ callbacks' = callbacks
  BY DEF regsOnly, Registered
<1>3. TypeReactor'
  BY <1>1, <1>2 DEF TypeReactor
<1>4. RegisteredInv'
  <2>1. ASSUME NEW x \in Registered
        PROVE  aw'[interest[x].token].m_registered /\ aw'[interest[x].token].m_handle = x
    <3>1. interest[x].token \in Awaiters
      BY <1>1, SMT DEF TypeReactor
    <3>2. aw'[interest[x].token] = aw[interest[x].token]
      BY <3>1
    <3> QED  BY <1>1, <3>2 DEF RegisteredInv
  <2>2. ASSUME NEW b \in Awaiters, aw'[b].m_registered
        PROVE  aw'[b].m_handle \in Registered /\ interest[aw'[b].m_handle].token = b
    <3>1. b # a /\ aw'[b] = aw[b]
      BY <2>2
    <3> QED  BY <1>1, <2>2, <3>1 DEF RegisteredInv
  <2>3. IsFiniteSet(Registered) /\ m_pending_io = Cardinality(Registered)
    BY <1>1 DEF RegisteredInv
  <2> QED  BY <1>2, <2>1, <2>2, <2>3 DEF RegisteredInv
<1>5. AwaitersInv'
  <2>1. ASSUME NEW b \in Awaiters, b # a
        PROVE  aw'[b] = aw[b] /\ (b > n_suspends' => b > n_suspends)
    BY <2>1
  <2>2. ~(a > n_suspends')
    OBVIOUS
  <2> QED  BY <1>1, <1>2, <2>1, <2>2, SMT DEF AwaitersInv
<1>6. ResultsHaveReasons'
  BY <1>1, <1>2, SMT DEF ResultsHaveReasons
<1>7. CallbacksInv'
  <2>1. ASSUME NEW b \in Awaiters, b \in ToSet(callbacks)
        PROVE  aw'[b] = aw[b]
    BY <2>1
  <2>2. ASSUME NEW b \in Awaiters, aw'[b].state = "parked", aw'[b].m_token, ~aw'[b].m_queued
        PROVE  aw'[b] = aw[b]
    BY <2>2
  <2> QED  BY <1>1, <1>2, <2>1, <2>2, SMT DEF CallbacksInv
<1> QED  BY <1>3, <1>4, <1>5, <1>6, <1>7

\* Steps that change the awaiters and leave the tasks alone.
LEMMA AwaiterStepKeeps ==
  ASSUME IInv, UNCHANGED <<tasksOnly, loopVars, otherVars>>
  PROVE  /\ TypeLoop' /\ TypeTasks' /\ TasksInv' /\ FramesAreOwned' /\ StackInv' /\ TargetInv'
<1> USE DEF tasksOnly, loopVars, otherVars
<1>1. TypeLoop' /\ TypeTasks'
  BY TypeSplit DEF IInv, TypeLoop, TypeTasks
<1>2. TasksInv' /\ FramesAreOwned'
  BY SMT DEF IInv, TasksInv, NumberedInv, AwaitedInv, JoiningInv, FramesAreOwned, Pending, Alive
<1>3. StackInv' /\ TargetInv'
  BY DEF IInv, StackInv, TargetInv
<1> QED  BY <1>1, <1>2, <1>3

\* await_ready with a token of a stopped source (executor.h, 111-118).
LEMMA AwaitStoppedStep ==
  ASSUME IInv, NEW c \in Callers, NEW h \in Handles, \A t \in Tasks : tfd[t] = h => t = c,
         AwaitStopped(c, h)
  PROVE  IInv'
<1>0. PICK a : a = n_suspends + 1
  OBVIOUS
<1>1. PICK w : w = [Awaiter(c, h, TRUE) EXCEPT !.state = "resumed", !.result = "cancelled"]
  OBVIOUS
<1>2. /\ stopped /\ c \in Tasks /\ n_suspends < MaxSuspends
      /\ aw' = [aw EXCEPT ![a] = w] /\ n_suspends' = a
      /\ UNCHANGED <<tasksOnly, loopVars, otherVars, regsOnly, m_ready, waits_for, stopped, callbacks>>
  BY <1>0, <1>1 DEF AwaitStopped, NewAwaiter, MaySuspend, Callers, reactorVars, tasksOnly, regsOnly, taskVars, stopVars
<1>3. /\ w \in AwaiterSet /\ w.task = c /\ w.m_handle = h /\ w.m_token /\ w.state = "resumed"
      /\ ~w.m_queued /\ ~w.m_cancelled /\ ~w.m_registered /\ w.result = "cancelled"
  BY <1>1, <1>2 DEF Awaiter, AwaiterSet
<1>4. /\ a \in Awaiters /\ a \in 0 .. MaxSuspends /\ a # 0 /\ a \notin ToSet(callbacks)
      /\ \A x \in Registered : interest[x].token # a
      /\ \A t \in Tasks : frame[t] = "parked" => waits_for[t] # a
      /\ \A b \in Awaiters : b > a <=> b > n_suspends /\ b # a
  BY <1>0, <1>2, NewAwaiterFacts
<1>5. TypeReactor /\ TypeAwaiters /\ TypeTasks
  BY TypeSplit DEF IInv
<1>6. aw'[a] = w /\ \A b \in Awaiters : b # a => aw'[b] = aw[b]
  BY <1>2, <1>4, <1>5 DEF TypeAwaiters
<1>7. TypeLoop' /\ TypeTasks' /\ TasksInv' /\ FramesAreOwned' /\ StackInv' /\ TargetInv'
  BY <1>2, AwaiterStepKeeps
<1>8. TypeReactor' /\ RegisteredInv' /\ AwaitersInv' /\ ResultsHaveReasons' /\ CallbacksInv'
  <2>1. w.state # "none" /\ w.state # "parked" /\ w.result # "ok"
    BY <1>3
  <2> QED  BY <1>2, <1>3, <1>4, <1>6, <2>1, NewAwaiterKeeps
<1>9. TypeOK'
  <2>1. TypeAwaiters'
    BY <1>2, <1>3, <1>4, <1>5 DEF TypeAwaiters
  <2> QED  BY <1>7, <1>8, <2>1, TypeSplitNext
<1>10. ParkedInv'
  BY <1>2, <1>3, <1>4, <1>5, <1>6, SMT DEF IInv, ParkedInv, TypeAwaiters, tasksOnly
<1>11. TimerFdInv'
  BY <1>2, <1>3, <1>6, SMT DEF IInv, TimerFdInv, tasksOnly
<1> QED  BY <1>7, <1>8, <1>9, <1>10, <1>11 DEF IInv

\* A coroutine that runs is not in the ready queue, nor is an awaiter parked for it.
LEMMA RunsAlone ==
  ASSUME IInv, NEW c \in Tasks, frame[c] = "body"
  PROVE  /\ c \notin ToSet(m_ready)
         /\ \A a \in Awaiters : aw[a].state = "parked" => aw[a].task # c
  BY DEF IInv, ParkedInv

\* A coroutine that ran is suspended in a new awaiter, which is queued or not.
LEMMA ParksKeeps ==
  ASSUME IInv, NEW c \in Tasks, frame[c] = "body", NEW a \in Awaiters, a # 0,
         \A t \in Tasks : frame[t] = "parked" => waits_for[t] # a,
         \A u \in Tasks : frame'[u] = IF u = c THEN "parked" ELSE frame[u],
         \A u \in Tasks : waits_for'[u] = IF u = c THEN a ELSE waits_for[u],
         aw'[a].state = "parked", aw'[a].task = c, \A b \in Awaiters : b # a => aw'[b] = aw[b],
         OnceEach(m_ready'),
         ToSet(m_ready') = ToSet(m_ready) \cup (IF aw'[a].m_queued THEN {c} ELSE {})
  PROVE  ParkedInv'
<1>1. ParkedInv /\ TypeAwaiters
  BY TypeSplit DEF IInv
<1>2. c \notin ToSet(m_ready) /\ \A b \in Awaiters : aw[b].state = "parked" => aw[b].task # c
  BY RunsAlone
<1>3. ASSUME NEW t \in Tasks, t # c, frame[t] = "parked", waits_for[t] # 0
      PROVE  waits_for[t] \in Awaiters /\ aw'[waits_for[t]] = aw[waits_for[t]]
  BY <1>1, <1>3, SMT DEF TypeAwaiters
<1>4. ASSUME NEW t \in Tasks, t \in ToSet(m_ready')
      PROVE  frame'[t] = "parked" /\ (waits_for'[t] # 0 => aw'[waits_for'[t]].m_queued)
  <2>1. CASE t = c
    BY <1>2, <1>4, <2>1
  <2>2. CASE t # c
    <3>1. t \in ToSet(m_ready) /\ frame'[t] = frame[t] /\ waits_for'[t] = waits_for[t]
      BY <1>4, <2>2
    <3> QED  BY <1>1, <1>3, <2>2, <3>1, SMT DEF ParkedInv
  <2> QED  BY <2>1, <2>2
<1>5. ASSUME NEW t \in Tasks, frame'[t] = "parked"
      PROVE  IF waits_for'[t] = 0 THEN t \in ToSet(m_ready')
             ELSE aw'[waits_for'[t]].state = "parked" /\ aw'[waits_for'[t]].task = t
  <2>1. CASE t = c
    BY <2>1
  <2>2. CASE t # c
    <3>1. frame[t] = "parked" /\ waits_for'[t] = waits_for[t]
      BY <1>5, <2>2
    <3> QED  BY <1>1, <1>3, <2>2, <3>1, SMT DEF ParkedInv
  <2> QED  BY <2>1, <2>2
<1>6. ASSUME NEW b \in Awaiters, aw'[b].state = "parked"
      PROVE  /\ aw'[b].task \in Tasks /\ frame'[aw'[b].task] = "parked" /\ waits_for'[aw'[b].task] = b
             /\ aw'[b].m_queued => aw'[b].task \in ToSet(m_ready')
  <2>1. CASE b = a
    BY <2>1
  <2>2. CASE b # a
    BY <1>1, <1>2, <1>6, <2>2, SMT DEF ParkedInv
  <2> QED  BY <2>1, <2>2
<1> QED  BY <1>4, <1>5, <1>6 DEF ParkedInv

\* await_suspend when the reactor refuses the handle (executor.h, 122-129).
LEMMA AwaitRefusedStep ==
  ASSUME IInv, NEW c \in Callers, NEW h \in Handles, NEW tok \in BOOLEAN,
         \A t \in Tasks : tfd[t] = h => t = c,
         AwaitRefused(c, h, tok)
  PROVE  IInv'
<1>0. PICK a : a = n_suspends + 1
  OBVIOUS
<1>1. PICK w : w = [Awaiter(c, h, tok) EXCEPT !.m_queued = TRUE, !.result = "error"]
  OBVIOUS
<1>2. /\ c \in Tasks /\ Executing(c) /\ n_suspends < MaxSuspends
      /\ aw' = [aw EXCEPT ![a] = w] /\ n_suspends' = a
      /\ m_ready' = Append(m_ready, c)
      /\ Suspend(c, a)
      /\ UNCHANGED <<loopVars, otherVars, regsOnly, stopped, callbacks>>
  BY <1>0, <1>1 DEF AwaitRefused, NewAwaiter, MaySuspend, Callers, reactorVars, regsOnly, stopVars
<1>3. /\ w \in AwaiterSet /\ w.task = c /\ w.m_handle = h /\ w.state = "parked"
      /\ w.m_queued /\ ~w.m_cancelled /\ ~w.m_registered /\ w.result = "error"
  BY <1>1, <1>2 DEF Awaiter, AwaiterSet
<1>4. /\ a \in Awaiters /\ a \in 0 .. MaxSuspends /\ a # 0 /\ a \notin ToSet(callbacks)
      /\ \A x \in Registered : interest[x].token # a
      /\ \A t \in Tasks : frame[t] = "parked" => waits_for[t] # a
      /\ \A b \in Awaiters : b > a <=> b > n_suspends /\ b # a
  BY <1>0, <1>2, NewAwaiterFacts
<1>5. TypeReactor /\ TypeAwaiters /\ TypeTasks
  BY TypeSplit DEF IInv
<1>6. aw'[a] = w /\ \A b \in Awaiters : b # a => aw'[b] = aw[b]
  BY <1>2, <1>4, <1>5 DEF TypeAwaiters
<1>7. /\ TypeLoop' /\ TypeTasks' /\ TasksInv' /\ FramesAreOwned' /\ StackInv' /\ TargetInv'
      /\ waits_for' \in [Tasks -> Awaiters \cup {0}]
      /\ frame[c] = "body"
      /\ \A u \in Tasks : frame'[u] = IF u = c THEN "parked" ELSE frame[u]
      /\ \A u \in Tasks : waits_for'[u] = IF u = c THEN a ELSE waits_for[u]
      /\ UNCHANGED tfd
  BY <1>2, <1>4, SuspendKeeps
<1>8. /\ c \notin ToSet(m_ready) /\ \A b \in Awaiters : aw[b].state = "parked" => aw[b].task # c
      /\ OnceEach(m_ready)
  BY <1>2, <1>7, RunsAlone DEF IInv, ParkedInv
<1>9. m_ready' \in Seq(Tasks) /\ OnceEach(m_ready') /\ ToSet(m_ready') = ToSet(m_ready) \cup {c}
  BY <1>2, <1>5, <1>8, AppendFacts, SMT DEF TypeAwaiters
<1>10. TypeReactor' /\ RegisteredInv' /\ AwaitersInv' /\ ResultsHaveReasons' /\ CallbacksInv'
  <2>1. w.state # "none" /\ w.result # "ok" /\ w.result # "cancelled"
    BY <1>3
  <2> QED  BY <1>2, <1>3, <1>4, <1>6, <2>1, NewAwaiterKeeps
<1>11. TypeOK'
  <2>1. TypeAwaiters'
    BY <1>2, <1>3, <1>4, <1>5, <1>7, <1>9 DEF TypeAwaiters
  <2> QED  BY <1>7, <1>10, <2>1, TypeSplitNext
<1>12. ParkedInv'
  <2>1. aw'[a].state = "parked" /\ aw'[a].task = c /\ aw'[a].m_queued
    BY <1>3, <1>6
  <2>2. ToSet(m_ready') = ToSet(m_ready) \cup (IF aw'[a].m_queued THEN {c} ELSE {})
    <3>1. aw'[a].m_queued /\ ToSet(m_ready') = ToSet(m_ready) \cup {c}
      BY <1>9, <2>1
    <3> QED  BY <3>1
  <2>3. c \in Tasks /\ OnceEach(m_ready')
    BY <1>2, <1>9
  <2>4. /\ a \in Awaiters /\ a # 0 /\ frame[c] = "body"
        /\ \A t \in Tasks : frame[t] = "parked" => waits_for[t] # a
    BY <1>4, <1>7
  <2>5. /\ \A u \in Tasks : frame'[u] = IF u = c THEN "parked" ELSE frame[u]
        /\ \A u \in Tasks : waits_for'[u] = IF u = c THEN a ELSE waits_for[u]
    BY <1>7
  <2> QED  BY <1>6, <2>1, <2>2, <2>3, <2>4, <2>5, ParksKeeps
<1>13. TimerFdInv'
  BY <1>3, <1>6, <1>7, SMTT(30) DEF IInv, TimerFdInv
<1> QED  BY <1>7, <1>10, <1>11, <1>12, <1>13 DEF IInv
=============================================================================
