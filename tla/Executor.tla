------------------------------ MODULE Executor ------------------------------
(***************************************************************************)
(* sap::async: the Executor's loop (src/async/executor.cpp), IoAwaiter     *)
(* (async/executor.h), the coroutine frames of Task and SpawnHandle        *)
(* (async/task.h, async/spawn.h), both sync_waits, sleep_for               *)
(* (src/async/sleep_linux.cpp) and the list of stop callbacks, composed    *)
(* with the Linux reactor.                                                 *)
(*                                                                         *)
(* One thread runs everything: user code (main, or the coroutine on top of *)
(* the stack of nested resume calls) and, below the coroutines, the loop.  *)
(* A second thread calls stop() and wake(), which the code makes safe with *)
(* an atomic flag and the reactor's eventfd.  A task stands for its frame  *)
(* and for the runner spawn wraps around it; what it computes, and the     *)
(* exception it may end with, are left out.  Tasks and awaiters are        *)
(* numbered in the order they are created.                                 *)
(***************************************************************************)
EXTENDS Epoll

CONSTANTS NTasks,              \* bound: tasks created in one behaviour
          MaxSuspends,         \* bound: co_awaits of an IoAwaiter or of schedule()
          MaxStops,            \* bound: calls of stop() by the other thread
          MaxSteps,            \* bound: both of these together
          MAX_EVENTS_PER_WAIT

ASSUME BoundsAssumption ==
  NTasks \in Nat /\ MaxSuspends \in Nat /\ MaxStops \in Nat /\ MAX_EVENTS_PER_WAIT \in Nat \ {0}

VARIABLES
  m_ready, m_pending_io, m_running,
  l_pc,            \* where run_until or sync_wait is; "off" when neither runs
  target,          \* its argument
  stack,           \* tasks being resumed, innermost last
  n_tasks, frame,  \* tasks created, and the state of each one's frame
  waits_for,       \* the awaiter a parked task is suspended in; 0 for schedule()
  continuation,    \* promise: the task to resume at final_suspend
  handle_dropped,  \* promise: handle_dropped, or detached
  owner,           \* who holds the task's SpawnHandle or Task object
  tfd,             \* the timerfd a sleep_for task holds open, or NoFd
  n_suspends,      \* suspensions so far; numbers the awaiters
  aw,              \* the IoAwaiters
  stopped,         \* stop_state::stopped of the one StopSource
  callbacks,       \* its list of callback nodes, named by their awaiters
  x_stops, x_pc    \* the other thread: calls of stop(), and where it is in one

loopVars == <<m_running, l_pc, target>>
taskVars == <<n_tasks, frame, waits_for, continuation, handle_dropped, owner, tfd>>
awaiterVars == <<n_suspends, aw>>
stopVars == <<stopped, callbacks>>
otherVars == <<x_stops, x_pc>>
vars == <<reactorVars, m_ready, m_pending_io, loopVars, stack, taskVars,
          awaiterVars, stopVars, otherVars>>

Tasks == 1 .. NTasks
Awaiters == 1 .. MaxSuspends
Main == 0
None == -1
NoFd == WakeFd

\* An awaiter: the coroutine it is a local of, its arguments (a token or none),
\* and its members; NoAwaiter is one not constructed yet or out of scope.
Awaiter(t, h, tok) ==
  [task |-> t, m_handle |-> h, m_token |-> tok, state |-> "parked", m_queued |-> FALSE,
   m_cancelled |-> FALSE, m_registered |-> FALSE, m_fired |-> FALSE, result |-> "none"]
NoAwaiter == [Awaiter(None, WakeFd, FALSE) EXCEPT !.state = "none"]

Init ==
  /\ ReactorInit
  /\ m_ready = <<>> /\ m_pending_io = 0 /\ m_running = FALSE
  /\ l_pc = "off" /\ target = None
  /\ stack = <<>>
  /\ n_tasks = 0
  /\ frame = [t \in Tasks |-> "none"]
  /\ waits_for = [t \in Tasks |-> 0]
  /\ continuation = [t \in Tasks |-> None]
  /\ handle_dropped = [t \in Tasks |-> FALSE]
  /\ owner = [t \in Tasks |-> None]
  /\ tfd = [t \in Tasks |-> NoFd]
  /\ n_suspends = 0
  /\ aw = [a \in Awaiters |-> NoAwaiter]
  /\ stopped = FALSE /\ callbacks = <<>>
  /\ x_stops = 0 /\ x_pc = "idle"

\* c is the user code that runs now.
Executing(c) ==
  IF c = Main THEN stack = <<>> /\ l_pc = "off"
              ELSE stack # <<>> /\ stack[Len(stack)] = c
Callers == Tasks \cup {Main}
Front == SubSeq(stack, 1, Len(stack) - 1)
-----------------------------------------------------------------------------
(* User code: tasks *)

\* A task's body is that of some coroutine (NoFd), or sleep_for's, which then owns
\* a timerfd: a descriptor not in use (sleep_linux.cpp, 36).
Used(h) ==
  \/ h \in Registered \/ condition[h] # {}
  \/ \E a \in Awaiters : aw[a].m_handle = h
  \/ \E t \in Tasks : tfd[t] = h
Bodies == {NoFd} \cup {h \in Handles : ~Used(h)}

\* c creates a task that starts at once, inside c, and that holder holds.
Starts(c, fd, holder) ==
  /\ Executing(c) /\ n_tasks < NTasks
  /\ LET t == n_tasks + 1 IN
     /\ n_tasks' = t
     /\ frame' = [frame EXCEPT ![t] = "body"]
     /\ owner' = [owner EXCEPT ![t] = holder]
     /\ handle_dropped' = [handle_dropped EXCEPT ![t] = holder = None]
     /\ stack' = Append(stack, t)
     /\ tfd' = [tfd EXCEPT ![t] = fd]
  /\ UNCHANGED <<reactorVars, m_ready, m_pending_io, waits_for, continuation,
                 awaiterVars, stopVars, otherVars>>

\* spawn (spawn.h, 151-158), and Task::detach or spawn_detach, which give up the
\* frame before they resume it (task.h, 130-136; executor.h, 104-107).
Spawn(c, fd) == Starts(c, fd, c) /\ UNCHANGED loopVars
Detach(c, fd) == Starts(c, fd, None) /\ UNCHANGED loopVars

\* sync_wait of a Task by main, outside run(): the task runs on this thread, then
\* sem.acquire waits for the runner's final_suspend.  A task that suspended is
\* never resumed, and the call hangs, as its comment says (sync_wait.h, 94-111).
SyncWaitTask(fd) ==
  /\ Starts(Main, fd, Main)
  /\ l_pc' = "acquire" /\ target' = n_tasks + 1
  /\ UNCHANGED m_running

SyncWaitReturn ==
  /\ l_pc = "acquire" /\ stack = <<>> /\ frame[target] = "done"
  /\ frame' = [frame EXCEPT ![target] = "freed"]
  /\ owner' = [owner EXCEPT ![target] = None]
  /\ l_pc' = "off" /\ target' = None
  /\ UNCHANGED <<reactorVars, m_ready, m_pending_io, m_running, stack, n_tasks, waits_for,
                 continuation, handle_dropped, tfd, awaiterVars, stopVars, otherVars>>

\* co_await of a lazy Task: its body takes the awaiting coroutine's place.
CoAwaitTask(c, fd) ==
  /\ c # Main /\ Executing(c) /\ n_tasks < NTasks
  /\ LET t == n_tasks + 1 IN
     /\ n_tasks' = t
     /\ frame' = [frame EXCEPT ![t] = "body", ![c] = "joining"]
     /\ owner' = [owner EXCEPT ![t] = c]
     /\ continuation' = [continuation EXCEPT ![t] = c]
     /\ stack' = Append(Front, t)
     /\ tfd' = [tfd EXCEPT ![t] = fd]
  /\ UNCHANGED <<reactorVars, m_ready, m_pending_io, loopVars, waits_for,
                 handle_dropped, awaiterVars, stopVars, otherVars>>

\* co_await of a SpawnHandle whose runner is not done (one that is does not
\* suspend the caller).
CoAwaitHandle(c, t) ==
  /\ c # Main /\ Executing(c)
  /\ owner[t] = c /\ frame[t] # "done" /\ continuation[t] = None
  /\ continuation' = [continuation EXCEPT ![t] = c]
  /\ frame' = [frame EXCEPT ![c] = "joining"]
  /\ stack' = Front
  /\ UNCHANGED <<reactorVars, m_ready, m_pending_io, loopVars, n_tasks, waits_for,
                 handle_dropped, owner, tfd, awaiterVars, stopVars, otherVars>>

\* What release makes of a frame: a finished one is destroyed, a pending one is
\* told to destroy itself.
ReleasedKept(t) == frame[t]
Released(t) == IF frame[t] = "done" THEN "freed" ELSE frame[t]

DropHandle(c, t) ==
  /\ Executing(c) /\ owner[t] = c
  /\ owner' = [owner EXCEPT ![t] = None]
  /\ frame' = [frame EXCEPT ![t] = Released(t)]
  /\ handle_dropped' = [handle_dropped EXCEPT ![t] = @ \/ frame[t] # "done"]
  /\ UNCHANGED <<reactorVars, m_ready, m_pending_io, loopVars, stack, n_tasks,
                 waits_for, continuation, tfd, awaiterVars, stopVars, otherVars>>

\* ~fd_guard (sleep_linux.cpp, 27-30): the kernel forgets a closed descriptor.
closes(fd) ==
  /\ condition' = [h \in Handles |-> IF h = fd THEN {} ELSE condition[h]]
  /\ interest' = [h \in Registered \ {fd} |-> interest[h]]
  /\ UNCHANGED woken

\* The body of t ends.  Its locals go: awaiters leave the callback list, handles
\* are released, a timerfd is closed.  Then final_suspend frees the frame, or passes control to the
\* continuation, or returns to whoever resumed t.
Finish(t) ==
  /\ t # Main /\ Executing(t)
  /\ LET locals == {a \in Awaiters : aw[a].task = t}
         kids == {k \in Tasks : owner[k] = t}
         next == IF handle_dropped[t] THEN None ELSE continuation[t]
     IN
     /\ aw' = [a \in Awaiters |-> IF a \in locals THEN NoAwaiter ELSE aw[a]]
     /\ callbacks' = Without(callbacks, locals)
     /\ owner' = [k \in Tasks |-> IF k \in kids THEN None ELSE owner[k]]
     /\ handle_dropped' = [k \in Tasks |-> handle_dropped[k] \/ (k \in kids /\ frame[k] # "done")]
     /\ frame' = [k \in Tasks |->
                    IF k = t THEN IF handle_dropped[t] THEN "freed" ELSE "done"
                    ELSE IF k = next THEN "body"
                    ELSE IF k \in kids THEN Released(k) ELSE frame[k]]
     /\ stack' = IF next = None THEN Front ELSE Append(Front, next)
     /\ tfd' = [tfd EXCEPT ![t] = NoFd]
     /\ closes(tfd[t])
  /\ UNCHANGED <<m_ready, m_pending_io, loopVars, n_tasks, waits_for,
                 continuation, n_suspends, stopped, otherVars>>
-----------------------------------------------------------------------------
(* User code: awaiting *)

MaySuspend == n_suspends < MaxSuspends /\ n_suspends + x_stops < MaxSteps

\* c constructs an awaiter and co_awaits it, which leaves the awaiter as aw_new.
NewAwaiter(c, aw_new) ==
  /\ c # Main /\ Executing(c) /\ MaySuspend
  /\ n_suspends' = n_suspends + 1
  /\ aw' = [aw EXCEPT ![n_suspends + 1] = aw_new]

\* c is suspended in awaiter a (0: in schedule()) and its resumer goes on.
Suspend(c, a) ==
  /\ frame' = [frame EXCEPT ![c] = "parked"]
  /\ waits_for' = [waits_for EXCEPT ![c] = a]
  /\ stack' = Front
  /\ UNCHANGED <<n_tasks, continuation, handle_dropped, owner, tfd>>

\* await_ready: a stop requested earlier means no suspension at all.
AwaitStopped(c, h) ==
  /\ stopped
  /\ NewAwaiter(c, [Awaiter(c, h, TRUE) EXCEPT !.state = "resumed", !.result = "cancelled"])
  /\ UNCHANGED <<reactorVars, m_ready, m_pending_io, loopVars, stack, taskVars,
                 stopVars, otherVars>>

\* await_suspend when the reactor refuses the handle (122-129): it always does
\* when another awaiter has registered it.
AwaitRefused(c, h, tok) ==
  /\ ~(tok /\ stopped)
  /\ NewAwaiter(c, [Awaiter(c, h, tok) EXCEPT !.m_queued = TRUE, !.result = "error"])
  /\ m_ready' = Append(m_ready, c)
  /\ Suspend(c, n_suspends + 1)
  /\ UNCHANGED <<reactorVars, m_pending_io, loopVars, stopVars, otherVars>>

\* await_suspend (120-134): registered, counted, armed.
AwaitParksUnarmed(c, h, tok) ==
  /\ ~(tok /\ stopped)
  /\ NewAwaiter(c, [Awaiter(c, h, tok) EXCEPT !.m_registered = TRUE])
  /\ add(h, {"Readable"}, n_suspends + 1)
  /\ m_pending_io' = m_pending_io + 1
  /\ Suspend(c, n_suspends + 1)
  /\ UNCHANGED <<m_ready, loopVars, stopVars, otherVars>>
AwaitParks(c, h, tok) ==
  /\ ~(tok /\ stopped)
  /\ NewAwaiter(c, [Awaiter(c, h, tok) EXCEPT !.m_registered = TRUE])
  /\ add(h, {"Readable"}, n_suspends + 1)
  /\ m_pending_io' = m_pending_io + 1
  /\ callbacks' = IF tok THEN <<n_suspends + 1>> \o callbacks ELSE callbacks
  /\ Suspend(c, n_suspends + 1)
  /\ UNCHANGED <<m_ready, loopVars, stopped, otherVars>>

\* A coroutine passes its own handle to schedule() and suspends.
Schedule(c) ==
  /\ c # Main /\ Executing(c) /\ MaySuspend
  /\ n_suspends' = n_suspends + 1
  /\ m_ready' = Append(m_ready, c)
  /\ Suspend(c, 0)
  /\ UNCHANGED <<reactorVars, m_pending_io, loopVars, aw, stopVars, otherVars>>

\* An awaiter goes out of scope: its node leaves the list (stop_token.h, 71-74).
ScopeEnds(c, a) ==
  /\ c # Main /\ Executing(c) /\ aw[a].task = c
  /\ aw' = [aw EXCEPT ![a] = NoAwaiter]
  /\ callbacks' = Without(callbacks, {a})
  /\ UNCHANGED <<reactorVars, m_ready, m_pending_io, loopVars, stack, taskVars,
                 n_suspends, stopped, otherVars>>

\* The awaiters of a sequence are put on the ready queue, those apart that were
\* put there before.
Unqueued(s) == Without(s, {a \in Awaiters : aw[a].m_queued})
Enqueue(s) ==
  LET push == Unqueued(s) IN
  m_ready' = m_ready \o [i \in 1 .. Len(push) |-> aw[push[i]].task]

\* request_stop: every linked node is unlinked and its awaiter's on_cancel runs,
\* most recent first (stop_token.h, 57-68; executor.h, 150-165).
RequestStopNoResume(c) ==
  /\ Executing(c) /\ ~stopped
  /\ stopped' = TRUE
  /\ callbacks' = <<>>
  /\ LET hit == Without(callbacks, {a \in Awaiters : aw[a].m_cancelled})
         regs == {a \in ToSet(hit) : aw[a].m_registered}
     IN
     /\ remove({aw[a].m_handle : a \in regs})
     /\ m_pending_io' = m_pending_io - Cardinality(regs)
     /\ UNCHANGED m_ready
     /\ aw' = [a \in Awaiters |->
                 IF a \in ToSet(hit)
                 THEN [aw[a] EXCEPT !.m_cancelled = TRUE, !.m_registered = FALSE,
                                    !.m_queued = TRUE]
                 ELSE aw[a]]
  /\ UNCHANGED <<loopVars, stack, taskVars, n_suspends, otherVars>>
RequestStop(c) ==
  /\ Executing(c) /\ ~stopped
  /\ stopped' = TRUE
  /\ callbacks' = <<>>
  /\ LET hit == Without(callbacks, {a \in Awaiters : aw[a].m_cancelled})
         regs == {a \in ToSet(hit) : aw[a].m_registered}
     IN
     /\ remove({aw[a].m_handle : a \in regs})
     /\ m_pending_io' = m_pending_io - Cardinality(regs)
     /\ Enqueue(hit)
     /\ aw' = [a \in Awaiters |->
                 IF a \in ToSet(hit)
                 THEN [aw[a] EXCEPT !.m_cancelled = TRUE, !.m_registered = FALSE,
                                    !.m_queued = TRUE]
                 ELSE aw[a]]
  /\ UNCHANGED <<loopVars, stack, taskVars, n_suspends, otherVars>>

\* stop() called by the code that runs, on the executor's own thread.
StopHere(c) ==
  /\ Executing(c)
  /\ m_running' = FALSE
  /\ wake
  /\ UNCHANGED <<m_ready, m_pending_io, l_pc, target, stack, taskVars,
                 awaiterVars, stopVars, otherVars>>

\* The code that runs takes what made h readable.
ReadHandle(c, h) ==
  /\ Executing(c) /\ condition[h] # {}
  /\ ConditionChanges(h, {})
  /\ UNCHANGED <<m_ready, m_pending_io, loopVars, stack, taskVars, awaiterVars,
                 stopVars, otherVars>>
-----------------------------------------------------------------------------
(* The loop *)

userVars == <<stack, taskVars, awaiterVars, stopVars>>

\* run_until(t), or run() with t = None.
RunUntil(t) ==
  /\ Executing(Main)
  /\ target' = t
  /\ l_pc' = "start"
  /\ UNCHANGED <<reactorVars, m_ready, m_pending_io, m_running, userVars,
                 otherVars>>

\* sync_wait of a SpawnHandle main holds; of a finished one, it does not run the
\* loop (spawn.h, 160-176).
SyncWaitHandle(t) == owner[t] = Main /\ frame[t] # "done" /\ RunUntil(t)

TargetDone == target # None /\ frame[target] = "done"

Return == l_pc' = "off" /\ target' = None
Goto(pc) == l_pc' = pc /\ UNCHANGED target

RunStart ==
  /\ l_pc = "start"
  /\ m_running' = TRUE
  /\ Goto("top")
  /\ UNCHANGED <<reactorVars, m_ready, m_pending_io, userVars, otherVars>>

\* The outer loop's test and the target's (36-38).
LoopTop ==
  /\ l_pc = "top"
  /\ IF ~m_running THEN Return
     ELSE IF TargetDone THEN Return
     ELSE Goto("drain")
  /\ UNCHANGED <<reactorVars, m_ready, m_pending_io, m_running, userVars, otherVars>>

\* The inner loop is over (40).
LoopDrained ==
  /\ l_pc = "drain"
  /\ m_ready = <<>> \/ ~m_running
  /\ Goto("gate")
  /\ UNCHANGED <<reactorVars, m_ready, m_pending_io, m_running, userVars, otherVars>>

\* await_resume of awaiter a (136-148).
AwaitResumeKeepsHandle(a) ==
  LET cancelled == aw[a].m_cancelled \/ (aw[a].m_token /\ stopped) IN
  /\ IF aw[a].m_registered
     THEN UNCHANGED <<reactorVars, m_pending_io>>
     ELSE UNCHANGED <<reactorVars, m_pending_io>>
  /\ aw' = [aw EXCEPT
       ![a].state = "resumed",
       ![a].m_registered = FALSE,
       ![a].result = IF @ = "error" THEN @ ELSE IF cancelled THEN "cancelled" ELSE "ok"]
AwaitResumeEventWins(a) ==
  LET cancelled == ~aw[a].m_fired /\ (aw[a].m_cancelled \/ (aw[a].m_token /\ stopped)) IN
  /\ IF aw[a].m_registered
     THEN remove({aw[a].m_handle}) /\ m_pending_io' = m_pending_io - 1
     ELSE UNCHANGED <<reactorVars, m_pending_io>>
  /\ aw' = [aw EXCEPT
       ![a].state = "resumed",
       ![a].m_registered = FALSE,
       ![a].result = IF @ = "error" THEN @ ELSE IF cancelled THEN "cancelled" ELSE "ok"]
AwaitResume(a) ==
  LET cancelled == aw[a].m_cancelled \/ (aw[a].m_token /\ stopped) IN
  /\ IF aw[a].m_registered
     THEN remove({aw[a].m_handle}) /\ m_pending_io' = m_pending_io - 1
     ELSE UNCHANGED <<reactorVars, m_pending_io>>
  /\ aw' = [aw EXCEPT
       ![a].state = "resumed",
       ![a].m_registered = FALSE,
       ![a].result = IF @ = "error" THEN @ ELSE IF cancelled THEN "cancelled" ELSE "ok"]

\* The oldest ready handle is resumed and goes on from where it was suspended.
LoopResume ==
  /\ l_pc = "drain"
  /\ m_ready # <<>> /\ m_running
  /\ m_ready' = Tail(m_ready)
  /\ LET t == Head(m_ready) IN
     /\ stack' = <<t>>
     /\ frame' = [frame EXCEPT ![t] = "body"]
     /\ waits_for' = [waits_for EXCEPT ![t] = 0]
     /\ IF waits_for[t] # 0
        THEN AwaitResume(waits_for[t])
        ELSE UNCHANGED <<reactorVars, m_pending_io, aw>>
  /\ Goto("resumed")
  /\ UNCHANGED <<m_running, n_tasks, continuation, handle_dropped, owner, tfd, n_suspends,
                 stopVars, otherVars>>

\* The resume call is back; is the target done? (44-45)
LoopResumed ==
  /\ l_pc = "resumed" /\ stack = <<>>
  /\ IF TargetDone THEN Return ELSE Goto("drain")
  /\ UNCHANGED <<reactorVars, m_ready, m_pending_io, m_running, userVars, otherVars>>

\* The two ways out before blocking (48-51).
LoopGateReadyOnly ==
  /\ l_pc = "gate"
  /\ IF ~m_running THEN Return
     ELSE IF m_ready = <<>> THEN Return
     ELSE Goto("wait")
  /\ UNCHANGED <<reactorVars, m_ready, m_pending_io, m_running, userVars, otherVars>>
LoopGateBlocks ==
  /\ l_pc = "gate"
  /\ IF ~m_running THEN Return
     ELSE Goto("wait")
  /\ UNCHANGED <<reactorVars, m_ready, m_pending_io, m_running, userVars, otherVars>>
LoopGate ==
  /\ l_pc = "gate"
  /\ IF ~m_running THEN Return
     ELSE IF m_pending_io = 0 /\ m_ready = <<>> THEN Return
     ELSE Goto("wait")
  /\ UNCHANGED <<reactorVars, m_ready, m_pending_io, m_running, userVars, otherVars>>

\* wait returns triggers; each wakes the awaiter its token points to (60-67).
LoopWait(got) ==
  /\ l_pc = "wait"
  /\ got \in Batches(MAX_EVENTS_PER_WAIT)
  /\ drain(got)
  /\ \E triggers \in TriggerSeqs(got) :
       LET fired == [i \in DOMAIN triggers |-> triggers[i].user_token] IN
       /\ Enqueue(fired)
       /\ aw' = [a \in Awaiters |->
                   IF a \in ToSet(fired)
                   THEN [aw[a] EXCEPT !.m_fired = TRUE, !.m_queued = TRUE]
                   ELSE aw[a]]
  /\ Goto("top")
  /\ UNCHANGED <<m_pending_io, m_running, stack, taskVars, n_suspends, stopVars, otherVars>>

\* A signal ends epoll_wait: no triggers.
LoopWaitInterrupted ==
  /\ l_pc = "wait"
  /\ Goto("top")
  /\ UNCHANGED <<reactorVars, m_ready, m_pending_io, m_running, userVars, otherVars>>

\* wait fails (55-58).
LoopWaitFails ==
  /\ l_pc = "wait"
  /\ m_running' = FALSE
  /\ Return
  /\ UNCHANGED <<reactorVars, m_ready, m_pending_io, userVars, otherVars>>
-----------------------------------------------------------------------------
(* The other thread, and the world *)

\* stop() (24-27): the flag first, then the wake.
StopStore ==
  /\ x_pc = "idle" /\ x_stops < MaxStops /\ n_suspends + x_stops < MaxSteps
  /\ m_running' = FALSE
  /\ x_pc' = "wake"
  /\ x_stops' = x_stops + 1
  /\ UNCHANGED <<reactorVars, m_ready, m_pending_io, l_pc, target, userVars>>

StopWakeMissing ==
  /\ x_pc = "wake"
  /\ x_pc' = "idle"
  /\ UNCHANGED <<reactorVars, m_ready, m_pending_io, loopVars, userVars, x_stops>>
StopWake ==
  /\ x_pc = "wake"
  /\ wake
  /\ x_pc' = "idle"
  /\ UNCHANGED <<m_ready, m_pending_io, loopVars, userVars, x_stops>>

\* reactor().wake() from anywhere.
Nudge ==
  /\ wake
  /\ UNCHANGED <<m_ready, m_pending_io, loopVars, userVars, otherVars>>

HandleReady(h) ==
  /\ ConditionChanges(h, {"EPOLLIN"})
  /\ UNCHANGED <<m_ready, m_pending_io, loopVars, userVars, otherVars>>

\* What a coroutine may do with descriptor h.
Await(c, h) ==
  \/ AwaitStopped(c, h)
  \/ \E tok \in BOOLEAN : AwaitRefused(c, h, tok) \/ AwaitParks(c, h, tok)

\* The body of sleep_for (sleep_linux.cpp, 35-56): it awaits its timerfd, if it
\* could be opened and set, and ends.
sleep_for(c) ==
  \/ Finish(c)
  \/ (\A a \in Awaiters : aw[a].task # c) /\ Await(c, tfd[c])

User(c) ==
  \/ \E fd \in Bodies : Spawn(c, fd) \/ Detach(c, fd) \/ CoAwaitTask(c, fd)
  \/ \E t \in Tasks : CoAwaitHandle(c, t) \/ DropHandle(c, t)
  \/ Finish(c)
  \/ \E h \in {x \in Handles : \A t \in Tasks : tfd[t] # x} : Await(c, h) \/ ReadHandle(c, h)
  \/ Schedule(c)
  \/ \E a \in Awaiters : ScopeEnds(c, a)
  \/ RequestStop(c)
  \/ StopHere(c)

Loop ==
  \/ RunStart
  \/ LoopTop
  \/ LoopDrained
  \/ LoopResume
  \/ LoopResumed
  \/ LoopGate
  \/ \E got \in Batches(MAX_EVENTS_PER_WAIT) : LoopWait(got)

Next ==
  \/ \E c \in Callers : IF c # Main /\ tfd[c] # NoFd THEN sleep_for(c) ELSE User(c)
  \/ RunUntil(None)
  \/ \E t \in Tasks : SyncWaitHandle(t)
  \/ \E fd \in Bodies : SyncWaitTask(fd)
  \/ SyncWaitReturn
  \/ Loop
  \/ LoopWaitInterrupted
  \/ LoopWaitFails
  \/ StopStore \/ StopWake \/ Nudge
  \/ \E h \in Handles : HandleReady(h)

Spec == Init /\ [][Next]_vars

\* The threads run, a body does not loop forever between two suspensions, and
\* epoll_wait neither blocks when something is ready nor passes over the same
\* descriptor again and again.
Fairness ==
  /\ WF_vars(RunStart \/ LoopTop \/ LoopDrained \/ LoopResume \/ LoopResumed \/ LoopGate)
  /\ WF_vars(SyncWaitReturn)
  /\ \A fd \in Handles \cup {WakeFd} :
       SF_vars(\E got \in Batches(MAX_EVENTS_PER_WAIT) : fd \in got /\ LoopWait(got))
  /\ \A t \in Tasks : WF_vars(Finish(t))
  /\ WF_vars(StopWake)

FairSpec == Spec /\ Fairness

\* Every handle becomes readable sooner or later.
IoComes == \A h \in Handles : WF_vars(HandleReady(h))
-----------------------------------------------------------------------------
Alive(t) == frame[t] \in {"body", "parked", "joining", "done"}

\* The shape of the state.
TypeOK ==
  /\ Registered \subseteq Handles
  /\ interest \in [Registered -> [token : Awaiters, mask : SUBSET Conditions]]
  /\ m_ready \in Seq(Tasks)
  /\ m_pending_io \in Nat
  /\ m_running \in BOOLEAN
  /\ l_pc \in {"off", "start", "top", "drain", "resumed", "gate", "wait", "acquire"}
  /\ target \in Tasks \cup {None}
  /\ stack \in Seq(Tasks)
  /\ n_tasks \in 0 .. NTasks
  /\ frame \in [Tasks -> {"none", "body", "parked", "joining", "done", "freed"}]
  /\ waits_for \in [Tasks -> Awaiters \cup {0}]
  /\ continuation \in [Tasks -> Tasks \cup {None}]
  /\ handle_dropped \in [Tasks -> BOOLEAN]
  /\ owner \in [Tasks -> Callers \cup {None}]
  /\ tfd \in [Tasks -> Handles \cup {NoFd}]
  /\ n_suspends \in 0 .. MaxSuspends
  /\ aw \in [Awaiters ->
       [task : Tasks \cup {None}, m_handle : Handles \cup {WakeFd}, m_token : BOOLEAN,
        state : {"none", "parked", "resumed"}, m_queued : BOOLEAN, m_cancelled : BOOLEAN,
        m_registered : BOOLEAN, m_fired : BOOLEAN,
        result : {"none", "ok", "cancelled", "error"}]]
  /\ stopped \in BOOLEAN
  /\ callbacks \in Seq(Awaiters)
  /\ x_pc \in {"idle", "wake"}

\* Nothing points to memory that is gone: handles in the ready queue and in the
\* reactor's tokens belong to suspended coroutines, callback nodes to awaiters
\* in scope, continuations to coroutines that wait for just that task, and
\* run_until's target to a live frame (executor.cpp, 41-43, 61-65).  And
\* m_pending_io counts the registrations, through every order of events,
\* cancellations and resumptions (executor.h, 131, 141, 158).
NoDangling ==
  /\ TypeOK
  /\ m_pending_io = Cardinality(Registered)
  /\ \A i \in DOMAIN m_ready : frame[m_ready[i]] = "parked"
  /\ \A h \in Registered : LET a == interest[h].token IN
       /\ aw[a].state = "parked" /\ aw[a].m_registered /\ aw[a].m_handle = h
       /\ frame[aw[a].task] = "parked" /\ waits_for[aw[a].task] = a
  /\ \A i \in DOMAIN callbacks : aw[callbacks[i]].state # "none"
  /\ \A t \in Tasks : Alive(t) /\ frame[t] # "done" /\ continuation[t] # None =>
       frame[continuation[t]] = "joining"
  /\ l_pc # "off" /\ target # None => Alive(target)

\* A suspended coroutine is in the ready queue exactly once, or its awaiter is
\* in the reactor and, if it took a token, in the list of a source that has not
\* been stopped: an event or a cancellation can reach it, but not both resume
\* it (executor.cpp, 63-66; executor.h, 126-133, 155-164).
ParkedIsReachable ==
  /\ OnceEach(m_ready)
  /\ \A t \in Tasks : frame[t] = "parked" /\ t \notin ToSet(m_ready) =>
       LET a == waits_for[t] IN
       /\ a # 0 /\ aw[a].state = "parked" /\ ~aw[a].m_queued
       /\ aw[a].m_handle \in Registered /\ interest[aw[a].m_handle].token = a
       /\ aw[a].m_token => ~stopped /\ a \in ToSet(callbacks)

\* What the result of an await is for, and that a stop wins at its resumption.
ResultsHaveReasons ==
  \A a \in Awaiters :
    /\ aw[a].result = "ok" => aw[a].m_fired /\ ~aw[a].m_registered
    /\ aw[a].result = "cancelled" => aw[a].m_token /\ stopped
StopWins ==
  \A a \in Awaiters :
    aw[a].state = "parked" /\ aw'[a].state = "resumed" /\ aw[a].m_token /\ stopped
      => aw'[a].result # "ok"

\* A coroutine is told that its handle is ready only if its event fired, and
\* that it was cancelled only if it took a token of the stopped source; a stop
\* requested before it runs again wins over an event that put it on the ready
\* queue earlier (executor.h, 136-148).
ResumedForAReason == []ResultsHaveReasons /\ [][StopWins]_vars

\* A finished frame is freed exactly when nobody holds its handle any more; a
\* frame without a handle frees itself (task.h, 53-60; spawn.h, 48-55, 121-131).
FramesAreOwned ==
  \A t \in Tasks : Alive(t) =>
    IF owner[t] = None THEN handle_dropped[t] /\ frame[t] # "done"
    ELSE ~handle_dropped[t] /\
         (owner[t] # Main => frame[owner[t]] \in {"body", "parked", "joining"})

\* When run() returns because the ready queue and the pending I/O are empty,
\* every task has finished: none was left suspended (executor.cpp, 50).
IdleRunLeavesNothing ==
  [][l_pc = "gate" /\ l_pc' = "off" /\ m_running =>
       \A t \in Tasks : frame[t] \in {"none", "done", "freed"}]_vars

\* Once the loop has started, clearing m_running ends it, wherever it is and
\* also when it is about to block: the flag is stored before the eventfd is
\* written, and the loop reads it after every wait (executor.cpp, 24-27, 36, 48).
\* A stop() that comes before the store of line 32 is overwritten by it.
StopEndsRun ==
  (~m_running /\ l_pc \notin {"off", "start", "acquire"}) ~> l_pc = "off"

\* Cancellation needs no I/O: after request_stop a running loop resumes every
\* coroutine suspended with a token, unless it ends for another reason first
\* and leaves it in the ready queue (executor.h, 150-165).
CancelledIsResumed ==
  \A t \in Tasks :
    (l_pc \notin {"off", "acquire"} /\ stopped /\ frame[t] = "parked" /\ waits_for[t] # 0
       /\ aw[waits_for[t]].m_token)
      ~> (frame[t] # "parked" \/ (l_pc = "off" /\ t \in ToSet(m_ready)))

\* If the awaited events come, run() comes to an end (executor.cpp, 31-69); and
\* sync_wait of a Task returns unless the task suspended (sync_wait.h, 97-111).
RunReturns ==
  /\ IoComes => (l_pc = "start" ~> l_pc = "off")
  /\ l_pc = "acquire" ~> (l_pc = "off" \/ (target # None /\ stack = <<>> /\ frame[target] # "done"))
=============================================================================
