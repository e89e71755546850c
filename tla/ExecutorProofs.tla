--------------------------- MODULE ExecutorProofs ---------------------------
(***************************************************************************)
(* The Executor's invariants, and IdleRunLeavesNothing, for every number of *)
(* tasks, awaiters, handles, stops and events per wait, with the invariant  *)
(* IInv of TasksProofs: the steps that register and unregister descriptors, *)
(* the stop, the loop's resumptions and waits, and the theorems.            *)
(***************************************************************************)
EXTENDS TasksProofs, FiniteSetTheorems

\* Most leaves are first-order; those that need arithmetic or records say SMT.
USE Zenon

\* At first there is nothing.
LEMMA InitIInv == Init => IInv
<1> SUFFICES ASSUME Init
             PROVE  IInv
    OBVIOUS
<1>1. Registered = {} /\ IsFiniteSet(Registered) /\ Cardinality(Registered) = 0
  BY FS_EmptySet, SMT DEF Init, ReactorInit, Registered
<1>2. NTasks \in Nat /\ MaxSuspends \in Nat
  BY BoundsAssumption DEF BoundsAssumption
<1>3. TypeOK
  <2>1. <<>> \in Seq(Tasks) /\ <<>> \in Seq(Awaiters)
    BY NoElements
  <2>2. aw \in [Awaiters -> AwaiterSet]
    BY AwaiterTypes DEF Init
  <2>3. interest \in [Registered -> [token : Awaiters, mask : SUBSET Conditions]]
    BY <1>1, SMT DEF Init, ReactorInit, Registered
  <2>4. m_pending_io \in Nat /\ n_tasks \in 0 .. NTasks /\ n_suspends \in 0 .. MaxSuspends
    BY <1>2, SMT DEF Init
  <2>5. /\ frame \in [Tasks -> {"none", "body", "parked", "joining", "done", "freed"}]
        /\ waits_for \in [Tasks -> Awaiters \cup {0}]
        /\ continuation \in [Tasks -> Tasks \cup {None}]
        /\ handle_dropped \in [Tasks -> BOOLEAN]
        /\ owner \in [Tasks -> Callers \cup {None}]
        /\ tfd \in [Tasks -> Handles \cup {NoFd}]
    BY DEF Init
  <2> QED  BY <1>1, <2>1, <2>2, <2>3, <2>4, <2>5 DEF Init, TypeOK, AwaiterSet
<1>4. ToSet(<<>>) = {} /\ OnceEach(<<>>)
  BY EmptyFacts
<1>5. TasksInv /\ FramesAreOwned
  BY <1>2, SMT DEF Init, TasksInv, NumberedInv, AwaitedInv, JoiningInv, FramesAreOwned, Pending, Alive, Tasks, None
<1>6. StackInv /\ TargetInv /\ TimerFdInv
  BY <1>4 DEF Init, StackInv, TargetInv, TimerFdInv
<1>7. ParkedInv
  BY <1>4, NoAwaiterFacts DEF Init, ParkedInv
<1>8. AwaitersInv /\ ResultsHaveReasons
  BY NoAwaiterFacts DEF Init, AwaitersInv, ResultsHaveReasons
<1>9. CallbacksInv
  BY <1>4, NoAwaiterFacts DEF Init, CallbacksInv
<1>10. RegisteredInv
  BY <1>1, NoAwaiterFacts DEF Init, RegisteredInv
<1> QED  BY <1>3, <1>5, <1>6, <1>7, <1>8, <1>9, <1>10 DEF IInv
-----------------------------------------------------------------------------
\* await_suspend: registered, counted, armed (executor.h, 120-134).
LEMMA AwaitParksStep ==
  ASSUME IInv, NEW c \in Callers, NEW h \in Handles, NEW tok \in BOOLEAN,
         \A t \in Tasks : tfd[t] = h => t = c,
         AwaitParks(c, h, tok)
  PROVE  IInv'
<1>0. PICK a : a = n_suspends + 1
  OBVIOUS
<1>1. PICK w : w = [Awaiter(c, h, tok) EXCEPT !.m_registered = TRUE]
  OBVIOUS
<1>2. /\ c \in Tasks /\ Executing(c) /\ n_suspends < MaxSuspends /\ ~(tok /\ stopped)
      /\ aw' = [aw EXCEPT ![a] = w] /\ n_suspends' = a
      /\ h \notin Registered
      /\ interest' = [x \in Registered \cup {h} |->
                        IF x = h THEN [token |-> a, mask |-> to_epoll({"Readable"})] ELSE interest[x]]
      /\ m_pending_io' = m_pending_io + 1
      /\ callbacks' = IF tok THEN <<a>> \o callbacks ELSE callbacks
      /\ Suspend(c, a)
      /\ UNCHANGED <<loopVars, otherVars, m_ready, stopped>>
  BY <1>0, <1>1 DEF AwaitParks, NewAwaiter, MaySuspend, Callers, add
<1>3. /\ w \in AwaiterSet /\ w.task = c /\ w.m_handle = h /\ w.state = "parked" /\ (w.m_token <=> tok)
      /\ ~w.m_queued /\ ~w.m_cancelled /\ w.m_registered /\ w.result = "none"
  BY <1>1, <1>2 DEF Awaiter, AwaiterSet
<1>4. /\ a \in Awaiters /\ a \in 0 .. MaxSuspends /\ a # 0 /\ a \notin ToSet(callbacks)
      /\ \A x \in Registered : interest[x].token # a
      /\ \A t \in Tasks : frame[t] = "parked" => waits_for[t] # a
      /\ \A b \in Awaiters : b > a <=> b > n_suspends /\ b # a
  BY <1>0, <1>2, NewAwaiterFacts
<1>5. TypeReactor /\ TypeAwaiters /\ TypeTasks
  BY TypeSplit DEF IInv
<1>6. aw'[a] = w /\ \A b \in Awaiters : b # a => aw'[b] = aw[b]
  BY <1>2, <1>4, <1>5, ZenonT(60) DEF TypeAwaiters
<1>7. /\ TypeLoop' /\ TypeTasks' /\ TasksInv' /\ FramesAreOwned' /\ StackInv' /\ TargetInv'
      /\ waits_for' \in [Tasks -> Awaiters \cup {0}]
      /\ frame[c] = "body"
      /\ \A u \in Tasks : frame'[u] = IF u = c THEN "parked" ELSE frame[u]
      /\ \A u \in Tasks : waits_for'[u] = IF u = c THEN a ELSE waits_for[u]
      /\ UNCHANGED tfd
  BY <1>2, <1>4, SuspendKeeps
<1>8. /\ callbacks' \in Seq(Awaiters) /\ ToSet(callbacks') = ToSet(callbacks) \cup (IF tok THEN {a} ELSE {})
      /\ OnceEach(callbacks')
  BY <1>2, <1>4, <1>5, PrependFacts, ZenonT(60) DEF IInv, CallbacksInv, TypeAwaiters
<1>9. /\ Registered' = Registered \cup {h} /\ interest'[h].token = a
      /\ \A x \in Registered : interest'[x] = interest[x]
  BY <1>2 DEF Registered
<1>10. TypeOK'
  <2>1. TypeAwaiters'
    BY <1>2, <1>3, <1>4, <1>5, <1>7, <1>8 DEF TypeAwaiters
  <2>2. [token |-> a, mask |-> to_epoll({"Readable"})] \in [token : Awaiters, mask : SUBSET Conditions]
    BY <1>4 DEF to_epoll, Conditions
  <2>3. TypeReactor'
    BY <1>2, <1>5, <1>9, <2>2, SMT DEF TypeReactor
  <2> QED  BY <1>7, <2>1, <2>3, TypeSplitNext
<1>11. ParkedInv'
  <2>1. OnceEach(m_ready') /\ m_ready' = m_ready
    BY <1>2 DEF IInv, ParkedInv
  <2> QED  BY <1>2, <1>3, <1>4, <1>6, <1>7, <2>1, ParksKeeps, SMTT(30)
<1>12. AwaitersInv' /\ ResultsHaveReasons'
  BY <1>2, <1>3, <1>4, <1>6, SMT DEF IInv, AwaitersInv, ResultsHaveReasons
<1>13. CallbacksInv'
  <2>1. CallbacksInv
    BY DEF IInv
  <2>2. stopped' => callbacks' = <<>>
    BY <1>2, <2>1 DEF CallbacksInv
  <2>3. \A b \in Awaiters : b \in ToSet(callbacks') =>
          aw'[b].state # "none" /\ aw'[b].m_token /\ (aw'[b].state = "resumed" => aw'[b].m_queued)
    BY <1>3, <1>4, <1>6, <1>8, <2>1 DEF CallbacksInv
  <2>4. \A b \in Awaiters : aw'[b].state = "parked" /\ aw'[b].m_token /\ ~aw'[b].m_queued =>
          ~stopped' /\ b \in ToSet(callbacks')
    BY <1>2, <1>3, <1>6, <1>8, <2>1, ZenonT(60) DEF CallbacksInv
  <2> QED  BY <1>8, <2>2, <2>3, <2>4 DEF CallbacksInv
<1>14. RegisteredInv'
  <2>1. RegisteredInv
    BY DEF IInv
  <2>2. IsFiniteSet(Registered') /\ Cardinality(Registered') = Cardinality(Registered) + 1
    BY <1>2, <1>9, <2>1, FS_AddElement DEF RegisteredInv
  <2>3. ASSUME NEW x \in Registered'
        PROVE  aw'[interest'[x].token].m_registered /\ aw'[interest'[x].token].m_handle = x
    <3>1. CASE x = h
      BY <1>3, <1>6, <1>9, <3>1
    <3>2. CASE x # h
      <4>1. x \in Registered /\ interest'[x] = interest[x]
        BY <1>9, <3>2
      <4>2. interest[x].token \in Awaiters /\ interest[x].token # a
        BY <1>4, <1>5, <4>1 DEF TypeReactor
      <4> QED  BY <1>6, <2>1, <4>1, <4>2, SMT DEF RegisteredInv
    <3> QED  BY <3>1, <3>2
  <2>4. \A b \in Awaiters : aw'[b].m_registered =>
          aw'[b].m_handle \in Registered' /\ interest'[aw'[b].m_handle].token = b
    BY <1>3, <1>6, <1>9, <2>1, SMT DEF RegisteredInv
  <2> QED  BY <1>2, <2>1, <2>2, <2>3, <2>4 DEF RegisteredInv
<1>15. TimerFdInv'
  BY <1>3, <1>6, <1>7, SMT DEF IInv, TimerFdInv
<1> QED  BY <1>7, <1>10, <1>11, <1>12, <1>13, <1>14, <1>15 DEF IInv

\* A coroutine reschedules itself (executor.cpp, 12-14).
LEMMA ScheduleStep ==
  ASSUME IInv, NEW c \in Callers, Schedule(c)
  PROVE  IInv'
<1>1. /\ c \in Tasks /\ Executing(c) /\ n_suspends < MaxSuspends
      /\ n_suspends' = n_suspends + 1
      /\ m_ready' = Append(m_ready, c)
      /\ Suspend(c, 0)
      /\ UNCHANGED <<loopVars, otherVars, regsOnly, stopped, callbacks, aw>>
  BY DEF Schedule, MaySuspend, Callers, reactorVars, regsOnly, stopVars
<1>2. n_suspends + 1 \in 0 .. MaxSuspends /\ \A b \in Awaiters : b > n_suspends + 1 => b > n_suspends
  BY <1>1, NewAwaiterFacts
<1>3. TypeReactor /\ TypeAwaiters /\ TypeTasks
  BY TypeSplit DEF IInv
<1>4. /\ TypeLoop' /\ TypeTasks' /\ TasksInv' /\ FramesAreOwned' /\ StackInv' /\ TargetInv'
      /\ waits_for' \in [Tasks -> Awaiters \cup {0}]
      /\ frame[c] = "body"
      /\ \A u \in Tasks : frame'[u] = IF u = c THEN "parked" ELSE frame[u]
      /\ \A u \in Tasks : waits_for'[u] = IF u = c THEN 0 ELSE waits_for[u]
      /\ UNCHANGED tfd
  BY <1>1, SuspendKeeps
<1>5. /\ c \notin ToSet(m_ready) /\ \A b \in Awaiters : aw[b].state = "parked" => aw[b].task # c
      /\ OnceEach(m_ready)
  BY <1>1, <1>4, RunsAlone DEF IInv, ParkedInv
<1>6. m_ready' \in Seq(Tasks) /\ OnceEach(m_ready') /\ ToSet(m_ready') = ToSet(m_ready) \cup {c}
  BY <1>1, <1>3, <1>5, AppendFacts, SMT DEF TypeAwaiters
<1>7. TypeOK'
  <2>1. TypeAwaiters'
    BY <1>1, <1>2, <1>3, <1>4, <1>6 DEF TypeAwaiters
  <2>2. TypeReactor'
    BY <1>1, <1>3 DEF TypeReactor, Registered, regsOnly
  <2> QED  BY <1>4, <2>1, <2>2, TypeSplitNext
<1>8. ParkedInv'
  <2>1. ParkedInv
    BY DEF IInv
  <2>2. \A t \in Tasks : t \in ToSet(m_ready') =>
          frame'[t] = "parked" /\ (waits_for'[t] # 0 => aw[waits_for'[t]].m_queued)
    BY <1>4, <1>6, <2>1 DEF ParkedInv
  <2>3. \A t \in Tasks : frame'[t] = "parked" =>
          IF waits_for'[t] = 0 THEN t \in ToSet(m_ready')
          ELSE aw[waits_for'[t]].state = "parked" /\ aw[waits_for'[t]].task = t
    BY <1>4, <1>6, <2>1, SMT DEF ParkedInv
  <2>4. \A a \in Awaiters : aw[a].state = "parked" =>
          /\ aw[a].task \in Tasks /\ frame'[aw[a].task] = "parked" /\ waits_for'[aw[a].task] = a
          /\ aw[a].m_queued => aw[a].task \in ToSet(m_ready')
    BY <1>4, <1>5, <1>6, <2>1 DEF ParkedInv
  <2> QED  BY <1>1, <1>6, <2>2, <2>3, <2>4 DEF ParkedInv
<1>9. AwaitersInv' /\ ResultsHaveReasons'
  BY <1>1, <1>2 DEF IInv, AwaitersInv, ResultsHaveReasons
<1>10. CallbacksInv' /\ TimerFdInv'
  BY <1>1, <1>4 DEF IInv, CallbacksInv, TimerFdInv
<1>11. RegisteredInv'
  BY <1>1 DEF IInv, RegisteredInv, Registered, regsOnly
<1> QED  BY <1>4, <1>7, <1>8, <1>9, <1>10, <1>11 DEF IInv

\* An awaiter goes out of scope (stop_token.h, 71-74).
LEMMA ScopeEndsStep ==
  ASSUME IInv, NEW c \in Callers, NEW a \in Awaiters, ScopeEnds(c, a)
  PROVE  IInv'
<1>1. /\ c \in Tasks /\ Executing(c) /\ aw[a].task = c
      /\ aw' = [aw EXCEPT ![a] = NoAwaiter]
      /\ callbacks' = Without(callbacks, {a})
      /\ UNCHANGED <<tasksOnly, loopVars, otherVars, regsOnly, m_ready, waits_for, n_suspends, stopped>>
  BY DEF ScopeEnds, Callers, reactorVars, tasksOnly, regsOnly, taskVars
<1>2. TypeReactor /\ TypeAwaiters /\ TypeTasks
  BY TypeSplit DEF IInv
<1>3. aw[a].state # "parked" /\ ~aw[a].m_registered
  <2>1. frame[c] = "body"
    BY <1>1, ExecutingFacts DEF IInv
  <2> QED  BY <1>1, <2>1, RunsAlone DEF IInv, AwaitersInv
<1>4. aw'[a] = NoAwaiter /\ \A b \in Awaiters : b # a => aw'[b] = aw[b]
  BY <1>1, <1>2 DEF TypeAwaiters
<1>5. /\ callbacks' \in Seq(Awaiters) /\ ToSet(callbacks') = ToSet(callbacks) \ {a}
      /\ OnceEach(callbacks) => OnceEach(callbacks')
  BY <1>1, <1>2, WithoutFacts DEF TypeAwaiters
<1>6. TypeLoop' /\ TypeTasks' /\ TasksInv' /\ FramesAreOwned' /\ StackInv' /\ TargetInv'
  BY <1>1, AwaiterStepKeeps
<1>7. TypeOK'
  <2>1. TypeAwaiters'
    BY <1>1, <1>2, <1>5, AwaiterTypes DEF TypeAwaiters
  <2>2. TypeReactor'
    BY <1>1, <1>2, ZenonT(60) DEF TypeReactor, Registered, regsOnly
  <2> QED  BY <1>6, <2>1, <2>2, TypeSplitNext
<1>8. ParkedInv'
  <2>1. ASSUME NEW u \in Tasks, frame[u] = "parked", waits_for[u] # 0
        PROVE  aw'[waits_for[u]] = aw[waits_for[u]]
    <3>1. waits_for[u] \in Awaiters /\ aw[waits_for[u]].state = "parked"
      BY <2>1, ParkedAt
    <3> QED  BY <1>3, <1>4, <3>1
  <2>2. ASSUME NEW b \in Awaiters, aw'[b].state = "parked"
        PROVE  aw'[b] = aw[b]
    BY <1>4, <2>2, NoAwaiterFacts
  <2>3. ParkedInv /\ UNCHANGED <<frame, waits_for, m_ready>>
    BY <1>1 DEF IInv, tasksOnly
  <2>4. ASSUME NEW u \in Tasks, u \in ToSet(m_ready)
        PROVE  frame[u] = "parked" /\ (waits_for[u] # 0 => aw'[waits_for[u]].m_queued)
    BY <2>1, <2>3, <2>4 DEF ParkedInv
  <2>5. ASSUME NEW u \in Tasks, frame[u] = "parked"
        PROVE  IF waits_for[u] = 0 THEN u \in ToSet(m_ready)
               ELSE aw'[waits_for[u]].state = "parked" /\ aw'[waits_for[u]].task = u
    BY <2>1, <2>5, ParkedAt
  <2>6. ASSUME NEW b \in Awaiters, aw'[b].state = "parked"
        PROVE  /\ aw'[b].task \in Tasks /\ frame[aw'[b].task] = "parked" /\ waits_for[aw'[b].task] = b
               /\ aw'[b].m_queued => aw'[b].task \in ToSet(m_ready)
    BY <2>2, <2>3, <2>6 DEF ParkedInv
  <2> QED  BY <2>3, <2>4, <2>5, <2>6 DEF ParkedInv
<1>9. AwaitersInv' /\ ResultsHaveReasons'
  BY <1>1, <1>4, NoAwaiterFacts, SMT DEF IInv, AwaitersInv, ResultsHaveReasons
<1>10. CallbacksInv'
  <2>1. CallbacksInv
    BY DEF IInv
  <2>2. stopped' => callbacks' = <<>>
    <3>1. stopped' = stopped
      BY <1>1
    <3>2. callbacks = <<>> => ToSet(callbacks') = {}
      BY <1>2, <1>5, SeqFacts DEF TypeAwaiters
    <3> QED  BY <1>5, <2>1, <3>1, <3>2, SeqFacts, SMT DEF CallbacksInv
  <2> QED  BY <1>1, <1>3, <1>4, <1>5, <2>1, <2>2, NoAwaiterFacts DEF CallbacksInv
<1>11. RegisteredInv'
  BY <1>1, <1>2, <1>3, <1>4, NoAwaiterFacts, SMT DEF IInv, RegisteredInv, Registered, TypeReactor, regsOnly
<1>12. TimerFdInv'
  <2>1. tfd' = tfd /\ TimerFdInv
    BY <1>1 DEF IInv, tasksOnly
  <2>2. ASSUME NEW b \in Awaiters, NEW t \in Tasks, tfd[t] # NoFd, aw'[b].m_handle = tfd[t]
        PROVE  aw'[b] = aw[b]
    BY <1>4, <2>2, NoAwaiterFacts DEF NoFd
  <2>3. ASSUME NEW t \in Tasks, tfd[t] # NoFd
        PROVE  /\ \A u \in Tasks : tfd[u] = tfd[t] => u = t
               /\ \A b \in Awaiters : aw'[b].m_handle = tfd[t] => aw'[b].task = t
    BY <2>1, <2>2, <2>3 DEF TimerFdInv
  <2> QED  BY <2>1, <2>3 DEF TimerFdInv, NoFd
<1> QED  BY <1>6, <1>7, <1>8, <1>9, <1>10, <1>11, <1>12 DEF IInv

\* Awaiters of a list are put on the ready queue, each once, those apart that
\* were put there before (executor.cpp, 63-66; executor.h, 155-164).
LEMMA EnqueueKeeps ==
  ASSUME IInv, NEW s \in Seq(Awaiters), OnceEach(s), Enqueue(s),
         \A a \in ToSet(s) : aw[a].m_queued \/ aw[a].state = "parked",
         \A a \in Awaiters : /\ aw'[a].task = aw[a].task /\ aw'[a].state = aw[a].state
                             /\ aw'[a].m_queued <=> aw[a].m_queued \/ a \in ToSet(s),
         UNCHANGED <<frame, waits_for>>
  PROVE  m_ready' \in Seq(Tasks) /\ ParkedInv'
<1>1. TypeAwaiters /\ ParkedInv
  BY TypeSplit DEF IInv
<1>2. PICK push : push = Unqueued(s)
  OBVIOUS
<1>3. push \in Seq(Awaiters) /\ ToSet(push) = ToSet(s) \ {a \in Awaiters : aw[a].m_queued} /\ OnceEach(push)
  BY <1>2, WithoutFacts DEF Unqueued
<1>4. /\ Len(push) \in Nat /\ DOMAIN push = 1 .. Len(push) /\ \A i \in 1 .. Len(push) : push[i] \in ToSet(push)
      /\ ToSet(s) \subseteq Awaiters
  BY <1>3, SeqFacts, SMT DEF ToSet
\* The task each of them belongs to.
<1>5. PICK T : T = {a \in Awaiters : aw[a].state = "parked" /\ ~aw[a].m_queued}
  OBVIOUS
<1>6. PICK f : f = [a \in T |-> aw[a].task]
  OBVIOUS
<1>7. /\ \A a \in ToSet(push) : a \in T
      /\ f \in [T -> Tasks] /\ \A a \in T : f[a] = aw[a].task
      /\ \A a, b \in T : f[a] = f[b] => a = b
  BY <1>1, <1>3, <1>4, <1>5, <1>6, SMT DEF ParkedInv
<1>8. PICK g : g = [i \in 1 .. Len(push) |-> f[push[i]]]
  OBVIOUS
<1>9. g \in Seq(Tasks) /\ ToSet(g) = {f[a] : a \in ToSet(push)} /\ OnceEach(g)
  <2>1. push \in Seq(T)
    BY <1>3, <1>4, <1>7, SMT
  <2>2. OnceEach(push) /\ \A a, b \in ToSet(push) : f[a] = f[b] => a = b
    BY <1>3, <1>7
  <2>3. g \in Seq(Tasks) /\ Len(g) = Len(push) /\ \A i \in 1 .. Len(push) : g[i] = f[push[i]]
    BY <1>4, <1>7, <1>8, SMT
  <2>4. /\ ToSet(g) = {f[a] : a \in ToSet(push)}
        /\ OnceEach(push) /\ (\A a, b \in ToSet(push) : f[a] = f[b] => a = b) => OnceEach(g)
    BY <2>1, <2>3, MapFacts
  <2> QED  BY <2>2, <2>3, <2>4
<1>10. m_ready' = m_ready \o g /\ ToSet(m_ready) \cap ToSet(g) = {}
  <2>1. g = [i \in 1 .. Len(push) |-> aw[push[i]].task]
    BY <1>4, <1>7, <1>8
  <2>2. ASSUME NEW t \in ToSet(m_ready), t \in ToSet(g)
        PROVE  FALSE
    <3>1. PICK a \in T : t = aw[a].task
      BY <1>7, <1>9, <2>2, SMT
    <3>2. t \in Tasks /\ waits_for[t] = a /\ a # 0 /\ ~aw[a].m_queued
      BY <1>1, <1>5, <3>1, SMT DEF ParkedInv, Awaiters
    <3> QED  BY <1>1, <2>2, <3>2 DEF ParkedInv
  <2> QED  BY <1>2, <2>1, <2>2 DEF Enqueue
<1>11. /\ m_ready' \in Seq(Tasks) /\ OnceEach(m_ready')
       /\ ToSet(m_ready') = ToSet(m_ready) \cup {f[a] : a \in ToSet(push)}
  BY <1>1, <1>9, <1>10, ConcatFacts, SMT DEF TypeAwaiters, ParkedInv
<1>12. ASSUME NEW t \in Tasks, t \in ToSet(m_ready')
       PROVE  frame[t] = "parked" /\ (waits_for[t] # 0 => aw'[waits_for[t]].m_queued)
  <2>1. CASE t \in ToSet(m_ready)
    BY <1>1, <2>1, SMT DEF ParkedInv, TypeAwaiters
  <2>2. CASE t \notin ToSet(m_ready)
    <3>1. PICK a \in ToSet(push) : t = aw[a].task /\ a \in T
      BY <1>7, <1>11, <1>12, <2>2, SMT
    <3>2. frame[t] = "parked" /\ waits_for[t] = a /\ a \in ToSet(s) /\ a \in Awaiters
      BY <1>1, <1>3, <1>5, <3>1 DEF ParkedInv
    <3> QED  BY <3>1, <3>2
  <2> QED  BY <2>1, <2>2
<1>13. ASSUME NEW t \in Tasks, frame[t] = "parked"
       PROVE  IF waits_for[t] = 0 THEN t \in ToSet(m_ready')
              ELSE aw'[waits_for[t]].state = "parked" /\ aw'[waits_for[t]].task = t
  <2>1. IF waits_for[t] = 0 THEN t \in ToSet(m_ready)
        ELSE waits_for[t] \in Awaiters /\ aw[waits_for[t]].state = "parked" /\ aw[waits_for[t]].task = t
    BY <1>13, ParkedAt
  <2> QED  BY <1>1, <1>11, <2>1
<1>14. ASSUME NEW a \in Awaiters, aw'[a].state = "parked"
       PROVE  /\ aw'[a].task \in Tasks /\ frame[aw'[a].task] = "parked" /\ waits_for[aw'[a].task] = a
              /\ aw'[a].m_queued => aw'[a].task \in ToSet(m_ready')
  <2>1. aw'[a].task = aw[a].task /\ aw[a].state = "parked"
    BY <1>14
  <2>2. ASSUME aw'[a].m_queued, ~aw[a].m_queued
        PROVE  aw[a].task \in ToSet(m_ready')
    <3>1. a \in ToSet(push) /\ f[a] = aw[a].task
      BY <1>3, <1>7, <2>1, <2>2
    <3> QED  BY <1>11, <3>1
  <2> QED  BY <1>1, <1>11, <2>1, <2>2, ZenonT(60) DEF ParkedInv
<1> QED  BY <1>11, <1>12, <1>13, <1>14 DEF ParkedInv

\* Registrations are taken back: the reactor forgets the handles of the awaiters
\* in R, and m_pending_io goes down with them (executor.h, 139-142, 156-159).
LEMMA UnregisterKeeps ==
  ASSUME IInv, NEW R \in SUBSET Awaiters, \A a \in R : aw[a].m_registered,
         remove({aw[a].m_handle : a \in R}), m_pending_io' = m_pending_io - Cardinality(R),
         \A a \in Awaiters : /\ aw'[a].m_handle = aw[a].m_handle
                             /\ aw'[a].m_registered <=> aw[a].m_registered /\ a \notin R
  PROVE  TypeReactor' /\ RegisteredInv'
<1>1. TypeReactor /\ RegisteredInv
  BY TypeSplit DEF IInv
<1>2. PICK H : H = {aw[a].m_handle : a \in R}
  OBVIOUS
<1>3. /\ H \subseteq Registered /\ \A a \in R : aw[a].m_handle \in H
      /\ \A a, b \in R : aw[a].m_handle = aw[b].m_handle => a = b
  BY <1>1, <1>2, SMT DEF RegisteredInv
<1>4. Registered' = Registered \ H /\ \A x \in Registered' : interest'[x] = interest[x]
  BY <1>2 DEF remove, Registered
<1>5. IsFiniteSet(R)
  <2>1. 1 \in Int /\ MaxSuspends \in Int
    BY BoundsAssumption, SMT DEF BoundsAssumption
  <2>2. IsFiniteSet(Awaiters)
    BY <2>1, FS_Interval DEF Awaiters
  <2> QED  BY <2>2, FS_Subset
<1>6. IsFiniteSet(H) /\ Cardinality(H) = Cardinality(R)
  <2>1. [a \in R |-> aw[a].m_handle] \in Bijection(R, H)
    BY <1>2, <1>3, ZenonT(30) DEF Bijection, Injection, Surjection, IsInjective
  <2> QED  BY <1>5, <2>1, FS_Bijection DEF ExistsBijection
<1>7. IsFiniteSet(Registered') /\ m_pending_io' = Cardinality(Registered')
  <2>1. IsFiniteSet(Registered \ H) /\ Cardinality(Registered \ H) = Cardinality(Registered) - Cardinality(Registered \cap H)
    BY <1>1, FS_Difference, ZenonT(60) DEF RegisteredInv
  <2>2. Registered \cap H = H
    BY <1>3
  <2> QED  BY <1>1, <1>4, <1>6, <2>1, <2>2 DEF RegisteredInv
<1>8. TypeReactor'
  <2>1. m_pending_io' \in Nat
    BY <1>7, FS_CardinalityType
  <2> QED  BY <1>1, <1>4, <2>1 DEF TypeReactor, remove, Registered
<1>9. ASSUME NEW x \in Registered'
      PROVE  aw'[interest'[x].token].m_registered /\ aw'[interest'[x].token].m_handle = x
  <2>1. PICK a \in Awaiters : a = interest[x].token
    BY <1>1, <1>4, <1>9 DEF TypeReactor
  <2>2. x \in Registered /\ x \notin H /\ interest'[x].token = a
    BY <1>4, <1>9, <2>1
  <2>3. aw[a].m_registered /\ aw[a].m_handle = x
    BY <1>1, <2>1, <2>2 DEF RegisteredInv
  <2>4. a \notin R
    BY <1>3, <2>2, <2>3
  <2> QED  BY <2>2, <2>3, <2>4
<1>10. ASSUME NEW a \in Awaiters, aw'[a].m_registered
       PROVE  aw'[a].m_handle \in Registered' /\ interest'[aw'[a].m_handle].token = a
  <2>1. aw[a].m_registered /\ a \notin R /\ aw'[a].m_handle = aw[a].m_handle
    BY <1>10
  <2>2. aw[a].m_handle \in Registered /\ interest[aw[a].m_handle].token = a
    BY <1>1, <2>1, ZenonT(60) DEF RegisteredInv
  <2>3. aw[a].m_handle \notin H
    BY <1>1, <1>2, <2>1, <2>2, SMT DEF RegisteredInv
  <2> QED  BY <1>4, <2>1, <2>2, <2>3
<1> QED  BY <1>7, <1>8, <1>9, <1>10 DEF RegisteredInv

\* request_stop: every linked node is unlinked and its awaiter cancelled
\* (stop_token.h, 57-68; executor.h, 150-165).
LEMMA RequestStopStep ==
  ASSUME IInv, NEW c \in Callers, RequestStop(c)
  PROVE  IInv'
<1>0. PICK hit : hit = Without(callbacks, {a \in Awaiters : aw[a].m_cancelled})
  OBVIOUS
<1>1. PICK regs : regs = {a \in ToSet(hit) : aw[a].m_registered}
  OBVIOUS
<1>2. /\ ~stopped /\ stopped' = TRUE /\ callbacks' = <<>>
      /\ remove({aw[a].m_handle : a \in regs}) /\ m_pending_io' = m_pending_io - Cardinality(regs)
      /\ Enqueue(hit)
      /\ aw' = [a \in Awaiters |->
                 IF a \in ToSet(hit)
                 THEN [aw[a] EXCEPT !.m_cancelled = TRUE, !.m_registered = FALSE, !.m_queued = TRUE]
                 ELSE aw[a]]
      /\ UNCHANGED <<tasksOnly, loopVars, otherVars, waits_for, n_suspends>>
  BY <1>0, <1>1 DEF RequestStop, tasksOnly, taskVars
<1>3. TypeAwaiters /\ TypeReactor /\ AwaitersInv /\ CallbacksInv /\ RegisteredInv
  BY TypeSplit DEF IInv
\* No awaiter was cancelled before.
<1>4. /\ hit \in Seq(Awaiters) /\ OnceEach(hit) /\ ToSet(hit) = ToSet(callbacks)
      /\ ToSet(hit) \subseteq Awaiters
  <2>1. {a \in Awaiters : aw[a].m_cancelled} = {}
    BY <1>2, <1>3 DEF AwaitersInv
  <2>2. hit \in Seq(Awaiters) /\ OnceEach(hit) /\ ToSet(hit) = ToSet(callbacks) \ {}
    BY <1>0, <1>3, <2>1, WithoutFacts DEF TypeAwaiters, CallbacksInv
  <2> QED  BY <2>2, SeqFacts
<1>5. /\ \A a \in ToSet(hit) :
           /\ aw'[a].task = aw[a].task /\ aw'[a].m_handle = aw[a].m_handle /\ aw'[a].m_token = aw[a].m_token
           /\ aw'[a].state = aw[a].state /\ aw'[a].m_fired = aw[a].m_fired /\ aw'[a].result = aw[a].result
           /\ aw'[a].m_cancelled /\ ~aw'[a].m_registered /\ aw'[a].m_queued
           /\ aw'[a] \in AwaiterSet
      /\ \A a \in Awaiters : a \notin ToSet(hit) => aw'[a] = aw[a]
  <2>1. ASSUME NEW a \in ToSet(hit)
        PROVE  /\ aw[a] \in AwaiterSet
               /\ aw'[a] = [aw[a] EXCEPT !.m_cancelled = TRUE, !.m_registered = FALSE, !.m_queued = TRUE]
    BY <1>2, <1>3, <1>4 DEF TypeAwaiters
  <2>2. ASSUME NEW a \in Awaiters, a \notin ToSet(hit)
        PROVE  aw'[a] = aw[a]
    BY <1>2, <2>2
  <2>3. ASSUME NEW w \in AwaiterSet, NEW v,
               v = [w EXCEPT !.m_cancelled = TRUE, !.m_registered = FALSE, !.m_queued = TRUE]
        PROVE  /\ v.task = w.task /\ v.m_handle = w.m_handle /\ v.m_token = w.m_token
               /\ v.state = w.state /\ v.m_fired = w.m_fired /\ v.result = w.result
               /\ v.m_cancelled /\ ~v.m_registered /\ v.m_queued /\ v \in AwaiterSet
    BY <2>3 DEF AwaiterSet
  <2> QED  BY <2>1, <2>2, <2>3
<1>6. TypeLoop' /\ TypeTasks' /\ TasksInv' /\ FramesAreOwned' /\ StackInv' /\ TargetInv'
  BY <1>2, AwaiterStepKeeps
<1>7. m_ready' \in Seq(Tasks) /\ ParkedInv'
  <2>1. \A a \in ToSet(hit) : aw[a].m_queued \/ aw[a].state = "parked"
    BY <1>3, <1>4 DEF CallbacksInv, TypeAwaiters, AwaiterSet
  <2>2. \A a \in Awaiters : /\ aw'[a].task = aw[a].task /\ aw'[a].state = aw[a].state
                            /\ aw'[a].m_queued <=> aw[a].m_queued \/ a \in ToSet(hit)
    BY <1>5
  <2>3. UNCHANGED <<frame, waits_for>>
    BY <1>2 DEF tasksOnly
  <2> QED  BY <1>2, <1>4, <2>1, <2>2, <2>3, EnqueueKeeps
<1>8. TypeReactor' /\ RegisteredInv'
  <2>1. regs \in SUBSET Awaiters /\ \A a \in regs : aw[a].m_registered
    BY <1>1, <1>4
  <2>2. \A a \in Awaiters : /\ aw'[a].m_handle = aw[a].m_handle
                            /\ aw'[a].m_registered <=> aw[a].m_registered /\ a \notin regs
    BY <1>1, <1>5
  <2> QED  BY <1>2, <2>1, <2>2, UnregisterKeeps
<1>9. TypeOK'
  <2>1. TypeAwaiters'
    <3>1. aw' \in [Awaiters -> AwaiterSet]
      BY <1>2, <1>3, <1>5 DEF TypeAwaiters
    <3> QED  BY <1>2, <1>3, <1>7, <3>1, NoElements DEF TypeAwaiters
  <2> QED  BY <1>6, <1>8, <2>1, TypeSplitNext, ZenonT(60)
<1>10. AwaitersInv'
  <2>1. ASSUME NEW a \in ToSet(hit)
        PROVE  aw[a].state # "none" /\ aw[a].m_token /\ a \in Awaiters
    BY <1>3, <1>4, <2>1 DEF CallbacksInv
  <2>2. ASSUME NEW a \in Awaiters
        PROVE  /\ aw'[a].state = "none" => aw'[a] = NoAwaiter
               /\ a > n_suspends => aw'[a].state = "none"
               /\ aw'[a].state = "parked" => aw'[a].result \in {"none", "error"}
               /\ aw'[a].state = "parked" /\ ~aw'[a].m_queued => aw'[a].m_registered
               /\ aw'[a].state = "parked" /\ aw'[a].m_queued =>
                    aw'[a].result = "error" \/ aw'[a].m_cancelled \/ aw'[a].m_fired
               /\ aw'[a].m_cancelled => aw'[a].m_token
               /\ aw'[a].m_registered => aw'[a].state = "parked"
    <3>1. CASE a \in ToSet(hit)
      BY <1>3, <1>5, <2>1, <3>1, ZenonT(60) DEF AwaitersInv
    <3>2. CASE a \notin ToSet(hit)
      BY <1>3, <1>5, <3>2, SMT DEF AwaitersInv
    <3> QED  BY <3>1, <3>2
  <2>3. n_suspends' = n_suspends /\ stopped'
    BY <1>2
  <2> QED  BY <2>2, <2>3 DEF AwaitersInv
<1>11. ResultsHaveReasons'
  <2>1. ASSUME NEW a \in Awaiters
        PROVE  /\ aw'[a].result = "ok" => aw'[a].m_fired /\ ~aw'[a].m_registered
               /\ aw'[a].result = "cancelled" => aw'[a].m_token
    BY <1>5 DEF IInv, ResultsHaveReasons
  <2> QED  BY <1>2, <2>1 DEF ResultsHaveReasons
<1>12. CallbacksInv'
  <2>1. ToSet(callbacks') = {} /\ OnceEach(callbacks')
    BY <1>2, EmptyFacts
  <2>2. \A a \in Awaiters : ~(aw'[a].state = "parked" /\ aw'[a].m_token /\ ~aw'[a].m_queued)
    BY <1>3, <1>4, <1>5 DEF CallbacksInv
  <2> QED  BY <1>2, <2>1, <2>2 DEF CallbacksInv
<1>13. TimerFdInv'
  <2>1. \A a \in Awaiters : aw'[a].m_handle = aw[a].m_handle /\ aw'[a].task = aw[a].task
    BY <1>5
  <2> QED  BY <1>2, <2>1, TimerFdKeeps DEF tasksOnly
<1> QED  BY <1>6, <1>7, <1>8, <1>9, <1>10, <1>11, <1>12, <1>13 DEF IInv

\* The members of an awaiter that is resumed.
LEMMA ResumedFacts ==
  ASSUME IInv, NEW a \in Awaiters, AwaitResume(a)
  PROVE  /\ aw' \in [Awaiters -> AwaiterSet]
         /\ \A b \in Awaiters : b # a => aw'[b] = aw[b]
         /\ aw'[a].task = aw[a].task /\ aw'[a].m_handle = aw[a].m_handle /\ aw'[a].m_token = aw[a].m_token
         /\ aw'[a].state = "resumed" /\ aw'[a].m_fired = aw[a].m_fired /\ ~aw'[a].m_registered
         /\ aw'[a].m_cancelled = aw[a].m_cancelled /\ aw'[a].m_queued = aw[a].m_queued
         /\ aw'[a].result = IF aw[a].result = "error" THEN "error"
                            ELSE IF aw[a].m_cancelled \/ (aw[a].m_token /\ stopped)
                            THEN "cancelled" ELSE "ok"
<1>1. PICK r : r = IF aw[a].result = "error" THEN "error"
                   ELSE IF aw[a].m_cancelled \/ (aw[a].m_token /\ stopped) THEN "cancelled" ELSE "ok"
  OBVIOUS
<1>2. aw \in [Awaiters -> AwaiterSet] /\ r \in {"none", "ok", "cancelled", "error"}
  BY <1>1, TypeSplit DEF IInv, TypeAwaiters
<1>3. aw' = [aw EXCEPT ![a] = [aw[a] EXCEPT !.state = "resumed", !.m_registered = FALSE, !.result = r]]
  BY <1>1, <1>2 DEF AwaitResume, AwaiterSet
<1>4. aw'[a] = [aw[a] EXCEPT !.state = "resumed", !.m_registered = FALSE, !.result = r]
  BY <1>2, <1>3
<1>5. ASSUME NEW w \in AwaiterSet, NEW v,
             v = [w EXCEPT !.state = "resumed", !.m_registered = FALSE, !.result = r]
      PROVE  /\ v.task = w.task /\ v.m_handle = w.m_handle /\ v.m_token = w.m_token
             /\ v.state = "resumed" /\ v.m_fired = w.m_fired /\ ~v.m_registered
             /\ v.m_cancelled = w.m_cancelled /\ v.m_queued = w.m_queued /\ v.result = r
             /\ v \in AwaiterSet
  BY <1>2, <1>5 DEF AwaiterSet
<1>6. aw[a] \in AwaiterSet
  BY <1>2
<1>7. /\ aw'[a].task = aw[a].task /\ aw'[a].m_handle = aw[a].m_handle /\ aw'[a].m_token = aw[a].m_token
      /\ aw'[a].state = "resumed" /\ aw'[a].m_fired = aw[a].m_fired /\ ~aw'[a].m_registered
      /\ aw'[a].m_cancelled = aw[a].m_cancelled /\ aw'[a].m_queued = aw[a].m_queued /\ aw'[a].result = r
      /\ aw'[a] \in AwaiterSet
  BY <1>4, <1>5, <1>6
<1>8. aw' \in [Awaiters -> AwaiterSet] /\ \A b \in Awaiters : b # a => aw'[b] = aw[b]
  BY <1>2, <1>3, <1>4, <1>7
<1> QED  BY <1>1, <1>7, <1>8

\* The oldest ready handle is resumed (executor.cpp, 40-43; executor.h, 136-148).
LEMMA LoopResumeStep ==
  ASSUME IInv, LoopResume
  PROVE  IInv'
<1>0. PICK t : t = Head(m_ready)
  OBVIOUS
<1>1. PICK a : a = waits_for[t]
  OBVIOUS
<1>2. /\ l_pc = "drain" /\ l_pc' = "resumed" /\ m_ready # <<>>
      /\ m_ready' = Tail(m_ready) /\ stack' = <<t>>
      /\ frame' = [frame EXCEPT ![t] = "body"]
      /\ waits_for' = [waits_for EXCEPT ![t] = 0]
      /\ IF a # 0 THEN AwaitResume(a) ELSE UNCHANGED <<reactorVars, m_pending_io, aw>>
      /\ UNCHANGED <<m_running, target, n_tasks, continuation, handle_dropped, owner, tfd, n_suspends,
                     stopped, callbacks, x_pc>>
  BY <1>0, <1>1 DEF LoopResume, Goto, stopVars, otherVars
<1>3. TypeAwaiters /\ TypeReactor /\ TypeTasks /\ ParkedInv /\ AwaitersInv /\ CallbacksInv /\ StackInv
  BY TypeSplit DEF IInv
<1>4. /\ m_ready' \in Seq(Tasks) /\ OnceEach(m_ready') /\ t \in Tasks /\ t \in ToSet(m_ready)
      /\ ToSet(m_ready') = ToSet(m_ready) \ {t}
  BY <1>0, <1>2, <1>3, TailFacts DEF TypeAwaiters, ParkedInv
<1>5. /\ frame[t] = "parked" /\ a \in Awaiters \cup {0}
      /\ a # 0 => a \in Awaiters /\ aw[a].m_queued /\ aw[a].state = "parked" /\ aw[a].task = t
  BY <1>1, <1>3, <1>4, ZenonT(60) DEF ParkedInv, TypeAwaiters
<1>6. /\ \A u \in Tasks : frame'[u] = IF u = t THEN "body" ELSE frame[u]
      /\ \A u \in Tasks : waits_for'[u] = IF u = t THEN 0 ELSE waits_for[u]
      /\ waits_for' \in [Tasks -> Awaiters \cup {0}]
  BY <1>2, <1>3, <1>4 DEF TypeTasks, TypeAwaiters
<1>7. stack = <<>> /\ stack' \in Seq(Tasks) /\ OnceEach(stack') /\ ToSet(stack') = {t}
  <2>1. <<t>> \in Seq(Tasks) /\ DOMAIN <<t>> = {1} /\ <<t>>[1] = t
    BY <1>4, SMT
  <2>2. ToSet(<<t>>) = {t} /\ OnceEach(<<t>>)
    BY <2>1 DEF ToSet, OnceEach
  <2> QED  BY <1>2, <1>3, <2>1, <2>2 DEF StackInv
<1>8. TasksInv' /\ FramesAreOwned'
  BY <1>2, <1>4, <1>5, MovesKeep
<1>9. TypeLoop' /\ TargetInv'
  BY <1>2, TypeSplit DEF IInv, TypeLoop, TargetInv
<1>10. StackInv'
  <2>1. \A u \in Tasks : frame[u] # "body"
    <3>1. ToSet(<<>>) = {}
      BY EmptyFacts
    <3> QED  BY <1>3, <1>7, <3>1 DEF StackInv
  <2> QED  BY <1>2, <1>6, <1>7, <2>1 DEF StackInv
<1>11. TypeTasks'
  BY <1>2, <1>3, <1>7, ZenonT(60) DEF TypeTasks
<1>12. CASE a = 0
  <2>1. UNCHANGED <<reactorVars, m_pending_io, aw>>
    BY <1>2, <1>12
  <2>2. TypeOK'
    <3>1. TypeReactor'
      BY <1>3, <2>1 DEF TypeReactor, reactorVars, Registered
    <3>2. TypeAwaiters'
      BY <1>2, <1>3, <1>4, <1>6, <2>1 DEF TypeAwaiters
    <3> QED  BY <1>9, <1>11, <3>1, <3>2, TypeSplitNext, ZenonT(60)
  <2>3. ParkedInv'
    <3>1. \A u \in Tasks : u \in ToSet(m_ready') =>
            frame'[u] = "parked" /\ (waits_for'[u] # 0 => aw[waits_for'[u]].m_queued)
      BY <1>3, <1>4, <1>6 DEF ParkedInv
    <3>2. ASSUME NEW u \in Tasks, frame'[u] = "parked"
          PROVE  IF waits_for'[u] = 0 THEN u \in ToSet(m_ready')
                 ELSE aw[waits_for'[u]].state = "parked" /\ aw[waits_for'[u]].task = u
      <4>1. u # t /\ frame[u] = "parked" /\ waits_for'[u] = waits_for[u]
        BY <1>6, <3>2
      <4> QED  BY <1>4, <4>1, ParkedAt
    <3>3. ASSUME NEW b \in Awaiters, aw[b].state = "parked"
          PROVE  /\ aw[b].task \in Tasks /\ frame'[aw[b].task] = "parked" /\ waits_for'[aw[b].task] = b
                 /\ aw[b].m_queued => aw[b].task \in ToSet(m_ready')
      <4>1. b # a
        BY <1>12, SMT DEF Awaiters
      <4>2. /\ aw[b].task \in Tasks /\ frame[aw[b].task] = "parked" /\ waits_for[aw[b].task] = b
            /\ aw[b].m_queued => aw[b].task \in ToSet(m_ready)
        BY <1>3, <3>3 DEF ParkedInv
      <4>3. aw[b].task # t
        BY <1>1, <4>1, <4>2
      <4> QED  BY <1>4, <1>6, <4>2, <4>3
    <3> QED  BY <1>4, <2>1, <3>1, <3>2, <3>3, ZenonT(60) DEF ParkedInv
  <2>4. AwaitersInv' /\ CallbacksInv' /\ TimerFdInv' /\ ResultsHaveReasons'
    BY <1>2, <2>1 DEF IInv, AwaitersInv, CallbacksInv, TimerFdInv, ResultsHaveReasons
  <2>5. RegisteredInv'
    BY <2>1 DEF IInv, RegisteredInv, Registered, reactorVars
  <2> QED  BY <1>8, <1>9, <1>10, <2>2, <2>3, <2>4, <2>5 DEF IInv
<1>13. CASE a # 0
  <2>1. AwaitResume(a) /\ a \in Awaiters /\ aw[a].m_queued /\ aw[a].state = "parked" /\ aw[a].task = t
    BY <1>2, <1>5, <1>13
  <2>2. /\ aw' \in [Awaiters -> AwaiterSet]
        /\ \A b \in Awaiters : b # a => aw'[b] = aw[b]
        /\ aw'[a].task = aw[a].task /\ aw'[a].m_handle = aw[a].m_handle /\ aw'[a].m_token = aw[a].m_token
        /\ aw'[a].state = "resumed" /\ aw'[a].m_fired = aw[a].m_fired /\ ~aw'[a].m_registered
        /\ aw'[a].m_cancelled = aw[a].m_cancelled /\ aw'[a].m_queued = aw[a].m_queued
        /\ aw'[a].result = IF aw[a].result = "error" THEN "error"
                           ELSE IF aw[a].m_cancelled \/ (aw[a].m_token /\ stopped)
                           THEN "cancelled" ELSE "ok"
    BY <2>1, ResumedFacts
  <2>3. TypeReactor' /\ RegisteredInv'
    <3>1. CASE aw[a].m_registered
      <4>1. {aw[b].m_handle : b \in {a}} = {aw[a].m_handle} /\ Cardinality({a}) = 1
        BY FS_Singleton
      <4>2. remove({aw[b].m_handle : b \in {a}}) /\ m_pending_io' = m_pending_io - Cardinality({a})
        BY <2>1, <3>1, <4>1 DEF AwaitResume
      <4>3. PICK R : R = {a}
        OBVIOUS
      <4>4. /\ R \in SUBSET Awaiters /\ \A b \in R : aw[b].m_registered
            /\ \A b \in Awaiters : /\ aw'[b].m_handle = aw[b].m_handle
                                   /\ aw'[b].m_registered <=> aw[b].m_registered /\ b \notin R
        BY <2>1, <2>2, <3>1, <4>3, ZenonT(60)
      <4>5. remove({aw[b].m_handle : b \in R}) /\ m_pending_io' = m_pending_io - Cardinality(R)
        BY <4>2, <4>3
      <4> QED  BY <4>4, <4>5, UnregisterKeeps
    <3>2. CASE ~aw[a].m_registered
      <4>1. UNCHANGED <<reactorVars, m_pending_io>>
        BY <2>1, <3>2 DEF AwaitResume
      <4>2. \A b \in Awaiters : aw'[b].m_handle = aw[b].m_handle /\ (aw'[b].m_registered <=> aw[b].m_registered)
        BY <2>2, <3>2
      <4>3. \A h \in Registered : interest[h].token \in Awaiters
        BY <1>3 DEF TypeReactor
      <4> QED  BY <1>3, <4>1, <4>2, <4>3 DEF IInv, RegisteredInv, TypeReactor, reactorVars, Registered
    <3> QED  BY <3>1, <3>2
  <2>4. TypeOK'
    <3>1. TypeAwaiters'
      BY <1>2, <1>3, <1>4, <1>6, <2>2 DEF TypeAwaiters
    <3> QED  BY <1>9, <1>11, <2>3, <3>1, TypeSplitNext, ZenonT(60)
  <2>5. ParkedInv'
    <3>1. ASSUME NEW u \in Tasks, frame'[u] = "parked"
          PROVE  /\ u # t /\ frame[u] = "parked" /\ waits_for'[u] = waits_for[u]
                 /\ waits_for[u] # 0 => aw'[waits_for[u]] = aw[waits_for[u]]
      <4>1. u # t /\ frame[u] = "parked" /\ waits_for'[u] = waits_for[u]
        BY <1>6, <3>1
      <4>2. ASSUME waits_for[u] # 0
            PROVE  waits_for[u] \in Awaiters /\ waits_for[u] # a
        BY <2>1, <4>1, <4>2, ParkedAt
      <4> QED  BY <2>2, <4>1, <4>2
    <3>2. ASSUME NEW u \in Tasks, u \in ToSet(m_ready')
          PROVE  frame'[u] = "parked" /\ (waits_for'[u] # 0 => aw'[waits_for'[u]].m_queued)
      <4>1. u # t /\ frame[u] = "parked" /\ (waits_for[u] # 0 => aw[waits_for[u]].m_queued)
        BY <1>3, <1>4, <3>2 DEF ParkedInv
      <4>2. frame'[u] = "parked"
        BY <1>6, <4>1
      <4> QED  BY <3>1, <4>1, <4>2
    <3>3. ASSUME NEW u \in Tasks, frame'[u] = "parked"
          PROVE  IF waits_for'[u] = 0 THEN u \in ToSet(m_ready')
                 ELSE aw'[waits_for'[u]].state = "parked" /\ aw'[waits_for'[u]].task = u
      <4>1. u # t /\ frame[u] = "parked" /\ waits_for'[u] = waits_for[u]
        BY <3>1, <3>3
      <4>2. CASE waits_for[u] = 0
        BY <1>4, <4>1, <4>2, ParkedAt
      <4>3. CASE waits_for[u] # 0
        <5>1. aw'[waits_for[u]] = aw[waits_for[u]]
          BY <3>1, <3>3, <4>3
        <5> QED  BY <4>1, <4>3, <5>1, ParkedAt
      <4> QED  BY <4>2, <4>3
    <3>4. ASSUME NEW b \in Awaiters, aw'[b].state = "parked"
          PROVE  /\ aw'[b].task \in Tasks /\ frame'[aw'[b].task] = "parked" /\ waits_for'[aw'[b].task] = b
                 /\ aw'[b].m_queued => aw'[b].task \in ToSet(m_ready')
      <4>1. b # a /\ aw'[b] = aw[b]
        BY <2>2, <3>4
      <4>2. /\ aw[b].task \in Tasks /\ frame[aw[b].task] = "parked" /\ waits_for[aw[b].task] = b
            /\ aw[b].m_queued => aw[b].task \in ToSet(m_ready)
        BY <1>3, <3>4, <4>1 DEF ParkedInv
      <4>3. aw[b].task # t
        BY <1>1, <4>1, <4>2
      <4> QED  BY <1>4, <1>6, <4>1, <4>2, <4>3
    <3> QED  BY <1>4, <3>2, <3>3, <3>4 DEF ParkedInv
  <2>6. AwaitersInv'
    <3>1. ASSUME NEW b \in Awaiters, b # a
          PROVE  aw'[b] = aw[b]
      BY <2>2, <3>1
    <3>2. /\ aw'[a].state = "resumed" /\ ~aw'[a].m_registered /\ ~(a > n_suspends)
          /\ aw'[a].m_cancelled => stopped /\ aw'[a].m_token
      BY <1>3, <2>1, <2>2 DEF AwaitersInv
    <3> QED  BY <1>2, <1>3, <3>1, <3>2, SMT DEF AwaitersInv
  <2>7. ResultsHaveReasons'
    <3>1. ASSUME NEW b \in Awaiters, b # a
          PROVE  aw'[b] = aw[b]
      BY <2>2, <3>1
    <3>2. /\ aw'[a].result = "ok" => aw'[a].m_fired /\ ~aw'[a].m_registered
          /\ aw'[a].result = "cancelled" => aw'[a].m_token /\ stopped
      BY <1>3, <2>1, <2>2, SMT DEF AwaitersInv
    <3>3. ResultsHaveReasons /\ stopped' = stopped
      BY <1>2 DEF IInv
    <3>4. ASSUME NEW b \in Awaiters
          PROVE  /\ aw'[b].result = "ok" => aw'[b].m_fired /\ ~aw'[b].m_registered
                 /\ aw'[b].result = "cancelled" => aw'[b].m_token /\ stopped
      <4>1. CASE b = a
        BY <3>2, <4>1
      <4>2. CASE b # a
        BY <3>1, <3>3, <4>2 DEF ResultsHaveReasons
      <4> QED  BY <4>1, <4>2
    <3> QED  BY <3>3, <3>4 DEF ResultsHaveReasons
  <2>8. CallbacksInv'
    BY <1>2, <1>3, <2>1, <2>2 DEF CallbacksInv
  <2>9. TimerFdInv'
    BY <1>2, <2>2, TimerFdKeeps
  <2> QED  BY <1>8, <1>9, <1>10, <2>3, <2>4, <2>5, <2>6, <2>7, <2>8, <2>9, ZenonT(60) DEF IInv
<1> QED  BY <1>12, <1>13

\* The triggers of a wait name awaiters that are suspended, each once
\* (executor.cpp, 60-62).
LEMMA FiredFacts ==
  ASSUME IInv, NEW got \in Batches(MAX_EVENTS_PER_WAIT), NEW triggers \in TriggerSeqs(got),
         NEW fired, fired = [i \in DOMAIN triggers |-> triggers[i].user_token]
  PROVE  /\ fired \in Seq(Awaiters) /\ OnceEach(fired) /\ ToSet(fired) \subseteq Awaiters
         /\ \A a \in ToSet(fired) : aw[a].state = "parked"
<1>1. PICK G : G = got \ {WakeFd}
  OBVIOUS
<1>2. G \subseteq Registered /\ IsFiniteSet(G) /\ Cardinality(G) \in Nat
  <2>1. G \subseteq Registered
    BY <1>1 DEF Batches, ReadyFds
  <2> QED  BY <2>1, FS_Subset, FS_CardinalityType DEF IInv, RegisteredInv
<1>3. PICK s \in Orders(G) : triggers = [i \in DOMAIN s |-> [events |-> from_epoll(Reported(s[i])),
                                                             user_token |-> interest[s[i]].token]]
  BY <1>1 DEF TriggerSeqs
<1>4. PICK n \in Nat : n = Cardinality(G)
  BY <1>2
<1>5. s \in [1 .. n -> G] /\ OnceEach(s)
  BY <1>3, <1>4 DEF Orders
<1>6. fired = [i \in 1 .. n |-> interest[s[i]].token]
  BY <1>3, <1>5
<1>7. ASSUME NEW i \in 1 .. n
      PROVE  /\ interest[s[i]].token \in Awaiters /\ aw[interest[s[i]].token].m_handle = s[i]
             /\ aw[interest[s[i]].token].state = "parked"
  <2>1. s[i] \in Registered
    BY <1>2, <1>5
  <2>2. PICK a \in Awaiters : a = interest[s[i]].token
    BY <2>1 DEF IInv, TypeOK
  <2>3. aw[a].m_registered /\ aw[a].m_handle = s[i]
    BY <2>1, <2>2 DEF IInv, RegisteredInv
  <2> QED  BY <2>2, <2>3 DEF IInv, AwaitersInv
<1>8. fired \in Seq(Awaiters)
  BY <1>6, <1>7, SMT
<1>9. OnceEach(fired)
  BY <1>5, <1>6, <1>7, SMT DEF OnceEach
<1>10. ToSet(fired) \subseteq Awaiters /\ \A a \in ToSet(fired) : aw[a].state = "parked"
  BY <1>6, <1>7, SMT DEF ToSet
<1> QED  BY <1>8, <1>9, <1>10

\* wait returns triggers, and each wakes its awaiter (executor.cpp, 53-67).
LEMMA LoopWaitStep ==
  ASSUME IInv, NEW got, LoopWait(got)
  PROVE  IInv'
<1>0. PICK triggers \in TriggerSeqs(got) :
        LET fired == [i \in DOMAIN triggers |-> triggers[i].user_token] IN
        /\ Enqueue(fired)
        /\ aw' = [a \in Awaiters |->
                    IF a \in ToSet(fired) THEN [aw[a] EXCEPT !.m_fired = TRUE, !.m_queued = TRUE]
                    ELSE aw[a]]
  BY DEF LoopWait
<1>1. PICK fired : fired = [i \in DOMAIN triggers |-> triggers[i].user_token]
  OBVIOUS
<1>2. /\ got \in Batches(MAX_EVENTS_PER_WAIT) /\ l_pc = "wait" /\ l_pc' = "top" /\ Enqueue(fired)
      /\ aw' = [a \in Awaiters |->
                  IF a \in ToSet(fired) THEN [aw[a] EXCEPT !.m_fired = TRUE, !.m_queued = TRUE]
                  ELSE aw[a]]
      /\ UNCHANGED <<interest, m_pending_io, tasksOnly, target, m_running, x_pc, waits_for, n_suspends,
                     stopped, callbacks>>
  BY <1>0, <1>1 DEF LoopWait, drain, Goto, tasksOnly, taskVars, stopVars, otherVars
<1>3. /\ fired \in Seq(Awaiters) /\ OnceEach(fired) /\ ToSet(fired) \subseteq Awaiters
      /\ \A a \in ToSet(fired) : aw[a].state = "parked"
  BY <1>1, <1>2, FiredFacts
<1>4. TypeAwaiters /\ TypeReactor /\ AwaitersInv /\ CallbacksInv /\ RegisteredInv
  BY TypeSplit DEF IInv
<1>5. /\ \A a \in ToSet(fired) :
           /\ aw'[a].task = aw[a].task /\ aw'[a].m_handle = aw[a].m_handle /\ aw'[a].m_token = aw[a].m_token
           /\ aw'[a].state = aw[a].state /\ aw'[a].m_cancelled = aw[a].m_cancelled
           /\ aw'[a].m_registered = aw[a].m_registered /\ aw'[a].result = aw[a].result
           /\ aw'[a].m_fired /\ aw'[a].m_queued /\ aw'[a] \in AwaiterSet
      /\ \A a \in Awaiters : a \notin ToSet(fired) => aw'[a] = aw[a]
  <2>1. ASSUME NEW a \in ToSet(fired)
        PROVE  aw[a] \in AwaiterSet /\ aw'[a] = [aw[a] EXCEPT !.m_fired = TRUE, !.m_queued = TRUE]
    BY <1>2, <1>3, <1>4 DEF TypeAwaiters
  <2>2. ASSUME NEW a \in Awaiters, a \notin ToSet(fired)
        PROVE  aw'[a] = aw[a]
    BY <1>2, <2>2
  <2>3. ASSUME NEW w \in AwaiterSet, NEW v, v = [w EXCEPT !.m_fired = TRUE, !.m_queued = TRUE]
        PROVE  /\ v.task = w.task /\ v.m_handle = w.m_handle /\ v.m_token = w.m_token
               /\ v.state = w.state /\ v.m_cancelled = w.m_cancelled
               /\ v.m_registered = w.m_registered /\ v.result = w.result
               /\ v.m_fired /\ v.m_queued /\ v \in AwaiterSet
    BY <2>3 DEF AwaiterSet
  <2> QED  BY <2>1, <2>2, <2>3
<1>6. TypeTasks' /\ TasksInv' /\ FramesAreOwned' /\ TypeLoop' /\ TargetInv' /\ StackInv'
  <2>1. TypeTasks' /\ TypeLoop'
    BY <1>2, TypeSplit DEF IInv, TypeTasks, TypeLoop, tasksOnly
  <2>2. TasksInv' /\ FramesAreOwned'
    BY <1>2, TasksKeep
  <2>3. StackInv' /\ TargetInv'
    BY <1>2 DEF IInv, StackInv, TargetInv, tasksOnly
  <2> QED  BY <2>1, <2>2, <2>3
<1>7. \A a \in Awaiters :
        /\ aw'[a].task = aw[a].task /\ aw'[a].m_handle = aw[a].m_handle /\ aw'[a].m_token = aw[a].m_token
        /\ aw'[a].state = aw[a].state /\ aw'[a].m_cancelled = aw[a].m_cancelled
        /\ aw'[a].m_registered = aw[a].m_registered /\ aw'[a].result = aw[a].result
        /\ aw'[a].m_queued <=> aw[a].m_queued \/ a \in ToSet(fired)
        /\ aw[a].m_fired => aw'[a].m_fired
  BY <1>5
<1>8. m_ready' \in Seq(Tasks) /\ ParkedInv'
  <2>1. UNCHANGED <<frame, waits_for>>
    BY <1>2 DEF tasksOnly
  <2> QED  BY <1>2, <1>3, <1>7, <2>1, EnqueueKeeps
<1>9. TypeOK'
  <2>1. TypeAwaiters'
    <3>1. aw' \in [Awaiters -> AwaiterSet]
      BY <1>2, <1>4, <1>5 DEF TypeAwaiters
    <3> QED  BY <1>2, <1>4, <1>8, <3>1 DEF TypeAwaiters
  <2>2. TypeReactor'
    BY <1>2, <1>4 DEF TypeReactor, Registered
  <2> QED  BY <1>6, <2>1, <2>2, TypeSplitNext
<1>10. AwaitersInv'
  <2>1. ASSUME NEW a \in Awaiters
        PROVE  /\ aw'[a].state = "none" => aw'[a] = NoAwaiter
               /\ a > n_suspends => aw'[a].state = "none"
               /\ aw'[a].state = "parked" => aw'[a].result \in {"none", "error"}
               /\ aw'[a].state = "parked" /\ ~aw'[a].m_queued => aw'[a].m_registered
               /\ aw'[a].state = "parked" /\ aw'[a].m_queued =>
                    aw'[a].result = "error" \/ aw'[a].m_cancelled \/ aw'[a].m_fired
               /\ aw'[a].m_cancelled => stopped /\ aw'[a].m_token
               /\ aw'[a].m_registered => aw'[a].state = "parked"
    <3>1. CASE a \in ToSet(fired)
      BY <1>3, <1>4, <1>5, <3>1, ZenonT(60) DEF AwaitersInv
    <3>2. CASE a \notin ToSet(fired)
      BY <1>4, <1>5, <3>2, SMT DEF AwaitersInv
    <3> QED  BY <3>1, <3>2
  <2> QED  BY <1>2, <2>1 DEF AwaitersInv
<1>11. ResultsHaveReasons' /\ TimerFdInv'
  <2>1. ASSUME NEW a \in Awaiters
        PROVE  /\ aw'[a].result = "ok" => aw'[a].m_fired /\ ~aw'[a].m_registered
               /\ aw'[a].result = "cancelled" => aw'[a].m_token /\ stopped
    BY <1>7 DEF IInv, ResultsHaveReasons
  <2>2. \A a \in Awaiters : aw'[a].m_handle = aw[a].m_handle /\ aw'[a].task = aw[a].task
    BY <1>7
  <2>3. TimerFdInv'
    BY <1>2, <2>2, TimerFdKeeps DEF tasksOnly
  <2> QED  BY <1>2, <2>1, <2>3 DEF ResultsHaveReasons
<1>12. CallbacksInv'
  <2>1. \A a \in Awaiters : a \in ToSet(callbacks) =>
          aw'[a].state # "none" /\ aw'[a].m_token /\ (aw'[a].state = "resumed" => aw'[a].m_queued)
    BY <1>4, <1>7 DEF CallbacksInv
  <2>2. \A a \in Awaiters : aw'[a].state = "parked" /\ aw'[a].m_token /\ ~aw'[a].m_queued =>
          ~stopped /\ a \in ToSet(callbacks)
    BY <1>4, <1>7 DEF CallbacksInv
  <2> QED  BY <1>2, <1>4, <2>1, <2>2 DEF CallbacksInv
<1>13. RegisteredInv'
  <2>1. \A h \in Registered : interest[h].token \in Awaiters
    BY <1>4 DEF TypeReactor
  <2>2. Registered' = Registered
    BY <1>2 DEF Registered
  <2>3. \A h \in Registered : aw'[interest[h].token].m_registered /\ aw'[interest[h].token].m_handle = h
    BY <1>4, <1>7, <2>1 DEF RegisteredInv
  <2>4. \A a \in Awaiters : aw'[a].m_registered =>
          aw'[a].m_handle \in Registered /\ interest[aw'[a].m_handle].token = a
    BY <1>4, <1>7 DEF RegisteredInv
  <2>5. /\ IsFiniteSet(Registered') /\ m_pending_io' = Cardinality(Registered')
        /\ interest' = interest
    <3>1. IsFiniteSet(Registered) /\ m_pending_io = Cardinality(Registered)
      BY <1>4 DEF RegisteredInv
    <3> QED  BY <1>2, <2>2, <3>1
  <2> QED  BY <2>2, <2>3, <2>4, <2>5 DEF RegisteredInv
<1> QED  BY <1>6, <1>8, <1>9, <1>10, <1>11, <1>12, <1>13 DEF IInv
-----------------------------------------------------------------------------
(* The theorems. *)

\* What a coroutine does with a descriptor it may await.
LEMMA AwaitSteps ==
  ASSUME IInv, NEW c \in Callers, NEW h \in Handles, \A t \in Tasks : tfd[t] = h => t = c, Await(c, h)
  PROVE  IInv'
  BY AwaitStoppedStep, AwaitRefusedStep, AwaitParksStep, SMT DEF Await

\* Any code that runs: sleep_for or another coroutine, or main.
LEMMA UserSteps ==
  ASSUME IInv, NEW c \in Callers, IF c # Main /\ tfd[c] # NoFd THEN sleep_for(c) ELSE User(c)
  PROVE  IInv'
<1>1. CASE c # Main /\ tfd[c] # NoFd
  <2>1. tfd[c] \in Handles /\ \A t \in Tasks : tfd[t] = tfd[c] => t = c
    BY <1>1 DEF IInv, TypeOK, TimerFdInv, Callers
  <2>2. PICK h \in Handles : h = tfd[c]
    BY <2>1
  <2>3. Finish(c) \/ Await(c, h)
    BY <1>1, <2>2, ZenonT(60) DEF sleep_for
  <2> QED  BY <2>1, <2>2, <2>3, FinishStep, AwaitSteps
<1>2. CASE ~(c # Main /\ tfd[c] # NoFd)
  <2>1. User(c)
    BY <1>2
  <2>2. CASE \E fd \in Bodies : Spawn(c, fd) \/ Detach(c, fd) \/ CoAwaitTask(c, fd)
    BY <2>2, StartSteps, CoAwaitTaskStep
  <2>3. CASE \E t \in Tasks : CoAwaitHandle(c, t) \/ DropHandle(c, t)
    BY <2>3, CoAwaitHandleStep, DropHandleStep
  <2>4. CASE Finish(c) \/ Schedule(c) \/ RequestStop(c)
    BY <2>4, FinishStep, ScheduleStep, RequestStopStep
  <2>5. CASE \E h \in {x \in Handles : \A t \in Tasks : tfd[t] # x} : Await(c, h)
    BY <2>5, AwaitSteps
  <2>6. CASE \E a \in Awaiters : ScopeEnds(c, a)
    BY <2>6, ScopeEndsStep
  <2>7. CASE StopHere(c) \/ \E h \in {x \in Handles : \A t \in Tasks : tfd[t] # x} : ReadHandle(c, h)
    BY <2>7, OutsideSteps
  <2> QED  BY <2>1, <2>2, <2>3, <2>4, <2>5, <2>6, <2>7 DEF User
<1> QED  BY <1>1, <1>2

\* The invariant holds throughout.
LEMMA StepIInv ==
  ASSUME IInv, [Next]_vars
  PROVE  IInv'
<1>1. CASE \E c \in Callers : IF c # Main /\ tfd[c] # NoFd THEN sleep_for(c) ELSE User(c)
  BY <1>1, UserSteps
<1>2. CASE \/ RunUntil(None) \/ \E t \in Tasks : SyncWaitHandle(t)
           \/ RunStart \/ LoopTop \/ LoopDrained \/ LoopResumed \/ LoopGate
           \/ LoopWaitInterrupted \/ LoopWaitFails
  BY <1>2, LoopSteps
<1>3. CASE \E fd \in Bodies : SyncWaitTask(fd)
  BY <1>3, StartSteps
<1>4. CASE SyncWaitReturn
  BY <1>4, SyncWaitReturnStep
<1>5. CASE LoopResume
  BY <1>5, LoopResumeStep
<1>6. CASE \E got \in Batches(MAX_EVENTS_PER_WAIT) : LoopWait(got)
  BY <1>6, LoopWaitStep
<1>7. CASE StopStore \/ StopWake \/ Nudge \/ \E h \in Handles : HandleReady(h)
  BY <1>7, OutsideSteps
<1>8. CASE UNCHANGED vars
  <2>1. UNCHANGED <<tasksOnly, awaitersOnly, regsOnly, loopVars, otherVars>>
    BY <1>8 DEF vars, reactorVars, tasksOnly, awaitersOnly, regsOnly, taskVars
  <2>2. TypeLoop' /\ TargetInv'
    BY <2>1, TypeSplit DEF IInv, TypeLoop, TargetInv, loopVars, otherVars, tasksOnly
  <2>3. l_pc' \in {"start", "top", "drain", "gate", "wait"} => stack = <<>>
    BY <2>1 DEF IInv, StackInv, loopVars
  <2> QED  BY <2>1, <2>2, <2>3, QuietStep
<1> QED  BY <1>1, <1>2, <1>3, <1>4, <1>5, <1>6, <1>7, <1>8, ZenonT(60) DEF Next, Loop

\* So it does in every behaviour.
LEMMA Invariance == Spec => []IInv
<1>1. Init => IInv
  BY InitIInv
<1>2. IInv /\ [Next]_vars => IInv'
  BY StepIInv
<1> QED  BY <1>1, <1>2, PTL DEF Spec

\* In every behaviour, whatever the number of tasks, awaiters and handles: the
\* ready queue, the reactor's tokens, the callback nodes, the continuations and
\* run_until's target point to what exists, and m_pending_io counts the
\* registrations (executor.cpp, 41-43, 61-65; executor.h, 131, 141, 158).
THEOREM NothingDangles == Spec => []NoDangling
<1>1. IInv => NoDangling
  <2> SUFFICES ASSUME IInv
               PROVE  NoDangling
      OBVIOUS
  <2>1. TypeOK /\ TypeAwaiters /\ TypeReactor /\ TypeTasks
    BY TypeSplit DEF IInv
  <2>2. \A i \in DOMAIN m_ready : frame[m_ready[i]] = "parked"
    <3>1. \A i \in DOMAIN m_ready : m_ready[i] \in ToSet(m_ready) /\ m_ready[i] \in Tasks
      BY <2>1, SeqFacts, SMT DEF TypeAwaiters, ToSet
    <3> QED  BY <3>1 DEF IInv, ParkedInv
  <2>3. ASSUME NEW h \in Registered
        PROVE  LET a == interest[h].token IN
               /\ aw[a].state = "parked" /\ aw[a].m_registered /\ aw[a].m_handle = h
               /\ frame[aw[a].task] = "parked" /\ waits_for[aw[a].task] = a
    <3>1. PICK a \in Awaiters : a = interest[h].token
      BY <2>1 DEF TypeReactor
    <3>2. aw[a].m_registered /\ aw[a].m_handle = h
      BY <3>1 DEF IInv, RegisteredInv
    <3>3. aw[a].state = "parked"
      BY <3>2 DEF IInv, AwaitersInv
    <3> QED  BY <3>1, <3>2, <3>3 DEF IInv, ParkedInv
  <2>4. \A i \in DOMAIN callbacks : aw[callbacks[i]].state # "none"
    <3>1. \A i \in DOMAIN callbacks : callbacks[i] \in ToSet(callbacks) /\ callbacks[i] \in Awaiters
      BY <2>1, SeqFacts, SMT DEF TypeAwaiters, ToSet
    <3> QED  BY <3>1 DEF IInv, CallbacksInv
  <2>5. \A t \in Tasks : Alive(t) /\ frame[t] # "done" /\ continuation[t] # None =>
          frame[continuation[t]] = "joining"
    BY DEF IInv, TasksInv, AwaitedInv, Alive, Pending
  <2>6. l_pc # "off" /\ target # None => Alive(target)
    <3>1. ASSUME l_pc # "off", target # None
          PROVE  target \in Tasks /\ owner[target] # None
      BY <2>1, <3>1, SMT DEF TypeOK, IInv, TargetInv, None, Main
    <3> QED  BY <2>1, <3>1 DEF IInv, TasksInv, NumberedInv, TypeTasks, Alive
  <2>7. m_pending_io = Cardinality(Registered)
    BY DEF IInv, RegisteredInv
  <2> QED  BY <2>1, <2>2, <2>3, <2>4, <2>5, <2>6, <2>7 DEF NoDangling
<1> QED  BY <1>1, Invariance, PTL

\* A suspended coroutine is in the ready queue exactly once, or an event, and a
\* stop if it took a token, can still reach it (executor.cpp, 63-66; executor.h,
\* 126-133, 155-164).
THEOREM ParkedStayReachable == Spec => []ParkedIsReachable
<1>1. IInv => ParkedIsReachable
  <2> SUFFICES ASSUME IInv
               PROVE  ParkedIsReachable
      OBVIOUS
  <2>1. ASSUME NEW t \in Tasks, frame[t] = "parked", t \notin ToSet(m_ready)
        PROVE  LET a == waits_for[t] IN
               /\ a # 0 /\ aw[a].state = "parked" /\ ~aw[a].m_queued
               /\ aw[a].m_handle \in Registered /\ interest[aw[a].m_handle].token = a
               /\ aw[a].m_token => ~stopped /\ a \in ToSet(callbacks)
    <3>1. PICK a \in Awaiters : a = waits_for[t]
      BY <2>1, SMT DEF IInv, TypeOK, ParkedInv
    <3>2. a # 0 /\ aw[a].state = "parked" /\ aw[a].task = t /\ ~aw[a].m_queued
      BY <2>1, <3>1 DEF IInv, ParkedInv, Awaiters
    <3>3. aw[a].m_registered
      BY <3>2 DEF IInv, AwaitersInv
    <3>4. aw[a].m_handle \in Registered /\ interest[aw[a].m_handle].token = a
      BY <3>3 DEF IInv, RegisteredInv
    <3>5. aw[a].m_token => ~stopped /\ a \in ToSet(callbacks)
      BY <3>2 DEF IInv, CallbacksInv
    <3> QED  BY <3>1, <3>2, <3>4, <3>5
  <2>2. OnceEach(m_ready)
    BY DEF IInv, ParkedInv
  <2> QED  BY <2>1, <2>2 DEF ParkedIsReachable
<1> QED  BY <1>1, Invariance, PTL

\* A step that does not resume awaiter x, or resumes it with another result than
\* that its handle is ready.
NotToldReady(x) == aw'[x].state # "resumed" \/ aw'[x].state = aw[x].state \/ aw'[x].result # "ok"

\* No awaiter's constructor, cancellation or event does (executor.h, 118-165).
LEMMA AwaitersToldByTheLoop ==
  ASSUME IInv, NEW x \in Awaiters, [Next]_vars, ~LoopResume
  PROVE  NotToldReady(x)
<1> USE DEF NotToldReady
<1>0. aw \in [Awaiters -> AwaiterSet]
  BY TypeSplit DEF IInv, TypeAwaiters
<1>1. CASE aw' = aw
  BY <1>1
<1>2. ASSUME NEW k, NEW r, aw' = [aw EXCEPT ![k] = r], r.state # "resumed" \/ r.result # "ok"
      PROVE  NotToldReady(x)
  BY <1>0, <1>2
<1>3. ASSUME NEW c, NEW h, Await(c, h)
      PROVE  NotToldReady(x)
  <2>1. CASE AwaitStopped(c, h)
    <3>1. PICK r : r = [Awaiter(c, h, TRUE) EXCEPT !.state = "resumed", !.result = "cancelled"]
      OBVIOUS
    <3>2. r.result # "ok"
      BY <3>1, SMT DEF Awaiter
    <3> QED  BY <1>2, <2>1, <3>1, <3>2 DEF AwaitStopped, NewAwaiter
  <2>2. ASSUME NEW tok, AwaitRefused(c, h, tok)
        PROVE  NotToldReady(x)
    <3>1. PICK r : r = [Awaiter(c, h, tok) EXCEPT !.m_queued = TRUE, !.result = "error"]
      OBVIOUS
    <3>2. r.result # "ok"
      BY <3>1, SMT DEF Awaiter
    <3> QED  BY <1>2, <2>2, <3>1, <3>2 DEF AwaitRefused, NewAwaiter
  <2>3. ASSUME NEW tok, AwaitParks(c, h, tok)
        PROVE  NotToldReady(x)
    <3>1. PICK r : r = [Awaiter(c, h, tok) EXCEPT !.m_registered = TRUE]
      OBVIOUS
    <3>2. r.state # "resumed"
      BY <3>1, SMT DEF Awaiter
    <3> QED  BY <1>2, <2>3, <3>1, <3>2 DEF AwaitParks, NewAwaiter
  <2> QED  BY <1>3, <2>1, <2>2, <2>3 DEF Await
<1>4. ASSUME NEW c, Finish(c) \/ \E a \in Awaiters : ScopeEnds(c, a)
      PROVE  NotToldReady(x)
  <2>1. aw'[x] = aw[x] \/ aw'[x] = NoAwaiter
    <3>1. CASE Finish(c)
      BY <3>1 DEF Finish
    <3>2. ASSUME NEW a \in Awaiters, aw' = [aw EXCEPT ![a] = NoAwaiter]
          PROVE  aw'[x] = aw[x] \/ aw'[x] = NoAwaiter
      BY <1>0, <3>2
    <3> QED  BY <1>4, <3>1, <3>2 DEF ScopeEnds
  <2>2. "none" # "resumed"
    BY SMT
  <2> QED  BY <2>1, <2>2, NoAwaiterFacts
<1>5. ASSUME NEW c, RequestStop(c)
      PROVE  NotToldReady(x)
  <2>1. \/ aw'[x] = aw[x]
        \/ aw'[x] = [aw[x] EXCEPT !.m_cancelled = TRUE, !.m_registered = FALSE, !.m_queued = TRUE]
    BY <1>5 DEF RequestStop
  <2>2. aw[x] \in AwaiterSet
    BY <1>0
  <2>3. [aw[x] EXCEPT !.m_cancelled = TRUE, !.m_registered = FALSE, !.m_queued = TRUE].state = aw[x].state
    BY <2>2, SMT DEF AwaiterSet
  <2> QED  BY <2>1, <2>3
<1>6. ASSUME NEW got, LoopWait(got)
      PROVE  NotToldReady(x)
  <2>1. aw'[x] = aw[x] \/ aw'[x] = [aw[x] EXCEPT !.m_fired = TRUE, !.m_queued = TRUE]
    BY <1>6 DEF LoopWait
  <2>2. aw[x] \in AwaiterSet
    BY <1>0
  <2>3. [aw[x] EXCEPT !.m_fired = TRUE, !.m_queued = TRUE].state = aw[x].state
    BY <2>2, SMT DEF AwaiterSet
  <2> QED  BY <2>1, <2>3
<1>7. ASSUME NEW c, User(c)
      PROVE  NotToldReady(x)
  <2>1. CASE \/ \E fd \in Bodies : Spawn(c, fd) \/ Detach(c, fd) \/ CoAwaitTask(c, fd)
             \/ \E t \in Tasks : CoAwaitHandle(c, t) \/ DropHandle(c, t)
             \/ Schedule(c) \/ StopHere(c)
             \/ \E h \in {y \in Handles : \A t \in Tasks : tfd[t] # y} : ReadHandle(c, h)
    BY <1>1, <2>1 DEF Spawn, Detach, Starts, CoAwaitTask, CoAwaitHandle, DropHandle, Schedule,
                      StopHere, ReadHandle, awaiterVars
  <2> QED  BY <1>3, <1>4, <1>5, <1>7, <2>1 DEF User
<1>8. ASSUME NEW c, IF c # Main /\ tfd[c] # NoFd THEN sleep_for(c) ELSE User(c)
      PROVE  NotToldReady(x)
  BY <1>3, <1>4, <1>7, <1>8 DEF sleep_for
<1>9. CASE \/ RunUntil(None) \/ \E t \in Tasks : SyncWaitHandle(t)
           \/ \E fd \in Bodies : SyncWaitTask(fd)
           \/ SyncWaitReturn
           \/ RunStart \/ LoopTop \/ LoopDrained \/ LoopResumed \/ LoopGate
           \/ LoopWaitInterrupted \/ LoopWaitFails
           \/ StopStore \/ StopWake \/ Nudge \/ \E h \in Handles : HandleReady(h)
  BY <1>1, <1>9 DEF RunUntil, SyncWaitHandle, SyncWaitTask, Starts, SyncWaitReturn, RunStart, LoopTop,
                    LoopDrained, LoopResumed, LoopGate, LoopWaitInterrupted, LoopWaitFails, StopStore,
                    StopWake, Nudge, HandleReady, userVars, awaiterVars
<1>10. CASE UNCHANGED vars
  BY <1>1, <1>10 DEF vars, awaiterVars
<1> QED  BY <1>6, <1>8, <1>9, <1>10, ZenonT(60) DEF Next, Loop

\* await_resume looks at the token when the coroutine runs again (executor.h, 136-148).
LEMMA LoopResumesByToken ==
  ASSUME IInv, LoopResume, NEW x \in Awaiters, aw[x].state = "parked", aw'[x].state = "resumed",
         aw[x].m_token, stopped
  PROVE  aw'[x].result # "ok"
<1>0. aw \in [Awaiters -> AwaiterSet] /\ "parked" # "resumed"
  BY TypeSplit, SMT DEF IInv, TypeAwaiters
<1>1. CASE aw' = aw
  BY <1>0, <1>1
<1>2. ASSUME NEW a, AwaitResume(a)
      PROVE  aw'[x].result # "ok"
  <2>1. CASE a # x
    BY <1>0, <1>2, <2>1 DEF AwaitResume
  <2>2. CASE a = x
    <3>1. aw[x] \in AwaiterSet
      BY <1>0
    <3>2. aw'[x] = [aw[x] EXCEPT !.state = "resumed", !.m_registered = FALSE,
                                 !.result = IF aw[x].result = "error" THEN "error" ELSE "cancelled"]
      BY <1>0, <1>2, <2>2 DEF AwaitResume
    <3> QED  BY <3>1, <3>2, SMT DEF AwaiterSet
  <2> QED  BY <2>1, <2>2
<1> QED  BY <1>1, <1>2 DEF LoopResume

\* A coroutine learns that its handle is ready only if the event fired, and that
\* it was cancelled only if its source was stopped; if it was stopped by the time
\* the coroutine runs again, it does not learn of the event (executor.h, 136-148).
THEOREM ResumptionsHaveReasons == Spec => ResumedForAReason
<1>1. IInv => ResultsHaveReasons
  BY DEF IInv
<1>2. ASSUME IInv, [Next]_vars
      PROVE  [StopWins]_vars
  <2>1. ASSUME NEW x \in Awaiters, aw[x].state = "parked", aw'[x].state = "resumed", aw[x].m_token, stopped
        PROVE  aw'[x].result # "ok"
    <3>1. "parked" # "resumed"
      BY SMT
    <3>2. CASE LoopResume
      BY <1>2, <2>1, <3>2, LoopResumesByToken
    <3>3. CASE ~LoopResume
      BY <1>2, <2>1, <3>1, <3>3, AwaitersToldByTheLoop DEF NotToldReady
    <3> QED  BY <3>2, <3>3
  <2> QED  BY <2>1 DEF StopWins
<1>3. IInv /\ [Next]_vars => [StopWins]_vars
  BY <1>2
<1> QED  BY <1>1, <1>3, Invariance, PTL DEF Spec, ResumedForAReason

\* Every frame that lives has a holder or frees itself, and a finished one is
\* freed when its holder lets go (task.h, 53-60; spawn.h, 48-55, 121-131).
THEOREM FramesStayOwned == Spec => []FramesAreOwned
  BY Invariance, PTL DEF IInv

\* No user code runs while the loop is at the gate.
LEMMA NobodyRunsAtTheGate ==
  ASSUME IInv, l_pc = "gate", NEW c \in Callers
  PROVE  ~(IF c # Main /\ tfd[c] # NoFd THEN sleep_for(c) ELSE User(c))
<1>1. ~Executing(c)
  BY ExecutingFacts, MainFacts DEF IInv, Callers
<1>2. \A h : ~Await(c, h)
  BY <1>1 DEF Await, AwaitStopped, AwaitRefused, AwaitParks, NewAwaiter, MaySuspend
<1>3. ~Finish(c) /\ ~Schedule(c) /\ ~RequestStop(c) /\ ~StopHere(c)
  BY <1>1 DEF Finish, Schedule, RequestStop, StopHere
<1>4. ~sleep_for(c)
  BY <1>2, <1>3 DEF sleep_for
<1>5. /\ \A fd : ~Spawn(c, fd) /\ ~Detach(c, fd) /\ ~CoAwaitTask(c, fd)
      /\ \A t : ~CoAwaitHandle(c, t) /\ ~DropHandle(c, t) /\ ~ScopeEnds(c, t) /\ ~ReadHandle(c, t)
  BY <1>1 DEF Spawn, Detach, Starts, CoAwaitTask, CoAwaitHandle, DropHandle, ScopeEnds, ReadHandle
<1>6. ~User(c)
  BY <1>2, <1>3, <1>5 DEF User
<1> QED  BY <1>4, <1>6

\* With nothing ready, nothing registered and nothing running, no task is pending:
\* one that joins waits for a younger one.
LEMMA IdleMeansDone ==
  ASSUME IInv, l_pc = "gate", m_pending_io = 0, m_ready = <<>>
  PROVE  \A t \in Tasks : ~Pending(t)
<1>1. TypeTasks /\ TypeAwaiters /\ AwaitedInv /\ JoiningInv /\ NumberedInv
  BY TypeSplit DEF IInv, TasksInv
<1>2. ToSet(<<>>) = {}
  BY EmptyFacts
<1>3. Registered = {}
  BY FS_EmptySet DEF IInv, RegisteredInv
<1>4. \A t \in Tasks : frame[t] # "body"
  BY <1>2 DEF IInv, StackInv
<1>5. ASSUME NEW t \in Tasks, frame[t] = "parked"
      PROVE  FALSE
  <2>1. PICK a \in Awaiters : a = waits_for[t] /\ aw[a].state = "parked" /\ aw[a].task = t
    BY <1>2, <1>5, ParkedAt
  <2>2. ~aw[a].m_queued
    BY <1>2, <2>1 DEF IInv, ParkedInv
  <2>3. aw[a].m_registered
    BY <2>1, <2>2 DEF IInv, AwaitersInv
  <2> QED  BY <1>3, <2>3, ZenonT(60) DEF IInv, RegisteredInv
<1>6. ASSUME NEW t \in Tasks, frame[t] = "joining"
      PROVE  \E u \in Tasks : frame[u] = "joining" /\ t < u
  <2>1. PICK u \in Tasks : Pending(u) /\ continuation[u] = t
    BY <1>1, <1>6 DEF JoiningInv
  <2>2. frame[u] = "joining"
    BY <1>4, <1>5, <2>1 DEF Pending
  <2>3. t # None
    BY BoundsAssumption, SMT DEF BoundsAssumption, Tasks, None
  <2>4. owner[u] = t /\ owner[u] < u
    BY <1>1, <2>1, <2>3 DEF AwaitedInv, NumberedInv
  <2> QED  BY <2>2, <2>4
<1> DEFINE J == {NTasks - t : t \in {u \in Tasks : frame[u] = "joining"}}
<1>7. J = {}
  <2>1. J \subseteq Nat /\ NTasks \in Nat
    BY BoundsAssumption, SMT DEF BoundsAssumption, Tasks
  <2>2. ASSUME J # {}
        PROVE  FALSE
    <3>1. PICK n \in J : \A m \in J : ~(m < n)
      <4> HIDE DEF J
      <4> QED  BY <2>1, <2>2, Least
    <3>2. PICK t \in Tasks : frame[t] = "joining" /\ n = NTasks - t
      OBVIOUS
    <3>3. PICK u \in Tasks : frame[u] = "joining" /\ t < u
      BY <1>6, <3>2
    <3>4. NTasks - u \in J /\ NTasks - u < n
      BY <2>1, <3>2, <3>3, SMT DEF Tasks
    <3> QED  BY <3>1, <3>4
  <2> QED  BY <2>2
<1>8. \A t \in Tasks : frame[t] # "joining"
  BY <1>7
<1> QED  BY <1>4, <1>5, <1>8 DEF Pending

\* When run() returns because the ready queue and the pending I/O are empty, it
\* leaves no task suspended, nor one that waits for another (executor.cpp, 50).
THEOREM IdleRunsLeaveNothing == Spec => IdleRunLeavesNothing
<1>1. ASSUME IInv, [Next]_vars, l_pc = "gate", l_pc' = "off", m_running
      PROVE  \A t \in Tasks : frame[t] \in {"none", "done", "freed"}
  <2>1. m_pending_io = 0 /\ m_ready = <<>>
    <3>1. \A c \in Callers : ~(IF c # Main /\ tfd[c] # NoFd THEN sleep_for(c) ELSE User(c))
      BY <1>1, NobodyRunsAtTheGate
    <3>2. Next
      BY <1>1, ZenonT(60) DEF vars, loopVars
    <3>3. LoopGate
      BY <1>1, <3>1, <3>2, MainFacts
         DEF Next, RunUntil, SyncWaitHandle, SyncWaitTask, Starts, SyncWaitReturn, Loop, RunStart,
             LoopTop, LoopDrained, LoopResume, LoopResumed, LoopWait, LoopWaitInterrupted,
             LoopWaitFails, StopStore, StopWake, Nudge, HandleReady, loopVars
    <3> QED  BY <1>1, <3>3 DEF LoopGate, Goto
  <2>2. \A t \in Tasks : ~Pending(t)
    BY <1>1, <2>1, IdleMeansDone
  <2>3. TypeTasks
    BY <1>1, TypeSplit DEF IInv
  <2> QED  BY <2>2, <2>3 DEF TypeTasks, Pending
<1>2. IInv /\ [Next]_vars =>
        [l_pc = "gate" /\ l_pc' = "off" /\ m_running =>
           \A t \in Tasks : frame[t] \in {"none", "done", "freed"}]_vars
  BY <1>1
<1> QED  BY <1>2, Invariance, PTL DEF Spec, IdleRunLeavesNothing
=============================================================================
