-------------------------- MODULE JobSystemProofs --------------------------
(***************************************************************************)
(* For every number of workers, queue limit and number of jobs: JobInv is  *)
(* inductive; hence accepted jobs run exactly once, draining loses none    *)
(* and wait_idle returns only when the jobs submitted before it are done,  *)
(* to the submitting thread and to others.  submit refuses a job only when *)
(* every queue looked full to it.                                          *)
(***************************************************************************)
EXTENDS JobSystemWatched, SequenceTheorems, FiniteSetTheorems, TLAPS

\* The queue submit turns to next is one of the workers' (34).
LEMMA QueueIndex ==
  ASSUME NEW x \in Nat
  PROVE  x % Count \in Workers
BY CountAssumption DEF Workers

\* A u32 has values, and u32 arithmetic stays among them.
LEMMA U32Arithmetic ==
  U32 \in Nat /\ U32 > 0 /\ \A x \in Int : x % U32 \in 0 .. U32 - 1
<1>1. Count * (Limit + 1) \in Nat
  BY CountAssumption, LimitAssumption
<1>2. U32 \in Nat /\ U32 > 0
  BY <1>1, U32Assumption
<1> QED BY <1>2

\* Well typed, with safe views.
Typed == TypeOK /\ ViewsInv

\* submit only ever pushes into a worker's queue (34).
LEMMA SubmitTryPushes ==
  ASSUME TypeOK, SubmitTry
  PROVE  /\ o_pc = "try"
         /\ \E w \in Workers : \E b \in Len(m_queues[w]) .. backlog[w] : TryPush(w, b)
<1> DEFINE w == (o_start + o_i) % Count
<1>1. w \in Workers
  <2>1. o_start + o_i \in Nat
    BY CountAssumption DEF TypeOK, Workers
  <2> QED BY <2>1, QueueIndex
<1>2. o_pc = "try" /\ \E b \in Len(m_queues[w]) .. backlog[w] : TryPush(w, b)
  BY DEF SubmitTry
<1> HIDE DEF w
<1> QED BY <1>1, <1>2

\* The constructor leaves a well-typed state.
LEMMA TypedInit == Init => Typed
<1>1. 0 \in Workers /\ Count > 0 /\ Limit \in Nat /\ MaxJobs \in Nat /\ U32 \in Nat
  BY CountAssumption, LimitAssumption, MaxJobsAssumption, U32Assumption DEF Workers
<1>2. 0 < U32
  BY U32Arithmetic
<1>3. <<>> \in Seq(Jobs) /\ Len(<<>>) = 0
  BY EmptySeq
<1> QED BY <1>1, <1>2, <1>3 DEF Init, Typed, TypeOK, ViewsInv

\* The types and the views survive every step.
LEMMA TypedStep == Typed /\ [Next]_vars => Typed'
<1> SUFFICES ASSUME Typed, [Next]_vars PROVE Typed'
  OBVIOUS
<1> USE DEF queueVars, ownerVars, workerVars
<1>c. Count \in Nat /\ Count > 0 /\ Limit \in Nat /\ MaxJobs \in Nat
  BY CountAssumption, LimitAssumption, MaxJobsAssumption
<1>u. U32 \in Nat /\ U32 > 0 /\ \A x \in Int : x % U32 \in 0 .. U32 - 1
  BY U32Arithmetic
<1>t. TypeOK /\ ViewsInv
  BY DEF Typed
<1>q. /\ m_queues \in [Workers -> Seq(Jobs)]
      /\ backlog \in [Workers -> 0 .. Limit]
      /\ avail \in [Workers -> 0 .. Limit]
      /\ \A w \in Workers :
           /\ Len(m_queues[w]) \in Nat
           /\ avail[w] <= Len(m_queues[w])
           /\ Len(m_queues[w]) <= backlog[w]
  BY <1>t DEF TypeOK, ViewsInv
<1>1. CASE Submit
  <2>1. o_start' \in Workers
    BY <1>1, <1>t, <1>u, QueueIndex DEF Submit, TypeOK
  <2>2. o_job' \in 0 .. MaxJobs /\ o_job' # 0 /\ m_next_queue' \in 0 .. U32 - 1
    BY <1>1, <1>c, <1>t, <1>u DEF Submit, TypeOK
  <2>3. /\ o_i' = 0 /\ o_pc' = "try"
        /\ UNCHANGED <<queueVars, m_pending_jobs, stop, workerVars, accepted, done>>
    BY <1>1 DEF Submit
  <2>4. TypeOK'
    BY SMTT(30), <1>c, <1>t, <2>1, <2>2, <2>3 DEF TypeOK
  <2>5. ViewsInv'
    BY <1>c, <1>t, <2>2, <2>3 DEF ViewsInv
  <2> QED BY <2>4, <2>5 DEF Typed
<1>2. CASE SubmitTry
  <2>0. PICK w \in Workers : \E b \in Len(m_queues[w]) .. backlog[w] : TryPush(w, b)
    BY <1>2, <1>t, SubmitTryPushes
  <2>1. PICK b \in Len(m_queues[w]) .. backlog[w] : TryPush(w, b)
    BY <2>0
  <2>2. o_pc = "try" /\ o_job \in Jobs /\ o_i \in 0 .. Count /\ o_i < Count
    BY SMTT(30), <1>2, <1>c, <1>t, SubmitTryPushes DEF TypeOK, ViewsInv, Jobs
  <2>3. b \in Nat /\ Len(m_queues[w]) <= b /\ b <= Limit
    BY <1>c, <1>q, <2>1
  <2>4. CASE b < Limit
    <3>0. /\ m_queues' = [m_queues EXCEPT ![w] = Append(m_queues[w], o_job)]
          /\ backlog' = [backlog EXCEPT ![w] = b + 1]
          /\ accepted' = accepted \cup {o_job}
          /\ o_pc' = "count"
          /\ UNCHANGED <<o_i, avail, m_next_queue, m_pending_jobs, stop, o_job, o_start,
                         workerVars, done>>
      BY <2>1, <2>4 DEF TryPush
    <3>1. /\ Append(m_queues[w], o_job) \in Seq(Jobs)
          /\ Len(Append(m_queues[w], o_job)) = Len(m_queues[w]) + 1
      BY <1>q, <2>2, AppendProperties
    <3>2. m_queues' \in [Workers -> Seq(Jobs)] /\ backlog' \in [Workers -> 0 .. Limit]
      BY <1>c, <1>q, <2>3, <2>4, <3>0, <3>1
    <3>3. TypeOK'
      BY <1>t, <2>2, <3>0, <3>2, Zenon DEF TypeOK
    <3>4. \A x \in Workers : avail'[x] <= Len(m_queues'[x]) /\ Len(m_queues'[x]) <= backlog'[x]
      BY <1>c, <1>q, <2>3, <3>0, <3>1
    <3> QED BY <1>t, <3>0, <3>3, <3>4 DEF Typed, ViewsInv
  <2>5. CASE ~(b < Limit)
    <3>0. /\ backlog' = [backlog EXCEPT ![w] = b]
          /\ o_i' = o_i + 1
          /\ o_pc' = IF o_i + 1 < Count THEN "try" ELSE "idle"
          /\ UNCHANGED <<m_queues, accepted, avail, m_next_queue, m_pending_jobs, stop, o_job,
                         o_start, workerVars, done>>
      BY <2>1, <2>5 DEF TryPush
    <3>1. backlog' \in [Workers -> 0 .. Limit]
      BY <1>c, <1>q, <2>3, <3>0
    <3>2. o_i' \in 0 .. Count /\ (o_pc' = "try" => o_i' < Count) /\ o_pc' \in {"try", "idle"}
      BY <1>c, <2>2, <3>0
    <3>3. TypeOK'
      BY SMTT(30), <1>t, <3>0, <3>1, <3>2 DEF TypeOK
    <3>4. \A x \in Workers : avail'[x] <= Len(m_queues'[x]) /\ Len(m_queues'[x]) <= backlog'[x]
      BY <1>c, <1>q, <2>3, <3>0
    <3> QED BY <1>t, <2>2, <3>0, <3>2, <3>3, <3>4 DEF Typed, ViewsInv
  <2> QED BY <2>4, <2>5
<1>3. CASE SubmitCount
  BY <1>3, <1>t, <1>u DEF SubmitCount, Typed, TypeOK, ViewsInv
<1>4. CASE WaitIdle
  BY <1>4, <1>t DEF WaitIdle, Typed, TypeOK, ViewsInv
<1>5. CASE WaitIdleReturn
  BY <1>5, <1>t DEF WaitIdleReturn, Typed, TypeOK, ViewsInv
<1>6. CASE Destroy
  BY <1>6, <1>c, <1>t DEF Destroy, Typed, TypeOK, ViewsInv
<1>7. CASE RequestStop
  <2>1. stop' \in [Workers -> BOOLEAN]
    BY <1>7, <1>t, Zenon DEF RequestStop, TypeOK
  <2>2. /\ o_i' \in 0 .. Count
        /\ o_i' < Count
        /\ o_pc' \in {"stopping", "~jthread"}
    BY <1>7, <1>c, <1>t DEF RequestStop, TypeOK, ViewsInv
  <2>3. UNCHANGED <<queueVars, m_next_queue, m_pending_jobs, o_job, o_start, workerVars,
                    accepted, done>>
    BY <1>7 DEF RequestStop
  <2> QED BY <1>t, <2>1, <2>2, <2>3 DEF Typed, TypeOK, ViewsInv
<1>14. CASE JthreadStop
  <2>1. stop' \in [Workers -> BOOLEAN]
    BY <1>14, <1>t, Zenon DEF JthreadStop, TypeOK
  <2>2. /\ o_pc = "~jthread" /\ o_pc' = "joining"
        /\ UNCHANGED <<queueVars, m_next_queue, m_pending_jobs, o_job, o_start, o_i, workerVars,
                       accepted, done>>
    BY <1>14 DEF JthreadStop
  <2> QED BY <1>t, <2>1, <2>2 DEF Typed, TypeOK, ViewsInv
<1>8. CASE Join
  <2>1. /\ o_i' \in 0 .. Count
        /\ o_pc' \in {"~jthread", "gone"}
        /\ o_pc' = "~jthread" => o_i' < Count
    BY <1>8, <1>c, <1>t DEF Join, TypeOK, ViewsInv
  <2>2. UNCHANGED <<queueVars, m_next_queue, m_pending_jobs, stop, o_job, o_start, workerVars,
                    accepted, done>>
    BY <1>8 DEF Join
  <2> QED BY <1>t, <2>1, <2>2 DEF Typed, TypeOK, ViewsInv
<1>9. ASSUME NEW w \in Workers, WorkerCheck(w) PROVE Typed'
  <2>1. w_draining' \in [Workers -> BOOLEAN]
    BY <1>9, <1>t, Zenon DEF WorkerCheck, TypeOK
  <2>2. avail' \in [Workers -> 0 .. Limit] /\ \A x \in Workers : avail'[x] <= Len(m_queues[x])
    BY <1>9, <1>c, <1>q DEF WorkerCheck
  <2>3. w_pc' \in [Workers -> {"check", "pop", "run", "count", "exited"}]
    BY <1>9, <1>t DEF WorkerCheck, TypeOK
  <2>4. \A x \in Workers : w_pc'[x] = "run" => w_job[x] # 0
    BY <1>9, <1>t DEF WorkerCheck, TypeOK, ViewsInv
  <2>5. UNCHANGED <<m_queues, backlog, m_next_queue, m_pending_jobs, stop, ownerVars, w_job,
                    accepted, done>>
    BY <1>9 DEF WorkerCheck
  <2> QED BY SMTT(30), <1>t, <2>1, <2>2, <2>3, <2>4, <2>5 DEF Typed, TypeOK, ViewsInv
<1>10. ASSUME NEW w \in Workers, NEW a \in 0 .. Limit, WorkerPop(w, a) PROVE Typed'
  <2>0. UNCHANGED <<backlog, m_next_queue, m_pending_jobs, stop, ownerVars, w_draining,
                    accepted, done>>
    BY <1>10 DEF WorkerPop
  <2>1. CASE a > 0
    <3>0. /\ w_job' = [w_job EXCEPT ![w] = Head(m_queues[w])]
          /\ m_queues' = [m_queues EXCEPT ![w] = Tail(m_queues[w])]
          /\ avail' = [avail EXCEPT ![w] = a - 1]
          /\ w_pc' = [w_pc EXCEPT ![w] = "run"]
          /\ a <= Len(m_queues[w])
      BY <1>10, <1>c, <1>q, <2>1 DEF WorkerPop
    <3>1. m_queues[w] # <<>> /\ m_queues[w] \in Seq(Jobs)
      BY <1>c, <1>q, <2>1, <3>0
    <3>2. /\ Head(m_queues[w]) \in Jobs
          /\ Tail(m_queues[w]) \in Seq(Jobs)
          /\ Len(Tail(m_queues[w])) = Len(m_queues[w]) - 1
      BY <3>1, HeadTailProperties
    <3>3. m_queues' \in [Workers -> Seq(Jobs)] /\ avail' \in [Workers -> 0 .. Limit]
      BY <1>c, <1>q, <2>1, <3>0, <3>2
    <3>4. \A x \in Workers : avail'[x] <= Len(m_queues'[x]) /\ Len(m_queues'[x]) <= backlog[x]
      BY <1>c, <1>q, <2>1, <3>0, <3>2
    <3>5. w_job' \in [Workers -> 0 .. MaxJobs] /\ \A x \in Workers : w_pc'[x] = "run" => w_job'[x] # 0
      <4>1. Head(m_queues[w]) \in 0 .. MaxJobs /\ Head(m_queues[w]) # 0
        BY <1>c, <3>2 DEF Jobs
      <4>2. /\ w_job \in [Workers -> 0 .. MaxJobs]
            /\ w_pc \in [Workers -> {"check", "pop", "run", "count", "exited"}]
            /\ \A x \in Workers : w_pc[x] = "run" => w_job[x] # 0
        BY <1>t DEF TypeOK, ViewsInv
      <4> QED BY <3>0, <4>1, <4>2
    <3>6. w_pc' \in [Workers -> {"check", "pop", "run", "count", "exited"}]
      BY <1>t, <3>0 DEF TypeOK
    <3> QED BY <1>t, <2>0, <3>3, <3>4, <3>5, <3>6, Zenon DEF Typed, TypeOK, ViewsInv
  <2>2. CASE ~(a > 0)
    <3>0. /\ UNCHANGED <<m_queues, avail, w_job>>
          /\ w_pc' = [w_pc EXCEPT ![w] = IF w_draining[w] THEN "exited" ELSE "check"]
      BY <1>10, <2>2 DEF WorkerPop
    <3>1. /\ w_pc' \in [Workers -> {"check", "pop", "run", "count", "exited"}]
          /\ \A x \in Workers : w_pc'[x] = "run" => w_pc[x] = "run"
      BY <1>t, <3>0 DEF TypeOK
    <3> QED BY <1>t, <2>0, <3>0, <3>1, Zenon DEF Typed, TypeOK, ViewsInv
  <2> QED BY <2>1, <2>2
<1>11. ASSUME NEW w \in Workers, WorkerRun(w) PROVE Typed'
  <2>1. w_job[w] \in Jobs
    BY <1>11, <1>t, <1>c DEF WorkerRun, TypeOK, ViewsInv, Jobs
  <2> QED BY <1>11, <1>t, <2>1 DEF WorkerRun, Typed, TypeOK, ViewsInv
<1>12. ASSUME NEW w \in Workers, WorkerCount(w) PROVE Typed'
  <2>1. m_pending_jobs' \in 0 .. U32 - 1
    BY <1>12, <1>t, <1>u DEF WorkerCount, TypeOK
  <2>2. /\ w_pc' = [w_pc EXCEPT ![w] = IF w_draining[w] THEN "pop" ELSE "check"]
        /\ UNCHANGED <<queueVars, m_next_queue, stop, ownerVars, w_draining, w_job, accepted, done>>
    BY <1>12 DEF WorkerCount
  <2> QED BY SMTT(30), <1>t, <2>1, <2>2 DEF Typed, TypeOK, ViewsInv
<1>13. CASE UNCHANGED vars
  BY <1>13, <1>t DEF vars, Typed, TypeOK, ViewsInv
<1> QED BY <1>1, <1>2, <1>3, <1>4, <1>5, <1>6, <1>7, <1>8, <1>9, <1>10, <1>11, <1>12, <1>13, <1>14
        DEF Next, Owner, Worker, Gone

-----------------------------------------------------------------------------
\* No worker drains before a stop request.
LEMMA DrainInit == Init => DrainInv
BY DEF Init, DrainInv

\* Draining: the stop request is the destructor's, and what a worker sees of
\* its queue after it is all there will ever be.
LEMMA DrainStep == Typed /\ DrainInv /\ [Next]_vars => DrainInv'
<1> SUFFICES ASSUME Typed, DrainInv, [Next]_vars PROVE DrainInv'
  OBVIOUS
<1> USE DEF queueVars, ownerVars, workerVars
<1>q. /\ m_queues \in [Workers -> Seq(Jobs)]
      /\ avail \in [Workers -> 0 .. Limit]
      /\ stop \in [Workers -> BOOLEAN]
      /\ w_pc \in [Workers -> {"check", "pop", "run", "count", "exited"}]
      /\ w_draining \in [Workers -> BOOLEAN]
      /\ \A w \in Workers : Len(m_queues[w]) \in Nat
      /\ TypeOK
  BY SMTT(30) DEF Typed, TypeOK
<1>1. CASE Submit
  <2>1. o_pc = "idle" /\ UNCHANGED <<queueVars, stop, workerVars>> /\ o_pc' = "try"
    BY <1>1 DEF Submit
  <2> QED BY <2>1 DEF DrainInv
<1>2. CASE SubmitTry
  <2>0. o_pc = "try"
    BY <1>2 DEF SubmitTry
  <2>1. PICK w \in Workers : \E b \in Len(m_queues[w]) .. backlog[w] : TryPush(w, b)
    BY <1>2, <1>q, SubmitTryPushes
  <2>2. o_pc' \in {"try", "count", "idle"} /\ UNCHANGED <<avail, stop, workerVars>>
    BY <2>1 DEF TryPush
  <2>3. \A x \in Workers : ~stop[x] /\ ~w_draining[x] /\ w_pc[x] # "exited"
    BY <2>0 DEF DrainInv
  <2> QED BY <2>2, <2>3 DEF DrainInv
<1>3. CASE SubmitCount
  BY <1>3 DEF SubmitCount, DrainInv
<1>4. CASE WaitIdle
  BY <1>4 DEF WaitIdle, DrainInv
<1>5. CASE WaitIdleReturn
  BY <1>5 DEF WaitIdleReturn, DrainInv
<1>6. CASE Destroy
  BY <1>6 DEF Destroy, DrainInv
<1>7. CASE RequestStop
  <2>1. /\ o_pc = "stopping" /\ o_pc' \in {"stopping", "~jthread"}
        /\ stop' = [stop EXCEPT ![o_i] = TRUE]
        /\ UNCHANGED <<queueVars, workerVars>>
    BY <1>7 DEF RequestStop
  <2>2. \A x \in Workers : stop[x] => stop'[x]
    BY <1>q, <2>1
  <2> QED BY <2>1, <2>2 DEF DrainInv
<1>14. CASE JthreadStop
  <2>1. /\ o_pc' = "joining"
        /\ stop' = [stop EXCEPT ![o_i] = TRUE]
        /\ UNCHANGED <<queueVars, workerVars>>
    BY <1>14 DEF JthreadStop
  <2>2. \A x \in Workers : stop[x] => stop'[x]
    BY <1>q, <2>1
  <2> QED BY <2>1, <2>2 DEF DrainInv
<1>8. CASE Join
  BY <1>8 DEF Join, DrainInv
<1>9. ASSUME NEW w \in Workers, WorkerCheck(w) PROVE DrainInv'
  <2>1. /\ w_pc[w] = "check"
        /\ w_draining' = [w_draining EXCEPT ![w] = stop[w]]
        /\ avail' = [avail EXCEPT ![w] = IF stop[w] THEN Len(m_queues[w]) ELSE avail[w]]
        /\ w_pc' = [w_pc EXCEPT ![w] = "pop"]
        /\ UNCHANGED <<m_queues, stop, o_pc>>
    BY <1>9 DEF WorkerCheck
  <2>3. \A x \in Workers : w_draining'[x] => stop[x] /\ avail'[x] = Len(m_queues[x])
    BY <1>q, <2>1 DEF DrainInv
  <2>4. \A x \in Workers : w_pc'[x] = "exited" => w_draining'[x] /\ m_queues[x] = <<>>
    BY <1>q, <2>1 DEF DrainInv
  <2> QED BY <2>1, <2>3, <2>4 DEF DrainInv
<1>10. ASSUME NEW w \in Workers, NEW a \in 0 .. Limit, WorkerPop(w, a) PROVE DrainInv'
  <2>0. /\ UNCHANGED <<stop, o_pc, w_draining>>
        /\ w_pc[w] = "pop"
        /\ a \in avail[w] .. Len(m_queues[w])
    BY <1>10 DEF WorkerPop
  <2>2. CASE a > 0
    <3>0. /\ m_queues' = [m_queues EXCEPT ![w] = Tail(m_queues[w])]
          /\ avail' = [avail EXCEPT ![w] = a - 1]
          /\ w_pc' = [w_pc EXCEPT ![w] = "run"]
      BY <1>10, <2>2 DEF WorkerPop
    <3>1. m_queues[w] # <<>> /\ m_queues[w] \in Seq(Jobs)
      BY LimitAssumption, <1>q, <2>0, <2>2
    <3>2. Len(Tail(m_queues[w])) = Len(m_queues[w]) - 1
      BY <3>1, HeadTailProperties
    <3>3. w_draining[w] => a = Len(m_queues[w])
      BY LimitAssumption, <1>q, <2>0 DEF DrainInv
    <3>4. \A x \in Workers : w_draining[x] => stop[x] /\ avail'[x] = Len(m_queues'[x])
      BY <1>q, <3>0, <3>2, <3>3, Zenon DEF DrainInv
    <3>5. \A x \in Workers : w_pc'[x] = "exited" => w_draining[x] /\ m_queues'[x] = <<>>
      BY <1>q, <3>0 DEF DrainInv
    <3> QED BY <2>0, <3>4, <3>5 DEF DrainInv
  <2>3. CASE ~(a > 0)
    <3>0. /\ w_pc' = [w_pc EXCEPT ![w] = IF w_draining[w] THEN "exited" ELSE "check"]
          /\ UNCHANGED <<m_queues, avail>>
      BY <1>10, <2>3 DEF WorkerPop
    <3>1. w_draining[w] => Len(m_queues[w]) = 0
      BY LimitAssumption, <1>q, <2>0, <2>3 DEF DrainInv
    <3>2. w_draining[w] => m_queues[w] = <<>>
      BY <1>q, <3>1, EmptySeq
    <3>3. \A x \in Workers : w_pc'[x] = "exited" => w_draining[x] /\ m_queues[x] = <<>>
      BY <1>q, <3>0, <3>2 DEF DrainInv
    <3> QED BY <2>0, <3>0, <3>3 DEF DrainInv
  <2> QED BY <2>2, <2>3
<1>11. ASSUME NEW w \in Workers, WorkerRun(w) PROVE DrainInv'
  <2>1. /\ w_pc[w] = "run"
        /\ w_pc' = [w_pc EXCEPT ![w] = "count"]
        /\ UNCHANGED <<queueVars, stop, o_pc, w_draining>>
    BY <1>11 DEF WorkerRun
  <2>2. \A x \in Workers : w_pc'[x] = "exited" => w_pc[x] = "exited"
    BY <1>q, <2>1
  <2> QED BY <2>1, <2>2 DEF DrainInv
<1>12. ASSUME NEW w \in Workers, WorkerCount(w) PROVE DrainInv'
  <2>1. /\ w_pc[w] = "count"
        /\ w_pc' = [w_pc EXCEPT ![w] = IF w_draining[w] THEN "pop" ELSE "check"]
        /\ UNCHANGED <<queueVars, stop, o_pc, w_draining>>
    BY <1>12 DEF WorkerCount
  <2>2. \A x \in Workers : w_pc'[x] = "exited" => w_pc[x] = "exited"
    BY <1>q, <2>1
  <2> QED BY <2>1, <2>2 DEF DrainInv
<1>13. CASE UNCHANGED vars
  BY <1>13 DEF vars, DrainInv
<1> QED BY <1>1, <1>2, <1>3, <1>4, <1>5, <1>6, <1>7, <1>8, <1>9, <1>10, <1>11, <1>12, <1>13, <1>14
        DEF Next, Owner, Worker, Gone

\* Joining: a thread that exited stays so, and a join waits for one more.
LEMMA JoinStep == Typed /\ JoinInv /\ [Next]_vars => JoinInv'
<1> SUFFICES ASSUME Typed, JoinInv, [Next]_vars PROVE JoinInv'
  OBVIOUS
<1> USE DEF queueVars, ownerVars, workerVars
<1>q. /\ w_pc \in [Workers -> {"check", "pop", "run", "count", "exited"}]
      /\ o_i \in 0 .. Count /\ Count \in Nat
      /\ Workers = 0 .. Count - 1
      /\ o_pc \in {"stopping", "~jthread", "joining"} => o_i < Count
  BY CountAssumption DEF Typed, TypeOK, ViewsInv, Workers
<1>1. CASE Submit \/ SubmitTry \/ SubmitCount \/ WaitIdle \/ WaitIdleReturn \/ Destroy
  <2>1. o_pc' \in {"try", "count", "idle", "wait", "stopping"}
    BY <1>1 DEF Submit, SubmitTry, TryPush, SubmitCount, WaitIdle, WaitIdleReturn, Destroy
  <2> QED BY <2>1 DEF JoinInv
<1>2. CASE RequestStop
  <2>1. o_pc' = "stopping" \/ (o_pc' = "~jthread" /\ o_i' = 0)
    BY <1>2 DEF RequestStop
  <2>2. \A x \in Workers : ~(x < 0)
    BY <1>q
  <2> QED BY <2>1, <2>2 DEF JoinInv
<1>3. CASE JthreadStop
  BY <1>3 DEF JthreadStop, JoinInv
<1>4. CASE Join
  <2>1. /\ o_pc = "joining" /\ w_pc[o_i] = "exited" /\ w_pc' = w_pc /\ o_i' = o_i + 1
        /\ o_pc' = IF o_i + 1 < Count THEN "~jthread" ELSE "gone"
    BY <1>4 DEF Join
  <2>2. \A x \in Workers : x < o_i + 1 => x < o_i \/ x = o_i
    BY <1>q
  <2>3. o_pc' = "gone" => o_i' = Count
    BY <1>q, <2>1
  <2> QED BY <2>1, <2>2, <2>3 DEF JoinInv
<1>5. ASSUME NEW w \in Workers, Worker(w) PROVE JoinInv'
  <2>1. w_pc[w] # "exited" /\ UNCHANGED <<o_pc, o_i>> /\ \E p : w_pc' = [w_pc EXCEPT ![w] = p]
    BY <1>5 DEF Worker, WorkerCheck, WorkerPop, WorkerRun, WorkerCount
  <2>2. \A x \in Workers : w_pc[x] = "exited" => w_pc'[x] = "exited"
    BY <1>q, <2>1
  <2> QED BY <2>1, <2>2 DEF JoinInv
<1>6. CASE UNCHANGED vars
  BY <1>6 DEF vars, JoinInv
<1> QED BY <1>1, <1>2, <1>3, <1>4, <1>5, <1>6 DEF Next, Owner, Gone

-----------------------------------------------------------------------------
\* What a queue holds after a push ...
LEMMA ElementsOfAppend ==
  ASSUME NEW S, NEW s \in Seq(S), NEW e \in S,
         \A k, l \in DOMAIN s : s[k] = s[l] => k = l,
         \A k \in DOMAIN s : s[k] # e
  PROVE  LET t == Append(s, e) IN
         /\ {t[k] : k \in DOMAIN t} = {s[k] : k \in DOMAIN s} \cup {e}
         /\ \A k, l \in DOMAIN t : t[k] = t[l] => k = l
<1> DEFINE t == Append(s, e)
<1>1. /\ t \in Seq(S)
      /\ Len(t) = Len(s) + 1
      /\ \A i \in 1 .. Len(s) : t[i] = s[i]
      /\ t[Len(s) + 1] = e
  BY AppendProperties
<1>2. DOMAIN s = 1 .. Len(s) /\ DOMAIN t = 1 .. Len(s) + 1 /\ Len(s) \in Nat
  BY <1>1, LenProperties
<1> HIDE DEF t
<1>3. \A k \in DOMAIN t : k \in DOMAIN s \/ k = Len(s) + 1
  BY <1>2
<1>4. {t[k] : k \in DOMAIN t} = {s[k] : k \in DOMAIN s} \cup {e}
  BY <1>1, <1>2, <1>3
<1>5. \A k, l \in DOMAIN t : t[k] = t[l] => k = l
  BY <1>1, <1>2, <1>3
<1> QED BY <1>4, <1>5 DEF t

\* ... and after a pop.
LEMMA ElementsOfTail ==
  ASSUME NEW S, NEW s \in Seq(S), s # <<>>,
         \A k, l \in DOMAIN s : s[k] = s[l] => k = l
  PROVE  LET t == Tail(s) IN
         /\ {s[k] : k \in DOMAIN s} = {t[k] : k \in DOMAIN t} \cup {Head(s)}
         /\ Head(s) \notin {t[k] : k \in DOMAIN t}
         /\ \A k, l \in DOMAIN t : t[k] = t[l] => k = l
<1> DEFINE t == Tail(s)
<1>1. /\ t \in Seq(S)
      /\ Len(t) = Len(s) - 1
      /\ \A i \in 1 .. Len(t) : t[i] = s[i + 1]
  BY HeadTailProperties
<1>2. DOMAIN s = 1 .. Len(s) /\ DOMAIN t = 1 .. Len(s) - 1 /\ Len(s) \in Nat /\ Len(s) > 0
  BY <1>1, LenProperties, EmptySeq
<1>3. Head(s) = s[1]
  OBVIOUS
<1> HIDE DEF t
<1>4. \A k \in DOMAIN t : t[k] = s[k + 1] /\ k + 1 \in DOMAIN s /\ k + 1 # 1
  BY <1>1, <1>2
<1>5. \A k \in DOMAIN s : k = 1 \/ (k - 1 \in DOMAIN t /\ t[k - 1] = s[k])
  BY <1>1, <1>2
<1>6. 1 \in DOMAIN s
  BY <1>2
<1>7. {s[k] : k \in DOMAIN s} = {t[k] : k \in DOMAIN t} \cup {s[1]}
  BY <1>4, <1>5, <1>6
<1>8. s[1] \notin {t[k] : k \in DOMAIN t}
  BY <1>4, <1>6
<1>9. \A k, l \in DOMAIN t : t[k] = t[l] => k = l
  <2> SUFFICES ASSUME NEW k \in DOMAIN t, NEW l \in DOMAIN t, t[k] = t[l]
               PROVE  k = l
    OBVIOUS
  <2>1. k + 1 = l + 1
    BY <1>4
  <2> QED BY <1>2, <2>1
<1> QED BY <1>3, <1>7, <1>8, <1>9 DEF t

Placed == HandsInv /\ ExactlyOnce

\* No job is anywhere before the first submit.
LEMMA PlacedInit == Init => Placed
<1> SUFFICES ASSUME Init PROVE Placed
  OBVIOUS
<1>1. \A w \in Workers : Queued(w) = {} /\ Running(w) = {} /\ DOMAIN m_queues[w] = {}
  BY DEF Init, Queued, Running
<1> QED BY <1>1 DEF Init, Placed, HandsInv, ExactlyOnce, Outstanding

\* A step that moves no job keeps every job in its one place.
LEMMA NoJobMoves ==
  ASSUME ExactlyOnce, UNCHANGED <<m_queues, accepted, done>>,
         \A w \in Workers : Running(w)' = Running(w)
  PROVE  ExactlyOnce'
<1>1. \A w \in Workers : Queued(w)' = Queued(w)
  BY DEF Queued
<1> QED BY <1>1 DEF ExactlyOnce, Outstanding

\* Every step moves at most one job, from one place to the next.
LEMMA PlacedStep == Typed /\ Placed /\ [Next]_vars => Placed'
<1> SUFFICES ASSUME Typed, Placed, [Next]_vars PROVE Placed'
  OBVIOUS
<1> USE DEF queueVars, ownerVars, workerVars
<1>t. /\ TypeOK
      /\ m_queues \in [Workers -> Seq(Jobs)]
      /\ w_pc \in [Workers -> {"check", "pop", "run", "count", "exited"}]
      /\ w_job \in [Workers -> 0 .. MaxJobs]
      /\ o_job \in 0 .. MaxJobs
      /\ accepted \subseteq Jobs
      /\ ExactlyOnce
      /\ HandsInv
      /\ MaxJobs \in Nat
  BY SMTT(30), MaxJobsAssumption DEF Typed, TypeOK, Placed
<1>d. \A j \in done : j \in accepted
  BY <1>t DEF ExactlyOnce
<1>e. \A j \in accepted : j \in done \/ \E x \in Workers : j \in Outstanding(x)
  BY <1>t DEF ExactlyOnce
<1>f. \A x \in Workers : \A j \in Outstanding(x) : j \in accepted /\ j \notin done
  BY <1>t DEF ExactlyOnce
<1>g. \A x, y \in Workers : x # y => \A j \in Outstanding(x) : j \notin Outstanding(y)
  BY <1>t DEF ExactlyOnce
<1>1. CASE Submit
  <2>1. /\ o_job' = o_job + 1 /\ o_pc' = "try"
        /\ UNCHANGED <<m_queues, workerVars, accepted, done>>
    BY <1>1 DEF Submit
  <2>2. ExactlyOnce'
    BY <1>t, <2>1, NoJobMoves DEF Running
  <2>3. \A j \in accepted : j \in Nat /\ j <= o_job
    BY <1>t DEF HandsInv, Jobs
  <2>4. (\A j \in accepted : j <= o_job') /\ o_job' \notin accepted
    BY <1>t, <2>1, <2>3
  <2> QED BY <1>t, <2>1, <2>2, <2>4 DEF Placed, HandsInv
<1>2. CASE SubmitTry
  <2>0. o_pc = "try"
    BY <1>2 DEF SubmitTry
  <2>1. PICK w \in Workers : \E b \in Len(m_queues[w]) .. backlog[w] : TryPush(w, b)
    BY <1>2, <1>t, SubmitTryPushes
  <2>2. PICK b \in Len(m_queues[w]) .. backlog[w] : TryPush(w, b)
    BY <2>1
  <2>3. UNCHANGED <<o_job, workerVars, done>> /\ o_job \notin accepted /\ o_job \in Jobs
    BY <1>t, <2>0, <2>2 DEF TryPush, HandsInv, Typed, ViewsInv, Jobs
  <2>4. CASE b < Limit
    <3>1. /\ m_queues' = [m_queues EXCEPT ![w] = Append(m_queues[w], o_job)]
          /\ accepted' = accepted \cup {o_job}
          /\ o_pc' = "count"
      BY <2>2, <2>4 DEF TryPush
    <3>2. \A k \in DOMAIN m_queues[w] : m_queues[w][k] # o_job
      <4>1. Queued(w) \subseteq accepted
        BY <1>t DEF ExactlyOnce, Outstanding
      <4> QED BY <2>3, <4>1 DEF Queued
    <3>3. \A k, l \in DOMAIN m_queues[w] : m_queues[w][k] = m_queues[w][l] => k = l
      BY <1>t DEF ExactlyOnce
    <3>4. m_queues'[w] = Append(m_queues[w], o_job) /\ m_queues[w] \in Seq(Jobs)
      BY <1>t, <3>1
    <3>5. /\ Queued(w)' = Queued(w) \cup {o_job}
          /\ \A k, l \in DOMAIN m_queues'[w] : m_queues'[w][k] = m_queues'[w][l] => k = l
      BY SMTT(30), <2>3, <3>2, <3>3, <3>4, ElementsOfAppend DEF Queued
    <3>6. \A x \in Workers \ {w} : m_queues'[x] = m_queues[x] /\ Queued(x)' = Queued(x)
      BY <1>t, <3>1 DEF Queued
    <3>7. \A x \in Workers : Running(x)' = Running(x)
      BY <2>3 DEF Running
    <3>8. \A x \in Workers : o_job \notin Outstanding(x) /\ o_job \notin done
      BY <1>t, <2>3 DEF ExactlyOnce
    <3>9. ExactlyOnce'
      <4>1. Outstanding(w)' = Outstanding(w) \cup {o_job}
        BY <3>5, <3>7 DEF Outstanding
      <4>2. \A x \in Workers \ {w} : Outstanding(x)' = Outstanding(x)
        BY <3>6, <3>7 DEF Outstanding
      <4>3. /\ done' \subseteq accepted'
            /\ \A j \in accepted' \ done' : \E x \in Workers : j \in Outstanding(x)'
        BY <1>t, <2>3, <3>1, <4>1, <4>2, SMTT(30) DEF ExactlyOnce
      <4>4. \A x \in Workers : Outstanding(x)' \subseteq accepted' \ done'
        BY SMTT(30), <1>t, <2>3, <3>1, <3>8, <4>1, <4>2 DEF ExactlyOnce
      <4>5. \A x \in Workers : Queued(x)' \cap Running(x)' = {}
        <5>1. o_job \notin Running(w)
          BY <3>8 DEF Outstanding
        <5> QED BY <1>t, <3>5, <3>6, <3>7, <5>1 DEF ExactlyOnce
      <4>6. \A x \in Workers, y \in Workers : x # y => Outstanding(x)' \cap Outstanding(y)' = {}
        BY <1>g, <3>8, <4>1, <4>2
      <4>7. \A x \in Workers : \A k, l \in DOMAIN m_queues'[x] : m_queues'[x][k] = m_queues'[x][l] => k = l
        BY SMTT(30), <1>t, <3>5, <3>6 DEF ExactlyOnce
      <4> QED BY <4>3, <4>4, <4>5, <4>6, <4>7 DEF ExactlyOnce
    <3>10. HandsInv'
      BY <1>t, <2>3, <3>1 DEF HandsInv
    <3> QED BY <3>9, <3>10 DEF Placed
  <2>5. CASE ~(b < Limit)
    <3>1. UNCHANGED <<m_queues, accepted>> /\ o_pc' \in {"try", "idle"}
      BY <2>2, <2>5 DEF TryPush
    <3>2. ExactlyOnce'
      BY <1>t, <2>3, <3>1, NoJobMoves DEF Running
    <3> QED BY <1>t, <2>3, <3>1, <3>2 DEF Placed, HandsInv
  <2> QED BY <2>4, <2>5
<1>3. ASSUME SubmitCount \/ WaitIdle \/ WaitIdleReturn \/ Destroy \/ RequestStop \/ JthreadStop \/ Join
             \/ UNCHANGED vars
      PROVE  Placed'
  <2>1. /\ UNCHANGED <<m_queues, workerVars, accepted, done, o_job>>
        /\ o_pc' \notin {"try", "count"} \/ o_pc' = o_pc
    BY <1>3 DEF SubmitCount, WaitIdle, WaitIdleReturn, Destroy, RequestStop, JthreadStop, Join, vars
  <2>2. ExactlyOnce'
    BY <1>t, <2>1, NoJobMoves, Zenon DEF Running
  <2> QED BY <1>t, <2>1, <2>2 DEF Placed, HandsInv
<1>4. ASSUME NEW w \in Workers, WorkerCheck(w) PROVE Placed'
  <2>1. /\ w_pc[w] = "check" /\ w_pc' = [w_pc EXCEPT ![w] = "pop"]
        /\ UNCHANGED <<m_queues, w_job, accepted, done, ownerVars>>
    BY <1>4 DEF WorkerCheck
  <2>2. \A x \in Workers : Running(x)' = Running(x)
    BY <1>t, <2>1 DEF Running
  <2>3. ExactlyOnce'
    BY <1>t, <2>1, <2>2, NoJobMoves
  <2>4. \A x \in Workers : w_pc'[x] = "count" => w_pc[x] = "count"
    BY <1>t, <2>1
  <2> QED BY <1>t, <2>1, <2>3, <2>4 DEF Placed, HandsInv
<1>5. ASSUME NEW w \in Workers, NEW a \in 0 .. Limit, WorkerPop(w, a) PROVE Placed'
  <2>0. w_pc[w] = "pop" /\ UNCHANGED <<accepted, done, ownerVars>>
    BY <1>5 DEF WorkerPop
  <2>1. CASE a > 0
    <3>1. /\ w_job' = [w_job EXCEPT ![w] = Head(m_queues[w])]
          /\ m_queues' = [m_queues EXCEPT ![w] = Tail(m_queues[w])]
          /\ w_pc' = [w_pc EXCEPT ![w] = "run"]
          /\ a \in avail[w] .. Len(m_queues[w])
      BY <1>5, <2>1 DEF WorkerPop
    <3>2. m_queues[w] # <<>> /\ m_queues[w] \in Seq(Jobs)
      BY LimitAssumption, <1>t, <2>1, <3>1
    <3>3. \A k, l \in DOMAIN m_queues[w] : m_queues[w][k] = m_queues[w][l] => k = l
      BY <1>t DEF ExactlyOnce
    <3>4. m_queues'[w] = Tail(m_queues[w]) /\ Running(w) = {}
      BY <1>t, <2>0, <3>1 DEF Running
    <3>5. /\ Queued(w) = Queued(w)' \cup {Head(m_queues[w])}
          /\ Head(m_queues[w]) \notin Queued(w)'
          /\ \A k, l \in DOMAIN m_queues'[w] : m_queues'[w][k] = m_queues'[w][l] => k = l
      <4> DEFINE q == m_queues[w]
      <4>1. /\ {q[k] : k \in DOMAIN q} = {Tail(q)[k] : k \in DOMAIN Tail(q)} \cup {Head(q)}
            /\ Head(q) \notin {Tail(q)[k] : k \in DOMAIN Tail(q)}
            /\ \A k, l \in DOMAIN Tail(q) : Tail(q)[k] = Tail(q)[l] => k = l
        BY <3>2, <3>3, ElementsOfTail, Zenon
      <4> QED BY <3>4, <4>1, Zenon DEF Queued
    <3>6. \A x \in Workers \ {w} : /\ m_queues'[x] = m_queues[x]
                                   /\ Queued(x)' = Queued(x)
                                   /\ Running(x)' = Running(x)
      BY <1>t, <3>1 DEF Queued, Running
    <3>7. Running(w)' = {Head(m_queues[w])}
      BY <1>t, <3>1 DEF Running
    <3>8. ExactlyOnce'
      <4>1. \A x \in Workers : Outstanding(x)' = Outstanding(x)
        BY <3>4, <3>5, <3>6, <3>7 DEF Outstanding
      <4>2. Queued(w)' \cap Running(w)' = {}
        BY <3>5, <3>7
      <4>3. \A x \in Workers : Queued(x)' \cap Running(x)' = {}
        BY <1>t, <3>6, <4>2, SMTT(30) DEF ExactlyOnce
      <4>4. \A x \in Workers : \A k, l \in DOMAIN m_queues'[x] : m_queues'[x][k] = m_queues'[x][l] => k = l
        BY <1>t, <3>5, <3>6, Zenon DEF ExactlyOnce
      <4>5. /\ done' \subseteq accepted'
            /\ \A j \in accepted' \ done' : \E x \in Workers : j \in Outstanding(x)'
        BY <1>t, <2>0, <4>1 DEF ExactlyOnce
      <4>6. \A x \in Workers : Outstanding(x)' \subseteq accepted' \ done'
        BY <1>t, <2>0, <4>1 DEF ExactlyOnce
      <4>7. \A x \in Workers, y \in Workers : x # y => Outstanding(x)' \cap Outstanding(y)' = {}
        BY <1>t, <4>1 DEF ExactlyOnce
      <4> QED BY <4>3, <4>4, <4>5, <4>6, <4>7 DEF ExactlyOnce
    <3>9. \A x \in Workers : w_pc'[x] = "count" => w_pc[x] = "count" /\ w_job'[x] = w_job[x]
      BY <1>t, <3>1
    <3> QED BY SMTT(30), <1>t, <2>0, <3>8, <3>9 DEF Placed, HandsInv
  <2>2. CASE ~(a > 0)
    <3>1. /\ w_pc' = [w_pc EXCEPT ![w] = IF w_draining[w] THEN "exited" ELSE "check"]
          /\ UNCHANGED <<m_queues, w_job>>
      BY <1>5, <2>2 DEF WorkerPop
    <3>2. \A x \in Workers : Running(x)' = Running(x)
      BY <1>t, <2>0, <3>1 DEF Running
    <3>3. ExactlyOnce'
      BY <1>t, <2>0, <3>1, <3>2, NoJobMoves
    <3>4. \A x \in Workers : w_pc'[x] = "count" => w_pc[x] = "count"
      BY <1>t, <3>1
    <3> QED BY SMTT(30), <1>t, <2>0, <3>1, <3>3, <3>4 DEF Placed, HandsInv
  <2> QED BY <2>1, <2>2
<1>6. ASSUME NEW w \in Workers, WorkerRun(w) PROVE Placed'
  <2>1. /\ w_pc[w] = "run" /\ w_pc' = [w_pc EXCEPT ![w] = "count"]
        /\ done' = done \cup {w_job[w]}
        /\ UNCHANGED <<m_queues, w_job, accepted, ownerVars>>
    BY <1>6 DEF WorkerRun
  <2>2. Running(w) = {w_job[w]} /\ Running(w)' = {}
    BY <1>t, <2>1 DEF Running
  <2>3. \A x \in Workers : Queued(x)' = Queued(x)
    BY <2>1 DEF Queued
  <2>4. \A x \in Workers \ {w} : Running(x)' = Running(x)
    BY <1>t, <2>1 DEF Running
  <2>5. w_job[w] \in Outstanding(w) /\ Outstanding(w)' = Outstanding(w) \ {w_job[w]}
    BY <1>t, <2>2, <2>3 DEF Outstanding, ExactlyOnce
  <2>6. \A x \in Workers \ {w} : Outstanding(x)' = Outstanding(x) /\ w_job[w] \notin Outstanding(x)
    BY <1>t, <2>3, <2>4, <2>5 DEF Outstanding, ExactlyOnce
  <2>7. ExactlyOnce'
    <3>1. /\ done' \subseteq accepted'
          /\ \A j \in accepted' \ done' : \E x \in Workers : j \in Outstanding(x)'
      BY <1>d, <1>e, <1>f, <2>1, <2>5, <2>6
    <3>2. \A x \in Workers : Outstanding(x)' \subseteq accepted' \ done'
      BY <1>f, <2>1, <2>5, <2>6
    <3>3. \A x \in Workers : Queued(x)' \cap Running(x)' = {}
      BY SMTT(30), <1>t, <2>2, <2>3, <2>4 DEF ExactlyOnce
    <3>4. \A x \in Workers, y \in Workers : x # y => Outstanding(x)' \cap Outstanding(y)' = {}
      BY <1>g, <2>5, <2>6
    <3>5. \A x \in Workers : \A k, l \in DOMAIN m_queues'[x] : m_queues'[x][k] = m_queues'[x][l] => k = l
      BY <1>t, <2>1 DEF ExactlyOnce
    <3> QED BY <3>1, <3>2, <3>3, <3>4, <3>5 DEF ExactlyOnce
  <2>8. w_job[w] \notin done
    BY <1>t, <2>5 DEF ExactlyOnce
  <2>9. \A x \in Workers \ {w} : w_pc'[x] = w_pc[x]
    BY <1>t, <2>1
  <2>10. HandsInv'
    BY <1>t, <2>1, <2>8, <2>9 DEF HandsInv
  <2> QED BY SMTT(30), <2>7, <2>10 DEF Placed
<1>7. ASSUME NEW w \in Workers, WorkerCount(w) PROVE Placed'
  <2>1. /\ w_pc[w] = "count"
        /\ w_pc' = [w_pc EXCEPT ![w] = IF w_draining[w] THEN "pop" ELSE "check"]
        /\ UNCHANGED <<m_queues, w_job, accepted, done, ownerVars>>
    BY <1>7 DEF WorkerCount
  <2>2. \A x \in Workers : Running(x)' = Running(x)
    BY <1>t, <2>1 DEF Running
  <2>3. ExactlyOnce'
    BY <1>t, <2>1, <2>2, NoJobMoves
  <2>4. \A x \in Workers : w_pc'[x] = "count" => w_pc[x] = "count"
    BY <1>t, <2>1
  <2> QED BY SMTT(30), <1>t, <2>1, <2>3, <2>4 DEF Placed, HandsInv
<1> QED BY <1>1, <1>2, <1>3, <1>4, <1>5, <1>6, <1>7 DEF Next, Owner, Worker, Gone

-----------------------------------------------------------------------------
\* Division is unique: u32 arithmetic may be done on the unbounded counts.
LEMMA RemainderUnique ==
  ASSUME NEW u \in Nat, u > 0, NEW q \in Int, NEW r \in 0 .. u - 1
  PROVE  (u * q + r) % u = r
<1> DEFINE a == u * q + r
<1>1. a \in Int
  OBVIOUS
<1> HIDE DEF a
<1> DEFINE k == a \div u
           m == a % u
<1>2. m \in 0 .. u - 1 /\ a = u * k + m /\ k \in Int
  BY <1>1
<1> HIDE DEF k, m
<1>3. u * k + m = u * q + r
  BY <1>2 DEF a
<1> DEFINE d == k - q
<1>4. d \in Int
  BY <1>2
<1>5. u * d = u * k - u * q
  BY <1>2
<1> HIDE DEF d
<1>6. u * d = r - m /\ u * d \in Int
  <2>1. u * k \in Int /\ u * q \in Int
    BY <1>2
  <2> QED BY <1>2, <1>3, <1>5, <2>1
<1>7. u * d < u /\ u * d > -u
  BY <1>2, <1>6
<1>8. d = 0
  <2>1. CASE d >= 1
    <3>1. u * d >= u
      BY <1>4, <2>1
    <3> QED BY <1>6, <1>7, <3>1
  <2>2. CASE d <= -1
    <3>1. u * d <= -u
      BY <1>4, <2>2
    <3> QED BY <1>6, <1>7, <3>1
  <2> QED BY <1>4, <2>1, <2>2
<1>9. m = r
  BY <1>2, <1>6, <1>8
<1> QED BY <1>9 DEF m, a

\* Adding or subtracting one commutes with taking the remainder (u32 counters).
LEMMA ModularStep ==
  ASSUME NEW u \in Nat, u > 0, NEW x \in Int
  PROVE  /\ ((x % u) + 1) % u = (x + 1) % u
         /\ ((x % u) - 1) % u = (x - 1) % u
<1> DEFINE q == x \div u
           r == x % u
<1>1. q \in Int /\ r \in 0 .. u - 1 /\ x = u * q + r
  OBVIOUS
<1> HIDE DEF q, r
<1>2. (r + 1) % u = (x + 1) % u
  <2>1. CASE r + 1 < u
    <3>1. r + 1 \in 0 .. u - 1 /\ x + 1 = u * q + (r + 1)
      BY <1>1, <2>1
    <3>2. (x + 1) % u = r + 1
      BY <1>1, <3>1, RemainderUnique
    <3>3. (r + 1) % u = r + 1
      BY <3>1
    <3> QED BY <3>2, <3>3
  <2>2. CASE r + 1 = u
    <3>1. x + 1 = u * (q + 1) + 0 /\ 0 \in 0 .. u - 1 /\ q + 1 \in Int
      BY <1>1, <2>2
    <3>2. (x + 1) % u = 0
      BY <3>1, RemainderUnique, Zenon
    <3>3. (r + 1) % u = 0
      BY <2>2
    <3> QED BY <3>2, <3>3
  <2> QED BY <1>1, <2>1, <2>2
<1>3. (r - 1) % u = (x - 1) % u
  <2>1. CASE r >= 1
    <3>1. r - 1 \in 0 .. u - 1 /\ x - 1 = u * q + (r - 1)
      BY <1>1, <2>1
    <3>2. (x - 1) % u = r - 1
      BY <1>1, <3>1, RemainderUnique
    <3>3. (r - 1) % u = r - 1
      BY <3>1
    <3> QED BY <3>2, <3>3
  <2>2. CASE r = 0
    <3>1. x - 1 = u * (q - 1) + (u - 1) /\ u - 1 \in 0 .. u - 1 /\ q - 1 \in Int
      BY <1>1, <2>2
    <3>2. (x - 1) % u = u - 1
      BY SMTT(30), <3>1, RemainderUnique
    <3>3. r - 1 = u * (-1) + (u - 1) /\ -1 \in Int
      BY <2>2
    <3>4. (r - 1) % u = u - 1
      BY <3>1, <3>3, RemainderUnique
    <3> QED BY <3>2, <3>4
  <2> QED BY <1>1, <2>1, <2>2
<1> QED BY <1>2, <1>3 DEF r

\* The unsettled jobs are a finite set.
LEMMA UnsettledFinite ==
  ASSUME TypeOK
  PROVE  IsFiniteSet(Unsettled) /\ Cardinality(Unsettled) \in Nat
<1>1. IsFiniteSet(Jobs)
  BY MaxJobsAssumption, FS_Interval DEF Jobs
<1>2. Unsettled \in SUBSET Jobs
  BY DEF Unsettled, TypeOK
<1> QED BY <1>1, <1>2, FS_Subset, FS_CardinalityType

\* m_pending_jobs starts at zero, with no job to count.
LEMMA PendingInit == Init => PendingCountsJobs
<1> SUFFICES ASSUME Init PROVE PendingCountsJobs
  OBVIOUS
<1>1. Unsettled = {}
  BY DEF Init, Unsettled
<1>2. Cardinality(Unsettled) = 0
  BY <1>1, FS_EmptySet
<1>3. 0 % U32 = 0
  BY U32Arithmetic
<1> QED BY <1>2, <1>3 DEF Init, PendingCountsJobs

\* The counter follows the jobs through every step.
LEMMA PendingStep ==
  Typed /\ Placed /\ PendingCountsJobs /\ [Next]_vars => PendingCountsJobs'
<1> SUFFICES ASSUME Typed, Placed, PendingCountsJobs, [Next]_vars
             PROVE  PendingCountsJobs'
  OBVIOUS
<1> USE DEF queueVars, ownerVars, workerVars
<1>t. /\ TypeOK
      /\ w_pc \in [Workers -> {"check", "pop", "run", "count", "exited"}]
      /\ ExactlyOnce
      /\ HandsInv
  BY DEF Typed, TypeOK, Placed
<1>u. U32 \in Nat /\ U32 > 0
  BY U32Arithmetic
<1>c. IsFiniteSet(Unsettled) /\ Cardinality(Unsettled) \in Nat
  BY <1>t, UnsettledFinite
\* Steps that leave the unsettled jobs and the counter alone.
<1>s. ASSUME Unsettled' = Unsettled, m_pending_jobs' = m_pending_jobs,
             o_pc = "count" <=> o_pc' = "count"
      PROVE  PendingCountsJobs'
  BY <1>s DEF PendingCountsJobs
<1>1. CASE Submit
  <2>1. UNCHANGED <<workerVars, accepted, done, m_pending_jobs>> /\ o_pc = "idle" /\ o_pc' = "try"
    BY <1>1 DEF Submit
  <2> QED BY <1>s, <2>1 DEF Unsettled
<1>2. CASE SubmitTry
  <2>0. o_pc = "try"
    BY <1>2 DEF SubmitTry
  <2>1. PICK w \in Workers : \E b \in Len(m_queues[w]) .. backlog[w] : TryPush(w, b)
    BY <1>2, <1>t, SubmitTryPushes
  <2>2. PICK b \in Len(m_queues[w]) .. backlog[w] : TryPush(w, b)
    BY <2>1
  <2>3. UNCHANGED <<m_pending_jobs, o_job, workerVars, done>> /\ o_job \notin accepted
    BY <1>t, <2>0, <2>2 DEF TryPush, HandsInv
  <2>4. CASE b < Limit
    <3>1. accepted' = accepted \cup {o_job} /\ o_pc' = "count"
      BY <2>2, <2>4 DEF TryPush
    <3>2. o_job \notin done
      BY SMTT(30), <1>t, <2>3 DEF ExactlyOnce
    <3>3. Unsettled' = Unsettled \cup {o_job} /\ o_job \notin Unsettled
      BY <2>3, <3>1, <3>2 DEF Unsettled
    <3>4. Cardinality(Unsettled') = Cardinality(Unsettled) + 1
      BY <1>c, <3>3, FS_AddElement, Zenon
    <3>5. Cardinality(Unsettled)' = Cardinality(Unsettled) + 1
      BY <3>4
    <3>6. Cardinality(Unsettled)' - 1 = Cardinality(Unsettled)
      BY <1>c, <3>5
    <3>7. m_pending_jobs = (Cardinality(Unsettled) - 0) % U32
      BY <2>0 DEF PendingCountsJobs
    <3>8. m_pending_jobs' = (Cardinality(Unsettled)' - 1) % U32
      BY <1>c, <2>3, <3>6, <3>7
    <3> QED BY <3>1, <3>8 DEF PendingCountsJobs
  <2>5. CASE ~(b < Limit)
    <3>1. accepted' = accepted /\ o_pc' \in {"try", "idle"}
      BY <2>2, <2>5 DEF TryPush
    <3> QED BY <1>s, <2>0, <2>3, <3>1 DEF Unsettled
  <2> QED BY <2>4, <2>5
<1>3. CASE SubmitCount
  <2>1. /\ o_pc = "count" /\ o_pc' = "idle"
        /\ m_pending_jobs' = (m_pending_jobs + 1) % U32
        /\ UNCHANGED <<workerVars, accepted, done>>
    BY <1>3 DEF SubmitCount
  <2>2. Unsettled' = Unsettled
    BY <2>1 DEF Unsettled
  <2> DEFINE x == Cardinality(Unsettled) - 1
  <2>3. m_pending_jobs = x % U32
    BY <2>1 DEF PendingCountsJobs
  <2>4. x \in Int /\ x + 1 = Cardinality(Unsettled) - 0
    BY <1>c
  <2> HIDE DEF x
  <2>5. m_pending_jobs' = (x + 1) % U32
    BY <1>u, <2>1, <2>3, <2>4, ModularStep, Zenon
  <2> QED BY <2>1, <2>2, <2>4, <2>5 DEF PendingCountsJobs
<1>4. ASSUME WaitIdle \/ WaitIdleReturn \/ Destroy \/ RequestStop \/ JthreadStop \/ Join \/ UNCHANGED vars
      PROVE  PendingCountsJobs'
  <2>1. /\ UNCHANGED <<workerVars, accepted, done, m_pending_jobs>>
        /\ o_pc = "count" <=> o_pc' = "count"
    BY <1>4 DEF WaitIdle, WaitIdleReturn, Destroy, RequestStop, JthreadStop, Join, vars
  <2> QED BY <1>s, <2>1 DEF Unsettled
<1>5. ASSUME NEW w \in Workers, WorkerCheck(w) PROVE PendingCountsJobs'
  <2>1. /\ w_pc[w] = "check" /\ w_pc' = [w_pc EXCEPT ![w] = "pop"]
        /\ UNCHANGED <<w_job, accepted, done, m_pending_jobs, o_pc>>
    BY <1>5 DEF WorkerCheck
  <2>2. \A x \in Workers : w_pc'[x] = "count" <=> w_pc[x] = "count"
    BY <1>t, <2>1
  <2> QED BY <1>s, <2>1, <2>2 DEF Unsettled
<1>6. ASSUME NEW w \in Workers, NEW a \in 0 .. Limit, WorkerPop(w, a) PROVE PendingCountsJobs'
  <2>1. w_pc[w] = "pop" /\ UNCHANGED <<accepted, done, m_pending_jobs, o_pc>>
    BY <1>6 DEF WorkerPop
  <2>2. \/ /\ w_pc' = [w_pc EXCEPT ![w] = "run"]
           /\ w_job' = [w_job EXCEPT ![w] = Head(m_queues[w])]
        \/ /\ w_pc' = [w_pc EXCEPT ![w] = IF w_draining[w] THEN "exited" ELSE "check"]
           /\ w_job' = w_job
    BY <1>6 DEF WorkerPop
  <2>3. \A x \in Workers : /\ w_pc'[x] = "count" <=> w_pc[x] = "count"
                           /\ w_pc[x] = "count" => w_job'[x] = w_job[x]
    BY SMTT(30), <1>t, <2>1, <2>2 DEF TypeOK
  <2> QED BY SMTT(30), <1>s, <2>1, <2>3 DEF Unsettled
<1>7. ASSUME NEW w \in Workers, WorkerRun(w) PROVE PendingCountsJobs'
  <2>1. /\ w_pc[w] = "run" /\ w_pc' = [w_pc EXCEPT ![w] = "count"]
        /\ done' = done \cup {w_job[w]}
        /\ UNCHANGED <<w_job, accepted, m_pending_jobs, o_pc>>
    BY <1>7 DEF WorkerRun
  <2>2. w_job[w] \notin done
    BY <1>t, <2>1 DEF ExactlyOnce, Outstanding, Running
  <2>3. w_pc'[w] = "count" /\ \A x \in Workers \ {w} : w_pc'[x] = w_pc[x]
    BY <1>t, <2>1
  <2>4. Unsettled' = Unsettled
    BY <2>1, <2>2, <2>3 DEF Unsettled
  <2> QED BY <1>s, <2>1, <2>4
<1>8. ASSUME NEW w \in Workers, WorkerCount(w) PROVE PendingCountsJobs'
  <2>1. /\ w_pc[w] = "count"
        /\ m_pending_jobs' = (m_pending_jobs - 1) % U32
        /\ w_pc' = [w_pc EXCEPT ![w] = IF w_draining[w] THEN "pop" ELSE "check"]
        /\ UNCHANGED <<w_job, accepted, done, o_pc>>
    BY <1>8 DEF WorkerCount
  <2>2. w_job[w] \in done /\ w_job[w] \in accepted
    BY <1>t, <2>1 DEF HandsInv, ExactlyOnce
  <2>3. \A x \in Workers \ {w} : w_pc'[x] = w_pc[x] /\ (w_pc[x] = "count" => w_job[x] # w_job[w])
    BY <1>t, <2>1 DEF HandsInv
  <2>4. w_pc'[w] # "count"
    BY <1>t, <2>1
  <2>5. Unsettled' = Unsettled \ {w_job[w]} /\ w_job[w] \in Unsettled
    BY <2>1, <2>2, <2>3, <2>4 DEF Unsettled
  <2>6. Cardinality(Unsettled') = Cardinality(Unsettled) - 1
    BY <1>c, <2>5, FS_RemoveElement, Zenon
  <2> DEFINE d == IF o_pc = "count" THEN 1 ELSE 0
             x == Cardinality(Unsettled) - d
  <2>7. m_pending_jobs = x % U32 /\ x \in Int /\ d \in Int /\ d' = d
    BY <1>c, <2>1 DEF PendingCountsJobs
  <2>8. Cardinality(Unsettled)' - d = x - 1
    BY <1>c, <2>6, <2>7
  <2> HIDE DEF x
  <2>9. m_pending_jobs' = (x - 1) % U32
    BY <1>u, <2>1, <2>7, ModularStep, Zenon
  <2> QED BY <2>7, <2>8, <2>9 DEF PendingCountsJobs
<1> QED BY <1>1, <1>2, <1>3, <1>4, <1>5, <1>6, <1>7, <1>8 DEF Next, Owner, Worker, Gone

\* The place a job that is not settled is in: the worker's hand (place 0) or a
\* position of its queue.
Holder(p) == IF p[2] = 0 THEN w_job[p[1]] ELSE m_queues[p[1]][p[2]]

\* There are at most Count * (Limit + 1) such places, so a u32 never confuses
\* the number of unsettled jobs with zero.
LEMMA UnsettledBounded ==
  ASSUME Typed, Placed
  PROVE  Cardinality(Unsettled) < U32
<1>t. /\ TypeOK
      /\ m_queues \in [Workers -> Seq(Jobs)]
      /\ backlog \in [Workers -> 0 .. Limit]
      /\ \A w \in Workers : Len(m_queues[w]) <= backlog[w]
      /\ ExactlyOnce
  BY DEF Typed, TypeOK, ViewsInv, Placed
<1> DEFINE W == Workers
           N == 0 .. Limit
           P == {p \in W \X N : Holder(p) \in Unsettled}
           f == [p \in P |-> Holder(p)]
<1>1. ASSUME NEW j \in Unsettled PROVE \E p \in W \X N : Holder(p) = j
  <2>1. CASE \E w \in Workers : w_pc[w] = "count" /\ w_job[w] = j
    <3>1. PICK w \in Workers : w_job[w] = j
      BY SMTT(30), <2>1
    <3>2. <<w, 0>> \in W \X N /\ Holder(<<w, 0>>) = j
      BY <3>1, LimitAssumption DEF Holder
    <3> QED BY SMTT(30), <3>2
  <2>2. CASE j \in accepted \ done
    <3>1. PICK w \in Workers : j \in Outstanding(w)
      BY <1>t, <2>2 DEF ExactlyOnce
    <3>2. CASE j \in Running(w)
      <4>1. <<w, 0>> \in W \X N /\ Holder(<<w, 0>>) = j
        BY <3>2, LimitAssumption DEF Holder, Running
      <4> QED BY <4>1
    <3>3. CASE j \in Queued(w)
      <4>1. PICK k \in DOMAIN m_queues[w] : m_queues[w][k] = j
        BY <3>3 DEF Queued
      <4>2. k \in 1 .. Limit
        BY <1>t, <4>1, LimitAssumption
      <4>3. <<w, k>> \in W \X N /\ Holder(<<w, k>>) = j
        BY <4>1, <4>2, LimitAssumption DEF Holder
      <4> QED BY <4>3
    <3> QED BY <3>1, <3>2, <3>3 DEF Outstanding
  <2> QED BY <2>1, <2>2 DEF Unsettled
<1>2. f \in Surjection(P, Unsettled)
  <2>1. f \in [P -> Unsettled]
    OBVIOUS
  <2>2. \A j \in Unsettled : \E p \in P : f[p] = j
    BY <1>1
  <2> QED BY <2>1, <2>2 DEF Surjection
<1>3. IsFiniteSet(W) /\ Cardinality(W) = Count
  <2>1. Count \in Nat /\ Count > 0
    BY CountAssumption
  <2>2. IsFiniteSet(0 .. Count - 1)
        /\ Cardinality(0 .. Count - 1) = IF 0 > Count - 1 THEN 0 ELSE Count - 1 - 0 + 1
    BY <2>1, FS_Interval
  <2> QED BY <2>1, <2>2 DEF Workers
<1>4. IsFiniteSet(N) /\ Cardinality(N) = Limit + 1
  <2>1. IsFiniteSet(0 .. Limit)
        /\ Cardinality(0 .. Limit) = IF 0 > Limit THEN 0 ELSE Limit - 0 + 1
    BY LimitAssumption, FS_Interval
  <2> QED BY <2>1, LimitAssumption
<1> HIDE DEF W, N
<1>5. IsFiniteSet(W \X N) /\ Cardinality(W \X N) = Count * (Limit + 1)
  BY <1>3, <1>4, FS_Product
<1>6. P \in SUBSET (W \X N)
  OBVIOUS
<1> HIDE DEF P, f
<1>7. IsFiniteSet(P) /\ Cardinality(P) <= Cardinality(W \X N)
  BY <1>5, <1>6, FS_Subset
<1>8. Cardinality(Unsettled) <= Cardinality(P)
  BY <1>2, <1>7, FS_Surjection
<1>9. Cardinality(P) \in Nat /\ Cardinality(Unsettled) \in Nat
  BY <1>7, <1>t, FS_CardinalityType, UnsettledFinite
<1>10. Count * (Limit + 1) < U32 /\ U32 \in Nat /\ Count * (Limit + 1) \in Nat
  BY U32Assumption, CountAssumption, LimitAssumption
<1> QED BY <1>5, <1>7, <1>8, <1>9, <1>10

-----------------------------------------------------------------------------
\* Every reachable state satisfies JobInv (src/job_system.cpp, 7-72).
THEOREM JobsAreTracked == Spec => []JobInv
<1>1. Init => JobInv
  BY TypedInit, DrainInit, PlacedInit, PendingInit DEF JobInv, Typed, Placed, Init, JoinInv
<1>2. JobInv /\ [Next]_vars => JobInv'
  <2> SUFFICES ASSUME JobInv, [Next]_vars PROVE JobInv'
    OBVIOUS
  <2>1. Typed /\ DrainInv /\ JoinInv /\ Placed /\ PendingCountsJobs
    BY DEF JobInv, Typed, Placed
  <2>2. Typed' /\ DrainInv' /\ JoinInv' /\ Placed' /\ PendingCountsJobs'
    BY <2>1, TypedStep, DrainStep, JoinStep, PlacedStep, PendingStep
  <2> QED BY <2>2 DEF JobInv, Typed, Placed
<1> QED BY <1>1, <1>2, PTL DEF Spec

\* An accepted job is done or in exactly one place of exactly one worker, so it
\* runs exactly once (submit, 34; worker_loop, 58-59 and 68-69).
THEOREM JobsRunExactlyOnce == Spec => []ExactlyOnce
<1>1. JobInv => ExactlyOnce
  BY DEF JobInv
<1> QED BY <1>1, JobsAreTracked, PTL

\* Whatever submit and the workers do to m_pending_jobs, also when a worker's
\* fetch_sub comes before submit's fetch_add, the sum is right (35, 60, 70).
THEOREM CounterIsRight == Spec => []PendingCountsJobs
<1>1. JobInv => PendingCountsJobs
  BY DEF JobInv
<1> QED BY <1>1, JobsAreTracked, PTL

\* The destructor's stop requests lose no job: workers exit with empty queues
\* and all accepted jobs are done when the threads are joined (21-24, 66-71).
THEOREM DestructorRunsAll == Spec => []DrainLosesNothing
<1>1. JobInv => DrainLosesNothing
  <2> SUFFICES ASSUME JobInv PROVE DrainLosesNothing
    OBVIOUS
  <2>1. DrainInv /\ JoinInv /\ ExactlyOnce /\ TypeOK
    BY DEF JobInv
  <2>2. \A w \in Workers : w_pc[w] = "exited" => m_queues[w] = <<>> /\ Outstanding(w) = {}
    BY <2>1 DEF DrainInv, Outstanding, Queued, Running
  <2>3. o_pc = "gone" => \A w \in Workers : w_pc[w] = "exited"
    BY <2>1, CountAssumption DEF JoinInv, Workers
  <2>4. o_pc = "gone" => accepted = done
    BY <2>1, <2>2, <2>3, Zenon DEF ExactlyOnce
  <2> QED BY <2>2, <2>4 DEF DrainLosesNothing
<1> QED BY <1>1, JobsAreTracked, PTL

\* A counter of zero, read while no submit is between its push and its count,
\* means that every accepted job is done: the unsettled jobs are fewer than a u32
\* can count, so zero is none and not a multiple of its width (44).
LEMMA ZeroMeansDone ==
  ASSUME JobInv, m_pending_jobs = 0, o_pc # "count"
  PROVE  accepted \subseteq done
<1>1. Typed /\ Placed /\ PendingCountsJobs /\ TypeOK
  BY DEF JobInv, Typed, Placed
<1>2. IsFiniteSet(Unsettled) /\ Cardinality(Unsettled) \in Nat
  BY <1>1, UnsettledFinite
<1>3. Cardinality(Unsettled) < U32
  BY <1>1, UnsettledBounded
<1>4. (Cardinality(Unsettled) - 0) % U32 = 0
  BY <1>1 DEF PendingCountsJobs
<1> DEFINE c == Cardinality(Unsettled)
<1>5. c \in Nat /\ c < U32 /\ U32 \in Nat /\ U32 > 0 /\ c % U32 = 0
  BY <1>2, <1>3, <1>4, U32Arithmetic
<1> HIDE DEF c
<1>6. c = 0
  <2>1. (U32 * 0 + c) % U32 = c
    BY <1>5, RemainderUnique
  <2>2. U32 * 0 + c = c
    BY <1>5
  <2> QED BY <1>5, <2>1, <2>2
<1>7. Unsettled = {}
  BY <1>2, <1>6, FS_EmptySet DEF c
<1> QED BY <1>7 DEF Unsettled

\* wait_idle returns to the thread that submits only when every job it had
\* accepted is done (43-46).
THEOREM WaitIdleIsSound == Spec => WaitIdleMeansDone
<1>1. JobInv /\ [Next]_vars => [o_pc = "wait" /\ o_pc' = "idle" => accepted \subseteq done]_vars
  <2> SUFFICES ASSUME JobInv, Next, o_pc = "wait", o_pc' = "idle"
               PROVE  accepted \subseteq done
    OBVIOUS
  <2>1. m_pending_jobs = 0
    BY DEF Next, Owner, Worker, Gone, Submit, SubmitTry, TryPush, SubmitCount, WaitIdle,
           WaitIdleReturn, Destroy, RequestStop, JthreadStop, Join, WorkerCheck, WorkerPop, WorkerRun,
           WorkerCount, ownerVars, vars
  <2> QED BY <2>1, ZeroMeansDone
<1> QED BY <1>1, JobsAreTracked, PTL DEF Spec, WaitIdleMeansDone

-----------------------------------------------------------------------------
(* A refused submit *)

\* The queues submit has tried so far looked full (33-38).
TriedInv ==
  o_pc = "try" => \A k \in 0 .. o_i - 1 : backlog[(o_start + k) % Count] = Limit

\* Going around from any queue passes each of them (34).
LEMMA AroundCoversAll ==
  ASSUME NEW s \in Workers, NEW w \in Workers
  PROVE  \E k \in 0 .. Count - 1 : (s + k) % Count = w
<1>c. Count \in Nat /\ Count > 0 /\ s \in Nat /\ w \in Nat /\ s < Count /\ w < Count
  BY CountAssumption DEF Workers
<1>1. CASE s <= w
  <2>1. w - s \in 0 .. Count - 1 /\ s + (w - s) = Count * 0 + w
    BY <1>c, <1>1
  <2>2. (Count * 0 + w) % Count = w
    BY <1>c, RemainderUnique
  <2> QED BY <2>1, <2>2
<1>2. CASE w < s
  <2>1. w - s + Count \in 0 .. Count - 1 /\ s + (w - s + Count) = Count * 1 + w
    BY <1>c, <1>2
  <2>2. (Count * 1 + w) % Count = w
    BY <1>c, RemainderUnique
  <2> QED BY <2>1, <2>2
<1> QED BY <1>c, <1>1, <1>2

\* A refusal leaves the owner with the view that the queue is full, and so one
\* more queue that looked full (34; spsc_queue.h, try_push).
LEMMA RefusalTries ==
  ASSUME Typed, TriedInv, SubmitTry, o_pc' # "count"
  PROVE  /\ o_i' = o_i + 1 /\ o_i \in 0 .. Count - 1 /\ o_start' = o_start
         /\ o_pc' = IF o_i + 1 < Count THEN "try" ELSE "idle"
         /\ \A k \in 0 .. o_i : backlog'[(o_start + k) % Count] = Limit
<1> DEFINE w == (o_start + o_i) % Count
<1>t. /\ Limit \in Nat /\ Count \in Nat /\ o_pc = "try" /\ o_i \in 0 .. Count - 1
      /\ backlog \in [Workers -> 0 .. Limit] /\ o_start \in Nat
  <2>1. /\ o_i \in 0 .. Count /\ o_start \in Workers /\ backlog \in [Workers -> 0 .. Limit]
        /\ o_pc = "try"
    BY DEF Typed, TypeOK, SubmitTry
  <2>2. o_i < Count
    BY <2>1 DEF Typed, ViewsInv
  <2>3. o_start \in Nat /\ o_i \in 0 .. Count - 1
    BY <2>1, <2>2, CountAssumption DEF Workers
  <2> QED BY <2>1, <2>3, CountAssumption, LimitAssumption
<1>1. w \in Workers
  <2>1. o_start + o_i \in Nat
    BY <1>t
  <2> QED BY <2>1, QueueIndex
<1>2. PICK b \in Len(m_queues[w]) .. backlog[w] : TryPush(w, b)
  BY DEF SubmitTry
<1>3. Len(m_queues[w]) \in Nat
  BY <1>1 DEF Typed, TypeOK
<1> HIDE DEF w
<1>4. b \in Nat /\ b <= Limit /\ ~(b < Limit)
  <2>1. b \in Nat /\ b <= backlog[w] /\ backlog[w] <= Limit /\ backlog[w] \in Nat
    BY <1>t, <1>1, <1>2, <1>3
  <2>2. ~(b < Limit)
    BY <1>2 DEF TryPush
  <2> QED BY <1>t, <2>1, <2>2
<1>5. /\ backlog' = [backlog EXCEPT ![w] = b] /\ o_i' = o_i + 1 /\ o_start' = o_start
      /\ o_pc' = IF o_i + 1 < Count THEN "try" ELSE "idle"
  BY <1>2, <1>4 DEF TryPush
<1>6. b = Limit
  BY <1>t, <1>4
<1>7. ASSUME NEW k \in 0 .. o_i
      PROVE  backlog'[(o_start + k) % Count] = Limit
  <2>1. (o_start + k) % Count \in Workers
    <3>1. o_start + k \in Nat
      BY <1>t
    <3> QED BY <3>1, QueueIndex
  <2>2. CASE k = o_i
    BY <1>t, <1>1, <1>5, <1>6, <2>2 DEF w
  <2>3. CASE k # o_i
    <3>1. k \in 0 .. o_i - 1
      BY <1>t, <2>3
    <3>2. backlog[(o_start + k) % Count] = Limit
      BY <1>t, <3>1 DEF TriedInv
    <3> QED BY <1>t, <1>5, <1>6, <2>1, <3>2
  <2> QED BY <2>2, <2>3
<1> QED BY <1>t, <1>5, <1>7

\* The queues already tried keep looking full until submit returns.
LEMMA TriedInvariance == Spec => []TriedInv
<1>1. Init => TriedInv
  BY DEF Init, TriedInv
<1>2. Typed /\ TriedInv /\ [Next]_vars => TriedInv'
  <2> SUFFICES ASSUME Typed, TriedInv, [Next]_vars, o_pc' = "try"
               PROVE  \A k \in 0 .. o_i' - 1 : backlog'[(o_start' + k) % Count] = Limit
    BY DEF TriedInv
  <2>1. CASE Submit
    <3>1. o_i' = 0
      BY <2>1 DEF Submit
    <3> QED BY <3>1
  <2>2. CASE SubmitTry
    <3>1. /\ o_i' = o_i + 1 /\ o_i \in 0 .. Count - 1 /\ o_start' = o_start
          /\ \A k \in 0 .. o_i : backlog'[(o_start + k) % Count] = Limit
      BY <2>2, RefusalTries
    <3>2. 0 .. o_i' - 1 = 0 .. o_i
      BY <3>1, CountAssumption
    <3> QED BY <3>1, <3>2, Zenon
  <2>3. CASE ~Submit /\ ~SubmitTry
    <3>1. o_pc = "try" /\ UNCHANGED <<o_i, o_start, backlog>>
      BY <2>3 DEF Next, Owner, Worker, Gone, SubmitCount, WaitIdle, WaitIdleReturn,
           Destroy, RequestStop, JthreadStop, Join, WorkerCheck, WorkerPop, WorkerRun, WorkerCount,
           queueVars, ownerVars, vars
    <3> QED BY <3>1 DEF TriedInv
  <2> QED BY <2>1, <2>2, <2>3
<1>3. JobInv => Typed
  BY DEF JobInv, Typed
<1> QED BY <1>1, <1>2, <1>3, JobsAreTracked, PTL DEF Spec

\* submit returns false only after each queue, whichever it began with, looked
\* full to it in this very call (28-41).
THEOREM RefusalsTriedEveryQueue == Spec => RefusedOnlyWhenAllFull
<1>1. Typed /\ TriedInv /\ [Next]_vars =>
        [o_pc = "try" /\ o_pc' = "idle" => \A w \in Workers : backlog'[w] = Limit]_vars
  <2> SUFFICES ASSUME Typed, TriedInv, Next, o_pc = "try", o_pc' = "idle",
                      NEW w \in Workers
               PROVE  backlog'[w] = Limit
    OBVIOUS
  <2>1. SubmitTry
    BY DEF Next, Owner, Worker, Gone, Submit, SubmitCount, WaitIdle, WaitIdleReturn,
           Destroy, RequestStop, JthreadStop, Join, WorkerCheck, WorkerPop, WorkerRun, WorkerCount,
           queueVars, ownerVars, vars
  <2>2. /\ o_i \in 0 .. Count - 1 /\ ~(o_i + 1 < Count)
        /\ \A k \in 0 .. o_i : backlog'[(o_start + k) % Count] = Limit
    BY <2>1, RefusalTries
  <2>3. 0 .. o_i = 0 .. Count - 1
    BY <2>2, CountAssumption
  <2>4. PICK k \in 0 .. Count - 1 : (o_start + k) % Count = w
    BY AroundCoversAll DEF Typed, TypeOK
  <2> QED BY <2>2, <2>3, <2>4, Zenon
<1>2. JobInv => Typed
  BY DEF JobInv, Typed
<1> QED BY <1>1, <1>2, JobsAreTracked, TriedInvariance, PTL DEF Spec, RefusedOnlyWhenAllFull

-----------------------------------------------------------------------------
(* wait_idle called by another thread *)

\* A job once accepted stays so (34).
LEMMA AcceptedGrows ==
  ASSUME [Next]_vars
  PROVE  accepted \subseteq accepted'
BY DEF Next, Owner, Worker, Gone, Submit, SubmitTry, TryPush, SubmitCount, WaitIdle,
       WaitIdleReturn, Destroy, RequestStop, JthreadStop, Join, WorkerCheck, WorkerPop, WorkerRun,
       WorkerCount, vars

\* What the watcher waits for was accepted.
OwedInv == v_owed \subseteq accepted

\* That stays so, and the system does what it does
\* whoever watches it.
LEMMA WatchedInvariance == WatchSpec => [](JobInv /\ OwedInv)
<1>1. WatchInit => Init /\ OwedInv
  BY DEF WatchInit, OwedInv
<1>2. [WatchNext]_allVars => [Next]_vars
  BY DEF WatchNext, SystemStep, WatchWaitIdle, WatchWaitIdleReturn, allVars
<1>3. OwedInv /\ [WatchNext]_allVars => OwedInv'
  <2> SUFFICES ASSUME v_owed \subseteq accepted, [WatchNext]_allVars
               PROVE  v_owed' \subseteq accepted'
    BY DEF OwedInv
  <2>1. accepted \subseteq accepted'
    BY <1>2, AcceptedGrows
  <2>2. v_owed' = v_owed \/ v_owed' = Submitted
    BY DEF WatchNext, SystemStep, WatchWaitIdle, WatchWaitIdleReturn, allVars, watchVars
  <2> QED BY <2>1, <2>2 DEF Submitted
<1> QED BY <1>1, <1>2, <1>3, JobsAreTracked, PTL DEF WatchSpec, Spec

\* "Block until all submitted jobs have completed", to a thread that does not
\* submit: the jobs whose submit had returned when it called wait_idle are done
\* when it returns, unless a submit is between its push and its count (43-46).
THEOREM WatchersWaitForTheirJobs == WatchSpec => WaitIdleCoversSubmittedBetweenSubmits
<1>1. JobInv /\ OwedInv /\ [WatchNext]_allVars =>
        [v_waiting /\ ~v_waiting' /\ o_pc # "count" => v_owed \subseteq done]_allVars
  <2> SUFFICES ASSUME JobInv, OwedInv, WatchNext,
                      v_waiting, ~v_waiting', o_pc # "count"
               PROVE  v_owed \subseteq done
    OBVIOUS
  <2>1. m_pending_jobs = 0
    BY DEF WatchNext, SystemStep, WatchWaitIdle, WatchWaitIdleReturn, watchVars
  <2> QED BY <2>1, ZeroMeansDone DEF OwedInv
<1> QED BY <1>1, WatchedInvariance, PTL DEF WatchSpec, WaitIdleCoversSubmittedBetweenSubmits
=============================================================================
