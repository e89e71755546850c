----------------------------- MODULE JobSystem -----------------------------
(***************************************************************************)
(* sap::job_system (job_system.h, src/job_system.cpp): worker threads, each *)
(* fed through its own spsc_queue.                                         *)
(*                                                                         *)
(* A queue has one producer, so one thread, the owner, calls submit; here  *)
(* it also calls wait_idle and destroys the system, as the tests do.  The  *)
(* queues are the channels of BoundedFifo, which SpscQueue implements: the *)
(* items, the producer's view of how many are left and the consumer's view *)
(* of how many are there.  A call of try_push or try_pop is one step, taken *)
(* when its index is published; the load it acted on may be older, and the *)
(* views say how old.  Jobs are numbered in the order they are submitted.  *)
(***************************************************************************)
EXTENDS Integers, Sequences, FiniteSets

CONSTANTS Count,     \* config.thread_count
          Limit,     \* items a queue can hold: queue_capacity - 1
          MaxJobs,   \* bound: calls of submit in one behaviour
          U32        \* number of values of a u32

ASSUME CountAssumption == Count \in Nat \ {0}
ASSUME LimitAssumption == Limit \in Nat
ASSUME MaxJobsAssumption == MaxJobs \in Nat
\* A u32 can count every job that can be queued or held by a worker at once.
ASSUME U32Assumption == U32 \in Nat /\ Count * (Limit + 1) < U32

VARIABLES m_queues,        \* per worker: the jobs queued, oldest first
          backlog,         \* per worker: the owner's view of the queue's length
          avail,           \* per worker: the worker's view of the queue's length
          m_next_queue,
          m_pending_jobs,
          stop,            \* per worker: its stop token
          o_pc,            \* where the owner is
          o_job,           \* number of the last job submitted
          o_start, o_i,    \* submit's start and i; the destructor's loop index
          w_pc,            \* where each worker is
          w_draining,      \* whether a worker has left its main loop (55)
          w_job,           \* the job a worker popped last
          accepted,        \* history: the jobs try_push took
          done             \* history: the jobs that ran to their end

queueVars == <<m_queues, backlog, avail>>
ownerVars == <<o_pc, o_job, o_start, o_i>>
workerVars == <<w_pc, w_draining, w_job>>
vars == <<queueVars, m_next_queue, m_pending_jobs, stop, ownerVars, workerVars,
          accepted, done>>

Workers == 0 .. Count - 1
Jobs == 1 .. MaxJobs

\* The constructor (7-19): empty queues, every worker at the top of its loop.
Init ==
  /\ m_queues = [w \in Workers |-> <<>>]
  /\ backlog = [w \in Workers |-> 0]
  /\ avail = [w \in Workers |-> 0]
  /\ m_next_queue = 0
  /\ m_pending_jobs = 0
  /\ stop = [w \in Workers |-> FALSE]
  /\ o_pc = "idle"
  /\ o_job = 0
  /\ o_start = 0
  /\ o_i = 0
  /\ w_pc = [w \in Workers |-> "check"]
  /\ w_draining = [w \in Workers |-> FALSE]
  /\ w_job = [w \in Workers |-> 0]
  /\ accepted = {}
  /\ done = {}
-----------------------------------------------------------------------------
(* The owner *)

\* submit is called: the fetch_add of m_next_queue picks the first queue.
Submit ==
  /\ o_pc = "idle"
  /\ o_job < MaxJobs
  /\ o_job' = o_job + 1
  /\ o_start' = m_next_queue % Count
  /\ m_next_queue' = (m_next_queue + 1) % U32
  /\ o_i' = 0
  /\ o_pc' = "try"
  /\ UNCHANGED <<queueVars, m_pending_jobs, stop, workerVars, accepted, done>>

\* try_push on queue w (34), having loaded a tail that leaves b items queued;
\* a refusal moves on to the next queue or, after the last, returns false.
TryPushShort(w, b) ==
  /\ IF b < Limit
     THEN /\ m_queues' = [m_queues EXCEPT ![w] = Append(@, o_job)]
          /\ backlog' = [backlog EXCEPT ![w] = b + 1]
          /\ accepted' = accepted \cup {o_job}
          /\ o_pc' = "count"
          /\ UNCHANGED o_i
     ELSE /\ backlog' = [backlog EXCEPT ![w] = b]
          /\ o_i' = o_i + 1
          /\ o_pc' = IF o_i + 2 < Count THEN "try" ELSE "idle"
          /\ UNCHANGED <<m_queues, accepted>>
  /\ UNCHANGED <<avail, m_next_queue, m_pending_jobs, stop, o_job, o_start,
                 workerVars, done>>
TryPush(w, b) ==
  /\ IF b < Limit
     THEN /\ m_queues' = [m_queues EXCEPT ![w] = Append(@, o_job)]
          /\ backlog' = [backlog EXCEPT ![w] = b + 1]
          /\ accepted' = accepted \cup {o_job}
          /\ o_pc' = "count"
          /\ UNCHANGED o_i
     ELSE /\ backlog' = [backlog EXCEPT ![w] = b]
          /\ o_i' = o_i + 1
          /\ o_pc' = IF o_i + 1 < Count THEN "try" ELSE "idle"
          /\ UNCHANGED <<m_queues, accepted>>
  /\ UNCHANGED <<avail, m_next_queue, m_pending_jobs, stop, o_job, o_start,
                 workerVars, done>>

\* One round of the loop (33-38), on the queues in turn.
SubmitTry ==
  /\ o_pc = "try"
  /\ LET w == (o_start + o_i) % Count IN
     \E b \in Len(m_queues[w]) .. backlog[w] : TryPush(w, b)

\* The fetch_add after the push (35); submit returns true.
SubmitCount ==
  /\ o_pc = "count"
  /\ m_pending_jobs' = (m_pending_jobs + 1) % U32
  /\ o_pc' = "idle"
  /\ UNCHANGED <<queueVars, m_next_queue, stop, o_job, o_start, o_i, workerVars,
                 accepted, done>>

WaitIdle ==
  /\ o_pc = "idle"
  /\ o_pc' = "wait"
  /\ UNCHANGED <<queueVars, m_next_queue, m_pending_jobs, stop, o_job, o_start,
                 o_i, workerVars, accepted, done>>

\* The load that ends wait_idle's spinning (44).
WaitIdleReturnEarly ==
  /\ o_pc = "wait"
  /\ m_pending_jobs <= 1
  /\ o_pc' = "idle"
  /\ UNCHANGED <<queueVars, m_next_queue, m_pending_jobs, stop, o_job, o_start,
                 o_i, workerVars, accepted, done>>
WaitIdleReturn ==
  /\ o_pc = "wait"
  /\ m_pending_jobs = 0
  /\ o_pc' = "idle"
  /\ UNCHANGED <<queueVars, m_next_queue, m_pending_jobs, stop, o_job, o_start,
                 o_i, workerVars, accepted, done>>

Destroy ==
  /\ o_pc = "idle"
  /\ o_pc' = "stopping"
  /\ o_i' = 0
  /\ UNCHANGED <<queueVars, m_next_queue, m_pending_jobs, stop, o_job, o_start,
                 workerVars, accepted, done>>

\* One round of the destructor's loop (22-23).
RequestStop ==
  /\ o_pc = "stopping"
  /\ stop' = [stop EXCEPT ![o_i] = TRUE]
  /\ o_i' = IF o_i + 1 < Count THEN o_i + 1 ELSE 0
  /\ o_pc' = IF o_i + 1 < Count THEN "stopping" ELSE "~jthread"
  /\ UNCHANGED <<queueVars, m_next_queue, m_pending_jobs, o_job, o_start,
                 workerVars, accepted, done>>

\* m_threads is destroyed before the queues (job_system.h, 39-43), thread by
\* thread: each ~jthread requests a stop itself and joins (24-25).
JthreadStop ==
  /\ o_pc = "~jthread"
  /\ stop' = [stop EXCEPT ![o_i] = TRUE]
  /\ o_pc' = "joining"
  /\ UNCHANGED <<queueVars, m_next_queue, m_pending_jobs, o_job, o_start, o_i,
                 workerVars, accepted, done>>
Join ==
  /\ o_pc = "joining"
  /\ w_pc[o_i] = "exited"
  /\ o_i' = o_i + 1
  /\ o_pc' = IF o_i + 1 < Count THEN "~jthread" ELSE "gone"
  /\ UNCHANGED <<queueVars, m_next_queue, m_pending_jobs, stop, o_job, o_start,
                 workerVars, accepted, done>>
-----------------------------------------------------------------------------
(* Worker w *)

\* The test of the main loop (55).  Seeing the stop request synchronises with
\* the owner's request_stop, so every earlier push is in view from here on.
WorkerCheckNoDrain(w) ==
  /\ w_pc[w] = "check"
  /\ w_pc' = [w_pc EXCEPT ![w] = IF stop[w] THEN "exited" ELSE "pop"]
  /\ UNCHANGED <<queueVars, m_next_queue, m_pending_jobs, stop, ownerVars,
                 w_draining, w_job, accepted, done>>
WorkerCheckNoToken(w) ==
  /\ w_pc[w] = "check"
  /\ w_pc' = [w_pc EXCEPT ![w] = "pop"]
  /\ UNCHANGED <<queueVars, m_next_queue, m_pending_jobs, stop, ownerVars,
                 w_draining, w_job, accepted, done>>
WorkerCheck(w) ==
  /\ w_pc[w] = "check"
  /\ w_draining' = [w_draining EXCEPT ![w] = stop[w]]
  /\ avail' = [avail EXCEPT ![w] = IF stop[w] THEN Len(m_queues[w]) ELSE @]
  /\ w_pc' = [w_pc EXCEPT ![w] = "pop"]
  /\ UNCHANGED <<m_queues, backlog, m_next_queue, m_pending_jobs, stop, ownerVars,
                 w_job, accepted, done>>

\* try_pop, in the main loop (58) or in the draining one (68), acting on a load
\* of the head that shows a of the queued items.
WorkerPop(w, a) ==
  /\ w_pc[w] = "pop"
  /\ a \in avail[w] .. Len(m_queues[w])
  /\ IF a > 0
     THEN /\ w_job' = [w_job EXCEPT ![w] = Head(m_queues[w])]
          /\ m_queues' = [m_queues EXCEPT ![w] = Tail(@)]
          /\ avail' = [avail EXCEPT ![w] = a - 1]
          /\ w_pc' = [w_pc EXCEPT ![w] = "run"]
     ELSE /\ w_pc' = [w_pc EXCEPT ![w] = IF w_draining[w] THEN "exited" ELSE "check"]
          /\ UNCHANGED <<m_queues, avail, w_job>>
  /\ UNCHANGED <<backlog, m_next_queue, m_pending_jobs, stop, ownerVars, w_draining,
                 accepted, done>>

\* job() returns (59, 69).
WorkerRun(w) ==
  /\ w_pc[w] = "run"
  /\ done' = done \cup {w_job[w]}
  /\ w_pc' = [w_pc EXCEPT ![w] = "count"]
  /\ UNCHANGED <<queueVars, m_next_queue, m_pending_jobs, stop, ownerVars,
                 w_draining, w_job, accepted>>

\* The fetch_sub (60, 70); it may come before submit's fetch_add and wrap.
WorkerCountMainLoopOnly(w) ==
  /\ w_pc[w] = "count"
  /\ m_pending_jobs' = IF w_draining[w] THEN m_pending_jobs
                       ELSE (m_pending_jobs - 1) % U32
  /\ w_pc' = [w_pc EXCEPT ![w] = IF w_draining[w] THEN "pop" ELSE "check"]
  /\ UNCHANGED <<queueVars, m_next_queue, stop, ownerVars, w_draining, w_job,
                 accepted, done>>
WorkerCount(w) ==
  /\ w_pc[w] = "count"
  /\ m_pending_jobs' = (m_pending_jobs - 1) % U32
  /\ w_pc' = [w_pc EXCEPT ![w] = IF w_draining[w] THEN "pop" ELSE "check"]
  /\ UNCHANGED <<queueVars, m_next_queue, stop, ownerVars, w_draining, w_job,
                 accepted, done>>
-----------------------------------------------------------------------------
Owner ==
  \/ Submit \/ SubmitTry \/ SubmitCount
  \/ WaitIdle \/ WaitIdleReturn
  \/ Destroy \/ RequestStop \/ JthreadStop \/ Join

Worker(w) ==
  \/ WorkerCheck(w)
  \/ \E a \in 0 .. Limit : WorkerPop(w, a)
  \/ WorkerRun(w)
  \/ WorkerCount(w)

\* The system is gone.
Gone == o_pc = "gone" /\ UNCHANGED vars

Next ==
  \/ Owner
  \/ \E w \in Workers : Worker(w)
  \/ Gone

Spec == Init /\ [][Next]_vars

\* Threads are scheduled, jobs return, and a push becomes visible to the worker
\* after finite time; nothing makes the owner call anything.
Fairness ==
  /\ WF_vars(SubmitTry)
  /\ WF_vars(SubmitCount)
  /\ WF_vars(WaitIdleReturn)
  /\ WF_vars(RequestStop)
  /\ WF_vars(JthreadStop)
  /\ WF_vars(Join)
  /\ \A w \in Workers :
       /\ WF_vars(WorkerCheck(w))
       /\ WF_vars(\E a \in 0 .. Limit : WorkerPop(w, a))
       /\ SF_vars(WorkerPop(w, Len(m_queues[w])))
       /\ WF_vars(WorkerRun(w))
       /\ WF_vars(WorkerCount(w))

FairSpec == Spec /\ Fairness
-----------------------------------------------------------------------------
TypeOK ==
  /\ m_queues \in [Workers -> Seq(Jobs)]
  /\ backlog \in [Workers -> 0 .. Limit]
  /\ avail \in [Workers -> 0 .. Limit]
  /\ m_next_queue \in 0 .. U32 - 1
  /\ m_pending_jobs \in 0 .. U32 - 1
  /\ stop \in [Workers -> BOOLEAN]
  /\ o_pc \in {"idle", "try", "count", "wait", "stopping", "~jthread", "joining", "gone"}
  /\ o_job \in 0 .. MaxJobs
  /\ o_start \in Workers
  /\ o_i \in 0 .. Count
  /\ w_pc \in [Workers -> {"check", "pop", "run", "count", "exited"}]
  /\ w_draining \in [Workers -> BOOLEAN]
  /\ w_job \in [Workers -> 0 .. MaxJobs]
  /\ accepted \subseteq Jobs
  /\ done \subseteq Jobs

\* The jobs worker w still has to run: those in its queue and the one it runs.
Queued(w) == {m_queues[w][k] : k \in DOMAIN m_queues[w]}
Running(w) == IF w_pc[w] = "run" THEN {w_job[w]} ELSE {}
Outstanding(w) == Queued(w) \cup Running(w)

\* An accepted job is either done or in the hands of exactly one worker, in
\* exactly one place, so it runs exactly once (34, 58-59, 68-69).
ExactlyOnce ==
  /\ done \subseteq accepted
  /\ \A j \in accepted \ done : \E w \in Workers : j \in Outstanding(w)
  /\ \A w \in Workers :
       /\ Outstanding(w) \subseteq accepted \ done
       /\ \A x \in Workers \ {w} : Outstanding(w) \cap Outstanding(x) = {}
       /\ Queued(w) \cap Running(w) = {}
       /\ \A k, l \in DOMAIN m_queues[w] : m_queues[w][k] = m_queues[w][l] => k = l

\* The accepted jobs whose worker has not subtracted them from m_pending_jobs.
Unsettled ==
  {j \in accepted : j \notin done \/ \E w \in Workers : w_pc[w] = "count" /\ w_job[w] = j}

\* m_pending_jobs is the number of jobs that are not settled, but for the one
\* submit has pushed and has yet to add (34-35), in u32 arithmetic: it is right
\* even while a worker that overtook submit has wrapped it (60, 70).
PendingCountsJobs ==
  m_pending_jobs =
    (Cardinality(Unsettled) - (IF o_pc = "count" THEN 1 ELSE 0)) % U32

\* When wait_idle returns to the thread that submits, every job it had accepted
\* has run to its end (43-46; job_system.h, 27).
WaitIdleMeansDone ==
  [][o_pc = "wait" /\ o_pc' = "idle" => accepted \subseteq done]_vars

\* A worker exits only when its queue is empty for good, so the destructor
\* loses no accepted job (66-71).
DrainLosesNothing ==
  /\ \A w \in Workers : w_pc[w] = "exited" => m_queues[w] = <<>>
  /\ o_pc = "gone" => accepted = done

\* A view is never better than the truth, and the loops stay inside the arrays.
ViewsInv ==
  /\ \A w \in Workers : avail[w] <= Len(m_queues[w]) /\ Len(m_queues[w]) <= backlog[w]
  /\ \A w \in Workers : w_pc[w] = "run" => w_job[w] # 0
  /\ o_pc = "try" => o_i < Count /\ o_job # 0
  /\ o_pc \in {"stopping", "~jthread", "joining"} => o_i < Count

\* Only the destructor requests a stop; a worker that saw the request sees all
\* of its queue, and one that exited has emptied it.
DrainInv ==
  \A w \in Workers :
    /\ stop[w] => o_pc \in {"stopping", "~jthread", "joining", "gone"}
    /\ w_draining[w] => stop[w] /\ avail[w] = Len(m_queues[w])
    /\ w_pc[w] = "exited" => w_draining[w] /\ m_queues[w] = <<>>

\* The threads whose jthread is destroyed have exited; at the end these are all.
JoinInv ==
  /\ o_pc \in {"~jthread", "joining", "gone"} => \A w \in Workers : w < o_i => w_pc[w] = "exited"
  /\ o_pc = "gone" => o_i = Count

\* The job being submitted is new, and no two workers hold the same job.
HandsInv ==
  /\ \A j \in accepted : j <= o_job
  /\ o_pc = "try" => o_job \notin accepted
  /\ o_pc = "count" => o_job \in accepted
  /\ \A w \in Workers : w_pc[w] = "count" => w_job[w] \in done
  /\ \A w, x \in Workers :
       w # x /\ w_pc[w] = "count" /\ w_pc[x] = "count" => w_job[w] # w_job[x]

\* The inductive invariant of the proofs: a job is in one place at a time, the
\* threads' views are safe, and the counter agrees with both (28-41, 52-72).
JobInv ==
  /\ TypeOK
  /\ ViewsInv
  /\ DrainInv
  /\ JoinInv
  /\ HandsInv
  /\ ExactlyOnce
  /\ PendingCountsJobs

\* submit returns false only after every queue looked full to it (32-40).
RefusedOnlyWhenAllFull ==
  [][o_pc = "try" /\ o_pc' = "idle" => \A w \in Workers : backlog'[w] = Limit]_vars

\* Every accepted job is run eventually, also when the system is destroyed.
EveryJobRuns == \A j \in Jobs : j \in accepted ~> j \in done

\* wait_idle and the destructor return once the jobs have run (21-26, 43-46).
CallsReturn ==
  /\ o_pc = "wait" ~> o_pc = "idle"
  /\ o_pc = "stopping" ~> o_pc = "gone"
=============================================================================
