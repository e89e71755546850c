-------------------------- MODULE JobSystemWatched --------------------------
(***************************************************************************)
(* job_system::wait_idle called by a thread other than the one that        *)
(* submits.  Nothing in job_system.h restricts who may call it.            *)
(***************************************************************************)
EXTENDS JobSystem

VARIABLES v_waiting,  \* whether the watcher is inside wait_idle
          v_owed      \* jobs whose submit had returned when it called wait_idle

watchVars == <<v_waiting, v_owed>>
allVars == <<vars, watchVars>>

\* The jobs whose submit has returned true.
Submitted == IF o_pc = "count" THEN accepted \ {o_job} ELSE accepted

WatchInit ==
  /\ Init
  /\ v_waiting = FALSE
  /\ v_owed = {}

\* The system outlives the calls made on it.
SystemStep ==
  /\ Next
  /\ v_waiting => o_pc' # "stopping"
  /\ UNCHANGED watchVars

WatchWaitIdle ==
  /\ ~v_waiting
  /\ o_pc \notin {"stopping", "~jthread", "joining", "gone"}
  /\ v_waiting' = TRUE
  /\ v_owed' = Submitted
  /\ UNCHANGED vars

WatchWaitIdleReturnEarly ==
  /\ v_waiting
  /\ m_pending_jobs <= 1
  /\ v_waiting' = FALSE
  /\ UNCHANGED <<v_owed, vars>>
WatchWaitIdleReturn ==
  /\ v_waiting
  /\ m_pending_jobs = 0
  /\ v_waiting' = FALSE
  /\ UNCHANGED <<v_owed, vars>>

WatchNext ==
  \/ SystemStep
  \/ WatchWaitIdle
  \/ WatchWaitIdleReturn

WatchSpec == WatchInit /\ [][WatchNext]_allVars

\* The fairness of the system; nothing is asked of the watcher.
WatchFairSpec == WatchSpec /\ Fairness
-----------------------------------------------------------------------------
\* "Block until all submitted jobs have completed" (job_system.h, 27), for a
\* thread that does not submit: the jobs whose submit had returned when it
\* called wait_idle are done when it returns, unless at that moment another
\* submit is between its try_push and its fetch_add (34-35): then its worker
\* may already have counted the new job off in place of an owed one.
WaitIdleCoversSubmittedBetweenSubmits ==
  [][v_waiting /\ ~v_waiting' /\ o_pc # "count" => v_owed \subseteq done]_allVars
=============================================================================
