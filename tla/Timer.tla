------------------------------- MODULE Timer -------------------------------
(***************************************************************************)
(* sap::core::Timer (src/timer.cpp): the owner's thread calls start, stop, *)
(* reset and the destructor; each start runs run_loop on a new thread with *)
(* a copy of the mode, the delay and the callback.  Time is left out: a    *)
(* wait may run out at any moment.  The callback does not call the timer.  *)
(***************************************************************************)
EXTENDS Integers

CONSTANTS Delays,
          MaxStarts,   \* bound: threads started in one behaviour
          MaxFires     \* bound: callbacks counted per thread

ASSUME TimerAssumption ==
  Delays # {} /\ MaxStarts \in Nat /\ MaxFires \in Nat \ {0, 1}

VARIABLES joinable,   \* m_thread.joinable()
          m_mode, m_delay_ns,
          o_pc,       \* the owner: idle, in join for stop, reset or the
                      \* destructor, or gone
          o_delay,    \* reset's argument
          t_pc,       \* the timer thread in run_loop
          t_delay,    \* its copy of the delay
          t_stop,     \* its stop token
          fires,      \* history: callbacks this thread has begun
          starts      \* history: threads started

ownerVars == <<m_mode, joinable, m_delay_ns, o_pc, o_delay, starts>>
threadVars == <<t_pc, t_delay, t_stop, fires>>
timerVars == <<ownerVars, threadVars>>

TimerInit ==
  /\ m_mode \in {"OneShot", "Periodic"}
  /\ joinable = FALSE /\ m_delay_ns \in Delays
  /\ o_pc = "idle" /\ o_delay = m_delay_ns
  /\ t_pc = "none" /\ t_delay = m_delay_ns /\ t_stop = FALSE
  /\ fires = 0 /\ starts = 0

\* The thread start() makes (33-35).
Launch(delay) ==
  /\ joinable' = TRUE
  /\ t_pc' = "wait" /\ t_delay' = delay /\ t_stop' = FALSE
  /\ fires' = 0 /\ starts' = starts + 1

\* start (29-37); a joinable thread, finished or not, is an error.
Start ==
  /\ o_pc = "idle" /\ starts < MaxStarts
  /\ ~joinable
  /\ Launch(m_delay_ns)
  /\ UNCHANGED <<m_mode, m_delay_ns, o_pc, o_delay>>

\* stop, reset and the destructor begin with request_stop (25-27, 39-41, 47-48).
StopCall(why, delay) ==
  /\ o_pc = "idle"
  /\ why = "reset" => starts < MaxStarts
  /\ o_pc' = why /\ o_delay' = delay
  /\ t_stop' = (t_stop \/ joinable)
  /\ UNCHANGED <<m_mode, joinable, m_delay_ns, starts, t_pc, t_delay, fires>>

\* join returns when the thread has ended; then stop returns (42-44), the
\* destructor ends, or reset stores the delay and starts again (49-50).
ThreadEndedAlready == TRUE
ThreadEnded == joinable => t_pc = "done"
Joined ==
  /\ o_pc \in {"stop", "reset", "destroy"} /\ ThreadEnded
  /\ IF o_pc = "reset"
     THEN m_delay_ns' = o_delay /\ Launch(o_delay)
     ELSE joinable' = FALSE /\ UNCHANGED <<m_delay_ns, starts, threadVars>>
  /\ o_pc' = IF o_pc = "destroy" THEN "gone" ELSE "idle"
  /\ UNCHANGED <<m_mode, o_delay>>

\* wait_for ends because of the stop token, or runs out and finds it set (14-15).
WaitStopped ==
  /\ t_pc = "wait" /\ t_stop
  /\ t_pc' = "done"
  /\ UNCHANGED <<ownerVars, t_delay, t_stop, fires>>

\* wait_for runs out and the callback begins (14, 16).
Expires ==
  /\ t_pc = "wait" /\ ~t_stop
  /\ t_pc' = "callback"
  /\ fires' = IF fires < MaxFires THEN fires + 1 ELSE fires
  /\ UNCHANGED <<ownerVars, t_delay, t_stop>>

\* The callback returns (16-17).
AfterCallbackOnce == "done"
AfterCallback == IF m_mode = "Periodic" THEN "wait" ELSE "done"
CallbackEnds ==
  /\ t_pc = "callback"
  /\ t_pc' = AfterCallback
  /\ UNCHANGED <<ownerVars, t_delay, t_stop, fires>>

TimerNext ==
  \/ Start
  \/ \E why \in {"stop", "destroy"} : StopCall(why, m_delay_ns)
  \/ \E d \in Delays : StopCall("reset", d)
  \/ Joined \/ WaitStopped \/ Expires \/ CallbackEnds

TimerSpec == TimerInit /\ [][TimerNext]_timerVars

\* Threads run, waits run out and callbacks return; the owner need do nothing.
TimerFairness ==
  /\ WF_timerVars(Joined) /\ WF_timerVars(WaitStopped) /\ WF_timerVars(Expires) /\ WF_timerVars(CallbackEnds)
-----------------------------------------------------------------------------
\* The shape of the state; there is a thread once one was started.
TimerTypeOK ==
  /\ m_mode \in {"OneShot", "Periodic"}
  /\ joinable \in BOOLEAN /\ m_delay_ns \in Delays /\ o_delay \in Delays
  /\ o_pc \in {"idle", "stop", "reset", "destroy", "gone"}
  /\ t_pc \in {"none", "wait", "callback", "done"}
  /\ t_delay \in Delays /\ t_stop \in BOOLEAN
  /\ fires \in 0 .. MaxFires /\ starts \in 0 .. MaxStarts
  /\ starts > 0 => t_pc # "none"
  /\ o_pc = "reset" => starts < MaxStarts

\* A thread that waits or calls back is one the timer knows of, with the delay
\* set last.  Hence none is left once stop or the destructor has returned, even
\* when the stop raced the end of a wait, nor one with an old delay after a reset
\* (14-16, 33, 39-51).  The thread of a one-shot timer calls back once (17).
NoStrayThread ==
  /\ TimerTypeOK
  /\ t_pc \in {"wait", "callback"} => joinable /\ t_delay = m_delay_ns
  /\ m_mode = "OneShot" => fires <= IF t_pc \in {"callback", "done"} THEN 1 ELSE 0

\* stop, reset and the destructor come back whatever the thread was doing (14-15,
\* 39-43), and a thread that is not stopped calls back, that of a periodic timer
\* again and again (13-17).
TimerAnswers ==
  /\ o_pc \in {"stop", "reset", "destroy"} ~> o_pc \in {"idle", "gone"}
  /\ t_pc = "wait" ~> (t_pc = "callback" \/ t_stop)
  /\ (m_mode = "Periodic" /\ t_pc = "callback") ~> (t_pc = "wait" \/ t_stop)
=============================================================================
