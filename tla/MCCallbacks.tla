---------------------------- MODULE MCCallbacks ----------------------------
(* A Timer, coroutines in sleep_for on Windows, or a StopSource: three parts *)
(* that call back and share nothing.                                         *)
EXTENDS Timer, SleepWindows, StopToken

CONSTANTS s1, s2, k1, k2

VARIABLE uses

MCSleepers == {s1, s2}
MCSockets == {k1, k2}

MCInit ==
  /\ uses \in {"Timer", "sleep_for", "StopSource"} /\ TimerInit /\ SleepInit /\ Init
  /\ uses # "Timer" => m_mode = "OneShot" /\ \A d \in Delays : m_delay_ns <= d
MCNext ==
  \/ uses = "Timer" /\ TimerNext /\ UNCHANGED <<uses, sleepVars, vars>>
  \/ uses = "sleep_for" /\ SleepNext /\ UNCHANGED <<uses, timerVars, vars>>
  \/ uses = "StopSource" /\ Next /\ UNCHANGED <<uses, timerVars, sleepVars>>
MCSpec ==
  /\ MCInit /\ [][MCNext]_<<uses, timerVars, sleepVars, vars>>
  /\ TimerFairness /\ SleepFairness /\ StopFairness
=============================================================================
