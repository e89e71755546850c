---------------------------- MODULE SleepWindows ----------------------------
(***************************************************************************)
(* sleep_for on Windows (src/async/sleep_windows.cpp): coroutines that     *)
(* each wait on a UDP socket connected to itself, to which the callback of *)
(* a thread-pool timer sends a byte.  The coroutines run on the executor's *)
(* thread, one at a time; callbacks run on threads of the pool.  Closing a *)
(* socket frees its number for the next one.  The executor and the reactor *)
(* appear by what they do for one awaiter (async/executor.h 118-165): a    *)
(* coroutine whose socket is readable, or whose token is stopped, becomes  *)
(* ready.  When the loop is over, frames are destroyed where they stand.   *)
(* Time is left out: a timer that is set may expire at any moment.         *)
(***************************************************************************)
EXTENDS Integers

CONSTANTS Sleepers,   \* coroutines, each calling sleep_for again and again
          Sockets,    \* socket numbers
          None,
          MaxSleeps   \* bound: calls of sleep_for in one behaviour

ASSUME SleepAssumption == None \notin Sleepers \cup Sockets /\ MaxSleeps \in Nat

VARIABLES on,        \* the coroutine the executor's thread is in, or None
          over,      \* the executor's loop has ended for good
          pc,        \* where each coroutine is
          sock,      \* sg.s
          timer,     \* tg.t: none, set, queued, calling, off
          cb_s,      \* on_timer's local s
          inbox,     \* bytes each socket holds
          token_stopped, \* the token's state
          add_error, \* reactor.add failed
          result,    \* what the last call returned
          elapsed,   \* history: this call's timer has expired
          lost,      \* history: this call's send failed
          sleeps     \* history: calls so far

poolVars == <<timer, cb_s, inbox, elapsed, lost>>
callVars == <<sock, token_stopped, add_error, result>>
sleepVars == <<on, over, pc, poolVars, callVars, sleeps>>

SleepInit ==
  /\ on = None /\ over = FALSE
  /\ pc = [s \in Sleepers |-> "idle"]
  /\ sock = [s \in Sleepers |-> None]
  /\ timer = [s \in Sleepers |-> "none"]
  /\ cb_s = [s \in Sleepers |-> None]
  /\ inbox = [k \in Sockets |-> 0]
  /\ token_stopped = [s \in Sleepers |-> FALSE]
  /\ add_error = [s \in Sleepers |-> FALSE]
  /\ result = [s \in Sleepers |-> "none"]
  /\ elapsed = [s \in Sleepers |-> FALSE]
  /\ lost = [s \in Sleepers |-> FALSE]
  /\ sleeps = 0

Open == {sock[s] : s \in Sleepers} \ {None}

\* Up to SetThreadpoolTimer (88-104), with a token that may be stopped already.
Begin(s, k, stop) ==
  /\ on = None /\ ~over /\ pc[s] = "idle" /\ sleeps < MaxSleeps
  /\ k \in Sockets \ Open
  /\ on' = s /\ sleeps' = sleeps + 1
  /\ pc' = [pc EXCEPT ![s] = "armed"]
  /\ sock' = [sock EXCEPT ![s] = k]
  /\ inbox' = [inbox EXCEPT ![k] = 0]
  /\ timer' = [timer EXCEPT ![s] = "set"]
  /\ token_stopped' = [token_stopped EXCEPT ![s] = stop]
  /\ add_error' = [add_error EXCEPT ![s] = FALSE]
  /\ result' = [result EXCEPT ![s] = "none"]
  /\ elapsed' = [elapsed EXCEPT ![s] = FALSE]
  /\ lost' = [lost EXCEPT ![s] = FALSE]
  /\ UNCHANGED <<over, cb_s>>

\* A step of make_self_socket or CreateThreadpoolTimer fails, and the guards
\* release what was made (62-83, 88-95).
BeginFails(s) ==
  /\ on = None /\ ~over /\ pc[s] = "idle" /\ sleeps < MaxSleeps
  /\ sleeps' = sleeps + 1
  /\ result' = [result EXCEPT ![s] = "error"]
  /\ UNCHANGED <<on, over, pc, poolVars, sock, token_stopped, add_error>>

\* co_await awaiter (106-107): a stopped token does not suspend; a failed add
\* makes the coroutine ready at once.
Await(s, fails) ==
  /\ on = s /\ pc[s] = "armed"
  /\ fails => ~token_stopped[s]
  /\ on' = IF token_stopped[s] THEN s ELSE None
  /\ pc' = [pc EXCEPT ![s] = IF token_stopped[s] THEN "unwind" ELSE IF fails THEN "ready" ELSE "parked"]
  /\ add_error' = [add_error EXCEPT ![s] = fails]
  /\ result' = [result EXCEPT ![s] = IF token_stopped[s] THEN "cancelled" ELSE @]
  /\ UNCHANGED <<over, poolVars, sock, token_stopped, sleeps>>

\* The reactor reports the socket readable (executor.cpp 53-67).
Trigger(s) ==
  /\ on = None /\ ~over /\ pc[s] = "parked" /\ inbox[sock[s]] > 0
  /\ pc' = [pc EXCEPT ![s] = "ready"]
  /\ UNCHANGED <<on, over, poolVars, callVars, sleeps>>

\* The token is stopped, and on_cancel makes a parked coroutine ready
\* (executor.h 150-165).
on_cancel_forgets(s) == pc
on_cancel(s) == IF pc[s] = "parked" THEN [pc EXCEPT ![s] = "ready"] ELSE pc
RequestStop(s) ==
  /\ on = None /\ ~over /\ pc[s] \in {"parked", "ready"} /\ ~token_stopped[s]
  /\ token_stopped' = [token_stopped EXCEPT ![s] = TRUE]
  /\ pc' = on_cancel(s)
  /\ UNCHANGED <<on, over, poolVars, sock, add_error, result, sleeps>>

\* The coroutine goes on (107-108, executor.h 135-147); after a success it
\* reads the socket.
Resume(s) ==
  /\ on = None /\ ~over /\ pc[s] = "ready"
  /\ on' = s
  /\ LET r == IF add_error[s] THEN "error" ELSE IF token_stopped[s] THEN "cancelled" ELSE "ok" IN
     /\ result' = [result EXCEPT ![s] = r]
     /\ pc' = [pc EXCEPT ![s] = IF r = "ok" THEN "recv" ELSE "unwind"]
  /\ UNCHANGED <<over, poolVars, sock, token_stopped, add_error, sleeps>>

\* recv blocks the executor's thread until there is a byte (110-112).
Recv(s) ==
  /\ on = s /\ pc[s] = "recv" /\ inbox[sock[s]] > 0
  /\ inbox' = [inbox EXCEPT ![sock[s]] = @ - 1]
  /\ pc' = [pc EXCEPT ![s] = "unwind"]
  /\ UNCHANGED <<on, over, timer, cb_s, elapsed, lost, callVars, sleeps>>

\* The loop ends; a coroutine it has not finished is destroyed.
LoopEnds ==
  /\ on = None /\ ~over
  /\ over' = TRUE
  /\ UNCHANGED <<on, pc, poolVars, callVars, sleeps>>
Drop(s) ==
  /\ on = None /\ over /\ pc[s] \in {"parked", "ready"}
  /\ on' = s
  /\ pc' = [pc EXCEPT ![s] = "unwind"]
  /\ UNCHANGED <<over, poolVars, callVars, sleeps>>

\* ~timer_guard's SetThreadpoolTimer(t, nullptr, 0, 0) (47-49).
Disarm(s) ==
  /\ on = s /\ pc[s] = "unwind"
  /\ timer' = [timer EXCEPT ![s] = IF @ = "set" THEN "off" ELSE @]
  /\ pc' = [pc EXCEPT ![s] = "joining"]
  /\ UNCHANGED <<on, over, cb_s, inbox, elapsed, lost, callVars, sleeps>>

\* WaitForThreadpoolTimerCallbacks(t, TRUE) drops a callback that waits for a
\* thread and waits for one that runs (50); then the timer and the socket are
\* closed (51, 35-38) and the frame is gone.
NoCallbackUnwaited(s) == TRUE
NoCallback(s) == timer[s] # "calling"
Close(s) ==
  /\ on = s /\ pc[s] = "joining" /\ NoCallback(s)
  /\ on' = None
  /\ pc' = [pc EXCEPT ![s] = "idle"]
  /\ timer' = [timer EXCEPT ![s] = IF @ = "calling" THEN @ ELSE "none"]
  /\ sock' = [sock EXCEPT ![s] = None]
  /\ UNCHANGED <<over, cb_s, inbox, elapsed, lost, token_stopped, add_error, result, sleeps>>

\* The delay has passed: a callback waits for a thread of the pool.
Expire(s) ==
  /\ timer[s] = "set"
  /\ timer' = [timer EXCEPT ![s] = "queued"]
  /\ elapsed' = [elapsed EXCEPT ![s] = TRUE]
  /\ UNCHANGED <<on, over, pc, cb_s, inbox, lost, callVars, sleeps>>

\* on_timer reads the socket from the frame (57) and sends a byte; the send
\* may fail (58-59).
OnTimer(s) ==
  /\ timer[s] = "queued"
  /\ timer' = [timer EXCEPT ![s] = "calling"]
  /\ cb_s' = [cb_s EXCEPT ![s] = sock[s]]
  /\ UNCHANGED <<on, over, pc, inbox, elapsed, lost, callVars, sleeps>>
Send(s, fails) ==
  /\ timer[s] = "calling"
  /\ timer' = [timer EXCEPT ![s] = "off"]
  /\ LET sent == ~fails /\ cb_s[s] \in Open IN
     /\ inbox' = IF sent THEN [inbox EXCEPT ![cb_s[s]] = @ + 1] ELSE inbox
     /\ lost' = [lost EXCEPT ![s] = ~sent]
  /\ cb_s' = [cb_s EXCEPT ![s] = None]
  /\ UNCHANGED <<on, over, pc, elapsed, callVars, sleeps>>

ThreadStep(s) ==
  \/ \E fails \in BOOLEAN : Await(s, fails)
  \/ Trigger(s) \/ Resume(s) \/ Recv(s) \/ Drop(s) \/ Disarm(s) \/ Close(s)
PoolStep(s) == Expire(s) \/ OnTimer(s) \/ \E fails \in BOOLEAN : Send(s, fails)

SleepNext ==
  \/ \E s \in Sleepers :
       \/ \E k \in Sockets, stop \in BOOLEAN : Begin(s, k, stop)
       \/ BeginFails(s) \/ RequestStop(s) \/ ThreadStep(s) \/ PoolStep(s)
  \/ LoopEnds

SleepSpec == SleepInit /\ [][SleepNext]_sleepVars

\* The executor's thread and the pool's threads run, and timers expire.
SleepFairness ==
  \A s \in Sleepers :
    /\ WF_sleepVars(Resume(s)) /\ WF_sleepVars(Trigger(s)) /\ WF_sleepVars(PoolStep(s))
    /\ WF_sleepVars(\E fails \in BOOLEAN : Await(s, fails))
    /\ WF_sleepVars(Recv(s) \/ Disarm(s) \/ Close(s))
-----------------------------------------------------------------------------
\* The shape of the state: a frame exists with its socket and its timer, and
\* the executor's thread is in the one coroutine that is not suspended.
SleepTypeOK ==
  /\ on \in Sleepers \cup {None} /\ over \in BOOLEAN /\ sleeps \in 0 .. MaxSleeps
  /\ pc \in [Sleepers -> {"idle", "armed", "parked", "ready", "recv", "unwind", "joining"}]
  /\ sock \in [Sleepers -> Sockets \cup {None}] /\ cb_s \in [Sleepers -> Sockets \cup {None}]
  /\ timer \in [Sleepers -> {"none", "set", "queued", "calling", "off"}]
  /\ inbox \in [Sockets -> Nat]
  /\ token_stopped \in [Sleepers -> BOOLEAN] /\ add_error \in [Sleepers -> BOOLEAN]
  /\ elapsed \in [Sleepers -> BOOLEAN] /\ lost \in [Sleepers -> BOOLEAN]
  /\ result \in [Sleepers -> {"none", "ok", "cancelled", "error"}]
  /\ \A s \in Sleepers :
       /\ pc[s] = "idle" <=> sock[s] = None
       /\ timer[s] = "none" <=> sock[s] = None
       /\ on = s <=> pc[s] \in {"armed", "recv", "unwind", "joining"}

\* A callback that runs has the socket its sleeper still holds, although frames
\* end by expiry, by cancellation and by destruction while it runs and socket
\* numbers are used again (35-60, 88-112).  So no byte reaches another sleeper: a
\* socket has at most the byte its own timer sent, it has it when its readiness
\* alone resumes the coroutine, whose recv then cannot block the executor, and a
\* sleep succeeds only after its own delay.
Sent(s) == timer[s] = "off" /\ elapsed[s] /\ ~lost[s]
WakesItsOwn ==
  /\ SleepTypeOK
  /\ \A s \in Sleepers : timer[s] = "calling" => cb_s[s] = sock[s] /\ elapsed[s]
  /\ \A s \in Sleepers : timer[s] = "queued" => elapsed[s]
  /\ \A s \in Sleepers : sock[s] # None =>
       /\ inbox[sock[s]] = 0 \/ (inbox[sock[s]] = 1 /\ Sent(s))
       /\ pc[s] = "ready" /\ ~add_error[s] /\ ~token_stopped[s] => inbox[sock[s]] = 1
       /\ pc[s] = "recv" => inbox[sock[s]] = 1
       /\ \A t \in Sleepers \ {s} : sock[t] # sock[s]
  /\ \A s \in Sleepers : result[s] = "ok" => elapsed[s]

\* While the loop runs a sleep ends: by its timer, also when that fires before the
\* coroutine is suspended, unless the wake byte is lost; by cancellation, also if
\* the byte was lost before it (59, 88-112).  Destroying a frame never hangs on its
\* timer (47-53).
SleepEnds ==
  \A s \in Sleepers :
    /\ pc[s] = "armed" ~> (pc[s] = "idle" \/ over \/ lost[s])
    /\ token_stopped[s] ~> (pc[s] = "idle" \/ over)
    /\ pc[s] = "unwind" ~> pc[s] = "idle"
=============================================================================
