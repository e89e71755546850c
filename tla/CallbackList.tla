---------------------------- MODULE CallbackList ----------------------------
(***************************************************************************)
(* What a stop source promises the callbacks armed on its tokens           *)
(* (async/stop_token.h): a list, most recent first, from which a callback  *)
(* may be withdrawn at any time.  The request takes them off one by one and *)
(* calls each; one armed later is called at once.  This is the list the    *)
(* Executor module works with.                                             *)
(***************************************************************************)
EXTENDS Integers, Sequences

CONSTANT Nodes

VARIABLES stopped,
          armed,     \* the callbacks that wait for the request, most recent first
          delivering,  \* whether the request is still calling callbacks
          calls      \* the callbacks being called, innermost last

vars == <<stopped, armed, delivering, calls>>

Init == stopped = FALSE /\ armed = <<>> /\ delivering = FALSE /\ calls = <<>>

IsArmed(n) == \E i \in DOMAIN armed : armed[i] = n

Arm(n) ==
  /\ ~IsArmed(n)
  /\ IF stopped
     THEN calls' = Append(calls, n) /\ UNCHANGED armed
     ELSE armed' = <<n>> \o armed /\ UNCHANGED calls
  /\ UNCHANGED <<stopped, delivering>>

Withdraw(n) ==
  /\ \E i \in DOMAIN armed :
       /\ armed[i] = n
       /\ armed' = [k \in 1 .. Len(armed) - 1 |-> IF k < i THEN armed[k] ELSE armed[k + 1]]
  /\ UNCHANGED <<stopped, delivering, calls>>

Request ==
  /\ ~stopped
  /\ stopped' = TRUE
  /\ delivering' = TRUE
  /\ UNCHANGED <<armed, calls>>

Deliver ==
  /\ delivering /\ calls = <<>> /\ armed # <<>>
  /\ calls' = <<Head(armed)>>
  /\ armed' = Tail(armed)
  /\ UNCHANGED <<stopped, delivering>>

CallReturns ==
  /\ calls # <<>>
  /\ calls' = SubSeq(calls, 1, Len(calls) - 1)
  /\ UNCHANGED <<stopped, armed, delivering>>

RequestReturns ==
  /\ delivering /\ calls = <<>> /\ armed = <<>>
  /\ delivering' = FALSE
  /\ UNCHANGED <<stopped, armed, calls>>

Next ==
  \/ \E n \in Nodes : Arm(n) \/ Withdraw(n)
  \/ Request \/ Deliver \/ CallReturns \/ RequestReturns

Spec == Init /\ [][Next]_vars
=============================================================================
