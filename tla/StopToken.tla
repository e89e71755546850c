----------------------------- MODULE StopToken -----------------------------
(***************************************************************************)
(* sap::async::StopSource, StopToken and stop_callback_node                *)
(* (async/stop_token.h): the intrusive, doubly linked list of callback     *)
(* nodes, pointer by pointer.  Everything runs on one thread, but callbacks *)
(* are user code: while request_stop walks the list, a callback may destroy *)
(* nodes, its own among them, arm others, and request the stop again.      *)
(* Somebody holds a source or a token throughout, so the state lives on.   *)
(* A callback armed without a function counts as called when its turn comes. *)
(***************************************************************************)
EXTENDS Lists

CONSTANTS Nodes,    \* addresses of callback nodes
          Nil,      \* nullptr
          MaxArms   \* bound: calls of _arm in one behaviour

ASSUME NodesAssumption == IsFiniteSet(Nodes) /\ Nil \notin Nodes
ASSUME MaxArmsAssumption == MaxArms \in Nat

VARIABLES stopped, head,      \* stop_state
          next, prev, linked, \* the nodes; linked says whether state is set
          alive,              \* the nodes that exist
          walking,            \* whether request_stop is in its loop
          calls,              \* callbacks being called, innermost last
          n_arms, fired       \* history: armings so far; times each node's
                              \* callback was called since it was armed

vars == <<stopped, head, next, prev, linked, alive, walking, calls, n_arms, fired>>

Init ==
  /\ stopped = FALSE /\ head = Nil
  /\ next = [n \in Nodes |-> Nil]
  /\ prev = [n \in Nodes |-> Nil]
  /\ linked = [n \in Nodes |-> FALSE]
  /\ alive = {}
  /\ walking = FALSE /\ calls = <<>>
  /\ n_arms = 0 /\ fired = [n \in Nodes |-> 0]

\* link (37-44).
link(cb) ==
  /\ prev' = [n \in Nodes |-> IF n = cb THEN Nil ELSE IF n = head THEN cb ELSE prev[n]]
  /\ next' = [next EXCEPT ![cb] = head]
  /\ head' = cb
  /\ linked' = [linked EXCEPT ![cb] = TRUE]

\* unlink (46-55).
unlink_forward(cb) ==
  /\ head' = IF prev[cb] = Nil THEN next[cb] ELSE head
  /\ next' = [n \in Nodes |-> IF n = cb THEN Nil ELSE IF n = prev[cb] THEN next[cb] ELSE next[n]]
  /\ prev' = [prev EXCEPT ![cb] = Nil]
  /\ linked' = [linked EXCEPT ![cb] = FALSE]
unlink(cb) ==
  /\ head' = IF prev[cb] = Nil THEN next[cb] ELSE head
  /\ next' = [n \in Nodes |-> IF n = cb THEN Nil ELSE IF n = prev[cb] THEN next[cb] ELSE next[n]]
  /\ prev' = [n \in Nodes |-> IF n = cb THEN Nil ELSE IF n = next[cb] THEN prev[cb] ELSE prev[n]]
  /\ linked' = [linked EXCEPT ![cb] = FALSE]

\* A node is constructed.
Construct(n) ==
  /\ n \notin alive
  /\ n_arms < MaxArms
  /\ alive' = alive \cup {n}
  /\ next' = [next EXCEPT ![n] = Nil]
  /\ prev' = [prev EXCEPT ![n] = Nil]
  /\ linked' = [linked EXCEPT ![n] = FALSE]
  /\ UNCHANGED <<stopped, head, walking, calls, n_arms, fired>>

\* _arm on a token of the source (86-98).
_arm(cb) ==
  /\ cb \in alive /\ ~linked[cb] /\ n_arms < MaxArms
  /\ n_arms' = n_arms + 1
  /\ IF stopped
     THEN /\ calls' = Append(calls, cb)
          /\ fired' = [fired EXCEPT ![cb] = 1]
          /\ UNCHANGED <<head, next, prev, linked>>
     ELSE /\ link(cb)
          /\ fired' = [fired EXCEPT ![cb] = 0]
          /\ UNCHANGED calls
  /\ UNCHANGED <<stopped, alive, walking>>

\* ~stop_callback_node (71-74).
Destroy(cb) ==
  /\ cb \in alive
  /\ alive' = alive \ {cb}
  /\ IF linked[cb] THEN unlink(cb) ELSE UNCHANGED <<head, next, prev, linked>>
  /\ UNCHANGED <<stopped, walking, calls, n_arms, fired>>

\* request_stop (57-68), from outside or from a callback.  Only the first call
\* walks the list.
request_stop_again ==
  /\ stopped' = TRUE
  /\ walking' = TRUE
  /\ UNCHANGED <<head, next, prev, linked, alive, calls, n_arms, fired>>
request_stop ==
  /\ ~stopped
  /\ stopped' = TRUE
  /\ walking' = TRUE
  /\ UNCHANGED <<head, next, prev, linked, alive, calls, n_arms, fired>>

\* One round: unlink the head, then call it.
WalkStep ==
  /\ walking /\ calls = <<>> /\ head # Nil
  /\ unlink(head)
  /\ calls' = <<head>>
  /\ fired' = [fired EXCEPT ![head] = @ + 1]
  /\ UNCHANGED <<stopped, alive, walking, n_arms>>

WalkEnd ==
  /\ walking /\ calls = <<>> /\ head = Nil
  /\ walking' = FALSE
  /\ UNCHANGED <<stopped, head, next, prev, linked, alive, calls, n_arms, fired>>

CallbackReturns ==
  /\ calls # <<>>
  /\ calls' = SubSeq(calls, 1, Len(calls) - 1)
  /\ UNCHANGED <<stopped, head, next, prev, linked, alive, walking, n_arms, fired>>

\* User code runs outside request_stop and in callbacks.
UserRuns == walking => calls # <<>>

Next ==
  \/ UserRuns /\ \E n \in Nodes : Construct(n) \/ _arm(n) \/ Destroy(n)
  \/ UserRuns /\ request_stop
  \/ WalkStep
  \/ WalkEnd
  \/ CallbackReturns

Spec == Init /\ [][Next]_vars

\* Callbacks return and request_stop runs on.
StopFairness == WF_vars(WalkStep) /\ WF_vars(WalkEnd) /\ WF_vars(CallbackReturns)
-----------------------------------------------------------------------------
\* The pointers point to nodes or to nothing, and only nodes are called.
TypeOK ==
  /\ stopped \in BOOLEAN /\ walking \in BOOLEAN
  /\ head \in Nodes \cup {Nil}
  /\ next \in [Nodes -> Nodes \cup {Nil}]
  /\ prev \in [Nodes -> Nodes \cup {Nil}]
  /\ linked \in [Nodes -> BOOLEAN]
  /\ alive \subseteq Nodes
  /\ calls \in Seq(Nodes)

\* The nodes that are reached from h through the pointers nx, at most as many as
\* there are.
ChainFrom(h, nx) ==
  LET walk[k \in 0 .. Cardinality(Nodes)] ==
        IF k = 0 THEN <<>>
        ELSE LET w == walk[k - 1]
                 n == IF w = <<>> THEN h ELSE nx[w[Len(w)]]
             IN  IF n = Nil THEN w ELSE Append(w, n)
  IN  walk[Cardinality(Nodes)]
Chain == ChainFrom(head, next)

\* The pointers form a list: the nodes reached from the head are alive, no node
\* is reached twice, prev undoes next, and they are the nodes that think they
\* are linked (37-55, 71-74).  "Each callback fires exactly once" (async/README.md
\* 409): never twice, and once request_stop has returned no armed callback is
\* left without having fired (57-68, 86-98).
ListIsSound ==
  /\ TypeOK
  /\ OnceEach(Chain) /\ ToSet(Chain) = {n \in Nodes : linked[n]}
  /\ \A n \in Nodes : linked[n] => n \in alive
  /\ \A i \in DOMAIN Chain :
       prev[Chain[i]] = IF i = 1 THEN Nil ELSE Chain[i - 1]
  /\ \A n \in Nodes : fired[n] <= 1
  /\ stopped /\ ~walking => \A n \in Nodes : ~linked[n]
  /\ \A n \in Nodes : linked[n] => fired[n] = 0

List == INSTANCE CallbackList WITH
  armed <- Chain, delivering <- walking

\* The pointers implement the list, whatever callbacks do in between (33-98).
ImplementsList == List!Spec
=============================================================================
