---------------------------- MODULE EpollReactor ----------------------------
(***************************************************************************)
(* The Linux reactor with its callers: one thread registers descriptors    *)
(* and blocks in wait, any thread calls wake.  epoll_wait blocks, so a call *)
(* of wait is two steps and everything else may happen between them.       *)
(***************************************************************************)
EXTENDS Epoll

CONSTANTS Tokens,
          Interests,            \* the interest sets the caller asks for
          MAX_EVENTS_PER_WAIT,
          OutSizes,             \* the sizes of the spans the caller passes
          Worlds                \* the combinations of conditions that occur

ASSUME EpollAssumption ==
  /\ IsFiniteSet(Handles) /\ MAX_EVENTS_PER_WAIT \in Nat /\ OutSizes \subseteq Nat
  /\ Worlds \subseteq SUBSET Conditions

VARIABLES u_pc,       \* where the calling thread is
          u_timed,    \* whether the timeout of its wait is not negative
          max_n,      \* room for events
          triggers,   \* what wait wrote to out
          u_return,   \* what made the last wait return
          asked,      \* history: interest and token of the last call that succeeded
          wake_owed   \* history: whether wake was called since a wait last
                      \* returned events and left room in its span

callerVars == <<u_pc, u_timed, max_n, triggers, u_return>>
vars == <<reactorVars, callerVars, asked, wake_owed>>

Init ==
  /\ ReactorInit
  /\ u_pc = "idle"
  /\ u_timed = FALSE
  /\ max_n = 0
  /\ triggers = <<>>
  /\ u_return = "none"
  /\ asked = <<>>
  /\ wake_owed = FALSE

Ask(h, e, token) ==
  asked' = [x \in DOMAIN asked \cup {h} |->
              IF x = h THEN [events |-> e, token |-> token] ELSE asked[x]]

Add(h, e, token) ==
  /\ u_pc = "idle"
  /\ add(h, e, token)
  /\ Ask(h, e, token)
  /\ UNCHANGED <<callerVars, wake_owed>>

Modify(h, e, token) ==
  /\ u_pc = "idle"
  /\ modify(h, e, token)
  /\ Ask(h, e, token)
  /\ UNCHANGED <<callerVars, wake_owed>>

Remove(h) ==
  /\ u_pc = "idle"
  /\ h \in Registered
  /\ remove({h})
  /\ asked' = [x \in DOMAIN asked \ {h} |-> asked[x]]
  /\ UNCHANGED <<callerVars, wake_owed>>

\* wait is called with a span of n triggers; an empty one returns at once.
WaitCall(n, timed) ==
  /\ u_pc = "idle"
  /\ u_timed' = timed
  /\ triggers' = <<>>
  /\ IF n = 0
     THEN u_return' = "empty span" /\ UNCHANGED <<u_pc, max_n>>
     ELSE /\ max_n' = IF n < MAX_EVENTS_PER_WAIT THEN n ELSE MAX_EVENTS_PER_WAIT
          /\ u_pc' = "waiting"
          /\ u_return' = "none"
  /\ UNCHANGED <<reactorVars, asked, wake_owed>>

WaitEvents(got) ==
  /\ u_pc = "waiting"
  /\ got \in Batches(max_n)
  /\ triggers' \in TriggerSeqs(got)
  /\ drain(got)
  /\ u_pc' = "idle"
  /\ u_return' = "events"
  /\ wake_owed' = (wake_owed /\ Len(triggers') = max_n)
  /\ UNCHANGED <<u_timed, max_n, asked>>

\* The timeout runs out, or a signal interrupts epoll_wait (134-137).
WaitTimeout ==
  /\ u_pc = "waiting"
  /\ u_timed
  /\ ReadyFds = {}
  /\ u_pc' = "idle"
  /\ u_return' = "timeout"
  /\ UNCHANGED <<reactorVars, u_timed, max_n, triggers, asked, wake_owed>>

WaitInterrupted ==
  /\ u_pc = "waiting"
  /\ u_pc' = "idle"
  /\ u_return' = "interrupted"
  /\ UNCHANGED <<reactorVars, u_timed, max_n, triggers, asked, wake_owed>>

Wake ==
  /\ wake
  /\ wake_owed' = TRUE
  /\ UNCHANGED <<callerVars, asked>>

World(h, ev) ==
  /\ ConditionChanges(h, ev)
  /\ UNCHANGED <<callerVars, asked, wake_owed>>

Next ==
  \/ \E h \in Handles, e \in Interests, t \in Tokens : Add(h, e, t) \/ Modify(h, e, t)
  \/ \E h \in Handles : Remove(h)
  \/ \E n \in OutSizes, timed \in BOOLEAN : WaitCall(n, timed)
  \/ \E got \in Batches(max_n) : WaitEvents(got)
  \/ WaitTimeout
  \/ WaitInterrupted
  \/ Wake
  \/ \E h \in Handles, ev \in Worlds : World(h, ev)

Spec == Init /\ [][Next]_vars

\* A wait that has something to report returns; signals need never come.
FairSpec == Spec /\ WF_vars(\E got \in Batches(max_n) : WaitEvents(got))
-----------------------------------------------------------------------------
\* The shape of the state.
TypeOK ==
  /\ interest \in UNION {[H -> [token : Tokens, mask : SUBSET Conditions]] : H \in SUBSET Handles}
  /\ condition \in [Handles -> SUBSET Conditions]
  /\ woken \in BOOLEAN
  /\ u_pc \in {"idle", "waiting"}
  /\ max_n \in 0 .. MAX_EVENTS_PER_WAIT

\* The condition an event stands for.
ConditionOf ==
  [e \in Event |-> IF e = "Readable" THEN "EPOLLIN" ELSE IF e = "Writable" THEN "EPOLLOUT"
                   ELSE IF e = "Error" THEN "EPOLLERR" ELSE "EPOLLHUP"]

\* What a wait writes when it returns: at most as many triggers as the span has
\* room for, about different descriptors; each carries the token its descriptor
\* was last added or modified with and reports conditions that hold, and only
\* what was asked for then, an error or a hang-up (100-116, 141-153).
TriggersAreWanted ==
  [][u_pc = "waiting" /\ u_pc' = "idle" =>
       \E f \in [1 .. Len(triggers') -> DOMAIN asked] :
         /\ OnceEach(f) /\ Len(triggers') <= max_n
         /\ \A i \in 1 .. Len(triggers') :
              LET t == triggers'[i] IN
              /\ t.user_token = asked[f[i]].token
              /\ t.events # {}
              /\ t.events \subseteq asked[f[i]].events \cup {"Error", "HangUp"}
              /\ \A e \in t.events : ConditionOf[e] \in condition[f[i]]]_vars

\* What a caller can tell of the eventfd from the triggers it gets: a wait that
\* fills its span has taken no wake, and one that leaves room has taken every
\* wake before it.  So a wake is not lost when it comes before the wait or when
\* other events fill the span, and it ends one wait only: the caller does not
\* spin on an eventfd nobody read (127-149, 157-162).
WakeIsExact == TypeOK /\ (woken <=> wake_owed)

\* wake makes a blocked wait return (reactor.h, 51).
WakeEndsWait == (u_pc = "waiting" /\ wake_owed) ~> u_pc = "idle"
=============================================================================
