---------------------------- MODULE IocpReactor ----------------------------
(***************************************************************************)
(* The Windows reactor (src/io/iocp_reactor.cpp): one context per socket,  *)
(* each with one OVERLAPPED that an AFD poll uses while it is in flight,   *)
(* and a completion port on which the kernel queues finished polls and     *)
(* wake() queues a sentinel.  One thread calls add, modify, remove, wait   *)
(* and the destructor; any thread calls wake(); the kernel finishes polls  *)
(* between any two steps of theirs.                                        *)
(*                                                                         *)
(* Each poll carries the number of the add() that submitted it, so that a  *)
(* late completion can be told from a current one; the code cannot see it. *)
(* Event and AFD masks are sets of their bits.                             *)
(***************************************************************************)
EXTENDS Lists

CONSTANTS Handles,
          WAKE_KEY,
          MAX_EVENTS_PER_WAIT,
          Interests,  \* masks asked for
          Fires,      \* masks of AFD flags a poll ends with
          MaxAdds,    \* bound: registrations in one behaviour
          MaxQueue    \* bound: wake() while the port holds fewer entries

ASSUME IocpAssumption ==
  /\ WAKE_KEY \notin Handles
  /\ MAX_EVENTS_PER_WAIT \in Nat \ {0} /\ MaxAdds \in Nat /\ MaxQueue \in Nat

VARIABLES cancel_io_file_ex,  \* whether ntdll has NtCancelIoFileEx (81-86)
          known,     \* m_contexts' keys
          active, pending, user_token, interest,   \* the contexts
          status,    \* overlapped.Internal: how the poll last written there ended;
                     \* none is the zero submit_poll leaves, which reads as ok
          out_buf,   \* the AFD flags of the last poll that ended well
          inflight,  \* polls the kernel works on
          cancelled, \* those whose cancellation was requested
          port,      \* completions queued, oldest first
          pc,        \* where the thread is
          target,    \* the socket add() is about
          triggers,  \* what the last wait() reported
          n_adds,    \* registrations so far: the next token
          timed_out, \* history: a drain gave up after its second
          wake_owed  \* history: a wake() came since a wait() last returned

ctxVars == <<known, active, pending, user_token, interest, status, out_buf>>
kernelVars == <<inflight, cancelled, port>>
iocpVars == <<cancel_io_file_ex, ctxVars, kernelVars, pc, target, triggers, n_adds, timed_out, wake_owed>>

NoHandle == WAKE_KEY
\* to_afd and from_afd (105-125).
to_afd(e) ==
  (IF "Readable" \in e THEN {"RECEIVE", "ACCEPT", "DISCONNECT", "ABORT"} ELSE {}) \cup
  (IF "Writable" \in e THEN {"SEND", "CONNECT_FAIL"} ELSE {})
from_afd(flags) ==
  (IF flags \cap {"RECEIVE", "ACCEPT"} # {} THEN {"Readable"} ELSE {}) \cup
  (IF "SEND" \in flags THEN {"Writable"} ELSE {}) \cup
  (IF flags \cap {"DISCONNECT", "LOCAL_CLOSE"} # {} THEN {"HangUp"} ELSE {}) \cup
  (IF flags \cap {"ABORT", "CONNECT_FAIL"} # {} THEN {"Error"} ELSE {})

WakeEntry == [key |-> WAKE_KEY, n |-> 0]
Entry(p) == [key |-> p.h, n |-> p.n]

\* A context before its first add (148-158).
AfdPollContext ==
  /\ active = [h \in Handles |-> FALSE]
  /\ pending = [h \in Handles |-> FALSE]
  /\ user_token = [h \in Handles |-> 0]
  /\ interest = [h \in Handles |-> {}]
  /\ status = [h \in Handles |-> "none"] /\ out_buf = [h \in Handles |-> {}]

IocpInit ==
  /\ cancel_io_file_ex \in BOOLEAN
  /\ known = {} /\ AfdPollContext
  /\ inflight = {} /\ cancelled = {} /\ port = <<>>
  /\ pc = "idle" /\ target = NoHandle
  /\ triggers = <<>> /\ n_adds = 0 /\ timed_out = FALSE /\ wake_owed = FALSE

\* submit_poll for the registration n (160-181): the OVERLAPPED is cleared
\* before the kernel may refuse.
submit_poll(h, n) ==
  /\ status' = [status EXCEPT ![h] = "none"]
  /\ inflight' = inflight \cup {[h |-> h, n |-> n, events |-> to_afd(interest'[h])]}
  /\ pending' = [pending EXCEPT ![h] = TRUE]
submit_fails(h) ==
  /\ status' = [status EXCEPT ![h] = "none"]
  /\ UNCHANGED <<inflight, pending>>

\* cancel_poll on every context of H (184-195).  Both calls find a request by the
\* address of the status block it was submitted with, &ctx.overlapped.Internal
\* (170); NtCancelIoFileEx is given a local block instead (188-191), so it finds
\* none.
cancel_poll(H) ==
  cancelled' = IF cancel_io_file_ex THEN cancelled
               ELSE cancelled \cup {p \in inflight : p.h \in H /\ pending[p.h]}

\* add(h) for a socket the map does not hold (302-321).
AddNew(h, e) ==
  /\ pc = "idle" /\ n_adds < MaxAdds /\ h \notin known
  /\ n_adds' = n_adds + 1
  /\ known' = known \cup {h}
  /\ user_token' = [user_token EXCEPT ![h] = n_adds']
  /\ interest' = [interest EXCEPT ![h] = e]
  /\ \/ submit_poll(h, n_adds') /\ active' = [active EXCEPT ![h] = TRUE]
     \/ submit_fails(h) /\ active' = [active EXCEPT ![h] = FALSE]
  /\ UNCHANGED <<cancel_io_file_ex, out_buf, cancelled, port, pc, target, triggers, timed_out, wake_owed>>

\* add(h) for a socket removed before (262-267); an active one is refused.
DrainsNever(h) == FALSE
Drains(h) == pending[h]
AddAgain(h) ==
  /\ pc = "idle" /\ n_adds < MaxAdds /\ h \in known /\ ~active[h]
  /\ pc' = IF Drains(h) THEN "drain" ELSE "submit"
  /\ target' = h
  /\ UNCHANGED <<cancel_io_file_ex, ctxVars, kernelVars, triggers, n_adds, timed_out, wake_owed>>

Prefix(k) == SubSeq(port, 1, k)
Rest(k) == SubSeq(port, k + 1, Len(port))
BatchSize(max) == IF Len(port) < max THEN Len(port) ELSE max

\* One round of add()'s drain (269-284): completions of other active sockets
\* go back to the end of the port, wake-ups do not.
RequeuedNone(h, e) == FALSE
RequeuedOwn(h, e) == e.key # WAKE_KEY /\ (e.key = h \/ active[e.key])
Requeued(h, e) == e.key # WAKE_KEY /\ e.key # h /\ active[e.key]
DrainRound ==
  /\ pc = "drain" /\ port # <<>>
  /\ LET k == BatchSize(MAX_EVENTS_PER_WAIT)
         back(e) == Requeued(target, e)
         done == {h \in Handles : \E i \in 1 .. k : port[i].key = h /\ ~back(port[i])}
     IN  /\ pending' = [h \in Handles |-> pending[h] /\ h \notin done]
         /\ port' = Rest(k) \o Without(Prefix(k), {e \in ToSet(port) : ~back(e)})
  /\ pc' = IF pending'[target] THEN "drain" ELSE "submit"
  /\ UNCHANGED <<cancel_io_file_ex, known, active, user_token, interest, status, out_buf, inflight, cancelled, target,
                 triggers, n_adds, timed_out, wake_owed>>

\* A drain of add() or of the destructor waited a second for nothing (272, 233).
DrainTimesOut ==
  /\ pc \in {"drain", "teardown"} /\ port = <<>>
  /\ timed_out' = TRUE
  /\ pc' = IF pc = "drain" THEN "submit" ELSE "freed"
  /\ UNCHANGED <<cancel_io_file_ex, ctxVars, kernelVars, target, triggers, n_adds, wake_owed>>

\* The end of add() on a known socket (286-299), which looks at its interest
\* only here.
AddSubmit(e) ==
  /\ pc = "submit"
  /\ n_adds' = n_adds + 1
  /\ active' = [active EXCEPT ![target] = TRUE]
  /\ user_token' = [user_token EXCEPT ![target] = n_adds']
  /\ interest' = [interest EXCEPT ![target] = e]
  /\ submit_poll(target, n_adds') \/ submit_fails(target)
  /\ pc' = "idle" /\ target' = NoHandle
  /\ UNCHANGED <<cancel_io_file_ex, known, out_buf, cancelled, port, triggers, timed_out, wake_owed>>

\* add() fails before the context is touched (286-288, 292-294).
AddFails ==
  /\ pc = "submit"
  /\ pc' = "idle" /\ target' = NoHandle
  /\ UNCHANGED <<cancel_io_file_ex, ctxVars, kernelVars, triggers, n_adds, timed_out, wake_owed>>

\* remove(h) (330-338).
Remove(h) ==
  /\ pc = "idle" /\ h \in known
  /\ active' = [active EXCEPT ![h] = FALSE]
  /\ cancel_poll({h})
  /\ UNCHANGED <<cancel_io_file_ex, known, pending, user_token, interest, status, out_buf, inflight, port, pc, target,
                 triggers, n_adds, timed_out, wake_owed>>

\* modify(h) (324-328): remove, then add's first part.
Modify(h) ==
  /\ pc = "idle" /\ n_adds < MaxAdds /\ h \in known
  /\ active' = [active EXCEPT ![h] = FALSE]
  /\ cancel_poll({h})
  /\ pc' = IF Drains(h) THEN "drain" ELSE "submit"
  /\ target' = h
  /\ UNCHANGED <<cancel_io_file_ex, known, pending, user_token, interest, status, out_buf, inflight, port, triggers,
                 n_adds, timed_out, wake_owed>>

\* wait() is called (340-350) and blocks until the port holds something.
WaitCall ==
  /\ pc = "idle"
  /\ pc' = "wait" /\ triggers' = <<>>
  /\ UNCHANGED <<cancel_io_file_ex, ctxVars, kernelVars, target, n_adds, timed_out, wake_owed>>

\* Which of the first k completions wait() reports (359-371): the first of a
\* socket with a poll outstanding, unless it was removed or cancelled.
ReportedStale(i) == port[i].key # WAKE_KEY /\ status[port[i].key] # "cancelled"
Reported(i) ==
  LET h == port[i].key IN
  /\ h # WAKE_KEY /\ pending[h] /\ active[h]
  /\ \A j \in 1 .. i - 1 : port[j].key # h
  /\ status[h] # "cancelled"

\* wait() takes up to n entries off the port and turns them into triggers
\* (358-378).
WaitEvents(n) ==
  /\ pc = "wait" /\ port # <<>>
  /\ LET k == BatchSize(n)
         trigger(i) == LET h == port[i].key IN
           [token |-> user_token[h], n |-> port[i].n,
            events |-> IF status[h] \in {"none", "ok"} THEN from_afd(out_buf[h]) ELSE {"Error"}]
         listed == Without([i \in 1 .. k |-> i], {i \in 1 .. k : ~Reported(i)})
     IN  /\ triggers' = [j \in DOMAIN listed |-> trigger(listed[j])]
         /\ pending' = [h \in Handles |-> pending[h] /\ \A i \in 1 .. k : port[i].key # h]
         /\ port' = Rest(k)
  /\ pc' = "idle" /\ wake_owed' = FALSE
  /\ UNCHANGED <<cancel_io_file_ex, known, active, user_token, interest, status, out_buf, inflight, cancelled, target,
                 n_adds, timed_out>>

\* A wait with a timeout ends empty (351-354), or the port fails (355).
WaitTimeout ==
  /\ pc = "wait" /\ port = <<>>
  /\ pc' = "idle" /\ wake_owed' = FALSE
  /\ UNCHANGED <<cancel_io_file_ex, ctxVars, kernelVars, target, triggers, n_adds, timed_out>>

\* ~Reactor (217-220): every poll is cancelled, then the port drained.
DestroyReactor ==
  /\ pc = "idle"
  /\ active' = [h \in Handles |-> FALSE]
  /\ cancel_poll(Handles)
  /\ pc' = "teardown"
  /\ UNCHANGED <<cancel_io_file_ex, known, pending, user_token, interest, status, out_buf, inflight, port, target,
                 triggers, n_adds, timed_out, wake_owed>>

\* The destructor's drain (221-238).
TeardownRound ==
  /\ pc = "teardown" /\ port # <<>> /\ \E h \in known : pending[h]
  /\ LET k == BatchSize(MAX_EVENTS_PER_WAIT)
     IN  /\ pending' = [h \in Handles |-> pending[h] /\ \A i \in 1 .. k : port[i].key # h]
         /\ port' = Rest(k)
  /\ UNCHANGED <<cancel_io_file_ex, known, active, user_token, interest, status, out_buf, inflight, cancelled, pc, target,
                 triggers, n_adds, timed_out, wake_owed>>

\* The contexts are freed (240-244).
TeardownFree ==
  /\ pc = "teardown" /\ \A h \in known : ~pending[h]
  /\ pc' = "freed"
  /\ UNCHANGED <<cancel_io_file_ex, ctxVars, kernelVars, target, triggers, n_adds, timed_out, wake_owed>>

\* wake() from any thread (381-385).
Wake ==
  /\ pc # "freed" /\ Len(port) < MaxQueue
  /\ port' = Append(port, WakeEntry)
  /\ wake_owed' = TRUE
  /\ UNCHANGED <<cancel_io_file_ex, ctxVars, inflight, cancelled, pc, target, triggers, n_adds, timed_out>>

\* The kernel ends a poll: it writes the OVERLAPPED and, if all went well, the
\* flags, of those asked for, and queues the completion.
KernelCompletes(p, s, fired) ==
  /\ pc # "freed" /\ p \in inflight
  /\ s = "cancelled" => p \in cancelled
  /\ status' = [status EXCEPT ![p.h] = s]
  /\ out_buf' = IF s = "ok" THEN [out_buf EXCEPT ![p.h] = fired \cap p.events] ELSE out_buf
  /\ s = "ok" => fired \cap p.events # {}
  /\ inflight' = inflight \ {p}
  /\ cancelled' = cancelled \ {p}
  /\ port' = Append(port, Entry(p))
  /\ UNCHANGED <<cancel_io_file_ex, known, active, pending, user_token, interest, pc, target, triggers, n_adds,
                 timed_out, wake_owed>>

IocpNext ==
  \/ \E h \in Handles : AddAgain(h) \/ Remove(h) \/ Modify(h)
  \/ \E e \in Interests : AddSubmit(e) \/ \E h \in Handles : AddNew(h, e)
  \/ DrainRound \/ DrainTimesOut \/ AddFails
  \/ WaitCall
  \/ \E n \in 1 .. MAX_EVENTS_PER_WAIT : WaitEvents(n)
  \/ WaitTimeout
  \/ DestroyReactor \/ TeardownRound \/ TeardownFree
  \/ Wake
  \/ \E p \in inflight, s \in {"ok", "error", "cancelled"}, fired \in Fires :
       KernelCompletes(p, s, fired)

IocpSpec == IocpInit /\ [][IocpNext]_iocpVars

\* A wait with something on the port returns, a drain's second runs out, and
\* polls the kernel was told to cancel come back.
IocpFairSpec ==
  /\ IocpSpec
  /\ WF_iocpVars(\E n \in 1 .. MAX_EVENTS_PER_WAIT : WaitEvents(n))
  /\ WF_iocpVars(DrainRound) /\ WF_iocpVars(DrainTimesOut)
  /\ WF_iocpVars(TeardownRound) /\ WF_iocpVars(TeardownFree)
  /\ \A h \in Handles : WF_iocpVars(\E p \in cancelled :
       p.h = h /\ KernelCompletes(p, "cancelled", {}))
-----------------------------------------------------------------------------
\* The shape of the state; a known socket alone is active or has a poll.
IocpTypeOK ==
  /\ known \subseteq Handles
  /\ active \in [Handles -> BOOLEAN] /\ pending \in [Handles -> BOOLEAN]
  /\ user_token \in [Handles -> 0 .. MaxAdds]
  /\ status \in [Handles -> {"none", "ok", "error", "cancelled"}]
  /\ inflight \subseteq [h : Handles, n : 1 .. MaxAdds, events : {to_afd(e) : e \in Interests}]
  /\ cancelled \subseteq inflight
  /\ \A i \in DOMAIN port : port[i] = WakeEntry \/ port[i].key \in Handles
  /\ pc \in {"idle", "drain", "submit", "wait", "teardown", "freed"}
  /\ \A h \in Handles : active[h] \/ pending[h] => h \in known

\* The polls of a socket that the kernel holds or whose completion is queued.
Outstanding(h) ==
  Cardinality({p \in inflight : p.h = h}) + Cardinality({i \in DOMAIN port : port[i].key = h})

\* pending = poll in flight (147): it is set exactly while the kernel or the
\* port holds the one poll that uses the socket's OVERLAPPED, through removes
\* that race completions, drains and requeues, unless a drain gave up.  So the
\* destructor, which waits until none is set, frees the contexts only when the
\* kernel is finished with every OVERLAPPED (215-216).
PendingIsExact ==
  /\ IocpTypeOK
  /\ ~timed_out => \A h \in Handles : Outstanding(h) = IF pending[h] THEN 1 ELSE 0
  /\ pc = "freed" /\ ~timed_out => inflight = {}

\* A trigger is about a socket that is registered when wait() returns and
\* carries the token of the registration whose poll completed: a completion from
\* before a remove() or modify() is not reported, nor under the new token
\* (267-284, 363-371).  It has some event, and readable or writable only if that
\* registration asked for it, through both masks' conversions (105-125, 373-374).
TriggersAreCurrent ==
  [][pc = "wait" /\ ~timed_out => \A i \in DOMAIN triggers' :
       \E h \in Handles : /\ active[h] /\ triggers'[i].token = user_token[h]
                          /\ triggers'[i].n = user_token[h]
                          /\ triggers'[i].events \cap {"Readable", "Writable"} \subseteq interest[h]
                          /\ triggers'[i].events # {}]_iocpVars

\* The completion of a registered socket is not swallowed, by wait() or by the
\* drain another socket's add() runs: it is reported (274-283, 358-377).
NothingSwallowed ==
  [][\A h \in Handles : ~timed_out /\ pending[h] /\ active[h] /\ ~pending'[h] =>
       \E i \in DOMAIN triggers' : triggers'[i].token = user_token[h]]_iocpVars

\* Where cancel_poll reaches the poll (193), add()'s drain ends, although it keeps
\* requeuing the completions of other sockets (267-284).
DrainEnds == pc = "drain" /\ ~cancel_io_file_ex ~> pc # "drain"

\* "A prior remove() may have left a cancellation in flight; drain it (requeuing
\* other sockets' events) before reusing the OVERLAPPED." (267-268)
DrainAlwaysEnds == pc = "drain" ~> pc # "drain"

\* "Thread-safe; makes wait() return promptly." (reactor.h 51), of a wake() since
\* the last wait() returned.
WakeEndsWait == (pc = "wait" /\ wake_owed) ~> pc # "wait"
=============================================================================
