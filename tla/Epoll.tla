------------------------------- MODULE Epoll -------------------------------
(***************************************************************************)
(* sap::io::Reactor on Linux (src/io/epoll_reactor.cpp) over the kernel's  *)
(* epoll instance: the operations as steps, for the modules that call them. *)
(* Descriptors are polled level-triggered; a pending wake is an eventfd    *)
(* whose counter is not zero, registered beside the user's descriptors.    *)
(***************************************************************************)
EXTENDS Lists

CONSTANTS Handles,  \* descriptors a user registers
          WakeFd    \* m_wake_fd

ASSUME WakeFdAssumption == WakeFd \notin Handles

VARIABLES interest,   \* kernel: registered descriptors, each with token and mask
          condition,  \* kernel: the epoll conditions that hold on a descriptor
          woken       \* kernel: whether the eventfd's counter is not zero

reactorVars == <<interest, condition, woken>>

\* Masks are sets: |, & and has (io/event.h) are union, intersection and membership.
Event == {"Readable", "Writable", "Error", "HangUp"}
Conditions == {"EPOLLIN", "EPOLLOUT", "EPOLLERR", "EPOLLHUP"}

\* Error and HangUp are not interest one can ask for; epoll always reports them.
to_epoll_reading(e) == IF e # {} THEN {"EPOLLIN"} ELSE {}
to_epoll(e) ==
  (IF "Readable" \in e THEN {"EPOLLIN"} ELSE {}) \cup
  (IF "Writable" \in e THEN {"EPOLLOUT"} ELSE {})

from_epoll(ev) ==
  (IF "EPOLLIN" \in ev THEN {"Readable"} ELSE {}) \cup
  (IF "EPOLLOUT" \in ev THEN {"Writable"} ELSE {}) \cup
  (IF "EPOLLERR" \in ev THEN {"Error"} ELSE {}) \cup
  (IF "EPOLLHUP" \in ev THEN {"HangUp"} ELSE {})

\* create: nothing registered but the eventfd, which is not written.
ReactorInit ==
  /\ interest = <<>>
  /\ condition = [h \in Handles |-> {}]
  /\ woken = FALSE

Registered == DOMAIN interest

\* What epoll_wait would report for h.
Reported(h) == condition[h] \cap (interest[h].mask \cup {"EPOLLERR", "EPOLLHUP"})
ReadyFdsNoWake == {h \in Registered : Reported(h) # {}}
ReadyFds == {h \in Registered : Reported(h) # {}} \cup (IF woken THEN {WakeFd} ELSE {})

\* EPOLL_CTL_ADD: refused for a descriptor that is registered already.
add(h, e, token) ==
  /\ h \notin Registered
  /\ interest' = [x \in Registered \cup {h} |->
                    IF x = h THEN [token |-> token, mask |-> to_epoll(e)] ELSE interest[x]]
  /\ UNCHANGED <<condition, woken>>

\* EPOLL_CTL_MOD: refused for a descriptor that is not registered.
modify_mask(h, e, token) ==
  /\ h \in Registered
  /\ interest' = [interest EXCEPT ![h].mask = to_epoll(e)]
  /\ UNCHANGED <<condition, woken>>
modify(h, e, token) ==
  /\ h \in Registered
  /\ interest' = [interest EXCEPT ![h] = [token |-> token, mask |-> to_epoll(e)]]
  /\ UNCHANGED <<condition, woken>>

\* EPOLL_CTL_DEL of the descriptors in H; one that is not registered is refused.
remove(H) ==
  /\ interest' = [x \in Registered \ H |-> interest[x]]
  /\ UNCHANGED <<condition, woken>>

\* The descriptors one epoll_wait with room for max events may return.
Batches(max) ==
  {got \in SUBSET ReadyFds :
     got # {} /\ Cardinality(got) = IF Cardinality(ReadyFds) < max
                                    THEN Cardinality(ReadyFds) ELSE max}

\* The loop over the events (141-153): the eventfd is drained and left out, the
\* others become triggers.
drain_always(got) ==
  /\ woken' = FALSE
  /\ UNCHANGED <<interest, condition>>
drain(got) ==
  /\ woken' = (woken /\ WakeFd \notin got)
  /\ UNCHANGED <<interest, condition>>

TriggerSeqs(got) ==
  {[i \in DOMAIN s |-> [events |-> from_epoll(Reported(s[i])),
                        user_token |-> interest[s[i]].token]] :
     s \in Orders(got \ {WakeFd})}

\* wake: the write makes the eventfd's counter positive.
wake ==
  /\ woken' = TRUE
  /\ UNCHANGED <<interest, condition>>

\* The outside world changes what holds on h.
ConditionChanges(h, ev) ==
  /\ condition' = [condition EXCEPT ![h] = ev]
  /\ UNCHANGED <<interest, woken>>
=============================================================================
