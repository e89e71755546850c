------------------------------- MODULE Lists -------------------------------
(* Sequences that serve as queues and lists of handles. *)
EXTENDS Integers, Sequences, FiniteSets

ToSet(s) == {s[i] : i \in DOMAIN s}
OnceEach(s) == \A i, j \in DOMAIN s : s[i] = s[j] => i = j

\* The orders in which the members of S may come.
Orders(S) == {s \in [1 .. Cardinality(S) -> S] : OnceEach(s)}

\* s with the members of D taken out.  A recursive function, so that it can be
\* reasoned about: the provers know nothing of SelectSeq.
Without(s, D) ==
  LET kept[i \in 0 .. Len(s)] ==
        IF i = 0 THEN <<>>
        ELSE IF s[i] \in D THEN kept[i - 1]
        ELSE Append(kept[i - 1], s[i])
  IN  kept[Len(s)]
=============================================================================
