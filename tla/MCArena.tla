------------------------------ MODULE MCArena ------------------------------
(* Containers with pools, of elements smaller than a node and of over-       *)
(* aligned ones, and one without, in an arena that starts off any alignment; *)
(* a container in a stack_arena.                                             *)
EXTENDS Arena

CONSTANTS small, wide, plain, local

MCAllocators == {small, wide, plain, local}
MCSizeOf == [a \in MCAllocators |-> IF a = wide THEN 8 ELSE IF a = plain THEN 4 ELSE 2]
MCAlignOf == MCSizeOf
MCLinear == {plain}
MCStacked == {local}

\* Nothing is promised once a request has wrapped: TLC looks no further.
UntilWrapped == ~wrapped
=============================================================================
