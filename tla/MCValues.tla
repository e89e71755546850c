------------------------------ MODULE MCValues ------------------------------
(***************************************************************************)
(* The value types a program uses side by side: a writer and a reader of   *)
(* bytes, fixed strings, or results.  One kind is used in a behaviour.     *)
(***************************************************************************)
EXTENDS Serialization, FixedString, Result

CONSTANTS x1, x2, x3, r1, r2, r3
VARIABLE uses   \* "bytes", "strings", "results"

\* Two byte values: a u64 has eight of them.  The numbers have no symmetric byte
\* pattern, so that a wrong order shows.
MCNumbers == [w \in {1, 2, 4, 8} |->
                CASE w = 1 -> {1} [] w = 2 -> {1, 3} [] w = 4 -> {2, 11} [] w = 8 -> {5, 146}]
MCStrings == {<<>>, <<1>>, <<0, 1, 1>>}

\* Two strings of one type and one of capacity 0.
MCStrs == {x1, x2, x3}
MCCap == [x \in MCStrs |-> IF x = x1 THEN 0 ELSE 3]
MCLiterals == {<<"a", "nul">>}

MCResults == {r1, r2, r3}

MCInit ==
  /\ uses \in {"bytes", "strings", "results"}
  /\ Init /\ StringInit /\ ResultInit
  /\ uses # "bytes" => host = "little"

MCNext ==
  /\ UNCHANGED uses
  /\ \/ uses = "bytes" /\ Next /\ UNCHANGED <<stringVars, resultVars>>
     \/ uses = "strings" /\ StringNext /\ UNCHANGED <<vars, resultVars>>
     \/ uses = "results" /\ ResultNext /\ UNCHANGED <<vars, stringVars>>

MCSpec == MCInit /\ [][MCNext]_<<vars, stringVars, resultVars, uses>>
=============================================================================
