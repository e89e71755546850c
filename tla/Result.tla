------------------------------- MODULE Result -------------------------------
(***************************************************************************)
(* stl::result (stl/result.h): objects with a union of a T and an Et and   *)
(* the flag m_has_value that says which of the two is alive.  They are     *)
(* constructed, copied, moved, assigned, emplaced and destroyed; any       *)
(* constructor and assignment of T and Et may throw.  An object whose      *)
(* union holds nothing can be used no more: its destructor, too, would     *)
(* destroy a member that is not there.  value() and error() are for the    *)
(* member alive (139-164).                                                 *)
(***************************************************************************)
EXTENDS Integers

CONSTANTS Results,       \* places for result objects
          Data,          \* what a T or an Et holds
          Moved          \* what one holds that was moved from

ASSUME ResultAssumption == Moved \notin Data

VARIABLES exists,        \* result objects there are
          m_has_value,   \* the member the flag names
          holds,         \* what the member that was last constructed holds
          lives,         \* history: in each object and for each of its members,
                         \* constructions minus destructions
          threw          \* history: objects in which a constructor threw after the
                         \* old member was destroyed

resultVars == <<exists, m_has_value, holds, lives, threw>>

Members == {"m_value", "m_error"}

ResultInit ==
  /\ exists = {}
  /\ m_has_value = [x \in Results |-> "m_error"]
  /\ holds = [x \in Results |-> Moved]
  /\ lives = [x \in Results |-> [m \in Members |-> 0]]
  /\ threw = {}

Usable == exists \ threw

\* What x holds after a copy or move of y, and what is left in y.
Taken(x, y, move) == [holds EXCEPT ![x] = holds[y], ![y] = IF move THEN Moved ELSE @]

\* result(), result(success, ...), result(error, ...), result(value), make_error
\* and result_success (30-44, 64-75, 213-229): there is no object if the member's
\* constructor throws.
MakeResult(x, has, d, throws) ==
  /\ x \notin exists
  /\ m_has_value' = [m_has_value EXCEPT ![x] = has]
  /\ IF throws THEN UNCHANGED <<exists, holds, lives>>
     ELSE /\ exists' = exists \cup {x}
          /\ holds' = [holds EXCEPT ![x] = d]
          /\ lives' = [lives EXCEPT ![x][has] = @ + 1]
  /\ UNCHANGED threw

\* The copy and move constructors (46-62).
MakeFrom(x, y, move, throws) ==
  /\ x \notin exists /\ y \in Usable
  /\ m_has_value' = [m_has_value EXCEPT ![x] = m_has_value[y]]
  /\ IF throws THEN UNCHANGED <<exists, holds, lives>>
     ELSE /\ exists' = exists \cup {x}
          /\ holds' = Taken(x, y, move)
          /\ lives' = [lives EXCEPT ![x][m_has_value[y]] = @ + 1]
  /\ UNCHANGED threw

\* ~result (77-82).
Destroy(x) ==
  /\ x \in Usable
  /\ exists' = exists \ {x}
  /\ lives' = [lives EXCEPT ![x][m_has_value[x]] = @ - 1]
  /\ holds' = [holds EXCEPT ![x] = Moved]
  /\ UNCHANGED <<m_has_value, threw>>

\* Copy and move assignment between two of a kind (84-93, 108-118); assigned to
\* itself nothing changes.
AssignSame(x, y, move, throws) ==
  /\ x # y /\ x \in Usable /\ y \in Usable
  /\ m_has_value[x] = m_has_value[y]
  /\ holds' = IF throws THEN holds ELSE Taken(x, y, move)
  /\ UNCHANGED <<exists, m_has_value, lives, threw>>

\* The old member of x is destroyed, the flag set and the new one constructed, in
\* this order: assignment from one of the other kind (94-104, 119-129), and
\* emplace_value and emplace_error (184-203).
EndedByNewFlag(x, has) == [lives[x] EXCEPT ![has] = @ - 1]
Ended(x, has) == [lives[x] EXCEPT ![m_has_value[x]] = @ - 1]
Switch(x, has, throws) ==
  /\ m_has_value' = [m_has_value EXCEPT ![x] = has]
  /\ lives' = [lives EXCEPT ![x] =
                  IF throws THEN Ended(x, has) ELSE [Ended(x, has) EXCEPT ![has] = @ + 1]]
  /\ threw' = IF throws THEN threw \cup {x} ELSE threw
  /\ UNCHANGED exists
AssignOther(x, y, move, throws) ==
  /\ x # y /\ x \in Usable /\ y \in Usable
  /\ m_has_value[x] # m_has_value[y]
  /\ Switch(x, m_has_value[y], throws)
  /\ holds' = IF throws THEN holds ELSE Taken(x, y, move)
Emplace(x, has, d, throws) ==
  /\ x \in Usable
  /\ Switch(x, has, throws)
  /\ holds' = IF throws THEN holds ELSE [holds EXCEPT ![x] = d]

\* The caller moves out of value()&& or error()&& (147-150, 161-164).
MoveOut(x) ==
  /\ x \in Usable
  /\ holds' = [holds EXCEPT ![x] = Moved]
  /\ UNCHANGED <<exists, m_has_value, lives, threw>>

ResultNext ==
  \E x \in Results :
    \/ \E has \in Members, d \in Data, throws \in BOOLEAN :
         MakeResult(x, has, d, throws) \/ Emplace(x, has, d, throws)
    \/ \E y \in Results, move, throws \in BOOLEAN :
         \/ MakeFrom(x, y, move, throws)
         \/ AssignSame(x, y, move, throws) \/ AssignOther(x, y, move, throws)
    \/ Destroy(x) \/ MoveOut(x)

ResultSpec == ResultInit /\ [][ResultNext]_resultVars
-----------------------------------------------------------------------------
\* Through any sequence of constructions, assignments, emplacements and throwing
\* constructors each member is constructed and destroyed in turn: exactly the
\* member the flag names is alive, once, and nothing is left in an object that is
\* gone (46-131, 184-203).  The exception is an object in which a constructor
\* threw after the old member was destroyed (95-103, 120-128, 187-192): its flag
\* names a member that is not there.
FlagNamesTheMember ==
  /\ exists \subseteq Results /\ threw \subseteq exists
  /\ m_has_value \in [Results -> Members] /\ holds \in [Results -> Data \cup {Moved}]
  /\ lives \in [Results -> [Members -> Int]]
  /\ \A x \in Results, m \in Members :
       lives[x][m] = IF x \in Usable /\ m = m_has_value[x] THEN 1 ELSE 0
=============================================================================
