----------------------------- MODULE MCHandles -----------------------------
(***************************************************************************)
(* Who may use and who must give back what a handle stands for: slots      *)
(* behind generational handles, or system resources behind objects that    *)
(* are moved.  One kind is used in a behaviour.                            *)
(***************************************************************************)
EXTENDS Generational, Ownership

CONSTANTS o1, o2, o3
VARIABLE uses   \* "slots", "resources"

MCOwners == {o1, o2, o3}

MCInit ==
  /\ uses \in {"slots", "resources"}
  /\ Init /\ OwnersInit
  /\ uses = "slots" => kind = "epoll"

MCNext ==
  /\ UNCHANGED uses
  /\ \/ uses = "slots" /\ Next /\ UNCHANGED ownerVars
     \/ uses = "resources" /\ OwnersNext /\ UNCHANGED vars

MCSpec == MCInit /\ [][MCNext]_<<vars, ownerVars, uses>>
=============================================================================
