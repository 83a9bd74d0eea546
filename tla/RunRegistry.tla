----------------------------- MODULE RunRegistry -----------------------------
(***************************************************************************)
(* What the run store promises of one workspace: runs are opened one at a  *)
(* time, each with an identity never used before, and a run that left      *)
(* never comes back.  A run may be given up while it opens; no other run   *)
(* is opened after that.                                                   *)
(***************************************************************************)
CONSTANT Run

VARIABLE standing   \* standing[r]: where run r is in its life

Standing == {"unused", "opening", "active", "archived"}

Live(r) == standing[r] \in {"opening", "active"}

Init == standing = [r \in Run |-> "unused"]

Open(r) ==
    /\ standing[r] = "unused"
    /\ \A s \in Run : ~Live(s)
    /\ standing' = [standing EXCEPT ![r] = "opening"]

Activate(r) ==
    /\ standing[r] = "opening"
    /\ standing' = [standing EXCEPT ![r] = "active"]

Archive(r) ==
    /\ standing[r] = "active"
    /\ standing' = [standing EXCEPT ![r] = "archived"]

Next == \E r \in Run : Open(r) \/ Activate(r) \/ Archive(r)

Spec == Init /\ [][Next]_standing
==============================================================================
