---------------------------- MODULE AttendedApply ---------------------------
(***************************************************************************)
(* What the attended apply of one run promises the operator: attempts are  *)
(* made one after the other, each is decided once and only then spent, a   *)
(* spent one swaps the target at most once and has its outcome recorded    *)
(* truthfully, and neither an applied attempt nor a closing run is         *)
(* followed by another step.                                               *)
(***************************************************************************)
EXTENDS Naturals

CONSTANT MaxAttempts   \* attempts a run may make

VARIABLES
    standing,  \* what became of each attempt
    swaps,     \* how often each attempt moved the target
    meddled,   \* attempts during which outsiders moved the target to or from its new SHA
    closing    \* the run is being stood down

vars == <<standing, swaps, meddled, closing>>

Number == 1..MaxAttempts

Standing == {"unmade", "previewed", "approved", "rejected", "spent", "applied", "unapplied"}

Init ==
    /\ standing = [i \in Number |-> "unmade"]
    /\ swaps = [i \in Number |-> 0]
    /\ meddled = {}
    /\ closing = FALSE

Becomes(i, what) ==
    /\ standing' = [standing EXCEPT ![i] = what]
    /\ UNCHANGED <<swaps, meddled, closing>>

\* A new attempt is made when all earlier ones came to nothing.
Preview(i) ==
    /\ ~closing /\ standing[i] = "unmade"
    /\ \A j \in Number : j < i => standing[j] \in {"rejected", "unapplied"}
    /\ Becomes(i, "previewed")

Decide(i, decision) ==
    /\ ~closing /\ standing[i] = "previewed"
    /\ Becomes(i, decision)

Spend(i) ==
    /\ ~closing /\ standing[i] = "approved"
    /\ Becomes(i, "spent")

Swap(i) ==
    /\ standing[i] = "spent" /\ swaps[i] = 0
    /\ swaps' = [swaps EXCEPT ![i] = 1]
    /\ UNCHANGED <<standing, meddled, closing>>

\* The outcome tells of the swap; it is read from the target, so only where no
\* outsider moved that.
Settle(i, outcome) ==
    /\ standing[i] = "spent"
    /\ i \notin meddled => (outcome = "applied" <=> swaps[i] = 1)
    /\ Becomes(i, outcome)

Meddle(i) ==
    /\ standing[i] # "unmade"
    /\ meddled' = meddled \cup {i}
    /\ UNCHANGED <<standing, swaps, closing>>

\* Stand-down begins at any time but between the spending of a receipt and its
\* outcome.
Close ==
    /\ \A i \in Number : standing[i] # "spent"
    /\ closing' = TRUE
    /\ UNCHANGED <<standing, swaps, meddled>>

Next ==
    \/ Close
    \/ \E i \in Number :
          \/ Preview(i) \/ Spend(i) \/ Swap(i) \/ Meddle(i)
          \/ \E decision \in {"approved", "rejected"} : Decide(i, decision)
          \/ \E outcome \in {"applied", "unapplied"} : Settle(i, outcome)

Spec == Init /\ [][Next]_vars
=============================================================================
