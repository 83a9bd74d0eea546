---------------------------- MODULE MutationLock ----------------------------
(***************************************************************************)
(* What the repository lock promises: one command at a time makes, holds   *)
(* or clears it, only the holder acts, a command that dies leaves it       *)
(* retained or orphaned, and only an apply clears the lock that a dead     *)
(* apply of the same operation retained.                                   *)
(***************************************************************************)

CONSTANTS
    Process,      \* command invocations
    Reclaimers,   \* attended applies
    OperationId   \* the operation each works on

VARIABLES
    phase,   \* "free", "made", "held", "cleared", "retained" or "orphaned"
    keeper,  \* the process whose lock it is, a set of at most one
    acting   \* the one that causes an effect, likewise

vars == <<phase, keeper, acting>>

Init == phase = "free" /\ keeper = {} /\ acting = {}

\* The keeper takes the lock from one phase to another, between its effects.
Passes(p, from, to) ==
    /\ phase = from /\ keeper = {p} /\ acting = {}
    /\ phase' = to /\ keeper' = {p} /\ UNCHANGED acting

Make(p) ==
    /\ phase = "free"
    /\ phase' = "made" /\ keeper' = {p} /\ UNCHANGED acting

Take(p) == Passes(p, "made", "held")

Act(p) ==
    /\ phase = "held" /\ keeper = {p}
    /\ acting' = {p} /\ UNCHANGED <<phase, keeper>>

Rest ==
    /\ acting' = {} /\ UNCHANGED <<phase, keeper>>

Clear(p) == Passes(p, "held", "cleared")

Free(p) ==
    /\ phase = "cleared" /\ keeper = {p}
    /\ phase' = "free" /\ keeper' = {} /\ UNCHANGED acting

\* An apply clears what a dead apply of its operation retained.
Reclaim(p, q) ==
    /\ phase = "retained" /\ keeper = {q}
    /\ p \in Reclaimers /\ OperationId[p] = OperationId[q]
    /\ phase' = "cleared" /\ keeper' = {p} /\ UNCHANGED acting

\* The keeper dies: with its record on disk the lock is retained, without one nobody
\* can tell whose it is.
Die ==
    /\ acting' = {}
    /\ \/ phase = "held" /\ phase' = "retained" /\ UNCHANGED keeper
       \/ phase \in {"made", "cleared"} /\ phase' = "orphaned" /\ keeper' = {}

Next ==
    \/ Rest \/ Die
    \/ \E p \in Process :
          \/ Make(p) \/ Take(p) \/ Act(p) \/ Clear(p) \/ Free(p)
          \/ \E q \in Process : Reclaim(p, q)

Spec == Init /\ [][Next]_vars
=============================================================================
