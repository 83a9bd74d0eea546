----------------------------- MODULE ReportOnce -----------------------------
(***************************************************************************)
(* What the outbox slot of a task promises: one report is written into it, *)
(* a report that was sealed stays, a write that was given up is never      *)
(* taken over, and the run decides once about the sealed report, before it *)
(* is closed.                                                              *)
(***************************************************************************)
CONSTANTS Report, Empty, Writing, Spoiled, Undecided

VARIABLES
    slot,      \* Empty, Writing, Spoiled or the sealed report
    decision,  \* Undecided, or what the run recorded: <<disposition, report>>
    open       \* the run is active

vars == <<slot, decision, open>>

Disposition == {"harvested", "rejected"}

Init == slot = Empty /\ decision = Undecided /\ open = TRUE

Write ==
    /\ open /\ slot = Empty
    /\ slot' = Writing
    /\ UNCHANGED <<decision, open>>

Seal(report) ==
    /\ open /\ slot = Writing
    /\ slot' = report
    /\ UNCHANGED <<decision, open>>

GiveUp ==
    /\ open /\ slot \in {Empty, Writing}
    /\ slot' = Spoiled
    /\ UNCHANGED <<decision, open>>

Decide(disposition) ==
    /\ open /\ slot \in Report /\ decision = Undecided
    /\ decision' = <<disposition, slot>>
    /\ UNCHANGED <<slot, open>>

Close == open /\ open' = FALSE /\ UNCHANGED <<slot, decision>>

Next ==
    \/ Write \/ GiveUp \/ Close
    \/ \E report \in Report : Seal(report)
    \/ \E disposition \in Disposition : Decide(disposition)

Spec == Init /\ [][Next]_vars
=============================================================================
