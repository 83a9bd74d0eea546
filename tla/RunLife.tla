------------------------------- MODULE RunLife ------------------------------
(***************************************************************************)
(* What the conductor promises about the life of a run: each role goes     *)
(* through its stages once and gets one verdict, the integration is made   *)
(* once and of what all producers reported, gates work on the harvested    *)
(* integration only and take each stage together, a closing run closes the *)
(* panes it has in the order of their names, and nothing follows the       *)
(* archive or a halt.                                                      *)
(***************************************************************************)
EXTENDS Naturals

CONSTANTS
    Producer,  \* roles whose work is integrated
    Gate,      \* roles that judge the integration
    Rank,      \* the order in which panes are closed
    Commit,
    Fork       \* the commit all work starts from

Role == Producer \cup Gate

VARIABLES
    stage,        \* 1 with a source, 2 with a task, 3 with a pane, 4 with an agent
    report,       \* the accepted report of each role, or that it has none
    integration,  \* "none", "reconciled" or "harvested"
    sources,      \* the commits that were integrated
    swaps,        \* how often the integration ref was swapped
    closing,      \* the stand-down: its outcome and the panes it is to close
    closed,       \* those it has closed
    life          \* "active", "halted" or "archived"

vars == <<stage, report, integration, sources, swaps, closing, closed, life>>

Report == [verdict : {"delivered", "blocked"}, sha : Commit]
Undecided == [verdict |-> "undecided", sha |-> Fork]
Refused == [verdict |-> "refused", sha |-> Fork]
NotBegun == [outcome |-> "none", closeSet |-> {}]

\* Roles that ever had a pane.
Opened == {r \in Role : stage[r] >= 3}

Init ==
    /\ stage = [r \in Role |-> 0]
    /\ report = [r \in Role |-> Undecided]
    /\ integration = "none"
    /\ sources = [r \in Producer |-> Fork]
    /\ swaps = 0
    /\ closing = NotBegun
    /\ closed = {}
    /\ life = "active"

\* Gates work on the harvested integration, none of them a stage ahead of another.
Advance(r) ==
    /\ life = "active" /\ stage[r] < 4
    /\ r \in Gate => integration = "harvested" /\ \A g \in Gate : stage[r] <= stage[g]
    /\ stage' = [stage EXCEPT ![r] = @ + 1]
    /\ UNCHANGED <<report, integration, sources, swaps, closing, closed, life>>

Decide(r, verdict) ==
    /\ life = "active" /\ stage[r] = 4 /\ report[r] = Undecided
    /\ r \in Gate => \A g \in Gate : stage[g] = 4
    /\ report' = [report EXCEPT ![r] = verdict]
    /\ UNCHANGED <<stage, integration, sources, swaps, closing, closed, life>>

\* The swap is the run's last step if its outcome stays open.
Integrate ==
    /\ life = "active" /\ integration = "none" /\ swaps = 0
    /\ \A r \in Producer : report[r].verdict = "delivered"
    /\ IF Producer = {}
       THEN UNCHANGED <<sources, swaps>>
       ELSE sources' = [r \in Producer |-> report[r].sha] /\ swaps' = 1
    /\ \/ integration' = "reconciled" /\ UNCHANGED life
       \/ life' = "halted" /\ UNCHANGED integration
    /\ UNCHANGED <<stage, report, closing, closed>>

Gather ==
    /\ life = "active" /\ integration = "reconciled"
    /\ integration' = "harvested"
    /\ UNCHANGED <<stage, report, sources, swaps, closing, closed, life>>

BeginClose(outcome) ==
    /\ life = "active" /\ closing = NotBegun
    /\ outcome = "completed" =>
          integration = "harvested" /\ \A g \in Gate : report[g] \in Report
    /\ closing' = [outcome |-> outcome, closeSet |-> Opened]
    /\ UNCHANGED <<stage, report, integration, sources, swaps, closed, life>>

\* Closing goes on only while no pane was opened since it began.
ClosePane(r) ==
    /\ life = "active" /\ closing.closeSet = Opened
    /\ r \in Opened \ closed
    /\ \A q \in Opened \ closed : Rank[r] <= Rank[q]
    /\ closed' = closed \cup {r}
    /\ UNCHANGED <<stage, report, integration, sources, swaps, closing, life>>

Archive ==
    /\ life = "active" /\ closing # NotBegun
    /\ closing.closeSet = Opened /\ closed = Opened
    /\ life' = "archived"
    /\ UNCHANGED <<stage, report, integration, sources, swaps, closing, closed>>

Halt ==
    /\ life = "active"
    /\ life' = "halted"
    /\ UNCHANGED <<stage, report, integration, sources, swaps, closing, closed>>

Next ==
    \/ \E r \in Role : Advance(r) \/ ClosePane(r)
    \/ \E r \in Role, verdict \in Report \cup {Refused} : Decide(r, verdict)
    \/ Integrate \/ Gather
    \/ \E outcome \in {"completed", "abandoned"} : BeginClose(outcome)
    \/ Archive \/ Halt

Spec == Init /\ [][Next]_vars
=============================================================================
