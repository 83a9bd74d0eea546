------------------------------ MODULE Conductor ----------------------------
(***************************************************************************)
(* The life of one run after its creation: assemble, harvest (reports,     *)
(* integration, gates), stand-down, and the scanner that derives the       *)
(* run's lifecycle state from its journal (stage1-runtime.mjs,             *)
(* stage2-lifecycle.mjs, report-harvest.mjs, git-reconcile.mjs).           *)
(*                                                                         *)
(* A command holds the repository lock from its start to its end, so one   *)
(* runs at a time; agents, users and other Git programs act at any moment. *)
(* A journaled operation is one step with three results: observed, failed  *)
(* before its intent (Fail), or in doubt.  An operation in doubt, like the *)
(* lock of a dead command, stops the run for good (OperationJournal,       *)
(* RepositoryLock): only apply publications, which are not part of this    *)
(* module, can be resolved.                                                *)
(***************************************************************************)
EXTENDS Naturals, FiniteSets

CONSTANTS
    Producer,    \* configured builder and test_author roles
    Gate,        \* configured reviewer and validator roles
    Rank,        \* position of a role in byte order of the names
    ConfigRank,  \* position of a producer in the configuration
    Commit,      \* commits a producer's branch may be at
    Fork,        \* the one it is created at
    MishapLimit  \* bound on panes lost and snapshots tampered with at one time

Role == Producer \cup Gate

ASSUME Configuration ==
    /\ Producer \cap Gate = {}
    /\ Rank \in [Role -> Nat]
    /\ \A r, q \in Role : Rank[r] = Rank[q] => r = q
    /\ ConfigRank \in [Producer -> Nat]
    /\ \A r, q \in Producer : ConfigRank[r] = ConfigRank[q] => r = q
    /\ Fork \in Commit
    /\ MishapLimit \in Nat

VARIABLES
    observed,   \* journal: the observed operations, as <<type, role>>
    standDown,  \* observed identity of run.stand-down.begin
    stuck,      \* an operation is in doubt or a dead command keeps the lock
    pc,         \* what the running command does next; "idle" when none runs
    todo,       \* roles its report loop has still to visit
    plan,       \* source commits of the integration it has planned
    slot,       \* outbox slot of each role
    head,       \* branch head of each producer's worktree
    tampered,   \* gates whose snapshot differs from the integration
    panes,      \* roles whose pane is open in Herdr
    target,     \* integration ref: "fork", "merged" or "other"
    merged,     \* history: source commits of the last swap of the ref
    swaps       \* history: how often the run swapped the ref

journal == <<observed, standDown, stuck>>
world == <<slot, head, tampered, panes, target, merged, swaps>>
vars == <<journal, pc, todo, plan, world>>

-----------------------------------------------------------------------------
(* What the journal says *)

Did(type, r) == <<type, r>> \in observed
Accepted == {r \in Role : Did("report.harvest", r)}
Rejected == {r \in Role : Did("report.reject", r)}
Created == {r \in Role : Did("pane.create", r)}
Closed == {r \in Role : Did("pane.close", r)}
Started == {r \in Role : Did("agent.start", r)}
Sourced == {r \in Role : Did("worktree.create", r) \/ Did("gate-source.create", r)}
Tasked == {r \in Role : Did("task.publish", r)}
Integrated == Did("integration.reconcile", "run")
Harvested == Did("integration.harvest", "run")
Archived == Did("run.archive", "run")

First(S) == CHOOSE r \in S : \A q \in S : Rank[r] <= Rank[q]

Report == [verdict : {"delivered", "blocked"}, sha : Commit]
Empty == "empty"
Torn == "torn"        \* a failed publication left its guard or staging file
Invalid == "invalid"  \* complete, but the contract or the path policy refuses it
Slot == Report \cup [verdict : {Empty, Torn, Invalid}, sha : {Fork}]
Unread(kind) == [verdict |-> kind, sha |-> Fork]

NoPlan == [r \in Producer |-> Fork]

NotBegun == [outcome |-> "none", closeSet |-> {}]

-----------------------------------------------------------------------------
(* The lifecycle scanner (scanStage2Authority) *)

Unknown == "bookkeeping_unknown"

\* normalizedRole: no stage of a role without the one before.
OrderedStages(R) ==
    \A r \in R :
        /\ r \in Tasked => r \in Sourced
        /\ r \in Created => r \in Tasked
        /\ r \in Started => r \in Created
        /\ r \in Accepted => r \in Started

DeliveryState ==
    LET accepted == Producer \cap Accepted
        rejected == Producer \cap Rejected
    IN  CASE Producer = {} -> "delivery_ready_reconcile"
          [] ~OrderedStages(Producer) -> Unknown
          [] rejected # {} /\ accepted = {} -> "delivery_report_rejected"
          [] rejected # {} /\ accepted # {} -> Unknown
          [] rejected = {} /\ ~(Producer \subseteq Started) ->
                IF accepted = {} THEN "delivery_provisioning" ELSE Unknown
          [] OTHER ->
                IF accepted # Producer THEN "delivery_waiting_reports"
                ELSE IF \A r \in Producer : slot[r].verdict = "delivered"
                     THEN "delivery_ready_reconcile"
                     ELSE "delivery_nonprogressable"

GateState(refused) ==
    CASE Gate = {} -> "integration_harvested_no_gates"
      [] ~OrderedStages(Gate) -> Unknown
      [] Gate \cap (Rejected \cup refused) # {} -> "gate_source_refused"
      [] OTHER ->
            IF ~(Gate \subseteq Tasked)
            THEN IF Gate \cap (Created \cup Started) = {}
                 THEN "gate_source_task_provisioning" ELSE Unknown
            ELSE IF ~(Gate \subseteq Started)
            THEN IF Gate \cap Accepted = {} THEN "gate_agent_provisioning" ELSE Unknown
            ELSE IF Gate \subseteq Accepted THEN "gate_reports_collected"
                 ELSE "gate_waiting_reports"

\* classifyStandDownPrefix: the closes are the first ones of the close set.
ClosePrefix ==
    /\ Closed \subseteq standDown.closeSet
    /\ \A r \in Closed, q \in standDown.closeSet \ Closed : Rank[r] < Rank[q]

StandDownState ==
    CASE ~ClosePrefix -> Unknown
      [] ClosePrefix /\ Closed = standDown.closeSet -> "stand_down_ready_archive"
      [] OTHER -> IF standDown.outcome = "completed" THEN "completed_closing"
                                                     ELSE "abandoned_closing"

\* gateSourceRefusals: a snapshot that no longer is the integration.
Refusals == tampered \cap Sourced

Lifecycle ==
    CASE Archived -> "archived"
      [] ~Archived /\ standDown # NotBegun -> StandDownState
      [] OTHER ->
            IF Integrated
            THEN IF Harvested THEN GateState(Refusals) ELSE "integration_pending_harvest"
            ELSE IF Harvested \/ Gate \cap (Sourced \cup Tasked \cup Created) # {}
                 THEN Unknown ELSE DeliveryState

\* CLEAN_STATES: the states in which operator_abandoned is a reason.
FaultyCleanStates ==
    {"delivery_provisioning", "delivery_waiting_reports", "delivery_ready_reconcile",
     "delivery_nonprogressable", "delivery_report_rejected",
     "integration_harvested_no_gates",
     "gate_source_task_provisioning", "gate_agent_provisioning",
     "gate_waiting_reports", "gate_reports_collected", "gate_source_refused"}

CleanStates ==
    {"delivery_provisioning", "delivery_waiting_reports", "delivery_ready_reconcile",
     "delivery_nonprogressable", "delivery_report_rejected",
     "integration_pending_harvest", "integration_harvested_no_gates",
     "gate_source_task_provisioning", "gate_agent_provisioning",
     "gate_waiting_reports", "gate_reports_collected", "gate_source_refused"}

FaultyCompletionStates ==
    {"integration_harvested_no_gates", "gate_reports_collected", "gate_waiting_reports"}

CompletionStates == {"integration_harvested_no_gates", "gate_reports_collected"}

\* standDownReasonForState.
Allowed ==
    [report_rejected |-> {"delivery_report_rejected"},
     normal_completion |-> CompletionStates,
     nonprogressable_delivery |-> {"delivery_nonprogressable"},
     source_policy_refusal |-> {"gate_source_refused"},
     clean_provisioning_failure |->
        {"delivery_provisioning", "gate_source_task_provisioning",
         "gate_agent_provisioning"},
     missing_report |-> {"delivery_waiting_reports", "gate_waiting_reports"},
     operator_abandoned |-> CleanStates]

Reason == DOMAIN Allowed

FaultyOutcome(reason) == reason

Outcome(reason) == IF reason = "normal_completion" THEN "completed" ELSE "abandoned"

-----------------------------------------------------------------------------
(* Commands and journaled operations *)

\* assemble runs, its run created and its integration target bound.
Init ==
    /\ observed = {<<"integration.bind", "run">>}
    /\ standDown = NotBegun
    /\ stuck = FALSE
    /\ pc = "assemble"
    /\ todo = {}
    /\ plan = NoPlan
    /\ slot = [r \in Role |-> Unread(Empty)]
    /\ head = [r \in Producer |-> Fork]
    /\ tampered = {}
    /\ panes = {}
    /\ target = "fork"
    /\ merged = NoPlan
    /\ swaps = 0

\* The lock is free and loadActiveRun finds the run.
Loads == pc = "idle" /\ ~stuck /\ ~Archived

\* The process ends, and what it had in memory is gone.
End ==
    /\ pc' = "idle"
    /\ todo' = {}
    /\ plan' = NoPlan

Continue(next) == pc' = next /\ UNCHANGED <<todo, plan>>

Observe(type, r) ==
    /\ observed' = observed \cup {<<type, r>>}
    /\ UNCHANGED <<standDown, stuck>>

Doubt ==
    /\ stuck' = TRUE
    /\ End
    /\ UNCHANGED <<observed, standDown>>

\* An operation whose effect stays inside the private state or is read nowhere else.
Perform(type, r, next) == (Observe(type, r) /\ Continue(next)) \/ Doubt

OpenPane(r, next) ==
    /\ \/ Observe("pane.create", r) /\ Continue(next) /\ panes' = panes \cup {r}
       \/ Doubt /\ panes' \in {panes, panes \cup {r}}
    /\ UNCHANGED <<slot, head, tampered, target, merged, swaps>>

\* The command ends with an error and releases its lock.
Fail ==
    /\ pc # "idle"
    /\ End
    /\ UNCHANGED <<journal, world>>

\* The process dies between two operations, or an effect fails without changing what
\* is modelled here; every command refuses from then on.
Die ==
    /\ pc # "idle"
    /\ Doubt
    /\ UNCHANGED world

Refuse ==
    /\ pc = "idle" /\ (stuck \/ Archived)
    /\ UNCHANGED vars

-----------------------------------------------------------------------------
(* assemble: each producer in configuration order, all its stages at once *)

\* The first producer that is not complete, and its next stage.
Assembling(r) ==
    /\ pc = "assemble"
    /\ r \in Producer \ Started
    /\ \A q \in Producer \ Started : ConfigRank[r] <= ConfigRank[q]

CreateWorktree(r) ==
    /\ Assembling(r) /\ r \notin Sourced
    /\ Perform("worktree.create", r, "assemble")
    /\ UNCHANGED world

PublishTask(r) ==
    /\ Assembling(r) /\ r \in Sourced \ Tasked
    /\ Perform("task.publish", r, "assemble")
    /\ UNCHANGED world

CreatePane(r) ==
    /\ Assembling(r) /\ r \in Tasked \ Created
    /\ OpenPane(r, "assemble")

\* An agent starts in a live pane only; without one the effect fails (Die).
StartAgent(r) ==
    /\ Assembling(r) /\ r \in Created \cap panes
    /\ Perform("agent.start", r, "assemble")
    /\ UNCHANGED world

Assembled ==
    /\ pc = "assemble" /\ Producer \subseteq Started
    /\ End
    /\ UNCHANGED <<journal, world>>

-----------------------------------------------------------------------------
(* Faulty variants of the steps below, for mutation testing. *)

FaultyVisit(r) == r \in todo /\ r = First(todo)

FaultyPreflight == target = "fork"

FaultyPublishAgain ==
    /\ pc = "publish"
    /\ target = "fork" /\ \A r \in Producer : head[r] = slot[r].sha
    /\ swaps' = swaps + 1
    /\ target' = "merged" /\ merged' = plan
    /\ Observe("integration.reconcile", "run") /\ Continue("gather")
    /\ UNCHANGED <<slot, head, tampered, panes>>

FaultyCreateGatePane(r) ==
    /\ pc = "provision"
    /\ r \in (Gate \cap Tasked) \ Created /\ tampered = {}
    /\ OpenPane(r, "provision")

FaultyMayResume == standDown # NotBegun

FaultyNextClose(r) == r \in standDown.closeSet \ Closed

-----------------------------------------------------------------------------
(* harvest: reports *)

StartHarvest ==
    /\ Loads
    /\ IF Harvested
       THEN /\ Refusals = {} /\ Gate # {}
            /\ pc' = "provision" /\ UNCHANGED todo
       ELSE /\ target = "fork"
            /\ pc' = "collect" /\ todo' = Producer
    /\ UNCHANGED <<journal, plan, world>>

\* The next role of the loop, with its task and its attached agent, has no
\* terminal operation yet.
Visit(r) == r \in todo /\ r = First(todo) /\ r \notin Accepted \cup Rejected

Attached(r) == r \in Tasked \cap Started

Leave(r) == todo' = todo \ {r} /\ UNCHANGED <<pc, plan>>

\* inspectProducerSource: the branch is at the reported commit, the tree clean;
\* inspectGateSource: the snapshot is the integration.
SourceHolds(r) ==
    IF r \in Producer THEN head[r] = slot[r].sha ELSE r \notin tampered

\* A role that has its verdict, or has not committed a report, is passed over.
Pass(r) ==
    /\ pc \in {"collect", "collect gates"}
    /\ r \in todo /\ r = First(todo) /\ Attached(r)
    /\ r \in Accepted \cup Rejected \/ slot[r].verdict = Empty
    /\ Leave(r)
    /\ UNCHANGED <<journal, world>>

AcceptReport(r) ==
    /\ pc \in {"collect", "collect gates"}
    /\ Visit(r) /\ Attached(r)
    /\ slot[r] \in Report /\ SourceHolds(r)
    /\ \/ Observe("report.harvest", r) /\ Leave(r)
       \/ Doubt
    /\ UNCHANGED world

\* A failed inspection of a gate source carries no observation, so it ends the
\* command (Fail) and rejects nothing.
RejectReport(r) ==
    /\ pc \in {"collect", "collect gates"}
    /\ Visit(r) /\ Attached(r)
    /\ \/ slot[r].verdict = Invalid
       \/ slot[r] \in Report /\ r \in Producer /\ ~SourceHolds(r)
    /\ \/ Observe("report.reject", r) /\ Leave(r)
       \/ Doubt
    /\ UNCHANGED world

\* Missing, rejected or unsuccessful reports end the command.
ConcludeCollection ==
    /\ pc = "collect" /\ todo = {}
    /\ \/ Rejected # {}
       \/ ~(Producer \subseteq Accepted)
       \/ \E r \in Producer : slot[r].verdict # "delivered"
    /\ End
    /\ UNCHANGED <<journal, world>>

-----------------------------------------------------------------------------
(* harvest: integration *)

\* collectPreflight: the target is where it was bound and every producer's source
\* is the one its accepted report names.
Preflight == target = "fork" /\ \A r \in Producer : SourceHolds(r)

PlanIntegration ==
    /\ pc = "collect" /\ todo = {}
    /\ Rejected = {} /\ Producer \subseteq Accepted
    /\ \A r \in Producer : slot[r].verdict = "delivered"
    /\ Preflight
    /\ plan' = head
    /\ pc' = "publish"
    /\ UNCHANGED <<journal, todo, world>>

\* Without producers there is nothing to swap.
Swap ==
    /\ Preflight
    /\ IF Producer = {}
       THEN UNCHANGED <<target, merged, swaps>>
       ELSE /\ target' = "merged"
            /\ merged' = plan
            /\ swaps' = swaps + 1
    /\ UNCHANGED <<slot, head, tampered, panes>>

\* publishIntegrationCas, synchronizeIntegrationTarget and the observation; an
\* observed reconciliation is replayed.
PublishIntegration ==
    /\ pc = "publish"
    /\ \/ ~Integrated /\ Swap
          /\ Perform("integration.reconcile", "run", "gather")
       \/ ~Integrated /\ Doubt /\ UNCHANGED world
       \/ Integrated /\ Continue("gather") /\ UNCHANGED <<journal, world>>

HarvestIntegration ==
    /\ pc = "gather" /\ Integrated
    /\ Perform("integration.harvest", "run", "provision")
    /\ UNCHANGED world

-----------------------------------------------------------------------------
(* harvest: gates; sources, then tasks, then panes, then agents *)

NextGate(r, stage) ==
    /\ pc = "provision"
    /\ r \in Gate \ stage
    /\ r = First(Gate \ stage)

CreateGateSource(r) ==
    /\ NextGate(r, Sourced)
    /\ Perform("gate-source.create", r, "provision")
    /\ UNCHANGED world

\* validateAllGateSources before every task, pane and agent.
GateSourcesHold == Gate \subseteq Sourced /\ tampered = {}

PublishGateTask(r) ==
    /\ NextGate(r, Tasked)
    /\ GateSourcesHold
    /\ Perform("task.publish", r, "provision")
    /\ UNCHANGED world

CreateGatePane(r) ==
    /\ NextGate(r, Created)
    /\ GateSourcesHold /\ Gate \subseteq Tasked
    /\ OpenPane(r, "provision")

StartGateAgent(r) ==
    /\ NextGate(r, Started)
    /\ GateSourcesHold /\ Gate \subseteq Created /\ r \in panes
    /\ Perform("agent.start", r, "provision")
    /\ UNCHANGED world

CollectGates ==
    /\ pc = "provision" /\ Gate \subseteq Started
    /\ pc' = "collect gates"
    /\ todo' = Gate
    /\ UNCHANGED <<journal, plan, world>>

ConcludeHarvest ==
    /\ pc = "collect gates" /\ todo = {}
    /\ End
    /\ UNCHANGED <<journal, world>>

-----------------------------------------------------------------------------
(* stand-down *)

BeginStandDown(reason) ==
    /\ Loads /\ standDown = NotBegun
    /\ Lifecycle \in Allowed[reason]
    /\ \/ /\ standDown' = [outcome |-> Outcome(reason), closeSet |-> Created]
          /\ observed' = observed \cup {<<"run.stand-down.begin", "run">>}
          /\ Continue("check panes")
          /\ UNCHANGED stuck
       \/ Doubt
    /\ UNCHANGED world

\* A restart finds the identity it wrote and the panes it bound.
MayResume == standDown # NotBegun /\ standDown.closeSet = Created

ResumeStandDown ==
    /\ Loads /\ MayResume /\ StandDownState # Unknown
    /\ Continue("check panes")
    /\ UNCHANGED <<journal, world>>

\* Every pane still to be closed is live before the first is closed.
CheckPanes ==
    /\ pc = "check panes"
    /\ standDown.closeSet \ Closed \subseteq panes
    /\ Continue("close")
    /\ UNCHANGED <<journal, world>>

NextClose(r) ==
    LET pending == standDown.closeSet \ Closed
    IN  r \in pending /\ r = First(pending)

ClosePane(r) ==
    /\ pc = "close" /\ NextClose(r) /\ r \in panes
    /\ \/ Observe("pane.close", r) /\ Continue("close") /\ panes' = panes \ {r}
       \/ Doubt /\ panes' \in {panes, panes \ {r}}
    /\ UNCHANGED <<slot, head, tampered, target, merged, swaps>>

ArchiveRun ==
    /\ pc = "close" /\ StandDownState = "stand_down_ready_archive"
    /\ (Observe("run.archive", "run") /\ End) \/ Doubt
    /\ UNCHANGED world

-----------------------------------------------------------------------------
(* Agents, users and other programs.  A stopped run reads none of it any more. *)

Alive == ~stuck /\ ~Archived

Mishaps == Cardinality(tampered) + Cardinality(Created \ (panes \cup Closed))

\* An agent commits, or anyone moves the branch; after the integration that can only
\* make a repeated preflight fail.
MoveBranch(r, c) ==
    /\ Alive /\ r \in Producer \cap Sourced /\ ~Integrated
    /\ c # head[r]
    /\ head' = [head EXCEPT ![r] = c]
    /\ UNCHANGED <<journal, pc, todo, plan, slot, tampered, panes, target, merged, swaps>>

\* The report publisher runs under the repository lock; a committed slot never
\* changes.
PublishReport(r) ==
    /\ Loads /\ Attached(r) /\ slot[r].verdict = Empty
    /\ \E v \in {"delivered", "blocked"} :
          slot' = [slot EXCEPT ![r] =
                    [verdict |-> v, sha |-> IF r \in Producer THEN head[r] ELSE Fork]]
    /\ UNCHANGED <<journal, pc, todo, plan, head, tampered, panes, target, merged, swaps>>

SpoilReport(r, kind) ==
    /\ Loads /\ Attached(r) /\ slot[r].verdict = Empty
    /\ slot' = [slot EXCEPT ![r] = Unread(kind)]
    /\ UNCHANGED <<journal, pc, todo, plan, head, tampered, panes, target, merged, swaps>>

Tamper(r) ==
    /\ Alive /\ r \in Gate \cap Sourced
    /\ r \notin tampered /\ Mishaps < MishapLimit
    /\ tampered' = tampered \cup {r}
    /\ UNCHANGED <<journal, pc, todo, plan, slot, head, panes, target, merged, swaps>>

Restore(r) ==
    /\ Alive /\ r \in tampered
    /\ tampered' = tampered \ {r}
    /\ UNCHANGED <<journal, pc, todo, plan, slot, head, panes, target, merged, swaps>>

LosePane(r) ==
    /\ Alive /\ r \in panes /\ Mishaps < MishapLimit
    /\ panes' = panes \ {r}
    /\ UNCHANGED <<journal, pc, todo, plan, slot, head, tampered, target, merged, swaps>>

MoveTarget(t) ==
    /\ Alive /\ t # target /\ ~Harvested
    /\ target' = t
    /\ UNCHANGED <<journal, pc, todo, plan, slot, head, tampered, panes, merged, swaps>>

-----------------------------------------------------------------------------

Assemble(r) == CreateWorktree(r) \/ PublishTask(r) \/ CreatePane(r) \/ StartAgent(r)

Collect(r) == Pass(r) \/ AcceptReport(r) \/ RejectReport(r)

Provision(r) ==
    CreateGateSource(r) \/ PublishGateTask(r) \/ CreateGatePane(r) \/ StartGateAgent(r)

Outside ==
    \/ \E r \in Producer, c \in Commit : MoveBranch(r, c)
    \/ \E r \in Role : PublishReport(r) \/ LosePane(r)
    \/ \E r \in Role, kind \in {Torn, Invalid} : SpoilReport(r, kind)
    \/ \E r \in Gate : Tamper(r) \/ Restore(r)
    \/ \E t \in {"fork", "other"} : MoveTarget(t)

Next ==
    \/ \E r \in Producer : Assemble(r)
    \/ Assembled
    \/ StartHarvest
    \/ \E r \in Role : Collect(r)
    \/ ConcludeCollection \/ PlanIntegration \/ PublishIntegration \/ HarvestIntegration
    \/ \E r \in Gate : Provision(r)
    \/ CollectGates \/ ConcludeHarvest
    \/ \E reason \in Reason : BeginStandDown(reason)
    \/ ResumeStandDown \/ CheckPanes \/ ArchiveRun
    \/ \E r \in Role : ClosePane(r)
    \/ Fail \/ Die \/ Refuse
    \/ Outside

Spec == Init /\ [][Next]_vars

-----------------------------------------------------------------------------
(* Properties *)

OperationType ==
    {"integration.bind", "worktree.create", "task.publish", "pane.create",
     "agent.start", "report.harvest", "report.reject", "integration.reconcile",
     "integration.harvest", "gate-source.create", "run.stand-down.begin",
     "pane.close", "run.archive"}

TypeOK ==
    /\ observed \subseteq OperationType \X (Role \cup {"run"})
    /\ standDown \in [outcome : {"none", "completed", "abandoned"}, closeSet : SUBSET Role]
    /\ stuck \in BOOLEAN
    /\ pc \in {"idle", "assemble", "collect", "publish", "gather", "provision",
               "collect gates", "check panes", "close"}
    /\ todo \subseteq Role
    /\ plan \in [Producer -> Commit]
    /\ slot \in [Role -> Slot]
    /\ head \in [Producer -> Commit]
    /\ tampered \subseteq Gate
    /\ panes \subseteq Role
    /\ target \in {"fork", "merged", "other"}
    /\ merged \in [Producer -> Commit]
    /\ swaps \in Nat

\* Two gaps of the scanner that harvest can reach: one producer's report accepted
\* and another's rejected, and a report accepted before assemble had started every
\* agent.
Mixed == Producer \cap Accepted # {} /\ Producer \cap Rejected # {}
Early == Producer \cap Accepted # {} /\ ~(Producer \subseteq Started)

\* Apart from these two, the scanner derives a state from every journal the commands
\* can write, whatever failed or was repeated on the way (bookkeeping_unknown would
\* leave the run without any legal command).
ClassifiesAllOthers == ~Mixed /\ ~Early => Lifecycle # Unknown

\* "Attended stand-down is available from every stable state" (README.md): from every
\* other journal that a command can load stand-down may begin, and once it has begun the
\* scanner knows how far it is, whether or not a late harvest has added panes.  After
\* such a harvest it can nevertheless not be resumed (MayResume).
OthersCanStandDown ==
    Loads /\ ~Mixed /\ ~Early =>
        IF standDown = NotBegun
        THEN \E reason \in Reason : Lifecycle \in Allowed[reason]
        ELSE StandDownState # Unknown

\* A producer's report gets one verdict, although its branch may move between two
\* harvests that look at it.
OneVerdict == Accepted \cap Rejected = {}

\* The integration ref is swapped only to the commits that the accepted, successful
\* reports of all producers name: never for a partial, rejected or later source.
IntegratesWhatWasReported ==
    swaps > 0 => \A r \in Producer :
        /\ r \in Accepted \ Rejected
        /\ slot[r].verdict = "delivered"
        /\ merged[r] = slot[r].sha

\* One swap per run, also when the ref is moved back by others or the harvest that
\* made it failed before its next operation.
OneSwap == swaps <= 1

\* Across any number of interrupted and resumed harvests: no gate works before the
\* integration, no gate pane opens before every gate has its task, no gate agent
\* starts before every gate has its pane.
GateBarriers ==
    /\ Gate \cap Sourced # {} => Harvested
    /\ Gate \cap (panes \cup Created) # {} => Gate \subseteq Tasked
    /\ Gate \cap Started # {} => Gate \subseteq Created

\* A run stood down as completed was integrated and had every gate's report.
CompletedMeansCollected ==
    standDown.outcome = "completed" =>
        /\ Harvested
        /\ Gate \subseteq Accepted
        /\ Gate \cap Rejected = {}

\* An archived run leaves no pane behind, one created by a late harvest included.
ArchivedLeavesNoPane ==
    Archived => Created = Closed /\ panes \cap Created = {}

\* "Stable states cover provisioning, waiting reports, terminal rejection, ...
\* Attended stand-down is available from every stable state" (README.md): a run that
\* the loader accepts, whose assemble ended with agents missing or that has a rejected
\* report, has a reason for which its stand-down may begin.
StableCanStandDown ==
    Loads /\ standDown = NotBegun
          /\ (Producer \subseteq Started => Producer \cap Rejected # {})
        => \E reason \in Reason : Lifecycle \in Allowed[reason]

\* "Attended stand-down ... binds a deterministic exact pane close set" (README.md),
\* and nextOperations allows a closing run pane.close alone: the panes of a run that
\* is standing down are those of its close set.
CloseSetIsExact == standDown # NotBegun => Created = standDown.closeSet

-----------------------------------------------------------------------------
(* The commands implement a life of a run, as their journal tells it. *)

StageOf(r) ==
    IF Did("agent.start", r) THEN 4
    ELSE IF Did("pane.create", r) THEN 3
    ELSE IF Did("task.publish", r) THEN 2
    ELSE IF Did("worktree.create", r) \/ Did("gate-source.create", r) THEN 1
    ELSE 0

Refused == [verdict |-> "refused", sha |-> Fork]
Undecided == [verdict |-> "undecided", sha |-> Fork]

ReportOf(r) ==
    IF Did("report.harvest", r) THEN slot[r]
    ELSE IF Did("report.reject", r) THEN Refused
    ELSE Undecided

Integration == IF Harvested THEN "harvested" ELSE IF Integrated THEN "reconciled" ELSE "none"

Stages == [r \in Role |-> StageOf(r)]
Reports == [r \in Role |-> ReportOf(r)]
LifeOf == IF Archived THEN "archived" ELSE IF stuck THEN "halted" ELSE "active"

Life == INSTANCE RunLife WITH
    stage <- Stages, report <- Reports, integration <- Integration, sources <- merged,
    closing <- standDown, closed <- Closed, life <- LifeOf

\* Every step of assemble, harvest and stand-down, of a failing or dying command and
\* of agents, users and other programs is a step, or no step, of RunLife.
ImplementsRunLife == Life!Spec
=============================================================================
