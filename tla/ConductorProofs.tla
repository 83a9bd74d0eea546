--------------------------- MODULE ConductorProofs --------------------------
(***************************************************************************)
(* The invariants of Conductor, for any configured roles, any commits and  *)
(* any number of mishaps.                                                  *)
(***************************************************************************)
EXTENDS Conductor, WellFoundedInduction, TLAPS

Commands == {"idle", "assemble", "collect", "publish", "gather", "provision",
             "collect gates", "check panes", "close"}

-----------------------------------------------------------------------------
(* Types *)

\* What a command remembers and what it leaves when it ends.
LEMMA CommandTypes ==
    ASSUME TypeOK, NEW next \in Commands, Continue(next) \/ End
    PROVE  /\ pc' \in Commands
           /\ todo' \subseteq Role
           /\ plan' \in [Producer -> Commit]
BY Configuration DEF TypeOK, Continue, End, NoPlan, Commands

\* A journaled operation, recorded or in doubt, keeps the journal and the command typed.
LEMMA PerformTypes ==
    ASSUME TypeOK, NEW type \in OperationType, NEW r \in Role \cup {"run"},
           NEW next \in Commands, Perform(type, r, next)
    PROVE  /\ observed' \subseteq OperationType \X (Role \cup {"run"})
           /\ standDown' \in [outcome : {"none", "completed", "abandoned"},
                              closeSet : SUBSET Role]
           /\ stuck' \in BOOLEAN
           /\ pc' \in Commands
           /\ todo' \subseteq Role
           /\ plan' \in [Producer -> Commit]
<1>1. CASE Observe(type, r) /\ Continue(next)
  <2>1. <<type, r>> \in OperationType \X (Role \cup {"run"})
    OBVIOUS
  <2>2. QED
    BY <1>1, <2>1, CommandTypes DEF TypeOK, Observe
<1>2. CASE Doubt
  BY <1>2, CommandTypes DEF TypeOK, Doubt
<1>3. QED
  BY <1>1, <1>2 DEF Perform

\* A run that has just been created and bound is in its type.
LEMMA TypeInit == Init => TypeOK
<1> SUFFICES ASSUME Init PROVE TypeOK
  OBVIOUS
<1>1. observed \subseteq OperationType \X (Role \cup {"run"})
  BY DEF Init, OperationType
<1>2. slot \in [Role -> Slot]
  BY Configuration DEF Init, Slot, Unread
<1>3. QED
  BY <1>1, <1>2, Configuration DEF Init, TypeOK, NotBegun, NoPlan

\* Every step of a command, an agent or a user keeps the types.
LEMMA TypeStep == TypeOK /\ [Next]_vars => TypeOK'
<1> SUFFICES ASSUME TypeOK, [Next]_vars PROVE TypeOK'
  OBVIOUS
<1> USE DEF Role
<1>1. ASSUME NEW r \in Producer, Assemble(r) PROVE TypeOK'
  <2>1. CASE CreateWorktree(r)
    BY <2>1, PerformTypes DEF CreateWorktree, world, TypeOK, OperationType, Commands
  <2>2. CASE PublishTask(r)
    BY <2>2, PerformTypes DEF PublishTask, world, TypeOK, OperationType, Commands
  <2>3. CASE CreatePane(r)
    <3>1. Perform("pane.create", r, "assemble")
      BY <2>3 DEF CreatePane, OpenPane, Perform
    <3>2. panes' \subseteq Role /\ UNCHANGED <<slot, head, tampered, target, merged, swaps>>
      BY <2>3 DEF CreatePane, OpenPane, TypeOK
    <3>3. QED
      BY <3>1, <3>2, PerformTypes DEF TypeOK, OperationType, Commands
  <2>4. CASE StartAgent(r)
    BY <2>4, PerformTypes DEF StartAgent, world, TypeOK, OperationType, Commands
  <2>5. QED
    BY <1>1, <2>1, <2>2, <2>3, <2>4 DEF Assemble
<1>2. ASSUME NEW r \in Role, Collect(r) PROVE TypeOK'
  <2>1. CASE Pass(r)
    BY <2>1 DEF Pass, Leave, journal, world, TypeOK
  <2>2. ASSUME NEW type \in {"report.harvest", "report.reject"},
               (Observe(type, r) /\ Leave(r)) \/ Doubt, UNCHANGED world
        PROVE  TypeOK'
    <3>1. CASE Observe(type, r) /\ Leave(r)
      <4>1. <<type, r>> \in OperationType \X (Role \cup {"run"})
        BY DEF OperationType
      <4>2. QED
        BY <2>2, <3>1, <4>1 DEF Observe, Leave, world, TypeOK
    <3>2. CASE Doubt
      BY <2>2, <3>2, Configuration DEF Doubt, End, NoPlan, world, TypeOK
    <3>3. QED
      BY <2>2, <3>1, <3>2
  <2>3. QED
    BY <1>2, <2>1, <2>2 DEF Collect, AcceptReport, RejectReport
<1>3. ASSUME NEW r \in Gate, Provision(r) PROVE TypeOK'
  <2>1. CASE CreateGateSource(r)
    BY <2>1, PerformTypes DEF CreateGateSource, world, TypeOK, OperationType, Commands
  <2>2. CASE PublishGateTask(r)
    BY <2>2, PerformTypes DEF PublishGateTask, world, TypeOK, OperationType, Commands
  <2>3. CASE CreateGatePane(r)
    <3>1. Perform("pane.create", r, "provision")
      BY <2>3 DEF CreateGatePane, OpenPane, Perform
    <3>2. panes' \subseteq Role /\ UNCHANGED <<slot, head, tampered, target, merged, swaps>>
      BY <2>3 DEF CreateGatePane, OpenPane, TypeOK
    <3>3. QED
      BY <3>1, <3>2, PerformTypes DEF TypeOK, OperationType, Commands
  <2>4. CASE StartGateAgent(r)
    BY <2>4, PerformTypes DEF StartGateAgent, world, TypeOK, OperationType, Commands
  <2>5. QED
    BY <1>3, <2>1, <2>2, <2>3, <2>4 DEF Provision
<1>4. CASE Assembled \/ ConcludeCollection \/ ConcludeHarvest \/ Fail
  BY <1>4, CommandTypes
     DEF Assembled, ConcludeCollection, ConcludeHarvest, Fail, journal, world, TypeOK, Commands
<1>5. CASE StartHarvest
  BY <1>5 DEF StartHarvest, journal, world, TypeOK
<1>6. CASE PlanIntegration
  BY <1>6 DEF PlanIntegration, journal, world, TypeOK
<1>7. CASE PublishIntegration
  <2>1. CASE ~Integrated /\ Swap /\ Perform("integration.reconcile", "run", "gather")
    <3>1. /\ target' \in {"fork", "merged", "other"}
          /\ merged' \in [Producer -> Commit]
          /\ swaps' \in Nat
          /\ UNCHANGED <<slot, head, tampered, panes>>
      <4>1. /\ target \in {"fork", "merged", "other"} /\ swaps \in Nat
            /\ plan \in [Producer -> Commit] /\ merged \in [Producer -> Commit]
        BY DEF TypeOK
      <4>2. CASE Producer = {}
        BY <2>1, <4>1, <4>2 DEF Swap
      <4>3. CASE Producer # {}
        <5>1. /\ target' = "merged" /\ merged' = plan /\ swaps' = swaps + 1
              /\ UNCHANGED <<slot, head, tampered, panes>>
          BY <2>1, <4>3 DEF Swap
        <5>2. QED
          BY <4>1, <5>1
      <4>4. QED
        BY <4>2, <4>3
    <3>2. /\ observed' \subseteq OperationType \X (Role \cup {"run"})
          /\ standDown' \in [outcome : {"none", "completed", "abandoned"},
                             closeSet : SUBSET Role]
          /\ stuck' \in BOOLEAN
          /\ pc' \in Commands
          /\ todo' \subseteq Role
          /\ plan' \in [Producer -> Commit]
      <4>1. /\ "run" \in Role \cup {"run"}
            /\ "integration.reconcile" \in OperationType
            /\ "gather" \in Commands
        BY DEF OperationType, Commands
      <4>2. QED
        BY <2>1, <4>1, PerformTypes
    <3>3. QED
      BY <3>1, <3>2 DEF TypeOK, Commands
  <2>2. CASE Doubt /\ UNCHANGED world
    BY <2>2, Configuration DEF Doubt, End, NoPlan, world, TypeOK
  <2>3. CASE Continue("gather") /\ UNCHANGED <<journal, world>>
    BY <2>3 DEF Continue, journal, world, TypeOK
  <2>4. QED
    BY <1>7, <2>1, <2>2, <2>3 DEF PublishIntegration
<1>8. CASE HarvestIntegration
  BY <1>8, PerformTypes DEF HarvestIntegration, world, TypeOK, OperationType, Commands
<1>9. CASE CollectGates
  BY <1>9 DEF CollectGates, journal, world, TypeOK
<1>10. ASSUME NEW reason \in Reason, BeginStandDown(reason) PROVE TypeOK'
  <2>1. CASE Doubt /\ UNCHANGED world
    BY <2>1, Configuration DEF Doubt, End, NoPlan, world, TypeOK
  <2>2. CASE /\ standDown' = [outcome |-> Outcome(reason), closeSet |-> Created]
             /\ observed' = observed \cup {<<"run.stand-down.begin", "run">>}
             /\ Continue("check panes")
             /\ UNCHANGED <<stuck, world>>
    <3>1. standDown' \in [outcome : {"none", "completed", "abandoned"},
                          closeSet : SUBSET Role]
      BY <2>2 DEF Outcome, Created
    <3>2. <<"run.stand-down.begin", "run">> \in OperationType \X (Role \cup {"run"})
      BY DEF OperationType
    <3>3. QED
      BY <2>2, <3>1, <3>2 DEF Continue, world, TypeOK
  <2>3. QED
    BY <1>10, <2>1, <2>2 DEF BeginStandDown
<1>11. CASE ResumeStandDown \/ CheckPanes
  BY <1>11 DEF ResumeStandDown, CheckPanes, Continue, journal, world, TypeOK
<1>12. CASE ArchiveRun
  <2>1. <<"run.archive", "run">> \in OperationType \X (Role \cup {"run"})
    BY DEF OperationType
  <2>2. CASE Observe("run.archive", "run") /\ End
    BY <1>12, <2>1, <2>2, Configuration DEF ArchiveRun, Observe, End, NoPlan, world, TypeOK
  <2>3. CASE Doubt
    BY <1>12, <2>3, Configuration DEF ArchiveRun, Doubt, End, NoPlan, world, TypeOK
  <2>4. QED
    BY <1>12, <2>2, <2>3 DEF ArchiveRun
<1>13. ASSUME NEW r \in Role, ClosePane(r) PROVE TypeOK'
  <2>1. Perform("pane.close", r, "close")
    BY <1>13 DEF ClosePane, Perform
  <2>2. panes' \subseteq Role /\ UNCHANGED <<slot, head, tampered, target, merged, swaps>>
    BY <1>13 DEF ClosePane, TypeOK
  <2>3. QED
    BY <2>1, <2>2, PerformTypes DEF TypeOK, OperationType, Commands
<1>14. CASE Die
  BY <1>14, Configuration DEF Die, Doubt, End, NoPlan, world, TypeOK
<1>15. CASE Outside
  <2>1. ASSUME NEW r \in Producer, NEW c \in Commit, MoveBranch(r, c) PROVE TypeOK'
    BY <2>1 DEF MoveBranch, journal, TypeOK
  <2>2. ASSUME NEW r \in Role, PublishReport(r) PROVE TypeOK'
    <3>1. PICK v \in {"delivered", "blocked"} :
            slot' = [slot EXCEPT ![r] =
                      [verdict |-> v, sha |-> IF r \in Producer THEN head[r] ELSE Fork]]
      BY <2>2 DEF PublishReport
    <3>2. [verdict |-> v, sha |-> IF r \in Producer THEN head[r] ELSE Fork] \in Slot
      BY Configuration DEF TypeOK, Slot, Report
    <3>3. slot' \in [Role -> Slot]
      BY <3>1, <3>2 DEF TypeOK
    <3>4. QED
      BY <2>2, <3>3 DEF PublishReport, journal, TypeOK
  <2>3. ASSUME NEW r \in Role, NEW kind \in {Torn, Invalid}, SpoilReport(r, kind)
        PROVE  TypeOK'
    <3>1. Unread(kind) \in Slot
      BY DEF Unread, Slot
    <3>2. QED
      BY <2>3, <3>1 DEF SpoilReport, journal, TypeOK
  <2>4. ASSUME NEW r \in Role, LosePane(r) PROVE TypeOK'
    BY <2>4 DEF LosePane, journal, TypeOK
  <2>5. ASSUME NEW r \in Gate, Tamper(r) \/ Restore(r) PROVE TypeOK'
    BY <2>5 DEF Tamper, Restore, journal, TypeOK
  <2>6. ASSUME NEW t \in {"fork", "other"}, MoveTarget(t) PROVE TypeOK'
    BY <2>6 DEF MoveTarget, journal, TypeOK
  <2>7. QED
    BY <1>15, <2>1, <2>2, <2>3, <2>4, <2>5, <2>6 DEF Outside
<1>16. CASE UNCHANGED vars
  BY <1>16 DEF vars, journal, world, TypeOK
<1>17. QED
  BY <1>1, <1>2, <1>3, <1>4, <1>5, <1>6, <1>7, <1>8, <1>9, <1>10, <1>11, <1>12, <1>13,
     <1>14, <1>15, <1>16 DEF Next, Refuse

\* Journal, running command and world stay in their types.
THEOREM TypeCorrect == Spec => []TypeOK
<1>1. QED
  BY TypeInit, TypeStep, PTL DEF Spec

-----------------------------------------------------------------------------
(* What a step may record *)

\* What an operation that is recorded for a role must have found.
May(type, r) ==
    \/ type = "worktree.create" /\ r \in Producer
    \/ type = "gate-source.create" /\ r \in Gate /\ Harvested
    \/ type = "task.publish" /\ r \in Sourced /\ (r \in Gate => Gate \subseteq Sourced)
    \/ /\ type = "pane.create"
       /\ r \in Tasked \ Created
       /\ r \in Gate => Gate \subseteq Tasked
    \/ type = "agent.start" /\ r \in Created /\ (r \in Gate => Gate \subseteq Created)
    \/ /\ type \in {"report.harvest", "report.reject"}
       /\ r \in Started \ (Accepted \cup Rejected)
       /\ r \in Gate => Gate \subseteq Started
       /\ type = "report.harvest" => slot[r] \in Report
    \/ type = "integration.reconcile" /\ r = "run" /\ pc = "publish" /\ ~Integrated
    \/ type = "integration.harvest" /\ r = "run" /\ Integrated
    \/ /\ type = "pane.close"
       /\ r \in Created /\ standDown.closeSet = Created
       /\ NextClose(r)
    \/ /\ type = "run.archive" /\ r = "run" /\ standDown # NotBegun
       /\ standDown.closeSet = Created /\ Closed = Created

Records(type, r) ==
    /\ May(type, r)
    /\ observed' = observed \cup {<<type, r>>}
    /\ UNCHANGED <<standDown, stuck>>

Begins ==
    /\ standDown = NotBegun
    /\ standDown' \in [outcome : {"completed", "abandoned"}, closeSet : {Created}]
    /\ standDown' # NotBegun
    /\ standDown'.outcome = "completed" => Lifecycle \in CompletionStates
    /\ observed' = observed \cup {<<"run.stand-down.begin", "run">>}
    /\ UNCHANGED stuck

\* What the running command may rely on: nothing else runs while it does.
ControlInv ==
    /\ stuck \/ Archived => pc = "idle"
    /\ pc = "collect" => todo \subseteq Producer
    /\ pc \in {"provision", "collect gates"} => Harvested
    /\ pc = "collect gates" => todo \subseteq Gate /\ Gate \subseteq Started
    /\ pc \in {"check panes", "close"} =>
          standDown # NotBegun /\ standDown.closeSet = Created

\* Every step leaves the journal alone, records an operation that it may record, or
\* begins the stand-down.
LEMMA Steps ==
    ASSUME TypeOK, ControlInv, [Next]_vars
    PROVE  \/ UNCHANGED <<observed, standDown>>
           \/ \E type \in OperationType, r \in Role \cup {"run"} : Records(type, r)
           \/ Begins
<1> DEFINE Goal == \/ UNCHANGED <<observed, standDown>>
                   \/ \E type \in OperationType, r \in Role \cup {"run"} : Records(type, r)
                   \/ Begins
<1> SUFFICES Goal
  OBVIOUS
<1>0. ASSUME NEW type \in OperationType, NEW r \in Role \cup {"run"}, May(type, r),
             Observe(type, r) \/ Doubt
      PROVE  Goal
  <2>1. CASE Doubt
    BY <2>1 DEF Doubt
  <2>2. CASE Observe(type, r)
    <3>1. Records(type, r)
      BY <1>0, <2>2 DEF Observe, Records
    <3>2. QED
      BY <3>1
  <2>3. QED
    BY <1>0, <2>1, <2>2
<1> HIDE DEF Goal
<1>1. ASSUME NEW r \in Producer, Assemble(r) PROVE Goal
  <2> r \in Role /\ r \notin Gate
    BY Configuration DEF Role
  <2>1. CASE CreateWorktree(r)
    <3>1. Observe("worktree.create", r) \/ Doubt
      BY <2>1 DEF CreateWorktree, Perform
    <3>2. QED
      BY <3>1, <1>0 DEF May, OperationType
  <2>2. CASE PublishTask(r)
    <3>1. (Observe("task.publish", r) \/ Doubt) /\ r \in Sourced
      BY <2>2 DEF PublishTask, Perform
    <3>2. QED
      BY <3>1, <1>0 DEF May, OperationType
  <2>3. CASE CreatePane(r)
    <3>1. (Observe("pane.create", r) \/ Doubt) /\ r \in Tasked \ Created
      BY <2>3 DEF CreatePane, OpenPane
    <3>2. QED
      BY <3>1, <1>0 DEF May, OperationType
  <2>4. CASE StartAgent(r)
    <3>1. (Observe("agent.start", r) \/ Doubt) /\ r \in Created
      BY <2>4 DEF StartAgent, Perform
    <3>2. QED
      BY <3>1, <1>0 DEF May, OperationType
  <2>5. QED
    BY <1>1, <2>1, <2>2, <2>3, <2>4 DEF Assemble
<1>2. ASSUME NEW r \in Role, Collect(r) PROVE Goal
  <2>1. CASE Pass(r)
    BY <2>1 DEF Pass, journal, Goal
  <2>2. CASE AcceptReport(r)
    <3>1. /\ Observe("report.harvest", r) \/ Doubt
          /\ r \in Started \ (Accepted \cup Rejected)
          /\ r \in todo
          /\ pc \in {"collect", "collect gates"}
          /\ slot[r] \in Report
      BY <2>2 DEF AcceptReport, Visit, Attached
    <3>2. r \in Gate => Gate \subseteq Started
      BY <3>1, Configuration DEF ControlInv
    <3>3. QED
      BY <3>1, <3>2, <1>0 DEF May, OperationType
  <2>3. CASE RejectReport(r)
    <3>1. /\ Observe("report.reject", r) \/ Doubt
          /\ r \in Started \ (Accepted \cup Rejected)
          /\ r \in todo
          /\ pc \in {"collect", "collect gates"}
      BY <2>3 DEF RejectReport, Visit, Attached
    <3>2. r \in Gate => Gate \subseteq Started
      BY <3>1, Configuration DEF ControlInv
    <3>3. QED
      BY <3>1, <3>2, <1>0 DEF May, OperationType
  <2>4. QED
    BY <1>2, <2>1, <2>2, <2>3 DEF Collect
<1>3. ASSUME NEW r \in Gate, Provision(r) PROVE Goal
  <2> r \in Role
    BY DEF Role
  <2>1. CASE CreateGateSource(r)
    <3>1. (Observe("gate-source.create", r) \/ Doubt) /\ pc = "provision"
      BY <2>1 DEF CreateGateSource, Perform, NextGate
    <3>2. QED
      BY <3>1, <1>0 DEF May, OperationType, ControlInv
  <2>2. CASE PublishGateTask(r)
    <3>1. (Observe("task.publish", r) \/ Doubt) /\ r \in Sourced /\ Gate \subseteq Sourced
      BY <2>2 DEF PublishGateTask, Perform, GateSourcesHold
    <3>2. QED
      BY <3>1, <1>0 DEF May, OperationType
  <2>3. CASE CreateGatePane(r)
    <3>1. /\ Observe("pane.create", r) \/ Doubt
          /\ r \in Tasked \ Created /\ Gate \subseteq Tasked
      BY <2>3 DEF CreateGatePane, OpenPane, NextGate
    <3>2. QED
      BY <3>1, <1>0 DEF May, OperationType
  <2>4. CASE StartGateAgent(r)
    <3>1. (Observe("agent.start", r) \/ Doubt) /\ r \in Created /\ Gate \subseteq Created
      BY <2>4 DEF StartGateAgent, Perform
    <3>2. QED
      BY <3>1, <1>0 DEF May, OperationType
  <2>5. QED
    BY <1>3, <2>1, <2>2, <2>3, <2>4 DEF Provision
<1>4. CASE Assembled \/ ConcludeCollection \/ ConcludeHarvest \/ Fail \/ StartHarvest
           \/ PlanIntegration \/ CollectGates \/ ResumeStandDown \/ CheckPanes
  BY <1>4 DEF Assembled, ConcludeCollection, ConcludeHarvest, Fail, StartHarvest,
     PlanIntegration, CollectGates, ResumeStandDown, CheckPanes, journal, Goal
<1>5. CASE PublishIntegration
  <2>1. CASE ~Integrated /\ (Observe("integration.reconcile", "run") \/ Doubt)
    BY <1>5, <2>1, <1>0 DEF PublishIntegration, May, OperationType
  <2>2. CASE UNCHANGED journal
    BY <2>2 DEF journal, Goal
  <2>3. QED
    BY <1>5, <2>1, <2>2 DEF PublishIntegration, Perform
<1>6. CASE HarvestIntegration
  <2>1. (Observe("integration.harvest", "run") \/ Doubt) /\ Integrated
    BY <1>6 DEF HarvestIntegration, Perform
  <2>2. QED
    BY <2>1, <1>0 DEF May, OperationType
<1>7. ASSUME NEW reason \in Reason, BeginStandDown(reason) PROVE Goal
  <2>1. CASE Doubt
    BY <2>1 DEF Doubt, Goal
  <2>2. CASE /\ standDown' = [outcome |-> Outcome(reason), closeSet |-> Created]
             /\ observed' = observed \cup {<<"run.stand-down.begin", "run">>}
             /\ UNCHANGED stuck
    <3>1. /\ standDown' \in [outcome : {"completed", "abandoned"}, closeSet : {Created}]
          /\ standDown' # NotBegun
      BY <2>2 DEF Outcome, NotBegun
    <3>2. ASSUME standDown'.outcome = "completed" PROVE Lifecycle \in CompletionStates
      <4>1. reason = "normal_completion"
        BY <2>2, <3>2 DEF Outcome
      <4>2. Allowed["normal_completion"] = CompletionStates
        BY DEF Allowed
      <4>3. QED
        BY <1>7, <4>1, <4>2 DEF BeginStandDown
    <3>3. Begins
      BY <1>7, <2>2, <3>1, <3>2 DEF BeginStandDown, Begins
    <3>4. QED
      BY <3>3 DEF Goal
  <2>3. QED
    BY <1>7, <2>1, <2>2 DEF BeginStandDown
<1>8. CASE ArchiveRun
  <2>1. CASE Doubt
    BY <2>1 DEF Doubt, Goal
  <2>2. CASE Observe("run.archive", "run")
    <3>1. Closed = standDown.closeSet
      BY <1>8 DEF ArchiveRun, StandDownState, Unknown
    <3>2. standDown.closeSet = Created /\ standDown # NotBegun
      BY <1>8 DEF ArchiveRun, ControlInv
    <3>3. QED
      BY <2>2, <3>1, <3>2, <1>0 DEF May, OperationType
  <2>3. QED
    BY <1>8, <2>1, <2>2 DEF ArchiveRun
<1>9. ASSUME NEW r \in Role, ClosePane(r) PROVE Goal
  <2>1. (Observe("pane.close", r) \/ Doubt) /\ pc = "close" /\ NextClose(r)
    BY <1>9 DEF ClosePane
  <2>2. standDown.closeSet = Created /\ r \in Created
    BY <2>1 DEF ControlInv, NextClose
  <2>3. QED
    BY <2>1, <2>2, <1>0 DEF May, OperationType
<1>10. CASE Die
  BY <1>10 DEF Die, Doubt, Goal
<1>11. CASE Outside
  BY <1>11 DEF Outside, MoveBranch, PublishReport, LosePane, SpoilReport, Tamper, Restore,
     MoveTarget, journal, Goal
<1>12. CASE UNCHANGED vars
  BY <1>12 DEF vars, journal, Goal
<1>13. QED
  BY <1>1, <1>2, <1>3, <1>4, <1>5, <1>6, <1>7, <1>8, <1>9, <1>10, <1>11, <1>12
     DEF Next, Refuse

-----------------------------------------------------------------------------
(* The journal *)

\* Which roles have an operation once one more is recorded.
LEMMA Extended ==
    ASSUME NEW type, NEW r, observed' = observed \cup {<<type, r>>}
    PROVE  /\ \A q \in Role :
              /\ q \in Sourced' <=> q \in Sourced \/
                    (q = r /\ type \in {"worktree.create", "gate-source.create"})
              /\ q \in Tasked' <=> q \in Tasked \/ (q = r /\ type = "task.publish")
              /\ q \in Created' <=> q \in Created \/ (q = r /\ type = "pane.create")
              /\ q \in Started' <=> q \in Started \/ (q = r /\ type = "agent.start")
              /\ q \in Accepted' <=> q \in Accepted \/ (q = r /\ type = "report.harvest")
              /\ q \in Rejected' <=> q \in Rejected \/ (q = r /\ type = "report.reject")
              /\ q \in Closed' <=> q \in Closed \/ (q = r /\ type = "pane.close")
           /\ Integrated' <=> Integrated \/ (r = "run" /\ type = "integration.reconcile")
           /\ Harvested' <=> Harvested \/ (r = "run" /\ type = "integration.harvest")
           /\ Archived' <=> Archived \/ (r = "run" /\ type = "run.archive")
BY DEF Sourced, Tasked, Created, Started, Accepted, Rejected, Closed, Integrated, Harvested,
   Archived, Did

\* Without a new operation nothing that is read from the journal changes.
LEMMA SameJournal ==
    ASSUME UNCHANGED observed
    PROVE  UNCHANGED <<Sourced, Tasked, Created, Started, Accepted, Rejected, Closed,
                       Integrated, Harvested, Archived>>
BY DEF Sourced, Tasked, Created, Started, Accepted, Rejected, Closed, Integrated, Harvested,
   Archived, Did

RoleSets ==
    /\ Sourced \subseteq Role /\ Tasked \subseteq Role /\ Created \subseteq Role
    /\ Started \subseteq Role /\ Accepted \subseteq Role /\ Rejected \subseteq Role
    /\ Closed \subseteq Role

\* The stages are sets of roles, before a step and after it.
LEMMA RolesOnly == RoleSets /\ RoleSets'
BY DEF RoleSets, Sourced, Tasked, Created, Started, Accepted, Rejected, Closed

\* An operation of one type leaves the sets of the other types alone.
LEMMA OtherSetsStay ==
    ASSUME NEW type, NEW r, observed' = observed \cup {<<type, r>>}
    PROVE  /\ type # "pane.create" => Created' = Created
           /\ type # "report.harvest" => Accepted' = Accepted
           /\ type # "report.reject" => Rejected' = Rejected
           /\ type # "pane.close" => Closed' = Closed
           /\ type # "integration.harvest" => Harvested' = Harvested
           /\ type # "run.archive" => Archived' = Archived
<1>1. type # "pane.create" => Created' = Created
  BY DEF Created, Did
<1>2. type # "report.harvest" => Accepted' = Accepted
  BY DEF Accepted, Did
<1>3. type # "report.reject" => Rejected' = Rejected
  BY DEF Rejected, Did
<1>4. type # "pane.close" => Closed' = Closed
  BY DEF Closed, Did
<1>5. /\ type # "integration.harvest" => Harvested' = Harvested
      /\ type # "run.archive" => Archived' = Archived
  BY DEF Harvested, Archived, Did
<1>6. QED
  BY <1>1, <1>2, <1>3, <1>4, <1>5

\* The stages of each role, and the barriers between those of the gates.
StagesInv ==
    /\ OrderedStages(Role)
    /\ \A r \in Role : r \notin Accepted \/ r \notin Rejected
    /\ Harvested => Integrated
    /\ \A r \in Gate :
        /\ r \in Sourced => Harvested
        /\ r \in Created => Gate \subseteq Tasked
        /\ r \in Started => Gate \subseteq Created
        /\ r \in Accepted => Gate \subseteq Started

\* The close set and what is closed of it.
CloseInv ==
    /\ standDown.closeSet \subseteq Created
    /\ ClosePrefix
    /\ Archived => standDown.closeSet = Created /\ Closed = Created

\* Stages and barriers are kept, because each operation has found what May says.
LEMMA StagesStep ==
    ASSUME TypeOK, ControlInv, StagesInv, [Next]_vars
    PROVE  StagesInv'
<1>1. CASE UNCHANGED <<observed, standDown>>
  <2>1. UNCHANGED <<Sourced, Tasked, Created, Started, Accepted, Rejected, Integrated,
                    Harvested>>
    BY <1>1, SameJournal
  <2>2. QED
    BY <2>1 DEF StagesInv, OrderedStages
<1>2. ASSUME NEW type \in OperationType, NEW r \in Role \cup {"run"}, Records(type, r)
      PROVE  StagesInv'
  <2>1. May(type, r) /\ observed' = observed \cup {<<type, r>>}
    BY <1>2 DEF Records
  <2> USE RolesOnly DEF RoleSets, May, StagesInv, OrderedStages, Role
  <2>2. OrderedStages(Role)'
    BY <2>1, Extended
  <2>3. (\A q \in Role : q \notin Accepted \/ q \notin Rejected)'
    BY <2>1, Extended
  <2>4. (Harvested => Integrated)'
    BY <2>1, Extended
  <2>5. ASSUME NEW q \in Gate
        PROVE  /\ q \in Sourced' => Harvested'
               /\ q \in Created' => Gate \subseteq Tasked'
               /\ q \in Started' => Gate \subseteq Created'
               /\ q \in Accepted' => Gate \subseteq Started'
    <3>1. q \in Role /\ q \notin Producer
      BY Configuration
    <3>2. q \in Sourced' => Harvested'
      BY <2>1, <3>1, Extended
    <3>3. q \in Created' => Gate \subseteq Tasked'
      BY <2>1, <3>1, Extended
    <3>4. q \in Started' => Gate \subseteq Created'
      BY <2>1, <3>1, Extended
    <3>5. q \in Accepted' => Gate \subseteq Started'
      BY <2>1, <3>1, Extended
    <3>6. QED
      BY <3>2, <3>3, <3>4, <3>5
  <2>6. QED
    BY <2>2, <2>3, <2>4, <2>5
<1>3. CASE Begins
  <2>1. observed' = observed \cup {<<"run.stand-down.begin", "run">>}
    BY <1>3 DEF Begins
  <2>2. QED
    BY <2>1, Extended DEF StagesInv, OrderedStages, Role
<1>4. QED
  BY <1>1, <1>2, <1>3, Steps

\* In a set of roles one comes first.
LEMMA FirstIsLeast ==
    ASSUME NEW S \in SUBSET Role, S # {}
    PROVE  First(S) \in S /\ \A q \in S : Rank[First(S)] <= Rank[q]
<1>1. \E r \in S : \A q \in S : Rank[r] <= Rank[q]
  <2> DEFINE Ranks == {Rank[r] : r \in S}
  <2>1. Ranks \subseteq Nat /\ Ranks # {}
    BY Configuration
  <2> DEFINE Less == {ss \in Nat \X Nat : ss[1] < ss[2]}
  <2>2. IsWellFoundedOn(Less, Nat)
    BY NatLessThanWellFounded DEF OpToRel
  <2>3. PICK n \in Ranks : \A m \in Ranks : <<m, n>> \notin Less
    <3> HIDE DEF Ranks, Less
    <3>1. QED
      BY <2>1, <2>2, WFMin
  <2>4. \A m \in Ranks : n <= m
    <3>1. ASSUME NEW m \in Ranks PROVE n <= m
      <4>1. m \in Nat /\ n \in Nat /\ <<m, n>> \notin Less
        BY <2>1, <2>3
      <4>2. QED
        BY <4>1
    <3>2. QED
      BY <3>1
  <2>5. QED
    BY <2>4
<1>2. QED
  BY <1>1 DEF First

\* A run that is archived or stuck is left alone by everybody.
LEMMA Final ==
    ASSUME ControlInv, stuck \/ Archived, [Next]_vars
    PROVE  UNCHANGED vars
<1>1. pc = "idle" /\ ~Loads /\ ~Alive
  BY DEF ControlInv, Loads, Alive
<1>2. ASSUME NEW r \in Producer, Assemble(r) PROVE FALSE
  BY <1>1, <1>2 DEF Assemble, CreateWorktree, PublishTask, CreatePane, StartAgent, Assembling
<1>3. ASSUME NEW r \in Role, Collect(r) \/ ClosePane(r) PROVE FALSE
  BY <1>1, <1>3 DEF Collect, Pass, AcceptReport, RejectReport, ClosePane
<1>4. ASSUME NEW r \in Gate, Provision(r) PROVE FALSE
  BY <1>1, <1>4 DEF Provision, CreateGateSource, PublishGateTask, CreateGatePane,
     StartGateAgent, NextGate
<1>5. ASSUME \/ Assembled \/ StartHarvest \/ ConcludeCollection \/ PlanIntegration
             \/ PublishIntegration \/ HarvestIntegration \/ CollectGates \/ ConcludeHarvest
             \/ ResumeStandDown \/ CheckPanes \/ ArchiveRun \/ Fail \/ Die
      PROVE  FALSE
  BY <1>1, <1>5 DEF Assembled, StartHarvest, ConcludeCollection, PlanIntegration,
     PublishIntegration, HarvestIntegration, CollectGates, ConcludeHarvest, ResumeStandDown,
     CheckPanes, ArchiveRun, Fail, Die
<1>6. ASSUME NEW reason \in Reason, BeginStandDown(reason) PROVE FALSE
  BY <1>1, <1>6 DEF BeginStandDown
<1>7. ASSUME Outside PROVE FALSE
  BY <1>1, <1>7 DEF Outside, MoveBranch, PublishReport, LosePane, SpoilReport, Tamper,
     Restore, MoveTarget
<1>8. QED
  BY <1>2, <1>3, <1>4, <1>5, <1>6, <1>7 DEF Next, Refuse

\* The closes stay a prefix of the close set, and the archive follows the last one.
LEMMA CloseStep ==
    ASSUME TypeOK, ControlInv, StagesInv, CloseInv, [Next]_vars
    PROVE  CloseInv'
<1>1. CASE UNCHANGED <<observed, standDown>>
  <2>1. UNCHANGED <<Created, Closed, Archived>>
    BY <1>1, SameJournal
  <2>2. QED
    BY <1>1, <2>1 DEF CloseInv, ClosePrefix
<1>2. CASE Archived
  <2>1. UNCHANGED vars
    BY <1>2, Final
  <2>2. QED
    BY <2>1, <1>1 DEF vars, journal
<1>3. ASSUME NEW type \in OperationType, NEW r \in Role \cup {"run"}, Records(type, r),
             ~Archived
      PROVE  CloseInv'
  <2>1. /\ May(type, r) /\ observed' = observed \cup {<<type, r>>}
        /\ standDown' = standDown
    BY <1>3 DEF Records
  <2>2. Created \subseteq Created'
    BY <2>1, Extended, RolesOnly DEF RoleSets
  <2>3. CASE type \notin {"pane.close", "run.archive"}
    <3>1. Closed' = Closed /\ ~Archived'
      BY <1>3, <2>1, <2>3, OtherSetsStay
    <3>2. QED
      BY <2>1, <2>2, <3>1 DEF CloseInv, ClosePrefix
  <2>4. CASE type = "run.archive"
    <3>1. Closed' = Closed /\ Created' = Created
      BY <2>1, <2>4, OtherSetsStay
    <3>2. standDown.closeSet = Created /\ Closed = Created
      BY <2>1, <2>4 DEF May
    <3>3. QED
      BY <2>1, <3>1, <3>2 DEF CloseInv, ClosePrefix
  <2>5. CASE type = "pane.close"
    <3> DEFINE pending == standDown.closeSet \ Closed
    <3>1. NextClose(r) /\ r \in Role
      BY <2>1, <2>5, RolesOnly DEF RoleSets, May
    <3>2. r \in pending /\ r = First(pending) /\ pending \subseteq Role
      BY <3>1, RolesOnly DEF RoleSets, NextClose, CloseInv
    <3>3. \A q \in pending : Rank[r] <= Rank[q]
      BY <3>2, FirstIsLeast
    <3>4. \A q \in pending \ {r} : Rank[r] < Rank[q]
      <4>1. ASSUME NEW q \in pending, q # r PROVE Rank[r] < Rank[q]
        <5>1. q \in Role /\ Rank[r] \in Nat /\ Rank[q] \in Nat /\ Rank[r] # Rank[q]
          BY <3>1, <3>2, <4>1, Configuration
        <5>2. QED
          BY <3>3, <4>1, <5>1
      <4>2. QED
        BY <4>1
    <3>5. Closed' = Closed \cup {r} /\ Created' = Created /\ ~Archived'
      <4>1. Closed' = Closed \cup {r}
        BY <2>1, <2>5, <3>1 DEF Closed, Did
      <4>2. QED
        BY <1>3, <2>1, <2>5, <4>1, OtherSetsStay
    <3>6. QED
      BY <2>1, <3>2, <3>4, <3>5 DEF CloseInv, ClosePrefix
  <2>6. QED
    BY <2>3, <2>4, <2>5
<1>4. CASE Begins /\ ~Archived
  <2>1. observed' = observed \cup {<<"run.stand-down.begin", "run">>}
    BY <1>4 DEF Begins
  <2>2. Created' = Created /\ Closed' = Closed /\ ~Archived'
    BY <1>4, <2>1, OtherSetsStay
  <2>3. Closed = {}
    BY <1>4 DEF Begins, NotBegun, CloseInv, ClosePrefix
  <2>4. standDown'.closeSet = Created
    BY <1>4 DEF Begins
  <2>5. QED
    BY <2>2, <2>3, <2>4 DEF CloseInv, ClosePrefix
<1>5. QED
  BY <1>1, <1>2, <1>3, <1>4, Steps

\* The states in which a run may be stood down as completed.
LEMMA Completion ==
    ASSUME Lifecycle \in CompletionStates
    PROVE  Harvested /\ Gate \subseteq Accepted /\ Gate \cap Rejected = {}
<1>1. Lifecycle \in {"integration_harvested_no_gates", "gate_reports_collected"}
  BY DEF CompletionStates
<1>2. StandDownState \notin CompletionStates
  BY DEF StandDownState, CompletionStates, Unknown
<1>3. DeliveryState \notin CompletionStates
  BY DEF DeliveryState, CompletionStates, Unknown
<1>4. Harvested /\ Lifecycle = GateState(Refusals)
  BY <1>1, <1>2, <1>3 DEF Lifecycle, CompletionStates, Unknown
<1>5. CASE Gate = {}
  BY <1>4, <1>5
<1>6. CASE Gate # {}
  <2>1. Gate \cap (Rejected \cup Refusals) = {} /\ Gate \subseteq Accepted
    BY <1>1, <1>4, <1>6 DEF GateState, Unknown
  <2>2. QED
    BY <1>4, <2>1
<1>7. QED
  BY <1>5, <1>6

\* What made a run complete is not taken back: an accepted report is never rejected.
LEMMA CompletedStep ==
    ASSUME TypeOK, ControlInv, CompletedMeansCollected, [Next]_vars
    PROVE  CompletedMeansCollected'
<1>1. CASE UNCHANGED <<observed, standDown>>
  BY <1>1, SameJournal DEF CompletedMeansCollected
<1>2. ASSUME NEW type \in OperationType, NEW r \in Role \cup {"run"}, Records(type, r)
      PROVE  CompletedMeansCollected'
  BY <1>2, Extended, RolesOnly DEF RoleSets, CompletedMeansCollected, Records, May, Role
<1>3. CASE Begins
  <2>1. observed' = observed \cup {<<"run.stand-down.begin", "run">>}
    BY <1>3 DEF Begins
  <2>2. Accepted' = Accepted /\ Rejected' = Rejected /\ Harvested' = Harvested
    BY <2>1, OtherSetsStay
  <2>3. QED
    BY <1>3, <2>2, Completion DEF Begins, CompletedMeansCollected
<1>4. QED
  BY <1>1, <1>2, <1>3, Steps

-----------------------------------------------------------------------------
(* The running command *)

\* Nothing is ever taken out of the journal.
LEMMA Grows ==
    ASSUME TypeOK, ControlInv, [Next]_vars
    PROVE  /\ Sourced \subseteq Sourced' /\ Tasked \subseteq Tasked'
           /\ Created \subseteq Created' /\ Started \subseteq Started'
           /\ Accepted \subseteq Accepted'
           /\ Integrated => Integrated'
           /\ Harvested => Harvested'
<1>1. observed \subseteq observed'
  BY Steps DEF Records, Begins
<1>2. QED
  BY <1>1 DEF Sourced, Tasked, Created, Started, Accepted, Integrated, Harvested, Did

\* A command that goes on where it was, having recorded at most an operation that is
\* neither the archive nor one of its panes.
Stays ==
    /\ pc' = pc /\ todo' \subseteq todo /\ plan' = plan
    /\ stuck' = stuck /\ Archived' = Archived
    /\ pc \in {"check panes", "close"} => UNCHANGED standDown /\ Created' = Created

PlanKept == pc' = "publish" => PlanIntegration \/ (pc = "publish" /\ plan' = plan)

\* A command that stays where it is may go on relying on what it relied on.
LEMMA StaysKeeps ==
    ASSUME TypeOK, ControlInv, [Next]_vars, Stays
    PROVE  ControlInv' /\ PlanKept
BY Grows DEF ControlInv, Stays, PlanKept

\* An idle conductor relies on nothing.
LEMMA EndKeeps == End => ControlInv' /\ PlanKept
BY DEF End, ControlInv, PlanKept

\* An operation of a command that is in its assembling or provisioning loop.
LEMMA LoopKeeps ==
    ASSUME TypeOK, ControlInv, [Next]_vars, NEW type, NEW r, type # "run.archive",
           pc \in {"assemble", "provision"},
           (Observe(type, r) /\ Continue(pc)) \/ Doubt
    PROVE  ControlInv' /\ PlanKept
<1>1. CASE Observe(type, r) /\ Continue(pc)
  <2>1. observed' = observed \cup {<<type, r>>}
    BY <1>1 DEF Observe
  <2>2. Archived' = Archived
    BY <2>1, OtherSetsStay
  <2>3. Stays
    BY <1>1, <2>2 DEF Stays, Observe, Continue
  <2>4. QED
    BY <2>3, StaysKeeps
<1>2. CASE Doubt
  BY <1>2, EndKeeps DEF Doubt
<1>3. QED
  BY <1>1, <1>2

\* Every step leaves the next one what it relies on, and only a fresh plan is published.
LEMMA ControlStep ==
    ASSUME TypeOK, ControlInv, [Next]_vars
    PROVE  ControlInv' /\ PlanKept
<1> DEFINE Goal == ControlInv' /\ PlanKept
<1> SUFFICES Goal
  OBVIOUS
<1> HIDE DEF Goal
<1>0. /\ End => Goal
      /\ Doubt => Goal
      /\ Stays => Goal
  BY StaysKeeps, EndKeeps DEF Doubt, Goal
<1>1. ASSUME NEW r \in Producer, Assemble(r) PROVE Goal
  <2>1. PICK type \in {"worktree.create", "task.publish", "pane.create", "agent.start"} :
          (Observe(type, r) /\ Continue("assemble")) \/ Doubt
    BY <1>1 DEF Assemble, CreateWorktree, PublishTask, CreatePane, StartAgent, Perform,
       OpenPane
  <2>2. pc = "assemble"
    BY <1>1 DEF Assemble, CreateWorktree, PublishTask, CreatePane, StartAgent, Assembling
  <2>3. QED
    BY <2>1, <2>2, LoopKeeps DEF Goal
<1>2. ASSUME NEW r \in Role, Collect(r) PROVE Goal
  <2>1. CASE Pass(r)
    <3>1. Stays
      BY <2>1, SameJournal DEF Pass, Leave, journal, Stays
    <3>2. QED
      BY <3>1, <1>0
  <2>2. ASSUME NEW type \in {"report.harvest", "report.reject"}, Observe(type, r), Leave(r),
               pc \in {"collect", "collect gates"}
        PROVE  Goal
    <3>1. Archived' = Archived
      BY <2>2, OtherSetsStay DEF Observe
    <3>2. Stays
      BY <2>2, <3>1 DEF Observe, Leave, Stays
    <3>3. QED
      BY <3>2, <1>0
  <2>3. QED
    BY <1>0, <1>2, <2>1, <2>2 DEF Collect, AcceptReport, RejectReport
<1>3. ASSUME NEW r \in Gate, Provision(r) PROVE Goal
  <2>1. PICK type \in {"gate-source.create", "task.publish", "pane.create", "agent.start"} :
          (Observe(type, r) /\ Continue("provision")) \/ Doubt
    BY <1>3 DEF Provision, CreateGateSource, PublishGateTask, CreateGatePane, StartGateAgent,
       Perform, OpenPane
  <2>2. pc = "provision"
    BY <1>3 DEF Provision, CreateGateSource, PublishGateTask, CreateGatePane, StartGateAgent,
       NextGate
  <2>3. QED
    BY <2>1, <2>2, LoopKeeps DEF Goal
<1>4. CASE Assembled \/ ConcludeCollection \/ ConcludeHarvest \/ Fail \/ Die
  BY <1>0, <1>4 DEF Assembled, ConcludeCollection, ConcludeHarvest, Fail, Die
<1>5. CASE StartHarvest
  <2>1. UNCHANGED <<Harvested, Archived, stuck>> /\ ~stuck /\ ~Archived
    BY <1>5, SameJournal DEF StartHarvest, Loads, journal
  <2>2. QED
    BY <1>5, <2>1 DEF StartHarvest, ControlInv, PlanKept, Goal
<1>6. CASE PlanIntegration
  <2>1. UNCHANGED <<Archived, stuck>> /\ pc = "collect" /\ pc' = "publish"
    BY <1>6, SameJournal DEF PlanIntegration, journal
  <2>2. QED
    BY <1>6, <2>1 DEF ControlInv, PlanKept, Goal
<1>7. CASE PublishIntegration
  <2>1. CASE Observe("integration.reconcile", "run") /\ Continue("gather")
    <3>1. Archived' = Archived
      BY <2>1, OtherSetsStay DEF Observe
    <3>2. QED
      BY <1>7, <2>1, <3>1
         DEF PublishIntegration, Observe, Continue, ControlInv, PlanKept, Goal
  <2>2. CASE Continue("gather") /\ UNCHANGED <<journal, world>>
    <3>1. UNCHANGED <<Archived, stuck>>
      BY <2>2, SameJournal DEF journal
    <3>2. QED
      BY <1>7, <2>2, <3>1 DEF PublishIntegration, Continue, ControlInv, PlanKept, Goal
  <2>3. QED
    BY <1>0, <1>7, <2>1, <2>2 DEF PublishIntegration, Perform
<1>8. CASE HarvestIntegration
  <2>1. CASE Observe("integration.harvest", "run") /\ Continue("provision")
    <3>1. Archived' = Archived /\ Harvested'
      BY <2>1, OtherSetsStay DEF Observe, Harvested, Did
    <3>2. QED
      BY <1>8, <2>1, <3>1
         DEF HarvestIntegration, Observe, Continue, ControlInv, PlanKept, Goal
  <2>2. QED
    BY <1>0, <1>8, <2>1 DEF HarvestIntegration, Perform
<1>9. CASE CollectGates
  <2>1. UNCHANGED <<Started, Harvested, Archived, stuck>>
    BY <1>9, SameJournal DEF CollectGates, journal
  <2>2. QED
    BY <1>9, <2>1 DEF CollectGates, ControlInv, PlanKept, Goal
<1>10. ASSUME NEW reason \in Reason, BeginStandDown(reason) PROVE Goal
  <2>1. CASE /\ standDown' = [outcome |-> Outcome(reason), closeSet |-> Created]
             /\ observed' = observed \cup {<<"run.stand-down.begin", "run">>}
             /\ Continue("check panes")
             /\ UNCHANGED stuck
    <3>0. observed' = observed \cup {<<"run.stand-down.begin", "run">>}
      BY <2>1
    <3>1. Created' = Created /\ Archived' = Archived
      BY <3>0, OtherSetsStay
    <3>2. standDown'.closeSet = Created' /\ standDown' # NotBegun
      BY <2>1, <3>1 DEF Outcome, NotBegun
    <3>3. pc' = "check panes" /\ ~stuck' /\ ~Archived'
      BY <1>10, <2>1, <3>1 DEF BeginStandDown, Loads, Continue
    <3>4. QED
      BY <3>2, <3>3 DEF ControlInv, PlanKept, Goal
  <2>2. QED
    BY <1>0, <1>10, <2>1 DEF BeginStandDown
<1>11. CASE ResumeStandDown \/ CheckPanes
  <2>1. UNCHANGED <<Created, Archived, stuck, standDown>>
    BY <1>11, SameJournal DEF ResumeStandDown, CheckPanes, journal
  <2>2. QED
    BY <1>11, <2>1 DEF ResumeStandDown, MayResume, CheckPanes, Loads, Continue, ControlInv,
       PlanKept, Goal
<1>12. CASE ArchiveRun
  BY <1>0, <1>12 DEF ArchiveRun
<1>13. ASSUME NEW r \in Role, ClosePane(r) PROVE Goal
  <2>1. CASE Observe("pane.close", r) /\ Continue("close")
    <3>1. Created' = Created /\ Archived' = Archived
      BY <2>1, OtherSetsStay DEF Observe
    <3>2. Stays
      BY <1>13, <2>1, <3>1 DEF ClosePane, Observe, Continue, Stays
    <3>3. QED
      BY <3>2, <1>0
  <2>2. QED
    BY <1>0, <1>13, <2>1 DEF ClosePane
<1>14. CASE Outside \/ UNCHANGED vars
  <2>1. UNCHANGED <<journal, pc, todo, plan>>
    BY <1>14 DEF Outside, MoveBranch, PublishReport, LosePane, SpoilReport, Tamper, Restore,
       MoveTarget, vars
  <2>2. Stays
    BY <2>1, SameJournal DEF Stays, journal
  <2>3. QED
    BY <2>2, <1>0
<1>15. QED
  BY <1>1, <1>2, <1>3, <1>4, <1>5, <1>6, <1>7, <1>8, <1>9, <1>10, <1>11, <1>12, <1>13, <1>14
     DEF Next, Refuse

-----------------------------------------------------------------------------
(* Panes, slots and the integration ref *)

PanesMove ==
    /\ \A q \in panes' \ panes : q \notin Created /\ (q \in Gate => Gate \subseteq Tasked)
    /\ \A q \in Closed' \ Closed : q \notin panes'

SlotsKeep == \A r \in Role : slot[r].verdict # Empty => slot'[r] = slot[r]

\* The one step that swaps the ref.
Swaps ==
    /\ pc = "publish" /\ ~Integrated /\ Producer # {}
    /\ Integrated' \/ stuck'
    /\ merged' = plan /\ swaps' = swaps + 1

\* What each step may do to panes, slots and the integration ref.
LEMMA WorldStep ==
    ASSUME TypeOK, [Next]_vars
    PROVE  PanesMove /\ SlotsKeep /\ (UNCHANGED <<merged, swaps>> \/ Swaps)
<1> DEFINE Goal == PanesMove /\ SlotsKeep /\ (UNCHANGED <<merged, swaps>> \/ Swaps)
<1> SUFFICES Goal
  OBVIOUS
<1>0. ASSUME UNCHANGED world, Closed' = Closed PROVE Goal
  BY <1>0 DEF PanesMove, SlotsKeep, world
<1>a. ASSUME UNCHANGED world, UNCHANGED observed PROVE Goal
  BY <1>0, <1>a, SameJournal
<1>b. ASSUME NEW type, NEW r, type # "pane.close", UNCHANGED world, Observe(type, r) \/ Doubt
      PROVE  Goal
  <2>1. Closed' = Closed
    BY <1>b, OtherSetsStay, SameJournal DEF Observe, Doubt
  <2>2. QED
    BY <1>0, <1>b, <2>1
<1>c. ASSUME NEW r, NEW next, OpenPane(r, next), r \notin Created,
             r \in Gate => Gate \subseteq Tasked
      PROVE  Goal
  <2>1. Closed' = Closed
    BY <1>c, OtherSetsStay, SameJournal DEF OpenPane, Observe, Doubt
  <2>2. panes' \subseteq panes \cup {r} /\ UNCHANGED <<slot, merged, swaps>>
    BY <1>c DEF OpenPane
  <2>3. QED
    BY <1>c, <2>1, <2>2 DEF PanesMove, SlotsKeep
<1> HIDE DEF Goal
<1>1. ASSUME NEW r \in Producer, Assemble(r) PROVE Goal
  <2>1. CASE CreatePane(r)
    <3>1. OpenPane(r, "assemble") /\ r \notin Created /\ r \notin Gate
      BY <2>1, Configuration DEF CreatePane
    <3>2. QED
      BY <3>1, <1>c
  <2>2. CASE CreateWorktree(r) \/ PublishTask(r) \/ StartAgent(r)
    <3>1. PICK type \in {"worktree.create", "task.publish", "agent.start"} :
            Observe(type, r) \/ Doubt
      BY <2>2 DEF CreateWorktree, PublishTask, StartAgent, Perform
    <3>2. UNCHANGED world
      BY <2>2 DEF CreateWorktree, PublishTask, StartAgent
    <3>3. QED
      BY <3>1, <3>2, <1>b
  <2>3. QED
    BY <1>1, <2>1, <2>2 DEF Assemble
<1>2. ASSUME NEW r \in Role, Collect(r) PROVE Goal
  <2>1. CASE Pass(r)
    BY <1>a, <2>1 DEF Pass, journal
  <2>2. CASE AcceptReport(r) \/ RejectReport(r)
    <3>1. PICK type \in {"report.harvest", "report.reject"} : Observe(type, r) \/ Doubt
      BY <2>2 DEF AcceptReport, RejectReport
    <3>2. UNCHANGED world
      BY <2>2 DEF AcceptReport, RejectReport
    <3>3. QED
      BY <3>1, <3>2, <1>b
  <2>3. QED
    BY <1>2, <2>1, <2>2 DEF Collect
<1>3. ASSUME NEW r \in Gate, Provision(r) PROVE Goal
  <2>1. CASE CreateGatePane(r)
    <3>1. OpenPane(r, "provision") /\ r \notin Created /\ Gate \subseteq Tasked
      BY <2>1 DEF CreateGatePane, NextGate
    <3>2. QED
      BY <3>1, <1>c
  <2>2. CASE CreateGateSource(r) \/ PublishGateTask(r) \/ StartGateAgent(r)
    <3>1. PICK type \in {"gate-source.create", "task.publish", "agent.start"} :
            Observe(type, r) \/ Doubt
      BY <2>2 DEF CreateGateSource, PublishGateTask, StartGateAgent, Perform
    <3>2. UNCHANGED world
      BY <2>2 DEF CreateGateSource, PublishGateTask, StartGateAgent
    <3>3. QED
      BY <3>1, <3>2, <1>b
  <2>3. QED
    BY <1>3, <2>1, <2>2 DEF Provision
<1>4. CASE Assembled \/ ConcludeCollection \/ ConcludeHarvest \/ Fail \/ StartHarvest
           \/ PlanIntegration \/ CollectGates \/ ResumeStandDown \/ CheckPanes
  BY <1>a, <1>4 DEF Assembled, ConcludeCollection, ConcludeHarvest, Fail, StartHarvest,
     PlanIntegration, CollectGates, ResumeStandDown, CheckPanes, journal
<1>5. CASE PublishIntegration
  <2>1. CASE ~Integrated /\ Swap /\ Perform("integration.reconcile", "run", "gather")
    <3>1. Integrated' \/ stuck'
      BY <2>1 DEF Perform, Observe, Doubt, Integrated, Did
    <3>2. \/ UNCHANGED <<merged, swaps>>
          \/ merged' = plan /\ swaps' = swaps + 1 /\ Producer # {}
      BY <2>1 DEF Swap
    <3>3. Closed' = Closed
      BY <2>1, OtherSetsStay, SameJournal DEF Perform, Observe, Doubt
    <3>4. UNCHANGED <<slot, panes>>
      BY <2>1 DEF Swap
    <3>5. QED
      BY <1>5, <2>1, <3>1, <3>2, <3>3, <3>4
         DEF PublishIntegration, Swaps, PanesMove, SlotsKeep, Goal
  <2>2. CASE Doubt /\ UNCHANGED world
    BY <1>a, <2>2 DEF Doubt
  <2>3. CASE UNCHANGED <<journal, world>>
    BY <1>a, <2>3 DEF journal
  <2>4. QED
    BY <1>5, <2>1, <2>2, <2>3 DEF PublishIntegration
<1>6. CASE HarvestIntegration
  <2>1. Observe("integration.harvest", "run") \/ Doubt
    BY <1>6 DEF HarvestIntegration, Perform
  <2>2. QED
    BY <1>6, <2>1, <1>b DEF HarvestIntegration
<1>7. ASSUME NEW reason \in Reason, BeginStandDown(reason) PROVE Goal
  <2>1. \/ observed' = observed \cup {<<"run.stand-down.begin", "run">>}
        \/ observed' = observed
    BY <1>7 DEF BeginStandDown, Doubt
  <2>2. Closed' = Closed
    BY <2>1, OtherSetsStay, SameJournal
  <2>3. QED
    BY <1>0, <1>7, <2>2 DEF BeginStandDown
<1>8. CASE ArchiveRun
  <2>1. Observe("run.archive", "run") \/ Doubt
    BY <1>8 DEF ArchiveRun
  <2>2. QED
    BY <1>8, <2>1, <1>b DEF ArchiveRun
<1>9. ASSUME NEW r \in Role, ClosePane(r) PROVE Goal
  <2>1. \A q \in Closed' \ Closed : q = r /\ panes' = panes \ {r}
    <3>1. CASE Observe("pane.close", r) /\ panes' = panes \ {r}
      BY <3>1 DEF Observe, Closed, Did
    <3>2. CASE Doubt
      BY <3>2, SameJournal DEF Doubt
    <3>3. QED
      BY <1>9, <3>1, <3>2 DEF ClosePane
  <2>2. panes' \subseteq panes /\ UNCHANGED <<slot, merged, swaps>>
    BY <1>9 DEF ClosePane
  <2>3. QED
    BY <2>1, <2>2 DEF PanesMove, SlotsKeep, Goal
<1>10. CASE Die
  BY <1>a, <1>10 DEF Die, Doubt
<1>11. CASE Outside
  <2>1. UNCHANGED <<merged, swaps>> /\ panes' \subseteq panes /\ Closed' = Closed
    BY <1>11, SameJournal DEF Outside, MoveBranch, PublishReport, LosePane, SpoilReport,
       Tamper, Restore, MoveTarget, journal
  <2>2. SlotsKeep
    BY <1>11 DEF Outside, MoveBranch, PublishReport, LosePane, SpoilReport, Tamper, Restore,
       MoveTarget, SlotsKeep, TypeOK
  <2>3. QED
    BY <2>1, <2>2 DEF PanesMove, Goal
<1>12. CASE UNCHANGED vars
  BY <1>a, <1>12 DEF vars, journal
<1>13. QED
  BY <1>1, <1>2, <1>3, <1>4, <1>5, <1>6, <1>7, <1>8, <1>9, <1>10, <1>11, <1>12
     DEF Next, Refuse

\* The commits are those of accepted reports of success.
Reported(commits) ==
    \A r \in Producer : /\ r \in Accepted
                        /\ slot[r].verdict = "delivered"
                        /\ commits[r] = slot[r].sha

WorldInv ==
    /\ panes \cap Closed = {}
    /\ Gate \cap panes # {} => Gate \subseteq Tasked
    /\ pc = "publish" => Reported(plan)
    /\ swaps <= 1
    /\ swaps > 0 => (Integrated \/ stuck) /\ Reported(merged)

\* Panes, plan and swap follow the journal.
LEMMA WorldKept ==
    ASSUME TypeOK, ControlInv, CloseInv, WorldInv, [Next]_vars
    PROVE  WorldInv'
<1>1. (panes \cap Closed = {})'
  BY WorldStep DEF PanesMove, WorldInv, CloseInv, ClosePrefix
<1>2. (Gate \cap panes # {} => Gate \subseteq Tasked)'
  BY WorldStep, Grows DEF PanesMove, WorldInv
<1>3. ASSUME NEW commits, Reported(commits)
      PROVE  \A r \in Producer : /\ r \in Accepted'
                                /\ slot'[r].verdict = "delivered"
                                /\ commits[r] = slot'[r].sha
  BY <1>3, WorldStep, Grows DEF Reported, SlotsKeep, Empty, Role
<1>4. (pc = "publish" => Reported(plan))'
  <2>1. CASE PlanIntegration
    <3>1. Reported(plan)'
      BY <2>1, SameJournal
         DEF PlanIntegration, Preflight, SourceHolds, Reported, journal, world
    <3>2. QED
      BY <3>1
  <2>2. CASE pc = "publish" /\ plan' = plan
    <3>1. Reported(plan)
      BY <2>2 DEF WorldInv
    <3>2. Reported(plan)'
      BY <1>3, <2>2, <3>1 DEF Reported
    <3>3. QED
      BY <3>2
  <2>3. QED
    BY <2>1, <2>2, ControlStep DEF PlanKept
<1>5. (/\ swaps <= 1
       /\ swaps > 0 => (Integrated \/ stuck) /\ Reported(merged))'
  <2>1. CASE Swaps
    <3>1. ~stuck
      BY <2>1 DEF Swaps, ControlInv
    <3>2. swaps = 0
      BY <2>1, <3>1 DEF Swaps, WorldInv, TypeOK
    <3>3. Reported(plan)
      BY <2>1 DEF Swaps, WorldInv
    <3>4. Reported(merged)'
      BY <1>3, <2>1, <3>3 DEF Swaps, Reported
    <3>5. QED
      BY <2>1, <3>2, <3>4 DEF Swaps
  <2>2. CASE UNCHANGED <<merged, swaps>>
    <3>1. swaps > 0 => Integrated' \/ stuck'
      <4>1. CASE stuck
        BY <4>1, Final DEF vars, journal
      <4>2. CASE ~stuck
        BY <4>2, Grows DEF WorldInv
      <4>3. QED
        BY <4>1, <4>2
    <3>2. swaps > 0 => Reported(merged)'
      BY <1>3, <2>2 DEF WorldInv, Reported
    <3>3. QED
      BY <2>2, <3>1, <3>2 DEF WorldInv
  <2>3. QED
    BY <2>1, <2>2, WorldStep
<1>6. QED
  BY <1>1, <1>2, <1>4, <1>5 DEF WorldInv

\* An accepted report is one of success or of blocking, and stays what it was.
AcceptedInv == \A r \in Accepted : slot[r] \in Report

LEMMA AcceptedStays ==
    ASSUME TypeOK, AcceptedInv, [Next]_vars
    PROVE  \A r \in Accepted : slot'[r] = slot[r]
BY WorldStep, RolesOnly DEF RoleSets, SlotsKeep, AcceptedInv, Report, Empty

LEMMA AcceptedStep ==
    ASSUME TypeOK, ControlInv, AcceptedInv, [Next]_vars
    PROVE  AcceptedInv'
<1>1. CASE UNCHANGED <<observed, standDown>>
  BY <1>1, SameJournal, AcceptedStays DEF AcceptedInv
<1>2. ASSUME NEW type \in OperationType, NEW r \in Role \cup {"run"}, Records(type, r)
      PROVE  AcceptedInv'
  <2>1. May(type, r) /\ observed' = observed \cup {<<type, r>>}
    BY <1>2 DEF Records
  <2>2. CASE type # "report.harvest"
    <3>1. Accepted' = Accepted
      BY <2>1, <2>2, OtherSetsStay
    <3>2. QED
      BY <3>1, AcceptedStays DEF AcceptedInv
  <2>3. CASE type = "report.harvest"
    <3>1. r \in Role /\ slot[r] \in Report
      BY <2>1, <2>3, RolesOnly DEF RoleSets, May
    <3>2. slot'[r] = slot[r]
      BY <3>1, WorldStep DEF SlotsKeep, Report, Empty
    <3>3. \A q \in Accepted' : q \in Accepted \/ q = r
      BY <2>1, Extended, RolesOnly DEF RoleSets
    <3>4. QED
      BY <3>1, <3>2, <3>3, AcceptedStays DEF AcceptedInv
  <2>4. QED
    BY <2>2, <2>3
<1>3. CASE Begins
  <2>1. observed' = observed \cup {<<"run.stand-down.begin", "run">>}
    BY <1>3 DEF Begins
  <2>2. Accepted' = Accepted
    BY <2>1, OtherSetsStay
  <2>3. QED
    BY <2>2, AcceptedStays DEF AcceptedInv
<1>4. QED
  BY <1>1, <1>2, <1>3, Steps

-----------------------------------------------------------------------------
(* The invariant and what follows from it *)

IInv ==
    /\ ControlInv /\ StagesInv /\ CloseInv /\ CompletedMeansCollected
    /\ WorldInv /\ AcceptedInv

\* Before the first operation of assemble the journal holds nothing of a role.
LEMMA NothingYet ==
    ASSUME Init
    PROVE  /\ Sourced = {} /\ Tasked = {} /\ Created = {} /\ Started = {}
           /\ Accepted = {} /\ Rejected = {} /\ Closed = {}
           /\ ~Integrated /\ ~Harvested /\ ~Archived
BY DEF Init, Sourced, Tasked, Created, Started, Accepted, Rejected, Closed, Integrated,
   Harvested, Archived, Did

\* What the commands rely on, the order of the stages, the close set and the swap,
\* taken together, are kept by every step.
THEOREM Inductive == Spec => []IInv
<1>1. Init => IInv
  <2> SUFFICES ASSUME Init PROVE IInv
    OBVIOUS
  <2> USE NothingYet
  <2>1. ControlInv
    BY DEF Init, ControlInv
  <2>2. StagesInv
    BY DEF StagesInv, OrderedStages
  <2>3. CloseInv
    BY DEF Init, CloseInv, ClosePrefix, NotBegun
  <2>4. CompletedMeansCollected
    BY DEF Init, CompletedMeansCollected, NotBegun
  <2>5. WorldInv
    BY DEF Init, WorldInv
  <2>6. AcceptedInv
    BY DEF AcceptedInv
  <2>7. QED
    BY <2>1, <2>2, <2>3, <2>4, <2>5, <2>6 DEF IInv
<1>2. TypeOK /\ IInv /\ [Next]_vars => IInv'
  BY ControlStep, StagesStep, CloseStep, CompletedStep, WorldKept, AcceptedStep DEF IInv
<1>3. QED
  BY <1>1, <1>2, TypeCorrect, PTL DEF Spec

\* A closing run has a state: its closes are a prefix of its close set.
LEMMA StandDownHasAState ==
    ASSUME CloseInv PROVE StandDownState # Unknown
BY DEF CloseInv, StandDownState, Unknown

\* So has a run before its integration, the journals of Mixed and Early excepted.
LEMMA DeliveryHasAState ==
    ASSUME StagesInv, ~Mixed, ~Early PROVE DeliveryState # Unknown
<1>1. OrderedStages(Producer)
  BY DEF StagesInv, OrderedStages, Role
<1>2. QED
  BY <1>1 DEF DeliveryState, Mixed, Early, Unknown

\* So has a run after it, whatever sources are refused.
LEMMA GatesHaveAState ==
    ASSUME StagesInv, NEW refused PROVE GateState(refused) # Unknown
<1>1. OrderedStages(Gate)
  BY DEF StagesInv, OrderedStages, Role
<1>2. Gate \subseteq Tasked \/ Gate \cap (Created \cup Started) = {}
  BY DEF StagesInv, OrderedStages, Role
<1>3. Gate \subseteq Started \/ Gate \cap Accepted = {}
  BY DEF StagesInv
<1>4. QED
  BY <1>1, <1>2, <1>3 DEF GateState, Unknown

\* The scanner derives a state from every journal that the commands can write, the two
\* kinds of journal in Mixed and Early excepted.
THEOREM EveryOtherJournalHasAState == Spec => []ClassifiesAllOthers
<1>1. IInv => ClassifiesAllOthers
  <2> SUFFICES ASSUME IInv, ~Mixed, ~Early PROVE Lifecycle # Unknown
    BY DEF ClassifiesAllOthers
  <2>1. StandDownState # Unknown /\ DeliveryState # Unknown
    BY StandDownHasAState, DeliveryHasAState DEF IInv
  <2>2. GateState(Refusals) # Unknown
    BY GatesHaveAState DEF IInv
  <2>3. Harvested \/ Gate \cap (Sourced \cup Tasked \cup Created) # {} => Integrated
    BY DEF IInv, StagesInv, OrderedStages, Role
  <2>4. QED
    BY <2>1, <2>2, <2>3 DEF Lifecycle, Unknown
<1>2. QED
  BY <1>1, Inductive, PTL

\* From every journal that can be loaded, those two kinds excepted, a stand-down may
\* begin or, if one has begun, the scanner knows how far it is.  Whether that one can be
\* resumed is another matter: after a late harvest it cannot (MayResume).
THEOREM StandDownIsAvailable == Spec => []OthersCanStandDown
<1>1. IInv => OthersCanStandDown
  <2> SUFFICES ASSUME IInv, Loads, ~Mixed, ~Early
               PROVE  IF standDown = NotBegun
                      THEN \E reason \in Reason : Lifecycle \in Allowed[reason]
                      ELSE StandDownState # Unknown
    BY DEF OthersCanStandDown
  <2>1. StandDownState # Unknown /\ DeliveryState # Unknown
    BY StandDownHasAState, DeliveryHasAState DEF IInv
  <2>2. GateState(Refusals) # Unknown
    BY GatesHaveAState DEF IInv
  <2>3. Harvested \/ Gate \cap (Sourced \cup Tasked \cup Created) # {} => Integrated
    BY DEF IInv, StagesInv, OrderedStages, Role
  <2>4. ASSUME standDown = NotBegun
        PROVE  Lifecycle \in {DeliveryState, "integration_pending_harvest", GateState(Refusals)}
    BY <2>3, <2>4 DEF Loads, Lifecycle
  <2>5. DeliveryState \in CleanStates \cup {Unknown}
    BY DEF DeliveryState, CleanStates
  <2>6. GateState(Refusals) \in CleanStates \cup {Unknown}
    BY DEF GateState, CleanStates
  <2>7. standDown = NotBegun => Lifecycle \in CleanStates
    BY <2>1, <2>2, <2>4, <2>5, <2>6 DEF CleanStates
  <2>8. "operator_abandoned" \in Reason /\ Allowed["operator_abandoned"] = CleanStates
    BY DEF Reason, Allowed
  <2>9. QED
    BY <2>1, <2>7, <2>8
<1>2. QED
  BY <1>1, Inductive, PTL

\* A producer's report is accepted or rejected, never both.
THEOREM VerdictsAreFinal == Spec => []OneVerdict
<1>1. IInv => OneVerdict
  BY RolesOnly DEF IInv, StagesInv, OneVerdict, RoleSets
<1>2. QED
  BY <1>1, Inductive, PTL

\* What is integrated is what every producer's accepted report names.
THEOREM IntegrationIsReported == Spec => []IntegratesWhatWasReported
<1>1. IInv => IntegratesWhatWasReported
  BY DEF IInv, StagesInv, WorldInv, Reported, IntegratesWhatWasReported, Role
<1>2. QED
  BY <1>1, Inductive, PTL

\* The integration ref is swapped at most once in the life of a run.
THEOREM SwapsOnce == Spec => []OneSwap
<1>1. IInv => OneSwap
  BY DEF IInv, WorldInv, OneSwap
<1>2. QED
  BY <1>1, Inductive, PTL

\* No gate works before the integration, and gates pass their stages together.
THEOREM BarriersHold == Spec => []GateBarriers
<1>1. IInv => GateBarriers
  BY DEF IInv, StagesInv, WorldInv, GateBarriers
<1>2. QED
  BY <1>1, Inductive, PTL

\* A run stood down as completed was harvested and has every gate's report.
THEOREM CompletedRunsAreCollected == Spec => []CompletedMeansCollected
<1>1. IInv => CompletedMeansCollected
  BY DEF IInv
<1>2. QED
  BY <1>1, Inductive, PTL

\* An archived run has closed every pane it ever created.
THEOREM ArchiveClosesAll == Spec => []ArchivedLeavesNoPane
<1>1. IInv => ArchivedLeavesNoPane
  BY DEF IInv, CloseInv, WorldInv, ArchivedLeavesNoPane
<1>2. QED
  BY <1>1, Inductive, PTL

-----------------------------------------------------------------------------
(* The refinement of RunLife *)

\* A role's stage as a number says which operations it has.
StageValues ==
    \A r \in Role :
        /\ Stages[r] \in 0..4
        /\ Stages[r] >= 1 <=> r \in Sourced
        /\ Stages[r] >= 2 <=> r \in Tasked
        /\ Stages[r] >= 3 <=> r \in Created
        /\ Stages[r] >= 4 <=> r \in Started

LEMMA StagesCount == StagesInv => StageValues
<1> SUFFICES ASSUME StagesInv, NEW r \in Role
             PROVE  /\ Stages[r] \in 0..4
                    /\ Stages[r] >= 1 <=> r \in Sourced
                    /\ Stages[r] >= 2 <=> r \in Tasked
                    /\ Stages[r] >= 3 <=> r \in Created
                    /\ Stages[r] >= 4 <=> r \in Started
  BY DEF StageValues
<1>1. /\ r \in Started <=> Did("agent.start", r)
      /\ r \in Created <=> Did("pane.create", r)
      /\ r \in Tasked <=> Did("task.publish", r)
      /\ r \in Sourced <=> Did("worktree.create", r) \/ Did("gate-source.create", r)
  BY DEF Started, Created, Tasked, Sourced
<1>2. Stages[r] = IF r \in Started THEN 4
                  ELSE IF r \in Created THEN 3
                  ELSE IF r \in Tasked THEN 2
                  ELSE IF r \in Sourced THEN 1
                  ELSE 0
  BY <1>1 DEF Stages, StageOf
<1>3. /\ r \in Started => r \in Created
      /\ r \in Created => r \in Tasked
      /\ r \in Tasked => r \in Sourced
  BY DEF StagesInv, OrderedStages
<1>4. QED
  BY <1>2, <1>3

LEMMA StagesCountNext == StagesInv' => StageValues'
BY StagesCount, PTL

\* The panes that RunLife speaks of.
LEMMA OpenedIsCreated == StagesInv => Life!Opened = Created
<1> SUFFICES ASSUME StagesInv PROVE Life!Opened = Created
  OBVIOUS
<1>1. Life!Opened = {r \in Role : Stages[r] >= 3}
  BY DEF Life!Opened, Life!Role, Role
<1>2. QED
  BY <1>1, StagesCount, RolesOnly DEF StageValues, RoleSets

StageType == {"worktree.create", "gate-source.create", "task.publish", "pane.create",
              "agent.start"}

VerdictType == {"report.harvest", "report.reject"}

\* What an operation of one type leaves alone of what RunLife sees.
LEMMA Untouched ==
    ASSUME TypeOK, AcceptedInv, [Next]_vars,
           NEW type, NEW r, observed' = observed \cup {<<type, r>>}
    PROVE  /\ type \notin StageType => Stages' = Stages
           /\ type \notin VerdictType => Reports' = Reports
           /\ type \notin {"integration.reconcile", "integration.harvest"} =>
                 Integration' = Integration
<1>1. ASSUME type \notin StageType PROVE Stages' = Stages
  <2>1. ASSUME NEW q \in Role PROVE StageOf(q)' = StageOf(q)
    BY <1>1 DEF StageOf, StageType, Did
  <2>2. QED
    BY <2>1 DEF Stages
<1>2. ASSUME type \notin VerdictType PROVE Reports' = Reports
  <2>1. ASSUME NEW q \in Role PROVE ReportOf(q)' = ReportOf(q)
    <3>1. Did("report.harvest", q)' <=> Did("report.harvest", q)
      BY <1>2 DEF VerdictType, Did
    <3>2. Did("report.reject", q)' <=> Did("report.reject", q)
      BY <1>2 DEF VerdictType, Did
    <3>3. Did("report.harvest", q) => slot'[q] = slot[q]
      BY AcceptedStays DEF Accepted
    <3>4. QED
      BY <3>1, <3>2, <3>3 DEF ReportOf, Refused, Undecided
  <2>2. QED
    BY <2>1 DEF Reports
<1>3. ASSUME type \notin {"integration.reconcile", "integration.harvest"}
      PROVE  Integration' = Integration
  BY <1>3 DEF Integration, Integrated, Harvested, Did
<1>4. QED
  BY <1>1, <1>2, <1>3

\* Without a new operation nothing that RunLife sees of the journal changes.
LEMMA AllUntouched ==
    ASSUME TypeOK, AcceptedInv, [Next]_vars, UNCHANGED observed
    PROVE  /\ UNCHANGED <<Stages, Reports, Integration, Closed>>
           /\ Archived' = Archived
<1>1. Stages' = Stages
  BY DEF Stages, StageOf, Did
<1>2. Reports' = Reports
  <2>1. ASSUME NEW q \in Role PROVE ReportOf(q)' = ReportOf(q)
    BY AcceptedStays DEF ReportOf, Accepted, Did, Refused, Undecided
  <2>2. QED
    BY <2>1 DEF Reports
<1>3. Integration' = Integration
  BY DEF Integration, Integrated, Harvested, Did
<1>4. Closed' = Closed /\ Archived' = Archived
  BY SameJournal
<1>5. QED
  BY <1>1, <1>2, <1>3, <1>4

LifeStep == [Life!Next]_(Life!vars)

\* A stage operation advances its role by one stage, or repeats the one it has.
LEMMA AdvanceRuns ==
    ASSUME TypeOK, IInv, [Next]_vars, ~stuck, ~Archived, UNCHANGED <<merged, swaps>>,
           NEW type \in StageType, NEW r \in Role \cup {"run"}, Records(type, r)
    PROVE  LifeStep
<1> USE DEF IInv
<1>1. /\ May(type, r) /\ observed' = observed \cup {<<type, r>>}
      /\ UNCHANGED <<standDown, stuck>>
  BY DEF Records
<1>2. r \in Role
  BY <1>1, RolesOnly DEF RoleSets, May, StageType, Role
<1>3. /\ Reports' = Reports /\ Integration' = Integration
      /\ Closed' = Closed /\ Archived' = Archived
  BY <1>1, Untouched, OtherSetsStay DEF StageType, VerdictType
<1>4. LifeOf = "active" /\ LifeOf' = "active"
  BY <1>1, <1>3 DEF LifeOf
<1>5. StagesInv' /\ StageValues /\ StageValues'
  BY StagesStep, StagesCount, StagesCountNext
<1>6. ASSUME NEW q \in Role, q # r PROVE Stages'[q] = Stages[q]
  <2>1. StageOf(q)' = StageOf(q)
    BY <1>1, <1>6 DEF StageOf, Did
  <2>2. QED
    BY <2>1 DEF Stages
<1>7. /\ r \in Sourced' <=> r \in Sourced \/ type \in {"worktree.create", "gate-source.create"}
      /\ r \in Tasked' <=> r \in Tasked \/ type = "task.publish"
      /\ r \in Created' <=> r \in Created \/ type = "pane.create"
      /\ r \in Started' <=> r \in Started \/ type = "agent.start"
  BY <1>1, <1>2, Extended
<1>8. /\ Stages[r] \in 0..4 /\ Stages'[r] \in 0..4
      /\ Stages[r] >= 1 <=> r \in Sourced
      /\ Stages[r] >= 2 <=> r \in Tasked
      /\ Stages[r] >= 3 <=> r \in Created
      /\ Stages[r] >= 4 <=> r \in Started
      /\ Stages'[r] >= 1 <=> r \in Sourced'
      /\ Stages'[r] >= 2 <=> r \in Tasked'
      /\ Stages'[r] >= 3 <=> r \in Created'
      /\ Stages'[r] >= 4 <=> r \in Started'
  BY <1>2, <1>5 DEF StageValues
<1>9. \/ Stages'[r] = Stages[r]
      \/ /\ Stages'[r] = Stages[r] + 1
         /\ type = "worktree.create" => r \in Producer
         /\ type = "gate-source.create" => Stages[r] = 0 /\ Harvested
         /\ type = "task.publish" => Stages[r] = 1 /\ (r \in Gate => Gate \subseteq Sourced)
         /\ type = "pane.create" => Stages[r] = 2 /\ (r \in Gate => Gate \subseteq Tasked)
         /\ type = "agent.start" => Stages[r] = 3 /\ (r \in Gate => Gate \subseteq Created)
  BY <1>1, <1>7, <1>8 DEF May, StageType
<1>10. CASE Stages'[r] = Stages[r]
  <2>1. Stages' = Stages
    BY <1>6, <1>10 DEF Stages
  <2>2. QED
    BY <1>1, <1>3, <1>4, <2>1 DEF LifeStep, Life!vars
<1>11. CASE Stages'[r] # Stages[r]
  <2>1. Stages' = [Stages EXCEPT ![r] = Stages[r] + 1]
    BY <1>2, <1>6, <1>9, <1>11 DEF Stages
  <2>2. ASSUME r \in Gate PROVE Harvested /\ \A g \in Gate : Stages[r] <= Stages[g]
    <3>1. Harvested
      BY <1>2, <1>8, <1>9, <1>11, <2>2, Configuration DEF StagesInv, StageType
    <3>2. \A g \in Gate : /\ Stages[g] \in 0..4
                          /\ Stages[g] >= 1 <=> g \in Sourced
                          /\ Stages[g] >= 2 <=> g \in Tasked
                          /\ Stages[g] >= 3 <=> g \in Created
      BY <1>5 DEF StageValues, Role
    <3>3. \A g \in Gate : Stages[r] <= Stages[g]
      BY <1>9, <1>11, <2>2, <3>2, Configuration DEF StageType
    <3>4. QED
      BY <3>1, <3>3
  <2>3. Stages[r] < 4
    BY <1>8, <1>9, <1>11
  <2>4. r \in Gate => Integration = "harvested" /\ \A g \in Gate : Stages[r] <= Stages[g]
    BY <2>2 DEF Integration
  <2>5. Life!Advance(r)
    BY <1>1, <1>3, <1>4, <2>1, <2>3, <2>4 DEF Life!Advance
  <2>6. QED
    BY <1>2, <2>5 DEF LifeStep, Life!Next, Life!Role, Role
<1>12. QED
  BY <1>10, <1>11

\* A verdict is the first one of its role, and that of an accepted report is the slot's.
LEMMA DecisionRuns ==
    ASSUME TypeOK, IInv, [Next]_vars, ~stuck, ~Archived, UNCHANGED <<merged, swaps>>,
           NEW type \in VerdictType, NEW r \in Role \cup {"run"}, Records(type, r)
    PROVE  LifeStep
<1> USE DEF IInv
<1>1. /\ May(type, r) /\ observed' = observed \cup {<<type, r>>}
      /\ UNCHANGED <<standDown, stuck>>
  BY DEF Records
<1>2. /\ r \in Started \ (Accepted \cup Rejected)
      /\ r \in Gate => Gate \subseteq Started
      /\ type = "report.harvest" => slot[r] \in Report
  BY <1>1 DEF May, VerdictType
<1>3. r \in Role
  BY <1>2, RolesOnly DEF RoleSets
<1>4. /\ Stages' = Stages /\ Integration' = Integration
      /\ Closed' = Closed /\ Archived' = Archived
  BY <1>1, Untouched, OtherSetsStay DEF StageType, VerdictType
<1>5. LifeOf = "active" /\ LifeOf' = "active"
  BY <1>1, <1>4 DEF LifeOf
<1>6. ASSUME NEW q \in Role, q # r PROVE Reports'[q] = Reports[q]
  <2>1. /\ Did("report.harvest", q)' <=> Did("report.harvest", q)
        /\ Did("report.reject", q)' <=> Did("report.reject", q)
    BY <1>1, <1>6 DEF Did
  <2>2. Did("report.harvest", q) => slot'[q] = slot[q]
    BY AcceptedStays DEF Accepted
  <2>3. ReportOf(q)' = ReportOf(q)
    BY <2>1, <2>2 DEF ReportOf, Refused, Undecided
  <2>4. QED
    BY <2>3 DEF Reports
<1>7. Reports[r] = Life!Undecided
  <2>1. ~Did("report.harvest", r) /\ ~Did("report.reject", r)
    BY <1>2, <1>3 DEF Accepted, Rejected
  <2>2. QED
    BY <1>3, <2>1 DEF Reports, ReportOf, Undecided, Life!Undecided
<1>8. Reports'[r] \in Life!Report \cup {Life!Refused}
  <2>1. CASE type = "report.harvest"
    <3>1. slot'[r] = slot[r]
      BY <1>2, <1>3, <2>1, WorldStep DEF SlotsKeep, Report, Empty
    <3>2. Did("report.harvest", r)'
      BY <1>1, <2>1 DEF Did
    <3>3. Reports'[r] = slot[r]
      BY <1>3, <3>1, <3>2 DEF Reports, ReportOf
    <3>4. QED
      BY <1>2, <2>1, <3>3 DEF Report, Life!Report
  <2>2. CASE type = "report.reject"
    <3>1. ~Did("report.harvest", r)' /\ Did("report.reject", r)'
      BY <1>1, <1>2, <1>3, <2>2 DEF Did, Accepted
    <3>2. Reports'[r] = Refused
      BY <1>3, <3>1 DEF Reports, ReportOf, Refused
    <3>3. QED
      BY <3>2 DEF Refused, Life!Refused
  <2>3. QED
    BY <2>1, <2>2 DEF VerdictType
<1>9. Reports' = [Reports EXCEPT ![r] = Reports'[r]]
  BY <1>3, <1>6 DEF Reports
<1>10. Stages[r] = 4 /\ (r \in Gate => \A g \in Gate : Stages[g] = 4)
  BY <1>2, <1>3, StagesCount DEF StageValues, Role
<1>11. Life!Decide(r, Reports'[r])
  BY <1>1, <1>4, <1>5, <1>7, <1>9, <1>10 DEF Life!Decide
<1>12. QED
  BY <1>3, <1>8, <1>11 DEF LifeStep, Life!Next, Life!Role, Role

\* Only publishIntegration can reconcile.
LEMMA PublishOnly ==
    ASSUME pc = "publish", [Next]_vars
    PROVE  PublishIntegration \/ UNCHANGED observed
<1>1. ~Loads
  BY DEF Loads
<1>2. ASSUME NEW r \in Producer, Assemble(r) PROVE FALSE
  BY <1>2 DEF Assemble, CreateWorktree, PublishTask, CreatePane, StartAgent, Assembling
<1>3. ASSUME NEW r \in Role, Collect(r) \/ ClosePane(r) PROVE FALSE
  BY <1>3 DEF Collect, Pass, AcceptReport, RejectReport, ClosePane
<1>4. ASSUME NEW r \in Gate, Provision(r) PROVE FALSE
  BY <1>4 DEF Provision, CreateGateSource, PublishGateTask, CreateGatePane,
     StartGateAgent, NextGate
<1>5. ASSUME \/ Assembled \/ StartHarvest \/ ConcludeCollection \/ PlanIntegration
             \/ HarvestIntegration \/ CollectGates \/ ConcludeHarvest
             \/ ResumeStandDown \/ CheckPanes \/ ArchiveRun
      PROVE  FALSE
  BY <1>1, <1>5 DEF Assembled, StartHarvest, ConcludeCollection, PlanIntegration,
     HarvestIntegration, CollectGates, ConcludeHarvest, ResumeStandDown, CheckPanes,
     ArchiveRun
<1>6. ASSUME NEW reason \in Reason, BeginStandDown(reason) PROVE FALSE
  BY <1>1, <1>6 DEF BeginStandDown
<1>7. CASE Fail \/ Die \/ Refuse \/ UNCHANGED vars
  BY <1>7 DEF Fail, Die, Refuse, Doubt, journal, vars
<1>8. CASE Outside
  BY <1>8 DEF Outside, MoveBranch, PublishReport, LosePane, SpoilReport, Tamper, Restore,
     MoveTarget, journal
<1>9. QED
  BY <1>2, <1>3, <1>4, <1>5, <1>6, <1>7, <1>8 DEF Next

\* What an accepted report is worth to RunLife.
LEMMA ReportsOfAccepted == \A r \in Accepted : Reports[r] = slot[r]
BY RolesOnly DEF RoleSets, Accepted, Reports, ReportOf

\* A swap is the integration, and the end of the run if its observation is not recorded.
LEMMA SwapRuns ==
    ASSUME TypeOK, TypeOK', IInv, [Next]_vars, ~stuck, ~Archived, Swaps
    PROVE  LifeStep
<1> USE DEF IInv
<1>0. swaps \in Nat
  BY DEF TypeOK
<1>1. swaps = 0 /\ swaps' = 1
  <2>1. swaps <= 1 /\ ~(swaps > 0) /\ swaps' = swaps + 1
    BY DEF Swaps, WorldInv
  <2>2. QED
    BY <1>0, <2>1
<1>2. Reported(plan)
  BY DEF Swaps, WorldInv
<1>3. \A q \in Producer : Reports[q].verdict = "delivered" /\ Reports[q].sha = plan[q]
  BY <1>2, ReportsOfAccepted DEF Reported
<1>4. merged' = [q \in Producer |-> Reports[q].sha]
  BY <1>3 DEF Swaps, TypeOK
<1>5. LifeOf = "active" /\ Integration = "none"
  BY DEF LifeOf, Integration, Swaps, StagesInv
<1>6. /\ UNCHANGED <<standDown, Stages, Reports, Closed>>
      /\ \/ Integration' = "reconciled" /\ LifeOf' = "active"
         \/ LifeOf' = "halted" /\ Integration' = Integration
  <2>1. CASE UNCHANGED <<observed, standDown>>
    <3>1. UNCHANGED <<Stages, Reports, Integration, Closed>> /\ Archived' = Archived
      BY <2>1, AllUntouched
    <3>2. stuck'
      BY <2>1, SameJournal DEF Swaps
    <3>3. QED
      BY <2>1, <3>1, <3>2 DEF LifeOf
  <2>2. ASSUME NEW type \in OperationType, NEW r \in Role \cup {"run"}, Records(type, r)
        PROVE  /\ UNCHANGED <<standDown, Stages, Reports, Closed>>
               /\ Integration' = "reconciled" /\ LifeOf' = "active"
    <3>1. observed' = observed \cup {<<type, r>>} /\ UNCHANGED <<standDown, stuck>>
      BY <2>2 DEF Records
    <3>2. Integrated'
      BY <3>1 DEF Swaps
    <3>3. type = "integration.reconcile"
      BY <3>1, <3>2, Extended DEF Swaps
    <3>4. UNCHANGED <<Stages, Reports, Closed>>
      BY <3>1, <3>3, Untouched, OtherSetsStay DEF StageType, VerdictType
    <3>5. Harvested' = Harvested /\ Archived' = Archived
      BY <3>1, <3>3, OtherSetsStay
    <3>6. Integration' = "reconciled" /\ LifeOf' = "active"
      BY <1>5, <3>1, <3>2, <3>5 DEF Integration, LifeOf, StagesInv, Swaps
    <3>7. QED
      BY <3>1, <3>4, <3>6
  <2>3. CASE Begins
    <3>1. observed' = observed \cup {<<"run.stand-down.begin", "run">>} /\ stuck' = stuck
      BY <2>3 DEF Begins
    <3>2. Integrated' <=> Integrated
      BY <3>1, Extended
    <3>3. QED
      BY <3>1, <3>2 DEF Swaps
  <2>4. QED
    BY <2>1, <2>2, <2>3, Steps
<1>7. Producer # {}
  BY DEF Swaps
<1>8. Life!Integrate
  BY <1>1, <1>3, <1>4, <1>5, <1>6, <1>7 DEF Life!Integrate
<1>9. QED
  BY <1>8 DEF LifeStep, Life!Next

\* The operations of the run that swap nothing: reconciliation without producers,
\* harvest of the integration and archive.
LEMMA RunOperationRuns ==
    ASSUME TypeOK, IInv, [Next]_vars, ~stuck, ~Archived, UNCHANGED <<merged, swaps>>,
           NEW type \in {"integration.reconcile", "integration.harvest", "run.archive"},
           NEW r \in Role \cup {"run"}, Records(type, r)
    PROVE  LifeStep
<1> USE DEF IInv
<1>1. /\ May(type, r) /\ observed' = observed \cup {<<type, r>>}
      /\ UNCHANGED <<standDown, stuck>> /\ r = "run"
  BY DEF Records, May
<1>2. UNCHANGED <<Stages, Reports, Closed>>
  BY <1>1, Untouched, OtherSetsStay DEF StageType, VerdictType
<1>3. LifeOf = "active"
  BY DEF LifeOf
<1>4. CASE type = "integration.reconcile"
  <2>1. pc = "publish" /\ ~Integrated
    BY <1>1, <1>4 DEF May
  <2>2. Integrated' /\ Archived' = Archived /\ Harvested' = Harvested
    BY <1>1, <1>4, Extended, OtherSetsStay
  <2>3. PublishIntegration
    BY <2>1, <2>2, PublishOnly, SameJournal
  <2>4. Producer = {}
    <3>1. Swap \/ UNCHANGED journal \/ Doubt
      BY <2>3 DEF PublishIntegration
    <3>2. Swap
      BY <2>1, <2>2, <3>1, SameJournal DEF journal, Doubt
    <3>3. swaps \in Nat
      BY DEF TypeOK
    <3>4. QED
      BY <3>2, <3>3 DEF Swap
  <2>5. swaps = 0
    BY <2>1 DEF WorldInv, TypeOK
  <2>6. Integration = "none" /\ Integration' = "reconciled" /\ LifeOf' = LifeOf
    BY <1>1, <2>1, <2>2 DEF Integration, LifeOf, StagesInv
  <2>7. Life!Integrate
    BY <1>1, <1>2, <1>3, <2>4, <2>5, <2>6 DEF Life!Integrate
  <2>8. QED
    BY <2>7 DEF LifeStep, Life!Next
<1>5. CASE type = "integration.harvest"
  <2>1. Integrated /\ Harvested' /\ Archived' = Archived
    BY <1>1, <1>5, Extended, OtherSetsStay DEF May
  <2>2. Integration' = "harvested" /\ LifeOf' = LifeOf
    BY <1>1, <2>1 DEF Integration, LifeOf
  <2>3. CASE Harvested
    BY <1>1, <1>2, <2>2, <2>3 DEF LifeStep, Life!vars, Integration
  <2>4. CASE ~Harvested
    <3>1. Integration = "reconciled"
      BY <2>1, <2>4 DEF Integration
    <3>2. Life!Gather
      BY <1>1, <1>2, <1>3, <2>2, <3>1 DEF Life!Gather
    <3>3. QED
      BY <3>2 DEF LifeStep, Life!Next
  <2>5. QED
    BY <2>3, <2>4
<1>6. CASE type = "run.archive"
  <2>1. standDown # NotBegun /\ standDown.closeSet = Created /\ Closed = Created
    BY <1>1, <1>6 DEF May
  <2>2. Archived' /\ Integration' = Integration
    BY <1>1, <1>6, Extended, Untouched
  <2>3. LifeOf' = "archived"
    BY <2>2 DEF LifeOf
  <2>4. Life!Archive
    BY <1>1, <1>2, <1>3, <2>1, <2>2, <2>3, OpenedIsCreated
       DEF Life!Archive, NotBegun, Life!NotBegun
  <2>5. QED
    BY <2>4 DEF LifeStep, Life!Next
<1>7. QED
  BY <1>4, <1>5, <1>6

\* The pane that is closed is the next one of the close set, which is still exact.
LEMMA CloseRuns ==
    ASSUME TypeOK, IInv, [Next]_vars, ~stuck, ~Archived, UNCHANGED <<merged, swaps>>,
           NEW r \in Role \cup {"run"}, Records("pane.close", r)
    PROVE  LifeStep
<1> USE DEF IInv
<1>1. /\ May("pane.close", r) /\ observed' = observed \cup {<<"pane.close", r>>}
      /\ UNCHANGED <<standDown, stuck>>
  BY DEF Records
<1>2. r \in Created /\ standDown.closeSet = Created /\ NextClose(r)
  BY <1>1 DEF May
<1>3. r \in Role /\ Created \subseteq Role
  BY <1>2, RolesOnly DEF RoleSets
<1>4. /\ r \in Created \ Closed
      /\ \A q \in Created \ Closed : Rank[r] <= Rank[q]
  BY <1>2, <1>3, FirstIsLeast DEF NextClose
<1>5. Closed' = Closed \cup {r}
  BY <1>1, <1>3 DEF Closed, Did
<1>6. /\ UNCHANGED <<Stages, Reports, Integration>> /\ Archived' = Archived
  BY <1>1, Untouched, OtherSetsStay DEF StageType, VerdictType
<1>7. LifeOf = "active" /\ LifeOf' = LifeOf
  BY <1>1, <1>6 DEF LifeOf
<1>8. Life!ClosePane(r)
  BY <1>1, <1>2, <1>4, <1>5, <1>6, <1>7, OpenedIsCreated DEF Life!ClosePane
<1>9. QED
  BY <1>3, <1>8 DEF LifeStep, Life!Next, Life!Role, Role

\* Stand-down closes the panes there are, as completed only if the gates reported.
LEMMA BeginRuns ==
    ASSUME TypeOK, IInv, [Next]_vars, ~stuck, ~Archived, UNCHANGED <<merged, swaps>>, Begins
    PROVE  LifeStep
<1> USE DEF IInv
<1>1. observed' = observed \cup {<<"run.stand-down.begin", "run">>} /\ stuck' = stuck
  BY DEF Begins
<1>2. UNCHANGED <<Stages, Reports, Integration, Closed>> /\ Archived' = Archived
  BY <1>1, Untouched, OtherSetsStay DEF StageType, VerdictType
<1>3. LifeOf = "active" /\ LifeOf' = LifeOf
  BY <1>1, <1>2 DEF LifeOf
<1>4. PICK outcome \in {"completed", "abandoned"} :
        standDown' = [outcome |-> outcome, closeSet |-> Created]
  BY DEF Begins
<1>5. ASSUME outcome = "completed"
      PROVE  Integration = "harvested" /\ \A g \in Gate : Reports[g] \in Life!Report
  <2>1. Lifecycle \in CompletionStates
    BY <1>4, <1>5 DEF Begins
  <2>2. Harvested /\ Gate \subseteq Accepted
    BY <2>1, Completion
  <2>3. QED
    BY <2>2, ReportsOfAccepted DEF Integration, AcceptedInv, Report, Life!Report
<1>6. Life!BeginClose(outcome)
  BY <1>2, <1>3, <1>4, <1>5, OpenedIsCreated
     DEF Life!BeginClose, Begins, NotBegun, Life!NotBegun
<1>7. QED
  BY <1>6 DEF LifeStep, Life!Next

LEMMA LifeSteps ==
    ASSUME TypeOK, TypeOK', IInv, [Next]_vars
    PROVE  LifeStep
<1>1. CASE stuck \/ Archived
  <2>1. UNCHANGED vars
    BY <1>1, Final DEF IInv
  <2>2. /\ UNCHANGED <<Stages, Reports, Integration, Closed>> /\ Archived' = Archived
        /\ UNCHANGED <<merged, swaps, standDown, stuck>>
    BY <2>1, AllUntouched DEF IInv, vars, journal, world
  <2>3. QED
    BY <2>2 DEF LifeStep, Life!vars, LifeOf
<1>2. CASE ~stuck /\ ~Archived /\ Swaps
  BY <1>2, SwapRuns
<1>3. CASE ~stuck /\ ~Archived /\ UNCHANGED <<merged, swaps>>
  <2>1. CASE UNCHANGED <<observed, standDown>>
    <3>1. UNCHANGED <<Stages, Reports, Integration, Closed>> /\ Archived' = Archived
      BY <2>1, AllUntouched DEF IInv
    <3>2. LifeOf = "active"
      BY <1>3 DEF LifeOf
    <3>3. CASE stuck'
      <4>1. LifeOf' = "halted"
        BY <1>3, <3>1, <3>3 DEF LifeOf
      <4>2. QED
        BY <1>3, <2>1, <3>1, <3>2, <4>1 DEF LifeStep, Life!Next, Life!Halt
    <3>4. CASE ~stuck'
      <4>1. LifeOf' = LifeOf
        BY <1>3, <3>1, <3>4 DEF LifeOf
      <4>2. QED
        BY <1>3, <2>1, <3>1, <4>1 DEF LifeStep, Life!vars
    <3>5. QED
      BY <3>3, <3>4
  <2>2. ASSUME NEW type \in OperationType, NEW r \in Role \cup {"run"}, Records(type, r)
        PROVE  LifeStep
    <3>1. \/ type \in StageType \cup VerdictType \cup {"pane.close"}
          \/ type \in {"integration.reconcile", "integration.harvest", "run.archive"}
      BY <2>2 DEF Records, May, StageType, VerdictType
    <3>2. QED
      BY <1>3, <2>2, <3>1, AdvanceRuns, DecisionRuns, RunOperationRuns, CloseRuns
  <2>3. CASE Begins
    BY <1>3, <2>3, BeginRuns
  <2>4. QED
    BY <2>1, <2>2, <2>3, Steps DEF IInv
<1>4. QED
  BY <1>1, <1>2, <1>3, WorldStep

\* Assemble, harvest and stand-down, however often they fail, die or are repeated and
\* whatever others do in between, take a run through a life that RunLife allows.
THEOREM ConductorImplementsRunLife == Spec => ImplementsRunLife
<1>1. Init => Life!Init
  <2> SUFFICES ASSUME Init PROVE Life!Init
    OBVIOUS
  <2>1. \A r \in Role : StageOf(r) = 0 /\ ReportOf(r) = Undecided
    BY DEF Init, StageOf, ReportOf, Did
  <2>2. Stages = [r \in Role |-> 0] /\ Reports = [r \in Role |-> Undecided]
    BY <2>1 DEF Stages, Reports
  <2>3. Integration = "none" /\ Closed = {} /\ LifeOf = "active"
    BY NothingYet DEF Init, Integration, LifeOf
  <2>4. QED
    BY <2>2, <2>3 DEF Init, Life!Init, Life!Role, Role, Undecided, Life!Undecided, NoPlan,
       NotBegun, Life!NotBegun
<1>2. TypeOK /\ TypeOK' /\ IInv /\ [Next]_vars => LifeStep
  BY LifeSteps
<1>3. QED
  BY <1>1, <1>2, TypeCorrect, Inductive, PTL
     DEF Spec, ImplementsRunLife, Life!Spec, LifeStep
=============================================================================
