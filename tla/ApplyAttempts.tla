---------------------------- MODULE ApplyAttempts ---------------------------
(***************************************************************************)
(* The attended apply of one run (Stage 3): preview, receipt, consumption  *)
(* and the single compare-and-swap of the target ref (stage1-runtime.mjs,  *)
(* stage3-apply.mjs, approval-recorder.mjs).                               *)
(*                                                                         *)
(* Commands are separate processes that take the repository lock one at a  *)
(* time; the lock file itself is the subject of RepositoryLock, the        *)
(* journal's files of OperationJournal.  Here a journaled operation is in  *)
(* doubt from its intent until its observed record.  Git is not ours:      *)
(* outsiders move, delete and check out refs between any two steps.        *)
(***************************************************************************)
EXTENDS Naturals, Sequences

CONSTANT MaxAttempts   \* previews a run may record; 8 in the code

ASSUME AttemptLimit == MaxAttempts \in Nat \ {0}

VARIABLES
    target,        \* what the apply target ref holds
    integrated,    \* the integration ref still holds the integrated SHA
    checkedOut,    \* the target is checked out in some worktree
    intact,        \* the gates' snapshots are as they were created
    attempts,      \* the observed Stage 3 entries, grouped by attempt
    standingDown,  \* run.stand-down.begin is observed
    doubt,         \* the operation whose journal entry is not settled
    lock,          \* the repository lock: "free", or the kind of its holder
    pc,            \* next step of the command that holds it
    receipt,       \* the receipt the recorder is recording
    outcome,       \* the outcome apply is about to record
    cas,           \* history: compare-and-swaps that moved the target
    meddled,       \* history: attempts during which outsiders moved the target
                   \* to or away from the final SHA
    refused        \* history: a resolution met a foreign target

git == <<target, integrated, checkedOut, intact>>
history == <<cas, meddled, refused>>
vars == <<git, attempts, standingDown, doubt, lock, pc, receipt, outcome, history>>

Sha == {"starting", "final", "foreign"}
Absent == "absent"
Decision == {"approve", "reject"}
Receipt == [names : 1..MaxAttempts, decision : Decision]
NoReceipt == [names |-> 0, decision |-> "none"]
Attempt == [receipt : Receipt \cup {NoReceipt}, consumed : BOOLEAN,
            publication : {"none", "applied", "unapplied"}]

\* A "broken" journal never loads again: its files disagree, or a guard outlived
\* its observed entry.
Doubt == {"none", "preview", "record", "consume", "publish", "broken"}
Step == {"idle", "preview", "record", "consume", "consumed", "observe", "preflight",
         "cas", "reread", "settle", "resolve"}

Init ==
    /\ target = "starting"
    /\ integrated = TRUE
    /\ checkedOut = FALSE
    /\ intact = TRUE
    /\ attempts = <<>>
    /\ standingDown = FALSE
    /\ doubt = "none"
    /\ lock = "free"
    /\ pc = "idle"
    /\ receipt = NoReceipt
    /\ outcome = "unapplied"
    /\ cas = [i \in 1..MaxAttempts |-> 0]
    /\ meddled = {}
    /\ refused = FALSE

-----------------------------------------------------------------------------
(* What the commands read *)

\* observeStage3ApplyTarget: a fast-forward of an existing, unmoved target that
\* nobody has checked out, onto the SHA the integration ref still holds.
Live == target = "starting" /\ integrated /\ ~checkedOut

New == [receipt |-> NoReceipt, consumed |-> FALSE, publication |-> "none"]

Current == Len(attempts)
Newest == attempts[Current]

\* What the journal of a run whose gates are collected says.
Lifecycle ==
    IF standingDown THEN "closing"
    ELSE IF attempts = <<>> THEN "gates_collected"
    ELSE IF Newest.publication = "applied" THEN "applied"
    ELSE IF Newest.publication = "unapplied" THEN "apply_voided"
    ELSE IF Newest.consumed THEN "apply_consumed"
    ELSE IF Newest.receipt.decision = "approve" THEN "apply_approved"
    ELSE IF Newest.receipt.decision = "reject" THEN "apply_rejected"
    ELSE "apply_previewed"

\* scanStage2Authority with gateSourceRefusals, as preview, apply and stand-down
\* call it: an edited snapshot puts the run back before its gates were collected,
\* where an attempt has no place.
Scan ==
    IF intact \/ standingDown THEN Lifecycle
    ELSE IF attempts = <<>> THEN "gate_source_refused"
    ELSE "bookkeeping_unknown"

\* A command other than apply needs the lock free and the journal clean.
Idle == pc = "idle" /\ lock = "free" /\ doubt = "none"

\* The command leaves: its finally block releases the lock.
Release == lock' = "free" /\ pc' = "idle"

\* The entry is observed and its guard removed; or the guard stays, and the
\* journal does not load again.
Settled(next) ==
    \/ /\ doubt' = "none"
       /\ pc' = next
       /\ lock' = IF next = "idle" THEN "free" ELSE lock
    \/ doubt' = "broken" /\ Release

-----------------------------------------------------------------------------
(* Faulty variants of the operators below, for mutation testing. *)

FaultyPreviewApproved ==
    /\ Lifecycle \in {"gates_collected", "apply_approved", "apply_rejected", "apply_voided"}
    /\ Current < MaxAttempts

FaultyPreviewLimit ==
    /\ Lifecycle \in {"gates_collected", "apply_rejected", "apply_voided"}
    /\ Current <= MaxAttempts

FaultyRecordAnyAttempt(r) ==
    Lifecycle = "apply_previewed" /\ (r.decision = "approve" => Live)

FaultyRecordClosing(r) == attempts # <<>> /\ r.names = Current /\ Newest.receipt = NoReceipt

FaultyMayStandDown == Scan \notin {"closing", "bookkeeping_unknown"}

FaultyReadBack(o) == o = "unapplied"

-----------------------------------------------------------------------------
(* preview *)

MayPreview ==
    /\ Scan \in {"gates_collected", "apply_rejected", "apply_voided"}
    /\ Current < MaxAttempts

BeginPreview ==
    /\ Idle /\ MayPreview /\ Live
    /\ lock' = "other" /\ pc' = "preview" /\ doubt' = "preview"
    /\ UNCHANGED <<git, attempts, standingDown, receipt, outcome, history>>

\* The effect observes once more before the preview is recorded.
FinishPreview ==
    /\ pc = "preview" /\ Live
    /\ attempts' = Append(attempts, New)
    /\ Settled("idle")
    /\ UNCHANGED <<git, standingDown, receipt, outcome, history>>

-----------------------------------------------------------------------------
(* The approval recorder.  The receipt was written for some preview, at any time
   before. *)

MayRecord(r) ==
    /\ Lifecycle = "apply_previewed"
    /\ r.names = Current
    /\ r.decision = "approve" => Live

BeginRecord(r) ==
    /\ Idle /\ MayRecord(r)
    /\ lock' = "other" /\ pc' = "record" /\ doubt' = "record"
    /\ receipt' = r
    /\ UNCHANGED <<git, attempts, standingDown, outcome, history>>

FinishRecord ==
    /\ pc = "record"
    /\ receipt.decision = "approve" => Live
    /\ attempts' = [attempts EXCEPT ![Current].receipt = receipt]
    /\ Settled("idle")
    /\ UNCHANGED <<git, standingDown, receipt, outcome, history>>

-----------------------------------------------------------------------------
(* apply *)

\* Apply takes over the lock of a dead apply.
MayApply == pc = "idle" /\ lock \in {"free", "apply"}

BeginConsume ==
    /\ MayApply /\ doubt = "none" /\ Scan = "apply_approved"
    /\ lock' = "apply" /\ pc' = "consume" /\ doubt' = "consume"
    /\ UNCHANGED <<git, attempts, standingDown, receipt, outcome, history>>

FinishConsume ==
    /\ pc = "consume"
    /\ attempts' = [attempts EXCEPT ![Current].consumed = TRUE]
    /\ Settled("consumed")
    /\ UNCHANGED <<git, standingDown, receipt, outcome, history>>

\* An apply that has just consumed the receipt does not scan again.
BeginPublish ==
    /\ pc = "consumed" \/ (MayApply /\ doubt = "none" /\ Scan = "apply_consumed")
    /\ Lifecycle = "apply_consumed"
    /\ lock' = "apply" /\ pc' = "observe" /\ doubt' = "publish"
    /\ UNCHANGED <<git, attempts, standingDown, receipt, outcome, history>>

\* A drifted target settles the attempt without a swap.
Observe ==
    /\ pc = "observe"
    /\ IF Live THEN pc' = "preflight" /\ UNCHANGED outcome
               ELSE pc' = "settle" /\ outcome' = "unapplied"
    /\ UNCHANGED <<git, attempts, standingDown, doubt, lock, receipt, history>>

\* The three preflights of publishStage3ApplyCas: this step is the last of them,
\* or the first that sees a drift, which is an error and leaves the publication in
\* doubt.
Preflight ==
    /\ pc = "preflight"
    /\ IF Live THEN pc' = "cas" /\ UNCHANGED lock ELSE Release
    /\ UNCHANGED <<git, attempts, standingDown, doubt, receipt, outcome, history>>

\* git update-ref <target> <final> <starting>
Swap ==
    /\ pc = "cas" /\ target = "starting"
    /\ target' = "final"
    /\ cas' = [cas EXCEPT ![Current] = @ + 1]
    /\ pc' = "reread"
    /\ UNCHANGED <<integrated, checkedOut, intact, attempts, standingDown, doubt, lock,
                   receipt, outcome, meddled, refused>>

\* The ref is read back after the swap and again before the result is recorded.
Reread ==
    /\ pc = "reread" /\ target = "final"
    /\ pc' = "settle" /\ outcome' = "applied"
    /\ UNCHANGED <<git, attempts, standingDown, doubt, lock, receipt, history>>

Settle ==
    /\ pc \in {"settle", "resolve"}
    /\ attempts' = [attempts EXCEPT ![Current].publication = outcome]
    /\ Settled("idle")
    /\ UNCHANGED <<git, standingDown, receipt, outcome, history>>

\* resolveStage3ApplyOutcome
ReadBack(o) ==
    \/ o = "applied" /\ target = "final"
    \/ o = "unapplied" /\ target = "starting"

Resolve ==
    /\ MayApply /\ doubt = "publish"
    /\ lock' = "apply" /\ pc' = "resolve"
    /\ outcome' \in {o \in {"applied", "unapplied"} : ReadBack(o)}
    /\ UNCHANGED <<git, attempts, standingDown, doubt, receipt, history>>

\* Any other target is refused, and the lock released.
RefuseResolution ==
    /\ MayApply /\ doubt = "publish"
    /\ target \in {"foreign", Absent}
    /\ Release
    /\ refused' = TRUE
    /\ UNCHANGED <<git, attempts, standingDown, doubt, receipt, outcome, cas, meddled>>

\* An apply that may not go on still has reclaimed the dead apply's lock.
RefuseApply ==
    /\ pc = "idle" /\ lock = "apply"
    /\ doubt \notin {"none", "publish"}
        \/ (doubt = "none" /\ Scan \notin {"apply_approved", "apply_consumed"})
    /\ Release
    /\ UNCHANGED <<git, attempts, standingDown, doubt, receipt, outcome, history>>

-----------------------------------------------------------------------------
(* stand-down *)

MayStandDown == Scan \notin {"apply_consumed", "closing", "bookkeeping_unknown"}

\* run.stand-down.begin: it has no effect outside the journal.
StandDown ==
    /\ Idle /\ MayStandDown
    /\ \/ standingDown' = TRUE /\ doubt' \in {"none", "broken"}
       \/ doubt' = "broken" /\ UNCHANGED standingDown
    /\ lock' \in {"free", "other"}
    /\ UNCHANGED <<git, attempts, pc, receipt, outcome, history>>

-----------------------------------------------------------------------------
(* Failures *)

\* An error of Git or of the journal's files, or a read that contradicts what was
\* bound, ends the command.
Fail ==
    /\ pc # "idle"
    /\ Release
    /\ doubt' \in {doubt, "broken"}
    /\ UNCHANGED <<git, attempts, standingDown, receipt, outcome, history>>

\* The process dies and its lock stays; also before its first journal write.
Crash ==
    /\ \/ pc # "idle" /\ UNCHANGED lock
       \/ Idle /\ lock' \in {"apply", "other"}
    /\ pc' = "idle"
    /\ doubt' \in {doubt, "broken"}
    /\ UNCHANGED <<git, attempts, standingDown, receipt, outcome, history>>

-----------------------------------------------------------------------------
(* Outsiders *)

MoveTarget ==
    /\ target' \in (Sha \cup {Absent}) \ {target}
    /\ meddled' = IF attempts # <<>> /\ "final" \in {target, target'}
                  THEN meddled \cup {Current} ELSE meddled
    /\ UNCHANGED <<integrated, checkedOut, intact, attempts, standingDown, doubt, lock, pc,
                   receipt, outcome, cas, refused>>

TouchWorktrees ==
    /\ integrated' \in BOOLEAN /\ checkedOut' \in BOOLEAN /\ intact' \in BOOLEAN
    /\ UNCHANGED <<target, attempts, standingDown, doubt, lock, pc, receipt, outcome,
                   history>>

-----------------------------------------------------------------------------

Apply ==
    \/ BeginConsume \/ FinishConsume \/ BeginPublish
    \/ Observe \/ Preflight \/ Swap \/ Reread \/ Settle
    \/ Resolve \/ RefuseResolution \/ RefuseApply

Next ==
    \/ BeginPreview \/ FinishPreview
    \/ \E r \in Receipt : BeginRecord(r)
    \/ FinishRecord
    \/ Apply
    \/ StandDown
    \/ Fail \/ Crash
    \/ MoveTarget \/ TouchWorktrees

Spec == Init /\ [][Next]_vars

-----------------------------------------------------------------------------
(* Properties *)

TypeOK ==
    /\ target \in Sha \cup {Absent}
    /\ integrated \in BOOLEAN /\ checkedOut \in BOOLEAN /\ intact \in BOOLEAN
    /\ attempts \in Seq(Attempt) /\ Len(attempts) <= MaxAttempts
    /\ standingDown \in BOOLEAN
    /\ doubt \in Doubt
    /\ lock \in {"free", "apply", "other"}
    /\ pc \in Step
    /\ receipt \in Receipt \cup {NoReceipt}
    /\ outcome \in {"applied", "unapplied"}
    /\ cas \in [1..MaxAttempts -> Nat]
    /\ meddled \subseteq 1..MaxAttempts
    /\ refused \in BOOLEAN

Spent(a, i) == a.consumed /\ a.receipt = [names |-> i, decision |-> "approve"]

\* "The CAS count across any run history is exactly zero or one per attempt"
\* (docs/stage3-apply-v1.md), and only for an attempt whose own approve receipt is on record and already spent.
SwapSpendsReceipt ==
    \A i \in 1..MaxAttempts :
        cas[i] <= 1 /\ (cas[i] = 1 => i <= Current /\ Spent(attempts[i], i))

\* A recorded outcome says whether the swap happened, unless outsiders moved the
\* target to or away from the final SHA after the attempt was previewed.
TruthfulOutcome ==
    \A i \in 1..Current :
        attempts[i].publication # "none" /\ i \notin meddled =>
            (attempts[i].publication = "applied") = (cas[i] = 1)

Coherent(a) ==
    /\ a.publication # "none" => a.consumed
    /\ a.consumed => a.receipt.decision = "approve"

Closed(a) == a.publication = "unapplied" \/ a.receipt.decision = "reject"

\* The bookkeeping checks of classifyStage3Apply never fire: receipts precede
\* consumption, consumption precedes publication, every earlier attempt is closed
\* by a reject or an unapplied outcome.
ClassifierAccepts ==
    \A i \in 1..Current : Coherent(attempts[i]) /\ (i < Current => Closed(attempts[i]))

\* Stand-down never begins over a spent receipt whose publication has no outcome.
StandDownAfterOutcome ==
    standingDown => \A i \in 1..Current :
        attempts[i].consumed => attempts[i].publication # "none"

\* After stand-down has begun the apply authority is frozen.
StandDownFreezesApply ==
    [][standingDown => UNCHANGED <<attempts, cas>>]_vars

\* "At most one applied attempt per run": after it no attempt is made and nothing
\* is swapped.
AppliedIsLast ==
    [][(\E i \in 1..Current : attempts[i].publication = "applied")
        => UNCHANGED <<attempts, cas>>]_vars

\* "Any other SHA, a missing ref ... resolution is refused; the run stays
\* apply_uncertain and no Stage 3 operation is ever again legal for the run"
\* (docs/stage3-apply-v1.md, Recovery contract).
ForeignTargetIsFinal == [][refused => UNCHANGED attempts]_vars

-----------------------------------------------------------------------------
(* The commands implement an attended apply: of its journal, attempt i is
   standing where its receipt, its consumption and its outcome put it. *)

StandingOf(a) ==
    IF a.publication # "none" THEN a.publication
    ELSE IF a.consumed THEN "spent"
    ELSE CASE a.receipt.decision = "approve" -> "approved"
           [] a.receipt.decision = "reject" -> "rejected"
           [] OTHER -> "previewed"

Standings ==
    [i \in 1..MaxAttempts |-> IF i <= Current THEN StandingOf(attempts[i]) ELSE "unmade"]

Attended == INSTANCE AttendedApply WITH
    standing <- Standings, swaps <- cas, closing <- standingDown

\* Every step of preview, recorder, apply and stand-down, of a failing or dying command
\* and of an outsider is a step, or no step, of AttendedApply.
ImplementsAttendedApply == Attended!Spec
=============================================================================
