--------------------------- MODULE OperationJournal -------------------------
(***************************************************************************)
(* The write-ahead operation journal of one run (operation-journal.mjs,    *)
(* scanJournal and loadActiveRun of state-internal.mjs), at the grain of   *)
(* its file operations.                                                    *)
(*                                                                         *)
(* On disk: one file per entry, the high-water mark and head digest in     *)
(* run.json, and one guard file per operation whose outcome is uncertain.  *)
(* A command opens a session by taking the repository lock, performs       *)
(* journaled operations one after the other, and leaves.  Each publication *)
(* may fail before or after the file changed, and the process may die      *)
(* between any two steps.                                                  *)
(*                                                                         *)
(* The effect of an apply publication is a compare-and-swap of the target  *)
(* ref, which outsiders may move at any time.  Nobody but this ref tells a *)
(* later apply whether the swap took place.                                *)
(*                                                                         *)
(* A digest is represented by the operation and phase it covers; the other *)
(* digested fields are fixed by these two.                                 *)
(***************************************************************************)
EXTENDS Naturals, Sequences

CONSTANTS
    Operation,      \* operation ids a command may ask for
    ApplyOperation, \* those of the apply command
    Publication,    \* apply.publish operations
    Requires,       \* for each operation, those that must be observed before it
    Excludes        \* for each operation, those it may not follow

ASSUME OperationKinds ==
    /\ Publication \subseteq ApplyOperation
    /\ ApplyOperation \subseteq Operation
    /\ Requires \in [Operation -> SUBSET Operation]
    /\ Excludes \in [Operation -> SUBSET Operation]
    /\ \A o, q \in Operation : o \in Excludes[q] => q \in Excludes[o] /\ o # q

VARIABLES
    entries,  \* operations/: the entry files in sequence order
    run,      \* journal_sequence and journal_head of run.json
    guards,   \* operation-guards/: operations with a guard file
    session,  \* the command whose lock is on disk, or "none"
    pc,       \* next step of the command; "idle" when no process runs
    op,       \* the operation it is performing
    result,   \* what it is about to record
    target,   \* what the apply target ref holds
    effects,  \* history: how often each external effect happened
    told,     \* history: what the caller of each operation may rely on
    meddled   \* history: publications recorded with the target at the final SHA, or
              \* during whose doubt outsiders moved it to or away from there

disk == <<entries, run, guards>>
world == <<target, effects, meddled>>
vars == <<disk, session, pc, op, result, told, world>>

Outcome == {"done", "lost", "landed"}   \* a write succeeds, or fails before or
                                        \* after the file changed
Landed(w) == w # "lost"

Phase == {"intent", "observed", "needs_attention"}
Result == {"none", "performed", "declined", "not started", "unknown"}

\* An observed result; the error of a call that found no entry of its operation, other
\* than recovery_required; or nothing to rely on, as after recovery_required, an
\* operation_conflict about a recorded operation, or the error of a resolution.
Answer == {"ok", "error", "none"}

\* The SHA an apply starts from, the one it publishes, or any other and none.
Sha == {"starting", "final", "foreign"}
Step == {"idle", "ready", "intent entry", "intent head", "guard", "guarded",
         "effect", "result entry", "result head", "result guard", "catch",
         "attention entry", "attention head", "attention guard",
         "resolve entry", "resolve head", "resolve guard"}

NoDigest == <<>>

FaultyDigest(e) == <<e.op>>   \* for mutation testing

Digest(e) == <<e.op, e.phase>>
HeadOf(s) == IF s = <<>> THEN NoDigest ELSE Digest(s[Len(s)])

Last == entries[Len(entries)]
Recorded == {entries[i].op : i \in DOMAIN entries}
Observed == {entries[i].op : i \in {j \in DOMAIN entries : entries[j].phase = "observed"}}

Init ==
    /\ entries = <<>>
    /\ run = [sequence |-> 0, head |-> NoDigest]
    /\ guards = {}
    /\ session = "none"
    /\ pc = "idle"
    /\ op \in Operation
    /\ result = "none"
    /\ target = "starting"
    /\ effects = [o \in Operation |-> 0]
    /\ told = [o \in Operation |-> "none"]
    /\ meddled = {}

-----------------------------------------------------------------------------
(* Faulty variants of the operators below, for mutation testing. *)

FaultyLoadTrustsPhases(r, g, s) == \A i \in DOMAIN s : s[i].phase # "intent"

FaultyAdmissible(o) == o \in Operation

-----------------------------------------------------------------------------
(* Reading the journal *)

Chained(s) ==
    \A i \in DOMAIN s : s[i].prev = IF i = 1 THEN NoDigest ELSE Digest(s[i - 1])

Consistent(r, s) ==
    /\ Len(s) = r.sequence
    /\ Chained(s)
    /\ HeadOf(s) = r.head

\* loadActiveRun succeeds: no guard, an unbroken chain up to the recorded head,
\* and every operation observed.
LoadsClean(r, g, s) ==
    /\ g = {}
    /\ Consistent(r, s)
    /\ \A i \in DOMAIN s : s[i].phase = "observed"

Clean == LoadsClean(run, guards, entries)

\* A journal that does not load answers recovery_required for a guard or an open
\* operation, and another error for a broken chain.
RecoveryRequired ==
    \/ guards # {}
    \/ Consistent(run, entries) /\ \E i \in DOMAIN entries : entries[i].phase # "observed"

\* For mutation testing: a lost guard counts as a journal that cannot be resolved.
FaultyResolvable ==
    /\ entries # <<>>
    /\ Consistent(run, entries)
    /\ {i \in DOMAIN entries : entries[i].phase # "observed"} = {Len(entries)}
    /\ Last.op \in Publication
    /\ guards = {Last.op}

\* For mutation testing: a resolution that trusts the entries, whatever the head says.
FaultyResolvableUnchecked ==
    /\ entries # <<>>
    /\ {i \in DOMAIN entries : entries[i].phase # "observed"} = {Len(entries)}
    /\ Last.op \in Publication
    /\ guards \subseteq {Last.op}

\* loadUncertainApplyRun succeeds: the last entry, and it alone, is an apply
\* publication whose outcome is open.
Resolvable ==
    /\ entries # <<>>
    /\ Consistent(run, entries)
    /\ {i \in DOMAIN entries : entries[i].phase # "observed"} = {Len(entries)}
    /\ Last.op \in Publication
    /\ guards \subseteq {Last.op}

\* validateOperationSubject: creations and earlier stages observed, the opposite
\* report decision never recorded.
Admissible(o) ==
    /\ Requires[o] \subseteq Observed
    /\ Excludes[o] \cap Recorded = {}

-----------------------------------------------------------------------------
(* Sessions *)

\* The lock is free, or an apply reclaims the lock of a dead apply.
Open(kind) ==
    /\ pc = "idle"
    /\ session = "none" \/ (session = "apply" /\ kind = "apply")
    /\ session' = kind
    /\ pc' = "ready"
    /\ UNCHANGED <<disk, op, result, told, world>>

\* The command gives the lock back and ends.
Leave ==
    /\ session' = "none"
    /\ pc' = "idle"

Tell(o, answer) == told' = [told EXCEPT ![o] = answer]

Close ==
    /\ pc = "ready"
    /\ Leave
    /\ UNCHANGED <<disk, op, result, told, world>>

\* The process dies and keeps its lock; the answer never arrives.
Crash ==
    /\ pc # "idle"
    /\ pc' = "idle"
    /\ UNCHANGED <<disk, session, op, result, told, world>>

\* Any other command finds the lock of a dead process and answers
\* recovery_required, for good.
RefuseRetainedLock ==
    /\ pc = "idle" /\ session = "other"
    /\ UNCHANGED vars

MayAsk(o) == (session = "apply") <=> (o \in ApplyOperation)

\* What the effect of a publication does to the target: git update-ref.
Swap ==
    IF op \in Publication THEN target = "starting" /\ target' = "final"
                         ELSE UNCHANGED target

-----------------------------------------------------------------------------
(* Faulty variants of the steps below, for mutation testing. *)

FaultyBeginUnclean(o) ==
    /\ pc = "ready" /\ MayAsk(o)
    /\ Admissible(o) /\ o \notin Recorded
    /\ op' = o
    /\ result' = "none"
    /\ Tell(o, "none")
    /\ pc' = "intent entry"
    /\ UNCHANGED <<disk, session, world>>

FaultyPerformBlamesLock ==
    /\ pc = "effect"
    /\ Swap
    /\ effects' = [effects EXCEPT ![op] = @ + 1]
    /\ \/ pc' = "result entry" /\ result' = "performed"
       \/ pc' = "catch" /\ result' = "not started"
    /\ UNCHANGED <<disk, session, op, told, meddled>>

FaultyAcknowledgeEntry(w) ==
    /\ pc = "result entry"
    /\ entries' = IF Landed(w)
                  THEN [entries EXCEPT ![Len(entries)].phase = "observed",
                                       ![Len(entries)].result = result]
                  ELSE entries
    /\ IF w = "done" THEN pc' = "result head" /\ Tell(op, "ok")
                     ELSE pc' = "catch" /\ UNCHANGED told
    /\ UNCHANGED <<run, guards, session, op, result, world>>

FaultyRethrow ==
    /\ pc = "catch"
    /\ \/ pc' = "attention entry" /\ UNCHANGED <<session, told>>
       \/ Leave /\ Tell(op, "error")
    /\ UNCHANGED <<disk, op, result, world>>

-----------------------------------------------------------------------------
(* performJournaledOperation up to the effect *)

Begin(o) ==
    /\ pc = "ready" /\ MayAsk(o)
    /\ Clean /\ Admissible(o) /\ o \notin Recorded
    /\ op' = o
    /\ result' = "none"
    /\ Tell(o, "none")
    /\ pc' = "intent entry"
    /\ UNCHANGED <<disk, session, world>>

\* A retry of an observed operation returns the recorded digest.
Replay(o) ==
    /\ pc = "ready" /\ MayAsk(o)
    /\ Clean /\ Admissible(o) /\ o \in Observed
    /\ Tell(o, "ok")
    /\ UNCHANGED <<disk, session, pc, op, result, world>>

\* The journal does not load, the subject is inadmissible, or the operation id was
\* recorded with other input.  Of an operation without an entry any error but
\* recovery_required can be relied on; of a recorded one operation_conflict and
\* bookkeeping_unknown say nothing, its effect may long have happened.
Refuse(o) ==
    /\ pc = "ready" /\ MayAsk(o)
    /\ ~Clean \/ ~Admissible(o) \/ o \in Recorded
    /\ Leave
    /\ IF o \in Recorded \/ RecoveryRequired THEN UNCHANGED told ELSE Tell(o, "error")
    /\ UNCHANGED <<disk, op, result, world>>

NewEntry == [op |-> op, phase |-> "intent", result |-> "none", prev |-> run.head]

PublishIntentEntry(w) ==
    /\ pc = "intent entry"
    /\ entries' = IF Landed(w) THEN Append(entries, NewEntry) ELSE entries
    /\ meddled' = IF Landed(w) /\ op \in Publication /\ target = "final"
                  THEN meddled \cup {op} ELSE meddled
    /\ IF w = "done" THEN pc' = "intent head" /\ UNCHANGED <<session, told>>
                     ELSE Leave /\ Tell(op, "error")
    /\ UNCHANGED <<run, guards, op, result, target, effects>>

PublishIntentHead(w) ==
    /\ pc = "intent head"
    /\ run' = IF Landed(w)
              THEN [sequence |-> run.sequence + 1, head |-> HeadOf(entries)]
              ELSE run
    /\ IF w = "done" THEN pc' = "guard" /\ UNCHANGED <<session, told>>
                     ELSE Leave /\ Tell(op, "error")
    /\ UNCHANGED <<entries, guards, op, result, world>>

PublishGuard(w) ==
    /\ pc = "guard"
    /\ guards' = IF Landed(w) THEN guards \cup {op} ELSE guards
    /\ IF w = "done" THEN pc' = "guarded" /\ UNCHANGED session ELSE Leave
    /\ UNCHANGED <<entries, run, op, result, told, world>>

\* assertLock between the guard and the effect.
AssertBeforeEffect ==
    /\ pc = "guarded"
    /\ \/ pc' = "effect" /\ UNCHANGED result
       \/ pc' = "catch" /\ result' = "not started"
    /\ UNCHANGED <<disk, session, op, told, world>>

-----------------------------------------------------------------------------
(* The effect and its result *)

\* The effect happens; a later error of the effect, of the validation of its
\* observation or of assertLock still leads to the catch block.
Perform ==
    /\ pc = "effect"
    /\ Swap
    /\ effects' = [effects EXCEPT ![op] = @ + 1]
    /\ \/ pc' = "result entry" /\ result' = "performed"
       \/ pc' = "catch" /\ result' = "unknown"
    /\ UNCHANGED <<disk, session, op, told, meddled>>

FailEffect ==
    /\ pc = "effect"
    /\ pc' = "catch"
    /\ result' = "unknown"
    /\ UNCHANGED <<disk, session, op, told, world>>

\* A publication finds its target moved and records that it did nothing.
DeclineEffect ==
    /\ pc = "effect"
    /\ op \in Publication
    /\ pc' = "result entry"
    /\ result' = "declined"
    /\ UNCHANGED <<disk, session, op, told, world>>

\* transitionJournalEntry, first half: rewrite the entry file.
Rewritten(phase) ==
    [entries EXCEPT ![Len(entries)].phase = phase, ![Len(entries)].result = result]

\* transitionJournalEntry, second half: advance the head in run.json.
Advanced == [run EXCEPT !.head = HeadOf(entries)]

WriteResultEntry(w) ==
    /\ pc = "result entry"
    /\ entries' = IF Landed(w) THEN Rewritten("observed") ELSE entries
    /\ IF w = "done" THEN pc' = "result head" /\ UNCHANGED result
                     ELSE pc' = "catch" /\ result' = "unknown"
    /\ UNCHANGED <<run, guards, session, op, told, world>>

WriteResultHead(w) ==
    /\ pc = "result head"
    /\ run' = IF Landed(w) THEN Advanced ELSE run
    /\ IF w = "done" THEN pc' = "result guard" /\ UNCHANGED result
                     ELSE pc' = "catch" /\ result' = "unknown"
    /\ UNCHANGED <<entries, guards, session, op, told, world>>

RemoveGuard(w) ==
    /\ pc = "result guard"
    /\ guards' = IF Landed(w) THEN guards \ {op} ELSE guards
    /\ IF w = "done"
       THEN /\ pc' = "ready"
            /\ Tell(op, "ok")
            /\ UNCHANGED session
       ELSE Leave /\ UNCHANGED told
    /\ UNCHANGED <<entries, run, op, result, world>>

-----------------------------------------------------------------------------
(* The catch block: a best-effort needs_attention under the guard, then
   recovery_required *)

AssertBeforeAttention ==
    /\ pc = "catch"
    /\ \/ pc' = "attention entry" /\ UNCHANGED session
       \/ Leave
    /\ UNCHANGED <<disk, op, result, told, world>>

WriteAttentionEntry(w) ==
    /\ pc = "attention entry"
    /\ entries' = IF Landed(w) THEN Rewritten("needs_attention") ELSE entries
    /\ IF w = "done" THEN pc' = "attention head" /\ UNCHANGED session ELSE Leave
    /\ UNCHANGED <<run, guards, op, result, told, world>>

WriteAttentionHead(w) ==
    /\ pc = "attention head"
    /\ run' = IF Landed(w) THEN Advanced ELSE run
    /\ IF w = "done" THEN pc' = "attention guard" /\ UNCHANGED session ELSE Leave
    /\ UNCHANGED <<entries, guards, op, result, told, world>>

RemoveAttentionGuard(w) ==
    /\ pc = "attention guard"
    /\ guards' = IF Landed(w) THEN guards \ {op} ELSE guards
    /\ Leave
    /\ UNCHANGED <<entries, run, op, result, told, world>>

-----------------------------------------------------------------------------
(* resolveUncertainApplyPublication.  A write that fails raises its own error, which
   concerns a recorded operation and may follow its effect: no caller can rely on it. *)

\* resolveStage3ApplyOutcome believes the target ref, whoever moved it: at the final SHA
\* the swap took place, at the starting one it did not.
BeginResolution ==
    /\ pc = "ready" /\ session = "apply"
    /\ Resolvable
    /\ target \in {"starting", "final"}
    /\ op' = Last.op
    /\ result' = IF target = "final" THEN "performed" ELSE "declined"
    /\ pc' = "resolve entry"
    /\ UNCHANGED <<disk, session, told, world>>

\* Any other target is refused as foreign_or_stale.
RefuseResolution ==
    /\ pc = "ready" /\ session = "apply"
    /\ Resolvable
    /\ target = "foreign"
    /\ Leave
    /\ UNCHANGED <<disk, op, result, told, world>>

ResolveEntry(w) ==
    /\ pc = "resolve entry"
    /\ entries' = IF Landed(w) THEN Rewritten("observed") ELSE entries
    /\ IF w = "done" THEN pc' = "resolve head" /\ UNCHANGED session ELSE Leave
    /\ UNCHANGED <<run, guards, op, result, told, world>>

ResolveHead(w) ==
    /\ pc = "resolve head"
    /\ run' = IF Landed(w) THEN Advanced ELSE run
    /\ IF w = "done" THEN pc' = "resolve guard" /\ UNCHANGED session ELSE Leave
    /\ UNCHANGED <<entries, guards, op, result, told, world>>

\* The guard is there after a crash, gone after a completed needs_attention.
ResolveGuard(w) ==
    /\ pc = "resolve guard"
    /\ guards' = IF Landed(w) THEN guards \ {op} ELSE guards
    /\ IF w = "done"
       THEN /\ pc' = "ready"
            /\ Tell(op, "ok")
            /\ UNCHANGED session
       ELSE op \in guards /\ Leave /\ UNCHANGED told
    /\ UNCHANGED <<entries, run, op, result, world>>

-----------------------------------------------------------------------------
(* Outsiders *)

\* The publication whose outcome the files leave open.
InDoubt ==
    {q \in Publication :
        entries # <<>> /\ Last.op = q /\ (Last.phase # "observed" \/ q \in guards)}

\* Somebody moves the target ref.
MoveTarget ==
    /\ target' \in Sha \ {target}
    /\ meddled' = IF "final" \in {target, target'} THEN meddled \cup InDoubt ELSE meddled
    /\ UNCHANGED <<disk, session, pc, op, result, told, effects>>

-----------------------------------------------------------------------------

Publish(w) ==
    \/ PublishIntentEntry(w) \/ PublishIntentHead(w) \/ PublishGuard(w)
    \/ WriteResultEntry(w) \/ WriteResultHead(w) \/ RemoveGuard(w)
    \/ WriteAttentionEntry(w) \/ WriteAttentionHead(w) \/ RemoveAttentionGuard(w)
    \/ ResolveEntry(w) \/ ResolveHead(w) \/ ResolveGuard(w)

Next ==
    \/ \E kind \in {"apply", "other"} : Open(kind)
    \/ Close \/ Crash \/ RefuseRetainedLock
    \/ \E o \in Operation : Begin(o) \/ Replay(o) \/ Refuse(o)
    \/ AssertBeforeEffect \/ Perform \/ FailEffect \/ DeclineEffect
    \/ AssertBeforeAttention
    \/ BeginResolution \/ RefuseResolution
    \/ MoveTarget
    \/ \E w \in Outcome : Publish(w)

Spec == Init /\ [][Next]_vars

-----------------------------------------------------------------------------
(* Properties *)

Entry == [op : Operation, phase : Phase, result : Result,
          prev : {NoDigest} \cup (Operation \X Phase)]

TypeOK ==
    /\ entries \in Seq(Entry)
    /\ run \in [sequence : Nat, head : {NoDigest} \cup (Operation \X Phase)]
    /\ guards \subseteq Operation
    /\ session \in {"none", "apply", "other"}
    /\ pc \in Step
    /\ op \in Operation
    /\ result \in Result
    /\ target \in Sha
    /\ effects \in [Operation -> Nat]
    /\ told \in [Operation -> Answer]
    /\ meddled \subseteq Publication

\* No sequence of requests, retries, I/O failures and crashes makes an external
\* effect happen twice.
EffectAtMostOnce == \A o \in Operation : effects[o] <= 1

\* What an entry says of its effect is true in every phase: the error code of an effect
\* never started always, a "performed" or "declined" result unless outsiders moved the
\* target to or away from the final SHA while the publication was in doubt, since a
\* resolution (resolveStage3ApplyOutcome) believes the ref.
TruthfulRecords ==
    \A i \in DOMAIN entries :
        /\ entries[i].result = "not started" => effects[entries[i].op] = 0
        /\ entries[i].op \notin meddled =>
              /\ entries[i].result = "performed" => effects[entries[i].op] = 1
              /\ entries[i].result = "declined" => effects[entries[i].op] = 0
        /\ entries[i].phase = "observed" => entries[i].result \in {"performed", "declined"}

\* When the journal loads, every effect that ever happened has its observed entry:
\* nothing uncertain hides behind a clean load.
CleanAccountsForEffects ==
    Clean => \A o \in Operation : effects[o] > 0 => o \in Observed

\* A success told to a caller survives everything that can happen later.
AcknowledgedIsDurable ==
    \A o \in Operation : told[o] = "ok" => o \in Observed

\* performJournaledOperation passes an error on as it is only while the operation has not
\* durably begun: after the error, other than recovery_required, of a call that found no
\* entry of its operation, the effect has not happened, and will not unless it is asked
\* for again.  Of a recorded operation and of a resolution no error promises anything.
PlainErrorMeansNoEffect ==
    \A o \in Operation : told[o] = "error" => effects[o] = 0

\* An effect happens only after its prerequisites' effects are on record, and two
\* exclusive operations (report.harvest and report.reject of one generation) never
\* both take effect.
EffectsInOrder ==
    \A o \in Operation : effects[o] > 0 =>
        /\ Requires[o] \subseteq Observed
        /\ \A q \in Excludes[o] : effects[q] = 0

\* "A crash after approval.consume is observed but while apply-publish-<g> is
\* non-observed ... The attended apply action alone may resolve it"
\* (docs/stage3-apply-v1.md): whenever no process runs, an apply publication in
\* phase intent or needs_attention can be resolved.
UncertainPublicationResolvable ==
    (/\ pc = "idle" /\ entries # <<>>
     /\ Last.op \in Publication /\ Last.phase # "observed") => Resolvable

\* The head in run.json is not that of the entries: one of two writes is missing.
Torn == run.sequence # Len(entries) \/ run.head # HeadOf(entries)

\* That is the only way: wherever else a publication or its resolution failed or died, the
\* journal lets a later apply resolve it, with or without a guard (once the target is at
\* the starting or the final SHA).
ResolvableUnlessTorn ==
    (/\ pc = "idle" /\ entries # <<>> /\ ~Torn
     /\ Last.op \in Publication /\ Last.phase # "observed") => Resolvable

\* Even torn, the files are one write apart (publishIntent, transitionJournalEntry) and
\* still tell of the last operation: a head that misses its entry means that the effect
\* never started, any other head names another phase of that same entry.
TornByOneWrite ==
    Torn =>
        /\ entries # <<>>
        /\ \/ /\ run.sequence = Len(entries) - 1 /\ run.head = Last.prev
              /\ Last.phase = "intent" /\ effects[Last.op] = 0
           \/ /\ run.sequence = Len(entries)
              /\ run.head \in {<<Last.op, phase>> : phase \in Phase \ {Last.phase}}

-----------------------------------------------------------------------------
(* The journal implements at-most-once operations: an operation is settled when
   its observed entry no longer has a guard, and a command is at work on it from
   its intent to the removal of its guard. *)

EntryOf(o) == entries[CHOOSE i \in DOMAIN entries : entries[i].op = o]

KnownOutcome ==
    [o \in Operation |->
        IF o \notin Recorded THEN "absent"
        ELSE IF EntryOf(o).phase = "observed" /\ o \notin guards
             THEN EntryOf(o).result
             ELSE "in doubt"]

\* From the catch block on, a command has given up on its operation.
Work ==
    IF pc \in {"intent head", "guard", "guarded", "effect",
              "result entry", "result head", "result guard"} THEN "performing"
    ELSE IF pc \in {"resolve entry", "resolve head", "resolve guard"} THEN "resolving"
    ELSE "none"

Abstract == INSTANCE AtMostOnce WITH outcome <- KnownOutcome, work <- Work

\* Every step of the journal is a step, or no step, of AtMostOnce.
ImplementsAtMostOnce == Abstract!Spec
=============================================================================
