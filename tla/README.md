# herdr-conductor in TLA+

A verification development for the Conductor: specifications of its protocols,
TLC configurations that check them on small instances, and TLAPS proofs for every
instance. Source paths are relative to the repository root; most of the code is in
`scripts/`.

## 1. The system

The Conductor runs a group of coding agents in one repository. It has no server:
every command (`assemble`, `harvest`, `preview`, `apply`, `stand-down`, `status`,
the report publisher, the approval recorder) is a short-lived process, and all
memory between commands is a private directory tree. So every protocol here is a
protocol between processes that die, and files.

| component | state | operations | what is hard |
| --- | --- | --- | --- |
| repository lock (`state-internal.mjs`) | a directory, `owner.json` | inspect, reclaim, acquire, assert, release | no kernel lock: each file operation is a step; the holder may die anywhere; reclaim acts on an earlier look |
| operation journal (`operation-journal.mjs`, `scanJournal`, `loadActiveRun`) | entry files, `run.json` head, guard files | perform a journaled operation, load, resolve an apply publication, archive | several writes per transition; write-ahead of effects nobody can undo; retries |
| Stage 3 apply (`stage1-runtime.mjs`, `stage3-apply.mjs`, `approval-recorder.mjs`) | journaled attempts, the target ref | preview, record a receipt, consume, compare-and-swap, resolve | the ref belongs to others too; one receipt, one swap, across crashes |
| run store (`createRun`, `scanRunStates`, `archiveActiveRun`) | run state, activation guard, active pointer | create, load, archive, lock-free status | activation and archive are several writes; readers take no lock |
| report publisher and harvest (`report-publisher.mjs`, `report-harvest.mjs`) | one outbox slot per task | publish, scan, accept, reject | both hold the lock; a publisher that dies or fails between its files leaves residue nobody resolves |
| lifecycle and runtime (`stage1-runtime.mjs`, `stage2-lifecycle.mjs`) | derived from the journal | assemble, harvest, provision gates, stand down, derive the state | barriers between roles; every reachable journal must be classified |
| integration (`git-reconcile.mjs`) | integration ref, worktree | plan, preflight, compare-and-swap, synchronise | Git moves between reads; ref and worktree are separate steps |
| task authority, source policy, gate sources | task files, worktrees | publish, inspect | a worktree changes after it was inspected |
| Herdr identity (`herdr-identity.mjs`) | panes and agents of another program | list, start, match | polling with timeouts; a late start |
| schemas, state root | none | validate documents | data only |
| evidence harness, `check-*.mjs`, renderer | none of a run | drive, validate, print | outside the protocols |

How they interact: a mutating command takes the **lock** once, loads the run
through the **run store** and the **journal**, derives the **lifecycle** from the
observed entries, and then performs **journaled operations**, each of which calls
Git, Herdr or the file system as its effect. Agents talk back only by writing a
report **slot**; the operator only by a receipt on the approval recorder's input.

### What makes each component correct

* Lock: one holder; a dead holder's lock refuses everyone except an apply of the same
  operation; a half-made lock is never adopted.
* Journal: an effect happens at most once; what a record says of its effect is true, that
  of a publication unless outsiders moved the target that a resolution reads; a success
  told to a caller stays true; a journal that loads accounts for every effect that ever
  happened.
* Apply: a swap spends exactly one approve receipt of its own attempt; recorded
  outcomes are true unless outsiders interfered; no sequence of commands reaches
  attempts the classifier rejects; stand-down and a spent receipt exclude each other.
* Run store: never two active runs, and a run left unfinished at either end of its life
  is told from the files and never hidden behind an older one, also for a reader
  without the lock.
* Slot: only a complete, unchanged report is accepted, once; the residue of a failed
  publication is never completed by another; nobody keeps the lock but by dying.
* Lifecycle: barriers hold; every reachable journal has a state, and stand-down is
  available from every stable one. The code falls short of both (findings 4 and 5);
  section 5 says what holds all the same.

## 2. Modules

| module | models | state |
| --- | --- | --- |
| `RepositoryLock` | the lock, one file operation per action | `dir`, `owner` (the two files); `pc`, `seen` per process |
| `MutationLock` | what the lock promises | `phase`, `keeper`, `acting` |
| `RepositoryLockProofs` | its theorems, and that it implements `MutationLock` | |
| `MCRepositoryLock` | two applies of one workspace, a harvest, an assemble | |
| `AtMostOnce` | what the journal promises its callers | `outcome`, `effects`, `work`, `meddled` |
| `OperationJournal` | the journal, one file write per action | `entries`, `run`, `guards` (disk); `session`, `pc`, `op`, `result` (the running command); `target` (the ref) |
| `OperationJournalProofs` | its theorems, and that it implements `AtMostOnce` | |
| `MCOperationJournal` | a creation and its close, two exclusive report decisions, a publication | |
| `ApplyAttempts` | Stage 3 of one run | `attempts`, `standingDown`, `doubt` (journal), `lock`, the refs, `intact` (the snapshots), `pc`, `receipt`, `outcome` |
| `AttendedApply` | what the attended apply promises the operator | `standing`, `swaps`, `meddled`, `closing` |
| `ApplyAttemptsProofs` | its theorems, and that it implements `AttendedApply` | |
| `Conductor` | one run from `assemble` to archive, and the scanner | `observed`, `standDown`, `stuck` (journal and lock); `pc`, `todo`, `plan` (the running command); `slot`, `head`, `tampered`, `panes`, `target` (the world) |
| `RunLife` | what the life of a run looks like, whatever the commands went through | `stage`, `report`, `integration`, `sources`, `swaps`, `closing`, `closed`, `life` |
| `ConductorProofs` | its theorems, and that it implements `RunLife` | |
| `MCConductor` | a builder, a test author, a reviewer, a validator | |
| `RunRegistry` | what the run store promises: runs opened one at a time, archived for good | `standing` |
| `RunStore` | the files of all runs of a workspace, one file operation per action, and the lock-free loaders | `files`, `lock` (disk); `pc`, `command`, `mine`, `loader`, `view` per process |
| `RunStoreProofs` | theorems about the files, and that it implements `RunRegistry` | |
| `RunStoreReaderProofs` | theorems about what is read and reported | |
| `MCRunStore` | two interchangeable commands | |
| `ReportOnce` | what the slot of a task promises | `slot`, `decision`, `open` |
| `ReportSlot` | publishers, harvests and stand-down at one slot, one file operation per action | `guard`, `staging`, `payload`, `marker` (slot); `accepted`, `verdict`, `judged`, `open` (run); `lock`; `pc`, `content`, `ends` per command |
| `ReportSlotProofs` | its theorems, and that it implements `ReportOnce` | |
| `MCReportSlot` | a publisher, its retry, a harvest, two reports | |

The layers meet at narrow points, and each layer's promise is an abstract module that it
is proved to implement. `RepositoryLock` shows that under the lock commands run one at a
time (`MutationLock`); `OperationJournal` therefore has one session at a time and only
keeps which kind of command left its lock behind. It shows that an operation is either
unknown, in doubt, or settled; that the command which performs it settles it with a true
record; and that the doubt of a command that gave up or died is final, except for a
publication, which a later apply settles by what it reads off the target (`AtMostOnce`,
whose `work` says what a command does about the operation in doubt, and whose `meddled`
are the publications that the target may mislead about).
`ApplyAttempts` therefore keeps of the journal only which operation is in doubt, plus
`broken` for a journal that will never load again, a state `OperationJournal` reaches.
`Conductor` keeps less still: the set of observed operations, and `stuck` once one is in
doubt or a command has died, because no command that it models goes on from there. Its
states in which gates are collected are those in which `ApplyAttempts` begins.
`RunStore` has what the others take for granted, that there is one run to work on: its
`operate` and `settle` steps are where the operations of `Conductor` happen. `ReportSlot`
has in files what is one step of `Conductor`, a publication that commits or leaves
residue and a harvest that decides.

### 2.1 RepositoryLock

`Inspect`, `ProbeAnswers`/`ProbeDead`, `UnlinkDead`, `RemoveDead` are
`reclaimDeadRepositoryLock` and `refuseDeadRepositoryLock`; `MakeDir`, `PublishOwner`
are `acquireRepositoryLock`; `AssertLock`, `AssertRelease`, `UnlinkOwn`, `RemoveOwn`
the rest. Reading the directory and its record is one step. The short time in which
the owner file has a second link reads as `lock_unknown` in the code and is part of
`PublishOwner`. `kill(pid, 0)` may answer for a dead owner whose pid was reused.
`Phase` and `Keeper` read the `MutationLock` off the files: a directory without a record is
being made, being cleared or orphaned, according to who is at work in it.
`Crash` is enabled after every step. `staleReclaim` is history: it marks the run of
events of finding 1 so that the other properties can be stated without it.

### 2.2 OperationJournal

Each publication takes an outcome: done, failed before the file changed, failed after
it (`writeJson` reports an error after its rename). Entry digests are the operation
and phase they cover: within one run the other digested fields are fixed by them.
Each write is synced before the next begins, so a power loss leaves what a crash
leaves. Taking and releasing the lock is one step of a session; a dead apply's
lock can be taken over by an apply, any other refuses for good
(`RefuseRetainedLock`).

The effect of a publication is a swap of `target`, of which only three contents matter:
the SHA the apply starts from, the one it publishes, any other or none. Outsiders may move
it at any moment (`MoveTarget`). An apply that resolves a publication has nothing but this
ref to go by, as in `resolveStage3ApplyOutcome`: at the final SHA it records the swap as
performed, at the starting one as declined (`BeginResolution`), otherwise it refuses
(`RefuseResolution`). So a record made by a resolution can be false, either way: after a
swap that was moved back, or without one when somebody else moved the ref forward.
`meddled` is history: the publications recorded with the target at the final SHA already, or
during whose doubt it was moved to or away from there. Of these, and of no others,
`TruthfulRecords` and `AtMostOnce` promise nothing about what a resolution records. What a
command records of its own effect is true whatever outsiders do (`True` in `Settle`).

`told` is what a caller may rely on. A success is a success. An error other than
`recovery_required` counts (`"error"`) only if the call found no entry of its operation: it
was refused before it wrote anything, or the intent or its head could not be written. Of a
recorded operation the caller learns nothing from an error: `operation_conflict` and
`bookkeeping_unknown` are thrown (`Refuse`) also when its effect happened long ago, a write
that fails inside a resolution raises its own error (`ResolveEntry`, `ResolveHead`,
`ResolveGuard`), and so do a refused resolution and everything that answers
`recovery_required`. In these places `told` keeps what an earlier call said or nothing.

`Requires` and `Excludes` stand for `operation-policy.mjs` and
`validateOperationSubject`; they are constants, so what holds, holds for any policy in which exclusion is
mutual and no operation excludes itself (`OperationKinds`).

### 2.3 ApplyAttempts

A journaled operation is in doubt from its intent to its observed record; a command
that dies or fails in between leaves it so, or leaves the journal broken. `Live` is
`observeStage3ApplyTarget`. Its first observation and the publication intent are one
step, and so are the three preflights of `publishStage3ApplyCas` (the step is the last of
them, or the first that fails) and the two read-backs. Gates are assumed collected.
`run.stand-down.begin` is one step; pane closes and archive, which follow it, change
nothing here. `Lifecycle` is what the journal says; `Scan` is what the commands see, which is no
state at all once a snapshot was edited and an attempt exists. The recorder does not
look at the snapshots, nor does an apply between its consumption and its publication.
A resolution that meets an outsider's `final` or `starting` SHA believes
it, as the code does: `meddled` records such attempts. `StandingOf` maps the three records
of an attempt (receipt, consumption, outcome) to one standing of `AttendedApply`.

### 2.4 Conductor

A command holds the lock from start to end, so `pc` is one command's position and
`todo` and `plan` its memory. `Perform` is a journaled operation: observed, or in doubt
(`Doubt`); `Fail` is an error between two operations, after which the lock is free;
`Die` is a process that keeps its lock.

* `assemble` (`CreateWorktree` to `Assembled`) takes the producers in configuration
  order, each with all its stages. It cannot be resumed.
* `harvest` first visits the producers in name order (`Pass`, `AcceptReport`,
  `RejectReport`), then plans, swaps and gathers the integration, then provisions the
  gates in barriers (`CreateGateSource`, `PublishGateTask`, `CreateGatePane`,
  `StartGateAgent`) and visits them. Every part can be found half done by the next
  harvest. The swap and the synchronisation of the worktree are one operation.
* `stand-down` (`BeginStandDown` to `ArchiveRun`) records the close set, checks that
  every pane is live, and closes them in order. `CheckPanes` and `ClosePane` simply cannot
  be taken without the panes; the command then fails.
* `Lifecycle` is `scanStage2Authority`; `Unknown` stands for every `bookkeeping_unknown`
  it can throw. `Refusals` are what `gateSourceRefusals` would find.
* Outside, agents commit and publish, publications leave residue (`Torn`) or a report
  that validation refuses (`Invalid`), users close panes, edit and restore snapshots and
  move the target. A branch that leaves its reported commit stands for every change of a
  producer's worktree that the source policy refuses.

`merged` and `swaps` are history. `Accepted` and `Rejected` are read from the journal; the
scanner reads the report file of an accepted one, which never changes after acceptance.
`RunLife` knows no commands: `StageOf`, `ReportOf`, `Integration` and `LifeOf` read each
role's stage and verdict and the state of the run off the journal alone.

### 2.5 RunStore

`assemble` takes the lock and runs `createRun` (`ScanBeforeCreate` to
`RemoveActivation`), then binds the run; `stand-down` looks without the lock
(`inspectArchiveUncertainty`, then `loadActiveRun`, then, if there is no active run,
`loadArchivedRun`), takes the lock, loads again and runs `archiveActiveRun`
(`ScanBeforeArchive` to `RemoveArchiveGuard`); `status` only looks. A loader lists the
pointers, lists the runs, and reads one run's files at a time (`ScanActivePointers` to
`EndPass`), so it can see two runs, or one run's document and journal, at different
times. Listing a directory and reading its files is one step with an outcome of its
own: a file that its owner is about to unlink may be gone (`PointerVanishes`,
`GuardVanishes`, `ActivationVanishes`). `Write` is one file operation: done, or failed
before or after the file changed, after which the command's `finally` frees the lock. The
temporary names of exclusive publication are left out. A run identity is random in the
code; here it is the order of creation, which is also that of `updated_at`.

The operations a run's journal holds before its archive (binding the target, the close
set, the pane closes) are one operation, begun and settled; a run that fails in it can
be loaded by no command again. That, and a half-archived predecessor whose successor
`createRun` makes but whose `inspectArchiveUncertainty` refuses every stand-down, are the
two ways in which a failure makes a workspace unusable; the code means them to
need attention, so `CleanHistoryServes` is stated for histories without failures. `NewestDecides`
and `ReportedArchiveIsComplete` have no such premise: such a workspace refuses, it never
tells anything false.

`seen` is history: the run that stood last (`Latest`) at each moment of a load. It
leaves out whether an older archive is unfinished, because a `status` can miss that:
with three commands at a time, one archive can fail and the next run be created and
archived, all after the status has inspected the archives and before it looks for the
last archived run, which it then reports although a second `status` would refuse.

### 2.6 ReportSlot

A publisher looks at the run (`Attach`) and the slot (`LookAtSlot`) without the lock, takes
it, reads its input (`ReadInput`), looks again (`Authorize`, `ScanSlot`) and writes guard,
staging file, payload and marker, then unlinks staging and guard and scans once more
(`Confirm`). Every write may fail and leave nothing, a torn file or the whole file. The
input may never end (`ends`): the command then holds the lock for good, as in the code. A
harvest (`LoadDecision` to `Observe`) answers from the journal if it has decided already;
otherwise it reads the slot, inspects the source, records an intent, copies, validates
the copy and the slot again, and records the decision. The journaled operation is here
begun and then recorded or uncertain. Archiving is one step of a stand-down that needs
the free lock and a journal without open entries.

## 3. Runs

| run | question | states | result |
| --- | --- | --- | --- |
| `lock` | is the lock exclusive, whatever dies where? does it implement `MutationLock`? | 46,776 | holds |
| `reclaim_race` | is only a dead process's lock reclaimed? | | violated, finding 1 |
| `journal` | are effects at most once, and records true unless outsiders moved the target? what does an error say? which publications can be resolved? does it implement `AtMostOnce`? | 1,095,942 | holds |
| `uncertain_publication` | can apply resolve every open publication? | | violated, finding 2 |
| `apply` | one receipt one swap, true outcomes, classifiable journals; does it implement `AttendedApply`? | 357,648 | holds |
| `foreign_target` | is a refused resolution final? | | violated, finding 3 |
| `conductor` | does every journal have a state, and a stand-down? one verdict per report, an integration of what was reported, barriers kept, no pane left; does it implement `RunLife`? | 437,340 | holds |
| `stable_states` | can a run be stood down from every stable state? | | violated, finding 4 |
| `late_harvest` | is the close set of a closing run exact? | | violated, finding 5 |
| `run_store` | one live run, told by its files, never hidden; is a status read piece by piece true? does the store implement `RunRegistry`? | 1,198,056 | holds |
| `masked_run` | can an archived run be reported in place of a newer one? | | violated, finding 6 |
| `report_slot` | are acknowledgements true? does the slot implement `ReportOnce`? is the lock given back? | 264,534 | holds |

What `RetainedLockRefuses` and `OrphanRefusesForever` say is part of
`ImplementsMutationLock`, `EffectAtMostOnce` of `ImplementsAtMostOnce`, what `StandDownFreezesApply` and `AppliedIsLast` say of
`ImplementsAttendedApply`, `OneSwap` of `ImplementsRunLife`. No run checks them apart; they
remain definitions and theorems.

**Bounds.** `lock`: four processes are enough for the longest chain known, a dead
apply, two reclaimers looking at it and a third command in between. `journal`: five
operations, one of each kind that the code treats differently; every operation can be
asked for any number of times. A journal of three operations is not continued
(`ShortJournal`, the only state constraint of the project), enough for a creation with its close or a report decision together
with a publication, before or after it; without the constraint the run holds too, with
twice the states. Requests, failed writes, deaths and moves of the target are
unbounded. `apply`: three attempts (eight in the code), enough for an earlier rejected, an
earlier voided and a newest attempt together; outsiders and crashes are unbounded.
`foreign_target` needs one attempt. `conductor`: two producers and two
gates, because every barrier and every conflict between reports is between two roles of
one kind; a branch is at its reported commit or not (`Commit`); one mishap at a time
(`MishapLimit`: panes lost and snapshots edited), any number in a row. Commands, failures
and retries are unbounded. The builder precedes the test author both in the configuration
and in name order: otherwise a harvest meets the role without a task first and the second
way of finding 4 stays out of reach. `run_store`: two commands, because under the lock
one writes beside a reader; what a third adds (a stand-down that looked before another's
archive failed, section 2.5) is what the theorems are for, which hold for any number; two runs
(`MaxRuns`), an archived one and its successor, because every loader compares a run with
older ones; one failed file operation or death (`MishapLimit`), after which at most one run
is unfinished: a second one ends another command in a store that already refuses. The two
commands are interchangeable (symmetry); the run has no liveness property.
`report_slot`: a publisher, its retry and a harvest, two reports (a replay and an
equivocal one), two failures or deaths, enough for a torn publication whose retry or
harvest fails too; commands are repeated without bound. No run but `journal` has a state constraint, and
only `run_store` uses symmetry.

**Deadlock** is checked in every run. A state in which all commands have ended
(`Finished`) or only refusals are left (`RefuseRetainedLock`, `Refuse`) repeats itself.

**Fairness.** `report_slot` assumes weak fairness of each command that runs
(`WF_vars(Publish(p))`, `WF_vars(Harvest(c))`): its process is scheduled, and every call it
makes is bounded, except that a publisher waits for its input to end. Nothing is assumed
of when a command begins, of the input, or of processes that die. `LockGivenBack` is what
follows: a command whose input ends returns the lock or dies with it, whatever else
fails. In the other runs no fairness is assumed and no liveness claimed: any process may
die for good at any step and nobody is obliged to start the next command. There the code
promises only that a refused state is safe; the properties of the form "once refused,
always refused" (`OrphanRefusesForever`) say so.

## 4. Findings

1. *Reclaim by path* (`reclaim_race`). `reclaimDeadRepositoryLock` looks, probes, then
   unlinks `owner.json` by name. Between, another apply may reclaim and release and
   an unrelated command lock: its record is removed while it runs.
2. *Torn publication* (`uncertain_publication`). Entry and head are two writes; a crash
   between them leaves an apply publication in `intent` that no apply can resolve,
   against the recovery contract of `docs/stage3-apply-v1.md`. `ResolvableUnlessTorn` shows
   that nothing else in the journal does (a foreign target may, finding 3), and `TornByOneWrite` that the outcome is still in the files: a
   head that misses the entry means that nothing was published, any other names another
   phase of the same entry.
3. *Refusal is not final* (`foreign_target`). A resolution refused over a foreign target
   leaves no record; it succeeds when the target is moved back.
4. *Stable states without stand-down* (`stable_states`). Two ways lead to a run that can
   neither go on nor be stood down, because the scanner fails on every call: a harvest
   accepts one producer's report and rejects another's; or assemble ends with one agent
   running, and a harvest accepts its report before it finds that the next role has no
   task. `OthersCanStandDown` shows that every other run that loads may begin a stand-down
   or, if it has begun one, has a state (whether that one can go on is finding 5).
5. *Harvest after stand-down* (`late_harvest`). Nothing keeps `harvest` off a run whose
   stand-down has begun and failed: it integrates it and opens panes outside the close
   set, and no later stand-down can finish. `ArchivedLeavesNoPane` shows that at least no
   such run is archived.
6. *A masked run* (`masked_run`). Stand-down inspects the archives before it loads the
   active run. If another stand-down archives that run in between, and has unlinked its
   pointer before it is listed, or between being listed and being read, while its archive
   is not observed yet, the command reports an older archived run as its own result. `StatusWasTrue` shows that `status`, which inspects after it
   loads, does not.

`ClassifiesAllOthers` exempts exactly the journals of finding 4 (`Mixed`, `Early`); in every
other one the scanner has a state. One disagreement is not a run: `docs/stage3-apply-v1.md`
(176-177) says that a drift seen before the swap closes the attempt as unapplied, while a
drift first seen by a preflight (`stage3-apply.mjs:156`) is an error that leaves the
publication open (`Preflight`); a later apply can resolve it.

## 5. Proofs

Every theorem holds for all values of the constants, under the named assumptions of
the modules (`ProcessKinds`, `OperationKinds`, `AttemptLimit`, `Configuration`, `RunLimits`,
`FreeIsNoProcess`, `SlotLimits`, `CommandsAreApart`, `ReportsAreWhole`) and nothing else.

**RepositoryLockProofs.** `Exclusion` is not inductive: it says nothing of a directory
between `mkdir` and its record. `FilesInv` adds that a process which has emptied or
made the directory is alone in that, that a holder's record is the one on disk, and that
a record without a living holder is a crashed one's; it is kept as long as no stale
reclaim happens, and `InspectedInv` (an inspected dead owner stays dead) is kept
always. From these `LockExclusion` and `RetainedLock` follow. `HeldBySomeone` adds that a
directory always belongs to a command between its file operations or to a dead one, which
gives `LockGivenBack`; `OrphanStays` needs the types alone. `LockImplementsMutation`
follows from `LooksAtFiles`, which derives from `FilesInv` the phase, the keeper and the
one who acts for each position of a command: `mkdir` makes the lock, the record takes it,
unlinking clears it and `rmdir` frees it; reclaiming clears what a dead apply of the same
operation retained. Like the exclusion it is stated up to a stale reclaim.

**OperationJournalProofs.** That an effect happens once is not inductive: the step that
performs it must know that it holds a guarded intent with nothing performed yet. `IInv` joins
`StepInv` (what each step of the session knows of the last entry, its guard and the effect),
`DiskInv` (one entry per operation, all but the last observed, at most the last guarded),
`EffectInv` (an effect has an entry, and entries are true unless meddled with), `OrderInv` (an operation was
recorded after its prerequisites and after nothing it excludes) and `ToldInv` (the answers
hold). The lemma `Steps` sorts every step by what it does to the files: nothing, a new
entry, a rewritten last entry, a guard made or removed, an effect; each part of `IInv` is
then kept by each sort. Seven properties follow. An eighth, `PublicationsResolve`, needs
besides that the digests of the entries are a chain at every moment (`AlwaysChained`): an
entry is only appended when the head is that of the last one, and only the last one is
rewritten. A ninth, `TornTellsTheTruth`, is about the head: `HeadInv` says that it is
`Level` with the last entry (it names that entry in some phase) or `Behind` an intent
nobody has acted upon. Only a new entry takes it behind, and nothing but the head's own
write follows, because neither a load nor a resolution gets past a head that does not
match (`HeadStep`). The refinement is `JournalImplementsAtMostOnce`: writing an intent begins the
abstract operation, performing performs it, the removal of an observed entry's guard (or
the rewriting of an unguarded entry in a resolution) settles it, and every other write
changes nothing abstract but, when the command leaves or dies, its `work` (`WorkMoves`,
`WorkSteps`). `MaySettle` shows that only the command that began the operation settles it,
and then knows what it did, or the resolution of a publication, which believes the target.
That the target can be believed without outsiders is `TargetInv`: while an unmeddled
publication is in doubt, the target holds the final SHA exactly if the swap happened, and a
resolution that has read it holds a true result (`Believed`). `TargetStep` keeps this
across every step, because `meddled` only grows and takes in whatever is in doubt when the
target moves to or away from the final SHA.

**ApplyAttemptsProofs.** `IInv` joins the properties with `StepInv` (what each program
counter may assume of the lifecycle: no other command can have changed it while the
operation is in doubt), `SwapInv` (a receipt names its attempt, and the newest
consumed attempt has not swapped before its publication gets there) and `OutcomeInv`
(without outsiders, the target is final exactly if this attempt's swap made it so).
The lemmas `FinishPreviewExtends` to `SettleEdits` say how each step changes the
attempts: it appends a new one or replaces the newest, and every other action leaves
them alone (`Steps`). All properties of the run are theorems, and so are the two action
properties that are part of the refinement. `ApplyIsAttended` maps each of these steps:
`StandingAt` gives the standing of every attempt, made or not, and `PreviewAttended` to
`QuietAttended` show for each kind of step the abstract step that it is. That only a
closed attempt is followed by another needs `ClassifierAccepts`; that an outcome is the
truth about the swap needs `OutcomeInv`.

An edited snapshot cannot invalidate what a running command relies on: `ScanTells` says
that whatever a scan permits, the journal permits.

**ConductorProofs.** `May` says what an operation must have found when it is recorded, and
`Steps` that every step leaves the journal alone, records an operation that it may, or
begins the stand-down. From that `StagesInv` (stages of a role in order, barriers between
the gates, one verdict) and `CloseInv` (closes are a prefix of the close set in the order of
the names, an archive follows the last of them) are kept without a look at the
commands. `ControlInv` is what the running command relies on (an idle conductor once it is
stuck or archived, only producers in the first report loop, the close set exact from its
check to its last close), `WorldInv` the panes, the plan and the swap. The prefix needs the
first of a set of roles, for which the well-founded order of the ranks is cited. All
properties of the run are theorems, for any number of roles; `StandDownIsAvailable` (a
stand-down may begin, or has a state once it has begun; not that it can be resumed) reads
the states off the lemmas (`DeliveryHasAState`, `GatesHaveAState`) that show that there is
one. `ConductorImplementsRunLife` needs in addition that the report of a decided slot no
longer changes (`AcceptedInv`). `StagesCount` turns sets of operations into stages;
`LifeSteps` then goes through what a step may do to the journal (it records an operation
that it `May`, begins the stand-down, swaps, or ends in doubt) and names the abstract step.

**RunStoreProofs.** `OneLive` is not inductive: it needs to know that whoever creates or
archives holds the lock (`LockInv`), and what each of its steps may assume of the files
(`StepInv`, which contains `WriteOrder`). Nothing is assumed of the readers, which write
nothing. The theorems are `OneLiveRun`, `FilesTellTheStage`, `UnfinishedIsNotHidden` and
`RegistryImplemented`: each file operation is a step of `RunRegistry` or none.

**RunStoreReaderProofs.** `ReadInv` types what was read, `FoundInv` says that a loader's
hits are archived (and stay so: `ArchivedStays`), `CleanInv` that without failures a run is
at rest or owned by a command at work, `PointerInv` that only the newest run has a pointer.
`StatusWasTrue` needs an argument over three passes (`StatusInv`): for every archived run
that never stood last since the status began (`Old`) there is a later one that it knows
(`Known`): it was there when `loadActiveRun` listed the runs and was read as archived, so
`inspectArchiveUncertainty` found its archive complete, so `loadArchivedRun` finds it and
reports it rather than the old one. All eight properties of the run are theorems.

**ReportSlotProofs.** `IInv` adds to the types that a command in a locked step is the one in
the lock (`LockInv`), what a holder's step may assume of the slot (`HolderInv`: a writer
found it empty, so everything in it is its own), that a decided report is committed and
copied (`DecidedInv`), and what each command's input is worth (`InputInv`). The theorems are
`SlotTypeCorrect`, `AnswersAreTruthful` and `SlotImplementsReportOnce`.

**Only model-checked:** `LockGivenBack` of `ReportSlot`, because liveness is out of the
prover's reach.

## 6. Not modelled, and the plan

In this order:

1. The composition of `Conductor` and `ApplyAttempts` into one lifecycle.
2. Integration with the swap and the synchronisation of the worktree apart, and Herdr's
   polling with its timeouts. Both are one step of `Conductor` now, which ends in doubt
   wherever the code may stop inside it; what is missing is only what Git and Herdr may do
   in between.

Left out for good: document schemas and configuration parsing (data that no protocol
property tells apart), Git's merge and Herdr themselves (external; their answers are
inputs), the renderer, the evidence harness and the `check-*.mjs` validators
(sequential programs outside a run).
