------------------------------ MODULE RunStore ------------------------------
(***************************************************************************)
(* The runs of one workspace as files that cannot be written together:     *)
(* run.json, an activation guard, an active pointer, the journal and its   *)
(* guards.  assemble creates a run and binds it (createRun), stand-down    *)
(* archives it (archiveActiveRun), both one file operation per step under  *)
(* the repository lock; an operation may fail before or after its file     *)
(* changed, which ends the command and frees the lock, and a command may   *)
(* die, which leaves the lock behind.  status and the first pass of        *)
(* stand-down load the store without the lock, a directory or a file at a  *)
(* time, while somebody else writes it.                                    *)
(*                                                                         *)
(* The operations a run's journal holds before its archive are one         *)
(* operation that is begun and settled; OperationJournal has their steps.  *)
(***************************************************************************)
EXTENDS Naturals, FiniteSets

CONSTANTS
    Process,      \* the commands that may run at the same time
    MaxRuns,      \* how many runs may be created
    MishapLimit   \* how many file operations fail and commands die

ASSUME RunLimits == MaxRuns \in Nat /\ MishapLimit \in Nat

\* The random identities of assemble are all different and ordered as the
\* runs are made: a run's updated_at is later than its predecessors'.
Run == 1 .. MaxRuns

NoRun == 0

Free == "free"

ASSUME FreeIsNoProcess == Free \notin Process

Docs == {"absent", "made", "initializing", "active", "archived"}
ArchivePhase == {"none", "intent", "observed"}

Files == [
    doc : Docs,                     \* "made": the directory has no run.json yet
    head : ArchivePhase,            \* the archive record run.json's head names
    activation : BOOLEAN,           \* activation.guard.json
    pointer : BOOLEAN,              \* the file in active/
    work : {"unbound", "busy", "bound"},  \* the operations before the archive
    entry : ArchivePhase,           \* the run.archive entry
    guard : BOOLEAN ]               \* its guard

NoFiles == [doc |-> "absent", head |-> "none", activation |-> FALSE, pointer |-> FALSE,
            work |-> "unbound", entry |-> "none", guard |-> FALSE]

Command == {"none", "assemble", "stand-down", "status"}
Loader == {"loadActiveRun", "inspectArchiveUncertainty", "loadArchivedRun"}

VARIABLES
    files,    \* files[r]: what the disk holds of run r
    lock,     \* the process whose record is in repository.lock, or Free
    pc,       \* pc[p]: the next step of process p
    command,  \* command[p]: the command p runs, or ran last
    mine,     \* mine[p]: the run that p creates or archives
    loader,   \* loader[p]: the loader p is in
    view,     \* view[p]: what this loader has read so far
    mishaps,  \* failed operations and deaths so far
    report,   \* history: what the last step reported, <<kind, run>>, or Nothing
    seen,     \* history: what stood last in the store at each moment since
              \* p's command began to load it
    missing   \* history: p's loadActiveRun met a file that was gone

disk == <<files, lock>>
reading == <<loader, view, missing>>
vars == <<files, lock, pc, command, mine, loader, view, mishaps, report, seen, missing>>

Unread == [doc |-> "absent", head |-> "none", activation |-> FALSE]

View == [ptrs : SUBSET Run,         \* the pointers found
         todo : SUBSET Run,         \* runs still to be read in this pass
         got : [Run -> [doc : Docs, head : ArchivePhase, activation : BOOLEAN]],
         hits : SUBSET Run]         \* uncertain candidates, or archived terminals

NothingRead == [ptrs |-> {}, todo |-> {}, got |-> [r \in Run |-> Unread], hits |-> {}]

Loading == {"pointers", "runs", "documents", "journals"}
Creating == {"createRun", "makeRun", "initialize", "guardActivation", "point", "activate",
             "removeActivation"}
Archiving == {"archiveActiveRun", "archiveIntent", "archiveHead", "guardArchive",
              "archiveDoc", "removePointer", "observeEntry", "observeHead",
              "removeArchiveGuard"}
Step == Loading \union Creating \union Archiving
            \union {"idle", "lock", "reload", "operate", "settle", "return", "release", "dead"}

Nothing == <<"none", NoRun>>
Reports == {"none", "active", "archived"} \X (Run \union {NoRun})

Listed(d) == {r \in Run : d[r].doc # "absent"}
Pointed(d) == {r \in Run : d[r].pointer}
Whole(d) == \A r \in Listed(d) : d[r].doc # "made"

-----------------------------------------------------------------------------
(* The loaders, as functions of what was read: the pointers, and of every   *)
(* listed run its document and activation guard.                            *)

NonArchived(got) == {r \in Listed(got) : got[r].doc # "archived"}

ActivationPending(got) == \E r \in Listed(got) : got[r].activation

\* The runs loadActiveRun may take: none when it refuses or finds no run.
Selected(ptrs, got) ==
    {r \in Run :
        /\ ptrs = {r}
        /\ ~ActivationPending(got)
        /\ NonArchived(got) = {r}
        /\ got[r].doc = "active"}

\* loadActiveRun's state_unknown: the only failure that is not a refusal.
NoActiveRun(ptrs, got) ==
    ptrs = {} /\ ~ActivationPending(got) /\ NonArchived(got) = {}

\* scanJournal and validateRunConfiguration of the selected run.
JournalServes(file, head) ==
    file.work = "bound" /\ file.entry = "none" /\ head = "none" /\ ~file.guard

ArchiveComplete(file, doc, pointed) ==
    file.entry = "observed" /\ doc = "archived" /\ ~pointed /\ ~file.guard

\* scanJournal with allowArchiveTransition: a head read before the entries may
\* trail them by the archive record, as long as that is an intent or guarded.
ArchiveReadable(file, head) ==
    \/ file.entry = head
    \/ file.entry = "intent" /\ head = "none"
    \/ file.entry = "observed" /\ head = "intent" /\ file.guard

\* For mutation testing.
FaultyTerminal(file) == file.entry = "observed"

\* The archived runs that loadArchivedRun may report.
Terminal(file) == file.entry = "observed" /\ ~file.guard

FaultyUncertain(d) == {}   \* for mutation testing

Uncertain(d) ==
    {r \in Listed(d) :
        d[r].entry # "none" /\ ~ArchiveComplete(d[r], d[r].doc, d[r].pointer)}

\* The run that one look at the whole store serves, the archived run it falls
\* back to, and so what it reports: one run or nothing.
Serving(d) ==
    {r \in Selected(Pointed(d), d) : Whole(d) /\ JournalServes(d[r], d[r].head)}

NewestOf(runs) == {r \in runs : \A s \in runs : s <= r}

LastArchived(d) ==
    IF Whole(d) /\ NoActiveRun(Pointed(d), d) /\ Uncertain(d) = {}
    THEN NewestOf({r \in Listed(d) : Terminal(d[r])})
    ELSE {}

Truth(d) == ({"active"} \X Serving(d)) \union ({"archived"} \X LastArchived(d))

\* What stands last: the run that is served, or the newest run once its archive
\* is complete, whatever an older run has left unfinished.
Latest(d) ==
    ({"active"} \X Serving(d))
    \union ({"archived"} \X {r \in NewestOf(Listed(d)) : Terminal(d[r])})

-----------------------------------------------------------------------------
Init ==
    /\ files = [r \in Run |-> NoFiles]
    /\ lock = Free
    /\ pc = [p \in Process |-> "idle"]
    /\ command = [p \in Process |-> "none"]
    /\ mine = [p \in Process |-> NoRun]
    /\ loader = [p \in Process |-> "loadActiveRun"]
    /\ view = [p \in Process |-> NothingRead]
    /\ mishaps = 0
    /\ report = Nothing
    /\ seen = [p \in Process |-> {}]
    /\ missing = [p \in Process |-> FALSE]

Goto(p, step) == pc' = [pc EXCEPT ![p] = step]

Enter(p, l) ==
    /\ loader' = [loader EXCEPT ![p] = l]
    /\ view' = [view EXCEPT ![p] = NothingRead]
    /\ Goto(p, "pointers")

\* The command ends and reports what; refused is reporting Nothing.
Finish(p, what) ==
    /\ report' = what
    /\ command' = [command EXCEPT ![p] = "none"]
    /\ mine' = [mine EXCEPT ![p] = NoRun]
    /\ loader' = [loader EXCEPT ![p] = "loadActiveRun"]
    /\ view' = [view EXCEPT ![p] = NothingRead]
    /\ seen' = [seen EXCEPT ![p] = {}]
    /\ missing' = [missing EXCEPT ![p] = FALSE]
    /\ Goto(p, "idle")

\* The command goes on.
Silent(p) == report' = Nothing /\ UNCHANGED <<command, mine, seen>>

Begin(p) ==
    /\ pc[p] = "idle"
    /\ \E c \in Command \ {"none"} :
        /\ command' = [command EXCEPT ![p] = c]
        /\ seen' = [seen EXCEPT ![p] = IF c = "assemble" THEN {} ELSE Latest(files)]
        /\ \/ c = "assemble" /\ Goto(p, "lock") /\ UNCHANGED <<loader, view>>
           \/ c = "stand-down" /\ Enter(p, "inspectArchiveUncertainty")
           \/ c = "status" /\ Enter(p, "loadActiveRun")
    /\ report' = Nothing
    /\ UNCHANGED <<disk, mine, mishaps, missing>>

-----------------------------------------------------------------------------
(* Loading without the lock.                                                *)

\* For mutation testing: status goes to the archived runs at once.
FaultyStateUnknown(p, fileMissing) ==
    \/ /\ loader[p] = "loadActiveRun"
       /\ Enter(p, "loadArchivedRun")
       /\ missing' = [missing EXCEPT ![p] = fileMissing]
       /\ Silent(p)
    \/ loader[p] # "loadActiveRun" /\ Finish(p, Nothing)

\* state_unknown sends the callers of loadActiveRun to the archived runs and
\* ends the other loaders' commands.
StateUnknown(p, fileMissing) ==
    \/ /\ loader[p] = "loadActiveRun"
       /\ Enter(p, IF command[p] = "status" THEN "inspectArchiveUncertainty"
                                             ELSE "loadArchivedRun")
       /\ missing' = [missing EXCEPT ![p] = fileMissing]
       /\ Silent(p)
    \/ loader[p] # "loadActiveRun" /\ Finish(p, Nothing)

\* A directory is listed and its files are read: one that its owner is about
\* to unlink may be gone in between.
PointerVanishes == \E q \in Process : pc[q] = "removePointer"

GuardVanishes(r) ==
    \E q \in Process : mine[q] = r /\ pc[q] \in {"settle", "removeArchiveGuard"}

ActivationVanishes(r) ==
    \E q \in Process : mine[q] = r /\ pc[q] = "removeActivation"

ScanActivePointers(p) ==
    /\ pc[p] = "pointers"
    /\ \/ /\ view' = [view EXCEPT ![p].ptrs = Pointed(files)]
          /\ Goto(p, "runs")
          /\ Silent(p) /\ UNCHANGED <<loader, missing>>
       \/ PointerVanishes /\ StateUnknown(p, TRUE)
    /\ UNCHANGED <<disk, mishaps>>

ListRuns(p) ==
    /\ pc[p] = "runs"
    /\ view' = [view EXCEPT ![p].todo = Listed(files)]
    /\ Goto(p, "documents")
    /\ Silent(p)
    /\ UNCHANGED <<disk, loader, mishaps, missing>>

\* A run directory without its run.json, or without all its directories, is
\* state_unknown or a refusal.
ScanRunState(p) ==
    /\ pc[p] = "documents"
    /\ \E r \in view[p].todo :
        \/ /\ files[r].doc # "made"
           /\ view' = [view EXCEPT
                ![p].todo = @ \ {r},
                ![p].got[r] = [doc |-> files[r].doc, head |-> files[r].head,
                               activation |-> files[r].activation]]
           /\ Silent(p) /\ UNCHANGED <<pc, loader, missing>>
        \/ files[r].doc = "made" /\ StateUnknown(p, TRUE)
        \/ files[r].doc = "made" /\ Finish(p, Nothing)
        \/ files[r].activation /\ ActivationVanishes(r) /\ StateUnknown(p, TRUE)
    /\ UNCHANGED <<disk, mishaps>>

Judge(p) ==
    LET v == view[p]
        ToJournals(runs) == /\ view' = [view EXCEPT ![p].todo = runs]
                            /\ Goto(p, "journals")
                            /\ Silent(p) /\ UNCHANGED <<loader, missing>>
    IN
    /\ pc[p] = "documents" /\ v.todo = {}
    /\ CASE loader[p] = "inspectArchiveUncertainty" -> ToJournals(Listed(v.got))
         [] loader[p] = "loadArchivedRun" ->
                IF NoActiveRun(v.ptrs, v.got) THEN ToJournals(Listed(v.got))
                                              ELSE Finish(p, Nothing)
         [] OTHER ->
                IF Selected(v.ptrs, v.got) # {} THEN ToJournals(Selected(v.ptrs, v.got))
                ELSE IF NoActiveRun(v.ptrs, v.got) THEN StateUnknown(p, FALSE)
                ELSE Finish(p, Nothing)
    /\ UNCHANGED <<disk, mishaps>>

\* The journal of the selected run settles what loadActiveRun answers.
ScanActiveJournal(p) ==
    /\ pc[p] = "journals" /\ loader[p] = "loadActiveRun"
    /\ \E r \in view[p].todo :
        \/ /\ JournalServes(files[r], view[p].got[r].head)
           /\ \/ command[p] = "status" /\ Finish(p, <<"active", r>>)
              \/ /\ command[p] = "stand-down"
                 /\ Goto(p, "lock")
                 /\ view' = [view EXCEPT ![p] = NothingRead]
                 /\ seen' = [seen EXCEPT ![p] = {}]
                 /\ report' = Nothing
                 /\ UNCHANGED <<command, mine, loader, missing>>
        \/ ~JournalServes(files[r], view[p].got[r].head) /\ Finish(p, Nothing)
        \/ GuardVanishes(r) /\ StateUnknown(p, TRUE)
    /\ UNCHANGED <<disk, mishaps>>

\* The other loaders read every journal.  inspectArchiveUncertainty falls back
\* to the bare entries of a journal it cannot follow.
ScanArchiveJournal(p) ==
    LET v == view[p]
        Read(r, hit) == /\ view' = [view EXCEPT ![p].todo = @ \ {r},
                                                ![p].hits = IF hit THEN @ \union {r} ELSE @]
                        /\ Silent(p) /\ UNCHANGED <<pc, loader, missing>>
    IN
    /\ pc[p] = "journals" /\ loader[p] # "loadActiveRun"
    /\ \E r \in v.todo :
        \/ /\ loader[p] = "inspectArchiveUncertainty"
           /\ Read(r, /\ files[r].entry # "none"
                      /\ ~ArchiveComplete(files[r], v.got[r].doc, r \in v.ptrs))
        \/ /\ loader[p] = "loadArchivedRun"
           /\ IF ArchiveReadable(files[r], v.got[r].head)
              THEN Read(r, Terminal(files[r]))
              ELSE Finish(p, Nothing)
        \/ GuardVanishes(r) /\ Finish(p, Nothing)
    /\ UNCHANGED <<disk, mishaps>>

EndPass(p) ==
    /\ pc[p] = "journals" /\ loader[p] # "loadActiveRun" /\ view[p].todo = {}
    /\ \/ /\ loader[p] = "inspectArchiveUncertainty" /\ view[p].hits = {}
          /\ Enter(p, IF command[p] = "status" THEN "loadArchivedRun" ELSE "loadActiveRun")
          /\ Silent(p) /\ UNCHANGED missing
       \/ /\ loader[p] = "inspectArchiveUncertainty" /\ view[p].hits # {}
          /\ Finish(p, Nothing)
       \/ /\ loader[p] = "loadArchivedRun"
          /\ \/ \E r \in NewestOf(view[p].hits) : Finish(p, <<"archived", r>>)
             \/ view[p].hits = {} /\ Finish(p, Nothing)
    /\ UNCHANGED <<disk, mishaps>>

-----------------------------------------------------------------------------
(* Under the lock.                                                          *)

AcquireLock(p) ==
    /\ pc[p] = "lock"
    /\ \/ /\ lock = Free
          /\ lock' = p
          /\ Goto(p, IF command[p] = "assemble" THEN "createRun" ELSE "reload")
          /\ Silent(p) /\ UNCHANGED <<files, reading>>
       \/ lock # Free /\ Finish(p, Nothing) /\ UNCHANGED disk
    /\ UNCHANGED mishaps

\* For mutation testing: only the pointers are looked at, and the directory of
\* the last run is taken again.
FaultyMayCreate == Listed(files) # Run /\ \A r \in Listed(files) : ~files[r].pointer

FaultyScanBeforeCreate(p) ==
    /\ pc[p] = "createRun"
    /\ \A r \in Listed(files) : ~files[r].pointer /\ files[r].doc = "archived"
    /\ \E r \in Run :
          /\ Listed(files) \in {1 .. (r - 1), 1 .. r}
          /\ mine' = [mine EXCEPT ![p] = r]
    /\ Goto(p, "makeRun")
    /\ report' = Nothing
    /\ UNCHANGED <<disk, command, reading, mishaps, seen>>

\* createRun looks at the pointers and the run documents, at nothing else.
\* MaxRuns bounds the model: there is no identity left after the last.
MayCreate ==
    /\ \A r \in Listed(files) : ~files[r].pointer /\ files[r].doc = "archived"
    /\ Listed(files) # Run

ScanBeforeCreate(p) ==
    /\ pc[p] = "createRun"
    /\ \/ /\ MayCreate
          /\ \E r \in Run :
                /\ Listed(files) = 1 .. (r - 1)
                /\ mine' = [mine EXCEPT ![p] = r]
          /\ Goto(p, "makeRun")
       \/ ~MayCreate /\ Goto(p, "release") /\ UNCHANGED mine
    /\ report' = Nothing
    /\ UNCHANGED <<disk, command, reading, mishaps, seen>>

\* stand-down loads again, and takes whatever run is active by now.
Reload(p) ==
    /\ pc[p] = "reload"
    /\ \/ \E r \in Serving(files) :
            mine' = [mine EXCEPT ![p] = r] /\ Goto(p, "operate")
       \/ Serving(files) = {} /\ Goto(p, "release") /\ UNCHANGED mine
    /\ report' = Nothing
    /\ UNCHANGED <<disk, command, reading, mishaps, seen>>

\* One file operation on p's run: done, failed without or with the file changed.
\* Every error of these commands ends in releaseRepositoryLock.
Write(p, from, to, new) ==
    /\ pc[p] = from
    /\ \/ /\ files' = [files EXCEPT ![mine[p]] = new]
          /\ Goto(p, to)
          /\ UNCHANGED mishaps
       \/ /\ mishaps < MishapLimit
          /\ files' \in {files, [files EXCEPT ![mine[p]] = new]}
          /\ Goto(p, "release")
          /\ mishaps' = mishaps + 1
    /\ seen' = [q \in Process |->
                    IF pc[q] \in Loading THEN seen[q] \union Latest(files') ELSE seen[q]]
    /\ report' = Nothing
    /\ UNCHANGED <<lock, command, mine, reading>>

Own(p) == files[mine[p]]

\* For mutation testing: a guard that is never written, one that is never
\* removed, and a phase of the wrong kind.
FaultyGuardActivation(p) == Write(p, "guardActivation", "point", Own(p))
FaultyRemoveArchiveGuard(p) == Write(p, "removeArchiveGuard", "return", Own(p))
FaultyObserveHead(p) ==
    Write(p, "observeHead", "removeArchiveGuard", [Own(p) EXCEPT !.head = "archived"])

\* createRun, in the order of its calls.
MakeRun(p) == Write(p, "makeRun", "initialize", [Own(p) EXCEPT !.doc = "made"])
Initialize(p) == Write(p, "initialize", "guardActivation", [Own(p) EXCEPT !.doc = "initializing"])
GuardActivation(p) == Write(p, "guardActivation", "point", [Own(p) EXCEPT !.activation = TRUE])
Point(p) == Write(p, "point", "activate", [Own(p) EXCEPT !.pointer = TRUE])
Activate(p) == Write(p, "activate", "removeActivation", [Own(p) EXCEPT !.doc = "active"])
RemoveActivation(p) ==
    Write(p, "removeActivation", "operate", [Own(p) EXCEPT !.activation = FALSE])

\* The journaled operations of both commands: the bind of assemble, the begin
\* and the closes of stand-down.  bindIntegrationTarget refuses a detached,
\* moved or dirty checkout before the first of them.
Operate(p) == Write(p, "operate", "settle", [Own(p) EXCEPT !.work = "busy"])

Settle(p) ==
    Write(p, "settle", IF command[p] = "assemble" THEN "return" ELSE "archiveActiveRun",
          [Own(p) EXCEPT !.work = "bound"])

\* loadArchiveCandidate, and the checks of archiveActiveRun.
MayArchive(file) ==
    /\ ~file.activation
    /\ file.doc = "active" /\ file.pointer
    /\ file.entry = "none" /\ ~file.guard

ScanBeforeArchive(p) ==
    /\ pc[p] = "archiveActiveRun"
    /\ Goto(p, IF MayArchive(Own(p)) THEN "archiveIntent" ELSE "release")
    /\ Silent(p)
    /\ UNCHANGED <<disk, reading, mishaps>>

\* archiveActiveRun, in the order of its calls.
ArchiveIntent(p) == Write(p, "archiveIntent", "archiveHead", [Own(p) EXCEPT !.entry = "intent"])
ArchiveHead(p) == Write(p, "archiveHead", "guardArchive", [Own(p) EXCEPT !.head = "intent"])
GuardArchive(p) == Write(p, "guardArchive", "archiveDoc", [Own(p) EXCEPT !.guard = TRUE])
ArchiveDoc(p) == Write(p, "archiveDoc", "removePointer", [Own(p) EXCEPT !.doc = "archived"])
RemovePointer(p) == Write(p, "removePointer", "observeEntry", [Own(p) EXCEPT !.pointer = FALSE])
ObserveEntry(p) == Write(p, "observeEntry", "observeHead", [Own(p) EXCEPT !.entry = "observed"])
ObserveHead(p) ==
    Write(p, "observeHead", "removeArchiveGuard", [Own(p) EXCEPT !.head = "observed"])
RemoveArchiveGuard(p) ==
    Write(p, "removeArchiveGuard", "return", [Own(p) EXCEPT !.guard = FALSE])

Release(p) ==
    /\ pc[p] \in {"release", "return"}
    /\ lock' = Free
    /\ Finish(p, IF pc[p] = "release" THEN Nothing
                 ELSE <<IF command[p] = "assemble" THEN "active" ELSE "archived", mine[p]>>)
    /\ UNCHANGED <<files, mishaps>>

\* A command that dies without the lock leaves nothing behind: it is one that
\* refused.  A dead owner's lock is never taken over by these commands.
Die(p) ==
    /\ lock = p
    /\ mishaps < MishapLimit
    /\ pc[p] # "dead"
    /\ Goto(p, "dead")
    /\ mishaps' = mishaps + 1
    /\ Silent(p)
    /\ UNCHANGED <<disk, reading>>

Load(p) ==
    \/ ScanActivePointers(p) \/ ListRuns(p) \/ ScanRunState(p) \/ Judge(p)
    \/ ScanActiveJournal(p) \/ ScanArchiveJournal(p) \/ EndPass(p)

Create(p) ==
    \/ ScanBeforeCreate(p) \/ MakeRun(p) \/ Initialize(p) \/ GuardActivation(p)
    \/ Point(p) \/ Activate(p) \/ RemoveActivation(p)

ArchiveRun(p) ==
    \/ ScanBeforeArchive(p) \/ ArchiveIntent(p) \/ ArchiveHead(p) \/ GuardArchive(p)
    \/ ArchiveDoc(p) \/ RemovePointer(p) \/ ObserveEntry(p) \/ ObserveHead(p)
    \/ RemoveArchiveGuard(p)

Advance(p) ==
    \/ Load(p) \/ AcquireLock(p) \/ Create(p) \/ Reload(p) \/ Operate(p) \/ Settle(p)
    \/ ArchiveRun(p) \/ Release(p)

Next == \E p \in Process : Begin(p) \/ Advance(p) \/ Die(p)

Spec == Init /\ [][Next]_vars

-----------------------------------------------------------------------------
(* Properties.                                                              *)

TypeOK ==
    /\ files \in [Run -> Files]
    /\ lock \in Process \union {Free}
    /\ pc \in [Process -> Step]
    /\ command \in [Process -> Command]
    /\ mine \in [Process -> Run \union {NoRun}]
    /\ loader \in [Process -> Loader]
    /\ view \in [Process -> View]
    /\ mishaps \in 0 .. MishapLimit
    /\ report \in Reports
    /\ seen \in [Process -> SUBSET Reports]
    /\ missing \in [Process -> BOOLEAN]

\* However creations and archives fail and die, at most one run of the
\* workspace is not archived, and it is the newest (createRun's two scans,
\* under the lock).
OneLive ==
    \A r \in Run : r \in NonArchived(files) => \A s \in Listed(files) : s <= r

\* Whatever a failure or a death leaves behind can be told from the files: the
\* pointer outlives the active document at both ends, the activation guard
\* covers the pointer until the document is active, and the archive is recorded
\* before the document and observed after the pointer is gone (the order of
\* the writes in createRun and archiveActiveRun).
WriteOrder ==
    \A r \in Run : LET f == files[r] IN
        /\ f.doc = "active" => f.pointer
        /\ f.pointer => f.doc \in {"active", "archived"} \/ f.activation
        /\ f.activation => f.doc \in {"initializing", "active"} /\ f.work = "unbound"
        /\ f.doc = "archived" => f.entry # "none" /\ f.head # "none"
        /\ f.entry # "none" => f.doc \in {"active", "archived"} /\ f.work = "bound"
        /\ f.entry = "observed" => f.doc = "archived" /\ ~f.pointer
        /\ f.doc = "archived" /\ (f.pointer \/ f.entry = "intent" \/ f.head = "intent") => f.guard

\* One look at the whole store reports the newest run or nothing: a run that
\* was begun and never finished, at either end of its life, is not hidden
\* behind an older archived one (loadActiveRun, inspectArchiveUncertainty and
\* loadArchivedRun together).
NewestDecides ==
    \A what \in Truth(files) : \A r \in Listed(files) : r <= what[2]

\* Without failures and deaths the workspace always serves: whenever no
\* command works, it has no run yet, or an active one that can be stood down,
\* or an archived one to report.
CleanHistoryServes ==
    mishaps = 0 /\ lock = Free =>
        \/ Listed(files) = {}
        \/ Serving(files) # {} /\ Uncertain(files) = {}
        \/ LastArchived(files) # {}

\* A status that loaded the store piece by piece, while others wrote, reports a
\* run that stood last at some moment of it: the active run, or the newest one,
\* archived.  The exceptions are in HistoryNeverMasks: a loadActiveRun that took
\* a missing file for no active run, and stand-down, whose first look is for
\* unfinished archives.  (An archive below the reported run may be unfinished:
\* it can be left so after the status has looked for such archives.)
StatusWasTrue ==
    [][\A p \in Process :
        command[p] = "status" /\ pc'[p] = "idle" /\ ~missing[p]
            => report' \in seen[p] \union {Nothing}]_vars

\* Even then, and when stand-down reports its own work, a run that is reported
\* archived has completed its archive.
ReportedArchiveIsComplete ==
    report[1] = "archived" =>
        LET f == files[report[2]]
        IN  ArchiveComplete(f, f.doc, f.pointer) /\ ~f.activation

\* The detailed store opens and archives runs one at a time and for good.
StandingOf(d) ==
    [r \in Run |->
        CASE d[r].doc = "absent" -> "unused"
          [] d[r].doc \in {"made", "initializing"} -> "opening"
          [] OTHER -> d[r].doc]

Registry == INSTANCE RunRegistry WITH standing <- StandingOf(files)

ImplementsRunRegistry == Registry!Spec

\* A historical archive never masks a newer run.
HistoryNeverMasks ==
    [][\A p \in Process :
        pc[p] = "journals" /\ report'[1] = "archived" /\ pc'[p] = "idle"
            => report' \in seen[p]]_vars
=============================================================================
