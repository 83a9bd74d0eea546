------------------------ MODULE RunStoreReaderProofs ------------------------
(***************************************************************************)
(* What the commands of RunStore read and report: types, that a run which  *)
(* is reported archived has completed its archive, that a workspace        *)
(* without failures always serves, and that a status which reads the store *)
(* while others write it reports a run that stood last.  For any set of    *)
(* commands, any number of runs and any number of failures and deaths.     *)
(***************************************************************************)
EXTENDS RunStoreProofs, WellFoundedInduction

-----------------------------------------------------------------------------
(* Types *)

ReadType ==
    /\ command \in [Process -> Command]
    /\ loader \in [Process -> Loader]
    /\ view \in [Process -> View]
    /\ report \in Reports
    /\ seen \in [Process -> SUBSET Reports]
    /\ missing \in [Process -> BOOLEAN]

\* What stands last is something a command can report.
LEMMA LatestIsReports == \A d : Latest(d) \subseteq Reports
<1> TAKE d
<1>1. Serving(d) \subseteq Run /\ {r \in NewestOf(Listed(d)) : Terminal(d[r])} \subseteq Run
  BY DEF Serving, Selected, NewestOf, Listed
<1>2. QED
  BY <1>1 DEF Latest, Reports

\* A command may report nothing, and begin a loader with nothing read.
LEMMA NothingIsReported == Nothing \in Reports /\ NothingRead \in View
<1>1. Nothing \in Reports
  BY DEF Nothing, Reports
<1>2. Unread \in [doc : Docs, head : ArchivePhase, activation : BOOLEAN]
  BY DEF Unread, Docs, ArchivePhase
<1>3. QED
  BY <1>1, <1>2 DEF NothingRead, View

\* A command that ends keeps the types, whatever it reports.
LEMMA FinishTypes ==
    ASSUME ReadType, NEW p \in Process, NEW what \in Reports, Finish(p, what)
    PROVE  ReadType'
<1>1. command' \in [Process -> Command] /\ loader' \in [Process -> Loader]
  BY DEF ReadType, Finish, Command, Loader
<1>2. view' \in [Process -> View]
  BY NothingIsReported DEF ReadType, Finish
<1>3. report' \in Reports /\ seen' \in [Process -> SUBSET Reports]
      /\ missing' \in [Process -> BOOLEAN]
  BY DEF ReadType, Finish
<1>4. QED
  BY <1>1, <1>2, <1>3 DEF ReadType

\* So does one that enters its next loader.
LEMMA EnterTypes ==
    ASSUME ReadType, NEW p \in Process, NEW l \in Loader, Enter(p, l), Silent(p),
           missing' \in [Process -> BOOLEAN]
    PROVE  ReadType'
<1>1. view' \in [Process -> View]
  BY NothingIsReported DEF ReadType, Enter
<1>2. QED
  BY <1>1, NothingIsReported DEF ReadType, Enter, Silent

\* A loader that finds no active run keeps the types.
LEMMA UnknownTypes ==
    ASSUME ReadType, NEW p \in Process, NEW gone \in BOOLEAN, StateUnknown(p, gone)
    PROVE  ReadType'
<1>1. CASE loader[p] # "loadActiveRun"
  BY <1>1, FinishTypes, NothingIsReported DEF StateUnknown
<1>2. CASE loader[p] = "loadActiveRun"
  <2>1. PICK l \in Loader : Enter(p, l)
    BY <1>2 DEF StateUnknown, Loader
  <2>2. missing' \in [Process -> BOOLEAN] /\ Silent(p)
    BY <1>2 DEF StateUnknown, ReadType
  <2>3. QED
    BY <2>1, <2>2, EnterTypes
<1>3. QED
  BY <1>1, <1>2

\* A loader that reads one thing more.
LEMMA ReadTypes ==
    ASSUME ReadType, NEW p \in Process, NEW v \in View, view' = [view EXCEPT ![p] = v],
           Silent(p), UNCHANGED <<loader, missing>>
    PROVE  ReadType'
BY NothingIsReported DEF ReadType, Silent

\* The types hold before any command.
LEMMA TypeInit == Init => ReadType /\ mishaps \in 0 .. MishapLimit
BY NothingIsReported, RunLimits DEF Init, ReadType, Command, Loader

\* Every step of the loaders keeps the types.
LEMMA LoadTypes ==
    ASSUME IInv, ReadType, NEW p \in Process, Load(p)
    PROVE  ReadType'
<1>0. view[p] \in View /\ \A r \in Run : files[r] \in Files
  BY DEF ReadType, IInv, StoreType
<1>1. CASE ScanActivePointers(p)
  <2>1. CASE view' = [view EXCEPT ![p].ptrs = Pointed(files)] /\ Silent(p)
             /\ UNCHANGED <<loader, missing>>
    <3>1. [view[p] EXCEPT !.ptrs = Pointed(files)] \in View
      BY <1>0 DEF View, Pointed
    <3>2. view' = [view EXCEPT ![p] = [view[p] EXCEPT !.ptrs = Pointed(files)]]
      BY <2>1 DEF ReadType
    <3>3. QED
      BY <2>1, <3>1, <3>2, ReadTypes
  <2>2. QED
    BY <1>1, <2>1, UnknownTypes DEF ScanActivePointers
<1>2. CASE ListRuns(p)
  <2>1. [view[p] EXCEPT !.todo = Listed(files)] \in View
    BY <1>0 DEF View, Listed
  <2>2. view' = [view EXCEPT ![p] = [view[p] EXCEPT !.todo = Listed(files)]]
    BY <1>2 DEF ListRuns, ReadType
  <2>3. QED
    BY <1>2, <2>1, <2>2, ReadTypes DEF ListRuns
<1>3. CASE ScanRunState(p)
  <2>1. PICK r \in view[p].todo :
          \/ /\ view' = [view EXCEPT
                  ![p].todo = @ \ {r},
                  ![p].got[r] = [doc |-> files[r].doc, head |-> files[r].head,
                                 activation |-> files[r].activation]]
             /\ Silent(p) /\ UNCHANGED <<pc, loader, missing>>
          \/ StateUnknown(p, TRUE)
          \/ Finish(p, Nothing)
    BY <1>3 DEF ScanRunState
  <2>2. CASE /\ view' = [view EXCEPT
                  ![p].todo = @ \ {r},
                  ![p].got[r] = [doc |-> files[r].doc, head |-> files[r].head,
                                 activation |-> files[r].activation]]
             /\ Silent(p) /\ UNCHANGED <<pc, loader, missing>>
    <3> DEFINE file == [doc |-> files[r].doc, head |-> files[r].head,
                        activation |-> files[r].activation]
               one == [view[p] EXCEPT !.todo = @ \ {r}]
               two == [one EXCEPT !.got[r] = file]
    <3>1. r \in Run
      BY <1>0 DEF View
    <3>2. file \in [doc : Docs, head : ArchivePhase, activation : BOOLEAN]
      BY <1>0, <3>1 DEF Files
    <3>3. view' = [view EXCEPT ![p] = two]
      <4>1. view \in [Process -> View]
        BY DEF ReadType
      <4>2. QED
        BY <2>2, <4>1
    <3>4. one \in View
      BY <1>0 DEF View
    <3> HIDE DEF file, one
    <3>5. two \in View
      BY <3>1, <3>2, <3>4 DEF View
    <3> HIDE DEF two
    <3>6. QED
      BY <2>2, <3>3, <3>5, ReadTypes
  <2>3. QED
    BY <2>1, <2>2, UnknownTypes, FinishTypes, NothingIsReported
<1>4. CASE Judge(p)
  <2>1. \/ \E runs \in SUBSET Run :
             /\ view' = [view EXCEPT ![p].todo = runs]
             /\ Silent(p) /\ UNCHANGED <<loader, missing>>
        \/ StateUnknown(p, FALSE)
        \/ Finish(p, Nothing)
    <3>1. Listed(view[p].got) \in SUBSET Run
          /\ Selected(view[p].ptrs, view[p].got) \in SUBSET Run
      BY DEF Listed, Selected
    <3>2. CASE loader[p] = "inspectArchiveUncertainty"
      BY <1>4, <3>1, <3>2 DEF Judge
    <3>3. CASE loader[p] = "loadArchivedRun"
      BY <1>4, <3>1, <3>3 DEF Judge
    <3>4. CASE loader[p] \notin {"inspectArchiveUncertainty", "loadArchivedRun"}
      BY <1>4, <3>1, <3>4 DEF Judge
    <3>5. QED
      BY <3>2, <3>3, <3>4
  <2>2. ASSUME NEW runs \in SUBSET Run, view' = [view EXCEPT ![p].todo = runs],
               Silent(p), UNCHANGED <<loader, missing>>
        PROVE  ReadType'
    <3>1. [view[p] EXCEPT !.todo = runs] \in View
      BY <1>0 DEF View
    <3>2. view' = [view EXCEPT ![p] = [view[p] EXCEPT !.todo = runs]]
      BY <2>2 DEF ReadType
    <3>3. QED
      BY <2>2, <3>1, <3>2, ReadTypes
  <2>3. QED
    BY <2>1, <2>2, UnknownTypes, FinishTypes, NothingIsReported
<1>5. CASE ScanActiveJournal(p)
  <2>1. PICK r \in view[p].todo :
          \/ Finish(p, <<"active", r>>)
          \/ /\ view' = [view EXCEPT ![p] = NothingRead]
             /\ seen' = [seen EXCEPT ![p] = {}]
             /\ report' = Nothing
             /\ UNCHANGED <<command, mine, loader, missing>>
          \/ Finish(p, Nothing)
          \/ StateUnknown(p, TRUE)
    BY <1>5 DEF ScanActiveJournal
  <2>2. <<"active", r>> \in Reports
    BY <1>0 DEF View, Reports
  <2>3. CASE /\ view' = [view EXCEPT ![p] = NothingRead]
             /\ seen' = [seen EXCEPT ![p] = {}]
             /\ report' = Nothing
             /\ UNCHANGED <<command, mine, loader, missing>>
    BY <2>3, NothingIsReported DEF ReadType
  <2>4. QED
    BY <2>1, <2>2, <2>3, UnknownTypes, FinishTypes, NothingIsReported
<1>6. CASE ScanArchiveJournal(p)
  <2>1. \/ \E r \in view[p].todo, hit \in BOOLEAN :
              /\ view' = [view EXCEPT ![p].todo = @ \ {r},
                                      ![p].hits = IF hit THEN @ \union {r} ELSE @]
              /\ Silent(p) /\ UNCHANGED <<pc, loader, missing>>
        \/ Finish(p, Nothing)
    BY <1>6 DEF ScanArchiveJournal, Terminal, ArchiveComplete
  <2>2. ASSUME NEW r \in view[p].todo, NEW hit \in BOOLEAN,
               view' = [view EXCEPT ![p].todo = @ \ {r},
                                    ![p].hits = IF hit THEN @ \union {r} ELSE @],
               Silent(p), UNCHANGED <<pc, loader, missing>>
        PROVE  ReadType'
    <3> DEFINE one == [view[p] EXCEPT !.todo = @ \ {r}]
               two == [one EXCEPT !.hits = IF hit THEN @ \union {r} ELSE @]
    <3>1. r \in Run
      BY <1>0 DEF View
    <3>2. view' = [view EXCEPT ![p] = two]
      <4>1. view \in [Process -> View]
        BY DEF ReadType
      <4>2. QED
        BY <2>2, <4>1
    <3>3. one \in View
      BY <1>0 DEF View
    <3> HIDE DEF one
    <3>4. two \in View
      BY <3>1, <3>3 DEF View
    <3> HIDE DEF two
    <3>5. QED
      BY <2>2, <3>2, <3>4, ReadTypes
  <2>3. QED
    BY <2>1, <2>2, FinishTypes, NothingIsReported
<1>7. CASE EndPass(p)
  <2>1. \/ /\ \E l \in Loader : Enter(p, l)
           /\ Silent(p) /\ UNCHANGED missing
        \/ Finish(p, Nothing)
        \/ \E r \in NewestOf(view[p].hits) : Finish(p, <<"archived", r>>)
    BY <1>7 DEF EndPass, Loader
  <2>2. \A r \in NewestOf(view[p].hits) : <<"archived", r>> \in Reports
    BY <1>0 DEF NewestOf, View, Reports
  <2>3. CASE /\ \E l \in Loader : Enter(p, l)
             /\ Silent(p) /\ UNCHANGED missing
    BY <2>3, EnterTypes DEF ReadType
  <2>4. QED
    BY <2>1, <2>2, <2>3, FinishTypes, NothingIsReported
<1>8. QED
  BY <1>1, <1>2, <1>3, <1>4, <1>5, <1>6, <1>7 DEF Load

Writes(p) ==
    \E from \in Working, to \in Held, new \in Files : Write(p, from, to, new)

\* Every step of a command loads, writes a file, or is one of the few others.
LEMMA Kinds ==
    ASSUME IInv, NEW p \in Process, Begin(p) \/ Advance(p) \/ Die(p)
    PROVE  \/ Begin(p) \/ Load(p) \/ Writes(p)
           \/ AcquireLock(p) \/ ScanBeforeCreate(p) \/ Reload(p) \/ ScanBeforeArchive(p)
           \/ Release(p) \/ Die(p)
<1>1. ASSUME NEW from \in Working, pc[p] = from
      PROVE  Own(p) \in Files
  BY <1>1 DEF IInv, StoreType, StepInv, Own
<1>2. /\ {"makeRun", "initialize", "guardActivation", "point", "activate",
          "removeActivation", "operate", "settle", "archiveActiveRun", "archiveIntent",
          "archiveHead", "guardArchive", "archiveDoc", "removePointer", "observeEntry",
          "observeHead", "removeArchiveGuard"} \subseteq Working
      /\ Working \subseteq Held /\ "return" \in Held
  BY DEF Working, Held, Creating, Archiving
<1>3. CASE MakeRun(p) \/ Initialize(p) \/ Activate(p) \/ ArchiveDoc(p)
  <2>1. PICK from \in Working, to \in Held, doc \in Docs :
          pc[p] = from /\ Write(p, from, to, [Own(p) EXCEPT !.doc = doc])
    BY <1>2, <1>3 DEF MakeRun, Initialize, Activate, ArchiveDoc, Write, Docs
  <2>2. [Own(p) EXCEPT !.doc = doc] \in Files
    BY <1>1, <2>1 DEF Files
  <2>3. QED
    BY <2>1, <2>2 DEF Writes
<1>4. CASE GuardActivation(p) \/ RemoveActivation(p)
  <2>1. PICK from \in Working, to \in Held, on \in BOOLEAN :
          pc[p] = from /\ Write(p, from, to, [Own(p) EXCEPT !.activation = on])
    BY <1>2, <1>4 DEF GuardActivation, RemoveActivation, Write
  <2>2. [Own(p) EXCEPT !.activation = on] \in Files
    BY <1>1, <2>1 DEF Files
  <2>3. QED
    BY <2>1, <2>2 DEF Writes
<1>5. CASE Point(p) \/ RemovePointer(p)
  <2>1. PICK from \in Working, to \in Held, on \in BOOLEAN :
          pc[p] = from /\ Write(p, from, to, [Own(p) EXCEPT !.pointer = on])
    BY <1>2, <1>5 DEF Point, RemovePointer, Write
  <2>2. [Own(p) EXCEPT !.pointer = on] \in Files
    BY <1>1, <2>1 DEF Files
  <2>3. QED
    BY <2>1, <2>2 DEF Writes
<1>6. CASE Operate(p) \/ Settle(p)
  <2>1. PICK from \in Working, to \in Held, work \in {"busy", "bound"} :
          pc[p] = from /\ Write(p, from, to, [Own(p) EXCEPT !.work = work])
    BY <1>2, <1>6 DEF Operate, Settle, Write
  <2>2. [Own(p) EXCEPT !.work = work] \in Files
    BY <1>1, <2>1 DEF Files
  <2>3. QED
    BY <2>1, <2>2 DEF Writes
<1>7. CASE ArchiveIntent(p) \/ ObserveEntry(p)
  <2>1. PICK from \in Working, to \in Held, phase \in ArchivePhase :
          pc[p] = from /\ Write(p, from, to, [Own(p) EXCEPT !.entry = phase])
    BY <1>2, <1>7 DEF ArchiveIntent, ObserveEntry, Write, ArchivePhase
  <2>2. [Own(p) EXCEPT !.entry = phase] \in Files
    BY <1>1, <2>1 DEF Files
  <2>3. QED
    BY <2>1, <2>2 DEF Writes
<1>8. CASE ArchiveHead(p) \/ ObserveHead(p)
  <2>1. PICK from \in Working, to \in Held, phase \in ArchivePhase :
          pc[p] = from /\ Write(p, from, to, [Own(p) EXCEPT !.head = phase])
    BY <1>2, <1>8 DEF ArchiveHead, ObserveHead, Write, ArchivePhase
  <2>2. [Own(p) EXCEPT !.head = phase] \in Files
    BY <1>1, <2>1 DEF Files
  <2>3. QED
    BY <2>1, <2>2 DEF Writes
<1>9. CASE GuardArchive(p) \/ RemoveArchiveGuard(p)
  <2>1. PICK from \in Working, to \in Held, on \in BOOLEAN :
          pc[p] = from /\ Write(p, from, to, [Own(p) EXCEPT !.guard = on])
    BY <1>2, <1>9 DEF GuardArchive, RemoveArchiveGuard, Write
  <2>2. [Own(p) EXCEPT !.guard = on] \in Files
    BY <1>1, <2>1 DEF Files
  <2>3. QED
    BY <2>1, <2>2 DEF Writes
<1>10. QED
  BY <1>3, <1>4, <1>5, <1>6, <1>7, <1>8, <1>9 DEF Advance, Create, ArchiveRun

ReadInv == ReadType /\ mishaps \in 0 .. MishapLimit

\* Every step of a command keeps them.
LEMMA ReadStep ==
    ASSUME IInv, ReadInv, [Next]_vars
    PROVE  ReadInv'
<1> USE DEF ReadInv
<1>1. CASE UNCHANGED vars
  BY <1>1 DEF vars, ReadType
<1>2. ASSUME NEW p \in Process, Begin(p) \/ Advance(p) \/ Die(p)
      PROVE  ReadInv'
  <2>1. CASE Begin(p)
    <3>1. PICK c \in Command \ {"none"} :
            /\ command' = [command EXCEPT ![p] = c]
            /\ seen' = [seen EXCEPT ![p] = IF c = "assemble" THEN {} ELSE Latest(files)]
            /\ \/ UNCHANGED <<loader, view>>
               \/ \E l \in Loader : Enter(p, l)
            /\ report' = Nothing /\ UNCHANGED <<mishaps, missing>>
      BY <2>1 DEF Begin, Loader
    <3>2. seen' \in [Process -> SUBSET Reports]
      BY <3>1, LatestIsReports DEF ReadType
    <3>3. loader' \in [Process -> Loader] /\ view' \in [Process -> View]
      BY <3>1, NothingIsReported DEF ReadType, Enter
    <3>4. QED
      BY <3>1, <3>2, <3>3, NothingIsReported DEF ReadType
  <2>2. CASE Load(p)
    <3>1. mishaps' = mishaps
      BY <2>2 DEF Load, ScanActivePointers, ListRuns, ScanRunState, Judge, ScanActiveJournal,
         ScanArchiveJournal, EndPass
    <3>2. QED
      BY <2>2, <3>1, LoadTypes
  <2>3. CASE Writes(p)
    <3>1. /\ mishaps' = mishaps \/ (mishaps < MishapLimit /\ mishaps' = mishaps + 1)
          /\ report' = Nothing /\ UNCHANGED <<command, reading>>
          /\ seen' = [q \in Process |->
                        IF pc[q] \in Loading THEN seen[q] \union Latest(files') ELSE seen[q]]
      BY <2>3 DEF Writes, Write
    <3>2. seen' \in [Process -> SUBSET Reports]
      BY <3>1, LatestIsReports DEF ReadType
    <3>3. mishaps' \in 0 .. MishapLimit
      BY <3>1, RunLimits
    <3>4. QED
      BY <3>1, <3>2, <3>3, NothingIsReported DEF ReadType, reading
  <2>4. CASE ScanBeforeCreate(p) \/ Reload(p) \/ ScanBeforeArchive(p)
    BY <2>4, NothingIsReported
       DEF ScanBeforeCreate, Reload, ScanBeforeArchive, Silent, reading, ReadType
  <2>5. CASE AcquireLock(p)
    <3>1. CASE Silent(p) /\ UNCHANGED <<reading, mishaps>>
      BY <3>1, NothingIsReported DEF Silent, reading, ReadType
    <3>2. CASE Finish(p, Nothing) /\ UNCHANGED mishaps
      BY <3>2, FinishTypes, NothingIsReported
    <3>3. QED
      BY <2>5, <3>1, <3>2 DEF AcquireLock
  <2>6. CASE Release(p)
    <3>1. \A kind \in {"active", "archived"} : <<kind, mine[p]>> \in Reports
      BY DEF IInv, StoreType, Reports
    <3>2. PICK what \in Reports : Finish(p, what)
      BY <2>6, <3>1, NothingIsReported DEF Release
    <3>3. QED
      BY <2>6, <3>2, FinishTypes DEF Release
  <2>7. CASE Die(p)
    <3>1. mishaps' \in 0 .. MishapLimit
      BY <2>7, RunLimits DEF Die
    <3>2. QED
      BY <2>7, <3>1, NothingIsReported DEF Die, Silent, reading, ReadType
  <2>8. QED
    BY <1>2, <2>1, <2>2, <2>3, <2>4, <2>5, <2>6, <2>7, Kinds
<1>3. QED
  BY <1>1, <1>2 DEF Next

\* Files, steps, and what every command has read and reports stay in their types.
THEOREM TypeCorrect == Spec => []TypeOK
<1>1. IInv /\ ReadInv => TypeOK
  BY DEF IInv, StoreType, ReadInv, ReadType, TypeOK
<1>2. Init => IInv /\ ReadInv
  BY InitInv, TypeInit DEF ReadInv
<1>3. IInv /\ ReadInv /\ [Next]_vars => IInv' /\ ReadInv'
  BY NextInv, ReadStep
<1>4. QED
  BY <1>1, <1>2, <1>3, PTL DEF Spec

-----------------------------------------------------------------------------
(* What is reported archived *)

\* An archived run is written no more.
LEMMA ArchivedStays ==
    ASSUME IInv, [Next]_vars, NEW r \in Run, Archived(files[r])
    PROVE  files'[r] = files[r]
<1>1. CASE UNCHANGED files
  BY <1>1
<1>2. ASSUME NEW p \in Process, Writes(p) PROVE files'[r] = files[r]
  <2>1. PICK from \in Working, to \in Held, new \in Files : Write(p, from, to, new)
    BY <1>2 DEF Writes
  <2>2. mine[p] \in Run /\ StepFiles(from, files[mine[p]])
    BY <2>1 DEF Write, IInv, StepInv
  <2>3. ~Archived(files[mine[p]])
    BY <2>2 DEF StepFiles, Working, Creating, Archiving, Archived, Absent, Made, Started,
       Guarded, Pointing, Activated, Opened, Recorded, Named, Committed, Closed, Unpointed,
       Observed, Settled, Shape
  <2>4. files' \in {files, [files EXCEPT ![mine[p]] = new]}
    BY <2>1 DEF Write
  <2>5. QED
    BY <2>2, <2>3, <2>4 DEF IInv, StoreType
<1>3. ASSUME NEW p \in Process,
             \/ AcquireLock(p) \/ ScanBeforeCreate(p) \/ Reload(p) \/ ScanBeforeArchive(p)
             \/ Release(p) \/ Die(p) \/ Begin(p) \/ Load(p)
      PROVE  UNCHANGED files
  BY <1>3, LoaderSteps
     DEF AcquireLock, ScanBeforeCreate, Reload, ScanBeforeArchive, Release, Die, disk
<1>4. QED
  BY <1>1, <1>2, <1>3, Kinds DEF Next, vars, disk

\* The archived runs a loader has found are archived, and so is the run of a stand-down
\* that is about to report it.
FoundInv ==
    /\ \A p \in Process : loader[p] = "loadArchivedRun" =>
          \A r \in view[p].hits : Archived(files[r])
    /\ \A p \in Process : pc[p] = "return" /\ command[p] # "assemble" =>
          mine[p] \in Run /\ Archived(files[mine[p]])

\* A run whose archive is observed and unguarded has completed it.
LEMMA TerminalIsArchived ==
    ASSUME NEW f, Legal(f), Terminal(f) PROVE Archived(f)
BY DEF Legal, Shape, Absent, Made, Started, Guarded, Pointing, Activated, Opened, Recorded,
   Named, Committed, Closed, Unpointed, Observed, Settled, Archived, Terminal

\* A run found by a loader was found before or is archived.
LEMMA HitsGrow ==
    ASSUME IInv, ReadInv, [Next]_vars, NEW q \in Process, loader'[q] = "loadArchivedRun",
           NEW r \in view'[q].hits
    PROVE  (loader[q] = "loadArchivedRun" /\ r \in view[q].hits) \/ Archived(files[r])
<1> DEFINE Goal == (loader[q] = "loadArchivedRun" /\ r \in view[q].hits) \/ Archived(files[r])
<1> SUFFICES Goal
  OBVIOUS
<1> HIDE DEF Goal
<1> USE DEF ReadInv, ReadType
<1>0. /\ view[q] \in View /\ \A s \in Run : Legal(files[s])
      /\ NothingRead.hits = {}
  BY DEF IInv, StoreType, NothingRead
<1>1. CASE UNCHANGED <<loader, view>>
  BY <1>1 DEF Goal
<1>2. ASSUME NEW p \in Process, \E l \in Loader :
             /\ loader' = [loader EXCEPT ![p] = l]
             /\ view' = [view EXCEPT ![p] = NothingRead]
      PROVE  Goal
  BY <1>0, <1>2 DEF Goal
<1>3. ASSUME NEW p \in Process, NEW what, Finish(p, what) PROVE Goal
  BY <1>2, <1>3 DEF Finish, Loader
<1>4. ASSUME NEW p \in Process, NEW l \in Loader, Enter(p, l) PROVE Goal
  BY <1>2, <1>4 DEF Enter
<1>5. ASSUME NEW p \in Process, NEW gone, StateUnknown(p, gone) PROVE Goal
  BY <1>3, <1>4, <1>5 DEF StateUnknown, Loader
<1>6. ASSUME UNCHANGED loader, view'[q].hits = view[q].hits PROVE Goal
  BY <1>6 DEF Goal
<1>7. ASSUME NEW p \in Process, Load(p) PROVE Goal
  <2>0. view[p] \in View
    OBVIOUS
  <2>1. CASE ScanActivePointers(p) \/ ListRuns(p)
    <3>1. ASSUME UNCHANGED loader, NEW v, view' = [view EXCEPT ![p].ptrs = v] PROVE Goal
      BY <1>6, <2>0, <3>1 DEF View
    <3>2. ASSUME UNCHANGED loader, NEW v, view' = [view EXCEPT ![p].todo = v] PROVE Goal
      BY <1>6, <2>0, <3>2 DEF View
    <3>3. QED
      BY <1>5, <2>1, <3>1, <3>2 DEF ScanActivePointers, ListRuns
  <2>2. CASE ScanRunState(p)
    <3>1. ASSUME UNCHANGED loader, NEW s, NEW v,
                 view' = [view EXCEPT ![p].todo = @ \ {s}, ![p].got[s] = v]
          PROVE  Goal
      BY <1>6, <2>0, <3>1 DEF View
    <3>2. QED
      BY <1>3, <1>5, <2>2, <3>1 DEF ScanRunState
  <2>3. CASE Judge(p)
    <3>1. ASSUME UNCHANGED loader, NEW v, view' = [view EXCEPT ![p].todo = v] PROVE Goal
      BY <1>6, <2>0, <3>1 DEF View
    <3>2. CASE loader[p] = "inspectArchiveUncertainty"
      BY <1>3, <1>5, <2>3, <3>1, <3>2 DEF Judge
    <3>3. CASE loader[p] = "loadArchivedRun"
      BY <1>3, <1>5, <2>3, <3>1, <3>3 DEF Judge
    <3>4. CASE loader[p] \notin {"inspectArchiveUncertainty", "loadArchivedRun"}
      BY <1>3, <1>5, <2>3, <3>1, <3>4 DEF Judge
    <3>5. QED
      BY <3>2, <3>3, <3>4
  <2>4. CASE ScanActiveJournal(p)
    <3>1. ASSUME view' = [view EXCEPT ![p] = NothingRead], UNCHANGED loader PROVE Goal
      BY <1>0, <3>1 DEF Goal
    <3>2. QED
      BY <1>3, <1>5, <2>4, <3>1 DEF ScanActiveJournal
  <2>5. CASE ScanArchiveJournal(p)
    <3>1. ASSUME UNCHANGED loader, NEW s \in view[p].todo, NEW hit \in BOOLEAN,
                 view' = [view EXCEPT ![p].todo = @ \ {s},
                                      ![p].hits = IF hit THEN @ \union {s} ELSE @],
                 loader[p] = "loadArchivedRun" => hit = Terminal(files[s])
          PROVE  Goal
      <4>1. s \in Run
        BY <2>0 DEF View
      <4>2. view'[q].hits \subseteq view[q].hits \union (IF q = p /\ hit THEN {s} ELSE {})
        BY <2>0, <3>1 DEF View
      <4>3. QED
        BY <1>0, <3>1, <4>1, <4>2, TerminalIsArchived DEF Goal
    <3>2. CASE loader[p] = "inspectArchiveUncertainty"
      <4>1. \/ Finish(p, Nothing)
            \/ /\ UNCHANGED loader
               /\ \E s \in view[p].todo, hit \in BOOLEAN :
                    view' = [view EXCEPT ![p].todo = @ \ {s},
                                         ![p].hits = IF hit THEN @ \union {s} ELSE @]
        BY <2>5, <3>2 DEF ScanArchiveJournal, ArchiveComplete
      <4>2. QED
        BY <1>3, <3>1, <3>2, <4>1
    <3>3. CASE loader[p] = "loadArchivedRun"
      <4>1. \/ Finish(p, Nothing)
            \/ /\ UNCHANGED loader
               /\ \E s \in view[p].todo :
                    view' = [view EXCEPT ![p].todo = @ \ {s},
                                ![p].hits = IF Terminal(files[s]) THEN @ \union {s} ELSE @]
        BY <2>5, <3>3 DEF ScanArchiveJournal
      <4>2. ASSUME NEW s \in view[p].todo, UNCHANGED loader,
                   view' = [view EXCEPT ![p].todo = @ \ {s},
                               ![p].hits = IF Terminal(files[s]) THEN @ \union {s} ELSE @]
            PROVE  Goal
        <5>1. s \in Run
          BY <2>0 DEF View
        <5>2. CASE Terminal(files[s])
          <6>1. Archived(files[s])
            BY <1>0, <5>1, <5>2, TerminalIsArchived
          <6>2. view'[q].hits \subseteq view[q].hits \union {s}
            BY <2>0, <4>2 DEF View
          <6>3. r = s \/ r \in view[q].hits
            BY <6>2
          <6>4. QED
            BY <4>2, <6>1, <6>3 DEF Goal
        <5>3. CASE ~Terminal(files[s])
          <6>1. view'[q].hits = view[q].hits
            BY <2>0, <4>2, <5>3 DEF View
          <6>2. QED
            BY <1>6, <4>2, <6>1
        <5>4. QED
          BY <5>2, <5>3
      <4>3. CASE Finish(p, Nothing)
        BY <1>3, <4>3
      <4>4. CASE ~Finish(p, Nothing)
        <5>1. PICK s \in view[p].todo :
                view' = [view EXCEPT ![p].todo = @ \ {s},
                            ![p].hits = IF Terminal(files[s]) THEN @ \union {s} ELSE @]
          BY <4>1, <4>4
        <5>2. UNCHANGED loader
          BY <4>1, <4>4
        <5>3. QED
          BY <4>2, <5>1, <5>2
      <4>5. QED
        BY <4>3, <4>4
    <3>4. CASE loader[p] \notin {"inspectArchiveUncertainty", "loadArchivedRun"}
      BY <1>3, <2>5, <3>4 DEF ScanArchiveJournal
    <3>5. QED
      BY <3>2, <3>3, <3>4
  <2>6. CASE EndPass(p)
    BY <1>3, <1>4, <2>6 DEF EndPass, Loader
  <2>7. QED
    BY <1>7, <2>1, <2>2, <2>3, <2>4, <2>5, <2>6 DEF Load
<1>8. ASSUME NEW p \in Process, Begin(p) PROVE Goal
  <2>1. UNCHANGED <<loader, view>> \/ \E l \in Loader : Enter(p, l)
    BY <1>8 DEF Begin, Loader
  <2>2. QED
    BY <1>1, <1>4, <2>1
<1>9. ASSUME NEW p \in Process,
             \/ Writes(p) \/ ScanBeforeCreate(p) \/ Reload(p) \/ ScanBeforeArchive(p) \/ Die(p)
      PROVE  Goal
  BY <1>1, <1>9 DEF Writes, Write, ScanBeforeCreate, Reload, ScanBeforeArchive, Die, reading
<1>10. ASSUME NEW p \in Process, AcquireLock(p) \/ Release(p) PROVE Goal
  BY <1>1, <1>3, <1>10 DEF AcquireLock, Release, reading
<1>11. QED
  BY <1>1, <1>7, <1>8, <1>9, <1>10, Kinds DEF Next, vars, reading

\* A command that works returns from its archive, or from the bind of assemble.
LEMMA ReturnsComplete ==
    ASSUME IInv, ReadInv, FoundInv, [Next]_vars,
           NEW q \in Process, pc'[q] = "return", command'[q] # "assemble"
    PROVE  mine'[q] \in Run /\ Archived(files'[mine'[q]])
<1> DEFINE Goal == mine'[q] \in Run /\ Archived(files'[mine'[q]])
<1> SUFFICES Goal
  OBVIOUS
<1> HIDE DEF Goal
<1>0. pc \in [Process -> Step] /\ mine \in [Process -> Run \union {NoRun}]
      /\ command \in [Process -> Command]
  BY DEF IInv, StoreType, ReadInv, ReadType
<1>1. ASSUME pc[q] = "return", command'[q] = command[q], mine'[q] = mine[q]
      PROVE  Goal
  BY <1>1, ArchivedStays DEF FoundInv, Goal
<1>2. CASE UNCHANGED vars
  BY <1>1, <1>2 DEF vars
<1>3. ASSUME NEW p \in Process, Begin(p) \/ Load(p) PROVE Goal
  <2>1. "return" \in Held
    BY DEF Held
  <2>2. q # p /\ pc[q] = "return" /\ mine'[q] = mine[q]
    BY <1>0, <1>3, <2>1, LoaderSteps
  <2>3. command'[q] = command[q]
    <3>1. CASE Begin(p)
      BY <1>0, <2>2, <3>1 DEF Begin
    <3>2. ASSUME NEW what, Finish(p, what) PROVE command'[q] = command[q]
      BY <1>0, <2>2, <3>2 DEF Finish
    <3>3. ASSUME Silent(p) PROVE command'[q] = command[q]
      BY <3>3 DEF Silent
    <3>4. ASSUME NEW gone, StateUnknown(p, gone) PROVE command'[q] = command[q]
      BY <3>2, <3>3, <3>4 DEF StateUnknown
    <3>5. CASE ScanActivePointers(p) \/ ListRuns(p) \/ ScanRunState(p)
      BY <3>2, <3>3, <3>4, <3>5 DEF ScanActivePointers, ListRuns, ScanRunState
    <3>6. CASE Judge(p)
      <4>1. CASE loader[p] = "inspectArchiveUncertainty"
        BY <3>3, <3>6, <4>1 DEF Judge
      <4>2. CASE loader[p] = "loadArchivedRun"
        BY <3>2, <3>3, <3>6, <4>2 DEF Judge
      <4>3. CASE loader[p] \notin {"inspectArchiveUncertainty", "loadArchivedRun"}
        BY <3>2, <3>3, <3>4, <3>6, <4>3 DEF Judge
      <4>4. QED
        BY <4>1, <4>2, <4>3
    <3>7. CASE ScanActiveJournal(p)
      BY <3>2, <3>4, <3>7 DEF ScanActiveJournal
    <3>8. CASE ScanArchiveJournal(p)
      BY <3>2, <3>3, <3>8 DEF ScanArchiveJournal
    <3>9. CASE EndPass(p)
      BY <3>2, <3>3, <3>9 DEF EndPass
    <3>10. QED
      BY <1>3, <3>1, <3>5, <3>6, <3>7, <3>8, <3>9 DEF Load
  <2>4. QED
    BY <1>1, <2>2, <2>3
<1>4. ASSUME NEW p \in Process,
             \/ AcquireLock(p) \/ ScanBeforeCreate(p) \/ Reload(p) \/ ScanBeforeArchive(p)
             \/ Release(p) \/ Die(p)
      PROVE  Goal
  <2>1. pc'[p] # "return"
    BY <1>0, <1>4 DEF AcquireLock, ScanBeforeCreate, Reload, ScanBeforeArchive, Release, Die,
       Goto, Finish
  <2>2. q # p
    BY <2>1
  <2>3. pc'[q] = pc[q] /\ command'[q] = command[q] /\ mine'[q] = mine[q]
    <3>1. CASE AcquireLock(p) \/ Release(p)
      BY <1>0, <2>2, <3>1 DEF AcquireLock, Release, Goto, Finish, Silent
    <3>2. CASE ScanBeforeCreate(p) \/ Reload(p)
      BY <1>0, <2>2, <3>2 DEF ScanBeforeCreate, Reload, Goto
    <3>3. CASE ScanBeforeArchive(p) \/ Die(p)
      BY <1>0, <2>2, <3>3 DEF ScanBeforeArchive, Die, Goto, Silent
    <3>4. QED
      BY <1>4, <3>1, <3>2, <3>3
  <2>4. QED
    BY <1>1, <2>3
<1>5. ASSUME NEW p \in Process, NEW from, NEW to, NEW new, Write(p, from, to, new)
      PROVE  /\ command' = command /\ mine' = mine
             /\ q # p => pc[q] = "return"
             /\ q = p => to = "return" /\ files' = [files EXCEPT ![mine[p]] = new]
  BY <1>0, <1>5 DEF Write, Goto
<1>6. ASSUME NEW p \in Process, NEW from, NEW to, NEW new, Write(p, from, to, new),
             to # "return" \/ q # p
      PROVE  Goal
  BY <1>1, <1>5, <1>6
<1>7. ASSUME NEW p \in Process, RemoveArchiveGuard(p) PROVE Goal
  <2> DEFINE new == [Own(p) EXCEPT !.guard = FALSE]
  <2>1. CASE q = p
    <3>1. pc[p] = "removeArchiveGuard" /\ "removeArchiveGuard" \in Working
      BY <1>7 DEF RemoveArchiveGuard, Write, Working, Archiving
    <3>2. mine[p] \in Run /\ Settled(Own(p)) /\ Own(p) \in Files /\ files \in [Run -> Files]
      BY <3>1 DEF IInv, StoreType, StepInv, StepFiles, Own
    <3>3. Archived(new)
      BY <3>2 DEF Settled, Archived, Shape, Files
    <3>4. files' = [files EXCEPT ![mine[p]] = new] /\ mine' = mine
      BY <1>5, <1>7, <2>1 DEF RemoveArchiveGuard
    <3> HIDE DEF new
    <3>5. files'[mine[p]] = new
      BY <3>2, <3>4
    <3>6. QED
      BY <2>1, <3>2, <3>3, <3>4, <3>5 DEF Goal
  <2>2. QED
    BY <1>6, <1>7, <2>1 DEF RemoveArchiveGuard
<1>8. ASSUME NEW p \in Process, Settle(p) PROVE Goal
  <2>1. CASE q = p /\ command[p] = "assemble"
    BY <1>5, <1>8, <2>1 DEF Settle
  <2>2. CASE q # p \/ command[p] # "assemble"
    BY <1>6, <1>8, <2>2 DEF Settle
  <2>3. QED
    BY <2>1, <2>2
<1>9. ASSUME NEW p \in Process,
             MakeRun(p) \/ Initialize(p) \/ GuardActivation(p) \/ Point(p) \/ Activate(p)
      PROVE  Goal
  BY <1>6, <1>9 DEF MakeRun, Initialize, GuardActivation, Point, Activate
<1>10. ASSUME NEW p \in Process,
              RemoveActivation(p) \/ Operate(p) \/ ArchiveIntent(p) \/ ArchiveHead(p)
       PROVE  Goal
  BY <1>6, <1>10 DEF RemoveActivation, Operate, ArchiveIntent, ArchiveHead
<1>11. ASSUME NEW p \in Process,
              GuardArchive(p) \/ ArchiveDoc(p) \/ RemovePointer(p) \/ ObserveEntry(p)
              \/ ObserveHead(p)
       PROVE  Goal
  BY <1>6, <1>11 DEF GuardArchive, ArchiveDoc, RemovePointer, ObserveEntry, ObserveHead
<1>12. ASSUME NEW p \in Process, Begin(p) \/ Advance(p) \/ Die(p) PROVE Goal
  BY <1>3, <1>4, <1>7, <1>8, <1>9, <1>10, <1>11, <1>12 DEF Advance, Create, ArchiveRun
<1>13. QED
  BY <1>2, <1>12 DEF Next

\* Nobody takes an archive back that a loader has found.
LEMMA FoundStep ==
    ASSUME IInv, ReadInv, FoundInv, [Next]_vars PROVE FoundInv'
<1>1. ASSUME NEW p \in Process, loader'[p] = "loadArchivedRun", NEW r \in view'[p].hits
      PROVE  Archived(files'[r])
  <2>1. Archived(files[r])
    BY <1>1, HitsGrow DEF FoundInv
  <2>2. ReadType'
    BY ReadStep DEF ReadInv
  <2>3. r \in Run
    BY <1>1, <2>2 DEF ReadType, View
  <2>4. QED
    BY <2>1, <2>3, ArchivedStays
<1>2. QED
  BY <1>1, ReturnsComplete DEF FoundInv

\* Only two steps report an archived run: the end of loadArchivedRun's pass, of a run it
\* found, and the end of a stand-down, of its own run.
LEMMA ReportsTheFound ==
    ASSUME IInv, ReadInv, FoundInv, Next, report'[1] = "archived"
    PROVE  report'[2] \in Run /\ Archived(files[report'[2]]) /\ UNCHANGED files
<1> DEFINE Goal == report'[2] \in Run /\ Archived(files[report'[2]]) /\ UNCHANGED files
<1> SUFFICES Goal
  OBVIOUS
<1> HIDE DEF Goal
<1>0. Nothing[1] # "archived"
  BY DEF Nothing
<1>1. ASSUME NEW p \in Process, Silent(p) \/ Finish(p, Nothing) PROVE Goal
  BY <1>0, <1>1 DEF Silent, Finish
<1>2. ASSUME NEW p \in Process, NEW gone, StateUnknown(p, gone) PROVE Goal
  BY <1>1, <1>2 DEF StateUnknown
<1>3. ASSUME NEW p \in Process, Load(p) PROVE Goal
  <2>1. CASE ScanActivePointers(p) \/ ListRuns(p) \/ ScanRunState(p)
    BY <1>1, <1>2, <2>1 DEF ScanActivePointers, ListRuns, ScanRunState
  <2>2. CASE Judge(p)
    <3>1. CASE loader[p] = "inspectArchiveUncertainty"
      BY <1>1, <2>2, <3>1 DEF Judge
    <3>2. CASE loader[p] = "loadArchivedRun"
      BY <1>1, <2>2, <3>2 DEF Judge
    <3>3. CASE loader[p] \notin {"inspectArchiveUncertainty", "loadArchivedRun"}
      BY <1>1, <1>2, <2>2, <3>3 DEF Judge
    <3>4. QED
      BY <3>1, <3>2, <3>3
  <2>3. CASE ScanActiveJournal(p)
    <3>1. ASSUME NEW r, Finish(p, <<"active", r>>) PROVE Goal
      BY <3>1 DEF Finish
    <3>2. CASE report' = Nothing
      BY <1>0, <3>2
    <3>3. QED
      BY <1>1, <1>2, <2>3, <3>1, <3>2 DEF ScanActiveJournal
  <2>4. CASE ScanArchiveJournal(p)
    BY <1>1, <2>4 DEF ScanArchiveJournal
  <2>5. CASE EndPass(p)
    <3>1. ASSUME loader[p] = "loadArchivedRun", NEW r \in NewestOf(view[p].hits),
                 Finish(p, <<"archived", r>>)
          PROVE  Goal
      <4>1. r \in view[p].hits /\ report' = <<"archived", r>>
        BY <3>1 DEF NewestOf, Finish
      <4>2. r \in Run
        BY <4>1 DEF ReadInv, ReadType, View
      <4>3. Archived(files[r]) /\ UNCHANGED files
        BY <2>5, <3>1, <4>1 DEF FoundInv, EndPass, disk
      <4>4. report'[2] = r
        BY <4>1
      <4>5. QED
        BY <4>2, <4>3, <4>4 DEF Goal
    <3>2. QED
      BY <1>1, <2>5, <3>1 DEF EndPass
  <2>6. QED
    BY <1>3, <2>1, <2>2, <2>3, <2>4, <2>5 DEF Load
<1>4. ASSUME NEW p \in Process, Release(p) PROVE Goal
  <2>1. PICK kind \in {"active", "archived"} :
          /\ pc[p] = "return"
          /\ kind = "archived" => command[p] # "assemble"
          /\ report' = <<kind, mine[p]>> /\ UNCHANGED files
    BY <1>0, <1>4 DEF Release, Finish
  <2>2. kind = "archived" /\ report'[2] = mine[p]
    BY <2>1
  <2>3. QED
    BY <2>1, <2>2 DEF FoundInv, Goal
<1>5. ASSUME NEW p \in Process, report' = Nothing PROVE Goal
  BY <1>0, <1>5
<1>6. ASSUME NEW p \in Process,
             \/ Begin(p) \/ Writes(p) \/ AcquireLock(p) \/ ScanBeforeCreate(p) \/ Reload(p)
             \/ ScanBeforeArchive(p) \/ Die(p)
      PROVE  Goal
  <2>1. report' = Nothing
    BY <1>6 DEF Begin, Writes, Write, AcquireLock, ScanBeforeCreate, Reload, ScanBeforeArchive,
       Die, Silent, Finish
  <2>2. QED
    BY <1>5, <2>1
<1>7. QED
  BY <1>3, <1>4, <1>6, Kinds DEF Next

ReportInv ==
    report[1] = "archived" => report[2] \in Run /\ Archived(files[report[2]])

\* A run that is reported archived, by a status that read the store while others wrote or by
\* the stand-down that archived it, has completed its archive: its pointer, its guards and its
\* activation are gone for good.
THEOREM ReportedRunsAreArchived == Spec => []ReportedArchiveIsComplete
<1>1. IInv /\ ReportInv => ReportedArchiveIsComplete
  BY DEF ReportInv, ReportedArchiveIsComplete, Archived, Shape, ArchiveComplete
<1>2. Init => IInv /\ ReadInv /\ FoundInv /\ ReportInv
  <2> SUFFICES ASSUME Init PROVE FoundInv /\ ReportInv
    BY InitInv, TypeInit DEF ReadInv
  <2>1. FoundInv
    BY DEF Init, FoundInv
  <2>2. ReportInv
    BY DEF Init, ReportInv, Nothing
  <2>3. QED
    BY <2>1, <2>2
<1>3. IInv /\ ReadInv /\ FoundInv /\ ReportInv /\ [Next]_vars
         => IInv' /\ ReadInv' /\ FoundInv' /\ ReportInv'
  <2> SUFFICES ASSUME IInv, ReadInv, FoundInv, ReportInv, [Next]_vars PROVE ReportInv'
    BY NextInv, ReadStep, FoundStep
  <2>1. CASE UNCHANGED vars
    BY <2>1 DEF vars, disk, ReportInv
  <2>2. CASE Next
    BY <2>2, ReportsTheFound DEF ReportInv
  <2>3. QED
    BY <2>1, <2>2
<1>4. QED
  BY <1>1, <1>2, <1>3, PTL DEF Spec

-----------------------------------------------------------------------------
(* A workspace without failures and deaths *)

\* Between commands a run that was begun can be stood down, or is archived.
Quiet(f) == Absent(f) \/ Archived(f) \/ Opened(f, "bound")

OwnedBy(p, r) == pc[p] \in Working /\ mine[p] = r

CleanInv == mishaps = 0 => \A r \in Run : Quiet(files[r]) \/ \E p \in Process : OwnedBy(p, r)

\* Whoever keeps working on its run owns it still.
LEMMA OwnersStay ==
    ASSUME CleanInv, mishaps = 0, UNCHANGED files,
           \A q \in Process : pc[q] \in Working =>
               \/ pc'[q] \in Working /\ mine'[q] = mine[q]
               \/ Quiet(files[mine[q]])
    PROVE  CleanInv'
<1> SUFFICES ASSUME NEW r \in Run
             PROVE  Quiet(files'[r]) \/ \E p \in Process : OwnedBy(p, r)'
  BY DEF CleanInv
<1>1. CASE Quiet(files[r])
  BY <1>1
<1>2. ASSUME NEW q \in Process, OwnedBy(q, r)
      PROVE  Quiet(files'[r]) \/ OwnedBy(q, r)'
  BY <1>2 DEF OwnedBy
<1>3. QED
  BY <1>1, <1>2 DEF CleanInv

\* A file operation that succeeds goes on, or leaves its run in a quiet state.
LEMMA WritesOwn ==
    ASSUME IInv, CleanInv, mishaps = 0, mishaps' = 0, NEW p \in Process,
           NEW from \in Working, NEW to, NEW new, Write(p, from, to, new),
           to \in Working \/ Quiet(new)
    PROVE  CleanInv'
<1>0. files \in [Run -> Files] /\ pc \in [Process -> Step] /\ mine[p] \in Run
  BY DEF IInv, StoreType, StepInv, Write
<1>1. /\ files' = [files EXCEPT ![mine[p]] = new]
      /\ pc' = [pc EXCEPT ![p] = to] /\ mine' = mine
  BY DEF Write, Goto
<1> SUFFICES ASSUME NEW r \in Run
             PROVE  Quiet(files'[r]) \/ \E q \in Process : OwnedBy(q, r)'
  BY DEF CleanInv
<1>2. CASE r = mine[p]
  <2>1. files'[r] = new /\ pc'[p] = to
    BY <1>0, <1>1, <1>2
  <2>2. QED
    BY <1>1, <1>2, <2>1 DEF OwnedBy
<1>3. CASE r # mine[p]
  <2>1. files'[r] = files[r]
    BY <1>0, <1>1, <1>3
  <2>2. ASSUME NEW q \in Process, OwnedBy(q, r) PROVE OwnedBy(q, r)'
    BY <1>0, <1>1, <1>3, <2>2 DEF OwnedBy
  <2>3. QED
    BY <2>1, <2>2 DEF CleanInv
<1>4. QED
  BY <1>2, <1>3

\* Without failures and deaths no step leaves a run half done.
LEMMA CleanStep ==
    ASSUME IInv, ReadInv, CleanInv, [Next]_vars PROVE CleanInv'
<1> SUFFICES ASSUME mishaps' = 0 PROVE CleanInv'
  BY DEF CleanInv
<1>0. mishaps \in Nat /\ pc \in [Process -> Step] /\ mine \in [Process -> Run \union {NoRun}]
  BY RunLimits DEF ReadInv, IInv, StoreType
<1>1. CASE UNCHANGED vars
  BY <1>1 DEF vars, disk, CleanInv, OwnedBy
<1>2. ASSUME NEW p \in Process, Begin(p) \/ Load(p) PROVE CleanInv'
  <2>1. mishaps = 0
    BY <1>2 DEF Begin, Load, ScanActivePointers, ListRuns, ScanRunState, Judge,
       ScanActiveJournal, ScanArchiveJournal, EndPass
  <2>2. \A q \in Process : pc[q] \in Working => pc'[q] = pc[q] /\ mine'[q] = mine[q]
    BY <1>0, <1>2, LoaderSteps DEF Held
  <2>3. UNCHANGED files
    BY <1>2, LoaderSteps
  <2>4. QED
    BY <2>1, <2>2, <2>3, OwnersStay
<1>3. ASSUME NEW p \in Process,
             \/ AcquireLock(p) \/ ScanBeforeCreate(p) \/ Reload(p) \/ Release(p)
      PROVE  CleanInv'
  <2>1. /\ mishaps = 0 /\ UNCHANGED files
        /\ pc[p] \in {"lock", "createRun", "reload", "release", "return"}
    BY <1>3 DEF AcquireLock, ScanBeforeCreate, Reload, Release, disk
  <2>2. pc[p] \notin Working
    BY <2>1 DEF Working, Creating, Archiving
  <2>3. \A q \in Process \ {p} : pc'[q] = pc[q] /\ mine'[q] = mine[q]
    <3>1. CASE AcquireLock(p) \/ Release(p)
      BY <1>0, <3>1 DEF AcquireLock, Release, Goto, Finish, Silent
    <3>2. CASE ScanBeforeCreate(p) \/ Reload(p)
      BY <1>0, <3>2 DEF ScanBeforeCreate, Reload, Goto
    <3>3. QED
      BY <1>3, <3>1, <3>2
  <2>4. QED
    BY <2>1, <2>2, <2>3, OwnersStay
<1>4. ASSUME NEW p \in Process, ScanBeforeArchive(p) PROVE CleanInv'
  <2>1. /\ mishaps = 0 /\ UNCHANGED files /\ mine' = mine
        /\ pc[p] = "archiveActiveRun"
        /\ \A q \in Process \ {p} : pc'[q] = pc[q]
    BY <1>0, <1>4 DEF ScanBeforeArchive, disk, Goto, Silent
  <2>2. Quiet(files[mine[p]])
    BY <2>1 DEF IInv, StepInv, StepFiles, Working, Archiving, Quiet
  <2>3. QED
    BY <2>1, <2>2, OwnersStay
<1>5. ASSUME NEW p \in Process, Die(p) PROVE CleanInv'
  BY <1>0, <1>5 DEF Die
<1>6. ASSUME NEW p \in Process, NEW from \in Working, NEW to, NEW new,
             Write(p, from, to, new), to \in Working \/ Quiet(new)
      PROVE  CleanInv'
  <2>1. mishaps = 0
    BY <1>0, <1>6 DEF Write
  <2>2. QED
    BY <1>6, <2>1, WritesOwn
<1>7. Creating \ {"createRun"} \subseteq Working /\ Archiving \subseteq Working
      /\ {"operate", "settle"} \subseteq Working
  BY DEF Working
<1>8. ASSUME NEW p \in Process,
             MakeRun(p) \/ Initialize(p) \/ GuardActivation(p) \/ Point(p) \/ Activate(p)
      PROVE  CleanInv'
  BY <1>6, <1>7, <1>8 DEF MakeRun, Initialize, GuardActivation, Point, Activate, Creating
<1>9. ASSUME NEW p \in Process,
             RemoveActivation(p) \/ Operate(p) \/ ArchiveIntent(p) \/ ArchiveHead(p)
      PROVE  CleanInv'
  BY <1>6, <1>7, <1>9 DEF RemoveActivation, Operate, ArchiveIntent, ArchiveHead, Creating,
     Archiving
<1>10. ASSUME NEW p \in Process,
             GuardArchive(p) \/ ArchiveDoc(p) \/ RemovePointer(p) \/ ObserveEntry(p)
             \/ ObserveHead(p)
       PROVE  CleanInv'
  BY <1>6, <1>7, <1>10 DEF GuardArchive, ArchiveDoc, RemovePointer, ObserveEntry, ObserveHead,
     Archiving
<1>11. ASSUME NEW p \in Process, RemoveArchiveGuard(p) PROVE CleanInv'
  <2> DEFINE new == [Own(p) EXCEPT !.guard = FALSE]
  <2>1. pc[p] = "removeArchiveGuard" /\ "removeArchiveGuard" \in Working
    BY <1>11 DEF RemoveArchiveGuard, Write, Working, Archiving
  <2>2. Settled(Own(p)) /\ Own(p) \in Files
    BY <2>1 DEF IInv, StoreType, StepInv, StepFiles, Own
  <2>3. Quiet(new)
    BY <2>2 DEF Settled, Archived, Shape, Files, Quiet
  <2>4. QED
    BY <1>6, <1>11, <2>1, <2>3 DEF RemoveArchiveGuard
<1>12. ASSUME NEW p \in Process, Settle(p) PROVE CleanInv'
  <2> DEFINE new == [Own(p) EXCEPT !.work = "bound"]
  <2>1. pc[p] = "settle" /\ "settle" \in Working
    BY <1>7, <1>12 DEF Settle, Write
  <2>2. Opened(Own(p), "busy") /\ Own(p) \in Files
    BY <2>1 DEF IInv, StoreType, StepInv, StepFiles, Own
  <2>3. Quiet(new)
    BY <2>2 DEF Opened, Shape, Files, Quiet
  <2>4. QED
    BY <1>6, <1>12, <2>1, <2>3 DEF Settle
<1>13. ASSUME NEW p \in Process, Begin(p) \/ Advance(p) \/ Die(p) PROVE CleanInv'
  BY <1>2, <1>3, <1>4, <1>5, <1>8, <1>9, <1>10, <1>11, <1>12, <1>13
     DEF Advance, Create, ArchiveRun
<1>14. QED
  BY <1>1, <1>13 DEF Next

\* Some run is the newest of any.
LEMMA NewestExists ==
    ASSUME NEW S \in SUBSET Run, S # {} PROVE NewestOf(S) # {}
<1> DEFINE Ages == {MaxRuns - r : r \in S}
           Less == {ss \in Nat \X Nat : ss[1] < ss[2]}
<1>1. Ages \subseteq Nat /\ Ages # {}
  <2>1. \A r \in S : MaxRuns - r \in Nat
    BY RunLimits DEF Run
  <2>2. PICK r \in S : TRUE
    OBVIOUS
  <2>3. MaxRuns - r \in Ages
    BY <2>2
  <2>4. QED
    BY <2>1, <2>3
<1>2. IsWellFoundedOn(Less, Nat)
  BY NatLessThanWellFounded DEF OpToRel
<1>3. PICK n \in Ages : \A m \in Ages : <<m, n>> \notin Less
  <2> HIDE DEF Ages, Less
  <2>1. QED
    BY <1>1, <1>2, WFMin
<1>4. PICK r \in S : n = MaxRuns - r
  BY <1>3
<1>5. ASSUME NEW s \in S PROVE s <= r
  <2>1. MaxRuns - s \in Ages /\ MaxRuns - s \in Nat /\ n \in Nat
    BY <1>1, <1>3
  <2>2. ~(MaxRuns - s < n)
    BY <1>3, <2>1
  <2>3. QED
    BY <1>4, <2>2, RunLimits DEF Run
<1>6. QED
  BY <1>4, <1>5 DEF NewestOf

\* As long as no file operation fails and no command dies, a workspace at rest has no run, or
\* one that can be stood down, or an archived one to report: neither createRun nor
\* archiveActiveRun ends in a state the loaders refuse.
THEOREM CleanWorkspaceServes == Spec => []CleanHistoryServes
<1>1. ASSUME IInv, CleanInv, mishaps = 0, lock = Free
      PROVE  \/ Listed(files) = {}
             \/ Serving(files) # {} /\ Uncertain(files) = {}
             \/ LastArchived(files) # {}
  <2> USE DEF Listed
  <2>1. \A r \in Run : files[r] \in Files /\ Quiet(files[r])
    <3>1. \A p \in Process : pc[p] \notin Working
      BY <1>1, FreeIsNoProcess DEF IInv, LockInv, Held
    <3>2. QED
      BY <1>1, <3>1 DEF IInv, StoreType, CleanInv, OwnedBy
  <2>2. Uncertain(files) = {} /\ Whole(files) /\ ~ActivationPending(files)
    BY <2>1 DEF Uncertain, Whole, ActivationPending, Quiet, Absent, Archived, Opened, Shape,
       ArchiveComplete
  <2>3. CASE \E r \in Run : Opened(files[r], "bound")
    <3>1. PICK r \in Run : Opened(files[r], "bound")
      BY <2>3
    <3>2. r \in NonArchived(files)
      BY <3>1 DEF NonArchived, Opened, Shape
    <3>3. ASSUME NEW s \in Run, s # r PROVE Absent(files[s]) \/ Archived(files[s])
      <4>1. CASE Opened(files[s], "bound")
        <5>1. s \in NonArchived(files)
          BY <4>1 DEF NonArchived, Opened, Shape
        <5>2. s <= r /\ r <= s
          BY <1>1, <3>2, <5>1 DEF IInv, OneLive, NonArchived
        <5>3. QED
          BY <3>3, <5>2, RunLimits DEF Run
      <4>2. QED
        BY <2>1, <4>1 DEF Quiet
    <3>4. Pointed(files) = {r} /\ NonArchived(files) = {r}
      BY <3>1, <3>2, <3>3 DEF Pointed, NonArchived, Opened, Absent, Archived, Shape
    <3>5. r \in Serving(files)
      BY <2>2, <3>1, <3>4 DEF Serving, Selected, JournalServes, Opened, Shape
    <3>6. QED
      BY <2>2, <3>5
  <2>4. CASE \A r \in Run : ~Opened(files[r], "bound")
    <3>1. \A r \in Run : Absent(files[r]) \/ Archived(files[r])
      BY <2>1, <2>4 DEF Quiet
    <3>2. NoActiveRun(Pointed(files), files)
      BY <2>2, <3>1 DEF NoActiveRun, Pointed, NonArchived, Absent, Archived, Shape
    <3>3. {r \in Listed(files) : Terminal(files[r])} = Listed(files)
      BY <3>1 DEF Terminal, Absent, Archived, Shape
    <3>4. LastArchived(files) = NewestOf(Listed(files))
      BY <2>2, <3>2, <3>3 DEF LastArchived
    <3>5. QED
      BY <3>4, NewestExists
  <2>5. QED
    BY <2>3, <2>4
<1>2. IInv /\ CleanInv => CleanHistoryServes
  BY <1>1 DEF CleanHistoryServes
<1>3. Init => IInv /\ ReadInv /\ CleanInv
  <2> SUFFICES ASSUME Init PROVE CleanInv
    BY InitInv, TypeInit DEF ReadInv
  <2>1. QED
    BY DEF Init, CleanInv, Quiet, NoFiles, Absent, Shape
<1>4. IInv /\ ReadInv /\ CleanInv /\ [Next]_vars => IInv' /\ ReadInv' /\ CleanInv'
  BY NextInv, ReadStep, CleanStep
<1>5. QED
  BY <1>2, <1>3, <1>4, PTL DEF Spec

-----------------------------------------------------------------------------
(* What a status reports *)

\* Only the newest run has a pointer, and when somebody works only his own.
PointerInv ==
    /\ \A r \in Pointed(files) : \A s \in Listed(files) : s <= r
    /\ \A p \in Process : pc[p] \in Working => \A s \in Run \ {mine[p]} : ~files[s].pointer

\* createRun and archiveActiveRun point to the newest run only.
LEMMA PointerStep ==
    ASSUME IInv, PointerInv, [Next]_vars PROVE PointerInv'
<1>0. pc \in [Process -> Step] /\ mine \in [Process -> Run \union {NoRun}]
      /\ files \in [Run -> Files]
  BY DEF IInv, StoreType
<1>1. ASSUME UNCHANGED files,
             \A q \in Process : pc'[q] \in Working =>
                 \/ pc[q] \in Working /\ mine'[q] = mine[q]
                 \/ \A s \in Run \ {mine'[q]} : ~files[s].pointer
      PROVE  PointerInv'
  BY <1>1 DEF PointerInv, Pointed, Listed
<1>2. CASE UNCHANGED vars
  BY <1>1, <1>2 DEF vars, disk
<1>3. ASSUME NEW p \in Process, Begin(p) \/ Load(p) PROVE PointerInv'
  <2>1. \A q \in Process : pc'[q] \in Working => pc[q] = pc'[q] /\ mine'[q] = mine[q]
    BY <1>0, <1>3, LoaderSteps DEF Held
  <2>2. UNCHANGED files
    BY <1>3, LoaderSteps
  <2>3. QED
    BY <1>1, <2>1, <2>2
<1>4. ASSUME NEW p \in Process, AcquireLock(p) \/ Release(p) \/ Die(p) \/ ScanBeforeArchive(p)
      PROVE  PointerInv'
  <2>1. {"createRun", "reload", "idle", "dead", "release"} \intersect Working = {}
        /\ "archiveActiveRun" \in Working
    BY DEF Working, Creating, Archiving
  <2>2. UNCHANGED files
    BY <1>4 DEF AcquireLock, Release, Die, ScanBeforeArchive, disk
  <2>3. \A q \in Process : pc'[q] \in Working => pc[q] \in Working /\ mine'[q] = mine[q]
    <3>1. CASE AcquireLock(p) \/ Release(p)
      BY <1>0, <2>1, <3>1 DEF AcquireLock, Release, Goto, Finish, Silent
    <3>2. CASE Die(p) \/ ScanBeforeArchive(p)
      BY <1>0, <2>1, <3>2 DEF Die, ScanBeforeArchive, Goto, Silent
    <3>3. QED
      BY <1>4, <3>1, <3>2
  <2>4. QED
    BY <1>1, <2>2, <2>3
<1>5. ASSUME NEW p \in Process, ScanBeforeCreate(p) \/ Reload(p) PROVE PointerInv'
  <2>1. "release" \notin Working /\ UNCHANGED files
    BY <1>5 DEF Working, Creating, Archiving, ScanBeforeCreate, Reload, disk
  <2>2. \A q \in Process \ {p} : pc'[q] = pc[q] /\ mine'[q] = mine[q]
    BY <1>0, <1>5 DEF ScanBeforeCreate, Reload, Goto
  <2>3. CASE ScanBeforeCreate(p)
    <3>1. pc'[p] \in Working => MayCreate
      BY <1>0, <2>1, <2>3 DEF ScanBeforeCreate, Goto
    <3>2. MayCreate => \A s \in Run : ~files[s].pointer
      <4>1. \A s \in Run : s \notin Listed(files) => Absent(files[s])
        BY DEF IInv, StoreType, Listed, Legal, Shape, Absent, Made, Started, Guarded, Pointing,
           Activated, Opened, Recorded, Named, Committed, Closed, Unpointed, Observed, Settled,
           Archived
      <4>2. QED
        BY <4>1 DEF MayCreate, Absent, Shape
    <3>3. QED
      BY <1>1, <2>1, <2>2, <3>1, <3>2
  <2>4. CASE Reload(p)
    <3>1. pc'[p] \in Working => mine'[p] \in Serving(files)
      BY <1>0, <2>1, <2>4 DEF Reload, Goto
    <3>2. \A r \in Serving(files) : \A s \in Run \ {r} : ~files[s].pointer
      BY DEF Serving, Selected, Pointed
    <3>3. QED
      BY <1>1, <2>1, <2>2, <3>1, <3>2
  <2>5. QED
    BY <1>5, <2>3, <2>4
<1>6. ASSUME NEW p \in Process, Writes(p) PROVE PointerInv'
  <2>1. PICK from \in Working, to \in Held, new \in Files : Write(p, from, to, new)
    BY <1>6 DEF Writes
  <2>2. /\ pc[p] \in Working /\ mine[p] \in Run /\ Alone(mine[p]) /\ mine' = mine
        /\ \A s \in Run \ {mine[p]} : files'[s] = files[s]
        /\ \A q \in Process \ {p} : pc'[q] = pc[q]
    BY <1>0, <2>1 DEF Write, Goto, IInv, StepInv
  <2>3. \A q \in Process \ {p} : pc[q] \notin Working
    BY <2>2 DEF IInv, LockInv, Held
  <2>4. \A s \in Run \ {mine[p]} : ~files'[s].pointer
    BY <2>2 DEF PointerInv
  <2>5. \A r \in Pointed(files') : \A s \in Listed(files') : s <= r
    <3>1. ASSUME NEW r \in Pointed(files'), NEW s \in Listed(files') PROVE s <= r
      <4>1. r = mine[p] /\ r \in Run /\ s \in Run
        BY <2>4 DEF Pointed, Listed
      <4>2. s = r \/ (files[s].doc # "absent" /\ s # r)
        BY <2>2, <4>1 DEF Listed
      <4>3. s = r \/ s < r
        BY <2>2, <4>1, <4>2 DEF Alone
      <4>4. QED
        BY <4>1, <4>3, RunLimits DEF Run
    <3>2. QED
      BY <3>1
  <2>6. Pointed(files') = Pointed(files)' /\ Listed(files') = Listed(files)'
    BY DEF Pointed, Listed
  <2>7. \A q \in Process : pc'[q] \in Working => q = p
    BY <2>2, <2>3
  <2>8. QED
    BY <2>2, <2>4, <2>5, <2>6, <2>7 DEF PointerInv
<1>7. QED
  BY <1>2, <1>3, <1>4, <1>5, <1>6, Kinds DEF Next

\* A journal that serves is that of the only live run: its run is what stands last.
LEMMA ServesNow ==
    ASSUME IInv, PointerInv, NEW r \in Run, NEW head, JournalServes(files[r], head)
    PROVE  <<"active", r>> \in Latest(files)
<1>1. files[r] \in Files /\ Legal(files[r])
  BY DEF IInv, StoreType
<1>2. Opened(files[r], "bound")
  BY <1>1 DEF JournalServes, Legal, Shape, Absent, Made, Started, Guarded, Pointing, Activated,
     Opened, Recorded, Named, Committed, Closed, Unpointed, Observed, Settled, Archived
<1>3. files[r].doc = "active" /\ files[r].pointer /\ r \in Pointed(files) /\ r \in Listed(files)
  BY <1>2 DEF Opened, Shape, Pointed, Listed
<1>4. Alone(r)
  BY <1>3, LiveIsAlone
<1>5. \A s \in Run \ {r} : ~files[s].pointer
  <2>1. ASSUME NEW s \in Run, s # r, files[s].pointer PROVE FALSE
    <3>1. s \in Pointed(files)
      BY <2>1 DEF Pointed
    <3>2. r <= s
      BY <1>3, <3>1 DEF PointerInv
    <3>3. files[s].doc # "absent"
      BY <2>1 DEF IInv, StoreType, Legal, Shape, Absent, Made, Started, Guarded, Pointing,
         Activated, Opened, Recorded, Named, Committed, Closed, Unpointed, Observed, Settled,
         Archived
    <3>4. s < r
      BY <1>4, <2>1, <3>3 DEF Alone
    <3>5. QED
      BY <3>2, <3>4, RunLimits DEF Run
  <2>2. QED
    BY <2>1
<1>6. Pointed(files) = {r}
  BY <1>3, <1>5 DEF Pointed
<1>7. NonArchived(files) = {r}
  BY <1>3, <1>4 DEF NonArchived, Listed, Alone
<1>8. \A s \in Run : ~files[s].activation /\ files[s].doc # "made"
  <2>1. ~files[r].activation /\ files[r].doc # "made"
    BY <1>2 DEF Opened, Shape
  <2>2. ASSUME NEW s \in Run, s # r PROVE ~files[s].activation /\ files[s].doc # "made"
    <3>1. files[s].doc \in {"absent", "archived"} /\ Legal(files[s])
      BY <1>4, <2>2 DEF Alone, IInv, StoreType
    <3>2. QED
      BY <3>1 DEF Legal, Shape, Absent, Made, Started, Guarded, Pointing, Activated, Opened,
         Recorded, Named, Committed, Closed, Unpointed, Observed, Settled, Archived
  <2>3. QED
    BY <2>1, <2>2
<1>9. r \in Serving(files)
  BY <1>2, <1>3, <1>6, <1>7, <1>8
     DEF Serving, Selected, ActivationPending, Whole, Listed, JournalServes, Opened, Shape
<1>10. QED
  BY <1>9 DEF Latest

\* Directories stay, and archived documents stay archived.
LEMMA FilesGrow ==
    ASSUME IInv, [Next]_vars, NEW r \in Run
    PROVE  /\ files[r].doc # "absent" => files'[r].doc # "absent"
           /\ files[r].doc = "archived" => files'[r].doc = "archived"
<1> DEFINE before == StandingOf(files)
           after == StandingOf(files')
<1>1. after = before'
  BY DEF StandingOf
<1>2. before \in [Run -> Registry!Standing] /\ after[r] \in Registry!Standing
  <2>1. \A d : \A s \in Run : d[s].doc \in Docs => StandingOf(d)[s] \in Registry!Standing
    BY DEF StandingOf, Registry!Standing, Docs
  <2>2. \A s \in Run : files[s].doc \in Docs /\ files'[s].doc \in Docs
    BY NextInv DEF IInv, StoreType, Files
  <2>3. before = [s \in Run |-> before[s]]
    BY DEF StandingOf
  <2> HIDE DEF before, after
  <2>4. QED
    BY <2>1, <2>2, <2>3 DEF before, after
<1>3. /\ before[r] = "unused" <=> files[r].doc = "absent"
      /\ after[r] = "unused" <=> files'[r].doc = "absent"
      /\ before[r] = "archived" <=> files[r].doc = "archived"
      /\ after[r] = "archived" <=> files'[r].doc = "archived"
  <2>1. files[r].doc \in Docs /\ files'[r].doc \in Docs
    BY NextInv DEF IInv, StoreType, Files
  <2>2. QED
    BY <2>1 DEF StandingOf, Docs
<1>4. Registry!Next \/ after = before
  BY <1>1, RegistryStep
<1> HIDE DEF before, after
<1>5. /\ before[r] # "unused" => after[r] # "unused"
      /\ before[r] = "archived" => after[r] = "archived"
  <2>1. CASE after = before
    BY <2>1
  <2>2. CASE Registry!Next
    <3>1. PICK s \in Run :
            \/ before[s] = "unused" /\ after = [before EXCEPT ![s] = "opening"]
            \/ before[s] = "opening" /\ after = [before EXCEPT ![s] = "active"]
            \/ before[s] = "active" /\ after = [before EXCEPT ![s] = "archived"]
      BY <1>1, <2>2 DEF Registry!Next, Registry!Open, Registry!Activate, Registry!Archive, before
    <3>2. QED
      BY <1>2, <3>1
  <2>3. QED
    BY <1>4, <2>1, <2>2
<1>6. QED
  BY <1>3, <1>5

\* An archived run that does not stand last has a later one.
LEMMA NotLastHasLater ==
    ASSUME NEW d, NEW r \in Run, Archived(d[r]), <<"archived", r>> \notin Latest(d)
    PROVE  \E s \in Listed(d) : s > r
<1>1. Terminal(d[r]) /\ r \in Listed(d)
  BY DEF Archived, Shape, Terminal, Listed
<1>2. r \notin NewestOf(Listed(d))
  BY <1>1 DEF Latest
<1>3. PICK s \in Listed(d) : ~(s <= r)
  BY <1>1, <1>2 DEF NewestOf
<1>4. s \in Run
  BY DEF Listed
<1>5. QED
  BY <1>3, <1>4, RunLimits DEF Run

\* A run whose archive is completed by this step stands last after it.
LEMMA CompletedIsLast ==
    ASSUME IInv, [Next]_vars, NEW r \in Run, Archived(files'[r]), ~Archived(files[r])
    PROVE  <<"archived", r>> \in Latest(files')
<1>1. PICK p \in Process : Begin(p) \/ Advance(p) \/ Die(p)
  BY DEF Next, vars, disk
<1>2. Writes(p)
  <2>1. files' # files
    OBVIOUS
  <2>2. CASE Begin(p) \/ Load(p)
    BY <2>1, <2>2, LoaderSteps
  <2>3. CASE \/ AcquireLock(p) \/ ScanBeforeCreate(p) \/ Reload(p) \/ ScanBeforeArchive(p)
             \/ Release(p) \/ Die(p)
    BY <2>1, <2>3 DEF AcquireLock, ScanBeforeCreate, Reload, ScanBeforeArchive, Release, Die, disk
  <2>4. QED
    BY <1>1, <2>2, <2>3, Kinds
<1>3. PICK from \in Working, to \in Held, new \in Files : Write(p, from, to, new)
  BY <1>2 DEF Writes
<1>4. /\ mine[p] \in Run /\ Alone(mine[p])
      /\ \A s \in Run \ {mine[p]} : files'[s] = files[s]
  BY <1>3 DEF Write, IInv, StoreType, StepInv
<1>5. mine[p] = r
  BY <1>4
<1>6. \A s \in Listed(files') : s <= r
  <2>1. ASSUME NEW s \in Run, s # r, files'[s].doc # "absent" PROVE s < r
    BY <1>4, <1>5, <2>1 DEF Alone
  <2>2. QED
    BY <2>1, RunLimits DEF Listed, Run
<1>7. Terminal(files'[r]) /\ files'[r].doc # "absent"
  BY DEF Archived, Shape, Terminal
<1>8. QED
  BY <1>6, <1>7 DEF Latest, NewestOf, Listed

-----------------------------------------------------------------------------
\* The archived runs that did not stand last since p's command began.
Old(p) == {r \in Run : Archived(files[r]) /\ <<"archived", r>> \notin seen[p]}

\* What the loaders of p know of a run s: it is there for loadActiveRun to find, which takes
\* every run for archived or does not go on; inspectArchiveUncertainty finds its archive
\* complete or does not go on; loadArchivedRun finds it.
Known(p, s) ==
    LET v == view[p] IN
    /\ files[s].doc # "absent"
    /\ loader[p] # "loadActiveRun" => files[s].doc = "archived"
    /\ loader[p] = "loadArchivedRun" => Archived(files[s])
    /\ pc[p] = "documents" =>
          \/ s \in v.todo
          \/ /\ v.got[s].doc # "absent"
             /\ v.got[s].doc = "archived" => files[s].doc = "archived"
             /\ loader[p] # "loadActiveRun" => v.got[s].doc = "archived"
    /\ pc[p] = "journals" /\ loader[p] # "loadActiveRun" =>
          \/ s \in v.todo /\ v.got[s].doc = "archived"
          \/ s \in v.hits
          \/ loader[p] = "inspectArchiveUncertainty" /\ Archived(files[s])

Knows(p) == \A r \in Old(p) : \E s \in Run : s > r /\ Known(p, s)

StatusInv ==
    \A p \in Process :
        /\ pc[p] = "idle" => command[p] = "none" /\ ~missing[p]
        /\ command[p] = "status" =>
              /\ pc[p] \in Loading
              /\ missing[p] => loader[p] # "loadActiveRun"
              /\ Latest(files) \subseteq seen[p]
              /\ ~missing[p] => Knows(p)

\* What a command can tell of a step of another one.
LEMMA OthersKeep ==
    ASSUME IInv, ReadInv, NEW p \in Process, Begin(p) \/ Advance(p) \/ Die(p),
           NEW q \in Process, q # p
    PROVE  /\ pc'[q] = pc[q] /\ command'[q] = command[q] /\ loader'[q] = loader[q]
           /\ view'[q] = view[q] /\ missing'[q] = missing[q]
           /\ \/ seen'[q] = seen[q] /\ files' = files
              \/ seen'[q] = IF pc[q] \in Loading THEN seen[q] \union Latest(files') ELSE seen[q]
<1> DEFINE Same == /\ pc'[q] = pc[q] /\ command'[q] = command[q] /\ loader'[q] = loader[q]
                   /\ view'[q] = view[q] /\ missing'[q] = missing[q]
           Kept == Same /\ seen'[q] = seen[q]
<1>0. /\ pc \in [Process -> Step] /\ command \in [Process -> Command]
      /\ loader \in [Process -> Loader] /\ view \in [Process -> View]
      /\ missing \in [Process -> BOOLEAN] /\ seen \in [Process -> SUBSET Reports]
  BY DEF IInv, StoreType, ReadInv, ReadType
<1>1. ASSUME NEW what, Finish(p, what) PROVE Kept
  BY <1>0, <1>1 DEF Finish, Goto
<1>2. ASSUME NEW l, Enter(p, l), Silent(p), \A r \in Process \ {p} : missing'[r] = missing[r]
      PROVE  Kept
  BY <1>0, <1>2 DEF Enter, Silent, Goto
<1>3. ASSUME NEW gone, StateUnknown(p, gone) PROVE Kept
  <2>1. CASE loader[p] # "loadActiveRun"
    BY <1>1, <1>3, <2>1 DEF StateUnknown
  <2>2. CASE loader[p] = "loadActiveRun"
    <3>1. PICK l : Enter(p, l)
      BY <1>3, <2>2 DEF StateUnknown
    <3>2. Silent(p) /\ \A r \in Process \ {p} : missing'[r] = missing[r]
      BY <1>0, <1>3, <2>2 DEF StateUnknown
    <3>3. QED
      BY <1>2, <3>1, <3>2
  <2>3. QED
    BY <2>1, <2>2
<1>4. ASSUME \A r \in Process \ {p} : view'[r] = view[r], Silent(p),
             UNCHANGED <<loader, missing>>, pc' = pc \/ \E step : Goto(p, step)
      PROVE  Kept
  BY <1>0, <1>4 DEF Silent, Goto
<1> HIDE DEF Kept, Same
<1>5. CASE Begin(p)
  <2>1. seen'[q] = seen[q] /\ command'[q] = command[q] /\ missing'[q] = missing[q]
    BY <1>0, <1>5 DEF Begin
  <2>2. pc'[q] = pc[q] /\ loader'[q] = loader[q] /\ view'[q] = view[q]
    BY <1>0, <1>5 DEF Begin, Enter, Goto
  <2>3. QED
    BY <1>5, <2>1, <2>2 DEF Begin, disk
<1>6. ASSUME Kept, files' = files
      PROVE  Same /\ seen'[q] = seen[q] /\ files' = files
  BY <1>6 DEF Kept
<1>7. CASE Load(p)
  <2>1. files' = files
    BY <1>7, LoaderSteps
  <2>2. CASE ScanActivePointers(p)
    <3>1. \/ view' = [view EXCEPT ![p].ptrs = Pointed(files)] /\ Goto(p, "runs")
             /\ Silent(p) /\ UNCHANGED <<loader, missing>>
          \/ StateUnknown(p, TRUE)
      BY <2>2 DEF ScanActivePointers
    <3>2. QED
      BY <1>0, <1>3, <1>4, <1>6, <2>1, <3>1 DEF Same
  <2>3. CASE ListRuns(p)
    BY <1>0, <1>4, <1>6, <2>1, <2>3 DEF ListRuns, Same
  <2>4. CASE ScanRunState(p)
    <3>1. PICK r \in view[p].todo :
            \/ /\ view' = [view EXCEPT
                    ![p].todo = @ \ {r},
                    ![p].got[r] = [doc |-> files[r].doc, head |-> files[r].head,
                                   activation |-> files[r].activation]]
               /\ Silent(p) /\ UNCHANGED <<pc, loader, missing>>
            \/ StateUnknown(p, TRUE)
            \/ Finish(p, Nothing)
      BY <2>4 DEF ScanRunState
    <3>2. QED
      BY <1>0, <1>1, <1>3, <1>4, <1>6, <2>1, <3>1 DEF Same
  <2>5. CASE Judge(p)
    <3>1. \/ \E runs :
               /\ view' = [view EXCEPT ![p].todo = runs] /\ Goto(p, "journals")
               /\ Silent(p) /\ UNCHANGED <<loader, missing>>
          \/ StateUnknown(p, FALSE)
          \/ Finish(p, Nothing)
      <4>1. CASE loader[p] = "inspectArchiveUncertainty"
        BY <2>5, <4>1 DEF Judge
      <4>2. CASE loader[p] = "loadArchivedRun"
        BY <2>5, <4>2 DEF Judge
      <4>3. CASE loader[p] \notin {"inspectArchiveUncertainty", "loadArchivedRun"}
        BY <2>5, <4>3 DEF Judge
      <4>4. QED
        BY <4>1, <4>2, <4>3
    <3>2. QED
      BY <1>0, <1>1, <1>3, <1>4, <1>6, <2>1, <3>1 DEF Same
  <2>6. CASE ScanActiveJournal(p)
    <3>1. \/ \E what : Finish(p, what)
          \/ StateUnknown(p, TRUE)
          \/ /\ Goto(p, "lock")
             /\ view' = [view EXCEPT ![p] = NothingRead]
             /\ seen' = [seen EXCEPT ![p] = {}]
             /\ UNCHANGED <<command, mine, loader, missing>>
      BY <2>6 DEF ScanActiveJournal
    <3>2. CASE /\ Goto(p, "lock")
               /\ view' = [view EXCEPT ![p] = NothingRead]
               /\ seen' = [seen EXCEPT ![p] = {}]
               /\ UNCHANGED <<command, mine, loader, missing>>
      BY <1>0, <1>6, <2>1, <3>2 DEF Goto, Kept, Same
    <3>3. QED
      BY <1>1, <1>3, <1>6, <2>1, <3>1, <3>2 DEF Same
  <2>7. CASE ScanArchiveJournal(p)
    <3>1. \/ \E r, hits :
               /\ view' = [view EXCEPT ![p].todo = @ \ {r}, ![p].hits = hits]
               /\ Silent(p) /\ UNCHANGED <<pc, loader, missing>>
          \/ Finish(p, Nothing)
      BY <2>7 DEF ScanArchiveJournal
    <3>2. QED
      BY <1>0, <1>1, <1>4, <1>6, <2>1, <3>1 DEF Same
  <2>8. CASE EndPass(p)
    <3>1. \/ \E l : Enter(p, l) /\ Silent(p) /\ UNCHANGED missing
          \/ \E what : Finish(p, what)
      BY <2>8 DEF EndPass
    <3>2. QED
      BY <1>1, <1>2, <1>6, <2>1, <3>1 DEF Same
  <2>9. QED
    BY <1>7, <2>2, <2>3, <2>4, <2>5, <2>6, <2>7, <2>8 DEF Load, Same
<1>8. CASE Writes(p)
  <2>1. PICK from \in Working, to \in Held, new \in Files : Write(p, from, to, new)
    BY <1>8 DEF Writes
  <2>2. pc'[q] = pc[q]
    BY <1>0, <2>1 DEF Write, Goto
  <2>3. QED
    BY <1>0, <2>1, <2>2 DEF Write, reading
<1>9. CASE AcquireLock(p) \/ Release(p)
  <2>1. files' = files
    BY <1>9 DEF AcquireLock, Release, disk
  <2>2. \/ \E what : Finish(p, what)
        \/ Silent(p) /\ UNCHANGED reading /\ \E step : Goto(p, step)
    BY <1>9 DEF AcquireLock, Release
  <2>3. QED
    BY <1>1, <1>4, <1>6, <2>1, <2>2 DEF reading, Same
<1>10. CASE ScanBeforeArchive(p) \/ Die(p)
  <2>1. files' = files /\ Silent(p) /\ UNCHANGED reading /\ \E step : Goto(p, step)
    BY <1>10 DEF ScanBeforeArchive, Die, disk
  <2>2. QED
    BY <1>4, <1>6, <2>1 DEF reading, Same
<1>11. CASE ScanBeforeCreate(p) \/ Reload(p)
  <2>1. files' = files /\ UNCHANGED <<command, reading, seen>> /\ \E step : Goto(p, step)
    BY <1>11 DEF ScanBeforeCreate, Reload, disk
  <2>2. QED
    BY <1>0, <2>1 DEF reading, Goto
<1>12. QED
  BY <1>5, <1>7, <1>8, <1>9, <1>10, <1>11, Kinds

\* No archived run becomes old while a command loads: one that is completed stands last.
LEMMA OldShrinks ==
    ASSUME IInv, [Next]_vars, NEW q \in Process,
           seen[q] \subseteq seen'[q], Latest(files') \subseteq seen'[q]
    PROVE  Old(q)' \subseteq Old(q)
<1>1. ASSUME NEW r \in Old(q)' PROVE r \in Old(q)
  <2>1. r \in Run /\ Archived(files'[r]) /\ <<"archived", r>> \notin seen'[q]
    BY <1>1 DEF Old
  <2>2. Archived(files[r])
    BY <2>1, CompletedIsLast
  <2>3. QED
    BY <2>1, <2>2 DEF Old
<1>2. QED
  BY <1>1

\* What a loader knows of a run no other command's step makes false.
LEMMA KnownStays ==
    ASSUME IInv, [Next]_vars, NEW q \in Process, NEW s \in Run, Known(q, s),
           pc'[q] = pc[q], loader'[q] = loader[q], view'[q] = view[q]
    PROVE  Known(q, s)'
<1>1. /\ files'[s].doc # "absent"
      /\ files[s].doc = "archived" => files'[s].doc = "archived"
      /\ Archived(files[s]) => Archived(files'[s])
  BY FilesGrow, ArchivedStays DEF Known
<1>2. QED
  BY <1>1 DEF Known

\* A run whose document is archived and whose journal shows no uncertainty is archived.
LEMMA CertainIsArchived ==
    ASSUME NEW f, Legal(f), f.doc = "archived", NEW pointed \in BOOLEAN
    PROVE  /\ f.entry # "none"
           /\ ArchiveComplete(f, "archived", pointed) => Archived(f)
           /\ Archived(f) => Terminal(f)
BY DEF Legal, Shape, Absent, Made, Started, Guarded, Pointing, Activated, Opened, Recorded,
   Named, Committed, Closed, Unpointed, Observed, Settled, Archived, ArchiveComplete, Terminal

\* Each step of a status that goes on loading keeps what it knows.
LEMMA LoadKnows ==
    ASSUME IInv, ReadInv, NEW p \in Process, Load(p),
           command[p] = "status", command'[p] = "status",
           missing[p] => loader[p] # "loadActiveRun",
           NEW s \in Run, ~missing[p] => Known(p, s)
    PROVE  /\ pc'[p] \in Loading /\ seen' = seen
           /\ missing'[p] => loader'[p] # "loadActiveRun"
           /\ ~missing'[p] => Known(p, s)'
<1> DEFINE Goal == /\ pc'[p] \in Loading /\ seen' = seen
                   /\ missing'[p] => loader'[p] # "loadActiveRun"
                   /\ ~missing'[p] => Known(p, s)'
<1> SUFFICES Goal
  OBVIOUS
<1>0. /\ pc \in [Process -> Step] /\ command \in [Process -> Command]
      /\ loader \in [Process -> Loader] /\ view \in [Process -> View]
      /\ missing \in [Process -> BOOLEAN] /\ view[p] \in View
      /\ files' = files /\ Legal(files[s])
  BY LoaderSteps DEF IInv, StoreType, ReadInv, ReadType
<1> HIDE DEF Goal
<1>1. ASSUME NEW what, Finish(p, what) PROVE FALSE
  BY <1>0, <1>1 DEF Finish
<1>2. ASSUME StateUnknown(p, TRUE) PROVE Goal
  <2>1. loader[p] = "loadActiveRun"
    BY <1>1, <1>2 DEF StateUnknown
  <2>2. missing'[p] = TRUE
    BY <1>0, <1>2, <2>1 DEF StateUnknown
  <2>3. pc'[p] = "pointers" /\ seen' = seen /\ loader'[p] # "loadActiveRun"
    BY <1>0, <1>2, <2>1 DEF StateUnknown, Enter, Goto, Silent
  <2>4. QED
    BY <2>2, <2>3 DEF Goal, Loading
<1>3. CASE ScanActivePointers(p)
  <2>1. CASE StateUnknown(p, TRUE)
    BY <1>2, <2>1
  <2>2. CASE ~StateUnknown(p, TRUE)
    <3>1. pc'[p] = "runs" /\ loader' = loader /\ missing' = missing /\ seen' = seen
      BY <1>0, <1>3, <2>2 DEF ScanActivePointers, Goto, Silent
    <3>2. QED
      BY <1>0, <3>1 DEF Goal, Loading, Known
  <2>3. QED
    BY <2>1, <2>2
<1>4. CASE ListRuns(p)
  <2>1. /\ pc'[p] = "documents" /\ loader' = loader /\ missing' = missing /\ seen' = seen
        /\ view'[p].todo = Listed(files)
    BY <1>0, <1>4 DEF ListRuns, Goto, Silent, View
  <2>2. QED
    BY <1>0, <2>1 DEF Goal, Loading, Known, Listed
<1>5. CASE ScanRunState(p)
  <2>1. PICK r \in view[p].todo :
          \/ /\ view' = [view EXCEPT
                  ![p].todo = @ \ {r},
                  ![p].got[r] = [doc |-> files[r].doc, head |-> files[r].head,
                                 activation |-> files[r].activation]]
             /\ Silent(p) /\ UNCHANGED <<pc, loader, missing>>
          \/ StateUnknown(p, TRUE)
          \/ Finish(p, Nothing)
    BY <1>5 DEF ScanRunState
  <2>2. CASE /\ view' = [view EXCEPT
                  ![p].todo = @ \ {r},
                  ![p].got[r] = [doc |-> files[r].doc, head |-> files[r].head,
                                 activation |-> files[r].activation]]
             /\ Silent(p) /\ UNCHANGED <<pc, loader, missing>>
    <3>1. r \in Run
      BY <1>0 DEF View
    <3>2. /\ view'[p].todo = view[p].todo \ {r}
          /\ view'[p].got[s].doc = IF s = r THEN files[r].doc ELSE view[p].got[s].doc
      BY <1>0, <2>2, <3>1 DEF View
    <3>3. pc[p] = "documents" /\ seen' = seen
      BY <1>5, <2>2 DEF ScanRunState, Silent
    <3>4. CASE missing[p]
      BY <2>2, <3>3, <3>4 DEF Goal, Loading
    <3>5. CASE ~missing[p]
      <4>1. Known(p, s)
        BY <3>5
      <4>2. Known(p, s)'
        <5>1. CASE s = r
          BY <1>0, <2>2, <3>2, <3>3, <4>1, <5>1 DEF Known
        <5>2. CASE s # r
          BY <1>0, <2>2, <3>2, <3>3, <4>1, <5>2 DEF Known
        <5>3. QED
          BY <5>1, <5>2
      <4>3. QED
        BY <2>2, <3>3, <4>2 DEF Goal, Loading
    <3>6. QED
      BY <3>4, <3>5
  <2>3. QED
    BY <1>1, <1>2, <2>1, <2>2
<1>6. CASE Judge(p)
  <2> DEFINE ToJournals(runs) ==
               /\ view' = [view EXCEPT ![p].todo = runs]
               /\ Goto(p, "journals") /\ Silent(p) /\ UNCHANGED <<loader, missing>>
  <2>0. pc[p] = "documents" /\ view[p].todo = {}
    BY <1>6 DEF Judge
  <2>1. ASSUME NEW runs, ToJournals(runs)
        PROVE  /\ pc'[p] = "journals" /\ loader' = loader /\ missing' = missing /\ seen' = seen
               /\ view'[p].todo = runs /\ view'[p].got = view[p].got
    BY <1>0, <2>1 DEF Goto, Silent, View
  <2> HIDE DEF ToJournals
  <2>2. CASE loader[p] # "loadActiveRun" /\ ToJournals(Listed(view[p].got))
    <3>1. ~missing[p] => s \in Listed(view[p].got) /\ view[p].got[s].doc = "archived"
      BY <2>0, <2>2 DEF Known, Listed
    <3>2. QED
      BY <1>0, <2>1, <2>2, <3>1 DEF Goal, Loading, Known
  <2>3. ASSUME loader[p] = "loadActiveRun", NEW runs, ToJournals(runs) PROVE Goal
    BY <1>0, <2>1, <2>3 DEF Goal, Loading, Known
  <2>4. CASE /\ loader[p] = "loadActiveRun" /\ NoActiveRun(view[p].ptrs, view[p].got)
             /\ StateUnknown(p, FALSE)
    <3>1. ~missing[p] => files[s].doc = "archived"
      <4>1. ~missing[p] => view[p].got[s].doc # "absent"
        BY <2>0 DEF Known
      <4>2. view[p].got[s].doc # "absent" => view[p].got[s].doc = "archived"
        BY <2>4 DEF NoActiveRun, NonArchived, Listed
      <4>3. QED
        BY <2>0, <4>1, <4>2 DEF Known
    <3>2. /\ pc'[p] = "pointers" /\ loader'[p] = "inspectArchiveUncertainty"
          /\ seen' = seen
      BY <1>0, <2>4 DEF StateUnknown, Enter, Goto, Silent
    <3>3. ~missing[p]
      BY <2>4
    <3>4. QED
      BY <1>0, <3>1, <3>2, <3>3 DEF Goal, Loading, Known
  <2>5. CASE loader[p] = "inspectArchiveUncertainty"
    <3>1. ToJournals(Listed(view[p].got))
      BY <1>6, <2>5 DEF Judge, ToJournals
    <3>2. QED
      BY <2>2, <2>5, <3>1
  <2>6. CASE loader[p] = "loadArchivedRun"
    <3>1. ToJournals(Listed(view[p].got)) \/ Finish(p, Nothing)
      BY <1>6, <2>6 DEF Judge, ToJournals
    <3>2. QED
      BY <1>1, <2>2, <2>6, <3>1
  <2>7. CASE loader[p] = "loadActiveRun"
    <3>1. \/ \E runs : ToJournals(runs)
          \/ NoActiveRun(view[p].ptrs, view[p].got) /\ StateUnknown(p, FALSE)
          \/ Finish(p, Nothing)
      BY <1>6, <2>7 DEF Judge, ToJournals
    <3>2. QED
      BY <1>1, <2>3, <2>4, <2>7, <3>1
  <2>8. QED
    BY <1>0, <2>5, <2>6, <2>7 DEF Loader
<1>7. CASE ScanActiveJournal(p)
  BY <1>1, <1>2, <1>7 DEF ScanActiveJournal
<1>8. CASE ScanArchiveJournal(p)
  <2>1. PICK r \in view[p].todo, hit \in BOOLEAN :
          /\ view' = [view EXCEPT ![p].todo = @ \ {r},
                                  ![p].hits = IF hit THEN @ \union {r} ELSE @]
          /\ Silent(p) /\ UNCHANGED <<pc, loader, missing>>
          /\ \/ /\ loader[p] = "inspectArchiveUncertainty"
                /\ \/ hit \/ files[r].entry = "none"
                   \/ ArchiveComplete(files[r], view[p].got[r].doc, r \in view[p].ptrs)
             \/ loader[p] = "loadArchivedRun" /\ (hit \/ ~Terminal(files[r]))
    <3>1. ~Finish(p, Nothing)
      BY <1>1
    <3>2. PICK r \in view[p].todo :
          \/ /\ loader[p] = "inspectArchiveUncertainty"
             /\ view' = [view EXCEPT ![p].todo = @ \ {r},
                  ![p].hits =
                    IF /\ files[r].entry # "none"
                       /\ ~ArchiveComplete(files[r], view[p].got[r].doc, r \in view[p].ptrs)
                    THEN @ \union {r} ELSE @]
             /\ Silent(p) /\ UNCHANGED <<pc, loader, missing>>
          \/ /\ loader[p] = "loadArchivedRun"
             /\ view' = [view EXCEPT ![p].todo = @ \ {r},
                  ![p].hits = IF Terminal(files[r]) THEN @ \union {r} ELSE @]
             /\ Silent(p) /\ UNCHANGED <<pc, loader, missing>>
      BY <1>8, <3>1 DEF ScanArchiveJournal
    <3>3. CASE loader[p] = "inspectArchiveUncertainty"
      BY <3>2, <3>3 DEF ArchiveComplete
    <3>4. CASE loader[p] = "loadArchivedRun"
      BY <3>2, <3>4 DEF Terminal
    <3>5. QED
      BY <3>2, <3>3, <3>4
  <2>2. /\ view'[p].todo = view[p].todo \ {r} /\ view'[p].got = view[p].got
        /\ view'[p].hits = IF hit THEN view[p].hits \union {r} ELSE view[p].hits
    BY <1>0, <2>1 DEF View
  <2>3. pc[p] = "journals" /\ loader[p] # "loadActiveRun" /\ seen' = seen
    BY <1>8, <2>1 DEF ScanArchiveJournal, Silent
  <2>4. CASE missing[p]
    BY <2>1, <2>3, <2>4 DEF Goal, Loading
  <2>5. CASE ~missing[p]
    <3>1. Known(p, s) /\ files[s].doc = "archived"
      BY <2>3, <2>5 DEF Known
    <3>2. CASE s = r
      <4>1. loader[p] = "loadArchivedRun" => hit
        BY <1>0, <2>1, <3>1, <3>2, CertainIsArchived DEF Known
      <4>2. CASE s \in view[p].todo /\ view[p].got[s].doc = "archived"
        <5>1. loader[p] = "inspectArchiveUncertainty" => hit \/ Archived(files[s])
          <6>1. (s \in view[p].ptrs) \in BOOLEAN
            OBVIOUS
          <6>2. files[s].entry # "none"
                /\ (ArchiveComplete(files[s], "archived", s \in view[p].ptrs)
                      => Archived(files[s]))
            BY <1>0, <3>1, <6>1, CertainIsArchived
          <6>3. QED
            BY <2>1, <3>2, <4>2, <6>2
        <5>2. Known(p, s)'
          <6>1. hit => s \in view'[p].hits
            BY <2>2, <3>2
          <6>2. QED
            BY <1>0, <2>1, <2>3, <3>1, <4>1, <5>1, <6>1 DEF Known
        <5>3. QED
          BY <2>1, <2>3, <5>2 DEF Goal, Loading
      <4>3. CASE s \in view[p].hits
                 \/ (loader[p] = "inspectArchiveUncertainty" /\ Archived(files[s]))
        <5>1. Known(p, s)'
          BY <1>0, <2>1, <2>2, <2>3, <3>1, <4>3 DEF Known
        <5>2. QED
          BY <2>1, <2>3, <5>1 DEF Goal, Loading
      <4>4. QED
        BY <2>3, <3>1, <4>2, <4>3 DEF Known
    <3>3. CASE s # r
      <4>1. Known(p, s)'
        BY <1>0, <2>1, <2>2, <2>3, <3>1, <3>3 DEF Known
      <4>2. QED
        BY <2>1, <2>3, <4>1 DEF Goal, Loading
    <3>4. QED
      BY <3>2, <3>3
  <2>6. QED
    BY <2>4, <2>5
<1>9. CASE EndPass(p)
  <2>1. /\ loader[p] = "inspectArchiveUncertainty" /\ view[p].hits = {}
        /\ Enter(p, "loadArchivedRun") /\ Silent(p) /\ missing' = missing
    BY <1>1, <1>9 DEF EndPass
  <2>2. pc[p] = "journals" /\ view[p].todo = {}
    BY <1>9 DEF EndPass
  <2>3. ~missing[p] => files[s].doc = "archived" /\ Archived(files[s])
    BY <2>1, <2>2 DEF Known
  <2>4. pc'[p] = "pointers" /\ loader'[p] = "loadArchivedRun" /\ seen' = seen
    BY <1>0, <2>1 DEF Enter, Goto, Silent
  <2>5. QED
    BY <1>0, <2>1, <2>3, <2>4 DEF Goal, Loading, Known
<1>10. QED
  BY <1>3, <1>4, <1>5, <1>6, <1>7, <1>8, <1>9 DEF Load

\* A command that becomes idle has finished, and a status only loads.
LEMMA OwnStep ==
    ASSUME IInv, ReadInv, StatusInv, NEW p \in Process, Begin(p) \/ Advance(p) \/ Die(p)
    PROVE  /\ pc'[p] = "idle" => \E what : Finish(p, what)
           /\ command'[p] = "status" => Begin(p) \/ (Load(p) /\ command[p] = "status")
<1>0. /\ pc \in [Process -> Step] /\ command \in [Process -> Command]
      /\ Loading \intersect Held = {} /\ "idle" \notin Held
      /\ command[p] = "status" => pc[p] \in Loading
  BY Steps DEF IInv, StoreType, ReadInv, ReadType, StatusInv
<1> DEFINE Ends == \E what : Finish(p, what)
<1>1. ASSUME Ends PROVE pc'[p] = "idle" /\ command'[p] = "none"
  BY <1>0, <1>1 DEF Finish, Goto
<1>2. CASE Begin(p)
  BY <1>0, <1>2 DEF Begin, Goto, Enter
<1>3. CASE Load(p)
  <2>1. ASSUME ~Ends
        PROVE  (UNCHANGED pc \/ \E step \in Loading \union {"lock"} : Goto(p, step))
               /\ command' = command
    <3>0. {"pointers", "runs", "documents", "journals"} = Loading
      BY DEF Loading
    <3>1. \A what : ~Finish(p, what)
      BY <2>1
    <3>2. ASSUME NEW gone, StateUnknown(p, gone) PROVE Goto(p, "pointers") /\ command' = command
      BY <3>1, <3>2 DEF StateUnknown, Enter, Silent
    <3>3. CASE ScanActivePointers(p) \/ ListRuns(p)
      BY <3>0, <3>2, <3>3 DEF ScanActivePointers, ListRuns, Silent
    <3>4. CASE ScanRunState(p)
      BY <3>0, <3>1, <3>2, <3>4 DEF ScanRunState, Silent
    <3>5. CASE Judge(p)
      <4>1. CASE loader[p] = "inspectArchiveUncertainty"
        BY <3>0, <3>5, <4>1 DEF Judge, Silent
      <4>2. CASE loader[p] = "loadArchivedRun"
        BY <3>0, <3>1, <3>5, <4>2 DEF Judge, Silent
      <4>3. CASE loader[p] \notin {"inspectArchiveUncertainty", "loadArchivedRun"}
        BY <3>0, <3>1, <3>2, <3>5, <4>3 DEF Judge, Silent
      <4>4. QED
        BY <4>1, <4>2, <4>3
    <3>6. CASE ScanActiveJournal(p)
      BY <3>0, <3>1, <3>2, <3>6 DEF ScanActiveJournal
    <3>7. CASE ScanArchiveJournal(p)
      BY <3>1, <3>7 DEF ScanArchiveJournal, Silent
    <3>8. CASE EndPass(p)
      BY <3>0, <3>1, <3>8 DEF EndPass, Enter, Silent
    <3>9. QED
      BY <1>3, <3>3, <3>4, <3>5, <3>6, <3>7, <3>8 DEF Load
  <2>2. pc[p] \in Loading
    BY <1>3 DEF Load, ScanActivePointers, ListRuns, ScanRunState, Judge, ScanActiveJournal,
       ScanArchiveJournal, EndPass, Loading
  <2>3. "idle" \notin Loading \union {"lock"}
    BY DEF Loading
  <2>4. ~Ends => pc'[p] # "idle"
    BY <1>0, <2>1, <2>2, <2>3 DEF Goto
  <2>5. QED
    BY <1>1, <1>3, <2>1, <2>4
<1>4. ASSUME pc'[p] # "idle", pc[p] \in Held \union {"lock"}, command' = command
      PROVE  /\ pc'[p] = "idle" => Ends
             /\ command'[p] = "status" => Begin(p) \/ (Load(p) /\ command[p] = "status")
  BY <1>0, <1>4 DEF Loading
<1>5. CASE Writes(p)
  <2>1. PICK from \in Working, to \in Held : pc[p] = from /\ Goto(p, to) /\ command' = command
    <3>1. PICK from \in Working, to \in Held, new \in Files : Write(p, from, to, new)
      BY <1>5 DEF Writes
    <3>2. "release" \in Held
      BY DEF Held
    <3>3. QED
      BY <3>1, <3>2 DEF Write
  <2>2. QED
    BY <1>0, <1>4, <2>1 DEF Goto, Held
<1>6. CASE AcquireLock(p) \/ Release(p)
  <2>1. CASE Ends
    BY <1>1, <2>1
  <2>2. CASE ~Ends
    BY <1>0, <1>4, <1>6, <2>2 DEF AcquireLock, Release, Goto, Silent
  <2>3. QED
    BY <2>1, <2>2
<1>7. CASE ScanBeforeCreate(p) \/ Reload(p) \/ ScanBeforeArchive(p)
  BY <1>0, <1>4, <1>7 DEF ScanBeforeCreate, Reload, ScanBeforeArchive, Goto, Silent, Held, Working,
     Archiving
<1>8. CASE Die(p)
  <2>1. pc[p] \in Held
    BY <1>8 DEF Die, IInv, LockInv
  <2>2. QED
    BY <1>0, <1>4, <1>8, <2>1 DEF Die, Goto, Silent
<1>9. QED
  BY <1>2, <1>3, <1>5, <1>6, <1>7, <1>8, Kinds

\* A status that goes on loading stays with the loaders, and never goes back to the first.
LEMMA LoadStays ==
    ASSUME IInv, ReadInv, NEW p \in Process, Load(p),
           command[p] = "status", command'[p] = "status",
           missing[p] => loader[p] # "loadActiveRun"
    PROVE  /\ pc'[p] \in Loading /\ seen' = seen
           /\ missing'[p] => loader'[p] # "loadActiveRun"
           /\ missing[p] => missing'[p]
<1> DEFINE Goal == /\ pc'[p] \in Loading /\ seen' = seen
                   /\ missing'[p] => loader'[p] # "loadActiveRun"
                   /\ missing[p] => missing'[p]
<1> SUFFICES Goal
  OBVIOUS
<1>0. /\ pc \in [Process -> Step] /\ command \in [Process -> Command]
      /\ loader \in [Process -> Loader] /\ missing \in [Process -> BOOLEAN]
      /\ {"pointers", "runs", "documents", "journals"} = Loading
  BY DEF IInv, StoreType, ReadInv, ReadType, Loading
<1> HIDE DEF Goal
<1>1. ASSUME NEW what, Finish(p, what) PROVE FALSE
  BY <1>0, <1>1 DEF Finish
<1>2. ASSUME NEW gone \in BOOLEAN, StateUnknown(p, gone) PROVE Goal
  <2>1. loader[p] = "loadActiveRun" /\ ~missing[p]
    BY <1>1, <1>2 DEF StateUnknown
  <2>2. loader'[p] # "loadActiveRun" /\ pc'[p] = "pointers" /\ seen' = seen
    BY <1>0, <1>2, <2>1 DEF StateUnknown, Enter, Goto, Silent
  <2>3. QED
    BY <1>0, <2>1, <2>2 DEF Goal
<1>3. ASSUME Silent(p), UNCHANGED <<loader, missing>>, pc'[p] \in Loading PROVE Goal
  BY <1>3 DEF Goal, Silent
<1>4. CASE ScanActivePointers(p) \/ ListRuns(p)
  BY <1>0, <1>2, <1>3, <1>4 DEF ScanActivePointers, ListRuns, Goto
<1>5. CASE ScanRunState(p)
  BY <1>0, <1>1, <1>2, <1>3, <1>5 DEF ScanRunState
<1>6. CASE Judge(p)
  <2>1. CASE loader[p] = "inspectArchiveUncertainty"
    BY <1>0, <1>3, <1>6, <2>1 DEF Judge, Goto
  <2>2. CASE loader[p] = "loadArchivedRun"
    BY <1>0, <1>1, <1>3, <1>6, <2>2 DEF Judge, Goto
  <2>3. CASE loader[p] \notin {"inspectArchiveUncertainty", "loadArchivedRun"}
    BY <1>0, <1>1, <1>2, <1>3, <1>6, <2>3 DEF Judge, Goto
  <2>4. QED
    BY <2>1, <2>2, <2>3
<1>7. CASE ScanActiveJournal(p)
  BY <1>1, <1>2, <1>7 DEF ScanActiveJournal
<1>8. CASE ScanArchiveJournal(p)
  BY <1>0, <1>1, <1>3, <1>8 DEF ScanArchiveJournal
<1>9. CASE EndPass(p)
  <2>1. Enter(p, "loadArchivedRun") /\ Silent(p) /\ missing' = missing
    BY <1>1, <1>9 DEF EndPass
  <2>2. QED
    BY <1>0, <2>1 DEF Goal, Enter, Goto, Silent
<1>10. QED
  BY <1>4, <1>5, <1>6, <1>7, <1>8, <1>9 DEF Load

\* Whatever command takes a step, every status keeps what it knows.
LEMMA StatusStep ==
    ASSUME IInv, ReadInv, StatusInv, [Next]_vars PROVE StatusInv'
<1>0. /\ pc \in [Process -> Step] /\ command \in [Process -> Command]
      /\ loader \in [Process -> Loader] /\ view \in [Process -> View]
      /\ missing \in [Process -> BOOLEAN] /\ seen \in [Process -> SUBSET Reports]
  BY DEF IInv, StoreType, ReadInv, ReadType
<1>1. CASE UNCHANGED vars
  BY <1>1 DEF vars, disk, StatusInv, Knows, Known, Old, Latest, Serving, Selected, Pointed,
     ActivationPending, NonArchived, Listed, Whole, JournalServes, NewestOf
<1>2. ASSUME NEW p \in Process, Begin(p) \/ Advance(p) \/ Die(p), NEW q \in Process
      PROVE  /\ pc'[q] = "idle" => command'[q] = "none" /\ ~missing'[q]
             /\ command'[q] = "status" =>
                   /\ pc'[q] \in Loading
                   /\ missing'[q] => loader'[q] # "loadActiveRun"
                   /\ Latest(files') \subseteq seen'[q]
                   /\ ~missing'[q] => Knows(q)'
  <2>1. CASE q # p
    <3>1. /\ pc'[q] = pc[q] /\ command'[q] = command[q] /\ loader'[q] = loader[q]
          /\ view'[q] = view[q] /\ missing'[q] = missing[q]
          /\ \/ seen'[q] = seen[q] /\ files' = files
             \/ seen'[q] = IF pc[q] \in Loading THEN seen[q] \union Latest(files') ELSE seen[q]
      BY <1>2, <2>1, OthersKeep
    <3>2. CASE command[q] # "status"
      BY <3>1, <3>2 DEF StatusInv
    <3>3. CASE command[q] = "status"
      <4>1. pc[q] \in Loading /\ Latest(files) \subseteq seen[q] /\ (~missing[q] => Knows(q))
            /\ (missing[q] => loader[q] # "loadActiveRun")
        BY <3>3 DEF StatusInv
      <4>2. seen[q] \subseteq seen'[q] /\ Latest(files') \subseteq seen'[q]
        BY <3>1, <4>1
      <4>3. ASSUME ~missing'[q], NEW r \in Old(q)' PROVE \E s \in Run : s > r /\ Known(q, s)'
        <5>1. r \in Old(q)
          BY <4>2, <4>3, OldShrinks
        <5>2. PICK s \in Run : s > r /\ Known(q, s)
          BY <3>1, <4>1, <4>3, <5>1 DEF Knows
        <5>3. Known(q, s)'
          BY <3>1, <5>2, KnownStays
        <5>4. QED
          BY <5>2, <5>3
      <4>4. ~missing'[q] => Knows(q)'
        BY <4>3 DEF Knows
      <4>5. "idle" \notin Loading
        BY DEF Loading
      <4>6. QED
        BY <3>1, <4>1, <4>2, <4>4, <4>5
    <3>4. QED
      BY <3>2, <3>3
  <2>2. CASE q = p
    <3>1. ASSUME pc'[p] = "idle" PROVE command'[p] = "none" /\ ~missing'[p]
      <4>1. PICK what : Finish(p, what)
        BY <1>2, <3>1, OwnStep
      <4>2. QED
        BY <1>0, <4>1 DEF Finish
    <3>2. CASE command'[p] # "status"
      BY <2>2, <3>1, <3>2
    <3>3. CASE command'[p] = "status" /\ Begin(p)
      <4>1. /\ seen'[p] = Latest(files) /\ files' = files /\ pc[p] = "idle" /\ missing' = missing
            /\ pc'[p] = "pointers" /\ loader'[p] = "loadActiveRun"
        BY <1>0, <3>3 DEF Begin, Enter, Goto, disk
      <4>2. ~missing'[p] /\ pc'[p] \in Loading /\ Latest(files') = Latest(files)
        BY <4>1 DEF StatusInv, Loading
      <4>3. ASSUME NEW r \in Old(p)' PROVE \E s \in Run : s > r /\ Known(p, s)'
        <5>1. r \in Run /\ Archived(files[r]) /\ <<"archived", r>> \notin Latest(files)
          BY <4>1, <4>3 DEF Old
        <5>2. PICK s \in Listed(files) : s > r
          BY <5>1, NotLastHasLater
        <5>3. s \in Run /\ files'[s].doc # "absent"
          BY <4>1, <5>2 DEF Listed
        <5>4. Known(p, s)'
          BY <4>1, <5>3 DEF Known
        <5>5. QED
          BY <5>2, <5>3, <5>4
      <4>4. Knows(p)'
        BY <4>3 DEF Knows
      <4>5. Latest(files') \subseteq seen'[p]
        BY <4>1, <4>2
      <4>6. QED
        BY <2>2, <3>1, <4>1, <4>2, <4>4, <4>5
    <3>4. CASE command'[p] = "status" /\ Load(p) /\ command[p] = "status"
      <4>1. pc[p] \in Loading /\ Latest(files) \subseteq seen[p] /\ (~missing[p] => Knows(p))
            /\ (missing[p] => loader[p] # "loadActiveRun")
        BY <3>4 DEF StatusInv
      <4>2. files' = files
        BY <3>4, LoaderSteps
      <4>3. ASSUME NEW s \in Run, ~missing[p] => Known(p, s)
            PROVE  /\ pc'[p] \in Loading /\ seen' = seen
                   /\ missing'[p] => loader'[p] # "loadActiveRun"
                   /\ ~missing'[p] => Known(p, s)'
        BY <3>4, <4>1, <4>3, LoadKnows
      <4>4. /\ pc'[p] \in Loading /\ seen' = seen
            /\ missing'[p] => loader'[p] # "loadActiveRun"
            /\ missing[p] => missing'[p]
        BY <3>4, <4>1, LoadStays
      <4>5. ASSUME ~missing'[p], NEW r \in Old(p)' PROVE \E s \in Run : s > r /\ Known(p, s)'
        <5>1. r \in Old(p)
          BY <4>2, <4>4, <4>5 DEF Old
        <5>2. PICK s \in Run : s > r /\ Known(p, s)
          BY <4>1, <4>4, <4>5, <5>1 DEF Knows
        <5>3. Known(p, s)'
          BY <4>3, <4>5, <5>2
        <5>4. QED
          BY <5>2, <5>3
      <4>6. ~missing'[p] => Knows(p)'
        BY <4>5 DEF Knows
      <4>7. Latest(files') = Latest(files)
        BY <4>2
      <4>8. QED
        BY <2>2, <3>1, <4>1, <4>4, <4>6, <4>7
    <3>5. QED
      BY <1>2, <3>2, <3>3, <3>4, OwnStep
  <2>3. QED
    BY <2>1, <2>2
<1>3. QED
  <2>1. Latest(files)' = Latest(files')
    BY DEF Latest, Serving, Selected, Pointed, ActivationPending, NonArchived, Listed, Whole,
       JournalServes, NewestOf
  <2>2. CASE Next
    BY <1>2, <2>1, <2>2 DEF Next, StatusInv
  <2>3. QED
    BY <1>1, <2>2

\* A status that ends reports nothing, or a run that stood last since it began.
LEMMA StatusReports ==
    ASSUME IInv, ReadInv, PointerInv, FoundInv, StatusInv, [Next]_vars,
           NEW q \in Process, command[q] = "status", pc'[q] = "idle", ~missing[q]
    PROVE  report' \in seen[q] \union {Nothing}
<1> DEFINE Goal == report' \in seen[q] \union {Nothing}
<1> SUFFICES Goal
  OBVIOUS
<1> HIDE DEF Goal
<1>0. /\ pc \in [Process -> Step] /\ loader[q] \in Loader /\ view[q] \in View
      /\ pc[q] \in Loading /\ Latest(files) \subseteq seen[q] /\ Knows(q)
      /\ "idle" \notin Loading /\ "idle" \notin Held /\ Loading \intersect Held = {}
  BY Steps DEF IInv, StoreType, ReadInv, ReadType, StatusInv, Loading
<1>1. PICK p \in Process : Begin(p) \/ Advance(p) \/ Die(p)
  BY <1>0 DEF Next, vars
<1>2. p = q
  BY <1>0, <1>1, OthersKeep
<1>3. PICK what : Finish(q, what)
  BY <1>1, <1>2, OwnStep
<1>4. report' = what /\ (what = Nothing => Goal)
  BY <1>3 DEF Finish, Goal
<1>5. CASE ScanActiveJournal(q)
  <2>1. PICK r \in view[q].todo :
          \/ JournalServes(files[r], view[q].got[r].head) /\ report' = <<"active", r>>
          \/ report' = Nothing
    BY <1>5 DEF ScanActiveJournal, Finish, StateUnknown, Silent
  <2>2. r \in Run
    BY <1>0 DEF View
  <2>3. CASE JournalServes(files[r], view[q].got[r].head) /\ report' = <<"active", r>>
    BY <1>0, <2>2, <2>3, ServesNow DEF Goal
  <2>4. QED
    BY <2>1, <2>3 DEF Goal
<1>6. CASE EndPass(q)
  <2>1. CASE loader[q] = "loadArchivedRun" /\ what # Nothing
    <3>1. PICK r \in NewestOf(view[q].hits) : report' = <<"archived", r>>
      BY <1>3, <1>4, <1>6, <2>1 DEF EndPass, Finish
    <3>2. r \in Run /\ r \in view[q].hits /\ \A s \in view[q].hits : s <= r
      BY <1>0, <3>1 DEF NewestOf, View
    <3>3. Archived(files[r])
      BY <2>1, <3>2 DEF FoundInv
    <3>4. ASSUME <<"archived", r>> \notin seen[q] PROVE FALSE
      <4>1. r \in Old(q)
        BY <3>2, <3>3, <3>4 DEF Old
      <4>2. PICK s \in Run : s > r /\ Known(q, s)
        BY <1>0, <4>1 DEF Knows
      <4>3. s \in view[q].hits
        BY <1>6, <2>1, <4>2 DEF EndPass, Known
      <4>4. s <= r
        BY <3>2, <4>3
      <4>5. QED
        BY <3>2, <4>2, <4>4, RunLimits DEF Run
    <3>5. QED
      BY <3>1, <3>4 DEF Goal
  <2>2. CASE loader[q] # "loadArchivedRun"
    BY <1>6, <2>2 DEF EndPass, Finish, Silent, Goal
  <2>3. QED
    BY <1>4, <2>1, <2>2
<1>7. CASE ScanActivePointers(q) \/ ListRuns(q) \/ ScanRunState(q)
  BY <1>7 DEF ScanActivePointers, ListRuns, ScanRunState, StateUnknown, Finish, Silent, Goal
<1>8. CASE Judge(q)
  <2>1. report' = Nothing
    <3>1. CASE loader[q] = "inspectArchiveUncertainty"
      BY <1>8, <3>1 DEF Judge, Silent
    <3>2. CASE loader[q] = "loadArchivedRun"
      BY <1>8, <3>2 DEF Judge, Silent, Finish
    <3>3. CASE loader[q] \notin {"inspectArchiveUncertainty", "loadArchivedRun"}
      BY <1>8, <3>3 DEF Judge, Silent, Finish, StateUnknown
    <3>4. QED
      BY <3>1, <3>2, <3>3
  <2>2. QED
    BY <2>1 DEF Goal
<1>9. CASE ScanArchiveJournal(q)
  BY <1>9 DEF ScanArchiveJournal, Silent, Finish, Goal
<1>10. Load(q)
  <2>1. pc[q] \notin {"idle", "lock"} /\ lock # q /\ pc[q] \notin Held
    BY <1>0 DEF IInv, LockInv, Loading
  <2>2. {"createRun", "reload", "archiveActiveRun", "release", "return"} \subseteq Held
        /\ Working \subseteq Held
    BY DEF Held, Working, Archiving
  <2>3. Begin(q) \/ Load(q) \/ Writes(q) \/ AcquireLock(q) \/ ScanBeforeCreate(q) \/ Reload(q)
        \/ ScanBeforeArchive(q) \/ Release(q) \/ Die(q)
    BY <1>1, <1>2, Kinds
  <2>4. QED
    BY <2>1, <2>2, <2>3 DEF Begin, Writes, Write, AcquireLock, ScanBeforeCreate, Reload,
       ScanBeforeArchive, Release, Die
<1>11. QED
  BY <1>5, <1>6, <1>7, <1>8, <1>9, <1>10 DEF Load

\* A status that reads the store piece by piece while any number of commands create and
\* archive runs, fail and die reports the active run or an archived run that was the newest at
\* some moment since it began (loadActiveRun, inspectArchiveUncertainty and loadArchivedRun).
THEOREM StatusTellsTheTruth == Spec => StatusWasTrue
<1> DEFINE Inv == IInv /\ ReadInv /\ PointerInv /\ FoundInv /\ StatusInv
<1>1. Init => Inv
  <2> SUFFICES ASSUME Init PROVE PointerInv /\ FoundInv /\ StatusInv
    BY InitInv, TypeInit DEF ReadInv
  <2>1. PointerInv
    BY Steps DEF Init, PointerInv, Pointed, Held, NoFiles
  <2>2. FoundInv
    BY DEF Init, FoundInv
  <2>3. StatusInv
    BY DEF Init, StatusInv
  <2>4. QED
    BY <2>1, <2>2, <2>3
<1>2. Inv /\ [Next]_vars => Inv'
  BY NextInv, ReadStep, PointerStep, FoundStep, StatusStep
<1>3. Inv /\ [Next]_vars =>
        [\A p \in Process :
           command[p] = "status" /\ pc'[p] = "idle" /\ ~missing[p]
             => report' \in seen[p] \union {Nothing}]_vars
  BY StatusReports
<1>4. QED
  BY <1>1, <1>2, <1>3, PTL DEF Spec, StatusWasTrue
=============================================================================
