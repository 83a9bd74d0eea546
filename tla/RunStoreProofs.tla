--------------------------- MODULE RunStoreProofs ---------------------------
(***************************************************************************)
(* The order of the file operations of RunStore, one live run at a time,   *)
(* and the refinement of RunRegistry, for any set of commands, any number  *)
(* of runs and any number of failures and deaths.                          *)
(***************************************************************************)
EXTENDS RunStore, TLAPS

\* The files of a run at every point of its life, in the order of the writes.
Shape(f, doc, head, activation, pointer, work, entry, guard) ==
    /\ f.doc = doc /\ f.head = head
    /\ f.activation = activation /\ f.pointer = pointer
    /\ f.work = work /\ f.entry = entry /\ f.guard = guard

Absent(f) == Shape(f, "absent", "none", FALSE, FALSE, "unbound", "none", FALSE)
Made(f) == Shape(f, "made", "none", FALSE, FALSE, "unbound", "none", FALSE)
Started(f) == Shape(f, "initializing", "none", FALSE, FALSE, "unbound", "none", FALSE)
Guarded(f) == Shape(f, "initializing", "none", TRUE, FALSE, "unbound", "none", FALSE)
Pointing(f) == Shape(f, "initializing", "none", TRUE, TRUE, "unbound", "none", FALSE)
Activated(f) == Shape(f, "active", "none", TRUE, TRUE, "unbound", "none", FALSE)
Opened(f, work) == Shape(f, "active", "none", FALSE, TRUE, work, "none", FALSE)
Recorded(f) == Shape(f, "active", "none", FALSE, TRUE, "bound", "intent", FALSE)
Named(f) == Shape(f, "active", "intent", FALSE, TRUE, "bound", "intent", FALSE)
Committed(f) == Shape(f, "active", "intent", FALSE, TRUE, "bound", "intent", TRUE)
Closed(f) == Shape(f, "archived", "intent", FALSE, TRUE, "bound", "intent", TRUE)
Unpointed(f) == Shape(f, "archived", "intent", FALSE, FALSE, "bound", "intent", TRUE)
Observed(f) == Shape(f, "archived", "intent", FALSE, FALSE, "bound", "observed", TRUE)
Settled(f) == Shape(f, "archived", "observed", FALSE, FALSE, "bound", "observed", TRUE)
Archived(f) == Shape(f, "archived", "observed", FALSE, FALSE, "bound", "observed", FALSE)

Legal(f) ==
    \/ Absent(f) \/ Made(f) \/ Started(f) \/ Guarded(f) \/ Pointing(f) \/ Activated(f)
    \/ Opened(f, "unbound") \/ Opened(f, "busy") \/ Opened(f, "bound")
    \/ Recorded(f) \/ Named(f) \/ Committed(f) \/ Closed(f) \/ Unpointed(f)
    \/ Observed(f) \/ Settled(f) \/ Archived(f)

\* What a command at a step of its work may assume of its run's files.
StepFiles(step, f) ==
    /\ step = "makeRun" => Absent(f)
    /\ step = "initialize" => Made(f)
    /\ step = "guardActivation" => Started(f)
    /\ step = "point" => Guarded(f)
    /\ step = "activate" => Pointing(f)
    /\ step = "removeActivation" => Activated(f)
    /\ step = "operate" => Opened(f, "unbound") \/ Opened(f, "bound")
    /\ step = "settle" => Opened(f, "busy")
    /\ step \in {"archiveActiveRun", "archiveIntent"} => Opened(f, "bound")
    /\ step = "archiveHead" => Recorded(f)
    /\ step = "guardArchive" => Named(f)
    /\ step = "archiveDoc" => Committed(f)
    /\ step = "removePointer" => Closed(f)
    /\ step = "observeEntry" => Unpointed(f)
    /\ step = "observeHead" => Observed(f)
    /\ step = "removeArchiveGuard" => Settled(f)

Working == (Creating \ {"createRun"}) \union Archiving \union {"operate", "settle"}

Held == Working \union {"createRun", "reload", "return", "release", "dead"}

\* Every other run is over, and r is the newest.
Alone(r) ==
    \A s \in Run \ {r} : /\ files[s].doc \in {"absent", "archived"}
                         /\ files[s].doc = "archived" => s < r

StoreType ==
    /\ files \in [Run -> Files]
    /\ \A r \in Run : Legal(files[r])
    /\ lock \in Process \union {Free}
    /\ pc \in [Process -> Step]
    /\ mine \in [Process -> Run \union {NoRun}]

LockInv == \A p \in Process : pc[p] \in Held <=> lock = p

StepInv ==
    \A p \in Process : pc[p] \in Working =>
        mine[p] \in Run /\ Alone(mine[p]) /\ StepFiles(pc[p], files[mine[p]])

IInv == StoreType /\ LockInv /\ StepInv /\ OneLive

LEMMA Steps ==
    /\ Working \subseteq Step /\ Held \subseteq Step
    /\ Loading \intersect Held = {} /\ "idle" \notin Held /\ "lock" \notin Held
    /\ Loading \subseteq Step /\ {"idle", "lock"} \subseteq Step
BY DEF Working, Held, Step, Loading, Creating, Archiving

\* The invariant depends on nothing but the files, the lock, the steps and the
\* runs: a step of a loader, which holds no lock and changes no file, keeps it.
LEMMA LoaderKeeps ==
    ASSUME IInv, NEW p \in Process, pc[p] \notin Held,
           UNCHANGED <<files, lock>>,
           NEW step \in Step \ Held, pc' = [pc EXCEPT ![p] = step],
           mine' = mine \/ mine' = [mine EXCEPT ![p] = NoRun]
    PROVE  IInv'
<1>1. \A q \in Process : pc'[q] \in Held => q # p /\ pc[q] = pc'[q] /\ mine'[q] = mine[q]
  BY DEF IInv, StoreType
<1>2. StoreType'
  BY DEF IInv, StoreType
<1>3. LockInv'
  BY <1>1 DEF IInv, LockInv, StoreType
<1>4. StepInv'
  <2> SUFFICES ASSUME NEW q \in Process, pc'[q] \in Working
               PROVE (mine[q] \in Run /\ Alone(mine[q]) /\ StepFiles(pc[q], files[mine[q]]))'
    BY DEF StepInv
  <2>1. pc[q] = pc'[q] /\ mine'[q] = mine[q] /\ pc[q] \in Working
    BY <1>1 DEF Held
  <2>2. mine[q] \in Run /\ Alone(mine[q]) /\ StepFiles(pc[q], files[mine[q]])
    BY <2>1 DEF IInv, StepInv
  <2>3. QED
    BY <2>1, <2>2 DEF Alone
<1>5. OneLive'
  BY DEF IInv, OneLive, NonArchived, Listed
<1>6. QED
  BY <1>2, <1>3, <1>4, <1>5 DEF IInv

\* One file operation of the lock's holder, whether it succeeds or fails.
LEMMA WriteKeeps ==
    ASSUME IInv, NEW p \in Process, NEW from \in Working, NEW to \in Held, NEW new \in Files,
           Write(p, from, to, new), Legal(new), new.doc # "absent",
           to \in Working => StepFiles(to, new)
    PROVE  IInv'
<1>1. /\ pc[p] = from /\ lock = p /\ lock' = lock /\ mine' = mine
      /\ mine[p] \in Run /\ Alone(mine[p])
  BY DEF Write, IInv, StepInv, LockInv, Held
<1>2. files' = files \/ files' = [files EXCEPT ![mine[p]] = new]
  BY DEF Write
<1>3. PICK step \in {to, "release"} :
        /\ pc' = [pc EXCEPT ![p] = step]
        /\ step # "release" => step = to /\ files' = [files EXCEPT ![mine[p]] = new]
  BY DEF Write, Goto
<1>4. step \in Held /\ step \in Step /\ "release" \notin Working
  BY <1>3, Steps DEF Held, Working, Creating, Archiving
<1>5. StoreType'
  BY <1>1, <1>2, <1>3, <1>4 DEF IInv, StoreType
<1>6. LockInv'
  BY <1>1, <1>3, <1>4 DEF IInv, LockInv, StoreType
<1>7. \A s \in Run \ {mine[p]} : files'[s] = files[s]
  BY <1>1, <1>2 DEF IInv, StoreType
<1>8. Alone(mine[p])'
  BY <1>1, <1>7 DEF Alone
<1>9. StepInv'
  <2> SUFFICES ASSUME NEW q \in Process, pc'[q] \in Working
               PROVE (mine[q] \in Run /\ Alone(mine[q]) /\ StepFiles(pc[q], files[mine[q]]))'
    BY DEF StepInv
  <2>1. q = p
    BY <1>1, <1>6 DEF LockInv, Held
  <2>2. step = to /\ pc'[p] = to /\ files'[mine[p]] = new
    BY <2>1, <1>1, <1>3, <1>4 DEF IInv, StoreType
  <2>3. QED
    BY <2>1, <2>2, <1>1, <1>8
<1>10. OneLive'
  <2> SUFFICES ASSUME NEW r \in Run, files'[r].doc # "absent", files'[r].doc # "archived",
                      NEW s \in Run, files'[s].doc # "absent"
               PROVE s <= r
    BY DEF OneLive, NonArchived, Listed
  <2>1. r = mine[p]
    BY <1>8, <1>1 DEF Alone
  <2>2. s = r \/ s < r
    BY <2>1, <1>8, <1>1 DEF Alone
  <2>3. QED
    BY <2>2 DEF Run
<1>11. QED
  BY <1>5, <1>6, <1>9, <1>10 DEF IInv

\* Every step of a command without the lock has the form of LoaderKeeps.
LEMMA LoaderSteps ==
    ASSUME NEW p \in Process, Begin(p) \/ Load(p)
    PROVE  /\ pc[p] \notin Held
           /\ UNCHANGED <<files, lock>>
           /\ \/ mine' = mine
              \/ mine' = [mine EXCEPT ![p] = NoRun]
           /\ \/ pc' = pc
              \/ \E step \in Step \ Held : pc' = [pc EXCEPT ![p] = step]
<1> USE DEF disk, Silent, Goto, Enter, Finish, StateUnknown
<1> DEFINE Free_ == Step \ Held
<1>1. {"idle", "lock", "pointers", "runs", "documents", "journals"} \subseteq Free_
  BY DEF Step, Held, Working, Loading, Creating, Archiving
<1> HIDE DEF Free_
<1>2. CASE Begin(p)
  BY <1>1, <1>2 DEF Begin, Free_
<1>3. CASE ScanActivePointers(p) \/ ListRuns(p)
  BY <1>1, <1>3 DEF ScanActivePointers, ListRuns, Free_
<1>4. CASE ScanRunState(p)
  BY <1>1, <1>4 DEF ScanRunState, Free_
<1>5. CASE Judge(p)
  <2>1. CASE loader[p] = "inspectArchiveUncertainty"
    BY <1>1, <1>5, <2>1 DEF Judge, Free_
  <2>2. CASE loader[p] = "loadArchivedRun"
    BY <1>1, <1>5, <2>2 DEF Judge, Free_
  <2>3. CASE loader[p] \notin {"inspectArchiveUncertainty", "loadArchivedRun"}
    BY <1>1, <1>5, <2>3 DEF Judge, Free_
  <2>4. QED
    BY <2>1, <2>2, <2>3
<1>6. CASE ScanActiveJournal(p)
  BY <1>1, <1>6 DEF ScanActiveJournal, Free_
<1>7. CASE ScanArchiveJournal(p) \/ EndPass(p)
  BY <1>1, <1>7 DEF ScanArchiveJournal, EndPass, Free_
<1>8. QED
  BY <1>2, <1>3, <1>4, <1>5, <1>6, <1>7 DEF Load

\* The steps of the lock's holder that change no file: it goes on to a step
\* that fits the files, or ends.
LEMMA HolderKeeps ==
    ASSUME IInv, NEW p \in Process, lock = p,
           UNCHANGED <<files, lock>>,
           NEW step \in Held, pc' = [pc EXCEPT ![p] = step],
           NEW r \in Run \union {NoRun}, mine' = [mine EXCEPT ![p] = r],
           step \in Working => r \in Run /\ Alone(r) /\ StepFiles(step, files[r])
    PROVE  IInv'
<1>1. step \in Step /\ pc'[p] = step /\ mine'[p] = r
  BY Steps DEF IInv, StoreType
<1>2. StoreType'
  BY <1>1 DEF IInv, StoreType
<1>3. LockInv'
  BY <1>1 DEF IInv, LockInv, StoreType
<1>4. StepInv'
  <2> SUFFICES ASSUME NEW q \in Process, pc'[q] \in Working
               PROVE (mine[q] \in Run /\ Alone(mine[q]) /\ StepFiles(pc[q], files[mine[q]]))'
    BY DEF StepInv
  <2>1. q = p
    BY <1>3 DEF LockInv, Held
  <2>2. r \in Run /\ Alone(r) /\ StepFiles(step, files[r])
    BY <2>1, <1>1
  <2>3. QED
    BY <2>1, <2>2, <1>1 DEF Alone
<1>5. OneLive'
  BY DEF IInv, OneLive, NonArchived, Listed
<1>6. QED
  BY <1>2, <1>3, <1>4, <1>5 DEF IInv

\* A live run is the newest one.
LEMMA LiveIsAlone ==
    ASSUME IInv, NEW r \in Run, files[r].doc \notin {"absent", "archived"}
    PROVE  Alone(r)
<1> SUFFICES ASSUME NEW s \in Run \ {r}
             PROVE  /\ files[s].doc \in {"absent", "archived"}
                    /\ files[s].doc = "archived" => s < r
  BY DEF Alone
<1>1. files[s] \in Files
  BY DEF IInv, StoreType
<1>2. r \in NonArchived(files)
  BY DEF NonArchived, Listed
<1>3. files[s].doc # "absent" => s < r
  BY <1>2 DEF IInv, OneLive, Listed, Run
<1>4. files[s].doc \notin {"absent", "archived"} => r < s
  BY <1>1 DEF IInv, OneLive, NonArchived, Listed, Run
<1>5. QED
  BY <1>3, <1>4 DEF Run

\* The scans under the lock, and the ends of a command.
LEMMA ScansKeep ==
    ASSUME IInv, NEW p \in Process,
           \/ AcquireLock(p) \/ ScanBeforeCreate(p) \/ Reload(p) \/ ScanBeforeArchive(p)
           \/ Release(p) \/ Die(p)
    PROVE  IInv'
<1>1. CASE AcquireLock(p) /\ lock # Free
  <2>1. pc[p] \notin Held /\ "idle" \in Step \ Held
    BY <1>1, Steps DEF AcquireLock
  <2>2. UNCHANGED <<files, lock>> /\ mine' = [mine EXCEPT ![p] = NoRun]
        /\ pc' = [pc EXCEPT ![p] = "idle"]
    BY <1>1 DEF AcquireLock, Finish, Goto, disk
  <2>3. QED
    BY <2>1, <2>2, LoaderKeeps
<1>2. CASE AcquireLock(p) /\ lock = Free
  <2>1. PICK step \in {"createRun", "reload"} :
          /\ pc' = [pc EXCEPT ![p] = step]
          /\ lock' = p /\ UNCHANGED <<files, mine>>
    BY <1>2 DEF AcquireLock, Goto, Silent
  <2>2. step \in Held /\ step \notin Working /\ step \in Step
    BY Steps DEF Held, Working, Creating, Archiving
  <2>3. \A q \in Process : pc[q] \notin Held
    BY <1>2, FreeIsNoProcess DEF IInv, LockInv
  <2>4. StoreType'
    BY <2>1, <2>2 DEF IInv, StoreType
  <2>5. LockInv'
    BY <2>1, <2>2, <2>3 DEF IInv, StoreType, LockInv
  <2>6. StepInv'
    BY <2>1, <2>2, <2>3 DEF IInv, StoreType, StepInv, Held
  <2>7. OneLive'
    BY <2>1 DEF IInv, OneLive, NonArchived, Listed
  <2>8. QED
    BY <2>4, <2>5, <2>6, <2>7 DEF IInv
<1>3. CASE ScanBeforeCreate(p)
  <2>1. lock = p /\ mine[p] \in Run \union {NoRun} /\ UNCHANGED <<files, lock>>
    BY <1>3 DEF ScanBeforeCreate, IInv, StoreType, LockInv, Held, disk
  <2>2. CASE ~MayCreate
    <3>1. "release" \in Held /\ "release" \notin Working
      BY DEF Held, Working, Creating, Archiving
    <3>2. pc' = [pc EXCEPT ![p] = "release"] /\ mine' = [mine EXCEPT ![p] = mine[p]]
      BY <1>3, <2>2 DEF ScanBeforeCreate, Goto, IInv, StoreType
    <3>3. QED
      BY <2>1, <3>1, <3>2, HolderKeeps
  <2>3. CASE MayCreate
    <3>1. "makeRun" \in Held
      BY DEF Held, Working, Creating
    <3>2. PICK r \in Run : /\ Listed(files) = 1 .. (r - 1)
                           /\ mine' = [mine EXCEPT ![p] = r]
                           /\ pc' = [pc EXCEPT ![p] = "makeRun"]
      BY <1>3, <2>3 DEF ScanBeforeCreate, Goto
    <3>3. Absent(files[r])
      <4>1. r \notin Listed(files)
        BY <3>2 DEF Run
      <4>2. Legal(files[r]) /\ files[r].doc = "absent"
        BY <4>1 DEF IInv, StoreType, Listed
      <4>3. QED
        BY <4>2 DEF Legal, Shape, Absent, Made, Started, Guarded, Pointing, Activated,
              Opened, Recorded, Named, Committed, Closed, Unpointed, Observed, Settled, Archived
    <3>4. Alone(r)
      BY <2>3, <3>2 DEF Alone, MayCreate, Listed, Run
    <3>5. StepFiles("makeRun", files[r])
      BY <3>3 DEF StepFiles
    <3>6. QED
      BY <2>1, <3>1, <3>2, <3>4, <3>5, HolderKeeps
  <2>4. QED
    BY <2>2, <2>3
<1>4. CASE Reload(p)
  <2>1. lock = p /\ mine[p] \in Run \union {NoRun} /\ UNCHANGED <<files, lock>>
    BY <1>4 DEF Reload, IInv, StoreType, LockInv, Held, disk
  <2>2. CASE Serving(files) = {}
    <3>1. "release" \in Held /\ "release" \notin Working
      BY DEF Held, Working, Creating, Archiving
    <3>2. pc' = [pc EXCEPT ![p] = "release"] /\ mine' = [mine EXCEPT ![p] = mine[p]]
      BY <1>4, <2>2 DEF Reload, Goto, IInv, StoreType
    <3>3. QED
      BY <2>1, <3>1, <3>2, HolderKeeps
  <2>3. CASE Serving(files) # {}
    <3>1. "operate" \in Held
      BY DEF Held, Working, Creating
    <3>2. PICK r \in Serving(files) : /\ mine' = [mine EXCEPT ![p] = r]
                                      /\ pc' = [pc EXCEPT ![p] = "operate"]
      BY <1>4, <2>3 DEF Reload, Goto
    <3>3. /\ r \in Run /\ files[r].doc = "active" /\ ~files[r].activation
          /\ files[r].work = "bound" /\ files[r].entry = "none"
      BY <3>2, Zenon DEF Serving, Selected, ActivationPending, JournalServes, Listed
    <3>4. Opened(files[r], "bound")
      <4>1. files[r] \in Files /\ Legal(files[r])
        BY <3>3 DEF IInv, StoreType
      <4>2. QED
        BY <3>3, <4>1 DEF Legal, Shape, Absent, Made, Started, Guarded, Pointing, Activated,
              Opened, Recorded, Named, Committed, Closed, Unpointed, Observed, Settled, Archived
    <3>5. Alone(r) /\ StepFiles("operate", files[r])
      BY <3>3, <3>4, LiveIsAlone DEF StepFiles
    <3>6. QED
      BY <2>1, <3>1, <3>2, <3>3, <3>5, HolderKeeps
  <2>4. QED
    BY <2>2, <2>3
<1>5. CASE ScanBeforeArchive(p)
  <2>1. /\ lock = p /\ mine[p] \in Run /\ Alone(mine[p]) /\ UNCHANGED <<files, lock>>
        /\ Opened(files[mine[p]], "bound") /\ mine' = [mine EXCEPT ![p] = mine[p]]
    BY <1>5 DEF ScanBeforeArchive, IInv, StoreType, LockInv, StepInv, StepFiles, Held, Working,
          Archiving, Silent, disk
  <2>2. PICK step \in {"archiveIntent", "release"} : pc' = [pc EXCEPT ![p] = step]
    BY <1>5 DEF ScanBeforeArchive, Goto
  <2>3. step \in Held /\ (step \in Working => StepFiles(step, files[mine[p]]))
    BY <2>1, <2>2 DEF Held, Working, Creating, Archiving, StepFiles
  <2>4. QED
    BY <2>1, <2>2, <2>3, HolderKeeps
<1>6. CASE Release(p)
  <2>1. /\ lock = p /\ lock' = Free /\ files' = files
        /\ pc' = [pc EXCEPT ![p] = "idle"] /\ mine' = [mine EXCEPT ![p] = NoRun]
    BY <1>6 DEF Release, Finish, Goto, IInv, LockInv, Held
  <2>2. \A q \in Process : pc'[q] \notin Held
    BY <2>1, Steps DEF IInv, StoreType, LockInv
  <2>3. StoreType'
    BY <2>1, Steps DEF IInv, StoreType
  <2>4. LockInv'
    BY <2>1, <2>2, FreeIsNoProcess DEF LockInv
  <2>5. StepInv'
    BY <2>2 DEF StepInv, Held
  <2>6. OneLive'
    BY <2>1 DEF IInv, OneLive, NonArchived, Listed
  <2>7. QED
    BY <2>3, <2>4, <2>5, <2>6 DEF IInv
<1>7. CASE Die(p)
  <2>1. "dead" \in Held /\ "dead" \notin Working
    BY DEF Held, Working, Creating, Archiving
  <2>2. /\ lock = p /\ UNCHANGED <<files, lock>> /\ mine[p] \in Run \union {NoRun}
        /\ pc' = [pc EXCEPT ![p] = "dead"] /\ mine' = [mine EXCEPT ![p] = mine[p]]
    BY <1>7 DEF Die, Goto, Silent, disk, IInv, StoreType
  <2>3. QED
    BY <2>1, <2>2, HolderKeeps
<1>8. QED
  BY <1>1, <1>2, <1>3, <1>4, <1>5, <1>6, <1>7

\* The file operations: each takes its run from one shape to the next.
LEMMA WritesKeep ==
    ASSUME IInv, NEW p \in Process,
           \/ MakeRun(p) \/ Initialize(p) \/ GuardActivation(p) \/ Point(p) \/ Activate(p)
           \/ RemoveActivation(p) \/ Operate(p) \/ Settle(p) \/ ArchiveIntent(p)
           \/ ArchiveHead(p) \/ GuardArchive(p) \/ ArchiveDoc(p) \/ RemovePointer(p)
           \/ ObserveEntry(p) \/ ObserveHead(p) \/ RemoveArchiveGuard(p)
    PROVE  IInv'
<1>1. ASSUME NEW step \in Working, pc[p] = step
      PROVE  Own(p) \in Files /\ StepFiles(step, Own(p))
  BY <1>1 DEF IInv, StoreType, StepInv, Own
<1>2. /\ Creating \ {"createRun"} \subseteq Working /\ Archiving \subseteq Working
      /\ {"operate", "settle"} \subseteq Working
      /\ Working \subseteq Held /\ "return" \in Held /\ "return" \notin Working
  BY DEF Working, Held, Creating, Archiving
<1>3. CASE MakeRun(p)
  <2> DEFINE new == [Own(p) EXCEPT !.doc = "made"]
  <2>1. "makeRun" \in Working /\ "initialize" \in Held
    BY <1>2 DEF Creating, Archiving
  <2>2. Write(p, "makeRun", "initialize", new) /\ pc[p] = "makeRun"
    BY <1>3 DEF MakeRun, Write
  <2>3. Own(p) \in Files /\ Absent(Own(p))
    BY <1>1, <2>1, <2>2 DEF StepFiles
  <2>4. new \in Files /\ Made(new)
    BY <2>3 DEF Files, Docs, ArchivePhase, Shape, Absent, Made
  <2> HIDE DEF new
  <2>5. Legal(new) /\ new.doc # "absent" /\ ("initialize" \in Working => StepFiles("initialize", new))
    BY <1>2, <2>4 DEF Legal, StepFiles, Shape, Made
  <2>6. QED
    BY <2>1, <2>2, <2>4, <2>5, WriteKeeps
<1>4. CASE Initialize(p)
  <2> DEFINE new == [Own(p) EXCEPT !.doc = "initializing"]
  <2>1. "initialize" \in Working /\ "guardActivation" \in Held
    BY <1>2 DEF Creating, Archiving
  <2>2. Write(p, "initialize", "guardActivation", new) /\ pc[p] = "initialize"
    BY <1>4 DEF Initialize, Write
  <2>3. Own(p) \in Files /\ Made(Own(p))
    BY <1>1, <2>1, <2>2 DEF StepFiles
  <2>4. new \in Files /\ Started(new)
    BY <2>3 DEF Files, Docs, ArchivePhase, Shape, Made, Started
  <2> HIDE DEF new
  <2>5. Legal(new) /\ new.doc # "absent" /\ ("guardActivation" \in Working => StepFiles("guardActivation", new))
    BY <1>2, <2>4 DEF Legal, StepFiles, Shape, Started
  <2>6. QED
    BY <2>1, <2>2, <2>4, <2>5, WriteKeeps
<1>5. CASE GuardActivation(p)
  <2> DEFINE new == [Own(p) EXCEPT !.activation = TRUE]
  <2>1. "guardActivation" \in Working /\ "point" \in Held
    BY <1>2 DEF Creating, Archiving
  <2>2. Write(p, "guardActivation", "point", new) /\ pc[p] = "guardActivation"
    BY <1>5 DEF GuardActivation, Write
  <2>3. Own(p) \in Files /\ Started(Own(p))
    BY <1>1, <2>1, <2>2 DEF StepFiles
  <2>4. new \in Files /\ Guarded(new)
    BY <2>3 DEF Files, Docs, ArchivePhase, Shape, Started, Guarded
  <2> HIDE DEF new
  <2>5. Legal(new) /\ new.doc # "absent" /\ ("point" \in Working => StepFiles("point", new))
    BY <1>2, <2>4 DEF Legal, StepFiles, Shape, Guarded
  <2>6. QED
    BY <2>1, <2>2, <2>4, <2>5, WriteKeeps
<1>6. CASE Point(p)
  <2> DEFINE new == [Own(p) EXCEPT !.pointer = TRUE]
  <2>1. "point" \in Working /\ "activate" \in Held
    BY <1>2 DEF Creating, Archiving
  <2>2. Write(p, "point", "activate", new) /\ pc[p] = "point"
    BY <1>6 DEF Point, Write
  <2>3. Own(p) \in Files /\ Guarded(Own(p))
    BY <1>1, <2>1, <2>2 DEF StepFiles
  <2>4. new \in Files /\ Pointing(new)
    BY <2>3 DEF Files, Docs, ArchivePhase, Shape, Guarded, Pointing
  <2> HIDE DEF new
  <2>5. Legal(new) /\ new.doc # "absent" /\ ("activate" \in Working => StepFiles("activate", new))
    BY <1>2, <2>4 DEF Legal, StepFiles, Shape, Pointing
  <2>6. QED
    BY <2>1, <2>2, <2>4, <2>5, WriteKeeps
<1>7. CASE Activate(p)
  <2> DEFINE new == [Own(p) EXCEPT !.doc = "active"]
  <2>1. "activate" \in Working /\ "removeActivation" \in Held
    BY <1>2 DEF Creating, Archiving
  <2>2. Write(p, "activate", "removeActivation", new) /\ pc[p] = "activate"
    BY <1>7 DEF Activate, Write
  <2>3. Own(p) \in Files /\ Pointing(Own(p))
    BY <1>1, <2>1, <2>2 DEF StepFiles
  <2>4. new \in Files /\ Activated(new)
    BY <2>3 DEF Files, Docs, ArchivePhase, Shape, Pointing, Activated
  <2> HIDE DEF new
  <2>5. Legal(new) /\ new.doc # "absent" /\ ("removeActivation" \in Working => StepFiles("removeActivation", new))
    BY <1>2, <2>4 DEF Legal, StepFiles, Shape, Activated
  <2>6. QED
    BY <2>1, <2>2, <2>4, <2>5, WriteKeeps
<1>8. CASE RemoveActivation(p)
  <2> DEFINE new == [Own(p) EXCEPT !.activation = FALSE]
  <2>1. "removeActivation" \in Working /\ "operate" \in Held
    BY <1>2 DEF Creating, Archiving
  <2>2. Write(p, "removeActivation", "operate", new) /\ pc[p] = "removeActivation"
    BY <1>8 DEF RemoveActivation, Write
  <2>3. Own(p) \in Files /\ Activated(Own(p))
    BY <1>1, <2>1, <2>2 DEF StepFiles
  <2>4. new \in Files /\ Opened(new, "unbound")
    BY <2>3 DEF Files, Docs, ArchivePhase, Shape, Activated, Opened
  <2> HIDE DEF new
  <2>5. Legal(new) /\ new.doc # "absent" /\ ("operate" \in Working => StepFiles("operate", new))
    BY <1>2, <2>4 DEF Legal, StepFiles, Shape, Opened
  <2>6. QED
    BY <2>1, <2>2, <2>4, <2>5, WriteKeeps
<1>9. CASE Operate(p)
  <2> DEFINE new == [Own(p) EXCEPT !.work = "busy"]
  <2>1. "operate" \in Working /\ "settle" \in Held
    BY <1>2 DEF Creating, Archiving
  <2>2. Write(p, "operate", "settle", new) /\ pc[p] = "operate"
    BY <1>9 DEF Operate, Write
  <2>3. Own(p) \in Files /\ (Opened(Own(p), "unbound") \/ Opened(Own(p), "bound"))
    BY <1>1, <2>1, <2>2 DEF StepFiles
  <2>4. new \in Files /\ Opened(new, "busy")
    BY <2>3 DEF Files, Docs, ArchivePhase, Shape, Opened
  <2> HIDE DEF new
  <2>5. Legal(new) /\ new.doc # "absent" /\ ("settle" \in Working => StepFiles("settle", new))
    BY <1>2, <2>4 DEF Legal, StepFiles, Shape, Opened
  <2>6. QED
    BY <2>1, <2>2, <2>4, <2>5, WriteKeeps
<1>10. CASE Settle(p)
  <2> DEFINE new == [Own(p) EXCEPT !.work = "bound"]
             to == IF command[p] = "assemble" THEN "return" ELSE "archiveActiveRun"
  <2>1. "settle" \in Working /\ to \in Held
    BY <1>2 DEF Archiving
  <2>2. Write(p, "settle", to, new) /\ pc[p] = "settle"
    BY <1>10 DEF Settle, Write
  <2>3. Own(p) \in Files /\ Opened(Own(p), "busy")
    BY <1>1, <2>1, <2>2 DEF StepFiles
  <2>4. new \in Files /\ Opened(new, "bound")
    BY <2>3 DEF Files, Docs, ArchivePhase, Shape, Opened
  <2> HIDE DEF new
  <2>5. Legal(new) /\ new.doc # "absent" /\ (to \in Working => StepFiles(to, new))
    BY <1>2, <2>4 DEF Legal, StepFiles, Shape, Opened
  <2>6. QED
    BY <2>1, <2>2, <2>4, <2>5, WriteKeeps
<1>11. CASE ArchiveIntent(p)
  <2> DEFINE new == [Own(p) EXCEPT !.entry = "intent"]
  <2>1. "archiveIntent" \in Working /\ "archiveHead" \in Held
    BY <1>2 DEF Creating, Archiving
  <2>2. Write(p, "archiveIntent", "archiveHead", new) /\ pc[p] = "archiveIntent"
    BY <1>11 DEF ArchiveIntent, Write
  <2>3. Own(p) \in Files /\ Opened(Own(p), "bound")
    BY <1>1, <2>1, <2>2 DEF StepFiles
  <2>4. new \in Files /\ Recorded(new)
    BY <2>3 DEF Files, Docs, ArchivePhase, Shape, Opened, Recorded
  <2> HIDE DEF new
  <2>5. Legal(new) /\ new.doc # "absent" /\ ("archiveHead" \in Working => StepFiles("archiveHead", new))
    BY <1>2, <2>4 DEF Legal, StepFiles, Shape, Recorded
  <2>6. QED
    BY <2>1, <2>2, <2>4, <2>5, WriteKeeps
<1>12. CASE ArchiveHead(p)
  <2> DEFINE new == [Own(p) EXCEPT !.head = "intent"]
  <2>1. "archiveHead" \in Working /\ "guardArchive" \in Held
    BY <1>2 DEF Creating, Archiving
  <2>2. Write(p, "archiveHead", "guardArchive", new) /\ pc[p] = "archiveHead"
    BY <1>12 DEF ArchiveHead, Write
  <2>3. Own(p) \in Files /\ Recorded(Own(p))
    BY <1>1, <2>1, <2>2 DEF StepFiles
  <2>4. new \in Files /\ Named(new)
    BY <2>3 DEF Files, Docs, ArchivePhase, Shape, Recorded, Named
  <2> HIDE DEF new
  <2>5. Legal(new) /\ new.doc # "absent" /\ ("guardArchive" \in Working => StepFiles("guardArchive", new))
    BY <1>2, <2>4 DEF Legal, StepFiles, Shape, Named
  <2>6. QED
    BY <2>1, <2>2, <2>4, <2>5, WriteKeeps
<1>13. CASE GuardArchive(p)
  <2> DEFINE new == [Own(p) EXCEPT !.guard = TRUE]
  <2>1. "guardArchive" \in Working /\ "archiveDoc" \in Held
    BY <1>2 DEF Creating, Archiving
  <2>2. Write(p, "guardArchive", "archiveDoc", new) /\ pc[p] = "guardArchive"
    BY <1>13 DEF GuardArchive, Write
  <2>3. Own(p) \in Files /\ Named(Own(p))
    BY <1>1, <2>1, <2>2 DEF StepFiles
  <2>4. new \in Files /\ Committed(new)
    BY <2>3 DEF Files, Docs, ArchivePhase, Shape, Named, Committed
  <2> HIDE DEF new
  <2>5. Legal(new) /\ new.doc # "absent" /\ ("archiveDoc" \in Working => StepFiles("archiveDoc", new))
    BY <1>2, <2>4 DEF Legal, StepFiles, Shape, Committed
  <2>6. QED
    BY <2>1, <2>2, <2>4, <2>5, WriteKeeps
<1>14. CASE ArchiveDoc(p)
  <2> DEFINE new == [Own(p) EXCEPT !.doc = "archived"]
  <2>1. "archiveDoc" \in Working /\ "removePointer" \in Held
    BY <1>2 DEF Creating, Archiving
  <2>2. Write(p, "archiveDoc", "removePointer", new) /\ pc[p] = "archiveDoc"
    BY <1>14 DEF ArchiveDoc, Write
  <2>3. Own(p) \in Files /\ Committed(Own(p))
    BY <1>1, <2>1, <2>2 DEF StepFiles
  <2>4. new \in Files /\ Closed(new)
    BY <2>3 DEF Files, Docs, ArchivePhase, Shape, Committed, Closed
  <2> HIDE DEF new
  <2>5. Legal(new) /\ new.doc # "absent" /\ ("removePointer" \in Working => StepFiles("removePointer", new))
    BY <1>2, <2>4 DEF Legal, StepFiles, Shape, Closed
  <2>6. QED
    BY <2>1, <2>2, <2>4, <2>5, WriteKeeps
<1>15. CASE RemovePointer(p)
  <2> DEFINE new == [Own(p) EXCEPT !.pointer = FALSE]
  <2>1. "removePointer" \in Working /\ "observeEntry" \in Held
    BY <1>2 DEF Creating, Archiving
  <2>2. Write(p, "removePointer", "observeEntry", new) /\ pc[p] = "removePointer"
    BY <1>15 DEF RemovePointer, Write
  <2>3. Own(p) \in Files /\ Closed(Own(p))
    BY <1>1, <2>1, <2>2 DEF StepFiles
  <2>4. new \in Files /\ Unpointed(new)
    BY <2>3 DEF Files, Docs, ArchivePhase, Shape, Closed, Unpointed
  <2> HIDE DEF new
  <2>5. Legal(new) /\ new.doc # "absent" /\ ("observeEntry" \in Working => StepFiles("observeEntry", new))
    BY <1>2, <2>4 DEF Legal, StepFiles, Shape, Unpointed
  <2>6. QED
    BY <2>1, <2>2, <2>4, <2>5, WriteKeeps
<1>16. CASE ObserveEntry(p)
  <2> DEFINE new == [Own(p) EXCEPT !.entry = "observed"]
  <2>1. "observeEntry" \in Working /\ "observeHead" \in Held
    BY <1>2 DEF Creating, Archiving
  <2>2. Write(p, "observeEntry", "observeHead", new) /\ pc[p] = "observeEntry"
    BY <1>16 DEF ObserveEntry, Write
  <2>3. Own(p) \in Files /\ Unpointed(Own(p))
    BY <1>1, <2>1, <2>2 DEF StepFiles
  <2>4. new \in Files /\ Observed(new)
    BY <2>3 DEF Files, Docs, ArchivePhase, Shape, Unpointed, Observed
  <2> HIDE DEF new
  <2>5. Legal(new) /\ new.doc # "absent" /\ ("observeHead" \in Working => StepFiles("observeHead", new))
    BY <1>2, <2>4 DEF Legal, StepFiles, Shape, Observed
  <2>6. QED
    BY <2>1, <2>2, <2>4, <2>5, WriteKeeps
<1>17. CASE ObserveHead(p)
  <2> DEFINE new == [Own(p) EXCEPT !.head = "observed"]
  <2>1. "observeHead" \in Working /\ "removeArchiveGuard" \in Held
    BY <1>2 DEF Creating, Archiving
  <2>2. Write(p, "observeHead", "removeArchiveGuard", new) /\ pc[p] = "observeHead"
    BY <1>17 DEF ObserveHead, Write
  <2>3. Own(p) \in Files /\ Observed(Own(p))
    BY <1>1, <2>1, <2>2 DEF StepFiles
  <2>4. new \in Files /\ Settled(new)
    BY <2>3 DEF Files, Docs, ArchivePhase, Shape, Observed, Settled
  <2> HIDE DEF new
  <2>5. Legal(new) /\ new.doc # "absent" /\ ("removeArchiveGuard" \in Working => StepFiles("removeArchiveGuard", new))
    BY <1>2, <2>4 DEF Legal, StepFiles, Shape, Settled
  <2>6. QED
    BY <2>1, <2>2, <2>4, <2>5, WriteKeeps
<1>18. CASE RemoveArchiveGuard(p)
  <2> DEFINE new == [Own(p) EXCEPT !.guard = FALSE]
  <2>1. "removeArchiveGuard" \in Working /\ "return" \in Held
    BY <1>2 DEF Creating, Archiving
  <2>2. Write(p, "removeArchiveGuard", "return", new) /\ pc[p] = "removeArchiveGuard"
    BY <1>18 DEF RemoveArchiveGuard, Write
  <2>3. Own(p) \in Files /\ Settled(Own(p))
    BY <1>1, <2>1, <2>2 DEF StepFiles
  <2>4. new \in Files /\ Archived(new)
    BY <2>3 DEF Files, Docs, ArchivePhase, Shape, Settled, Archived
  <2> HIDE DEF new
  <2>5. Legal(new) /\ new.doc # "absent" /\ ("return" \in Working => StepFiles("return", new))
    BY <1>2, <2>4 DEF Legal, StepFiles, Shape, Archived
  <2>6. QED
    BY <2>1, <2>2, <2>4, <2>5, WriteKeeps
<1>19. QED
  BY <1>3, <1>4, <1>5, <1>6, <1>7, <1>8, <1>9, <1>10, <1>11, <1>12, <1>13, <1>14, <1>15, <1>16, <1>17, <1>18

-----------------------------------------------------------------------------
LEMMA InitInv == Init => IInv
<1> SUFFICES ASSUME Init PROVE IInv
  OBVIOUS
<1>1. \A r \in Run : files[r] = NoFiles
  BY DEF Init
<1>2. NoFiles \in Files /\ Absent(NoFiles)
  BY DEF NoFiles, Files, Docs, ArchivePhase, Absent, Shape
<1>3. StoreType
  BY <1>1, <1>2, Steps DEF Init, StoreType, Legal
<1>4. LockInv /\ StepInv
  BY Steps, FreeIsNoProcess DEF Init, LockInv, StepInv, Held
<1>5. OneLive
  BY <1>1, <1>2 DEF OneLive, NonArchived, Listed, Absent, Shape
<1>6. QED
  BY <1>3, <1>4, <1>5 DEF IInv

LEMMA NextInv == IInv /\ [Next]_vars => IInv'
<1> SUFFICES ASSUME IInv, [Next]_vars PROVE IInv'
  OBVIOUS
<1>1. CASE UNCHANGED vars
  BY <1>1 DEF vars, IInv, StoreType, LockInv, StepInv, OneLive, Alone, NonArchived, Listed
<1>2. ASSUME NEW p \in Process, Begin(p) \/ Advance(p) \/ Die(p)
      PROVE  IInv'
  <2>1. CASE Begin(p) \/ Load(p)
    <3>1. /\ pc[p] \notin Held /\ UNCHANGED <<files, lock>>
          /\ mine' = mine \/ mine' = [mine EXCEPT ![p] = NoRun]
          /\ pc' = pc \/ \E step \in Step \ Held : pc' = [pc EXCEPT ![p] = step]
      BY <2>1, LoaderSteps
    <3>2. PICK step \in Step \ Held : pc' = [pc EXCEPT ![p] = step]
      BY <3>1 DEF IInv, StoreType
    <3>3. QED
      BY <3>1, <3>2, LoaderKeeps
  <2>2. CASE \/ AcquireLock(p) \/ ScanBeforeCreate(p) \/ Reload(p) \/ ScanBeforeArchive(p)
             \/ Release(p) \/ Die(p)
    BY <2>2, ScansKeep
  <2>3. QED
    BY <1>2, <2>1, <2>2, WritesKeep DEF Advance, Create, ArchiveRun
<1>3. QED
  BY <1>1, <1>2 DEF Next

\* Any number of commands, failing and dying at any file operation, leave at
\* most one run of the workspace unfinished, and it is the newest (createRun's
\* scans under the lock of acquireRepositoryLock).
THEOREM OneLiveRun == Spec => []OneLive
<1>1. IInv => OneLive
  BY DEF IInv
<1>2. QED
  BY <1>1, InitInv, NextInv, PTL DEF Spec

\* At whatever file operation of createRun or archiveActiveRun a command fails
\* or dies, the files tell how far it came.
THEOREM FilesTellTheStage == Spec => []WriteOrder
<1>1. ASSUME NEW f \in Files, Legal(f)
      PROVE  /\ f.doc = "active" => f.pointer
             /\ f.pointer => f.doc \in {"active", "archived"} \/ f.activation
             /\ f.activation => f.doc \in {"initializing", "active"} /\ f.work = "unbound"
             /\ f.doc = "archived" => f.entry # "none" /\ f.head # "none"
             /\ f.entry # "none" => f.doc \in {"active", "archived"} /\ f.work = "bound"
             /\ f.entry = "observed" => f.doc = "archived" /\ ~f.pointer
             /\ f.doc = "archived" /\ (f.pointer \/ f.entry = "intent" \/ f.head = "intent")
                  => f.guard
  BY <1>1 DEF Legal, Shape, Absent, Made, Started, Guarded, Pointing, Activated, Opened,
        Recorded, Named, Committed, Closed, Unpointed, Observed, Settled, Archived
<1>2. IInv => WriteOrder
  BY <1>1 DEF IInv, StoreType, WriteOrder
<1>3. QED
  BY <1>2, InitInv, NextInv, PTL DEF Spec

\* What one look at the whole store reports, the active run or the last
\* archived one, is the newest run: one that was begun and never finished, at
\* either end of its life, is not hidden behind an older archive.
THEOREM UnfinishedIsNotHidden == Spec => []NewestDecides
<1>1. ASSUME IInv, NEW what \in Truth(files), NEW r \in Listed(files)
      PROVE  r <= what[2]
  <2>1. CASE what \in {"active"} \X Serving(files)
    <3>1. what[2] \in NonArchived(files)
      BY <2>1, Zenon DEF Serving, Selected
    <3>2. QED
      BY <1>1, <3>1 DEF OneLive, NonArchived, Listed, IInv
  <2>2. CASE what \in {"archived"} \X LastArchived(files)
    <3>1. /\ Uncertain(files) = {} /\ NonArchived(files) = {}
          /\ what[2] \in NewestOf({s \in Listed(files) : Terminal(files[s])})
      BY <2>2 DEF LastArchived, NoActiveRun
    <3>2. r \in Run /\ files[r].doc = "archived"
      BY <3>1, <1>1 DEF NonArchived, Listed
    <3>3. files[r] \in Files /\ Legal(files[r])
      BY <1>1, <3>2 DEF IInv, StoreType
    <3>4. files[r].entry # "none"
      BY <3>2, <3>3 DEF Legal, Shape, Absent, Made, Started, Guarded, Pointing, Activated, Opened,
            Recorded, Named, Committed, Closed, Unpointed, Observed, Settled, Archived
    <3>5. ArchiveComplete(files[r], files[r].doc, files[r].pointer)
      BY <3>1, <3>4, <1>1 DEF Uncertain
    <3>6. Terminal(files[r])
      BY <3>5 DEF ArchiveComplete, Terminal
    <3>7. QED
      BY <3>1, <3>6, <1>1 DEF NewestOf
  <2>3. QED
    BY <1>1, <2>1, <2>2 DEF Truth
<1>2. IInv => NewestDecides
  BY <1>1 DEF NewestDecides
<1>3. QED
  BY <1>2, InitInv, NextInv, PTL DEF Spec

-----------------------------------------------------------------------------
\* The stages of a run's document, as the writes go through them.
Stages == {<<"absent", "made">>, <<"made", "initializing">>, <<"initializing", "active">>,
           <<"active", "archived">>}

LEMMA StagesAreRegistrySteps ==
    ASSUME IInv, NEW p \in Process, NEW from \in Working, NEW to, NEW new \in Files,
           Write(p, from, to, new),
           new.doc = Own(p).doc \/ <<Own(p).doc, new.doc>> \in Stages
    PROVE  [Registry!Next]_(StandingOf(files))
<1> DEFINE r == mine[p]
<1>1. r \in Run /\ Alone(r) /\ files \in [Run -> Files]
  BY DEF Write, IInv, StoreType, StepInv
<1>2. CASE files' = files \/ new.doc = files[r].doc
  <2>1. \A s \in Run : files'[s].doc = files[s].doc
    BY <1>1, <1>2 DEF Write
  <2>2. StandingOf(files)' = StandingOf(files)
    BY <2>1 DEF StandingOf
  <2>3. QED
    BY <2>2
<1>3. CASE files' = [files EXCEPT ![r] = new] /\ <<files[r].doc, new.doc>> \in Stages
  <2>1. /\ \A s \in Run \ {r} : StandingOf(files)'[s] = StandingOf(files)[s]
        /\ DOMAIN StandingOf(files) = Run /\ DOMAIN StandingOf(files)' = Run
        /\ files'[r] = new
    BY <1>1, <1>3 DEF StandingOf
  <2>2. CASE files[r].doc = "absent" /\ new.doc = "made"
    <3>1. StandingOf(files)[r] = "unused" /\ StandingOf(files)'[r] = "opening"
      BY <1>1, <2>1, <2>2 DEF StandingOf
    <3>2. \A s \in Run : StandingOf(files)[s] \notin {"opening", "active"}
      BY <1>1, <3>1 DEF StandingOf, Alone
    <3>3. StandingOf(files)' = [StandingOf(files) EXCEPT ![r] = "opening"]
      BY <2>1, <3>1 DEF StandingOf
    <3>4. QED
      BY <1>1, <3>1, <3>2, <3>3 DEF Registry!Next, Registry!Open, Registry!Live
  <2>3. CASE files[r].doc = "made" /\ new.doc = "initializing"
    <3>1. StandingOf(files)[r] = "opening" /\ StandingOf(files)'[r] = "opening"
      BY <1>1, <2>1, <2>3 DEF StandingOf
    <3>2. StandingOf(files)' = StandingOf(files)
      BY <2>1, <3>1 DEF StandingOf
    <3>3. QED
      BY <3>2
  <2>4. CASE files[r].doc = "initializing" /\ new.doc = "active"
    <3>1. StandingOf(files)[r] = "opening" /\ StandingOf(files)'[r] = "active"
      BY <1>1, <2>1, <2>4 DEF StandingOf
    <3>2. StandingOf(files)' = [StandingOf(files) EXCEPT ![r] = "active"]
      BY <2>1, <3>1 DEF StandingOf
    <3>3. QED
      BY <1>1, <3>1, <3>2 DEF Registry!Next, Registry!Activate
  <2>5. CASE files[r].doc = "active" /\ new.doc = "archived"
    <3>1. StandingOf(files)[r] = "active" /\ StandingOf(files)'[r] = "archived"
      BY <1>1, <2>1, <2>5 DEF StandingOf
    <3>2. StandingOf(files)' = [StandingOf(files) EXCEPT ![r] = "archived"]
      BY <2>1, <3>1 DEF StandingOf
    <3>3. QED
      BY <1>1, <3>1, <3>2 DEF Registry!Next, Registry!Archive
  <2>6. QED
    BY <1>3, <2>2, <2>3, <2>4, <2>5 DEF Stages
<1>4. QED
  BY <1>2, <1>3 DEF Write, Own

LEMMA WritesAreRegistrySteps ==
    ASSUME IInv, NEW p \in Process, Advance(p), files' # files
    PROVE  [Registry!Next]_(StandingOf(files))
<1>1. ASSUME NEW step \in Working, pc[p] = step
      PROVE  Own(p) \in Files /\ StepFiles(step, Own(p))
  BY <1>1 DEF IInv, StoreType, StepInv, Own
<1>2. /\ Creating \ {"createRun"} \subseteq Working /\ Archiving \subseteq Working
      /\ {"operate", "settle"} \subseteq Working
  BY DEF Working
<1>3. CASE MakeRun(p) \/ Initialize(p) \/ Activate(p) \/ ArchiveDoc(p)
  <2>1. PICK from \in {"makeRun", "initialize", "activate", "archiveDoc"},
             to \in Step, doc \in Docs :
          /\ Write(p, from, to, [Own(p) EXCEPT !.doc = doc])
          /\ pc[p] = from
          /\ <<from, doc>> \in {<<"makeRun", "made">>, <<"initialize", "initializing">>,
                                <<"activate", "active">>, <<"archiveDoc", "archived">>}
    BY <1>3 DEF MakeRun, Initialize, Activate, ArchiveDoc, Write, Step, Creating, Archiving, Docs
  <2> DEFINE new == [Own(p) EXCEPT !.doc = doc]
  <2>2. from \in Working
    BY <1>2, <2>1 DEF Creating, Archiving
  <2>3. Own(p) \in Files /\ StepFiles(from, Own(p))
    BY <1>1, <2>1, <2>2
  <2>4. new \in Files /\ new.doc = doc
    BY <2>3 DEF Files
  <2>5. <<Own(p).doc, doc>> \in Stages
    BY <2>1, <2>3 DEF StepFiles, Stages, Shape, Absent, Made, Pointing, Committed
  <2> HIDE DEF new
  <2>6. QED
    BY <2>1, <2>2, <2>4, <2>5, StagesAreRegistrySteps DEF new
<1>4. CASE \/ GuardActivation(p) \/ Point(p) \/ RemoveActivation(p) \/ Operate(p) \/ Settle(p)
           \/ ArchiveIntent(p) \/ ArchiveHead(p) \/ GuardArchive(p) \/ RemovePointer(p)
           \/ ObserveEntry(p) \/ ObserveHead(p) \/ RemoveArchiveGuard(p)
  <2>1. pc[p] \in Working
    BY <1>2, <1>4 DEF Creating, Archiving, Write, GuardActivation, Point, RemoveActivation,
          Operate, Settle, ArchiveIntent, ArchiveHead, GuardArchive, RemovePointer, ObserveEntry,
          ObserveHead, RemoveArchiveGuard
  <2>2. Own(p) \in Files
    BY <1>1, <2>1
  <2> DEFINE activation(v) == [Own(p) EXCEPT !.activation = v]
             pointer(v) == [Own(p) EXCEPT !.pointer = v]
             guard(v) == [Own(p) EXCEPT !.guard = v]
             work(v) == [Own(p) EXCEPT !.work = v]
             entry(v) == [Own(p) EXCEPT !.entry = v]
             head(v) == [Own(p) EXCEPT !.head = v]
  <2>3. PICK to, x :
          \/ x \in BOOLEAN /\ \/ Write(p, pc[p], to, activation(x))
                              \/ Write(p, pc[p], to, pointer(x))
                              \/ Write(p, pc[p], to, guard(x))
          \/ x \in {"busy", "bound"} /\ Write(p, pc[p], to, work(x))
          \/ x \in ArchivePhase /\ \/ Write(p, pc[p], to, entry(x))
                                   \/ Write(p, pc[p], to, head(x))
    BY <1>4 DEF Write, GuardActivation, Point, RemoveActivation, Operate, Settle, ArchiveIntent,
          ArchiveHead, GuardArchive, RemovePointer, ObserveEntry, ObserveHead,
          RemoveArchiveGuard, ArchivePhase
  <2>4. /\ \A v \in BOOLEAN :
             /\ activation(v) \in Files /\ activation(v).doc = Own(p).doc
             /\ pointer(v) \in Files /\ pointer(v).doc = Own(p).doc
             /\ guard(v) \in Files /\ guard(v).doc = Own(p).doc
        /\ \A v \in {"busy", "bound"} : work(v) \in Files /\ work(v).doc = Own(p).doc
        /\ \A v \in ArchivePhase :
             /\ entry(v) \in Files /\ entry(v).doc = Own(p).doc
             /\ head(v) \in Files /\ head(v).doc = Own(p).doc
    BY <2>2 DEF Files
  <2> HIDE DEF activation, pointer, guard, work, entry, head
  <2>5. PICK new \in Files : Write(p, pc[p], to, new) /\ new.doc = Own(p).doc
    <3>1. CASE x \in BOOLEAN
      BY ONLY <2>3, <2>4, <3>1, Zenon
    <3>2. CASE x \in {"busy", "bound"} \/ x \in ArchivePhase
      BY ONLY <2>3, <2>4, <3>1, <3>2, Zenon
    <3>3. QED
      BY <2>3, <3>1, <3>2
  <2>6. QED
    BY <2>1, <2>5, StagesAreRegistrySteps
<1>5. CASE Load(p)
  BY <1>5, LoaderSteps
<1>6. CASE \/ AcquireLock(p) \/ ScanBeforeCreate(p) \/ Reload(p) \/ ScanBeforeArchive(p)
           \/ Release(p)
  BY <1>6 DEF AcquireLock, ScanBeforeCreate, Reload, ScanBeforeArchive, Release, disk
<1>7. QED
  BY <1>3, <1>4, <1>5, <1>6 DEF Advance, Create, ArchiveRun

\* Every step of the store is one of the registry, or none.
LEMMA RegistryStep ==
    ASSUME IInv, [Next]_vars PROVE [Registry!Next]_(StandingOf(files))
<1>1. CASE files' = files
  BY <1>1 DEF StandingOf
<1>2. CASE files' # files
  <2>1. PICK p \in Process : Begin(p) \/ Advance(p) \/ Die(p)
    BY <1>2 DEF Next, vars, disk
  <2>2. ~Begin(p) /\ ~Die(p)
    BY <1>2 DEF Begin, Die, disk
  <2>3. QED
    BY <1>2, <2>1, <2>2, WritesAreRegistrySteps
<1>3. QED
  BY <1>1, <1>2

\* Through all its file operations, failures and deaths the store opens runs
\* one at a time under new identities, activates and archives each once, and
\* never takes a step back (createRun and archiveActiveRun).
THEOREM RegistryImplemented == Spec => ImplementsRunRegistry
<1>1. Init => Registry!Init
  BY DEF Init, Registry!Init, StandingOf, NoFiles
<1>2. QED
  BY <1>1, InitInv, NextInv, RegistryStep, PTL DEF Spec, ImplementsRunRegistry, Registry!Spec
=============================================================================
