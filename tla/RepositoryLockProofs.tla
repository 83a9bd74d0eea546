------------------------ MODULE RepositoryLockProofs ------------------------
(***************************************************************************)
(* Exclusion and the retained-lock property of RepositoryLock, for any set *)
(* of commands and any assignment of operation ids.                        *)
(***************************************************************************)
EXTENDS RepositoryLock, TLAPS

\* The directory of a process between its mkdir and its record, or between the
\* removal of a record and the rmdir.
Emptied == {"publish", "remove dead", "remove own"}

Recorded == {"holding", "effect", "unlink own"}

\* What a history without a stale reclaim keeps true of the two files.
FilesInv ==
    /\ \A p \in Process : pc[p] \in Recorded => dir /\ owner = p
    /\ \A p \in Process : pc[p] \in Emptied => dir /\ owner = None
    /\ \A p, q \in Process : pc[p] \in Emptied /\ pc[q] \in Emptied => p = q
    /\ owner # None => dir /\ pc[owner] \in Recorded \cup {"crashed"}

\* A process about to reclaim has inspected a record of its own operation id whose
\* writer is dead for good.
InspectedInv ==
    \A p \in Process :
        /\ pc[p] \in {"probe", "unlink dead"} => seen[p] \in Process
        /\ pc[p] = "unlink dead" => /\ ~Alive(seen[p])
                                    /\ MayReclaim(p)

IInv == InspectedInv /\ (~staleReclaim => FilesInv)

USE DEF Ended, Steps, Goto

\* Type correctness of the lock's files and of every command's step.
THEOREM TypeCorrect == Spec => []TypeOK
<1>1. Init => TypeOK
  BY DEF Init, TypeOK
<1>2. TypeOK /\ [Next]_vars => TypeOK'
  <2> SUFFICES ASSUME TypeOK, [Next]_vars PROVE TypeOK'
    OBVIOUS
  <2> USE DEF TypeOK
  <2>1. ASSUME NEW p \in Process, Step(p) PROVE TypeOK'
    <3>1. CASE Start(p) \/ Inspect(p) \/ ProbeAnswers(p) \/ ProbeDead(p)
      BY <3>1 DEF Start, Inspect, ProbeAnswers, ProbeDead
    <3>2. CASE UnlinkDead(p) \/ RemoveDead(p) \/ MakeDir(p) \/ PublishOwner(p)
      BY <3>2 DEF UnlinkDead, RemoveDead, MakeDir, PublishOwner
    <3>3. CASE AssertLock(p) \/ EffectDone(p) \/ AssertRelease(p) \/ UnlinkOwn(p)
               \/ RemoveOwn(p)
      BY <3>3 DEF AssertLock, EffectDone, AssertRelease, UnlinkOwn, RemoveOwn
    <3>4. QED
      BY <2>1, <3>1, <3>2, <3>3 DEF Step
  <2>2. ASSUME NEW p \in Process, Crash(p) PROVE TypeOK'
    BY <2>2 DEF Crash
  <2>3. CASE UNCHANGED vars
    BY <2>3 DEF vars
  <2>4. QED
    BY <2>1, <2>2, <2>3 DEF Next, Finished
<1>3. QED
  BY <1>1, <1>2, PTL DEF Spec

\* A process that has ended stays ended: no step revives it.
LEMMA EndedForever ==
    ASSUME TypeOK, [Next]_vars, NEW q \in Process, ~Alive(q)
    PROVE  ~Alive(q)'
<1>1. ASSUME NEW p \in Process, Step(p) PROVE ~Alive(q)'
  BY <1>1 DEF Alive, TypeOK, Step, Start, Inspect, ProbeAnswers, ProbeDead, UnlinkDead,
     RemoveDead, MakeDir, PublishOwner, AssertLock, EffectDone, AssertRelease, UnlinkOwn,
     RemoveOwn
<1>2. ASSUME NEW p \in Process, Crash(p) PROVE ~Alive(q)'
  BY <1>2 DEF Alive, TypeOK, Crash
<1>3. CASE UNCHANGED vars
  BY <1>3 DEF vars, Alive
<1>4. QED
  BY <1>1, <1>2, <1>3 DEF Next, Finished

\* What a reclaimer inspected stays true of it until it acts.
LEMMA InspectedStep ==
    ASSUME TypeOK, InspectedInv, [Next]_vars
    PROVE  InspectedInv'
<1> USE DEF InspectedInv, MayReclaim, TypeOK
<1>1. ASSUME NEW p \in Process, Step(p) PROVE InspectedInv'
  <2>1. CASE Inspect(p)
    BY <2>1, EndedForever DEF Inspect
  <2>2. CASE ProbeDead(p)
    BY <2>2, EndedForever DEF ProbeDead
  <2>3. CASE ~Inspect(p) /\ ~ProbeDead(p)
    <3>1. /\ seen' = seen
          /\ pc'[p] \notin {"probe", "unlink dead"}
          /\ \A q \in Process \ {p} : pc'[q] = pc[q]
      BY <1>1, <2>3 DEF Step, Start, ProbeAnswers, UnlinkDead, RemoveDead,
         MakeDir, PublishOwner, AssertLock, EffectDone, AssertRelease, UnlinkOwn, RemoveOwn
    <3>2. QED
      BY <3>1, EndedForever
  <2>4. QED
    BY <2>1, <2>2, <2>3
<1>2. ASSUME NEW p \in Process, Crash(p) PROVE InspectedInv'
  BY <1>2, EndedForever DEF Crash
<1>3. CASE UNCHANGED vars
  BY <1>3 DEF vars, Alive
<1>4. QED
  BY <1>1, <1>2, <1>3 DEF Next, Finished

\* The files follow the processes as long as no reclaim is stale.
LEMMA FilesStep ==
    ASSUME TypeOK, InspectedInv, FilesInv, ~staleReclaim', [Next]_vars
    PROVE  FilesInv'
<1> USE ProcessKinds DEF FilesInv, TypeOK, Emptied, Recorded
<1>1. ASSUME NEW p \in Process, Step(p) PROVE FilesInv'
  <2>1. CASE Start(p) \/ Inspect(p) \/ ProbeAnswers(p) \/ ProbeDead(p)
    <3>1. UNCHANGED <<dir, owner, staleReclaim>>
      BY <2>1 DEF Start, Inspect, ProbeAnswers, ProbeDead
    <3>2. /\ pc[p] \in {"start", "inspect", "probe"}
          /\ \E next \in {"inspect", "make", "lock_unknown", "probe", "lock_busy",
                          "unlink dead", "recovery_required"} :
                pc' = [pc EXCEPT ![p] = next]
      BY <2>1 DEF Start, Inspect, ProbeAnswers, ProbeDead
    <3>3. QED
      BY <3>1, <3>2
  <2>2. CASE UnlinkDead(p)
    BY <2>2 DEF UnlinkDead, InspectedInv, Alive
  <2>3. CASE RemoveDead(p)
    BY <2>3 DEF RemoveDead
  <2>4. CASE MakeDir(p)
    BY <2>4 DEF MakeDir
  <2>5. CASE PublishOwner(p)
    BY <2>5 DEF PublishOwner
  <2>6. CASE AssertLock(p) \/ EffectDone(p) \/ AssertRelease(p)
    <3>1. UNCHANGED <<dir, owner, staleReclaim>>
      BY <2>6 DEF AssertLock, EffectDone, AssertRelease
    <3>2. /\ dir /\ owner = p
          /\ pc'[p] \in Recorded
          /\ \A q \in Process \ {p} : pc'[q] = pc[q]
      BY <2>6 DEF AssertLock, EffectDone, AssertRelease
    <3>3. QED
      BY <1>1, <3>1, <3>2
  <2>7. CASE UnlinkOwn(p)
    BY <2>7 DEF UnlinkOwn
  <2>8. CASE RemoveOwn(p)
    BY <2>8 DEF RemoveOwn
  <2>9. QED
    BY <1>1, <2>1, <2>2, <2>3, <2>4, <2>5, <2>6, <2>7, <2>8 DEF Step
<1>2. ASSUME NEW p \in Process, Crash(p) PROVE FilesInv'
  <2>1. UNCHANGED <<dir, owner>> /\ pc' = [pc EXCEPT ![p] = "crashed"]
    BY <1>2 DEF Crash
  <2>2. QED
    BY <2>1
<1>3. CASE UNCHANGED vars
  BY <1>3 DEF vars
<1>4. QED
  BY <1>1, <1>2, <1>3 DEF Next, Finished

LEMMA StaleForever ==
    ASSUME [Next]_vars, staleReclaim, TypeOK PROVE staleReclaim'
BY DEF TypeOK, Next, vars, Finished, Crash, Step, Start, Inspect, ProbeAnswers, ProbeDead,
   UnlinkDead, RemoveDead, MakeDir, PublishOwner, AssertLock, EffectDone, AssertRelease,
   UnlinkOwn, RemoveOwn

THEOREM Inductive == Spec => []IInv
<1>1. Init => IInv
  BY ProcessKinds DEF Init, IInv, InspectedInv, FilesInv, Emptied, Recorded
<1>2. TypeOK /\ IInv /\ [Next]_vars => IInv'
  BY InspectedStep, FilesStep, StaleForever DEF IInv, TypeOK
<1>3. QED
  BY <1>1, <1>2, TypeCorrect, PTL DEF Spec

\* At most one command believes it holds the lock, unless a reclaim removed a record
\* it had not inspected.
THEOREM LockExclusion == Spec => []Exclusion
<1>1. IInv => Exclusion
  BY DEF IInv, FilesInv, Exclusion, Holds, Recorded
<1>2. QED
  BY <1>1, Inductive, PTL

\* A crashed command's lock is only ever reclaimed by an apply of its operation id.
THEOREM RetainedLock == Spec => RetainedLockRefuses
<1> DEFINE Kept ==
      (owner # None /\ owner' # owner /\ pc[owner] = "crashed" /\ ~staleReclaim')
      => \E p \in Reclaimers : /\ pc[p] = "unlink dead"
                               /\ OperationId[p] = OperationId[owner]
<1>1. TypeOK /\ IInv /\ [Next]_vars => [Kept]_vars
  <2> SUFFICES ASSUME TypeOK, IInv, [Next]_vars, owner # None, owner' # owner,
                      pc[owner] = "crashed", ~staleReclaim'
               PROVE  \E p \in Reclaimers : /\ pc[p] = "unlink dead"
                                            /\ OperationId[p] = OperationId[owner]
    OBVIOUS
  <2>1. ~staleReclaim /\ FilesInv
    BY StaleForever DEF IInv, TypeOK
  <2>2. PICK p \in Process : UnlinkDead(p) \/ PublishOwner(p) \/ UnlinkOwn(p)
    BY DEF Next, vars, Finished, Crash, Step, Start, Inspect, ProbeAnswers, ProbeDead,
       RemoveDead, MakeDir, AssertLock, EffectDone, AssertRelease, RemoveOwn
  <2>3. ~PublishOwner(p)
    BY DEF PublishOwner
  <2>4. ~UnlinkOwn(p)
    BY <2>1 DEF UnlinkOwn, FilesInv, Recorded
  <2>5. UnlinkDead(p)
    BY <2>2, <2>3, <2>4
  <2>6. owner = seen[p]
    BY <2>1, <2>5 DEF UnlinkDead
  <2>7. QED
    BY <2>5, <2>6 DEF UnlinkDead, IInv, InspectedInv, MayReclaim
<1>2. QED
  BY <1>1, Inductive, TypeCorrect, PTL DEF Spec, RetainedLockRefuses

\* The directory is always the work of a command that has not given it back yet: one
\* between its file operations, or one that died.
HeldBySomeone ==
    dir => \E p \in Process : pc[p] \in Emptied \cup Recorded \cup {"crashed"}

LEMMA HeldStep ==
    ASSUME TypeOK, FilesInv, HeldBySomeone, [Next]_vars
    PROVE  HeldBySomeone'
<1> USE DEF HeldBySomeone, TypeOK, Emptied, Recorded
<1>1. ASSUME NEW p \in Process, Step(p) PROVE HeldBySomeone'
  <2>1. CASE Start(p) \/ Inspect(p) \/ ProbeAnswers(p) \/ ProbeDead(p)
    <3>1. /\ dir' = dir
          /\ pc[p] \in {"start", "inspect", "probe"}
          /\ \A q \in Process \ {p} : pc'[q] = pc[q]
      BY <2>1 DEF Start, Inspect, ProbeAnswers, ProbeDead
    <3>2. QED
      BY <3>1
  <2>2. CASE UnlinkDead(p)
    <3>1. dir' = dir /\ pc[p] = "unlink dead" /\ \A q \in Process \ {p} : pc'[q] = pc[q]
      BY <2>2 DEF UnlinkDead
    <3>2. QED
      BY <3>1
  <2>3. CASE RemoveDead(p)
    BY <2>3 DEF RemoveDead, FilesInv
  <2>4. CASE MakeDir(p)
    <3>1. CASE dir
      <4>1. pc[p] = "make" /\ \A q \in Process \ {p} : pc'[q] = pc[q]
        BY <2>4 DEF MakeDir
      <4>2. QED
        BY <3>1, <4>1
    <3>2. CASE ~dir
      <4>1. pc'[p] = "publish"
        BY <2>4, <3>2 DEF MakeDir
      <4>2. QED
        BY <4>1
    <3>3. QED
      BY <3>1, <3>2
  <2>5. CASE PublishOwner(p)
    <3>1. pc'[p] = "holding"
      BY <2>5 DEF PublishOwner, FilesInv
    <3>2. QED
      BY <3>1
  <2>6. CASE AssertLock(p) \/ EffectDone(p) \/ AssertRelease(p) \/ UnlinkOwn(p)
    <3>1. pc'[p] \in {"effect", "holding", "unlink own", "remove own"}
      <4>1. owner = p
        BY <2>6, ProcessKinds
           DEF AssertLock, EffectDone, AssertRelease, UnlinkOwn, FilesInv
      <4>2. owner # None
        BY <4>1, ProcessKinds
      <4>3. QED
        BY <2>6, <4>1, <4>2 DEF AssertLock, EffectDone, AssertRelease, UnlinkOwn
    <3>2. QED
      BY <3>1
  <2>7. CASE RemoveOwn(p)
    BY <2>7 DEF RemoveOwn, FilesInv
  <2>8. QED
    BY <1>1, <2>1, <2>2, <2>3, <2>4, <2>5, <2>6, <2>7 DEF Step
<1>2. ASSUME NEW p \in Process, Crash(p) PROVE HeldBySomeone'
  <2>1. pc'[p] = "crashed"
    BY <1>2 DEF Crash
  <2>2. QED
    BY <2>1
<1>3. CASE UNCHANGED vars
  BY <1>3 DEF vars
<1>4. QED
  BY <1>1, <1>2, <1>3 DEF Next, Finished

\* Commands that all end without dying leave no lock behind, unless a reclaim removed a
\* record it had not inspected.
THEOREM LockGivenBack == Spec => []NoLeakedLock
<1> DEFINE Held == ~staleReclaim => HeldBySomeone
<1>1. Init => Held
  BY DEF Init, HeldBySomeone
<1>2. TypeOK /\ IInv /\ Held /\ [Next]_vars => Held'
  BY HeldStep, StaleForever DEF IInv, TypeOK
<1>3. IInv /\ Held => NoLeakedLock
  BY DEF IInv, FilesInv, HeldBySomeone, NoLeakedLock, Emptied, Recorded
<1>4. QED
  BY <1>1, <1>2, <1>3, Inductive, TypeCorrect, PTL DEF Spec

\* A directory that a death left without a record is never locked or removed again.
THEOREM OrphanStays == Spec => OrphanRefusesForever
<1>1. TypeOK /\ [Next]_vars => [Orphaned => Orphaned']_vars
  <2> SUFFICES ASSUME TypeOK, [Next]_vars, Orphaned PROVE Orphaned'
    OBVIOUS
  <2> USE DEF Orphaned, TypeOK
  <2>1. ASSUME NEW p \in Process, Step(p) PROVE Orphaned'
    BY <2>1 DEF Step, Start, Inspect, ProbeAnswers, ProbeDead, UnlinkDead, RemoveDead,
       MakeDir, PublishOwner, AssertLock, EffectDone, AssertRelease, UnlinkOwn, RemoveOwn
  <2>2. ASSUME NEW p \in Process, Crash(p) PROVE Orphaned'
    BY <2>2 DEF Crash
  <2>3. CASE UNCHANGED vars
    BY <2>3 DEF vars
  <2>4. QED
    BY <2>1, <2>2, <2>3 DEF Next, Finished
<1>2. QED
  BY <1>1, TypeCorrect, PTL DEF Spec, OrphanRefusesForever

-----------------------------------------------------------------------------
(* The files implement a mutation lock. *)

\* What the files and the commands' positions say of the lock.
Looks(phase, keeper, acting) ==
    Phase = phase /\ Keeper = keeper /\ Acting = acting

\* The phase that belongs to each state of the files.
Look ==
    /\ ~dir => Looks("free", {}, {})
    /\ \A p \in Process :
          /\ pc[p] = "publish" => Looks("made", {p}, {})
          /\ pc[p] \in {"remove dead", "remove own"} => Looks("cleared", {p}, {})
          /\ pc[p] \in {"holding", "unlink own"} => Looks("held", {p}, {})
          /\ pc[p] = "effect" => Looks("held", {p}, {p})
          /\ owner = p /\ pc[p] = "crashed" => Looks("retained", {p}, {})
    /\ dir /\ owner = None /\ (\A p \in Process : pc[p] \notin Emptied)
          => Looks("orphaned", {}, {})

LEMMA LooksAtFiles == TypeOK /\ FilesInv => Look
<1> SUFFICES ASSUME TypeOK, FilesInv PROVE Look
  OBVIOUS
<1> USE ProcessKinds DEF FilesInv, TypeOK, Emptied, Recorded
<1>1. ASSUME owner = None
      PROVE  Acting = {} /\ Keeper = Making \cup Clearing
  BY <1>1 DEF Acting, Keeper
<1>2. ASSUME NEW p \in Process, owner = p
      PROVE  /\ Keeper = {p}
             /\ Acting = IF pc[p] = "effect" THEN {p} ELSE {}
             /\ Phase = IF pc[p] = "crashed" THEN "retained" ELSE "held"
  BY <1>2 DEF Acting, Keeper, Phase
<1>3. ~dir => Looks("free", {}, {})
  BY <1>1 DEF Looks, Phase, Making, Clearing
<1>4. ASSUME NEW p \in Process, pc[p] = "publish" PROVE Looks("made", {p}, {})
  <2>1. Making = {p} /\ Clearing = {}
    BY <1>4 DEF Making, Clearing
  <2>2. QED
    BY <1>1, <1>4, <2>1 DEF Looks, Phase
<1>5. ASSUME NEW p \in Process, pc[p] \in {"remove dead", "remove own"}
      PROVE  Looks("cleared", {p}, {})
  <2>1. \A q \in Process : pc[q] \in Emptied => q = p
    BY <1>5
  <2>2. Making = {}
    BY <1>5, <2>1 DEF Making
  <2>3. Clearing = {p}
    BY <1>5, <2>1 DEF Clearing
  <2>4. QED
    BY <1>1, <1>5, <2>2, <2>3 DEF Looks, Phase
<1>6. ASSUME dir, owner = None, \A p \in Process : pc[p] \notin Emptied
      PROVE  Looks("orphaned", {}, {})
  <2>1. Making = {} /\ Clearing = {}
    BY <1>6 DEF Making, Clearing
  <2>2. QED
    BY <1>1, <1>6, <2>1 DEF Looks, Phase
<1>7. QED
  BY <1>2, <1>3, <1>4, <1>5, <1>6 DEF Look, Looks

\* A step that keeps the files and moves no command into or out of a locked position
\* keeps the phase.
LEMMA LooksTheSame ==
    ASSUME TypeOK, TypeOK', UNCHANGED <<dir, owner>>, NEW p \in Process,
           \A q \in Process \ {p} : pc'[q] = pc[q],
           pc[p] \notin Emptied \cup {"effect", "crashed"},
           pc'[p] \notin Emptied \cup {"effect"},
           pc'[p] = "crashed" => owner # p
    PROVE  UNCHANGED <<Phase, Keeper, Acting>>
<1>1. Making' = Making /\ Clearing' = Clearing /\ Acting' = Acting
  BY DEF Making, Clearing, Acting, Emptied
<1>2. Keeper' = Keeper
  BY <1>1 DEF Keeper
<1>3. owner # None => (pc'[owner] = "crashed" <=> pc[owner] = "crashed")
  BY DEF TypeOK
<1>4. QED
  BY <1>1, <1>2, <1>3 DEF Phase

\* Each file operation and each death is a step of the lock or none.
LEMMA MutationSteps ==
    ASSUME TypeOK, TypeOK', InspectedInv, FilesInv, FilesInv', Look, Look',
           ~staleReclaim', [Next]_vars
    PROVE  Mutation!Next \/ UNCHANGED <<Phase, Keeper, Acting>>
<1> USE ProcessKinds DEF Looks
<1> DEFINE Same == UNCHANGED <<Phase, Keeper, Acting>>
<1>1. ASSUME NEW p \in Process, Step(p) PROVE Mutation!Next \/ Same
  <2>0. p # None
    OBVIOUS
  <2>1. CASE Start(p) \/ Inspect(p) \/ ProbeAnswers(p) \/ ProbeDead(p)
    <3>1. /\ UNCHANGED <<dir, owner>>
          /\ pc[p] \in {"start", "inspect", "probe"}
          /\ pc'[p] \in {"inspect", "make", "lock_unknown", "probe", "lock_busy",
                         "unlink dead", "recovery_required"}
          /\ \A q \in Process \ {p} : pc'[q] = pc[q]
      BY <2>1 DEF Start, Inspect, ProbeAnswers, ProbeDead, TypeOK
    <3>2. QED
      BY <3>1, LooksTheSame DEF Emptied
  <2>2. CASE UnlinkDead(p)
    <3>1. CASE owner = None
      <4>1. /\ UNCHANGED <<dir, owner>>
            /\ pc[p] = "unlink dead" /\ pc'[p] = "lock_unknown"
            /\ \A q \in Process \ {p} : pc'[q] = pc[q]
        BY <2>2, <3>1 DEF UnlinkDead, TypeOK
      <4>2. QED
        BY <4>1, LooksTheSame DEF Emptied
    <3>2. CASE owner # None
      <4>1. /\ owner = seen[p] /\ owner \in Process
            /\ p \in Reclaimers /\ OperationId[owner] = OperationId[p]
            /\ ~Alive(owner)
        BY <2>2, <3>2 DEF UnlinkDead, InspectedInv, MayReclaim, TypeOK
      <4>2. pc[owner] = "crashed"
        BY <3>2, <4>1 DEF Alive, FilesInv, Recorded
      <4>3. pc'[p] = "remove dead"
        BY <2>2, <3>2 DEF UnlinkDead, TypeOK
      <4>4. Mutation!Reclaim(p, owner)
        BY <4>1, <4>2, <4>3 DEF Look, Mutation!Reclaim
      <4>5. QED
        BY <4>1, <4>4 DEF Mutation!Next
    <3>3. QED
      BY <3>1, <3>2
  <2>3. CASE RemoveDead(p) \/ RemoveOwn(p)
    <3>1. pc[p] \in {"remove dead", "remove own"} /\ ~dir'
      BY <2>3 DEF RemoveDead, RemoveOwn, FilesInv, Emptied
    <3>2. Mutation!Free(p)
      BY <3>1 DEF Look, Mutation!Free
    <3>3. QED
      BY <3>2 DEF Mutation!Next
  <2>4. CASE MakeDir(p)
    <3>1. CASE dir
      <4>1. /\ UNCHANGED <<dir, owner>>
            /\ pc[p] = "make" /\ pc'[p] \in {"lock_busy", "lock_unknown"}
            /\ \A q \in Process \ {p} : pc'[q] = pc[q]
        BY <2>4, <3>1 DEF MakeDir, TypeOK
      <4>2. QED
        BY <4>1, LooksTheSame DEF Emptied
    <3>2. CASE ~dir
      <4>1. pc'[p] = "publish"
        BY <2>4, <3>2 DEF MakeDir, TypeOK
      <4>2. Mutation!Make(p)
        BY <3>2, <4>1 DEF Look, Mutation!Make
      <4>3. QED
        BY <4>2 DEF Mutation!Next
    <3>3. QED
      BY <3>1, <3>2
  <2>5. CASE PublishOwner(p)
    <3>1. pc[p] = "publish" /\ pc'[p] = "holding"
      BY <2>5 DEF PublishOwner, FilesInv, Emptied, TypeOK
    <3>2. Mutation!Take(p)
      BY <3>1 DEF Look, Mutation!Take, Mutation!Passes
    <3>3. QED
      BY <3>2 DEF Mutation!Next
  <2>6. CASE AssertLock(p)
    <3>1. pc[p] = "holding" /\ pc'[p] = "effect"
      BY <2>6 DEF AssertLock, FilesInv, Recorded, TypeOK
    <3>2. Mutation!Act(p)
      BY <3>1 DEF Look, Mutation!Act
    <3>3. QED
      BY <3>2 DEF Mutation!Next
  <2>7. CASE EffectDone(p)
    <3>1. pc[p] = "effect" /\ pc'[p] = "holding"
      BY <2>7 DEF EffectDone, TypeOK
    <3>2. Mutation!Rest
      BY <3>1 DEF Look, Mutation!Rest
    <3>3. QED
      BY <3>2 DEF Mutation!Next
  <2>8. CASE AssertRelease(p)
    <3>1. pc[p] = "holding" /\ pc'[p] = "unlink own"
      BY <2>8 DEF AssertRelease, FilesInv, Recorded, TypeOK
    <3>2. QED
      BY <3>1 DEF Look
  <2>9. CASE UnlinkOwn(p)
    <3>1. pc[p] = "unlink own"
      BY <2>9 DEF UnlinkOwn
    <3>2. owner = p
      BY <3>1 DEF FilesInv, Recorded
    <3>3. pc'[p] = "remove own"
      BY <2>0, <2>9, <3>2 DEF UnlinkOwn, TypeOK
    <3>4. Mutation!Clear(p)
      BY <3>1, <3>3 DEF Look, Mutation!Clear, Mutation!Passes
    <3>5. QED
      BY <3>4 DEF Mutation!Next
  <2>10. QED
    BY <1>1, <2>1, <2>2, <2>3, <2>4, <2>5, <2>6, <2>7, <2>8, <2>9 DEF Step
<1>2. ASSUME NEW p \in Process, Crash(p) PROVE Mutation!Next \/ Same
  <2>1. /\ UNCHANGED <<dir, owner>> /\ pc'[p] = "crashed"
        /\ \A q \in Process \ {p} : pc'[q] = pc[q]
    BY <1>2 DEF Crash, TypeOK
  <2>2. CASE pc[p] \in Recorded
    <3>1. owner = p /\ owner' = p
      BY <2>1, <2>2 DEF FilesInv
    <3>2. Looks("held", {p}, Acting)
      BY <2>2 DEF Look, Recorded
    <3>3. Phase' = "retained" /\ Keeper' = {p} /\ Acting' = {}
      BY <2>1, <3>1 DEF Look
    <3>4. Mutation!Die
      BY <3>2, <3>3 DEF Mutation!Die
    <3>5. QED
      BY <3>4 DEF Mutation!Next
  <2>3. CASE pc[p] \in Emptied
    <3>1. Phase \in {"made", "cleared"}
      BY <2>3 DEF Look, Emptied
    <3>2. dir' /\ owner' = None /\ \A q \in Process : pc'[q] \notin Emptied
      BY <2>1, <2>3 DEF FilesInv, Emptied
    <3>3. Phase' = "orphaned" /\ Keeper' = {} /\ Acting' = {}
      BY <3>2 DEF Look
    <3>4. Mutation!Die
      BY <3>1, <3>3 DEF Mutation!Die
    <3>5. QED
      BY <3>4 DEF Mutation!Next
  <2>4. CASE pc[p] \notin Recorded \cup Emptied
    <3>1. pc[p] # "crashed"
      BY <1>2 DEF Crash, Alive
    <3>2. owner # p
      BY <2>4, <3>1 DEF FilesInv
    <3>3. QED
      BY <2>1, <2>4, <3>1, <3>2, LooksTheSame DEF Emptied, Recorded
  <2>5. QED
    BY <2>2, <2>3, <2>4
<1>3. CASE UNCHANGED vars
  BY <1>3 DEF vars, Phase, Keeper, Acting, Making, Clearing
<1>4. QED
  BY <1>1, <1>2, <1>3 DEF Next, Finished

\* The lock directory, its record and the commands that read, write and remove them one
\* file operation at a time implement a mutation lock, unless a reclaim removed a record
\* it had not inspected.
THEOREM LockImplementsMutation == Spec => ImplementsMutationLock
<1>1. Init => Mutation!Init
  BY DEF Init, Mutation!Init, Phase, Keeper, Acting, Making, Clearing
<1>2. TypeOK /\ TypeOK' /\ IInv /\ IInv' /\ (~staleReclaim' => Look') /\ [Next]_vars
      => [staleReclaim' \/ Mutation!Next]_<<Phase, Keeper, Acting>>
  BY MutationSteps, StaleForever, LooksAtFiles DEF IInv
<1>3. TypeOK /\ IInv => (~staleReclaim => Look)
  BY LooksAtFiles DEF IInv
<1>4. QED
  BY <1>1, <1>2, <1>3, Inductive, TypeCorrect, PTL DEF Spec, ImplementsMutationLock
=============================================================================
