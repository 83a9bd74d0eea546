--------------------------- MODULE RepositoryLock ---------------------------
(***************************************************************************)
(* The repository mutation lock: a directory holding one owner record      *)
(* (state-internal.mjs).  Every mutating command takes it once, in a       *)
(* process of its own.  The lock is not a kernel lock: each file operation *)
(* below is a separate step, and any process may die between two of them,  *)
(* leaving the directory and the record behind.                            *)
(*                                                                         *)
(* A process's nonce (lock_id), its pid and the identity of the directory  *)
(* it made are all represented by the process itself: a process acquires   *)
(* at most once, and the nonce is 128 random bits.                         *)
(***************************************************************************)

CONSTANTS
    Process,      \* command invocations, each with its own pid
    Reclaimers,   \* attended apply: may remove a dead apply's lock
    Refusers,     \* harvest, preview, stand-down, recorder: look before they lock
    OperationId,  \* the operation id each process writes into its owner record
    None          \* no process

ASSUME ProcessKinds ==
    /\ Reclaimers \subseteq Process
    /\ Refusers \subseteq Process
    /\ Reclaimers \cap Refusers = {}
    /\ None \notin Process

VARIABLES
    dir,     \* does the lock directory exist
    owner,   \* whose owner.json it holds, or None
    pc,      \* the next step of each process
    seen,    \* the owner a process last read while inspecting
    staleReclaim  \* history: a reclaim removed a record it had not inspected

vars == <<dir, owner, pc, seen, staleReclaim>>

Ended == {"done", "lock_busy", "lock_unknown", "recovery_required"}

Steps == {"start", "inspect", "probe", "unlink dead", "remove dead", "make",
          "publish", "holding", "effect", "unlink own", "remove own", "crashed"}

Alive(p) == pc[p] \notin Ended \cup {"crashed"}

\* A process that believes it holds the lock and may cause effects.
Holds(p) == pc[p] \in {"holding", "effect"}

Goto(p, step) == pc' = [pc EXCEPT ![p] = step]

Init ==
    /\ dir = FALSE
    /\ owner = None
    /\ pc = [p \in Process |-> "start"]
    /\ seen = [p \in Process |-> None]
    /\ staleReclaim = FALSE

-----------------------------------------------------------------------------
(* Faulty variants of the operations below, for mutation testing. *)

FaultyMayReclaimAny(p) == p \in Reclaimers

FaultyReclaimLive(p) ==
    /\ pc[p] = "probe"
    /\ Goto(p, IF p \in Reclaimers THEN "unlink dead" ELSE "make")
    /\ UNCHANGED <<dir, owner, seen, staleReclaim>>

FaultyPublishOperation(p) ==
    /\ pc[p] = "publish"
    /\ owner' = OperationId[p]
    /\ Goto(p, "holding")
    /\ UNCHANGED <<dir, seen, staleReclaim>>

FaultyLeaveDir(p) ==
    /\ pc[p] = "remove own"
    /\ Goto(p, "done")
    /\ UNCHANGED <<dir, owner, seen, staleReclaim>>

-----------------------------------------------------------------------------
(* Before the lock *)

\* Apply calls reclaimDeadRepositoryLock, the refusers refuseDeadRepositoryLock;
\* assemble and the publisher go straight to acquireRepositoryLock.
Start(p) ==
    /\ pc[p] = "start"
    /\ Goto(p, IF p \in Reclaimers \cup Refusers THEN "inspect" ELSE "make")
    /\ UNCHANGED <<dir, owner, seen, staleReclaim>>

\* inspectLock: a directory without a valid record is lock_unknown.
Inspect(p) ==
    /\ pc[p] = "inspect"
    /\ seen' = [seen EXCEPT ![p] = owner]
    /\ Goto(p, IF ~dir THEN "make" ELSE IF owner = None THEN "lock_unknown" ELSE "probe")
    /\ UNCHANGED <<dir, owner, staleReclaim>>

MayReclaim(p) == p \in Reclaimers /\ OperationId[seen[p]] = OperationId[p]

\* kill(pid, 0) answers: the owner is running, or its pid was given to another
\* program.
ProbeAnswers(p) ==
    /\ pc[p] = "probe"
    /\ Goto(p, IF p \in Reclaimers THEN "lock_busy" ELSE "make")
    /\ UNCHANGED <<dir, owner, seen, staleReclaim>>

\* kill(pid, 0) fails with ESRCH: the inspected owner is dead.
ProbeDead(p) ==
    /\ pc[p] = "probe"
    /\ ~Alive(seen[p])
    /\ Goto(p, IF MayReclaim(p) THEN "unlink dead" ELSE "recovery_required")
    /\ UNCHANGED <<dir, owner, seen, staleReclaim>>

\* The reclaimer unlinks owner.json by its path, whatever record is there now.
UnlinkDead(p) ==
    /\ pc[p] = "unlink dead"
    /\ owner' = None
    /\ staleReclaim' = (staleReclaim \/ owner \notin {None, seen[p]})
    /\ Goto(p, IF owner = None THEN "lock_unknown" ELSE "remove dead")
    /\ UNCHANGED <<dir, seen>>

\* rmdir and fsync, then acquireRepositoryLock.
RemoveDead(p) ==
    /\ pc[p] = "remove dead"
    /\ dir' = (dir /\ owner # None)
    /\ Goto(p, IF dir /\ owner = None THEN "make" ELSE "lock_unknown")
    /\ UNCHANGED <<owner, seen, staleReclaim>>

-----------------------------------------------------------------------------
(* acquireRepositoryLock *)

\* mkdir is the atomic claim; an existing directory is inspected only to name
\* the refusal.
MakeDir(p) ==
    /\ pc[p] = "make"
    /\ dir' = TRUE
    /\ Goto(p, IF ~dir THEN "publish"
               ELSE IF owner # None THEN "lock_busy" ELSE "lock_unknown")
    /\ UNCHANGED <<owner, seen, staleReclaim>>

\* owner.json is linked exclusively into the directory just made.
PublishOwner(p) ==
    /\ pc[p] = "publish"
    /\ owner' = IF dir /\ owner = None THEN p ELSE owner
    /\ Goto(p, IF dir /\ owner = None THEN "holding" ELSE "lock_unknown")
    /\ UNCHANGED <<dir, seen, staleReclaim>>

-----------------------------------------------------------------------------
(* Under the lock *)

\* assertLock precedes every effect; a changed record ends the command.
AssertLock(p) ==
    /\ pc[p] = "holding"
    /\ Goto(p, IF owner = p THEN "effect" ELSE "lock_unknown")
    /\ UNCHANGED <<dir, owner, seen, staleReclaim>>

EffectDone(p) ==
    /\ pc[p] = "effect"
    /\ Goto(p, "holding")
    /\ UNCHANGED <<dir, owner, seen, staleReclaim>>

\* releaseRepositoryLock asserts, then unlinks by path and removes the directory.
AssertRelease(p) ==
    /\ pc[p] = "holding"
    /\ Goto(p, IF owner = p THEN "unlink own" ELSE "lock_unknown")
    /\ UNCHANGED <<dir, owner, seen, staleReclaim>>

UnlinkOwn(p) ==
    /\ pc[p] = "unlink own"
    /\ owner' = None
    /\ Goto(p, IF owner = None THEN "lock_unknown" ELSE "remove own")
    /\ UNCHANGED <<dir, seen, staleReclaim>>

RemoveOwn(p) ==
    /\ pc[p] = "remove own"
    /\ dir' = (dir /\ owner # None)
    /\ Goto(p, IF dir /\ owner = None THEN "done" ELSE "lock_unknown")
    /\ UNCHANGED <<owner, seen, staleReclaim>>

-----------------------------------------------------------------------------
(* The process dies, or an I/O error ends it at once: the files stay as they are. *)

Crash(p) ==
    /\ Alive(p)
    /\ pc[p] # "start"
    /\ Goto(p, "crashed")
    /\ UNCHANGED <<dir, owner, seen, staleReclaim>>

\* Every command has ended.
Finished ==
    /\ \A p \in Process : ~Alive(p)
    /\ UNCHANGED vars

Step(p) ==
    \/ Start(p) \/ Inspect(p) \/ ProbeAnswers(p) \/ ProbeDead(p)
    \/ UnlinkDead(p) \/ RemoveDead(p)
    \/ MakeDir(p) \/ PublishOwner(p)
    \/ AssertLock(p) \/ EffectDone(p)
    \/ AssertRelease(p) \/ UnlinkOwn(p) \/ RemoveOwn(p)

Next == Finished \/ \E p \in Process : Step(p) \/ Crash(p)

Spec == Init /\ [][Next]_vars

-----------------------------------------------------------------------------

TypeOK ==
    /\ dir \in BOOLEAN
    /\ owner \in Process \cup {None}
    /\ pc \in [Process -> Steps \cup Ended]
    /\ seen \in [Process -> Process \cup {None}]
    /\ staleReclaim \in BOOLEAN

\* At most one process believes it holds the lock, whatever dies and in whatever
\* order the file operations fall, as long as no reclaim removed a record other
\* than the dead one it had inspected.
Exclusion ==
    ~staleReclaim => \A p, q \in Process : Holds(p) /\ Holds(q) => p = q

\* The lock a crashed command retains is never taken away from under it except by
\* an apply of the same operation id ("any other retained lock keeps refusing").
RetainedLockRefuses ==
    [][ (owner # None /\ owner' # owner /\ pc[owner] = "crashed" /\ ~staleReclaim')
        => \E p \in Reclaimers : /\ pc[p] = "unlink dead"
                                 /\ OperationId[p] = OperationId[owner] ]_vars

\* A directory left without a record by a crash is never locked again: every later
\* command ends in lock_unknown.
Orphaned ==
    /\ dir /\ owner = None
    /\ \A p \in Process : pc[p] \notin {"publish", "remove dead", "remove own"}

OrphanRefusesForever == [][Orphaned => Orphaned']_vars

\* When every command has ended, none of them by a crash, the lock is free.
NoLeakedLock ==
    (~staleReclaim /\ \A p \in Process : pc[p] \in Ended) => ~dir /\ owner = None

\* "The attended apply action may reclaim the repository mutation lock only from a
\* dead process that held exactly its own apply operation id" (README.md:106).
ReclaimOnlyFromDead ==
    [][ \A p \in Reclaimers :
            (pc[p] = "unlink dead" /\ owner # None /\ owner' = None /\ pc'[p] = "remove dead")
            => ~Alive(owner) /\ OperationId[owner] = OperationId[p] ]_vars

-----------------------------------------------------------------------------
(* The files implement a mutation lock. *)

Making == {p \in Process : pc[p] = "publish"}
Clearing == {p \in Process : pc[p] \in {"remove dead", "remove own"}}
Acting == {p \in Process : pc[p] = "effect"}

Keeper == IF owner # None THEN {owner} ELSE Making \cup Clearing

Phase ==
    IF ~dir THEN "free"
    ELSE IF owner # None THEN IF pc[owner] = "crashed" THEN "retained" ELSE "held"
    ELSE IF Making # {} THEN "made"
    ELSE IF Clearing # {} THEN "cleared"
    ELSE "orphaned"

Mutation == INSTANCE MutationLock WITH phase <- Phase, keeper <- Keeper, acting <- Acting

\* Every file operation and every death is a step of MutationLock or none, as long as no
\* reclaim removes a record other than the dead one it had inspected.
ImplementsMutationLock ==
    Mutation!Init /\ [][staleReclaim' \/ Mutation!Next]_<<Phase, Keeper, Acting>>
=============================================================================
