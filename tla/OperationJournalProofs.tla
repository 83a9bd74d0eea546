------------------------ MODULE OperationJournalProofs ----------------------
(***************************************************************************)
(* The journal's safety properties and its refinement of AtMostOnce, for   *)
(* any operations, prerequisites and exclusions, and for any sequence of   *)
(* requests, failed writes, deaths and moves of the target ref.            *)
(***************************************************************************)
EXTENDS OperationJournal, SequenceTheorems, TLAPS

Position == 1 .. Len(entries)

\* The command has written, or found, the entry of its operation, and nobody
\* relies on a success.
Pending == entries # <<>> /\ Last.op = op /\ told[op] # "ok"

Fresh ==
    /\ Pending /\ told[op] = "none"
    /\ Last.phase = "intent" /\ Last.result = "none" /\ effects[op] = 0

\* What a command is about to record of its own effect is true.
Decided ==
    \/ result = "performed" /\ effects[op] = 1
    \/ result = "declined" /\ effects[op] = 0 /\ op \in Publication

\* What a resolution read off the target is true, unless outsiders moved it.
Believed ==
    /\ op \in Publication /\ result \in {"performed", "declined"}
    /\ op \notin meddled => Decided

\* What each step of the running command relies on.
StepInv ==
    /\ pc = "intent entry" =>
          Clean /\ Admissible(op) /\ op \notin Recorded /\ result = "none" /\ told[op] = "none"
    /\ pc \in {"intent head", "guard"} => Fresh /\ guards = {}
    /\ pc \in {"guarded", "effect"} => Fresh /\ guards = {op}
    /\ pc = "result entry" => Pending /\ guards = {op} /\ Last.phase = "intent" /\ Decided
    /\ pc \in {"result head", "result guard"} =>
          /\ Pending /\ guards = {op} /\ Decided
          /\ Last.phase = "observed" /\ Last.result = result
    /\ pc \in {"catch", "attention entry"} =>
          /\ Pending /\ guards = {op}
          /\ result \in {"unknown", "not started"}
          /\ result = "not started" => effects[op] = 0
    /\ pc \in {"attention head", "attention guard"} =>
          Pending /\ guards = {op} /\ Last.phase = "needs_attention"
    /\ pc = "resolve entry" =>
          Pending /\ Last.phase # "observed" /\ Believed
    /\ pc \in {"resolve head", "resolve guard"} =>
          /\ Pending /\ Believed
          /\ Last.phase = "observed" /\ Last.result = result

\* One entry per operation, all but the last of them observed, and at most the
\* last one guarded.
DiskInv ==
    /\ \A i, j \in Position : entries[i].op = entries[j].op => i = j
    /\ \A i \in Position : i < Len(entries) => entries[i].phase = "observed"
    /\ guards # {} => entries # <<>> /\ guards = {Last.op}

TruthfulEntry(e) ==
    /\ e.result = "not started" => effects[e.op] = 0
    /\ e.op \notin meddled =>
          /\ e.result = "performed" => effects[e.op] = 1
          /\ e.result = "declined" => effects[e.op] = 0
    /\ e.phase = "observed" => e.result \in {"performed", "declined"}

\* An effect happens once, after its entry, and the entries are true.
EffectInv ==
    /\ EffectAtMostOnce
    /\ \A o \in Operation : effects[o] > 0 => \E i \in Position : entries[i].op = o
    /\ \A i \in Position : TruthfulEntry(entries[i])

\* As long as outsiders leave it alone, the target tells of the publication in doubt.
TargetInv == \A q \in InDoubt : q \notin meddled => (target = "final" <=> effects[q] = 1)

\* An operation was recorded after its prerequisites and after nothing it excludes.
Ordered(s, i) ==
    /\ \A q \in Requires[s[i].op] : \E j \in 1 .. (i - 1) : s[j].op = q
    /\ \A j \in 1 .. (i - 1) : s[j].op \notin Excludes[s[i].op]

OrderInv == \A i \in Position : Ordered(entries, i)

\* What the callers were told still holds.
ToldInv ==
    \A o \in Operation :
        /\ told[o] = "ok" =>
              \E i \in Position : entries[i].op = o /\ entries[i].phase = "observed"
        /\ told[o] = "error" => effects[o] = 0

IInv == TypeOK /\ StepInv /\ DiskInv /\ EffectInv /\ TargetInv /\ OrderInv /\ ToldInv

-----------------------------------------------------------------------------
(* How the entries change *)

LEMMA Positions ==
    ASSUME TypeOK
    PROVE  /\ Len(entries) \in Nat /\ DOMAIN entries = Position
           /\ entries # <<>> => Len(entries) \in Position
           /\ entries = <<>> => Position = {}
           /\ \A i \in Position : entries[i] \in Entry
<1>1. entries \in Seq(Entry)
  BY DEF TypeOK
<1>2. Len(entries) \in Nat /\ DOMAIN entries = 1 .. Len(entries)
  BY <1>1, LenProperties
<1>3. entries = <<>> <=> Len(entries) = 0
  BY <1>1, EmptySeq
<1>4. \A i \in Position : entries[i] \in Entry
  BY <1>1, ElementOfSeq DEF Position
<1>5. QED
  BY <1>2, <1>3, <1>4 DEF Position

LEMMA EntryFields ==
    ASSUME NEW e \in Entry
    PROVE  e.op \in Operation /\ e.phase \in Phase /\ e.result \in Result
BY Zenon DEF Entry

LEMMA RecordedAt ==
    ASSUME TypeOK
    PROVE  /\ \A o : o \in Recorded <=> \E i \in Position : entries[i].op = o
           /\ \A o : o \in Observed <=>
                 \E i \in Position : entries[i].op = o /\ entries[i].phase = "observed"
BY Positions DEF Recorded, Observed

\* A fresh entry of op was added.
Grown ==
    /\ entries' \in Seq(Entry) /\ Len(entries') = Len(entries) + 1
    /\ \A i \in Position : entries'[i] = entries[i]
    /\ Last'.op = op /\ Last'.phase = "intent" /\ Last'.result = "none"
    /\ Last'.prev = run.head

\* The last entry was rewritten.
Changed(phase) ==
    /\ entries' \in Seq(Entry) /\ Len(entries') = Len(entries)
    /\ \A i \in Position : i # Len(entries) => entries'[i] = entries[i]
    /\ Last'.op = Last.op /\ Last'.phase = phase /\ Last'.result = result
    /\ Last'.prev = Last.prev

LEMMA AppendGrows ==
    ASSUME TypeOK, result = "none", entries' = Append(entries, NewEntry)
    PROVE  Grown
<1>1. /\ run.head \in {NoDigest} \cup (Operation \X Phase)
      /\ op \in Operation /\ entries \in Seq(Entry)
  BY DEF TypeOK
<1>2. "intent" \in Phase /\ "none" \in Result
  BY DEF Phase, Result
<1>3. NewEntry \in Entry
  BY <1>1, <1>2, Zenon DEF NewEntry, Entry
<1>4. NewEntry.op = op /\ NewEntry.phase = "intent" /\ NewEntry.result = "none"
      /\ NewEntry.prev = run.head
  BY Zenon DEF NewEntry
<1>5. /\ entries' \in Seq(Entry) /\ Len(entries') = Len(entries) + 1
      /\ \A i \in 1 .. Len(entries) : entries'[i] = entries[i]
      /\ entries'[Len(entries) + 1] = NewEntry
  BY <1>1, <1>3, AppendProperties
<1>6. Last' = NewEntry
  BY <1>5 DEF Last
<1>7. QED
  BY <1>4, <1>5, <1>6 DEF Grown, Position

LEMMA RewriteChanges ==
    ASSUME TypeOK, entries # <<>>, NEW phase \in Phase, entries' = Rewritten(phase)
    PROVE  Changed(phase) /\ entries' # <<>>
<1> DEFINE n == Len(entries)
           once == [entries[n] EXCEPT !.phase = phase]
           twice == [once EXCEPT !.result = result]
           s == [entries EXCEPT ![n] = once]
<1>1. entries \in Seq(Entry) /\ result \in Result
  BY DEF TypeOK
<1>2. n \in 1 .. Len(entries) /\ entries[n] \in Entry
  BY Positions DEF Position
<1>3. once \in Entry /\ once.op = entries[n].op /\ once.phase = phase
      /\ once.prev = entries[n].prev
  BY <1>2, Zenon DEF Entry
<1>4. twice \in Entry /\ twice.op = once.op /\ twice.phase = once.phase /\ twice.result = result
      /\ twice.prev = once.prev
  BY <1>1, <1>3, Zenon DEF Entry
<1>5. /\ s \in Seq(Entry) /\ Len(s) = n /\ s[n] = once
      /\ \A i \in 1 .. n : i # n => s[i] = entries[i]
  BY <1>1, <1>2, <1>3, ExceptSeq
<1>6. entries' = [s EXCEPT ![n] = twice]
  BY <1>5, Zenon DEF Rewritten
<1>7. /\ entries' \in Seq(Entry) /\ Len(entries') = n /\ entries'[n] = twice
      /\ \A i \in 1 .. n : i # n => entries'[i] = s[i]
  BY <1>2, <1>4, <1>5, <1>6, ExceptSeq
<1>8. Last' = twice /\ Last = entries[n]
  BY <1>7 DEF Last
<1>9. entries' # <<>>
  BY <1>2, <1>7, EmptySeq
<1>10. QED
  BY <1>3, <1>4, <1>5, <1>7, <1>8, <1>9 DEF Changed, Position

\* Nobody touches the target.
Calm == UNCHANGED <<target, meddled>>

\* The kinds of steps, by what they do to the entries, the guards and the effects.
Still == UNCHANGED <<entries, guards, effects>> /\ (Calm \/ MoveTarget)

Starts ==
    /\ pc = "intent entry" /\ Grown /\ UNCHANGED <<guards, effects, target>>
    /\ meddled' = IF op \in Publication /\ target = "final" THEN meddled \cup {op} ELSE meddled

Rewrites ==
    \E phase \in {"observed", "needs_attention"} :
        /\ phase = "observed" => pc \in {"result entry", "resolve entry"}
        /\ phase = "needs_attention" => pc = "attention entry"
        /\ Changed(phase) /\ Calm /\ UNCHANGED <<guards, effects>>

Guarded == pc = "guard" /\ guards' = {op} /\ Calm /\ UNCHANGED <<entries, effects>>

Unguarded ==
    /\ pc \in {"result guard", "attention guard", "resolve guard"}
    /\ guards' = {} /\ Calm /\ UNCHANGED <<entries, effects>>

Kinds == Still \/ Starts \/ Rewrites \/ Guarded \/ Unguarded \/ Perform

LEMMA Steps ==
    ASSUME TypeOK, StepInv, DiskInv, [Next]_vars
    PROVE  Kinds
<1> USE DEF Kinds, world, Calm
<1>1. ASSUME NEW w \in Outcome, Publish(w) PROVE Kinds
  <2>1. CASE PublishIntentEntry(w)
    BY <2>1, AppendGrows DEF PublishIntentEntry, StepInv, Starts, Still
  <2>2. CASE WriteResultEntry(w)
    BY <2>2, RewriteChanges
       DEF WriteResultEntry, StepInv, Pending, Rewrites, Still, Phase
  <2>3. CASE WriteAttentionEntry(w)
    BY <2>3, RewriteChanges
       DEF WriteAttentionEntry, StepInv, Pending, Rewrites, Still, Phase
  <2>4. CASE ResolveEntry(w)
    BY <2>4, RewriteChanges
       DEF ResolveEntry, StepInv, Pending, Rewrites, Still, Phase
  <2>5. CASE PublishIntentHead(w) \/ WriteResultHead(w) \/ WriteAttentionHead(w) \/ ResolveHead(w)
    BY <2>5 DEF PublishIntentHead, WriteResultHead, WriteAttentionHead, ResolveHead, Still
  <2>6. CASE PublishGuard(w)
    BY <2>6 DEF PublishGuard, StepInv, Guarded, Still
  <2>7. CASE RemoveGuard(w)
    BY <2>7 DEF RemoveGuard, StepInv, Unguarded, Still
  <2>8. CASE RemoveAttentionGuard(w)
    BY <2>8 DEF RemoveAttentionGuard, StepInv, Unguarded, Still
  <2>9. CASE ResolveGuard(w)
    BY <2>9 DEF ResolveGuard, StepInv, DiskInv, Pending, Unguarded, Still
  <2>10. QED
    BY <1>1, <2>1, <2>2, <2>3, <2>4, <2>5, <2>6, <2>7, <2>8, <2>9 DEF Publish
<1>2. CASE \E kind \in {"apply", "other"} : Open(kind)
  BY <1>2 DEF Open, disk, Still
<1>3. CASE Close \/ Crash \/ RefuseRetainedLock \/ UNCHANGED vars
  BY <1>3 DEF Close, Crash, RefuseRetainedLock, disk, vars, Still
<1>4. CASE \E o \in Operation : Begin(o) \/ Replay(o) \/ Refuse(o)
  BY <1>4 DEF Begin, Replay, Refuse, disk, Still
<1>5. CASE AssertBeforeEffect \/ FailEffect \/ DeclineEffect \/ AssertBeforeAttention
  BY <1>5 DEF AssertBeforeEffect, FailEffect, DeclineEffect, AssertBeforeAttention, disk, Still
<1>6. CASE BeginResolution \/ RefuseResolution
  BY <1>6 DEF BeginResolution, RefuseResolution, disk, Still
<1>7. CASE MoveTarget
  <2>1. UNCHANGED <<entries, guards, effects>>
    BY <1>7 DEF MoveTarget, disk
  <2>2. QED
    BY <1>7, <2>1 DEF Still
<1>8. QED
  BY <1>1, <1>2, <1>3, <1>4, <1>5, <1>6, <1>7 DEF Next

\* What outsiders have done stays done.
LEMMA MeddledGrows ==
    ASSUME Kinds
    PROVE  meddled \subseteq meddled'
BY Zenon DEF Kinds, Still, Calm, MoveTarget, Starts, Rewrites, Guarded, Unguarded, Perform

-----------------------------------------------------------------------------
(* Type correctness *)

\* What Leave and the other assignments to told and session may write.
LEMMA AnswersTyped ==
    ASSUME TypeOK, [Next]_vars
    PROVE  told' \in [Operation -> Answer] /\ session' \in {"none", "apply", "other"}
<1>1. told \in [Operation -> Answer] /\ session \in {"none", "apply", "other"}
  BY DEF TypeOK
<1> USE DEF Tell, Leave
<1>2. {"ok", "error", "none"} = Answer
  BY DEF Answer
<1>3. ASSUME NEW w \in Outcome, Publish(w)
      PROVE  told' \in [Operation -> Answer] /\ session' \in {"none", "apply", "other"}
  <2>1. CASE PublishIntentEntry(w) \/ PublishIntentHead(w) \/ PublishGuard(w)
    BY <1>1, <1>2, <2>1 DEF PublishIntentEntry, PublishIntentHead, PublishGuard
  <2>2. CASE WriteResultEntry(w) \/ WriteResultHead(w) \/ RemoveGuard(w)
    BY <1>1, <1>2, <2>2 DEF WriteResultEntry, WriteResultHead, RemoveGuard
  <2>3. CASE WriteAttentionEntry(w) \/ WriteAttentionHead(w) \/ RemoveAttentionGuard(w)
    BY <1>1, <1>2, <2>3 DEF WriteAttentionEntry, WriteAttentionHead, RemoveAttentionGuard
  <2>4. CASE ResolveEntry(w) \/ ResolveHead(w) \/ ResolveGuard(w)
    BY <1>1, <1>2, <2>4 DEF ResolveEntry, ResolveHead, ResolveGuard
  <2>5. QED
    BY <1>3, <2>1, <2>2, <2>3, <2>4 DEF Publish
<1>4. CASE \E kind \in {"apply", "other"} : Open(kind)
  BY <1>1, <1>4 DEF Open
<1>5. CASE Close \/ Crash \/ RefuseRetainedLock \/ MoveTarget \/ UNCHANGED vars
  BY <1>1, <1>5 DEF Close, Crash, RefuseRetainedLock, MoveTarget, vars
<1>6. CASE \E o \in Operation : Begin(o) \/ Replay(o) \/ Refuse(o)
  BY <1>1, <1>2, <1>6 DEF Begin, Replay, Refuse
<1>7. CASE AssertBeforeEffect \/ Perform \/ FailEffect \/ DeclineEffect \/ AssertBeforeAttention
  BY <1>1, <1>2, <1>7
     DEF AssertBeforeEffect, Perform, FailEffect, DeclineEffect, AssertBeforeAttention
<1>8. CASE BeginResolution \/ RefuseResolution
  BY <1>1, <1>8 DEF BeginResolution, RefuseResolution
<1>9. QED
  BY <1>3, <1>4, <1>5, <1>6, <1>7, <1>8 DEF Next

LEMMA RegistersTyped ==
    ASSUME TypeOK, [Next]_vars
    PROVE  pc' \in Step /\ op' \in Operation /\ result' \in Result
<1>1. pc \in Step /\ op \in Operation /\ result \in Result
  BY DEF TypeOK
<1> USE DEF Step, Result, Leave
<1>2. ASSUME NEW w \in Outcome, Publish(w)
      PROVE  pc' \in Step /\ op' \in Operation /\ result' \in Result
  <2>1. CASE PublishIntentEntry(w) \/ PublishIntentHead(w) \/ PublishGuard(w)
    BY <1>1, <2>1 DEF PublishIntentEntry, PublishIntentHead, PublishGuard
  <2>2. CASE WriteResultEntry(w) \/ WriteResultHead(w) \/ RemoveGuard(w)
    BY <1>1, <2>2 DEF WriteResultEntry, WriteResultHead, RemoveGuard
  <2>3. CASE WriteAttentionEntry(w) \/ WriteAttentionHead(w) \/ RemoveAttentionGuard(w)
    BY <1>1, <2>3 DEF WriteAttentionEntry, WriteAttentionHead, RemoveAttentionGuard
  <2>4. CASE ResolveEntry(w) \/ ResolveHead(w) \/ ResolveGuard(w)
    BY <1>1, <2>4 DEF ResolveEntry, ResolveHead, ResolveGuard
  <2>5. QED
    BY <1>2, <2>1, <2>2, <2>3, <2>4 DEF Publish
<1>3. CASE \E kind \in {"apply", "other"} : Open(kind)
  BY <1>1, <1>3 DEF Open
<1>4. CASE Close \/ Crash \/ RefuseRetainedLock \/ RefuseResolution \/ MoveTarget \/ UNCHANGED vars
  BY <1>1, <1>4 DEF Close, Crash, RefuseRetainedLock, RefuseResolution, MoveTarget, vars
<1>5. CASE \E o \in Operation : Begin(o) \/ Replay(o) \/ Refuse(o)
  BY <1>1, <1>5 DEF Begin, Replay, Refuse
<1>6. CASE AssertBeforeEffect \/ Perform \/ FailEffect \/ DeclineEffect \/ AssertBeforeAttention
  BY <1>1, <1>6 DEF AssertBeforeEffect, Perform, FailEffect, DeclineEffect, AssertBeforeAttention
<1>7. CASE BeginResolution
  <2>1. Last \in Entry
    BY <1>7, Positions DEF BeginResolution, Resolvable, Last
  <2>2. Last.op \in Operation
    BY <2>1, EntryFields
  <2>3. QED
    BY <1>7, <2>2 DEF BeginResolution
<1>8. QED
  BY <1>2, <1>3, <1>4, <1>5, <1>6, <1>7 DEF Next

Run == [sequence : Nat, head : {NoDigest} \cup (Operation \X Phase)]

LEMMA HeadTyped ==
    ASSUME TypeOK
    PROVE  HeadOf(entries) \in {NoDigest} \cup (Operation \X Phase)
<1>1. CASE entries = <<>>
  BY <1>1 DEF HeadOf
<1>2. CASE entries # <<>>
  <2>1. entries[Len(entries)] \in Entry
    BY <1>2, Positions
  <2>2. QED
    BY <1>2, <2>1, EntryFields DEF HeadOf, Digest
<1>3. QED
  BY <1>1, <1>2

LEMMA RunTyped ==
    ASSUME TypeOK, [Next]_vars
    PROVE  run' \in Run
<1>1. run \in Run
  BY DEF TypeOK, Run
<1>2. run.sequence + 1 \in Nat
  BY <1>1 DEF Run
<1>3. [sequence |-> run.sequence + 1, head |-> HeadOf(entries)] \in Run
  BY <1>2, HeadTyped, Zenon DEF Run
<1>4. Advanced \in Run
  BY <1>1, HeadTyped, Zenon DEF Run, Advanced
<1>5. run' \in {run, Advanced, [sequence |-> run.sequence + 1, head |-> HeadOf(entries)]}
  <2>1. ASSUME NEW w \in Outcome, Publish(w)
        PROVE  run' \in {run, Advanced, [sequence |-> run.sequence + 1, head |-> HeadOf(entries)]}
    BY <2>1, Zenon DEF Publish, PublishIntentEntry, PublishIntentHead, PublishGuard, WriteResultEntry,
       WriteResultHead, RemoveGuard, WriteAttentionEntry, WriteAttentionHead,
       RemoveAttentionGuard, ResolveEntry, ResolveHead, ResolveGuard
  <2>2. CASE \E w \in Outcome : Publish(w)
    BY <2>1, <2>2
  <2>3. CASE ~\E w \in Outcome : Publish(w)
    <3>1. run' = run
      BY <2>3, Zenon DEF Next, Open, Close, Crash, RefuseRetainedLock, Begin, Replay, Refuse,
         AssertBeforeEffect, Perform, FailEffect, DeclineEffect, AssertBeforeAttention,
         BeginResolution, RefuseResolution, MoveTarget, disk, vars
    <3>2. QED
      BY <3>1, Zenon
  <2>4. QED
    BY <2>2, <2>3
<1>6. QED
  BY <1>1, <1>3, <1>4, <1>5, Zenon

LEMMA WorldTyped ==
    ASSUME TypeOK, [Next]_vars, Kinds
    PROVE  target' \in Sha /\ meddled' \subseteq Publication
<1>1. target \in Sha /\ meddled \subseteq Publication
  BY DEF TypeOK
<1>2. InDoubt \subseteq Publication /\ "final" \in Sha
  BY DEF InDoubt, Sha
<1>3. CASE MoveTarget
  BY <1>1, <1>2, <1>3, Zenon DEF MoveTarget
<1>4. CASE Calm
  BY <1>1, <1>4 DEF Calm
<1>5. CASE Starts
  BY <1>1, <1>5 DEF Starts
<1>6. CASE Perform
  BY <1>1, <1>2, <1>6, Zenon DEF Perform, Swap
<1>7. QED
  BY <1>3, <1>4, <1>5, <1>6, Zenon DEF Kinds, Still, Rewrites, Guarded, Unguarded

LEMMA TypeStep ==
    ASSUME TypeOK, StepInv, DiskInv, [Next]_vars
    PROVE  TypeOK'
<1>1. entries \in Seq(Entry) /\ guards \subseteq Operation /\ op \in Operation
      /\ effects \in [Operation -> Nat]
  BY DEF TypeOK
<1>2. entries' \in Seq(Entry)
  BY <1>1, Steps DEF Kinds, Still, Starts, Grown, Rewrites, Changed, Guarded, Unguarded,
     Perform, disk
<1>3. guards' \subseteq Operation
  BY <1>1, Steps DEF Kinds, Still, Starts, Rewrites, Guarded, Unguarded, Perform, disk
<1>4. effects' \in [Operation -> Nat]
  <2>1. CASE Perform
    <3>1. effects' = [effects EXCEPT ![op] = effects[op] + 1]
      BY <2>1 DEF Perform
    <3>2. QED
      BY ONLY <1>1, <3>1
  <2>2. CASE ~Perform
    BY <1>1, <2>2, Steps, Zenon DEF Kinds, Still, Starts, Rewrites, Guarded, Unguarded
  <2>3. QED
    BY <2>1, <2>2
<1>5. QED
  BY <1>2, <1>3, <1>4, Steps, AnswersTyped, RegistersTyped, RunTyped, WorldTyped DEF TypeOK, Run

-----------------------------------------------------------------------------
(* The disk *)

\* A journal that loads is certain of everything it holds.
LEMMA CleanIsCertain ==
    ASSUME TypeOK, Clean
    PROVE  guards = {} /\ \A i \in Position : entries[i].phase = "observed"
BY Positions DEF Clean, LoadsClean

\* The entry a start adds is of an operation that was not recorded, behind
\* observed ones.
LEMMA StartFacts ==
    ASSUME TypeOK, StepInv, Starts
    PROVE  /\ guards = {} /\ \A i \in Position : entries[i].phase = "observed"
           /\ \A i \in Position : entries[i].op # op
           /\ \A q \in Requires[op] : \E i \in Position : entries[i].op = q
           /\ \A i \in Position : entries[i].op \notin Excludes[op]
<1>1. Clean /\ Admissible(op) /\ op \notin Recorded
  BY DEF Starts, StepInv
<1>2. QED
  BY <1>1, CleanIsCertain, RecordedAt, Zenon DEF Admissible

LEMMA StartPositions ==
    ASSUME TypeOK, Starts
    PROVE  /\ Position' = Position \cup {Len(entries) + 1} /\ entries' # <<>>
           /\ Len(entries) + 1 \notin Position
           /\ entries'[Len(entries) + 1] = Last'
<1>1. Len(entries) \in Nat /\ Len(entries') = Len(entries) + 1 /\ entries' \in Seq(Entry)
  BY Positions DEF Starts, Grown
<1>2. entries' # <<>>
  BY <1>1, EmptySeq
<1>3. QED
  BY <1>1, <1>2 DEF Position, Last

\* A rewrite keeps every position and the operation of every entry.
LEMMA RewriteFacts ==
    ASSUME TypeOK, StepInv, Rewrites
    PROVE  /\ Len(entries') = Len(entries) /\ Position' = Position
           /\ entries' # <<>> /\ Len(entries) \in Position
           /\ Last = entries[Len(entries)] /\ Last' = entries'[Len(entries)]
           /\ Last.op = op /\ Last'.op = op /\ Last'.result = result /\ told[op] # "ok"
           /\ \A i \in Position : entries'[i].op = entries[i].op
           /\ \A i \in Position : i # Len(entries) => entries'[i] = entries[i]
<1>1. Pending
  BY DEF Rewrites, StepInv
<1>2. Len(entries') = Len(entries) /\ Position' = Position /\ Last' = entries'[Len(entries)]
  BY DEF Rewrites, Changed, Position, Last
<1>3. /\ Last'.op = op /\ Last'.result = result /\ entries' \in Seq(Entry)
      /\ \A i \in Position : i # Len(entries) => entries'[i] = entries[i]
  BY <1>1 DEF Rewrites, Changed, Pending
<1>4. Len(entries) \in Position /\ Last = entries[Len(entries)]
  BY <1>1, Positions DEF Pending, Last
<1>5. entries' # <<>>
  BY <1>2, <1>3, <1>4, EmptySeq DEF Position
<1>6. QED
  BY <1>1, <1>2, <1>3, <1>4, <1>5 DEF Pending

LEMMA DiskStep ==
    ASSUME TypeOK, StepInv, DiskInv, [Next]_vars
    PROVE  DiskInv'
<1>1. CASE Still \/ Perform
  BY <1>1 DEF Still, Perform, disk, DiskInv, Position, Last
<1>2. CASE Starts
  <2>1. /\ \A i \in Position : entries'[i] = entries[i]
        /\ Last'.op = op /\ guards' = {} /\ Len(entries') = Len(entries) + 1
    BY <1>2, StartFacts DEF Starts, Grown
  <2>2. \A i \in Position' : i < Len(entries') => entries'[i].phase = "observed"
    BY <1>2, <2>1, StartFacts, StartPositions, Positions DEF Position
  <2>3. \A i, j \in Position' : entries'[i].op = entries'[j].op => i = j
    BY <1>2, <2>1, StartFacts, StartPositions DEF DiskInv
  <2>4. QED
    BY <2>1, <2>2, <2>3 DEF DiskInv
<1>3. CASE Rewrites
  <2>1. guards' = guards
    BY <1>3 DEF Rewrites
  <2>2. \A i, j \in Position' : entries'[i].op = entries'[j].op => i = j
    BY <1>3, RewriteFacts DEF DiskInv
  <2>3. \A i \in Position' : i < Len(entries') => entries'[i].phase = "observed"
    BY <1>3, RewriteFacts DEF DiskInv
  <2>4. guards' # {} => entries' # <<>> /\ guards' = {Last'.op}
    BY <1>3, <2>1, RewriteFacts DEF DiskInv
  <2>5. QED
    BY <2>2, <2>3, <2>4 DEF DiskInv
<1>4. CASE Guarded
  BY <1>4 DEF Guarded, StepInv, Fresh, Pending, DiskInv, Position, Last
<1>5. CASE Unguarded
  BY <1>5 DEF Unguarded, DiskInv, Position, Last
<1>6. QED
  BY <1>1, <1>2, <1>3, <1>4, <1>5, Steps DEF Kinds

-----------------------------------------------------------------------------
(* The effects *)

LEMMA EffectStep ==
    ASSUME TypeOK, StepInv, DiskInv, EffectInv, [Next]_vars
    PROVE  EffectInv'
<1>0. Kinds /\ meddled \subseteq meddled'
  BY Steps, MeddledGrows
<1>1. CASE Still \/ Guarded \/ Unguarded
  <2>1. UNCHANGED <<entries, effects>>
    BY <1>1 DEF Still, Guarded, Unguarded
  <2>2. QED
    BY <1>0, <2>1 DEF EffectInv, EffectAtMostOnce, TruthfulEntry, Position
<1>2. CASE Starts
  <2>1. effects' = effects
    BY <1>2 DEF Starts
  <2>2. \A i \in Position : entries'[i] = entries[i]
    BY <1>2 DEF Starts, Grown
  <2>3. TruthfulEntry(Last)'
    BY <1>2 DEF Starts, Grown, TruthfulEntry
  <2>4. \A i \in Position' : TruthfulEntry(entries[i])'
    BY <1>0, <1>2, <2>1, <2>2, <2>3, StartPositions DEF EffectInv, TruthfulEntry
  <2>5. QED
    BY <1>2, <2>1, <2>2, <2>4, StartPositions DEF EffectInv, EffectAtMostOnce
<1>3. CASE Rewrites
  <2>1. effects' = effects
    BY <1>3 DEF Rewrites
  <2>2. Last'.op = op /\ Last'.result = result
    BY <1>3, RewriteFacts
  <2>3. TruthfulEntry(Last)'
    <3>1. CASE pc \in {"result entry", "resolve entry"}
      <4>1. result \in {"performed", "declined"} /\ (op \notin meddled => Decided)
        BY <3>1 DEF StepInv, Decided, Believed
      <4>2. QED
        BY <1>0, <2>1, <2>2, <4>1 DEF Decided, TruthfulEntry
    <3>2. CASE pc = "attention entry"
      <4>1. /\ result \in {"unknown", "not started"}
            /\ result = "not started" => effects[op] = 0
        BY <3>2 DEF StepInv
      <4>2. Last'.phase = "needs_attention"
        BY <1>3, <3>2 DEF Rewrites, Changed
      <4>3. QED
        BY <2>1, <2>2, <4>1, <4>2 DEF TruthfulEntry
    <3>3. QED
      BY <1>3, <3>1, <3>2 DEF Rewrites
  <2>4. \A i \in Position' : TruthfulEntry(entries[i])'
    <3> SUFFICES ASSUME NEW i \in Position PROVE TruthfulEntry(entries[i])'
      BY <1>3, RewriteFacts
    <3>1. CASE i = Len(entries)
      <4>1. entries'[i] = Last'
        BY <1>3, <3>1, RewriteFacts
      <4>2. QED
        BY <2>3, <4>1 DEF TruthfulEntry
    <3>2. CASE i # Len(entries)
      <4>1. entries'[i] = entries[i]
        BY <1>3, <3>2, RewriteFacts
      <4>2. QED
        BY <1>0, <2>1, <4>1 DEF EffectInv, TruthfulEntry
    <3>3. QED
      BY <3>1, <3>2
  <2>5. QED
    BY <1>3, <2>1, <2>4, RewriteFacts DEF EffectInv, EffectAtMostOnce
<1>4. CASE Perform
  <2>1. /\ entries # <<>> /\ Last.op = op /\ Last.result = "none" /\ Last.phase = "intent"
        /\ effects[op] = 0
    BY <1>4 DEF Perform, StepInv, Fresh, Pending
  <2>2. /\ entries' = entries /\ op \in Operation
        /\ effects' = [effects EXCEPT ![op] = effects[op] + 1]
        /\ effects \in [Operation -> Nat]
    BY <1>4 DEF Perform, disk, TypeOK
  <2>3. effects'[op] = 1 /\ \A o \in Operation : o # op => effects'[o] = effects[o]
    BY <2>1, <2>2
  <2>4. Len(entries) \in Position /\ entries[Len(entries)] = Last
    BY <2>1, Positions DEF Last
  <2>5. \A i \in Position : i # Len(entries) => entries[i].op # op
    BY <2>1, <2>4 DEF DiskInv
  <2>6. \A i \in Position' : TruthfulEntry(entries[i])'
    <3> SUFFICES ASSUME NEW i \in Position PROVE TruthfulEntry(entries[i])'
      BY <2>2 DEF Position
    <3>1. entries[i].op \in Operation
      BY Positions, EntryFields
    <3>2. CASE i = Len(entries)
      BY <2>1, <2>2, <2>4, <3>2 DEF TruthfulEntry
    <3>3. CASE i # Len(entries)
      <4>1. effects'[entries[i].op] = effects[entries[i].op]
        BY <2>3, <2>5, <3>1, <3>3
      <4>2. QED
        BY <1>0, <2>2, <4>1 DEF EffectInv, TruthfulEntry
    <3>4. QED
      BY <3>2, <3>3
  <2>7. EffectAtMostOnce'
    BY <2>2, <2>3 DEF EffectInv, EffectAtMostOnce
  <2>8. \A o \in Operation : effects'[o] > 0 => \E i \in Position' : entries'[i].op = o
    BY <2>1, <2>2, <2>3, <2>4 DEF EffectInv, Position
  <2>9. QED
    BY <2>6, <2>7, <2>8 DEF EffectInv
<1>5. QED
  BY <1>1, <1>2, <1>3, <1>4, Steps DEF Kinds

\* An operation that is not recorded has had no effect.
LEMMA UnrecordedHasNoEffect ==
    ASSUME TypeOK, EffectInv, NEW o \in Operation, o \notin Recorded
    PROVE  effects[o] = 0
BY RecordedAt DEF EffectInv, TypeOK

-----------------------------------------------------------------------------
(* The target *)

\* Outsiders who move the target to or away from the final SHA meddle with the
\* publication in doubt; nothing else parts the target from its effect.
LEMMA TargetStep ==
    ASSUME TypeOK, StepInv, DiskInv, EffectInv, TargetInv, [Next]_vars
    PROVE  TargetInv'
<1>0. Kinds
  BY Steps
<1>1. ASSUME InDoubt' \subseteq InDoubt, effects' = effects, Calm
      PROVE  TargetInv'
  BY <1>1 DEF TargetInv, Calm
<1>2. CASE Still
  <2>1. InDoubt' = InDoubt /\ effects' = effects
    BY <1>2 DEF Still, InDoubt, Last
  <2>2. CASE MoveTarget
    <3>1. CASE "final" \in {target, target'}
      <4>1. InDoubt \subseteq meddled'
        BY <2>2, <3>1 DEF MoveTarget
      <4>2. QED
        BY <2>1, <4>1 DEF TargetInv
    <3>2. CASE "final" \notin {target, target'}
      <4>1. meddled' = meddled
        BY <2>2, <3>2 DEF MoveTarget
      <4>2. QED
        BY <2>1, <3>2, <4>1 DEF TargetInv
    <3>3. QED
      BY <3>1, <3>2
  <2>3. QED
    BY <1>1, <1>2, <2>1, <2>2 DEF Still
<1>3. CASE Starts
  <2>1. Last'.op = op /\ effects' = effects /\ target' = target
    BY <1>3 DEF Starts, Grown
  <2>2. effects[op] = 0
    BY <1>3, UnrecordedHasNoEffect DEF Starts, StepInv, TypeOK
  <2>3. InDoubt' \subseteq {op} \cap Publication
    BY <2>1 DEF InDoubt
  <2>4. op \in Publication /\ target = "final" => op \in meddled'
    BY <1>3 DEF Starts
  <2>5. QED
    BY <2>1, <2>2, <2>3, <2>4 DEF TargetInv
<1>4. CASE Rewrites
  <2>1. Last.op = op /\ Last'.op = op /\ entries # <<>>
    BY <1>4, RewriteFacts DEF Rewrites, StepInv, Pending
  <2>2. guards' = guards /\ effects' = effects /\ Calm
    BY <1>4 DEF Rewrites
  <2>3. Last.phase # "observed" \/ op \in guards
    BY <1>4 DEF Rewrites, StepInv
  <2>4. InDoubt' \subseteq InDoubt
    BY <2>1, <2>2, <2>3 DEF InDoubt
  <2>5. QED
    BY <1>1, <2>2, <2>4
<1>5. CASE Guarded
  <2>1. Last.phase = "intent" /\ Last' = Last /\ entries' = entries
    BY <1>5 DEF Guarded, StepInv, Fresh, Last
  <2>2. InDoubt' \subseteq InDoubt
    BY <2>1 DEF InDoubt
  <2>3. QED
    BY <1>1, <1>5, <2>2 DEF Guarded
<1>6. CASE Unguarded
  <2>1. InDoubt' \subseteq InDoubt
    BY <1>6 DEF Unguarded, InDoubt, Last
  <2>2. QED
    BY <1>1, <1>6, <2>1 DEF Unguarded
<1>7. CASE Perform
  <2>1. Fresh
    BY <1>7 DEF Perform, StepInv
  <2>2. InDoubt' \subseteq {op} \cap Publication
    BY <1>7, <2>1 DEF Perform, disk, InDoubt, Last, Fresh, Pending
  <2>3. op \in Publication => target' = "final"
    BY <1>7 DEF Perform, Swap
  <2>4. effects'[op] = 1
    <3>1. effects' = [effects EXCEPT ![op] = effects[op] + 1] /\ op \in Operation
          /\ effects \in [Operation -> Nat] /\ effects[op] = 0
      BY <1>7, <2>1 DEF Perform, TypeOK, Fresh
    <3>2. QED
      BY ONLY <3>1
  <2>5. QED
    BY <2>2, <2>3, <2>4 DEF TargetInv
<1>8. QED
  BY <1>0, <1>2, <1>3, <1>4, <1>5, <1>6, <1>7 DEF Kinds

-----------------------------------------------------------------------------
(* The order of the operations *)

LEMMA OrderStep ==
    ASSUME TypeOK, StepInv, DiskInv, OrderInv, [Next]_vars
    PROVE  OrderInv'
<1>1. CASE Still \/ Perform \/ Guarded \/ Unguarded
  <2>1. entries' = entries
    BY <1>1 DEF Still, Perform, Guarded, Unguarded, disk
  <2>2. QED
    BY <2>1 DEF OrderInv, Position
<1>2. CASE Starts
  <2>1. \A i \in Position : entries'[i] = entries[i]
    BY <1>2 DEF Starts, Grown
  <2>2. Last'.op = op
    BY <1>2 DEF Starts, Grown
  <2>3. Len(entries) \in Nat
    BY Positions
  <2>4. ASSUME NEW i \in Position PROVE Ordered(entries', i)
    <3>1. Ordered(entries, i)
      BY <2>4 DEF OrderInv
    <3>2. 1 .. (i - 1) \subseteq Position
      BY <2>3, <2>4 DEF Position
    <3>3. QED
      BY <2>1, <2>4, <3>1, <3>2 DEF Ordered
  <2>5. Ordered(entries', Len(entries) + 1)
    <3>1. 1 .. ((Len(entries) + 1) - 1) = Position
      BY <2>3 DEF Position
    <3>2. entries'[Len(entries) + 1].op = op
      BY <1>2, <2>2, StartPositions
    <3>3. QED
      BY <1>2, <2>1, <3>1, <3>2, StartFacts DEF Ordered
  <2>6. \A i \in Position' : Ordered(entries', i)
    BY <1>2, <2>4, <2>5, StartPositions
  <2>7. QED
    BY <2>6 DEF OrderInv
<1>3. CASE Rewrites
  <2>1. Position' = Position /\ \A i \in Position : entries'[i].op = entries[i].op
    BY <1>3, RewriteFacts
  <2>2. \A i \in Position : 1 .. (i - 1) \subseteq Position
    BY Positions DEF Position
  <2>3. QED
    BY <2>1, <2>2 DEF OrderInv, Ordered
<1>4. QED
  BY <1>1, <1>2, <1>3, Steps DEF Kinds

-----------------------------------------------------------------------------
(* What the running command relies on *)

LEMMA StepInvStep ==
    ASSUME TypeOK, StepInv, DiskInv, EffectInv, TargetInv, ToldInv, [Next]_vars
    PROVE  StepInv'
<1> USE DEF Leave, Tell, disk, world
<1>1. ASSUME NEW w \in Outcome, Publish(w) PROVE StepInv'
  <2>1. CASE PublishIntentEntry(w)
    <3>1. CASE w = "done"
      <4>1. /\ Clean /\ op \notin Recorded /\ result = "none" /\ told[op] = "none"
            /\ entries' = Append(entries, NewEntry)
            /\ pc' = "intent head" /\ UNCHANGED <<guards, op, result, effects, told>>
        BY <2>1, <3>1 DEF PublishIntentEntry, StepInv, Landed
      <4>2. Grown /\ Starts
        <5>1. Landed(w)
          BY <3>1 DEF Landed
        <5>2. Grown
          BY <4>1, AppendGrows
        <5>3. QED
          BY <2>1, <4>1, <5>1, <5>2 DEF Starts, PublishIntentEntry
      <4>3. effects[op] = 0 /\ guards = {}
        BY <4>1, UnrecordedHasNoEffect, CleanIsCertain DEF TypeOK
      <4>4. entries' # <<>>
        BY <4>2, StartPositions
      <4>5. QED
        BY <4>1, <4>2, <4>3, <4>4 DEF Grown, StepInv, Fresh, Pending
    <3>2. CASE w # "done"
      BY <2>1, <3>2 DEF PublishIntentEntry, StepInv
    <3>3. QED
      BY <3>1, <3>2
  <2>2. CASE PublishIntentHead(w) \/ PublishGuard(w)
    BY <2>2 DEF PublishIntentHead, PublishGuard, StepInv, Fresh, Pending, Last, Landed
  <2>3. CASE WriteResultEntry(w)
    <3>1. Pending /\ guards = {op} /\ Decided
      BY <2>3 DEF WriteResultEntry, StepInv
    <3>2. UNCHANGED <<guards, op, effects, told>>
      BY <2>3 DEF WriteResultEntry
    <3>3. Pending'
      <4>1. CASE Landed(w)
        <5>1. Changed("observed")
          BY <2>3, <3>1, <4>1, RewriteChanges DEF WriteResultEntry, Pending, Phase
        <5>2. QED
          BY <3>1, <3>2, <5>1, EmptySeq, Positions DEF Changed, Pending, Position
      <4>2. CASE ~Landed(w)
        BY <2>3, <3>1, <3>2, <4>2 DEF WriteResultEntry, Pending, Last
      <4>3. QED
        BY <4>1, <4>2
    <3>4. CASE w = "done"
      <4>1. Changed("observed") /\ pc' = "result head" /\ result' = result
        BY <2>3, <3>1, <3>4, RewriteChanges DEF WriteResultEntry, Pending, Phase, Landed
      <4>2. QED
        BY <3>1, <3>2, <3>3, <4>1 DEF Changed, Decided, StepInv
    <3>5. CASE w # "done"
      BY <2>3, <3>1, <3>2, <3>3, <3>5 DEF WriteResultEntry, StepInv
    <3>6. QED
      BY <3>4, <3>5
  <2>4. CASE WriteResultHead(w)
    BY <2>4 DEF WriteResultHead, StepInv, Pending, Decided, Last
  <2>5. CASE WriteAttentionEntry(w)
    <3>1. CASE w = "done"
      <4>1. Pending /\ guards = {op}
        BY <2>5 DEF WriteAttentionEntry, StepInv
      <4>2. /\ Changed("needs_attention") /\ pc' = "attention head"
            /\ UNCHANGED <<guards, op, told>>
        BY <2>5, <3>1, <4>1, RewriteChanges DEF WriteAttentionEntry, Pending, Phase, Landed
      <4>3. entries' # <<>>
        BY <2>5, <3>1, <4>1, RewriteChanges DEF WriteAttentionEntry, Pending, Phase, Landed
      <4>4. Pending' /\ Last'.phase = "needs_attention" /\ guards' = {op'}
        BY <4>1, <4>2, <4>3 DEF Changed, Pending
      <4>5. QED
        BY <4>2, <4>4 DEF StepInv
    <3>2. CASE w # "done"
      BY <2>5, <3>2 DEF WriteAttentionEntry, StepInv
    <3>3. QED
      BY <3>1, <3>2
  <2>6. CASE WriteAttentionHead(w)
    BY <2>6 DEF WriteAttentionHead, StepInv, Pending, Last
  <2>7. CASE ResolveEntry(w)
    <3>1. CASE w = "done"
      <4>1. Pending /\ Believed
        BY <2>7 DEF ResolveEntry, StepInv
      <4>2. /\ Changed("observed") /\ pc' = "resolve head"
            /\ UNCHANGED <<op, result, effects, told, meddled>>
        BY <2>7, <3>1, <4>1, RewriteChanges DEF ResolveEntry, Pending, Phase, Landed
      <4>3. entries' # <<>>
        BY <2>7, <3>1, <4>1, RewriteChanges DEF ResolveEntry, Pending, Phase, Landed
      <4>4. Pending' /\ Last'.phase = "observed" /\ Last'.result = result'
        BY <4>1, <4>2, <4>3 DEF Changed, Pending
      <4>5. Believed'
        BY <4>1, <4>2 DEF Believed, Decided
      <4>6. QED
        BY <4>2, <4>4, <4>5 DEF StepInv
    <3>2. CASE w # "done"
      BY <2>7, <3>2 DEF ResolveEntry, StepInv
    <3>3. QED
      BY <3>1, <3>2
  <2>8. CASE ResolveHead(w)
    BY <2>8 DEF ResolveHead, StepInv, Pending, Believed, Decided, Last
  <2>9. CASE RemoveGuard(w) \/ RemoveAttentionGuard(w) \/ ResolveGuard(w)
    BY <2>9 DEF RemoveGuard, RemoveAttentionGuard, ResolveGuard, StepInv
  <2>10. QED
    BY <1>1, <2>1, <2>2, <2>3, <2>4, <2>5, <2>6, <2>7, <2>8, <2>9 DEF Publish
<1>2. CASE \E kind \in {"apply", "other"} : Open(kind)
  BY <1>2 DEF Open, StepInv
<1>3. CASE Close \/ Crash
  BY <1>3 DEF Close, Crash, StepInv
<1>4. CASE RefuseRetainedLock \/ UNCHANGED vars
  <2>1. UNCHANGED <<entries, run, guards, pc, op, result, effects, told, meddled>>
    BY <1>4 DEF RefuseRetainedLock, vars
  <2>2. QED
    BY <2>1 DEF StepInv, Clean, Admissible, Observed, Recorded, Fresh, Pending, Decided,
       Believed, Last
<1>5. CASE \E o \in Operation : Begin(o)
  <2> PICK o \in Operation : Begin(o)
    BY <1>5
  <2>1. /\ Clean /\ Admissible(o) /\ o \notin Recorded
        /\ UNCHANGED <<entries, run, guards>> /\ op' = o
        /\ pc' = "intent entry" /\ result' = "none" /\ told' = [told EXCEPT ![o] = "none"]
    BY DEF Begin
  <2>2. Clean' /\ Admissible(o)' /\ o \notin Recorded'
    BY <2>1 DEF Clean, Admissible, Observed, Recorded
  <2>3. told'[o] = "none"
    BY <2>1 DEF TypeOK
  <2>4. Admissible(op)'
    BY <2>1, <2>2 DEF Admissible
  <2>5. QED
    BY <2>1, <2>2, <2>3, <2>4 DEF StepInv
<1>6. CASE \E o \in Operation : Replay(o) \/ Refuse(o)
  BY <1>6 DEF Replay, Refuse, StepInv
<1>7. CASE AssertBeforeEffect \/ FailEffect \/ DeclineEffect \/ AssertBeforeAttention
  BY <1>7 DEF AssertBeforeEffect, FailEffect, DeclineEffect, AssertBeforeAttention, StepInv,
     Fresh, Pending, Decided, Last
<1>8. CASE Perform
  <2>1. Fresh /\ guards = {op}
    BY <1>8 DEF Perform, StepInv
  <2>2. effects' = [effects EXCEPT ![op] = effects[op] + 1] /\ op \in Operation
        /\ effects \in [Operation -> Nat]
    BY <1>8 DEF Perform, TypeOK
  <2>3. effects'[op] = 1
    BY <2>1, <2>2 DEF Fresh
  <2>4. UNCHANGED <<entries, guards, op, told>>
    BY <1>8 DEF Perform
  <2>5. QED
    BY <1>8, <2>1, <2>3, <2>4 DEF Perform, StepInv, Fresh, Pending, Decided, Last
<1>9. CASE BeginResolution
  <2>1. Len(entries) \in Position /\ Last \in Entry
    BY <1>9, Positions DEF BeginResolution, Resolvable, Last
  <2>2. Last.op \in Operation
    BY <2>1, EntryFields
  <2>3. Last.phase # "observed" /\ Last.op \in Publication
    BY <1>9, <2>1, Positions DEF BeginResolution, Resolvable, Last
  <2>4. /\ UNCHANGED <<entries, effects, told, meddled>> /\ op' = Last.op
        /\ pc' = "resolve entry" /\ entries # <<>>
        /\ result' = IF target = "final" THEN "performed" ELSE "declined"
    BY <1>9 DEF BeginResolution, Resolvable
  <2>5. told[Last.op] # "ok"
    <3> SUFFICES ASSUME told[Last.op] = "ok" PROVE FALSE
      OBVIOUS
    <3>1. PICK i \in Position : entries[i].op = Last.op /\ entries[i].phase = "observed"
      BY <2>2 DEF ToldInv
    <3>2. i = Len(entries)
      BY <2>1, <3>1 DEF DiskInv, Last
    <3>3. QED
      BY <2>3, <3>1, <3>2 DEF Last
  <2>6. Last.op \in InDoubt
    BY <2>3, <2>4 DEF InDoubt
  <2>7. effects[Last.op] = 0 \/ effects[Last.op] = 1
    BY <2>2 DEF EffectInv, EffectAtMostOnce, TypeOK
  <2>8. Last.op \notin meddled => (target = "final" <=> effects[Last.op] = 1)
    BY <2>6 DEF TargetInv
  <2>9. Last' = Last
    BY <2>4 DEF Last
  <2>10. Pending'
    BY <2>4, <2>5, <2>9 DEF Pending
  <2>11. Believed'
    BY <2>3, <2>4, <2>7, <2>8 DEF Believed, Decided
  <2>12. QED
    BY <2>3, <2>4, <2>9, <2>10, <2>11 DEF StepInv
<1>10. CASE RefuseResolution
  BY <1>10 DEF RefuseResolution, StepInv
<1>11. CASE MoveTarget
  <2>1. UNCHANGED <<entries, run, guards, pc, op, result, effects, told>>
    BY <1>11 DEF MoveTarget
  <2>2. Believed => Believed'
    BY <1>11, <2>1, Zenon DEF MoveTarget, Believed, Decided
  <2>3. QED
    BY <2>1, <2>2 DEF StepInv, Clean, Admissible, Observed, Recorded, Fresh, Pending, Decided, Last
<1>12. QED
  BY <1>1, <1>2, <1>3, <1>4, <1>5, <1>6, <1>7, <1>8, <1>9, <1>10, <1>11 DEF Next

-----------------------------------------------------------------------------
(* What the callers were told *)

\* One caller was answered, truthfully.
Answered ==
    \E q \in Operation, a \in Answer :
        /\ told' = [told EXCEPT ![q] = a]
        /\ a = "ok" => /\ entries' = entries
                       /\ \E i \in Position : entries[i].op = q /\ entries[i].phase = "observed"
        /\ a = "error" => effects[q] = 0 /\ effects' = effects

LEMMA ToldChanges ==
    ASSUME TypeOK, StepInv, EffectInv, [Next]_vars
    PROVE  told' = told \/ Answered
<1>0. op \in Operation /\ {"ok", "error", "none"} = Answer
  BY DEF TypeOK, Answer
<1> USE <1>0 DEF Answered, Leave, Tell, disk, world
<1>1. ASSUME NEW w \in Outcome, Publish(w) PROVE told' = told \/ Answered
  <2>1. CASE PublishIntentEntry(w)
    BY <2>1, UnrecordedHasNoEffect DEF PublishIntentEntry, StepInv
  <2>2. CASE PublishIntentHead(w)
    BY <2>2 DEF PublishIntentHead, StepInv, Fresh
  <2>3. CASE PublishGuard(w) \/ WriteResultEntry(w) \/ WriteResultHead(w)
    BY <2>3 DEF PublishGuard, WriteResultEntry, WriteResultHead
  <2>4. CASE WriteAttentionEntry(w) \/ WriteAttentionHead(w) \/ RemoveAttentionGuard(w)
    BY <2>4 DEF WriteAttentionEntry, WriteAttentionHead, RemoveAttentionGuard
  <2>5. CASE ResolveEntry(w) \/ ResolveHead(w)
    BY <2>5 DEF ResolveEntry, ResolveHead
  <2>6. CASE RemoveGuard(w) \/ ResolveGuard(w)
    <3>1. \E i \in Position : entries[i].op = op /\ entries[i].phase = "observed"
      BY <2>6, Positions DEF RemoveGuard, ResolveGuard, StepInv, Pending, Last
    <3>2. entries' = entries
      BY <2>6 DEF RemoveGuard, ResolveGuard
    <3>3. QED
      BY <2>6, <3>1, <3>2 DEF RemoveGuard, ResolveGuard
  <2>7. QED
    BY <1>1, <2>1, <2>2, <2>3, <2>4, <2>5, <2>6 DEF Publish
<1>2. CASE \E o \in Operation : Begin(o) \/ Refuse(o)
  <2>1. CASE \E o \in Operation : Begin(o)
    BY <2>1 DEF Begin
  <2>2. CASE \E o \in Operation : Refuse(o)
    <3> PICK o \in Operation : Refuse(o)
      BY <2>2
    <3>1. CASE told' = told
      BY <3>1
    <3>2. CASE told' # told
      <4>1. o \notin Recorded /\ told' = [told EXCEPT ![o] = "error"] /\ effects' = effects
        BY <3>2 DEF Refuse
      <4>2. effects[o] = 0
        BY <4>1, UnrecordedHasNoEffect
      <4>3. QED
        BY <4>1, <4>2
    <3>3. QED
      BY <3>1, <3>2
  <2>3. QED
    BY <1>2, <2>1, <2>2
<1>3. CASE \E o \in Operation : Replay(o)
  <2>1. PICK o \in Operation : Replay(o)
    BY <1>3
  <2>2. told' = [told EXCEPT ![o] = "ok"] /\ entries' = entries /\ o \in Observed
    BY <2>1 DEF Replay
  <2>3. \E i \in Position : entries[i].op = o /\ entries[i].phase = "observed"
    BY <2>2, RecordedAt
  <2>4. QED
    BY <2>2, <2>3
<1>4. CASE BeginResolution \/ RefuseResolution \/ MoveTarget
  BY <1>4 DEF BeginResolution, RefuseResolution, MoveTarget
<1>5. CASE AssertBeforeAttention
  BY <1>5 DEF AssertBeforeAttention
<1>6. CASE \/ (\E kind \in {"apply", "other"} : Open(kind)) \/ Close \/ Crash
           \/ RefuseRetainedLock \/ UNCHANGED vars
  BY <1>6 DEF Open, Close, Crash, RefuseRetainedLock, vars
<1>7. CASE AssertBeforeEffect \/ Perform \/ FailEffect \/ DeclineEffect
  BY <1>7 DEF AssertBeforeEffect, Perform, FailEffect, DeclineEffect
<1>8. QED
  BY <1>1, <1>2, <1>3, <1>4, <1>5, <1>6, <1>7 DEF Next

LEMMA ToldStep ==
    ASSUME TypeOK, StepInv, DiskInv, EffectInv, ToldInv, [Next]_vars
    PROVE  ToldInv'
<1> DEFINE Sure(o) == \E i \in Position : entries[i].op = o /\ entries[i].phase = "observed"
<1>1. ASSUME NEW o \in Operation, told[o] = "ok" PROVE Sure(o)'
  <2>1. PICK i \in Position : entries[i].op = o /\ entries[i].phase = "observed"
    BY <1>1 DEF ToldInv
  <2>2. CASE entries' = entries
    BY <2>1, <2>2 DEF Position
  <2>3. CASE Starts
    BY <2>1, <2>3, StartPositions DEF Starts, Grown
  <2>4. CASE Rewrites
    <3>1. i # Len(entries)
      BY <1>1, <2>1, <2>4, RewriteFacts
    <3>2. QED
      BY <2>1, <2>4, <3>1, RewriteFacts
  <2>5. QED
    BY <2>2, <2>3, <2>4, Steps DEF Kinds, Still, Guarded, Unguarded, Perform, disk
<1>2. ASSUME NEW o \in Operation, told[o] = "error" PROVE effects'[o] = 0
  <2>1. effects[o] = 0
    BY <1>2 DEF ToldInv
  <2>2. CASE Perform
    <3>1. o # op
      BY <1>2, <2>2 DEF Perform, StepInv, Fresh, Pending
    <3>2. QED
      BY <2>1, <2>2, <3>1 DEF Perform, TypeOK
  <2>3. CASE ~Perform
    BY <2>1, <2>3, Steps DEF Kinds, Still, Starts, Rewrites, Guarded, Unguarded
  <2>4. QED
    BY <2>2, <2>3
<1>3. CASE told' = told
  BY <1>1, <1>2, <1>3 DEF ToldInv
<1>4. CASE Answered
  <2> PICK q \in Operation, a \in Answer :
        /\ told' = [told EXCEPT ![q] = a]
        /\ a = "ok" => entries' = entries /\ Sure(q)
        /\ a = "error" => effects[q] = 0 /\ effects' = effects
    BY <1>4 DEF Answered
  <2>1. told'[q] = a /\ \A o \in Operation : o # q => told'[o] = told[o]
    BY DEF TypeOK
  <2>2. a = "ok" => Sure(q)'
    BY DEF Position
  <2>3. QED
    BY <1>1, <1>2, <2>1, <2>2 DEF ToldInv
<1>5. QED
  BY <1>3, <1>4, ToldChanges

-----------------------------------------------------------------------------
(* The theorems *)

\* What the steps rely on, the files, the effects, the target, their order and the answers
\* are kept together by every write, failure, death and outsider.
THEOREM Inductive == Spec => []IInv
<1>1. Init => IInv
  <2> SUFFICES ASSUME Init PROVE IInv
    OBVIOUS
  <2>1. entries = <<>> /\ Len(entries) = 0 /\ Position = {}
    BY EmptySeq DEF Init, Position
  <2>2. run \in Run
    BY Zenon DEF Init, Run
  <2>3. TypeOK
    BY <2>1, <2>2, EmptySeq DEF Init, TypeOK, Run, Step, Result, Answer, Sha
  <2>4. StepInv /\ DiskInv /\ EffectInv /\ TargetInv /\ OrderInv /\ ToldInv
    BY <2>1 DEF Init, StepInv, DiskInv, EffectInv, EffectAtMostOnce, TargetInv, InDoubt, OrderInv,
       ToldInv
  <2>5. QED
    BY <2>3, <2>4 DEF IInv
<1>2. IInv /\ [Next]_vars => IInv'
  BY TypeStep, StepInvStep, DiskStep, EffectStep, TargetStep, OrderStep, ToldStep DEF IInv
<1>3. QED
  BY <1>1, <1>2, PTL DEF Spec

-----------------------------------------------------------------------------
(* The chain of digests *)

ChainInv == \A i \in Position :
    entries[i].prev = IF i = 1 THEN NoDigest ELSE Digest(entries[i - 1])

\* Whatever fails or dies, every entry names its predecessor as that was left.
LEMMA ChainStep ==
    ASSUME TypeOK, StepInv, DiskInv, ChainInv, [Next]_vars
    PROVE  ChainInv'
<1>0. Len(entries) \in Nat
  BY Positions
<1>1. CASE Still \/ Perform \/ Guarded \/ Unguarded
  <2>1. entries' = entries
    BY <1>1 DEF Still, Perform, Guarded, Unguarded, disk
  <2>2. QED
    BY <2>1 DEF ChainInv, Position
<1>2. CASE Starts
  <2>1. /\ \A i \in Position : entries'[i] = entries[i]
        /\ Last'.prev = run.head
    BY <1>2 DEF Starts, Grown
  <2>2. run.head = HeadOf(entries)
    BY <1>2 DEF Starts, StepInv, Clean, LoadsClean, Consistent
  <2>3. entries = <<>> <=> Len(entries) = 0
    BY EmptySeq DEF TypeOK
  <2>4. run.head = IF Len(entries) = 0 THEN NoDigest ELSE Digest(entries[Len(entries)])
    BY <2>2, <2>3 DEF HeadOf
  <2>5. ASSUME NEW i \in Position
        PROVE  entries'[i].prev = IF i = 1 THEN NoDigest ELSE Digest(entries'[i - 1])
    <3>1. i # 1 => i - 1 \in Position
      BY <1>0, <2>5 DEF Position
    <3>2. QED
      BY <2>1, <2>5, <3>1 DEF ChainInv, Digest
  <2>6. entries'[Len(entries) + 1].prev
          = IF Len(entries) + 1 = 1 THEN NoDigest ELSE Digest(entries'[Len(entries)])
    <3>1. entries'[Len(entries) + 1] = Last'
      BY <1>2, StartPositions DEF Last
    <3>2. Len(entries) # 0 => Len(entries) \in Position
      BY <1>0 DEF Position
    <3>3. QED
      BY <1>0, <2>1, <2>4, <3>1, <3>2 DEF Digest
  <2>7. \A i \in Position' :
          entries'[i].prev = IF i = 1 THEN NoDigest ELSE Digest(entries'[i - 1])
    BY <1>0, <1>2, <2>5, <2>6, StartPositions
  <2>8. QED
    BY <2>7 DEF ChainInv
<1>3. CASE Rewrites
  <2>1. /\ Position' = Position /\ Len(entries) \in Position
        /\ Last = entries[Len(entries)] /\ Last' = entries'[Len(entries)]
        /\ \A i \in Position : i # Len(entries) => entries'[i] = entries[i]
    BY <1>3, RewriteFacts
  <2>2. Last'.prev = Last.prev
    BY <1>3 DEF Rewrites, Changed
  <2>3. \A i \in Position : entries'[i].prev = entries[i].prev
    BY <2>1, <2>2
  <2>4. \A i \in Position : i # 1 => entries'[i - 1] = entries[i - 1]
    BY <1>0, <2>1 DEF Position
  <2>5. \A i \in Position :
          entries'[i].prev = IF i = 1 THEN NoDigest ELSE Digest(entries'[i - 1])
    BY <2>3, <2>4 DEF ChainInv, Digest
  <2>6. QED
    BY <2>1, <2>5 DEF ChainInv
<1>4. QED
  BY <1>1, <1>2, <1>3, Steps DEF Kinds

\* The entries are a chain of digests at every moment, whatever the head says.
LEMMA AlwaysChained == Spec => []ChainInv
<1>1. Init => ChainInv
  <2> SUFFICES ASSUME Init PROVE Position = {}
    BY DEF ChainInv
  <2>1. QED
    BY EmptySeq DEF Init, Position
<1>2. IInv /\ ChainInv /\ [Next]_vars => ChainInv'
  BY ChainStep DEF IInv
<1>3. QED
  BY <1>1, <1>2, Inductive, PTL DEF Spec

\* An apply publication without an outcome can be resolved by a later apply, wherever the
\* command died or failed, unless it stopped between the entry and the head.
THEOREM PublicationsResolve == Spec => []ResolvableUnlessTorn
<1>1. IInv /\ ChainInv => ResolvableUnlessTorn
  <2> SUFFICES ASSUME IInv, ChainInv, entries # <<>>, ~Torn,
                      Last.op \in Publication, Last.phase # "observed"
               PROVE  Resolvable
    BY DEF ResolvableUnlessTorn
  <2>1. /\ DOMAIN entries = Position /\ Len(entries) \in Position
        /\ Last = entries[Len(entries)]
    BY Positions DEF IInv, Last
  <2>2. run.sequence = Len(entries) /\ run.head = HeadOf(entries)
    BY DEF Torn
  <2>3. Consistent(run, entries)
    <3>1. Chained(entries)
      <4> SUFFICES ASSUME NEW i \in Position
                   PROVE  entries[i].prev
                            = IF i = 1 THEN NoDigest ELSE Digest(entries[i - 1])
        BY <2>1 DEF Chained
      <4>1. QED
        BY DEF ChainInv
    <3>2. QED
      BY <2>2, <3>1 DEF Consistent
  <2>4. {i \in DOMAIN entries : entries[i].phase # "observed"} = {Len(entries)}
    <3>1. Len(entries) \in Nat
      BY Positions DEF IInv
    <3>2. \A i \in Position : i # Len(entries) => entries[i].phase = "observed"
      BY <3>1 DEF IInv, DiskInv, Position
    <3>3. QED
      BY <2>1, <3>2
  <2>5. guards \subseteq {Last.op}
    BY DEF IInv, DiskInv
  <2>6. QED
    BY <2>3, <2>4, <2>5 DEF Resolvable
<1>2. QED
  BY <1>1, Inductive, AlwaysChained, PTL

-----------------------------------------------------------------------------
(* The head in run.json *)

\* The head misses the last entry, which is an intent nobody has acted upon.
Behind ==
    /\ entries # <<>>
    /\ run.sequence = Len(entries) - 1 /\ run.head = Last.prev
    /\ Last.phase = "intent" /\ effects[Last.op] = 0

\* The head names the last entry in one of its phases.
Level ==
    /\ run.sequence = Len(entries)
    /\ \/ run.head = NoDigest /\ entries = <<>>
       \/ entries # <<>> /\ \E phase \in Phase : run.head = <<Last.op, phase>>

HeadInv ==
    /\ Level \/ Behind
    /\ pc = "intent head" => Behind
    /\ pc \notin {"idle", "ready", "intent entry", "intent head"} => Level

LEMMA LastIsEntry ==
    ASSUME TypeOK, entries # <<>>
    PROVE  Last.phase \in Phase /\ Last.op \in Operation /\ HeadOf(entries) = <<Last.op, Last.phase>>
<1>1. Last \in Entry
  BY Positions DEF Last
<1>2. QED
  BY <1>1 DEF Entry, HeadOf, Digest, Last

\* A journal that loads, or that a resolution loads, has the right head.
LEMMA LoadedIsLevel ==
    ASSUME TypeOK, Consistent(run, entries)
    PROVE  Level
<1>1. run.sequence = Len(entries) /\ run.head = HeadOf(entries)
  BY DEF Consistent
<1>2. CASE entries = <<>>
  BY <1>1, <1>2 DEF HeadOf, Level
<1>3. CASE entries # <<>>
  BY <1>1, <1>3, LastIsEntry DEF Level
<1>4. QED
  BY <1>2, <1>3

\* Each write of a head levels it, each rewriting of the last entry leaves it level, and
\* only a new entry takes it behind.
LEMMA HeadStep ==
    ASSUME IInv, HeadInv, [Next]_vars
    PROVE  HeadInv'
<1> USE DEF HeadInv
<1>0. TypeOK /\ StepInv /\ DiskInv /\ EffectInv
  BY DEF IInv
<1>1. ASSUME UNCHANGED <<entries, run>>
      PROVE  (Level => Level') /\ (Behind /\ effects' = effects => Behind')
  BY <1>1 DEF Level, Behind, Last
<1>2. ASSUME Rewrites, Level, run' = run
      PROVE  Level'
  <2>1. /\ Len(entries') = Len(entries) /\ entries' # <<>>
        /\ Last'.op = Last.op /\ entries # <<>>
    BY <1>0, <1>2, RewriteFacts, Positions, EmptySeq DEF TypeOK, Position
  <2>2. QED
    BY <1>2, <2>1 DEF Level
<1>3. ASSUME entries # <<>>, entries' = entries, run' = Advanced, Level
      PROVE  Level'
  <2>1. run'.sequence = run.sequence /\ run'.head = HeadOf(entries)
    BY <1>0, <1>3 DEF Advanced, TypeOK
  <2>2. QED
    BY <1>0, <1>3, <2>1, LastIsEntry DEF Level, Last
<1>4. ASSUME NEW w \in Outcome, PublishIntentEntry(w) PROVE HeadInv'
  <2>1. CASE ~Landed(w)
    <3>1. UNCHANGED <<entries, run, effects>> /\ pc' = "idle"
      BY <1>4, <2>1 DEF PublishIntentEntry, Leave, Landed
    <3>2. QED
      BY <1>1, <3>1
  <2>2. CASE Landed(w)
    <3>1. /\ entries' = Append(entries, NewEntry) /\ pc = "intent entry"
          /\ UNCHANGED <<run, guards, op, result, effects>>
          /\ pc' \in {"intent head", "idle"}
      BY <1>4, <2>2 DEF PublishIntentEntry, Leave
    <3>2. result = "none" /\ op \notin Recorded /\ run.sequence = Len(entries)
      BY <1>0, <3>1 DEF StepInv, Clean, LoadsClean, Consistent
    <3>3. Grown
      BY <1>0, <3>1, <3>2, AppendGrows
    <3>4. op \in Operation
      BY <1>0 DEF TypeOK
    <3>5. effects[op] = 0
      BY <1>0, <3>2, <3>4, UnrecordedHasNoEffect
    <3>6. entries' # <<>> /\ Len(entries) \in Nat
      <4>1. Starts
        BY <1>4, <2>2, <3>1, <3>3 DEF PublishIntentEntry, Starts
      <4>2. QED
        BY <1>0, <4>1, StartPositions, Positions
    <3>7. /\ Len(entries') = Len(entries) + 1
          /\ Last'.op = op /\ Last'.phase = "intent" /\ Last'.prev = run.head
      BY <3>3 DEF Grown
    <3>8. run'.sequence = Len(entries') - 1 /\ run'.head = Last'.prev
      <4> HIDE DEF HeadInv
      <4>1. run' = run
        BY <3>1
      <4>2. run'.sequence = Len(entries) /\ run'.head = run.head
        BY <3>2, <4>1, Zenon
      <4>3. QED
        BY <3>6, <3>7, <4>2
    <3>9. effects'[Last'.op] = 0
      BY <3>1, <3>5, <3>7
    <3>10. Behind'
      BY <3>6, <3>7, <3>8, <3>9 DEF Behind
    <3>11. QED
      BY <3>1, <3>10
  <2>3. QED
    BY <2>1, <2>2
<1>5. ASSUME NEW w \in Outcome, PublishIntentHead(w) PROVE HeadInv'
  <2>1. Behind
    BY <1>5 DEF PublishIntentHead
  <2>2. CASE Landed(w)
    <3>1. /\ run'.sequence = run.sequence + 1 /\ run'.head = HeadOf(entries)
          /\ entries' = entries
      BY <1>5, <2>2 DEF PublishIntentHead
    <3>2. Len(entries) \in Nat /\ entries # <<>>
      BY <1>0, <2>1, Positions DEF Behind
    <3>3. run'.sequence = Len(entries')
      <4> HIDE DEF HeadInv
      <4>1. run.sequence = Len(entries) - 1
        BY <2>1 DEF Behind
      <4>2. QED
        BY <3>1, <3>2, <4>1
    <3>4. Last.phase \in Phase /\ run'.head = <<Last.op, Last.phase>>
      BY <1>0, <3>1, <3>2, LastIsEntry
    <3>5. Last' = Last
      BY <3>1 DEF Last
    <3>6. Level'
      BY <3>1, <3>2, <3>3, <3>4, <3>5 DEF Level
    <3>7. pc' \in {"guard", "idle"}
      BY <1>5 DEF PublishIntentHead, Leave
    <3>8. QED
      BY <3>6, <3>7
  <2>3. CASE ~Landed(w)
    <3>1. UNCHANGED <<entries, run, effects>> /\ pc' = "idle"
      BY <1>5, <2>3 DEF PublishIntentHead, Leave, Landed, world
    <3>2. QED
      BY <1>1, <2>1, <3>1
  <2>4. QED
    BY <2>2, <2>3
<1>6. ASSUME NEW w \in Outcome, WriteResultEntry(w) \/ WriteAttentionEntry(w) \/ ResolveEntry(w)
      PROVE  HeadInv'
  <2>1. /\ Level /\ run' = run /\ Pending
        /\ pc' \in {"result head", "catch", "attention head", "resolve head", "idle"}
    BY <1>0, <1>6
       DEF WriteResultEntry, WriteAttentionEntry, ResolveEntry, Leave, StepInv
  <2>2. CASE entries' = entries
    BY <1>1, <2>1, <2>2
  <2>3. CASE entries' # entries
    <3>1. Rewrites
      BY <1>0, <1>6, <2>1, <2>3, RewriteChanges
         DEF WriteResultEntry, WriteAttentionEntry, ResolveEntry, Rewrites, Pending, Phase,
             Calm, world
    <3>2. QED
      BY <1>2, <2>1, <3>1
  <2>4. QED
    BY <2>2, <2>3
<1>7. ASSUME NEW w \in Outcome, WriteResultHead(w) \/ WriteAttentionHead(w) \/ ResolveHead(w)
      PROVE  HeadInv'
  <2>1. /\ Level /\ entries' = entries /\ entries # <<>>
        /\ run' \in {run, Advanced}
        /\ pc' \in {"result guard", "catch", "attention guard", "resolve guard", "idle"}
    BY <1>0, <1>7
       DEF WriteResultHead, WriteAttentionHead, ResolveHead, Leave, StepInv, Pending
  <2>2. QED
    BY <1>1, <1>3, <2>1
<1>8. ASSUME NEW w \in Outcome,
             PublishGuard(w) \/ RemoveGuard(w) \/ RemoveAttentionGuard(w) \/ ResolveGuard(w)
      PROVE  HeadInv'
  <2>1. /\ Level /\ UNCHANGED <<entries, run>>
        /\ pc' \in {"guarded", "ready", "idle"}
    BY <1>8 DEF PublishGuard, RemoveGuard, RemoveAttentionGuard, ResolveGuard, Leave
  <2>2. QED
    BY <1>1, <2>1
<1>9. CASE Perform \/ AssertBeforeEffect \/ FailEffect \/ DeclineEffect \/ AssertBeforeAttention
  <2>1. /\ Level /\ UNCHANGED <<entries, run>>
        /\ pc' # "intent head"
    BY <1>9 DEF Perform, AssertBeforeEffect, FailEffect, DeclineEffect,
       AssertBeforeAttention, Leave, disk
  <2>2. QED
    BY <1>1, <2>1
<1>10. CASE BeginResolution
  <2>1. Level /\ UNCHANGED <<entries, run>> /\ pc' # "intent head"
    BY <1>0, <1>10, LoadedIsLevel DEF BeginResolution, Resolvable, disk
  <2>2. QED
    BY <1>1, <2>1
<1>11. CASE (\E kind \in {"apply", "other"} : Open(kind)) \/ Close \/ Crash
            \/ RefuseRetainedLock \/ (\E o \in Operation : Begin(o) \/ Replay(o) \/ Refuse(o))
            \/ RefuseResolution \/ MoveTarget \/ UNCHANGED vars
  <2>1. /\ UNCHANGED <<entries, run, effects>>
        /\ pc' \in {"idle", "ready", "intent entry"} \/ pc' = pc
    BY <1>11 DEF Open, Close, Leave, Crash, RefuseRetainedLock, Begin, Replay, Refuse,
       RefuseResolution, MoveTarget, disk, world, vars
  <2>2. QED
    BY <1>1, <2>1
<1>12. QED
  BY <1>4, <1>5, <1>6, <1>7, <1>8, <1>9, <1>10, <1>11 DEF Next, Publish

\* The files of a torn journal are one write apart, and an entry that the head misses has
\* had no effect.
THEOREM TornTellsTheTruth == Spec => []TornByOneWrite
<1>1. Init => HeadInv
  <2> SUFFICES ASSUME Init PROVE Level /\ pc = "idle"
    BY DEF HeadInv
  <2>1. entries = <<>> /\ Len(entries) = 0
    BY EmptySeq DEF Init
  <2>2. QED
    BY <2>1 DEF Init, Level
<1>2. IInv /\ HeadInv /\ [Next]_vars => HeadInv'
  BY HeadStep
<1>3. IInv /\ HeadInv => TornByOneWrite
  <2> SUFFICES ASSUME TypeOK, HeadInv, Torn PROVE TornByOneWrite
    BY DEF IInv, TornByOneWrite
  <2>1. CASE Behind
    BY <2>1 DEF Behind, TornByOneWrite
  <2>2. CASE Level
    <3>1. run.sequence = Len(entries) /\ run.head # HeadOf(entries)
      BY <2>2 DEF Level, Torn
    <3>2. entries # <<>>
      BY <2>2, <3>1 DEF Level, HeadOf
    <3>3. PICK phase \in Phase : run.head = <<Last.op, phase>>
      BY <2>2, <3>2 DEF Level
    <3>4. phase # Last.phase
      BY <3>1, <3>2, <3>3, LastIsEntry
    <3>5. QED
      BY <3>1, <3>2, <3>3, <3>4 DEF TornByOneWrite
  <2>3. QED
    BY <2>1, <2>2 DEF HeadInv
<1>4. QED
  BY <1>1, <1>2, <1>3, Inductive, PTL DEF Spec

\* Entries, heads, guards and answers stay in their types.
THEOREM TypeCorrect == Spec => []TypeOK
BY Inductive, PTL DEF IInv

\* However requests, retries, failed writes and deaths follow each other, no external
\* effect of a journaled operation happens twice.
THEOREM AtMostOneEffect == Spec => []EffectAtMostOnce
BY Inductive, PTL DEF IInv, EffectInv

\* What an entry says of its effect is true in every phase, that of a publication unless
\* outsiders moved the target to or away from the final SHA while it was in doubt.
THEOREM RecordsAreTruthful == Spec => []TruthfulRecords
<1>1. IInv => TruthfulRecords
  BY Positions DEF IInv, EffectInv, TruthfulEntry, TruthfulRecords
<1>2. QED
  BY <1>1, Inductive, PTL

\* A journal that loads has the observed entry of every effect that ever happened.
THEOREM CleanIsComplete == Spec => []CleanAccountsForEffects
<1>1. IInv => CleanAccountsForEffects
  <2> SUFFICES ASSUME IInv, Clean, NEW o \in Operation, effects[o] > 0
               PROVE  o \in Observed
    BY DEF CleanAccountsForEffects
  <2>1. \E i \in Position : entries[i].op = o /\ entries[i].phase = "observed"
    BY CleanIsCertain DEF IInv, EffectInv
  <2>2. QED
    BY <2>1, RecordedAt DEF IInv
<1>2. QED
  BY <1>1, Inductive, PTL

\* A success told to a caller survives all that can happen later.
THEOREM AcknowledgementsLast == Spec => []AcknowledgedIsDurable
<1>1. IInv => AcknowledgedIsDurable
  BY RecordedAt DEF IInv, ToldInv, AcknowledgedIsDurable
<1>2. QED
  BY <1>1, Inductive, PTL

\* After the error, other than recovery_required, of a call that found no entry of its
\* operation, the effect has not happened, until somebody asks for it again.
THEOREM ErrorsMeanNoEffect == Spec => []PlainErrorMeansNoEffect
<1>1. IInv => PlainErrorMeansNoEffect
  BY DEF IInv, ToldInv, PlainErrorMeansNoEffect
<1>2. QED
  BY <1>1, Inductive, PTL

\* Effects happen after their prerequisites, and never two that exclude each other.
THEOREM EffectsAreOrdered == Spec => []EffectsInOrder
<1>1. IInv => EffectsInOrder
  <2> SUFFICES ASSUME IInv, NEW o \in Operation, effects[o] > 0
               PROVE  /\ Requires[o] \subseteq Observed
                      /\ \A q \in Excludes[o] : effects[q] = 0
    BY DEF EffectsInOrder
  <2>1. PICK i \in Position : entries[i].op = o
    BY DEF IInv, EffectInv
  <2>2. Len(entries) \in Nat
    BY Positions DEF IInv
  <2>3. Ordered(entries, i)
    BY DEF IInv, OrderInv
  <2>4. Requires[o] \subseteq Observed
    <3> SUFFICES ASSUME NEW q \in Requires[o] PROVE q \in Observed
      OBVIOUS
    <3>1. PICK j \in 1 .. (i - 1) : entries[j].op = q
      BY <2>1, <2>3 DEF Ordered
    <3>2. j \in Position /\ entries[j].phase = "observed"
      BY <2>2 DEF IInv, DiskInv, Position
    <3>3. QED
      BY <3>1, <3>2, RecordedAt DEF IInv
  <2>5. ASSUME NEW q \in Excludes[o], effects[q] # 0 PROVE FALSE
    <3>1. q \in Operation /\ o \in Excludes[q] /\ o # q
      BY OperationKinds
    <3>2. PICK j \in Position : entries[j].op = q
      BY <2>5, <3>1 DEF IInv, EffectInv, TypeOK
    <3>3. i # j
      BY <2>1, <3>1, <3>2
    <3>4. CASE j < i
      BY <2>1, <2>2, <2>3, <3>2, <3>4 DEF Ordered, Position
    <3>5. CASE i < j
      <4>1. Ordered(entries, j) /\ i \in 1 .. (j - 1)
        BY <2>2, <3>5 DEF IInv, OrderInv, Position
      <4>2. QED
        BY <2>1, <3>1, <3>2, <4>1 DEF Ordered
    <3>6. QED
      BY <2>2, <3>3, <3>4, <3>5 DEF Position
  <2>6. QED
    BY <2>4, <2>5
<1>2. QED
  BY <1>1, Inductive, PTL

-----------------------------------------------------------------------------
(* The refinement of AtMostOnce *)

\* The outcome that entry e is known to have, with the guards g.
OutcomeOf(e, g) ==
    IF e.phase = "observed" /\ e.op \notin g THEN e.result ELSE "in doubt"

\* An operation is absent, or its outcome is that of its entry.
OutcomesKnown ==
    /\ KnownOutcome = [o \in Operation |-> KnownOutcome[o]]
    /\ \A o \in Operation :
          (\A i \in Position : entries[i].op # o) => KnownOutcome[o] = "absent"
    /\ \A i \in Position :
          KnownOutcome[entries[i].op] = OutcomeOf(entries[i], guards)

LEMMA KnownAt == TypeOK /\ DiskInv => OutcomesKnown
<1> SUFFICES ASSUME TypeOK, DiskInv PROVE OutcomesKnown
  OBVIOUS
<1>1. KnownOutcome = [o \in Operation |-> KnownOutcome[o]]
  BY DEF KnownOutcome
<1>2. ASSUME NEW o \in Operation, \A i \in Position : entries[i].op # o
      PROVE  KnownOutcome[o] = "absent"
  <2>1. o \notin Recorded
    BY <1>2, RecordedAt
  <2>2. QED
    BY <2>1 DEF KnownOutcome
<1>3. ASSUME NEW i \in Position
      PROVE  KnownOutcome[entries[i].op] = OutcomeOf(entries[i], guards)
  <2> DEFINE o == entries[i].op
  <2>1. o \in Recorded /\ o \in Operation
    BY RecordedAt, Positions, EntryFields
  <2>2. EntryOf(o) = entries[i]
    <3>1. \E j \in Position : entries[j].op = o
      OBVIOUS
    <3>2. (CHOOSE j \in Position : entries[j].op = o) = i
      BY <3>1 DEF DiskInv
    <3>3. QED
      BY <3>2, Positions DEF EntryOf
  <2>3. QED
    BY <2>1, <2>2 DEF KnownOutcome, OutcomeOf
<1>4. QED
  BY <1>1, <1>2, <1>3 DEF OutcomesKnown

LEMMA KnownAtNext == TypeOK' /\ DiskInv' => OutcomesKnown'
BY KnownAt, PTL

\* If only the outcome of op can have changed, it is this change that the step makes.
LEMMA OutcomeMoves ==
    ASSUME TypeOK, TypeOK', DiskInv, DiskInv',
           \A o \in Operation : o # op => KnownOutcome'[o] = KnownOutcome[o]
    PROVE  KnownOutcome' = [KnownOutcome EXCEPT ![op] = KnownOutcome'[op]]
<1>1. op \in Operation
  BY DEF TypeOK
<1>2. QED
  BY <1>1, KnownAt, KnownAtNext DEF OutcomesKnown

Refines == [Abstract!Next]_(Abstract!vars)

\* A command goes on, gives up, starts on its operation or on a resolution.
WorkMoves ==
    \/ Work' \in {Work, "none"}
    \/ Starts /\ Work' = "performing"
    \/ BeginResolution

LEMMA WorkSteps ==
    ASSUME TypeOK, StepInv, [Next]_vars
    PROVE  WorkMoves
<1> USE DEF WorkMoves, Work, Leave
<1>1. ASSUME NEW w \in Outcome, Publish(w) PROVE WorkMoves
  <2>1. CASE PublishIntentEntry(w)
    <3>1. CASE w = "done"
      BY <2>1, <3>1, AppendGrows DEF PublishIntentEntry, StepInv, Starts, Landed
    <3>2. CASE w # "done"
      BY <2>1, <3>2 DEF PublishIntentEntry
    <3>3. QED
      BY <3>1, <3>2
  <2>2. CASE PublishIntentHead(w) \/ PublishGuard(w)
    BY <2>2 DEF PublishIntentHead, PublishGuard
  <2>3. CASE WriteResultEntry(w) \/ WriteResultHead(w) \/ RemoveGuard(w)
    BY <2>3 DEF WriteResultEntry, WriteResultHead, RemoveGuard
  <2>4. CASE WriteAttentionEntry(w) \/ WriteAttentionHead(w) \/ RemoveAttentionGuard(w)
    BY <2>4 DEF WriteAttentionEntry, WriteAttentionHead, RemoveAttentionGuard
  <2>5. CASE ResolveEntry(w) \/ ResolveHead(w) \/ ResolveGuard(w)
    BY <2>5 DEF ResolveEntry, ResolveHead, ResolveGuard
  <2>6. QED
    BY <1>1, <2>1, <2>2, <2>3, <2>4, <2>5 DEF Publish
<1>2. CASE \E kind \in {"apply", "other"} : Open(kind)
  BY <1>2 DEF Open
<1>3. CASE Close \/ Crash \/ RefuseRetainedLock \/ RefuseResolution \/ MoveTarget \/ UNCHANGED vars
  BY <1>3 DEF Close, Crash, RefuseRetainedLock, RefuseResolution, MoveTarget, vars
<1>4. CASE \E o \in Operation : Begin(o) \/ Replay(o) \/ Refuse(o)
  BY <1>4 DEF Begin, Replay, Refuse
<1>5. CASE AssertBeforeEffect \/ Perform \/ FailEffect \/ DeclineEffect \/ AssertBeforeAttention
  BY <1>5 DEF AssertBeforeEffect, Perform, FailEffect, DeclineEffect, AssertBeforeAttention
<1>6. QED
  BY <1>1, <1>2, <1>3, <1>4, <1>5 DEF Next

\* Whoever settles op knows what it did, or believes what it read.
MaySettle == (Work = "performing" /\ Decided) \/ (Work = "resolving" /\ Believed)

LEMMA OutcomeStep ==
    ASSUME IInv, IInv', [Next]_vars
    PROVE  Refines
<1> USE DEF IInv
<1>0. op \in Operation
  BY DEF TypeOK
<1>a. /\ KnownOutcome = [o \in Operation |-> KnownOutcome[o]]
      /\ \A o \in Operation :
            (\A i \in Position : entries[i].op # o) => KnownOutcome[o] = "absent"
      /\ \A i \in Position : KnownOutcome[entries[i].op] = OutcomeOf(entries[i], guards)
  BY KnownAt, Zenon DEF OutcomesKnown
<1>b. /\ KnownOutcome' = [o \in Operation |-> KnownOutcome'[o]]
      /\ \A o \in Operation :
            (\A i \in Position' : entries'[i].op # o) => KnownOutcome'[o] = "absent"
      /\ \A i \in Position' : KnownOutcome'[entries'[i].op] = OutcomeOf(entries'[i], guards')
  BY KnownAtNext, Zenon DEF OutcomesKnown, OutcomeOf
<1>c. WorkMoves
  BY WorkSteps
<1>1. CASE Still
  <2>1. KnownOutcome' = KnownOutcome /\ effects' = effects
    BY <1>1 DEF Still, KnownOutcome, Recorded, EntryOf
  <2>a. CASE MoveTarget
    <3>1. Work' = Work
      BY <2>a DEF MoveTarget, Work
    <3>2. CASE meddled' = meddled
      BY <2>1, <3>1, <3>2 DEF Refines, Abstract!vars
    <3>3. CASE meddled' # meddled
      <4>1. meddled' = meddled \cup InDoubt
        BY <2>a, <3>3 DEF MoveTarget
      <4>2. PICK q \in InDoubt : TRUE
        BY <3>3, <4>1
      <4>3. /\ q \in Publication /\ entries # <<>> /\ Last.op = q /\ InDoubt = {q}
            /\ Last.phase # "observed" \/ q \in guards
        BY <4>2 DEF InDoubt
      <4>4. Len(entries) \in Position /\ q \in Operation
        BY <4>3, Positions, OperationKinds
      <4>5. KnownOutcome[q] = "in doubt"
        BY <1>a, <4>3, <4>4 DEF Last, OutcomeOf
      <4>6. Abstract!Meddle(q)
        BY <2>1, <3>1, <4>1, <4>3, <4>5 DEF Abstract!Meddle
      <4>7. QED
        BY <4>4, <4>6 DEF Refines, Abstract!Next
    <3>4. QED
      BY <3>2, <3>3
  <2> SUFFICES ASSUME meddled' = meddled PROVE Refines
    BY <1>1, <2>a DEF Still, Calm
  <2>2. CASE Work' = Work
    BY <2>1, <2>2 DEF Refines, Abstract!vars
  <2>3. CASE Work' = "none"
    BY <2>1, <2>3 DEF Refines, Abstract!Next, Abstract!Abandon
  <2>4. CASE Starts
    <3>1. entries' = entries /\ Len(entries) \in Nat
      BY <1>1, Positions DEF Still
    <3>2. Len(entries') = Len(entries) + 1
      BY <2>4 DEF Starts, Grown
    <3>3. Len(entries') = Len(entries)
      BY <3>1
    <3>4. QED
      BY <3>1, <3>2, <3>3
  <2>5. CASE BeginResolution
    <3>1. /\ Work = "none" /\ Work' = "resolving"
          /\ Last.op \in Publication /\ Len(entries) \in Position
          /\ Last.phase # "observed"
      <4>1. entries # <<>> /\ Last.op \in Publication
        BY <2>5 DEF BeginResolution, Resolvable
      <4>2. Len(entries) \in Position /\ DOMAIN entries = Position
        BY <4>1, Positions
      <4>3. Len(entries) \in {i \in DOMAIN entries : entries[i].phase # "observed"}
        BY <2>5, Zenon DEF BeginResolution, Resolvable
      <4>4. QED
        BY <2>5, <4>1, <4>2, <4>3 DEF BeginResolution, Work, Last
    <3>2. KnownOutcome[Last.op] = "in doubt" /\ Last.op \in Operation
      BY <3>1, <1>a, OperationKinds DEF Last, OutcomeOf
    <3>3. Abstract!Resolve(Last.op)
      BY <2>1, <3>1, <3>2 DEF Abstract!Resolve
    <3>4. QED
      BY <3>2, <3>3 DEF Refines, Abstract!Next
  <2>6. QED
    BY <1>c, <2>2, <2>3, <2>4, <2>5 DEF WorkMoves
<1>2. CASE Starts
  <2>1. /\ \A i \in Position : entries'[i] = entries[i]
        /\ Last'.op = op /\ Last'.phase = "intent"
        /\ guards' = guards /\ effects' = effects
    BY <1>2 DEF Starts, Grown
  <2>2. KnownOutcome[op] = "absent"
    BY <1>0, <1>2, StartFacts, <1>a
  <2>3. KnownOutcome'[op] = "in doubt"
    <3>1. Len(entries) + 1 \in Position' /\ entries'[Len(entries) + 1] = Last'
      BY <1>2, StartPositions
    <3>2. KnownOutcome'[Last'.op] = OutcomeOf(Last', guards')
      BY <1>b, <3>1
    <3>3. QED
      BY <2>1, <3>2 DEF OutcomeOf
  <2>4. ASSUME NEW o \in Operation, o # op PROVE KnownOutcome'[o] = KnownOutcome[o]
    <3>1. CASE \E i \in Position : entries[i].op = o
      BY <1>2, <2>1, <3>1, StartPositions, <1>a, <1>b
    <3>2. CASE \A i \in Position : entries[i].op # o
      <4>1. \A i \in Position' : entries'[i].op # o
        BY <1>2, <2>1, <2>4, <3>2, StartPositions
      <4>2. QED
        BY <3>2, <4>1, <1>a, <1>b
    <3>3. QED
      BY <3>1, <3>2
  <2>5. \A q \in Operation : KnownOutcome[q] # "in doubt"
    <3> SUFFICES ASSUME NEW q \in Operation PROVE KnownOutcome[q] # "in doubt"
      OBVIOUS
    <3>1. CASE \E i \in Position : entries[i].op = q
      <4>1. PICK i \in Position : entries[i].op = q
        BY <3>1
      <4>2. entries[i].phase = "observed" /\ guards = {}
        BY <1>2, StartFacts
      <4>3. entries[i].result \in {"performed", "declined"}
        BY <4>2 DEF EffectInv, TruthfulEntry
      <4>4. KnownOutcome[q] = entries[i].result
        BY <1>a, <4>1, <4>2 DEF OutcomeOf
      <4>5. QED
        BY <4>3, <4>4
    <3>2. CASE \A i \in Position : entries[i].op # q
      BY <3>2, <1>a
    <3>3. QED
      BY <3>1, <3>2
  <2>6. KnownOutcome' = [KnownOutcome EXCEPT ![op] = "in doubt"]
    BY <2>3, <2>4, OutcomeMoves
  <2>9. meddled' \in {meddled, meddled \cup ({op} \cap Publication)}
    BY <1>2 DEF Starts
  <2>7. Abstract!Begin(op)
    <3>1. Work = "none" /\ Work' \in {"performing", "none"}
      BY <1>2, <1>c DEF Starts, Work, WorkMoves, BeginResolution
    <3>2. QED
      BY <2>1, <2>2, <2>5, <2>6, <2>9, <3>1 DEF Abstract!Begin, Abstract!Continues
  <2>8. QED
    BY <1>0, <2>7 DEF Refines, Abstract!Next
<1>3. ASSUME effects' = effects, entries # <<>>, Last.op = op, Last'.op = op,
             Len(entries') = Len(entries),
             \A i \in Position : entries'[i].op = entries[i].op,
             \A i \in Position : i # Len(entries) => entries'[i] = entries[i],
             guards \subseteq {op}, guards' \subseteq {op}
      PROVE  /\ KnownOutcome[op] = OutcomeOf(Last, guards)
             /\ KnownOutcome'[op] = OutcomeOf(Last', guards')
             /\ KnownOutcome' = [KnownOutcome EXCEPT ![op] = KnownOutcome'[op]]
  <2>1. Position' = Position /\ Len(entries) \in Position
    BY <1>3, Positions DEF Position
  <2>2. Last = entries[Len(entries)] /\ Last' = entries'[Len(entries)]
    BY <1>3 DEF Last
  <2>3. KnownOutcome[op] = OutcomeOf(Last, guards)
    BY <1>3, <2>1, <2>2, <1>a
  <2>4. KnownOutcome'[op] = OutcomeOf(Last', guards')
    BY <1>3, <2>1, <2>2, <1>b
  <2>5. ASSUME NEW o \in Operation, o # op PROVE KnownOutcome'[o] = KnownOutcome[o]
    <3>1. CASE \E i \in Position : entries[i].op = o
      <4>1. PICK i \in Position : entries[i].op = o
        BY <3>1
      <4>2. entries'[i] = entries[i] /\ i \in Position'
        BY <1>3, <2>1, <2>2, <2>5, <4>1
      <4>3. OutcomeOf(entries'[i], guards') = OutcomeOf(entries[i], guards)
        BY <1>3, <2>5, <4>1, <4>2 DEF OutcomeOf
      <4>4. QED
        BY <4>1, <4>2, <4>3, <1>a, <1>b
    <3>2. CASE \A i \in Position : entries[i].op # o
      <4>1. \A i \in Position' : entries'[i].op # o
        BY <1>3, <2>1, <3>2
      <4>2. QED
        BY <3>2, <4>1, <1>a, <1>b
    <3>3. QED
      BY <3>1, <3>2
  <2>6. QED
    BY <2>3, <2>4, <2>5, OutcomeMoves
\* The outcome of op stays in doubt, or is settled by what the command decided.
<1>4. ASSUME UNCHANGED <<effects, meddled>>, KnownOutcome' = [KnownOutcome EXCEPT ![op] = KnownOutcome'[op]],
             KnownOutcome[op] = "in doubt",
             KnownOutcome'[op] = "in doubt" \/ (MaySettle /\ KnownOutcome'[op] = result),
             Work' \in {Work, "none"}
      PROVE  Refines
  <2>1. CASE KnownOutcome'[op] = "in doubt"
    <3>1. KnownOutcome' = KnownOutcome
      BY <1>0, <1>4, <2>1, <1>a
    <3>2. CASE Work' = Work
      BY <1>4, <3>1, <3>2 DEF Refines, Abstract!vars
    <3>3. CASE Work' = "none"
      BY <1>4, <3>1, <3>3 DEF Refines, Abstract!Next, Abstract!Abandon
    <3>4. QED
      BY <1>4, <3>2, <3>3
  <2>2. CASE MaySettle /\ KnownOutcome'[op] = result
    <3>1. /\ result \in {"performed", "declined"}
          /\ KnownOutcome' = [KnownOutcome EXCEPT ![op] = result]
      BY <1>4, <2>2 DEF MaySettle, Decided, Believed
    <3>2. Decided => Abstract!True(op, result) /\ (result = "declined" => op \in Publication)
      BY DEF Decided, Abstract!True
    <3>3. \/ /\ Work = "performing" /\ Abstract!True(op, result)
             /\ result = "declined" => op \in Publication
          \/ /\ Work = "resolving" /\ op \in Publication
             /\ Abstract!True(op, result) \/ op \in meddled
      BY <2>2, <3>2 DEF MaySettle, Believed
    <3>4. Abstract!Settle(op)
      BY <1>4, <3>1, <3>3 DEF Abstract!Settle, Abstract!Continues
    <3>5. QED
      BY <1>0, <3>4 DEF Refines, Abstract!Next
  <2>3. QED
    BY <1>4, <2>1, <2>2
<1>5. CASE Rewrites
  <2>1. /\ effects' = effects /\ guards' = guards /\ guards \subseteq {op}
        /\ entries # <<>> /\ Last'.result = result /\ meddled' = meddled
    BY <1>5, RewriteFacts DEF Rewrites, Calm, StepInv, Pending, DiskInv
  <2>2. /\ KnownOutcome[op] = OutcomeOf(Last, guards)
        /\ KnownOutcome'[op] = OutcomeOf(Last', guards')
        /\ KnownOutcome' = [KnownOutcome EXCEPT ![op] = KnownOutcome'[op]]
    BY <1>3, <1>5, <2>1, RewriteFacts
  <2>3. Work' \in {Work, "none"}
    BY <1>5, <1>c DEF WorkMoves, Starts, Rewrites, BeginResolution
  <2>4. CASE op \in guards
    BY <1>4, <1>5, <2>1, <2>2, <2>3, <2>4, RewriteFacts DEF OutcomeOf
  <2>5. CASE op \notin guards
    <3>1. pc = "resolve entry" /\ Last'.phase = "observed"
      BY <1>5, <2>5 DEF Rewrites, StepInv, Changed
    <3>2. Last.phase # "observed" /\ MaySettle
      BY <3>1 DEF StepInv, MaySettle, Work
    <3>3. QED
      BY <1>4, <1>5, <2>1, <2>2, <2>3, <2>5, <3>1, <3>2, RewriteFacts DEF OutcomeOf
  <2>6. QED
    BY <2>4, <2>5
<1>6. CASE Guarded \/ Unguarded
  <2>1. UNCHANGED <<entries, effects, meddled, Last, Position>>
    BY <1>6 DEF Guarded, Unguarded, Calm, Last, Position
  <2>2. Pending /\ guards \subseteq {op} /\ guards' \subseteq {op}
    BY <1>6 DEF Guarded, Unguarded, StepInv, Fresh, Pending, DiskInv
  <2>3. /\ KnownOutcome[op] = OutcomeOf(Last, guards)
        /\ KnownOutcome'[op] = OutcomeOf(Last, guards')
        /\ KnownOutcome' = [KnownOutcome EXCEPT ![op] = KnownOutcome'[op]]
    BY <1>3, <2>1, <2>2 DEF Pending
  <2>4. Work' \in {Work, "none"}
    BY <1>6, <1>c DEF WorkMoves, Starts, Guarded, Unguarded, BeginResolution
  <2>5. CASE Last.phase # "observed"
    BY <1>4, <2>1, <2>3, <2>4, <2>5 DEF OutcomeOf
  <2>6. CASE Last.phase = "observed"
    <3>1. Unguarded /\ Last.result = result /\ MaySettle
      BY <1>6, <2>6 DEF Guarded, Unguarded, StepInv, Fresh, MaySettle, Work
    <3>2. CASE guards = {}
      <4>1. guards' = guards
        BY <3>1, <3>2 DEF Unguarded
      <4>2. KnownOutcome' = KnownOutcome
        BY <2>1, <4>1 DEF KnownOutcome, Recorded, EntryOf
      <4>3. CASE Work' = Work
        BY <2>1, <4>2, <4>3 DEF Refines, Abstract!vars
      <4>4. CASE Work' = "none"
        BY <2>1, <4>2, <4>4 DEF Refines, Abstract!Next, Abstract!Abandon
      <4>5. QED
        BY <2>4, <4>3, <4>4
    <3>3. CASE guards = {op}
      BY <1>4, <2>1, <2>2, <2>3, <2>4, <2>6, <3>1, <3>3 DEF OutcomeOf, Unguarded, Pending
    <3>4. QED
      BY <2>2, <3>2, <3>3
  <2>7. QED
    BY <2>5, <2>6
<1>7. CASE Perform
  <2>1. Fresh /\ guards = {op}
    BY <1>7 DEF Perform, StepInv
  <2>2. UNCHANGED <<entries, guards, meddled>>
    BY <1>7 DEF Perform, disk
  <2>3. KnownOutcome' = KnownOutcome
    BY <2>2 DEF KnownOutcome, Recorded, EntryOf
  <2>4. KnownOutcome[op] = "in doubt"
    BY <2>1, Positions, <1>a DEF Fresh, Pending, OutcomeOf, Last
  <2>5. effects[op] = 0 /\ effects' = [effects EXCEPT ![op] = 1]
    <3>1. effects[op] = 0 /\ effects' = [effects EXCEPT ![op] = effects[op] + 1]
      BY <1>7, <2>1 DEF Fresh, Perform
    <3>2. effects[op] + 1 = 1
      BY <3>1
    <3>3. QED
      BY <3>1, <3>2, Zenon
  <2>6. Abstract!Perform(op)
    <3>1. Work = "performing" /\ Work' \in {Work, "none"}
      BY <1>7, <1>c DEF Perform, Work, WorkMoves, Starts, BeginResolution
    <3>2. QED
      BY <2>2, <2>3, <2>4, <2>5, <3>1 DEF Abstract!Perform, Abstract!Continues
  <2>7. QED
    BY <1>0, <2>6 DEF Refines, Abstract!Next
<1>8. QED
  BY <1>1, <1>2, <1>5, <1>6, <1>7, Steps DEF Kinds

\* The journal implements at-most-once operations: one in doubt at a time, an effect
\* only while its command is at work on it, and an end of doubt only by a true record
\* of that command or, for a publication, by what a later apply reads off the target,
\* true as well unless outsiders moved it in the meantime.
THEOREM JournalImplementsAtMostOnce == Spec => ImplementsAtMostOnce
<1>1. Init => Abstract!Init
  <2> SUFFICES ASSUME Init PROVE Abstract!Init
    OBVIOUS
  <2>1. Recorded = {}
    BY EmptySeq DEF Init, Recorded
  <2>2. QED
    BY <2>1 DEF Init, Abstract!Init, KnownOutcome, Work
<1>2. IInv /\ IInv' /\ [Next]_vars => Refines
  BY OutcomeStep
<1>3. QED
  BY <1>1, <1>2, Inductive, PTL DEF Spec, ImplementsAtMostOnce, Abstract!Spec, Refines
=============================================================================
