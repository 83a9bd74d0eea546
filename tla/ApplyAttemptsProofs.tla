------------------------- MODULE ApplyAttemptsProofs ------------------------
(***************************************************************************)
(* The safety properties of ApplyAttempts, for any limit on the number of  *)
(* attempts and whatever outsiders do to the refs.                         *)
(***************************************************************************)
EXTENDS ApplyAttempts, SequenceTheorems, TLAPS

\* What a preview asks of the journal, whatever became of the snapshots since.
PreviewLegal ==
    /\ Lifecycle \in {"gates_collected", "apply_rejected", "apply_voided"}
    /\ Current < MaxAttempts

\* What each step of a running command relies on.
StepInv ==
    /\ pc = "preview" => PreviewLegal
    /\ pc = "record" => /\ Lifecycle = "apply_previewed"
                        /\ receipt \in Receipt /\ receipt.names = Current
    /\ pc = "consume" => Lifecycle = "apply_approved"
    /\ pc \in {"preview", "record", "consume"} => doubt = pc
    /\ pc = "consumed" => doubt = "none" /\ Lifecycle = "apply_consumed"
    /\ pc \in {"observe", "preflight", "cas", "reread", "settle", "resolve"} => doubt = "publish"
    /\ doubt = "publish" => Lifecycle = "apply_consumed"

\* A receipt names its attempt, and the newest attempt has not swapped before its
\* publication reaches the swap.
SwapInv ==
    /\ SwapSpendsReceipt
    /\ \A i \in 1..Current :
          attempts[i].receipt # NoReceipt => attempts[i].receipt.names = i
    /\ doubt = "none" \/ pc \in {"observe", "preflight", "cas"} =>
          (Lifecycle = "apply_consumed" => cas[Current] = 0)

\* Unless outsiders interfered, the target is at the final SHA exactly when this
\* attempt's swap put it there.
OutcomeInv ==
    /\ meddled \subseteq 1..Current
    /\ attempts # <<>> /\ Current \notin meddled => (target = "final" <=> cas[Current] = 1)
    /\ pc \in {"settle", "resolve"} /\ Current \notin meddled =>
          (outcome = "applied" <=> cas[Current] = 1)
    /\ TruthfulOutcome

IInv ==
    /\ TypeOK
    /\ StepInv
    /\ ClassifierAccepts
    /\ StandDownAfterOutcome
    /\ SwapInv
    /\ OutcomeInv

-----------------------------------------------------------------------------
(* What a scan tells of the journal *)

LEMMA ScanTells ==
    /\ Scan \in {"gates_collected", "apply_rejected", "apply_voided", "apply_approved",
                 "apply_consumed", "closing"} => Lifecycle = Scan
    /\ MayPreview => PreviewLegal
    /\ MayStandDown => Lifecycle \notin {"apply_consumed", "closing"}
<1>1. CASE intact \/ standingDown
  BY <1>1 DEF Scan, MayPreview, PreviewLegal, MayStandDown
<1>2. CASE ~intact /\ ~standingDown
  BY <1>2 DEF Scan, MayPreview, PreviewLegal, MayStandDown, Lifecycle
<1>3. QED
  BY <1>1, <1>2

-----------------------------------------------------------------------------
(* How the attempts change *)

\* Replacing the newest attempt keeps the sequence and all other attempts.
LEMMA EditNewest ==
    ASSUME attempts \in Seq(Attempt), attempts # <<>>, NEW a \in Attempt
    PROVE  LET s == [attempts EXCEPT ![Current] = a]
           IN  /\ s \in Seq(Attempt) /\ Len(s) = Current
               /\ s[Current] = a
               /\ \A i \in 1..Current : i # Current => s[i] = attempts[i]
<1>1. Current \in 1..Len(attempts)
  BY EmptySeq, LenProperties DEF Current
<1>2. QED
  BY <1>1, ExceptSeq DEF Current

\* The newest attempt is replaced by a, all others stay.
Edited(a) ==
    /\ attempts # <<>> /\ a \in Attempt
    /\ attempts' \in Seq(Attempt) /\ attempts' # <<>>
    /\ Current' = Current /\ Newest' = a
    /\ \A i \in 1..Current : attempts'[i] = IF i = Current THEN a ELSE attempts[i]

\* A fresh attempt is added, all others stay.
Extended ==
    /\ attempts' \in Seq(Attempt) /\ attempts' # <<>>
    /\ Current' = Current + 1 /\ Newest' = New
    /\ \A i \in 1..Current : attempts'[i] = attempts[i]

LEMMA NewestIsAttempt ==
    ASSUME attempts \in Seq(Attempt)
    PROVE  /\ Current \in Nat
           /\ attempts = <<>> <=> Current = 0
           /\ \A i \in 1..Current : attempts[i] \in Attempt
BY EmptySeq, LenProperties DEF Current

LEMMA FinishPreviewExtends ==
    ASSUME TypeOK, FinishPreview PROVE Extended
<1>1. New \in Attempt
  BY DEF New, Attempt
<1>2. QED
  BY <1>1, AppendProperties, LenProperties
     DEF FinishPreview, Extended, TypeOK, Current, Newest

LEMMA FinishRecordEdits ==
    ASSUME TypeOK, StepInv, FinishRecord
    PROVE  Edited([Newest EXCEPT !.receipt = receipt])
<1>1. attempts # <<>>
  BY DEF FinishRecord, StepInv, Lifecycle
<1>2. [Newest EXCEPT !.receipt = receipt] \in Attempt
  <2>1. Newest \in Attempt
    BY <1>1, NewestIsAttempt DEF TypeOK, Newest
  <2>2. receipt \in Receipt
    BY DEF FinishRecord, StepInv
  <2>3. QED
    BY ONLY <2>1, <2>2, Zenon DEF Attempt
<1>3. attempts' = [attempts EXCEPT ![Current] = [Newest EXCEPT !.receipt = receipt]]
  BY DEF FinishRecord, Newest
<1>4. QED
  BY <1>1, <1>2, <1>3, EditNewest, NewestIsAttempt, EmptySeq
     DEF Edited, Current, Newest, TypeOK

LEMMA FinishConsumeEdits ==
    ASSUME TypeOK, StepInv, FinishConsume
    PROVE  Edited([Newest EXCEPT !.consumed = TRUE])
<1>1. attempts # <<>>
  BY DEF FinishConsume, StepInv, Lifecycle
<1>2. [Newest EXCEPT !.consumed = TRUE] \in Attempt
  <2>1. Newest \in Attempt
    BY <1>1, NewestIsAttempt DEF TypeOK, Newest
  <2>2. QED
    BY <2>1, Zenon DEF Attempt
<1>3. attempts' = [attempts EXCEPT ![Current] = [Newest EXCEPT !.consumed = TRUE]]
  BY DEF FinishConsume, Newest
<1>4. QED
  BY <1>1, <1>2, <1>3, EditNewest, NewestIsAttempt, EmptySeq
     DEF Edited, Current, Newest, TypeOK

LEMMA SettleEdits ==
    ASSUME TypeOK, StepInv, Settle
    PROVE  Edited([Newest EXCEPT !.publication = outcome])
<1>1. attempts # <<>>
  BY DEF Settle, StepInv, Lifecycle
<1>2. [Newest EXCEPT !.publication = outcome] \in Attempt
  <2>1. Newest \in Attempt
    BY <1>1, NewestIsAttempt DEF TypeOK, Newest
  <2>2. outcome \in {"none", "applied", "unapplied"}
    BY DEF TypeOK
  <2>3. QED
    BY ONLY <2>1, <2>2, Zenon DEF Attempt
<1>3. attempts' = [attempts EXCEPT ![Current] = [Newest EXCEPT !.publication = outcome]]
  BY DEF Settle, Newest
<1>4. QED
  BY <1>1, <1>2, <1>3, EditNewest, NewestIsAttempt, EmptySeq
     DEF Edited, Current, Newest, TypeOK

\* Every other step leaves the attempts alone.
Quiet ==
    \/ BeginPreview \/ (\E r \in Receipt : BeginRecord(r))
    \/ BeginConsume \/ BeginPublish
    \/ Observe \/ Preflight \/ Swap \/ Reread
    \/ Resolve \/ RefuseResolution \/ RefuseApply
    \/ StandDown \/ Fail \/ Crash \/ MoveTarget \/ TouchWorktrees
    \/ UNCHANGED vars

LEMMA QuietKeepsAttempts ==
    ASSUME Quiet PROVE UNCHANGED <<attempts, Current, Newest>>
BY DEF Quiet, BeginPreview, BeginRecord, BeginConsume, BeginPublish, Observe, Preflight,
   Swap, Reread, Resolve, RefuseResolution, RefuseApply, StandDown, Fail, Crash,
   MoveTarget, TouchWorktrees, vars, git, Current, Newest

LEMMA Steps ==
    ASSUME [Next]_vars
    PROVE  FinishPreview \/ FinishRecord \/ FinishConsume \/ Settle \/ Quiet
BY DEF Next, Apply, Quiet

-----------------------------------------------------------------------------
(* Type correctness *)

LEMMA FlagsStep ==
    ASSUME TypeOK, Quiet
    PROVE  {integrated', checkedOut', intact', standingDown', refused'} \subseteq BOOLEAN
<1>1. /\ integrated \in BOOLEAN /\ checkedOut \in BOOLEAN /\ intact \in BOOLEAN
      /\ standingDown \in BOOLEAN /\ refused \in BOOLEAN
  BY DEF TypeOK
<1>2. integrated' \in BOOLEAN /\ checkedOut' \in BOOLEAN /\ intact' \in BOOLEAN
  BY <1>1, Zenon DEF Quiet, BeginPreview, BeginRecord, BeginConsume, BeginPublish, Observe,
     Preflight, Swap, Reread, Resolve, RefuseResolution, RefuseApply, StandDown, Fail,
     Crash, MoveTarget, TouchWorktrees, vars, git
<1>3. standingDown' \in BOOLEAN
  BY <1>1, Zenon DEF Quiet, BeginPreview, BeginRecord, BeginConsume, BeginPublish, Observe,
     Preflight, Swap, Reread, Resolve, RefuseResolution, RefuseApply, StandDown, Fail,
     Crash, MoveTarget, TouchWorktrees, vars
<1>4. refused' \in BOOLEAN
  BY <1>1, Zenon DEF Quiet, BeginPreview, BeginRecord, BeginConsume, BeginPublish, Observe,
     Preflight, Swap, Reread, Resolve, RefuseResolution, RefuseApply, StandDown, Fail,
     Crash, MoveTarget, TouchWorktrees, vars, history
<1>5. QED
  BY <1>2, <1>3, <1>4, Zenon

LEMMA TypeStep ==
    ASSUME TypeOK, StepInv, [Next]_vars
    PROVE  TypeOK'
<1> USE DEF git, history, Sha, Doubt, Step, Settled, Release
<1>1. CASE FinishPreview
  <2>1. attempts' \in Seq(Attempt) /\ Len(attempts') <= MaxAttempts
    BY <1>1, FinishPreviewExtends, NewestIsAttempt, AttemptLimit
       DEF Extended, StepInv, FinishPreview, PreviewLegal, Current, TypeOK
  <2>2. QED
    BY <1>1, <2>1 DEF FinishPreview, TypeOK
<1>2. CASE FinishRecord
  BY <1>2, FinishRecordEdits DEF Edited, FinishRecord, Current, TypeOK
<1>3. CASE FinishConsume
  BY <1>3, FinishConsumeEdits DEF Edited, FinishConsume, Current, TypeOK
<1>4. CASE Settle
  BY <1>4, SettleEdits DEF Edited, Settle, Current, TypeOK
<1>5. CASE Quiet
  <2>1. attempts' = attempts
    BY <1>5, QuietKeepsAttempts
  <2> USE <2>1, <1>5, FlagsStep DEF TypeOK
  <2>2. CASE BeginPreview \/ (\E r \in Receipt : BeginRecord(r))
    BY <2>2 DEF BeginPreview, BeginRecord
  <2>3. CASE BeginConsume \/ BeginPublish \/ Observe \/ Preflight \/ Reread
    BY <2>3 DEF BeginConsume, BeginPublish, Observe, Preflight, Reread
  <2>4. CASE Swap
    <3>1. cas' \in [1..MaxAttempts -> Nat]
      <4>1. cas \in [1..MaxAttempts -> Nat] /\ cas' = [cas EXCEPT ![Current] = cas[Current] + 1]
        BY <2>4 DEF Swap
      <4>2. Current \in 1..MaxAttempts
        BY <2>4, NewestIsAttempt, AttemptLimit DEF Swap, StepInv, Lifecycle, Current
      <4>3. QED
        BY ONLY <4>1, <4>2
    <3>2. target' \in Sha
      BY <2>4 DEF Swap
    <3>3. UNCHANGED <<meddled, refused, integrated, checkedOut, intact, standingDown, doubt,
                      lock, receipt, outcome>> /\ pc' = "reread"
      BY <2>4 DEF Swap
    <3>4. QED
      BY <3>1, <3>2, <3>3
  <2>5. CASE Resolve \/ RefuseResolution \/ RefuseApply
    BY <2>5 DEF Resolve, RefuseResolution, RefuseApply
  <2>6. CASE StandDown \/ Fail \/ Crash
    BY <2>6 DEF StandDown, Fail, Crash, Idle
  <2>7. CASE MoveTarget
    <3>1. attempts # <<>> => Current \in 1..MaxAttempts
      BY NewestIsAttempt, AttemptLimit DEF Current
    <3>2. meddled' \subseteq 1..MaxAttempts
      BY <2>7, <3>1 DEF MoveTarget
    <3>3. target' \in Sha \cup {Absent}
      BY <2>7 DEF MoveTarget
    <3>4. UNCHANGED <<cas, refused, integrated, checkedOut, intact, standingDown, doubt,
                      lock, receipt, outcome, pc>>
      BY <2>7 DEF MoveTarget
    <3>5. QED
      BY <3>2, <3>3, <3>4
  <2>8. CASE TouchWorktrees
    <3>1. UNCHANGED <<target, standingDown, doubt, lock, pc, receipt, outcome, cas,
                      meddled, refused>>
      BY <2>8 DEF TouchWorktrees
    <3>2. integrated' \in BOOLEAN /\ checkedOut' \in BOOLEAN /\ intact' \in BOOLEAN
      BY <2>8 DEF TouchWorktrees
    <3>3. QED
      BY <3>1, <3>2
  <2>9. CASE UNCHANGED vars
    <3>1. UNCHANGED <<target, integrated, checkedOut, intact, standingDown, doubt, lock, pc,
                      receipt, outcome, cas, meddled, refused>>
      BY <2>9 DEF vars
    <3>2. QED
      BY <3>1
  <2>10. QED
    BY <1>5, <2>2, <2>3, <2>4, <2>5, <2>6, <2>7, <2>8, <2>9 DEF Quiet
<1>6. QED
  BY <1>1, <1>2, <1>3, <1>4, <1>5, Steps

-----------------------------------------------------------------------------
(* What the running command relies on *)

LEMMA QuietKeepsLifecycle ==
    ASSUME Quiet, ~StandDown
    PROVE  Lifecycle' = Lifecycle /\ (PreviewLegal <=> PreviewLegal')
<1>1. UNCHANGED standingDown
  BY DEF Quiet, BeginPreview, BeginRecord, BeginConsume, BeginPublish, Observe, Preflight,
     Swap, Reread, Resolve, RefuseResolution, RefuseApply, Fail, Crash, MoveTarget,
     TouchWorktrees, vars
<1>2. Lifecycle' = Lifecycle
  BY <1>1, QuietKeepsAttempts DEF Lifecycle
<1>3. QED
  BY <1>2, QuietKeepsAttempts DEF PreviewLegal

LEMMA ConsumedLifecycle ==
    ASSUME TypeOK, StepInv, FinishConsume PROVE Lifecycle' = "apply_consumed"
<1>1. /\ ~standingDown /\ attempts # <<>> /\ Newest.publication = "none"
      /\ Newest \in Attempt
  BY NewestIsAttempt
     DEF FinishConsume, StepInv, Lifecycle, TypeOK, Newest, Attempt
<1>2. attempts' # <<>> /\ Newest' = [Newest EXCEPT !.consumed = TRUE] /\ ~standingDown'
  BY <1>1, FinishConsumeEdits DEF Edited, FinishConsume
<1>3. Newest'.publication = "none" /\ Newest'.consumed
  BY <1>1, <1>2, Zenon DEF Attempt
<1>4. QED
  BY <1>2, <1>3 DEF Lifecycle

LEMMA StepInvStep ==
    ASSUME TypeOK, StepInv, [Next]_vars
    PROVE  StepInv'
<1> USE DEF Settled, Release
<1>1. CASE FinishPreview \/ FinishRecord \/ Settle
  BY <1>1 DEF FinishPreview, FinishRecord, Settle, StepInv
<1>2. CASE FinishConsume
  BY <1>2, ConsumedLifecycle DEF FinishConsume, StepInv
<1>3. CASE StandDown
  BY <1>3 DEF StandDown, Idle, StepInv
<1>4. CASE Quiet /\ ~StandDown
  <2> USE <1>4, QuietKeepsLifecycle, QuietKeepsAttempts DEF StepInv
  <2>1. CASE BeginPreview
    BY <2>1, ScanTells DEF BeginPreview
  <2>2. CASE \E r \in Receipt : BeginRecord(r)
    BY <2>2 DEF BeginRecord, MayRecord
  <2>3. CASE BeginConsume \/ BeginPublish
    BY <2>3, ScanTells DEF BeginConsume, BeginPublish
  <2>4. CASE Observe \/ Preflight \/ Swap \/ Reread
    BY <2>4 DEF Observe, Preflight, Swap, Reread
  <2>5. CASE Resolve \/ RefuseResolution \/ RefuseApply
    BY <2>5 DEF Resolve, RefuseResolution, RefuseApply, MayApply
  <2>6. CASE Fail \/ Crash
    BY <2>6 DEF Fail, Crash, Idle
  <2>7. CASE MoveTarget \/ TouchWorktrees \/ UNCHANGED vars
    BY <2>7 DEF MoveTarget, TouchWorktrees, vars
  <2>8. QED
    BY <1>4, <2>1, <2>2, <2>3, <2>4, <2>5, <2>6, <2>7 DEF Quiet
<1>5. QED
  BY <1>1, <1>2, <1>3, <1>4, Steps DEF Quiet

-----------------------------------------------------------------------------
(* The classifier's checks, and stand-down *)

LEMMA EditedClassifier ==
    ASSUME TypeOK, ClassifierAccepts, NEW a, Edited(a), Coherent(a)
    PROVE  ClassifierAccepts'
<1>1. \A i \in 1..Current' :
        Coherent(attempts'[i]) /\ (i < Current' => Closed(attempts'[i]))
  BY NewestIsAttempt DEF Edited, ClassifierAccepts, TypeOK
<1>2. QED
  BY <1>1 DEF ClassifierAccepts, Coherent, Closed

LEMMA ClassifierStep ==
    ASSUME TypeOK, StepInv, ClassifierAccepts, [Next]_vars
    PROVE  ClassifierAccepts'
<1>0. attempts # <<>> => Newest \in Attempt /\ Coherent(Newest)
  BY NewestIsAttempt DEF ClassifierAccepts, Newest, TypeOK
<1>1. CASE FinishPreview
  <2>1. Current > 0 => Closed(Newest)
    BY <1>1, NewestIsAttempt
       DEF FinishPreview, StepInv, PreviewLegal, Lifecycle, Closed, TypeOK
  <2>2. Coherent(New)
    BY Zenon DEF New, Coherent
  <2>3. \A i \in 1..Current' :
          Coherent(attempts'[i]) /\ (i < Current' => Closed(attempts'[i]))
    BY <1>1, <2>1, <2>2, FinishPreviewExtends, NewestIsAttempt
       DEF Extended, Newest, TypeOK, ClassifierAccepts
  <2>4. QED
    BY <2>3 DEF ClassifierAccepts, Coherent, Closed
<1>2. CASE FinishRecord
  <2>1. Edited([Newest EXCEPT !.receipt = receipt])
    BY <1>2, FinishRecordEdits
  <2>2. Newest \in Attempt /\ ~Newest.consumed /\ Newest.publication = "none"
    BY <1>0, <1>2, <2>1 DEF FinishRecord, StepInv, Lifecycle, Edited, Coherent
  <2>3. Coherent([Newest EXCEPT !.receipt = receipt])
    BY <2>2, Zenon DEF Attempt, Coherent
  <2>4. QED
    BY <2>1, <2>3, EditedClassifier
<1>3. CASE FinishConsume
  <2>1. Edited([Newest EXCEPT !.consumed = TRUE])
    BY <1>3, FinishConsumeEdits
  <2>2. /\ Newest \in Attempt /\ Newest.receipt.decision = "approve"
        /\ Newest.publication = "none"
    BY <1>0, <1>3, <2>1 DEF FinishConsume, StepInv, Lifecycle, Edited, Attempt
  <2>3. Coherent([Newest EXCEPT !.consumed = TRUE])
    BY <2>2, Zenon DEF Attempt, Coherent
  <2>4. QED
    BY <2>1, <2>3, EditedClassifier
<1>4. CASE Settle
  <2>1. Edited([Newest EXCEPT !.publication = outcome])
    BY <1>4, SettleEdits
  <2>2. Newest \in Attempt /\ Newest.consumed /\ Newest.receipt.decision = "approve"
    BY <1>0, <1>4, <2>1 DEF Settle, StepInv, Lifecycle, Edited, Coherent
  <2>3. Coherent([Newest EXCEPT !.publication = outcome])
    BY <2>2, Zenon DEF Attempt, Coherent
  <2>4. QED
    BY <2>1, <2>3, EditedClassifier
<1>5. CASE Quiet
  BY <1>5, QuietKeepsAttempts DEF ClassifierAccepts, Coherent, Closed
<1>6. QED
  BY <1>1, <1>2, <1>3, <1>4, <1>5, Steps

LEMMA StandDownStep ==
    ASSUME TypeOK, StepInv, ClassifierAccepts, StandDownAfterOutcome, [Next]_vars
    PROVE  StandDownAfterOutcome'
<1> USE NewestIsAttempt DEF StandDownAfterOutcome
<1>1. CASE FinishPreview \/ FinishRecord \/ FinishConsume \/ Settle
  <2>1. ~standingDown
    BY <1>1 DEF FinishPreview, FinishRecord, FinishConsume, Settle, StepInv, PreviewLegal,
       Lifecycle
  <2>2. QED
    BY <1>1, <2>1 DEF FinishPreview, FinishRecord, FinishConsume, Settle
<1>2. CASE StandDown
  <2>1. Lifecycle # "apply_consumed" /\ Lifecycle # "closing"
    BY <1>2, ScanTells DEF StandDown
  <2>2. \A i \in 1..Current : attempts[i].consumed => attempts[i].publication # "none"
    <3> SUFFICES ASSUME NEW i \in 1..Current, attempts[i].consumed,
                        attempts[i].publication = "none"
                 PROVE  FALSE
      OBVIOUS
    <3>1. Coherent(attempts[i]) /\ (i < Current => Closed(attempts[i]))
      BY DEF ClassifierAccepts
    <3>2. i = Current
      BY <3>1, NewestIsAttempt DEF Coherent, Closed, TypeOK
    <3>3. attempts # <<>> /\ Newest.consumed /\ Newest.publication = "none" /\ ~standingDown
      BY <2>1, <3>2, NewestIsAttempt DEF Newest, TypeOK, Lifecycle
    <3>4. QED
      BY <2>1, <3>3 DEF Lifecycle
  <2>3. QED
    BY <1>2, <2>2, QuietKeepsAttempts DEF Quiet
<1>3. CASE Quiet /\ ~StandDown
  <2>1. UNCHANGED standingDown
    BY <1>3 DEF Quiet, BeginPreview, BeginRecord, BeginConsume, BeginPublish, Observe,
       Preflight, Swap, Reread, Resolve, RefuseResolution, RefuseApply, Fail, Crash,
       MoveTarget, TouchWorktrees, vars
  <2>2. QED
    BY <1>3, <2>1, QuietKeepsAttempts
<1>4. QED
  BY <1>1, <1>2, <1>3, Steps DEF Quiet

-----------------------------------------------------------------------------
(* At most one swap per attempt, by a spent receipt *)

LEMMA CasFacts ==
    ASSUME TypeOK, SwapInv
    PROVE  /\ \A i \in 1..MaxAttempts : cas[i] \in {0, 1}
           /\ \A i \in 1..MaxAttempts : cas[i] = 1 => i <= Current /\ Spent(attempts[i], i)
           /\ Current <= MaxAttempts
BY DEF TypeOK, SwapInv, SwapSpendsReceipt, Current

\* Every receipt is recorded on the attempt it names.
Named == \A i \in 1..Current :
            attempts[i].receipt # NoReceipt => attempts[i].receipt.names = i

LEMMA EditedSwaps ==
    ASSUME TypeOK, SwapInv, NEW a, Edited(a), cas' = cas,
           cas[Current] = 1 => Spent(a, Current),
           a.receipt # NoReceipt => a.receipt.names = Current
    PROVE  SwapSpendsReceipt' /\ Named'
<1>1. Current \in Nat /\ Current <= MaxAttempts
  BY NewestIsAttempt DEF TypeOK, Current
<1>2. \A i \in 1..MaxAttempts :
        cas'[i] <= 1 /\ (cas'[i] = 1 => i <= Current' /\ Spent(attempts'[i], i))
  BY <1>1, CasFacts DEF Edited
<1>3. \A i \in 1..Current' :
        attempts'[i].receipt # NoReceipt => attempts'[i].receipt.names = i
  BY <1>1 DEF Edited, SwapInv
<1>4. QED
  BY <1>2, <1>3 DEF SwapSpendsReceipt, Spent, Named

LEMMA SwapInvStep ==
    ASSUME TypeOK, StepInv, ClassifierAccepts, SwapInv, [Next]_vars
    PROVE  SwapInv'
<1> DEFINE Unswapped == doubt = "none" \/ pc \in {"observe", "preflight", "cas"} =>
                           (Lifecycle = "apply_consumed" => cas[Current] = 0)
<1>a. Current \in Nat /\ Current <= MaxAttempts
  BY NewestIsAttempt, CasFacts DEF TypeOK
<1>b. attempts # <<>> => /\ Current \in 1..Current /\ Current \in 1..MaxAttempts
                         /\ Newest \in Attempt /\ Coherent(Newest)
  BY <1>a, NewestIsAttempt, AttemptLimit DEF ClassifierAccepts, Newest, TypeOK
<1>c. SwapSpendsReceipt /\ Named /\ Unswapped
  BY DEF SwapInv, Named
<1>d. attempts # <<>> => /\ cas[Current] = 1 => Spent(Newest, Current)
                         /\ Newest.receipt # NoReceipt => Newest.receipt.names = Current
  BY <1>b, CasFacts DEF SwapInv, Newest
<1>e. ASSUME SwapSpendsReceipt', Named', Unswapped' PROVE SwapInv'
  BY <1>e DEF SwapInv, Named
<1>1. CASE FinishPreview
  <2>1. Extended /\ cas' = cas
    BY <1>1, FinishPreviewExtends DEF FinishPreview, history
  <2>2. SwapSpendsReceipt'
    <3>1. \A i \in 1..MaxAttempts :
            cas'[i] <= 1 /\ (cas'[i] = 1 => i <= Current' /\ Spent(attempts'[i], i))
      BY <1>a, <2>1, CasFacts DEF Extended
    <3>2. QED
      BY <3>1 DEF SwapSpendsReceipt, Spent
  <2>3. Named'
    <3>1. New.receipt = NoReceipt
      BY Zenon DEF New
    <3>2. QED
      BY <1>a, <1>c, <2>1, <3>1 DEF Extended, Newest, Named
  <2>4. Lifecycle' # "apply_consumed"
    BY <2>1 DEF Extended, Lifecycle, New
  <2>5. QED
    BY <1>e, <2>2, <2>3, <2>4
<1>2. CASE FinishRecord
  <2> DEFINE a == [Newest EXCEPT !.receipt = receipt]
  <2>1. Edited(a) /\ cas' = cas
    BY <1>2, FinishRecordEdits DEF FinishRecord, history
  <2>2. Newest \in Attempt /\ ~Newest.consumed /\ receipt.names = Current /\ attempts # <<>>
    BY <1>2, <1>b, <2>1 DEF FinishRecord, StepInv, Lifecycle, Edited, Coherent
  <2>3. ~a.consumed /\ a.receipt = receipt
    BY <2>2, Zenon DEF Attempt
  <2>4. cas[Current] # 1
    BY <1>d, <2>2 DEF Spent
  <2>5. SwapSpendsReceipt' /\ Named'
    BY <2>1, <2>2, <2>3, <2>4, EditedSwaps
  <2>6. Lifecycle' # "apply_consumed"
    <3>1. ~Newest'.consumed
      BY <2>1, <2>3 DEF Edited
    <3>2. QED
      BY <3>1 DEF Lifecycle
  <2>7. QED
    BY <1>e, <2>5, <2>6
<1>3. CASE FinishConsume
  <2> DEFINE a == [Newest EXCEPT !.consumed = TRUE]
  <2>1. Edited(a) /\ cas' = cas
    BY <1>3, FinishConsumeEdits DEF FinishConsume, history
  <2>2. Newest \in Attempt /\ ~Newest.consumed /\ attempts # <<>>
    BY <1>3, <1>b, <2>1 DEF FinishConsume, StepInv, Lifecycle, Edited
  <2>3. a.receipt = Newest.receipt
    BY <2>2, Zenon DEF Attempt
  <2>4. cas[Current] # 1
    BY <1>d, <2>2 DEF Spent
  <2>5. SwapSpendsReceipt' /\ Named'
    BY <1>d, <2>1, <2>2, <2>3, <2>4, EditedSwaps
  <2>6. cas'[Current'] = 0
    BY <1>b, <2>1, <2>2, <2>4, CasFacts DEF Edited
  <2>7. QED
    BY <1>e, <2>5, <2>6
<1>4. CASE Settle
  <2> DEFINE a == [Newest EXCEPT !.publication = outcome]
  <2>1. Edited(a) /\ cas' = cas
    BY <1>4, SettleEdits DEF Settle, history
  <2>2. Newest \in Attempt /\ outcome # "none" /\ attempts # <<>>
    BY <1>b, <2>1 DEF Edited, TypeOK
  <2>3. /\ a.receipt = Newest.receipt /\ a.publication # "none"
        /\ a.consumed <=> Newest.consumed
    BY <2>2, Zenon DEF Attempt
  <2>4. Spent(Newest, Current) => Spent(a, Current)
    BY <2>3, Zenon DEF Spent
  <2>5. SwapSpendsReceipt' /\ Named'
    BY <1>d, <2>1, <2>2, <2>3, <2>4, EditedSwaps
  <2>6. Lifecycle' # "apply_consumed"
    <3>1. Newest'.publication # "none"
      BY <2>1, <2>3 DEF Edited
    <3>2. Newest'.publication \in {"applied", "unapplied"}
      BY <2>1, <3>1 DEF Edited, Attempt
    <3>3. QED
      BY <3>2 DEF Lifecycle
  <2>7. QED
    BY <1>e, <2>5, <2>6
<1>5. CASE Swap
  <2>1. /\ attempts # <<>> /\ Newest.consumed /\ cas[Current] = 0
        /\ pc' = "reread" /\ doubt' = "publish"
    BY <1>5, <1>c DEF Swap, StepInv, Lifecycle
  <2>2. UNCHANGED <<attempts, Current, Newest>>
    BY <1>5, QuietKeepsAttempts DEF Quiet
  <2>3. Spent(Newest, Current)
    <3>1. Newest.receipt.decision = "approve" /\ Newest.receipt \in Receipt \cup {NoReceipt}
      BY <1>b, <2>1 DEF Coherent, Attempt
    <3>2. Newest.receipt # NoReceipt
      BY <3>1 DEF NoReceipt
    <3>3. Newest.receipt.names = Current
      BY <1>d, <2>1, <3>2
    <3>4. Newest.receipt = [names |-> Current, decision |-> "approve"]
      BY <3>1, <3>2, <3>3 DEF Receipt
    <3>5. QED
      BY <2>1, <3>4 DEF Spent
  <2>4. cas' = [cas EXCEPT ![Current] = 1]
    BY <1>5, <2>1 DEF Swap
  <2>5. \A i \in 1..MaxAttempts :
          cas'[i] <= 1 /\ (cas'[i] = 1 => i <= Current /\ Spent(attempts[i], i))
    BY <1>a, <1>b, <1>c, <2>1, <2>3, <2>4 DEF SwapSpendsReceipt, TypeOK, Newest
  <2>6. SwapSpendsReceipt'
    BY <2>2, <2>5 DEF SwapSpendsReceipt, Spent
  <2>7. QED
    <3>1. Named'
      BY <1>c, <2>2 DEF Named
    <3>2. QED
      BY <1>e, <2>1, <2>6, <3>1
<1>6. CASE Quiet /\ ~Swap
  <2>1. UNCHANGED <<attempts, Current, Newest, cas>>
    BY <1>6, QuietKeepsAttempts
       DEF Quiet, BeginPreview, BeginRecord, BeginConsume, BeginPublish, Observe, Preflight,
       Reread, Resolve, RefuseResolution, RefuseApply, StandDown, Fail, Crash, MoveTarget,
       TouchWorktrees, vars, history
  <2>2. SwapSpendsReceipt' /\ Named'
    BY <1>c, <2>1 DEF SwapSpendsReceipt, Spent, Named
  <2>3. Unswapped'
    <3>1. CASE StandDown
      BY <3>1, <1>c, <2>1, ScanTells DEF StandDown, Idle, Lifecycle
    <3>2. CASE ~StandDown
      <4>1. Lifecycle' = Lifecycle
        BY <1>6, <3>2, QuietKeepsLifecycle
      <4>2. (doubt' = "none" \/ pc' \in {"observe", "preflight", "cas"}) =>
              (doubt = "none" \/ pc \in {"observe", "preflight", "cas"})
        BY <1>6, <3>2 DEF Quiet, StepInv, BeginPreview, BeginRecord, BeginConsume,
           BeginPublish, Observe, Preflight, Reread, Resolve, RefuseResolution, RefuseApply,
           Fail, Crash, Idle, MoveTarget, TouchWorktrees, vars, Release
      <4>3. QED
        BY <1>c, <2>1, <4>1, <4>2
    <3>3. QED
      BY <3>1, <3>2
  <2>4. QED
    BY <1>e, <2>2, <2>3
<1>7. QED
  BY <1>1, <1>2, <1>3, <1>4, <1>5, <1>6, Steps DEF Quiet

-----------------------------------------------------------------------------
(* Truthful outcomes *)

\* What is recorded of attempt i agrees with its swaps.
Truthful(a, i) ==
    a.publication # "none" /\ i \notin meddled => (a.publication = "applied" <=> cas[i] = 1)

LEMMA EditedOutcomes ==
    ASSUME TypeOK, OutcomeInv, NEW a, Edited(a), UNCHANGED <<target, cas, meddled>>,
           pc' \notin {"settle", "resolve"}, Truthful(a, Current)
    PROVE  OutcomeInv'
<1>1. \A i \in 1..Current : Truthful(attempts[i], i)
  BY DEF OutcomeInv, TruthfulOutcome, Truthful
<1>2. \A i \in 1..Current' : Truthful(attempts[i], i)'
  BY <1>1 DEF Edited, Truthful
<1>3. TruthfulOutcome'
  BY <1>2 DEF TruthfulOutcome, Truthful
<1>4. QED
  BY <1>3 DEF OutcomeInv, Edited

LEMMA OutcomeInvStep ==
    ASSUME TypeOK, StepInv, SwapInv, OutcomeInv, [Next]_vars
    PROVE  OutcomeInv'
<1>a. Current \in Nat /\ Current <= MaxAttempts
  BY NewestIsAttempt, CasFacts DEF TypeOK
<1>b. \A i \in 1..Current : Truthful(attempts[i], i)
  BY DEF OutcomeInv, TruthfulOutcome, Truthful
<1>c. attempts # <<>> => /\ Current \in 1..Current /\ Current \in 1..MaxAttempts
                         /\ Newest \in Attempt /\ Truthful(Newest, Current)
  BY <1>a, <1>b, NewestIsAttempt DEF Newest, TypeOK
<1>1. CASE FinishPreview
  <2>1. Extended /\ UNCHANGED <<cas, meddled, target>> /\ pc' = "idle" /\ target = "starting"
    BY <1>1, FinishPreviewExtends DEF FinishPreview, history, git, Live, Settled, Release
  <2>2. Current + 1 \in 1..MaxAttempts /\ cas[Current + 1] # 1
    BY <1>1, <1>a, CasFacts, AttemptLimit DEF FinishPreview, StepInv, PreviewLegal
  <2>3. New.publication = "none"
    BY Zenon DEF New
  <2>4. \A i \in 1..Current' : Truthful(attempts[i], i)'
    BY <1>a, <1>b, <2>1, <2>3 DEF Extended, Truthful, Newest
  <2>5. TruthfulOutcome'
    BY <2>4 DEF TruthfulOutcome, Truthful
  <2>6. QED
    BY <1>a, <2>1, <2>2, <2>5 DEF OutcomeInv, Extended
<1>2. CASE FinishRecord
  <2> DEFINE a == [Newest EXCEPT !.receipt = receipt]
  <2>1. Edited(a) /\ UNCHANGED <<target, cas, meddled>> /\ pc' = "idle"
    BY <1>2, FinishRecordEdits DEF FinishRecord, history, git, Settled, Release
  <2>2. a.publication = Newest.publication
    BY <1>c, <2>1, Zenon DEF Edited, Attempt
  <2>3. Truthful(a, Current)
    BY <1>c, <2>1, <2>2 DEF Edited, Truthful
  <2>4. QED
    BY <2>1, <2>3, EditedOutcomes
<1>3. CASE FinishConsume
  <2> DEFINE a == [Newest EXCEPT !.consumed = TRUE]
  <2>1. /\ Edited(a) /\ UNCHANGED <<target, cas, meddled>>
        /\ pc' \in {"idle", "consumed"}
    BY <1>3, FinishConsumeEdits DEF FinishConsume, history, git, Settled, Release
  <2>2. a.publication = Newest.publication
    BY <1>c, <2>1, Zenon DEF Edited, Attempt
  <2>3. Truthful(a, Current)
    BY <1>c, <2>1, <2>2 DEF Edited, Truthful
  <2>4. QED
    BY <2>1, <2>3, EditedOutcomes
<1>4. CASE Settle
  <2> DEFINE a == [Newest EXCEPT !.publication = outcome]
  <2>1. Edited(a) /\ UNCHANGED <<target, cas, meddled>> /\ pc' = "idle"
    BY <1>4, SettleEdits DEF Settle, history, git, Settled, Release
  <2>2. a.publication = outcome
    BY <1>c, <2>1, Zenon DEF Edited, Attempt
  <2>3. Truthful(a, Current)
    BY <1>4, <2>2 DEF Settle, OutcomeInv, Truthful
  <2>4. QED
    BY <2>1, <2>3, EditedOutcomes
<1>5. CASE Quiet
  <2>1. UNCHANGED <<attempts, Current, Newest>>
    BY <1>5, QuietKeepsAttempts
  <2> USE <2>1
  <2>2. CASE Swap
    <3>1. /\ attempts # <<>> /\ Newest.publication = "none"
          /\ pc' = "reread" /\ target' = "final" /\ meddled' = meddled
          /\ cas[Current] = 0
      BY <2>2, <1>c DEF Swap, StepInv, Lifecycle, SwapInv, Attempt
    <3>2. cas' = [cas EXCEPT ![Current] = 1]
      BY <2>2, <3>1 DEF Swap
    <3>3. cas'[Current] = 1 /\ \A i \in 1..MaxAttempts : i # Current => cas'[i] = cas[i]
      BY <1>c, <3>1, <3>2 DEF TypeOK
    <3>4. \A i \in 1..Current : Truthful(attempts[i], i)'
      <4> SUFFICES ASSUME NEW i \in 1..Current PROVE Truthful(attempts[i], i)'
        OBVIOUS
      <4>1. CASE i = Current
        BY <3>1, <4>1 DEF Truthful, Newest
      <4>2. CASE i # Current
        <5>1. cas'[i] = cas[i] /\ meddled' = meddled /\ attempts'[i] = attempts[i]
          BY <1>a, <3>1, <3>3, <4>2, AttemptLimit
        <5>2. QED
          BY <1>b, <5>1, Zenon DEF Truthful
      <4>3. QED
        BY <4>1, <4>2
    <3>5. QED
      BY <3>1, <3>3, <3>4 DEF OutcomeInv, TruthfulOutcome, Truthful
  <2>3. CASE MoveTarget
    <3>1. /\ meddled \subseteq meddled' /\ UNCHANGED <<cas, outcome, pc>>
          /\ meddled' \subseteq 1..Current
      BY <2>3, <1>c DEF MoveTarget, OutcomeInv
    <3>2. TruthfulOutcome'
      BY <3>1 DEF OutcomeInv, TruthfulOutcome
    <3>3. attempts # <<>> /\ Current \notin meddled' => (target' = "final" <=> cas'[Current] = 1)
      BY <2>3, <3>1 DEF MoveTarget, OutcomeInv
    <3>4. QED
      BY <3>1, <3>2, <3>3 DEF OutcomeInv
  <2>4. CASE ~Swap /\ ~MoveTarget
    <3>1. UNCHANGED <<cas, meddled, target>>
      BY <1>5, <2>4 DEF Quiet, BeginPreview, BeginRecord, BeginConsume, BeginPublish,
         Observe, Preflight, Reread, Resolve, RefuseResolution, RefuseApply, StandDown,
         Fail, Crash, TouchWorktrees, vars, history, git
    <3>2. TruthfulOutcome'
      BY <3>1 DEF OutcomeInv, TruthfulOutcome
    <3>3. pc' \in {"settle", "resolve"} /\ Current \notin meddled =>
            (outcome' = "applied" <=> cas[Current] = 1)
      <4>1. CASE Observe
        BY <4>1 DEF Observe, StepInv, SwapInv
      <4>2. CASE Reread
        BY <4>2 DEF Reread, StepInv, OutcomeInv, Lifecycle
      <4>3. CASE Resolve
        BY <4>3 DEF Resolve, ReadBack, StepInv, OutcomeInv, Lifecycle
      <4>4. CASE ~Observe /\ ~Reread /\ ~Resolve
        BY <1>5, <2>4, <4>4 DEF OutcomeInv, Quiet, BeginPreview, BeginRecord, BeginConsume,
           BeginPublish, Preflight, RefuseResolution, RefuseApply, StandDown, Idle, Fail,
           Crash, TouchWorktrees, vars, Release
      <4>5. QED
        BY <4>1, <4>2, <4>3, <4>4
    <3>4. QED
      BY <3>1, <3>2, <3>3 DEF OutcomeInv
  <2>5. QED
    BY <2>2, <2>3, <2>4
<1>6. QED
  BY <1>1, <1>2, <1>3, <1>4, <1>5, Steps

-----------------------------------------------------------------------------
(* The theorems *)

THEOREM Inductive == Spec => []IInv
<1>1. Init => IInv
  <2> SUFFICES ASSUME Init PROVE IInv
    OBVIOUS
  <2> USE EmptySeq DEF Init
  <2>1. TypeOK
    <3>1. {integrated, checkedOut, intact, standingDown, refused} \subseteq BOOLEAN
      BY Zenon
    <3>2. cas \in [1..MaxAttempts -> Nat] /\ Len(attempts) <= MaxAttempts
      BY AttemptLimit
    <3>3. QED
      BY <3>1, <3>2 DEF TypeOK, Sha, Doubt, Step
  <2>2. Current = 0 /\ Lifecycle = "gates_collected"
    BY DEF Current, Lifecycle
  <2>3. StepInv /\ ClassifierAccepts /\ StandDownAfterOutcome /\ SwapInv /\ OutcomeInv
    BY <2>2 DEF StepInv, ClassifierAccepts, StandDownAfterOutcome, SwapInv, OutcomeInv,
       SwapSpendsReceipt, TruthfulOutcome
  <2>4. QED
    BY <2>1, <2>3 DEF IInv
<1>2. IInv /\ [Next]_vars => IInv'
  BY TypeStep, StepInvStep, ClassifierStep, StandDownStep, SwapInvStep, OutcomeInvStep DEF IInv
<1>3. QED
  BY <1>1, <1>2, PTL DEF Spec

\* Type correctness of the apply authority and of the commands that extend it.
THEOREM TypeCorrect == Spec => []TypeOK
BY Inductive, PTL DEF IInv

\* No history of previews, receipts, applies, failures, crashes and outside moves
\* swaps twice for one attempt, or without that attempt's own, spent approval.
THEOREM SwapsAreApproved == Spec => []SwapSpendsReceipt
BY Inductive, PTL DEF IInv, SwapInv

\* A recorded outcome is true unless outsiders moved the target to or away from the
\* final SHA during the attempt.
THEOREM OutcomesAreTruthful == Spec => []TruthfulOutcome
BY Inductive, PTL DEF IInv, OutcomeInv

\* The commands never build a history that classifyStage3Apply rejects as
\* bookkeeping_unknown.
THEOREM NeverUnclassifiable == Spec => []ClassifierAccepts
BY Inductive, PTL DEF IInv

\* Stand-down waits for the outcome of every spent receipt.
THEOREM StandDownWaits == Spec => []StandDownAfterOutcome
BY Inductive, PTL DEF IInv

\* In a lifecycle that ended the apply authority, no step extends it.
LEMMA EndedIsFrozen ==
    ASSUME TypeOK, StepInv, [Next]_vars, Lifecycle \in {"closing", "applied"}
    PROVE  UNCHANGED <<attempts, cas>>
<1>1. ~FinishPreview /\ ~FinishRecord /\ ~FinishConsume /\ ~Settle
  BY DEF FinishPreview, FinishRecord, FinishConsume, Settle, StepInv, PreviewLegal
<1>2. ~Swap
  BY DEF Swap, StepInv
<1>3. QED
  BY <1>1, <1>2, Steps, QuietKeepsAttempts
     DEF Quiet, BeginPreview, BeginRecord, BeginConsume, BeginPublish, Observe, Preflight,
     Reread, Resolve, RefuseResolution, RefuseApply, StandDown, Fail, Crash, MoveTarget,
     TouchWorktrees, vars, history

\* Once stand-down has begun no receipt, attempt, outcome or swap is added.
THEOREM StandDownFreezes == Spec => StandDownFreezesApply
<1>1. IInv /\ [Next]_vars => [standingDown => UNCHANGED <<attempts, cas>>]_vars
  BY EndedIsFrozen DEF IInv, Lifecycle
<1>2. QED
  BY <1>1, Inductive, PTL DEF Spec, StandDownFreezesApply

\* At most one attempt of a run is applied, and nothing follows it.
THEOREM AppliedEndsTheRun == Spec => AppliedIsLast
<1>1. IInv /\ [Next]_vars =>
        [(\E i \in 1..Current : attempts[i].publication = "applied")
           => UNCHANGED <<attempts, cas>>]_vars
  <2> SUFFICES ASSUME IInv, [Next]_vars, NEW i \in 1..Current,
                      attempts[i].publication = "applied"
               PROVE  UNCHANGED <<attempts, cas>>
    OBVIOUS
  <2>1. Coherent(attempts[i]) /\ (i < Current => Closed(attempts[i]))
    BY DEF IInv, ClassifierAccepts
  <2>2. i = Current /\ attempts # <<>>
    BY <2>1, NewestIsAttempt DEF Coherent, Closed, IInv, TypeOK
  <2>3. Lifecycle \in {"closing", "applied"}
    BY <2>2 DEF Lifecycle, Newest
  <2>4. QED
    BY <2>3, EndedIsFrozen DEF IInv
<1>2. QED
  BY <1>1, Inductive, PTL DEF Spec, AppliedIsLast

-----------------------------------------------------------------------------
(* The refinement of AttendedApply *)

Number == 1..MaxAttempts

\* Attempts that are made stand where their entries say, all others are unmade.
LEMMA StandingAt ==
    ASSUME TypeOK
    PROVE  /\ \A i \in 1..Current : i \in Number /\ Standings[i] = StandingOf(attempts[i])
           /\ \A i \in Number : i > Current => Standings[i] = "unmade"
           /\ Standings = [i \in Number |-> Standings[i]]
           /\ Current \in Nat
<1>1. Current \in Nat /\ Current <= MaxAttempts
  BY NewestIsAttempt DEF TypeOK, Current
<1>2. Standings = [i \in Number |->
                      IF i <= Current THEN StandingOf(attempts[i]) ELSE "unmade"]
  BY DEF Standings, Number
<1>3. \A i \in Number : Standings[i] = IF i <= Current THEN StandingOf(attempts[i]) ELSE "unmade"
  BY <1>2
<1>4. Standings = [i \in Number |-> Standings[i]]
  BY <1>2
<1>5. \A i \in 1..Current : i \in Number /\ i <= Current
  BY <1>1, AttemptLimit DEF Number
<1>6. \A i \in Number : i > Current => ~(i <= Current)
  BY <1>1, AttemptLimit DEF Number
<1>7. QED
  BY <1>1, <1>3, <1>4, <1>5, <1>6

LEMMA StandingAtNext ==
    ASSUME TypeOK'
    PROVE  /\ \A i \in 1..Current' : i \in Number /\ Standings'[i] = StandingOf(attempts'[i])
           /\ \A i \in Number : i > Current' => Standings'[i] = "unmade"
           /\ Standings' = [i \in Number |-> Standings'[i]]
           /\ Current' \in Nat
<1>1. Current' \in Nat /\ Current' <= MaxAttempts
  BY LenProperties DEF TypeOK, Current
<1>2. QED
  BY <1>1, AttemptLimit DEF Standings, Number, StandingOf

\* Replacing the newest attempt moves its standing and no other.
LEMMA EditedStandings ==
    ASSUME TypeOK, TypeOK', NEW a, Edited(a)
    PROVE  /\ Current \in Number
           /\ Standings[Current] = StandingOf(Newest)
           /\ Standings' = [Standings EXCEPT ![Current] = StandingOf(a)]
<1>1. Current \in 1..Current
  BY NewestIsAttempt DEF Edited, TypeOK
<1>2. Current \in Number /\ Standings[Current] = StandingOf(Newest)
  BY <1>1, StandingAt DEF Newest
<1>3. \A i \in Number : Standings'[i] = IF i = Current THEN StandingOf(a) ELSE Standings[i]
  <2> SUFFICES ASSUME NEW i \in Number
               PROVE  Standings'[i] = IF i = Current THEN StandingOf(a) ELSE Standings[i]
    OBVIOUS
  <2>1. CASE i > Current
    BY <2>1, StandingAt, StandingAtNext DEF Edited, Number
  <2>2. CASE i <= Current
    <3>1. i \in 1..Current /\ i \in 1..Current'
      BY <2>2, StandingAt DEF Edited, Number
    <3>2. attempts'[i] = IF i = Current THEN a ELSE attempts[i]
      BY <3>1 DEF Edited
    <3>3. Standings'[i] = StandingOf(attempts'[i]) /\ Standings[i] = StandingOf(attempts[i])
      BY <3>1, StandingAt, StandingAtNext
    <3>4. QED
      BY <3>2, <3>3
  <2>3. QED
    BY <2>1, <2>2, StandingAt DEF Number
<1>4. QED
  BY <1>2, <1>3, StandingAt, StandingAtNext

\* What the lifecycle says of the newest attempt.
LEMMA NewestStands ==
    ASSUME TypeOK
    PROVE  /\ Lifecycle = "apply_previewed" => StandingOf(Newest) = "previewed"
           /\ Lifecycle = "apply_approved" => StandingOf(Newest) = "approved"
           /\ Lifecycle = "apply_consumed" => StandingOf(Newest) = "spent"
           /\ Lifecycle \notin {"gates_collected", "closing"} => attempts # <<>>
           /\ Lifecycle # "closing" => ~standingDown
<1>1. attempts # <<>> => Newest \in Attempt
  BY NewestIsAttempt DEF TypeOK, Newest
<1>2. attempts # <<>> =>
        /\ Newest.publication \in {"none", "applied", "unapplied"}
        /\ Newest.receipt \in Receipt \cup {NoReceipt}
  BY <1>1 DEF Attempt
<1>3. attempts # <<>> => Newest.receipt.decision \in {"approve", "reject", "none"}
  BY <1>2 DEF Receipt, NoReceipt, Decision
<1>4. QED
  BY <1>2, <1>3 DEF Lifecycle, StandingOf

\* An attempt that came to nothing stands so.
LEMMA ClosedStands ==
    ASSUME NEW a \in Attempt, Coherent(a), Closed(a)
    PROVE  StandingOf(a) \in {"rejected", "unapplied"}
<1>1. a.publication \in {"none", "applied", "unapplied"}
  BY DEF Attempt
<1>2. CASE a.publication = "unapplied"
  BY <1>2 DEF StandingOf
<1>3. CASE a.publication # "unapplied"
  <2>1. a.receipt.decision = "reject" /\ ~a.consumed /\ a.publication = "none"
    BY <1>1, <1>3 DEF Coherent, Closed
  <2>2. QED
    BY <2>1 DEF StandingOf
<1>4. QED
  BY <1>2, <1>3

AttendedStep == [Attended!Next]_(Attended!vars)

\* The steps that change an attempt.
LEMMA PreviewAttended ==
    ASSUME IInv, IInv', FinishPreview
    PROVE  AttendedStep
<1> USE DEF IInv
<1> DEFINE i == Current + 1
<1>1. Extended /\ UNCHANGED <<cas, meddled, standingDown>>
  BY FinishPreviewExtends DEF FinishPreview, history
<1>2. PreviewLegal /\ ~standingDown
  BY DEF FinishPreview, StepInv, PreviewLegal, Lifecycle
<1>3. i \in Number /\ i > Current /\ Current \in Nat
  BY <1>2, StandingAt, AttemptLimit DEF PreviewLegal, Number
<1>4. Standings[i] = "unmade"
  BY <1>3, StandingAt
<1>5. ASSUME NEW j \in Number, j < i PROVE Standings[j] \in {"rejected", "unapplied"}
  <2>1. j \in 1..Current
    BY <1>3, <1>5 DEF Number
  <2>2. attempts[j] \in Attempt /\ Coherent(attempts[j])
    BY <2>1, NewestIsAttempt DEF TypeOK, ClassifierAccepts
  <2>3. Closed(attempts[j])
    <3>1. CASE j < Current
      BY <2>1, <3>1 DEF ClassifierAccepts
    <3>2. CASE j = Current
      BY <1>2, <2>1, <2>2, <3>2, NewestIsAttempt
         DEF PreviewLegal, Lifecycle, Newest, Closed, TypeOK
    <3>3. QED
      BY <1>3, <2>1, <3>1, <3>2
  <2>4. QED
    BY <2>1, <2>2, <2>3, ClosedStands, StandingAt
<1>6. StandingOf(New) = "previewed"
  BY DEF StandingOf, New, NoReceipt
<1>7. ASSUME NEW j \in Number
      PROVE  Standings'[j] = IF j = i THEN "previewed" ELSE Standings[j]
  <2>1. CASE j = i
    <3>1. j \in 1..Current' /\ attempts'[j] = New
      BY <1>1, <1>3, <2>1 DEF Extended, Newest
    <3>2. QED
      BY <1>6, <2>1, <3>1, StandingAtNext
  <2>2. CASE j <= Current
    <3>1. j \in 1..Current /\ j \in 1..Current' /\ attempts'[j] = attempts[j] /\ j # i
      BY <1>1, <1>3, <2>2 DEF Extended, Number
    <3>2. QED
      BY <3>1, StandingAt, StandingAtNext
  <2>3. CASE j > i
    BY <1>1, <1>3, <2>3, StandingAt, StandingAtNext DEF Extended, Number
  <2>4. QED
    BY <1>3, <2>1, <2>2, <2>3 DEF Number
<1>8. Standings' = [Standings EXCEPT ![i] = "previewed"]
  BY <1>3, <1>7, StandingAt, StandingAtNext
<1>9. Attended!Preview(i)
  BY <1>1, <1>2, <1>4, <1>5, <1>8, Zenon
     DEF Attended!Preview, Attended!Becomes, Attended!Number, Number
<1>10. QED
  BY <1>3, <1>9 DEF AttendedStep, Attended!Next, Attended!Number, Number

LEMMA RecordAttended ==
    ASSUME IInv, IInv', FinishRecord
    PROVE  AttendedStep
<1> USE DEF IInv
<1> DEFINE a == [Newest EXCEPT !.receipt = receipt]
           decision == IF receipt.decision = "approve" THEN "approved" ELSE "rejected"
<1>1. Edited(a) /\ UNCHANGED <<cas, meddled, standingDown>>
  BY FinishRecordEdits DEF FinishRecord, history
<1>2. /\ Lifecycle = "apply_previewed" /\ receipt.decision \in {"approve", "reject"}
      /\ Newest \in Attempt
  BY <1>1, NewestIsAttempt
     DEF FinishRecord, StepInv, Receipt, Decision, Edited, Newest, TypeOK
<1>3. StandingOf(Newest) = "previewed" /\ ~standingDown
  BY <1>2, NewestStands
<1>4. Newest.publication = "none" /\ ~Newest.consumed
  BY <1>2 DEF Lifecycle, Attempt
<1>5. a.publication = "none" /\ ~a.consumed /\ a.receipt = receipt
  BY <1>2, <1>4, Zenon DEF Attempt
<1>6. StandingOf(a) = decision
  BY <1>2, <1>5 DEF StandingOf
<1>7. /\ Current \in Number /\ Standings[Current] = "previewed"
      /\ Standings' = [Standings EXCEPT ![Current] = decision]
  BY <1>1, <1>3, <1>6, EditedStandings
<1>8. Attended!Decide(Current, decision)
  BY <1>1, <1>3, <1>7 DEF Attended!Decide, Attended!Becomes
<1>9. decision \in {"approved", "rejected"}
  OBVIOUS
<1> HIDE DEF decision
<1>10. QED
  BY <1>7, <1>8, <1>9 DEF AttendedStep, Attended!Next, Attended!Number, Number

LEMMA ConsumeAttended ==
    ASSUME IInv, IInv', FinishConsume
    PROVE  AttendedStep
<1> USE DEF IInv
<1> DEFINE a == [Newest EXCEPT !.consumed = TRUE]
<1>1. Edited(a) /\ UNCHANGED <<cas, meddled, standingDown>>
  BY FinishConsumeEdits DEF FinishConsume, history
<1>2. Lifecycle = "apply_approved" /\ Newest \in Attempt
  BY <1>1, NewestIsAttempt DEF FinishConsume, StepInv, Edited, Newest, TypeOK
<1>3. StandingOf(Newest) = "approved" /\ ~standingDown
  BY <1>2, NewestStands
<1>4. Newest.publication = "none"
  BY <1>2 DEF Lifecycle, Attempt
<1>5. a.publication = "none" /\ a.consumed
  BY <1>2, <1>4, Zenon DEF Attempt
<1>6. StandingOf(a) = "spent"
  BY <1>5 DEF StandingOf
<1>7. /\ Current \in Number /\ Standings[Current] = "approved"
      /\ Standings' = [Standings EXCEPT ![Current] = "spent"]
  BY <1>1, <1>3, <1>6, EditedStandings
<1>8. Attended!Spend(Current)
  BY <1>1, <1>3, <1>7 DEF Attended!Spend, Attended!Becomes
<1>9. QED
  BY <1>7, <1>8 DEF AttendedStep, Attended!Next, Attended!Number, Number

LEMMA SettleAttended ==
    ASSUME IInv, IInv', Settle
    PROVE  AttendedStep
<1> USE DEF IInv
<1> DEFINE a == [Newest EXCEPT !.publication = outcome]
<1>1. Edited(a) /\ UNCHANGED <<cas, meddled, standingDown>>
  BY SettleEdits DEF Settle, history
<1>2. Lifecycle = "apply_consumed" /\ Newest \in Attempt
  BY <1>1, NewestIsAttempt DEF Settle, StepInv, Edited, Newest, TypeOK
<1>3. StandingOf(Newest) = "spent"
  BY <1>2, NewestStands
<1>4. outcome \in {"applied", "unapplied"}
  BY DEF TypeOK
<1>5. a.publication = outcome
  BY <1>2, Zenon DEF Attempt
<1>6. StandingOf(a) = outcome
  BY <1>4, <1>5 DEF StandingOf
<1>7. /\ Current \in Number /\ Standings[Current] = "spent"
      /\ Standings' = [Standings EXCEPT ![Current] = outcome]
  BY <1>1, <1>3, <1>6, EditedStandings
<1>8. Current \notin meddled => (outcome = "applied" <=> cas[Current] = 1)
  BY DEF Settle, OutcomeInv
<1>9. Attended!Settle(Current, outcome)
  BY <1>1, <1>7, <1>8 DEF Attended!Settle, Attended!Becomes
<1>10. QED
  BY <1>4, <1>7, <1>9 DEF AttendedStep, Attended!Next, Attended!Number, Number

\* The steps that leave the attempts alone: the swap, stand-down, and an outsider's
\* move are steps of the abstract apply; all others are none.
LEMMA QuietAttended ==
    ASSUME IInv, IInv', Quiet
    PROVE  AttendedStep
<1> USE DEF IInv
<1>1. Standings' = Standings
  BY QuietKeepsAttempts DEF Standings, StandingOf
<1>2. CASE Swap
  <2>1. Lifecycle = "apply_consumed" /\ cas[Current] = 0
    BY <1>2 DEF Swap, StepInv, SwapInv
  <2>2. attempts # <<>> /\ StandingOf(Newest) = "spent"
    BY <2>1, NewestStands
  <2>3. Current \in 1..Current
    BY <2>2, NewestIsAttempt DEF TypeOK
  <2>4. Current \in Number /\ Standings[Current] = "spent"
    BY <2>2, <2>3, StandingAt DEF Newest
  <2>5. cas' = [cas EXCEPT ![Current] = 1] /\ UNCHANGED <<meddled, standingDown>>
    BY <1>2, <2>1 DEF Swap
  <2>6. Attended!Swap(Current)
    BY <1>1, <2>1, <2>4, <2>5 DEF Attended!Swap
  <2>7. QED
    BY <2>4, <2>6 DEF AttendedStep, Attended!Next, Attended!Number, Number
<1>3. CASE MoveTarget
  <2>1. UNCHANGED <<cas, standingDown>>
    BY <1>3 DEF MoveTarget
  <2>2. CASE meddled' = meddled
    BY <1>1, <2>1, <2>2 DEF AttendedStep, Attended!vars
  <2>3. CASE meddled' = meddled \cup {Current} /\ attempts # <<>>
    <3>1. Current \in 1..Current
      BY <2>3, NewestIsAttempt DEF TypeOK
    <3>2. Current \in Number /\ Standings[Current] = StandingOf(attempts[Current])
      BY <3>1, StandingAt
    <3>3. attempts[Current].publication \in {"none", "applied", "unapplied"}
      BY <3>1, NewestIsAttempt DEF TypeOK, Attempt
    <3>4. StandingOf(attempts[Current]) # "unmade"
      BY <3>3 DEF StandingOf
    <3>5. Attended!Meddle(Current)
      BY <1>1, <2>1, <2>3, <3>2, <3>4 DEF Attended!Meddle
    <3>6. QED
      BY <3>2, <3>5 DEF AttendedStep, Attended!Next, Attended!Number, Number
  <2>4. QED
    BY <1>3, <2>2, <2>3 DEF MoveTarget
<1>4. CASE StandDown
  <2>1. UNCHANGED <<cas, meddled>>
    BY <1>4 DEF StandDown, history
  <2>2. CASE standingDown' = TRUE
    <3>1. StandDownAfterOutcome' /\ attempts' = attempts /\ Current' = Current
      BY QuietKeepsAttempts
    <3>2. ASSUME NEW i \in Number, Standings[i] = "spent" PROVE FALSE
      <4>1. i \in 1..Current /\ Standings[i] = StandingOf(attempts[i])
        BY <3>2, StandingAt DEF Number
      <4>2. attempts[i] \in Attempt
        BY <4>1, NewestIsAttempt DEF TypeOK
      <4>3. attempts[i].publication = "none" /\ attempts[i].consumed
        BY <3>2, <4>1, <4>2 DEF StandingOf, Attempt
      <4>4. QED
        BY <2>2, <3>1, <4>1, <4>3 DEF StandDownAfterOutcome
    <3>3. Attended!Close
      BY <1>1, <2>1, <2>2, <3>2 DEF Attended!Close, Attended!Number, Number
    <3>4. QED
      BY <3>3 DEF AttendedStep, Attended!Next
  <2>3. CASE standingDown' = standingDown
    BY <1>1, <2>1, <2>3 DEF AttendedStep, Attended!vars
  <2>4. QED
    BY <1>4, <2>2, <2>3 DEF StandDown
<1>5. CASE ~Swap /\ ~MoveTarget /\ ~StandDown
  <2>1. UNCHANGED <<cas, meddled, standingDown>>
    BY <1>5 DEF Quiet, BeginPreview, BeginRecord, BeginConsume, BeginPublish, Observe,
       Preflight, Reread, Resolve, RefuseResolution, RefuseApply, Fail, Crash,
       TouchWorktrees, vars, history
  <2>2. QED
    BY <1>1, <2>1 DEF AttendedStep, Attended!vars
<1>6. QED
  BY <1>2, <1>3, <1>4, <1>5

\* The commands implement the attended apply: one attempt after the other, decided once,
\* spent once, swapped at most once, settled truthfully, and nothing after an applied
\* attempt or the beginning of stand-down (preview, recordApprovalFromStdin, applyStage3,
\* standDown).
THEOREM ApplyIsAttended == Spec => ImplementsAttendedApply
<1>1. Init => Attended!Init
  <2> SUFFICES ASSUME Init PROVE Attended!Init
    OBVIOUS
  <2>1. Current = 0
    BY EmptySeq DEF Init, Current
  <2>2. Standings = [i \in 1..MaxAttempts |-> "unmade"]
    BY <2>1, AttemptLimit DEF Standings
  <2>3. QED
    BY <2>2 DEF Init, Attended!Init, Attended!Number
<1>2. IInv /\ IInv' /\ [Next]_vars => AttendedStep
  BY Steps, PreviewAttended, RecordAttended, ConsumeAttended, SettleAttended, QuietAttended
<1>3. QED
  BY <1>1, <1>2, Inductive, PTL
     DEF Spec, ImplementsAttendedApply, Attended!Spec, AttendedStep
=============================================================================
