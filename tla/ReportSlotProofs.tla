-------------------------- MODULE ReportSlotProofs --------------------------
(***************************************************************************)
(* Truthful answers and one report per slot, for any set of publishers,    *)
(* harvests and reports and any number of failures and deaths.             *)
(***************************************************************************)
EXTENDS ReportSlot, TLAPS

LockInv == \A c \in Command : pc[c] \in Locked <=> lock = c

\* What the holder of the lock, at a step of its own, may rely on.
SlotFits(p, step) ==
    /\ step \in {"read", "authorize", "scan"} \cup Writing =>
          p \in Publisher /\ content[p] \in Report
    /\ step \in {"scan"} \cup Writing => open
    /\ step = "guard" => SlotState = "raw_empty"
    /\ step \in {"staging", "payload", "marker", "unlinkStaging", "unlinkGuard"} => guard
    /\ step \in {"staging", "unlinkGuard", "confirm"} => staging = {}
    /\ step \in {"payload", "marker", "unlinkStaging"} => staging = {p}
    /\ step \in {"staging", "payload"} => payload = NoFile
    /\ step \in {"staging", "payload", "marker"} => marker = NoFile
    /\ step \in {"marker", "unlinkStaging", "unlinkGuard", "confirm"} => payload = content[p]
    /\ step \in {"unlinkStaging", "unlinkGuard", "confirm"} => marker = content[p]
    /\ step = "confirm" => ~guard

DecisionFits(c, step) ==
    /\ step \in {"raw", "inspect"} \cup Deciding => open
    /\ step \in {"raw", "inspect", "intentHarvest", "intentReject"} => verdict = "none"
    /\ step \in {"inspect"} \cup Deciding =>
          SlotState = "raw_committed" /\ content[c] = payload
    /\ step \in {"accept", "validate", "observeHarvest", "observeReject"} =>
          verdict = "uncertain" /\ judged = payload
    /\ step = "observeHarvest" => accepted = payload

HolderInv ==
    \A c \in Command : lock = c => SlotFits(c, pc[c]) /\ DecisionFits(c, pc[c])

\* A publisher has its report until it ends.
InputInv ==
    \A p \in Publisher : pc[p] \in {"attach", "look", "lock"} => content[p] \in Report

DecidedInv ==
    /\ verdict # "none" => SlotState = "raw_committed" /\ judged = payload
    /\ verdict = "harvested" => accepted = judged
    /\ \A p \in Publisher : answer[p][1] = "published" =>
          SlotState = "raw_committed" /\ payload = answer[p][2]

IInv == TypeOK /\ LockInv /\ HolderInv /\ InputInv /\ DecidedInv

LEMMA Answers ==
    /\ Nothing \in Answer /\ Error \in Answer
    /\ Nothing[1] # "published" /\ Error[1] # "published"
    /\ \A what \in {"published", "harvested", "rejected"}, r \in Report :
          /\ <<what, r>> \in Answer
          /\ <<what, r>>[1] = what /\ <<what, r>>[2] = r
BY DEF Answer, Nothing, Error

LEMMA CommittedIsWhole ==
    ASSUME SlotState = "raw_committed"
    PROVE  payload \in Report /\ marker = payload /\ ~guard /\ staging = {}
BY DEF SlotState

LEMMA InitInv == Init => IInv
<1> SUFFICES ASSUME Init PROVE IInv
  OBVIOUS
<1>1. TypeOK
  <2>1. "idle" \in Step /\ NoFile \in File /\ 0 \in 0 .. MishapLimit
    BY SlotLimits DEF Step, File
  <2>2. QED
    BY <2>1, Answers DEF Init, TypeOK
<1>2. LockInv
  BY CommandsAreApart DEF Init, LockInv, Locked, Writing, Deciding, Command
<1>3. HolderInv /\ InputInv /\ DecidedInv
  BY CommandsAreApart, Answers DEF Init, HolderInv, InputInv, DecidedInv, Command
<1>4. QED
  BY <1>1, <1>2, <1>3 DEF IInv

\* Before the lock: nothing but the command's own input, step and answer.
LEMMA OutsideKeeps ==
    ASSUME IInv, NEW c \in Command, lock # c,
           UNCHANGED <<slotFiles, runFiles, lock, mishaps>>,
           NEW step \in Step \ Locked, pc' = [pc EXCEPT ![c] = step],
           NEW what \in {Nothing, Error, answer[c]}, answer' = [answer EXCEPT ![c] = what],
           NEW r \in Report \cup {NoFile}, content' = [content EXCEPT ![c] = r],
           c \in Publisher /\ step \in {"attach", "look", "lock"} => r \in Report,
           ends' \in [Publisher -> BOOLEAN]
    PROVE  IInv'
<1> USE DEF slotFiles, runFiles
<1>1. what \in Answer
  BY Answers DEF IInv, TypeOK
<1>2. SlotState' = SlotState
  BY DEF SlotState
<1>3. TypeOK'
  BY <1>1 DEF IInv, TypeOK
<1>4. LockInv'
  BY DEF IInv, TypeOK, LockInv
<1>5. HolderInv'
  <2> SUFFICES ASSUME NEW q \in Command, lock = q
               PROVE (SlotFits(q, pc[q]) /\ DecisionFits(q, pc[q]))'
    BY DEF HolderInv
  <2>1. pc'[q] = pc[q] /\ content'[q] = content[q]
    BY DEF IInv, TypeOK
  <2>2. QED
    BY <1>2, <2>1 DEF IInv, HolderInv, SlotFits, DecisionFits
<1>6. InputInv'
  BY DEF IInv, TypeOK, InputInv, Command
<1>7. DecidedInv'
  BY <1>2, Answers DEF IInv, TypeOK, DecidedInv, Command
<1>8. QED
  BY <1>3, <1>4, <1>5, <1>6, <1>7 DEF IInv

LEMMA OutsideSteps ==
    ASSUME IInv,
           \/ \E p \in Publisher : BeginPublish(p) \/ Attach(p) \/ LookAtSlot(p)
           \/ \E c \in Collector : BeginHarvest(c)
           \/ \E c \in Command : AcquireLock(c) /\ lock # Free
    PROVE  IInv'
<1>1. {"idle", "attach", "look", "lock"} \subseteq Step \ Locked
  BY DEF Step, Locked, Writing, Deciding
<1>2. ASSUME NEW p \in Publisher, BeginPublish(p) PROVE IInv'
  <2>1. p \in Command /\ lock # p
    BY <1>1, <1>2 DEF BeginPublish, Command, IInv, LockInv
  <2>2. PICK r \in Report, e \in BOOLEAN :
          content' = [content EXCEPT ![p] = r] /\ ends' = [ends EXCEPT ![p] = e]
    BY <1>2 DEF BeginPublish
  <2>3. ends' \in [Publisher -> BOOLEAN]
    BY <2>2 DEF IInv, TypeOK
  <2>4. QED
    BY <1>1, <1>2, <2>1, <2>2, <2>3, OutsideKeeps DEF BeginPublish, Goto
<1>3. ASSUME NEW c \in Command, pc[c] \in {"attach", "look", "lock"},
             Refuse(c), UNCHANGED <<slotFiles, runFiles, lock, mishaps>>
      PROVE  IInv'
  <2>1. lock # c
    BY <1>1, <1>3 DEF IInv, LockInv
  <2>2. ends' \in [Publisher -> BOOLEAN]
    BY <1>3 DEF Refuse, Forget, IInv, TypeOK
  <2>3. QED
    BY <1>1, <1>3, <2>1, <2>2, OutsideKeeps DEF Refuse, Forget, Goto
<1>4. ASSUME NEW c \in Command, pc[c] \in {"idle", "attach", "look", "lock"},
             NEW step \in {"look", "lock"}, Goto(c, step),
             c \in Publisher => content[c] \in Report,
             NEW what \in {Nothing, answer[c]}, answer' = [answer EXCEPT ![c] = what],
             UNCHANGED <<slotFiles, runFiles, lock, input, mishaps>>
      PROVE  IInv'
  <2>1. lock # c /\ step \in Step \ Locked
    BY <1>1, <1>4 DEF IInv, LockInv
  <2>2. /\ content[c] \in Report \cup {NoFile} /\ content' = [content EXCEPT ![c] = content[c]]
        /\ ends' \in [Publisher -> BOOLEAN]
    BY <1>4 DEF input, IInv, TypeOK
  <2>3. QED
    BY <1>4, <2>1, <2>2, OutsideKeeps DEF Goto
<1>5. ASSUME NEW p \in Publisher, Attach(p) \/ LookAtSlot(p) PROVE IInv'
  <2>1. p \in Command /\ content[p] \in Report /\ answer = [answer EXCEPT ![p] = answer[p]]
    BY <1>5 DEF Attach, LookAtSlot, Command, IInv, InputInv, TypeOK
  <2>2. QED
    BY <1>3, <1>4, <1>5, <2>1 DEF Attach, LookAtSlot, Proceed
<1>6. ASSUME NEW c \in Collector, BeginHarvest(c) PROVE IInv'
  BY <1>4, <1>6, CommandsAreApart DEF BeginHarvest, Command
<1>7. ASSUME NEW c \in Command, AcquireLock(c), lock # Free PROVE IInv'
  BY <1>3, <1>7 DEF AcquireLock
<1>8. QED
  BY <1>2, <1>5, <1>6, <1>7

\* A step of the lock's holder: what it may rely on next is all that has to be
\* shown, and that what was decided and answered still holds.
LEMMA HolderKeeps ==
    ASSUME IInv, NEW c \in Command, lock = c, UNCHANGED <<lock, open, ends>>,
           guard' \in BOOLEAN, staging' \subseteq Publisher,
           payload' \in File, marker' \in File, accepted' \in File,
           verdict' \in {"none", "uncertain", "harvested", "rejected"},
           judged' \in Report \cup {NoFile}, mishaps' \in 0 .. MishapLimit,
           NEW step \in Locked, pc' = [pc EXCEPT ![c] = step],
           NEW what \in Answer, answer' = [answer EXCEPT ![c] = what],
           NEW r \in Report \cup {NoFile}, content' = [content EXCEPT ![c] = r],
           SlotFits(c, step)', DecisionFits(c, step)', DecidedInv'
    PROVE  IInv'
<1>1. step \in Step
  BY DEF Step
<1>2. TypeOK'
  BY <1>1 DEF IInv, TypeOK
<1>3. LockInv'
  BY DEF IInv, TypeOK, LockInv
<1>4. pc'[c] = step
  BY DEF IInv, TypeOK
<1>5. HolderInv'
  BY <1>4 DEF HolderInv
<1>6. InputInv'
  BY <1>1, <1>4 DEF IInv, TypeOK, InputInv, Command, Locked, Writing, Deciding
<1>7. QED
  BY <1>2, <1>3, <1>5, <1>6 DEF IInv

\* The holder of the lock at a step of its own.
LEMMA Holder ==
    ASSUME IInv, NEW c \in Command, pc[c] \in Locked
    PROVE  /\ lock = c /\ SlotFits(c, pc[c]) /\ DecisionFits(c, pc[c])
           /\ content[c] \in Report \cup {NoFile}
           /\ content = [content EXCEPT ![c] = content[c]]
           /\ answer[c] \in Answer /\ answer = [answer EXCEPT ![c] = answer[c]]
BY DEF IInv, LockInv, HolderInv, TypeOK

\* What was decided and answered holds as long as a committed slot, the copy
\* and the decision stay, and nobody answers out of turn.
LEMMA DecidedStays ==
    ASSUME IInv, NEW c \in Command, UNCHANGED <<verdict, judged, accepted>>,
           SlotState = "raw_committed" => SlotState' = "raw_committed" /\ payload' = payload,
           NEW what \in Answer, answer' = [answer EXCEPT ![c] = what],
           what = answer[c] \/ what[1] # "published"
    PROVE  DecidedInv'
<1>1. \A p \in Publisher : answer'[p][1] = "published" => answer'[p] = answer[p]
  BY DEF IInv, TypeOK, Command
<1>2. QED
  BY <1>1 DEF IInv, DecidedInv

LEMMA LeavingFits ==
    ASSUME NEW c \in Command, NEW step \in {"release", "dead"}
    PROVE  SlotFits(c, step)' /\ DecisionFits(c, step)'
BY DEF SlotFits, DecisionFits, Writing, Deciding

\* The steps that read the slot and the run.
LEMMA ReadingKeeps ==
    ASSUME IInv,
           \/ \E c \in Command : AcquireLock(c) /\ lock = Free
           \/ \E p \in Publisher : ReadInput(p) \/ Authorize(p) \/ ScanSlot(p) \/ Confirm(p)
           \/ \E c \in Collector : \/ LoadDecision(c) \/ ScanRaw(c) \/ InspectSource(c)
                                   \/ Validate(c)
           \/ \E c \in Command : Die(c)
    PROVE  IInv'
<1> USE DEF slotFiles, runFiles, input
<1>1. CASE \E c \in Command : AcquireLock(c) /\ lock = Free
  <2>1. PICK c \in Command : AcquireLock(c) /\ lock = Free
    BY <1>1
  <2> DEFINE step == IF c \in Publisher THEN "read" ELSE "load"
  <2>2. /\ pc' = [pc EXCEPT ![c] = step] /\ lock' = c
        /\ UNCHANGED <<slotFiles, runFiles, input, answer, mishaps>>
    BY <2>1 DEF AcquireLock, Proceed, Goto
  <2>3. SlotState' = SlotState
    BY <2>2 DEF SlotState
  <2>4. \A q \in Command : pc[q] \notin Locked
    BY <2>1, CommandsAreApart DEF IInv, LockInv, Command
  <2>5. step \in Locked /\ step \in Step
    BY DEF Locked, Step
  <2>6. TypeOK'
    BY <2>2, <2>5 DEF IInv, TypeOK
  <2>7. LockInv'
    BY <2>2, <2>4, <2>5 DEF IInv, TypeOK, LockInv
  <2>8. HolderInv'
    <3>1. pc'[c] = step
      BY <2>2 DEF IInv, TypeOK
    <3>2. c \in Publisher => content[c] \in Report
      BY <2>1 DEF AcquireLock, IInv, InputInv
    <3>3. SlotFits(c, step)' /\ DecisionFits(c, step)'
      BY <2>2, <3>2 DEF SlotFits, DecisionFits, Writing, Deciding
    <3>4. QED
      BY <2>2, <3>1, <3>3 DEF HolderInv
  <2>9. InputInv' /\ DecidedInv'
    BY <2>2, <2>3 DEF IInv, TypeOK, InputInv, DecidedInv, Command
  <2>10. QED
    BY <2>6, <2>7, <2>8, <2>9 DEF IInv
<1>2. ASSUME NEW c \in Command, pc[c] \in Locked, NEW what \in Answer,
             UNCHANGED <<slotFiles, runFiles, lock, input>>, mishaps' \in 0 .. MishapLimit,
             NEW step \in Locked, Goto(c, step), answer' = [answer EXCEPT ![c] = what],
             what = answer[c] \/ what[1] # "published",
             SlotFits(c, step)', DecisionFits(c, step)'
      PROVE  IInv'
  <2>1. SlotState' = SlotState /\ payload' = payload
    BY <1>2 DEF SlotState
  <2>2. DecidedInv'
    BY <1>2, <2>1, DecidedStays
  <2>3. QED
    BY <1>2, <2>2, Holder, HolderKeeps DEF Goto, IInv, TypeOK
<1>3. ASSUME NEW c \in Command, pc[c] \in Locked,
             NEW what \in Answer, Leave(c, what), what[1] # "published",
             UNCHANGED <<slotFiles, runFiles, lock, input, mishaps>>
      PROVE  IInv'
  <2>1. "release" \in Locked /\ mishaps' \in 0 .. MishapLimit
    BY <1>3 DEF Locked, IInv, TypeOK
  <2>2. QED
    BY <1>2, <1>3, <2>1, LeavingFits DEF Leave
<1>4. ASSUME NEW p \in Publisher, ReadInput(p) \/ Authorize(p) \/ ScanSlot(p) \/ Confirm(p)
      PROVE  IInv'
  <2>1. /\ p \in Command /\ pc[p] \in Locked
        /\ UNCHANGED <<slotFiles, runFiles, lock, input, mishaps>>
        /\ mishaps' \in 0 .. MishapLimit
    BY <1>4 DEF ReadInput, Authorize, ScanSlot, Confirm, Command, Locked, Writing, IInv, TypeOK
  <2>2. SlotState' = SlotState
    BY <2>1 DEF SlotState
  <2>3. CASE Leave(p, Error)
    BY <1>3, <2>1, <2>3, Answers
  <2>4. CASE ~Leave(p, Error) /\ ~Confirm(p)
    <3>1. PICK step \in {"authorize", "scan", "guard"} :
            /\ Goto(p, step) /\ UNCHANGED answer
            /\ step \in {"scan", "guard"} => open
            /\ step = "guard" => SlotState = "raw_empty"
      BY <1>4, <2>1, <2>4, Holder DEF ReadInput, Authorize, ScanSlot, Loads, SlotFits
    <3>2. content[p] \in Report
      BY <1>4, <2>1, <2>4, Holder DEF ReadInput, Authorize, ScanSlot, SlotFits
    <3>3. SlotFits(p, step)' /\ DecisionFits(p, step)'
      BY <2>1, <2>2, <3>1, <3>2 DEF SlotFits, DecisionFits, Writing, Deciding
    <3>4. step \in Locked
      BY DEF Locked, Writing
    <3>5. QED
      BY <1>2, <2>1, <3>1, <3>3, <3>4, Holder
  <2>5. CASE Confirm(p) /\ ~Leave(p, Error)
    <3>1. /\ SlotState = "raw_committed" /\ Leave(p, <<"published", content[p]>>)
          /\ payload = content[p] /\ content[p] \in Report
      BY <2>1, <2>5, Holder DEF Confirm, SlotFits, Writing
    <3>2. DecidedInv'
      <4>1. \A q \in Publisher \ {p} : answer'[q] = answer[q]
        BY <3>1 DEF Leave, IInv, TypeOK, Command
      <4>2. answer'[p] = <<"published", content[p]>>
        BY <2>1, <3>1 DEF Leave, IInv, TypeOK
      <4>3. QED
        BY <2>1, <2>2, <3>1, <4>1, <4>2 DEF IInv, DecidedInv
    <3>3. "release" \in Locked /\ <<"published", content[p]>> \in Answer
      BY <3>1, Answers DEF Locked
    <3>4. QED
      BY <2>1, <3>1, <3>2, <3>3, Holder, LeavingFits, HolderKeeps DEF Leave, Goto, IInv, TypeOK
  <2>6. QED
    BY <1>4, <2>3, <2>4, <2>5
<1>5. ASSUME NEW c \in Collector, LoadDecision(c) \/ InspectSource(c) \/ Validate(c)
      PROVE  IInv'
  <2>1. /\ c \in Command /\ pc[c] \in Locked
        /\ UNCHANGED <<slotFiles, runFiles, lock, input, mishaps>>
        /\ mishaps' \in 0 .. MishapLimit
    BY <1>5 DEF LoadDecision, InspectSource, Validate, Command, Locked, Deciding, IInv, TypeOK
  <2>2. SlotState' = SlotState
    BY <2>1 DEF SlotState
  <2>3. CASE Leave(c, Error)
    BY <1>3, <2>1, <2>3, Answers
  <2>4. CASE Leave(c, <<verdict, judged>>) /\ Loads /\ verdict # "none"
    <3>1. verdict \in {"harvested", "rejected"} /\ judged \in Report
      BY <2>4, CommittedIsWhole DEF Loads, IInv, TypeOK, DecidedInv
    <3>2. QED
      BY <1>3, <2>1, <2>4, <3>1, Answers
  <2>5. CASE \E step \in Step : Goto(c, step) /\ UNCHANGED answer /\ step # "release"
    <3>1. PICK step \in {"raw", "intentHarvest", "intentReject", "observeHarvest"} :
            /\ Goto(c, step) /\ UNCHANGED answer
            /\ step = "raw" => open /\ verdict = "none"
            /\ step \in {"intentHarvest", "intentReject"} => pc[c] = "inspect"
            /\ step = "observeHarvest" => pc[c] = "validate" /\ accepted = payload
      <4>1. CASE LoadDecision(c)
        BY <2>1, <2>5, <4>1 DEF LoadDecision, Loads, Leave, Goto, IInv, TypeOK
      <4>2. CASE InspectSource(c)
        BY <2>1, <2>5, <4>2 DEF InspectSource, Leave, Goto, IInv, TypeOK
      <4>3. CASE Validate(c)
        BY <2>1, <2>5, <4>3 DEF Validate, Leave, Goto, IInv, TypeOK
      <4>4. QED
        BY <1>5, <4>1, <4>2, <4>3
    <3>2. DecisionFits(c, step)'
      BY <2>1, <2>2, <3>1, Holder DEF DecisionFits, Deciding
    <3>3. SlotFits(c, step)' /\ step \in Locked
      BY <3>1 DEF SlotFits, Writing, Deciding, Locked
    <3>4. QED
      BY <1>2, <2>1, <3>1, <3>2, <3>3, Holder
  <2>6. QED
    <3>1. {"raw", "intentHarvest", "intentReject", "observeHarvest"} \subseteq Step \ {"release"}
      BY DEF Step, Locked, Deciding
    <3>2. QED
      BY <1>5, <2>3, <2>4, <2>5, <3>1 DEF LoadDecision, InspectSource, Validate
<1>6. ASSUME NEW c \in Collector, ScanRaw(c) PROVE IInv'
  <2>1. /\ c \in Command /\ pc[c] \in Locked /\ pc[c] = "raw"
        /\ UNCHANGED <<slotFiles, runFiles, lock, ends, mishaps>>
        /\ mishaps' \in 0 .. MishapLimit
    BY <1>6 DEF ScanRaw, Command, Locked, IInv, TypeOK
  <2>2. SlotState' = SlotState /\ payload' = payload
    BY <2>1 DEF SlotState
  <2>3. CASE SlotState # "raw_committed"
    BY <1>3, <1>6, <2>1, <2>3, Answers DEF ScanRaw
  <2>4. CASE SlotState = "raw_committed"
    <3>1. /\ content' = [content EXCEPT ![c] = payload] /\ pc' = [pc EXCEPT ![c] = "inspect"]
          /\ UNCHANGED answer /\ payload \in Report
      BY <1>6, <2>4, CommittedIsWhole DEF ScanRaw, Goto
    <3>2. "inspect" \in Locked
      BY DEF Locked
    <3>3. content'[c] = payload
      BY <2>1, <3>1 DEF IInv, TypeOK
    <3>4. SlotFits(c, "inspect")' /\ DecisionFits(c, "inspect")'
      BY <2>1, <2>2, <2>4, <3>3, Holder DEF SlotFits, DecisionFits, Writing, Deciding
    <3>5. DecidedInv'
      BY <2>1, <2>2, <3>1, Holder, DecidedStays
    <3>6. QED
      BY <2>1, <3>1, <3>2, <3>4, <3>5, Holder, HolderKeeps DEF IInv, TypeOK
  <2>5. QED
    BY <2>3, <2>4
<1>7. ASSUME NEW c \in Command, Die(c) PROVE IInv'
  <2>1. /\ pc[c] \in Locked /\ "dead" \in Locked /\ mishaps' \in 0 .. MishapLimit
        /\ UNCHANGED <<slotFiles, runFiles, lock, input, answer>> /\ Goto(c, "dead")
    BY <1>7, SlotLimits DEF Die, Locked, IInv, TypeOK, LockInv
  <2>2. QED
    BY <1>2, <2>1, Holder, LeavingFits
<1>8. QED
  BY <1>1, <1>4, <1>5, <1>6, <1>7

\* The six file operations of a publisher: until the guard is gone the slot is
\* not committed, and with that it holds the publisher's report.
LEMMA WritingKeeps ==
    ASSUME IInv, NEW p \in Publisher,
           \/ WriteGuard(p) \/ WriteStaging(p) \/ WritePayload(p) \/ WriteMarker(p)
           \/ UnlinkStaging(p) \/ UnlinkGuard(p)
    PROVE  IInv'
<1> USE DEF runFiles, input
<1>1. /\ p \in Command /\ pc[p] \in Writing \ {"confirm"} /\ pc[p] \in Locked
      /\ UNCHANGED <<runFiles, lock, input>>
  BY DEF WriteGuard, WriteStaging, WritePayload, WriteMarker, UnlinkStaging, UnlinkGuard,
     Command, Locked, Writing
<1>2. /\ lock = p /\ content[p] \in Report /\ open
      /\ content' = [content EXCEPT ![p] = content[p]]
      /\ SlotFits(p, pc[p])
  BY <1>1, Holder DEF SlotFits
<1>3. SlotState # "raw_committed"
  BY <1>1, <1>2 DEF SlotFits, SlotState, Writing
<1>4. /\ guard' \in BOOLEAN /\ staging' \subseteq Publisher
      /\ payload' \in File /\ marker' \in File
  BY <1>2 DEF WriteGuard, WriteStaging, WritePayload, WriteMarker, UnlinkStaging, UnlinkGuard,
     IInv, TypeOK, File
<1>5. mishaps' \in 0 .. MishapLimit
  <2>1. mishaps' = mishaps \/ Mishap(p)
    BY DEF WriteGuard, WriteStaging, WritePayload, WriteMarker, UnlinkStaging, UnlinkGuard, Done
  <2>2. QED
    BY <2>1, SlotLimits DEF Mishap, IInv, TypeOK
<1>6. PICK step \in {"staging", "payload", "marker", "unlinkStaging", "unlinkGuard", "confirm",
                     "release", "dead"}, what \in {answer[p], Error} :
        /\ pc' = [pc EXCEPT ![p] = step] /\ answer' = [answer EXCEPT ![p] = what]
        /\ step \notin {"release", "dead"} => SlotFits(p, step)'
  <2>1. CASE Mishap(p)
    BY <2>1 DEF Mishap, Goto
  <2>2. CASE Leave(p, Error)
    BY <2>2 DEF Leave, Goto
  <2>3. CASE WriteGuard(p) /\ ~Mishap(p)
    <3>1. Done(p, "staging") /\ guard' /\ staging = {} /\ payload = NoFile /\ marker = NoFile
          /\ UNCHANGED <<staging, payload, marker>>
      <4>1. pc[p] = "guard" /\ UNCHANGED <<staging, payload, marker>> /\ SlotState = "raw_empty"
        BY <1>2, <2>3 DEF WriteGuard, SlotFits
      <4>2. ~guard /\ staging = {} /\ payload = NoFile /\ marker = NoFile
        BY <4>1 DEF SlotState
      <4>3. Done(p, "staging") /\ guard'
        BY <2>3, <4>2 DEF WriteGuard
      <4>4. QED
        BY <4>1, <4>2, <4>3
    <3>2. SlotFits(p, "staging")'
      BY <1>1, <1>2, <3>1 DEF SlotFits, Writing
    <3>3. QED
      BY <3>1, <3>2, Holder, <1>1 DEF Done, Goto
  <2>4. CASE WriteStaging(p) /\ ~Mishap(p)
    <3>1. /\ Done(p, "payload") /\ staging' = {p} /\ guard'
          /\ payload' = NoFile /\ marker' = NoFile
      BY <1>2, <2>4 DEF WriteStaging, SlotFits
    <3>2. SlotFits(p, "payload")'
      BY <1>1, <1>2, <3>1 DEF SlotFits, Writing
    <3>3. QED
      BY <3>1, <3>2, Holder, <1>1 DEF Done, Goto
  <2>5. CASE WritePayload(p) /\ ~Mishap(p) /\ ~Leave(p, Error)
    <3>1. /\ Done(p, "marker") /\ staging' = {p} /\ guard'
          /\ payload' = content[p] /\ marker' = NoFile
      BY <1>2, <2>5 DEF WritePayload, SlotFits
    <3>2. SlotFits(p, "marker")'
      BY <1>1, <1>2, <3>1 DEF SlotFits, Writing
    <3>3. QED
      BY <3>1, <3>2, Holder, <1>1 DEF Done, Goto
  <2>6. CASE WriteMarker(p) /\ ~Mishap(p) /\ ~Leave(p, Error)
    <3>1. /\ Done(p, "unlinkStaging") /\ staging' = {p} /\ guard'
          /\ payload' = content[p] /\ marker' = content[p]
      BY <1>2, <2>6 DEF WriteMarker, SlotFits
    <3>2. SlotFits(p, "unlinkStaging")'
      BY <1>1, <1>2, <3>1 DEF SlotFits, Writing
    <3>3. QED
      BY <3>1, <3>2, Holder, <1>1 DEF Done, Goto
  <2>7. CASE UnlinkStaging(p) /\ ~Mishap(p)
    <3>1. /\ Done(p, "unlinkGuard") /\ staging' = {} /\ guard'
          /\ payload' = content[p] /\ marker' = content[p]
      BY <1>2, <2>7 DEF UnlinkStaging, SlotFits
    <3>2. SlotFits(p, "unlinkGuard")'
      BY <1>1, <1>2, <3>1 DEF SlotFits, Writing
    <3>3. QED
      BY <3>1, <3>2, Holder, <1>1 DEF Done, Goto
  <2>8. CASE UnlinkGuard(p) /\ ~Mishap(p)
    <3>1. /\ Done(p, "confirm") /\ staging' = {} /\ ~guard'
          /\ payload' = content[p] /\ marker' = content[p]
      BY <1>2, <2>8 DEF UnlinkGuard, SlotFits
    <3>2. SlotFits(p, "confirm")'
      BY <1>1, <1>2, <3>1 DEF SlotFits, Writing
    <3>3. QED
      BY <3>1, <3>2, Holder, <1>1 DEF Done, Goto
  <2>9. QED
    BY <2>1, <2>2, <2>3, <2>4, <2>5, <2>6, <2>7, <2>8
<1>7. what \in Answer /\ (what = answer[p] \/ what[1] # "published")
  BY <1>1, Holder, Answers
<1>8. step \in Locked /\ SlotFits(p, step)' /\ DecisionFits(p, step)'
  BY <1>1, <1>6, LeavingFits DEF Locked, Writing, DecisionFits, Deciding
<1>9. DecidedInv'
  BY <1>1, <1>3, <1>6, <1>7, DecidedStays
<1>10. QED
  BY <1>1, <1>2, <1>4, <1>5, <1>6, <1>7, <1>8, <1>9, HolderKeeps DEF IInv, TypeOK

\* The operations of a harvest that decide about the report.
LEMMA DecidingKeeps ==
    ASSUME IInv, NEW c \in Collector, PublishIntent(c) \/ AcceptCopy(c) \/ Observe(c)
    PROVE  IInv'
<1> USE DEF slotFiles, input
<1>1. /\ c \in Command /\ pc[c] \in Deciding \ {"validate"} /\ pc[c] \in Locked
      /\ UNCHANGED <<slotFiles, open, lock, input>>
  BY DEF PublishIntent, AcceptCopy, Observe, Command, Locked, Deciding
<1>2. SlotState' = SlotState
  BY <1>1 DEF SlotState
<1>3. /\ lock = c /\ open /\ SlotState = "raw_committed" /\ content[c] = payload
      /\ payload \in Report /\ payload # NoFile
      /\ content' = [content EXCEPT ![c] = content[c]]
      /\ DecisionFits(c, pc[c])
  BY <1>1, Holder, CommittedIsWhole, ReportsAreWhole DEF DecisionFits
<1>4. mishaps' \in 0 .. MishapLimit
  <2>1. mishaps' = mishaps \/ Mishap(c)
    BY DEF PublishIntent, AcceptCopy, Observe, Done
  <2>2. QED
    BY <2>1, SlotLimits DEF Mishap, IInv, TypeOK
<1>5. ASSUME NEW step \in {"accept", "validate", "observeReject", "release", "dead"},
             pc' = [pc EXCEPT ![c] = step],
             NEW what \in Answer, answer' = [answer EXCEPT ![c] = what],
             what = answer[c] \/ what[1] # "published",
             accepted' \in File, verdict' \in {"none", "uncertain", "harvested", "rejected"},
             judged' \in Report \cup {NoFile},
             verdict' # "none" => judged' = payload,
             verdict' = "harvested" => accepted' = judged',
             step \in {"accept", "validate", "observeReject"} => verdict' = "uncertain"
      PROVE  IInv'
  <2>1. step \in Locked
    BY DEF Locked, Deciding
  <2>2. SlotFits(c, step)'
    BY <1>5 DEF SlotFits, Writing
  <2>3. DecisionFits(c, step)'
    BY <1>1, <1>2, <1>3, <1>5 DEF DecisionFits, Deciding
  <2>4. DecidedInv'
    <3>1. \A p \in Publisher : answer'[p][1] = "published" => answer'[p] = answer[p]
      BY <1>5, Answers DEF IInv, TypeOK, Command
    <3>2. QED
      BY <1>1, <1>2, <1>3, <1>5, <3>1 DEF IInv, DecidedInv
  <2>5. QED
    BY <1>1, <1>3, <1>4, <1>5, <2>1, <2>2, <2>3, <2>4, HolderKeeps DEF IInv, TypeOK
<1>6. ASSUME NEW step \in {"accept", "validate", "observeReject"}, Done(c, step)
      PROVE  /\ pc' = [pc EXCEPT ![c] = step] /\ answer[c] \in Answer
             /\ answer' = [answer EXCEPT ![c] = answer[c]]
  BY <1>1, <1>6, Holder DEF Done, Goto
<1>7. ASSUME Mishap(c) \/ Leave(c, Error)
      PROVE  \E step \in {"release", "dead"} :
                pc' = [pc EXCEPT ![c] = step] /\ answer' = [answer EXCEPT ![c] = Error]
  BY <1>7 DEF Mishap, Leave, Goto
<1>8. CASE PublishIntent(c)
  <2>1. verdict = "none" /\ accepted' = accepted /\ accepted \in File
    BY <1>3, <1>8 DEF PublishIntent, DecisionFits, IInv, TypeOK
  <2>2. CASE Mishap(c)
    BY <1>3, <1>5, <1>7, <1>8, <2>1, <2>2, Answers DEF PublishIntent, IInv, TypeOK
  <2>3. CASE ~Mishap(c)
    BY <1>3, <1>5, <1>6, <1>8, <2>1, <2>3 DEF PublishIntent
  <2>4. QED
    BY <2>2, <2>3
<1>9. CASE AcceptCopy(c)
  <2>1. /\ verdict = "uncertain" /\ judged = payload /\ accepted' \in File
        /\ UNCHANGED <<verdict, judged>>
    BY <1>3, <1>9 DEF AcceptCopy, DecisionFits, IInv, TypeOK, File
  <2>2. CASE Mishap(c) \/ Leave(c, Error)
    BY <1>3, <1>5, <1>7, <2>1, <2>2, Answers
  <2>3. CASE ~Mishap(c) /\ ~Leave(c, Error)
    BY <1>3, <1>5, <1>6, <1>9, <2>1, <2>3 DEF AcceptCopy
  <2>4. QED
    BY <2>2, <2>3
<1>10. CASE Observe(c)
  <2> DEFINE disposition == IF pc[c] = "observeHarvest" THEN "harvested" ELSE "rejected"
  <2>1. /\ judged = payload /\ UNCHANGED <<accepted, judged>> /\ accepted \in File
        /\ disposition = "harvested" => accepted = payload
        /\ <<disposition, judged>> \in Answer /\ <<disposition, judged>>[1] # "published"
    BY <1>3, <1>10, Answers DEF Observe, DecisionFits, IInv, TypeOK
  <2>2. CASE Mishap(c)
    BY <1>3, <1>5, <1>7, <1>10, <2>1, <2>2, Answers DEF Observe
  <2>3. CASE Leave(c, <<disposition, judged>>) /\ verdict' = disposition
    BY <1>3, <1>5, <2>1, <2>3 DEF Leave, Goto
  <2>4. QED
    BY <1>10, <2>2, <2>3 DEF Observe
<1>11. QED
  BY <1>8, <1>9, <1>10

LEMMA EndingKeeps ==
    ASSUME IInv, Archive \/ \E c \in Command : Release(c)
    PROVE  IInv'
<1> USE DEF slotFiles, runFiles
<1>1. SlotState' = SlotState
  BY DEF Archive, Release, SlotState
<1>2. CASE Archive
  <2>1. UNCHANGED <<slotFiles, accepted, verdict, judged, lock, pc, content, ends, answer, mishaps>>
        /\ open' \in BOOLEAN /\ lock = Free
    BY <1>2 DEF Archive
  <2>2. HolderInv'
    BY <2>1, CommandsAreApart DEF HolderInv, Command
  <2>3. TypeOK' /\ LockInv' /\ InputInv'
    BY <2>1 DEF IInv, TypeOK, LockInv, InputInv
  <2>4. DecidedInv'
    BY <1>1, <2>1 DEF IInv, DecidedInv
  <2>5. QED
    BY <2>2, <2>3, <2>4 DEF IInv
<1>3. ASSUME NEW c \in Command, Release(c) PROVE IInv'
  <2>1. /\ lock = c /\ lock' = Free /\ pc' = [pc EXCEPT ![c] = "idle"]
        /\ content' = [content EXCEPT ![c] = NoFile]
        /\ UNCHANGED <<slotFiles, runFiles, answer, mishaps>>
        /\ ends' = [p \in Publisher |-> p = c \/ ends[p]]
    BY <1>3 DEF Release, Goto, Forget, IInv, LockInv, Locked
  <2>2. "idle" \in Step \ Locked
    BY DEF Step, Locked, Writing, Deciding
  <2>3. ends' \in [Publisher -> BOOLEAN]
    BY <2>1 DEF IInv, TypeOK
  <2>4. TypeOK'
    BY <2>1, <2>2, <2>3 DEF IInv, TypeOK
  <2>5. LockInv'
    BY <2>1, <2>2, CommandsAreApart DEF IInv, TypeOK, LockInv, Command
  <2>6. HolderInv'
    BY <2>1, CommandsAreApart DEF HolderInv, Command
  <2>7. InputInv'
    BY <2>1 DEF IInv, TypeOK, InputInv, Command
  <2>8. DecidedInv'
    BY <1>1, <2>1 DEF IInv, DecidedInv
  <2>9. QED
    BY <2>4, <2>5, <2>6, <2>7, <2>8 DEF IInv
<1>4. QED
  BY <1>2, <1>3

LEMMA NextInv == IInv /\ [Next]_vars => IInv'
<1> SUFFICES ASSUME IInv, [Next]_vars PROVE IInv'
  OBVIOUS
<1>1. CASE UNCHANGED vars
  BY <1>1 DEF vars, slotFiles, runFiles, input, IInv, TypeOK, LockInv, HolderInv, SlotFits,
     DecisionFits, InputInv, DecidedInv, SlotState
<1>2. CASE Archive
  BY <1>2, EndingKeeps
<1>3. ASSUME NEW p \in Publisher, BeginPublish(p) \/ Publish(p) \/ Die(p) PROVE IInv'
  <2>1. p \in Command
    BY DEF Command
  <2>2. QED
    BY <1>3, <2>1, OutsideSteps, ReadingKeeps, WritingKeeps, EndingKeeps DEF Publish
<1>4. ASSUME NEW c \in Collector, BeginHarvest(c) \/ Harvest(c) \/ Die(c) PROVE IInv'
  <2>1. c \in Command
    BY DEF Command
  <2>2. QED
    BY <1>4, <2>1, OutsideSteps, ReadingKeeps, DecidingKeeps, EndingKeeps DEF Harvest
<1>5. QED
  BY <1>1, <1>2, <1>3, <1>4 DEF Next

\* The files of the slot, the journal entry and the commands have their types.
THEOREM SlotTypeCorrect == Spec => []TypeOK
<1>1. IInv => TypeOK
  BY DEF IInv
<1>2. QED
  BY <1>1, InitInv, NextInv, PTL DEF Spec

\* What a publisher or a harvest acknowledged is what the slot and the accepted
\* copy hold, however the commands interleave, fail and die
\* (publishReportFromStdin and harvestCommittedReport).
THEOREM AnswersAreTruthful == Spec => []TruthfulAnswers
<1>1. IInv => TruthfulAnswers
  BY DEF IInv, DecidedInv, TruthfulAnswers
<1>2. QED
  BY <1>1, InitInv, NextInv, PTL DEF Spec

-----------------------------------------------------------------------------
\* A publisher is between its scan and its answer.
SomeoneWrites == \E p \in Publisher : pc[p] \in Writing

LEMMA WriterIsHolder ==
    ASSUME IInv, SomeoneWrites PROVE open
BY Holder DEF SomeoneWrites, SlotFits, Command, Locked

LEMMA SlotStates ==
    /\ SlotState \in {"publication_uncertain", "raw_empty", "raw_committed"}
    /\ SlotState = "raw_empty" => Standing = NoFile
    /\ SlotState = "raw_committed" => Standing = payload /\ payload \in Report
    /\ SlotState = "publication_uncertain" /\ SomeoneWrites => Standing = "writing"
    /\ SlotState = "publication_uncertain" /\ ~SomeoneWrites => Standing = Torn
BY DEF SlotState, Standing, SomeoneWrites

\* A step that leaves the slot alone: a publication is at most given up.
LEMMA QuietStep ==
    ASSUME IInv, UNCHANGED <<slotFiles, Decision, open>>,
           SlotState = "publication_uncertain" /\ SomeoneWrites' => SomeoneWrites
    PROVE  [Once!Next]_(Once!vars)
<1>1. SlotState' = SlotState /\ payload' = payload
  BY DEF slotFiles, SlotState
<1>2. CASE Standing' = Standing
  BY <1>2 DEF Once!vars
<1>3. CASE Standing' # Standing
  <2>1. SlotState = "publication_uncertain" /\ SomeoneWrites /\ ~SomeoneWrites'
    BY <1>1, <1>3 DEF Standing, SomeoneWrites, SlotState
  <2>2. Standing = "writing" /\ Standing' = Torn /\ open
    BY <1>1, <2>1, SlotStates, WriterIsHolder DEF Standing, SomeoneWrites
  <2>3. QED
    BY <2>2 DEF Once!Next, Once!GiveUp
<1>4. QED
  BY <1>2, <1>3

\* A step of a publisher that writes: it goes on, gives up or seals its report.
LEMMA WritingStep ==
    ASSUME IInv, SomeoneWrites, UNCHANGED <<Decision, open>>,
           SlotState # "raw_committed",
           SlotState' = "raw_empty" => SlotState = "raw_empty",
           SlotState' = "raw_committed" => SlotState = "publication_uncertain"
    PROVE  [Once!Next]_(Once!vars)
<1>1. open
  BY WriterIsHolder
<1>2. /\ SlotState' \in {"publication_uncertain", "raw_empty", "raw_committed"}
      /\ SlotState' = "raw_empty" => Standing' = NoFile
      /\ SlotState' = "raw_committed" => Standing' \in Report
      /\ SlotState' = "publication_uncertain" => Standing' \in {"writing", Torn}
  BY DEF SlotState, Standing
<1>3. \/ SlotState = "raw_empty" /\ Standing = NoFile
      \/ SlotState = "publication_uncertain" /\ Standing = "writing"
  BY SlotStates
<1>4. CASE SlotState' = "raw_empty"
  BY <1>2, <1>3, <1>4 DEF Once!vars
<1>5. CASE SlotState' = "raw_committed"
  BY <1>1, <1>2, <1>3, <1>5 DEF Once!Next, Once!Seal
<1>6. CASE SlotState' = "publication_uncertain"
  <2>1. CASE Standing' = Torn
    BY <1>1, <1>3, <2>1 DEF Once!Next, Once!GiveUp
  <2>2. CASE Standing' = "writing"
    BY <1>1, <1>3, <2>2 DEF Once!Next, Once!Write, Once!vars
  <2>3. QED
    BY <1>2, <1>6, <2>1, <2>2
<1>7. QED
  BY <1>2, <1>4, <1>5, <1>6

LEMMA PublisherStep ==
    ASSUME IInv, NEW p \in Publisher, BeginPublish(p) \/ Publish(p) \/ Die(p)
    PROVE  [Once!Next]_(Once!vars)
<1> USE DEF runFiles, Decision
<1>1. CASE \/ WriteGuard(p) \/ WriteStaging(p) \/ WritePayload(p) \/ WriteMarker(p)
           \/ UnlinkStaging(p) \/ UnlinkGuard(p)
  <2>1. /\ p \in Command /\ pc[p] \in Writing \ {"confirm"} /\ pc[p] \in Locked
        /\ UNCHANGED runFiles
    BY <1>1 DEF WriteGuard, WriteStaging, WritePayload, WriteMarker, UnlinkStaging, UnlinkGuard,
       Command, Locked, Writing
  <2>2. SlotFits(p, pc[p]) /\ SomeoneWrites
    BY <2>1, Holder DEF SomeoneWrites
  <2>3. CASE WriteGuard(p)
    <3>1. SlotState = "raw_empty"
      BY <2>2, <2>3 DEF WriteGuard, SlotFits
    <3>2. SlotState' # "raw_committed"
      BY <2>3, <3>1, ReportsAreWhole DEF WriteGuard, SlotState
    <3>3. QED
      BY <2>1, <2>2, <3>1, <3>2, WritingStep
  <2>4. CASE ~WriteGuard(p)
    <3>1. guard /\ SlotState = "publication_uncertain"
      BY <1>1, <2>2, <2>4 DEF WriteStaging, WritePayload, WriteMarker, UnlinkStaging, UnlinkGuard,
         SlotFits, SlotState
    <3>2. CASE UnlinkGuard(p)
      <4>1. /\ payload = content[p] /\ content[p] \in Report /\ payload' = payload
        BY <2>1, <2>2, <3>2 DEF UnlinkGuard, SlotFits, Writing
      <4>2. SlotState' # "raw_empty"
        BY <4>1, ReportsAreWhole DEF SlotState
      <4>3. QED
        BY <2>1, <2>2, <3>1, <4>2, WritingStep
    <3>3. CASE ~UnlinkGuard(p)
      <4>1. guard' = guard
        BY <1>1, <2>4, <3>3 DEF WriteStaging, WritePayload, WriteMarker, UnlinkStaging
      <4>2. SlotState' = "publication_uncertain"
        BY <3>1, <4>1 DEF SlotState
      <4>3. QED
        BY <2>1, <2>2, <3>1, <4>2, WritingStep
    <3>4. QED
      BY <3>2, <3>3
  <2>5. QED
    BY <2>3, <2>4
<1>2. CASE ~(\/ WriteGuard(p) \/ WriteStaging(p) \/ WritePayload(p) \/ WriteMarker(p)
             \/ UnlinkStaging(p) \/ UnlinkGuard(p))
  <2>1. PICK step : Goto(p, step) /\ (step \in Writing => SlotState = "raw_empty")
    BY <1>2 DEF BeginPublish, Publish, Die, Attach, LookAtSlot, AcquireLock, ReadInput,
       Authorize, ScanSlot, Confirm, Release, Refuse, Proceed, Leave, Writing
  <2>2. UNCHANGED <<slotFiles, runFiles>>
    BY <1>2 DEF BeginPublish, Publish, Die, Attach, LookAtSlot, AcquireLock, ReadInput,
       Authorize, ScanSlot, Confirm, Release
  <2>3. SlotState = "publication_uncertain" /\ SomeoneWrites' => SomeoneWrites
    BY <2>1 DEF SomeoneWrites, Goto, IInv, TypeOK, Command
  <2>4. QED
    BY <2>2, <2>3, QuietStep
<1>3. QED
  BY <1>1, <1>2

LEMMA CollectorStep ==
    ASSUME IInv, NEW c \in Collector, BeginHarvest(c) \/ Harvest(c) \/ Die(c)
    PROVE  [Once!Next]_(Once!vars)
<1> USE DEF runFiles
<1>1. UNCHANGED <<slotFiles, open>>
  BY DEF BeginHarvest, Harvest, AcquireLock, LoadDecision, ScanRaw, InspectSource, PublishIntent,
     AcceptCopy, Validate, Observe, Release, Die
<1>2. SomeoneWrites' => SomeoneWrites
  <2>1. PICK step : Goto(c, step)
    BY DEF BeginHarvest, Harvest, AcquireLock, LoadDecision, ScanRaw, InspectSource,
       PublishIntent, AcceptCopy, Validate, Observe, Release, Die, Refuse, Proceed, Leave, Done,
       Mishap
  <2>2. c \notin Publisher /\ pc \in [Command -> Step]
    BY CommandsAreApart DEF IInv, TypeOK
  <2>3. QED
    BY <2>1, <2>2 DEF SomeoneWrites, Goto, Command
<1>3. CASE Observe(c)
  <2>1. c \in Command /\ pc[c] \in Locked /\ pc[c] \in Deciding
    BY <1>3 DEF Observe, Command, Locked, Deciding
  <2>2. /\ SlotState = "raw_committed" /\ verdict = "uncertain" /\ judged = payload /\ open
        /\ judged' = judged
    BY <1>3, <2>1, Holder DEF Observe, DecisionFits
  <2>3. Standing = payload /\ payload \in Report /\ Standing' = Standing
    BY <1>1, <2>2, SlotStates DEF slotFiles, SlotState, Standing
  <2>4. Decision = Undecided /\ verdict' \in {"uncertain", "harvested", "rejected"}
    BY <1>3, <2>2 DEF Observe, Decision
  <2>5. CASE verdict' = "uncertain"
    BY <1>1, <2>3, <2>4, <2>5 DEF Decision, Once!vars
  <2>6. CASE verdict' # "uncertain"
    <3>1. Decision' = <<verdict', Standing>> /\ verdict' \in {"harvested", "rejected"}
      BY <2>2, <2>3, <2>4, <2>6 DEF Decision
    <3>2. QED
      BY <1>1, <2>2, <2>3, <2>4, <3>1 DEF Once!Next, Once!Decide, Once!Disposition
  <2>7. QED
    BY <2>5, <2>6
<1>4. CASE ~Observe(c)
  <2>1. Decision' = Decision
    <3>1. CASE PublishIntent(c)
      <4>1. verdict = "none"
        BY <3>1, Holder DEF PublishIntent, DecisionFits, Command, Locked, Deciding
      <4>2. QED
        BY <3>1, <4>1 DEF PublishIntent, Decision
    <3>2. CASE ~PublishIntent(c)
      BY <1>4, <3>2 DEF BeginHarvest, Harvest, AcquireLock, LoadDecision, ScanRaw, InspectSource,
         AcceptCopy, Validate, Release, Die, Decision
    <3>3. QED
      BY <3>1, <3>2
  <2>2. QED
    BY <1>1, <1>2, <2>1, QuietStep
<1>5. QED
  BY <1>3, <1>4

\* Whatever fails, dies or comes too late, the slot takes one report, residue
\* is never adopted, the run decides once about the sealed report, and nothing
\* follows the archive (scanRawReportSlot, the second cliAuthority, observedRetry).
THEOREM SlotImplementsReportOnce == Spec => ImplementsReportOnce
<1>1. Init => Once!Init
  BY DEF Init, Once!Init, Standing, Decision, SlotState, Undecided
<1>2. IInv /\ [Next]_vars => [Once!Next]_(Once!vars)
  <2> SUFFICES ASSUME IInv, [Next]_vars PROVE [Once!Next]_(Once!vars)
    OBVIOUS
  <2>1. CASE UNCHANGED vars
    BY <2>1 DEF vars, slotFiles, runFiles, Once!vars, Standing, Decision, SlotState
  <2>2. CASE Archive
    <3>1. Standing' = Standing /\ Decision' = Decision /\ open /\ open' = FALSE
      BY <2>2 DEF Archive, Loads, slotFiles, Standing, Decision, SlotState
    <3>2. QED
      BY <3>1 DEF Once!Next, Once!Close
  <2>3. QED
    BY <2>1, <2>2, PublisherStep, CollectorStep DEF Next
<1>3. QED
  BY <1>1, <1>2, InitInv, NextInv, PTL DEF Spec, ImplementsReportOnce, Once!Spec
=============================================================================
