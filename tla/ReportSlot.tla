----------------------------- MODULE ReportSlot -----------------------------
(***************************************************************************)
(* The outbox slot of one task: publishers write a report into it one file *)
(* operation at a time (report-publisher.mjs), harvests read it and record *)
(* a decision in the run's journal (report-harvest.mjs), and stand-down    *)
(* archives the run.  All of them work under the repository lock; a        *)
(* publisher takes it before it reads its report from standard input, and  *)
(* looks at the run and at the slot once before that.  A file operation    *)
(* may fail before, in the middle or after its effect, which ends the      *)
(* command, and a command may die, which leaves the lock behind.           *)
(*                                                                         *)
(* The journaled operation of the decision is here begun, and recorded or  *)
(* left uncertain; OperationJournal has its steps.                         *)
(***************************************************************************)
EXTENDS Naturals, FiniteSets

CONSTANTS
    Publisher,    \* the publisher commands of the task's agent
    Collector,    \* the harvest commands
    Report,       \* the reports the agent may send
    NoFile, Torn, \* no file, and one that was not completely written
    Free,         \* the lock when nobody has it
    MishapLimit   \* how many file operations fail and commands die

ASSUME SlotLimits == MishapLimit \in Nat
ASSUME CommandsAreApart == Publisher \cap Collector = {} /\ Free \notin Publisher \cup Collector
ASSUME ReportsAreWhole == NoFile \notin Report /\ Torn \notin Report /\ NoFile # Torn

Command == Publisher \cup Collector

File == Report \cup {NoFile, Torn}

VARIABLES
    guard,     \* .publishing.json is in the slot
    staging,   \* the publishers whose payload.part- file is in the slot
    payload,   \* report.json
    marker,    \* COMMITTED.json, named by the report it binds
    accepted,  \* the accepted copy in the run's reports directory
    verdict,   \* the journal's entry about this report
    judged,    \* the report the entry names
    open,      \* the run is active
    lock,
    pc,        \* pc[c]: the next step of command c
    content,   \* content[c]: the report c is sent, or read from the slot
    ends,      \* ends[p]: the input of publisher p reaches its end
    answer,    \* history: answer[c]: what c returned last, and its report
    mishaps

slotFiles == <<guard, staging, payload, marker>>
runFiles == <<accepted, verdict, judged, open>>
input == <<content, ends>>
vars == <<slotFiles, runFiles, lock, pc, input, answer, mishaps>>

Writing == {"guard", "staging", "payload", "marker", "unlinkStaging", "unlinkGuard", "confirm"}
Deciding == {"intentHarvest", "accept", "validate", "observeHarvest", "intentReject",
             "observeReject"}
Locked == {"read", "authorize", "scan", "load", "raw", "inspect", "release", "dead"}
              \cup Writing \cup Deciding
Step == {"idle", "attach", "look", "lock"} \cup Locked

Nothing == <<"none", NoFile>>
Error == <<"error", NoFile>>
Answer == {Nothing, Error} \cup ({"published", "harvested", "rejected"} \X Report)

Init ==
    /\ guard = FALSE /\ staging = {} /\ payload = NoFile /\ marker = NoFile
    /\ accepted = NoFile /\ verdict = "none" /\ judged = NoFile /\ open = TRUE
    /\ lock = Free
    /\ pc = [c \in Command |-> "idle"]
    /\ content = [c \in Command |-> NoFile]
    /\ ends = [p \in Publisher |-> TRUE]
    /\ answer = [c \in Command |-> Nothing]
    /\ mishaps = 0

\* scanRawReportSlot: an unfinished publication outranks what else is there.
SlotState ==
    IF guard \/ staging # {} THEN "publication_uncertain"
    ELSE IF payload = NoFile /\ marker = NoFile THEN "raw_empty"
    ELSE IF payload \in Report /\ marker = payload THEN "raw_committed"
    ELSE "publication_uncertain"

\* loadActiveRun of a run whose journal has no uncertain entry.
Loads == open /\ verdict # "uncertain"

Goto(c, step) == pc' = [pc EXCEPT ![c] = step]

\* Every error of a command that has the lock ends in its finally.
Leave(c, what) == Goto(c, "release") /\ answer' = [answer EXCEPT ![c] = what]

\* A command that ends forgets its input.
Forget(c) ==
    /\ content' = [content EXCEPT ![c] = NoFile]
    /\ ends' = [p \in Publisher |-> p = c \/ ends[p]]

\* An error before the lock.
Refuse(c) == Goto(c, "idle") /\ answer' = [answer EXCEPT ![c] = Error] /\ Forget(c)

\* On to the next step.
Proceed(c, step) == Goto(c, step) /\ UNCHANGED <<answer, input>>

\* The outcome of a file operation that failed: the command ends or dies.
Mishap(c) ==
    /\ mishaps < MishapLimit
    /\ mishaps' = mishaps + 1
    /\ answer' = [answer EXCEPT ![c] = Error]
    /\ \E end \in {"release", "dead"} : Goto(c, end)

Done(c, to) == Goto(c, to) /\ UNCHANGED <<answer, mishaps>>

-----------------------------------------------------------------------------
(* The publisher (publishReportFromCliStdin and publishReportFromStdin).    *)

BeginPublish(p) ==
    /\ pc[p] = "idle"
    /\ \E r \in Report, e \in BOOLEAN :
          content' = [content EXCEPT ![p] = r] /\ ends' = [ends EXCEPT ![p] = e]
    /\ Goto(p, "attach")
    /\ answer' = [answer EXCEPT ![p] = Nothing]
    /\ UNCHANGED <<slotFiles, runFiles, lock, mishaps>>

\* cliAuthority for the first time, without the lock.
Attach(p) ==
    /\ pc[p] = "attach"
    /\ \/ Loads /\ Proceed(p, "look")
       \/ ~Loads /\ Refuse(p)
    /\ UNCHANGED <<slotFiles, runFiles, lock, mishaps>>

\* A committed slot does not refuse here: its report is compared later.
LookAtSlot(p) ==
    /\ pc[p] = "look"
    /\ \/ SlotState # "publication_uncertain" /\ Proceed(p, "lock")
       \/ SlotState = "publication_uncertain" /\ Refuse(p)
    /\ UNCHANGED <<slotFiles, runFiles, lock, mishaps>>

\* A lock of anybody, alive or dead, refuses.
AcquireLock(c) ==
    /\ pc[c] = "lock"
    /\ \/ lock = Free /\ lock' = c /\ Proceed(c, IF c \in Publisher THEN "read" ELSE "load")
       \/ lock # Free /\ Refuse(c) /\ UNCHANGED lock
    /\ UNCHANGED <<slotFiles, runFiles, mishaps>>

(* Faulty variants of the steps below, for mutation testing. *)

\* An error of the input leaves the command before its finally.
FaultyReadInput(p) ==
    /\ pc[p] = "read" /\ ends[p]
    /\ \/ Proceed(p, "authorize")
       \/ Refuse(p)
    /\ UNCHANGED <<slotFiles, runFiles, lock, mishaps>>

\* The authority found before the lock is used.
FaultyAuthorize(p) ==
    /\ pc[p] = "authorize"
    /\ Proceed(p, "scan")
    /\ UNCHANGED <<slotFiles, runFiles, lock, mishaps>>

\* Only the residue of another publication refuses.
FaultyScanSlot(p) ==
    /\ pc[p] = "scan"
    /\ \/ SlotState # "publication_uncertain" /\ Goto(p, "guard") /\ UNCHANGED answer
       \/ SlotState = "publication_uncertain" /\ Leave(p, Error)
    /\ UNCHANGED <<slotFiles, runFiles, lock, input, mishaps>>

\* Whatever is in report.json is taken for the report.
FaultyScanRaw(c) ==
    /\ pc[c] = "raw"
    /\ content' = [content EXCEPT ![c] = payload]
    /\ Goto(c, "inspect")
    /\ UNCHANGED <<slotFiles, runFiles, lock, ends, answer, mishaps>>

\* Standard input is read to its end, however long that takes; a broken stream
\* or too large a report is an error.
ReadInput(p) ==
    /\ pc[p] = "read" /\ ends[p]
    /\ \/ Goto(p, "authorize") /\ UNCHANGED answer
       \/ Leave(p, Error)
    /\ UNCHANGED <<slotFiles, runFiles, lock, input, mishaps>>

\* cliAuthority again, now under the lock; then the input must be a canonical
\* report of the task.
Authorize(p) ==
    /\ pc[p] = "authorize"
    /\ \/ Loads /\ Goto(p, "scan") /\ UNCHANGED answer
       \/ Leave(p, Error)
    /\ UNCHANGED <<slotFiles, runFiles, lock, input, mishaps>>

\* replay_refused, equivocal_report and recovery_required.
ScanSlot(p) ==
    /\ pc[p] = "scan"
    /\ \/ SlotState = "raw_empty" /\ Goto(p, "guard") /\ UNCHANGED answer
       \/ SlotState # "raw_empty" /\ Leave(p, Error)
    /\ UNCHANGED <<slotFiles, runFiles, lock, input, mishaps>>

WriteGuard(p) ==
    /\ pc[p] = "guard"
    /\ \/ ~guard /\ guard' = TRUE /\ Done(p, "staging")
       \/ guard' \in {guard, TRUE} /\ Mishap(p)
    /\ UNCHANGED <<staging, payload, marker, runFiles, lock, input>>

WriteStaging(p) ==
    /\ pc[p] = "staging"
    /\ \/ staging' = staging \cup {p} /\ Done(p, "payload")
       \/ staging' \in {staging, staging \cup {p}} /\ Mishap(p)
    /\ UNCHANGED <<guard, payload, marker, runFiles, lock, input>>

\* publishExclusivePrivateBytes refuses a file that is there already.
WritePayload(p) ==
    /\ pc[p] = "payload"
    /\ \/ payload = NoFile /\ payload' = content[p] /\ Done(p, "marker")
       \/ payload = NoFile /\ payload' \in {NoFile, Torn, content[p]} /\ Mishap(p)
       \/ payload # NoFile /\ Leave(p, Error) /\ UNCHANGED <<payload, mishaps>>
    /\ UNCHANGED <<guard, staging, marker, runFiles, lock, input>>

WriteMarker(p) ==
    /\ pc[p] = "marker"
    /\ \/ marker = NoFile /\ marker' = content[p] /\ Done(p, "unlinkStaging")
       \/ marker = NoFile /\ marker' \in {NoFile, Torn, content[p]} /\ Mishap(p)
       \/ marker # NoFile /\ Leave(p, Error) /\ UNCHANGED <<marker, mishaps>>
    /\ UNCHANGED <<guard, staging, payload, runFiles, lock, input>>

UnlinkStaging(p) ==
    /\ pc[p] = "unlinkStaging"
    /\ \/ staging' = staging \ {p} /\ Done(p, "unlinkGuard")
       \/ staging' \in {staging, staging \ {p}} /\ Mishap(p)
    /\ UNCHANGED <<guard, payload, marker, runFiles, lock, input>>

\* With this the report is committed, whatever the publisher still answers.
UnlinkGuard(p) ==
    /\ pc[p] = "unlinkGuard"
    /\ \/ guard' = FALSE /\ Done(p, "confirm")
       \/ guard' \in {guard, FALSE} /\ Mishap(p)
    /\ UNCHANGED <<staging, payload, marker, runFiles, lock, input>>

Confirm(p) ==
    /\ pc[p] = "confirm"
    /\ Leave(p, IF SlotState = "raw_committed" THEN <<"published", content[p]>> ELSE Error)
    /\ UNCHANGED <<slotFiles, runFiles, lock, input, mishaps>>

-----------------------------------------------------------------------------
(* The harvest of the report (harvestCommittedReport, under the lock).      *)

BeginHarvest(c) ==
    /\ pc[c] = "idle"
    /\ Goto(c, "lock")
    /\ answer' = [answer EXCEPT ![c] = Nothing]
    /\ UNCHANGED <<slotFiles, runFiles, lock, input, mishaps>>

\* loadActiveRun, and observedRetry of a decision made before.
LoadDecision(c) ==
    /\ pc[c] = "load"
    /\ \/ ~Loads /\ Leave(c, Error)
       \/ Loads /\ verdict # "none" /\ Leave(c, <<verdict, judged>>)
       \/ Loads /\ verdict = "none" /\ Goto(c, "raw") /\ UNCHANGED answer
    /\ UNCHANGED <<slotFiles, runFiles, lock, input, mishaps>>

ScanRaw(c) ==
    /\ pc[c] = "raw"
    /\ \/ /\ SlotState = "raw_committed"
          /\ content' = [content EXCEPT ![c] = payload]
          /\ Goto(c, "inspect") /\ UNCHANGED answer
       \/ SlotState # "raw_committed" /\ Leave(c, Error) /\ UNCHANGED content
    /\ UNCHANGED <<slotFiles, runFiles, lock, ends, mishaps>>

\* The source holds, fails the task's policy for good, or cannot be observed.
InspectSource(c) ==
    /\ pc[c] = "inspect"
    /\ \/ \E step \in {"intentHarvest", "intentReject"} : Goto(c, step) /\ UNCHANGED answer
       \/ Leave(c, Error)
    /\ UNCHANGED <<slotFiles, runFiles, lock, input, mishaps>>

PublishIntent(c) ==
    /\ pc[c] \in {"intentHarvest", "intentReject"}
    /\ \/ /\ verdict' = "uncertain" /\ judged' = content[c]
          /\ Done(c, IF pc[c] = "intentHarvest" THEN "accept" ELSE "observeReject")
       \/ /\ \/ verdict' = "uncertain" /\ judged' = content[c]
             \/ UNCHANGED <<verdict, judged>>
          /\ Mishap(c)
    /\ UNCHANGED <<slotFiles, accepted, open, lock, input>>

AcceptCopy(c) ==
    /\ pc[c] = "accept"
    /\ \/ accepted = NoFile /\ accepted' = content[c] /\ Done(c, "validate")
       \/ accepted = NoFile /\ accepted' \in {NoFile, Torn, content[c]} /\ Mishap(c)
       \/ accepted # NoFile /\ Leave(c, Error) /\ UNCHANGED <<accepted, mishaps>>
    /\ UNCHANGED <<slotFiles, verdict, judged, open, lock, input>>

\* The slot is scanned again and the source inspected again.
Validate(c) ==
    /\ pc[c] = "validate"
    /\ \/ /\ SlotState = "raw_committed" /\ payload = content[c] /\ accepted = content[c]
          /\ Goto(c, "observeHarvest") /\ UNCHANGED answer
       \/ Leave(c, Error)
    /\ UNCHANGED <<slotFiles, runFiles, lock, input, mishaps>>

\* A terminal record whose publication failed is uncertain as long as its
\* guard is left.
Observe(c) ==
    /\ pc[c] \in {"observeHarvest", "observeReject"}
    /\ LET disposition == IF pc[c] = "observeHarvest" THEN "harvested" ELSE "rejected" IN
       \/ /\ verdict' = disposition
          /\ Leave(c, <<disposition, judged>>) /\ UNCHANGED mishaps
       \/ verdict' \in {"uncertain", disposition} /\ Mishap(c)
    /\ UNCHANGED <<slotFiles, accepted, judged, open, lock, input>>

-----------------------------------------------------------------------------
\* Stand-down, as one step: it needs the lock and a certain journal.
Archive ==
    /\ lock = Free /\ Loads
    /\ open' = FALSE
    /\ UNCHANGED <<slotFiles, accepted, verdict, judged, lock, pc, content, ends, answer,
                   mishaps>>

Release(c) ==
    /\ pc[c] = "release"
    /\ lock' = Free
    /\ Goto(c, "idle")
    /\ Forget(c)
    /\ UNCHANGED <<slotFiles, runFiles, answer, mishaps>>

Die(c) ==
    /\ lock = c /\ pc[c] # "dead"
    /\ mishaps < MishapLimit
    /\ Goto(c, "dead")
    /\ mishaps' = mishaps + 1
    /\ UNCHANGED <<slotFiles, runFiles, lock, input, answer>>

Publish(p) ==
    \/ Attach(p) \/ LookAtSlot(p) \/ AcquireLock(p) \/ ReadInput(p) \/ Authorize(p)
    \/ ScanSlot(p) \/ WriteGuard(p) \/ WriteStaging(p) \/ WritePayload(p) \/ WriteMarker(p)
    \/ UnlinkStaging(p) \/ UnlinkGuard(p) \/ Confirm(p) \/ Release(p)

Harvest(c) ==
    \/ AcquireLock(c) \/ LoadDecision(c) \/ ScanRaw(c) \/ InspectSource(c)
    \/ PublishIntent(c) \/ AcceptCopy(c) \/ Validate(c) \/ Observe(c) \/ Release(c)

Next ==
    \/ \E p \in Publisher : BeginPublish(p) \/ Publish(p) \/ Die(p)
    \/ \E c \in Collector : BeginHarvest(c) \/ Harvest(c) \/ Die(c)
    \/ Archive

Spec == Init /\ [][Next]_vars

\* A command that runs goes on as long as its process lives: its calls are
\* bounded, except that of the input, which it reads when the input ends.
Fairness ==
    /\ \A p \in Publisher : WF_vars(Publish(p))
    /\ \A c \in Collector : WF_vars(Harvest(c))

FairSpec == Spec /\ Fairness

-----------------------------------------------------------------------------
(* Properties.                                                              *)

TypeOK ==
    /\ guard \in BOOLEAN /\ staging \subseteq Publisher
    /\ payload \in File /\ marker \in File /\ accepted \in File
    /\ verdict \in {"none", "uncertain", "harvested", "rejected"}
    /\ judged \in Report \cup {NoFile}
    /\ open \in BOOLEAN
    /\ lock \in Command \cup {Free}
    /\ pc \in [Command -> Step]
    /\ content \in [Command -> Report \cup {NoFile}]
    /\ ends \in [Publisher -> BOOLEAN]
    /\ answer \in [Command -> Answer]
    /\ mishaps \in 0 .. MishapLimit

\* What a command acknowledged is what the files hold, however the commands
\* interleave, fail and die: a publisher that succeeded finds its own report
\* committed, and a decision names the committed report, of which a harvest
\* has a whole accepted copy (scanRawReportSlot under the lock, the exclusive
\* writes, validateBeforeResultPublication).
TruthfulAnswers ==
    /\ \A p \in Publisher : answer[p][1] = "published" =>
          SlotState = "raw_committed" /\ payload = answer[p][2]
    /\ verdict \in {"harvested", "rejected"} =>
          SlotState = "raw_committed" /\ payload = judged
    /\ verdict = "harvested" => accepted = judged

\* The slot and the decision as ReportOnce has them.
Standing ==
    CASE SlotState = "raw_empty" -> NoFile
      [] SlotState = "raw_committed" -> payload
      [] OTHER -> IF \E p \in Publisher : pc[p] \in Writing THEN "writing" ELSE Torn

Undecided == <<"none", NoFile>>

Decision ==
    IF verdict \in {"harvested", "rejected"} THEN <<verdict, judged>> ELSE Undecided

Once == INSTANCE ReportOnce WITH
    Empty <- NoFile, Writing <- "writing", Spoiled <- Torn,
    slot <- Standing, decision <- Decision

\* A slot takes one report: a sealed one is never replaced, the residue of a
\* publisher that failed or died is never taken over or completed, the run
\* decides once, and nothing changes after it was archived.
ImplementsReportOnce == Once!Spec

\* A publisher whose input ends and a harvest give the repository lock back
\* unless they die with it, whatever fails (the finally of both commands).
LockGivenBack ==
    \A c \in Command :
        lock = c /\ (c \in Publisher => ends[c]) ~> lock # c \/ pc[c] = "dead"
=============================================================================
