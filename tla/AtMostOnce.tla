----------------------------- MODULE AtMostOnce -----------------------------
(***************************************************************************)
(* What the operation journal promises to the commands that use it: one    *)
(* operation at a time is in doubt, an effect happens at most once and     *)
(* only while its command is at work on it, and doubt ends in that         *)
(* command's truthful record or never.  Once it has given up or died,      *)
(* nobody but an apply that resolves a publication ends the doubt: by what *)
(* it reads off the target, which is the truth unless outsiders meddled.   *)
(***************************************************************************)
EXTENDS Naturals

CONSTANTS
    Operation,    \* operation ids
    Publication   \* those whose effect can be read back: apply.publish

VARIABLES
    outcome,   \* what is known of each operation
    effects,   \* how often its external effect has happened
    work,      \* what a command does about the operation in doubt
    meddled    \* publications whose target outsiders moved, so that it misleads

vars == <<outcome, effects, work, meddled>>

Init ==
    /\ outcome = [o \in Operation |-> "absent"]
    /\ effects = [o \in Operation |-> 0]
    /\ work = "none"
    /\ meddled = {}

\* Every step may be the last one of a command.
Continues(what) == work' \in {what, "none"}

\* A publication may find its target already at what it would publish.
Begin(o) ==
    /\ work = "none"
    /\ outcome[o] = "absent"
    /\ \A q \in Operation : outcome[q] # "in doubt"
    /\ outcome' = [outcome EXCEPT ![o] = "in doubt"]
    /\ meddled' \in {meddled, meddled \cup ({o} \cap Publication)}
    /\ Continues("performing")
    /\ UNCHANGED effects

Perform(o) ==
    /\ work = "performing" /\ outcome[o] = "in doubt"
    /\ effects[o] = 0
    /\ effects' = [effects EXCEPT ![o] = 1]
    /\ Continues(work)
    /\ UNCHANGED <<outcome, meddled>>

True(o, verdict) == verdict = IF effects[o] = 1 THEN "performed" ELSE "declined"

\* Its own command records what it did, meddled or not; only a publication may be
\* settled without its effect.  A later command settles only a publication.
Settle(o) ==
    /\ outcome[o] = "in doubt"
    /\ \E verdict \in {"performed", "declined"} :
          /\ outcome' = [outcome EXCEPT ![o] = verdict]
          /\ \/ /\ work = "performing" /\ True(o, verdict)
                /\ verdict = "declined" => o \in Publication
             \/ /\ work = "resolving" /\ o \in Publication
                /\ True(o, verdict) \/ o \in meddled
    /\ Continues(work)
    /\ UNCHANGED <<effects, meddled>>

Resolve(o) ==
    /\ work = "none" /\ outcome[o] = "in doubt" /\ o \in Publication
    /\ work' = "resolving"
    /\ UNCHANGED <<outcome, effects, meddled>>

\* Outsiders move the target of a publication in doubt.
Meddle(o) ==
    /\ outcome[o] = "in doubt" /\ o \in Publication
    /\ meddled' = meddled \cup {o}
    /\ UNCHANGED <<outcome, effects, work>>

\* The command ends, gives up or dies.
Abandon ==
    /\ work' = "none"
    /\ UNCHANGED <<outcome, effects, meddled>>

Next ==
    \/ Abandon
    \/ \E o \in Operation : Begin(o) \/ Perform(o) \/ Settle(o) \/ Resolve(o) \/ Meddle(o)

Spec == Init /\ [][Next]_vars
=============================================================================
