----------------------------- MODULE RuleRemoval -----------------------------
(***************************************************************************)
(* Rule Removal and Rule Replacement of one Sync Rule.                     *)
(*                                                                         *)
(* A removal deletes the projection of every Event Mapping, committing one *)
(* mapping at a time, or keeps them all as Detached Events in one          *)
(* transaction, and then deletes the rule.  It holds the rule's for_rule   *)
(* lock, which a Sync Run of the rule holds as well.  It retries           *)
(* temporary failures, is interrupted by all others, and may be asked for  *)
(* again with either handling.  A replacement first reserves a Draft and   *)
(* then removes the old rule.                                              *)
(*                                                                         *)
(* The destination calendar is kept by Google.  People delete projections  *)
(* or strip what proves whose they are; they do not restore deleted ones.  *)
(***************************************************************************)
EXTENDS Naturals, FiniteSets

CONSTANTS
  Events,         \* source events the rule may have projected
  Requests,       \* request threads of the administrator
  RetryAttempts,  \* attempts of one deletion
  MaxRequests,    \* bound: removals and replacements asked for
  MaxFaults,      \* bound: provider failures and process crashes
  MaxEdits,       \* bound: changes by people, and of the account's authorization
  None

Run == "run"

ASSUME RemovalAssumption ==
  /\ RetryAttempts \in Nat \ {0}
  /\ MaxRequests \in Nat /\ MaxFaults \in Nat /\ MaxEdits \in Nat
  /\ IsFiniteSet(Events)
  /\ None \notin Events \cup Requests
  /\ Run \notin Requests /\ Run # None

VARIABLES
  rule,        \* "active" stands for every state before REMOVING
  mapped,      \* the events with an Event Mapping
  projection,  \* the event's projection in the destination calendar
  ledger,      \* the audit entry of what the removal did with its mapping
  incident,    \* the Incident of a removal that lost its authorization
  connected,   \* whether the destination account is connected
  lock,        \* holder of the rule's for_rule lock
  run,         \* a Sync Run of the rule: an event it created and did not yet map
  req,         \* what each request does and how far it is
  draft,       \* the replacement that was reserved
  draftUsed,   \* whether a run of the draft has mapped projections
  left         \* what may still happen: requests, faults, edits

records == <<rule, mapped, ledger>>
drafts == <<draft, draftUsed>>
vars == <<records, projection, incident, connected, lock, run, req, drafts, left>>

Tries == 0..(RetryAttempts - 1)
Handlings == {"delete", "detach"}
Stages == {"idle", "creating", "locking", "marking", "removing", "recording", "interrupted",
           "withdrawing"}
Idle == [at |-> "idle", handling |-> "delete", replacing |-> FALSE, todo |-> {}, total |-> 0,
         done |-> 0, tries |-> 0, event |-> None, outcome |-> None]

TypeOK ==
  /\ rule \in {"active", "removing", "removed"}
  /\ mapped \subseteq Events
  /\ projection \in [Events -> {"absent", "owned", "foreign", "deleted"}]
  /\ ledger \in [Events -> {None, "deleted", "detached", "conflict"}]
  /\ incident \in {"none", "open", "resolved"}
  /\ connected \in BOOLEAN
  /\ lock \in Requests \cup {Run, None}
  /\ run \in Events \cup {None}
  /\ req \in [Requests -> [at : Stages, handling : Handlings, replacing : BOOLEAN,
                           todo : SUBSET Events, total : Nat, done : Nat, tries : Tries,
                           event : Events \cup {None}, outcome : {None, "deleted", "conflict"}]]
  /\ draft \in {"none", "draft", "enabled"}
  /\ draftUsed \in BOOLEAN
  /\ left \in [requests : Nat, faults : Nat, edits : Nat]

Init ==
  /\ rule = "active"
  /\ mapped \in SUBSET Events
  /\ projection = [e \in Events |-> IF e \in mapped THEN "owned" ELSE "absent"]
  /\ ledger = [e \in Events |-> None]
  /\ incident = "none" /\ connected = TRUE
  /\ lock = None /\ run = None
  /\ req = [q \in Requests |-> Idle]
  /\ draft = "none" /\ draftUsed = FALSE
  /\ left = [requests |-> MaxRequests, faults |-> MaxFaults, edits |-> MaxEdits]

Spend(what) == left[what] > 0 /\ left' = [left EXCEPT ![what] = @ - 1]

-----------------------------------------------------------------------------
(***************************************************************************)
(* Sync Runs of the rule, as far as a removal can see them, and people.    *)
(***************************************************************************)
\* Mutant: a run does not look at the rule's state.
StartRunAnyState ==
  /\ lock = None
  /\ lock' = Run
  /\ UNCHANGED <<records, projection, incident, connected, run, req, drafts, left>>

StartRun ==
  /\ lock = None /\ rule = "active"
  /\ lock' = Run
  /\ UNCHANGED <<records, projection, incident, connected, run, req, drafts, left>>

\* A projection is created, or one whose mapping was lost is found by its Operation Key.
RunCreate(e) ==
  /\ lock = Run /\ run = None /\ connected
  /\ e \notin mapped /\ projection[e] \in {"absent", "owned"}
  /\ projection' = [projection EXCEPT ![e] = "owned"]
  /\ run' = e
  /\ UNCHANGED <<records, incident, connected, lock, req, drafts, left>>

RunRecord ==
  /\ lock = Run /\ run # None
  /\ mapped' = mapped \cup {run}
  /\ run' = None
  /\ UNCHANGED <<rule, ledger, projection, incident, connected, lock, req, drafts, left>>

\* The run ends, or fails between a create and the commit of its mapping.
EndRun ==
  /\ lock = Run
  /\ \/ run = None /\ UNCHANGED left
     \/ Spend("faults")
  /\ lock' = None /\ run' = None
  /\ UNCHANGED <<records, projection, incident, connected, req, drafts>>

PersonEdits(e) ==
  /\ Spend("edits")
  /\ projection[e] = "owned"
  /\ \E how \in {"foreign", "deleted"} : projection' = [projection EXCEPT ![e] = how]
  /\ UNCHANGED <<records, incident, connected, lock, run, req, drafts>>

AccountChanges ==
  /\ Spend("edits")
  /\ connected' = ~connected
  /\ UNCHANGED <<records, projection, incident, lock, run, req, drafts>>

-----------------------------------------------------------------------------
(***************************************************************************)
(* Asking for a removal or a replacement.                                  *)
(***************************************************************************)
Possible(handling) == rule # "removed" /\ (handling = "delete" => connected)

Goto(q, stage) == req' = [req EXCEPT ![q].at = stage]

Ask(q, handling, replacing, stage) ==
  /\ req[q].at = "idle" /\ Spend("requests")
  /\ req' = [req EXCEPT ![q] = [Idle EXCEPT !.at = stage, !.handling = handling,
                                            !.replacing = replacing]]
  /\ UNCHANGED <<records, projection, incident, connected, lock, run, drafts>>

Remove(q, handling) == Ask(q, handling, FALSE, "locking")

\* What cannot succeed is refused before anything is created.
Replace(q, handling) ==
  /\ Possible(handling) /\ draft = "none"
  /\ Ask(q, handling, TRUE, "creating")

\* Mutant: the Draft is not reserved, only looked for.
CreateDraftLate(q) ==
  /\ req[q].at = "creating" /\ draft = "none"
  /\ Goto(q, "locking")
  /\ UNCHANGED <<records, projection, incident, connected, lock, run, drafts, left>>

\* The relationship is unique: the second of two equal replacements fails here.
CreateDraft(q) ==
  /\ req[q].at = "creating" /\ draft = "none"
  /\ draft' = "draft" /\ Goto(q, "locking")
  /\ UNCHANGED <<records, projection, incident, connected, lock, run, draftUsed, left>>

DuplicateDraft(q) ==
  /\ req[q].at = "creating" /\ draft # "none"
  /\ req' = [req EXCEPT ![q] = Idle]
  /\ UNCHANGED <<records, projection, incident, connected, lock, run, drafts, left>>

\* The Draft is a rule like any other: it may be previewed, enabled and run.
EnableDraft ==
  /\ draft = "draft"
  /\ draft' = "enabled"
  /\ UNCHANGED <<records, projection, incident, connected, lock, run, req, draftUsed, left>>

RunDraft ==
  /\ draft = "enabled" /\ connected
  /\ draftUsed' = TRUE
  /\ UNCHANGED <<records, projection, incident, connected, lock, run, req, draft, left>>

WithdrawDraft(q) ==
  /\ req[q].at = "withdrawing"
  /\ draft' = "none" /\ draftUsed' = FALSE
  /\ req' = [req EXCEPT ![q] = Idle]
  /\ UNCHANGED <<records, projection, incident, connected, lock, run, left>>

-----------------------------------------------------------------------------
(***************************************************************************)
(* Removing the rule.                                                      *)
(***************************************************************************)
TakeLock(q) ==
  /\ req[q].at = "locking" /\ lock = None
  /\ lock' = q /\ Goto(q, "marking")
  /\ UNCHANGED <<records, projection, incident, connected, run, drafts, left>>

Mark(q) ==
  /\ req[q].at = "marking" /\ Possible(req[q].handling)
  /\ rule' = "removing"
  /\ req' = [req EXCEPT ![q].at = "removing", ![q].todo = mapped, ![q].total = Cardinality(mapped)]
  /\ UNCHANGED <<mapped, ledger, projection, incident, connected, lock, run, drafts, left>>

\* Another request removed the rule, or the account was disconnected, meanwhile.
Refuse(q) ==
  /\ req[q].at = "marking" /\ ~Possible(req[q].handling)
  /\ lock' = None
  /\ req' = [req EXCEPT ![q] = IF req[q].replacing THEN [Idle EXCEPT !.at = "withdrawing"] ELSE Idle]
  /\ UNCHANGED <<records, projection, incident, connected, run, drafts, left>>

Deleting(q, e) ==
  req[q].at = "removing" /\ req[q].handling = "delete" /\ e \in req[q].todo

Decide(q, e, outcome) ==
  req' = [req EXCEPT ![q].at = "recording", ![q].event = e, ![q].outcome = outcome, ![q].tries = 0]

\* A projection that is gone already needs no deletion; one not provably the rule's is left.
DeleteProjection(q, e) ==
  /\ Deleting(q, e) /\ connected
  /\ projection' = [projection EXCEPT ![e] = IF @ = "owned" THEN "deleted" ELSE @]
  /\ Decide(q, e, IF projection[e] = "foreign" THEN "conflict" ELSE "deleted")
  /\ UNCHANGED <<records, incident, connected, lock, run, drafts, left>>

\* Mutant: a projection that cannot be deleted is skipped like a conflict.
TemporaryFailureSkipped(q, e) ==
  /\ Deleting(q, e) /\ connected /\ Spend("faults")
  /\ UNCHANGED projection
  /\ IF req[q].tries + 1 < RetryAttempts
     THEN req' = [req EXCEPT ![q].tries = @ + 1]
     ELSE Decide(q, e, "conflict")
  /\ UNCHANGED <<records, incident, connected, lock, run, drafts>>

\* A temporary failure, of a request Google may have carried out, is retried; the last is not.
TemporaryFailure(q, e) ==
  /\ Deleting(q, e) /\ connected /\ Spend("faults")
  /\ \/ UNCHANGED projection
     \/ projection[e] = "owned" /\ projection' = [projection EXCEPT ![e] = "deleted"]
  /\ IF req[q].tries + 1 < RetryAttempts
     THEN req' = [req EXCEPT ![q].tries = @ + 1]
     ELSE Goto(q, "interrupted")
  /\ UNCHANGED <<records, incident, connected, lock, run, drafts>>

\* Every other failure is raised at once, whatever attempt it meets, and opens no Incident.
PermanentFailure(q, e) ==
  /\ Deleting(q, e) /\ connected /\ Spend("faults")
  /\ Goto(q, "interrupted")
  /\ UNCHANGED <<records, projection, incident, connected, lock, run, drafts>>

LoseAuthorization(q, e) ==
  /\ Deleting(q, e)
  /\ \/ ~connected /\ UNCHANGED left
     \/ Spend("faults")
  /\ incident' = "open"
  /\ Goto(q, "interrupted")
  /\ UNCHANGED <<records, projection, connected, lock, run, drafts>>

\* Mutant: the deletions are only committed together, at the end.
RecordWithoutCommit(q) ==
  /\ req[q].at = "recording"
  /\ req' = [req EXCEPT ![q].at = "removing", ![q].todo = @ \ {req[q].event},
                        ![q].done = @ + 1, ![q].event = None, ![q].outcome = None]
  /\ UNCHANGED <<records, projection, incident, connected, lock, run, drafts, left>>

Record(q) ==
  /\ req[q].at = "recording"
  /\ mapped' = mapped \ {req[q].event}
  /\ ledger' = [ledger EXCEPT ![req[q].event] = req[q].outcome]
  /\ req' = [req EXCEPT ![q].at = "removing", ![q].todo = @ \ {req[q].event},
                        ![q].done = @ + 1, ![q].event = None, ![q].outcome = None]
  /\ UNCHANGED <<rule, projection, incident, connected, lock, run, drafts, left>>

\* Mutant: the rule is deleted and its Incident stays open.
FinishOpen(q) ==
  /\ req[q].at = "removing" /\ (req[q].handling = "delete" => req[q].todo = {})
  /\ rule' = "removed" /\ mapped' = {}
  /\ ledger' = [e \in Events |-> IF e \in req[q].todo THEN "detached" ELSE ledger[e]]
  /\ lock' = None
  /\ req' = [req EXCEPT ![q] = Idle]
  /\ UNCHANGED <<projection, incident, connected, run, drafts, left>>

\* What is left is detached, and the rule deleted with its Incident, in one transaction.
Finish(q) ==
  /\ req[q].at = "removing" /\ (req[q].handling = "delete" => req[q].todo = {})
  /\ rule' = "removed" /\ mapped' = {}
  /\ ledger' = [e \in Events |-> IF e \in req[q].todo THEN "detached" ELSE ledger[e]]
  /\ incident' = IF incident = "open" THEN "resolved" ELSE incident
  /\ lock' = None
  /\ req' = [req EXCEPT ![q] = Idle]
  /\ UNCHANGED <<projection, connected, run, drafts, left>>

\* Mutant: the lock of an interrupted removal stays held.
InterruptHolding(q) ==
  /\ req[q].at = "interrupted"
  /\ req' = [req EXCEPT ![q] = Idle]
  /\ UNCHANGED <<records, projection, incident, connected, lock, run, drafts, left>>

\* The failure leaves the with-statements; a replacement keeps its Draft.
Interrupt(q) ==
  /\ req[q].at = "interrupted"
  /\ lock' = None
  /\ req' = [req EXCEPT ![q] = Idle]
  /\ UNCHANGED <<records, projection, incident, connected, run, drafts, left>>

\* The process ends: what was not committed is lost, locks with it.
Crash ==
  /\ Spend("faults")
  /\ lock' = None /\ run' = None
  /\ req' = [q \in Requests |-> Idle]
  /\ UNCHANGED <<records, projection, incident, connected, drafts>>

Removing(q) ==
  \/ CreateDraft(q) \/ DuplicateDraft(q) \/ WithdrawDraft(q)
  \/ TakeLock(q) \/ Mark(q) \/ Refuse(q)
  \/ \E e \in Events : DeleteProjection(q, e)
  \/ Record(q) \/ Finish(q) \/ Interrupt(q)

Failing(q) ==
  \E e \in Events :
    TemporaryFailure(q, e) \/ PermanentFailure(q, e) \/ LoseAuthorization(q, e)

Next ==
  \/ StartRun \/ RunRecord \/ EndRun
  \/ \E e \in Events : RunCreate(e) \/ PersonEdits(e)
  \/ AccountChanges \/ EnableDraft \/ RunDraft \/ Crash
  \/ \E q \in Requests :
       \/ \E handling \in Handlings : Remove(q, handling) \/ Replace(q, handling)
       \/ Removing(q) \/ Failing(q)

Spec == Init /\ [][Next]_vars

\* Requests and runs keep going; the provider answers, one way or the other.
FairSpec ==
  /\ Spec
  /\ WF_vars(RunRecord \/ EndRun)
  /\ \A q \in Requests :
       /\ SF_vars(TakeLock(q))
       /\ WF_vars(Removing(q) \/ Failing(q))

-----------------------------------------------------------------------------
(***************************************************************************)
(* A mapping is only given up when its projection is gone, was left        *)
(* because it is not provably the rule's, or is kept as a Detached Event   *)
(* and recorded as one: whatever fails, no removal abandons a projection.  *)
(***************************************************************************)
NothingAbandoned ==
  [][\A e \in mapped \ mapped' : projection[e] = "owned" => ledger'[e] = "detached"]_vars

(***************************************************************************)
(* What an interruption reports as remaining is what a retry will find:    *)
(* each deletion is committed on its own.                                  *)
(***************************************************************************)
InterruptionReportsRemaining ==
  \A q \in Requests :
    req[q].at = "interrupted" => req[q].total - req[q].done = Cardinality(mapped)

(***************************************************************************)
(* From the moment a removal began, also while it is interrupted, nothing  *)
(* is projected or mapped for the rule.                                    *)
(***************************************************************************)
InertOnceRemoving ==
  [][rule # "active" =>
       /\ mapped' \subseteq mapped
       /\ \A e \in Events : projection'[e] = "owned" => projection[e] = "owned"]_vars

(***************************************************************************)
(* The Incident of a removal is open only while that removal, or its       *)
(* retry, is incomplete, whichever handling completes it.                  *)
(***************************************************************************)
IncidentWhileIncomplete == incident = "open" => rule = "removing"

(***************************************************************************)
(* A replacement removes nothing before its Draft is reserved.             *)
(***************************************************************************)
ReservedFirst ==
  \A q \in Requests :
    req[q].replacing /\ req[q].at \in {"removing", "recording", "interrupted"} => draft # "none"

(***************************************************************************)
(* Every request ends, whatever it waits for or runs into.                 *)
(***************************************************************************)
EveryRequestEnds == \A q \in Requests : req[q].at # "idle" ~> req[q].at = "idle"
=============================================================================
