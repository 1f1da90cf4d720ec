------------------------------- MODULE SyncRun -------------------------------
(***************************************************************************)
(* One Sync Rule and the Sync Runs executed for it: the source calendar,   *)
(* the destination calendar, the Event Mappings and cursors kept in        *)
(* SQLite, the run in flight, and everybody who acts meanwhile: guests and *)
(* owners editing either calendar, the administrator changing the rule,    *)
(* the provider failing, the process stopping.                             *)
(*                                                                         *)
(* A run holds the rule's for_rule lock from its first step to its last,   *)
(* so there is one run at a time.  The short for_writes lock spans a       *)
(* decision, the provider write it asks for and the mapping it records:    *)
(* it is held exactly while op # None, and every lifecycle change waits    *)
(* for it.  The calendars belong to the provider and change at any time.   *)
(*                                                                         *)
(* Events are single events; what a policy makes of a revision is the      *)
(* constant Project, so a Busy-Only policy is one that maps every revision *)
(* to the same value and an exclusion is the value Withheld.               *)
(***************************************************************************)
EXTENDS Naturals, FiniteSets, Functions

CONSTANTS
  Events,       \* events of the source calendar
  Slots,        \* identifiers the destination calendar can give to projections
  Policies,     \* transformation policies the administrator chooses from
  Shown,        \* contents a destination event can have
  Edited,       \* the content a person gives a destination event by hand
  Withheld,     \* "no projection": the policy excludes the event
  Project,      \* Project[p][r]: what policy p shows of revision r
  MaxRev,       \* bound: revisions of one source event
  Bounds,       \* bounds: changes people make to the destination calendar, Material Rule Changes,
                \* provider failures and process stops, and events that fall out of the sync
                \* window, that may happen together
  None          \* absent: no mapping, no owner, no operation

Revs == 0..MaxRev

ASSUME BoundsAssumption ==
  /\ MaxRev \in Nat
  /\ Bounds \subseteq [edits : Nat, policies : Nat, faults : Nat, ends : Nat]

ASSUME ProjectAssumption ==
  /\ Project \in [Policies -> [Revs -> Shown \cup {Withheld}]]
  /\ Edited \in Shown
  /\ Withheld \notin Shown

RuleStates == {"draft", "previewed", "enabled", "paused", "degraded"}
SourceEvent == [status : {"none", "confirmed", "cancelled", "gone"}, rev : Revs, ended : BOOLEAN]
DestinationEvent == [status : {"unused", "confirmed", "cancelled"},
                     owner : Events \cup {None},
                     key : Revs \cup {None},
                     shown : Shown \cup {None}]
Mapping == [slot : Slots, rev : Revs, shown : Shown]
Operation == [kind : {"create", "update", "delete"}, event : Events, rev : Revs,
              slot : Slots \cup {None}, shown : Shown \cup {Withheld}, sent : BOOLEAN]

ASSUME NoneAssumption ==
  /\ None \notin Events /\ None \notin Slots /\ None \notin Revs
  /\ None \notin Shown /\ None \notin Policies
  /\ None \notin SourceEvent /\ None \notin DestinationEvent
  /\ None \notin Mapping /\ None \notin Operation

VARIABLES
  rule,      \* the saved rule: state, policy, reprojection_required
  preview,   \* the policy a Rule Preview in progress was started under
  src,       \* the source calendar
  dst,       \* the destination calendar
  mapping,   \* Event Mappings of the rule
  synced,    \* both incremental cursors are saved
  srcNews,   \* events changed since the saved source cursor
  dstNews,   \* projections changed since the saved destination cursor
  phase,     \* where the run in flight stands, "idle" when there is none
  run,       \* what the run decided to do when it began
  srcFeed,   \* source changes it read and has not handled
  srcSince,  \* events changed since it read them
  dstSeen,   \* destination events as it read them
  dstFeed,   \* those it has not gone through
  dstSince,  \* destination events changed since it read them
  unread,    \* listed projections no decision has used
  handled,   \* events it has decided
  op,        \* the write it is carrying out under for_writes
  budget     \* what is left of the bounds

ruleVars == <<rule, preview>>
sourceVars == <<src, srcNews>>
destinationVars == <<dst, dstNews>>
sinceVars == <<srcSince, dstSince>>
storeVars == <<mapping, synced>>
runVars == <<phase, run, srcFeed, dstSeen, dstFeed, unread, handled, op>>
vars == <<ruleVars, sourceVars, destinationVars, sinceVars, storeVars, runVars, budget>>

NoRun == [policy |-> None, reproject |-> FALSE, srcListed |-> FALSE, dstListed |-> FALSE]
Unused == [status |-> "unused", owner |-> None, key |-> None, shown |-> None]

TypeOK ==
  /\ rule \in [state : RuleStates, policy : Policies, reproject : BOOLEAN]
  /\ preview \in Policies \cup {None}
  /\ src \in [Events -> SourceEvent]
  /\ dst \in [Slots -> DestinationEvent]
  /\ mapping \in [Events -> Mapping \cup {None}]
  /\ synced \in BOOLEAN
  /\ srcNews \subseteq Events /\ srcSince \subseteq Events
  /\ dstNews \subseteq Slots /\ dstSince \subseteq Slots
  /\ phase \in {"idle", "listing", "source", "destination", "remaining", "advance"}
  /\ run \in [policy : Policies \cup {None}, reproject : BOOLEAN,
              srcListed : BOOLEAN, dstListed : BOOLEAN]
  /\ srcFeed \in [Events -> SourceEvent \cup {None}]
  /\ dstSeen \in [Slots -> DestinationEvent \cup {None}]
  /\ dstFeed \subseteq Slots /\ unread \subseteq Slots
  /\ handled \subseteq Events
  /\ op \in Operation \cup {None}
  /\ budget \in [edits : Nat, policies : Nat, faults : Nat, ends : Nat]

Init ==
  /\ rule \in [state : {"draft"}, policy : Policies, reproject : {FALSE}]
  /\ preview = None
  /\ src \in [Events -> [status : {"none", "confirmed"}, rev : {0}, ended : {FALSE}]]
  /\ dst = [s \in Slots |-> Unused]
  /\ mapping = [e \in Events |-> None]
  /\ synced = FALSE
  /\ srcNews = {} /\ srcSince = {} /\ dstNews = {} /\ dstSince = {}
  /\ phase = "idle" /\ run = NoRun
  /\ srcFeed = [e \in Events |-> None]
  /\ dstSeen = [s \in Slots |-> None]
  /\ dstFeed = {} /\ unread = {} /\ handled = {}
  /\ op = None
  /\ budget \in Bounds

Spend(what) ==
  /\ budget[what] > 0
  /\ budget' = [budget EXCEPT ![what] = @ - 1]

-----------------------------------------------------------------------------
(***************************************************************************)
(* The calendars.  A change is news for the saved cursor, and for the run  *)
(* in flight if it comes after the run read that calendar.                 *)
(***************************************************************************)
Running == phase # "idle"

SourceChanged(e) ==
  /\ srcNews' = srcNews \cup {e}
  /\ srcSince' = IF Running THEN srcSince \cup {e} ELSE srcSince
  /\ UNCHANGED dstSince

DestinationChanged(s) ==
  /\ dstNews' = dstNews \cup {s}
  /\ dstSince' = IF Running THEN dstSince \cup {s} ELSE dstSince
  /\ UNCHANGED srcSince

\* Creating, editing or restoring an event gives it a new revision.
EditSource(e) ==
  /\ src[e].status # "gone" /\ src[e].rev < MaxRev
  /\ src' = [src EXCEPT ![e] = [status |-> "confirmed", rev |-> @.rev + 1, ended |-> @.ended]]
  /\ SourceChanged(e)
  /\ UNCHANGED <<ruleVars, destinationVars, storeVars, runVars, budget>>

CancelSource(e) ==
  /\ src[e].status = "confirmed"
  /\ src' = [src EXCEPT ![e].status = "cancelled"]
  /\ SourceChanged(e)
  /\ UNCHANGED <<ruleVars, destinationVars, storeVars, runVars, budget>>

\* The provider forgets a cancelled event once every cursor is past it.
ForgetSource(e) ==
  /\ src[e].status = "cancelled" /\ e \notin srcNews /\ ~Running
  /\ src' = [src EXCEPT ![e].status = "gone"]
  /\ UNCHANGED <<ruleVars, srcNews, sinceVars, destinationVars, storeVars, runVars, budget>>

\* Time passes: the event now ended before any run's window start.
EndSource(e) ==
  /\ ~src[e].ended
  /\ src' = [src EXCEPT ![e].ended = TRUE]
  /\ Spend("ends")
  /\ UNCHANGED <<ruleVars, srcNews, sinceVars, destinationVars, storeVars, runVars>>

\* A person edits a projection, deletes it, or strips its Managed Origin.
EditProjection(s) ==
  /\ dst[s].status = "confirmed" /\ dst[s].shown # Edited
  /\ dst' = [dst EXCEPT ![s].shown = Edited]
  /\ DestinationChanged(s) /\ Spend("edits")
  /\ UNCHANGED <<ruleVars, sourceVars, storeVars, runVars>>

DeleteProjection(s) ==
  /\ dst[s].status = "confirmed"
  /\ dst' = [dst EXCEPT ![s] = [Unused EXCEPT !.status = "cancelled"]]
  /\ DestinationChanged(s) /\ Spend("edits")
  /\ UNCHANGED <<ruleVars, sourceVars, storeVars, runVars>>

StripProjection(s) ==
  /\ dst[s].status = "confirmed" /\ dst[s].owner # None
  /\ dst' = [dst EXCEPT ![s].owner = None, ![s].key = None]
  /\ DestinationChanged(s) /\ Spend("edits")
  /\ UNCHANGED <<ruleVars, sourceVars, storeVars, runVars>>

People ==
  \/ \E e \in Events : EditSource(e) \/ CancelSource(e) \/ ForgetSource(e) \/ EndSource(e)
  \/ \E s \in Slots : EditProjection(s) \/ DeleteProjection(s) \/ StripProjection(s)

-----------------------------------------------------------------------------
(***************************************************************************)
(* The rule's lifecycle.  Each change is a read-modify-write under         *)
(* for_writes; a preview reads the source outside it and only then takes   *)
(* the lock to validate the rule it read.                                  *)
(***************************************************************************)
\* Mutant: lifecycle changes do not wait for the write in flight.
WritesAlwaysFree == TRUE

WritesFree == op = None

ChangeRule(changed) ==
  /\ WritesFree
  /\ rule' = changed
  /\ UNCHANGED <<sourceVars, destinationVars, sinceVars, storeVars, runVars>>

Previewable == {"draft", "paused", "degraded"}

StartPreview ==
  /\ preview = None /\ rule.state \in Previewable
  /\ preview' = rule.policy
  /\ UNCHANGED <<rule, sourceVars, destinationVars, sinceVars, storeVars, runVars, budget>>

FinishPreview ==
  /\ preview # None
  /\ ChangeRule(IF rule.policy = preview /\ rule.state \in Previewable
                THEN [rule EXCEPT !.state = "previewed"] ELSE rule)
  /\ preview' = None
  /\ UNCHANGED budget

Enable ==
  /\ rule.state = "previewed"
  /\ ChangeRule([rule EXCEPT !.state = "enabled"])
  /\ UNCHANGED <<preview, budget>>

Pause ==
  /\ rule.state \in {"enabled", "degraded"}
  /\ ChangeRule([rule EXCEPT !.state = "paused"])
  /\ UNCHANGED <<preview, budget>>

\* Lost authorization, a failure needing intervention, or a disconnected account.
Degrade ==
  /\ rule.state \in {"previewed", "enabled"}
  /\ ChangeRule([rule EXCEPT !.state = "degraded"])
  /\ UNCHANGED <<preview, budget>>

ChangePolicy(p) ==
  /\ p # rule.policy
  /\ ChangeRule([policy |-> p, reproject |-> TRUE,
                 state |-> CASE rule.state \in {"enabled", "paused"} -> "paused"
                             [] rule.state = "degraded" -> "degraded"
                             [] OTHER -> "draft"])
  /\ Spend("policies")
  /\ UNCHANGED preview

Administrator ==
  \/ StartPreview \/ FinishPreview \/ Enable \/ Pause \/ Degrade
  \/ \E p \in Policies : ChangePolicy(p)

-----------------------------------------------------------------------------
(***************************************************************************)
(* Beginning a run: both feeds are read, one after the other, from the     *)
(* saved cursors, or in full when the run is a full one, there is no       *)
(* cursor, or the provider rejects it.                                     *)
(***************************************************************************)
\* A full listing starts at the window and shows cancelled events until they are forgotten.
ListedSources == {e \in Events : src[e].status \in {"confirmed", "cancelled"} /\ ~src[e].ended}

StartRun(full, rejected) ==
  /\ phase = "idle" /\ rule.state = "enabled"
  /\ rejected => synced /\ ~full /\ ~rule.reproject
  /\ LET listed == full \/ rule.reproject \/ ~synced \/ rejected
         read == IF listed THEN ListedSources ELSE srcNews
     IN /\ run' = [policy |-> rule.policy, reproject |-> rule.reproject,
                   srcListed |-> listed,
                   dstListed |-> full \/ rule.reproject \/ ~synced]
        /\ srcFeed' = [e \in Events |-> IF e \in read THEN src[e] ELSE None]
  /\ srcSince' = {}
  /\ phase' = "listing"
  /\ UNCHANGED <<ruleVars, sourceVars, destinationVars, dstSince, storeVars,
                 dstSeen, dstFeed, unread, handled, op, budget>>

ListedProjections ==
  {s \in Slots : \/ dst[s].status = "cancelled"
                 \/ dst[s].status = "confirmed" /\ dst[s].owner = None
                 \/ dst[s].owner # None /\ ~src[dst[s].owner].ended}

ListDestination(rejected) ==
  /\ phase = "listing"
  /\ rejected => ~run.dstListed
  /\ LET listed == run.dstListed \/ rejected
         read == IF listed THEN ListedProjections ELSE dstNews
     IN /\ run' = [run EXCEPT !.dstListed = listed]
        /\ dstSeen' = [s \in Slots |-> IF s \in read THEN dst[s] ELSE None]
        /\ dstFeed' = read
        /\ unread' = IF listed THEN read ELSE {}
  /\ dstSince' = {}
  /\ phase' = "source"
  /\ UNCHANGED <<ruleVars, sourceVars, destinationVars, srcSince, storeVars,
                 srcFeed, handled, op, budget>>

EndRun ==
  /\ phase' = "idle" /\ run' = NoRun
  /\ srcFeed' = [e \in Events |-> None] /\ dstSeen' = [s \in Slots |-> None]
  /\ dstFeed' = {} /\ unread' = {} /\ handled' = {}
  /\ srcSince' = {} /\ dstSince' = {}
  /\ op' = None

-----------------------------------------------------------------------------
(***************************************************************************)
(* Deciding one source event against its projection and applying it.       *)
(***************************************************************************)
Live(seen) == IF seen.status = "confirmed" THEN seen ELSE None

\* Mutant: a projection the destination feed did not report is taken for deleted.
ActualListed(e) ==
  IF mapping[e] = None \/ dstSeen[mapping[e].slot] = None THEN None
  ELSE Live(dstSeen[mapping[e].slot])

\* Mutant: the mapping is trusted instead of reading the destination.
ActualRecorded(e) ==
  IF mapping[e] = None THEN None
  ELSE [status |-> "confirmed", owner |-> e, key |-> None, shown |-> mapping[e].shown]

\* The mapped projection: from the listing the first time, read afresh after.
Actual(e) ==
  IF mapping[e] = None THEN None
  ELSE LET s == mapping[e].slot IN Live(IF s \in unread THEN dstSeen[s] ELSE dst[s])

\* Mutant: a create is not looked up before it is retried.
AcknowledgedNever(e, rev) == {}

\* Mutant: the Operation Key does not name the source event.
AcknowledgedAnySource(e, rev) ==
  {s \in Slots : dst[s].status = "confirmed" /\ dst[s].key = rev}

\* Projections the provider finds under the create Operation Key of a revision.
Acknowledged(e, rev) ==
  {s \in Slots : dst[s].status = "confirmed" /\ dst[s].owner = e /\ dst[s].key = rev}

\* The mapped destination event does not prove that it is this rule's projection.
IdentityConflict(e, actual) == mapping[e] # None /\ actual # None /\ actual.owner # e

Removed(event) == event.status = "cancelled" \/ Project[run.policy][event.rev] = Withheld

\* An unmapped event that ended long ago is ignored, unless its create was acknowledged.
BeforeWindow(e, event) ==
  mapping[e] = None /\ event.ended /\ Acknowledged(e, event.rev) = {}

Decision(e, event, actual) ==
  CASE IdentityConflict(e, actual) -> "conflict"
    [] ~IdentityConflict(e, actual) /\ Removed(event) ->
         IF mapping[e] = None THEN "ignore" ELSE "delete"
    [] ~IdentityConflict(e, actual) /\ ~Removed(event) ->
         IF BeforeWindow(e, event) THEN "ignore"
         ELSE IF mapping[e] = None \/ actual = None THEN "create"
         ELSE IF actual.shown = Project[run.policy][event.rev] THEN "current" ELSE "update"

\* Mutant: the stop check does not notice a changed policy.
UnchangedState == rule.state = "enabled"

\* The stop check made before each decision, under the lock that spans its write.
Unchanged == rule.state = "enabled" /\ rule.policy = run.policy

Apply(e, event, actual) ==
  LET decision == Decision(e, event, actual)
      expected == Project[run.policy][event.rev]
  IN /\ Unchanged
     /\ handled' = handled \cup {e}
     /\ \/ /\ decision \in {"ignore", "conflict"}
           /\ UNCHANGED <<mapping, op>>
        \/ /\ decision = "current"
           /\ mapping' = IF mapping[e].rev = event.rev THEN mapping
                         ELSE [mapping EXCEPT ![e].rev = event.rev, ![e].shown = expected]
           /\ UNCHANGED op
        \/ /\ decision \in {"create", "update", "delete"}
           /\ op' = [kind |-> decision, event |-> e, rev |-> event.rev, shown |-> expected,
                     slot |-> IF mapping[e] = None THEN None ELSE mapping[e].slot,
                     sent |-> FALSE]
           /\ UNCHANGED mapping

UseListing(e) ==
  unread' = IF mapping[e] = None THEN unread ELSE unread \ {mapping[e].slot}

HandleSource(e) ==
  /\ phase = "source" /\ WritesFree /\ srcFeed[e] # None
  /\ Apply(e, srcFeed[e], Actual(e))
  /\ UseListing(e)
  /\ srcFeed' = [srcFeed EXCEPT ![e] = None]
  /\ UNCHANGED <<ruleVars, sourceVars, destinationVars, sinceVars, synced,
                 phase, run, dstSeen, dstFeed, budget>>

\* Mutant: the batch ends at the first event handled.
SourcesDoneEarly ==
  /\ phase = "source" /\ WritesFree /\ \E e \in Events : srcFeed[e] = None
  /\ phase' = "destination"
  /\ UNCHANGED <<ruleVars, sourceVars, destinationVars, sinceVars, storeVars, run,
                 srcFeed, dstSeen, dstFeed, unread, handled, op, budget>>

SourcesDone ==
  /\ phase = "source" /\ WritesFree /\ \A e \in Events : srcFeed[e] = None
  /\ phase' = "destination"
  /\ UNCHANGED <<ruleVars, sourceVars, destinationVars, sinceVars, storeVars, run,
                 srcFeed, dstSeen, dstFeed, unread, handled, op, budget>>

-----------------------------------------------------------------------------
(***************************************************************************)
(* Repairing what the destination feed reports.                            *)
(***************************************************************************)
MappedTo(s) == {e \in Events : mapping[e] # None /\ mapping[e].slot = s}

Incremental == ~run.srcListed /\ ~run.dstListed

\* The feed reporting the rule's own earlier write needs no read of its source.
OwnWrite(e, s) ==
  /\ Incremental
  /\ dstSeen[s].status = "confirmed" /\ dstSeen[s].owner = e
  /\ dstSeen[s].shown = mapping[e].shown

\* A source read that finds nothing leaves its projection alone, as a Conflict.
Unverifiable(e) == src[e].status \in {"none", "gone"}

NothingToRepair(s) ==
  \A e \in MappedTo(s) : e \in handled \/ OwnWrite(e, s) \/ Unverifiable(e)

SkipReported(s) ==
  /\ phase = "destination" /\ WritesFree /\ s \in dstFeed
  /\ NothingToRepair(s)
  /\ dstFeed' = dstFeed \ {s}
  /\ UNCHANGED <<ruleVars, sourceVars, destinationVars, sinceVars, storeVars,
                 phase, run, srcFeed, dstSeen, unread, handled, op, budget>>

RepairReported(s) ==
  /\ phase = "destination" /\ WritesFree /\ s \in dstFeed
  /\ ~NothingToRepair(s)
  /\ \E e \in MappedTo(s) : Apply(e, src[e], Live(dstSeen[s]))
  /\ dstFeed' = dstFeed \ {s}
  /\ UNCHANGED <<ruleVars, sourceVars, destinationVars, sinceVars, synced,
                 phase, run, srcFeed, dstSeen, unread, budget>>

DestinationDone ==
  /\ phase = "destination" /\ WritesFree /\ dstFeed = {}
  /\ phase' = IF run.reproject THEN "remaining" ELSE "advance"
  /\ UNCHANGED <<ruleVars, sourceVars, destinationVars, sinceVars, storeVars, run,
                 srcFeed, dstSeen, dstFeed, unread, handled, op, budget>>

-----------------------------------------------------------------------------
(***************************************************************************)
(* Reprojection reaches the mappings neither feed reported.                *)
(***************************************************************************)
\* Mutant: only what the full listings report is reprojected.
RemainingListed == {}

Remaining == {e \in Events : mapping[e] # None} \ handled

SkipUnverifiable(e) ==
  /\ phase = "remaining" /\ WritesFree /\ e \in Remaining
  /\ Unverifiable(e)
  /\ handled' = handled \cup {e}
  /\ UNCHANGED <<ruleVars, sourceVars, destinationVars, sinceVars, storeVars,
                 phase, run, srcFeed, dstSeen, dstFeed, unread, op, budget>>

Reproject(e) ==
  /\ phase = "remaining" /\ WritesFree /\ e \in Remaining
  /\ ~Unverifiable(e)
  /\ Apply(e, src[e], Actual(e))
  /\ UseListing(e)
  /\ UNCHANGED <<ruleVars, sourceVars, destinationVars, sinceVars, synced,
                 phase, run, srcFeed, dstSeen, dstFeed, budget>>

RemainingDone ==
  /\ phase = "remaining" /\ WritesFree /\ Remaining = {}
  /\ phase' = "advance"
  /\ UNCHANGED <<ruleVars, sourceVars, destinationVars, sinceVars, storeVars, run,
                 srcFeed, dstSeen, dstFeed, unread, handled, op, budget>>

-----------------------------------------------------------------------------
(***************************************************************************)
(* The provider write, and the mapping that records it.                    *)
(***************************************************************************)
Owned(s, e) == dst[s].status = "confirmed" /\ dst[s].owner = e

Sent(s) ==
  /\ op' = [op EXCEPT !.slot = s, !.sent = TRUE]
  /\ UNCHANGED <<ruleVars, sourceVars, storeVars, phase, run,
                 srcFeed, dstSeen, dstFeed, unread, handled, budget>>

Projection(key) == [status |-> "confirmed", owner |-> op.event, key |-> key, shown |-> op.shown]

Pending(kind) == op # None /\ ~op.sent /\ op.kind = kind

\* A create the provider already acknowledged is adopted, whatever it shows.
AdoptProjection(s) ==
  /\ Pending("create") /\ s \in Acknowledged(op.event, op.rev)
  /\ UNCHANGED <<destinationVars, sinceVars>>
  /\ Sent(s)

\* Google gives an event an identifier of its own: which of the unused ones makes no difference.
NewSlot == CHOOSE s \in Slots : dst[s] = Unused

CreateProjection(s) ==
  /\ Pending("create") /\ Acknowledged(op.event, op.rev) = {}
  /\ dst[s] = Unused /\ s = NewSlot
  /\ dst' = [dst EXCEPT ![s] = Projection(op.rev)]
  /\ DestinationChanged(s)
  /\ Sent(s)

UpdateProjection ==
  /\ Pending("update") /\ Owned(op.slot, op.event)
  /\ dst' = [dst EXCEPT ![op.slot] = Projection(None)]
  /\ DestinationChanged(op.slot)
  /\ Sent(op.slot)

RemoveProjection ==
  /\ Pending("delete") /\ Owned(op.slot, op.event)
  /\ dst' = [dst EXCEPT ![op.slot] = [Unused EXCEPT !.status = "cancelled"]]
  /\ DestinationChanged(op.slot)
  /\ Sent(op.slot)

AlreadyRemoved ==
  /\ Pending("delete") /\ dst[op.slot].status # "confirmed"
  /\ UNCHANGED <<destinationVars, sinceVars>>
  /\ Sent(op.slot)

Write ==
  \/ \E s \in Slots : AdoptProjection(s) \/ CreateProjection(s)
  \/ UpdateProjection \/ RemoveProjection \/ AlreadyRemoved

\* The provider call re-reads the event and refuses one it cannot prove is ours;
\* a calendar that can hold no more events refuses a new one.
WriteRefused ==
  /\ \/ Pending("create") /\ Acknowledged(op.event, op.rev) = {} /\ \A s \in Slots : dst[s] # Unused
     \/ Pending("update") /\ ~Owned(op.slot, op.event)
     \/ Pending("delete") /\ dst[op.slot].status = "confirmed" /\ dst[op.slot].owner # op.event
  /\ EndRun
  /\ UNCHANGED <<ruleVars, sourceVars, destinationVars, storeVars, budget>>

Record ==
  /\ op # None /\ op.sent
  /\ mapping' = [mapping EXCEPT ![op.event] =
                   IF op.kind = "delete" THEN None
                   ELSE [slot |-> op.slot, rev |-> op.rev, shown |-> op.shown]]
  /\ op' = None
  /\ UNCHANGED <<ruleVars, sourceVars, destinationVars, sinceVars, synced, phase, run,
                 srcFeed, dstSeen, dstFeed, unread, handled, budget>>

-----------------------------------------------------------------------------
(***************************************************************************)
(* Ending a run.                                                           *)
(***************************************************************************)
\* The stop check failed: the rule is not enabled, or its policy was changed.
StopRun ==
  /\ WritesFree /\ ~Unchanged
  /\ \/ phase = "source" /\ \E e \in Events : srcFeed[e] # None
     \/ phase = "destination" /\ \E s \in dstFeed : ~NothingToRepair(s)
     \/ phase = "remaining" /\ \E e \in Remaining : ~Unverifiable(e)
  /\ EndRun
  /\ UNCHANGED <<ruleVars, sourceVars, destinationVars, storeVars, budget>>

\* A provider call fails, its answer is lost, or the process stops.
FailRun ==
  /\ Running
  /\ Spend("faults")
  /\ EndRun
  /\ UNCHANGED <<ruleVars, sourceVars, destinationVars, storeVars>>

\* Mutant: the cursors are read again when the run ends.
NextCursorsReadLate == synced' = TRUE /\ srcNews' = {} /\ dstNews' = {}

\* Both cursors were handed out with the feeds: later changes stay news.
NextCursors == synced' = TRUE /\ srcNews' = srcSince /\ dstNews' = dstSince

ReprojectionDone == run.reproject /\ rule.reproject /\ rule.policy = run.policy

AdvanceCursors ==
  /\ phase = "advance"
  /\ NextCursors
  /\ rule' = IF ReprojectionDone THEN [rule EXCEPT !.reproject = FALSE] ELSE rule
  /\ EndRun
  /\ UNCHANGED <<preview, src, dst, mapping, budget>>

Step ==
  \/ \E rejected \in BOOLEAN : ListDestination(rejected)
  \/ \E e \in Events : HandleSource(e) \/ SkipUnverifiable(e) \/ Reproject(e)
  \/ \E s \in Slots : SkipReported(s) \/ RepairReported(s)
  \/ SourcesDone \/ DestinationDone \/ RemainingDone
  \/ Write \/ WriteRefused \/ Record
  \/ StopRun \/ AdvanceCursors

Next ==
  \/ People
  \/ Administrator
  \/ \E full, rejected \in BOOLEAN : StartRun(full, rejected)
  \/ Step
  \/ FailRun

Spec == Init /\ [][Next]_vars

(***************************************************************************)
(* The process keeps working on a run it began, and the scheduler starts   *)
(* each enabled rule's full pass once a day, whatever happened to earlier  *)
(* runs.  Nobody else owes anything: not people, not the administrator,    *)
(* not the provider's failures.                                            *)
(***************************************************************************)
Fairness == WF_vars(Step) /\ SF_vars(StartRun(TRUE, FALSE))

FairSpec == Spec /\ Fairness
-----------------------------------------------------------------------------
(***************************************************************************)
(* What the rule owes its calendars.                                       *)
(***************************************************************************)
Wanted(e) == IF src[e].status = "confirmed" THEN Project[rule.policy][src[e].rev] ELSE Withheld

\* The projection shows what the policy calls for, or is left alone as a Conflict.
InSync(e) ==
  IF mapping[e] = None THEN Wanted(e) = Withheld
  ELSE LET seen == dst[mapping[e].slot] IN
       \/ seen.status = "confirmed" /\ seen.owner # e
       \/ src[e].status = "gone"
       \/ Wanted(e) # Withheld /\ seen.status = "confirmed" /\ seen.shown = Wanted(e)

\* Some feed will still report the event, or the next run reads everything.
Due(e) ==
  \/ ~synced \/ rule.reproject
  \/ e \in srcNews
  \/ mapping[e] # None /\ mapping[e].slot \in dstNews

(***************************************************************************)
(* No change is lost: an event in the sync window whose projection is not  *)
(* what the rule's policy makes of it is still due, from the saved cursors *)
(* or by reprojection, after any failures and retries, or after any edits  *)
(* by people and policy changes.  It is not stated of histories with both: *)
(* a create that was adopted after a lost answer then breaks it.           *)
(***************************************************************************)
NoLostChange == \A e \in Events : src[e].ended \/ InSync(e) \/ Due(e)

(***************************************************************************)
(* A source event has at most one live projection of the rule.             *)
(***************************************************************************)
OneProjection ==
  \A e \in Events, s, t \in Slots : Owned(s, e) /\ Owned(t, e) => s = t

(***************************************************************************)
(* A create is never carried out twice for one revision, however often an  *)
(* interrupted run is retried: Operation Keys of live projections differ.  *)
(***************************************************************************)
OneCreatePerRevision ==
  \A e \in Events, s, t \in Slots :
    Owned(s, e) /\ Owned(t, e) /\ dst[s].key = dst[t].key /\ dst[s].key # None => s = t

(***************************************************************************)
(* Event Mappings never share a projection, and none points at a           *)
(* projection that is another event's.                                     *)
(***************************************************************************)
MappingsApart ==
  \A e, f \in Events :
    /\ mapping[e] # None /\ mapping[f] # None /\ mapping[e].slot = mapping[f].slot => e = f
    /\ mapping[e] # None => dst[mapping[e].slot].owner \in {e, None}

(***************************************************************************)
(* Reprojection is only complete when no mapped projection still shows     *)
(* what a policy the rule had before makes of its source.                  *)
(***************************************************************************)
FormerProjections(p) ==
  (UNION {Range(Project[q]) : q \in Policies \ {p}}) \ Range(Project[p])

ReprojectionReachesAll ==
  [][rule.reproject /\ ~rule'.reproject =>
       \A e \in Events :
         mapping[e] # None /\ Owned(mapping[e].slot, e) /\ src[e].status # "gone" =>
           dst[mapping[e].slot].shown \notin FormerProjections(rule'.policy)]_vars

(***************************************************************************)
(* Once people leave the calendars and the administrator leaves the rule   *)
(* enabled, every event in the sync window ends up in sync and stays so:   *)
(* no interleaving, retry or lost answer leaves a projection stale for     *)
(* good.                                                                   *)
(***************************************************************************)
Settles == <>[](rule.state = "enabled") => <>[](\A e \in Events : src[e].ended \/ InSync(e))

\* A destination event as its owners see it: Operation Keys are private to the runs.
Visible(event) == [status |-> event.status, owner |-> event.owner, shown |-> event.shown]

Contract == INSTANCE RuleContract WITH
  state <- rule.state, policy <- rule.policy, previewing <- preview,
  calendar <- [s \in Slots |-> Visible(dst[s])]

(***************************************************************************)
(* The rule keeps its contract with the destination calendar.              *)
(***************************************************************************)
KeepsContract == Contract!Spec
=============================================================================
