--------------------------- MODULE Reconciliation ---------------------------
(***************************************************************************)
(* Reconcile Now beside the Sync Runs of its rule: a full pass, and then a *)
(* Full Reconciliation that compares both calendars with the mappings and  *)
(* only reports what differs (docs/sync-model.md, Reconciliation).         *)
(*                                                                         *)
(* The pass lets go of the rule's lock before the reconciliation asks for  *)
(* it, so another run may come first.  Once it has the lock the mappings   *)
(* stay as they are, but people and the administrator do not wait: the     *)
(* source listing, the listing of managed events and the reads of single   *)
(* events are three moments.                                               *)
(***************************************************************************)
EXTENDS SyncRun

CONSTANT MaxChecks   \* bound: reconciliations

ASSUME ChecksAssumption == MaxChecks \in Nat

VARIABLES
  blocked,   \* SyncRunContext.blocked: events the run in flight blocked
  check,     \* where Reconcile Now stands after its pass, and what it read
  checks     \* how many there were

checkVars == <<check, checks>>

NoCheck == [at |-> "none", blocked |-> {}, policy |-> None, past |-> {},
            source |-> [e \in Events |-> None], managed |-> [s \in Slots |-> None], calm |-> TRUE]

InitCheck == Init /\ blocked = {} /\ check = NoCheck /\ checks = 0

-----------------------------------------------------------------------------
(***************************************************************************)
(* What a run blocked.                                                     *)
(***************************************************************************)
Conflicting(e, actual) == IF IdentityConflict(e, actual) THEN {e} ELSE {}

Block(events) == blocked' = IF phase' = "idle" THEN {} ELSE blocked \cup events

Deciding ==
  \/ \E e \in Events : (HandleSource(e) \/ Reproject(e)) /\ Block(Conflicting(e, Actual(e)))
  \/ \E e \in Events : SkipUnverifiable(e) /\ Block({e})
  \/ \E s \in Slots : /\ RepairReported(s)
                      /\ Block(UNION {Conflicting(e, Live(dstSeen[s])) : e \in MappedTo(s)})
  \/ \E s \in Slots : /\ SkipReported(s)
                      /\ Block({e \in MappedTo(s) : e \notin handled /\ ~OwnWrite(e, s)})

Proceeding ==
  /\ \/ \E rejected \in BOOLEAN : ListDestination(rejected)
     \/ SourcesDone \/ DestinationDone \/ RemainingDone
     \/ Write \/ WriteRefused \/ Record
     \/ StopRun \/ AdvanceCursors \/ FailRun
  /\ Block({})

\* calm is history: nothing changed since the reconciliation began.
Noticed ==
  check' = [check EXCEPT !.calm = @ /\ src' = src /\ dst' = dst /\ rule'.policy = rule.policy]

-----------------------------------------------------------------------------
(***************************************************************************)
(* Reconcile Now.                                                          *)
(***************************************************************************)
\* A full pass that succeeded was Reconcile Now's; its result names what it blocked.
PassSucceeds ==
  /\ AdvanceCursors /\ run.srcListed /\ run.dstListed
  /\ check = NoCheck /\ checks < MaxChecks
  /\ check' = [NoCheck EXCEPT !.at = "due", !.blocked = blocked]
  /\ checks' = checks + 1
  /\ blocked' = {}

SourceListing == [e \in Events |-> IF e \in ListedSources THEN src[e] ELSE None]

\* ReconcileSyncRule holds for_rule, whatever the rule's state is by now: the rule and its mappings
\* are loaded, the window is fixed and the source calendar listed.
ListSources ==
  /\ check.at = "due" /\ phase = "idle"
  /\ check' = [check EXCEPT !.at = "listed", !.policy = rule.policy, !.calm = TRUE,
                 !.past = {e \in Events : src[e].ended},
                 !.source = SourceListing]
  /\ UNCHANGED <<vars, blocked, checks>>

\* The rule's managed events, listed next, from the same instant on.
ManagedNow(s) ==
  dst[s].status = "confirmed" /\ dst[s].owner # None /\ dst[s].owner \notin check.past

ListManaged ==
  /\ check.at = "listed"
  /\ check' = [check EXCEPT !.at = "compared",
                 !.managed = [s \in Slots |-> IF ManagedNow(s) THEN dst[s] ELSE None]]
  /\ UNCHANGED <<vars, blocked, checks>>

Managed(s) == check.managed[s] # None

\* Mutant: every mapping is verified, however long ago its event ended.
ReachedAlways(e) == mapping[e] # None

\* A mapping is verified if either listing reached it; a source that only its projection's
\* listing reached is read directly.
Reached(e) == mapping[e] # None /\ (check.source[e] # None \/ Managed(mapping[e].slot))
Readable(e) == check.source[e] # None \/ ~Unverifiable(e)
Authoritative(e) == IF check.source[e] # None THEN check.source[e] ELSE src[e]

Eligible(event) ==
  event.status = "confirmed" /\ Project[check.policy][event.rev] # Withheld

\* Mutant: a source that calls for no projection needs no look at its projection.
FindingEligibleOnly(e) ==
  LET s == mapping[e].slot IN
  CASE ~Reached(e) -> "none"
    [] Reached(e) /\ ~Readable(e) -> "unverifiable"
    [] Reached(e) /\ Readable(e) /\ ~Eligible(Authoritative(e)) -> "none"
    [] Reached(e) /\ Readable(e) /\ Eligible(Authoritative(e)) ->
         CASE ~Managed(s) -> "missing"
           [] Managed(s) /\ check.managed[s].shown # Project[check.policy][Authoritative(e).rev] -> "incorrect"
           [] OTHER -> "none"

\* ReconciliationService._mapping_finding, for the mappings that are verified.
Finding(e) ==
  LET s == mapping[e].slot IN
  CASE ~Reached(e) -> "none"
    [] Reached(e) /\ ~Readable(e) -> "unverifiable"
    [] Reached(e) /\ Readable(e) /\ ~Eligible(Authoritative(e)) ->
         IF Managed(s) THEN "unexpected" ELSE "none"
    [] Reached(e) /\ Readable(e) /\ Eligible(Authoritative(e)) ->
         CASE ~Managed(s) -> "missing"
           [] Managed(s) /\ check.managed[s].shown # Project[check.policy][Authoritative(e).rev] -> "incorrect"
           [] OTHER -> "none"

\* ReconciliationReport.excluding.
Excluded(e) == e \in check.blocked

Drift == {"missing", "incorrect", "unexpected"}
ReportedDrift == {e \in Events : Finding(e) \in Drift /\ ~Excluded(e)}
UnmappedProjections ==
  {s \in Slots : Managed(s) /\ MappedTo(s) = {} /\ ~Excluded(check.managed[s].owner)}

ReportFindings ==
  /\ check.at = "compared"
  /\ check' = NoCheck
  /\ UNCHANGED <<vars, blocked, checks>>

\* A read fails: the outcome is recorded as failed and nothing is reported.
ReconciliationFails ==
  /\ check.at \in {"due", "listed", "compared"} /\ phase = "idle"
  /\ check' = NoCheck
  /\ UNCHANGED <<vars, blocked, checks>>

NextCheck ==
  \/ (People \/ Administrator) /\ Noticed /\ UNCHANGED <<blocked, checks>>
  \/ \E full, rejected \in BOOLEAN :
       StartRun(full, rejected) /\ check.at \notin {"listed", "compared"} /\ UNCHANGED <<blocked, checkVars>>
  \/ (Deciding \/ Proceeding) /\ Noticed /\ UNCHANGED checks
  \/ PassSucceeds \/ ListSources \/ ListManaged \/ ReportFindings \/ ReconciliationFails

SpecCheck == InitCheck /\ [][NextCheck]_<<vars, blocked, checkVars>>

-----------------------------------------------------------------------------
(***************************************************************************)
(* Every difference a reconciliation reports as drift is one that the next *)
(* Sync Run repairs: a change some cursor still reports, or a policy that  *)
(* reprojection is due for.  The one exception is a projection somebody    *)
(* stripped of its Managed Origin, which no run may touch.                 *)
(***************************************************************************)
Unproven(e) == LET seen == dst[mapping[e].slot] IN seen.status = "confirmed" /\ seen.owner # e

DriftIsDue ==
  [][ReportFindings => \A e \in ReportedDrift : Due(e) \/ Unproven(e)]_<<vars, blocked, checkVars>>

(***************************************************************************)
(* If nothing changes meanwhile, the report is the truth about the window: *)
(* drift is reported exactly where a source that can be read and its       *)
(* projection disagree, and a projection nobody answers for is reported,   *)
(* except for what the pass has blocked already.                           *)
(***************************************************************************)
Agrees(e) ==
  LET s == mapping[e].slot IN
  IF Wanted(e) = Withheld THEN ~Owned(s, e) ELSE Owned(s, e) /\ dst[s].shown = Wanted(e)

ReportIsTrue ==
  [][ReportFindings /\ check.calm =>
       \A e \in Events : ~src[e].ended /\ ~Excluded(e) =>
         /\ mapping[e] # None =>
              (e \in ReportedDrift <=> src[e].status # "gone" /\ ~Agrees(e))
         /\ \A s \in Slots \ UnmappedProjections :
              Owned(s, e) => mapping[e] # None /\ mapping[e].slot = s]_<<vars, blocked, checkVars>>
=============================================================================
