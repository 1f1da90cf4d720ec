----------------------------- MODULE RuleHealth -----------------------------
(***************************************************************************)
(* The scheduler and the health of the rules it runs: the failures it      *)
(* counts, the rules it degrades, and each rule's one Provider Incident.   *)
(*                                                                         *)
(* The scheduler lists the enabled rules and runs them one after another.  *)
(* What became of a run is reported after the run let go of the rule's     *)
(* locks, in several transactions: meanwhile the administrator pauses,     *)
(* recovers or removes the rule, a preview reports the lost authorization  *)
(* it met, a transaction fails, or the process ends.                       *)
(*                                                                         *)
(* A run is one step here (SyncRun has its inside); blocked events and     *)
(* their Incident are in Activity.                                         *)
(***************************************************************************)
EXTENDS Naturals, FiniteSets

CONSTANTS
  Rules,
  Threshold,    \* PROVIDER_INCIDENT_THRESHOLD
  Attempts,     \* RETRY_ATTEMPTS
  MaxFailures,  \* bound: scheduled runs that fail
  MaxAdmin,     \* bound: requests of the administrator
  MaxCuts,      \* bound: reports that fail and restarts
  MaxDay,       \* bound: days
  None

ASSUME HealthAssumption ==
  /\ Threshold \in Nat \ {0} /\ Attempts \in Nat \ {0}
  /\ MaxFailures \in Nat /\ MaxAdmin \in Nat /\ MaxCuts \in Nat /\ MaxDay \in Nat
  /\ None \notin Rules

Kinds == {"transient", "authorization", "permanent"}
Stopping == {"authorization", "permanent"}   \* INTERVENTION_FAILURES

VARIABLES
  rule,        \* the state of each rule, "removed" once its row is gone
  failures,    \* rule_failures: consecutive failures, 0 for no row
  incident,    \* the rule's Provider Incident
  pass,        \* what the scheduler is doing
  preview,     \* the Rule Preview in progress
  lastFull,    \* day of the last full run that succeeded, None before the first
  day,         \* today
  streak,      \* history: scheduled runs that failed since one succeeded, up to Threshold
  unreported,  \* history: rules with a report cut short since a success was reported whole
  stopped,     \* history: rules a failed run degraded and nobody changed since
  notices,     \* history: Incident Notifications of the open episode
  left

ruleVars == <<rule, stopped>>
healthVars == <<failures, incident, notices>>
dayVars == <<lastFull, day>>
historyVars == <<streak, unreported>>
vars == <<ruleVars, healthVars, pass, preview, dayVars, historyVars, left>>

RuleStates == {"draft", "previewed", "enabled", "paused", "degraded", "removed"}
Incidents == [state : {"none", "open", "resolved"}, cause : Kinds \cup {None}]
Idle == [at |-> "idle", due |-> [r \in Rules |-> None], rule |-> None, tries |-> 0, kind |-> None]
NoPreview == [at |-> "none", rule |-> None, recovering |-> FALSE]

TypeOK ==
  /\ rule \in [Rules -> RuleStates] /\ stopped \subseteq Rules
  /\ failures \in [Rules -> 0..MaxFailures]
  /\ incident \in [Rules -> Incidents]
  /\ pass \in [at : {"idle", "between", "running", "succeeded", "cleared",
                     "failed", "degrading", "opening"},
               due : [Rules -> {"changes", "full", None}], rule : Rules \cup {None},
               tries : 0..Attempts, kind : Kinds \cup {None}]
  /\ preview \in [at : {"none", "reading", "refused"}, rule : Rules \cup {None},
                  recovering : BOOLEAN]
  /\ lastFull \in [Rules -> 0..MaxDay \cup {None}] /\ day \in 0..MaxDay
  /\ streak \in [Rules -> 0..Threshold] /\ unreported \subseteq Rules
  /\ notices \in [Rules -> Nat]
  /\ left \in [failures : 0..MaxFailures, admin : 0..MaxAdmin, cuts : 0..MaxCuts]

Init ==
  /\ rule \in [Rules -> {"draft", "enabled"}] /\ stopped = {}
  /\ failures = [r \in Rules |-> 0]
  /\ incident = [r \in Rules |-> [state |-> "none", cause |-> None]]
  /\ pass = Idle /\ preview = NoPreview
  /\ lastFull = [r \in Rules |-> None] /\ day = 0
  /\ streak = [r \in Rules |-> 0] /\ unreported = {}
  /\ notices = [r \in Rules |-> 0]
  /\ left = [failures |-> MaxFailures, admin |-> MaxAdmin, cuts |-> MaxCuts]

Spend(what) == left[what] > 0 /\ left' = [left EXCEPT ![what] = @ - 1]
Exists(r) == rule[r] # "removed"
Open(r) == incident[r].state = "open"

SetRule(r, to) ==
  /\ rule' = [rule EXCEPT ![r] = to]
  /\ stopped' = stopped \ {r}

-----------------------------------------------------------------------------
(***************************************************************************)
(* RuleHealth: what the scheduler reports.                                 *)
(***************************************************************************)
\* RuleHealthPolicy.after_failure.  Mutant: only the threshold opens an Incident.
AfterFailureOpensLate(kind, consecutive) ==
  [degrade |-> kind \in Stopping, open |-> consecutive >= Threshold]

AfterFailure(kind, consecutive) ==
  [degrade |-> kind \in Stopping, open |-> kind \in Stopping \/ consecutive >= Threshold]

\* Mutant: the failure of a rule that was removed meanwhile is counted too.
RecordedAlways(r) == failures[r] + 1

\* SqliteRuleHealthRecords.record_failure: no row for a rule that is gone.
Recorded(r) == IF Exists(r) THEN failures[r] + 1 ELSE 0

\* Mutant: every report is announced, not only the one that opened the Incident.
OpenIncidentLoudly(r, cause) ==
  /\ incident' = [incident EXCEPT ![r] = [state |-> "open", cause |-> cause]]
  /\ notices' = [notices EXCEPT ![r] = IF Open(r) THEN @ + 1 ELSE 1]

\* SqliteIncidentRepository.open, one transaction, and the notification of a new episode.
OpenIncident(r, cause) ==
  /\ incident' = [incident EXCEPT ![r] = [state |-> "open", cause |-> cause]]
  /\ notices' = [notices EXCEPT ![r] = IF Open(r) THEN @ ELSE 1]

\* SqliteIncidentRepository.resolve: only an open one.
Resolve(r) ==
  /\ incident' = [incident EXCEPT ![r].state = IF Open(r) THEN "resolved" ELSE @]
  /\ notices' = [notices EXCEPT ![r] = 0]

RunOf(r) == pass.rule = r
Finished(r) ==
  LET due == [pass.due EXCEPT ![r] = None]
  IN IF \A q \in Rules : due[q] = None THEN Idle ELSE [Idle EXCEPT !.at = "between", !.due = due]

\* record_failure, first transaction: count, and decide what follows.
CountFailure(r) ==
  /\ pass.at = "failed" /\ RunOf(r)
  /\ failures' = [failures EXCEPT ![r] = Recorded(r)]
  /\ LET response == AfterFailure(pass.kind, IF Exists(r) THEN failures[r] + 1 ELSE 1)
     IN pass' = CASE response.degrade -> [pass EXCEPT !.at = "degrading"]
                  [] ~response.degrade /\ response.open -> [pass EXCEPT !.at = "opening"]
                  [] OTHER -> Finished(r)
  /\ UNCHANGED <<ruleVars, incident, notices, preview, dayVars, historyVars, left>>

\* _degrade, under for_writes: the rule may have been paused or removed since it was listed.
DegradeRule(r) ==
  /\ pass.at = "degrading" /\ RunOf(r)
  /\ pass' = IF AfterFailure(pass.kind, failures[r]).open
             THEN [pass EXCEPT !.at = "opening"] ELSE Finished(r)
  /\ IF rule[r] = "enabled"
     THEN rule' = [rule EXCEPT ![r] = "degraded"] /\ stopped' = stopped \cup {r}
     ELSE UNCHANGED ruleVars
  /\ UNCHANGED <<healthVars, preview, dayVars, historyVars, left>>

ReportIncident(r) ==
  /\ pass.at = "opening" /\ RunOf(r)
  /\ OpenIncident(r, pass.kind)
  /\ pass' = Finished(r)
  /\ UNCHANGED <<ruleVars, failures, preview, dayVars, historyVars, left>>

\* Mutant: a success resolves the Incident but keeps the count.
ClearNothing(r) == failures

Clear(r) == [failures EXCEPT ![r] = 0]

\* record_success: the count, then the Incident.
ClearFailures(r) ==
  /\ pass.at = "succeeded" /\ RunOf(r)
  /\ failures' = Clear(r)
  /\ pass' = [pass EXCEPT !.at = "cleared"]
  /\ UNCHANGED <<ruleVars, incident, notices, preview, dayVars, historyVars, left>>

ResolveIncident(r) ==
  /\ pass.at = "cleared" /\ RunOf(r)
  /\ Resolve(r)
  /\ unreported' = unreported \ {r}
  /\ pass' = Finished(r)
  /\ UNCHANGED <<ruleVars, failures, preview, dayVars, streak, left>>

-----------------------------------------------------------------------------
(***************************************************************************)
(* SyncScheduler.                                                          *)
(***************************************************************************)
\* Mutant: only a rule that never had a full pass is due one.
FullPassFirst(r) == lastFull[r] = None

\* A full pass is due from the rule's own last one.
FullPassDue(r) == lastFull[r] # day

ListRules ==
  /\ pass.at = "idle"
  /\ \E r \in Rules : rule[r] = "enabled"
  /\ pass' = [Idle EXCEPT !.at = "between",
                !.due = [r \in Rules |-> CASE rule[r] # "enabled" -> None
                                           [] FullPassDue(r) -> "full"
                                           [] OTHER -> "changes"]]
  /\ UNCHANGED <<ruleVars, healthVars, preview, dayVars, historyVars, left>>

StartRule(r) ==
  /\ pass.at = "between" /\ pass.due[r] # None
  /\ pass' = [pass EXCEPT !.at = "running", !.rule = r, !.tries = 1]
  /\ UNCHANGED <<ruleVars, healthVars, preview, dayVars, historyVars, left>>

\* RuleNotExecutable: paused, edited or removed since it was listed, or between two attempts.
SkipRule(r) ==
  /\ pass.at = "running" /\ RunOf(r) /\ rule[r] # "enabled"
  /\ pass' = Finished(r)
  /\ UNCHANGED <<ruleVars, healthVars, preview, dayVars, historyVars, left>>

\* A run of changes that lists both calendars all the same (a rejected cursor, a reprojection)
\* stands in for the daily pass.
RunSucceeds(r, listed) ==
  /\ pass.at = "running" /\ RunOf(r) /\ rule[r] = "enabled"
  /\ pass.due[r] = "full" => listed
  /\ lastFull' = IF listed THEN [lastFull EXCEPT ![r] = day] ELSE lastFull
  /\ streak' = [streak EXCEPT ![r] = 0]
  /\ pass' = [pass EXCEPT !.at = "succeeded"]
  /\ UNCHANGED <<ruleVars, healthVars, preview, day, unreported, left>>

\* Mutant: one attempt too many.
RetryOnceMore(r) ==
  /\ pass.at = "running" /\ RunOf(r) /\ rule[r] = "enabled" /\ pass.tries <= Attempts
  /\ left.failures > 0
  /\ pass' = [pass EXCEPT !.tries = @ + 1]
  /\ UNCHANGED <<ruleVars, healthVars, preview, dayVars, historyVars, left>>

\* with_retries: a temporary failure is tried again at once.
RetryRun(r) ==
  /\ pass.at = "running" /\ RunOf(r) /\ rule[r] = "enabled" /\ pass.tries < Attempts
  /\ left.failures > 0
  /\ pass' = [pass EXCEPT !.tries = @ + 1]
  /\ UNCHANGED <<ruleVars, healthVars, preview, dayVars, historyVars, left>>

RunFails(r, kind) ==
  /\ pass.at = "running" /\ RunOf(r) /\ rule[r] = "enabled"
  /\ kind = "transient" => pass.tries = Attempts
  /\ streak' = [streak EXCEPT ![r] = IF @ < Threshold THEN @ + 1 ELSE @]
  /\ pass' = [pass EXCEPT !.at = "failed", !.kind = kind]
  /\ Spend("failures")
  /\ UNCHANGED <<ruleVars, healthVars, preview, dayVars, unreported>>

Reporting == pass.at \in {"succeeded", "cleared", "failed", "degrading", "opening"}

\* A transaction of the report fails.  _record_success goes on with the next rule; the failure of
\* record_failure ends the pass, which run_forever survives.
CutReport ==
  /\ Reporting
  /\ unreported' = unreported \cup {pass.rule}
  /\ pass' = IF pass.at \in {"succeeded", "cleared"} THEN Finished(pass.rule) ELSE Idle
  /\ Spend("cuts")
  /\ UNCHANGED <<ruleVars, healthVars, preview, dayVars, streak>>

Restart ==
  /\ pass # Idle \/ preview # NoPreview
  /\ unreported' = IF Reporting THEN unreported \cup {pass.rule} ELSE unreported
  /\ pass' = Idle /\ preview' = NoPreview
  /\ Spend("cuts")
  /\ UNCHANGED <<ruleVars, healthVars, dayVars, streak>>

NewDay ==
  /\ day < MaxDay
  /\ day' = day + 1
  /\ UNCHANGED <<ruleVars, healthVars, pass, preview, lastFull, historyVars, left>>

-----------------------------------------------------------------------------
(***************************************************************************)
(* The administrator.                                                      *)
(***************************************************************************)
StartPreview(r) ==
  /\ preview = NoPreview /\ rule[r] \in {"draft", "paused", "degraded"}
  /\ preview' = [at |-> "reading", rule |-> r, recovering |-> rule[r] = "degraded"]
  /\ Spend("admin")
  /\ UNCHANGED <<ruleVars, healthVars, pass, dayVars, historyVars>>

\* The rule may have changed state meanwhile; then the request is refused.
PreviewSucceeds ==
  /\ preview.at = "reading"
  /\ preview' = NoPreview
  /\ IF rule[preview.rule] \in {"draft", "paused", "degraded"}
     THEN SetRule(preview.rule, "previewed") ELSE UNCHANGED ruleVars
  /\ UNCHANGED <<healthVars, pass, dayVars, historyVars, left>>

\* Only lost authorization met by the recovery of a stopped rule is reported.
PreviewFails(kind) ==
  /\ preview.at = "reading"
  /\ preview' = IF preview.recovering /\ kind = "authorization"
                THEN [preview EXCEPT !.at = "refused"] ELSE NoPreview
  /\ UNCHANGED <<ruleVars, healthVars, pass, dayVars, historyVars, left>>

RecoveryBlocked ==
  /\ preview.at = "refused"
  /\ OpenIncident(preview.rule, "authorization")
  /\ preview' = NoPreview
  /\ UNCHANGED <<ruleVars, failures, pass, dayVars, historyVars, left>>

EnableRule(r) ==
  /\ rule[r] = "previewed"
  /\ SetRule(r, "enabled")
  /\ UNCHANGED <<healthVars, pass, preview, dayVars, historyVars, left>>

PauseRule(r) ==
  /\ rule[r] \in {"enabled", "degraded"}
  /\ SetRule(r, "paused")
  /\ Spend("admin")
  /\ UNCHANGED <<healthVars, pass, preview, dayVars, historyVars>>

\* Disconnecting an account of the rule; no run failed, so there is no Incident.
DisconnectRule(r) ==
  /\ rule[r] = "enabled"
  /\ SetRule(r, "degraded")
  /\ Spend("admin")
  /\ UNCHANGED <<healthVars, pass, preview, dayVars, historyVars>>

\* The last transaction of a Rule Removal resolves the rule's Incidents; the row of its count
\* goes with the rule.
RemoveRule(r) ==
  /\ Exists(r)
  /\ SetRule(r, "removed")
  /\ failures' = [failures EXCEPT ![r] = 0]
  /\ Resolve(r)
  /\ Spend("admin")
  /\ UNCHANGED <<pass, preview, dayVars, historyVars>>

\* Reconcile Now, or Sync Now when it lists both calendars: a full run that reports no health.
RunByHand(r) ==
  /\ rule[r] = "enabled" /\ lastFull[r] # day
  /\ lastFull' = [lastFull EXCEPT ![r] = day]
  /\ Spend("admin")
  /\ UNCHANGED <<ruleVars, healthVars, pass, preview, day, historyVars>>

-----------------------------------------------------------------------------
Report(r) ==
  CountFailure(r) \/ DegradeRule(r) \/ ReportIncident(r) \/ ClearFailures(r) \/ ResolveIncident(r)

Scheduler ==
  \/ ListRules
  \/ \E r \in Rules :
       \/ StartRule(r) \/ SkipRule(r) \/ RetryRun(r) \/ Report(r)
       \/ \E listed \in BOOLEAN : RunSucceeds(r, listed)
       \/ \E kind \in Kinds : RunFails(r, kind)

Administrator ==
  \/ PreviewSucceeds \/ RecoveryBlocked
  \/ \E kind \in Kinds : PreviewFails(kind)
  \/ \E r \in Rules : \/ StartPreview(r) \/ EnableRule(r) \/ PauseRule(r) \/ DisconnectRule(r)
                      \/ RemoveRule(r) \/ RunByHand(r)

Next == Scheduler \/ Administrator \/ CutReport \/ Restart \/ NewDay

Spec == Init /\ [][Next]_vars

\* run_forever survives every failure of a pass.
FairSpec == Spec /\ WF_vars(Scheduler)

-----------------------------------------------------------------------------
ReportPending(r) == Reporting /\ RunOf(r)

\* A transient condition opens the Incident at the third consecutive scheduled run that failed,
\* not sooner and not later, however runs, pauses, retries and recoveries alternate
\* (CONTEXT.md, Provider Incident).  Reports that failed are not counted, hence unreported.
ThirdFailureOpens ==
  \A r \in Rules : Exists(r) /\ ~ReportPending(r) /\ r \notin unreported =>
    /\ streak[r] = Threshold => Open(r)
    /\ Open(r) /\ incident[r].cause = "transient" => streak[r] = Threshold

\* A rule that a failed run stopped has an open Incident that says what stopped it, or the
\* scheduler is about to open it: nothing resolves it while the rule is stopped.
StoppedIsExplained ==
  \A r \in stopped \ unreported :
    \/ Open(r) /\ incident[r].cause \in Stopping
    \/ pass.at = "opening" /\ RunOf(r)

\* An episode of an Incident is announced once, whoever reports to it: the scheduler at the end
\* of a run or a preview that recovers the rule.
AnnouncedOnce == \A r \in Rules : notices[r] <= 1

\* A removed rule keeps no count and none of the Incidents it had, although a run or a preview
\* that failed before is reported afterwards; an Incident that is open was opened by such a report.
RemovedIsSettled ==
  \A r \in Rules : ~Exists(r) => failures[r] = 0 /\ (Open(r) => notices[r] > 0)

\* Counts, retries and Incidents stay in their range, each episode is announced once, and a
\* removal settles them all.
IncidentsInv == TypeOK /\ AnnouncedOnce /\ RemovedIsSettled

\* Once rules stay enabled and nothing fails any more, each has had its full pass today and no
\* Provider Incident is left open.
HealthyInTheEnd ==
  <>[](\A r \in Rules : rule[r] = "enabled")
    => <>[](\A r \in Rules : ~Open(r) /\ lastFull[r] = day)
=============================================================================
