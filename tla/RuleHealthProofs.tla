-------------------------- MODULE RuleHealthProofs --------------------------
(***************************************************************************)
(* What RuleHealth guarantees for any rules, thresholds and schedules: a   *)
(* rule's count of failures follows the failed runs, the Incident opens at *)
(* the threshold and not before, a stopped rule is explained, and a        *)
(* removed rule leaves nothing behind.                                     *)
(*                                                                         *)
(* The invariant follows a run to the end of its report: what the count    *)
(* lacks while a report is under way, and which of the rule's Incident,    *)
(* count and state the next transaction of the report will settle.         *)
(***************************************************************************)
EXTENDS RuleHealth, TLAPS

Failing == {"failed", "degrading", "opening"}
Succeeding == {"succeeded", "cleared"}

\* Whoever is at work works on a rule; a report of a failure knows its kind.
AtWork ==
  /\ pass.at \notin {"idle", "between"} => pass.rule \in Rules
  /\ pass.at \in Failing => pass.kind \in Kinds
  /\ pass.at = "degrading" => pass.kind \in Stopping
  /\ preview.at # "none" => preview.rule \in Rules

Noticed == \A r \in Rules : Open(r) => notices[r] > 0

\* The failure whose report has not begun.
Uncounted(r) == IF pass.at = "failed" /\ RunOf(r) THEN 1 ELSE 0

CountsLeft == \A r \in Rules : failures[r] + Uncounted(r) + left.failures <= MaxFailures

StoppedStays == \A r \in stopped : rule[r] = "degraded"

\* The rule that ran was enabled, and only the end of the report of a failure stops it.
NotYetStopped ==
  (\/ pass.at \in Succeeding \cup {"failed", "degrading"}
   \/ pass.at = "opening" /\ pass.kind = "transient") => pass.rule \notin stopped

Capped(n) == IF n < Threshold THEN n ELSE Threshold

\* A rule whose reports were all made.
Known(r) == Exists(r) /\ r \notin unreported

\* The count is the streak, but for the report under way.
StreakCounted ==
  \A r \in Rules :
    /\ Known(r) /\ ~(pass.at \in Succeeding /\ RunOf(r)) =>
         streak[r] = Capped(failures[r] + Uncounted(r))
    /\ pass.at \in Succeeding /\ RunOf(r) => streak[r] = 0
    /\ pass.at = "cleared" /\ RunOf(r) => failures[r] = 0

\* The Incident is open at the threshold unless a report is about to open it; one that a
\* transient failure opened is at the threshold unless a report is about to resolve it.
IncidentAtThreshold ==
  \A r \in Rules : Known(r) =>
    /\ ~(pass.at \in Failing /\ RunOf(r)) => (streak[r] = Threshold => Open(r))
    /\ ~(pass.at \in Succeeding /\ RunOf(r)) =>
         (Open(r) /\ incident[r].cause = "transient" => streak[r] = Threshold)
    /\ pass.at = "opening" /\ RunOf(r) /\ pass.kind = "transient" => streak[r] = Threshold

Inv ==
  /\ TypeOK /\ AtWork /\ CountsLeft
  /\ AnnouncedOnce /\ Noticed /\ RemovedIsSettled
  /\ StoppedStays /\ NotYetStopped /\ StoppedIsExplained
  /\ StreakCounted /\ IncidentAtThreshold

-----------------------------------------------------------------------------
(***************************************************************************)
(* The steps, by what they can disturb.                                    *)
(***************************************************************************)
\* The scheduler moves on without a result.
Moving == ListRules \/ \E r \in Rules : StartRule(r) \/ SkipRule(r) \/ RetryRun(r)

Ending(r) == (\E listed \in BOOLEAN : RunSucceeds(r, listed)) \/ \E kind \in Kinds : RunFails(r, kind)

LEMMA Steps ==
  Next => \/ Moving
          \/ \E r \in Rules : Ending(r) \/ Report(r)
          \/ CutReport \/ Restart
          \/ Administrator \/ NewDay
  BY DEF Next, Scheduler, Moving, Ending

LEMMA SpendTyped ==
  ASSUME TypeOK, NEW what \in {"failures", "admin", "cuts"}, Spend(what)
  PROVE  /\ left' \in [failures : 0..MaxFailures, admin : 0..MaxAdmin, cuts : 0..MaxCuts]
         /\ left'.failures = IF what = "failures" THEN left.failures - 1 ELSE left.failures
<1>1. left \in [failures : 0..MaxFailures, admin : 0..MaxAdmin, cuts : 0..MaxCuts] BY DEF TypeOK
<1>2. left' = [left EXCEPT ![what] = left[what] - 1] /\ left[what] > 0 BY DEF Spend
<1>3. CASE what = "failures" BY <1>1, <1>2, <1>3, HealthAssumption
<1>4. CASE what = "admin" BY <1>1, <1>2, <1>4, HealthAssumption
<1>5. CASE what = "cuts" BY <1>1, <1>2, <1>5, HealthAssumption
<1> QED BY <1>3, <1>4, <1>5

-----------------------------------------------------------------------------
(***************************************************************************)
(* What each group of steps does to the pass and to one rule.              *)
(***************************************************************************)
PassTyped(p) ==
  p \in [at : {"idle", "between", "running", "succeeded", "cleared", "failed", "degrading", "opening"},
         due : [Rules -> {"changes", "full", None}], rule : Rules \cup {None},
         tries : 0..Attempts, kind : Kinds \cup {None}]

LEMMA IdleTyped == PassTyped(Idle)
  BY HealthAssumption DEF PassTyped, Idle

LEMMA BetweenTyped ==
  ASSUME NEW due \in [Rules -> {"changes", "full", None}]
  PROVE  /\ PassTyped([Idle EXCEPT !.at = "between", !.due = due])
         /\ [Idle EXCEPT !.at = "between", !.due = due].at = "between"
<1>1. PassTyped(Idle) BY IdleTyped
<1> QED BY <1>1 DEF PassTyped

LEMMA FinishedFacts ==
  ASSUME TypeOK, NEW r \in Rules
  PROVE  PassTyped(Finished(r)) /\ Finished(r).at \in {"idle", "between"}
<1>1. pass.due \in [Rules -> {"changes", "full", None}] BY DEF TypeOK
<1> DEFINE due == [pass.due EXCEPT ![r] = None]
<1>2. Finished(r) = IF \A q \in Rules : due[q] = None THEN Idle
                    ELSE [Idle EXCEPT !.at = "between", !.due = due]
  BY DEF Finished
<1>3. due \in [Rules -> {"changes", "full", None}] BY <1>1
<1> HIDE DEF due
<1>4. Idle.at = "idle" BY DEF Idle
<1> QED BY <1>2, <1>3, <1>4, IdleTyped, BetweenTyped

LEMMA MovingFacts ==
  ASSUME TypeOK, AtWork, Moving
  PROVE  /\ UNCHANGED <<ruleVars, healthVars, preview, dayVars, historyVars, left>>
         /\ PassTyped(pass') /\ pass.at \in {"idle", "between", "running"}
         /\ pass'.at \in {"idle", "between", "running"}
         /\ pass'.at = "running" => pass'.rule \in Rules
<1>0. PassTyped(pass) BY DEF TypeOK, PassTyped
<1>1. CASE ListRules
  <2> DEFINE due == [r \in Rules |-> CASE rule[r] # "enabled" -> None
                                        [] FullPassDue(r) -> "full"
                                        [] OTHER -> "changes"]
  <2>1. pass' = [Idle EXCEPT !.at = "between", !.due = due] BY <1>1 DEF ListRules
  <2>2. due \in [Rules -> {"changes", "full", None}] OBVIOUS
  <2> HIDE DEF due
  <2>3. PassTyped(pass') /\ pass'.at = "between" BY <2>1, <2>2, BetweenTyped
  <2> QED BY <1>1, <2>3 DEF ListRules
<1>2. ASSUME NEW r \in Rules, StartRule(r)
      PROVE  PassTyped(pass') /\ pass'.at = "running" /\ pass'.rule \in Rules
  <2>1. 1 \in 0..Attempts BY HealthAssumption
  <2> QED BY <1>0, <1>2, <2>1 DEF StartRule, PassTyped
<1>3. ASSUME NEW r \in Rules, SkipRule(r)
      PROVE  PassTyped(pass') /\ pass'.at \in {"idle", "between"}
  BY <1>3, FinishedFacts DEF SkipRule
<1>4. ASSUME NEW r \in Rules, RetryRun(r)
      PROVE  PassTyped(pass') /\ pass'.at = "running" /\ pass'.rule \in Rules
  <2>1. pass.tries + 1 \in 0..Attempts BY <1>0, <1>4, HealthAssumption DEF RetryRun, PassTyped
  <2> QED BY <1>0, <1>4, <2>1 DEF RetryRun, PassTyped, RunOf
<1>5. (\E r \in Rules : StartRule(r) \/ SkipRule(r) \/ RetryRun(r)) =>
        /\ UNCHANGED <<ruleVars, healthVars, preview, dayVars, historyVars, left>>
        /\ pass.at \in {"between", "running"}
  BY DEF StartRule, SkipRule, RetryRun
<1> QED BY <1>1, <1>2, <1>3, <1>4, <1>5 DEF Moving

\* What the administrator, and a new day, do to a rule.
AdminSteps == Administrator \/ NewDay

LEMMA AdminFrame ==
  ASSUME TypeOK, AtWork, AdminSteps
  PROVE  /\ UNCHANGED <<pass, historyVars>>
         /\ left'.failures = left.failures
         /\ stopped' \subseteq stopped
         /\ \A r \in Rules : /\ Exists(r)' => Exists(r)
                             /\ rule'[r] = rule[r] \/ r \notin stopped'
<1>1. CASE NewDay
  BY <1>1 DEF NewDay, ruleVars, Exists
<1>2. CASE PreviewSucceeds
  BY <1>2 DEF PreviewSucceeds, SetRule, ruleVars, Exists, AtWork, TypeOK
<1>3. CASE RecoveryBlocked \/ \E kind \in Kinds : PreviewFails(kind)
  BY <1>3 DEF RecoveryBlocked, PreviewFails, ruleVars, Exists
<1>4. ASSUME NEW r \in Rules, StartPreview(r) \/ RunByHand(r)
      PROVE  UNCHANGED <<pass, historyVars, ruleVars>> /\ left'.failures = left.failures
  BY <1>4, SpendTyped DEF StartPreview, RunByHand
<1>5. ASSUME NEW r \in Rules, EnableRule(r) \/ PauseRule(r) \/ DisconnectRule(r) \/ RemoveRule(r)
      PROVE  /\ UNCHANGED <<pass, historyVars>> /\ left'.failures = left.failures
             /\ stopped' = stopped \ {r} /\ Exists(r)
             /\ \A q \in Rules \ {r} : rule'[q] = rule[q]
  <2>1. left'.failures = left.failures
    BY <1>5, SpendTyped DEF EnableRule, PauseRule, DisconnectRule, RemoveRule
  <2> QED BY <1>5, <2>1 DEF EnableRule, PauseRule, DisconnectRule, RemoveRule, SetRule, Exists, TypeOK
<1> QED
  <2>1. ASSUME NEW r \in Rules, EnableRule(r) \/ PauseRule(r) \/ DisconnectRule(r) \/ RemoveRule(r)
        PROVE  /\ stopped' \subseteq stopped
               /\ \A q \in Rules : (Exists(q)' => Exists(q)) /\ (rule'[q] = rule[q] \/ q \notin stopped')
    BY <1>5, <2>1 DEF Exists
  <2>2. ASSUME NEW r \in Rules, StartPreview(r) \/ RunByHand(r)
        PROVE  /\ stopped' \subseteq stopped
               /\ \A q \in Rules : (Exists(q)' => Exists(q)) /\ (rule'[q] = rule[q] \/ q \notin stopped')
    BY <1>4, <2>2 DEF Exists, ruleVars
  <2> QED BY <1>1, <1>2, <1>3, <1>4, <1>5, <2>1, <2>2 DEF AdminSteps, Administrator

\* What the administrator does to the health of a rule: nothing, or settle a removed rule, or
\* open the Incident of a recovery that failed.
LEMMA AdminHealth ==
  ASSUME TypeOK, AtWork, AdminSteps, NEW r \in Rules
  PROVE  \/ failures'[r] = failures[r] /\ incident'[r] = incident[r] /\ notices'[r] = notices[r]
         \/ /\ ~Exists(r)' /\ failures'[r] = 0 /\ notices'[r] = 0
            /\ incident'[r] \in Incidents /\ incident'[r].state # "open"
         \/ /\ failures'[r] = failures[r] /\ notices'[r] = (IF Open(r) THEN notices[r] ELSE 1)
            /\ incident'[r] = [state |-> "open", cause |-> "authorization"]
<1>1. CASE healthVars' = healthVars
  BY <1>1 DEF healthVars
<1>2. CASE RecoveryBlocked
  BY <1>2 DEF RecoveryBlocked, OpenIncident, TypeOK
<1>3. ASSUME NEW q \in Rules, RemoveRule(q)
      PROVE  \/ failures'[r] = failures[r] /\ incident'[r] = incident[r] /\ notices'[r] = notices[r]
             \/ /\ ~Exists(r)' /\ failures'[r] = 0 /\ notices'[r] = 0
                /\ incident'[r] \in Incidents /\ incident'[r].state # "open"
  <2>1. CASE r # q
    BY <1>3, <2>1 DEF RemoveRule, Resolve, TypeOK
  <2>2. CASE r = q
    <3>1. /\ failures'[r] = 0 /\ notices'[r] = 0 /\ rule'[r] = "removed"
          /\ incident'[r] = [incident[r] EXCEPT !.state = IF Open(r) THEN "resolved" ELSE incident[r].state]
      BY <1>3, <2>2 DEF RemoveRule, SetRule, Resolve, TypeOK
    <3>2. incident[r] \in Incidents BY DEF TypeOK
    <3> QED BY <3>1, <3>2 DEF Incidents, Open, Exists
  <2> QED BY <2>1, <2>2
<1>4. CASE NewDay \/ PreviewSucceeds \/ (\E kind \in Kinds : PreviewFails(kind))
           \/ \E q \in Rules : StartPreview(q) \/ EnableRule(q) \/ PauseRule(q) \/ DisconnectRule(q)
                               \/ RunByHand(q)
  BY <1>1, <1>4 DEF NewDay, PreviewSucceeds, PreviewFails, StartPreview, EnableRule, PauseRule,
    DisconnectRule, RunByHand
<1> QED BY <1>2, <1>3, <1>4 DEF AdminSteps, Administrator

-----------------------------------------------------------------------------
(***************************************************************************)
(* The transactions of a report.                                           *)
(***************************************************************************)
\* CountFailure.
LEMMA CountFacts ==
  ASSUME TypeOK, AtWork, NEW r \in Rules, CountFailure(r)
  PROVE  /\ UNCHANGED <<ruleVars, incident, notices, preview, dayVars, historyVars, left>>
         /\ pass.at = "failed" /\ pass.rule = r
         /\ failures' = [failures EXCEPT ![r] = IF Exists(r) THEN failures[r] + 1 ELSE 0]
         /\ \/ pass.kind \in Stopping /\ pass' = [pass EXCEPT !.at = "degrading"]
            \/ /\ pass.kind \notin Stopping
               /\ (IF Exists(r) THEN failures[r] + 1 ELSE 1) >= Threshold
               /\ pass' = [pass EXCEPT !.at = "opening"]
            \/ /\ pass.kind \notin Stopping
               /\ ~((IF Exists(r) THEN failures[r] + 1 ELSE 1) >= Threshold)
               /\ pass' = Finished(r)
<1>1. PICK n : n = IF Exists(r) THEN failures[r] + 1 ELSE 1 OBVIOUS
<1>2. pass' = CASE pass.kind \in Stopping -> [pass EXCEPT !.at = "degrading"]
                [] pass.kind \notin Stopping /\ (pass.kind \in Stopping \/ n >= Threshold)
                     -> [pass EXCEPT !.at = "opening"]
                [] OTHER -> Finished(r)
  BY <1>1 DEF CountFailure, AfterFailure
<1>3. \/ pass.kind \in Stopping /\ pass' = [pass EXCEPT !.at = "degrading"]
      \/ pass.kind \notin Stopping /\ n >= Threshold /\ pass' = [pass EXCEPT !.at = "opening"]
      \/ pass.kind \notin Stopping /\ ~(n >= Threshold) /\ pass' = Finished(r)
  BY <1>2
<1> QED BY <1>1, <1>3 DEF CountFailure, Recorded, RunOf

\* DegradeRule: the Incident of a failure that stops a rule is always opened next.
LEMMA DegradeFacts ==
  ASSUME TypeOK, AtWork, NEW r \in Rules, DegradeRule(r)
  PROVE  /\ UNCHANGED <<healthVars, preview, dayVars, historyVars, left>>
         /\ pass.at = "degrading" /\ pass.rule = r /\ pass.kind \in Stopping
         /\ pass' = [pass EXCEPT !.at = "opening"]
         /\ \A q \in Rules \ {r} : rule'[q] = rule[q] /\ (q \in stopped' <=> q \in stopped)
         /\ \/ rule'[r] = "degraded" /\ rule[r] = "enabled" /\ stopped' = stopped \cup {r}
            \/ rule' = rule /\ stopped' = stopped
<1>1. pass.kind \in Stopping BY DEF DegradeRule, AtWork
<1>2. AfterFailure(pass.kind, failures[r]).open BY <1>1 DEF AfterFailure
<1> QED BY <1>1, <1>2 DEF DegradeRule, RunOf, ruleVars, TypeOK

LEMMA ReportFacts ==
  ASSUME TypeOK, AtWork, NEW r \in Rules, ReportIncident(r)
  PROVE  /\ UNCHANGED <<ruleVars, failures, preview, dayVars, historyVars, left>>
         /\ pass.at = "opening" /\ pass.rule = r /\ pass.kind \in Kinds
         /\ incident' = [incident EXCEPT ![r] = [state |-> "open", cause |-> pass.kind]]
         /\ notices' = [notices EXCEPT ![r] = IF Open(r) THEN notices[r] ELSE 1]
         /\ PassTyped(pass') /\ pass'.at \in {"idle", "between"}
  BY FinishedFacts DEF ReportIncident, OpenIncident, RunOf, AtWork, Failing

LEMMA ResolveFacts ==
  ASSUME TypeOK, AtWork, NEW r \in Rules, ResolveIncident(r)
  PROVE  /\ UNCHANGED <<ruleVars, failures, preview, dayVars, streak, left>>
         /\ pass.at = "cleared" /\ pass.rule = r
         /\ unreported' = unreported \ {r}
         /\ \A q \in Rules \ {r} : incident'[q] = incident[q] /\ notices'[q] = notices[q]
         /\ incident' \in [Rules -> Incidents] /\ notices' \in [Rules -> Nat]
         /\ incident'[r].state # "open" /\ notices'[r] = 0
         /\ PassTyped(pass') /\ pass'.at \in {"idle", "between"}
<1>1. incident[r] \in Incidents BY DEF TypeOK
<1>2. incident' = [incident EXCEPT ![r] =
        [incident[r] EXCEPT !.state = IF Open(r) THEN "resolved" ELSE incident[r].state]]
  BY DEF ResolveIncident, Resolve
<1>3. notices' = [notices EXCEPT ![r] = 0] BY DEF ResolveIncident, Resolve
<1>4. incident' \in [Rules -> Incidents] BY <1>1, <1>2 DEF TypeOK, Incidents
<1>5. incident'[r].state # "open" BY <1>1, <1>2 DEF TypeOK, Incidents, Open
<1> QED BY <1>2, <1>3, <1>4, <1>5, FinishedFacts DEF ResolveIncident, RunOf, TypeOK

\* A report that is cut short, or a restart, leaves the pass at rest and the rule unreported.
LEMMA CutFacts ==
  ASSUME TypeOK, AtWork, CutReport \/ Restart
  PROVE  /\ UNCHANGED <<ruleVars, healthVars, dayVars, streak>>
         /\ PassTyped(pass') /\ pass'.at \in {"idle", "between"}
         /\ unreported' = (IF Reporting THEN unreported \cup {pass.rule} ELSE unreported)
         /\ Reporting => pass.rule \in Rules
         /\ preview' = preview \/ preview' = NoPreview
         /\ left' \in [failures : 0..MaxFailures, admin : 0..MaxAdmin, cuts : 0..MaxCuts]
         /\ left'.failures = left.failures
<1>1. Idle.at = "idle" BY DEF Idle
<1>2. Reporting => pass.rule \in Rules BY DEF Reporting, AtWork
<1>3. CASE CutReport
  BY <1>1, <1>2, <1>3, IdleTyped, FinishedFacts, SpendTyped DEF CutReport
<1>4. CASE Restart
  BY <1>1, <1>2, <1>4, IdleTyped, SpendTyped DEF Restart
<1> QED BY <1>3, <1>4

\* The end of a run.
LEMMA EndingFacts ==
  ASSUME TypeOK, AtWork, NEW r \in Rules, Ending(r)
  PROVE  /\ UNCHANGED <<ruleVars, healthVars, preview, day, unreported>>
         /\ pass.at = "running" /\ pass.rule = r /\ rule[r] = "enabled"
         /\ lastFull' \in [Rules -> 0..MaxDay \cup {None}]
         /\ left' \in [failures : 0..MaxFailures, admin : 0..MaxAdmin, cuts : 0..MaxCuts]
         /\ \/ /\ pass' = [pass EXCEPT !.at = "succeeded"] /\ left' = left
               /\ streak' = [streak EXCEPT ![r] = 0]
            \/ /\ \E kind \in Kinds : pass' = [pass EXCEPT !.at = "failed", !.kind = kind]
               /\ left'.failures = left.failures - 1
               /\ streak' = [streak EXCEPT ![r] = IF streak[r] < Threshold THEN streak[r] + 1
                                                  ELSE streak[r]]
<1>1. ASSUME NEW listed \in BOOLEAN, RunSucceeds(r, listed)
      PROVE  lastFull' \in [Rules -> 0..MaxDay \cup {None}]
  BY <1>1 DEF RunSucceeds, TypeOK
<1>2. (\E listed \in BOOLEAN : RunSucceeds(r, listed)) =>
        /\ UNCHANGED <<ruleVars, healthVars, preview, day, unreported>>
        /\ pass.at = "running" /\ pass.rule = r /\ rule[r] = "enabled"
        /\ pass' = [pass EXCEPT !.at = "succeeded"] /\ left' = left
        /\ streak' = [streak EXCEPT ![r] = 0]
  BY DEF RunSucceeds, RunOf
<1>3. (\E kind \in Kinds : RunFails(r, kind)) =>
        /\ UNCHANGED <<ruleVars, healthVars, preview, dayVars, unreported>>
        /\ pass.at = "running" /\ pass.rule = r /\ rule[r] = "enabled"
        /\ \E kind \in Kinds : pass' = [pass EXCEPT !.at = "failed", !.kind = kind]
        /\ Spend("failures")
        /\ streak' = [streak EXCEPT ![r] = IF streak[r] < Threshold THEN streak[r] + 1
                                           ELSE streak[r]]
  BY DEF RunFails, RunOf
<1>4. CASE \E listed \in BOOLEAN : RunSucceeds(r, listed)
  BY <1>1, <1>2, <1>4 DEF TypeOK
<1>5. CASE \E kind \in Kinds : RunFails(r, kind)
  BY <1>3, <1>5, SpendTyped DEF dayVars, TypeOK
<1> QED BY <1>4, <1>5 DEF Ending

-----------------------------------------------------------------------------
(***************************************************************************)
(* Types.                                                                  *)
(***************************************************************************)
LEMMA PassIsTyped == TypeOK => PassTyped(pass)
  BY DEF TypeOK, PassTyped

LEMMA PassAdvances ==
  ASSUME TypeOK,
         NEW at \in {"succeeded", "cleared", "failed", "degrading", "opening"}, NEW kind \in Kinds
  PROVE  /\ PassTyped([pass EXCEPT !.at = at])
         /\ PassTyped([pass EXCEPT !.at = at, !.kind = kind])
<1>1. PassTyped(pass) BY PassIsTyped
<1> QED BY <1>1 DEF PassTyped

LEMMA TypeScheduler ==
  ASSUME TypeOK, AtWork, CountsLeft, Moving \/ CutReport \/ Restart PROVE TypeOK'
<1> USE DEF ruleVars, healthVars, dayVars, historyVars
<1>1. CASE Moving
  <2>1. PassTyped(pass') BY <1>1, MovingFacts
  <2> QED BY <1>1, <2>1, MovingFacts DEF TypeOK, PassTyped
<1>2. CASE CutReport \/ Restart
  <2>1. PassTyped(pass') BY <1>2, CutFacts
  <2>2. unreported' \subseteq Rules BY <1>2, CutFacts DEF TypeOK
  <2>3. preview' \in [at : {"none", "reading", "refused"}, rule : Rules \cup {None},
                      recovering : BOOLEAN]
    <3>1. preview' = preview \/ preview' = NoPreview BY <1>2, CutFacts
    <3>2. NoPreview \in [at : {"none", "reading", "refused"}, rule : Rules \cup {None},
                         recovering : BOOLEAN]
      BY DEF NoPreview
    <3>3. preview \in [at : {"none", "reading", "refused"}, rule : Rules \cup {None},
                       recovering : BOOLEAN]
      BY DEF TypeOK
    <3> QED BY <3>1, <3>2, <3>3
  <2> QED BY <1>2, <2>1, <2>2, <2>3, CutFacts DEF TypeOK, PassTyped
<1> QED BY <1>1, <1>2

LEMMA TypeEnding == ASSUME TypeOK, AtWork, NEW r \in Rules, Ending(r) PROVE TypeOK'
<1> USE DEF ruleVars, healthVars
<1>1. PassTyped(pass')
  BY EndingFacts, PassAdvances DEF Kinds
<1>2. streak' \in [Rules -> 0..Threshold]
  <2>1. streak \in [Rules -> 0..Threshold] BY DEF TypeOK
  <2>2. PICK n : /\ streak' = [streak EXCEPT ![r] = n]
                 /\ n = 0 \/ n = (IF streak[r] < Threshold THEN streak[r] + 1 ELSE streak[r])
    BY EndingFacts
  <2>3. n \in 0..Threshold BY <2>1, <2>2, HealthAssumption
  <2> QED BY <2>1, <2>2, <2>3
<1> QED BY <1>1, <1>2, EndingFacts DEF TypeOK, PassTyped

LEMMA TypeReport == ASSUME TypeOK, AtWork, CountsLeft, NEW r \in Rules, Report(r) PROVE TypeOK'
<1> USE DEF ruleVars, healthVars, dayVars, historyVars
<1>1. CASE CountFailure(r)
  <2>1. PassTyped(pass')
    BY <1>1, CountFacts, PassAdvances, FinishedFacts DEF Kinds
  <2>2. failures[r] + 1 + left.failures <= MaxFailures
    BY <1>1, CountFacts DEF CountsLeft, Uncounted, RunOf
  <2>3. failures[r] \in 0..MaxFailures /\ left.failures \in 0..MaxFailures BY DEF TypeOK
  <2>4. failures[r] + 1 \in 0..MaxFailures /\ 0 \in 0..MaxFailures
    BY <2>2, <2>3, HealthAssumption
  <2>5. failures' \in [Rules -> 0..MaxFailures] BY <1>1, <2>4, CountFacts DEF TypeOK
  <2> QED BY <1>1, <2>1, <2>5, CountFacts DEF TypeOK, PassTyped
<1>2. CASE DegradeRule(r)
  <2>1. PassTyped(pass') BY <1>2, DegradeFacts, PassAdvances DEF Kinds
  <2>2. rule' \in [Rules -> RuleStates] /\ stopped' \subseteq Rules
    BY <1>2 DEF DegradeRule, TypeOK, RuleStates
  <2> QED BY <1>2, <2>1, <2>2, DegradeFacts DEF TypeOK, PassTyped
<1>3. CASE ReportIncident(r)
  <2>1. incident' \in [Rules -> Incidents] BY <1>3, ReportFacts DEF TypeOK, Incidents
  <2>2. notices' \in [Rules -> Nat] BY <1>3, ReportFacts DEF TypeOK
  <2> QED BY <1>3, <2>1, <2>2, ReportFacts DEF TypeOK, PassTyped
<1>4. CASE ClearFailures(r)
  <2>1. PassTyped(pass') BY <1>4, PassAdvances DEF ClearFailures, Kinds
  <2>2. failures' \in [Rules -> 0..MaxFailures]
    BY <1>4, HealthAssumption DEF ClearFailures, Clear, TypeOK
  <2> QED BY <1>4, <2>1, <2>2 DEF TypeOK, PassTyped, ClearFailures
<1>5. CASE ResolveIncident(r)
  BY <1>5, ResolveFacts DEF TypeOK, PassTyped
<1> QED BY <1>1, <1>2, <1>3, <1>4, <1>5 DEF Report

LEMMA TypeAdmin == ASSUME TypeOK, AtWork, AdminSteps PROVE TypeOK'
<1> USE DEF ruleVars, healthVars, dayVars, historyVars, RuleStates
<1>1. CASE NewDay
  <2>1. day' \in 0..MaxDay BY <1>1, HealthAssumption DEF NewDay, TypeOK
  <2> QED BY <1>1, <2>1 DEF TypeOK, NewDay
<1>2. CASE PreviewSucceeds
  <2>1. rule' \in [Rules -> RuleStates] /\ stopped' \subseteq Rules
    BY <1>2 DEF PreviewSucceeds, SetRule, TypeOK
  <2> QED BY <1>2, <2>1 DEF TypeOK, PreviewSucceeds, NoPreview
<1>3. ASSUME NEW kind \in Kinds, PreviewFails(kind) PROVE TypeOK'
  BY <1>3 DEF TypeOK, PreviewFails, NoPreview
<1>4. CASE RecoveryBlocked
  <2>1. incident' \in [Rules -> Incidents] /\ notices' \in [Rules -> Nat]
    BY <1>4 DEF RecoveryBlocked, OpenIncident, TypeOK, Incidents, Kinds
  <2> QED BY <1>4, <2>1 DEF TypeOK, RecoveryBlocked, NoPreview
<1>5. ASSUME NEW r \in Rules, StartPreview(r) PROVE TypeOK'
  <2>1. left' \in [failures : 0..MaxFailures, admin : 0..MaxAdmin, cuts : 0..MaxCuts]
    BY <1>5, SpendTyped DEF StartPreview
  <2> QED BY <1>5, <2>1 DEF TypeOK, StartPreview
<1>6. ASSUME NEW r \in Rules, EnableRule(r) \/ PauseRule(r) \/ DisconnectRule(r) PROVE TypeOK'
  <2>1. left' \in [failures : 0..MaxFailures, admin : 0..MaxAdmin, cuts : 0..MaxCuts]
    BY <1>6, SpendTyped DEF EnableRule, PauseRule, DisconnectRule, TypeOK
  <2> QED BY <1>6, <2>1 DEF TypeOK, EnableRule, PauseRule, DisconnectRule, SetRule
<1>7. ASSUME NEW r \in Rules, RemoveRule(r) PROVE TypeOK'
  <2>1. left' \in [failures : 0..MaxFailures, admin : 0..MaxAdmin, cuts : 0..MaxCuts]
    BY <1>7, SpendTyped DEF RemoveRule
  <2>2. incident' = [incident EXCEPT ![r] =
          [incident[r] EXCEPT !.state = IF Open(r) THEN "resolved" ELSE incident[r].state]]
    BY <1>7 DEF RemoveRule, Resolve
  <2>3. incident' \in [Rules -> Incidents] BY <2>2 DEF TypeOK, Incidents
  <2>4. notices' \in [Rules -> Nat] /\ failures' \in [Rules -> 0..MaxFailures]
    BY <1>7, HealthAssumption DEF RemoveRule, Resolve, TypeOK
  <2>5. rule' \in [Rules -> RuleStates] /\ stopped' \subseteq Rules
    BY <1>7 DEF RemoveRule, SetRule, TypeOK
  <2> QED BY <1>7, <2>1, <2>3, <2>4, <2>5 DEF TypeOK, RemoveRule
<1>8. ASSUME NEW r \in Rules, RunByHand(r) PROVE TypeOK'
  <2>1. left' \in [failures : 0..MaxFailures, admin : 0..MaxAdmin, cuts : 0..MaxCuts]
    BY <1>8, SpendTyped DEF RunByHand
  <2> QED BY <1>8, <2>1 DEF TypeOK, RunByHand
<1> QED BY <1>1, <1>2, <1>3, <1>4, <1>5, <1>6, <1>7, <1>8 DEF AdminSteps, Administrator

LEMMA KeepsTypeOK == ASSUME TypeOK, AtWork, CountsLeft, Next PROVE TypeOK'
  BY Steps, TypeScheduler, TypeEnding, TypeReport, TypeAdmin DEF AdminSteps

LEMMA KeepsAtWork == ASSUME TypeOK, AtWork, Next PROVE AtWork'
<1>1. ASSUME pass' = pass, AdminSteps PROVE AtWork'
  <2>1. preview'.at # "none" => preview'.rule \in Rules
    BY <1>1 DEF AdminSteps, NewDay, Administrator, PreviewSucceeds, PreviewFails, RecoveryBlocked,
      StartPreview, EnableRule, PauseRule, DisconnectRule, RemoveRule, RunByHand, NoPreview, AtWork, TypeOK
  <2> QED BY <1>1, <2>1 DEF AtWork
<1>2. ASSUME preview' = preview \/ preview' = NoPreview, pass'.at \in {"idle", "between", "running"},
             pass'.at = "running" => pass'.rule \in Rules
      PROVE  AtWork'
  BY <1>2 DEF AtWork, NoPreview, Failing
<1>3. ASSUME NEW r \in Rules, Ending(r) PROVE AtWork'
  <2>1. pass'.rule = r /\ (pass'.at = "succeeded" \/ (pass'.at = "failed" /\ pass'.kind \in Kinds))
    BY <1>3, EndingFacts DEF TypeOK
  <2>2. preview' = preview BY <1>3, EndingFacts
  <2> QED BY <2>1, <2>2 DEF AtWork, Failing
<1>4. ASSUME NEW r \in Rules, CountFailure(r) PROVE AtWork'
  <2>1. preview' = preview /\ pass.at = "failed" /\ pass.rule = r /\ pass.kind \in Kinds
    BY <1>4, CountFacts DEF AtWork, Failing
  <2>2. CASE pass' = Finished(r) BY <1>2, <2>1, <2>2, FinishedFacts
  <2>3. CASE pass.kind \in Stopping /\ pass' = [pass EXCEPT !.at = "degrading"]
    <3>1. pass'.at = "degrading" /\ pass'.rule = r /\ pass'.kind = pass.kind BY <2>1, <2>3 DEF TypeOK
    <3> QED BY <2>1, <2>3, <3>1 DEF AtWork
  <2>4. CASE pass' = [pass EXCEPT !.at = "opening"]
    <3>1. pass'.at = "opening" /\ pass'.rule = r /\ pass'.kind = pass.kind BY <2>1, <2>4 DEF TypeOK
    <3> QED BY <2>1, <3>1 DEF AtWork
  <2> QED BY <1>4, <2>2, <2>3, <2>4, CountFacts
<1>5. ASSUME NEW r \in Rules, DegradeRule(r) PROVE AtWork'
  <2>1. preview' = preview /\ pass.rule = r /\ pass.kind \in Kinds /\ pass' = [pass EXCEPT !.at = "opening"]
    BY <1>5, DegradeFacts DEF Stopping, Kinds
  <2>2. pass'.at = "opening" /\ pass'.rule = r /\ pass'.kind = pass.kind BY <2>1 DEF TypeOK
  <2> QED BY <2>1, <2>2 DEF AtWork
<1>6. ASSUME NEW r \in Rules, ClearFailures(r) PROVE AtWork'
  <2>1. pass'.at = "cleared" /\ pass'.rule = r /\ preview' = preview
    BY <1>6 DEF ClearFailures, RunOf, TypeOK
  <2> QED BY <2>1 DEF AtWork, Failing
<1>7. CASE \E r \in Rules : ReportIncident(r) \/ ResolveIncident(r)
  BY <1>2, <1>7, ReportFacts, ResolveFacts
<1>8. CASE Moving
  BY <1>2, <1>8, MovingFacts
<1>9. CASE CutReport \/ Restart
  BY <1>2, <1>9, CutFacts
<1>10. CASE AdminSteps
  BY <1>1, <1>10, AdminFrame
<1> QED BY <1>3, <1>4, <1>5, <1>6, <1>7, <1>8, <1>9, <1>10, Steps DEF Report, AdminSteps

-----------------------------------------------------------------------------
(***************************************************************************)
(* Where each step leaves the pass.                                        *)
(***************************************************************************)
LEMMA CountPass ==
  ASSUME TypeOK, AtWork, NEW r \in Rules, CountFailure(r)
  PROVE  /\ pass.at = "failed" /\ pass.rule = r /\ pass.kind \in Kinds
         /\ \/ pass.kind \in Stopping /\ pass'.at = "degrading" /\ pass'.rule = r
               /\ pass'.kind = pass.kind
            \/ /\ pass.kind = "transient" /\ pass'.at = "opening" /\ pass'.rule = r
               /\ pass'.kind = "transient" /\ (Exists(r) => failures[r] + 1 >= Threshold)
            \/ /\ pass.kind = "transient" /\ pass'.at \in {"idle", "between"}
               /\ Exists(r) => failures[r] + 1 < Threshold
<1>1. pass.kind \in Kinds /\ pass.at = "failed" /\ pass.rule = r
  BY CountFacts DEF AtWork, Failing
<1>2. pass.kind \in Stopping \/ pass.kind = "transient" BY <1>1 DEF Kinds, Stopping
<1>3. failures[r] \in Nat BY HealthAssumption DEF TypeOK
<1>4. CASE pass.kind \in Stopping /\ pass' = [pass EXCEPT !.at = "degrading"]
  <2>1. pass'.at = "degrading" /\ pass'.rule = r /\ pass'.kind = pass.kind
    BY <1>1, <1>4 DEF TypeOK
  <2> QED BY <1>1, <1>4, <2>1
<1>5. CASE /\ pass.kind \notin Stopping
           /\ (IF Exists(r) THEN failures[r] + 1 ELSE 1) >= Threshold
           /\ pass' = [pass EXCEPT !.at = "opening"]
  <2>1. pass'.at = "opening" /\ pass'.rule = r /\ pass'.kind = pass.kind
    BY <1>1, <1>5 DEF TypeOK
  <2> QED BY <1>1, <1>2, <1>5, <2>1
<1>6. CASE /\ pass.kind \notin Stopping
           /\ ~((IF Exists(r) THEN failures[r] + 1 ELSE 1) >= Threshold)
           /\ pass' = Finished(r)
  <2>1. Exists(r) => failures[r] + 1 < Threshold BY <1>3, <1>6, HealthAssumption
  <2> QED BY <1>1, <1>2, <1>6, <2>1, FinishedFacts
<1> QED BY <1>4, <1>5, <1>6, CountFacts

LEMMA DegradePass ==
  ASSUME TypeOK, AtWork, NEW r \in Rules, DegradeRule(r)
  PROVE  /\ pass.at = "degrading" /\ pass.rule = r /\ pass.kind \in Stopping
         /\ pass'.at = "opening" /\ pass'.rule = r /\ pass'.kind = pass.kind
  BY DegradeFacts DEF TypeOK

LEMMA ClearPass ==
  ASSUME TypeOK, NEW r \in Rules, ClearFailures(r)
  PROVE  /\ UNCHANGED <<ruleVars, incident, notices, preview, dayVars, historyVars, left>>
         /\ failures' = [failures EXCEPT ![r] = 0]
         /\ pass.at = "succeeded" /\ pass.rule = r /\ pass'.at = "cleared" /\ pass'.rule = r
  BY DEF ClearFailures, Clear, RunOf, TypeOK

LEMMA EndingPass ==
  ASSUME TypeOK, AtWork, NEW r \in Rules, Ending(r)
  PROVE  /\ pass.at = "running" /\ pass.rule = r /\ pass'.rule = r
         /\ \/ pass'.at = "succeeded" /\ left' = left /\ streak' = [streak EXCEPT ![r] = 0]
            \/ /\ pass'.at = "failed" /\ left'.failures = left.failures - 1
               /\ streak' = [streak EXCEPT ![r] = IF streak[r] < Threshold THEN streak[r] + 1
                                                  ELSE streak[r]]
<1>1. pass.rule = r /\ pass.at = "running" BY EndingFacts
<1>2. ASSUME pass' = [pass EXCEPT !.at = "succeeded"]
      PROVE  pass'.at = "succeeded" /\ pass'.rule = r
  BY <1>1, <1>2 DEF TypeOK
<1>3. ASSUME NEW kind \in Kinds, pass' = [pass EXCEPT !.at = "failed", !.kind = kind]
      PROVE  pass'.at = "failed" /\ pass'.rule = r
  BY <1>1, <1>3 DEF TypeOK
<1> QED BY <1>1, <1>2, <1>3, EndingFacts

-----------------------------------------------------------------------------
(***************************************************************************)
(* Counts and Incidents.                                                   *)
(***************************************************************************)
LEMMA KeepsCountsLeft == ASSUME TypeOK, AtWork, CountsLeft, Next PROVE CountsLeft'
<1> USE DEF Uncounted, RunOf
<1>0. /\ \A q \in Rules : failures[q] \in Nat
      /\ left.failures \in Nat
  BY HealthAssumption DEF TypeOK
<1>1. ASSUME failures' = failures, left'.failures = left.failures, pass'.at # "failed"
      PROVE  CountsLeft'
  BY <1>0, <1>1, HealthAssumption DEF CountsLeft
<1>2. CASE Moving
  BY <1>1, <1>2, MovingFacts DEF healthVars
<1>3. ASSUME NEW r \in Rules, Ending(r) PROVE CountsLeft'
  <2>1. failures' = failures /\ pass.at = "running" BY <1>3, EndingFacts DEF healthVars
  <2>2. CASE pass'.at = "succeeded" /\ left' = left BY <1>1, <2>1, <2>2
  <2>3. CASE pass'.at = "failed" /\ left'.failures = left.failures - 1
    BY <1>0, <2>1, <2>3, HealthAssumption DEF CountsLeft
  <2> QED BY <1>3, <2>2, <2>3, EndingPass
<1>4. ASSUME NEW r \in Rules, CountFailure(r) PROVE CountsLeft'
  <2>1. /\ pass.at = "failed" /\ pass.rule = r /\ pass'.at # "failed" /\ left' = left
        /\ failures' = [failures EXCEPT ![r] = IF Exists(r) THEN failures[r] + 1 ELSE 0]
    BY <1>4, CountPass, CountFacts
  <2>2. \A q \in Rules : failures'[q] <= failures[q] + Uncounted(q) /\ failures'[q] \in Nat
    BY <1>0, <2>1 DEF TypeOK
  <2> QED BY <1>0, <2>1, <2>2, HealthAssumption DEF CountsLeft
<1>5. ASSUME NEW r \in Rules, DegradeRule(r) \/ ReportIncident(r) \/ ResolveIncident(r) PROVE CountsLeft'
  <2>1. failures' = failures /\ left' = left BY <1>5, DegradeFacts, ReportFacts, ResolveFacts DEF healthVars
  <2>2. pass'.at # "failed" BY <1>5, DegradePass, ReportFacts, ResolveFacts
  <2> QED BY <1>1, <2>1, <2>2
<1>6. ASSUME NEW r \in Rules, ClearFailures(r) PROVE CountsLeft'
  <2>1. failures' = [failures EXCEPT ![r] = 0] /\ left' = left /\ pass'.at # "failed" BY <1>6, ClearPass
  <2>2. \A q \in Rules : failures'[q] <= failures[q] /\ failures'[q] \in Nat BY <1>0, <2>1 DEF TypeOK
  <2> QED BY <1>0, <2>1, <2>2, HealthAssumption DEF CountsLeft
<1>7. CASE CutReport \/ Restart
  BY <1>1, <1>7, CutFacts DEF healthVars
<1>8. CASE AdminSteps
  <2>1. pass' = pass /\ left'.failures = left.failures BY <1>8, AdminFrame
  <2>2. \A q \in Rules : failures'[q] <= failures[q] /\ failures'[q] \in Nat
    BY <1>0, <1>8, AdminHealth
  <2> QED BY <1>0, <2>1, <2>2, HealthAssumption DEF CountsLeft
<1> QED BY <1>2, <1>3, <1>4, <1>5, <1>6, <1>7, <1>8, Steps DEF Report, AdminSteps

\* Each Incident that is open was announced, once; a removed rule has no count.
Settled(r) ==
  /\ notices[r] <= 1
  /\ Open(r) => notices[r] > 0
  /\ ~Exists(r) => failures[r] = 0

LEMMA SettledAll == (\A r \in Rules : Settled(r)) <=> (AnnouncedOnce /\ Noticed /\ RemovedIsSettled)
  BY DEF Settled, AnnouncedOnce, Noticed, RemovedIsSettled

LEMMA KeepsSettled ==
  ASSUME TypeOK, AtWork, AnnouncedOnce, Noticed, RemovedIsSettled, Next
  PROVE  AnnouncedOnce' /\ Noticed' /\ RemovedIsSettled'
<1> USE DEF Settled, Open, Exists
<1>0. /\ \A q \in Rules : Settled(q) /\ notices[q] \in Nat
      /\ \A q \in Rules : incident[q] \in Incidents
  BY SettledAll DEF TypeOK
<1>1. ASSUME NEW q \in Rules, incident'[q] = incident[q], notices'[q] = notices[q],
             failures'[q] = failures[q] \/ failures'[q] = 0, Exists(q) => Exists(q)'
      PROVE  Settled(q)'
  BY <1>0, <1>1
<1>2. ASSUME UNCHANGED <<ruleVars, healthVars>>, NEW q \in Rules PROVE Settled(q)'
  BY <1>1, <1>2 DEF ruleVars, healthVars
<1>3. ASSUME NEW r \in Rules, CountFailure(r), NEW q \in Rules PROVE Settled(q)'
  <2>1. failures' = [failures EXCEPT ![r] = IF Exists(r) THEN failures[r] + 1 ELSE 0]
        /\ UNCHANGED <<ruleVars, incident, notices>>
    BY <1>3, CountFacts
  <2> QED BY <1>0, <1>1, <2>1 DEF ruleVars, TypeOK
<1>4. ASSUME NEW r \in Rules, DegradeRule(r), NEW q \in Rules PROVE Settled(q)'
  <2>1. UNCHANGED healthVars /\ (rule'[q] = rule[q] \/ rule'[q] = "degraded")
    BY <1>4, DegradeFacts
  <2> QED BY <1>1, <2>1 DEF healthVars
<1>5. ASSUME NEW r \in Rules, ReportIncident(r), NEW q \in Rules PROVE Settled(q)'
  <2>1. /\ UNCHANGED <<ruleVars, failures>>
        /\ incident' = [incident EXCEPT ![r] = [state |-> "open", cause |-> pass.kind]]
        /\ notices' = [notices EXCEPT ![r] = IF Open(r) THEN notices[r] ELSE 1]
    BY <1>5, ReportFacts
  <2> QED BY <1>0, <1>1, <2>1 DEF ruleVars, TypeOK
<1>6. ASSUME NEW r \in Rules, ClearFailures(r), NEW q \in Rules PROVE Settled(q)'
  <2>1. failures' = [failures EXCEPT ![r] = 0] /\ UNCHANGED <<ruleVars, incident, notices>>
    BY <1>6, ClearPass
  <2> QED BY <1>0, <1>1, <2>1 DEF ruleVars, TypeOK
<1>7. ASSUME NEW r \in Rules, ResolveIncident(r), NEW q \in Rules PROVE Settled(q)'
  <2>1. UNCHANGED <<ruleVars, failures>> BY <1>7, ResolveFacts
  <2>2. CASE q = r BY <1>0, <1>7, <2>1, <2>2, ResolveFacts DEF ruleVars
  <2>3. CASE q # r BY <1>0, <1>1, <1>7, <2>1, <2>3, ResolveFacts DEF ruleVars
  <2> QED BY <2>2, <2>3
<1>8. ASSUME AdminSteps, NEW q \in Rules PROVE Settled(q)'
  <2>1. Exists(q)' => Exists(q) BY <1>8, AdminFrame
  <2>2. ~Exists(q)' => failures'[q] = 0
    <3>1. CASE Exists(q) /\ ~Exists(q)'
      <4>1. RemoveRule(q) \/ failures'[q] = 0
        BY <1>8, <3>1 DEF AdminSteps, Administrator, NewDay, PreviewSucceeds, PreviewFails,
          RecoveryBlocked, StartPreview, EnableRule, PauseRule, DisconnectRule, RemoveRule, RunByHand,
          SetRule, ruleVars, TypeOK, AtWork
      <4> QED BY <4>1 DEF RemoveRule, TypeOK
    <3>2. CASE ~Exists(q) BY <1>0, <1>8, <3>2, AdminHealth
    <3> QED BY <3>1, <3>2
  <2> QED BY <1>0, <1>8, <2>2, AdminHealth
<1>9. (Moving \/ (\E r \in Rules : Ending(r)) \/ CutReport \/ Restart) => UNCHANGED <<ruleVars, healthVars>>
  BY MovingFacts, EndingFacts, CutFacts
<1>10. \A q \in Rules : Settled(q)'
  BY <1>2, <1>3, <1>4, <1>5, <1>6, <1>7, <1>8, <1>9, Steps DEF Report, AdminSteps
<1> QED BY <1>10 DEF AnnouncedOnce, Noticed, RemovedIsSettled

-----------------------------------------------------------------------------
(***************************************************************************)
(* Rules that a failed run stopped.                                        *)
(***************************************************************************)
\* The steps that leave the rules and what stopped them alone, except DegradeRule and people.
LEMMA RulesUntouched ==
  ASSUME TypeOK, AtWork,
         \/ Moving \/ CutReport \/ Restart
         \/ \E r \in Rules : \/ Ending(r) \/ CountFailure(r) \/ ReportIncident(r)
                             \/ ClearFailures(r) \/ ResolveIncident(r)
  PROVE  rule' = rule /\ stopped' = stopped
  BY MovingFacts, CutFacts, EndingFacts, CountFacts, ReportFacts, ClearPass, ResolveFacts DEF ruleVars

LEMMA KeepsStoppedStays == ASSUME TypeOK, AtWork, StoppedStays, Next PROVE StoppedStays'
<1>1. CASE rule' = rule /\ stopped' = stopped
  BY <1>1 DEF StoppedStays
<1>2. ASSUME NEW r \in Rules, DegradeRule(r) PROVE StoppedStays'
  BY <1>2, DegradeFacts DEF StoppedStays, TypeOK
<1>3. CASE AdminSteps
  BY <1>3, AdminFrame DEF StoppedStays, TypeOK
<1> QED BY <1>1, <1>2, <1>3, Steps, RulesUntouched DEF Report, AdminSteps

LEMMA KeepsNotYetStopped ==
  ASSUME TypeOK, AtWork, StoppedStays, NotYetStopped, Next PROVE NotYetStopped'
<1> USE DEF Succeeding
<1>1. CASE pass'.at \in {"idle", "between", "running"}
  BY <1>1 DEF NotYetStopped
<1>2. ASSUME NEW r \in Rules, Ending(r) PROVE NotYetStopped'
  <2>1. pass'.rule = r /\ rule[r] = "enabled" /\ stopped' = stopped
    BY <1>2, EndingPass, EndingFacts DEF ruleVars
  <2> QED BY <2>1 DEF NotYetStopped, StoppedStays
<1>3. ASSUME NEW r \in Rules, CountFailure(r) PROVE NotYetStopped'
  <2>1. r \notin stopped /\ stopped' = stopped
    BY <1>3, CountPass, RulesUntouched DEF NotYetStopped
  <2>2. pass'.rule = r \/ pass'.at \in {"idle", "between"} BY <1>3, CountPass
  <2> QED BY <1>1, <2>1, <2>2 DEF NotYetStopped
<1>4. ASSUME NEW r \in Rules, DegradeRule(r) PROVE NotYetStopped'
  <2>1. pass'.at = "opening" /\ pass'.kind \in Stopping BY <1>4, DegradePass
  <2> QED BY <2>1 DEF NotYetStopped, Stopping
<1>5. ASSUME NEW r \in Rules, ClearFailures(r) PROVE NotYetStopped'
  <2>1. r \notin stopped /\ stopped' = stopped /\ pass'.rule = r
    BY <1>5, ClearPass, RulesUntouched DEF NotYetStopped
  <2> QED BY <2>1 DEF NotYetStopped
<1>6. CASE AdminSteps
  BY <1>6, AdminFrame DEF NotYetStopped
<1>7. (Moving \/ CutReport \/ Restart \/ \E r \in Rules : ReportIncident(r) \/ ResolveIncident(r))
        => pass'.at \in {"idle", "between", "running"}
  BY MovingFacts, CutFacts, ReportFacts, ResolveFacts
<1> QED BY <1>1, <1>2, <1>3, <1>4, <1>5, <1>6, <1>7, Steps DEF Report, AdminSteps

Explained(q) == Open(q) /\ incident[q].cause \in Stopping

LEMMA KeepsStoppedIsExplained ==
  ASSUME TypeOK, AtWork, StoppedStays, NotYetStopped, StoppedIsExplained, Next
  PROVE  StoppedIsExplained'
<1> USE DEF Explained, Open, RunOf
<1>0. \A q \in stopped \ unreported : Explained(q) \/ (pass.at = "opening" /\ pass.rule = q)
  BY DEF StoppedIsExplained
<1>1. ASSUME pass.at # "opening", stopped' = stopped, unreported \subseteq unreported',
             incident' = incident
      PROVE  StoppedIsExplained'
  BY <1>0, <1>1 DEF StoppedIsExplained
<1>2. CASE Moving
  BY <1>1, <1>2, MovingFacts DEF ruleVars, healthVars, historyVars
<1>3. ASSUME NEW r \in Rules, Ending(r) PROVE StoppedIsExplained'
  BY <1>1, <1>3, EndingFacts DEF ruleVars, healthVars
<1>4. ASSUME NEW r \in Rules, CountFailure(r) PROVE StoppedIsExplained'
  BY <1>1, <1>4, CountFacts DEF ruleVars, historyVars
<1>5. ASSUME NEW r \in Rules, ClearFailures(r) PROVE StoppedIsExplained'
  BY <1>1, <1>5, ClearPass DEF ruleVars, historyVars
<1>6. ASSUME NEW r \in Rules, DegradeRule(r) PROVE StoppedIsExplained'
  <2>1. /\ pass.at = "degrading" /\ pass'.at = "opening" /\ pass'.rule = r
        /\ incident' = incident /\ unreported' = unreported
        /\ \A q \in Rules \ {r} : q \in stopped' => q \in stopped
    BY <1>6, DegradePass, DegradeFacts DEF healthVars, historyVars
  <2>2. stopped' \subseteq Rules BY <1>6, TypeReport, DegradeFacts DEF DegradeRule, TypeOK, ruleVars
  <2> QED BY <1>0, <2>1, <2>2 DEF StoppedIsExplained
<1>7. ASSUME NEW r \in Rules, ReportIncident(r) PROVE StoppedIsExplained'
  <2>1. /\ stopped' = stopped /\ unreported' = unreported /\ pass.rule = r
        /\ pass.at = "opening" /\ pass.kind \in Kinds
        /\ incident' = [incident EXCEPT ![r] = [state |-> "open", cause |-> pass.kind]]
    BY <1>7, ReportFacts DEF ruleVars, historyVars
  <2>2. r \in stopped => pass.kind \in Stopping BY <2>1 DEF NotYetStopped, Kinds, Stopping
  <2>3. ASSUME NEW q \in stopped' \ unreported' PROVE Explained(q)'
    <3>1. CASE q = r BY <2>1, <2>2, <2>3, <3>1 DEF TypeOK
    <3>2. CASE q # r BY <1>0, <2>1, <2>3, <3>2 DEF TypeOK
    <3> QED BY <3>1, <3>2
  <2> QED BY <2>3 DEF StoppedIsExplained
<1>8. ASSUME NEW r \in Rules, ResolveIncident(r) PROVE StoppedIsExplained'
  <2>1. /\ stopped' = stopped /\ unreported' = unreported \ {r}
        /\ pass.at = "cleared" /\ pass.rule = r
        /\ \A q \in Rules \ {r} : incident'[q] = incident[q]
    BY <1>8, ResolveFacts DEF ruleVars
  <2>2. r \notin stopped BY <2>1 DEF NotYetStopped, Succeeding
  <2>3. ASSUME NEW q \in stopped' \ unreported' PROVE Explained(q)'
    BY <1>0, <2>1, <2>2, <2>3 DEF TypeOK
  <2> QED BY <2>3 DEF StoppedIsExplained
<1>9. CASE CutReport \/ Restart
  <2>1. /\ stopped' = stopped /\ incident' = incident
        /\ unreported' = (IF Reporting THEN unreported \cup {pass.rule} ELSE unreported)
    BY <1>9, CutFacts DEF ruleVars, healthVars
  <2> QED BY <1>0, <2>1 DEF StoppedIsExplained, Reporting
<1>10. CASE AdminSteps
  <2>1. pass' = pass /\ unreported' = unreported /\ stopped' \subseteq stopped
    BY <1>10, AdminFrame DEF historyVars
  <2>2. ASSUME NEW q \in stopped' \ unreported' PROVE Explained(q)' \/ (pass'.at = "opening" /\ pass'.rule = q)
    <3>1. q \in Rules /\ rule'[q] = "degraded"
      BY <1>10, <2>1, <2>2, AdminFrame DEF StoppedStays, TypeOK
    <3>2. \/ incident'[q] = incident[q]
          \/ incident'[q] = [state |-> "open", cause |-> "authorization"]
      BY <1>10, <3>1, AdminHealth DEF Exists
    <3> QED BY <1>0, <2>1, <2>2, <3>2 DEF Stopping
  <2> QED BY <2>2 DEF StoppedIsExplained
<1> QED
  BY <1>2, <1>3, <1>4, <1>5, <1>6, <1>7, <1>8, <1>9, <1>10, Steps DEF Report, AdminSteps

-----------------------------------------------------------------------------
(***************************************************************************)
(* The threshold.                                                          *)
(***************************************************************************)
Counted(r) ==
  /\ Known(r) /\ ~(pass.at \in Succeeding /\ RunOf(r)) =>
       streak[r] = Capped(failures[r] + Uncounted(r))
  /\ pass.at \in Succeeding /\ RunOf(r) => streak[r] = 0
  /\ pass.at = "cleared" /\ RunOf(r) => failures[r] = 0

AtThreshold(r) ==
  Known(r) =>
    /\ ~(pass.at \in Failing /\ RunOf(r)) => (streak[r] = Threshold => Open(r))
    /\ ~(pass.at \in Succeeding /\ RunOf(r)) =>
         (Open(r) /\ incident[r].cause = "transient" => streak[r] = Threshold)
    /\ pass.at = "opening" /\ RunOf(r) /\ pass.kind = "transient" => streak[r] = Threshold

Tracked(r) == Counted(r) /\ AtThreshold(r)

LEMMA CapFacts ==
  ASSUME NEW n \in Nat
  PROVE  /\ Capped(0) = 0 /\ 0 # Threshold
         /\ Capped(n + 1) = IF Capped(n) < Threshold THEN Capped(n) + 1 ELSE Capped(n)
         /\ Capped(n) = Threshold <=> n >= Threshold
  BY HealthAssumption DEF Capped

\* A rule on which no report is under way, before or after, and that the step leaves alone.
LEMMA Untracked ==
  ASSUME NEW r \in Rules, Tracked(r), ~(Reporting /\ RunOf(r)), ~(Reporting /\ RunOf(r))',
         Known(r)' => Known(r), streak'[r] = streak[r],
         failures'[r] = failures[r], incident'[r] = incident[r]
  PROVE  Tracked(r)'
<1>1. ~(pass.at \in Failing /\ RunOf(r)) /\ ~(pass.at \in Succeeding /\ RunOf(r))
  BY DEF Reporting, Failing, Succeeding
<1>2. ~(pass'.at \in Failing /\ pass'.rule = r) /\ ~(pass'.at \in Succeeding /\ pass'.rule = r)
  BY DEF Reporting, RunOf, Failing, Succeeding
<1>3. Uncounted(r) = 0 /\ Uncounted(r)' = 0 BY <1>1, <1>2 DEF Uncounted, RunOf, Failing
<1>4. Counted(r)' BY <1>1, <1>2, <1>3 DEF Tracked, Counted, RunOf, Capped, Succeeding
<1>5. AtThreshold(r)' BY <1>1, <1>2 DEF Tracked, AtThreshold, RunOf, Open, Failing
<1> QED BY <1>4, <1>5 DEF Tracked

LEMMA TrackedAll == (\A r \in Rules : Tracked(r)) <=> (StreakCounted /\ IncidentAtThreshold)
  BY DEF Tracked, Counted, AtThreshold, StreakCounted, IncidentAtThreshold

LEMMA TracksMoving ==
  ASSUME TypeOK, AtWork, Moving, NEW r \in Rules, Tracked(r) PROVE Tracked(r)'
<1>1. UNCHANGED <<ruleVars, healthVars, historyVars>> BY MovingFacts
<1>2. ~Reporting /\ ~Reporting' BY MovingFacts DEF Reporting
<1> QED BY <1>1, <1>2, Untracked DEF ruleVars, healthVars, historyVars, Known, Exists

LEMMA TracksEnding ==
  ASSUME TypeOK, AtWork, NEW q \in Rules, Ending(q), NEW r \in Rules, Tracked(r)
  PROVE  Tracked(r)'
<1>1. /\ pass.at = "running" /\ pass.rule = q /\ pass'.rule = q
      /\ UNCHANGED <<ruleVars, healthVars, unreported>>
  BY EndingPass, EndingFacts
<1>2. Known(r)' <=> Known(r) BY <1>1 DEF Known, Exists, ruleVars
<1>3. CASE r # q
  <2>1. streak'[r] = streak[r] BY <1>3, EndingPass DEF TypeOK
  <2> QED BY <1>1, <1>2, <1>3, <2>1, Untracked DEF RunOf, healthVars
<1>4. CASE r = q
  <2>1. /\ Known(r) => streak[r] = Capped(failures[r])
        /\ Known(r) => (streak[r] = Threshold => Open(r))
        /\ Known(r) => (Open(r) /\ incident[r].cause = "transient" => streak[r] = Threshold)
    BY <1>1, HealthAssumption
    DEF Tracked, Counted, AtThreshold, Uncounted, Succeeding, Failing, TypeOK
  <2>2. failures[r] \in Nat /\ streak[r] \in Nat BY HealthAssumption DEF TypeOK
  <2>3. CASE pass'.at = "succeeded" /\ streak' = [streak EXCEPT ![q] = 0]
    <3>1. streak'[r] = 0 BY <1>4, <2>3 DEF TypeOK
    <3> QED BY <1>1, <1>4, <2>3, <3>1, HealthAssumption
        DEF Tracked, Counted, AtThreshold, RunOf, Succeeding, Failing
  <2>4. CASE /\ pass'.at = "failed"
             /\ streak' = [streak EXCEPT ![q] = IF streak[q] < Threshold THEN streak[q] + 1 ELSE streak[q]]
    <3>1. streak'[r] = IF streak[r] < Threshold THEN streak[r] + 1 ELSE streak[r]
      BY <1>4, <2>4 DEF TypeOK
    <3>2. failures' = failures /\ incident' = incident BY <1>1 DEF healthVars
    <3>3. Uncounted(r)' = 1 BY <1>1, <1>4, <2>4 DEF Uncounted, RunOf
    <3>4. Counted(r)'
      BY <1>2, <1>4, <2>1, <2>2, <2>4, <3>1, <3>2, <3>3, CapFacts DEF Counted, Succeeding, Capped
    <3>5. streak[r] = Threshold => streak'[r] = Threshold BY <3>1, HealthAssumption
    <3>6. AtThreshold(r)'
      BY <1>1, <1>2, <1>4, <2>1, <2>4, <3>2, <3>5 DEF AtThreshold, RunOf, Open, Failing
    <3> QED BY <3>4, <3>6 DEF Tracked
  <2> QED BY <2>3, <2>4, EndingPass
<1> QED BY <1>3, <1>4

LEMMA TracksCount ==
  ASSUME TypeOK, AtWork, NEW q \in Rules, CountFailure(q), NEW r \in Rules, Tracked(r)
  PROVE  Tracked(r)'
<1>1. /\ pass.at = "failed" /\ pass.rule = q
      /\ UNCHANGED <<ruleVars, incident, historyVars>>
      /\ failures' = [failures EXCEPT ![q] = IF Exists(q) THEN failures[q] + 1 ELSE 0]
  BY CountFacts
<1>2. Known(r)' <=> Known(r) BY <1>1 DEF Known, Exists, ruleVars, historyVars
<1>3. pass'.at \in {"idle", "between"} \/ pass'.rule = q BY CountPass
<1>4. CASE r # q
  <2>1. failures'[r] = failures[r] BY <1>1, <1>4 DEF TypeOK
  <2> QED BY <1>1, <1>2, <1>3, <1>4, <2>1, Untracked DEF RunOf, Reporting, historyVars
<1>5. CASE r = q
  <2>1. /\ Known(r) => streak[r] = Capped(failures[r] + 1)
        /\ Known(r) => (Open(r) /\ incident[r].cause = "transient" => streak[r] = Threshold)
    BY <1>1, <1>5 DEF Tracked, Counted, AtThreshold, Uncounted, RunOf, Succeeding
  <2>2. failures[r] \in Nat /\ (Known(r) => failures'[r] = failures[r] + 1)
    BY <1>1, <1>5, HealthAssumption DEF TypeOK, Known
  <2>3. Known(r) => failures'[r] \in Nat /\ failures'[r] + 0 = failures'[r] BY <2>2
  <2>4. streak' = streak /\ incident' = incident BY <1>1 DEF historyVars
  <2>5. pass'.at \in {"idle", "between", "degrading", "opening"} BY CountPass
  <2>6. Counted(r)'
    BY <1>2, <2>1, <2>2, <2>3, <2>4, <2>5 DEF Counted, Uncounted, Succeeding
  <2>7. CASE pass'.at \in {"degrading", "opening"} /\ pass'.rule = q
    <3>1. pass'.at = "opening" /\ pass'.kind = "transient" /\ Known(r) => failures[r] + 1 >= Threshold
      BY <1>5, CountPass DEF Known, Stopping
    <3>2. pass'.at = "opening" /\ pass'.kind = "transient" /\ Known(r) => streak[r] = Threshold
      BY <2>1, <2>2, <3>1, HealthAssumption DEF Capped
    <3> QED BY <1>2, <1>5, <2>1, <2>4, <2>6, <2>7, <3>2 DEF Tracked, AtThreshold, RunOf, Open, Failing
  <2>8. CASE pass'.at \in {"idle", "between"} /\ (Exists(q) => failures[q] + 1 < Threshold)
    <3>1. Known(r) => streak[r] # Threshold
      BY <1>5, <2>1, <2>2, <2>8, HealthAssumption DEF Capped, Known
    <3> QED BY <1>2, <2>1, <2>4, <2>6, <2>8, <3>1 DEF Tracked, AtThreshold, Open
  <2> QED BY <2>7, <2>8, CountPass
<1> QED BY <1>4, <1>5

LEMMA TracksDegrade ==
  ASSUME TypeOK, AtWork, NEW q \in Rules, DegradeRule(q), NEW r \in Rules, Tracked(r)
  PROVE  Tracked(r)'
<1>1. /\ pass.at = "degrading" /\ pass.rule = q
      /\ pass'.at = "opening" /\ pass'.rule = q /\ pass'.kind \in Stopping
      /\ UNCHANGED <<healthVars, historyVars>>
  BY DegradePass, DegradeFacts
<1>2. rule'[r] = rule[r] \/ (rule[r] = "enabled" /\ rule'[r] = "degraded")
  BY DegradeFacts
<1>3. Known(r)' <=> Known(r) BY <1>1, <1>2 DEF Known, Exists, historyVars
<1>4. CASE r # q
  BY <1>1, <1>3, <1>4, Untracked DEF RunOf, healthVars, historyVars
<1>5. CASE r = q
  <2>1. UNCHANGED <<streak, failures, incident>> BY <1>1 DEF healthVars, historyVars
  <2>2. Uncounted(r) = 0 /\ Uncounted(r)' = 0 BY <1>1 DEF Uncounted
  <2>3. Counted(r)'
    BY <1>1, <1>3, <2>1, <2>2 DEF Tracked, Counted, Capped, Succeeding
  <2>4. AtThreshold(r)'
    BY <1>1, <1>3, <1>5, <2>1 DEF Tracked, AtThreshold, Failing, Succeeding, Stopping, RunOf, Open
  <2> QED BY <2>3, <2>4 DEF Tracked
<1> QED BY <1>4, <1>5

LEMMA TracksReport ==
  ASSUME TypeOK, AtWork, NEW q \in Rules, ReportIncident(q), NEW r \in Rules, Tracked(r)
  PROVE  Tracked(r)'
<1>1. /\ pass.at = "opening" /\ pass.rule = q /\ pass'.at \in {"idle", "between"}
      /\ UNCHANGED <<ruleVars, failures, historyVars>>
      /\ incident' = [incident EXCEPT ![q] = [state |-> "open", cause |-> pass.kind]]
  BY ReportFacts
<1>2. Known(r)' <=> Known(r) BY <1>1 DEF Known, Exists, ruleVars, historyVars
<1>3. CASE r # q
  <2>1. incident'[r] = incident[r] BY <1>1, <1>3 DEF TypeOK
  <2> QED BY <1>1, <1>2, <1>3, <2>1, Untracked DEF RunOf, Reporting, historyVars
<1>4. CASE r = q
  <2>1. incident'[r] = [state |-> "open", cause |-> pass.kind] BY <1>1, <1>4 DEF TypeOK
  <2>2. UNCHANGED <<streak, failures>> BY <1>1 DEF historyVars
  <2>3. Uncounted(r) = 0 /\ Uncounted(r)' = 0 BY <1>1 DEF Uncounted
  <2>4. Counted(r)'
    BY <1>1, <1>2, <2>2, <2>3 DEF Tracked, Counted, Capped, Succeeding
  <2>5. Known(r) /\ pass.kind = "transient" => streak[r] = Threshold
    BY <1>1, <1>4 DEF Tracked, AtThreshold, RunOf
  <2>6. AtThreshold(r)'
    BY <1>1, <1>2, <2>1, <2>2, <2>5 DEF AtThreshold, Failing, Open
  <2> QED BY <2>4, <2>6 DEF Tracked
<1> QED BY <1>3, <1>4

LEMMA TracksSuccess ==
  ASSUME TypeOK, AtWork, NEW q \in Rules, ClearFailures(q) \/ ResolveIncident(q),
         NEW r \in Rules, Tracked(r)
  PROVE  Tracked(r)'
<1>1. CASE ClearFailures(q)
  <2>1. /\ pass.at = "succeeded" /\ pass.rule = q /\ pass'.at = "cleared" /\ pass'.rule = q
        /\ UNCHANGED <<ruleVars, incident, historyVars>>
        /\ failures' = [failures EXCEPT ![q] = 0]
    BY <1>1, ClearPass
  <2>2. Known(r)' <=> Known(r) BY <2>1 DEF Known, Exists, ruleVars, historyVars
  <2>3. CASE r # q
    <3>1. failures'[r] = failures[r] BY <2>1, <2>3 DEF TypeOK
    <3> QED BY <2>1, <2>2, <2>3, <3>1, Untracked DEF RunOf, historyVars
  <2>4. CASE r = q
    <3>1. failures'[r] = 0 /\ streak' = streak BY <2>1, <2>4 DEF TypeOK, historyVars
    <3>2. streak[r] = 0 BY <2>1, <2>4 DEF Tracked, Counted, RunOf, Succeeding
    <3>3. streak'[r] = 0 /\ 0 # Threshold BY <3>1, <3>2, HealthAssumption
    <3>4. Counted(r)' BY <2>1, <2>4, <3>1, <3>3 DEF Counted, RunOf, Succeeding
    <3>5. AtThreshold(r)' BY <2>1, <2>4, <3>3 DEF AtThreshold, RunOf, Succeeding
    <3> QED BY <3>4, <3>5 DEF Tracked
  <2> QED BY <2>3, <2>4
<1>2. CASE ResolveIncident(q)
  <2>1. /\ pass.at = "cleared" /\ pass.rule = q /\ pass'.at \in {"idle", "between"}
        /\ UNCHANGED <<ruleVars, failures, streak>> /\ unreported' = unreported \ {q}
        /\ \A p \in Rules \ {q} : incident'[p] = incident[p]
        /\ incident'[q].state # "open"
    BY <1>2, ResolveFacts
  <2>2. CASE r # q
    <3>1. Known(r)' <=> Known(r) BY <2>1, <2>2 DEF Known, Exists, ruleVars
    <3> QED BY <2>1, <2>2, <3>1, Untracked DEF RunOf, Reporting
  <2>3. CASE r = q
    <3>1. streak[r] = 0 /\ failures[r] = 0
      BY <2>1, <2>3 DEF Tracked, Counted, RunOf, Succeeding
    <3>2. Uncounted(r)' = 0 BY <2>1 DEF Uncounted
    <3>3. Counted(r)' BY <2>1, <3>1, <3>2, CapFacts DEF Counted, Succeeding
    <3>4. AtThreshold(r)' BY <2>1, <2>3, <3>1, HealthAssumption DEF AtThreshold, Open
    <3> QED BY <3>3, <3>4 DEF Tracked
  <2> QED BY <2>2, <2>3
<1> QED BY <1>1, <1>2

\* A report that is cut short leaves its rule unreported, and the others alone.
LEMMA TracksCut ==
  ASSUME TypeOK, AtWork, CutReport \/ Restart, NEW r \in Rules, Tracked(r) PROVE Tracked(r)'
<1>1. /\ UNCHANGED <<ruleVars, healthVars, streak>> /\ pass'.at \in {"idle", "between"}
      /\ unreported' = (IF Reporting THEN unreported \cup {pass.rule} ELSE unreported)
  BY CutFacts
<1>2. CASE Reporting /\ RunOf(r)
  <2>1. ~Known(r)' BY <1>1, <1>2 DEF Known, RunOf
  <2> QED BY <1>1, <2>1 DEF Tracked, Counted, AtThreshold, Succeeding
<1>3. CASE ~(Reporting /\ RunOf(r))
  <2>1. Known(r)' => Known(r) BY <1>1 DEF Known, Exists, ruleVars
  <2> QED BY <1>1, <1>3, <2>1, Untracked DEF Reporting, healthVars
<1> QED BY <1>2, <1>3

LEMMA TracksAdmin ==
  ASSUME TypeOK, AtWork, AdminSteps, NEW r \in Rules, Tracked(r) PROVE Tracked(r)'
<1>1. pass' = pass /\ UNCHANGED <<streak, unreported>> /\ (Known(r)' => Known(r))
  BY AdminFrame DEF historyVars, Known
<1>2. Uncounted(r)' = Uncounted(r) BY <1>1 DEF Uncounted, RunOf
<1>3. CASE failures'[r] = failures[r] /\ incident'[r] = incident[r]
  <2>1. Counted(r)' BY <1>1, <1>2, <1>3 DEF Tracked, Counted, RunOf, Capped
  <2>2. AtThreshold(r)' BY <1>1, <1>3 DEF Tracked, AtThreshold, RunOf, Open
  <2> QED BY <2>1, <2>2 DEF Tracked
<1>4. CASE ~Exists(r)' /\ failures'[r] = 0
  <2>1. ~Known(r)' BY <1>4 DEF Known
  <2> QED BY <1>1, <1>4, <2>1 DEF Tracked, Counted, AtThreshold, RunOf
<1>5. CASE failures'[r] = failures[r] /\ incident'[r] = [state |-> "open", cause |-> "authorization"]
  <2>1. Counted(r)' BY <1>1, <1>2, <1>5 DEF Tracked, Counted, RunOf, Capped
  <2>2. AtThreshold(r)' BY <1>1, <1>5 DEF Tracked, AtThreshold, RunOf, Open
  <2> QED BY <2>1, <2>2 DEF Tracked
<1> QED BY <1>3, <1>4, <1>5, AdminHealth

LEMMA KeepsTracked ==
  ASSUME TypeOK, AtWork, StreakCounted, IncidentAtThreshold, Next
  PROVE  StreakCounted' /\ IncidentAtThreshold'
<1>1. ASSUME NEW r \in Rules PROVE Tracked(r)'
  <2>1. Tracked(r) BY TrackedAll
  <2> QED BY <2>1, Steps, TracksMoving, TracksEnding, TracksCount, TracksDegrade, TracksReport,
        TracksSuccess, TracksCut, TracksAdmin DEF Report, AdminSteps
<1> QED BY <1>1 DEF Tracked, Counted, AtThreshold, StreakCounted, IncidentAtThreshold

-----------------------------------------------------------------------------
(***************************************************************************)
(* The invariant.                                                          *)
(***************************************************************************)
LEMMA InitInv == Init => Inv
<1> SUFFICES ASSUME Init PROVE Inv OBVIOUS
<1>1. TypeOK
  <2>1. PassTyped(pass) BY IdleTyped DEF Init
  <2>2. preview \in [at : {"none", "reading", "refused"}, rule : Rules \cup {None},
                     recovering : BOOLEAN]
    BY DEF Init, NoPreview
  <2>3. incident \in [Rules -> Incidents] BY DEF Init, Incidents
  <2> QED BY <2>1, <2>2, <2>3, HealthAssumption DEF Init, TypeOK, PassTyped, RuleStates
<1>2. pass.at = "idle" /\ preview.at = "none" BY DEF Init, Idle, NoPreview
<1>3. AtWork /\ NotYetStopped BY <1>2 DEF AtWork, NotYetStopped, Failing, Succeeding
<1>4. CountsLeft BY <1>2, HealthAssumption DEF Init, CountsLeft, Uncounted
<1>5. AnnouncedOnce /\ Noticed /\ RemovedIsSettled
  BY DEF Init, AnnouncedOnce, Noticed, RemovedIsSettled, Open, Exists
<1>6. StoppedStays /\ StoppedIsExplained BY DEF Init, StoppedStays, StoppedIsExplained
<1>7. StreakCounted
  <2>1. \A r \in Rules : streak[r] = 0 /\ failures[r] = 0 /\ Uncounted(r) = 0
    BY <1>2 DEF Init, Uncounted
  <2> QED BY <1>2, <2>1, HealthAssumption DEF StreakCounted, Capped, Succeeding
<1>8. IncidentAtThreshold
  BY <1>2, HealthAssumption DEF Init, IncidentAtThreshold, Open
<1> QED BY <1>1, <1>3, <1>4, <1>5, <1>6, <1>7, <1>8 DEF Inv

LEMMA NextInv == Inv /\ [Next]_vars => Inv'
<1> SUFFICES ASSUME Inv, [Next]_vars PROVE Inv' OBVIOUS
<1> USE DEF Inv
<1>1. CASE Next
  BY <1>1, KeepsTypeOK, KeepsAtWork, KeepsCountsLeft, KeepsSettled, KeepsStoppedStays,
    KeepsNotYetStopped, KeepsStoppedIsExplained, KeepsTracked
<1>2. CASE UNCHANGED vars
  <2> USE <1>2 DEF vars, ruleVars, healthVars, dayVars, historyVars
  <2>1. TypeOK' BY DEF TypeOK
  <2>2. AtWork' /\ CountsLeft' BY DEF AtWork, CountsLeft, Uncounted, RunOf
  <2>3. AnnouncedOnce' /\ Noticed' /\ RemovedIsSettled'
    BY DEF AnnouncedOnce, Noticed, RemovedIsSettled, Open, Exists
  <2>4. StoppedStays' /\ NotYetStopped' BY DEF StoppedStays, NotYetStopped
  <2>5. StoppedIsExplained' BY DEF StoppedIsExplained, Open, RunOf
  <2>6. StreakCounted' BY DEF StreakCounted, Known, Exists, Uncounted, RunOf, Capped
  <2>7. IncidentAtThreshold' BY DEF IncidentAtThreshold, Known, Exists, RunOf, Open
  <2> QED BY <2>1, <2>2, <2>3, <2>4, <2>5, <2>6, <2>7
<1> QED BY <1>1, <1>2

LEMMA Invariance == Spec => []Inv
  BY InitInv, NextInv, PTL DEF Spec

\* For any number of rules, counts and retries stay in their range, each episode of an Incident
\* is announced exactly once, and a removal leaves a rule neither a count nor an Incident it had,
\* although a run or a preview that failed before reports afterwards (rule_health.py).
THEOREM IncidentsAreSettled == Spec => []IncidentsInv
<1>1. Inv => IncidentsInv BY DEF Inv, IncidentsInv
<1> QED BY <1>1, Invariance, PTL

\* For any threshold, the Incident of a transient condition opens with the failed run that
\* reaches it, not sooner and not later, as long as no report was cut short
\* (RuleHealthPolicy.after_failure).
THEOREM ThresholdOpensIncidents == Spec => []ThirdFailureOpens
<1>1. Inv => ThirdFailureOpens
  <2> SUFFICES ASSUME Inv, NEW r \in Rules, Exists(r), ~ReportPending(r), r \notin unreported
               PROVE  /\ streak[r] = Threshold => Open(r)
                      /\ Open(r) /\ incident[r].cause = "transient" => streak[r] = Threshold
    BY DEF ThirdFailureOpens
  <2>1. ~(pass.at \in Failing /\ RunOf(r)) /\ ~(pass.at \in Succeeding /\ RunOf(r))
    BY DEF ReportPending, Reporting, Failing, Succeeding
  <2> QED BY <2>1 DEF Inv, IncidentAtThreshold, Known
<1> QED BY <1>1, Invariance, PTL

\* A rule that a failed run stopped always has an open Incident that says why, or the scheduler
\* is about to open it, however administrators, previews and other runs interleave
\* (RuleHealth._degrade).
THEOREM StoppedRulesAreExplained == Spec => []StoppedIsExplained
<1>1. Inv => StoppedIsExplained BY DEF Inv
<1> QED BY <1>1, Invariance, PTL

=============================================================================
