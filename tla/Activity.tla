------------------------------ MODULE Activity ------------------------------
(***************************************************************************)
(* The Audit Entries of one source event of one rule: the runs that append *)
(* them, what Activity and the daily block check read from them, and the   *)
(* clearing of old ones.                                                   *)
(*                                                                         *)
(* A full pass takes its audit floor before it waits for the rule's lock   *)
(* and is checked for persisting blocks after it let go of it, so other    *)
(* runs append entries in between.  Clearing chooses what to remove once   *)
(* and then deletes batch by batch, while runs go on.                      *)
(*                                                                         *)
(* log is everything that was ever recorded, kept the rows that are left:  *)
(* what a query answers from kept is compared with what it would answer    *)
(* had nothing been cleared.                                               *)
(***************************************************************************)
EXTENDS Naturals, Sequences, FiniteSets, FiniteSetsExt

CONSTANTS
  Batch,       \* entries one transaction deletes
  MaxEntries,  \* bound: entries recorded about the event
  MaxRuns,     \* bound: runs, counting every attempt
  MaxClears,   \* bound: clearings
  Decisions,   \* bound: what a run may record, as [act, titled]
  None

Scheduler == "scheduler"
ReconcileNow == "reconcile"
SyncNow == "sync"
Actors == {Scheduler, ReconcileNow, SyncNow}
Passes == {Scheduler, ReconcileNow}

ASSUME ActivityAssumption ==
  /\ Batch \in Nat \ {0}
  /\ MaxEntries \in Nat /\ MaxRuns \in Nat /\ MaxClears \in Nat
  /\ Decisions \subseteq [act : {"block", "repair", "other"}, titled : BOOLEAN]
  /\ None \notin Actors

Ids == 1..MaxEntries
Entry == [run : 1..MaxRuns, act : {"block", "repair", "other"}, titled : BOOLEAN]

VARIABLES
  log,       \* every entry recorded, by id
  kept,      \* audit_entries: those that are still there
  aged,      \* history: entries that were older than the cutoff of a clearing
  clear,     \* temp.clearable of the clearing in progress
  clears,    \* how many were begun
  actor,     \* what each kind of run is doing
  holder,    \* who holds the rule's for_rule lock
  runs,      \* run ids given out
  floor,     \* rule_block_checks.audit_floor
  blocked,   \* the rule's blocked Incident
  exists     \* the rule has a row

logVars == <<log, kept>>
clearVars == <<aged, clear, clears>>
checkVars == <<floor, blocked>>
vars == <<logVars, clearVars, actor, holder, runs, checkVars, exists>>

Recorded == 1..Len(log)
NoRun == [at |-> "idle", floor |-> 0, run |-> 0, decided |-> FALSE,
          before |-> FALSE, again |-> FALSE]

TypeOK ==
  /\ log \in Seq(Entry) /\ Len(log) <= MaxEntries
  /\ kept \subseteq Recorded /\ aged \subseteq Recorded
  /\ clear \subseteq Recorded /\ clears \in 0..MaxClears
  /\ actor \in [Actors -> [at : {"idle", "waiting", "running", "reporting", "checked",
                                 "reconciling"},
                           floor : Ids \cup {0}, run : 0..MaxRuns, decided : BOOLEAN,
                           before : BOOLEAN, again : BOOLEAN]]
  /\ holder \in Actors \cup {None}
  /\ runs \in 0..MaxRuns
  /\ floor \in Ids \cup {0}
  /\ blocked \in {"none", "open", "resolved"}
  /\ exists \in BOOLEAN

Init ==
  /\ log = <<>> /\ kept = {}
  /\ aged = {} /\ clear = {} /\ clears = 0
  /\ actor = [a \in Actors |-> NoRun]
  /\ holder = None /\ runs = 0
  /\ floor = 0 /\ blocked = "none" /\ exists = TRUE

-----------------------------------------------------------------------------
(***************************************************************************)
(* Questions about the entries in K, a set of ids.                         *)
(***************************************************************************)
Newest(K) == IF K = {} THEN 0 ELSE Max(K)
Block(i) == i # 0 /\ log[i].act = "block"
Previous(K, i) == Newest({j \in K : j < i})

\* _previous_names: the latest earlier entry that saw a title.
PreviousTitled(K, i) == Newest({j \in K : j < i /\ log[j].titled})

\* _repeated_repairs: identical to the previous entry, by an earlier run.
Repeated(K, i) ==
  LET p == Previous(K, i)
  IN /\ p # 0 /\ log[i].act = "repair" /\ log[p].act = "repair"
     /\ log[p].titled = log[i].titled /\ log[p].run # log[i].run

\* open_blocks: the event's latest decision, made after the audit floor, was a block.
OpenBlocks(K, after) == {i \in K : i > after /\ Block(i) /\ \A j \in K : j <= i}

\* Mutant: any block of the pass counts as a block of the run that completed it.
PersistingOfAnyRun(K, after, run) ==
  {i \in K : i > after /\ Block(i) /\ (\A j \in K : j <= i)
             /\ Block(Newest({j \in K : j <= after}))}

\* open_blocks, persisting: the run's own latest decision was a block, and so was the event's
\* latest before the pass began.
Persisting(K, after, run) ==
  {i \in K : /\ i > after /\ Block(i) /\ log[i].run = run
             /\ \A j \in K : log[j].run = run => j <= i
             /\ Block(Newest({j \in K : j <= after}))}

-----------------------------------------------------------------------------
(***************************************************************************)
(* Runs: the scheduler's, Reconcile Now and Sync Now, one at a time.       *)
(***************************************************************************)
\* The floor is read before the run asks for the lock.  before is history.  Sync Now has no floor.
Begin(a) ==
  /\ a \in Passes /\ actor[a].at = "idle" /\ exists
  /\ actor' = [actor EXCEPT ![a] = [NoRun EXCEPT !.at = "waiting", !.floor = Newest(kept),
                                                !.before = Block(Newest(Recorded))]]
  /\ UNCHANGED <<logVars, clearVars, holder, runs, checkVars, exists>>

Start(a) ==
  /\ actor[a].at = IF a \in Passes THEN "waiting" ELSE "idle"
  /\ holder = None /\ exists /\ runs < MaxRuns
  /\ holder' = a /\ runs' = runs + 1
  /\ actor' = [actor EXCEPT ![a].at = "running", ![a].run = runs + 1,
                            ![a].decided = FALSE, ![a].again = FALSE]
  /\ UNCHANGED <<logVars, clearVars, checkVars, exists>>

\* RuleNotExecutable.
Skip(a) ==
  /\ actor[a].at = "waiting" /\ ~exists
  /\ actor' = [actor EXCEPT ![a] = NoRun]
  /\ UNCHANGED <<logVars, clearVars, holder, runs, checkVars, exists>>

\* Mutant: an entry is given the id of the one before it.
Append1Late(run, act, titled) ==
  /\ Len(log) < MaxEntries
  /\ log' = Append(log, [run |-> run, act |-> act, titled |-> titled])
  /\ kept' = kept \cup {Len(log)}

\* SqliteAuditRepository.append: the row's id is the next one.
Append1(run, act, titled) ==
  /\ Len(log) < MaxEntries
  /\ log' = Append(log, [run |-> run, act |-> act, titled |-> titled])
  /\ kept' = kept \cup {Len(log) + 1}

\* A run decides the event once and records it, or leaves it out of Activity.
Decide(a, act, titled) ==
  /\ actor[a].at = "running" /\ ~actor[a].decided
  /\ Append1(actor[a].run, act, titled)
  /\ actor' = [actor EXCEPT ![a].decided = TRUE, ![a].again = (act = "block")]
  /\ UNCHANGED <<clearVars, holder, runs, checkVars, exists>>

\* The scheduler tries a temporary failure again, under the floor of the first attempt.
Fail(a, retry) ==
  /\ actor[a].at = "running"
  /\ retry => a = Scheduler
  /\ holder' = None
  /\ actor' = [actor EXCEPT ![a] = IF retry THEN [@ EXCEPT !.at = "waiting"] ELSE NoRun]
  /\ UNCHANGED <<logVars, clearVars, runs, checkVars, exists>>

\* Only a run that listed both calendars in full is checked; Sync Now never is.
Succeed(a, listed) ==
  /\ actor[a].at = "running"
  /\ listed => a \in Passes
  /\ a = ReconcileNow => listed
  /\ holder' = None
  /\ actor' = [actor EXCEPT ![a] = IF listed THEN [@ EXCEPT !.at = "reporting"] ELSE NoRun]
  /\ UNCHANGED <<logVars, clearVars, runs, checkVars, exists>>

AfterCheck(a) ==
  actor' = [actor EXCEPT ![a] = IF a = ReconcileNow THEN [@ EXCEPT !.at = "checked"] ELSE NoRun]

\* Mutant: the check of a rule that was removed meanwhile opens its Incident.
CheckRemoved(a) ==
  /\ actor[a].at = "reporting" /\ holder = None
  /\ floor' = actor[a].floor
  /\ blocked' = IF Persisting(kept, actor[a].floor, actor[a].run) # {} THEN "open"
                ELSE IF blocked = "open" THEN "resolved" ELSE blocked
  /\ AfterCheck(a)
  /\ UNCHANGED <<logVars, clearVars, holder, runs, exists>>

\* record_full_pass, under for_rule: the check, and the Incident it opens or resolves.
Check(a) ==
  /\ actor[a].at = "reporting" /\ holder = None
  /\ IF ~exists THEN UNCHANGED checkVars
     ELSE /\ floor' = actor[a].floor
          /\ blocked' = IF Persisting(kept, actor[a].floor, actor[a].run) # {} THEN "open"
                        ELSE IF blocked = "open" THEN "resolved" ELSE blocked
  /\ AfterCheck(a)
  /\ UNCHANGED <<logVars, clearVars, holder, runs, exists>>

\* The floor could not be read, or the check fails: logged, and the run stands.
LoseCheck(a) ==
  /\ actor[a].at = "reporting"
  /\ AfterCheck(a)
  /\ UNCHANGED <<logVars, clearVars, holder, runs, checkVars, exists>>

\* Reconcile Now verifies what the pass left, with reads only, and files each Conflict under the
\* run of the pass unless that run blocked the event already.
StartReconciling ==
  /\ actor[ReconcileNow].at = "checked" /\ holder = None
  /\ IF exists
     THEN holder' = ReconcileNow /\ actor' = [actor EXCEPT ![ReconcileNow].at = "reconciling"]
     ELSE actor' = [actor EXCEPT ![ReconcileNow] = NoRun] /\ UNCHANGED holder
  /\ UNCHANGED <<logVars, clearVars, runs, checkVars, exists>>

Reconcile(conflict) ==
  /\ actor[ReconcileNow].at = "reconciling"
  /\ IF conflict /\ ~actor[ReconcileNow].again
     THEN Append1(actor[ReconcileNow].run, "block", FALSE)
     ELSE UNCHANGED logVars
  /\ holder' = None
  /\ actor' = [actor EXCEPT ![ReconcileNow] = NoRun]
  /\ UNCHANGED <<clearVars, runs, checkVars, exists>>

\* Rule Removal holds the lock throughout, and its last transaction resolves the Incident.
RemoveRule ==
  /\ exists /\ holder = None
  /\ exists' = FALSE
  /\ floor' = 0
  /\ blocked' = IF blocked = "open" THEN "resolved" ELSE blocked
  /\ UNCHANGED <<logVars, clearVars, actor, holder, runs>>

-----------------------------------------------------------------------------
(***************************************************************************)
(* SqliteStorage.clear_activity.                                           *)
(***************************************************************************)
LatestIn(K) == {Newest(K)} \ {0}

\* Mutant: only what is compared with a newer entry is protected, not the event's latest.
ProtectedWithoutLatest(K, old) ==
  {Previous(K, i) : i \in K \ old} \cup {PreviousTitled(K, i) : i \in K \ old}

\* Mutant: the entry before the last one is enough.
ProtectedPrevious(K, old) ==
  LatestIn(K) \cup {Previous(K, i) : i \in {i \in K : i \notin old \/ Block(i)}}

\* Mutant: entries are compared with their last titled one only.
ProtectedTitled(K, old) ==
  LatestIn(K) \cup {PreviousTitled(K, i) : i \in {i \in K : i \notin old \/ ~log[i].titled}}

\* _PROTECTED: which entries clearing never removes, besides those newer than the cutoff.
Protected(K, old) ==
  LatestIn(K)
    \cup {Previous(K, i) : i \in {i \in K : i \notin old \/ (i \in LatestIn(K) /\ Block(i))}}
    \cup {PreviousTitled(K, i) :
            i \in {i \in K : i \notin old \/ (i \in LatestIn(K) /\ ~log[i].titled)}}

\* A clock that stepped makes any entry look old, but not one of a pass in progress, which is
\* minutes old, unless it is a block and the event's latest entry.
Dated(old) ==
  \A a \in Passes : actor[a].at # "idle" =>
    \A i \in old : i > actor[a].floor => i \in LatestIn(kept) /\ Block(i)

\* The cutoff, and with it which entries are older, is fixed when clearing begins.
BeginClear(old) ==
  /\ clear = {} /\ clears < MaxClears
  /\ old # {} /\ Dated(old)
  /\ clear' = old \ Protected(kept, old)
  /\ aged' = aged \cup old /\ clears' = clears + 1
  /\ UNCHANGED <<logVars, actor, holder, runs, checkVars, exists>>

DeleteBatch ==
  /\ clear # {}
  /\ LET batch == {i \in clear : Cardinality({j \in clear : j < i}) < Batch}
     IN kept' = kept \ batch /\ clear' = clear \ batch
  /\ UNCHANGED <<log, aged, clears, actor, holder, runs, checkVars, exists>>

\* The process ends and is started again; the entries left to delete are left alone.
Restart ==
  /\ clear # {} \/ \E a \in Actors : actor[a].at # "idle"
  /\ clear' = {}
  /\ actor' = [a \in Actors |-> NoRun] /\ holder' = None
  /\ UNCHANGED <<logVars, aged, clears, runs, checkVars, exists>>

-----------------------------------------------------------------------------
Next ==
  \/ \E a \in Actors :
       \/ Begin(a) \/ Start(a) \/ Skip(a) \/ Check(a) \/ LoseCheck(a)
       \/ \E decision \in Decisions : Decide(a, decision.act, decision.titled)
       \/ \E retry \in BOOLEAN : Fail(a, retry)
       \/ \E listed \in BOOLEAN : Succeed(a, listed)
  \/ StartReconciling
  \/ \E conflict \in BOOLEAN : Reconcile(conflict)
  \/ RemoveRule
  \/ \E old \in SUBSET kept : BeginClear(old)
  \/ DeleteBatch
  \/ Restart

Spec == Init /\ [][Next]_vars

-----------------------------------------------------------------------------
\* Clearing never closes an open block nor opens one, however many entries look old, while runs
\* append to what is being cleared (ADR 0019, _PROTECTED).
BlocksSurvive == OpenBlocks(kept, floor) = OpenBlocks(Recorded, floor)

\* Entries newer than every cutoff are all there and show what they showed: the same earlier name,
\* and the same repair repeated.
HistorySurvives ==
  \A i \in Recorded \ aged :
    /\ i \in kept
    /\ Repeated(kept, i) <=> Repeated(Recorded, i)
    /\ PreviousTitled(kept, i) = PreviousTitled(Recorded, i)

\* A pass whose check is due finds the blocks it would have found had nothing been cleared since
\* or before it began.
VerdictsSurvive ==
  \A a \in Passes : actor[a].at = "reporting" =>
    Persisting(kept, actor[a].floor, actor[a].run)
      = Persisting(Recorded, actor[a].floor, actor[a].run)

\* Clearing old entries loses nothing that the dashboard, Activity or a due check would read.
ClearingInv == TypeOK /\ BlocksSurvive /\ HistorySurvives /\ VerdictsSurvive

\* A removed rule has no blocked Incident, although its pass is checked after it was removed.
RemovedIsUnblocked == ~exists => blocked # "open"

\* The blocked Incident is open after a pass exactly when the event was blocked before the pass
\* began and its own run blocked it again: neither a failed attempt of the pass, nor Sync Now or
\* another pass in between, nor the conflicts of the reconciliation, is evidence
\* (docs/sync-model.md, Reconciliation).
OpensOnEvidence ==
  [][/\ RemovedIsUnblocked'
     /\ \A a \in Passes : exists /\ Check(a) =>
          (blocked' = "open" <=> actor[a].before /\ actor[a].again)]_vars
=============================================================================
