# Calendar Ghost, specified

Calendar Ghost is a one-process service that keeps *Managed Projections* of one Google calendar's
events in another. An administrator connects accounts and creates *Sync Rules* (source calendar,
destination calendar, transformation policy); a scheduler and the HTTP API execute *Sync Runs* for
them. This directory specifies that behaviour in TLA+, model-checks it with TLC on small instances
and proves the most important results with TLAPS for every instance.

## 1. The system

### Components, their state and operations

| Component (`src/src/calendar_sync/`) | State | Operations | What makes it correct |
|---|---|---|---|
| Sync Run: `application/synchronization.py`, `sync_run.py`; decisions in `domain/services.py` | Event Mappings, source and destination cursor, the run in flight (feeds read, events handled) | begin, handle each source event, repair each reported projection, reproject the rest, advance the cursors, stop, fail | no change is lost; one projection per event; only projections proved to be the rule's are written |
| Occurrences: `application/occurrences.py` | Occurrence Mappings, pending replays | re-verify, apply, replay exceptions | a series' exceptions are reflected even across crashes |
| Rule lifecycle: `domain/model.py`, `application/rules.py`, `preview.py` | state, policy, reprojection flag | create, preview, enable, pause, edit, degrade, replace | nothing is written unless the current policy was previewed and enabled |
| Locks: `application/locking.py`, SQLite through `persistence/connections.py` | for_rule and for_writes per rule, every_rule, the one write transaction | take, release, time out | runs are serialized, lifecycle changes are not lost, nothing waits for ever |
| Removal: `application/removal.py` | REMOVING state, remaining mappings | delete or detach projections, retry, finish | a removal stands, and is complete when it says so |
| Accounts and OAuth: `application/accounts.py`, `google/oauth.py` | account rows, credentials, authorization states | connect, disconnect, delete, refresh | no rule outlives its account, no stale credential is stored |
| Health, scheduler: `application/health.py`, `infrastructure/scheduling.py` | failure counts, Incidents, last full pass | run due rules, record success or failure | trouble is reported once and resolved when it ends |
| Storage and Activity: `application/storage.py`, `activity.py`, `persistence/activity_queries.py`, `sync_run.py` | audit entries, source observations, block checks | append, observe, clear, compact, list | nothing still needed is cleared; what is shown is what happened |
| Reconciliation: `application/reconciliation.py`, `ReconciliationService` in `domain/services.py` | nothing but what it has read | list both calendars, read single events, report | drift is reported where there is drift, and a later run repairs it |
| Projections: `domain/services.py`, `model.py`, `google/translation.py`, `preview.py` | none | translate, project, fingerprint, decide, plan | a projection settles; a preview is honoured; a reason is true |
| API, routing, configuration, logs, web UI | none of the synchronization state | translate requests | not modelled |

### How they interact

The scheduler runs one rule after the other on a worker thread; every HTTP request has its own
thread. A Sync Run holds the rule's `for_rule` lock throughout and its `for_writes` lock from each
decision to the commit of the mapping the decision leads to; a lifecycle change is a read-modify-write under `for_writes`.
Everything is stored in one SQLite database with one writer at a time. Google is called in between:
it reports changes since a sync token, and its calendars are changed by people at any time.

### What is hard

Interleaving of runs with people, administrators and other threads; a run that fails between a
provider write and the commit that records it; feeds that report the rule's own writes, old changes
or nothing; cursors that may only pass what was applied; locks of three kinds plus SQLite's. The
hazards, each at its line, are listed in `PROJECT.json`.

## 2. Modules

| Module | What it is |
|---|---|
| `RuleContract` | abstract: what a rule promises about the destination calendar, with no runs, cursors, mappings or locks |
| `SyncRun` | one rule, its Sync Runs, both calendars, people, the administrator, failures; implements `RuleContract` |
| `SyncRunProofs` | theorems about `SyncRun`: types, creates, the contract, mappings, one projection, no lost change, complete reprojection; and about `Reconciliation` |
| `MCSyncRun` | the projections and symmetry of `SyncRun`'s instances |
| `RuleLocks` | the threads of the process and every lock they share, with every operation that takes one |
| `RuleLocksProofs` | theorems about `RuleLocks` |
| `MCRuleLocks` | the instances of `RuleLocks` |
| `RuleRemoval` | removals and replacements of one rule, its runs, its projections, people, failures and crashes |
| `RuleRemovalProofs` | theorems about `RuleRemoval` |
| `MCRuleRemoval` | the instances of `RuleRemoval` |
| `Series` | one recurring series, its occurrences and their projection, the runs that keep them in step, people, failures |
| `SeriesProofs` | theorems about `Series` |
| `MCSeries` | the instances of `Series` |
| `Accounts` | one Connected Account: its authorizations, its credentials, the calls and rules that use them |
| `AccountsProofs` | theorems about `Accounts` |
| `MCAccounts` | the instance of `Accounts` |
| `RuleHealth` | the scheduler's passes, the failures it counts, the Provider Incident of each rule |
| `RuleHealthProofs` | theorems about `RuleHealth` |
| `MCRuleHealth` | the instance of `RuleHealth` |
| `Activity` | the audit entries of one event: the runs that append them, the block check, the clearing of old ones |
| `ActivityProofs` | theorems about `Activity`, `ActivityQueries` and `SourceChanges` |
| `ActivityQueries` | the names and recent changes Activity shows, against definitions that do not follow the code |
| `SourceChanges` | what a rule remembers of a source event and the changes it tells |
| `Projections` | what a projection says and why it is written: translation, policies, fingerprints, decisions |
| `ProjectionsProofs` | theorems about `Projections` |
| `MCActivity` | the instances of the four modules above, one of which runs at a time |
| `Reconciliation` | extends `SyncRun` with Reconcile Now beside the rule's other runs |
| `MCReconciliation` | the instance of `Reconciliation` |

### SyncRun: state and code

| Variable | In the code |
|---|---|
| `rule`, `preview` | the `sync_rules` row; the rule a `PreviewSyncRule` read before it takes the lock |
| `src`, `dst` | the two calendars, kept by Google (external) |
| `mapping` | `event_mappings`; `shown` stands for the projection fingerprint, `rev` for the source revision |
| `synced`, `srcNews`, `dstNews` | the two saved cursors, as what Google would report for them: the events changed since |
| `srcSince`, `dstSince` | what changes after the run read a feed, hence what the *next* cursor will report |
| `phase`, `run`, `srcFeed`, `dstSeen`, `dstFeed`, `unread`, `handled` | `SyncRunContext` and `_ChangeFeeds`: `unread` is `listed_destinations`, `handled` is `run.handled` |
| `op` | the write in flight under `for_writes`; `sent` once Google carried it out and before the mapping is committed |

The actions follow `ExecuteSyncRule` one call at a time: `StartRun` and `ListDestination` are the two
feed reads of `_begin`; `HandleSource`, `RepairReported` and `Reproject` are the three callers of
`_synchronize_event`, each with `Apply` (stop check, decision, mapping of an unchanged projection, or the
write to carry out); the provider write and `Record` finish it; `AdvanceCursors`, `StopRun`, `FailRun`
and `WriteRefused` end the run. Between any two of them people change either calendar and the
administrator changes the rule. `for_writes` is `op = None`: lifecycle changes wait for it.

What is abstracted. An event's contents are its revision, and a policy is a function from revisions to
what it shows, or `Withheld`; two revisions may look alike under one policy (Busy-Only). The rule is
loaded with the source feed and the source of a repair is fetched with its decision; a provider call's
ownership check and its write are one step, because the code sends no condition with the write. A
deleted destination event is a cancellation without metadata, as Google returns it. A destination slot
is used once. A calendar with no slot left stands for a provider that refuses new events. Restoring a
deleted projection from Google's bin, recurring events and rule removal are left out of this module.

### RuleLocks: state and code

`runLock` and `writeLock` are the `Lock` objects of `RuleLocks` with their holders, `minted` the rules
whose run lock `for_rule` created, `every` the thread between `_EveryRule.__enter__` and `__exit__`
(from its claim on), `transaction` the thread whose SQLite write transaction is open. `task` says what each
thread does and how far it is. `Unwind` is the end of every `with`: all that the thread holds is released
and its transaction rolled back (or already committed). Transactions that are opened and committed
without asking for another lock are one step; the only one that is not is that of `_advance_cursors`.
A Sync Run makes up to `MaxWrites` provider writes; the outcome it records after its last commit, and the
separate commits of a removal's mappings, take no further lock and are folded into the neighbouring step.

### RuleRemoval: state and code

`req` is what each request of `RemoveSyncRule` or `ReplaceSyncRuleCalendars` is doing: `todo` are the
mappings `_remove` read and has still to delete, `total` and `done` what an interruption reports as
remaining, `tries` the attempts of `with_retries`: `TemporaryFailure` is retried, `PermanentFailure` and `LoseAuthorization`
are raised at once, and only the last opens an Incident. `mapped` and `ledger` are what the database holds: the Event
Mappings and the audit entries that replace them. `lock` is the rule's `for_rule` lock, which a removal
shares with the rule's runs; of a run only the create between the provider and its mapping is kept.
`draft` is the rule a replacement reserved. An ownership check and its deletion are one step, and so is the single
transaction of a detachment; the rule's deletion, its Incident and the last mappings are one as in the code.
People delete projections or strip their metadata and do not restore them; a Draft is not removed by hand.

### Series: state and code

| Variable | In the code |
|---|---|
| `src`, `dst` | the source series and the series created last in the destination, with the exceptions of each (Google's) |
| `mapping`, `recorded` | the Series Mapping (`rev`: its source revision, `shown`: its fingerprint, `linked`: it names `dst`); what each row of `occurrence_mappings` says was written |
| `replays` | the row of `occurrence_replays` |
| `synced`, `srcNews`, `dstNews` | the saved cursors, as what Google would report for them |
| `run` | `SyncRunContext`: what is left of both feeds, `handled`, `repaired_series`, `live_series` (`live`), `destination_series` (`known`), and the agenda |
| `due`, `skipped`, `left` | a full pass that was begun must be retried; a history variable for the finding below; the bounds |

`_synchronize_event`, the re-verification, the replay and the repair of an occurrence call one another. The
calls still to be made are a stack, `run.agenda`, whose head the next step takes:

| Agenda item | Code | Actions |
|---|---|---|
| `sync` | `_decide_and_write` for the series | `SyncRemove`, `SyncCreate`, `SyncDormant`, `SyncUpdate`, `SyncRefused`, `SyncCurrent` |
| `reverify`, `complete` | `SynchronizeOccurrences.reverify`, `_complete_series_revision` | `ReverifyRecorded`, `CompleteRevision` |
| `replay`, `replayed` | `replay_exceptions`, deletion of the pending replay | `ReplayExceptions`, `ReplayDone` |
| `decide` | `SynchronizeOccurrences.apply`, for occurrences taken in any order | `ApplyOccurrence`, `RepairMissing`, `OccurrenceRefused` |

At the end of a full pass, `Told` is what a Full Reconciliation would find of the occurrences: `OccurrenceDrift` is
`_occurrence_drift`, and `Verified`, `Dormant` and `UnmappedOccurrence` say which it checks at all.

What is abstracted. Contents are members of `Masters` with the set of starts each recurs at; an exception is
moved, cancelled, or follows its series. Both feeds are read in one step, and a decision and its write are
one (their races are in `SyncRun`, as are policies, stops, the window and rejected cursors). The destination series is read
when it is decided, in a full run too, where the code may once use the projection its listing returned
(synchronization.py:650): that listing and its age are `unread` of `SyncRun`. Re-verification reads
all recorded occurrences of the source at once, as its listing does; an occurrence of the destination is read when it is
decided. A changed series drops the exceptions its recurrence no longer reaches, as `tests/fake_calendar.py:274-281`
has Google do; a series whose last occurrence is cancelled is cancelled, and a deleted source series
stays deleted. A full listing reports every occurrence that was ever changed on its own. People do not
change a destination series that no mapping names: the orphans a lost answer leaves are `SyncRun`'s.

### Accounts: state and code

| Variable | In the code |
|---|---|
| `account`, `ids` | the row of `connected_accounts` with its sealed credentials (`Cleared` is the `{}` a disconnection leaves) |
| `state`, `callback` | the rows of `oauth_states`; the requests that deliver Google's redirect |
| `call`, `refreshing` | what each thread that talks to Google is doing; the holder of the account's `_refresh_lock` |
| `rule`, `disconnect` | the rules of the account; the `DisconnectConnectedAccount` request, which holds a list read before |
| `expired`, `revoked`, `latest` | Google's side: access tokens that expired, grants it no longer accepts; the last authorization |

`Unavailable`, `StillValid`, `Refresh`, `Refreshed`, `RefreshRefused` and `Keep` are the statements of `_credentials`,
with `replace_credentials` (a compare-and-set on the stored text) as `Keep`. A credential is a grant and the number of
its access token. A run is a read, a decision and a write, each of which may need credentials of its own. A
callback that Google or the permission check refuses is one `Decline`. Credentials that no longer open under
the master key, and accounts of other e-mail addresses, are left out.

### RuleHealth: state and code

`pass` is `run_once` with the list of due rules it read, the rule whose run or report is in progress and the attempts
of `with_retries`; `failures`, `incident` are `rule_failures` and `incidents`; `lastFull` is the day of
`last_full_succeeded_at`. `CountFailure`, `DegradeRule`, `ReportIncident` are the transactions of
`record_failure`, `ClearFailures`, `ResolveIncident` those of `record_success`; `CutReport` is any of them
failing, `Restart` the process ending. `preview` is a preview of a stopped rule, whose lost authorization
`recovery_blocked` reports. A run is one step; its locks were released by the time it is reported, which is
what the module is about. Unexpected exceptions are permanent failures, rate limits transient ones.

### Activity, ActivityQueries, SourceChanges: state and code

`log` is every entry ever recorded and `kept` the rows that are left, so that each query is asked twice: of the
rows, and of what they would be had nothing been cleared. `actor` is the scheduler's pass, Reconcile Now
and Sync Now, with the audit floor each took before it waited for `for_rule`; `clear` is the temporary table
of `clear_activity`. `Persisting`, `OpenBlocks`, `Repeated` and `PreviousTitled` are the queries of
`record_block_check`, the dashboard and Activity. Entries of other events never meet in any of them.
One assumption is named, `Dated`: the cutoff is a month back, so that an entry of a pass in progress is only
taken for older if the clock steps by more than a month during the pass, and even then not with a second entry after it.

`ActivityQueries` evaluates `_previous_names`, `_recorded_event` and `_recent_write_groups` on every short table;
`SourceChanges` decides an event through every short history of listings: a revision listed again or a new one,
guests that Google shortened, decisions left out of Activity, cancellations, observations that expired.

### Reconciliation: state and code

`PassSucceeds`, `ListSources`, `ListManaged` and `ReportFindings` are Reconcile Now after its pass: `execute` takes
`for_rule` again and fixes the window, and the two listings and the reads of single events are three
moments. `blocked` is `SyncRunContext.blocked`, which the result of the pass hands to `excluding`. `calm` is a
history variable: nothing changed since the first listing. Everything else is `SyncRun`, whose actions are
taken with their effect on `blocked`.

### Projections: state and code

The source is one event, or a series with one occurrence left; `held` is its projection as Google keeps it. Google
keeps instants and reports them in any of `Offsets` (`Payloads`), `ToDomainEvent` and `ProjectionPayload` are
`translation.py`, `Exclusions`, `Project` and `Titled` the policy and the projector, `Fingerprint` what of a
projection is compared, `EventDecision` is `decide`, `Planned` the item of a preview. A day has four instants, so that an
all-day event meets the window in the midnight of another offset than UTC. A run is one step.

## 3. Runs

All runs use 2-3 members per set; `faults` uses that slots, and events, are alike (symmetry): Google
gives a new event the next unused slot (`NewSlot`), and which one that is makes no difference.

| Run | Bounds | Shows |
|---|---|---|
| `edits` | 1 event that may end, 3 slots, 2 policies, 1 edit, 1 policy change, 1 reconciliation, no failures | a full race of people, administrator, runs and a reconciliation: NoLostChange, OneProjection, ReprojectionReachesAll (also of what listings omit), the contract; DriftIsDue and ReportIsTrue of what the reconciliation reports |
| `faults` | 2 events, 2 slots, 1 failure | two events in one batch, a calendar that is full, a failure or lost answer at any step, retried: NoLostChange, OneCreatePerRevision, MappingsApart |
| `settles` | 1 event, fairness; 1 policy change with 1 failure and an event that falls out of the window, or 1 change by a person with 1 failure | everything is repaired in the end |
| `locks_all` | 2 threads, 2 rules, 4 operations of any kind, fairness | CompactsAlone, NoRuleOutlivesAccount, PurgedUndisturbed, RemovalStands; every operation ends |
| `removal_all` | 2 events, 2 requests asking twice, 2 attempts, 2 failures or crashes, 2 changes by people, fairness | NothingAbandoned, InterruptionReportsRemaining, InertOnceRemoving, IncidentWhileIncomplete, ReservedFirst; every request is answered |
| `series` | 2 occurrences, 2 contents (the second recurs at one start only); 2 changes of the source and 1 failure, or 1 change of each calendar; fairness | SeriesInv: nothing out of step unnoticed. OccurrenceSteps: an occurrence is only hidden on evidence, and a reconciliation after an undisturbed full pass tells of all that is out of step, and otherwise only of exceptions no mapping accounts for. Every run ends; the destination is in step in the end |
| `accounts` | 1 rule, the scheduler and 1 more thread, 1 state with 2 callbacks, 1 refresh per grant, 3 requests, 1 revocation, outage or restart, fairness | CredentialsInv: what is stored is the last authorization and is refreshed once. SingleUse, DisconnectedWritesNothing; disconnections end, and a rule without authorization does not stay enabled |
| `health` | 1 rule, the code's threshold and attempts, 4 failed runs, 4 requests, 1 failing report or restart, 2 days, fairness | ThirdFailureOpens, StoppedIsExplained, IncidentsInv (announced once, settled by a removal); healthy in the end |
| `activity` | 4 entries, 3 runs, 1 clearing in batches of 1; tables of 4 rows; 3 listings; 4 changes of an event, its projection and the policy | ClearingInv, OpensOnEvidence, QueriesAnswer, ChangesAddUp, ProjectionsInv, ReasonIsTrue |

One event with two revisions is enough to lose a change (a change is lost between two reads of one
event), two slots to project twice (a third lets the calendar go on after one was deleted by hand), two events to
share a projection or to split a batch. Two threads and four operations are a hold of every rule, a thread that asks for a lock
meanwhile, and the creation of the rule; that three threads add nothing to the safety of the locks is proved.
Two occurrences are one that ends its series and one that recreates it; two contents are a series
that loses an occurrence. Wider instances of `Series` (a change of the destination too, two failures, one
failure in the liveness properties) were checked while it was written and show nothing else.
Two callbacks are one delivered twice, or an authorization and a reauthorization; three requests are a disconnection, an
enabling around it and a deletion or an authorization. Four failures pass the threshold of three and leave one for the
next episode; `health` was also checked with two rules. Four entries by three runs are a block before a
pass, one by an attempt or another run in between, and one of the pass and its reconciliation. Four changes of a
projection are one of each kind (source, reply, policy, destination) before one run.

The runs of `MCActivity` keep four modules apart by a variable `scene`: they share no state, and one run checks each of them.
A merged property is the conjunction of named ones (`ClearingInv`, `QueriesAnswer`, `ProjectionsInv`, `CredentialsInv`, `IncidentsInv`, `SeriesInv`,
`OccurrenceSteps`), and the mutants listed in `PROJECT.json` break one conjunct each.

### Fairness

`SyncRun`: weak fairness of the run's own steps (the process continues what it began; a failure is a
separate action without fairness) and strong fairness of a full run: `SyncScheduler.run_forever` executes
each enabled rule, in full once a day, and survives every exception. Nothing is assumed of people or
the administrator; `Settles` therefore starts from "the rule is enabled from some time on".
`RuleLocks`: weak fairness of each thread. Python's locks are not fair, so with unboundedly many
operations a thread could starve; the bounded number of operations of the model leaves that out.
`Series`: weak fairness of the run's steps and strong fairness of a full run, as in `SyncRun`.
`RuleRemoval`: weak fairness of each request and of a run that began, and strong fairness of a request's
taking the lock: the scheduler sleeps between passes, so the lock is free again and again for a
thread that waits in the queue of a Python lock.
`RuleHealth`: weak fairness of the scheduler, whose loop survives every failure of a pass. The administrator and
the end of a day are not asked for anything.
`Accounts`: strong fairness of each caller's steps, of the scheduler's runs of an enabled rule, and of taking `for_writes`,
because the locks they wait for are free again and again; weak fairness of a callback and of the last step of
a disconnection, which wait for nobody. People, Google's outages and restarts are free.

### Where the documentation and the code disagree

Each is a run that TLC must find violated (details in `PROJECT.json`, "findings").

- `retry`: README.md:271-273 promises that a retry never creates a duplicate; it does if the source
  changed between the lost answer and the retry, since the create key names the source revision.
- `locks_claim`: docs/sync-model.md:57-58 says lifecycle changes wait for at most one write in flight; a
  run that saved its cursors waits for the change while the change waits for the run's transaction,
  until SQLite's busy timeout fails the change.
- `series_swap`: docs/adr/0011:41-42 says a recreated series cannot resurrect what the source cancelled. When
  one batch cancels the last visible occurrence and restores another, the cancellation cancels the
  destination series, the restoration recreates it, and the re-verification passes over the occurrence the run
  already handled: it is shown until the next full pass.

The following were met too and are not runs of their own:

- docs/sync-model.md:58-60 says a paused rule's run stops without advancing cursors, while `_advance_cursors` has
  no stop check of its own. `NoLostChange` holds all the same.
- README.md:260-261 says a synced event keeps being updated. A full pass reads the source from the window
  start and replaces the cursor, so it drops a pending change of a mapped event that ended before the
  window. `NoLostChange` is therefore stated of events that stay in the window (`~src[e].ended`), and of histories
  with failures or with edits and policy changes, not both (`EditsOrFaults` in section 4).
- docs/domain-model.md:9 says reprojection rewrites every mapped projection. One adopted by its create key
  keeps what the former policy showed until the next full listing. `SyncRun` shows it when
  `ReprojectionReachesAll` is checked with a lost answer and a policy change.
- rules.py:288 calls the Draft of a replacement whose removal did not start unused. It can be enabled and run
  while the removal waits for the old rule's lock, and is deleted then with the mappings of what it projected.
- model.py:587-589 says an identity that cannot be proved is never counted as drift. A projection somebody
  stripped of its Managed Origin is not listed among the managed events and is reported as missing, which is drift
  (`Unproven` in `DriftIsDue`).
- CONTEXT.md:188 says an Incident resolves when its rule is removed. One opened by the report of a run or a preview
  that failed before the removal is opened after it, and nothing resolves it (`RemovedIsSettled`).
- docs/troubleshooting.md:160 says a degraded rule's incident says what stopped it. If the process
  ends between the degradation and the opening of the Incident, there is none (`unreported` in `RuleHealth`).
- CONTEXT.md:264 counts consecutive failed runs. A count is not cleared when recording the success fails, so that
  the next failures open an Incident too soon (`unreported`).
- docs/sync-model.md:217 counts open blocks since the latest daily pass began. The check of a scheduled pass that is
  committed after the check of a later Reconcile Now sets `audit_floor` back to its own.
- accounts.py:61 says every rule that could still write is degraded before the credentials are discarded. One enabled
  between its own degradation and the discarding stays enabled until its next run fails (`reenabled` in `Accounts`).
- CONTEXT.md:211 says a preview shows the planned actions. It reads a deleted projection as Google keeps it, a
  cancellation without metadata, and plans a conflict where the run takes it for missing and creates it
  (preview.py:189, synchronization.py:649-651; `deleted` in `PreviewIsHonoured`).
- services.py:157 says only a projection the source now calls for differently is a source change. Another guest's
  reply together with a policy change is told as one (`ReasonIsTrue`).

The passing runs keep clear of these cases on purpose: `edits` has no failures (with them, `retry` and
the adopted projection), `faults` has no event that ends.

### What incremental runs do not see

`NoStaleOccurrence` is stated while people leave the destination alone, and of occurrences that were not
handled before their series was recreated (`skipped`, the finding `series_swap`). Outside of that the model shows
five more ways for an occurrence to stay out of step until a daily full pass, which `SeriesSettles` shows to repair them in the end:

- A cancellation decided while a person has truncated the destination series finds nothing to cancel and
  records nothing (`retire`); repairing the series then shows the occurrence again.
- A repair that finds the occurrence already as wanted records nothing (`record_current=False`), for
  instance after a lost answer; a later change of the series does not re-verify it.
- A repair of the series that fails before re-verification is not resumed: the mapping's revision did not
  change, and the retry takes the repaired series for its own write.
- With three changes of the source, an occurrence retired while the recurrence was shortened for a moment
  during a re-verification is not restored.
- With three changes of the source, a run that repairs a series from a newer reading after it has handled
  an occurrence records the newer revision without verifying that occurrence again.

The last two lie beyond the bound of two source changes that the runs of this and of `SeriesSettles` have: there `NoStaleOccurrence` does not hold, so it is
a statement about up to two changes and no theorem.

One full pass may leave an occurrence out of step itself; `ReconcileNowTells` says that a reconciliation right after it
tells of all of those, with one exception, and tells of nothing else, with another. Both came up in the proof; they lie beyond
the bounds of `series`, and TLC shows them at wider ones:

- An occurrence that the pass handled, found as it should be and recorded nothing of, and that comes back when the pass
  recreates the series afterwards (`skipped`, as in `series_swap`), has no mapping by which a reconciliation could check it:
  drift that is not told (three occurrences, three changes of the source, the answer to a cancellation lost).
- An exception of the destination series that no Occurrence Mapping accounts for is told even if it shows what the source
  calls for (`UnmappedOccurrence`; two changes of the source, one of the destination, one lost answer).

## 4. Theorems

All for every value of the constants that satisfies the named assumptions.

- `TypeCorrect`: `Spec => []TypeOK`. Strengthened by *Typed*: a running run has a policy, and an
  operation names a slot exactly when it has one to reach.
- `CreatesAreIdempotent`: `Spec => []OneCreatePerRevision`. A create is only carried out when no live projection has
  its key, and no other step adds a key.
- `ContractKept`: `Spec => Contract!Spec`, the refinement. The invariant it needs, *MayWrite*, says that while
  a write is in flight the rule is still enabled under the run's policy: that is what `for_writes` is for.
- `MappingsStayApart`: `Spec => []MappingsApart`. Needs *OperationSlot*: the slot of a write in flight is owned
  by its event and mapped to no other.

- `LocksTyped`, `CompactionIsAlone`, `RemovalsStand`, `RulesGoWithAccount`, `PurgesUndisturbed`: what
  `RuleLocks` promises, for any threads, rules and operations. Their invariant *Inv* says which locks
  a thread holds at each stage (*RunLocksHeld*, *WriteLocksHeld*), that a lock that is held was minted and
  that compaction has claimed every minted lock it did not take (*MintedFirst*, *Gathered*), that stages
  belong to kinds (*Staged*), and that what a lifecycle change read still stands when it saves
  (*ReadStands*). The proof is per thread: one lemma shows that a step of one thread takes no lock from
  another, so only the stepping thread's own conjuncts need a case per action.

- `RemovingTyped`, `RemainingIsReported`, `RemovalAbandonsNothing`, `RemovalsAreInert`, `IncidentsResolve`,
  `ReplacementsReserve`: the safety of `RuleRemoval` for any events, requests and failures. *Inv* says that a
  request past the lock holds it (*LockHeld*, hence one at a time and no run beside it), that the rule is then
  REMOVING (*RemovingRule*), that `todo` is what is still mapped and `total - done` its size
  (*TodoIsMapped*), that an outcome about to be recorded is what became of its projection (*Happened*), and that a
  replacing request past its Draft finds it reserved (*DraftReserved*).

- `OneProjectionWithoutFaults`: `Spec => []OneProjection` when no fault occurs (`NoFaults`). A projection the rule owns and
  no mapping names is one whose create was lost (*NoOrphans*), and a write only replaces a projection that is gone
  (*Replaced*).
- `NoChangeIsLost`: `Spec => []NoLostChange`. *Kept* says, for every event that is not in step, what still covers it: a saved
  cursor, a feed of the run that has not reached it, a pending write, a reprojection (*AllCovered*), and of what was read
  meanwhile, that it is what the calendars held or that the next cursor reports the difference (*SeenSound*, *AllNoted*,
  *OpFresh*, *OpSent*). Its hypotheses:
  - `EditsOrFaults`: a history has failures, or edits by people and policy changes, but not both. TLC shows that this is no
    convenience: with one lost answer and one edit, or one lost answer and one policy change, `NoLostChange` fails. The
    retry adopts the projection by its create key, whatever it shows by then, and the cursor passes the event: the case of
    docs/domain-model.md:9 above. Failures alone, and edits and policy changes alone, are unbounded.
  - `PoliciesShowNoEdit`: no policy shows what a person wrote into a projection. It is how the model's `Edited` is meant; TLC
    finds no violation without it, but the invariant then no longer tells a repaired projection from an edited one.
- `ReprojectionIsComplete`: `Spec => ReprojectionReachesAll`, when no fault occurs and policies show no edit. *Truthful* says that a
  mapped projection shows what its mapping records or what a person wrote; *AllReached* that every event the run has handled
  is past the former policies. `NoFaults` is needed for the same adopted create. The proof also
  found that `FormerProjections` had to be parenthesised: the difference was taken inside the union.

- `ReportsAreTrue`: `SpecCheck => ReportIsTrue`, after any failures and edits. *Recalled* says that, while nothing changed, the three
  reads of a reconciliation are what the calendars hold; the rest follows from the mappings being apart and from no event being mapped
  that the source never showed (*NeverSeen*).
- `ReportedDriftIsDue`: `SpecCheck => DriftIsDue`, under the hypotheses of `NoChangeIsLost`. No run changes mappings or cursors
  between the reads (*BetweenRuns*), so each mapped event of the window is due, has lost its Managed Origin, is gone from the source and was
  not listed, or is in sync in both listings and still is (*AllAccounted*).

- `CredentialsAreSound`, `AuthorizationsAreUsedOnce`, `DisconnectionStopsWrites`: `CredentialsInv`, `SingleUse` and
  `DisconnectedWritesNothing` of `Accounts`, for any threads, rules, callbacks and refreshes. *Inv* says who holds the refresh
  lock and what he read (*OnlyHolder*, *CallShape*), that each grant is given out once and each state consumed by the
  callback that went past it (*FreshGrants*, *Consumed*), and that every rule a disconnection has
  passed is stopped unless it was enabled or created since (*Degraded*, *Stopped*).

- `IncidentsAreSettled`, `ThresholdOpensIncidents`, `StoppedRulesAreExplained`: `IncidentsInv`, `ThirdFailureOpens` and
  `StoppedIsExplained` of `RuleHealth`, for any rules, threshold, attempts and failures. *Inv* ties the count to the streak of
  failures (*StreakCounted*), the report in progress to the rule it is about (*AtWork*), and says that a rule about to be
  stopped is not stopped yet (*NotYetStopped*) and stays stopped until it is reported (*StoppedStays*).

- `ClearingLosesNothing`, `IncidentsNeedEvidence`: `ClearingInv` and `OpensOnEvidence` of `Activity`, for any entries, runs, clearings
  and batch size. *Inv* says that whatever an entry is asked about together with is safe, that is, kept and not
  about to be deleted: the entry before it and the last title before it, for every entry newer than the cutoffs and already for
  the next one (*Compared*), and everything since the floor of a pass in progress (*Spanned*, where `Dated` is needed). A
  run has recorded at most one entry before it is checked (*Evidence*). That a finite set of ids has a largest member
  follows from the well-foundedness of inclusion. Proving `OpensOnEvidence` showed that `Check` chose between
  overlapping cases; it now says in which order the code asks.

- `ProjectionsSettle`, `ReasonsAreTrue`: `ProjectionsInv` and `ReasonIsTrue` of `Projections`, as the invariants of
  `SpecProjections`, for any times, offsets, zones and number of changes. The lemmas say that how Google reports an event does not
  matter: it is projected, fingerprinted (`ToldAlike`) and decided on (`DecidesOnWhatIsKept`) as if its times had been read as
  instants. *Inv* then relates three fingerprints, what is wanted, what was recorded and what is shown: one that is shown but was not
  recorded is a person's change (*ShowsRecorded*); one that is wanted but was not recorded comes from the source with
  a new revision, from a policy that still asks for reprojection, or is one that a person had already given the projection
  when the policy was applied (*RecordedIsWanted*: the run then finds the projection current and records nothing).

- `EntriesAreNamed`, `ChangesAreToldOnce`: `NamedAsObserved` and `ChangesAddUp` of the tables and listings of any length
  (`SpecTables`, `SpecChanges`). An entry's name is a matter of the entries before it alone. For the changes, *Remembered* says
  that revisions never fall (*RevisionsRise*), that the observation is that of the last revision a decision looked at
  (*LastRevision*) and that each of its fields is the last value known since all was forgotten (*LastFields*); the change that a
  decision tells is then the one between the last known value and the new one.

- `SeriesTyped`, `SeriesHidesOnlyProven`, `SeriesOccurrenceSteps`: `TypeOK`, `HidesOnlyProven` and both parts of `OccurrenceSteps` of
  `Series`, for any occurrences, contents, recurrences, changes and failures. Three invariants carry them.
  - *Typed* says which items may follow each other on the agenda (*AgendaOrdered*), that revisions stay within what people
    may change (*Budget*), and that a deleted source series stays deleted (*GoneStays*).
  - *ReadStill* and *ReadEarlier* say what a run may still rely on: of what has not changed since it read its feed, the run and
    every item of its agenda say what the source shows; of the rest, what it showed before. Taking an occurrence away
    needs an item that says so.
  - *Course* is the course of a full pass that nobody disturbs. It begins with the series (*Opening*). From then on the destination
    series, if there is one, has the content of the source (*Placed*), and one that is gone went with its last occurrence
    (*Bereft*); what the source calls for and the destination has cancelled is still to be handled (*CancelledDue*); an exception of the
    source is still to be handled, recorded or skipped (*ExceptionsDue*); the series is repaired once at most (*RepairedOnce*). An
    occurrence that is found missing therefore means that the series is gone and not repaired yet (*MissingGone*). When
    the cursors are saved nothing is left to handle, and what is out of step is recorded or skipped (*PassTells*).

  The proof changed the model twice: `ReconcileNowTells` was too strong (section 3), and `SeriesAssumption` now names that contents are
  none of the words the model uses itself.

What stays with TLC:
- Liveness under fairness (`Settles`, `SeriesSettles`, `RunsEnd` and the other leads-to properties) and ENABLED.
- `NoStaleOccurrence` of `SeriesInv`: it holds up to two changes of the source and not beyond (section 3), so that there is no
  theorem to prove; its counterexamples need a change during a run or a failed run. Its other conjunct, `TypeOK`, is proved.
- `RecentIsNewest` of `QueriesAnswer`, which folds over the rows of a page and the pages of a table (induction over data). Its
  other conjunct, `NamedAsObserved`, is proved.

## 5. Plan

Modelled: `SyncRun` with its contract, `RuleLocks`, `RuleRemoval`, `Series`, `Accounts`, `RuleHealth`, `Activity` with its queries
and source changes, `Projections`, `Reconciliation`. Proved: the safety properties of all of these but the two that section 4
leaves to TLC. Two series of one rule in one batch, and the window of a series, would be next.

## 6. Not modelled

The HTTP API, provider routing, configuration, logs, notifications and the web interface translate or display; they
keep none of this state. A session is a row that one transaction inserts, reads or deletes, and
nothing else depends on it. In modelled parts: a deleted projection restored from Google's bin; policies, stops
and the window of a series (single events have them in `SyncRun`), two series of one rule in one batch;
which occurrences of a long series a reconciliation verifies; mappings of a former pair of calendars;
a person's change between the ownership check of a write and the write, which Google is not asked to refuse
(provider.py:191; the model takes both in one step); reminders, colours and the wording of titles; search and paging of the entry list; the sealing of credentials and observed
values under the master key.
