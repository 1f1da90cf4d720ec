------------------------------ MODULE RuleLocks ------------------------------
(***************************************************************************)
(* The threads of the one process and the locks they share: the for_rule   *)
(* and for_writes lock of every rule, the every_rule hold that compacting  *)
(* the database takes, and the one SQLite write transaction.               *)
(*                                                                         *)
(* Every operation that locks is here with the locks it takes, in its      *)
(* order: Sync Runs, Rule Removal, the bookkeeping after a full pass,      *)
(* lifecycle changes (a preview validated, a rule enabled, paused, edited  *)
(* or degraded), deleting a Connected Account with its rules, compacting.  *)
(* Python's locks have no timeout; every_rule has one, and SQLite gives up *)
(* a write after its busy timeout.  A with-statement that raises releases  *)
(* what it holds.                                                          *)
(*                                                                         *)
(* A write that commits at once is one step; the transaction variable is   *)
(* for the one that stays open while its thread asks for another lock.     *)
(***************************************************************************)
EXTENDS Naturals, FiniteSets

CONSTANTS
  Threads,    \* scheduler and request threads
  Rules,      \* rule identifiers, in their order
  OfAccount,  \* the rules that use the Disconnected Account under deletion
  MaxTasks,   \* bound: operations begun
  MaxWrites,  \* bound: provider writes of one Sync Run
  None

ASSUME RulesAssumption ==
  /\ Rules \subseteq Nat /\ OfAccount \subseteq Rules
  /\ MaxTasks \in Nat /\ MaxWrites \in Nat
  /\ None \notin Threads

VARIABLES
  saved,        \* what the rules table holds for each identifier
  account,      \* whether the account's row is still there
  minted,       \* rules whose for_rule lock was asked for before
  runLock,      \* holder of each for_rule lock
  writeLock,    \* holder of each for_writes lock
  every,        \* who holds, or is gathering, every rule
  transaction,  \* whose uncommitted write SQLite holds
  task,         \* what each thread does and how far it is
  left          \* operations that may still begin

locks == <<minted, runLock, writeLock, every>>
rows == <<saved, account>>
vars == <<rows, locks, transaction, task, left>>

Stages == {"idle", "every", "runLock", "writeLock", "running", "writing", "completing",
           "marking", "removing", "recording", "reading", "saving", "purging", "compacting"}
Kinds == {"none", "sync", "removal", "check", "change", "deletion", "compaction"}
Idle == [kind |-> "none", rules |-> {}, at |-> "idle", todo |-> 0]

TypeOK ==
  /\ saved \in [Rules -> {"none", "saved", "removing", "removed"}]
  /\ account \in {"disconnected", "deleted"}
  /\ minted \subseteq Rules
  /\ runLock \in [Rules -> Threads \cup {None}]
  /\ writeLock \in [Rules -> Threads \cup {None}]
  /\ every \in Threads \cup {None}
  /\ transaction \in Threads \cup {None}
  /\ task \in [Threads -> [kind : Kinds, rules : SUBSET Rules, at : Stages, todo : Nat]]
  /\ left \in Nat

Init ==
  /\ saved \in [Rules -> {"none", "saved"}]
  /\ account = "disconnected"
  /\ minted = {}
  /\ runLock = [r \in Rules |-> None] /\ writeLock = [r \in Rules |-> None]
  /\ every = None /\ transaction = None
  /\ task = [t \in Threads |-> Idle]
  /\ left = MaxTasks

-----------------------------------------------------------------------------
(***************************************************************************)
(* Beginning and ending an operation.                                      *)
(***************************************************************************)
Exists(r) == saved[r] \in {"saved", "removing"}

Affected == {r \in OfAccount : Exists(r)}

Goto(t, stage) == task' = [task EXCEPT ![t].at = stage]

\* A thread starts an operation; it holds nothing until it asks for the first lock.
Begin(t, kind, rules, stage, todo) ==
  /\ task[t] = Idle /\ left > 0
  /\ left' = left - 1
  /\ task' = [task EXCEPT ![t] = [kind |-> kind, rules |-> rules, at |-> stage, todo |-> todo]]
  /\ UNCHANGED <<rows, locks, transaction>>

BeginForRule(t, r) ==
  /\ saved[r] # "none"
  /\ \/ \E todo \in 0..MaxWrites : Begin(t, "sync", {r}, "runLock", todo)
     \/ Begin(t, "removal", {r}, "runLock", 0)
     \/ Begin(t, "check", {r}, "runLock", 0)
     \/ Begin(t, "change", {r}, "writeLock", 0)

\* The rules to lock are read before the first lock is asked for.
BeginDeletion(t) ==
  /\ account = "disconnected"
  /\ Begin(t, "deletion", Affected, "runLock", 0)

BeginCompaction(t) == Begin(t, "compaction", {}, "every", 0)

\* A rule names accounts that exist, checked with the insert in one transaction.
CreateRule(r) ==
  /\ saved[r] = "none" /\ transaction = None
  /\ r \in OfAccount => account = "disconnected"
  /\ saved' = [saved EXCEPT ![r] = "saved"]
  /\ UNCHANGED <<account, locks, transaction, task, left>>

Without(lock, t) == [r \in Rules |-> IF lock[r] = t THEN None ELSE lock[r]]

\* Mutant: only the locks every_rule took itself are released, not those it claimed.
UnwindTaken(t) ==
  /\ runLock' = [r \in Rules |-> IF runLock[r] = t /\ r \in task[t].rules THEN None ELSE runLock[r]]
  /\ writeLock' = Without(writeLock, t)
  /\ every' = IF every = t THEN None ELSE every
  /\ transaction' = IF transaction = t THEN None ELSE transaction
  /\ task' = [task EXCEPT ![t] = Idle]
  /\ UNCHANGED <<minted, left>>

\* The operation ends, or raises: what it holds is released, what it did not commit rolled back.
Unwind(t) ==
  /\ runLock' = Without(runLock, t) /\ writeLock' = Without(writeLock, t)
  /\ every' = IF every = t THEN None ELSE every
  /\ transaction' = IF transaction = t THEN None ELSE transaction
  /\ task' = [task EXCEPT ![t] = Idle]
  /\ UNCHANGED <<minted, left>>

-----------------------------------------------------------------------------
(***************************************************************************)
(* Taking locks, one rule after the other in the rules' order.             *)
(***************************************************************************)
Missing(t, lock) == {r \in task[t].rules : lock[r] # t}

Asked(t, lock, r) == r \in Missing(t, lock) /\ \A q \in Missing(t, lock) : r <= q

\* Mutant: a lock first asked for while every rule is held is handed out free.
AskRunLockFree(t, r) ==
  /\ task[t].at = "runLock" /\ Asked(t, runLock, r) /\ r \notin minted
  /\ minted' = minted \cup {r}
  /\ UNCHANGED <<rows, runLock, writeLock, every, transaction, task, left>>

\* A lock first asked for while every rule is held is handed out already held.
AskRunLock(t, r) ==
  /\ task[t].at = "runLock" /\ Asked(t, runLock, r) /\ r \notin minted
  /\ minted' = minted \cup {r}
  /\ runLock' = [runLock EXCEPT ![r] = every]
  /\ UNCHANGED <<rows, writeLock, every, transaction, task, left>>

TakeRunLock(t, r) ==
  /\ task[t].at = "runLock" /\ Asked(t, runLock, r) /\ r \in minted
  /\ runLock[r] = None
  /\ runLock' = [runLock EXCEPT ![r] = t]
  /\ UNCHANGED <<rows, minted, writeLock, every, transaction, task, left>>

RunLocksTaken(t) ==
  /\ task[t].at = "runLock" /\ Missing(t, runLock) = {}
  /\ Goto(t, CASE task[t].kind = "sync" -> "running"
               [] task[t].kind = "check" -> "recording"
               [] task[t].kind = "compaction" -> "compacting"
               [] OTHER -> "writeLock")
  /\ UNCHANGED <<rows, locks, transaction, left>>

TakeWriteLock(t, r) ==
  /\ task[t].at = "writeLock" /\ Asked(t, writeLock, r)
  /\ writeLock[r] = None
  /\ writeLock' = [writeLock EXCEPT ![r] = t]
  /\ UNCHANGED <<rows, minted, runLock, every, transaction, task, left>>

WriteLocksTaken(t) ==
  /\ task[t].at = "writeLock" /\ Missing(t, writeLock) = {}
  /\ Goto(t, CASE task[t].kind = "sync" -> IF transaction = t THEN "completing" ELSE "writing"
               [] task[t].kind = "removal" -> "marking"
               [] task[t].kind = "deletion" -> "purging"
               [] OTHER -> "reading")
  /\ UNCHANGED <<rows, locks, transaction, left>>

ReleaseWriteLocks(t) == writeLock' = Without(writeLock, t)

\* Locks asked for from here on are claimed; those that exist are taken one by one.
TakeEvery(t) ==
  /\ task[t].at = "every" /\ every = None
  /\ every' = t
  /\ task' = [task EXCEPT ![t].rules = minted, ![t].at = "runLock"]
  /\ UNCHANGED <<rows, minted, runLock, writeLock, transaction, left>>

\* Mutant: every_rule waits for as long as it takes.
EveryTimeoutNever(t) == FALSE /\ Unwind(t) /\ UNCHANGED rows

\* A rule, or another hold of every rule, stayed busy for as long as every_rule waits.
EveryTimeout(t) ==
  /\ task[t].kind = "compaction"
  /\ \/ task[t].at = "every" /\ every # None
     \/ task[t].at = "runLock" /\ \E r \in Rules : Asked(t, runLock, r) /\ runLock[r] # None
  /\ Unwind(t)
  /\ UNCHANGED rows

TakeLocks(t) ==
  \/ \E r \in Rules : AskRunLock(t, r) \/ TakeRunLock(t, r) \/ TakeWriteLock(t, r)
  \/ RunLocksTaken(t) \/ WriteLocksTaken(t)
  \/ TakeEvery(t) \/ EveryTimeout(t)

-----------------------------------------------------------------------------
(***************************************************************************)
(* What the operations do with their locks.  A write waits for another's   *)
(* transaction, until SQLite's busy timeout makes it raise.                *)
(***************************************************************************)
Writing == {"writing", "marking", "removing", "recording", "saving", "purging", "compacting"}

MayCommit(t, stage) == task[t].at = stage /\ transaction = None

BusyTimeout(t) ==
  /\ task[t].at \in Writing \/ (task[t].at = "running" /\ task[t].todo = 0)
  /\ transaction \notin {None, t}
  /\ Unwind(t)
  /\ UNCHANGED rows

\* The run asks for the lock of its next write.
NextWrite(t) ==
  /\ task[t].at = "running" /\ task[t].todo > 0
  /\ task' = [task EXCEPT ![t].at = "writeLock", ![t].todo = @ - 1]
  /\ UNCHANGED <<rows, locks, transaction, left>>

\* The stop check holds: the projection is written and its mapping committed.
WriteProjection(t) ==
  /\ MayCommit(t, "writing") /\ \A r \in task[t].rules : saved[r] = "saved"
  /\ ReleaseWriteLocks(t)
  /\ Goto(t, "running")
  /\ UNCHANGED <<rows, minted, runLock, every, transaction, left>>

\* The rule was removed or stopped meanwhile, or the provider failed.
StopRun(t) ==
  /\ task[t].at \in {"running", "writing"}
  /\ Unwind(t)
  /\ UNCHANGED rows

\* Both cursors are saved before the lock that completes the run is asked for.
SaveCursors(t) ==
  /\ MayCommit(t, "running") /\ task[t].todo = 0
  /\ transaction' = t
  /\ Goto(t, "writeLock")
  /\ UNCHANGED <<rows, locks, left>>

CompleteRun(t) ==
  /\ task[t].at = "completing"
  /\ Unwind(t)
  /\ UNCHANGED rows

\* Mutant: removal reads and marks the rule without its write lock.
MarkRemovingUnlocked(t) ==
  /\ task[t].at = "writeLock" /\ task[t].kind = "removal" /\ transaction = None
  /\ \A r \in task[t].rules : Exists(r)
  /\ saved' = [r \in Rules |-> IF r \in task[t].rules THEN "removing" ELSE saved[r]]
  /\ ReleaseWriteLocks(t)
  /\ Goto(t, "removing")
  /\ UNCHANGED <<account, minted, runLock, every, transaction, left>>

MarkRemoving(t) ==
  /\ MayCommit(t, "marking") /\ \A r \in task[t].rules : Exists(r)
  /\ saved' = [r \in Rules |-> IF r \in task[t].rules THEN "removing" ELSE saved[r]]
  /\ ReleaseWriteLocks(t)
  /\ Goto(t, "removing")
  /\ UNCHANGED <<account, minted, runLock, every, transaction, left>>

\* Its projections are handled and its row deleted, or a provider failure interrupts it.
RemoveRule(t) ==
  /\ MayCommit(t, "removing")
  /\ \/ saved' = [r \in Rules |-> IF r \in task[t].rules THEN "removed" ELSE saved[r]]
     \/ saved' = saved
  /\ Unwind(t)
  /\ UNCHANGED account

RecordFullPass(t) ==
  /\ MayCommit(t, "recording")
  /\ Unwind(t)
  /\ UNCHANGED rows

\* Removal allows no lifecycle change after it began; a rule that is gone has none.
ReadRule(t) ==
  /\ task[t].at = "reading" /\ \A r \in task[t].rules : saved[r] = "saved"
  /\ Goto(t, "saving")
  /\ UNCHANGED <<rows, locks, transaction, left>>

Refuse(t) ==
  /\ \/ task[t].at = "reading" /\ \E r \in task[t].rules : saved[r] # "saved"
     \/ task[t].at = "marking" /\ \E r \in task[t].rules : ~Exists(r)
     \/ task[t].at = "purging" /\ account = "deleted"
  /\ Unwind(t)
  /\ UNCHANGED rows

\* The rule is saved as it was read and changed; a row that is gone is not written.
SaveRule(t) ==
  /\ MayCommit(t, "saving")
  /\ saved' = [r \in Rules |-> IF r \in task[t].rules /\ Exists(r) THEN "saved" ELSE saved[r]]
  /\ Unwind(t)
  /\ UNCHANGED account

\* Mutant: the rules locked at first are purged without looking for new ones.
PurgeLocked(t) ==
  /\ MayCommit(t, "purging") /\ account = "disconnected"
  /\ account' = "deleted"
  /\ saved' = [r \in Rules |-> IF r \in Affected \cap task[t].rules THEN "removed" ELSE saved[r]]
  /\ Unwind(t)

\* Mutant: rules created meanwhile are purged without being locked.
PurgeAll(t) ==
  /\ MayCommit(t, "purging") /\ account = "disconnected"
  /\ account' = "deleted"
  /\ saved' = [r \in Rules |-> IF r \in Affected THEN "removed" ELSE saved[r]]
  /\ Unwind(t)

Purge(t) ==
  /\ MayCommit(t, "purging") /\ account = "disconnected"
  /\ Affected \subseteq task[t].rules
  /\ account' = "deleted"
  /\ saved' = [r \in Rules |-> IF r \in Affected THEN "removed" ELSE saved[r]]
  /\ Unwind(t)

\* A rule was created for the account while waiting: release all, then lock it as well.
LockAgain(t) ==
  /\ MayCommit(t, "purging") /\ account = "disconnected"
  /\ ~(Affected \subseteq task[t].rules)
  /\ runLock' = Without(runLock, t) /\ writeLock' = Without(writeLock, t)
  /\ task' = [task EXCEPT ![t].at = "runLock", ![t].rules = @ \cup Affected]
  /\ UNCHANGED <<rows, minted, every, transaction, left>>

Compact(t) ==
  /\ MayCommit(t, "compacting")
  /\ Unwind(t)
  /\ UNCHANGED rows

Work(t) ==
  \/ TakeLocks(t)
  \/ BusyTimeout(t) \/ Refuse(t)
  \/ NextWrite(t) \/ WriteProjection(t) \/ StopRun(t) \/ SaveCursors(t) \/ CompleteRun(t)
  \/ MarkRemoving(t) \/ RemoveRule(t) \/ RecordFullPass(t)
  \/ ReadRule(t) \/ SaveRule(t)
  \/ Purge(t) \/ LockAgain(t) \/ Compact(t)

Next ==
  \/ \E r \in Rules : CreateRule(r)
  \/ \E t \in Threads :
       \/ \E r \in Rules : BeginForRule(t, r)
       \/ BeginDeletion(t) \/ BeginCompaction(t)
       \/ Work(t)

Spec == Init /\ [][Next]_vars

\* Every thread keeps running; nothing obliges anybody to begin an operation.
FairSpec == Spec /\ \A t \in Threads : WF_vars(Work(t))

-----------------------------------------------------------------------------
(***************************************************************************)
(* What the locks are for.                                                 *)
(***************************************************************************)
\* Inside the for_rule section of r.
Serialized(t, r) ==
  /\ r \in task[t].rules
  /\ \/ task[t].at \in {"running", "writing", "completing", "marking", "removing",
                         "recording", "purging"}
     \/ task[t].at = "writeLock" /\ task[t].kind # "change"

\* Between reading r and saving it.
Changing(t, r) == r \in task[t].rules /\ task[t].at \in {"reading", "saving"}

(***************************************************************************)
(* No run, removal or deletion of any rule is under way while the database *)
(* is compacted, also of a rule created after compaction began.            *)
(***************************************************************************)
CompactsAlone ==
  \A t, u \in Threads, r \in Rules : task[t].at = "compacting" => ~Serialized(u, r)

(***************************************************************************)
(* A rule's records are only purged while no other thread is inside its    *)
(* for_rule section or between reading and saving it, however the account  *)
(* deletion interleaves with rules being created for the account.          *)
(***************************************************************************)
PurgedUndisturbed ==
  [][\A t \in Threads :
       task[t].at = "purging" /\ task'[t] = Idle /\ account # account' =>
         \A r \in Rules, u \in Threads \ {t} :
           Exists(r) /\ saved'[r] = "removed" => ~Serialized(u, r) /\ ~Changing(u, r)]_vars

(***************************************************************************)
(* A removal that began stands: no lifecycle change that read the rule     *)
(* before saves it as it was.                                              *)
(***************************************************************************)
RemovalStands ==
  [][\A r \in Rules : saved[r] = "removing" => saved'[r] \in {"removing", "removed"}]_vars

(***************************************************************************)
(* No rule is left that names a deleted account.                           *)
(***************************************************************************)
NoRuleOutlivesAccount ==
  account = "deleted" => \A r \in OfAccount : ~Exists(r)

(***************************************************************************)
(* Every operation ends: no lock is leaked and nobody waits for good.      *)
(***************************************************************************)
EveryTaskEnds == \A t \in Threads : task[t] # Idle ~> task[t] = Idle

(***************************************************************************)
(* Whom a thread waits for, and the documented claim that a lifecycle      *)
(* change waits for no more than a write in flight: never for a thread     *)
(* that itself waits for the change.                                       *)
(***************************************************************************)
WaitsFor(t) ==
  {u \in Threads \ {t} :
     \/ task[t].at = "runLock" /\ \E r \in Rules : Asked(t, runLock, r) /\ runLock[r] = u
     \/ task[t].at = "writeLock" /\ \E r \in Rules : Asked(t, writeLock, r) /\ writeLock[r] = u
     \/ task[t].at \in Writing /\ transaction = u}

ChangesWaitForWritesOnly ==
  \A t, u \in Threads : task[t].kind = "change" /\ u \in WaitsFor(t) => t \notin WaitsFor(u)
=============================================================================
