--------------------------- MODULE RuleLocksProofs ---------------------------
(***************************************************************************)
(* What RuleLocks guarantees for any threads, rules and number of          *)
(* operations.  The invariant says which locks a thread holds at each      *)
(* stage of its operation.                                                 *)
(***************************************************************************)
EXTENDS RuleLocks, TLAPS

\* Stages at which a thread has all its run locks, and all its write locks.
HasRunLocks(t) ==
  \/ task[t].at \in {"running", "writing", "completing", "marking", "removing", "recording",
                     "purging", "compacting"}
  \/ task[t].at = "writeLock" /\ task[t].kind # "change"

HasWriteLocks(t) ==
  task[t].at \in {"writing", "completing", "marking", "reading", "saving", "purging"}

\* A thread that compacts, or takes locks to compact, holds every rule.
Gathering(t) == task[t].kind = "compaction" /\ task[t].at \in {"runLock", "compacting"}

RunLocksHeld == \A t \in Threads : HasRunLocks(t) => \A r \in task[t].rules : runLock[r] = t

WriteLocksHeld == \A t \in Threads : HasWriteLocks(t) => \A r \in task[t].rules : writeLock[r] = t

MintedFirst == \A r \in Rules : runLock[r] # None => r \in minted

Gathered ==
  \A t \in Threads : Gathering(t) =>
    /\ every = t
    /\ \A r \in minted : r \in task[t].rules \/ runLock[r] = t

\* Compaction never leaves its stages, and only compaction compacts.
Staged ==
  \A t \in Threads :
    /\ task[t].kind = "compaction" => task[t].at \in {"every", "runLock", "compacting"}
    /\ task[t].at = "compacting" => task[t].kind = "compaction"
    /\ task[t].at \in {"marking", "removing"} => task[t].kind = "removal"

\* What a change read still stands when it saves: no removal began, or the row is gone.
ReadStands ==
  \A t \in Threads : task[t].at = "saving" =>
    \A r \in task[t].rules : saved[r] \in {"saved", "removed"}

Inv == TypeOK /\ RunLocksHeld /\ WriteLocksHeld /\ MintedFirst /\ Gathered /\ Staged /\ ReadStands

\* Every step is one thread's, or creates a rule.
Steps(t) ==
  \/ \E r \in Rules : BeginForRule(t, r)
  \/ BeginDeletion(t) \/ BeginCompaction(t)
  \/ Work(t)

-----------------------------------------------------------------------------
LEMMA IdleTyped == Idle \in [kind : Kinds, rules : SUBSET Rules, at : Stages, todo : Nat]
  BY DEF Idle, Kinds, Stages

LEMMA GotoTyped ==
  ASSUME TypeOK, NEW t \in Threads, NEW stage \in Stages, Goto(t, stage)
  PROVE  task' \in [Threads -> [kind : Kinds, rules : SUBSET Rules, at : Stages, todo : Nat]]
  BY DEF TypeOK, Goto

LEMMA UnwindTyped ==
  ASSUME TypeOK, NEW t \in Threads, Unwind(t),
         saved' \in [Rules -> {"none", "saved", "removing", "removed"}],
         account' \in {"disconnected", "deleted"}
  PROVE  TypeOK'
  BY IdleTyped DEF TypeOK, Unwind, Without

LEMMA TypeTakeLocks == ASSUME TypeOK, NEW t \in Threads, TakeLocks(t) PROVE TypeOK'
<1> USE DEF rows, locks
<1>1. ASSUME NEW r \in Rules, AskRunLock(t, r) \/ TakeRunLock(t, r) \/ TakeWriteLock(t, r)
      PROVE  TypeOK'
  BY <1>1 DEF TypeOK, AskRunLock, TakeRunLock, TakeWriteLock
<1>2. CASE RunLocksTaken(t)
  <2>1. task' \in [Threads -> [kind : Kinds, rules : SUBSET Rules, at : Stages, todo : Nat]]
    BY <1>2, GotoTyped DEF RunLocksTaken, Stages
  <2> QED BY <1>2, <2>1 DEF TypeOK, RunLocksTaken
<1>3. CASE WriteLocksTaken(t)
  <2>1. task' \in [Threads -> [kind : Kinds, rules : SUBSET Rules, at : Stages, todo : Nat]]
    BY <1>3, GotoTyped DEF WriteLocksTaken, Stages
  <2> QED BY <1>3, <2>1 DEF TypeOK, WriteLocksTaken
<1>4. CASE TakeEvery(t)
  BY <1>4 DEF TypeOK, TakeEvery, Stages
<1>5. CASE EveryTimeout(t)
  BY <1>5, UnwindTyped DEF EveryTimeout, TypeOK
<1> QED BY <1>1, <1>2, <1>3, <1>4, <1>5 DEF TakeLocks

LEMMA TypeSteps == ASSUME TypeOK, NEW t \in Threads, Steps(t) PROVE TypeOK'
<1> USE DEF rows, locks
<1>1. ASSUME NEW kind \in Kinds, NEW rules \in SUBSET Rules, NEW stage \in Stages,
             NEW todo \in Nat, Begin(t, kind, rules, stage, todo)
      PROVE  TypeOK'
  <2>1. left' \in Nat
    BY <1>1 DEF Begin, TypeOK
  <2>2. task' = [task EXCEPT ![t] = [kind |-> kind, rules |-> rules, at |-> stage, todo |-> todo]]
    BY <1>1 DEF Begin
  <2> QED BY <1>1, <2>1, <2>2 DEF Begin, TypeOK
<1>2. ASSUME NEW r \in Rules, BeginForRule(t, r) PROVE TypeOK'
  <2>1. 0..MaxWrites \subseteq Nat
    OBVIOUS
  <2> QED BY <1>1, <1>2, <2>1 DEF BeginForRule, Kinds, Stages
<1>3. CASE BeginDeletion(t) \/ BeginCompaction(t)
  <2>1. Affected \subseteq Rules
    BY RulesAssumption DEF Affected
  <2> QED BY <1>1, <1>3, <2>1 DEF BeginDeletion, BeginCompaction, Kinds, Stages
<1>4. CASE TakeLocks(t)
  BY <1>4, TypeTakeLocks
<1>5. CASE BusyTimeout(t) \/ Refuse(t) \/ StopRun(t) \/ CompleteRun(t) \/ RecordFullPass(t) \/ Compact(t)
  BY <1>5, UnwindTyped DEF BusyTimeout, Refuse, StopRun, CompleteRun, RecordFullPass, Compact, TypeOK
<1>6. CASE NextWrite(t)
  BY <1>6 DEF TypeOK, NextWrite, Stages
<1>7. CASE WriteProjection(t)
  <2>1. task' \in [Threads -> [kind : Kinds, rules : SUBSET Rules, at : Stages, todo : Nat]]
    BY <1>7, GotoTyped DEF WriteProjection, Stages
  <2> QED BY <1>7, <2>1 DEF TypeOK, WriteProjection, ReleaseWriteLocks, Without
<1>8. CASE SaveCursors(t)
  <2>1. task' \in [Threads -> [kind : Kinds, rules : SUBSET Rules, at : Stages, todo : Nat]]
    BY <1>8, GotoTyped DEF SaveCursors, Stages
  <2> QED BY <1>8, <2>1 DEF TypeOK, SaveCursors
<1>9. CASE MarkRemoving(t)
  <2>1. task' \in [Threads -> [kind : Kinds, rules : SUBSET Rules, at : Stages, todo : Nat]]
    BY <1>9, GotoTyped DEF MarkRemoving, Stages
  <2> QED BY <1>9, <2>1 DEF TypeOK, MarkRemoving, ReleaseWriteLocks, Without
<1>10. CASE RemoveRule(t) \/ SaveRule(t) \/ Purge(t)
  <2>1. saved' \in [Rules -> {"none", "saved", "removing", "removed"}]
    BY <1>10 DEF RemoveRule, SaveRule, Purge, TypeOK
  <2>2. Unwind(t) /\ account' \in {"disconnected", "deleted"}
    BY <1>10 DEF RemoveRule, SaveRule, Purge, TypeOK
  <2> QED BY <2>1, <2>2, UnwindTyped
<1>11. CASE ReadRule(t)
  <2>1. task' \in [Threads -> [kind : Kinds, rules : SUBSET Rules, at : Stages, todo : Nat]]
    BY <1>11, GotoTyped DEF ReadRule, Stages
  <2> QED BY <1>11, <2>1 DEF TypeOK, ReadRule
<1>12. CASE LockAgain(t)
  <2>1. Affected \subseteq Rules
    BY RulesAssumption DEF Affected
  <2> QED BY <1>12, <2>1 DEF TypeOK, LockAgain, Without, Stages
<1> QED BY <1>2, <1>3, <1>4, <1>5, <1>6, <1>7, <1>8, <1>9, <1>10, <1>11, <1>12 DEF Steps, Work

LEMMA TypeNext == TypeOK /\ [Next]_vars => TypeOK'
<1> SUFFICES ASSUME TypeOK, [Next]_vars PROVE TypeOK'
  OBVIOUS
<1>1. CASE UNCHANGED vars
  BY <1>1 DEF TypeOK, vars, rows, locks
<1>2. ASSUME NEW r \in Rules, CreateRule(r) PROVE TypeOK'
  BY <1>2 DEF CreateRule, TypeOK, locks
<1> QED BY <1>1, <1>2, TypeSteps DEF Next, Steps

-----------------------------------------------------------------------------
(***************************************************************************)
(* A thread's step touches its own task and locks only: what others do and *)
(* hold stays as it was.                                                   *)
(***************************************************************************)
LEMMA OthersKeepTheirs ==
  ASSUME TypeOK, MintedFirst, NEW t \in Threads, Steps(t)
  PROVE  /\ \A u \in Threads \ {t} : task'[u] = task[u] /\ (every = u => every' = u)
         /\ \A u \in Threads \ {t}, r \in Rules :
              /\ runLock[r] = u => runLock'[r] = u
              /\ writeLock[r] = u => writeLock'[r] = u
<1> USE DEF rows, locks
<1>1. ASSUME NEW r \in Rules, AskRunLock(t, r) \/ TakeRunLock(t, r) \/ TakeWriteLock(t, r)
      PROVE  /\ \A u \in Threads \ {t} : task'[u] = task[u] /\ (every = u => every' = u)
             /\ \A u \in Threads \ {t}, q \in Rules :
                  /\ runLock[q] = u => runLock'[q] = u
                  /\ writeLock[q] = u => writeLock'[q] = u
  <2>1. task' = task /\ every' = every
    BY <1>1 DEF AskRunLock, TakeRunLock, TakeWriteLock
  <2>2. \A u \in Threads, q \in Rules :
          /\ runLock[q] = u => runLock'[q] = u
          /\ writeLock[q] = u => writeLock'[q] = u
    BY <1>1, RulesAssumption DEF AskRunLock, TakeRunLock, TakeWriteLock, MintedFirst, TypeOK
  <2> QED BY <2>1, <2>2
<1>2. ASSUME \E stage \in Stages : Goto(t, stage), UNCHANGED <<runLock, every>>,
             writeLock' = writeLock \/ writeLock' = Without(writeLock, t)
      PROVE  /\ \A u \in Threads \ {t} : task'[u] = task[u] /\ (every = u => every' = u)
             /\ \A u \in Threads \ {t}, r \in Rules :
                  /\ runLock[r] = u => runLock'[r] = u
                  /\ writeLock[r] = u => writeLock'[r] = u
  BY <1>2 DEF Goto, Without, TypeOK
<1>3. ASSUME Unwind(t)
      PROVE  /\ \A u \in Threads \ {t} : task'[u] = task[u] /\ (every = u => every' = u)
             /\ \A u \in Threads \ {t}, r \in Rules :
                  /\ runLock[r] = u => runLock'[r] = u
                  /\ writeLock[r] = u => writeLock'[r] = u
  BY <1>3 DEF Unwind, Without, TypeOK
<1>4. CASE RunLocksTaken(t) \/ WriteLocksTaken(t) \/ SaveCursors(t) \/ ReadRule(t)
  <2>1. \E stage \in Stages : Goto(t, stage)
    BY <1>4 DEF RunLocksTaken, WriteLocksTaken, SaveCursors, ReadRule, Stages
  <2> QED BY <1>2, <1>4, <2>1 DEF RunLocksTaken, WriteLocksTaken, SaveCursors, ReadRule
<1>5. CASE WriteProjection(t) \/ MarkRemoving(t)
  <2>1. \E stage \in Stages : Goto(t, stage)
    BY <1>5 DEF WriteProjection, MarkRemoving, Stages
  <2> QED BY <1>2, <1>5, <2>1 DEF WriteProjection, MarkRemoving, ReleaseWriteLocks
<1>6. CASE TakeEvery(t)
  BY <1>6, RulesAssumption DEF TakeEvery, TypeOK
<1>7. CASE NextWrite(t)
  BY <1>7 DEF NextWrite, TypeOK
<1>8. CASE LockAgain(t)
  BY <1>8 DEF LockAgain, Without, TypeOK
<1>9. CASE (\E r \in Rules : BeginForRule(t, r)) \/ BeginDeletion(t) \/ BeginCompaction(t)
  BY <1>9 DEF BeginForRule, BeginDeletion, BeginCompaction, Begin, TypeOK
<1>10. CASE EveryTimeout(t) \/ BusyTimeout(t) \/ Refuse(t) \/ StopRun(t) \/ CompleteRun(t)
            \/ RemoveRule(t) \/ RecordFullPass(t) \/ SaveRule(t) \/ Purge(t) \/ Compact(t)
  BY <1>3, <1>10 DEF EveryTimeout, BusyTimeout, Refuse, StopRun, CompleteRun, RemoveRule,
                     RecordFullPass, SaveRule, Purge, Compact
<1> HIDE DEF rows, locks
<1> QED BY <1>1, <1>4, <1>5, <1>6, <1>7, <1>8, <1>9, <1>10 DEF Steps, Work, TakeLocks

\* A thread that ends holds nothing and waits for nothing.
LEMMA UnwoundHoldsNothing ==
  ASSUME TypeOK, NEW t \in Threads, Unwind(t)
  PROVE  task'[t] = Idle /\ ~HasRunLocks(t)' /\ ~HasWriteLocks(t)' /\ ~Gathering(t)'
  BY DEF TypeOK, Unwind, HasRunLocks, HasWriteLocks, Gathering, Idle

LEMMA RunLocksStep ==
  ASSUME TypeOK, MintedFirst, RunLocksHeld, Staged, NEW t \in Threads, Steps(t)
  PROVE  RunLocksHeld'
<1> USE DEF rows, locks
<1>1. \A u \in Threads \ {t} : HasRunLocks(u)' => \A r \in task'[u].rules : runLock'[r] = u
  <2> TAKE u \in Threads \ {t}
  <2>1. task'[u] = task[u] /\ \A r \in Rules : runLock[r] = u => runLock'[r] = u
    BY OthersKeepTheirs
  <2> QED BY <2>1 DEF RunLocksHeld, HasRunLocks, TypeOK
<1>2. ASSUME Unwind(t) PROVE ~HasRunLocks(t)'
  BY <1>2, UnwoundHoldsNothing
<1>3. ASSUME HasRunLocks(t)'
      PROVE  \A r \in task'[t].rules : runLock'[r] = t
  <2>1. CASE \E r \in Rules : BeginForRule(t, r)
    BY <1>3, <2>1 DEF BeginForRule, Begin, HasRunLocks, TypeOK
  <2>2. CASE BeginDeletion(t) \/ BeginCompaction(t)
    BY <1>3, <2>2 DEF BeginDeletion, BeginCompaction, Begin, HasRunLocks, TypeOK
  <2>3. ASSUME NEW r \in Rules, AskRunLock(t, r) \/ TakeRunLock(t, r)
        PROVE  ~HasRunLocks(t)'
    BY <2>3 DEF AskRunLock, TakeRunLock, HasRunLocks
  <2>4. ASSUME NEW r \in Rules, TakeWriteLock(t, r)
        PROVE  \A q \in task'[t].rules : runLock'[q] = t
    BY <1>3, <2>4 DEF TakeWriteLock, HasRunLocks, RunLocksHeld
  <2>5. CASE RunLocksTaken(t)
    BY <2>5 DEF RunLocksTaken, Missing, Goto, TypeOK
  <2>6. CASE WriteLocksTaken(t)
    <3>1. task[t].at = "writeLock" /\ task'[t].rules = task[t].rules /\ runLock' = runLock
      BY <2>6 DEF WriteLocksTaken, Goto, TypeOK
    <3>2. task[t].kind # "change"
      BY <1>3, <2>6 DEF WriteLocksTaken, Goto, HasRunLocks, TypeOK
    <3> QED BY <3>1, <3>2 DEF RunLocksHeld, HasRunLocks
  <2>7. CASE TakeEvery(t)
    BY <1>3, <2>7 DEF TakeEvery, HasRunLocks, TypeOK
  <2>8. CASE NextWrite(t)
    BY <2>8 DEF NextWrite, RunLocksHeld, HasRunLocks, TypeOK
  <2>9. CASE WriteProjection(t) \/ MarkRemoving(t) \/ SaveCursors(t)
    <3>1. HasRunLocks(t)
      BY <2>9 DEF WriteProjection, MarkRemoving, SaveCursors, MayCommit, HasRunLocks
    <3>2. runLock' = runLock
      BY <2>9 DEF WriteProjection, MarkRemoving, SaveCursors
    <3>3. task'[t].rules = task[t].rules
      BY <2>9 DEF WriteProjection, MarkRemoving, SaveCursors, Goto, TypeOK
    <3> QED BY <3>1, <3>2, <3>3 DEF RunLocksHeld
  <2>10. CASE ReadRule(t)
    BY <1>3, <2>10 DEF ReadRule, Goto, HasRunLocks, TypeOK
  <2>11. CASE LockAgain(t)
    BY <1>3, <2>11 DEF LockAgain, HasRunLocks, TypeOK
  <2>12. CASE EveryTimeout(t) \/ BusyTimeout(t) \/ Refuse(t) \/ StopRun(t) \/ CompleteRun(t)
              \/ RemoveRule(t) \/ RecordFullPass(t) \/ SaveRule(t) \/ Purge(t) \/ Compact(t)
    BY <1>2, <1>3, <2>12 DEF EveryTimeout, BusyTimeout, Refuse, StopRun, CompleteRun, RemoveRule,
                             RecordFullPass, SaveRule, Purge, Compact
  <2> HIDE DEF rows, locks
  <2> QED BY <1>3, <2>1, <2>2, <2>3, <2>4, <2>5, <2>6, <2>7, <2>8, <2>9, <2>10, <2>11, <2>12
          DEF Steps, Work, TakeLocks
<1> QED BY <1>1, <1>3 DEF RunLocksHeld

LEMMA WriteLocksStep ==
  ASSUME TypeOK, MintedFirst, WriteLocksHeld, NEW t \in Threads, Steps(t)
  PROVE  WriteLocksHeld'
<1> USE DEF rows, locks
<1>1. \A u \in Threads \ {t} : HasWriteLocks(u)' => \A r \in task'[u].rules : writeLock'[r] = u
  <2> TAKE u \in Threads \ {t}
  <2>1. task'[u] = task[u] /\ \A r \in Rules : writeLock[r] = u => writeLock'[r] = u
    BY OthersKeepTheirs
  <2> QED BY <2>1 DEF WriteLocksHeld, HasWriteLocks, TypeOK
<1>2. ASSUME Unwind(t) PROVE ~HasWriteLocks(t)'
  BY <1>2, UnwoundHoldsNothing
<1>3. ASSUME HasWriteLocks(t)'
      PROVE  \A r \in task'[t].rules : writeLock'[r] = t
  <2>1. CASE (\E r \in Rules : BeginForRule(t, r)) \/ BeginDeletion(t) \/ BeginCompaction(t)
    BY <1>3, <2>1 DEF BeginForRule, BeginDeletion, BeginCompaction, Begin, HasWriteLocks, TypeOK
  <2>2. ASSUME NEW r \in Rules, AskRunLock(t, r) \/ TakeRunLock(t, r) \/ TakeWriteLock(t, r)
        PROVE  ~HasWriteLocks(t)'
    BY <2>2 DEF AskRunLock, TakeRunLock, TakeWriteLock, HasWriteLocks
  <2>3. CASE RunLocksTaken(t)
    BY <1>3, <2>3 DEF RunLocksTaken, Goto, HasWriteLocks, TypeOK
  <2>4. CASE WriteLocksTaken(t)
    BY <2>4 DEF WriteLocksTaken, Missing, Goto, TypeOK
  <2>5. CASE TakeEvery(t) \/ NextWrite(t) \/ LockAgain(t)
    BY <1>3, <2>5 DEF TakeEvery, NextWrite, LockAgain, HasWriteLocks, TypeOK
  <2>6. CASE WriteProjection(t) \/ MarkRemoving(t) \/ SaveCursors(t)
    BY <1>3, <2>6 DEF WriteProjection, MarkRemoving, SaveCursors, Goto, HasWriteLocks, TypeOK
  <2>7. CASE ReadRule(t)
    BY <2>7 DEF ReadRule, Goto, WriteLocksHeld, HasWriteLocks, TypeOK
  <2>8. CASE EveryTimeout(t) \/ BusyTimeout(t) \/ Refuse(t) \/ StopRun(t) \/ CompleteRun(t)
             \/ RemoveRule(t) \/ RecordFullPass(t) \/ SaveRule(t) \/ Purge(t) \/ Compact(t)
    BY <1>2, <1>3, <2>8 DEF EveryTimeout, BusyTimeout, Refuse, StopRun, CompleteRun, RemoveRule,
                            RecordFullPass, SaveRule, Purge, Compact
  <2> HIDE DEF rows, locks
  <2> QED BY <1>3, <2>1, <2>2, <2>3, <2>4, <2>5, <2>6, <2>7, <2>8 DEF Steps, Work, TakeLocks
<1> QED BY <1>1, <1>3 DEF WriteLocksHeld

LEMMA MintedStep ==
  ASSUME TypeOK, MintedFirst, Staged, NEW t \in Threads, Steps(t)
  PROVE  MintedFirst'
<1> USE DEF rows, locks
<1>1. ASSUME UNCHANGED minted, \A r \in Rules : runLock'[r] \in {runLock[r], None}
      PROVE  MintedFirst'
  BY <1>1 DEF MintedFirst
<1>2. ASSUME Unwind(t) PROVE MintedFirst'
  BY <1>1, <1>2 DEF Unwind, Without
<1>3. ASSUME NEW r \in Rules, AskRunLock(t, r) \/ TakeRunLock(t, r) PROVE MintedFirst'
  BY <1>3 DEF AskRunLock, TakeRunLock, MintedFirst, TypeOK
<1>4. CASE LockAgain(t)
  BY <1>1, <1>4 DEF LockAgain, Without
<1>5. ASSUME UNCHANGED <<minted, runLock>> PROVE MintedFirst'
  BY <1>5 DEF MintedFirst
<1>6. ASSUME (\E r \in Rules : BeginForRule(t, r) \/ TakeWriteLock(t, r)) \/ BeginDeletion(t)
             \/ BeginCompaction(t) \/ RunLocksTaken(t) \/ WriteLocksTaken(t) \/ TakeEvery(t)
             \/ NextWrite(t) \/ WriteProjection(t) \/ SaveCursors(t) \/ MarkRemoving(t) \/ ReadRule(t)
      PROVE  MintedFirst'
  BY <1>5, <1>6 DEF BeginForRule, BeginDeletion, BeginCompaction, Begin, TakeWriteLock, RunLocksTaken,
                    WriteLocksTaken, TakeEvery, NextWrite, WriteProjection, SaveCursors, MarkRemoving,
                    ReadRule
<1>7. CASE EveryTimeout(t) \/ BusyTimeout(t) \/ Refuse(t) \/ StopRun(t) \/ CompleteRun(t)
           \/ RemoveRule(t) \/ RecordFullPass(t) \/ SaveRule(t) \/ Purge(t) \/ Compact(t)
  BY <1>2, <1>7 DEF EveryTimeout, BusyTimeout, Refuse, StopRun, CompleteRun, RemoveRule,
                    RecordFullPass, SaveRule, Purge, Compact
<1> HIDE DEF rows, locks
<1> QED BY <1>3, <1>4, <1>6, <1>7 DEF Steps, Work, TakeLocks

\* Each thread moves through the stages of its own kind of operation.
LEMMA StagedStep ==
  ASSUME TypeOK, MintedFirst, Staged, NEW t \in Threads, Steps(t)
  PROVE  Staged'
<1> USE DEF rows, locks
<1>1. \A u \in Threads \ {t} : task'[u] = task[u]
  BY OthersKeepTheirs
<1>2. ASSUME /\ task'[t].kind = "compaction" => task'[t].at \in {"every", "runLock", "compacting"}
             /\ task'[t].at = "compacting" => task'[t].kind = "compaction"
             /\ task'[t].at \in {"marking", "removing"} => task'[t].kind = "removal"
      PROVE  Staged'
  BY <1>1, <1>2 DEF Staged
<1>3. ASSUME Unwind(t) PROVE Staged'
  BY <1>2, <1>3, UnwoundHoldsNothing DEF Idle
<1>4. CASE (\E r \in Rules : BeginForRule(t, r)) \/ BeginDeletion(t) \/ BeginCompaction(t)
  BY <1>2, <1>4 DEF BeginForRule, BeginDeletion, BeginCompaction, Begin, TypeOK
<1>5. ASSUME task' = task PROVE Staged'
  BY <1>5 DEF Staged
<1>6. ASSUME NEW r \in Rules, AskRunLock(t, r) \/ TakeRunLock(t, r) \/ TakeWriteLock(t, r)
      PROVE  Staged'
  BY <1>5, <1>6 DEF AskRunLock, TakeRunLock, TakeWriteLock
<1>7. ASSUME NEW stage \in Stages, Goto(t, stage)
      PROVE  task'[t].kind = task[t].kind /\ task'[t].at = stage
  BY <1>7 DEF Goto, TypeOK
<1>8. CASE RunLocksTaken(t)
  BY <1>2, <1>7, <1>8 DEF RunLocksTaken, Stages
<1>9. CASE WriteLocksTaken(t)
  <2>1. task[t].kind # "compaction"
    BY <1>9 DEF WriteLocksTaken, Staged
  <2> QED BY <1>2, <1>7, <1>9, <2>1 DEF WriteLocksTaken, Stages
<1>10. CASE TakeEvery(t) \/ NextWrite(t) \/ LockAgain(t)
  BY <1>2, <1>10 DEF TakeEvery, NextWrite, LockAgain, MayCommit, Staged, TypeOK
<1>11. CASE WriteProjection(t) \/ SaveCursors(t) \/ MarkRemoving(t) \/ ReadRule(t)
  <2>1. task[t].kind # "compaction" /\ (task[t].at = "marking" => task[t].kind = "removal")
    BY <1>11 DEF WriteProjection, SaveCursors, MarkRemoving, ReadRule, MayCommit, Staged
  <2> QED BY <1>2, <1>7, <1>11, <2>1
          DEF WriteProjection, SaveCursors, MarkRemoving, ReadRule, MayCommit, Stages
<1>12. CASE EveryTimeout(t) \/ BusyTimeout(t) \/ Refuse(t) \/ StopRun(t) \/ CompleteRun(t)
            \/ RemoveRule(t) \/ RecordFullPass(t) \/ SaveRule(t) \/ Purge(t) \/ Compact(t)
  BY <1>3, <1>12 DEF EveryTimeout, BusyTimeout, Refuse, StopRun, CompleteRun, RemoveRule,
                     RecordFullPass, SaveRule, Purge, Compact
<1> HIDE DEF rows, locks
<1> QED BY <1>4, <1>6, <1>8, <1>9, <1>10, <1>11, <1>12 DEF Steps, Work, TakeLocks

LEMMA GatheredStep ==
  ASSUME TypeOK, MintedFirst, Staged, Gathered, NEW t \in Threads, Steps(t)
  PROVE  Gathered'
<1> USE DEF rows, locks
<1>1. \A r \in minted' : r \in minted \/ (r \in Rules /\ AskRunLock(t, r))
  <2>1. CASE \E r \in Rules : AskRunLock(t, r)
    BY <2>1 DEF AskRunLock
  <2>2. CASE minted' = minted
    BY <2>2
  <2>3. minted' = minted \/ \E r \in Rules : AskRunLock(t, r)
    BY DEF Steps, Work, TakeLocks, BeginForRule, BeginDeletion, BeginCompaction, Begin, TakeRunLock,
           TakeWriteLock, RunLocksTaken, WriteLocksTaken, TakeEvery, NextWrite, WriteProjection,
           SaveCursors, MarkRemoving, ReadRule, LockAgain, Unwind, EveryTimeout, BusyTimeout, Refuse,
           StopRun, CompleteRun, RemoveRule, RecordFullPass, SaveRule, Purge, Compact
  <2> QED BY <2>1, <2>2, <2>3
<1>2. \A u \in Threads \ {t} : Gathering(u)' =>
        /\ every' = u
        /\ \A r \in minted' : r \in task'[u].rules \/ runLock'[r] = u
  <2> SUFFICES ASSUME NEW u \in Threads \ {t}, Gathering(u)'
               PROVE  every' = u /\ \A r \in minted' : r \in task'[u].rules \/ runLock'[r] = u
    OBVIOUS
  <2>1. task'[u] = task[u] /\ Gathering(u) /\ every = u /\ every' = u
    BY OthersKeepTheirs DEF Gathering, Gathered
  <2>2. ASSUME NEW r \in minted PROVE r \in task'[u].rules \/ runLock'[r] = u
    BY <2>1, <2>2, OthersKeepTheirs DEF Gathered, TypeOK
  <2>3. ASSUME NEW r \in Rules, AskRunLock(t, r) PROVE runLock'[r] = u
    BY <2>1, <2>3 DEF AskRunLock, TypeOK
  <2> QED BY <1>1, <2>1, <2>2, <2>3
<1>3. ASSUME Gathering(t)'
      PROVE  /\ every' = t
             /\ \A r \in minted' : r \in task'[t].rules \/ runLock'[r] = t
  <2>1. CASE TakeEvery(t)
    BY <2>1 DEF TakeEvery, TypeOK
  <2>2. ASSUME NEW r \in Rules, AskRunLock(t, r) \/ TakeRunLock(t, r)
        PROVE  /\ every' = t
               /\ \A q \in minted' : q \in task'[t].rules \/ runLock'[q] = t
    <3>1. Gathering(t) /\ every' = every /\ task' = task
      BY <1>3, <2>2 DEF AskRunLock, TakeRunLock, Gathering
    <3>2. every = t /\ r \in task[t].rules
      BY <2>2, <3>1 DEF AskRunLock, TakeRunLock, Asked, Missing, Gathered
    <3>3. \A q \in minted : q \in task[t].rules \/ runLock[q] = t
      BY <3>1 DEF Gathered
    <3>4. minted' \subseteq minted \cup {r} /\ \A q \in Rules \ {r} : runLock'[q] = runLock[q]
      BY <2>2 DEF AskRunLock, TakeRunLock, TypeOK
    <3> QED BY <3>1, <3>2, <3>3, <3>4 DEF TypeOK
  <2>3. CASE RunLocksTaken(t)
    <3>1. Gathering(t) /\ task'[t].rules = task[t].rules /\ UNCHANGED <<every, minted, runLock>>
      BY <1>3, <2>3 DEF RunLocksTaken, Goto, Gathering, TypeOK
    <3> QED BY <3>1 DEF Gathered
  <2>4. CASE (\E r \in Rules : BeginForRule(t, r)) \/ BeginDeletion(t) \/ BeginCompaction(t)
    BY <1>3, <2>4 DEF BeginForRule, BeginDeletion, BeginCompaction, Begin, Gathering, TypeOK
  <2>5. CASE \E r \in Rules : TakeWriteLock(t, r)
    BY <1>3, <2>5 DEF TakeWriteLock, Gathering
  <2>6. CASE WriteLocksTaken(t) \/ NextWrite(t) \/ WriteProjection(t) \/ SaveCursors(t)
             \/ MarkRemoving(t) \/ ReadRule(t)
    BY <1>3, <2>6 DEF WriteLocksTaken, NextWrite, WriteProjection, SaveCursors, MarkRemoving, ReadRule,
                      Goto, Gathering, TypeOK
  <2>7. CASE LockAgain(t)
    BY <1>3, <2>7 DEF LockAgain, MayCommit, Gathering, Staged, TypeOK
  <2>8. CASE EveryTimeout(t) \/ BusyTimeout(t) \/ Refuse(t) \/ StopRun(t) \/ CompleteRun(t)
             \/ RemoveRule(t) \/ RecordFullPass(t) \/ SaveRule(t) \/ Purge(t) \/ Compact(t)
    BY <1>3, <2>8, UnwoundHoldsNothing DEF EveryTimeout, BusyTimeout, Refuse, StopRun, CompleteRun,
       RemoveRule, RecordFullPass, SaveRule, Purge, Compact
  <2> HIDE DEF rows, locks
  <2> QED BY <2>1, <2>2, <2>3, <2>4, <2>5, <2>6, <2>7, <2>8 DEF Steps, Work, TakeLocks
<1> QED BY <1>2, <1>3 DEF Gathered

\* Only these steps change what the rules table holds.
LEMMA RowsStep ==
  ASSUME NEW t \in Threads, Steps(t)
  PROVE  UNCHANGED rows \/ MarkRemoving(t) \/ RemoveRule(t) \/ SaveRule(t) \/ Purge(t)
  BY DEF Steps, Work, TakeLocks, BeginForRule, BeginDeletion, BeginCompaction, Begin, AskRunLock,
         TakeRunLock, TakeWriteLock, RunLocksTaken, WriteLocksTaken, TakeEvery, NextWrite,
         WriteProjection, SaveCursors, ReadRule, LockAgain, EveryTimeout, BusyTimeout, Refuse,
         StopRun, CompleteRun, RecordFullPass, Compact, rows, locks

LEMMA ReadStandsStep ==
  ASSUME TypeOK, MintedFirst, WriteLocksHeld, ReadStands, NEW t \in Threads, Steps(t)
  PROVE  ReadStands'
<1>1. ASSUME NEW u \in Threads, task[u].at = "saving", task'[u] = task[u], NEW r \in task[u].rules
      PROVE  saved'[r] \in {"saved", "removed"}
  <2>1. saved[r] \in {"saved", "removed"} /\ writeLock[r] = u /\ r \in Rules
    BY <1>1 DEF ReadStands, WriteLocksHeld, HasWriteLocks, TypeOK
  <2>2. CASE MarkRemoving(t)
    <3>1. t # u /\ task[t].at = "marking"
      BY <1>1, <2>2 DEF MarkRemoving, MayCommit
    <3>2. r \notin task[t].rules
      BY <2>1, <3>1 DEF WriteLocksHeld, HasWriteLocks
    <3> QED BY <2>1, <2>2, <3>2 DEF MarkRemoving, TypeOK
  <2>3. CASE RemoveRule(t) \/ SaveRule(t) \/ Purge(t)
    BY <2>1, <2>3 DEF RemoveRule, SaveRule, Purge, TypeOK
  <2> QED BY <2>1, <2>2, <2>3, RowsStep DEF rows
<1>2. ASSUME task'[t].at = "saving", task[t].at # "saving" \/ task'[t] # task[t]
      PROVE  \A r \in task'[t].rules : saved'[r] \in {"saved", "removed"}
  <2>1. CASE ReadRule(t)
    BY <2>1 DEF ReadRule, Goto, TypeOK, rows
  <2>2. ASSUME Unwind(t) PROVE FALSE
    BY <1>2, <2>2, UnwoundHoldsNothing DEF Idle
  <2>3. CASE task' = task
    BY <1>2, <2>3
  <2>4. \/ ReadRule(t) \/ Unwind(t) \/ task' = task
        \/ task'[t].at # "saving"
    BY DEF Steps, Work, TakeLocks, BeginForRule, BeginDeletion, BeginCompaction, Begin, AskRunLock,
           TakeRunLock, TakeWriteLock, RunLocksTaken, WriteLocksTaken, TakeEvery, NextWrite,
           WriteProjection, SaveCursors, MarkRemoving, LockAgain, EveryTimeout, BusyTimeout, Refuse,
           StopRun, CompleteRun, RemoveRule, RecordFullPass, SaveRule, Purge, Compact, Goto, TypeOK
  <2> QED BY <1>2, <2>1, <2>2, <2>3, <2>4
<1>3. \A u \in Threads \ {t} : task'[u] = task[u]
  BY OthersKeepTheirs
<1> QED BY <1>1, <1>2, <1>3 DEF ReadStands

LEMMA InvNext == Inv /\ [Next]_vars => Inv'
<1> SUFFICES ASSUME Inv, [Next]_vars PROVE Inv'
  OBVIOUS
<1>1. TypeOK'
  BY TypeNext DEF Inv
<1>2. CASE UNCHANGED vars
  BY <1>1, <1>2 DEF Inv, vars, rows, locks, RunLocksHeld, WriteLocksHeld, MintedFirst, Gathered, Staged,
     ReadStands, HasRunLocks, HasWriteLocks, Gathering
<1>3. ASSUME NEW r \in Rules, CreateRule(r) PROVE Inv'
  <2>1. RunLocksHeld' /\ WriteLocksHeld' /\ MintedFirst' /\ Gathered' /\ Staged'
    BY <1>3 DEF CreateRule, locks, Inv, RunLocksHeld, WriteLocksHeld, MintedFirst, Gathered, Staged,
       HasRunLocks, HasWriteLocks, Gathering
  <2>2. ReadStands'
    BY <1>3 DEF CreateRule, Inv, ReadStands, TypeOK
  <2> QED BY <1>1, <2>1, <2>2 DEF Inv
<1>4. ASSUME NEW t \in Threads, Steps(t) PROVE Inv'
  BY <1>1, <1>4, RunLocksStep, WriteLocksStep, MintedStep, GatheredStep, StagedStep, ReadStandsStep
     DEF Inv
<1> QED BY <1>2, <1>3, <1>4 DEF Next, Steps

LEMMA InvInit == Init => Inv
  BY RulesAssumption, IdleTyped DEF Init, Inv, TypeOK, RunLocksHeld, WriteLocksHeld, MintedFirst, Gathered,
     Staged, ReadStands, HasRunLocks, HasWriteLocks, Gathering, Idle

-----------------------------------------------------------------------------
(***************************************************************************)
(* The state stays well typed: in particular a run never makes more writes *)
(* than it has.                                                            *)
(***************************************************************************)
THEOREM LocksTyped == Spec => []TypeOK
<1>1. Inv => TypeOK
  BY DEF Inv
<1> QED BY <1>1, InvInit, InvNext, PTL DEF Spec

(***************************************************************************)
(* However many threads and rules there are, nothing runs for any rule     *)
(* while the database is compacted: every minted lock is held or claimed.  *)
(***************************************************************************)
THEOREM CompactionIsAlone == Spec => []CompactsAlone
<1>1. Inv => CompactsAlone
  <2> SUFFICES ASSUME Inv, NEW t \in Threads, NEW u \in Threads, NEW r \in Rules,
                      task[t].at = "compacting", Serialized(u, r)
               PROVE  FALSE
    BY DEF CompactsAlone
  <2>1. runLock[r] = u /\ u # t
    BY DEF Inv, RunLocksHeld, Serialized, HasRunLocks
  <2>2. r \in minted
    BY <2>1, RulesAssumption DEF Inv, MintedFirst
  <2>3. r \in task[t].rules \/ runLock[r] = t
    BY <2>2 DEF Inv, Gathered, Gathering, Staged
  <2> QED BY <2>1, <2>3 DEF Inv, RunLocksHeld, HasRunLocks
<1> QED BY <1>1, InvInit, InvNext, PTL DEF Spec

(***************************************************************************)
(* A removal that began is never undone by a lifecycle change.             *)
(***************************************************************************)
THEOREM RemovalsStand == Spec => RemovalStands
<1>1. Inv /\ [Next]_vars =>
        [\A r \in Rules : saved[r] = "removing" => saved'[r] \in {"removing", "removed"}]_vars
  <2> SUFFICES ASSUME Inv, Next, NEW r \in Rules, saved[r] = "removing"
               PROVE  saved'[r] \in {"removing", "removed"}
    OBVIOUS
  <2>1. ASSUME NEW q \in Rules, CreateRule(q) PROVE saved'[r] = "removing"
    BY <2>1 DEF CreateRule, Inv, TypeOK
  <2>2. ASSUME NEW t \in Threads, Steps(t) PROVE saved'[r] \in {"removing", "removed"}
    <3>1. CASE MarkRemoving(t) \/ RemoveRule(t) \/ Purge(t)
      BY <3>1 DEF MarkRemoving, RemoveRule, Purge, Inv, TypeOK
    <3>2. CASE SaveRule(t)
      <4>1. r \notin task[t].rules
        BY <3>2 DEF SaveRule, MayCommit, Inv, ReadStands
      <4> QED BY <3>2, <4>1 DEF SaveRule, Inv, TypeOK
    <3> QED BY <2>2, <3>1, <3>2, RowsStep DEF rows
  <2> QED BY <2>1, <2>2 DEF Next, Steps
<1> QED BY <1>1, InvInit, InvNext, PTL DEF Spec, RemovalStands

(***************************************************************************)
(* No rule outlives the account it uses, however creations and the         *)
(* deletion interleave.                                                    *)
(***************************************************************************)
THEOREM RulesGoWithAccount == Spec => []NoRuleOutlivesAccount
<1>1. Inv /\ NoRuleOutlivesAccount /\ [Next]_vars => NoRuleOutlivesAccount'
  <2> SUFFICES ASSUME Inv, NoRuleOutlivesAccount, [Next]_vars PROVE NoRuleOutlivesAccount'
    OBVIOUS
  <2>1. CASE UNCHANGED vars
    BY <2>1 DEF vars, rows, NoRuleOutlivesAccount, Exists
  <2>2. ASSUME NEW r \in Rules, CreateRule(r) PROVE NoRuleOutlivesAccount'
    BY <2>2 DEF CreateRule, NoRuleOutlivesAccount, Exists, Inv, TypeOK
  <2>3. ASSUME NEW t \in Threads, Steps(t) PROVE NoRuleOutlivesAccount'
    <3>1. CASE UNCHANGED rows
      BY <3>1 DEF rows, NoRuleOutlivesAccount, Exists
    <3>2. CASE MarkRemoving(t) \/ RemoveRule(t) \/ SaveRule(t)
      <4>1. account' = account /\ \A r \in Rules : Exists(r)' => Exists(r)
        BY <3>2 DEF MarkRemoving, RemoveRule, SaveRule, Exists, Inv, TypeOK
      <4> QED BY <4>1, RulesAssumption DEF NoRuleOutlivesAccount
    <3>3. CASE Purge(t)
      BY <3>3, RulesAssumption DEF Purge, Affected, NoRuleOutlivesAccount, Exists
    <3> QED BY <2>3, <3>1, <3>2, <3>3, RowsStep
  <2> QED BY <2>1, <2>2, <2>3 DEF Next, Steps
<1>2. Init => NoRuleOutlivesAccount
  BY DEF Init, NoRuleOutlivesAccount
<1> QED BY <1>1, <1>2, InvInit, InvNext, PTL DEF Spec

(***************************************************************************)
(* Nobody is at work on a rule whose records an account deletion purges.   *)
(***************************************************************************)
THEOREM PurgesUndisturbed == Spec => PurgedUndisturbed
<1> DEFINE Undisturbed ==
      \A t \in Threads :
        task[t].at = "purging" /\ task'[t] = Idle /\ account # account' =>
          \A r \in Rules, u \in Threads \ {t} :
            Exists(r) /\ saved'[r] = "removed" => ~Serialized(u, r) /\ ~Changing(u, r)
<1>1. Inv /\ [Next]_vars => [Undisturbed]_vars
  <2> SUFFICES ASSUME Inv, Next, NEW t \in Threads, task[t].at = "purging", task'[t] = Idle,
                      account # account', NEW r \in Rules, NEW u \in Threads \ {t},
                      Exists(r), saved'[r] = "removed"
               PROVE  ~Serialized(u, r) /\ ~Changing(u, r)
    OBVIOUS
  <2>1. PICK x \in Threads : Purge(x)
    <3>1. ASSUME NEW q \in Rules, CreateRule(q) PROVE FALSE
      BY <3>1 DEF CreateRule
    <3>2. ASSUME NEW x \in Threads, Steps(x) PROVE Purge(x)
      BY <3>2, RowsStep DEF rows, MarkRemoving, RemoveRule, SaveRule
    <3> QED BY <3>1, <3>2 DEF Next, Steps
  <2>2. x = t
    BY <2>1 DEF Purge, Unwind, Inv, TypeOK, Idle
  <2>3. r \in task[t].rules
    BY <2>1, <2>2 DEF Purge, Exists, Inv, TypeOK
  <2>4. runLock[r] = t /\ writeLock[r] = t
    BY <2>3 DEF Inv, RunLocksHeld, WriteLocksHeld, HasRunLocks, HasWriteLocks
  <2>5. ~Serialized(u, r)
    BY <2>4 DEF Serialized, Inv, RunLocksHeld, HasRunLocks
  <2>6. ~Changing(u, r)
    BY <2>4 DEF Changing, Inv, WriteLocksHeld, HasWriteLocks
  <2> QED BY <2>5, <2>6
<1> QED BY <1>1, InvInit, InvNext, PTL DEF Spec, PurgedUndisturbed
=============================================================================
