-------------------------- MODULE RuleRemovalProofs --------------------------
(***************************************************************************)
(* What RuleRemoval guarantees for any events, requests, failures and      *)
(* retries.  The invariant says what the request that holds the rule's     *)
(* lock knows: the rule is REMOVING, its to-do list is exactly what is     *)
(* still mapped, and what it is about to record has happened.              *)
(***************************************************************************)
EXTENDS RuleRemoval, FiniteSetTheorems, TLAPS

Before == {"creating", "locking", "marking"}
Begun == {"removing", "recording", "interrupted"}

\* The lock is held by a run, or by the one request inside its section.
LockHeld ==
  /\ \A q \in Requests : req[q].at \in Begun \cup {"marking"} => lock = q
  /\ run # None => lock = Run
  /\ lock = Run => rule = "active"

RemovingRule ==
  /\ \A q \in Requests : req[q].at \in Begun => rule = "removing"
  /\ incident = "open" => rule = "removing"

TodoIsMapped ==
  /\ IsFiniteSet(mapped)
  /\ \A q \in Requests : req[q].at \in Begun =>
       req[q].todo = mapped /\ req[q].total = req[q].done + Cardinality(mapped)
  /\ \A q \in Requests : req[q].at \in Before => req[q].done = 0

Happened ==
  \A q \in Requests : req[q].at = "recording" =>
    /\ req[q].event \in mapped
    /\ projection[req[q].event] # "owned"

\* The one replacement whose Draft still waits for its removal.
Reserving(q) ==
  req[q].at = "withdrawing" \/ (req[q].replacing /\ req[q].at \notin {"idle", "creating"})

DraftReserved ==
  \A q \in Requests : Reserving(q) =>
    draft # "none" /\ \A r \in Requests : Reserving(r) => r = q

Inv == TypeOK /\ LockHeld /\ RemovingRule /\ TodoIsMapped /\ Happened /\ DraftReserved

Environment ==
  \/ StartRun \/ RunRecord \/ EndRun
  \/ \E e \in Events : RunCreate(e) \/ PersonEdits(e)
  \/ AccountChanges \/ EnableDraft \/ RunDraft \/ Crash

Asking(q) == \E handling \in Handlings : Remove(q, handling) \/ Replace(q, handling)

Steps(q) == Asking(q) \/ Removing(q) \/ Failing(q)

LEMMA NextSteps == Next <=> (Environment \/ \E q \in Requests : Steps(q))
  BY DEF Next, Environment, Steps, Asking

-----------------------------------------------------------------------------
(***************************************************************************)
(* Types.                                                                  *)
(***************************************************************************)
Typed(r) ==
  r \in [at : Stages, handling : Handlings, replacing : BOOLEAN, todo : SUBSET Events,
         total : Nat, done : Nat, tries : Tries, event : Events \cup {None},
         outcome : {None, "deleted", "conflict"}]

LEMMA ZeroTries == 0 \in Tries
  BY RemovalAssumption DEF Tries

LEMMA IdleTyped == Typed(Idle)
  BY ZeroTries DEF Typed, Idle, Stages, Handlings

LEMMA SpendTyped ==
  ASSUME TypeOK, NEW what \in {"requests", "faults", "edits"}, Spend(what)
  PROVE  left' \in [requests : Nat, faults : Nat, edits : Nat]
  BY DEF TypeOK, Spend

LEMMA TypeEnvironment == ASSUME TypeOK, Environment PROVE TypeOK'
<1> USE DEF records, drafts
<1>1. CASE StartRun \/ RunRecord \/ EnableDraft \/ RunDraft
  BY <1>1 DEF TypeOK, StartRun, RunRecord, EnableDraft, RunDraft
<1>2. CASE EndRun
  <2>1. left' \in [requests : Nat, faults : Nat, edits : Nat]
    BY <1>2, SpendTyped DEF EndRun, TypeOK
  <2> QED BY <1>2, <2>1 DEF TypeOK, EndRun
<1>3. ASSUME NEW e \in Events, RunCreate(e) PROVE TypeOK'
  BY <1>3 DEF TypeOK, RunCreate
<1>4. ASSUME NEW e \in Events, PersonEdits(e) PROVE TypeOK'
  <2>1. left' \in [requests : Nat, faults : Nat, edits : Nat]
    BY <1>4, SpendTyped DEF PersonEdits
  <2> QED BY <1>4, <2>1 DEF TypeOK, PersonEdits
<1>5. CASE AccountChanges
  <2>1. left' \in [requests : Nat, faults : Nat, edits : Nat]
    BY <1>5, SpendTyped DEF AccountChanges
  <2> QED BY <1>5, <2>1 DEF TypeOK, AccountChanges
<1>6. CASE Crash
  <2>1. left' \in [requests : Nat, faults : Nat, edits : Nat]
    BY <1>6, SpendTyped DEF Crash
  <2>2. \A q \in Requests : Typed(req'[q])
    BY <1>6, IdleTyped DEF Crash
  <2> QED BY <1>6, <2>1, <2>2 DEF TypeOK, Crash, Typed
<1> QED BY <1>1, <1>2, <1>3, <1>4, <1>5, <1>6 DEF Environment

LEMMA TypeRequest == ASSUME TypeOK, TodoIsMapped, Happened, NEW q \in Requests, Steps(q) PROVE TypeOK'
<1> USE ZeroTries DEF records, drafts
<1>0. Typed(req[q]) /\ \A r \in Requests : Typed(req[r])
  BY DEF TypeOK, Typed
<1>1. ASSUME NEW handling \in Handlings, NEW replacing \in BOOLEAN, NEW stage \in Stages,
             Ask(q, handling, replacing, stage)
      PROVE  TypeOK'
  <2>1. left' \in [requests : Nat, faults : Nat, edits : Nat]
    BY <1>1, SpendTyped DEF Ask
  <2>2. Typed([Idle EXCEPT !.at = stage, !.handling = handling, !.replacing = replacing])
    BY DEF Typed, Idle
  <2> QED BY <1>1, <2>1, <2>2 DEF TypeOK, Ask, Typed
<1>2. CASE Asking(q)
  BY <1>1, <1>2 DEF Asking, Remove, Replace, Stages
<1>3. CASE CreateDraft(q) \/ TakeLock(q)
  BY <1>3 DEF TypeOK, CreateDraft, TakeLock, Goto, Stages
<1>4. CASE DuplicateDraft(q) \/ WithdrawDraft(q) \/ Interrupt(q)
  <2>1. req' = [req EXCEPT ![q] = Idle]
    BY <1>4 DEF DuplicateDraft, WithdrawDraft, Interrupt
  <2>2. \A r \in Requests : Typed(req'[r])
    BY <1>0, <2>1, IdleTyped DEF TypeOK
  <2> QED BY <1>4, <2>1, <2>2 DEF TypeOK, Typed, DuplicateDraft, WithdrawDraft, Interrupt
<1>5. CASE Mark(q)
  <2>1. Cardinality(mapped) \in Nat
    BY FS_CardinalityType DEF TodoIsMapped
  <2>2. Typed([req[q] EXCEPT !.at = "removing", !.todo = mapped, !.total = Cardinality(mapped)])
    BY <1>0, <2>1 DEF TypeOK, Typed, Stages
  <2>3. req' = [req EXCEPT ![q] = [req[q] EXCEPT !.at = "removing", !.todo = mapped,
                                                 !.total = Cardinality(mapped)]]
    BY <1>5 DEF Mark
  <2>4. \A r \in Requests : Typed(req'[r])
    BY <1>0, <2>2, <2>3 DEF TypeOK
  <2> QED BY <1>5, <2>3, <2>4 DEF TypeOK, Mark, Typed
<1>6. CASE Refuse(q)
  <2>1. Typed([Idle EXCEPT !.at = "withdrawing"])
    BY DEF Typed, Idle, Stages, Handlings
  <2> QED BY <1>6, <2>1, IdleTyped DEF TypeOK, Refuse, Typed
<1>7. ASSUME NEW e \in Events, DeleteProjection(q, e) PROVE TypeOK'
  <2>1. PICK outcome \in {"deleted", "conflict"} : Decide(q, e, outcome)
    BY <1>7 DEF DeleteProjection
  <2>2. Typed([req[q] EXCEPT !.at = "recording", !.event = e, !.outcome = outcome, !.tries = 0])
    BY <1>0 DEF Typed, Stages
  <2>3. req' = [req EXCEPT ![q] = [req[q] EXCEPT !.at = "recording", !.event = e,
                                                 !.outcome = outcome, !.tries = 0]]
    BY <2>1 DEF Decide
  <2>4. \A r \in Requests : Typed(req'[r])
    BY <1>0, <2>2, <2>3 DEF TypeOK
  <2>5. projection' \in [Events -> {"absent", "owned", "foreign", "deleted"}]
    BY <1>7 DEF TypeOK, DeleteProjection
  <2> QED BY <1>7, <2>3, <2>4, <2>5 DEF TypeOK, DeleteProjection, Typed
<1>8. CASE Record(q)
  BY <1>8 DEF TypeOK, Record, Happened, Stages
<1>9. CASE Finish(q)
  BY <1>9, IdleTyped DEF TypeOK, Finish, Typed
<1>10. ASSUME NEW e \in Events, TemporaryFailure(q, e) PROVE TypeOK'
  <2>1. left' \in [requests : Nat, faults : Nat, edits : Nat]
    BY <1>10, SpendTyped DEF TemporaryFailure
  <2>2. req[q].tries + 1 < RetryAttempts => req[q].tries + 1 \in Tries
    BY RemovalAssumption DEF TypeOK, Tries
  <2> QED BY <1>10, <2>1, <2>2 DEF TypeOK, TemporaryFailure, Goto, Stages
<1>11. ASSUME NEW e \in Events, LoseAuthorization(q, e) PROVE TypeOK'
  <2>1. left' \in [requests : Nat, faults : Nat, edits : Nat]
    BY <1>11, SpendTyped DEF LoseAuthorization, TypeOK
  <2> QED BY <1>11, <2>1 DEF TypeOK, LoseAuthorization, Goto, Stages
<1>12. ASSUME NEW e \in Events, PermanentFailure(q, e) PROVE TypeOK'
  <2>1. left' \in [requests : Nat, faults : Nat, edits : Nat]
    BY <1>12, SpendTyped DEF PermanentFailure
  <2> QED BY <1>12, <2>1 DEF TypeOK, PermanentFailure, Goto, Stages
<1> QED BY <1>2, <1>3, <1>4, <1>5, <1>6, <1>7, <1>8, <1>9, <1>10, <1>11, <1>12 DEF Steps, Removing, Failing

-----------------------------------------------------------------------------
(***************************************************************************)
(* A request's step leaves the others alone, and their lock with them.     *)
(***************************************************************************)
LEMMA AskingStep ==
  ASSUME TypeOK, NEW q \in Requests, Asking(q)
  PROVE  /\ req[q].at = "idle"
         /\ UNCHANGED <<rule, mapped, ledger, projection, incident, connected, lock, run, draft, draftUsed>>
         /\ \A r \in Requests \ {q} : req'[r] = req[r]
         /\ req'[q].at = "creating" \/ (req'[q].at = "locking" /\ ~req'[q].replacing)
         /\ req'[q].done = 0
<1> DEFINE asked(handling, replacing, stage) ==
      [Idle EXCEPT !.at = stage, !.handling = handling, !.replacing = replacing]
<1>1. \A handling \in Handlings, replacing \in BOOLEAN, stage \in Stages :
        /\ asked(handling, replacing, stage).at = stage
        /\ asked(handling, replacing, stage).replacing = replacing
        /\ asked(handling, replacing, stage).done = 0
  BY DEF Idle
<1>2. PICK handling \in Handlings, replacing \in BOOLEAN, stage \in Stages :
        /\ Ask(q, handling, replacing, stage)
        /\ stage = "creating" \/ (stage = "locking" /\ replacing = FALSE)
  BY DEF Asking, Remove, Replace, Stages
<1>3. req'[q] = asked(handling, replacing, stage)
  BY <1>2 DEF Ask, TypeOK
<1> HIDE DEF asked
<1>4. req'[q].at = stage /\ req'[q].replacing = replacing /\ req'[q].done = 0
  BY <1>1, <1>3
<1> QED BY <1>2, <1>4 DEF Ask, TypeOK, records, drafts

LEMMA OthersKeep ==
  ASSUME TypeOK, LockHeld, NEW q \in Requests, Steps(q)
  PROVE  /\ \A r \in Requests \ {q} : req'[r] = req[r] /\ (lock = r => lock' = r)
         /\ lock = Run => lock' = Run
         /\ UNCHANGED run
         /\ lock' \in {lock, None, q}
         /\ lock' # lock => lock = None \/ lock = q
<1> USE RemovalAssumption DEF TypeOK, LockHeld, records, drafts
<1>1. CASE Asking(q)
  BY <1>1 DEF Asking, Remove, Replace, Ask
<1>2. CASE CreateDraft(q) \/ DuplicateDraft(q) \/ WithdrawDraft(q) \/ TakeLock(q)
  BY <1>2 DEF CreateDraft, DuplicateDraft, WithdrawDraft, TakeLock, Goto
<1>3. CASE Mark(q) \/ Refuse(q)
  BY <1>3 DEF Mark, Refuse
<1>4. ASSUME NEW e \in Events,
            DeleteProjection(q, e) \/ TemporaryFailure(q, e) \/ PermanentFailure(q, e) \/ LoseAuthorization(q, e)
      PROVE  UNCHANGED <<lock, run>> /\ \A r \in Requests \ {q} : req'[r] = req[r]
  BY <1>4 DEF DeleteProjection, TemporaryFailure, PermanentFailure, LoseAuthorization, Decide, Goto
<1>5. CASE Record(q) \/ Finish(q) \/ Interrupt(q)
  BY <1>5 DEF Record, Finish, Interrupt, Begun
<1> QED BY <1>1, <1>2, <1>3, <1>4, <1>5 DEF Steps, Removing, Failing

-----------------------------------------------------------------------------
(***************************************************************************)
(* The invariant's conjuncts.                                              *)
(***************************************************************************)
LEMMA LockStep == ASSUME Inv, Next PROVE LockHeld'
<1> USE RemovalAssumption DEF records, drafts
<1>1. CASE Environment
  BY <1>1 DEF Inv, LockHeld, Begun, TypeOK, Environment, StartRun, RunRecord, EndRun, RunCreate, PersonEdits,
     AccountChanges, EnableDraft, RunDraft, Crash, Idle
<1>2. ASSUME NEW q \in Requests, Steps(q) PROVE LockHeld'
  <2>1. /\ \A r \in Requests \ {q} : req'[r] = req[r] /\ (lock = r => lock' = r)
        /\ lock = Run => lock' = Run
        /\ UNCHANGED run
        /\ lock' \in {lock, None, q}
        /\ lock' # lock => lock = None \/ lock = q
    BY <1>2, OthersKeep DEF Inv
  <2>2. req'[q].at \in Begun \cup {"marking"} => lock' = q
    <3>1. CASE Asking(q)
      BY <3>1, AskingStep DEF Inv, Begun
    <3>2. CASE CreateDraft(q) \/ DuplicateDraft(q) \/ WithdrawDraft(q) \/ TakeLock(q)
      BY <3>2 DEF Inv, TypeOK, CreateDraft, DuplicateDraft, WithdrawDraft, TakeLock, Goto, Begun, Idle
    <3>3. CASE Mark(q) \/ Record(q)
      BY <3>3 DEF Inv, TypeOK, LockHeld, Mark, Record, Begun
    <3>4. CASE Refuse(q) \/ Finish(q) \/ Interrupt(q)
      BY <3>4 DEF Inv, TypeOK, Refuse, Finish, Interrupt, Begun, Idle
    <3>5. ASSUME NEW e \in Events,
                DeleteProjection(q, e) \/ TemporaryFailure(q, e) \/ PermanentFailure(q, e) \/ LoseAuthorization(q, e)
          PROVE  req[q].at \in Begun /\ UNCHANGED lock
      BY <3>5 DEF DeleteProjection, TemporaryFailure, PermanentFailure, LoseAuthorization, Deleting, Begun
    <3> QED BY <1>2, <3>1, <3>2, <3>3, <3>4, <3>5 DEF Steps, Removing, Failing, Inv, LockHeld
  <2>3. lock' = Run => rule' = "active"
    <3>1. CASE Mark(q) \/ Finish(q)
      BY <3>1 DEF Inv, LockHeld, TypeOK, Mark, Finish, Begun
    <3>2. CASE UNCHANGED rule
      BY <2>1, <3>2 DEF Inv, LockHeld
    <3>3. UNCHANGED rule \/ Mark(q) \/ Finish(q)
      BY <1>2 DEF Steps, Asking, Remove, Replace, Ask, Removing, Failing, CreateDraft, DuplicateDraft,
         WithdrawDraft, TakeLock, Refuse, DeleteProjection, Record, Interrupt, TemporaryFailure, PermanentFailure,
         LoseAuthorization
    <3> QED BY <3>1, <3>2, <3>3
  <2> QED BY <2>1, <2>2, <2>3 DEF Inv, LockHeld
<1> QED BY <1>1, <1>2, NextSteps

LEMMA RemovingStep == ASSUME Inv, Next PROVE RemovingRule'
<1> USE RemovalAssumption DEF records, drafts
<1>1. CASE Environment
  BY <1>1 DEF Inv, RemovingRule, Begun, TypeOK, Environment, StartRun, RunRecord, EndRun, RunCreate,
     PersonEdits, AccountChanges, EnableDraft, RunDraft, Crash, Idle
<1>2. ASSUME NEW q \in Requests, Steps(q) PROVE RemovingRule'
  <2>1. \A r \in Requests \ {q} : req'[r] = req[r]
    BY <1>2, OthersKeep DEF Inv
  <2>2. CASE Asking(q)
    BY <2>1, <2>2, AskingStep DEF Inv, RemovingRule, Begun
  <2>3. CASE CreateDraft(q) \/ DuplicateDraft(q) \/ WithdrawDraft(q) \/ TakeLock(q) \/ Refuse(q)
    BY <2>1, <2>3 DEF Inv, TypeOK, RemovingRule, CreateDraft, DuplicateDraft, WithdrawDraft, TakeLock, Refuse,
       Goto, Begun, Idle
  <2>4. CASE Mark(q)
    BY <2>1, <2>4 DEF Inv, RemovingRule, TypeOK, Mark, Begun
  <2>5. CASE Finish(q)
    BY <2>1, <2>5 DEF Inv, RemovingRule, LockHeld, TypeOK, Finish, Begun, Idle
  <2>6. CASE Record(q) \/ Interrupt(q)
    BY <2>1, <2>6 DEF Inv, RemovingRule, TypeOK, Record, Interrupt, Begun, Idle
  <2>7. ASSUME NEW e \in Events,
              DeleteProjection(q, e) \/ TemporaryFailure(q, e) \/ PermanentFailure(q, e) \/ LoseAuthorization(q, e)
        PROVE  RemovingRule'
    <3>1. req[q].at \in Begun /\ UNCHANGED rule
      BY <2>7 DEF DeleteProjection, TemporaryFailure, PermanentFailure, LoseAuthorization, Deleting, Begun
    <3> QED BY <2>1, <3>1 DEF Inv, RemovingRule
  <2> QED BY <1>2, <2>2, <2>3, <2>4, <2>5, <2>6, <2>7 DEF Steps, Removing, Failing
<1> QED BY <1>1, <1>2, NextSteps

LEMMA TodoStep == ASSUME Inv, Next PROVE TodoIsMapped'
<1> USE RemovalAssumption DEF records, drafts
<1>1. CASE Environment
  <2>1. CASE RunRecord
    <3>1. \A q \in Requests : req[q].at \notin Begun
      BY <2>1 DEF RunRecord, Inv, LockHeld
    <3>2. IsFiniteSet(mapped')
      BY <2>1, FS_AddElement DEF RunRecord, Inv, TodoIsMapped
    <3> QED BY <2>1, <3>1, <3>2 DEF Inv, RunRecord, TodoIsMapped
  <2>2. CASE Crash
    BY <2>2 DEF Crash, Inv, TodoIsMapped, Before, Begun, Idle
  <2>3. UNCHANGED <<mapped, req>> \/ RunRecord \/ Crash
    BY <1>1 DEF Environment, StartRun, EndRun, RunCreate, PersonEdits, AccountChanges, EnableDraft, RunDraft
  <2> QED BY <2>1, <2>2, <2>3 DEF Inv, TodoIsMapped
<1>2. ASSUME NEW q \in Requests, Steps(q) PROVE TodoIsMapped'
  <2>1. \A r \in Requests \ {q} : req'[r] = req[r]
    BY <1>2, OthersKeep DEF Inv
  <2>2. \A r \in Requests \ {q} : req[q].at \in Begun => req[r].at \notin Begun
    BY DEF Inv, LockHeld
  <2>3. CASE Asking(q)
    BY <2>1, <2>3, AskingStep DEF Inv, TodoIsMapped, Begun
  <2>4. CASE CreateDraft(q) \/ DuplicateDraft(q) \/ WithdrawDraft(q) \/ TakeLock(q) \/ Refuse(q) \/ Interrupt(q)
    <3>1. /\ UNCHANGED mapped /\ req'[q].at \notin Begun
          /\ req'[q].at \in Before => req[q].at \in Before /\ req'[q].done = req[q].done
      BY <2>4 DEF Inv, TypeOK, CreateDraft, DuplicateDraft, WithdrawDraft, TakeLock, Refuse, Interrupt, Goto,
         Before, Begun, Idle
    <3> QED BY <2>1, <3>1 DEF Inv, TodoIsMapped
  <2>5. CASE Mark(q)
    <3>1. IsFiniteSet(mapped) /\ Cardinality(mapped) \in Nat
      BY FS_CardinalityType DEF Inv, TodoIsMapped
    <3>2. req[q].done = 0
      BY <2>5 DEF Inv, TodoIsMapped, Mark, Before
    <3>3. /\ UNCHANGED mapped /\ req'[q].at = "removing" /\ req'[q].todo = mapped
          /\ req'[q].total = Cardinality(mapped) /\ req'[q].done = 0
      BY <2>5, <3>2 DEF Inv, TypeOK, Mark
    <3> QED BY <2>1, <3>1, <3>3 DEF Inv, TodoIsMapped, Before
  <2>6. ASSUME NEW e \in Events,
              DeleteProjection(q, e) \/ TemporaryFailure(q, e) \/ PermanentFailure(q, e) \/ LoseAuthorization(q, e)
        PROVE  TodoIsMapped'
    <3>1. /\ req[q].at \in Begun /\ UNCHANGED mapped
          /\ req'[q].at \in Begun
          /\ req'[q].todo = req[q].todo /\ req'[q].total = req[q].total /\ req'[q].done = req[q].done
      BY <2>6 DEF Inv, TypeOK, DeleteProjection, TemporaryFailure, PermanentFailure, LoseAuthorization, Deleting,
          Decide, Goto, Begun
    <3> QED BY <2>1, <3>1 DEF Inv, TodoIsMapped, Begun, Before
  <2>7. CASE Record(q)
    <3> DEFINE e == req[q].event
    <3>1. e \in mapped /\ mapped' = mapped \ {e} /\ IsFiniteSet(mapped)
      BY <2>7 DEF Record, Inv, Happened, TodoIsMapped
    <3>2. IsFiniteSet(mapped') /\ Cardinality(mapped') = Cardinality(mapped) - 1 /\ Cardinality(mapped) \in Nat
      BY <3>1, FS_RemoveElement, FS_CardinalityType
    <3>3. req[q].todo = mapped /\ req[q].total = req[q].done + Cardinality(mapped)
      BY <2>7 DEF Record, Inv, TodoIsMapped, Begun
    <3>4. /\ req'[q].todo = mapped' /\ req'[q].total = req[q].total /\ req'[q].done = req[q].done + 1
          /\ req'[q].at = "removing"
      BY <2>7, <3>1, <3>3 DEF Record, Inv, TypeOK
    <3>5. req[q].done \in Nat
      BY DEF Inv, TypeOK
    <3>6. \A r \in Requests \ {q} : req'[r].at \notin Begun
      BY <2>1, <2>2, <2>7 DEF Record, Begun
    <3>7. \A r \in Requests \ {q} : req'[r].at \in Before => req'[r].done = 0
      BY <2>1 DEF Inv, TodoIsMapped
    <3> HIDE DEF e
    <3> QED BY <3>2, <3>3, <3>4, <3>5, <3>6, <3>7 DEF TodoIsMapped, Before
  <2>8. CASE Finish(q)
    <3>1. \A r \in Requests : req'[r].at \notin Begun
      BY <2>1, <2>2, <2>8 DEF Finish, Begun, Idle, Inv, TypeOK
    <3>2. \A r \in Requests : req'[r].at \in Before => req'[r].done = 0
      BY <2>1, <2>8 DEF Finish, Before, Idle, Inv, TypeOK, TodoIsMapped
    <3> QED BY <2>8, <3>1, <3>2, FS_EmptySet DEF Finish, TodoIsMapped
  <2> QED BY <1>2, <2>3, <2>4, <2>5, <2>6, <2>7, <2>8 DEF Steps, Removing, Failing
<1> QED BY <1>1, <1>2, NextSteps

LEMMA HappenedStep == ASSUME Inv, Next PROVE Happened'
<1> USE RemovalAssumption DEF records, drafts
<1>1. CASE Environment
  BY <1>1 DEF Inv, LockHeld, Begun, Happened, TypeOK, Environment, StartRun, RunRecord, EndRun, RunCreate,
     PersonEdits, AccountChanges, EnableDraft, RunDraft, Crash, Idle
<1>2. ASSUME NEW q \in Requests, Steps(q) PROVE Happened'
  <2>1. \A r \in Requests \ {q} : req'[r] = req[r]
    BY <1>2, OthersKeep DEF Inv
  <2>2. \A r \in Requests \ {q} : req[q].at \in Begun => req[r].at \notin Begun
    BY DEF Inv, LockHeld
  <2>3. CASE req'[q].at # "recording" /\ UNCHANGED <<mapped, projection>>
    BY <2>1, <2>3 DEF Inv, Happened
  <2>4. CASE Asking(q)
    BY <2>3, <2>4, AskingStep DEF Inv
  <2>5. CASE CreateDraft(q) \/ DuplicateDraft(q) \/ WithdrawDraft(q) \/ TakeLock(q) \/ Mark(q) \/ Refuse(q)
               \/ Interrupt(q)
    BY <2>3, <2>5 DEF Inv, TypeOK, CreateDraft, DuplicateDraft, WithdrawDraft, TakeLock, Mark, Refuse,
       Interrupt, Goto, Idle
  <2>6. ASSUME NEW e \in Events,
              DeleteProjection(q, e) \/ TemporaryFailure(q, e) \/ PermanentFailure(q, e) \/ LoseAuthorization(q, e)
        PROVE  Happened'
    <3>1. req[q].at \in Begun /\ e \in mapped /\ UNCHANGED mapped
      BY <2>6 DEF Inv, TodoIsMapped, DeleteProjection, TemporaryFailure, PermanentFailure, LoseAuthorization, Deleting, Begun
    <3>2. req'[q].at = "recording" => req'[q].event = e /\ projection'[e] # "owned"
      BY <2>6 DEF Inv, TypeOK, DeleteProjection, TemporaryFailure, PermanentFailure, LoseAuthorization, Deleting, Decide, Goto
    <3> QED BY <2>1, <2>2, <3>1, <3>2 DEF Happened, Begun
  <2>7. CASE Record(q) \/ Finish(q)
    <3>1. req'[q].at # "recording" /\ req[q].at \in Begun
      BY <2>7 DEF Inv, TypeOK, Record, Finish, Idle, Begun
    <3> QED BY <2>1, <2>2, <3>1 DEF Happened, Begun
  <2> QED BY <1>2, <2>4, <2>5, <2>6, <2>7 DEF Steps, Removing, Failing
<1> QED BY <1>1, <1>2, NextSteps

LEMMA DraftStep == ASSUME Inv, Next PROVE DraftReserved'
<1> USE RemovalAssumption DEF records, drafts
<1>1. CASE Environment
  <2>1. CASE Crash
    BY <2>1 DEF Crash, DraftReserved, Reserving, Idle
  <2>2. Crash \/ (UNCHANGED req /\ (draft # "none" => draft' # "none"))
    BY <1>1 DEF Environment, StartRun, RunRecord, EndRun, RunCreate, PersonEdits, AccountChanges,
       EnableDraft, RunDraft
  <2> QED BY <2>1, <2>2 DEF Inv, DraftReserved, Reserving
<1>2. ASSUME NEW q \in Requests, Steps(q) PROVE DraftReserved'
  <2>1. \A r \in Requests \ {q} : req'[r] = req[r]
    BY <1>2, OthersKeep DEF Inv
  <2>2. CASE UNCHANGED draft /\ (Reserving(q)' => Reserving(q))
    BY <2>1, <2>2 DEF Inv, DraftReserved, Reserving
  <2>3. CASE Asking(q)
    BY <2>2, <2>3, AskingStep DEF Inv, Reserving
  <2>4. CASE CreateDraft(q)
    <3>1. \A r \in Requests : ~Reserving(r)
      BY <2>4 DEF CreateDraft, Inv, DraftReserved
    <3>2. draft' # "none"
      BY <2>4 DEF CreateDraft
    <3>3. \A r \in Requests \ {q} : ~Reserving(r)'
      BY <2>1, <3>1 DEF Reserving
    <3> QED BY <3>2, <3>3 DEF DraftReserved
  <2>5. CASE WithdrawDraft(q)
    <3>1. Reserving(q) /\ ~Reserving(q)'
      BY <2>5 DEF WithdrawDraft, Reserving, Idle, Inv, TypeOK
    <3>2. \A r \in Requests \ {q} : ~Reserving(r)'
      BY <2>1, <3>1 DEF Inv, DraftReserved, Reserving
    <3> QED BY <3>1, <3>2 DEF DraftReserved
  <2>6. CASE DuplicateDraft(q) \/ TakeLock(q) \/ Mark(q) \/ Refuse(q) \/ Record(q) \/ Finish(q) \/ Interrupt(q)
    <3>1. Reserving(q)' => Reserving(q)
      BY <2>6 DEF Inv, TypeOK, DuplicateDraft, TakeLock, Mark, Refuse, Record, Finish, Interrupt, Goto, Idle,
         Reserving
    <3> QED BY <2>2, <2>6, <3>1 DEF DuplicateDraft, TakeLock, Mark, Refuse, Record, Finish, Interrupt
  <2>7. ASSUME NEW e \in Events,
              DeleteProjection(q, e) \/ TemporaryFailure(q, e) \/ PermanentFailure(q, e) \/ LoseAuthorization(q, e)
        PROVE  DraftReserved'
    <3>1. Reserving(q)' => Reserving(q)
      BY <2>7 DEF Inv, TypeOK, DeleteProjection, TemporaryFailure, PermanentFailure, LoseAuthorization, Deleting, Decide, Goto,
         Reserving
    <3> QED BY <2>2, <2>7, <3>1 DEF DeleteProjection, TemporaryFailure, PermanentFailure, LoseAuthorization
  <2> QED BY <1>2, <2>3, <2>4, <2>5, <2>6, <2>7 DEF Steps, Removing, Failing
<1> QED BY <1>1, <1>2, NextSteps

LEMMA InvInit == Init => Inv
  <1> SUFFICES ASSUME Init PROVE Inv
    OBVIOUS
  <1>1. IsFiniteSet(mapped)
    BY RemovalAssumption, FS_Subset DEF Init
  <1>2. \A q \in Requests : Typed(req[q])
    BY IdleTyped DEF Init
  <1>3. TypeOK
    BY <1>2, RemovalAssumption DEF Init, TypeOK, Typed
  <1> QED BY <1>1, <1>3, RemovalAssumption DEF Init, Inv, LockHeld, RemovingRule, TodoIsMapped, Happened,
          DraftReserved, Reserving, Idle, Before, Begun

LEMMA InvNext == Inv /\ [Next]_vars => Inv'
<1> SUFFICES ASSUME Inv, [Next]_vars PROVE Inv'
  OBVIOUS
<1>1. CASE UNCHANGED vars
  BY <1>1 DEF Inv, vars, records, drafts, TypeOK, LockHeld, RemovingRule, TodoIsMapped, Happened,
     DraftReserved, Reserving
<1>2. CASE Next
  <2>1. TypeOK'
    BY <1>2, NextSteps, TypeEnvironment, TypeRequest DEF Inv
  <2> QED BY <1>2, <2>1, LockStep, RemovingStep, TodoStep, HappenedStep, DraftStep DEF Inv
<1> QED BY <1>1, <1>2

-----------------------------------------------------------------------------
(***************************************************************************)
(* Every reachable state is well typed, and no deletion is tried more than *)
(* RetryAttempts times.                                                    *)
(***************************************************************************)
THEOREM RemovingTyped == Spec => []TypeOK
<1>1. Inv => TypeOK
  BY DEF Inv
<1> QED BY <1>1, InvInit, InvNext, PTL DEF Spec

(***************************************************************************)
(* What an interrupted removal reports as remaining is what a retry finds, *)
(* whatever was retried, skipped as a conflict or handled before.          *)
(***************************************************************************)
THEOREM RemainingIsReported == Spec => []InterruptionReportsRemaining
<1>1. Inv => InterruptionReportsRemaining
  <2> SUFFICES ASSUME Inv, NEW q \in Requests, req[q].at = "interrupted"
               PROVE  req[q].total - req[q].done = Cardinality(mapped)
    BY DEF InterruptionReportsRemaining
  <2>1. req[q].total = req[q].done + Cardinality(mapped)
    BY DEF Inv, TodoIsMapped, Begun
  <2>2. Cardinality(mapped) \in Nat /\ req[q].done \in Nat
    BY FS_CardinalityType DEF Inv, TodoIsMapped, TypeOK
  <2> QED BY <2>1, <2>2
<1> QED BY <1>1, InvInit, InvNext, PTL DEF Spec

(***************************************************************************)
(* The Incident of a removal is open only while the removal is incomplete. *)
(***************************************************************************)
THEOREM IncidentsResolve == Spec => []IncidentWhileIncomplete
<1>1. Inv => IncidentWhileIncomplete
  BY DEF Inv, RemovingRule, IncidentWhileIncomplete
<1> QED BY <1>1, InvInit, InvNext, PTL DEF Spec

(***************************************************************************)
(* A replacement removes nothing before its Draft is reserved, and no      *)
(* other request withdraws it.                                             *)
(***************************************************************************)
THEOREM ReplacementsReserve == Spec => []ReservedFirst
<1>1. Inv => ReservedFirst
  BY DEF Inv, DraftReserved, Reserving, ReservedFirst
<1> QED BY <1>1, InvInit, InvNext, PTL DEF Spec

(***************************************************************************)
(* No removal abandons a projection: the request that gives a mapping up   *)
(* has deleted the projection, found it not to be the rule's, or detached  *)
(* it on purpose.                                                          *)
(***************************************************************************)
THEOREM RemovalAbandonsNothing == Spec => NothingAbandoned
<1> DEFINE Kept == \A e \in mapped \ mapped' : projection[e] = "owned" => ledger'[e] = "detached"
<1>1. Inv /\ [Next]_vars => [Kept]_vars
  <2> SUFFICES ASSUME Inv, Next, NEW e \in mapped \ mapped', projection[e] = "owned"
               PROVE  ledger'[e] = "detached"
    OBVIOUS
  <2>1. \E q \in Requests : Record(q) \/ Finish(q)
    <3>1. CASE Environment
      BY <3>1 DEF Environment, StartRun, RunRecord, EndRun, RunCreate, PersonEdits, AccountChanges,
         EnableDraft, RunDraft, Crash, records
    <3>2. ASSUME NEW q \in Requests, Steps(q) PROVE Record(q) \/ Finish(q)
      BY <3>2 DEF Steps, Asking, Remove, Replace, Ask, Removing, Failing, CreateDraft, DuplicateDraft,
         WithdrawDraft, TakeLock, Mark, Refuse, DeleteProjection, Interrupt, TemporaryFailure, PermanentFailure,
         LoseAuthorization, records
    <3> QED BY <3>1, <3>2, NextSteps
  <2>2. PICK q \in Requests : Record(q) \/ Finish(q)
    BY <2>1
  <2>3. CASE Record(q)
    BY <2>3 DEF Record, Inv, Happened
  <2>4. CASE Finish(q)
    <3>1. req[q].todo = mapped
      BY <2>4 DEF Finish, Inv, TodoIsMapped, Begun
    <3> QED BY <2>4, <3>1 DEF Finish, Inv, TypeOK
  <2> QED BY <2>2, <2>3, <2>4
<1> QED BY <1>1, InvInit, InvNext, PTL DEF Spec, NothingAbandoned

(***************************************************************************)
(* From the moment a removal began, also while it is interrupted, nothing  *)
(* is projected or mapped for the rule.                                    *)
(***************************************************************************)
THEOREM RemovalsAreInert == Spec => InertOnceRemoving
<1> DEFINE Inert == rule # "active" =>
             /\ mapped' \subseteq mapped
             /\ \A e \in Events : projection'[e] = "owned" => projection[e] = "owned"
<1>1. Inv /\ [Next]_vars => [Inert]_vars
  <2> SUFFICES ASSUME Inv, Next, rule # "active"
               PROVE  /\ mapped' \subseteq mapped
                      /\ \A e \in Events : projection'[e] = "owned" => projection[e] = "owned"
    OBVIOUS
  <2>1. CASE Environment
    <3>1. lock # Run
      BY DEF Inv, LockHeld
    <3> QED BY <2>1, <3>1 DEF Environment, StartRun, RunRecord, EndRun, RunCreate, PersonEdits,
            AccountChanges, EnableDraft, RunDraft, Crash, records, Inv, TypeOK
  <2>2. ASSUME NEW q \in Requests, Steps(q)
        PROVE  /\ mapped' \subseteq mapped
               /\ \A e \in Events : projection'[e] = "owned" => projection[e] = "owned"
    BY <2>2 DEF Steps, Asking, Remove, Replace, Ask, Removing, Failing, CreateDraft, DuplicateDraft,
       WithdrawDraft, TakeLock, Mark, Refuse, DeleteProjection, Record, Finish, Interrupt,
       TemporaryFailure, PermanentFailure, LoseAuthorization, records, Inv, TypeOK
  <2> QED BY <2>1, <2>2, NextSteps
<1> QED BY <1>1, InvInit, InvNext, PTL DEF Spec, InertOnceRemoving
=============================================================================
