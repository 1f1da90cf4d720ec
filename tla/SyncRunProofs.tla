---------------------------- MODULE SyncRunProofs ----------------------------
(***************************************************************************)
(* What SyncRun promises for every number of events, slots, policies and   *)
(* revisions, with any number of edits, policy changes and failures.       *)
(*                                                                         *)
(* The first part is about single steps: types, creates, the contract and  *)
(* the mappings.  The second is about no lost change and no event that is  *)
(* projected twice, which rest on the whole course of a run.  The          *)
(* invariant behind them says, for every event in the sync window and at   *)
(* every moment of a run, which feed, which pending decision, which write  *)
(* in flight or which later report will still bring it in sync.  Two       *)
(* consequences follow at the end: reprojection is complete, and a         *)
(* reconciliation beside the runs reports what is different and nothing    *)
(* that no run will repair.                                                *)
(***************************************************************************)
EXTENDS Reconciliation, TLAPS

(***************************************************************************)
(* TypeOK is not inductive: Record saves what the operation in flight      *)
(* says, so what an operation may say at each point is needed as well.     *)
(***************************************************************************)
RunTyped == Running => run.policy \in Policies

OperationTyped ==
  op # None =>
    /\ Running
    /\ op.kind # "delete" => op.shown \in Shown
    /\ op.kind # "create" \/ op.sent => op.slot \in Slots

Typed == TypeOK /\ RunTyped /\ OperationTyped

LEMMA RevsAreNat == Revs \subseteq Nat
  BY BoundsAssumption DEF Revs

\* What a policy makes of a revision.
LEMMA ProjectTyped ==
  ASSUME NEW p \in Policies, NEW r \in Revs
  PROVE  Project[p][r] \in Shown \cup {Withheld}
  BY ProjectAssumption

LEMMA TypedInit == Init => Typed
<1> SUFFICES ASSUME Init PROVE Typed
  OBVIOUS
<1>1. 0 \in Revs
  BY BoundsAssumption DEF Revs
<1>2. TypeOK
  <2>1. rule \in [state : RuleStates, policy : Policies, reproject : BOOLEAN]
    BY DEF Init, RuleStates
  <2>2. src \in [Events -> SourceEvent]
    BY <1>1 DEF Init, SourceEvent
  <2>3. dst \in [Slots -> DestinationEvent]
    BY DEF Init, DestinationEvent, Unused
  <2>4. run \in [policy : Policies \cup {None}, reproject : BOOLEAN,
                srcListed : BOOLEAN, dstListed : BOOLEAN]
    BY DEF Init, NoRun
  <2>5. budget \in [edits : Nat, policies : Nat, faults : Nat, ends : Nat]
    BY BoundsAssumption DEF Init
  <2> QED BY <2>1, <2>2, <2>3, <2>4, <2>5 DEF Init, TypeOK
<1>3. RunTyped /\ OperationTyped
  BY DEF Init, RunTyped, OperationTyped, Running
<1> QED BY <1>2, <1>3 DEF Typed

LEMMA DecisionFacts ==
  ASSUME Typed, Running, NEW e \in Events, NEW event \in SourceEvent, NEW actual
  PROVE  LET decision == Decision(e, event, actual) IN
         /\ decision \in {"conflict", "ignore", "delete", "create", "current", "update"}
         /\ decision \in {"create", "current", "update"} =>
              Project[run.policy][event.rev] \in Shown
         /\ decision \in {"delete", "current", "update"} => mapping[e] # None
<1>1. run.policy \in Policies /\ event.rev \in Revs
  BY DEF Typed, RunTyped, SourceEvent
<1>2. Project[run.policy][event.rev] \in Shown \cup {Withheld}
  BY <1>1, ProjectTyped
<1>3. CASE IdentityConflict(e, actual)
  BY <1>3 DEF Decision
<1>4. CASE ~IdentityConflict(e, actual) /\ Removed(event)
  BY <1>4 DEF Decision
<1>5. CASE ~IdentityConflict(e, actual) /\ ~Removed(event)
  BY <1>2, <1>5 DEF Decision, Removed
<1> QED BY <1>3, <1>4, <1>5

\* Deciding an event keeps the mappings and the operation well formed.
LEMMA ApplyTyped ==
  ASSUME Typed, Running, NEW e \in Events, NEW event \in SourceEvent, NEW actual,
         Apply(e, event, actual), phase' = phase
  PROVE  /\ mapping' \in [Events -> Mapping \cup {None}]
         /\ handled' \subseteq Events
         /\ op' \in Operation \cup {None}
         /\ OperationTyped'
<1> DEFINE decision == Decision(e, event, actual)
           expected == Project[run.policy][event.rev]
<1>1. /\ mapping \in [Events -> Mapping \cup {None}] /\ handled \subseteq Events
      /\ op \in Operation \cup {None} /\ event.rev \in Revs
      /\ expected \in Shown \cup {Withheld}
  BY ProjectTyped DEF Typed, TypeOK, RunTyped, SourceEvent
<1>2. /\ decision \in {"create", "current", "update"} => expected \in Shown
      /\ decision \in {"delete", "current", "update"} => mapping[e] # None
  BY DecisionFacts
<1>3. handled' \subseteq Events
  BY <1>1 DEF Apply
<1>4. CASE decision \in {"ignore", "conflict"}
  BY <1>1, <1>3, <1>4 DEF Apply, Typed, OperationTyped, Running
<1>5. CASE decision = "current"
  BY <1>1, <1>2, <1>3, <1>5 DEF Apply, Mapping, Typed, OperationTyped, Running
<1>6. CASE decision \in {"create", "update", "delete"}
  <2>1. op' = [kind |-> decision, event |-> e, rev |-> event.rev, shown |-> expected,
               slot |-> IF mapping[e] = None THEN None ELSE mapping[e].slot, sent |-> FALSE]
    BY <1>6 DEF Apply
  <2>2. mapping[e] # None => mapping[e].slot \in Slots
    BY <1>1 DEF Mapping
  <2>3. op' \in Operation
    BY <1>1, <1>6, <2>1, <2>2 DEF Operation
  <2> QED BY <1>1, <1>2, <1>3, <1>6, <2>1, <2>2, <2>3 DEF Apply, OperationTyped, Running
<1> QED BY <1>4, <1>5, <1>6, DecisionFacts

LEMMA EndedTyped ==
  ASSUME NEW event \in SourceEvent
  PROVE  [event EXCEPT !.ended = TRUE] \in SourceEvent
  BY DEF SourceEvent

LEMMA TypedPeople == ASSUME Typed, People PROVE Typed'
<1> USE DEF Typed, TypeOK, RunTyped, OperationTyped, Running, ruleVars, storeVars, runVars,
            sourceVars, destinationVars, sinceVars
<1>1. ASSUME NEW e \in Events, EditSource(e) \/ CancelSource(e) \/ ForgetSource(e) \/ EndSource(e)
      PROVE  Typed'
  <2>1. src' \in [Events -> SourceEvent]
    <3>1. ASSUME src[e].rev < MaxRev PROVE src[e].rev + 1 \in Revs
      BY <3>1, BoundsAssumption DEF SourceEvent, Revs
    <3>2. CASE EditSource(e)
      BY <3>1, <3>2 DEF EditSource, SourceEvent
    <3>3. CASE CancelSource(e)
      BY <3>3 DEF CancelSource, SourceEvent
    <3>5. CASE ForgetSource(e)
      <4>1. src' = [src EXCEPT ![e] = [src[e] EXCEPT !.status = "gone"]]
        BY <3>5 DEF ForgetSource
      <4>2. [src[e] EXCEPT !.status = "gone"] \in SourceEvent
        BY DEF SourceEvent
      <4> QED BY <4>1, <4>2
    <3>4. CASE EndSource(e)
      <4>1. src' = [src EXCEPT ![e] = [src[e] EXCEPT !.ended = TRUE]]
        BY <3>4 DEF EndSource
      <4>2. [src[e] EXCEPT !.ended = TRUE] \in SourceEvent
        BY EndedTyped
      <4> QED BY <4>1, <4>2
    <3> QED BY <1>1, <3>2, <3>3, <3>4, <3>5
  <2>2. budget' \in [edits : Nat, policies : Nat, faults : Nat, ends : Nat]
    BY <1>1 DEF EditSource, CancelSource, ForgetSource, EndSource, Spend
  <2> QED
    BY <1>1, <2>1, <2>2 DEF EditSource, CancelSource, ForgetSource, EndSource, SourceChanged
<1>2. ASSUME NEW s \in Slots, EditProjection(s) \/ DeleteProjection(s) \/ StripProjection(s)
      PROVE  Typed'
  <2>1. dst' \in [Slots -> DestinationEvent]
    <3>1. CASE EditProjection(s)
      <4>1. dst' = [dst EXCEPT ![s] = [dst[s] EXCEPT !.shown = Edited]]
        BY <3>1 DEF EditProjection
      <4>2. dst[s] \in DestinationEvent /\ Edited \in Shown
        BY ProjectAssumption
      <4>3. [dst[s] EXCEPT !.shown = Edited] \in DestinationEvent
        BY <4>2 DEF DestinationEvent
      <4> QED BY <4>1, <4>3
    <3>2. CASE DeleteProjection(s)
      BY <3>2 DEF DeleteProjection, DestinationEvent, Unused
    <3>3. CASE StripProjection(s)
      <4>1. dst' = [dst EXCEPT ![s] = [dst[s] EXCEPT !.owner = None, !.key = None]]
        BY <3>3 DEF StripProjection
      <4>2. dst[s] \in DestinationEvent
        OBVIOUS
      <4>3. [dst[s] EXCEPT !.owner = None, !.key = None] \in DestinationEvent
        <5> HIDE DEF Typed, TypeOK
        <5> QED BY <4>2 DEF DestinationEvent
      <4> QED BY <4>1, <4>3
    <3> QED BY <1>2, <3>1, <3>2, <3>3
  <2>2. budget' \in [edits : Nat, policies : Nat, faults : Nat, ends : Nat]
    BY <1>2 DEF EditProjection, DeleteProjection, StripProjection, Spend
  <2> QED BY <1>2, <2>1, <2>2 DEF EditProjection, DeleteProjection, StripProjection, DestinationChanged
<1> QED BY <1>1, <1>2 DEF People

LEMMA TypedAdministrator == ASSUME Typed, Administrator PROVE Typed'
<1> USE DEF Typed, TypeOK, RunTyped, OperationTyped, Running, ChangeRule, WritesFree,
            storeVars, runVars, sourceVars, destinationVars, sinceVars
<1>1. CASE StartPreview
  BY <1>1 DEF StartPreview
<1>2. CASE FinishPreview
  BY <1>2 DEF FinishPreview, RuleStates
<1>3. CASE Enable \/ Pause \/ Degrade
  BY <1>3 DEF Enable, Pause, Degrade, RuleStates
<1>4. ASSUME NEW p \in Policies, ChangePolicy(p)
      PROVE  Typed'
  <2>1. rule' \in [state : RuleStates, policy : Policies, reproject : BOOLEAN]
    BY <1>4 DEF ChangePolicy, RuleStates
  <2>2. budget' \in [edits : Nat, policies : Nat, faults : Nat, ends : Nat]
    BY <1>4 DEF ChangePolicy, Spend
  <2> QED BY <1>4, <2>1, <2>2 DEF ChangePolicy
<1> QED BY <1>1, <1>2, <1>3, <1>4 DEF Administrator

\* A run that ends leaves nothing behind but what was committed.
LEMMA TypedEndRun ==
  ASSUME Typed, EndRun,
         rule' \in [state : RuleStates, policy : Policies, reproject : BOOLEAN],
         UNCHANGED <<preview, src, dst, mapping>>,
         synced' \in BOOLEAN, srcNews' \subseteq Events, dstNews' \subseteq Slots,
         budget' \in [edits : Nat, policies : Nat, faults : Nat, ends : Nat]
  PROVE  Typed'
<1>1. run' \in [policy : Policies \cup {None}, reproject : BOOLEAN,
               srcListed : BOOLEAN, dstListed : BOOLEAN]
  BY DEF EndRun, NoRun
<1>2. TypeOK'
  BY <1>1 DEF EndRun, Typed, TypeOK
<1> QED BY <1>2 DEF EndRun, Typed, RunTyped, OperationTyped, Running

LEMMA TypedBegin ==
  ASSUME Typed, NEW full \in BOOLEAN, NEW rejected \in BOOLEAN, StartRun(full, rejected)
  PROVE  Typed'
<1> USE DEF Typed, TypeOK
<1> DEFINE srcListed == full \/ rule.reproject \/ ~synced \/ rejected
           dstListed == full \/ rule.reproject \/ ~synced
<1>1. run' \in [policy : Policies, reproject : BOOLEAN, srcListed : BOOLEAN, dstListed : BOOLEAN]
  <2>1. run' = [policy |-> rule.policy, reproject |-> rule.reproject,
                srcListed |-> srcListed, dstListed |-> dstListed]
    BY DEF StartRun
  <2>2. /\ srcListed \in BOOLEAN /\ dstListed \in BOOLEAN
        /\ rule.policy \in Policies /\ rule.reproject \in BOOLEAN
    OBVIOUS
  <2> QED BY ONLY <2>1, <2>2
<1>2. srcFeed' \in [Events -> SourceEvent \cup {None}]
  BY DEF StartRun
<1>3. phase' = "listing" /\ run'.policy \in Policies
  BY <1>1 DEF StartRun
<1> QED BY <1>1, <1>2, <1>3 DEF StartRun, RunTyped, OperationTyped, Running, ruleVars, sourceVars,
           destinationVars, storeVars

LEMMA ListedTyped ==
  ASSUME NEW P, NEW listed \in BOOLEAN,
         NEW r \in [policy : P, reproject : BOOLEAN, srcListed : BOOLEAN, dstListed : BOOLEAN]
  PROVE  /\ [r EXCEPT !.dstListed = listed] \in
              [policy : P, reproject : BOOLEAN, srcListed : BOOLEAN, dstListed : BOOLEAN]
         /\ [r EXCEPT !.dstListed = listed].policy = r.policy
  OBVIOUS

LEMMA TypedListing ==
  ASSUME Typed, NEW rejected \in BOOLEAN, ListDestination(rejected)
  PROVE  Typed'
<1> USE DEF Typed, TypeOK
<1>1. /\ run' \in [policy : Policies \cup {None}, reproject : BOOLEAN,
                  srcListed : BOOLEAN, dstListed : BOOLEAN]
      /\ run'.policy = run.policy
  <2>1. run.dstListed \/ rejected \in BOOLEAN
    OBVIOUS
  <2>2. run' = [run EXCEPT !.dstListed = run.dstListed \/ rejected]
    BY DEF ListDestination
  <2> QED BY <2>1, <2>2, ListedTyped
<1>2. dstSeen' \in [Slots -> DestinationEvent \cup {None}]
  BY DEF ListDestination
<1>3. dstFeed' \subseteq Slots /\ unread' \subseteq Slots
  BY DEF ListDestination, ListedProjections
<1> QED BY <1>1, <1>2, <1>3 DEF ListDestination, RunTyped, OperationTyped, Running, ruleVars,
           sourceVars, destinationVars, storeVars

\* The steps that decide events.
LEMMA TypedDeciding ==
  ASSUME Typed,
         \/ \E e \in Events : HandleSource(e) \/ SkipUnverifiable(e) \/ Reproject(e)
         \/ \E s \in Slots : SkipReported(s) \/ RepairReported(s)
         \/ SourcesDone \/ DestinationDone \/ RemainingDone
  PROVE  Typed'
<1> USE DEF ruleVars, sourceVars, destinationVars, sinceVars
<1>1. ASSUME NEW e \in Events, HandleSource(e)
      PROVE  Typed'
  <2>1. /\ mapping' \in [Events -> Mapping \cup {None}] /\ handled' \subseteq Events
        /\ op' \in Operation \cup {None} /\ OperationTyped'
    BY <1>1, ApplyTyped DEF HandleSource, Running, Typed, TypeOK
  <2>2. srcFeed' \in [Events -> SourceEvent \cup {None}] /\ unread' \subseteq Slots
    BY <1>1 DEF HandleSource, UseListing, Typed, TypeOK
  <2> QED BY <1>1, <2>1, <2>2 DEF HandleSource, Typed, TypeOK, RunTyped, Running
<1>2. ASSUME NEW e \in Events, Reproject(e)
      PROVE  Typed'
  <2>1. /\ mapping' \in [Events -> Mapping \cup {None}] /\ handled' \subseteq Events
        /\ op' \in Operation \cup {None} /\ OperationTyped'
    BY <1>2, ApplyTyped DEF Reproject, Running, Typed, TypeOK
  <2>2. unread' \subseteq Slots
    BY <1>2 DEF Reproject, UseListing, Typed, TypeOK
  <2> QED BY <1>2, <2>1, <2>2 DEF Reproject, Typed, TypeOK, RunTyped, Running
<1>3. ASSUME NEW s \in Slots, RepairReported(s)
      PROVE  Typed'
  <2>1. PICK e \in MappedTo(s) : Apply(e, src[e], Live(dstSeen[s]))
    BY <1>3 DEF RepairReported
  <2>2. e \in Events
    BY DEF MappedTo
  <2>3. /\ mapping' \in [Events -> Mapping \cup {None}] /\ handled' \subseteq Events
        /\ op' \in Operation \cup {None} /\ OperationTyped'
    BY <1>3, <2>1, <2>2, ApplyTyped DEF RepairReported, Running, Typed, TypeOK
  <2> QED BY <1>3, <2>3 DEF RepairReported, Typed, TypeOK, RunTyped, Running
<1>4. ASSUME NEW s \in Slots, SkipReported(s)
      PROVE  Typed'
  BY <1>4 DEF SkipReported, Typed, TypeOK, RunTyped, OperationTyped, Running, storeVars
<1>5. ASSUME NEW e \in Events, SkipUnverifiable(e)
      PROVE  Typed'
  BY <1>5 DEF SkipUnverifiable, Typed, TypeOK, RunTyped, OperationTyped, Running, storeVars
<1>6. CASE SourcesDone \/ DestinationDone \/ RemainingDone
  BY <1>6 DEF SourcesDone, DestinationDone, RemainingDone, WritesFree,
              Typed, TypeOK, RunTyped, OperationTyped, Running, storeVars
<1> QED BY <1>1, <1>2, <1>3, <1>4, <1>5, <1>6

LEMMA SentOperation ==
  ASSUME NEW o \in Operation, NEW s \in Slots
  PROVE  /\ [o EXCEPT !.slot = s, !.sent = TRUE] \in Operation
         /\ [o EXCEPT !.slot = s, !.sent = TRUE].kind = o.kind
         /\ [o EXCEPT !.slot = s, !.sent = TRUE].shown = o.shown
         /\ [o EXCEPT !.slot = s, !.sent = TRUE].slot = s
  BY DEF Operation

\* A write the provider answered fixes the slot its mapping will record.
LEMMA TypedSent ==
  ASSUME Typed, op # None, NEW s \in Slots, Sent(s),
         dst' \in [Slots -> DestinationEvent],
         DestinationChanged(s) \/ UNCHANGED <<destinationVars, sinceVars>>
  PROVE  Typed'
<1> USE DEF Typed, TypeOK, RunTyped, OperationTyped, Running,
            ruleVars, sourceVars, destinationVars, sinceVars, storeVars
<1>1. /\ op' \in Operation /\ op'.kind = op.kind /\ op'.shown = op.shown /\ op'.slot = s
  BY SentOperation DEF Sent
<1>2. TypeOK'
  BY <1>1 DEF Sent, DestinationChanged
<1> QED BY <1>1, <1>2 DEF Sent

LEMMA ProjectionTyped ==
  ASSUME Typed, op # None, op.kind # "delete", NEW key \in Revs \cup {None}
  PROVE  Projection(key) \in DestinationEvent
<1>1. op.event \in Events /\ op.shown \in Shown
  BY DEF Typed, TypeOK, OperationTyped, Operation
<1> QED BY <1>1 DEF Projection, DestinationEvent

\* The steps that write and record.
LEMMA TypedWriting ==
  ASSUME Typed, Write \/ Record
  PROVE  Typed'
<1> USE DEF Typed, TypeOK, OperationTyped, Pending
<1>1. ASSUME NEW s \in Slots, AdoptProjection(s)
      PROVE  Typed'
  BY <1>1, TypedSent DEF AdoptProjection, destinationVars
<1>2. ASSUME NEW s \in Slots, CreateProjection(s)
      PROVE  Typed'
  <2>1. op.rev \in Revs
    BY <1>2 DEF CreateProjection, Operation
  <2>2. dst' \in [Slots -> DestinationEvent]
    BY <1>2, <2>1, ProjectionTyped DEF CreateProjection
  <2> QED BY <1>2, <2>2, TypedSent DEF CreateProjection
<1>3. CASE UpdateProjection
  <2>1. op.slot \in Slots
    BY <1>3 DEF UpdateProjection
  <2>2. dst' \in [Slots -> DestinationEvent]
    BY <1>3, ProjectionTyped DEF UpdateProjection
  <2> QED BY <1>3, <2>1, <2>2, TypedSent DEF UpdateProjection
<1>4. CASE RemoveProjection
  <2>1. op.slot \in Slots
    BY <1>4 DEF RemoveProjection
  <2>2. dst' \in [Slots -> DestinationEvent]
    BY <1>4 DEF RemoveProjection, Unused, DestinationEvent
  <2> QED BY <1>4, <2>1, <2>2, TypedSent DEF RemoveProjection
<1>5. CASE AlreadyRemoved
  <2>1. op.slot \in Slots
    BY <1>5 DEF AlreadyRemoved
  <2> QED BY <1>5, <2>1, TypedSent DEF AlreadyRemoved, destinationVars
<1>6. CASE Record
  <2>1. /\ op.event \in Events /\ op.rev \in Revs /\ op.slot \in Slots
        /\ op.kind # "delete" => op.shown \in Shown
    BY <1>6 DEF Record, Operation
  <2>2. mapping' \in [Events -> Mapping \cup {None}]
    BY <1>6, <2>1 DEF Record, Mapping
  <2> QED BY <1>6, <2>2 DEF Record, RunTyped, Running, ruleVars, sourceVars, destinationVars, sinceVars
<1> QED BY <1>1, <1>2, <1>3, <1>4, <1>5, <1>6 DEF Write

\* The steps that end a run.
LEMMA TypedEnding ==
  ASSUME Typed, WriteRefused \/ StopRun \/ FailRun \/ AdvanceCursors
  PROVE  Typed'
<1> USE DEF ruleVars, sourceVars, destinationVars, storeVars
<1>1. CASE WriteRefused \/ StopRun
  BY <1>1, TypedEndRun DEF WriteRefused, StopRun, Typed, TypeOK
<1>2. CASE FailRun
  <2>1. budget' \in [edits : Nat, policies : Nat, faults : Nat, ends : Nat]
    BY <1>2 DEF FailRun, Spend, Typed, TypeOK
  <2> QED BY <1>2, <2>1, TypedEndRun DEF FailRun, Typed, TypeOK
<1>3. CASE AdvanceCursors
  <2>1. rule' \in [state : RuleStates, policy : Policies, reproject : BOOLEAN]
    BY <1>3 DEF AdvanceCursors, Typed, TypeOK
  <2>2. synced' \in BOOLEAN /\ srcNews' \subseteq Events /\ dstNews' \subseteq Slots
    BY <1>3 DEF AdvanceCursors, NextCursors, Typed, TypeOK
  <2> QED BY <1>3, <2>1, <2>2, TypedEndRun DEF AdvanceCursors, Typed, TypeOK
<1> QED BY <1>1, <1>2, <1>3

LEMMA TypedNext == Typed /\ [Next]_vars => Typed'
<1> SUFFICES ASSUME Typed, [Next]_vars PROVE Typed'
  OBVIOUS
<1>1. CASE UNCHANGED vars
  BY <1>1 DEF vars, ruleVars, sourceVars, destinationVars, sinceVars, storeVars, runVars,
              Typed, TypeOK, RunTyped, OperationTyped, Running
<1>2. CASE Next
  BY <1>2, TypedPeople, TypedAdministrator, TypedBegin, TypedListing, TypedDeciding,
     TypedWriting, TypedEnding DEF Next, Step
<1> QED BY <1>1, <1>2

(***************************************************************************)
(* Every variable keeps its type, in every behaviour.                      *)
(***************************************************************************)
THEOREM TypeCorrect == Spec => []TypeOK
<1>1. Spec => []Typed
  BY TypedInit, TypedNext, PTL DEF Spec
<1>2. Typed => TypeOK
  BY DEF Typed
<1> QED BY <1>1, <1>2, PTL

-----------------------------------------------------------------------------
(***************************************************************************)
(* Who changes the destination calendar, and how: the case split behind    *)
(* every invariant about projections.                                      *)
(***************************************************************************)
LEMMA DestinationSteps ==
  ASSUME [Next]_vars, dst' # dst
  PROVE  \/ \E s \in Slots : EditProjection(s) \/ DeleteProjection(s) \/ StripProjection(s)
         \/ \E s \in Slots : CreateProjection(s)
         \/ UpdateProjection \/ RemoveProjection
<1> USE DEF vars, ruleVars, sourceVars, destinationVars, sinceVars, storeVars, runVars
<1>1. CASE People
  BY <1>1 DEF People, EditSource, CancelSource, ForgetSource, EndSource
<1>2. CASE Administrator
  BY <1>2 DEF Administrator, StartPreview, FinishPreview, Enable, Pause, Degrade, ChangePolicy,
              ChangeRule
<1>3. CASE (\E full, rejected \in BOOLEAN : StartRun(full, rejected)) \/ FailRun
  BY <1>3 DEF StartRun, FailRun
<1>4. CASE Step
  BY <1>4 DEF Step, ListDestination, HandleSource, SkipUnverifiable, Reproject, SkipReported,
     RepairReported, SourcesDone, DestinationDone, RemainingDone, Write, AdoptProjection,
     AlreadyRemoved, WriteRefused, Record, StopRun, AdvanceCursors, Sent
<1> QED BY <1>1, <1>2, <1>3, <1>4 DEF Next

LEMMA OneCreateNext ==
  ASSUME Typed, OneCreatePerRevision, [Next]_vars
  PROVE  OneCreatePerRevision'
<1> USE DEF Typed, TypeOK, OneCreatePerRevision, Owned
<1>1. CASE dst' = dst
  BY <1>1
<1>2. ASSUME NEW s \in Slots, EditProjection(s)
      PROVE  OneCreatePerRevision'
  BY <1>2 DEF EditProjection, DestinationEvent
<1>3. ASSUME NEW s \in Slots, DeleteProjection(s)
      PROVE  OneCreatePerRevision'
  BY <1>3 DEF DeleteProjection, Unused
<1>4. ASSUME NEW s \in Slots, StripProjection(s)
      PROVE  OneCreatePerRevision'
  BY <1>4, NoneAssumption DEF StripProjection, DestinationEvent
<1>5. ASSUME NEW s \in Slots, CreateProjection(s)
      PROVE  OneCreatePerRevision'
  BY <1>5 DEF CreateProjection, Acknowledged, Projection
<1>6. CASE UpdateProjection
  BY <1>6 DEF UpdateProjection, Projection
<1>7. CASE RemoveProjection
  BY <1>7 DEF RemoveProjection, Unused
<1> QED BY <1>1, <1>2, <1>3, <1>4, <1>5, <1>6, <1>7, DestinationSteps

(***************************************************************************)
(* However often runs fail, stop and are retried, and whatever people do   *)
(* to the destination calendar, it never holds two projections created for *)
(* one revision of one event.                                              *)
(***************************************************************************)
THEOREM CreatesAreIdempotent == Spec => []OneCreatePerRevision
<1>1. Init => OneCreatePerRevision
  BY DEF Init, OneCreatePerRevision, Owned, Unused
<1>2. Typed /\ OneCreatePerRevision /\ [Next]_vars => OneCreatePerRevision'
  BY OneCreateNext
<1> QED BY <1>1, <1>2, TypedInit, TypedNext, PTL DEF Spec

-----------------------------------------------------------------------------
(***************************************************************************)
(* The stop check holds until the write it was made for is recorded: this  *)
(* is what for_writes is for, and what the contract rests on.              *)
(***************************************************************************)
MayWrite ==
  op # None =>
    /\ Unchanged
    /\ op.kind # "delete" => op.shown = Project[run.policy][op.rev]

Gated == Typed /\ MayWrite

\* A decision that asks for a write is made under the stop check.
LEMMA MayWriteApply ==
  ASSUME Typed, op = None, NEW e, NEW event, NEW actual, Apply(e, event, actual),
         UNCHANGED <<rule, run>>
  PROVE  MayWrite'
<1> DEFINE decision == Decision(e, event, actual)
<1>1. CASE decision \in {"ignore", "conflict", "current"}
  BY <1>1 DEF Apply, MayWrite
<1>2. CASE decision \in {"create", "update", "delete"}
  <2>1. op' = [kind |-> decision, event |-> e, rev |-> event.rev,
               shown |-> Project[run.policy][event.rev],
               slot |-> IF mapping[e] = None THEN None ELSE mapping[e].slot, sent |-> FALSE]
    BY <1>2 DEF Apply
  <2>2. op'.shown = Project[run.policy][op'.rev]
    BY <2>1
  <2>3. Unchanged'
    BY DEF Apply, Unchanged
  <2> QED BY <2>2, <2>3 DEF MayWrite
<1> QED BY <1>1, <1>2 DEF Apply

LEMMA MayWriteNext ==
  ASSUME Gated, [Next]_vars
  PROVE  MayWrite'
<1> USE DEF ruleVars, sourceVars, destinationVars, sinceVars, storeVars, runVars
<1>1. CASE UNCHANGED vars
  BY <1>1 DEF vars, Gated, MayWrite, Unchanged
<1>2. CASE People
  BY <1>2 DEF People, EditSource, CancelSource, ForgetSource, EndSource, EditProjection,
              DeleteProjection, StripProjection, Gated, MayWrite, Unchanged
<1>3. CASE Administrator
  BY <1>3 DEF Administrator, StartPreview, FinishPreview, Enable, Pause, Degrade, ChangePolicy,
              ChangeRule, WritesFree, Gated, MayWrite, Unchanged
<1>4. ASSUME NEW full \in BOOLEAN, NEW rejected \in BOOLEAN, StartRun(full, rejected)
      PROVE  MayWrite'
  BY <1>4 DEF StartRun, Gated, Typed, OperationTyped, Running, MayWrite
<1>5. ASSUME NEW rejected \in BOOLEAN, ListDestination(rejected)
      PROVE  MayWrite'
  <2>1. run'.policy = run.policy
    BY <1>5 DEF ListDestination, Gated, Typed, TypeOK
  <2> QED BY <1>5, <2>1 DEF ListDestination, Gated, MayWrite, Unchanged
<1>6. ASSUME NEW e \in Events, HandleSource(e) \/ Reproject(e)
      PROVE  MayWrite'
  BY <1>6, MayWriteApply DEF HandleSource, Reproject, WritesFree, Gated
<1>7. ASSUME NEW s \in Slots, RepairReported(s)
      PROVE  MayWrite'
  BY <1>7, MayWriteApply DEF RepairReported, WritesFree, Gated
<1>8. CASE \/ \E e \in Events : SkipUnverifiable(e)
           \/ \E s \in Slots : SkipReported(s)
           \/ SourcesDone \/ DestinationDone \/ RemainingDone
  BY <1>8 DEF SkipUnverifiable, SkipReported, SourcesDone, DestinationDone, RemainingDone,
              WritesFree, MayWrite
<1>9. ASSUME NEW s \in Slots, Sent(s), op # None
      PROVE  MayWrite'
  <2>1. op'.kind = op.kind /\ op'.shown = op.shown /\ op'.rev = op.rev
    BY <1>9 DEF Sent, Gated, Typed, TypeOK, Operation
  <2> QED BY <1>9, <2>1 DEF Sent, Gated, MayWrite, Unchanged
<1>10. CASE Write
  BY <1>9, <1>10 DEF Write, AdoptProjection, CreateProjection, UpdateProjection, RemoveProjection,
       AlreadyRemoved, Pending, Gated, Typed, OperationTyped
<1>11. CASE Record \/ WriteRefused \/ StopRun \/ FailRun \/ AdvanceCursors
  BY <1>11 DEF Record, WriteRefused, StopRun, FailRun, AdvanceCursors, EndRun, MayWrite
<1> QED BY <1>1, <1>2, <1>3, <1>4, <1>5, <1>6, <1>7, <1>8, <1>10, <1>11 DEF Next, Step

-----------------------------------------------------------------------------
(***************************************************************************)
(* Every step of SyncRun is a step the contract allows, or none it sees.   *)
(***************************************************************************)
Calendar == [s \in Slots |-> Visible(dst[s])]

\* The contract sees a change to one destination event as that change.
LEMMA CalendarChange ==
  ASSUME dst \in [Slots -> DestinationEvent], NEW s \in Slots, NEW event \in DestinationEvent,
         dst' = [dst EXCEPT ![s] = event]
  PROVE  Calendar' = [Calendar EXCEPT ![s] = Visible(event)]
  BY DEF Calendar

LEMMA PeopleKeepContract ==
  ASSUME Gated, NEW s \in Slots, EditProjection(s) \/ DeleteProjection(s) \/ StripProjection(s)
  PROVE  Contract!Person(s)
<1>1. dst \in [Slots -> DestinationEvent] /\ Calendar[s] = Visible(dst[s])
  BY DEF Gated, Typed, TypeOK, Calendar
<1>2. Calendar[s].status = "confirmed" /\ UNCHANGED <<rule, preview>>
  BY <1>1 DEF EditProjection, DeleteProjection, StripProjection, Visible, ruleVars
<1>3. CASE EditProjection(s)
  <2>1. [dst[s] EXCEPT !.shown = Edited] \in DestinationEvent
    BY <1>1, ProjectAssumption DEF DestinationEvent
  <2>2. dst' = [dst EXCEPT ![s] = [dst[s] EXCEPT !.shown = Edited]]
    BY <1>3 DEF EditProjection
  <2>3. Visible([dst[s] EXCEPT !.shown = Edited]) = [Calendar[s] EXCEPT !.shown = Edited]
    BY <1>1 DEF Visible, DestinationEvent
  <2>4. Calendar' = [Calendar EXCEPT ![s] = [Calendar[s] EXCEPT !.shown = Edited]]
    BY <1>1, <2>1, <2>2, <2>3, CalendarChange
  <2> QED BY <1>2, <2>4 DEF Contract!Person, Contract!Change, Calendar
<1>4. CASE DeleteProjection(s)
  <2>1. [Unused EXCEPT !.status = "cancelled"] \in DestinationEvent
    BY DEF DestinationEvent, Unused
  <2>2. Visible([Unused EXCEPT !.status = "cancelled"]) = Contract!Cancelled
    BY DEF Visible, Unused, Contract!Cancelled
  <2>3. Calendar' = [Calendar EXCEPT ![s] = Contract!Cancelled]
    BY <1>1, <1>4, <2>1, <2>2, CalendarChange DEF DeleteProjection
  <2> QED BY <1>2, <2>3 DEF Contract!Person, Contract!Change, Calendar
<1>5. CASE StripProjection(s)
  <2>1. [dst[s] EXCEPT !.owner = None, !.key = None] \in DestinationEvent
    BY <1>1 DEF DestinationEvent
  <2>2. dst' = [dst EXCEPT ![s] = [dst[s] EXCEPT !.owner = None, !.key = None]]
    BY <1>5 DEF StripProjection
  <2>3. Visible([dst[s] EXCEPT !.owner = None, !.key = None]) = [Calendar[s] EXCEPT !.owner = None]
    BY <1>1 DEF Visible, DestinationEvent
  <2>4. Calendar' = [Calendar EXCEPT ![s] = [Calendar[s] EXCEPT !.owner = None]]
    BY <1>1, <2>1, <2>2, <2>3, CalendarChange
  <2> QED BY <1>2, <2>4 DEF Contract!Person, Contract!Change, Calendar
<1> QED BY <1>3, <1>4, <1>5

LEMMA WritesKeepContract ==
  ASSUME Gated, Write
  PROVE  \/ \E e \in Events, s \in Slots : Contract!Projects(e, s) \/ Contract!Removes(e, s)
         \/ UNCHANGED Contract!vars
<1> USE DEF Gated, Typed, TypeOK, MayWrite, OperationTyped, Pending
<1>1. ASSUME NEW s \in Slots, AdoptProjection(s)
      PROVE  UNCHANGED Contract!vars
  BY <1>1 DEF AdoptProjection, Sent, Contract!vars, ruleVars, destinationVars
<1>2. CASE AlreadyRemoved
  BY <1>2 DEF AlreadyRemoved, Sent, Contract!vars, ruleVars, destinationVars
<1>3. ASSUME NEW s \in Slots, NEW key \in Revs \cup {None}, op # None, op.kind # "delete",
             dst[s] = Unused \/ Owned(s, op.event),
             dst' = [dst EXCEPT ![s] = Projection(key)], Sent(s)
      PROVE  Contract!Projects(op.event, s)
  <2>1. /\ op.event \in Events /\ op.rev \in Revs
        /\ rule.state = "enabled" /\ op.shown = Project[rule.policy][op.rev]
        /\ op.shown \in Shown /\ rule.policy \in Policies
    BY <1>3 DEF Operation, Unchanged
  <2>2. Visible(Projection(key)) = Contract!Projection(op.event, op.rev)
    BY <2>1 DEF Visible, Projection, Contract!Projection
  <2>3. Calendar' = [Calendar EXCEPT ![s] = Contract!Projection(op.event, op.rev)]
    BY <1>3, <2>2, CalendarChange, ProjectionTyped
  <2>4. Calendar[s].status = "unused" \/ Calendar[s].owner = op.event
    BY <1>3 DEF Calendar, Visible, Unused, Owned
  <2>5. op.rev \in DOMAIN Project[rule.policy] /\ Project[rule.policy][op.rev] # Withheld
    BY <2>1, ProjectAssumption
  <2>6. UNCHANGED <<rule, preview>>
    BY <1>3 DEF Sent, ruleVars
  <2> QED BY <2>1, <2>3, <2>4, <2>5, <2>6 DEF Contract!Projects, Contract!Change, Calendar
<1>4. ASSUME NEW s \in Slots, CreateProjection(s)
      PROVE  Contract!Projects(op.event, s)
  <2>1. op.rev \in Revs
    BY <1>4 DEF CreateProjection, Operation
  <2> QED BY <1>3, <1>4, <2>1 DEF CreateProjection
<1>5. ASSUME UpdateProjection
      PROVE  Contract!Projects(op.event, op.slot)
  <2>1. op.slot \in Slots
    BY <1>5 DEF UpdateProjection
  <2>2. /\ op # None /\ op.kind # "delete" /\ Owned(op.slot, op.event)
        /\ dst' = [dst EXCEPT ![op.slot] = Projection(None)] /\ Sent(op.slot)
    BY <1>5 DEF UpdateProjection
  <2>3. None \in Revs \cup {None}
    OBVIOUS
  <2> HIDE DEF Gated, Typed, TypeOK, MayWrite, OperationTyped, Pending
  <2> QED BY <1>3, <2>1, <2>2, <2>3
<1>6. CASE RemoveProjection
  <2>1. op.slot \in Slots /\ op.event \in Events /\ rule.state = "enabled"
    BY <1>6 DEF RemoveProjection, Operation, Unchanged
  <2>2. [Unused EXCEPT !.status = "cancelled"] \in DestinationEvent
    BY DEF DestinationEvent, Unused
  <2>3. Visible([Unused EXCEPT !.status = "cancelled"]) = Contract!Cancelled
    BY DEF Visible, Unused, Contract!Cancelled
  <2>4. Calendar' = [Calendar EXCEPT ![op.slot] = Contract!Cancelled]
    BY <1>6, <2>1, <2>2, <2>3, CalendarChange DEF RemoveProjection
  <2>5. Calendar[op.slot].owner = op.event
    BY <1>6, <2>1 DEF RemoveProjection, Owned, Calendar, Visible
  <2>6. UNCHANGED <<rule, preview>>
    BY <1>6 DEF RemoveProjection, Sent, ruleVars
  <2>7. Contract!Removes(op.event, op.slot)
    BY <2>1, <2>4, <2>5, <2>6 DEF Contract!Removes, Contract!Change, Calendar
  <2> QED BY <2>1, <2>7
<1>7. ASSUME NEW s \in Slots, CreateProjection(s)
      PROVE  \E e \in Events, t \in Slots : Contract!Projects(e, t)
  <2>1. op.event \in Events
    BY <1>7 DEF CreateProjection, Operation
  <2> QED BY <1>4, <1>7, <2>1
<1>8. CASE UpdateProjection
  <2>1. op.event \in Events /\ op.slot \in Slots
    BY <1>8 DEF UpdateProjection, Operation
  <2> QED BY <1>5, <1>8, <2>1
<1> HIDE DEF Gated, Typed, TypeOK, MayWrite, OperationTyped, Pending
<1> QED BY <1>1, <1>2, <1>6, <1>7, <1>8 DEF Write

LEMMA StepsKeepContract ==
  ASSUME Gated, [Next]_vars
  PROVE  [Contract!Next]_(Contract!vars)
<1>1. CASE dst' # dst
  <2>1. CASE \E s \in Slots : EditProjection(s) \/ DeleteProjection(s) \/ StripProjection(s)
    BY <2>1, PeopleKeepContract DEF Contract!Next
  <2>2. CASE (\E s \in Slots : CreateProjection(s)) \/ UpdateProjection \/ RemoveProjection
    BY <2>2, WritesKeepContract DEF Write, Contract!Next
  <2> QED BY <1>1, <2>1, <2>2, DestinationSteps
<1>2. CASE Administrator
  <2>1. Calendar' = Calendar
    BY <1>2 DEF Administrator, StartPreview, FinishPreview, Enable, Pause, Degrade, ChangePolicy,
                ChangeRule, Calendar, destinationVars
  <2>2. CASE StartPreview
    BY <2>1, <2>2 DEF StartPreview, Previewable, Contract!Next, Contract!StartPreview,
                      Contract!Previewable, Calendar
  <2>3. CASE FinishPreview
    BY <2>1, <2>3 DEF FinishPreview, ChangeRule, Previewable, Gated, Typed, TypeOK, Contract!Next,
                      Contract!FinishPreview, Contract!Previewable, Calendar
  <2>4. CASE Enable
    BY <2>1, <2>4 DEF Enable, ChangeRule, Gated, Typed, TypeOK, Contract!Next, Contract!Enable, Calendar
  <2>5. CASE Pause \/ Degrade
    BY <2>1, <2>5 DEF Pause, Degrade, ChangeRule, Gated, Typed, TypeOK, Contract!Next,
                      Contract!Stop, Calendar
  <2>6. ASSUME NEW p \in Policies, ChangePolicy(p)
        PROVE  Contract!ChangePolicy
    BY <2>1, <2>6 DEF ChangePolicy, ChangeRule, Contract!ChangePolicy, Contract!Previewable, Calendar
  <2> QED BY <1>2, <2>2, <2>3, <2>4, <2>5, <2>6 DEF Administrator, Contract!Next
<1>3. CASE dst' = dst /\ ~Administrator
  <2>1. rule'.state = rule.state /\ rule'.policy = rule.policy /\ preview' = preview
    <3> USE DEF ruleVars
    <3>1. CASE UNCHANGED vars
      BY <3>1 DEF vars
    <3>2. CASE People \/ FailRun \/ \E full, rejected \in BOOLEAN : StartRun(full, rejected)
      BY <3>2 DEF People, EditSource, CancelSource, ForgetSource, EndSource, EditProjection,
                  DeleteProjection, StripProjection, FailRun, StartRun
    <3>3. CASE AdvanceCursors
      BY <3>3 DEF AdvanceCursors, Gated, Typed, TypeOK
    <3>4. CASE Step /\ ~AdvanceCursors
      BY <3>4 DEF Step, ListDestination, HandleSource, SkipUnverifiable, Reproject, SkipReported,
         RepairReported, SourcesDone, DestinationDone, RemainingDone, Write, AdoptProjection,
         CreateProjection, UpdateProjection, RemoveProjection,
         AlreadyRemoved, WriteRefused, Record, StopRun, Sent
    <3> QED BY <1>3, <3>1, <3>2, <3>3, <3>4 DEF Next
  <2> QED BY <1>3, <2>1 DEF Contract!vars
<1> QED BY <1>1, <1>2, <1>3

(***************************************************************************)
(* The rule keeps its contract, in every behaviour: its runs write only    *)
(* while it is enabled, what its current policy makes of a revision, to    *)
(* projections it owns; and it is enabled only under a previewed policy.   *)
(***************************************************************************)
THEOREM ContractKept == Spec => KeepsContract
<1>1. Init => Contract!Init
  BY DEF Init, Contract!Init, Visible, Unused
<1>2. Init => Gated
  BY TypedInit DEF Init, Gated, MayWrite
<1>3. Gated /\ [Next]_vars => Gated'
  BY TypedNext, MayWriteNext DEF Gated
<1>4. Gated /\ [Next]_vars => [Contract!Next]_(Contract!vars)
  BY StepsKeepContract
<1> QED BY <1>1, <1>2, <1>3, <1>4, PTL DEF Spec, KeepsContract, Contract!Spec

-----------------------------------------------------------------------------
(***************************************************************************)
(* Mappings stay apart because a mapped slot was given to its event's      *)
(* projection once and for all, also while a write is on its way.          *)
(***************************************************************************)
MappedSlots ==
  \A e \in Events : mapping[e] # None =>
    /\ dst[mapping[e].slot].status # "unused"
    /\ dst[mapping[e].slot].owner \in {e, None}

NoSharedSlot ==
  \A e, f \in Events :
    mapping[e] # None /\ mapping[f] # None /\ mapping[e].slot = mapping[f].slot => e = f

OperationSlot ==
  op # None =>
    /\ op.kind # "create" => mapping[op.event] # None /\ mapping[op.event].slot = op.slot
    /\ op.sent =>
         /\ dst[op.slot].status # "unused"
         /\ dst[op.slot].owner \in {op.event, None}
         /\ \A f \in Events \ {op.event} : mapping[f] # None => mapping[f].slot # op.slot

Apart == MappedSlots /\ NoSharedSlot /\ OperationSlot

\* The kinds of steps that touch projections, mappings and the operation in flight.
LEMMA StoreSteps ==
  ASSUME Typed, [Next]_vars
  PROVE  \/ UNCHANGED <<dst, mapping, op>>
         \/ op' = None /\ UNCHANGED <<dst, mapping>>
         \/ /\ UNCHANGED <<mapping, op>>
            /\ \E s \in Slots : EditProjection(s) \/ DeleteProjection(s) \/ StripProjection(s)
         \/ /\ op = None /\ dst' = dst
            /\ \E e \in Events, event \in SourceEvent :
                 Apply(e, event, Actual(e)) /\ phase' = phase /\ Running
         \/ /\ op = None /\ dst' = dst
            /\ \E e \in Events, s \in Slots :
                 e \in MappedTo(s) /\ Apply(e, src[e], Live(dstSeen[s])) /\ phase' = phase /\ Running
         \/ Write
         \/ Record
<1> USE DEF vars, ruleVars, sourceVars, destinationVars, sinceVars, storeVars, runVars
<1>1. CASE UNCHANGED vars
  BY <1>1
<1>2. CASE People
  BY <1>2 DEF People, EditSource, CancelSource, ForgetSource, EndSource, EditProjection,
              DeleteProjection, StripProjection
<1>3. CASE Administrator
  BY <1>3 DEF Administrator, StartPreview, FinishPreview, Enable, Pause, Degrade, ChangePolicy,
              ChangeRule
<1>4. CASE \/ \E full, rejected \in BOOLEAN : StartRun(full, rejected)
           \/ \E rejected \in BOOLEAN : ListDestination(rejected)
  BY <1>4 DEF StartRun, ListDestination
<1>5. ASSUME NEW e \in Events, HandleSource(e) \/ Reproject(e)
      PROVE  /\ op = None /\ dst' = dst
             /\ \E event \in SourceEvent :
                  Apply(e, event, Actual(e)) /\ phase' = phase /\ Running
  <2>1. CASE HandleSource(e)
    <3>1. srcFeed[e] \in SourceEvent
      BY <2>1 DEF HandleSource, Typed, TypeOK
    <3> QED BY <2>1, <3>1 DEF HandleSource, WritesFree, Running
  <2>2. CASE Reproject(e)
    <3>1. src[e] \in SourceEvent
      BY DEF Typed, TypeOK
    <3> QED BY <2>2, <3>1 DEF Reproject, WritesFree, Running
  <2> QED BY <1>5, <2>1, <2>2
<1>6. ASSUME NEW s \in Slots, RepairReported(s)
      PROVE  /\ op = None /\ dst' = dst
             /\ \E e \in Events :
                  e \in MappedTo(s) /\ Apply(e, src[e], Live(dstSeen[s])) /\ phase' = phase /\ Running
  BY <1>6 DEF RepairReported, WritesFree, MappedTo, Running
<1>7. CASE \/ \E e \in Events : SkipUnverifiable(e)
           \/ \E s \in Slots : SkipReported(s)
           \/ SourcesDone \/ DestinationDone \/ RemainingDone
  BY <1>7 DEF SkipUnverifiable, SkipReported, SourcesDone, DestinationDone, RemainingDone
<1>8. CASE WriteRefused \/ StopRun \/ FailRun \/ AdvanceCursors
  BY <1>8 DEF WriteRefused, StopRun, FailRun, AdvanceCursors, EndRun
<1>9. CASE \E e \in Events : HandleSource(e) \/ Reproject(e)
  BY <1>5, <1>9
<1>10. CASE \E s \in Slots : RepairReported(s)
  BY <1>6, <1>10
<1> HIDE DEF vars, ruleVars, sourceVars, destinationVars, sinceVars, storeVars, runVars
<1> QED BY <1>1, <1>2, <1>3, <1>4, <1>7, <1>8, <1>9, <1>10 DEF Next, Step

\* What a decision may do to its mapping and to the operation in flight.
LEMMA ApplyMaps ==
  ASSUME Typed, Running, NEW e \in Events, NEW event \in SourceEvent, NEW actual,
         Apply(e, event, actual), op = None
  PROVE  /\ \A f \in Events : (mapping'[f] = None) <=> (mapping[f] = None)
         /\ \A f \in Events : mapping[f] # None => mapping'[f].slot = mapping[f].slot
         /\ op' # None =>
              /\ mapping' = mapping /\ op'.event = e /\ ~op'.sent
              /\ op'.kind = Decision(e, event, actual)
              /\ op'.kind \in {"create", "update", "delete"}
              /\ op'.kind # "create" => mapping[e] # None /\ op'.slot = mapping[e].slot
<1> DEFINE decision == Decision(e, event, actual)
<1>1. /\ mapping \in [Events -> Mapping \cup {None}]
      /\ event.rev \in Revs
      /\ decision \in {"delete", "current", "update"} => mapping[e] # None
      /\ decision = "current" => Project[run.policy][event.rev] \in Shown
  BY DecisionFacts DEF Typed, TypeOK, SourceEvent
<1>2. CASE decision \in {"ignore", "conflict"}
  BY <1>2 DEF Apply
<1>3. CASE decision = "current"
  <2>1. op' = None
    BY <1>3 DEF Apply
  <2>2. \/ mapping' = mapping
        \/ mapping' = [mapping EXCEPT ![e] = [mapping[e] EXCEPT !.rev = event.rev,
                                                    !.shown = Project[run.policy][event.rev]]]
    BY <1>3 DEF Apply
  <2>3. mapping[e] \in Mapping
    BY <1>1, <1>3
  <2>4. /\ [mapping[e] EXCEPT !.rev = event.rev, !.shown = Project[run.policy][event.rev]] \in Mapping
        /\ [mapping[e] EXCEPT !.rev = event.rev,
                                !.shown = Project[run.policy][event.rev]].slot = mapping[e].slot
    BY <1>1, <1>3, <2>3 DEF Mapping
  <2> QED BY <1>1, <1>3, <2>1, <2>2, <2>3, <2>4, NoneAssumption
<1>4. CASE decision \in {"create", "update", "delete"}
  BY <1>1, <1>4 DEF Apply
<1> QED BY <1>2, <1>3, <1>4, DecisionFacts

LEMMA ApartApply ==
  ASSUME Typed, Apart, Running, op = None, dst' = dst,
         NEW e \in Events, NEW event \in SourceEvent, NEW actual, Apply(e, event, actual)
  PROVE  Apart'
<1>1. \A f \in Events : (mapping'[f] = None) <=> (mapping[f] = None)
  BY ApplyMaps
<1>2. \A f \in Events : mapping[f] # None => mapping'[f].slot = mapping[f].slot
  BY ApplyMaps
<1>3. MappedSlots' /\ NoSharedSlot'
  BY <1>1, <1>2 DEF Apart, MappedSlots, NoSharedSlot
<1>4. OperationSlot'
  BY ApplyMaps DEF OperationSlot
<1> QED BY <1>3, <1>4 DEF Apart

LEMMA ApartPeople ==
  ASSUME Typed, Apart, UNCHANGED <<mapping, op>>,
         NEW s \in Slots, EditProjection(s) \/ DeleteProjection(s) \/ StripProjection(s)
  PROVE  Apart'
<1>1. /\ dst \in [Slots -> DestinationEvent] /\ dst' \in [Slots -> DestinationEvent]
      /\ (op # None /\ op.sent) => op.slot \in Slots
      /\ \A e \in Events : mapping[e] # None => mapping[e].slot \in Slots
  BY TypedPeople DEF Typed, TypeOK, OperationTyped, People, Mapping
<1>2. \A t \in Slots : /\ dst[t].status # "unused" => dst'[t].status # "unused"
                       /\ dst'[t].owner \in {dst[t].owner, None}
  <2>1. CASE EditProjection(s)
    BY <1>1, <2>1 DEF EditProjection, DestinationEvent
  <2>2. CASE DeleteProjection(s)
    BY <1>1, <2>2 DEF DeleteProjection, Unused
  <2>3. CASE StripProjection(s)
    BY <1>1, <2>3 DEF StripProjection, DestinationEvent
  <2> QED BY <2>1, <2>2, <2>3
<1>3. MappedSlots' /\ NoSharedSlot'
  BY <1>1, <1>2 DEF Apart, MappedSlots, NoSharedSlot
<1>4. OperationSlot'
  BY <1>1, <1>2 DEF Apart, OperationSlot
<1> QED BY <1>3, <1>4 DEF Apart

LEMMA ApartWrite ==
  ASSUME Typed, Apart, Write
  PROVE  Apart'
<1>1. /\ dst \in [Slots -> DestinationEvent] /\ op \in Operation /\ op # None /\ ~op.sent
      /\ op.event \in Events
      /\ op.kind # "create" => op.slot \in Slots
      /\ \A e \in Events : mapping[e] # None => mapping[e].slot \in Slots
  BY DEF Write, AdoptProjection, CreateProjection, UpdateProjection, RemoveProjection,
         AlreadyRemoved, Pending, Typed, TypeOK, OperationTyped, Operation, Mapping
<1>2. ASSUME NEW s \in Slots, Sent(s),
             dst' = dst \/ \E event \in DestinationEvent : dst' = [dst EXCEPT ![s] = event],
             dst'[s].status # "unused", dst'[s].owner \in {op.event, None},
             \A f \in Events \ {op.event} : mapping[f] # None => mapping[f].slot # s,
             op.kind # "create" => s = op.slot
      PROVE  Apart'
  <2>1. /\ mapping' = mapping
        /\ op'.event = op.event /\ op'.kind = op.kind /\ op'.slot = s
    BY <1>1, <1>2 DEF Sent, storeVars, Operation
  <2>2. \A t \in Slots \ {s} : dst'[t] = dst[t]
    BY <1>1, <1>2
  <2>3. MappedSlots' /\ NoSharedSlot'
    BY <1>1, <1>2, <2>1, <2>2 DEF Apart, MappedSlots, NoSharedSlot
  <2>4. OperationSlot'
    BY <1>1, <1>2, <2>1 DEF Apart, OperationSlot
  <2> QED BY <2>3, <2>4 DEF Apart
<1>3. ASSUME NEW s \in Slots, AdoptProjection(s)
      PROVE  Apart'
  <2>1. dst[s].status # "unused" /\ dst[s].owner = op.event /\ dst' = dst /\ op.kind = "create"
    BY <1>1, <1>3 DEF AdoptProjection, Acknowledged, destinationVars, Pending
  <2>2. \A f \in Events \ {op.event} : mapping[f] # None => mapping[f].slot # s
    BY <1>1, <2>1, NoneAssumption DEF Apart, MappedSlots
  <2> QED BY <1>2, <1>3, <2>1, <2>2 DEF AdoptProjection
<1>4. ASSUME NEW s \in Slots, CreateProjection(s)
      PROVE  Apart'
  <2>1. /\ op.kind = "create" /\ op.rev \in Revs /\ dst[s].status = "unused"
        /\ dst' = [dst EXCEPT ![s] = Projection(op.rev)]
    BY <1>4 DEF CreateProjection, Pending, Unused, Typed, TypeOK, Operation
  <2>2. Projection(op.rev) \in DestinationEvent
    BY <1>1, <2>1, ProjectionTyped
  <2>3. dst'[s].status # "unused" /\ dst'[s].owner = op.event
    BY <1>1, <2>1 DEF Projection
  <2>4. \A f \in Events \ {op.event} : mapping[f] # None => mapping[f].slot # s
    BY <2>1 DEF Apart, MappedSlots
  <2> QED BY <1>2, <1>4, <2>1, <2>2, <2>3, <2>4 DEF CreateProjection
<1>5. ASSUME op.kind # "create"
      PROVE  \A f \in Events \ {op.event} : mapping[f] # None => mapping[f].slot # op.slot
  BY <1>1, <1>5 DEF Apart, OperationSlot, NoSharedSlot
<1>6. CASE UpdateProjection
  <2>1. op.kind = "update" /\ dst' = [dst EXCEPT ![op.slot] = Projection(None)]
    BY <1>6 DEF UpdateProjection, Pending
  <2>2. Projection(None) \in DestinationEvent
    BY <1>1, <2>1, ProjectionTyped
  <2>3. dst'[op.slot].status # "unused" /\ dst'[op.slot].owner = op.event
    BY <1>1, <2>1 DEF Projection
  <2> QED BY <1>1, <1>2, <1>5, <1>6, <2>1, <2>2, <2>3 DEF UpdateProjection
<1>7. CASE RemoveProjection
  <2>1. /\ op.kind = "delete"
        /\ dst' = [dst EXCEPT ![op.slot] = [Unused EXCEPT !.status = "cancelled"]]
    BY <1>7 DEF RemoveProjection, Pending
  <2>2. [Unused EXCEPT !.status = "cancelled"] \in DestinationEvent
    BY DEF Unused, DestinationEvent
  <2>3. dst'[op.slot].status # "unused" /\ dst'[op.slot].owner = None
    BY <1>1, <2>1 DEF Unused
  <2> QED BY <1>1, <1>2, <1>5, <1>7, <2>1, <2>2, <2>3 DEF RemoveProjection
<1>8. CASE AlreadyRemoved
  <2>1. op.kind = "delete" /\ dst' = dst
    BY <1>8 DEF AlreadyRemoved, Pending, destinationVars
  <2>2. dst[op.slot].status # "unused" /\ dst[op.slot].owner \in {op.event, None}
    BY <1>1, <2>1 DEF Apart, OperationSlot, MappedSlots
  <2> QED BY <1>1, <1>2, <1>5, <1>8, <2>1, <2>2 DEF AlreadyRemoved
<1> QED BY <1>3, <1>4, <1>6, <1>7, <1>8 DEF Write

LEMMA ApartRecord ==
  ASSUME Typed, Apart, Record
  PROVE  Apart'
<1>1. /\ op \in Operation /\ op.sent /\ op # None /\ op.event \in Events
      /\ dst' = dst /\ op' = None /\ mapping \in [Events -> Mapping \cup {None}]
  BY DEF Record, Typed, TypeOK, Operation, destinationVars
<1>2. \A f \in Events \ {op.event} : mapping'[f] = mapping[f]
  BY <1>1 DEF Record
<1>3. mapping'[op.event] # None => mapping'[op.event].slot = op.slot
  BY <1>1 DEF Record
<1>4. MappedSlots'
  BY <1>1, <1>2, <1>3 DEF Apart, MappedSlots, OperationSlot
<1>5. NoSharedSlot'
  BY <1>1, <1>2, <1>3 DEF Apart, NoSharedSlot, OperationSlot
<1> QED BY <1>1, <1>4, <1>5 DEF Apart, OperationSlot

LEMMA ApartNext == Typed /\ Apart /\ [Next]_vars => Apart'
<1> SUFFICES ASSUME Typed, Apart, [Next]_vars PROVE Apart'
  OBVIOUS
<1>1. CASE UNCHANGED <<dst, mapping, op>>
  BY <1>1 DEF Apart, MappedSlots, NoSharedSlot, OperationSlot
<1>2. CASE op' = None /\ UNCHANGED <<dst, mapping>>
  BY <1>2 DEF Apart, MappedSlots, NoSharedSlot, OperationSlot
<1>3. ASSUME NEW s \in Slots, NEW e \in Events, Apply(e, src[e], Live(dstSeen[s])),
             Running, op = None, dst' = dst
      PROVE  Apart'
  <2>1. src[e] \in SourceEvent
    BY DEF Typed, TypeOK
  <2> QED BY <1>3, <2>1, ApartApply
<1> QED BY <1>1, <1>2, <1>3, ApartApply, ApartPeople, ApartWrite, ApartRecord, StoreSteps

(***************************************************************************)
(* No two events are ever mapped to one projection, and no event is mapped *)
(* to a projection that is another event's, also when creates are adopted  *)
(* after failures.                                                         *)
(***************************************************************************)
THEOREM MappingsStayApart == Spec => []MappingsApart
<1>1. Init => Apart
  BY DEF Init, Apart, MappedSlots, NoSharedSlot, OperationSlot
<1>2. Apart => MappingsApart
  BY DEF Apart, MappedSlots, NoSharedSlot, MappingsApart
<1> QED BY <1>1, <1>2, TypedInit, TypedNext, ApartNext, PTL DEF Spec

-----------------------------------------------------------------------------
(***************************************************************************)
(* What a run may conclude from the destination events it read earlier:    *)
(* slots are used once, so a cancellation it read is still one.            *)
(***************************************************************************)
SeenSound ==
  /\ \A s \in Slots : dst[s].status = "unused" => dst[s].owner = None
  /\ \A s \in unread \cup dstFeed : dstSeen[s] # None
  /\ \A s \in Slots : dstSeen[s] # None =>
       /\ dstSeen[s].status \in {"confirmed", "cancelled"}
       /\ dstSeen[s].status = "cancelled" => dst[s].status = "cancelled"
  /\ \A s \in dstNews \cup dstSince : dst[s].status # "unused"

\* The phases of a run: what it has not read yet, and what it has gone through.
NothingRead ==
  phase \in {"idle", "listing"} =>
    /\ op = None /\ handled = {} /\ dstFeed = {} /\ unread = {}
    /\ \A s \in Slots : dstSeen[s] = None

GoneThrough ==
  /\ phase \notin {"listing", "source"} => \A e \in Events : srcFeed[e] = None
  /\ phase \in {"remaining", "advance"} => dstFeed = {}
  /\ phase = "advance" => op = None /\ (run.reproject => Remaining = {})

\* An event is decided at most once in a run, and a write follows its decision.
HandledOnce ==
  /\ \A e \in Events : srcFeed[e] # None => e \notin handled
  /\ op # None => op.event \in handled

\* Whatever changes during a run stays news for the cursors it will save.
SinceIsNews ==
  /\ srcSince \subseteq srcNews /\ dstSince \subseteq dstNews
  /\ phase = "idle" => srcSince = {} /\ dstSince = {}

\* A policy that changes during a run leaves a reprojection behind.
PolicyIsDue == Running /\ rule.policy # run.policy => rule.reproject

Course == NothingRead /\ GoneThrough /\ HandledOnce /\ SinceIsNews /\ PolicyIsDue

-----------------------------------------------------------------------------
LEMMA SlotsAreUsedOnce ==
  ASSUME Typed, [Next]_vars
  PROVE  \A s \in Slots :
           /\ dst[s].status = "cancelled" => dst'[s].status = "cancelled"
           /\ dst[s].status # "unused" => dst'[s].status # "unused"
           /\ dst'[s] = dst[s] \/ dst'[s].status # "unused"
<1> USE DEF Typed, TypeOK
<1>1. CASE dst' = dst
  BY <1>1
<1>2. ASSUME NEW s \in Slots, EditProjection(s) \/ DeleteProjection(s) \/ StripProjection(s)
      PROVE  \A t \in Slots :
               /\ dst[t].status = "cancelled" => dst'[t].status = "cancelled"
               /\ dst[t].status # "unused" => dst'[t].status # "unused"
               /\ dst'[t] = dst[t] \/ dst'[t].status # "unused"
  <2>1. dst[s].status = "confirmed" /\ \A t \in Slots \ {s} : dst'[t] = dst[t]
    BY <1>2 DEF EditProjection, DeleteProjection, StripProjection
  <2>2. dst'[s].status # "unused"
    <3>1. CASE EditProjection(s)
      BY <3>1 DEF EditProjection, DestinationEvent
    <3>2. CASE DeleteProjection(s)
      BY <3>2 DEF DeleteProjection, Unused
    <3>3. CASE StripProjection(s)
      BY <3>3 DEF StripProjection, DestinationEvent
    <3> QED BY <1>2, <3>1, <3>2, <3>3
  <2> QED BY <2>1, <2>2
<1>3. ASSUME NEW s \in Slots, CreateProjection(s)
      PROVE  \A t \in Slots :
               /\ dst[t].status = "cancelled" => dst'[t].status = "cancelled"
               /\ dst[t].status # "unused" => dst'[t].status # "unused"
               /\ dst'[t] = dst[t] \/ dst'[t].status # "unused"
  BY <1>3 DEF CreateProjection, Projection, Unused
<1>4. CASE UpdateProjection
  BY <1>4 DEF UpdateProjection, Projection, Owned
<1>5. CASE RemoveProjection
  BY <1>5 DEF RemoveProjection, Unused
<1> QED BY <1>1, <1>2, <1>3, <1>4, <1>5, DestinationSteps

\* Whoever changes a destination event makes it news.
LEMMA NewsIsUsed ==
  ASSUME Typed, SeenSound, NEW s \in Slots, dst'[s].status # "unused",
         DestinationChanged(s),
         \A t \in Slots : dst[t].status # "unused" => dst'[t].status # "unused"
  PROVE  \A t \in dstNews' \cup dstSince' : dst'[t].status # "unused"
  BY DEF DestinationChanged, SeenSound, Typed, TypeOK

LEMMA SeenSoundNext == Typed /\ SeenSound /\ [Next]_vars => SeenSound'
<1> SUFFICES ASSUME Typed, SeenSound, [Next]_vars PROVE SeenSound'
  OBVIOUS
<1> USE DEF ruleVars, sourceVars, destinationVars, sinceVars, storeVars, runVars
<1>1. \A s \in Slots :
        /\ dst[s].status = "cancelled" => dst'[s].status = "cancelled"
        /\ dst[s].status # "unused" => dst'[s].status # "unused"
        /\ dst'[s] = dst[s] \/ dst'[s].status # "unused"
  BY SlotsAreUsedOnce
<1>2. dstSeen \in [Slots -> DestinationEvent \cup {None}] /\ unread \subseteq Slots /\ dstFeed \subseteq Slots
      /\ dstNews \subseteq Slots /\ dstSince \subseteq Slots /\ dst \in [Slots -> DestinationEvent]
  BY DEF Typed, TypeOK
<1>3. ASSUME dstSeen' = dstSeen, unread' \subseteq unread, dstFeed' \subseteq dstFeed,
             \A s \in dstNews' \cup dstSince' : dst'[s].status # "unused"
      PROVE  SeenSound'
  BY <1>1, <1>2, <1>3 DEF SeenSound
<1>4. ASSUME UNCHANGED <<dstNews, dstSince>>
      PROVE  \A s \in dstNews' \cup dstSince' : dst'[s].status # "unused"
  BY <1>1, <1>2, <1>4 DEF SeenSound
<1>5. CASE UNCHANGED vars
  BY <1>3, <1>4, <1>5 DEF vars
<1>6. ASSUME NEW s \in Slots, EditProjection(s) \/ DeleteProjection(s) \/ StripProjection(s)
      PROVE  SeenSound'
  <2>1. dst[s].status # "unused" /\ DestinationChanged(s)
    BY <1>6 DEF EditProjection, DeleteProjection, StripProjection
  <2>2. \A t \in dstNews' \cup dstSince' : dst'[t].status # "unused"
    BY <1>1, <2>1, NewsIsUsed
  <2>3. UNCHANGED <<dstSeen, unread, dstFeed>>
    BY <1>6 DEF EditProjection, DeleteProjection, StripProjection
  <2> QED BY <1>3, <2>2, <2>3
<1>7. ASSUME NEW e \in Events, EditSource(e) \/ CancelSource(e) \/ ForgetSource(e) \/ EndSource(e)
      PROVE  SeenSound'
  BY <1>3, <1>4, <1>7 DEF EditSource, CancelSource, ForgetSource, EndSource, SourceChanged
<1>8. CASE Administrator
  BY <1>3, <1>4, <1>8 DEF Administrator, StartPreview, FinishPreview, Enable, Pause, Degrade,
                          ChangePolicy, ChangeRule
<1>9. ASSUME NEW full \in BOOLEAN, NEW rejected \in BOOLEAN, StartRun(full, rejected)
      PROVE  SeenSound'
  BY <1>3, <1>4, <1>9 DEF StartRun
<1>10. ASSUME NEW rejected \in BOOLEAN, ListDestination(rejected)
       PROVE  SeenSound'
  <2>1. \A s \in dstNews \cup ListedProjections : dst[s].status # "unused"
    BY <1>2, NoneAssumption DEF SeenSound, ListedProjections
  <2>2. PICK read \in SUBSET (dstNews \cup ListedProjections) :
          /\ dstSeen' = [s \in Slots |-> IF s \in read THEN dst[s] ELSE None]
          /\ dstFeed' = read /\ unread' \subseteq read
    BY <1>10 DEF ListDestination
  <2>3. read \subseteq Slots
    BY <1>2, <2>2 DEF ListedProjections
  <2>4. \A s \in read : dst[s] # None /\ dst[s].status \in {"confirmed", "cancelled"}
    BY <1>2, <2>1, <2>2, <2>3, NoneAssumption DEF DestinationEvent
  <2>5. dst' = dst /\ dstNews' = dstNews /\ dstSince' = {}
    BY <1>10 DEF ListDestination
  <2> QED BY <2>1, <2>2, <2>3, <2>4, <2>5 DEF SeenSound
<1>11. ASSUME NEW e \in Events, HandleSource(e) \/ SkipUnverifiable(e) \/ Reproject(e)
       PROVE  SeenSound'
  BY <1>3, <1>4, <1>11 DEF HandleSource, SkipUnverifiable, Reproject, UseListing
<1>12. ASSUME NEW s \in Slots, SkipReported(s) \/ RepairReported(s)
       PROVE  SeenSound'
  BY <1>3, <1>4, <1>12 DEF SkipReported, RepairReported
<1>13. CASE SourcesDone \/ DestinationDone \/ RemainingDone \/ Record
  BY <1>3, <1>4, <1>13 DEF SourcesDone, DestinationDone, RemainingDone, Record
<1>14. CASE Write
  <2>1. UNCHANGED <<dstSeen, unread, dstFeed>>
    BY <1>14 DEF Write, AdoptProjection, CreateProjection, UpdateProjection, RemoveProjection,
                 AlreadyRemoved, Sent
  <2>2. ASSUME NEW s \in Slots, CreateProjection(s)
        PROVE  \A t \in dstNews' \cup dstSince' : dst'[t].status # "unused"
    BY <1>1, <1>2, <2>2, NewsIsUsed DEF CreateProjection, Projection
  <2>3. CASE UpdateProjection \/ RemoveProjection
    <3>1. DestinationChanged(op.slot) /\ Owned(op.slot, op.event) /\ Pending(op.kind)
      BY <2>3 DEF UpdateProjection, RemoveProjection, Pending
    <3>2. op.slot \in Slots /\ dst[op.slot].status = "confirmed"
      BY <2>3, <3>1 DEF UpdateProjection, RemoveProjection, Owned, Pending, Typed, OperationTyped
    <3>3. dst'[op.slot].status # "unused"
      BY <1>1, <3>2
    <3>4. \A t \in dstNews' \cup dstSince' : dst'[t].status # "unused"
      BY <1>1, <3>1, <3>2, <3>3, NewsIsUsed
    <3> QED BY <1>3, <2>1, <3>4
  <2>4. CASE AlreadyRemoved \/ \E s \in Slots : AdoptProjection(s)
    BY <1>3, <1>4, <2>1, <2>4 DEF AlreadyRemoved, AdoptProjection
  <2> QED BY <1>3, <1>14, <2>1, <2>2, <2>3, <2>4 DEF Write
<1>15. ASSUME EndRun, dst' = dst, dstNews' \subseteq dstNews \cup dstSince
       PROVE  SeenSound'
  BY <1>2, <1>15, NoneAssumption DEF EndRun, SeenSound
<1>16. CASE WriteRefused \/ StopRun \/ FailRun \/ AdvanceCursors
  BY <1>15, <1>16 DEF WriteRefused, StopRun, FailRun, AdvanceCursors, NextCursors
<1> HIDE DEF ruleVars, sourceVars, destinationVars, sinceVars, storeVars, runVars
<1> QED BY <1>5, <1>6, <1>7, <1>8, <1>9, <1>10, <1>11, <1>12, <1>13, <1>14, <1>16
        DEF Next, People, Step

-----------------------------------------------------------------------------
\* What a decision leaves to its run.
LEMMA ApplyCourse ==
  ASSUME Typed, Running, op = None, NEW e \in Events, NEW event \in SourceEvent, NEW actual,
         Apply(e, event, actual)
  PROVE  /\ handled' = handled \cup {e}
         /\ op' # None => op'.event = e
         /\ \A f \in Events : (mapping'[f] = None) <=> (mapping[f] = None)
         /\ Unchanged
<1>1. /\ \A f \in Events : (mapping'[f] = None) <=> (mapping[f] = None)
      /\ op' # None => op'.event = e
  BY ApplyMaps
<1> QED BY <1>1 DEF Apply

LEMMA CourseNext == Typed /\ Course /\ [Next]_vars => Course'
<1> SUFFICES ASSUME Typed, Course, [Next]_vars PROVE Course'
  OBVIOUS
<1> USE DEF ruleVars, sourceVars, destinationVars, sinceVars, storeVars, runVars,
            Course, NothingRead, GoneThrough, HandledOnce, SinceIsNews, PolicyIsDue, Running
<1>1. /\ srcFeed \in [Events -> SourceEvent \cup {None}] /\ handled \subseteq Events
      /\ srcNews \subseteq Events /\ srcSince \subseteq Events
      /\ dstNews \subseteq Slots /\ dstSince \subseteq Slots
      /\ op # None => op \in Operation /\ Running
      /\ src \in [Events -> SourceEvent]
  BY DEF Typed, TypeOK, OperationTyped
<1>2. CASE UNCHANGED vars
  BY <1>2 DEF vars, Remaining
<1>3. ASSUME NEW e \in Events, EditSource(e) \/ CancelSource(e) \/ ForgetSource(e) \/ EndSource(e)
      PROVE  Course'
  BY <1>3 DEF EditSource, CancelSource, ForgetSource, EndSource, SourceChanged, Remaining
<1>4. ASSUME NEW s \in Slots, EditProjection(s) \/ DeleteProjection(s) \/ StripProjection(s)
      PROVE  Course'
  BY <1>4 DEF EditProjection, DeleteProjection, StripProjection, DestinationChanged, Remaining
<1>5. CASE Administrator
  <2>1. /\ UNCHANGED <<sourceVars, destinationVars, sinceVars, storeVars, runVars>>
        /\ (rule'.policy = rule.policy /\ rule'.reproject = rule.reproject) \/ rule'.reproject
    <3>1. rule \in [state : RuleStates, policy : Policies, reproject : BOOLEAN]
      BY DEF Typed, TypeOK
    <3> QED BY <1>5, <3>1 DEF Administrator, StartPreview, FinishPreview, Enable, Pause, Degrade,
                              ChangePolicy, ChangeRule
  <2> QED BY <2>1 DEF Remaining
<1>6. ASSUME NEW full \in BOOLEAN, NEW rejected \in BOOLEAN, StartRun(full, rejected)
      PROVE  Course'
  BY <1>6 DEF StartRun
<1>7. ASSUME NEW rejected \in BOOLEAN, ListDestination(rejected)
      PROVE  Course'
  <2>1. run'.policy = run.policy /\ run'.reproject = run.reproject
    BY <1>7 DEF ListDestination, Typed, TypeOK
  <2> QED BY <1>7, <2>1 DEF ListDestination
<1>8. ASSUME NEW e \in Events, HandleSource(e)
      PROVE  Course'
  <2>1. /\ Apply(e, srcFeed[e], Actual(e)) /\ op = None /\ srcFeed[e] \in SourceEvent
        /\ phase = "source" /\ srcFeed' = [srcFeed EXCEPT ![e] = None]
        /\ UNCHANGED <<ruleVars, sourceVars, destinationVars, sinceVars, phase, run, dstSeen, dstFeed>>
    BY <1>1, <1>8 DEF HandleSource, WritesFree
  <2>2. handled' = handled \cup {e} /\ (op' # None => op'.event = e)
    BY <2>1, ApplyCourse
  <2> QED BY <1>1, <2>1, <2>2
<1>9. ASSUME NEW e \in Events, NEW actual, Apply(e, src[e], actual), op = None,
             phase \in {"destination", "remaining"}, dstFeed' \subseteq dstFeed,
             UNCHANGED <<ruleVars, sourceVars, destinationVars, sinceVars, phase, run, srcFeed, dstSeen>>
      PROVE  Course'
  <2>1. handled' = handled \cup {e} /\ (op' # None => op'.event = e)
    BY <1>1, <1>9, ApplyCourse
  <2> QED BY <1>1, <1>9, <2>1
<1>10. ASSUME NEW e \in Events, Reproject(e)
       PROVE  Course'
  BY <1>9, <1>10 DEF Reproject, WritesFree
<1>11. ASSUME NEW s \in Slots, RepairReported(s)
       PROVE  Course'
  BY <1>9, <1>11 DEF RepairReported, WritesFree, MappedTo
<1>12. ASSUME NEW e \in Events, SkipUnverifiable(e)
       PROVE  Course'
  BY <1>1, <1>12 DEF SkipUnverifiable, WritesFree
<1>13. ASSUME NEW s \in Slots, SkipReported(s)
       PROVE  Course'
  BY <1>13 DEF SkipReported, WritesFree
<1>14. CASE SourcesDone \/ DestinationDone \/ RemainingDone
  BY <1>14 DEF SourcesDone, DestinationDone, RemainingDone, Remaining, WritesFree
<1>15. CASE Write
  <2>1. /\ op # None /\ \E s : Sent(s)
        /\ UNCHANGED <<dstNews, dstSince>> \/ \E s \in Slots : DestinationChanged(s)
        /\ srcSince' = srcSince
    BY <1>1, <1>15 DEF Write, AdoptProjection, CreateProjection, UpdateProjection, RemoveProjection,
                 AlreadyRemoved, Pending, DestinationChanged, Typed, OperationTyped
  <2>2. /\ op'.event = op.event
        /\ UNCHANGED <<ruleVars, sourceVars, storeVars, phase, run, srcFeed, dstSeen, dstFeed,
                       unread, handled>>
    BY <1>1, <2>1 DEF Sent, Operation
  <2> QED BY <1>1, <2>1, <2>2 DEF DestinationChanged
<1>16. CASE Record
  BY <1>1, <1>16 DEF Record
<1>17. ASSUME EndRun
       PROVE  Course'
  BY <1>17 DEF EndRun
<1>18. CASE WriteRefused \/ StopRun \/ FailRun \/ AdvanceCursors
  BY <1>17, <1>18 DEF WriteRefused, StopRun, FailRun, AdvanceCursors
<1> HIDE DEF ruleVars, sourceVars, destinationVars, sinceVars, storeVars, runVars,
             Course, NothingRead, GoneThrough, HandledOnce, SinceIsNews, PolicyIsDue, Running
<1> QED BY <1>2, <1>3, <1>4, <1>5, <1>6, <1>7, <1>8, <1>10, <1>11, <1>12, <1>13, <1>14, <1>15,
           <1>16, <1>18 DEF Next, People, Step

-----------------------------------------------------------------------------
(***************************************************************************)
(* What a run knows: the source events and projections it read are those   *)
(* of the calendars, or a later change of them is news for the cursors it  *)
(* will save.                                                              *)
(***************************************************************************)
WantedUnder(p, e) ==
  IF src[e].status = "confirmed" THEN Project[p][src[e].rev] ELSE Withheld

AsRecorded(e) == Owned(mapping[e].slot, e) /\ dst[mapping[e].slot].shown = mapping[e].shown

\* A change of the projection that its mapping does not account for.
ChangedIn(e, news) == mapping[e] # None /\ mapping[e].slot \in news /\ ~AsRecorded(e)

\* No feed ever reported an event that was never there, or that the provider forgot.
NeverSeen ==
  /\ \A e \in srcNews : src[e].status \in {"confirmed", "cancelled"}
  /\ \A e \in Events : src[e].status = "none" =>
       mapping[e] = None /\ srcFeed[e] = None /\ (op # None => op.event # e)

Fresh(e, event) ==
  /\ event.status \in {"confirmed", "cancelled"}
  /\ e \in srcSince \/ (event.status = src[e].status /\ event.rev = src[e].rev)
  /\ event.ended => src[e].ended

FeedFresh == \A e \in Events : srcFeed[e] # None => Fresh(e, srcFeed[e])

SeenFresh ==
  \A e \in Events : mapping[e] # None /\ e \notin handled /\ dstSeen[mapping[e].slot] # None =>
    dstSeen[mapping[e].slot] = dst[mapping[e].slot] \/ ChangedIn(e, dstSince)

\* An incremental run has all the news there was.
NewsRead ==
  Running /\ ~run.srcListed =>
    /\ synced /\ ~run.reproject
    /\ \A e \in srcNews : e \in srcSince \/ srcFeed[e] # None \/ e \in handled

\* What people write is not what a mapping records.
EditsStandOut == \A e \in Events : mapping[e] # None => mapping[e].shown # Edited

Ground == Typed /\ MayWrite /\ Apart /\ SeenSound /\ Course

-----------------------------------------------------------------------------
(***************************************************************************)
(* Three kinds of steps, by what they leave behind.                        *)
(***************************************************************************)
\* A person's change makes the projection news and differs from every mapping's record.
LEMMA PersonFacts ==
  ASSUME Ground, EditsStandOut, NEW s \in Slots,
         EditProjection(s) \/ DeleteProjection(s) \/ StripProjection(s)
  PROVE  /\ UNCHANGED <<rule, preview, src, srcNews, srcSince, mapping, synced, phase, run, srcFeed,
                        dstSeen, dstFeed, unread, handled, op>>
         /\ \A t \in Slots \ {s} : dst'[t] = dst[t]
         /\ dstNews' = dstNews \cup {s}
         /\ dstSince' = IF Running THEN dstSince \cup {s} ELSE dstSince
         /\ \A e \in Events : mapping[e] # None /\ mapping[e].slot = s => ~AsRecorded(e)'
<1> USE DEF ruleVars, sourceVars, storeVars, runVars
<1>1. dst \in [Slots -> DestinationEvent] /\ mapping \in [Events -> Mapping \cup {None}]
  BY DEF Ground, Typed, TypeOK
<1>2. /\ UNCHANGED <<rule, preview, src, srcNews, srcSince, mapping, synced, phase, run, srcFeed,
                     dstSeen, dstFeed, unread, handled, op>>
      /\ dstNews' = dstNews \cup {s}
      /\ dstSince' = IF Running THEN dstSince \cup {s} ELSE dstSince
  BY DEF EditProjection, DeleteProjection, StripProjection, DestinationChanged
<1>3. \A t \in Slots \ {s} : dst'[t] = dst[t]
  BY <1>1 DEF EditProjection, DeleteProjection, StripProjection
<1>4. ASSUME NEW e \in Events, mapping[e] # None, mapping[e].slot = s
      PROVE  ~AsRecorded(e)'
  <2>1. mapping'[e] = mapping[e]
    BY <1>2
  <2>2. CASE EditProjection(s)
    <3>1. dst'[s].shown = Edited
      BY <1>1, <2>2 DEF EditProjection, DestinationEvent
    <3> QED BY <1>4, <2>1, <3>1 DEF AsRecorded, EditsStandOut
  <2>3. CASE DeleteProjection(s)
    <3>1. dst'[s].status = "cancelled"
      BY <1>1, <2>3 DEF DeleteProjection, Unused
    <3> QED BY <1>4, <2>1, <3>1 DEF AsRecorded, Owned
  <2>4. CASE StripProjection(s)
    <3>1. dst'[s].owner = None
      BY <1>1, <2>4 DEF StripProjection, DestinationEvent
    <3> QED BY <1>4, <2>1, <3>1, NoneAssumption DEF AsRecorded, Owned
  <2> QED BY <2>2, <2>3, <2>4
<1> QED BY <1>2, <1>3, <1>4

\* A provider write touches one slot, which is its event's and nobody else's.
LEMMA WriteFacts ==
  ASSUME Ground, Write
  PROVE  /\ op \in Operation /\ op.event \in Events /\ ~op.sent /\ Running /\ phase # "listing"
         /\ op' \in Operation /\ op' # None /\ op'.sent /\ op'.slot \in Slots
         /\ op'.event = op.event /\ op'.kind = op.kind /\ op'.shown = op.shown /\ op'.rev = op.rev
         /\ UNCHANGED <<rule, preview, src, srcNews, srcSince, mapping, synced, phase, run, srcFeed,
                        dstSeen, dstFeed, unread, handled, budget>>
         /\ \A t \in Slots \ {op'.slot} : dst'[t] = dst[t]
         /\ \/ UNCHANGED <<dst, dstNews, dstSince>>
            \/ dstNews' = dstNews \cup {op'.slot} /\ dstSince' = dstSince \cup {op'.slot}
         /\ \A e \in Events \ {op.event} : mapping[e] # None => mapping[e].slot # op'.slot
<1>1. Apart' /\ Typed'
  <2>1. [Next]_vars
    BY DEF Next, Step
  <2> QED BY <2>1, TypedNext, ApartNext DEF Ground
<1>2. /\ op \in Operation /\ op # None /\ op.event \in Events /\ ~op.sent /\ Running
      /\ phase # "listing"
      /\ op.kind # "create" => op.slot \in Slots
      /\ dst \in [Slots -> DestinationEvent]
  <2>1. op # None /\ ~op.sent
    BY DEF Write, AdoptProjection, CreateProjection, UpdateProjection, RemoveProjection,
           AlreadyRemoved, Pending
  <2> QED BY <2>1 DEF Ground, Typed, TypeOK, OperationTyped, Operation, Course, NothingRead
<1>3. ASSUME NEW s \in Slots, Sent(s), \A t \in Slots \ {s} : dst'[t] = dst[t],
             UNCHANGED <<dst, dstNews, dstSince>> \/ DestinationChanged(s),
             srcSince' = srcSince
      PROVE  /\ op' \in Operation /\ op' # None /\ op'.sent /\ op'.slot = s
             /\ op'.event = op.event /\ op'.kind = op.kind /\ op'.shown = op.shown /\ op'.rev = op.rev
             /\ UNCHANGED <<rule, preview, src, srcNews, srcSince, mapping, synced, phase, run,
                            srcFeed, dstSeen, dstFeed, unread, handled, budget>>
             /\ \A t \in Slots \ {op'.slot} : dst'[t] = dst[t]
             /\ \/ UNCHANGED <<dst, dstNews, dstSince>>
                \/ dstNews' = dstNews \cup {op'.slot} /\ dstSince' = dstSince \cup {op'.slot}
  <2>1. op' = [op EXCEPT !.slot = s, !.sent = TRUE]
    BY <1>3 DEF Sent
  <2>2. op'.sent /\ op'.slot = s /\ op'.event = op.event /\ op'.kind = op.kind
        /\ op'.shown = op.shown /\ op'.rev = op.rev
    BY <1>2, <2>1 DEF Operation
  <2>3. op' \in Operation
    BY <1>2, <2>1, SentOperation
  <2>4. op' # None
    BY <2>3, NoneAssumption
  <2>5. UNCHANGED <<rule, preview, src, srcNews, srcSince, mapping, synced, phase, run,
                    srcFeed, dstSeen, dstFeed, unread, handled, budget>>
    BY <1>3 DEF Sent, ruleVars, sourceVars, storeVars
  <2>6. \/ UNCHANGED <<dst, dstNews, dstSince>>
        \/ dstNews' = dstNews \cup {s} /\ dstSince' = dstSince \cup {s}
    BY <1>2, <1>3 DEF DestinationChanged
  <2> QED BY <1>3, <2>2, <2>3, <2>4, <2>5, <2>6
<1>4. /\ op' \in Operation /\ op' # None /\ op'.sent /\ op'.slot \in Slots
      /\ op'.event = op.event /\ op'.kind = op.kind /\ op'.shown = op.shown /\ op'.rev = op.rev
      /\ UNCHANGED <<rule, preview, src, srcNews, srcSince, mapping, synced, phase, run, srcFeed,
                     dstSeen, dstFeed, unread, handled, budget>>
      /\ \A t \in Slots \ {op'.slot} : dst'[t] = dst[t]
      /\ \/ UNCHANGED <<dst, dstNews, dstSince>>
         \/ dstNews' = dstNews \cup {op'.slot} /\ dstSince' = dstSince \cup {op'.slot}
  <2>1. CASE \E s \in Slots : AdoptProjection(s)
    BY <1>3, <2>1 DEF AdoptProjection, destinationVars, sinceVars
  <2>2. CASE \E s \in Slots : CreateProjection(s)
    <3>1. PICK s \in Slots : CreateProjection(s)
      BY <2>2
    <3>2. Sent(s) /\ DestinationChanged(s) /\ srcSince' = srcSince
      BY <3>1 DEF CreateProjection, DestinationChanged
    <3>3. \A t \in Slots \ {s} : dst'[t] = dst[t]
      BY <1>2, <3>1 DEF CreateProjection
    <3> QED BY <1>3, <3>2, <3>3
  <2>3. CASE UpdateProjection \/ RemoveProjection
    <3>1. op.slot \in Slots
      BY <1>2, <2>3 DEF UpdateProjection, RemoveProjection, Pending
    <3>2. Sent(op.slot) /\ DestinationChanged(op.slot) /\ srcSince' = srcSince
      BY <2>3 DEF UpdateProjection, RemoveProjection, DestinationChanged
    <3>3. \A t \in Slots \ {op.slot} : dst'[t] = dst[t]
      BY <1>2, <2>3 DEF UpdateProjection, RemoveProjection
    <3> QED BY <1>3, <3>1, <3>2, <3>3
  <2>4. CASE AlreadyRemoved
    <3>1. op.slot \in Slots
      BY <1>2, <2>4 DEF AlreadyRemoved, Pending
    <3> QED BY <1>3, <2>4, <3>1 DEF AlreadyRemoved, destinationVars, sinceVars
  <2> QED BY <2>1, <2>2, <2>3, <2>4 DEF Write
<1>5. \A e \in Events \ {op.event} : mapping[e] # None => mapping[e].slot # op'.slot
  BY <1>1, <1>4 DEF Apart, OperationSlot
<1> QED BY <1>2, <1>4, <1>5

\* What a decision takes the mapped projection for: what it is now, or what it was before news.
Sighted(e, actual) ==
  mapping[e] # None =>
    \E seen \in DestinationEvent :
      /\ actual = Live(seen)
      /\ seen.status = "confirmed" \/ dst[mapping[e].slot].status = "cancelled"
      /\ seen = dst[mapping[e].slot] \/ ChangedIn(e, dstSince)

Knowledge == NeverSeen /\ FeedFresh /\ SeenFresh /\ NewsRead

\* A step that decides event e: what it knows, and what it leaves alone.
Decides(e, event, actual) ==
  /\ Apply(e, event, actual) /\ event \in SourceEvent
  /\ Fresh(e, event) /\ Sighted(e, actual)
  /\ op = None /\ Running /\ phase # "listing" /\ e \notin handled
  /\ src[e].status # "none"
  /\ UNCHANGED <<rule, preview, src, srcNews, srcSince, dst, dstNews, dstSince, synced, phase, run,
                 dstSeen, budget>>
  /\ \A f \in Events \ {e} : srcFeed'[f] = srcFeed[f]
  /\ srcFeed'[e] \in {srcFeed[e], None}
  /\ unread' \subseteq unread /\ dstFeed' \subseteq dstFeed
  /\ \A f \in Events \ {e} : mapping[f] # None /\ mapping[f].slot \in dstFeed => mapping[f].slot \in dstFeed'

\* A reported projection that is read is confirmed, or was cancelled for good.
LEMMA SeenIsSighted ==
  ASSUME Ground, SeenFresh, NEW e \in Events, mapping[e] # None, e \notin handled,
         mapping[e].slot \in unread \cup dstFeed
  PROVE  Sighted(e, Live(dstSeen[mapping[e].slot]))
<1> DEFINE s == mapping[e].slot
<1>1. s \in Slots /\ dstSeen[s] # None /\ dstSeen[s] \in DestinationEvent
  BY DEF Ground, Typed, TypeOK, SeenSound, Mapping
<1>2. dstSeen[s].status = "confirmed" \/ dst[s].status = "cancelled"
  BY <1>1 DEF Ground, SeenSound
<1>3. dstSeen[s] = dst[s] \/ ChangedIn(e, dstSince)
  BY <1>1 DEF SeenFresh
<1> QED BY <1>1, <1>2, <1>3 DEF Sighted

LEMMA ActualIsSighted ==
  ASSUME Ground, SeenFresh, NEW e \in Events, e \notin handled
  PROVE  Sighted(e, Actual(e))
<1> SUFFICES ASSUME mapping[e] # None PROVE Sighted(e, Actual(e))
  BY DEF Sighted
<1>1. CASE mapping[e].slot \in unread
  BY <1>1, SeenIsSighted DEF Actual
<1>2. CASE mapping[e].slot \notin unread
  <2>1. mapping[e].slot \in Slots /\ dst[mapping[e].slot] \in DestinationEvent
    BY DEF Ground, Typed, TypeOK, Mapping
  <2>2. dst[mapping[e].slot].status # "unused"
    BY DEF Ground, Apart, MappedSlots
  <2>3. dst[mapping[e].slot].status \in {"confirmed", "cancelled"}
    BY <2>1, <2>2 DEF DestinationEvent
  <2> QED BY <1>2, <2>1, <2>3 DEF Sighted, Actual
<1> QED BY <1>1, <1>2

LEMMA SourceKnown ==
  ASSUME Ground, NEW e \in Events, src[e].status \notin {"none", "gone"}
  PROVE  src[e] \in SourceEvent /\ Fresh(e, src[e])
<1>1. src[e] \in SourceEvent
  BY DEF Ground, Typed, TypeOK
<1> QED BY <1>1 DEF Fresh, SourceEvent

\* Only one event can be mapped to a reported slot.
LEMMA ToRepair ==
  ASSUME Ground, NEW s \in Slots, NEW e \in MappedTo(s), ~NothingToRepair(s)
  PROVE  /\ e \in Events /\ mapping[e] # None /\ mapping[e].slot = s
         /\ e \notin handled /\ ~Unverifiable(e)
<1>1. \A f \in MappedTo(s) : f = e
  BY DEF MappedTo, Ground, Apart, NoSharedSlot
<1> QED BY <1>1 DEF NothingToRepair, MappedTo

LEMMA DecidingSteps ==
  ASSUME Ground, Knowledge,
         \/ \E e \in Events : HandleSource(e) \/ Reproject(e)
         \/ \E s \in Slots : RepairReported(s)
  PROVE  \E e \in Events : \E event, actual : Decides(e, event, actual)
<1> USE DEF ruleVars, sourceVars, destinationVars, sinceVars
<1>1. /\ src \in [Events -> SourceEvent] /\ srcFeed \in [Events -> SourceEvent \cup {None}]
      /\ op # None \/ op = None
  BY DEF Ground, Typed, TypeOK
<1>2. ASSUME NEW e \in Events, HandleSource(e)
      PROVE  Decides(e, srcFeed[e], Actual(e))
  <2>1. /\ Apply(e, srcFeed[e], Actual(e)) /\ op = None /\ Running /\ phase # "listing"
        /\ srcFeed[e] # None /\ srcFeed' = [srcFeed EXCEPT ![e] = None]
        /\ unread' \subseteq unread
        /\ UNCHANGED <<rule, preview, src, srcNews, srcSince, dst, dstNews, dstSince, synced, phase,
                       run, dstSeen, dstFeed, budget>>
    BY <1>2 DEF HandleSource, WritesFree, Running, UseListing
  <2>2. srcFeed[e] \in SourceEvent /\ e \notin handled /\ Fresh(e, srcFeed[e])
    BY <1>1, <2>1 DEF Ground, Course, HandledOnce, Knowledge, FeedFresh
  <2>3. src[e].status # "none"
    BY <2>1 DEF Knowledge, NeverSeen
  <2>4. Sighted(e, Actual(e))
    BY <2>2, ActualIsSighted DEF Knowledge
  <2>5. /\ \A f \in Events \ {e} : srcFeed'[f] = srcFeed[f]
        /\ srcFeed'[e] = None
    BY <1>1, <2>1
  <2> QED BY <2>1, <2>2, <2>3, <2>4, <2>5 DEF Decides
<1>3. ASSUME NEW e \in Events, Reproject(e)
      PROVE  Decides(e, src[e], Actual(e))
  <2>1. /\ Apply(e, src[e], Actual(e)) /\ op = None /\ Running /\ phase # "listing"
        /\ e \notin handled /\ src[e].status \notin {"none", "gone"}
        /\ unread' \subseteq unread
        /\ UNCHANGED <<rule, preview, src, srcNews, srcSince, dst, dstNews, dstSince, synced, phase,
                       run, srcFeed, dstSeen, dstFeed, budget>>
    BY <1>3 DEF Reproject, WritesFree, Running, UseListing, Remaining, Unverifiable
  <2>2. Fresh(e, src[e]) /\ Sighted(e, Actual(e)) /\ src[e] \in SourceEvent
    BY <2>1, SourceKnown, ActualIsSighted DEF Knowledge
  <2> QED BY <2>1, <2>2 DEF Decides
<1>4. ASSUME NEW s \in Slots, RepairReported(s)
      PROVE  \E e \in Events : Decides(e, src[e], Live(dstSeen[s]))
  <2>1. /\ op = None /\ Running /\ phase # "listing" /\ s \in dstFeed
        /\ dstFeed' = dstFeed \ {s} /\ ~NothingToRepair(s)
        /\ UNCHANGED <<rule, preview, src, srcNews, srcSince, dst, dstNews, dstSince, synced, phase,
                       run, srcFeed, dstSeen, unread, budget>>
    BY <1>4 DEF RepairReported, WritesFree, Running
  <2>2. PICK e \in MappedTo(s) : Apply(e, src[e], Live(dstSeen[s]))
    BY <1>4 DEF RepairReported
  <2>3. /\ e \in Events /\ mapping[e] # None /\ mapping[e].slot = s
        /\ e \notin handled /\ src[e].status \notin {"none", "gone"}
    BY <2>1, <2>2, ToRepair DEF Unverifiable
  <2>4. Fresh(e, src[e]) /\ src[e] \in SourceEvent /\ Sighted(e, Live(dstSeen[s]))
    BY <2>1, <2>3, SourceKnown, SeenIsSighted DEF Knowledge
  <2>5. \A f \in Events \ {e} : mapping[f] # None => mapping[f].slot # s
    BY <2>3 DEF Ground, Apart, NoSharedSlot
  <2> QED BY <2>1, <2>2, <2>3, <2>4, <2>5 DEF Decides
<1> QED BY <1>2, <1>3, <1>4

\* What each outcome of a decision says of the event and its projection.
LEMMA DecisionMeans ==
  ASSUME Ground, NEW e \in Events, NEW event, NEW actual, Decides(e, event, actual)
  PROVE  LET decision == Decision(e, event, actual)
             expected == Project[run.policy][event.rev]
         IN /\ decision \in {"conflict", "ignore", "delete", "create", "current", "update"}
            /\ decision = "conflict" =>
                 mapping[e] # None /\ actual # None /\ actual.owner # e
            /\ decision = "ignore" =>
                 mapping[e] = None /\ (event.status = "cancelled" \/ expected = Withheld \/ event.ended)
            /\ decision = "delete" =>
                 mapping[e] # None /\ (event.status = "cancelled" \/ expected = Withheld)
            /\ decision \in {"create", "current", "update"} =>
                 event.status # "cancelled" /\ expected \in Shown /\ expected # Withheld
            /\ decision = "create" => mapping[e] = None \/ actual = None
            /\ decision = "current" =>
                 mapping[e] # None /\ actual # None /\ actual.owner = e /\ actual.shown = expected
            /\ decision = "update" => mapping[e] # None
<1> DEFINE decision == Decision(e, event, actual)
           expected == Project[run.policy][event.rev]
<1>1. /\ decision \in {"conflict", "ignore", "delete", "create", "current", "update"}
      /\ decision \in {"create", "current", "update"} => expected \in Shown
      /\ decision \in {"delete", "current", "update"} => mapping[e] # None
  BY DecisionFacts DEF Decides, Ground
<1>2. CASE IdentityConflict(e, actual)
  BY <1>1, <1>2 DEF Decision, IdentityConflict
<1>3. CASE ~IdentityConflict(e, actual) /\ Removed(event)
  BY <1>1, <1>3 DEF Decision, Removed
<1>4. CASE ~IdentityConflict(e, actual) /\ ~Removed(event)
  <2>1. event.status # "cancelled" /\ expected # Withheld
    BY <1>4 DEF Removed
  <2>2. decision \in {"ignore", "create", "current", "update"}
    BY <1>4 DEF Decision
  <2>3. decision = "ignore" => mapping[e] = None /\ event.ended
    BY <1>4 DEF Decision, BeforeWindow
  <2>4. decision = "create" => mapping[e] = None \/ actual = None
    BY <1>4 DEF Decision
  <2>5. decision = "current" => mapping[e] # None /\ actual # None /\ actual.shown = expected
    BY <1>4 DEF Decision
  <2>6. mapping[e] # None /\ actual # None => actual.owner = e
    BY <1>4 DEF IdentityConflict
  <2> QED BY <1>1, <2>1, <2>2, <2>3, <2>4, <2>5, <2>6
<1> QED BY <1>2, <1>3, <1>4

LEMMA DecisionLeaves ==
  ASSUME Ground, NEW e \in Events, NEW event, NEW actual, Decides(e, event, actual)
  PROVE  LET decision == Decision(e, event, actual)
             expected == Project[run.policy][event.rev]
         IN /\ handled' = handled \cup {e} /\ Unchanged
            /\ \A f \in Events \ {e} : mapping'[f] = mapping[f]
            /\ (mapping'[e] = None) <=> (mapping[e] = None)
            /\ mapping[e] # None => mapping'[e].slot = mapping[e].slot
            /\ mapping' = mapping \/ (decision = "current" /\ mapping'[e].shown = expected)
            /\ decision \in {"create", "update", "delete"} => op' # None
            /\ op' # None =>
                 /\ op'.event = e /\ op'.kind = decision /\ op'.shown = expected /\ ~op'.sent
                 /\ decision \in {"create", "update", "delete"} /\ mapping' = mapping
<1> DEFINE decision == Decision(e, event, actual)
           expected == Project[run.policy][event.rev]
<1>1. /\ event \in SourceEvent /\ Apply(e, event, actual) /\ op = None /\ Running
      /\ mapping \in [Events -> Mapping \cup {None}] /\ Typed
  BY DEF Decides, Ground, Typed, TypeOK
<1>2. /\ (mapping'[e] = None) <=> (mapping[e] = None)
      /\ mapping[e] # None => mapping'[e].slot = mapping[e].slot
      /\ op' # None =>
           /\ op'.event = e /\ op'.kind = decision /\ ~op'.sent
           /\ decision \in {"create", "update", "delete"} /\ mapping' = mapping
  BY <1>1, ApplyMaps
<1>3. handled' = handled \cup {e} /\ Unchanged
  BY <1>1 DEF Apply
<1>4. CASE decision \in {"ignore", "conflict"} /\ UNCHANGED <<mapping, op>>
  BY <1>1, <1>2, <1>3, <1>4
<1>5. CASE /\ decision = "current" /\ UNCHANGED op
           /\ mapping' = IF mapping[e].rev = event.rev THEN mapping
                         ELSE [mapping EXCEPT ![e].rev = event.rev, ![e].shown = expected]
  <2>1. mapping[e] \in Mapping
    BY <1>1, <1>5, DecisionFacts
  <2>2. CASE mapping' = mapping
    BY <1>1, <1>2, <1>3, <1>5, <2>2
  <2>3. CASE mapping' = [mapping EXCEPT ![e].rev = event.rev, ![e].shown = expected]
    <3>1. mapping' = [mapping EXCEPT ![e] = [mapping[e] EXCEPT !.rev = event.rev, !.shown = expected]]
      BY <2>3
    <3>2. mapping'[e].shown = expected /\ \A f \in Events \ {e} : mapping'[f] = mapping[f]
      BY <1>1, <2>1, <3>1 DEF Mapping
    <3> QED BY <1>1, <1>2, <1>3, <1>5, <3>2
  <2> QED BY <1>5, <2>2, <2>3
<1>6. CASE /\ decision \in {"create", "update", "delete"}
           /\ op' = [kind |-> decision, event |-> e, rev |-> event.rev, shown |-> expected,
                     slot |-> IF mapping[e] = None THEN None ELSE mapping[e].slot,
                     sent |-> FALSE]
           /\ UNCHANGED mapping
  <2>1. op'.shown = expected
    BY <1>6
  <2>2. op' # None
    <3>1. op' \in Operation \cup {None} /\ OperationTyped'
      BY <1>1, ApplyTyped DEF Decides
    <3>2. event.rev \in Revs /\ expected \in Shown \cup {Withheld}
      BY <1>1, ProjectTyped DEF SourceEvent, Ground, Typed, RunTyped
    <3>3. mapping[e] # None => mapping[e].slot \in Slots
      BY <1>1 DEF Mapping
    <3>4. op' \in Operation
      BY <1>6, <3>2, <3>3 DEF Operation
    <3> QED BY <3>4, NoneAssumption
  <2> QED BY <1>1, <1>2, <1>3, <1>6, <2>1, <2>2
<1> QED BY <1>1, <1>4, <1>5, <1>6 DEF Apply

-----------------------------------------------------------------------------
(***************************************************************************)
(* What a run knows stays true.  The steps that end a run, and those that  *)
(* only move it along, are put together first.                             *)
(***************************************************************************)
\* Everything the promises are about, except what a run keeps for itself.
World == <<rule, preview, src, srcNews, dst, dstNews, mapping, synced>>

Stops == WriteRefused \/ StopRun \/ FailRun

LEMMA StopFacts == ASSUME Stops PROVE EndRun /\ UNCHANGED World
  BY DEF Stops, WriteRefused, StopRun, FailRun, World, ruleVars, sourceVars, destinationVars, storeVars

LEMMA MoveFacts ==
  ASSUME SourcesDone \/ DestinationDone \/ RemainingDone
  PROVE  /\ UNCHANGED World
         /\ UNCHANGED <<srcSince, dstSince, run, srcFeed, dstSeen, dstFeed, unread, handled, op, budget>>
         /\ phase \notin {"idle", "listing"} /\ phase' \notin {"idle", "listing", "source"}
  BY DEF SourcesDone, DestinationDone, RemainingDone, World, ruleVars, sourceVars, destinationVars,
         sinceVars, storeVars

LEMMA SkipFacts ==
  ASSUME \/ \E e \in Events : SkipUnverifiable(e)
         \/ \E s \in Slots : SkipReported(s)
  PROVE  /\ UNCHANGED World
         /\ UNCHANGED <<srcSince, dstSince, phase, run, srcFeed, dstSeen, unread, op, budget>>
         /\ op = None /\ phase \notin {"idle", "listing", "source"}
         /\ handled \subseteq handled' /\ dstFeed' \subseteq dstFeed
  BY DEF SkipUnverifiable, SkipReported, WritesFree, World, ruleVars, sourceVars, destinationVars,
         sinceVars, storeVars

LEMMA AdministratorFacts ==
  ASSUME Typed, Administrator
  PROVE  /\ UNCHANGED <<sourceVars, destinationVars, sinceVars, storeVars, runVars>>
         /\ op # None => rule'.policy = rule.policy
         /\ (rule'.policy = rule.policy /\ rule'.reproject = rule.reproject) \/ rule'.reproject
<1>1. rule \in [state : RuleStates, policy : Policies, reproject : BOOLEAN]
  BY DEF Typed, TypeOK
<1> QED BY <1>1 DEF Administrator, StartPreview, FinishPreview, Enable, Pause, Degrade,
                    ChangePolicy, ChangeRule, WritesFree

\* The ways a step can come about, as the proofs below take them.
LEMMA Steps ==
  ASSUME Ground, Knowledge, [Next]_vars
  PROVE  \/ UNCHANGED vars
         \/ \E e \in Events : EditSource(e) \/ CancelSource(e) \/ ForgetSource(e) \/ EndSource(e)
         \/ \E s \in Slots : EditProjection(s) \/ DeleteProjection(s) \/ StripProjection(s)
         \/ Administrator
         \/ \E full, rejected \in BOOLEAN : StartRun(full, rejected)
         \/ \E rejected \in BOOLEAN : ListDestination(rejected)
         \/ \E e \in Events : \E event, actual : Decides(e, event, actual)
         \/ \E e \in Events : SkipUnverifiable(e)
         \/ \E s \in Slots : SkipReported(s)
         \/ SourcesDone \/ DestinationDone \/ RemainingDone
         \/ Write \/ Record \/ Stops \/ AdvanceCursors
<1>1. CASE \/ \E e \in Events : HandleSource(e) \/ Reproject(e)
           \/ \E s \in Slots : RepairReported(s)
  BY <1>1, DecidingSteps
<1>2. CASE ~(\/ \E e \in Events : HandleSource(e) \/ Reproject(e)
             \/ \E s \in Slots : RepairReported(s))
  BY <1>2 DEF Next, People, Step, Stops
<1> QED BY <1>1, <1>2

LEMMA NeverSeenNext == Ground /\ NeverSeen /\ [Next]_vars => NeverSeen'
<1> SUFFICES ASSUME Ground, NeverSeen, [Next]_vars PROVE NeverSeen'
  OBVIOUS
<1> USE DEF NeverSeen
<1>1. /\ src \in [Events -> SourceEvent] /\ srcFeed \in [Events -> SourceEvent \cup {None}]
      /\ srcNews \subseteq Events /\ NeverSeen
  BY DEF Ground, Typed, TypeOK
<1>2. CASE UNCHANGED vars
  BY <1>1, <1>2 DEF vars, sourceVars, storeVars, runVars
<1>3. ASSUME NEW e \in Events, EditSource(e) \/ CancelSource(e) \/ ForgetSource(e) \/ EndSource(e)
      PROVE  NeverSeen'
  <2>1. /\ UNCHANGED <<mapping, srcFeed, op>>
        /\ \A f \in Events \ {e} : src'[f] = src[f]
        /\ src'[e].status = "none" => src[e].status = "none"
        /\ srcNews' = srcNews \cup {e} \/ srcNews' = srcNews
    BY <1>1, <1>3 DEF EditSource, CancelSource, ForgetSource, EndSource, SourceChanged,
                      storeVars, runVars, SourceEvent
  <2>2. e \in srcNews' => src'[e].status \in {"confirmed", "cancelled"}
    <3>1. CASE EditSource(e) \/ CancelSource(e)
      BY <1>1, <3>1 DEF EditSource, CancelSource, SourceEvent
    <3>2. CASE ForgetSource(e)
      BY <1>1, <3>2 DEF ForgetSource
    <3>3. CASE EndSource(e)
      <4>1. src' = [src EXCEPT ![e] = [src[e] EXCEPT !.ended = TRUE]] /\ srcNews' = srcNews
        BY <3>3 DEF EndSource
      <4> QED BY <1>1, <4>1 DEF SourceEvent
    <3> QED BY <1>3, <3>1, <3>2, <3>3
  <2> QED BY <1>1, <2>1, <2>2
<1>4. ASSUME NEW s \in Slots, EditProjection(s) \/ DeleteProjection(s) \/ StripProjection(s)
      PROVE  NeverSeen'
  BY <1>1, <1>4 DEF EditProjection, DeleteProjection, StripProjection, sourceVars, storeVars, runVars
<1>5. CASE Administrator
  BY <1>1, <1>5, AdministratorFacts DEF Ground, sourceVars, storeVars, runVars
<1>6. ASSUME NEW full \in BOOLEAN, NEW rejected \in BOOLEAN, StartRun(full, rejected)
      PROVE  NeverSeen'
  <2>1. PICK read \in SUBSET (ListedSources \cup srcNews) :
          srcFeed' = [e \in Events |-> IF e \in read THEN src[e] ELSE None]
    BY <1>6 DEF StartRun
  <2>2. \A e \in read : src[e].status # "none"
    BY <1>1, <2>1 DEF ListedSources
  <2>3. UNCHANGED <<src, srcNews, mapping, op>>
    BY <1>6 DEF StartRun, sourceVars, storeVars
  <2> QED BY <1>1, <2>1, <2>2, <2>3
<1>7. ASSUME NEW rejected \in BOOLEAN, ListDestination(rejected)
      PROVE  NeverSeen'
  BY <1>1, <1>7 DEF ListDestination, sourceVars, storeVars
\* A decision is made of an event that some feed reported, or that has a mapping.
<1>8. CASE \/ \E e \in Events : HandleSource(e) \/ Reproject(e)
           \/ \E s \in Slots : RepairReported(s)
  <2>1. PICK e \in Events, event \in SourceEvent :
          (\E actual : Apply(e, event, actual)) /\ (srcFeed[e] # None \/ mapping[e] # None)
    <3>1. CASE \E e \in Events : HandleSource(e)
      BY <1>1, <3>1 DEF HandleSource
    <3>2. CASE \E e \in Events : Reproject(e)
      BY <1>1, <3>2 DEF Reproject, Remaining
    <3>3. CASE \E s \in Slots : RepairReported(s)
      BY <1>1, <3>3 DEF RepairReported, MappedTo
    <3> QED BY <1>8, <3>1, <3>2, <3>3
  <2>2. /\ op = None /\ Running /\ UNCHANGED <<src, srcNews>>
        /\ \A f \in Events : srcFeed'[f] \in {srcFeed[f], None}
    BY <1>1, <1>8 DEF HandleSource, Reproject, RepairReported, WritesFree, Running, sourceVars
  <2>3. /\ \A f \in Events : (mapping'[f] = None) <=> (mapping[f] = None)
        /\ op' # None => op'.event = e
    BY <2>1, <2>2, ApplyMaps DEF Ground
  <2> QED BY <1>1, <2>1, <2>2, <2>3
<1>9. CASE \/ \E e \in Events : SkipUnverifiable(e)
           \/ \E s \in Slots : SkipReported(s)
  BY <1>1, <1>9, SkipFacts DEF World
<1>10. CASE SourcesDone \/ DestinationDone \/ RemainingDone
  BY <1>1, <1>10, MoveFacts DEF World
<1>11. CASE Write
  BY <1>1, <1>11, WriteFacts, NoneAssumption
<1>12. CASE Record
  <2>1. /\ op # None /\ op' = None /\ UNCHANGED <<src, srcNews, srcFeed>>
        /\ \A f \in Events \ {op.event} : mapping'[f] = mapping[f]
    BY <1>12 DEF Record, sourceVars, Ground, Typed, TypeOK
  <2> QED BY <1>1, <2>1
<1>13. CASE Stops
  BY <1>1, <1>13, StopFacts DEF EndRun, World
<1>14. CASE AdvanceCursors
  <2>1. srcNews' \subseteq srcNews /\ UNCHANGED <<src, mapping>> /\ EndRun
    BY <1>14 DEF AdvanceCursors, NextCursors, Ground, Course, SinceIsNews
  <2> QED BY <1>1, <2>1 DEF EndRun
<1> HIDE DEF NeverSeen
<1> QED BY <1>2, <1>3, <1>4, <1>5, <1>6, <1>7, <1>8, <1>9, <1>10, <1>11, <1>12, <1>13, <1>14
       DEF Next, People, Step, Stops

LEMMA FeedFreshNext == Ground /\ Knowledge /\ [Next]_vars => FeedFresh'
<1> SUFFICES ASSUME Ground, Knowledge, [Next]_vars PROVE FeedFresh'
  OBVIOUS
<1> USE DEF FeedFresh
<1>1. /\ src \in [Events -> SourceEvent] /\ srcFeed \in [Events -> SourceEvent \cup {None}]
      /\ srcNews \subseteq Events /\ srcSince \subseteq Events
      /\ NeverSeen /\ FeedFresh
      /\ \A e \in Events : srcFeed[e] # None => Running
  BY DEF Ground, Typed, TypeOK, Knowledge, Course, GoneThrough, Running
<1>2. ASSUME UNCHANGED <<src, srcSince>>,
             \A e \in Events : srcFeed'[e] \in {srcFeed[e], None}
      PROVE  FeedFresh'
  BY <1>1, <1>2 DEF Fresh
<1>3. ASSUME \A e \in Events : srcFeed'[e] = None
      PROVE  FeedFresh'
  BY <1>3
<1>4. CASE UNCHANGED vars
  BY <1>2, <1>4 DEF vars, sourceVars, sinceVars, runVars
<1>5. ASSUME NEW e \in Events, EditSource(e) \/ CancelSource(e) \/ ForgetSource(e) \/ EndSource(e)
      PROVE  FeedFresh'
  <2>1. srcFeed' = srcFeed /\ (\A f \in Events \ {e} : src'[f] = src[f]) /\ srcSince \subseteq srcSince'
    BY <1>1, <1>5 DEF EditSource, CancelSource, ForgetSource, EndSource, SourceChanged, runVars, sinceVars
  <2>2. ASSUME srcFeed[e] # None
        PROVE  /\ e \in srcSince' \/ (src'[e].status = src[e].status /\ src'[e].rev = src[e].rev)
               /\ src[e].ended => src'[e].ended
    <3>1. CASE EditSource(e) \/ CancelSource(e)
      <4>1. e \in srcSince'
        BY <1>1, <2>2, <3>1 DEF EditSource, CancelSource, SourceChanged
      <4>2. src[e].ended => src'[e].ended
        BY <1>1, <3>1 DEF EditSource, CancelSource, SourceEvent
      <4> QED BY <4>1, <4>2
    <3>2. CASE ForgetSource(e)
      BY <1>1, <2>2, <3>2 DEF ForgetSource
    <3>3. CASE EndSource(e)
      <4>1. src' = [src EXCEPT ![e] = [src[e] EXCEPT !.ended = TRUE]]
        BY <3>3 DEF EndSource
      <4> QED BY <1>1, <4>1 DEF SourceEvent
    <3> QED BY <1>5, <3>1, <3>2, <3>3
  <2>3. ASSUME NEW f \in Events, srcFeed'[f] # None
        PROVE  Fresh(f, srcFeed[f])'
    <3>1. Fresh(f, srcFeed[f]) /\ srcFeed[f] # None /\ srcFeed'[f] = srcFeed[f]
      BY <1>1, <2>1, <2>3
    <3>2. CASE f = e
      BY <2>1, <2>2, <3>1, <3>2 DEF Fresh
    <3>3. CASE f # e
      BY <2>1, <3>1, <3>3 DEF Fresh
    <3> QED BY <3>2, <3>3
  <2> QED BY <2>3
<1>6. ASSUME NEW s \in Slots, EditProjection(s) \/ DeleteProjection(s) \/ StripProjection(s)
      PROVE  FeedFresh'
  BY <1>2, <1>6 DEF EditProjection, DeleteProjection, StripProjection, DestinationChanged,
                    sourceVars, runVars
<1>7. CASE Administrator
  BY <1>2, <1>7, AdministratorFacts DEF Ground, sourceVars, sinceVars, runVars
<1>8. ASSUME NEW full \in BOOLEAN, NEW rejected \in BOOLEAN, StartRun(full, rejected)
      PROVE  FeedFresh'
  <2>1. PICK read \in SUBSET (ListedSources \cup srcNews) :
          srcFeed' = [e \in Events |-> IF e \in read THEN src[e] ELSE None]
    BY <1>8 DEF StartRun
  <2>2. src' = src
    BY <1>8 DEF StartRun, sourceVars
  <2>3. \A e \in read : src[e].status \in {"confirmed", "cancelled"}
    BY <1>1, <2>1 DEF ListedSources, NeverSeen
  <2>4. \A e \in Events : srcFeed'[e] # None => e \in read /\ srcFeed'[e] = src[e]
    BY <2>1
  <2> QED BY <2>2, <2>3, <2>4 DEF Fresh
<1>9. ASSUME NEW rejected \in BOOLEAN, ListDestination(rejected)
      PROVE  FeedFresh'
  BY <1>2, <1>9 DEF ListDestination, sourceVars
<1>10. ASSUME NEW e \in Events, NEW event, NEW actual, Decides(e, event, actual)
       PROVE  FeedFresh'
  <2>1. UNCHANGED <<src, srcSince>> /\ \A f \in Events : srcFeed'[f] \in {srcFeed[f], None}
    BY <1>10 DEF Decides
  <2> QED BY <1>2, <2>1
<1>11. CASE \/ \E e \in Events : SkipUnverifiable(e)
            \/ \E s \in Slots : SkipReported(s)
  BY <1>2, <1>11, SkipFacts DEF World
<1>12. CASE SourcesDone \/ DestinationDone \/ RemainingDone
  BY <1>2, <1>12, MoveFacts DEF World
<1>13. CASE Write
  BY <1>2, <1>13, WriteFacts
<1>14. CASE Record
  BY <1>2, <1>14 DEF Record, sourceVars, sinceVars
<1>15. CASE Stops \/ AdvanceCursors
  BY <1>3, <1>15, StopFacts DEF AdvanceCursors, EndRun
<1> HIDE DEF FeedFresh
<1> QED BY <1>4, <1>5, <1>6, <1>7, <1>8, <1>9, <1>10, <1>11, <1>12, <1>13, <1>14, <1>15, Steps

LEMMA SeenFreshNext == Ground /\ Knowledge /\ EditsStandOut /\ [Next]_vars => SeenFresh'
<1> SUFFICES ASSUME Ground, Knowledge, EditsStandOut, [Next]_vars PROVE SeenFresh'
  OBVIOUS
<1> USE DEF SeenFresh
<1>1. /\ dst \in [Slots -> DestinationEvent] /\ mapping \in [Events -> Mapping \cup {None}]
      /\ dstSeen \in [Slots -> DestinationEvent \cup {None}]
      /\ \A e \in Events : mapping[e] # None => mapping[e].slot \in Slots
      /\ SeenFresh
      /\ \A s \in Slots : dstSeen[s] # None => Running
  BY DEF Ground, Typed, TypeOK, Knowledge, Course, NothingRead, Running, Mapping
<1>2. ASSUME UNCHANGED <<dst, dstSince, dstSeen>>, handled \subseteq handled',
             \A e \in Events \ handled' : mapping'[e] = mapping[e]
      PROVE  SeenFresh'
  BY <1>1, <1>2 DEF ChangedIn, AsRecorded, Owned
<1>3. ASSUME \A s \in Slots : dstSeen'[s] = None, UNCHANGED mapping
      PROVE  SeenFresh'
  BY <1>1, <1>3
<1>4. CASE UNCHANGED vars
  BY <1>2, <1>4 DEF vars, destinationVars, sinceVars, storeVars, runVars
<1>5. ASSUME NEW e \in Events, EditSource(e) \/ CancelSource(e) \/ ForgetSource(e) \/ EndSource(e)
      PROVE  SeenFresh'
  BY <1>2, <1>5 DEF EditSource, CancelSource, ForgetSource, EndSource, SourceChanged, runVars,
                    sinceVars, destinationVars, storeVars
<1>6. ASSUME NEW s \in Slots, EditProjection(s) \/ DeleteProjection(s) \/ StripProjection(s)
      PROVE  SeenFresh'
  <2>1. /\ UNCHANGED <<mapping, dstSeen, handled>>
        /\ \A t \in Slots \ {s} : dst'[t] = dst[t]
        /\ dstSince' = IF Running THEN dstSince \cup {s} ELSE dstSince
        /\ \A e \in Events : mapping[e] # None /\ mapping[e].slot = s => ~AsRecorded(e)'
    BY <1>6, PersonFacts
  <2>2. ASSUME NEW e \in Events, mapping[e] # None, e \notin handled, dstSeen[mapping[e].slot] # None
        PROVE  dstSeen[mapping[e].slot] = dst'[mapping[e].slot] \/ ChangedIn(e, dstSince)'
    <3>1. CASE mapping[e].slot = s
      BY <1>1, <2>1, <2>2, <3>1 DEF ChangedIn
    <3>2. CASE mapping[e].slot # s
      <4>1. dst'[mapping[e].slot] = dst[mapping[e].slot] /\ dstSince \subseteq dstSince'
        BY <1>1, <2>1, <2>2, <3>2
      <4> QED BY <1>1, <2>1, <2>2, <4>1 DEF ChangedIn, AsRecorded, Owned
    <3> QED BY <3>1, <3>2
  <2> QED BY <2>1, <2>2
<1>7. CASE Administrator
  BY <1>2, <1>7, AdministratorFacts DEF Ground, destinationVars, sinceVars, storeVars, runVars
<1>8. ASSUME NEW full \in BOOLEAN, NEW rejected \in BOOLEAN, StartRun(full, rejected)
      PROVE  SeenFresh'
  BY <1>2, <1>8 DEF StartRun, destinationVars, storeVars
<1>9. ASSUME NEW rejected \in BOOLEAN, ListDestination(rejected)
      PROVE  SeenFresh'
  <2>1. PICK read \in SUBSET (dstNews \cup ListedProjections) :
          dstSeen' = [s \in Slots |-> IF s \in read THEN dst[s] ELSE None]
    BY <1>9 DEF ListDestination
  <2>2. dst' = dst /\ mapping' = mapping
    BY <1>9 DEF ListDestination, destinationVars, storeVars
  <2> QED BY <1>1, <2>1, <2>2
<1>10. ASSUME NEW e \in Events, NEW event, NEW actual, Decides(e, event, actual)
       PROVE  SeenFresh'
  <2>1. UNCHANGED <<dst, dstSince, dstSeen>>
    BY <1>10 DEF Decides
  <2>2. handled' = handled \cup {e} /\ \A f \in Events \ {e} : mapping'[f] = mapping[f]
    BY <1>10, DecisionLeaves
  <2> QED BY <1>2, <2>1, <2>2
<1>11. CASE \/ \E e \in Events : SkipUnverifiable(e)
            \/ \E s \in Slots : SkipReported(s)
  BY <1>2, <1>11, SkipFacts DEF World
<1>12. CASE SourcesDone \/ DestinationDone \/ RemainingDone
  BY <1>2, <1>12, MoveFacts DEF World
<1>13. CASE Write
  <2>1. /\ UNCHANGED <<mapping, dstSeen, handled>> /\ op.event \in handled
        /\ \A t \in Slots \ {op'.slot} : dst'[t] = dst[t]
        /\ dstSince \subseteq dstSince'
        /\ \A e \in Events \ {op.event} : mapping[e] # None => mapping[e].slot # op'.slot
    BY <1>13, WriteFacts, NoneAssumption DEF Ground, Course, HandledOnce
  <2>2. \A e \in Events \ {op.event} : mapping[e] # None => dst'[mapping[e].slot] = dst[mapping[e].slot]
    BY <1>1, <2>1
  <2> QED BY <1>1, <2>1, <2>2 DEF ChangedIn, AsRecorded, Owned
<1>14. CASE Record
  <2>1. /\ op # None /\ op.event \in handled /\ UNCHANGED <<dst, dstSince, dstSeen, handled>>
        /\ \A e \in Events \ {op.event} : mapping'[e] = mapping[e]
    BY <1>1, <1>14 DEF Record, destinationVars, sinceVars, Ground, Course, HandledOnce
  <2> QED BY <1>2, <2>1
<1>15. CASE Stops \/ AdvanceCursors
  BY <1>3, <1>15, StopFacts DEF AdvanceCursors, EndRun, World
<1> HIDE DEF SeenFresh
<1> QED BY <1>4, <1>5, <1>6, <1>7, <1>8, <1>9, <1>10, <1>11, <1>12, <1>13, <1>14, <1>15, Steps

LEMMA NewsReadNext == Ground /\ Knowledge /\ [Next]_vars => NewsRead'
<1> SUFFICES ASSUME Ground, Knowledge, [Next]_vars PROVE NewsRead'
  OBVIOUS
<1> USE DEF NewsRead, Running
<1>1. NewsRead /\ srcNews \subseteq Events /\ srcFeed \in [Events -> SourceEvent \cup {None}]
  BY DEF Ground, Typed, TypeOK, Knowledge
<1>2. ASSUME UNCHANGED <<synced, run, srcNews, srcSince, srcFeed>>, phase # "idle",
             handled \subseteq handled'
      PROVE  NewsRead'
  BY <1>1, <1>2
<1>3. CASE UNCHANGED vars
  BY <1>1, <1>3 DEF vars, sourceVars, sinceVars, storeVars, runVars
<1>4. ASSUME NEW e \in Events, EditSource(e) \/ CancelSource(e) \/ ForgetSource(e) \/ EndSource(e)
      PROVE  NewsRead'
  BY <1>1, <1>4 DEF EditSource, CancelSource, ForgetSource, EndSource, SourceChanged, runVars,
                    sinceVars, storeVars
<1>5. ASSUME NEW s \in Slots, EditProjection(s) \/ DeleteProjection(s) \/ StripProjection(s)
      PROVE  NewsRead'
  BY <1>1, <1>5 DEF EditProjection, DeleteProjection, StripProjection, DestinationChanged,
                    sourceVars, storeVars, runVars
<1>6. CASE Administrator
  BY <1>1, <1>6, AdministratorFacts DEF Ground, sourceVars, sinceVars, storeVars, runVars
<1>7. ASSUME NEW full \in BOOLEAN, NEW rejected \in BOOLEAN, StartRun(full, rejected)
      PROVE  NewsRead'
  <2>1. ASSUME ~run'.srcListed
        PROVE  /\ synced /\ ~rule.reproject /\ ~run'.reproject
               /\ srcFeed' = [e \in Events |-> IF e \in srcNews THEN src[e] ELSE None]
    BY <1>7, <2>1 DEF StartRun
  <2>2. \A e \in Events : src[e] # None
    BY NoneAssumption DEF Ground, Typed, TypeOK
  <2> QED BY <1>1, <1>7, <2>1, <2>2 DEF StartRun, sourceVars, storeVars
<1>8. ASSUME NEW rejected \in BOOLEAN, ListDestination(rejected)
      PROVE  NewsRead'
  <2>1. /\ phase # "idle" /\ UNCHANGED <<synced, srcNews, srcSince, srcFeed, handled>>
        /\ run' = [run EXCEPT !.dstListed = run.dstListed \/ rejected]
    BY <1>8 DEF ListDestination, sourceVars, storeVars
  <2>2. run'.srcListed = run.srcListed /\ run'.reproject = run.reproject
    BY <2>1 DEF Ground, Typed, TypeOK
  <2> QED BY <1>1, <2>1, <2>2
<1>9. ASSUME NEW e \in Events, NEW event, NEW actual, Decides(e, event, actual)
      PROVE  NewsRead'
  <2>1. handled' = handled \cup {e}
    BY <1>9, DecisionLeaves
  <2>2. /\ UNCHANGED <<synced, run, srcNews, srcSince, phase>>
        /\ \A f \in Events \ {e} : srcFeed'[f] = srcFeed[f]
    BY <1>9 DEF Decides
  <2> QED BY <1>1, <2>1, <2>2
<1>10. CASE \/ \E e \in Events : SkipUnverifiable(e)
            \/ \E s \in Slots : SkipReported(s)
  BY <1>2, <1>10, SkipFacts DEF World
<1>11. CASE SourcesDone \/ DestinationDone \/ RemainingDone
  BY <1>2, <1>11, MoveFacts DEF World
<1>12. CASE Write
  BY <1>2, <1>12, WriteFacts
<1>13. CASE Record
  BY <1>1, <1>13 DEF Record, sourceVars, sinceVars
<1>14. CASE Stops \/ AdvanceCursors
  BY <1>14, StopFacts DEF AdvanceCursors, EndRun
<1> HIDE DEF NewsRead, Running
<1> QED BY <1>3, <1>4, <1>5, <1>6, <1>7, <1>8, <1>9, <1>10, <1>11, <1>12, <1>13, <1>14, Steps

\* What a mapping records is what a policy shows.
PoliciesShowNoEdit == \A p \in Policies, r \in Revs : Project[p][r] # Edited

LEMMA EditsStandOutNext ==
  ASSUME PoliciesShowNoEdit
  PROVE  Ground /\ Knowledge /\ EditsStandOut /\ [Next]_vars => EditsStandOut'
<1> SUFFICES ASSUME Ground, Knowledge, EditsStandOut, [Next]_vars PROVE EditsStandOut'
  OBVIOUS
<1> USE DEF EditsStandOut
<1>1. CASE mapping' = mapping
  BY <1>1
<1>2. ASSUME NEW e \in Events, NEW event, NEW actual, Decides(e, event, actual)
      PROVE  EditsStandOut'
  <2>1. event.rev \in Revs /\ run.policy \in Policies
    BY <1>2 DEF Decides, Ground, Typed, RunTyped, SourceEvent
  <2>2. Project[run.policy][event.rev] # Edited
    BY <2>1 DEF PoliciesShowNoEdit
  <2> QED BY <1>2, <2>2, DecisionLeaves
<1>3. CASE Record
  <2>1. /\ op \in Operation /\ Running
        /\ op.kind # "delete" => op.shown = Project[run.policy][op.rev]
        /\ op.rev \in Revs /\ run.policy \in Policies
    BY <1>3 DEF Record, Ground, Typed, TypeOK, RunTyped, OperationTyped, MayWrite, Operation
  <2>2. op.kind # "delete" => op.shown # Edited
    BY <2>1 DEF PoliciesShowNoEdit
  <2> QED BY <1>3, <2>2 DEF Record, Ground, Typed, TypeOK
<1>4. CASE UNCHANGED vars
  BY <1>1, <1>4 DEF vars, storeVars
<1>5. ASSUME NEW e \in Events, EditSource(e) \/ CancelSource(e) \/ ForgetSource(e) \/ EndSource(e)
      PROVE  mapping' = mapping
  BY <1>5 DEF EditSource, CancelSource, ForgetSource, EndSource, storeVars
<1>6. ASSUME NEW s \in Slots, EditProjection(s) \/ DeleteProjection(s) \/ StripProjection(s)
      PROVE  mapping' = mapping
  BY <1>6 DEF EditProjection, DeleteProjection, StripProjection, storeVars
<1>7. ASSUME \/ \E full, rejected \in BOOLEAN : StartRun(full, rejected)
             \/ \E rejected \in BOOLEAN : ListDestination(rejected)
             \/ AdvanceCursors
      PROVE  mapping' = mapping
  BY <1>7 DEF StartRun, ListDestination, AdvanceCursors, storeVars
<1>8. ASSUME \/ Administrator \/ Write \/ Stops
             \/ SourcesDone \/ DestinationDone \/ RemainingDone
             \/ \E e \in Events : SkipUnverifiable(e)
             \/ \E s \in Slots : SkipReported(s)
      PROVE  mapping' = mapping
  BY <1>8, AdministratorFacts, WriteFacts, StopFacts, MoveFacts, SkipFacts DEF World, storeVars, Ground
<1> HIDE DEF EditsStandOut
<1> QED BY <1>1, <1>2, <1>3, <1>4, <1>5, <1>6, <1>7, <1>8, Steps

LEMMA KnowledgeNext == Ground /\ Knowledge /\ EditsStandOut /\ [Next]_vars => Knowledge'
  BY NeverSeenNext, FeedFreshNext, SeenFreshNext, NewsReadNext DEF Knowledge

LEMMA GroundNext == Ground /\ [Next]_vars => Ground'
  BY TypedNext, MayWriteNext, ApartNext, SeenSoundNext, CourseNext DEF Ground, Gated

LEMMA GroundInit == Init => Ground
<1> SUFFICES ASSUME Init PROVE Ground
  OBVIOUS
<1>1. Typed
  BY TypedInit
<1>2. MayWrite /\ Apart
  BY DEF Init, MayWrite, Apart, MappedSlots, NoSharedSlot, OperationSlot
<1>3. SeenSound
  BY DEF Init, SeenSound, Unused
<1>4. Course
  BY DEF Init, Course, NothingRead, GoneThrough, HandledOnce, SinceIsNews, PolicyIsDue, Running
<1> QED BY <1>1, <1>2, <1>3, <1>4 DEF Ground

-----------------------------------------------------------------------------
(***************************************************************************)
(* Nothing is projected twice.  A create for a mapped event replaces a     *)
(* projection that is gone; without lost answers, every live projection is *)
(* then its event's mapped one, or the one the write in flight just made.  *)
(***************************************************************************)
Replaced ==
  op # None =>
    /\ op.kind = "create" /\ mapping[op.event] # None =>
         dst[mapping[op.event].slot].status = "cancelled"
    /\ op.kind = "delete" /\ op.sent => dst[op.slot].status = "cancelled"

\* A live projection that neither a mapping nor the write in flight accounts for.
Orphan(s, e) ==
  /\ Owned(s, e)
  /\ mapping[e] # None => mapping[e].slot # s
  /\ op # None => ~(op.sent /\ op.event = e /\ op.slot = s)

NoOrphans == \A e \in Events, s \in Slots : ~Orphan(s, e)

LEMMA SpendFacts ==
  ASSUME Typed, NEW what \in {"edits", "policies", "faults", "ends"}, Spend(what)
  PROVE  /\ budget[what] # 0
         /\ budget.edits = 0 => budget'.edits = 0
         /\ budget.policies = 0 => budget'.policies = 0
         /\ budget.faults = 0 => budget'.faults = 0
  BY DEF Typed, TypeOK, Spend

\* The bounds are only ever used up.
LEMMA BudgetSteps ==
  ASSUME Typed, [Next]_vars
  PROVE  /\ budget.edits = 0 =>
              /\ budget'.edits = 0
              /\ \A s \in Slots : ~(EditProjection(s) \/ DeleteProjection(s) \/ StripProjection(s))
         /\ budget.policies = 0 => budget'.policies = 0 /\ \A p \in Policies : ~ChangePolicy(p)
         /\ budget.faults = 0 => budget'.faults = 0 /\ ~FailRun
<1> USE DEF ruleVars, sourceVars, destinationVars, sinceVars, storeVars, runVars
<1>1. ASSUME NEW s \in Slots, EditProjection(s) \/ DeleteProjection(s) \/ StripProjection(s)
      PROVE  Spend("edits")
  BY <1>1 DEF EditProjection, DeleteProjection, StripProjection
<1>2. ASSUME NEW e \in Events, EndSource(e)
      PROVE  Spend("ends")
  BY <1>2 DEF EndSource
<1>3. ASSUME NEW p \in Policies, ChangePolicy(p)
      PROVE  Spend("policies")
  BY <1>3 DEF ChangePolicy
<1>4. ASSUME FailRun
      PROVE  Spend("faults")
  BY <1>4 DEF FailRun
<1>5. ASSUME Write
      PROVE  budget' = budget
  BY <1>5 DEF Write, AdoptProjection, CreateProjection, UpdateProjection, RemoveProjection,
              AlreadyRemoved, Sent
<1>6. \/ budget' = budget
      \/ \E what \in {"edits", "policies", "faults", "ends"} : Spend(what)
  <2>1. CASE People
    BY <1>1, <1>2, <2>1 DEF People, EditSource, CancelSource, ForgetSource
  <2>2. CASE Administrator
    BY <1>3, <2>2 DEF Administrator, StartPreview, FinishPreview, Enable, Pause, Degrade
  <2>3. CASE Step
    BY <1>5, <2>3 DEF Step, ListDestination, HandleSource, SkipUnverifiable, Reproject, SkipReported,
       RepairReported, SourcesDone, DestinationDone, RemainingDone, WriteRefused, Record, StopRun,
       AdvanceCursors
  <2>4. CASE FailRun \/ (\E full, rejected \in BOOLEAN : StartRun(full, rejected)) \/ UNCHANGED vars
    BY <1>4, <2>4 DEF StartRun, vars
  <2> QED BY <2>1, <2>2, <2>3, <2>4 DEF Next
<1> QED BY <1>1, <1>3, <1>4, <1>6, SpendFacts

LEMMA ReplacedApply ==
  ASSUME Ground, op = None, Running, NEW e \in Events, NEW event \in SourceEvent, NEW actual,
         Apply(e, event, actual), dst' = dst,
         mapping[e] # None /\ actual = None => dst[mapping[e].slot].status = "cancelled"
  PROVE  Replaced'
<1>1. op' # None =>
        /\ mapping' = mapping /\ op'.event = e /\ ~op'.sent
        /\ op'.kind = Decision(e, event, actual)
  BY ApplyMaps DEF Ground
<1>2. Decision(e, event, actual) = "create" => mapping[e] = None \/ actual = None
  <2>1. CASE IdentityConflict(e, actual)
    BY <2>1 DEF Decision
  <2>2. CASE ~IdentityConflict(e, actual) /\ Removed(event)
    BY <2>2 DEF Decision
  <2>3. CASE ~IdentityConflict(e, actual) /\ ~Removed(event)
    BY <2>3 DEF Decision
  <2> QED BY <2>1, <2>2, <2>3
<1> QED BY <1>1, <1>2 DEF Replaced

\* The projection a decision finds missing was deleted, and stays so.
LEMMA MissingIsCancelled ==
  ASSUME Ground, NEW e \in Events, mapping[e] # None, NEW seen \in DestinationEvent,
         Live(seen) = None, seen.status # "unused",
         seen.status = "cancelled" => dst[mapping[e].slot].status = "cancelled"
  PROVE  dst[mapping[e].slot].status = "cancelled"
<1>1. seen # None
  BY NoneAssumption
<1>2. seen.status = "cancelled"
  BY <1>1 DEF Live, DestinationEvent
<1> QED BY <1>2

LEMMA ReplacedNext == Ground /\ Replaced /\ [Next]_vars => Replaced'
<1> SUFFICES ASSUME Ground, Replaced, [Next]_vars PROVE Replaced'
  OBVIOUS
<1> USE DEF ruleVars, sourceVars, destinationVars, sinceVars, storeVars, runVars
<1>1. /\ dst \in [Slots -> DestinationEvent] /\ src \in [Events -> SourceEvent]
      /\ srcFeed \in [Events -> SourceEvent \cup {None}]
      /\ dstSeen \in [Slots -> DestinationEvent \cup {None}]
      /\ unread \subseteq Slots /\ dstFeed \subseteq Slots
      /\ \A e \in Events : mapping[e] # None =>
           mapping[e].slot \in Slots /\ dst[mapping[e].slot].status # "unused"
      /\ op # None => op.event \in Events /\ (op.kind # "create" \/ op.sent => op.slot \in Slots)
      /\ \A s \in unread \cup dstFeed : dstSeen[s] # None
      /\ \A s \in Slots : dstSeen[s] # None =>
           /\ dstSeen[s].status # "unused"
           /\ dstSeen[s].status = "cancelled" => dst[s].status = "cancelled"
  BY DEF Ground, Typed, TypeOK, Mapping, OperationTyped, Operation, Apart, MappedSlots, SeenSound
<1>2. \A s \in Slots : dst[s].status = "cancelled" => dst'[s].status = "cancelled"
  BY SlotsAreUsedOnce DEF Ground
<1>3. CASE UNCHANGED <<mapping, op>>
  BY <1>1, <1>2, <1>3 DEF Replaced
<1>4. CASE op' = None
  BY <1>4 DEF Replaced
<1>5. ASSUME NEW e \in Events, mapping[e] # None
      PROVE  Actual(e) = None => dst[mapping[e].slot].status = "cancelled"
  <2>1. CASE mapping[e].slot \in unread
    BY <1>1, <1>5, <2>1, MissingIsCancelled DEF Actual
  <2>2. CASE mapping[e].slot \notin unread
    BY <1>1, <1>5, <2>2, MissingIsCancelled DEF Actual
  <2> QED BY <2>1, <2>2
<1>6. ASSUME NEW e \in Events, HandleSource(e)
      PROVE  Replaced'
  <2>1. /\ Apply(e, srcFeed[e], Actual(e)) /\ srcFeed[e] \in SourceEvent /\ Running /\ op = None
        /\ dst' = dst
    BY <1>1, <1>6 DEF HandleSource, Running, WritesFree
  <2> QED BY <1>5, <2>1, ReplacedApply
<1>7. ASSUME NEW e \in Events, Reproject(e)
      PROVE  Replaced'
  <2>1. /\ Apply(e, src[e], Actual(e)) /\ src[e] \in SourceEvent /\ Running /\ op = None
        /\ dst' = dst
    BY <1>1, <1>7 DEF Reproject, Running, WritesFree
  <2> QED BY <1>5, <2>1, ReplacedApply
<1>8. ASSUME NEW s \in Slots, RepairReported(s)
      PROVE  Replaced'
  <2>1. PICK e \in MappedTo(s) : Apply(e, src[e], Live(dstSeen[s]))
    BY <1>8 DEF RepairReported
  <2>2. /\ e \in Events /\ mapping[e] # None /\ mapping[e].slot = s /\ src[e] \in SourceEvent
        /\ s \in dstFeed /\ op = None /\ Running /\ dst' = dst
    BY <1>1, <1>8, <2>1 DEF RepairReported, MappedTo, Running, WritesFree
  <2>3. Live(dstSeen[s]) = None => dst[s].status = "cancelled"
    BY <1>1, <2>2, MissingIsCancelled
  <2> QED BY <2>1, <2>2, <2>3, ReplacedApply
<1>9. CASE Write
  <2>1. /\ op \in Operation /\ op # None /\ op'.event = op.event /\ op'.kind = op.kind
        /\ UNCHANGED mapping
    BY <1>9, WriteFacts, NoneAssumption
  <2>2. ASSUME op.kind = "delete"
        PROVE  dst'[op'.slot].status = "cancelled"
    <3>1. /\ op.slot \in Slots /\ op.slot = op'.slot /\ dst[op.slot].status # "unused"
          /\ RemoveProjection \/ AlreadyRemoved
      <4>1. RemoveProjection \/ AlreadyRemoved
        BY <1>9, <2>2 DEF Write, AdoptProjection, CreateProjection, UpdateProjection, Pending
      <4>2. op' = [op EXCEPT !.slot = op.slot, !.sent = TRUE]
        BY <4>1 DEF RemoveProjection, AlreadyRemoved, Sent
      <4>3. mapping[op.event] # None /\ mapping[op.event].slot = op.slot
        BY <2>1, <2>2 DEF Ground, Apart, OperationSlot
      <4> QED BY <1>1, <2>1, <4>1, <4>2, <4>3 DEF Operation
    <3>2. CASE RemoveProjection
      BY <1>1, <3>1, <3>2 DEF RemoveProjection, Unused
    <3>3. CASE AlreadyRemoved
      <4>1. dst[op.slot].status = "cancelled"
        BY <1>1, <3>1, <3>3 DEF AlreadyRemoved, DestinationEvent
      <4> QED BY <1>2, <3>1, <4>1
    <3> QED BY <3>1, <3>2, <3>3
  <2> QED BY <1>1, <1>2, <2>1, <2>2 DEF Replaced
<1>10. CASE Record \/ WriteRefused \/ StopRun \/ FailRun \/ AdvanceCursors
  BY <1>4, <1>10 DEF Record, WriteRefused, StopRun, FailRun, AdvanceCursors, EndRun
<1>11. CASE People \/ UNCHANGED vars \/ \E full, rejected \in BOOLEAN : StartRun(full, rejected)
  BY <1>3, <1>11 DEF People, vars, EditSource, CancelSource, ForgetSource, EndSource, EditProjection,
                     DeleteProjection, StripProjection, StartRun
<1>12. CASE Administrator
  BY <1>3, <1>12, AdministratorFacts DEF Ground
<1>13. ASSUME \/ \E rejected \in BOOLEAN : ListDestination(rejected)
              \/ \E e \in Events : SkipUnverifiable(e)
              \/ \E s \in Slots : SkipReported(s)
              \/ SourcesDone \/ DestinationDone \/ RemainingDone
       PROVE  Replaced'
  BY <1>3, <1>13, SkipFacts, MoveFacts DEF World, ListDestination
<1> HIDE DEF ruleVars, sourceVars, destinationVars, sinceVars, storeVars, runVars
<1> QED BY <1>6, <1>7, <1>8, <1>9, <1>10, <1>11, <1>12, <1>13 DEF Next, Step

\* Nothing new is owned, and the mappings and the operation account for as much as before.
LEMMA NoOrphansApply ==
  ASSUME Ground, NoOrphans, op = None, Running, NEW e \in Events, NEW event \in SourceEvent, NEW actual,
         Apply(e, event, actual), dst' = dst
  PROVE  NoOrphans'
<1>1. /\ \A f \in Events : (mapping'[f] = None) <=> (mapping[f] = None)
      /\ \A f \in Events : mapping[f] # None => mapping'[f].slot = mapping[f].slot
      /\ op' # None => ~op'.sent
  BY ApplyMaps DEF Ground
<1> QED BY <1>1 DEF NoOrphans, Orphan, Owned

LEMMA NoOrphansNext ==
  Ground /\ Replaced /\ NoOrphans /\ [Next]_vars /\ ~FailRun => NoOrphans'
<1> SUFFICES ASSUME Ground, Replaced, NoOrphans, [Next]_vars, ~FailRun PROVE NoOrphans'
  OBVIOUS
<1> USE DEF ruleVars, sourceVars, destinationVars, sinceVars, storeVars, runVars
<1>1. /\ dst \in [Slots -> DestinationEvent] /\ src \in [Events -> SourceEvent]
      /\ srcFeed \in [Events -> SourceEvent \cup {None}]
      /\ mapping \in [Events -> Mapping \cup {None}]
      /\ \A e \in Events : mapping[e] # None => mapping[e].slot \in Slots
  BY DEF Ground, Typed, TypeOK, Mapping
<1>2. CASE UNCHANGED <<mapping, op>> /\ \A e \in Events, s \in Slots : Owned(s, e)' => Owned(s, e)
  BY <1>2 DEF NoOrphans, Orphan
<1>3. CASE UNCHANGED <<mapping, op, dst>>
  BY <1>3 DEF NoOrphans, Orphan, Owned
<1>4. ASSUME NEW s \in Slots, EditProjection(s) \/ DeleteProjection(s) \/ StripProjection(s)
      PROVE  NoOrphans'
  <2>1. CASE EditProjection(s)
    <3>1. \A t \in Slots : dst'[t].status = dst[t].status /\ dst'[t].owner = dst[t].owner
      BY <1>1, <2>1 DEF EditProjection, DestinationEvent
    <3> QED BY <1>2, <2>1, <3>1 DEF EditProjection, Owned
  <2>2. CASE DeleteProjection(s)
    <3>1. dst'[s].status = "cancelled" /\ \A t \in Slots \ {s} : dst'[t] = dst[t]
      BY <1>1, <2>2 DEF DeleteProjection, Unused
    <3> QED BY <1>2, <2>2, <3>1 DEF DeleteProjection, Owned
  <2>3. CASE StripProjection(s)
    <3>1. dst'[s].owner = None /\ \A t \in Slots \ {s} : dst'[t] = dst[t]
      BY <1>1, <2>3 DEF StripProjection, DestinationEvent
    <3> QED BY <1>2, <2>3, <3>1, NoneAssumption DEF StripProjection, Owned
  <2> QED BY <1>4, <2>1, <2>2, <2>3
<1>5. ASSUME NEW e \in Events, HandleSource(e) \/ Reproject(e)
      PROVE  NoOrphans'
  <2>1. CASE HandleSource(e)
    BY <1>1, <2>1, NoOrphansApply DEF HandleSource, Running, WritesFree
  <2>2. CASE Reproject(e)
    BY <1>1, <2>2, NoOrphansApply DEF Reproject, Running, WritesFree
  <2> QED BY <1>5, <2>1, <2>2
<1>6. ASSUME NEW s \in Slots, RepairReported(s)
      PROVE  NoOrphans'
  <2>1. PICK e \in MappedTo(s) : Apply(e, src[e], Live(dstSeen[s]))
    BY <1>6 DEF RepairReported
  <2>2. e \in Events /\ src[e] \in SourceEvent /\ op = None /\ Running /\ dst' = dst
    BY <1>1, <1>6, <2>1 DEF RepairReported, MappedTo, Running, WritesFree
  <2> QED BY <2>1, <2>2, NoOrphansApply
<1>7. CASE Write
  <2>1. /\ op \in Operation /\ op # None /\ ~op.sent /\ op.event \in Events
        /\ op' # None /\ op'.sent /\ op'.event = op.event /\ op'.slot \in Slots
        /\ UNCHANGED mapping
        /\ \A t \in Slots \ {op'.slot} : dst'[t] = dst[t]
    BY <1>7, WriteFacts, NoneAssumption
  <2>2. \A e \in Events : Owned(op.slot, e)' => e = op.event \/ Owned(op'.slot, e)
    <3>1. CASE UNCHANGED dst
      BY <3>1, <2>1 DEF Owned
    <3>2. ASSUME NEW s \in Slots, CreateProjection(s)
          PROVE  op'.slot = s /\ dst'[s].owner = op.event
      BY <1>1, <2>1, <3>2 DEF CreateProjection, Sent, Projection, Operation
    <3>3. ASSUME UpdateProjection
          PROVE  op'.slot = op.slot /\ dst'[op'.slot].owner = op.event
      BY <1>1, <2>1, <3>3 DEF UpdateProjection, Sent, Projection, Operation
    <3>4. ASSUME RemoveProjection
          PROVE  dst'[op'.slot].status = "cancelled"
      <4>1. op'.slot = op.slot
        BY <2>1, <3>4 DEF RemoveProjection, Sent, Operation
      <4> QED BY <1>1, <2>1, <3>4, <4>1 DEF RemoveProjection, Unused
    <3> QED BY <1>7, <2>1, <3>1, <3>2, <3>3, <3>4
            DEF Write, AdoptProjection, AlreadyRemoved, Owned
  <2> QED BY <2>1, <2>2 DEF NoOrphans, Orphan, Owned
<1>8. CASE WriteRefused
  <2>1. op # None /\ ~op.sent /\ op' = None /\ UNCHANGED <<dst, mapping>>
    BY <1>8 DEF WriteRefused, Pending, EndRun
  <2> QED BY <2>1 DEF NoOrphans, Orphan, Owned
<1>9. CASE StopRun \/ AdvanceCursors
  <2>1. op = None /\ op' = None /\ UNCHANGED <<dst, mapping>>
    BY <1>9 DEF StopRun, WritesFree, AdvanceCursors, EndRun, Ground, Course, GoneThrough
  <2> QED BY <1>3, <2>1
<1>10. CASE Record
  <2>1. /\ op \in Operation /\ op # None /\ op.sent /\ op.event \in Events /\ op' = None /\ dst' = dst
        /\ \A f \in Events \ {op.event} : mapping'[f] = mapping[f]
        /\ op.kind = "delete" => mapping'[op.event] = None
        /\ op.kind # "delete" =>
             /\ mapping'[op.event] = [slot |-> op.slot, rev |-> op.rev, shown |-> op.shown]
             /\ op.slot \in Slots /\ op.rev \in Revs /\ op.shown \in Shown
    BY <1>1, <1>10 DEF Record, Ground, Typed, TypeOK, Operation, OperationTyped
  <2>2. ASSUME NEW s \in Slots, Owned(s, op.event)
        PROVE  s = op.slot /\ op.kind # "delete"
    <3>1. (mapping[op.event] # None /\ mapping[op.event].slot = s) \/ op.slot = s
      BY <2>1, <2>2 DEF NoOrphans, Orphan
    <3>2. op.kind = "delete" => dst[op.slot].status = "cancelled"
      BY <2>1 DEF Replaced
    <3>3. op.kind = "create" /\ mapping[op.event] # None => dst[mapping[op.event].slot].status = "cancelled"
      BY <2>1 DEF Replaced
    <3>4. op.kind # "create" => mapping[op.event].slot = op.slot
      BY <2>1 DEF Ground, Apart, OperationSlot
    <3> QED BY <2>2, <3>1, <3>2, <3>3, <3>4 DEF Owned
  <2>3. ASSUME NEW e \in Events, NEW s \in Slots, e # op.event
        PROVE  ~Orphan(s, e)'
    BY <2>1, <2>3 DEF NoOrphans, Orphan, Owned
  <2>4. op.kind # "delete" => mapping'[op.event] # None /\ mapping'[op.event].slot = op.slot
    BY <2>1, NoneAssumption DEF Mapping
  <2>5. ASSUME NEW e \in Events, NEW s \in Slots, e = op.event
        PROVE  ~Orphan(s, e)'
    BY <2>1, <2>2, <2>4, <2>5 DEF Orphan, Owned
  <2> QED BY <2>3, <2>5 DEF NoOrphans
<1>11. CASE People \/ UNCHANGED vars \/ \E full, rejected \in BOOLEAN : StartRun(full, rejected)
  BY <1>3, <1>4, <1>11 DEF People, vars, EditSource, CancelSource, ForgetSource, EndSource, StartRun
<1>12. CASE Administrator
  BY <1>3, <1>12, AdministratorFacts DEF Ground
<1>13. ASSUME \/ \E rejected \in BOOLEAN : ListDestination(rejected)
              \/ \E e \in Events : SkipUnverifiable(e)
              \/ \E s \in Slots : SkipReported(s)
              \/ SourcesDone \/ DestinationDone \/ RemainingDone
       PROVE  NoOrphans'
  BY <1>3, <1>13, SkipFacts, MoveFacts DEF World, ListDestination
<1> HIDE DEF ruleVars, sourceVars, destinationVars, sinceVars, storeVars, runVars
<1> QED BY <1>5, <1>6, <1>7, <1>8, <1>9, <1>10, <1>11, <1>12, <1>13 DEF Next, Step

\* Every live projection is accounted for, so there is one for each event.
LEMMA NoOrphansMeansOne == Ground /\ Replaced /\ NoOrphans => OneProjection
<1> SUFFICES ASSUME Ground, Replaced, NoOrphans, NEW e \in Events, NEW s \in Slots, NEW t \in Slots,
                    Owned(s, e), Owned(t, e)
             PROVE  s = t
  BY DEF OneProjection
<1>1. /\ (mapping[e] # None /\ mapping[e].slot = s) \/ (op # None /\ op.sent /\ op.event = e /\ op.slot = s)
      /\ (mapping[e] # None /\ mapping[e].slot = t) \/ (op # None /\ op.sent /\ op.event = e /\ op.slot = t)
  BY DEF NoOrphans, Orphan
<1>2. ASSUME op # None, op.event = e, mapping[e] # None, Owned(mapping[e].slot, e)
      PROVE  op.slot = mapping[e].slot
  <2>1. op.kind # "create"
    BY <1>2 DEF Replaced, Owned
  <2> QED BY <1>2, <2>1 DEF Ground, Apart, OperationSlot
<1> QED BY <1>1, <1>2

\* No bound lets a provider call fail or the process stop.
NoFaults == \A b \in Bounds : b.faults = 0

Tidy == budget.faults = 0 /\ NoOrphans

LEMMA TidyNext == Ground /\ Replaced /\ Tidy /\ [Next]_vars => Tidy'
  BY NoOrphansNext, BudgetSteps DEF Tidy, Ground

(***************************************************************************)
(* While no provider answer is lost and the process does not stop, a       *)
(* source event has at most one live projection of the rule, whatever      *)
(* people and administrators do meanwhile: each decision either replaces a *)
(* projection that is gone or writes to the one its mapping names.         *)
(* (ExecuteSyncRule._synchronize_event and _write, synchronization.py.)    *)
(***************************************************************************)
THEOREM OneProjectionWithoutFaults ==
  ASSUME NoFaults
  PROVE  Spec => []OneProjection
<1>1. Init => Ground /\ Replaced /\ Tidy
  <2> SUFFICES ASSUME Init PROVE Ground /\ Replaced /\ Tidy
    OBVIOUS
  <2>1. Replaced /\ NoOrphans
    BY DEF Init, Replaced, NoOrphans, Orphan, Owned, Unused
  <2>2. budget.faults = 0
    BY DEF Init, NoFaults
  <2> QED BY <2>1, <2>2, GroundInit DEF Tidy
<1>2. Ground /\ Replaced /\ Tidy /\ [Next]_vars => (Ground /\ Replaced /\ Tidy)'
  BY GroundNext, ReplacedNext, TidyNext
<1>3. Ground /\ Replaced /\ Tidy => OneProjection
  BY NoOrphansMeansOne DEF Tidy
<1> QED BY <1>1, <1>2, <1>3, PTL DEF Spec

-----------------------------------------------------------------------------
(***************************************************************************)
(* What the write in flight leaves behind.  An adopted create may show     *)
(* anything, unless nobody edits the calendar or changes the policy, or    *)
(* no answer is ever lost and nothing is adopted at all.                   *)
(***************************************************************************)
\* Every create shows what the rule's policy makes of the revision in its Operation Key.
Faithful ==
  \A s \in Slots : dst[s].status = "confirmed" /\ dst[s].owner # None /\ dst[s].key # None =>
    dst[s].shown = Project[rule.policy][dst[s].key]

Calm == budget.edits = 0 /\ budget.policies = 0 /\ Faithful

Steady == Tidy \/ Calm

\* A write in flight brings its event what the policy wants, or the event changed since.
OpFresh ==
  \A e \in Events : op # None /\ op.event = e =>
    \/ e \in srcSince
    \/ WantedUnder(run.policy, e) = IF op.kind = "delete" THEN Withheld ELSE op.shown

\* What the provider acknowledged is there, or its slot changed since.
OpSent ==
  op # None /\ op.sent /\ op.kind # "delete" =>
    \/ Owned(op.slot, op.event) /\ dst[op.slot].shown = op.shown
    \/ op.slot \in dstSince

LEMMA CalmNext == Ground /\ Calm /\ [Next]_vars => Calm'
<1> SUFFICES ASSUME Ground, Calm, [Next]_vars PROVE Calm'
  OBVIOUS
<1>1. /\ budget'.edits = 0 /\ budget'.policies = 0
      /\ \A s \in Slots : ~(EditProjection(s) \/ DeleteProjection(s) \/ StripProjection(s))
      /\ \A p \in Policies : ~ChangePolicy(p)
  BY BudgetSteps DEF Calm, Ground
<1>2. rule'.policy = rule.policy
  <2>1. rule \in [state : RuleStates, policy : Policies, reproject : BOOLEAN]
    BY DEF Ground, Typed, TypeOK
  <2>2. CASE Administrator
    BY <1>1, <2>1, <2>2 DEF Administrator, StartPreview, FinishPreview, Enable, Pause, Degrade, ChangeRule
  <2>3. CASE Step
    BY <2>1, <2>3 DEF Step, ListDestination, HandleSource, SkipUnverifiable, Reproject, SkipReported,
       RepairReported, SourcesDone, DestinationDone, RemainingDone, Write, AdoptProjection, Sent,
       CreateProjection, UpdateProjection, RemoveProjection, AlreadyRemoved, WriteRefused, Record,
       StopRun, AdvanceCursors, ruleVars
  <2>4. CASE People \/ FailRun \/ (\E full, rejected \in BOOLEAN : StartRun(full, rejected)) \/ UNCHANGED vars
    BY <2>4 DEF People, EditSource, CancelSource, ForgetSource, EndSource, EditProjection,
       DeleteProjection, StripProjection, FailRun, StartRun, vars, ruleVars
  <2> QED BY <2>2, <2>3, <2>4 DEF Next
<1>3. Faithful'
  <2>1. dst \in [Slots -> DestinationEvent] /\ Faithful
    BY DEF Ground, Typed, TypeOK, Calm
  <2>2. CASE dst' = dst
    BY <1>2, <2>1, <2>2 DEF Faithful
  <2>3. ASSUME NEW s \in Slots, CreateProjection(s)
        PROVE  Faithful'
    <3>1. /\ dst' = [dst EXCEPT ![s] = Projection(op.rev)]
          /\ op.shown = Project[rule.policy][op.rev]
      BY <2>3 DEF CreateProjection, Pending, Ground, MayWrite, Unchanged
    <3> QED BY <1>2, <2>1, <3>1 DEF Faithful, Projection
  <2>4. CASE UpdateProjection
    <3>1. dst' = [dst EXCEPT ![op.slot] = Projection(None)]
      BY <2>4 DEF UpdateProjection
    <3> QED BY <1>2, <2>1, <3>1 DEF Faithful, Projection
  <2>5. CASE RemoveProjection
    <3>1. dst' = [dst EXCEPT ![op.slot] = [Unused EXCEPT !.status = "cancelled"]]
      BY <2>5 DEF RemoveProjection
    <3> QED BY <1>2, <2>1, <3>1 DEF Faithful, Unused
  <2> QED BY <1>1, <2>2, <2>3, <2>4, <2>5, DestinationSteps
<1> QED BY <1>1, <1>3 DEF Calm

LEMMA SteadyNext == Ground /\ Replaced /\ Steady /\ [Next]_vars => Steady'
  BY TidyNext, CalmNext DEF Steady

LEMMA OpSentNext == Ground /\ Knowledge /\ EditsStandOut /\ Replaced /\ Steady /\ OpSent /\ [Next]_vars => OpSent'
<1> SUFFICES ASSUME Ground, Knowledge, EditsStandOut, Replaced, Steady, OpSent, [Next]_vars
             PROVE  OpSent'
  OBVIOUS
<1>1. /\ dst \in [Slots -> DestinationEvent]
      /\ op # None => op \in Operation /\ Running /\ phase # "listing"
      /\ op # None /\ op.sent => op.slot \in Slots
  BY DEF Ground, Typed, TypeOK, OperationTyped, Course, NothingRead
<1>2. CASE op' = None
  BY <1>2 DEF OpSent
<1>3. CASE UNCHANGED <<op, dst, dstSince>>
  BY <1>3 DEF OpSent, Owned
<1>4. ASSUME NEW s \in Slots, EditProjection(s) \/ DeleteProjection(s) \/ StripProjection(s)
      PROVE  OpSent'
  <2>1. /\ op' = op /\ \A t \in Slots \ {s} : dst'[t] = dst[t]
        /\ dstSince' = IF Running THEN dstSince \cup {s} ELSE dstSince
    BY <1>4, PersonFacts
  <2> QED BY <1>1, <2>1 DEF OpSent, Owned
<1>5. ASSUME NEW e \in Events, NEW event, NEW actual, Decides(e, event, actual)
      PROVE  OpSent'
  BY <1>5, DecisionLeaves DEF OpSent
<1>6. CASE Write
  <2>1. ASSUME NEW s \in Slots, AdoptProjection(s)
        PROVE  OpSent'
    <3>1. /\ op \in Operation /\ op.event \in Events /\ op # None /\ ~op.sent /\ op.kind = "create"
          /\ dst' = dst /\ op'.slot = s /\ op'.event = op.event /\ op'.shown = op.shown
      BY <1>1, <1>6, <2>1, WriteFacts DEF AdoptProjection, Pending, Sent, destinationVars, Operation
    <3>2. Owned(s, op.event) /\ dst[s].key = op.rev /\ op.rev \in Revs
      BY <2>1, <3>1 DEF AdoptProjection, Acknowledged, Owned, Operation
    <3>3. CASE Tidy
      <4>1. mapping[op.event] # None /\ mapping[op.event].slot = s
        BY <3>1, <3>2, <3>3 DEF Tidy, NoOrphans, Orphan
      <4>2. dst[s].status = "cancelled"
        BY <3>1, <4>1 DEF Replaced
      <4> QED BY <3>2, <4>2 DEF Owned
    <3>4. CASE Calm
      <4>1. dst[s].shown = Project[rule.policy][op.rev]
        BY <3>1, <3>2, <3>4, NoneAssumption DEF Calm, Faithful, Owned
      <4>2. op.shown = Project[rule.policy][op.rev]
        BY <3>1 DEF Ground, MayWrite, Unchanged
      <4> QED BY <3>1, <3>2, <4>1, <4>2 DEF OpSent, Owned
    <3> QED BY <3>3, <3>4 DEF Steady
  <2>2. CASE AlreadyRemoved
    <3>1. op.kind = "delete" /\ op'.kind = op.kind
      BY <1>6, <2>2, WriteFacts DEF AlreadyRemoved, Pending
    <3> QED BY <3>1 DEF OpSent
  <2>3. ASSUME NEW s \in Slots, CreateProjection(s) \/ (s = op.slot /\ (UpdateProjection \/ RemoveProjection))
        PROVE  OpSent'
    <3>1. DestinationChanged(s) /\ Sent(s) /\ op # None
      BY <2>3 DEF CreateProjection, UpdateProjection, RemoveProjection, Pending
    <3>2. op'.slot \in dstSince'
      BY <1>1, <3>1 DEF DestinationChanged, Sent, Operation
    <3> QED BY <3>2 DEF OpSent
  <2>4. ASSUME UpdateProjection \/ RemoveProjection
        PROVE  op.slot \in Slots
    BY <1>1, <2>4 DEF UpdateProjection, RemoveProjection, Pending, Ground, Typed, OperationTyped
  <2>5. ASSUME UpdateProjection \/ RemoveProjection
        PROVE  OpSent'
    BY <2>3, <2>4, <2>5
  <2>6. ASSUME NEW s \in Slots, CreateProjection(s)
        PROVE  OpSent'
    BY <2>3, <2>6
  <2> QED BY <1>6, <2>1, <2>2, <2>5, <2>6 DEF Write
<1>7. CASE Record \/ Stops \/ AdvanceCursors
  BY <1>2, <1>7, StopFacts DEF Record, AdvanceCursors, EndRun
<1>8. ASSUME NEW e \in Events, EditSource(e) \/ CancelSource(e) \/ ForgetSource(e) \/ EndSource(e)
      PROVE  OpSent'
  BY <1>3, <1>8 DEF EditSource, CancelSource, ForgetSource, EndSource, SourceChanged, runVars,
                    sinceVars, destinationVars
<1>9. ASSUME \/ \E full, rejected \in BOOLEAN : StartRun(full, rejected)
             \/ \E rejected \in BOOLEAN : ListDestination(rejected)
      PROVE  OpSent'
  <2>1. op = None /\ op' = op
    BY <1>9 DEF StartRun, ListDestination, Ground, Course, NothingRead
  <2> QED BY <1>2, <2>1
<1>10. CASE Administrator \/ UNCHANGED vars
  BY <1>3, <1>10, AdministratorFacts DEF Ground, vars, runVars, destinationVars, sinceVars
<1>11. ASSUME \/ \E e \in Events : SkipUnverifiable(e)
              \/ \E s \in Slots : SkipReported(s)
              \/ SourcesDone \/ DestinationDone \/ RemainingDone
       PROVE  OpSent'
  BY <1>3, <1>11, SkipFacts, MoveFacts DEF World
<1> QED BY <1>4, <1>5, <1>6, <1>7, <1>8, <1>9, <1>10, <1>11, Steps

\* What a decision made of the event as it is, unless it changed since.
LEMMA DecisionWanted ==
  ASSUME Ground, Knowledge, NEW e \in Events, NEW event, NEW actual, Decides(e, event, actual),
         e \notin srcSince
  PROVE  LET decision == Decision(e, event, actual)
             expected == Project[run.policy][event.rev]
             wanted   == WantedUnder(run.policy, e)
         IN /\ decision \in {"create", "current", "update"} => wanted = expected /\ expected # Withheld
            /\ decision = "delete" => wanted = Withheld
            /\ decision = "ignore" => wanted = Withheld \/ src[e].ended
<1>1. /\ event.status = src[e].status /\ event.rev = src[e].rev
      /\ event.status \in {"confirmed", "cancelled"}
      /\ event.ended => src[e].ended
  BY DEF Decides, Fresh
<1> QED BY <1>1, DecisionMeans DEF WantedUnder

LEMMA OpFreshNext == Ground /\ Knowledge /\ EditsStandOut /\ OpFresh /\ [Next]_vars => OpFresh'
<1> SUFFICES ASSUME Ground, Knowledge, EditsStandOut, OpFresh, [Next]_vars PROVE OpFresh'
  OBVIOUS
<1>1. /\ src \in [Events -> SourceEvent]
      /\ op # None => op \in Operation /\ op.event \in Events /\ Running /\ phase # "listing"
  BY DEF Ground, Typed, TypeOK, OperationTyped, Operation, Course, NothingRead
<1>2. CASE op' = None
  BY <1>2 DEF OpFresh
<1>3. CASE UNCHANGED <<op, src, srcSince, run>>
  BY <1>3 DEF OpFresh, WantedUnder
<1>4. ASSUME NEW s \in Slots, EditProjection(s) \/ DeleteProjection(s) \/ StripProjection(s)
      PROVE  OpFresh'
  BY <1>3, <1>4, PersonFacts
<1>5. ASSUME NEW e \in Events, NEW event, NEW actual, Decides(e, event, actual)
      PROVE  OpFresh'
  <2>1. UNCHANGED <<src, srcSince, run>>
    BY <1>5 DEF Decides
  <2>2. op' # None =>
          /\ op'.event = e /\ op'.kind = Decision(e, event, actual)
          /\ op'.shown = Project[run.policy][event.rev]
          /\ op'.kind \in {"create", "update", "delete"}
    BY <1>5, DecisionLeaves
  <2>3. op' # None /\ e \notin srcSince =>
          WantedUnder(run.policy, e) = IF op'.kind = "delete" THEN Withheld ELSE op'.shown
    BY <1>5, <2>2, DecisionWanted
  <2>4. WantedUnder(run.policy, e)' = WantedUnder(run.policy, e)
    BY <2>1 DEF WantedUnder
  <2> QED BY <2>1, <2>2, <2>3, <2>4 DEF OpFresh
<1>6. CASE Write
  <2>1. /\ UNCHANGED <<src, srcSince, run>> /\ op # None
        /\ op'.event = op.event /\ op'.kind = op.kind /\ op'.shown = op.shown
    BY <1>6, WriteFacts, NoneAssumption
  <2> QED BY <2>1 DEF OpFresh, WantedUnder
<1>7. CASE Record \/ Stops \/ AdvanceCursors
  BY <1>2, <1>7, StopFacts DEF Record, AdvanceCursors, EndRun
<1>8. ASSUME NEW e \in Events, EditSource(e) \/ CancelSource(e) \/ ForgetSource(e) \/ EndSource(e)
      PROVE  OpFresh'
  <2>1. /\ UNCHANGED <<op, run>> /\ \A f \in Events \ {e} : src'[f] = src[f]
        /\ srcSince \subseteq srcSince'
    BY <1>1, <1>8 DEF EditSource, CancelSource, ForgetSource, EndSource, SourceChanged, runVars, sinceVars
  <2>2. CASE EditSource(e) \/ CancelSource(e)
    <3>1. Running => e \in srcSince'
      BY <2>2 DEF EditSource, CancelSource, SourceChanged
    <3> QED BY <1>1, <2>1, <3>1 DEF OpFresh, WantedUnder
  <2>3. CASE ForgetSource(e)
    BY <1>1, <1>2, <2>1, <2>3 DEF ForgetSource
  <2>4. CASE EndSource(e)
    <3>1. src' = [src EXCEPT ![e] = [src[e] EXCEPT !.ended = TRUE]]
      BY <2>4 DEF EndSource
    <3>2. src'[e].status = src[e].status /\ src'[e].rev = src[e].rev
      BY <1>1, <3>1 DEF SourceEvent
    <3> QED BY <2>1, <3>2 DEF OpFresh, WantedUnder
  <2> QED BY <1>8, <2>2, <2>3, <2>4
<1>9. ASSUME \/ \E full, rejected \in BOOLEAN : StartRun(full, rejected)
             \/ \E rejected \in BOOLEAN : ListDestination(rejected)
      PROVE  OpFresh'
  <2>1. op = None /\ op' = op
    BY <1>9 DEF StartRun, ListDestination, Ground, Course, NothingRead
  <2> QED BY <1>2, <2>1
<1>10. CASE Administrator \/ UNCHANGED vars
  BY <1>3, <1>10, AdministratorFacts DEF Ground, vars, runVars, sourceVars, sinceVars
<1>11. ASSUME \/ \E e \in Events : SkipUnverifiable(e)
              \/ \E s \in Slots : SkipReported(s)
              \/ SourcesDone \/ DestinationDone \/ RemainingDone
       PROVE  OpFresh'
  BY <1>3, <1>11, SkipFacts, MoveFacts DEF World
<1> QED BY <1>4, <1>5, <1>6, <1>7, <1>8, <1>9, <1>10, <1>11, Steps

-----------------------------------------------------------------------------
(***************************************************************************)
(* No change is lost.  Between runs, every event is in sync or some feed   *)
(* will report it (Noted); while one runs, every event it is not bringing  *)
(* in sync by something it still has to go through is news for the cursors *)
(* it will save (Covered), which is what makes saving them right.          *)
(***************************************************************************)
SyncedUnder(p, e) ==
  IF mapping[e] = None THEN WantedUnder(p, e) = Withheld
  ELSE LET seen == dst[mapping[e].slot] IN
       \/ seen.status = "confirmed" /\ seen.owner # e
       \/ src[e].status = "gone"
       \/ /\ WantedUnder(p, e) # Withheld
          /\ seen.status = "confirmed" /\ seen.shown = WantedUnder(p, e)

Noted(e) ==
  \/ src[e].ended \/ SyncedUnder(rule.policy, e) \/ ~synced \/ rule.reproject
  \/ e \in srcNews \/ ChangedIn(e, dstNews)

\* The projection is in the destination feed of the run, or will be.
Reported(e) ==
  /\ mapping[e] # None /\ e \notin handled
  /\ \/ phase = "listing" /\ (run.dstListed \/ mapping[e].slot \in dstNews)
     \/ phase \in {"source", "destination"} /\ mapping[e].slot \in dstFeed

\* What the run still has to go through brings it to the event.
ToCome(e) ==
  \/ srcFeed[e] # None
  \/ Reported(e)
  \/ run.reproject /\ mapping[e] # None /\ e \notin handled
  \/ op # None /\ op.event = e

\* A later run will come to it.
Later(e) ==
  \/ e \in srcSince
  \/ phase # "listing" /\ ChangedIn(e, dstSince)
  \/ rule.reproject /\ ~run.reproject

Covered(e) == src[e].ended \/ SyncedUnder(run.policy, e) \/ ToCome(e) \/ Later(e)

AllNoted == \A e \in Events : Noted(e)

AllCovered == Running => \A e \in Events : Covered(e)

LEMMA InSyncIsSynced ==
  ASSUME NEW e \in Events
  PROVE  InSync(e) <=> SyncedUnder(rule.policy, e)
  BY DEF InSync, SyncedUnder, Wanted, WantedUnder

\* An event a step does not touch is as much noted, and as much covered, as before.
LEMMA NotedStays ==
  ASSUME NEW e \in Events, Noted(e), mapping'[e] = mapping[e],
         src'[e].status = src[e].status, src'[e].rev = src[e].rev, src[e].ended => src'[e].ended,
         mapping[e] # None => dst'[mapping[e].slot] = dst[mapping[e].slot],
         UNCHANGED <<rule, synced>>, srcNews \subseteq srcNews', dstNews \subseteq dstNews'
  PROVE  Noted(e)'
<1>1. SyncedUnder(rule.policy, e) => SyncedUnder(rule.policy, e)'
  BY DEF SyncedUnder, WantedUnder
<1>2. ChangedIn(e, dstNews) => ChangedIn(e, dstNews)'
  BY DEF ChangedIn, AsRecorded, Owned
<1> QED BY <1>1, <1>2 DEF Noted

LEMMA CoveredStays ==
  ASSUME NEW e \in Events, Covered(e), mapping'[e] = mapping[e],
         src'[e].status = src[e].status, src'[e].rev = src[e].rev, src[e].ended => src'[e].ended,
         mapping[e] # None => dst'[mapping[e].slot] = dst[mapping[e].slot],
         UNCHANGED <<phase, run>>, rule.reproject => rule'.reproject,
         srcSince \subseteq srcSince', dstSince \subseteq dstSince', dstNews \subseteq dstNews',
         srcFeed'[e] = srcFeed[e], e \in handled' => e \in handled,
         mapping[e] # None /\ mapping[e].slot \in dstFeed => mapping[e].slot \in dstFeed',
         op # None /\ op.event = e => op' # None /\ op'.event = e
  PROVE  Covered(e)'
<1>1. SyncedUnder(run.policy, e) => SyncedUnder(run.policy, e)'
  BY DEF SyncedUnder, WantedUnder
<1>2. ChangedIn(e, dstSince) => ChangedIn(e, dstSince)'
  BY DEF ChangedIn, AsRecorded, Owned
<1>3. Reported(e) => Reported(e)'
  BY DEF Reported
<1> QED BY <1>1, <1>2, <1>3 DEF Covered, ToCome, Later

-----------------------------------------------------------------------------
\* What a decision leaves of its own event: in sync, a write on its way, or news.
LEMMA DecidedIsCovered ==
  ASSUME Ground, Knowledge, NEW e \in Events, NEW event, NEW actual, Decides(e, event, actual)
  PROVE  \/ src[e].ended \/ SyncedUnder(run.policy, e)'
         \/ op' # None /\ op'.event = e
         \/ e \in srcSince \/ ChangedIn(e, dstSince)'
<1> DEFINE decision == Decision(e, event, actual)
           expected == Project[run.policy][event.rev]
           wanted   == WantedUnder(run.policy, e)
<1>1. SUFFICES ASSUME e \notin srcSince, op' = None
      PROVE  src[e].ended \/ SyncedUnder(run.policy, e)' \/ ChangedIn(e, dstSince)'
  BY DecisionLeaves
<1>2. /\ UNCHANGED <<src, dst, run, dstSince>>
      /\ (mapping'[e] = None) <=> (mapping[e] = None)
      /\ mapping[e] # None => mapping'[e].slot = mapping[e].slot
      /\ mapping' = mapping \/ (decision = "current" /\ mapping'[e].shown = expected)
      /\ decision \in {"ignore", "conflict", "current"}
  BY <1>1, DecisionLeaves, DecisionMeans DEF Decides
<1>3. WantedUnder(run.policy, e)' = wanted
  BY <1>2 DEF WantedUnder
<1>4. CASE decision = "ignore"
  <2>1. mapping'[e] = None /\ (wanted = Withheld \/ src[e].ended)
    BY <1>1, <1>2, <1>4, DecisionMeans, DecisionWanted
  <2> QED BY <1>3, <2>1 DEF SyncedUnder
<1>5. ASSUME mapping[e] # None, actual # None
      PROVE  \/ actual = dst[mapping[e].slot] /\ actual.status = "confirmed"
             \/ ChangedIn(e, dstSince)
  <2>1. PICK seen \in DestinationEvent :
          /\ actual = Live(seen)
          /\ seen = dst[mapping[e].slot] \/ ChangedIn(e, dstSince)
    BY <1>5 DEF Decides, Sighted
  <2>2. actual = seen /\ seen.status = "confirmed"
    BY <1>5, <2>1 DEF Live
  <2> QED BY <2>1, <2>2
<1>6. CASE decision = "conflict"
  <2>1. mapping[e] # None /\ actual # None /\ actual.owner # e /\ mapping' = mapping
    BY <1>2, <1>6, DecisionMeans
  <2>2. CASE actual = dst[mapping[e].slot] /\ actual.status = "confirmed"
    BY <1>2, <2>1, <2>2 DEF SyncedUnder
  <2>3. CASE ChangedIn(e, dstSince)
    BY <1>2, <2>1, <2>3 DEF ChangedIn, AsRecorded, Owned
  <2> QED BY <1>5, <2>1, <2>2, <2>3
<1>7. CASE decision = "current"
  <2>1. /\ mapping[e] # None /\ actual # None /\ actual.owner = e /\ actual.shown = wanted
        /\ wanted = expected /\ wanted # Withheld
    BY <1>1, <1>7, DecisionMeans, DecisionWanted
  <2>2. CASE actual = dst[mapping[e].slot] /\ actual.status = "confirmed"
    BY <1>2, <1>3, <2>1, <2>2 DEF SyncedUnder
  <2>3. CASE ChangedIn(e, dstSince)
    <3>1. CASE mapping' = mapping
      BY <1>2, <2>3, <3>1 DEF ChangedIn, AsRecorded, Owned
    <3>2. CASE mapping'[e].shown = expected
      <4>1. mapping'[e] # None /\ mapping'[e].slot \in dstSince'
        BY <1>2, <2>1, <2>3 DEF ChangedIn
      <4>2. AsRecorded(e)' \/ ChangedIn(e, dstSince)'
        BY <4>1 DEF ChangedIn
      <4>3. AsRecorded(e)' => SyncedUnder(run.policy, e)'
        BY <1>3, <2>1, <3>2, <4>1 DEF AsRecorded, Owned, SyncedUnder
      <4> QED BY <4>2, <4>3
    <3> QED BY <1>2, <3>1, <3>2
  <2> QED BY <1>5, <2>1, <2>2, <2>3
<1> QED BY <1>2, <1>4, <1>6, <1>7

LEMMA DecidedIsNoted ==
  ASSUME Ground, Knowledge, NEW e \in Events, NEW event, NEW actual, Decides(e, event, actual),
         Noted(e)
  PROVE  Noted(e)'
<1> DEFINE decision == Decision(e, event, actual)
           expected == Project[run.policy][event.rev]
<1>1. /\ UNCHANGED <<src, dst, rule, run, synced, srcNews, dstNews, srcSince>>
      /\ srcSince \subseteq srcNews
      /\ rule.policy = run.policy
      /\ (mapping'[e] = None) <=> (mapping[e] = None)
      /\ mapping[e] # None => mapping'[e].slot = mapping[e].slot
      /\ mapping' = mapping \/ (decision = "current" /\ mapping'[e].shown = expected)
  BY DecisionLeaves DEF Decides, Unchanged, Ground, Course, SinceIsNews
<1>2. CASE mapping' = mapping
  BY <1>1, <1>2, NotedStays
<1>3. CASE decision = "current" /\ mapping'[e].shown = expected
  <2>1. CASE e \in srcSince
    BY <1>1, <2>1 DEF Noted
  <2>2. CASE e \notin srcSince
    <3>1. mapping[e] # None /\ WantedUnder(run.policy, e) = expected /\ expected # Withheld
      BY <1>3, <2>2, DecisionMeans, DecisionWanted
    <3>2. WantedUnder(rule.policy, e)' = expected
      BY <1>1, <3>1 DEF WantedUnder
    <3>3. SyncedUnder(rule.policy, e) => SyncedUnder(rule.policy, e)'
      BY <1>1, <3>1 DEF SyncedUnder, WantedUnder
    <3>4. ASSUME ChangedIn(e, dstNews)
          PROVE  SyncedUnder(rule.policy, e)' \/ ChangedIn(e, dstNews)'
      <4>1. mapping'[e] # None /\ mapping'[e].slot \in dstNews'
        BY <1>1, <3>1, <3>4 DEF ChangedIn
      <4>2. AsRecorded(e)' \/ ChangedIn(e, dstNews)'
        BY <4>1 DEF ChangedIn
      <4>3. AsRecorded(e)' => SyncedUnder(rule.policy, e)'
        BY <1>3, <3>1, <3>2, <4>1 DEF AsRecorded, Owned, SyncedUnder
      <4> QED BY <4>2, <4>3
    <3> QED BY <1>1, <3>3, <3>4 DEF Noted
  <2> QED BY <2>1, <2>2
<1> QED BY <1>1, <1>2, <1>3

-----------------------------------------------------------------------------
Kept ==
  /\ Ground /\ Knowledge /\ EditsStandOut /\ Replaced /\ Steady /\ OpFresh /\ OpSent
  /\ AllNoted /\ AllCovered

\* A source change is news at once, and news for the run in flight too.
LEMMA SourceStepKeeps ==
  ASSUME Kept, NEW e \in Events, EditSource(e) \/ CancelSource(e) \/ ForgetSource(e) \/ EndSource(e)
  PROVE  AllNoted' /\ AllCovered'
<1>1. /\ src \in [Events -> SourceEvent]
      /\ \A f \in Events : mapping[f] # None => mapping[f].slot \in Slots
  BY DEF Kept, Ground, Typed, TypeOK, Mapping
<1>2. /\ UNCHANGED <<rule, dst, dstNews, dstSince, mapping, synced, phase, run, srcFeed, dstFeed, handled, op>>
      /\ \A f \in Events \ {e} : src'[f] = src[f]
      /\ srcNews \subseteq srcNews' /\ srcSince \subseteq srcSince'
  BY <1>1 DEF EditSource, CancelSource, ForgetSource, EndSource, SourceChanged, ruleVars, destinationVars,
              sinceVars, storeVars, runVars
<1>3. ASSUME NEW f \in Events, f # e
      PROVE  Noted(f)' /\ (Running => Covered(f)')
  <2>1. src'[f] = src[f]
    BY <1>2, <1>3
  <2>2. Noted(f)'
    BY <1>2, <2>1, NotedStays DEF Kept, AllNoted
  <2>3. Running => Covered(f)'
    BY <1>2, <2>1, CoveredStays DEF Kept, AllCovered
  <2> QED BY <2>2, <2>3
<1>4. CASE EditSource(e) \/ CancelSource(e)
  <2>1. e \in srcNews' /\ (Running => e \in srcSince')
    BY <1>4 DEF EditSource, CancelSource, SourceChanged
  <2>2. Noted(e)' /\ (Running => Covered(e)')
    BY <2>1 DEF Noted, Covered, Later
  <2> QED BY <1>2, <1>3, <2>2 DEF AllNoted, AllCovered, Running
<1>5. CASE ForgetSource(e)
  <2>1. ~Running /\ src'[e].status = "gone"
    BY <1>1, <1>5 DEF ForgetSource, SourceEvent
  <2>2. Noted(e)'
    BY <2>1 DEF Noted, SyncedUnder, WantedUnder
  <2> QED BY <1>2, <1>3, <2>1, <2>2 DEF AllNoted, AllCovered, Running
<1>6. CASE EndSource(e)
  <2>1. src' = [src EXCEPT ![e] = [src[e] EXCEPT !.ended = TRUE]]
    BY <1>6 DEF EndSource
  <2>2. src'[e].ended
    BY <1>1, <2>1 DEF SourceEvent
  <2>3. Noted(e)' /\ Covered(e)'
    BY <2>2 DEF Noted, Covered
  <2> QED BY <1>2, <1>3, <2>3 DEF AllNoted, AllCovered, Running
<1> QED BY <1>4, <1>5, <1>6

\* A person's change differs from what the mapping records, so it is news that counts.
LEMMA PersonStepKeeps ==
  ASSUME Kept, NEW s \in Slots, EditProjection(s) \/ DeleteProjection(s) \/ StripProjection(s)
  PROVE  AllNoted' /\ AllCovered'
<1>1. /\ UNCHANGED <<rule, src, srcNews, srcSince, mapping, synced, phase, run, srcFeed,
                     dstFeed, handled, op>>
      /\ \A t \in Slots \ {s} : dst'[t] = dst[t]
      /\ dstNews' = dstNews \cup {s}
      /\ dstSince' = IF Running THEN dstSince \cup {s} ELSE dstSince
      /\ \A e \in Events : mapping[e] # None /\ mapping[e].slot = s => ~AsRecorded(e)'
      /\ \A e \in Events : mapping[e] # None => mapping[e].slot \in Slots
      /\ phase = "listing" => handled = {}
  BY PersonFacts DEF Kept, Ground, Typed, TypeOK, Mapping, Course, NothingRead
<1>2. ASSUME NEW e \in Events, mapping[e] # None, mapping[e].slot = s
      PROVE  Noted(e)' /\ (Running => Covered(e)')
  <2>1. ChangedIn(e, dstNews)' /\ (Running => ChangedIn(e, dstSince)')
    BY <1>1, <1>2 DEF ChangedIn
  <2>2. phase = "listing" => Reported(e)'
    BY <1>1, <1>2 DEF Reported
  <2> QED BY <1>1, <2>1, <2>2 DEF Noted, Covered, Later, ToCome
<1>3. ASSUME NEW e \in Events, mapping[e] # None => mapping[e].slot # s
      PROVE  Noted(e)' /\ (Running => Covered(e)')
  <2>1. mapping[e] # None => dst'[mapping[e].slot] = dst[mapping[e].slot]
    BY <1>1, <1>3
  <2>2. Noted(e)'
    BY <1>1, <2>1, NotedStays DEF Kept, AllNoted
  <2>3. Running => Covered(e)'
    BY <1>1, <2>1, CoveredStays DEF Kept, AllCovered
  <2> QED BY <2>2, <2>3
<1> QED BY <1>1, <1>2, <1>3 DEF AllNoted, AllCovered, Running

LEMMA AdministratorKeeps ==
  ASSUME Kept, Administrator
  PROVE  AllNoted' /\ AllCovered'
<1>1. /\ UNCHANGED <<src, srcNews, srcSince, dst, dstNews, dstSince, mapping, synced, phase, run, srcFeed,
                     dstFeed, handled, op>>
      /\ (rule'.policy = rule.policy /\ rule'.reproject = rule.reproject) \/ rule'.reproject
  BY AdministratorFacts DEF Kept, Ground, sourceVars, destinationVars, sinceVars, storeVars, runVars
<1>2. ASSUME NEW e \in Events
      PROVE  Noted(e)'
  <2>1. Noted(e)
    BY DEF Kept, AllNoted
  <2>2. CASE rule'.policy = rule.policy /\ rule'.reproject = rule.reproject
    BY <1>1, <2>1, <2>2 DEF Noted, SyncedUnder, WantedUnder, ChangedIn, AsRecorded, Owned
  <2>3. CASE rule'.reproject
    BY <2>3 DEF Noted
  <2> QED BY <1>1, <2>2, <2>3
<1>3. ASSUME NEW e \in Events, Running
      PROVE  Covered(e)'
  <2>1. Covered(e) /\ (rule.reproject => rule'.reproject)
    BY <1>1, <1>3 DEF Kept, AllCovered
  <2> QED BY <1>1, <2>1, CoveredStays
<1> QED BY <1>1, <1>2, <1>3 DEF AllNoted, AllCovered, Running

\* What is due when a run begins, the run reads.
LEMMA StartKeeps ==
  ASSUME Kept, NEW full \in BOOLEAN, NEW rejected \in BOOLEAN, StartRun(full, rejected)
  PROVE  AllNoted' /\ AllCovered'
<1>1. UNCHANGED World /\ UNCHANGED <<handled, op>> /\ phase' = "listing" /\ handled = {}
  BY DEF StartRun, World, ruleVars, sourceVars, destinationVars, storeVars, Kept, Ground, Course, NothingRead
<1>2. AllNoted'
  BY <1>1, NotedStays DEF World, Kept, AllNoted
<1>3. ASSUME NEW e \in Events
      PROVE  Covered(e)'
  <2>1. Noted(e) /\ src[e] \in SourceEvent /\ src[e] # None /\ mapping' = mapping /\ src' = src /\ dst' = dst
    BY <1>1, NoneAssumption DEF World, Kept, AllNoted, Ground, Typed, TypeOK
  <2>2. run'.policy = rule.policy
    BY DEF StartRun
  <2>3. SyncedUnder(rule.policy, e) => SyncedUnder(run.policy, e)'
    BY <2>1, <2>2 DEF SyncedUnder, WantedUnder
  <2>4. CASE full \/ rule.reproject \/ ~synced \/ rejected
    <3>1. srcFeed'[e] = IF e \in ListedSources THEN src[e] ELSE None
      BY <2>4 DEF StartRun
    <3>2. CASE e \in ListedSources
      BY <2>1, <3>1, <3>2 DEF Covered, ToCome
    <3>3. CASE src[e].ended
      BY <2>1, <3>3 DEF Covered
    <3>4. CASE src[e].status = "none"
      <4>1. mapping[e] = None
        BY <3>4 DEF Kept, Knowledge, NeverSeen
      <4> QED BY <2>1, <2>3, <3>4, <4>1 DEF Covered, SyncedUnder, WantedUnder
    <3>5. CASE src[e].status = "gone"
      BY <2>1, <2>3, <3>5 DEF Covered, SyncedUnder, WantedUnder
    <3> QED BY <2>1, <3>2, <3>3, <3>4, <3>5 DEF ListedSources, SourceEvent
  <2>5. CASE ~(full \/ rule.reproject \/ ~synced \/ rejected)
    <3>1. srcFeed'[e] = IF e \in srcNews THEN src[e] ELSE None
      BY <2>5 DEF StartRun
    <3>2. CASE e \in srcNews
      BY <2>1, <3>1, <3>2 DEF Covered, ToCome
    <3>3. CASE ChangedIn(e, dstNews)
      <4>1. Reported(e)'
        BY <1>1, <2>1, <3>3 DEF Reported, ChangedIn, World
      <4> QED BY <4>1 DEF Covered, ToCome
    <3>4. CASE src[e].ended \/ SyncedUnder(rule.policy, e)
      BY <2>1, <2>3, <3>4 DEF Covered
    <3> QED BY <2>1, <2>5, <3>2, <3>3, <3>4 DEF Noted
  <2> QED BY <2>4, <2>5
<1> QED BY <1>2, <1>3 DEF AllCovered

LEMMA ListKeeps ==
  ASSUME Kept, NEW rejected \in BOOLEAN, ListDestination(rejected)
  PROVE  AllNoted' /\ AllCovered'
<1>1. /\ UNCHANGED World /\ UNCHANGED <<srcSince, srcFeed, handled, op>>
      /\ phase = "listing" /\ phase' = "source" /\ Running
  BY DEF ListDestination, World, ruleVars, sourceVars, destinationVars, storeVars, Running
<1>2. AllNoted'
  BY <1>1, NotedStays DEF World, Kept, AllNoted
<1>3. run'.policy = run.policy /\ run'.reproject = run.reproject
  BY DEF ListDestination, Kept, Ground, Typed, TypeOK
<1>4. ASSUME NEW e \in Events
      PROVE  Covered(e)'
  <2>1. /\ Covered(e) /\ mapping' = mapping /\ src' = src /\ dst' = dst /\ rule' = rule
        /\ mapping[e] # None => mapping[e].slot \in Slots
    BY <1>1 DEF World, Kept, AllCovered, Ground, Typed, TypeOK, Mapping
  <2>2. SyncedUnder(run.policy, e) => SyncedUnder(run.policy, e)'
    BY <1>3, <2>1 DEF SyncedUnder, WantedUnder
  <2>3. ASSUME Reported(e), ~src[e].ended
        PROVE  Reported(e)'
    <3>1. /\ mapping[e] # None /\ e \notin handled
          /\ run.dstListed \/ mapping[e].slot \in dstNews
      BY <1>1, <2>3 DEF Reported
    <3>2. mapping[e].slot \in ListedProjections
      <4>1. /\ dst[mapping[e].slot].status \in {"confirmed", "cancelled"}
            /\ dst[mapping[e].slot].owner \in {e, None}
        BY <2>1, <3>1 DEF Kept, Ground, Typed, TypeOK, Apart, MappedSlots, DestinationEvent
      <4> QED BY <2>1, <2>3, <3>1, <4>1 DEF ListedProjections
    <3>3. mapping[e].slot \in dstFeed'
      BY <3>1, <3>2 DEF ListDestination
    <3> QED BY <1>1, <2>1, <3>1, <3>3 DEF Reported
  <2>4. Later(e) => Later(e)'
    BY <1>1, <1>3, <2>1 DEF Later
  <2> QED BY <1>1, <1>3, <2>1, <2>2, <2>3, <2>4 DEF Covered, ToCome
<1> QED BY <1>2, <1>4 DEF AllCovered

LEMMA DecisionKeeps ==
  ASSUME Kept, NEW e \in Events, NEW event, NEW actual, Decides(e, event, actual)
  PROVE  AllNoted' /\ AllCovered'
<1>1. /\ UNCHANGED <<rule, src, srcNews, srcSince, dst, dstNews, dstSince, synced, phase, run>>
      /\ handled' = handled \cup {e} /\ op = None /\ Running /\ phase # "listing"
      /\ \A f \in Events \ {e} : /\ mapping'[f] = mapping[f] /\ srcFeed'[f] = srcFeed[f]
                                 /\ mapping[f] # None /\ mapping[f].slot \in dstFeed =>
                                      mapping[f].slot \in dstFeed'
  BY DecisionLeaves DEF Decides, Kept
<1>2. Noted(e)'
  BY DecidedIsNoted DEF Kept, AllNoted
<1>3. Covered(e)'
  BY <1>1, DecidedIsCovered DEF Covered, ToCome, Later, Kept
<1>4. ASSUME NEW f \in Events, f # e
      PROVE  Noted(f)' /\ Covered(f)'
  <2>1. /\ mapping'[f] = mapping[f] /\ srcFeed'[f] = srcFeed[f]
        /\ mapping[f] # None /\ mapping[f].slot \in dstFeed => mapping[f].slot \in dstFeed'
        /\ Noted(f) /\ Covered(f) /\ (f \in handled' => f \in handled)
    BY <1>1, <1>4 DEF Kept, AllNoted, AllCovered
  <2>2. Noted(f)'
    BY <1>1, <2>1, NotedStays
  <2>3. Covered(f)'
    BY <1>1, <2>1, CoveredStays
  <2> QED BY <2>2, <2>3
<1> QED BY <1>2, <1>3, <1>4 DEF AllNoted, AllCovered

\* A projection that is passed over is its event's, as the mapping records it, or is left alone.
LEMMA SkipKeeps ==
  ASSUME Kept, (\E e \in Events : SkipUnverifiable(e)) \/ (\E s \in Slots : SkipReported(s))
  PROVE  AllNoted' /\ AllCovered'
<1>1. /\ UNCHANGED World
      /\ UNCHANGED <<srcSince, dstSince, phase, run, srcFeed, op>>
      /\ op = None /\ phase \notin {"idle", "listing", "source"} /\ Running
  BY SkipFacts DEF Running
<1>2. UNCHANGED <<rule, src, srcNews, dst, dstNews, mapping, synced>>
  BY <1>1 DEF World
<1>3. AllNoted'
  BY <1>2, NotedStays DEF Kept, AllNoted
<1>4. ASSUME NEW e \in Events, SkipUnverifiable(e)
      PROVE  AllCovered'
  <2>1. /\ mapping[e] # None /\ src[e].status \in {"none", "gone"}
        /\ handled' = handled \cup {e} /\ dstFeed' = dstFeed
    BY <1>4 DEF SkipUnverifiable, Remaining, Unverifiable
  <2>2. src[e].status = "gone"
    BY <2>1 DEF Kept, Knowledge, NeverSeen
  <2>3. Covered(e)'
    BY <1>2, <2>1, <2>2 DEF Covered, SyncedUnder
  <2>4. ASSUME NEW f \in Events, f # e
        PROVE  Covered(f)'
    BY <1>1, <1>2, <2>1, <2>4, CoveredStays DEF Kept, AllCovered
  <2> QED BY <2>3, <2>4 DEF AllCovered
<1>5. ASSUME NEW s \in Slots, SkipReported(s)
      PROVE  AllCovered'
  <2>1. /\ phase = "destination" /\ NothingToRepair(s) /\ dstFeed' = dstFeed \ {s} /\ handled' = handled
        /\ s \in dstFeed
    BY <1>5 DEF SkipReported
  <2>2. ASSUME NEW e \in Events, mapping[e] # None => mapping[e].slot # s
        PROVE  Covered(e)'
    <3>1. Covered(e)
      BY <1>1 DEF Kept, AllCovered
    <3> QED BY <1>1, <1>2, <2>1, <2>2, <3>1, CoveredStays
  <2>3. ASSUME NEW e \in Events, mapping[e] # None, mapping[e].slot = s
        PROVE  Covered(e)'
    <3>1. e \in handled \/ OwnWrite(e, s) \/ Unverifiable(e)
      BY <2>1, <2>3 DEF NothingToRepair, MappedTo
    <3>2. CASE e \in handled
      <4>1. Covered(e) /\ ~Reported(e)
        BY <1>1, <3>2 DEF Kept, AllCovered, Reported
      <4>2. SyncedUnder(run.policy, e) => SyncedUnder(run.policy, e)'
        BY <1>1, <1>2 DEF SyncedUnder, WantedUnder
      <4>3. Later(e) => Later(e)'
        BY <1>1, <1>2 DEF Later, ChangedIn, AsRecorded, Owned
      <4> QED BY <1>1, <1>2, <2>1, <4>1, <4>2, <4>3 DEF Covered, ToCome
    <3>3. CASE Unverifiable(e)
      <4>1. src[e].status = "gone"
        BY <2>3, <3>3 DEF Unverifiable, Kept, Knowledge, NeverSeen
      <4> QED BY <1>2, <2>3, <4>1 DEF Covered, SyncedUnder
    <3>4. CASE OwnWrite(e, s) /\ e \notin handled
      <4>1. /\ ~run.srcListed /\ dstSeen[s] # None
            /\ dstSeen[s].status = "confirmed" /\ dstSeen[s].owner = e /\ dstSeen[s].shown = mapping[e].shown
        BY <2>1, <3>4 DEF OwnWrite, Incremental, Kept, Ground, SeenSound
      <4>2. /\ synced /\ ~run.reproject
            /\ \A f \in srcNews : f \in srcSince \/ srcFeed[f] # None \/ f \in handled
        BY <1>1, <4>1 DEF Kept, Knowledge, NewsRead
      <4>3. srcFeed[e] = None
        BY <2>1 DEF Kept, Ground, Course, GoneThrough
      <4>4. AsRecorded(e) \/ ChangedIn(e, dstSince)
        BY <2>3, <3>4, <4>1 DEF Kept, Knowledge, SeenFresh, AsRecorded, Owned
      <4>5. \/ src[e].ended \/ SyncedUnder(run.policy, e) \/ Later(e)
        <5>1. CASE ChangedIn(e, dstSince)
          BY <1>1, <5>1 DEF Later
        <5>2. CASE AsRecorded(e) /\ rule.reproject
          BY <4>2, <5>2 DEF Later
        <5>3. CASE AsRecorded(e) /\ ~rule.reproject
          <6>1. rule.policy = run.policy
            BY <1>1, <5>3 DEF Kept, Ground, Course, PolicyIsDue
          <6>2. Noted(e) /\ ~ChangedIn(e, dstNews)
            BY <5>3 DEF Kept, AllNoted, ChangedIn
          <6> QED BY <3>4, <4>2, <4>3, <5>3, <6>1, <6>2 DEF Noted, Later
        <5> QED BY <4>4, <5>1, <5>2, <5>3
      <4>6. SyncedUnder(run.policy, e) => SyncedUnder(run.policy, e)'
        BY <1>1, <1>2 DEF SyncedUnder, WantedUnder
      <4>7. Later(e) => Later(e)'
        BY <1>1, <1>2 DEF Later, ChangedIn, AsRecorded, Owned
      <4> QED BY <1>2, <4>5, <4>6, <4>7 DEF Covered
    <3> QED BY <3>1, <3>2, <3>3, <3>4
  <2> QED BY <2>2, <2>3 DEF AllCovered
<1> QED BY <1>3, <1>4, <1>5

\* A phase that ends has nothing left that was to come.
LEMMA MoveKeeps ==
  ASSUME Kept, SourcesDone \/ DestinationDone \/ RemainingDone
  PROVE  AllNoted' /\ AllCovered'
<1>1. /\ UNCHANGED <<rule, src, srcNews, dst, dstNews, mapping, synced>>
      /\ UNCHANGED <<srcSince, dstSince, run, srcFeed, dstFeed, handled, op>>
      /\ Running /\ phase # "listing" /\ phase' # "listing"
  BY MoveFacts DEF World, Running
<1>2. AllNoted'
  BY <1>1, NotedStays DEF Kept, AllNoted
<1>3. ASSUME NEW e \in Events
      PROVE  Covered(e)'
  <2>1. Covered(e)
    BY <1>1 DEF Kept, AllCovered
  <2>2. SyncedUnder(run.policy, e) => SyncedUnder(run.policy, e)'
    BY <1>1 DEF SyncedUnder, WantedUnder
  <2>3. Later(e) => Later(e)'
    BY <1>1 DEF Later, ChangedIn, AsRecorded, Owned
  <2>4. Reported(e) => Reported(e)'
    <3>1. CASE SourcesDone
      BY <1>1, <3>1 DEF SourcesDone, Reported
    <3>2. CASE DestinationDone
      BY <1>1, <3>2 DEF DestinationDone, Reported
    <3>3. CASE RemainingDone
      BY <3>3 DEF RemainingDone, Reported
    <3> QED BY <3>1, <3>2, <3>3
  <2> QED BY <1>1, <2>1, <2>2, <2>3, <2>4 DEF Covered, ToCome
<1> QED BY <1>2, <1>3 DEF AllCovered

\* A write touches its own event's projection only, and shows what is wanted of it.
LEMMA WriteKeeps ==
  ASSUME Kept, Write
  PROVE  AllNoted' /\ AllCovered'
<1>1. /\ op \in Operation /\ op # None /\ op.event \in Events /\ ~op.sent /\ Running /\ phase # "listing"
      /\ op' \in Operation /\ op' # None /\ op'.slot \in Slots /\ op'.event = op.event
      /\ UNCHANGED <<rule, src, srcNews, srcSince, mapping, synced, phase, run, srcFeed, dstFeed, handled>>
      /\ \A t \in Slots \ {op'.slot} : dst'[t] = dst[t]
      /\ dstNews \subseteq dstNews' /\ dstSince \subseteq dstSince'
      /\ \A e \in Events \ {op.event} : mapping[e] # None => mapping[e].slot # op'.slot
  BY WriteFacts, NoneAssumption DEF Kept
<1>2. /\ dst \in [Slots -> DestinationEvent]
      /\ \A e \in Events : mapping[e] # None => mapping[e].slot \in Slots
      /\ srcSince \subseteq srcNews /\ rule.policy = run.policy
  BY <1>1 DEF Kept, Ground, Typed, TypeOK, Mapping, Course, SinceIsNews, MayWrite, Unchanged
<1>3. ASSUME NEW e \in Events, mapping[e] # None => dst'[mapping[e].slot] = dst[mapping[e].slot]
      PROVE  Noted(e)'
  BY <1>1, <1>3, NotedStays DEF Kept, AllNoted
<1>4. ASSUME NEW e \in Events, e # op.event
      PROVE  Noted(e)' /\ Covered(e)'
  <2>1. mapping[e] # None => dst'[mapping[e].slot] = dst[mapping[e].slot]
    BY <1>1, <1>2, <1>4
  <2>2. Noted(e)'
    BY <1>3, <2>1
  <2>3. Covered(e)
    BY <1>1 DEF Kept, AllCovered
  <2>4. Covered(e)'
    BY <1>1, <1>4, <2>1, <2>3, CoveredStays
  <2> QED BY <2>2, <2>4
<1>5. ASSUME NEW e \in Events, e = op.event
      PROVE  Noted(e)' /\ Covered(e)'
  <2>1. Covered(e)'
    BY <1>1, <1>5 DEF Covered, ToCome
  <2>2. CASE mapping[e] # None => dst'[mapping[e].slot] = dst[mapping[e].slot]
    BY <1>3, <2>1, <2>2
  <2>3. CASE e \in srcSince
    BY <1>1, <1>2, <2>1, <2>3 DEF Noted
  <2>4. CASE UpdateProjection /\ e \notin srcSince
    <3>1. WantedUnder(run.policy, e) = op.shown /\ op.shown # Withheld
      BY <1>1, <1>5, <2>4, ProjectAssumption
         DEF UpdateProjection, Pending, Kept, OpFresh, Ground, Typed, OperationTyped
    <3>2. op.slot \in Slots /\ mapping[e] # None /\ mapping[e].slot = op.slot
      BY <1>1, <1>2, <1>5, <2>4 DEF UpdateProjection, Pending, Kept, Ground, Apart, OperationSlot
    <3>3. dst'[op.slot].status = "confirmed" /\ dst'[op.slot].shown = op.shown
      BY <1>2, <2>4, <3>2 DEF UpdateProjection, Projection
    <3>4. WantedUnder(rule.policy, e)' = op.shown
      BY <1>1, <1>2, <3>1 DEF WantedUnder
    <3>5. SyncedUnder(rule.policy, e)'
      BY <1>1, <3>1, <3>2, <3>3, <3>4 DEF SyncedUnder
    <3> QED BY <2>1, <3>5 DEF Noted
  <2>5. CASE RemoveProjection
    <3>1. op.slot \in Slots /\ mapping[e] # None /\ mapping[e].slot = op.slot
      BY <1>1, <1>2, <1>5, <2>5 DEF RemoveProjection, Pending, Kept, Ground, Apart, OperationSlot
    <3>2. dst'[op.slot].status = "cancelled" /\ op.slot \in dstNews'
      BY <1>2, <2>5, <3>1 DEF RemoveProjection, Unused, DestinationChanged
    <3>3. ChangedIn(e, dstNews)'
      BY <1>1, <3>1, <3>2 DEF ChangedIn, AsRecorded, Owned
    <3> QED BY <2>1, <3>3 DEF Noted
  <2>6. CASE AlreadyRemoved \/ \E s \in Slots : AdoptProjection(s)
    BY <2>2, <2>6 DEF AlreadyRemoved, AdoptProjection, destinationVars
  <2>7. CASE \E s \in Slots : CreateProjection(s)
    <3>1. PICK s \in Slots : CreateProjection(s)
      BY <2>7
    <3>2. mapping[e] # None => mapping[e].slot # s
      BY <3>1 DEF CreateProjection, Unused, Kept, Ground, Apart, MappedSlots
    <3>3. mapping[e] # None => dst'[mapping[e].slot] = dst[mapping[e].slot]
      BY <1>2, <3>1, <3>2 DEF CreateProjection
    <3> QED BY <2>2, <3>3
  <2> QED BY <2>3, <2>4, <2>5, <2>6, <2>7 DEF Write
<1> QED BY <1>4, <1>5 DEF AllNoted, AllCovered

\* A mapping that is recorded is as it was written, or the calendar changed since.
LEMMA RecordKeeps ==
  ASSUME Kept, Record
  PROVE  AllNoted' /\ AllCovered'
<1>1. /\ op \in Operation /\ op # None /\ op.event \in Events /\ op.sent /\ Running /\ phase # "listing"
      /\ op' = None
      /\ UNCHANGED <<rule, src, srcNews, srcSince, dst, dstNews, dstSince, synced, phase, run,
                     srcFeed, dstFeed, handled>>
      /\ \A e \in Events \ {op.event} : mapping'[e] = mapping[e]
      /\ op.kind = "delete" => mapping'[op.event] = None
      /\ op.kind # "delete" =>
           /\ mapping'[op.event] = [slot |-> op.slot, rev |-> op.rev, shown |-> op.shown]
           /\ mapping'[op.event] \in Mapping
  BY DEF Record, Kept, Ground, Typed, TypeOK, OperationTyped, Operation, Mapping, Course, NothingRead,
         ruleVars, sourceVars, destinationVars, sinceVars
<1>2. /\ srcSince \subseteq srcNews /\ dstSince \subseteq dstNews /\ rule.policy = run.policy
      /\ op.kind # "delete" => op.shown # Withheld
  BY <1>1, ProjectAssumption DEF Kept, Ground, Typed, OperationTyped, Course, SinceIsNews, MayWrite, Unchanged
<1>3. ASSUME NEW e \in Events, e # op.event
      PROVE  Noted(e)' /\ Covered(e)'
  <2>1. mapping'[e] = mapping[e] /\ Noted(e) /\ Covered(e)
    BY <1>1, <1>3 DEF Kept, AllNoted, AllCovered
  <2>2. Noted(e)'
    BY <1>1, <2>1, NotedStays
  <2>3. Covered(e)'
    BY <1>1, <1>3, <2>1, CoveredStays
  <2> QED BY <2>2, <2>3
<1>4. ASSUME NEW e \in Events, e = op.event
      PROVE  Noted(e)' /\ Covered(e)'
  <2>1. CASE e \in srcSince
    BY <1>1, <1>2, <2>1 DEF Noted, Covered, Later
  <2>2. CASE op.kind = "delete" /\ e \notin srcSince
    <3>1. WantedUnder(run.policy, e) = Withheld /\ mapping'[e] = None
      BY <1>1, <1>4, <2>2 DEF Kept, OpFresh
    <3>2. SyncedUnder(rule.policy, e)' /\ SyncedUnder(run.policy, e)'
      BY <1>1, <1>2, <3>1 DEF SyncedUnder, WantedUnder
    <3> QED BY <3>2 DEF Noted, Covered
  <2>3. CASE op.kind # "delete" /\ e \notin srcSince
    <3>1. /\ WantedUnder(run.policy, e) = op.shown /\ mapping'[e] # None
          /\ mapping'[e].slot = op.slot /\ mapping'[e].shown = op.shown
      BY <1>1, <1>4, <2>3, NoneAssumption DEF Kept, OpFresh
    <3>2. WantedUnder(rule.policy, e)' = op.shown /\ WantedUnder(run.policy, e)' = op.shown
      BY <1>1, <1>2, <3>1 DEF WantedUnder
    <3>3. CASE AsRecorded(e)'
      <4>1. SyncedUnder(rule.policy, e)' /\ SyncedUnder(run.policy, e)'
        BY <1>2, <2>3, <3>1, <3>2, <3>3 DEF AsRecorded, Owned, SyncedUnder
      <4> QED BY <4>1 DEF Noted, Covered
    <3>4. CASE ~AsRecorded(e)'
      <4>1. op.slot \in dstSince
        BY <1>1, <1>4, <2>3, <3>1, <3>4 DEF Kept, OpSent, AsRecorded, Owned
      <4>2. ChangedIn(e, dstSince)' /\ ChangedIn(e, dstNews)'
        BY <1>1, <1>2, <3>1, <3>4, <4>1 DEF ChangedIn
      <4> QED BY <1>1, <4>2 DEF Noted, Covered, Later
    <3> QED BY <3>3, <3>4
  <2> QED BY <2>1, <2>2, <2>3
<1> QED BY <1>3, <1>4 DEF AllNoted, AllCovered

\* When the cursors are saved nothing is left to come: what is not in sync is news.
LEMMA AdvanceKeeps ==
  ASSUME Kept, AdvanceCursors
  PROVE  AllNoted' /\ AllCovered'
<1>1. /\ UNCHANGED <<src, dst, mapping>> /\ phase = "advance" /\ phase' = "idle" /\ Running
      /\ synced' = TRUE /\ srcNews' = srcSince /\ dstNews' = dstSince
      /\ rule' = IF ReprojectionDone THEN [rule EXCEPT !.reproject = FALSE] ELSE rule
  BY DEF AdvanceCursors, NextCursors, EndRun, Running
<1>2. /\ rule'.policy = rule.policy
      /\ rule.reproject /\ ~(run.reproject /\ rule.policy = run.policy) => rule'.reproject
  BY <1>1 DEF ReprojectionDone, Kept, Ground, Typed, TypeOK
<1>3. ASSUME NEW e \in Events
      PROVE  Noted(e)'
  <2>1. Covered(e)
    BY <1>1, <1>3 DEF Kept, AllCovered
  <2>2. ~ToCome(e)
    BY <1>1, <1>3 DEF ToCome, Reported, Kept, Ground, Course, GoneThrough, Remaining
  <2>3. CASE SyncedUnder(run.policy, e)
    <3>1. CASE rule.policy = run.policy
      <4>1. SyncedUnder(rule.policy, e)'
        BY <1>1, <1>2, <2>3, <3>1 DEF SyncedUnder, WantedUnder
      <4> QED BY <4>1 DEF Noted
    <3>2. CASE rule.policy # run.policy
      <4>1. rule'.reproject
        BY <1>1, <1>2, <3>2 DEF Kept, Ground, Course, PolicyIsDue
      <4> QED BY <4>1 DEF Noted
    <3> QED BY <3>1, <3>2
  <2>4. CASE Later(e)
    <3>1. CASE e \in srcSince
      BY <1>1, <3>1 DEF Noted
    <3>2. CASE ChangedIn(e, dstSince)
      <4>1. ChangedIn(e, dstNews)'
        BY <1>1, <3>2 DEF ChangedIn, AsRecorded, Owned
      <4> QED BY <4>1 DEF Noted
    <3>3. CASE rule.reproject /\ ~run.reproject
      BY <1>2, <3>3 DEF Noted
    <3> QED BY <2>4, <3>1, <3>2, <3>3 DEF Later
  <2>5. CASE src[e].ended
    BY <1>1, <2>5 DEF Noted
  <2> QED BY <2>1, <2>2, <2>3, <2>4, <2>5 DEF Covered
<1> QED BY <1>1, <1>3 DEF AllNoted, AllCovered, Running

LEMMA StopKeeps ==
  ASSUME Kept, Stops
  PROVE  AllNoted' /\ AllCovered'
<1>1. /\ UNCHANGED <<rule, src, srcNews, dst, dstNews, mapping, synced>> /\ phase' = "idle"
  BY StopFacts DEF World, EndRun
<1>2. AllNoted'
  BY <1>1, NotedStays DEF Kept, AllNoted
<1> QED BY <1>1, <1>2 DEF AllCovered, Running

LEMMA KeptNext ==
  ASSUME PoliciesShowNoEdit
  PROVE  Kept /\ [Next]_vars => Kept'
<1> SUFFICES ASSUME Kept, [Next]_vars PROVE Kept'
  OBVIOUS
<1>1. Ground' /\ Knowledge' /\ EditsStandOut'
  BY GroundNext, KnowledgeNext, EditsStandOutNext DEF Kept
<1>2. Replaced' /\ Steady' /\ OpFresh' /\ OpSent'
  BY ReplacedNext, SteadyNext, OpFreshNext, OpSentNext DEF Kept
<1>3. ASSUME UNCHANGED vars
      PROVE  AllNoted' /\ AllCovered'
  <2>1. UNCHANGED <<rule, src, srcNews, srcSince, dst, dstNews, dstSince, mapping, synced, phase, run,
                    srcFeed, dstFeed, handled, op>>
    BY <1>3 DEF vars, ruleVars, sourceVars, destinationVars, sinceVars, storeVars, runVars
  <2>2. AllNoted'
    BY <2>1, NotedStays DEF Kept, AllNoted
  <2>3. Running => \A e \in Events : Covered(e)'
    BY <2>1, CoveredStays DEF Kept, AllCovered
  <2> QED BY <2>1, <2>2, <2>3 DEF AllCovered, Running
<1>4. AllNoted' /\ AllCovered'
  BY <1>3, SourceStepKeeps, PersonStepKeeps, AdministratorKeeps, StartKeeps, ListKeeps, DecisionKeeps,
     SkipKeeps, MoveKeeps, WriteKeeps, RecordKeeps, AdvanceKeeps, StopKeeps, Steps DEF Kept
<1> QED BY <1>1, <1>2, <1>4 DEF Kept

(***************************************************************************)
(* People who edit the calendar and administrators who change the policy   *)
(* may meet any number of lost answers and stopped processes, but not in   *)
(* one history: a create whose answer was lost is adopted whatever it      *)
(* shows by then, and its event counts as decided.                         *)
(***************************************************************************)
EditsOrFaults == \A b \in Bounds : b.faults = 0 \/ (b.edits = 0 /\ b.policies = 0)

LEMMA KeptInit ==
  ASSUME EditsOrFaults
  PROVE  Init => Kept
<1> SUFFICES ASSUME Init PROVE Kept
  OBVIOUS
<1>1. Ground
  BY GroundInit
<1>2. Knowledge /\ EditsStandOut
  BY DEF Init, Knowledge, NeverSeen, FeedFresh, SeenFresh, NewsRead, EditsStandOut, Running
<1>3. Replaced /\ OpFresh /\ OpSent
  BY DEF Init, Replaced, OpFresh, OpSent
<1>4. Steady
  <2>1. NoOrphans /\ Faithful
    BY DEF Init, NoOrphans, Orphan, Owned, Unused, Faithful
  <2> QED BY <2>1 DEF Init, EditsOrFaults, Steady, Tidy, Calm
<1>5. AllNoted /\ AllCovered
  BY DEF Init, AllNoted, Noted, AllCovered, Running
<1> QED BY <1>1, <1>2, <1>3, <1>4, <1>5 DEF Kept

(***************************************************************************)
(* No change is lost: an event in the sync window that is not in sync is   *)
(* due, from the saved cursors or by reprojection, whatever the runs do    *)
(* with it (ExecuteSyncRule._advance_cursors, synchronization.py).         *)
(***************************************************************************)
THEOREM NoChangeIsLost ==
  ASSUME EditsOrFaults, PoliciesShowNoEdit
  PROVE  Spec => []NoLostChange
<1>1. Init => Kept
  BY KeptInit
<1>2. Kept /\ [Next]_vars => Kept'
  BY KeptNext
<1>3. Kept => NoLostChange
  <2> SUFFICES ASSUME Kept, NEW e \in Events PROVE src[e].ended \/ InSync(e) \/ Due(e)
    BY DEF NoLostChange
  <2>1. Noted(e)
    BY DEF Kept, AllNoted
  <2> QED BY <2>1, InSyncIsSynced DEF Noted, Due, ChangedIn
<1> QED BY <1>1, <1>2, <1>3, PTL DEF Spec


-----------------------------------------------------------------------------
(***************************************************************************)
(* Reprojection.  A run leaves no event it decided on with a projection of *)
(* a former policy: what its projection shows is what was written for the  *)
(* policy of the run, or what a person made of it since.                   *)
(***************************************************************************)
Writing(e) == op # None /\ op.event = e

\* A mapped projection shows what its mapping records, or what a person wrote.
MappingTrue(e) ==
  mapping[e] # None /\ ~(Writing(e) /\ op.sent) /\ Owned(mapping[e].slot, e) =>
    dst[mapping[e].slot].shown \in {mapping[e].shown, Edited}

\* So does the one the write in flight has left, before its mapping is recorded.
WriteTrue ==
  op # None /\ op.sent /\ op.kind # "delete" /\ Owned(op.slot, op.event) =>
    dst[op.slot].shown \in {op.shown, Edited}

Truthful == WriteTrue /\ \A e \in Events : MappingTrue(e)

UpToDate(e) ==
  mapping[e] # None /\ ~Writing(e) /\ src[e].status # "gone" /\ Owned(mapping[e].slot, e) =>
    dst[mapping[e].slot].shown \notin FormerProjections(run.policy)

\* Every event the run has decided on is past the former policies.
AllReached == Running => \A e \in handled : UpToDate(e)

Reprojected ==
  Ground /\ Knowledge /\ EditsStandOut /\ Replaced /\ Tidy /\ Truthful /\ AllReached

\* Neither a person's words nor what the policy makes of a revision is a former projection.
LEMMA NotFormer ==
  ASSUME PoliciesShowNoEdit, NEW p \in Policies
  PROVE  /\ Edited \notin FormerProjections(p)
         /\ \A r \in Revs : Project[p][r] \notin FormerProjections(p)
<1>1. \A q \in Policies : Project[q] \in [Revs -> Shown \cup {Withheld}]
  BY ProjectAssumption
<1>2. ASSUME NEW q \in Policies
      PROVE  Range(Project[q]) = {Project[q][r] : r \in Revs}
  <2>1. DOMAIN Project[q] = Revs
    BY <1>1
  <2> QED BY <2>1 DEF Range
<1>3. \A q \in Policies : Edited \notin Range(Project[q])
  BY <1>2 DEF PoliciesShowNoEdit
<1>4. \A r \in Revs : Project[p][r] \in Range(Project[p])
  BY <1>2
<1>5. Edited \notin UNION {Range(Project[q]) : q \in Policies \ {p}}
  BY <1>3
<1>6. FormerProjections(p) = (UNION {Range(Project[q]) : q \in Policies \ {p}}) \ Range(Project[p])
  BY DEF FormerProjections
<1>7. Edited \notin FormerProjections(p)
  BY <1>5, <1>6
<1>8. ASSUME NEW r \in Revs
      PROVE  Project[p][r] \notin FormerProjections(p)
  BY <1>4, <1>6
<1> QED BY <1>7, <1>8

\* Where nothing moves, what was true and past the former policies stays so.
LEMMA TrueStays ==
  ASSUME NEW e \in Events, MappingTrue(e), mapping'[e] = mapping[e],
         mapping[e] # None => dst'[mapping[e].slot] = dst[mapping[e].slot],
         (Writing(e) /\ op.sent) => Writing(e)' /\ op'.sent
  PROVE  MappingTrue(e)'
  BY DEF MappingTrue, Owned, Writing

LEMMA UpToDateStays ==
  ASSUME NEW e \in Events, UpToDate(e), mapping'[e] = mapping[e], run'.policy = run.policy,
         mapping[e] # None => dst'[mapping[e].slot] = dst[mapping[e].slot],
         src[e].status = "gone" => src'[e].status = "gone",
         Writing(e) => Writing(e)'
  PROVE  UpToDate(e)'
  BY DEF UpToDate, Owned, Writing

\* A mapped projection the mapping does not account for is a person's, or nobody's.
LEMMA ChangedByPeople ==
  ASSUME NEW e \in Events, MappingTrue(e), op = None, mapping[e] # None, ~AsRecorded(e),
         Owned(mapping[e].slot, e)
  PROVE  dst[mapping[e].slot].shown = Edited
  BY DEF MappingTrue, AsRecorded, Writing

\* A step that leaves the calendars, the mappings and the operation alone.
LEMMA ReachedStays ==
  ASSUME Reprojected,
         UNCHANGED <<src, dst, mapping, op, run, phase, handled>>
  PROVE  Truthful' /\ AllReached'
<1>1. \A e \in Events : MappingTrue(e)'
  BY TrueStays DEF Reprojected, Truthful, Writing
<1>2. WriteTrue'
  BY DEF Reprojected, Truthful, WriteTrue, Owned
<1>3. handled \subseteq Events
  BY DEF Reprojected, Ground, Typed, TypeOK
<1>4. AllReached'
  BY <1>3, UpToDateStays DEF Reprojected, AllReached, Running, Writing
<1> QED BY <1>1, <1>2, <1>4 DEF Truthful

\* A person's edit shows the person's words; what a person takes away is not the event's.
LEMMA PersonReached ==
  ASSUME PoliciesShowNoEdit, Reprojected, NEW s \in Slots,
         EditProjection(s) \/ DeleteProjection(s) \/ StripProjection(s)
  PROVE  Truthful' /\ AllReached'
<1>1. /\ UNCHANGED <<src, mapping, phase, run, handled, op>>
      /\ \A t \in Slots \ {s} : dst'[t] = dst[t]
  BY PersonFacts DEF Reprojected
<1>2. /\ dst \in [Slots -> DestinationEvent] /\ handled \subseteq Events
      /\ \A e \in Events : mapping[e] # None => mapping[e].slot \in Slots
      /\ op # None => op.event \in Events /\ Running
      /\ op # None /\ op.sent => op.slot \in Slots
      /\ Running => run.policy \in Policies
  BY DEF Reprojected, Ground, Typed, TypeOK, Mapping, OperationTyped, Operation, RunTyped
<1>3. \A e \in Events : Owned(s, e)' => dst'[s].shown = Edited
  <2>1. CASE EditProjection(s)
    BY <1>2, <2>1 DEF EditProjection, DestinationEvent
  <2>2. CASE DeleteProjection(s)
    <3>1. dst'[s].status = "cancelled"
      BY <1>2, <2>2 DEF DeleteProjection, Unused
    <3> QED BY <3>1 DEF Owned
  <2>3. CASE StripProjection(s)
    <3>1. dst'[s].owner = None
      BY <1>2, <2>3 DEF StripProjection, DestinationEvent
    <3> QED BY <3>1, NoneAssumption DEF Owned
  <2> QED BY <2>1, <2>2, <2>3
<1>4. ASSUME NEW e \in Events
      PROVE  MappingTrue(e)'
  <2>1. CASE mapping[e] # None /\ mapping[e].slot = s
    BY <1>1, <1>3, <2>1 DEF MappingTrue
  <2>2. CASE mapping[e] # None => mapping[e].slot # s
    <3>1. mapping[e] # None => dst'[mapping[e].slot] = dst[mapping[e].slot]
      BY <1>1, <1>2, <2>2
    <3>2. MappingTrue(e) /\ mapping'[e] = mapping[e] /\ (Writing(e) /\ op.sent => Writing(e)' /\ op'.sent)
      BY <1>1 DEF Reprojected, Truthful, Writing
    <3> QED BY <3>1, <3>2, TrueStays
  <2> QED BY <2>1, <2>2
<1>5. WriteTrue'
  <2>1. CASE op # None /\ op.sent /\ op.slot = s
    BY <1>1, <1>2, <1>3, <2>1 DEF WriteTrue
  <2>2. CASE ~(op # None /\ op.sent /\ op.slot = s)
    BY <1>1, <1>2, <2>2 DEF WriteTrue, Reprojected, Truthful, Owned
  <2> QED BY <2>1, <2>2
<1>6. ASSUME Running, NEW e \in handled
      PROVE  UpToDate(e)'
  <2>1. e \in Events /\ UpToDate(e) /\ run.policy \in Policies
    BY <1>2, <1>6 DEF Reprojected, AllReached
  <2>2. CASE mapping[e] # None /\ mapping[e].slot = s
    <3>1. Owned(s, e)' => dst'[s].shown \notin FormerProjections(run.policy)
      BY <1>3, <2>1, NotFormer
    <3> QED BY <1>1, <2>2, <3>1 DEF UpToDate
  <2>3. CASE mapping[e] # None => mapping[e].slot # s
    <3>1. mapping[e] # None => dst'[mapping[e].slot] = dst[mapping[e].slot]
      BY <1>1, <1>2, <2>1, <2>3
    <3>2. Writing(e) => Writing(e)'
      BY <1>1 DEF Writing
    <3> QED BY <1>1, <2>1, <3>1, <3>2, UpToDateStays
  <2> QED BY <2>2, <2>3
<1> QED BY <1>1, <1>4, <1>5, <1>6 DEF Truthful, AllReached, Running


\* A source event that changes is none that the provider forgot; if it is forgotten, that is no matter.
LEMMA SourceReached ==
  ASSUME Reprojected, NEW e \in Events, EditSource(e) \/ CancelSource(e) \/ ForgetSource(e) \/ EndSource(e)
  PROVE  Truthful' /\ AllReached'
<1>1. src \in [Events -> SourceEvent] /\ handled \subseteq Events
  BY DEF Reprojected, Ground, Typed, TypeOK
<1>2. /\ UNCHANGED <<dst, mapping, phase, run, handled, op>>
      /\ \A f \in Events \ {e} : src'[f] = src[f]
  BY <1>1 DEF EditSource, CancelSource, ForgetSource, EndSource, SourceChanged, destinationVars,
              storeVars, runVars
<1>3. src[e].status = "gone" => src'[e].status = "gone"
  <2>1. CASE EditSource(e) \/ CancelSource(e) \/ ForgetSource(e)
    BY <2>1 DEF EditSource, CancelSource, ForgetSource
  <2>2. CASE EndSource(e)
    <3>1. src' = [src EXCEPT ![e] = [src[e] EXCEPT !.ended = TRUE]]
      BY <2>2 DEF EndSource
    <3> QED BY <1>1, <3>1 DEF SourceEvent
  <2> QED BY <2>1, <2>2
<1>4. \A f \in Events : MappingTrue(f)'
  BY <1>2, TrueStays DEF Reprojected, Truthful, Writing
<1>5. WriteTrue'
  BY <1>2 DEF Reprojected, Truthful, WriteTrue, Owned
<1>6. ASSUME Running, NEW f \in handled
      PROVE  UpToDate(f)'
  <2>1. UpToDate(f) /\ f \in Events /\ (src[f].status = "gone" => src'[f].status = "gone")
    BY <1>1, <1>2, <1>3, <1>6 DEF Reprojected, AllReached
  <2>2. Writing(f) => Writing(f)'
    BY <1>2 DEF Writing
  <2> QED BY <1>2, <2>1, <2>2, UpToDateStays
<1> QED BY <1>2, <1>4, <1>5, <1>6 DEF Truthful, AllReached, Running

\* A run that reads its feeds has decided nothing yet, and one that ends has nothing left to reach.
LEMMA BeginningReached ==
  ASSUME Reprojected,
         \/ \E full, rejected \in BOOLEAN : StartRun(full, rejected)
         \/ \E rejected \in BOOLEAN : ListDestination(rejected)
  PROVE  Truthful' /\ AllReached'
<1>1. op = None /\ handled = {} /\ UNCHANGED <<dst, mapping, op, handled>>
  BY DEF StartRun, ListDestination, Reprojected, Ground, Course, NothingRead, destinationVars, storeVars
<1>2. \A e \in Events : MappingTrue(e)'
  BY <1>1, TrueStays DEF Reprojected, Truthful, Writing
<1> QED BY <1>1, <1>2 DEF Truthful, WriteTrue, AllReached

LEMMA EndReached ==
  ASSUME Reprojected, WriteRefused \/ StopRun \/ AdvanceCursors
  PROVE  Truthful' /\ AllReached'
<1>1. EndRun /\ UNCHANGED <<dst, mapping>> /\ (op = None \/ ~op.sent)
  BY DEF WriteRefused, StopRun, AdvanceCursors, Pending, WritesFree, destinationVars, storeVars,
         Reprojected, Ground, Course, GoneThrough
<1>2. \A e \in Events : MappingTrue(e)'
  BY <1>1, TrueStays DEF Reprojected, Truthful, Writing
<1> QED BY <1>1, <1>2 DEF EndRun, Truthful, WriteTrue, AllReached, Running

\* A decision asks for a write, finds its projection current, or finds it somebody else's.
LEMMA DecisionReached ==
  ASSUME PoliciesShowNoEdit, Reprojected, NEW e \in Events, NEW event, NEW actual,
         Decides(e, event, actual)
  PROVE  Truthful' /\ AllReached'
<1> DEFINE decision == Decision(e, event, actual)
           expected == Project[run.policy][event.rev]
           s        == mapping[e].slot
<1>1. /\ UNCHANGED <<src, dst, run, phase>> /\ op = None /\ Running
      /\ handled' = handled \cup {e} /\ handled \subseteq Events
      /\ \A f \in Events \ {e} : mapping'[f] = mapping[f]
      /\ (mapping'[e] = None) <=> (mapping[e] = None)
      /\ mapping[e] # None => mapping'[e].slot = s
      /\ mapping' = mapping \/ (decision = "current" /\ mapping'[e].shown = expected)
      /\ decision \in {"create", "update", "delete"} => op' # None
      /\ op' # None => op'.event = e /\ ~op'.sent
  BY DecisionLeaves DEF Decides, Reprojected, Ground, Typed, TypeOK
<1>2. run.policy \in Policies /\ event.rev \in Revs
  BY <1>1 DEF Decides, Reprojected, Ground, Typed, RunTyped, SourceEvent
<1>3. /\ decision \in {"ignore", "conflict", "current", "create", "update", "delete"}
      /\ decision = "current" => mapping[e] # None /\ actual # None /\ actual.shown = expected
      /\ decision = "ignore" => mapping[e] = None
      /\ decision = "conflict" => mapping[e] # None /\ actual # None /\ actual.owner # e
  BY DecisionMeans DEF Reprojected
<1>4. MappingTrue(e)
  BY DEF Reprojected, Truthful
<1>5. ASSUME decision \in {"current", "conflict"}, Owned(s, e)
      PROVE  dst[s].shown \in {expected, Edited} /\ (decision = "conflict" => dst[s].shown = Edited)
  <2>1. PICK seen \in DestinationEvent :
          actual = Live(seen) /\ (seen = dst[s] \/ ChangedIn(e, dstSince))
    BY <1>3, <1>5 DEF Decides, Sighted
  <2>2. actual = seen
    BY <1>3, <1>5, <2>1 DEF Live
  <2>3. CASE seen = dst[s]
    BY <1>3, <1>5, <2>2, <2>3 DEF Owned
  <2>4. CASE seen # dst[s]
    <3>1. dst[s].shown = Edited
      BY <1>1, <1>3, <1>4, <1>5, <2>1, <2>4, ChangedByPeople DEF ChangedIn
    <3> QED BY <3>1
  <2> QED BY <2>3, <2>4
<1> HIDE DEF decision, expected
<1>6. MappingTrue(e)'
  <2>1. CASE mapping' = mapping
    BY <1>1, <1>4, <2>1 DEF MappingTrue, Owned, Writing
  <2>2. CASE decision = "current" /\ mapping'[e].shown = expected
    BY <1>1, <1>5, <2>2 DEF MappingTrue, Owned
  <2> QED BY <1>1, <2>1, <2>2
<1>7. ASSUME NEW f \in Events, f # e
      PROVE  MappingTrue(f)'
  BY <1>1, <1>7, TrueStays DEF Reprojected, Truthful, Writing
<1>8. WriteTrue'
  BY <1>1 DEF WriteTrue
<1>9. UpToDate(e)'
  <2>1. CASE op' # None
    BY <1>1, <2>1 DEF UpToDate, Writing
  <2>2. CASE op' = None /\ Owned(s, e)
    <3>1. decision \in {"ignore", "conflict", "current"}
      BY <1>1, <1>3, <2>2
    <3>2. CASE decision = "ignore"
      BY <1>1, <1>3, <3>2 DEF UpToDate
    <3>3. CASE decision \in {"conflict", "current"}
      <4>1. dst[s].shown \in {expected, Edited}
        BY <1>5, <2>2, <3>3
      <4>2. expected \notin FormerProjections(run.policy) /\ Edited \notin FormerProjections(run.policy)
        BY <1>2, NotFormer DEF expected
      <4>3. dst[s].shown \notin FormerProjections(run.policy)
        BY <4>1, <4>2
      <4> QED BY <1>1, <4>3 DEF UpToDate
    <3> QED BY <3>1, <3>2, <3>3
  <2>3. CASE ~Owned(s, e)
    BY <1>1, <2>3 DEF UpToDate, Owned
  <2> QED BY <2>1, <2>2, <2>3
<1>10. ASSUME NEW f \in handled, f # e
       PROVE  UpToDate(f)'
  <2>1. /\ f \in Events /\ UpToDate(f) /\ mapping'[f] = mapping[f] /\ ~Writing(f)
        /\ mapping[f] # None => dst'[mapping[f].slot] = dst[mapping[f].slot]
        /\ src[f].status = "gone" => src'[f].status = "gone"
    BY <1>1, <1>10 DEF Reprojected, AllReached, Writing
  <2> QED BY <1>1, <2>1, UpToDateStays
<1> QED BY <1>1, <1>6, <1>7, <1>8, <1>9, <1>10 DEF Truthful, AllReached

\* What a run passes over because its source cannot be read, reprojection leaves alone.
LEMMA SkipReached ==
  ASSUME Reprojected, (\E e \in Events : SkipUnverifiable(e)) \/ (\E s \in Slots : SkipReported(s))
  PROVE  Truthful' /\ AllReached'
<1>1. UNCHANGED <<src, dst, mapping, op, run, phase>> /\ op = None
  BY SkipFacts DEF World
<1>2. CASE \E s \in Slots : SkipReported(s)
  BY <1>1, <1>2, ReachedStays DEF SkipReported
<1>3. ASSUME NEW e \in Events, SkipUnverifiable(e)
      PROVE  Truthful' /\ AllReached'
  <2>1. mapping[e] # None /\ handled' = handled \cup {e} /\ Running
    BY <1>3 DEF SkipUnverifiable, Remaining, Running
  <2>2. src[e].status = "gone"
    BY <1>3, <2>1 DEF SkipUnverifiable, Unverifiable, Reprojected, Knowledge, NeverSeen
  <2>3. UpToDate(e)'
    BY <1>1, <2>2 DEF UpToDate
  <2>4. ASSUME NEW f \in handled
        PROVE  UpToDate(f)'
    <3>1. UpToDate(f) /\ f \in Events
      BY <2>1, <2>4 DEF Reprojected, AllReached, Ground, Typed, TypeOK
    <3> QED BY <1>1, <3>1, UpToDateStays DEF Writing
  <2>5. \A f \in Events : MappingTrue(f)'
    BY <1>1, TrueStays DEF Reprojected, Truthful, Writing
  <2>6. WriteTrue'
    BY <1>1 DEF WriteTrue
  <2> QED BY <1>1, <2>1, <2>3, <2>4, <2>5, <2>6 DEF Truthful, AllReached
<1> QED BY <1>2, <1>3

\* No answer is lost, so no create is adopted: each write leaves what its operation shows.
LEMMA WriteReached ==
  ASSUME Reprojected, Write
  PROVE  Truthful' /\ AllReached'
<1>1. /\ op \in Operation /\ op # None /\ op.event \in Events /\ ~op.sent /\ Running
      /\ op' \in Operation /\ op' # None /\ op'.sent /\ op'.slot \in Slots
      /\ op'.event = op.event /\ op'.kind = op.kind /\ op'.shown = op.shown
      /\ UNCHANGED <<src, mapping, phase, run, handled>>
      /\ \A t \in Slots \ {op'.slot} : dst'[t] = dst[t]
      /\ \A f \in Events \ {op.event} : mapping[f] # None => mapping[f].slot # op'.slot
  BY WriteFacts, NoneAssumption DEF Reprojected
<1>2. /\ dst \in [Slots -> DestinationEvent] /\ handled \subseteq Events
      /\ \A e \in Events : mapping[e] # None => mapping[e].slot \in Slots
      /\ op.kind # "create" => op.slot \in Slots
  BY <1>1 DEF Reprojected, Ground, Typed, TypeOK, Mapping, OperationTyped
<1>3. ASSUME NEW e \in Events, e # op.event
      PROVE  MappingTrue(e)' /\ (UpToDate(e) => UpToDate(e)')
  <2>1. mapping[e] # None => dst'[mapping[e].slot] = dst[mapping[e].slot]
    BY <1>1, <1>2, <1>3
  <2>2. MappingTrue(e) /\ ~Writing(e) /\ mapping'[e] = mapping[e]
    BY <1>1, <1>3 DEF Reprojected, Truthful, Writing
  <2>3. MappingTrue(e)'
    BY <2>1, <2>2, TrueStays
  <2>4. UpToDate(e) => UpToDate(e)'
    BY <1>1, <2>1, <2>2, UpToDateStays
  <2> QED BY <2>3, <2>4
<1>4. ASSUME NEW e \in Events, e = op.event
      PROVE  MappingTrue(e)' /\ UpToDate(e)'
  BY <1>1, <1>4 DEF MappingTrue, UpToDate, Writing
<1>5. WriteTrue'
  <2>1. CASE \E s \in Slots : AdoptProjection(s)
    <3>1. PICK s \in Slots : AdoptProjection(s)
      BY <2>1
    <3>2. Owned(s, op.event) /\ op.kind = "create"
      BY <3>1 DEF AdoptProjection, Acknowledged, Owned, Pending
    <3>3. mapping[op.event] # None /\ mapping[op.event].slot = s
      BY <1>1, <3>2 DEF Reprojected, Tidy, NoOrphans, Orphan
    <3>4. dst[s].status = "cancelled"
      BY <1>1, <3>2, <3>3 DEF Reprojected, Replaced
    <3> QED BY <3>2, <3>4 DEF Owned
  <2>2. CASE \E s \in Slots : CreateProjection(s)
    <3>1. PICK s \in Slots : CreateProjection(s)
      BY <2>2
    <3>2. op'.slot = s /\ dst'[s].shown = op.shown
      BY <1>1, <1>2, <3>1 DEF CreateProjection, Sent, Projection, Operation
    <3> QED BY <1>1, <3>2 DEF WriteTrue
  <2>3. CASE UpdateProjection
    <3>1. op.slot \in Slots /\ op'.slot = op.slot
      BY <1>1, <1>2, <2>3 DEF UpdateProjection, Pending, Sent, Operation
    <3>2. dst'[op.slot].shown = op.shown
      BY <1>2, <2>3, <3>1 DEF UpdateProjection, Projection
    <3> QED BY <1>1, <3>1, <3>2 DEF WriteTrue
  <2>4. CASE RemoveProjection \/ AlreadyRemoved
    BY <1>1, <2>4 DEF RemoveProjection, AlreadyRemoved, Pending, WriteTrue
  <2> QED BY <2>1, <2>2, <2>3, <2>4 DEF Write
<1>6. ASSUME NEW e \in handled
      PROVE  UpToDate(e)'
  BY <1>1, <1>2, <1>3, <1>4, <1>6 DEF Reprojected, AllReached
<1>7. \A e \in Events : MappingTrue(e)'
  BY <1>3, <1>4
<1> QED BY <1>1, <1>5, <1>6, <1>7 DEF Truthful, AllReached

\* The mapping records what was written, which is what the policy of the run shows.
LEMMA RecordReached ==
  ASSUME PoliciesShowNoEdit, Reprojected, Record
  PROVE  Truthful' /\ AllReached'
<1>1. /\ op \in Operation /\ op # None /\ op.event \in Events /\ op.sent /\ Running /\ op' = None
      /\ UNCHANGED <<src, dst, phase, run, handled>>
      /\ \A e \in Events \ {op.event} : mapping'[e] = mapping[e]
      /\ op.kind = "delete" => mapping'[op.event] = None
      /\ op.kind # "delete" =>
           /\ mapping'[op.event].slot = op.slot /\ mapping'[op.event].shown = op.shown
           /\ op.shown = Project[run.policy][op.rev]
      /\ op.rev \in Revs /\ run.policy \in Policies /\ handled \subseteq Events
  BY DEF Record, Reprojected, Ground, Typed, TypeOK, OperationTyped, RunTyped, Operation, MayWrite,
         ruleVars, sourceVars, destinationVars
<1>2. ASSUME NEW e \in Events, e # op.event
      PROVE  MappingTrue(e)' /\ (UpToDate(e) => UpToDate(e)')
  <2>1. MappingTrue(e) /\ ~Writing(e) /\ mapping'[e] = mapping[e]
    BY <1>1, <1>2 DEF Reprojected, Truthful, Writing
  <2>2. MappingTrue(e)'
    BY <1>1, <2>1, TrueStays
  <2>3. UpToDate(e) => UpToDate(e)'
    BY <1>1, <2>1, UpToDateStays
  <2> QED BY <2>2, <2>3
<1>3. op.kind # "delete" /\ Owned(op.slot, op.event) => dst[op.slot].shown \in {op.shown, Edited}
  BY <1>1 DEF Reprojected, Truthful, WriteTrue
<1>4. ASSUME NEW e \in Events, e = op.event
      PROVE  MappingTrue(e)'
  BY <1>1, <1>3, <1>4 DEF MappingTrue, Owned
<1>5. ASSUME NEW e \in Events, e = op.event
      PROVE  UpToDate(e)'
  <2>1. CASE op.kind = "delete"
    BY <1>1, <1>5, <2>1 DEF UpToDate
  <2>2. CASE op.kind # "delete"
    <3>1. /\ op.shown \notin FormerProjections(run.policy)
          /\ Edited \notin FormerProjections(run.policy)
      BY <1>1, <2>2, NotFormer
    <3>2. Owned(op.slot, op.event) => dst[op.slot].shown \notin FormerProjections(run.policy)
      BY <1>3, <2>2, <3>1
    <3> QED BY <1>1, <1>5, <2>2, <3>2 DEF UpToDate, Owned
  <2> QED BY <2>1, <2>2
<1>6. ASSUME NEW e \in handled
      PROVE  UpToDate(e)'
  BY <1>1, <1>2, <1>5, <1>6 DEF Reprojected, AllReached
<1>7. \A e \in Events : MappingTrue(e)'
  BY <1>2, <1>4
<1> QED BY <1>1, <1>6, <1>7 DEF Truthful, WriteTrue, AllReached

LEMMA ReprojectedNext ==
  ASSUME PoliciesShowNoEdit
  PROVE  Reprojected /\ [Next]_vars => Reprojected'
<1> SUFFICES ASSUME Reprojected, [Next]_vars PROVE Reprojected'
  OBVIOUS
<1>1. Ground' /\ Knowledge' /\ EditsStandOut' /\ Replaced' /\ Tidy'
  BY GroundNext, KnowledgeNext, EditsStandOutNext, ReplacedNext, TidyNext DEF Reprojected
<1>2. ~FailRun
  BY BudgetSteps DEF Reprojected, Ground, Tidy
<1>3. ASSUME UNCHANGED vars
      PROVE  Truthful' /\ AllReached'
  BY <1>3, ReachedStays DEF vars, sourceVars, destinationVars, storeVars, runVars
<1>4. ASSUME Administrator
      PROVE  Truthful' /\ AllReached'
  BY <1>4, AdministratorFacts, ReachedStays
     DEF Reprojected, Ground, sourceVars, destinationVars, storeVars, runVars
<1>5. ASSUME SourcesDone \/ DestinationDone \/ RemainingDone
      PROVE  Truthful' /\ AllReached'
  <2>1. UNCHANGED <<src, dst, mapping, op, run, handled>> /\ Running /\ handled \subseteq Events
    BY <1>5, MoveFacts DEF World, Running, Reprojected, Ground, Typed, TypeOK
  <2>2. (\A e \in Events : MappingTrue(e)') /\ WriteTrue'
    BY <2>1, TrueStays DEF Reprojected, Truthful, WriteTrue, Owned, Writing
  <2>3. \A e \in handled : UpToDate(e)'
    BY <2>1, UpToDateStays DEF Reprojected, AllReached, Writing
  <2> QED BY <2>1, <2>2, <2>3 DEF Truthful, AllReached
<1>6. Truthful' /\ AllReached'
  BY <1>2, <1>3, <1>4, <1>5, SourceReached, PersonReached, BeginningReached, DecisionReached, SkipReached,
     WriteReached, RecordReached, EndReached, Steps DEF Reprojected, Stops
<1> QED BY <1>1, <1>6 DEF Reprojected

\* Only a run that has gone through every mapping clears the rule's reprojection.
LEMMA OnlyAdvanceClears ==
  ASSUME Typed, [Next]_vars, rule.reproject, ~rule'.reproject
  PROVE  AdvanceCursors /\ ReprojectionDone
<1>1. ~Administrator
  BY AdministratorFacts
<1>2. CASE UNCHANGED rule
  BY <1>2
<1>3. CASE AdvanceCursors
  BY <1>3 DEF AdvanceCursors
<1>4. ASSUME Step, ~AdvanceCursors
      PROVE  UNCHANGED rule
  <2>1. CASE Write
    <3>1. \E s : Sent(s)
      BY <2>1 DEF Write, AdoptProjection, CreateProjection, UpdateProjection, RemoveProjection,
         AlreadyRemoved
    <3> QED BY <3>1 DEF Sent, ruleVars
  <2>2. CASE ~Write
    BY <1>4, <2>2 DEF Step, ListDestination, HandleSource, SkipUnverifiable, Reproject, SkipReported,
       RepairReported, SourcesDone, DestinationDone, RemainingDone, WriteRefused, Record, StopRun, ruleVars
  <2> QED BY <2>1, <2>2
<1>5. ASSUME People \/ FailRun \/ (\E full, rejected \in BOOLEAN : StartRun(full, rejected)) \/ UNCHANGED vars
      PROVE  UNCHANGED rule
  BY <1>5 DEF People, EditSource, CancelSource, ForgetSource, EndSource, EditProjection,
     DeleteProjection, StripProjection, FailRun, StartRun, vars, ruleVars
<1> QED BY <1>1, <1>2, <1>3, <1>4, <1>5 DEF Next

(***************************************************************************)
(* Reprojection reaches every mapping: when a run clears the rule's        *)
(* reprojection_required, no projection of a source it could read still    *)
(* shows what a policy the rule had before made of it, whatever people did *)
(* to either calendar and however often the policy changed meanwhile.  An  *)
(* answer that is lost is excluded: a create it left behind is adopted     *)
(* whatever it shows (ExecuteSyncRule._reproject_remaining and         *)
(* _advance_cursors, synchronization.py).                                  *)
(***************************************************************************)
THEOREM ReprojectionIsComplete ==
  ASSUME NoFaults, PoliciesShowNoEdit
  PROVE  Spec => ReprojectionReachesAll
<1>1. Init => Reprojected
  <2> SUFFICES ASSUME Init PROVE Reprojected
    OBVIOUS
  <2>1. Ground
    BY GroundInit
  <2>2. Knowledge /\ EditsStandOut
    BY DEF Init, Knowledge, NeverSeen, FeedFresh, SeenFresh, NewsRead, EditsStandOut, Running
  <2>3. Replaced /\ NoOrphans
    BY DEF Init, Replaced, NoOrphans, Orphan, Owned, Unused
  <2>4. budget.faults = 0
    BY DEF Init, NoFaults
  <2>5. Truthful /\ AllReached
    BY DEF Init, Truthful, WriteTrue, MappingTrue, AllReached
  <2> QED BY <2>1, <2>2, <2>3, <2>4, <2>5 DEF Reprojected, Tidy
<1>2. Reprojected /\ [Next]_vars => Reprojected'
  BY ReprojectedNext
<1>3. Reprojected /\ [Next]_vars =>
        [rule.reproject /\ ~rule'.reproject =>
           \A e \in Events :
             mapping[e] # None /\ Owned(mapping[e].slot, e) /\ src[e].status # "gone" =>
               dst[mapping[e].slot].shown \notin FormerProjections(rule'.policy)]_vars
  <2> SUFFICES ASSUME Reprojected, [Next]_vars, rule.reproject, ~rule'.reproject,
                      NEW e \in Events, mapping[e] # None, Owned(mapping[e].slot, e),
                      src[e].status # "gone"
               PROVE  dst[mapping[e].slot].shown \notin FormerProjections(rule'.policy)
    OBVIOUS
  <2>1. AdvanceCursors /\ ReprojectionDone
    BY OnlyAdvanceClears DEF Reprojected, Ground
  <2>2. rule'.policy = run.policy
    BY <2>1 DEF AdvanceCursors, ReprojectionDone, Reprojected, Ground, Typed, TypeOK
  <2>3. Running /\ op = None /\ e \in handled
    BY <2>1 DEF AdvanceCursors, ReprojectionDone, Running, Remaining, Reprojected, Ground, Course,
                GoneThrough
  <2>4. UpToDate(e)
    BY <2>3 DEF Reprojected, AllReached
  <2> QED BY <2>2, <2>3, <2>4 DEF UpToDate, Writing
<1> QED BY <1>1, <1>2, <1>3, PTL DEF Spec, ReprojectionReachesAll


-----------------------------------------------------------------------------
(***************************************************************************)
(* Reconciliation.  A reconciliation reads between the runs of its rule,   *)
(* so what it read is still there unless people or the administrator       *)
(* changed it, and whatever they change is due.                            *)
(***************************************************************************)
ReconcileNext == [NextCheck]_<<vars, blocked, checkVars>>

LEMMA CheckSteps ==
  ASSUME ReconcileNext
  PROVE  [Next]_vars
<1>1. CASE UNCHANGED <<vars, blocked, checkVars>>
  BY <1>1
<1>2. CASE Deciding \/ Proceeding
  BY <1>2 DEF Deciding, Proceeding, Next, Step
<1>3. CASE PassSucceeds
  BY <1>3 DEF PassSucceeds, Next, Step
<1>4. CASE ListSources \/ ListManaged \/ ReportFindings \/ ReconciliationFails
  BY <1>4 DEF ListSources, ListManaged, ReportFindings, ReconciliationFails
<1>5. CASE People \/ Administrator \/ \E full, rejected \in BOOLEAN : StartRun(full, rejected)
  BY <1>5 DEF Next
<1> QED BY <1>1, <1>2, <1>3, <1>4, <1>5 DEF ReconcileNext, NextCheck

Check ==
  [at : {"none", "due", "listed", "compared"}, blocked : SUBSET Events,
   policy : Policies \cup {None}, past : SUBSET Events,
   source : [Events -> SourceEvent \cup {None}],
   managed : [Slots -> DestinationEvent \cup {None}], calm : BOOLEAN]

CheckTyped == blocked \subseteq Events /\ check \in Check

Reporting == check.at \in {"listed", "compared"}

BetweenRuns == Reporting => ~Running

\* While nothing changes, what was read is what there is.
Recalled ==
  Reporting /\ check.calm =>
    /\ check.source = SourceListing
    /\ check.past = {e \in Events : src[e].ended}
    /\ check.policy = rule.policy
    /\ check.at = "compared" =>
         \A s \in Slots : check.managed[s] = IF ManagedNow(s) THEN dst[s] ELSE None

Consulted == Ground /\ NeverSeen /\ CheckTyped /\ BetweenRuns /\ Recalled

LEMMA NoCheckFacts ==
  /\ NoCheck \in [at : {"none"}, blocked : {{}}, policy : {None}, past : {{}},
                  source : [Events -> {None}], managed : [Slots -> {None}], calm : {TRUE}]
  /\ NoCheck.at = "none"
  BY DEF NoCheck

LEMMA PassFacts == PassSucceeds => check'.at = "due"
  BY DEF PassSucceeds, NoCheck

\* What others do changes nothing that a reconciliation read, only whether it is still undisturbed.
LEMMA NoticedFacts ==
  ASSUME CheckTyped, Noticed
  PROVE  /\ check'.at = check.at /\ check'.past = check.past /\ check'.policy = check.policy
         /\ check'.source = check.source /\ check'.managed = check.managed
         /\ check'.blocked = check.blocked
         /\ check'.calm \in BOOLEAN
         /\ check'.calm => check.calm /\ src' = src /\ dst' = dst /\ rule'.policy = rule.policy
<1> DEFINE calm == check.calm /\ src' = src /\ dst' = dst /\ rule'.policy = rule.policy
<1>1. check' = [check EXCEPT !.calm = calm]
  BY DEF Noticed
<1>2. calm \in BOOLEAN
  OBVIOUS
<1> HIDE DEF calm
<1>3. /\ check'.at = check.at /\ check'.past = check.past /\ check'.policy = check.policy
      /\ check'.source = check.source /\ check'.managed = check.managed
      /\ check'.blocked = check.blocked
      /\ check'.calm = calm
  BY <1>1 DEF CheckTyped, Check
<1>4. check'.calm \in BOOLEAN
  BY <1>2, <1>3
<1> USE DEF calm
<1>5. ASSUME check'.calm
      PROVE  check.calm /\ src' = src /\ dst' = dst /\ rule'.policy = rule.policy
  BY <1>3, <1>5, Zenon
<1> QED BY <1>3, <1>4, <1>5

\* Only a run in flight decides, proceeds and ends.
LEMMA StepsRun ==
  ASSUME Typed, Deciding \/ Proceeding
  PROVE  Running
<1>1. op # None => Running
  BY DEF Typed, OperationTyped
<1>2. CASE Write \/ WriteRefused
  BY <1>1, <1>2 DEF Write, WriteRefused, AdoptProjection, CreateProjection, UpdateProjection,
     RemoveProjection, AlreadyRemoved, Pending
<1>3. CASE Record
  BY <1>1, <1>3 DEF Record
<1>4. CASE Deciding
  BY <1>4 DEF Deciding, HandleSource, Reproject, SkipUnverifiable, RepairReported, SkipReported, Running
<1>5. CASE \/ \E rejected \in BOOLEAN : ListDestination(rejected)
           \/ SourcesDone \/ DestinationDone \/ RemainingDone
           \/ StopRun \/ AdvanceCursors \/ FailRun
  BY <1>5 DEF ListDestination, SourcesDone, DestinationDone, RemainingDone, StopRun, AdvanceCursors,
     FailRun, Running
<1> QED BY <1>2, <1>3, <1>4, <1>5 DEF Proceeding

\* People and administrators touch neither mappings nor cursors nor runs.
LEMMA OutsideRuns ==
  ASSUME People \/ Administrator
  PROVE  UNCHANGED <<mapping, synced, phase>>
  BY DEF People, EditSource, CancelSource, ForgetSource, EndSource, EditProjection, DeleteProjection,
     StripProjection, Administrator, StartPreview, FinishPreview, Enable, Pause, Degrade, ChangePolicy,
     ChangeRule, storeVars, runVars

LEMMA CheckTypedNext == Typed /\ CheckTyped /\ ReconcileNext => CheckTyped'
<1> SUFFICES ASSUME Typed, CheckTyped, ReconcileNext PROVE CheckTyped'
  OBVIOUS
<1>1. /\ src \in [Events -> SourceEvent] /\ dst \in [Slots -> DestinationEvent]
      /\ rule.policy \in Policies
  BY DEF Typed, TypeOK
<1>2. ASSUME NEW events, events \subseteq Events, Block(events)
      PROVE  blocked' \subseteq Events
  BY <1>2 DEF Block, CheckTyped
<1>3. ASSUME Deciding \/ Proceeding
      PROVE  blocked' \subseteq Events
  <2>1. ASSUME NEW e \in Events, NEW actual
        PROVE  Conflicting(e, actual) \subseteq Events
    BY DEF Conflicting
  <2>2. CASE \E e \in Events : Block(Conflicting(e, Actual(e))) \/ Block({e})
    BY <1>2, <2>1, <2>2
  <2>3. CASE \E s \in Slots : Block(UNION {Conflicting(e, Live(dstSeen[s])) : e \in MappedTo(s)})
    <3>1. \A s \in Slots : (UNION {Conflicting(e, Live(dstSeen[s])) : e \in MappedTo(s)}) \subseteq Events
      BY <2>1 DEF MappedTo
    <3> QED BY <1>2, <2>3, <3>1
  <2>4. CASE \E s \in Slots : Block({e \in MappedTo(s) : e \notin handled /\ ~OwnWrite(e, s)})
    BY <1>2, <2>4 DEF MappedTo
  <2>5. CASE Block({})
    BY <1>2, <2>5
  <2> QED BY <1>3, <2>2, <2>3, <2>4, <2>5 DEF Deciding, Proceeding
<1>4. ASSUME Noticed
      PROVE  check' \in Check
  <2> DEFINE calm == check.calm /\ src' = src /\ dst' = dst /\ rule'.policy = rule.policy
  <2>1. check' = [check EXCEPT !.calm = calm] /\ calm \in BOOLEAN
    BY <1>4 DEF Noticed
  <2> HIDE DEF calm
  <2> QED BY <2>1 DEF CheckTyped, Check
<1>5. ASSUME check' = NoCheck
      PROVE  check' \in Check
  BY <1>5 DEF NoCheck, Check
<1>6. CASE PassSucceeds
  <2>1. check' = [NoCheck EXCEPT !.at = "due", !.blocked = blocked] /\ blocked' = {}
    BY <1>6 DEF PassSucceeds
  <2> QED BY <2>1 DEF NoCheck, CheckTyped, Check
<1>7. CASE ListSources
  <2> DEFINE past == {e \in Events : src[e].ended}
  <2>1. /\ check' = [check EXCEPT !.at = "listed", !.policy = rule.policy, !.calm = TRUE,
                                  !.past = past, !.source = SourceListing]
        /\ blocked' = blocked
    BY <1>7 DEF ListSources
  <2>2. SourceListing \in [Events -> SourceEvent \cup {None}]
    BY <1>1 DEF SourceListing
  <2>3. past \subseteq Events
    OBVIOUS
  <2> HIDE DEF past
  <2> QED BY <1>1, <2>1, <2>2, <2>3 DEF CheckTyped, Check
<1>8. CASE ListManaged
  <2> DEFINE listing == [s \in Slots |-> IF ManagedNow(s) THEN dst[s] ELSE None]
  <2>1. check' = [check EXCEPT !.at = "compared", !.managed = listing] /\ blocked' = blocked
    BY <1>8 DEF ListManaged
  <2>2. listing \in [Slots -> DestinationEvent \cup {None}]
    BY <1>1
  <2> HIDE DEF listing
  <2> QED BY <2>1, <2>2 DEF CheckTyped, Check
<1>9. CASE ReportFindings \/ ReconciliationFails
  BY <1>5, <1>9 DEF ReportFindings, ReconciliationFails, CheckTyped
<1>10. CASE (Deciding \/ Proceeding) /\ Noticed
  BY <1>3, <1>4, <1>10 DEF CheckTyped
<1>11. CASE (People \/ Administrator) /\ Noticed /\ UNCHANGED <<blocked, checks>>
  BY <1>4, <1>11 DEF CheckTyped
<1>12. CASE UNCHANGED <<blocked, check>>
  BY <1>12 DEF CheckTyped
<1> QED BY <1>6, <1>7, <1>8, <1>9, <1>10, <1>11, <1>12 DEF ReconcileNext, NextCheck, checkVars


\* A reconciliation begins and ends between runs, and no run begins while it reads.
LEMMA BetweenRunsNext == Typed /\ CheckTyped /\ BetweenRuns /\ ReconcileNext => BetweenRuns'
<1> SUFFICES ASSUME Typed, CheckTyped, BetweenRuns, ReconcileNext PROVE BetweenRuns'
  OBVIOUS
<1> USE DEF BetweenRuns, Reporting
<1>1. CASE PassSucceeds
  <2>1. check'.at = "due"
    BY <1>1 DEF PassSucceeds, NoCheck
  <2> QED BY <2>1
<1>2. CASE ListSources \/ ListManaged
  <2>1. check'.at = "listed" \/ check'.at = "compared"
    BY <1>2 DEF ListSources, ListManaged, CheckTyped, Check
  <2>2. phase' = phase /\ (ListSources => phase = "idle") /\ (ListManaged => check.at = "listed")
    BY <1>2 DEF ListSources, ListManaged, vars, runVars
  <2> QED BY <1>2, <2>1, <2>2 DEF Running
<1>3. CASE ReportFindings \/ ReconciliationFails
  BY <1>3, NoCheckFacts DEF ReportFindings, ReconciliationFails
<1>4. CASE (Deciding \/ Proceeding) /\ Noticed
  <2>1. check.at \notin {"listed", "compared"}
    BY <1>4, StepsRun
  <2> QED BY <1>4, <2>1, NoticedFacts
<1>5. CASE (People \/ Administrator) /\ Noticed
  <2>1. phase' = phase
    BY <1>5, OutsideRuns
  <2> QED BY <1>5, <2>1, NoticedFacts DEF Running
<1>6. CASE \E full, rejected \in BOOLEAN :
             StartRun(full, rejected) /\ check.at \notin {"listed", "compared"} /\ UNCHANGED <<blocked, checkVars>>
  BY <1>6 DEF checkVars
<1>7. CASE UNCHANGED <<vars, blocked, checkVars>>
  BY <1>7 DEF vars, runVars, checkVars, Running
<1> QED BY <1>1, <1>2, <1>3, <1>4, <1>5, <1>6, <1>7 DEF ReconcileNext, NextCheck

LEMMA RecalledNext == Typed /\ CheckTyped /\ BetweenRuns /\ Recalled /\ ReconcileNext => Recalled'
<1> SUFFICES ASSUME Typed, CheckTyped, BetweenRuns, Recalled, ReconcileNext, Reporting', check'.calm
             PROVE  /\ check'.source = SourceListing'
                    /\ check'.past = {e \in Events : src'[e].ended}
                    /\ check'.policy = rule'.policy
                    /\ check'.at = "compared" =>
                         \A s \in Slots : check'.managed[s] = IF ManagedNow(s)' THEN dst'[s] ELSE None
  BY DEF Recalled
<1> USE DEF Reporting
<1>1. CASE PassSucceeds
  BY <1>1 DEF PassSucceeds, NoCheck
<1>2. CASE ListSources
  <2>1. /\ check'.at = "listed" /\ check'.source = SourceListing
        /\ check'.past = {e \in Events : src[e].ended} /\ check'.policy = rule.policy
        /\ UNCHANGED <<src, rule>>
    BY <1>2 DEF ListSources, CheckTyped, Check, vars, sourceVars, ruleVars
  <2> QED BY <2>1 DEF SourceListing, ListedSources
<1>3. CASE ListManaged
  <2>1. /\ check.at = "listed" /\ check'.source = check.source /\ check'.past = check.past
        /\ check'.policy = check.policy /\ check'.calm = check.calm
        /\ check'.managed = [s \in Slots |-> IF ManagedNow(s) THEN dst[s] ELSE None]
        /\ UNCHANGED <<src, rule, dst>>
    BY <1>3 DEF ListManaged, CheckTyped, Check, vars, sourceVars, ruleVars, destinationVars
  <2> QED BY <2>1 DEF Recalled, SourceListing, ListedSources, ManagedNow
<1>4. CASE ReportFindings \/ ReconciliationFails
  BY <1>4, NoCheckFacts DEF ReportFindings, ReconciliationFails
<1>5. CASE Noticed
  <2>1. /\ check.at = check'.at /\ check.calm /\ UNCHANGED <<src, dst>> /\ rule'.policy = rule.policy
        /\ check'.source = check.source /\ check'.past = check.past
        /\ check'.policy = check.policy /\ check'.managed = check.managed
    BY <1>5, NoticedFacts
  <2> QED BY <2>1 DEF Recalled, SourceListing, ListedSources, ManagedNow
<1>6. CASE \E full, rejected \in BOOLEAN :
             StartRun(full, rejected) /\ check.at \notin {"listed", "compared"} /\ UNCHANGED <<blocked, checkVars>>
  BY <1>6 DEF checkVars
<1>7. CASE UNCHANGED <<vars, blocked, checkVars>>
  <2>1. UNCHANGED <<src, dst, rule, check>>
    BY <1>7 DEF vars, sourceVars, destinationVars, ruleVars, checkVars
  <2> QED BY <2>1 DEF Recalled, SourceListing, ListedSources, ManagedNow
<1> QED BY <1>1, <1>2, <1>3, <1>4, <1>5, <1>6, <1>7 DEF ReconcileNext, NextCheck

LEMMA ConsultedNext == Consulted /\ ReconcileNext => Consulted'
  BY CheckSteps, GroundNext, NeverSeenNext, CheckTypedNext, BetweenRunsNext, RecalledNext
     DEF Consulted, Ground

LEMMA ConsultedInit == InitCheck => Consulted
<1> SUFFICES ASSUME InitCheck PROVE Consulted
  OBVIOUS
<1>1. Ground
  BY GroundInit DEF InitCheck
<1>2. NeverSeen
  BY DEF InitCheck, Init, NeverSeen
<1>3. CheckTyped
  BY DEF InitCheck, CheckTyped, Check, NoCheck
<1>4. BetweenRuns /\ Recalled
  BY NoCheckFacts DEF InitCheck, BetweenRuns, Recalled, Reporting
<1> QED BY <1>1, <1>2, <1>3, <1>4 DEF Consulted

\* What a reconciliation that nothing disturbed finds of a mapped event, in the words of the calendars.
LEMMA FoundAsItIs ==
  ASSUME Consulted, check.at = "compared", check.calm, NEW e \in Events, ~src[e].ended,
         mapping[e] # None
  PROVE  Finding(e) \in Drift <=> src[e].status # "gone" /\ ~Agrees(e)
<1> DEFINE s == mapping[e].slot
<1>1. /\ src[e] \in SourceEvent /\ src[e] # None /\ src[e].status # "none"
      /\ s \in Slots /\ dst[s] \in DestinationEvent /\ dst[s] # None
      /\ dst[s].owner \in {e, None} /\ e # None
  BY NoneAssumption DEF Consulted, Ground, Typed, TypeOK, Mapping, NeverSeen, Apart, MappedSlots
<1>2. /\ check.source = SourceListing
      /\ check.past = {f \in Events : src[f].ended}
      /\ check.policy = rule.policy
      /\ check.managed[s] = IF ManagedNow(s) THEN dst[s] ELSE None
  BY <1>1 DEF Consulted, Recalled, Reporting
<1>3. Managed(s) <=> Owned(s, e)
  BY <1>1, <1>2 DEF Managed, ManagedNow, Owned
<1>4. Owned(s, e) => check.managed[s] = dst[s]
  BY <1>1, <1>2, <1>3 DEF Managed
<1>5. CASE src[e].status = "gone"
  <2>1. check.source[e] = None /\ Unverifiable(e)
    BY <1>2, <1>5 DEF SourceListing, ListedSources, Unverifiable
  <2>2. ~Readable(e)
    BY <2>1 DEF Readable
  <2>3. Finding(e) \in {"none", "unverifiable"}
    BY <2>2 DEF Finding
  <2> QED BY <1>5, <2>3 DEF Drift
<1>6. CASE src[e].status # "gone"
  <2>1. check.source[e] = src[e]
    BY <1>1, <1>2, <1>6 DEF SourceListing, ListedSources, SourceEvent
  <2>2. Reached(e) /\ Readable(e) /\ Authoritative(e) = src[e]
    BY <1>1, <2>1 DEF Reached, Readable, Authoritative
  <2>3. Eligible(Authoritative(e)) <=> Wanted(e) # Withheld
    BY <1>2, <2>2 DEF Eligible, Wanted
  <2>4. CASE Wanted(e) = Withheld
    <3>1. Finding(e) = IF Managed(s) THEN "unexpected" ELSE "none"
      BY <2>2, <2>3, <2>4 DEF Finding
    <3> QED BY <1>3, <1>6, <2>4, <3>1 DEF Agrees, Drift
  <2>5. CASE Wanted(e) # Withheld
    <3>1. Project[check.policy][Authoritative(e).rev] = Wanted(e)
      BY <1>2, <2>2, <2>3, <2>5 DEF Wanted, Eligible
    <3>2. Finding(e) = IF ~Managed(s) THEN "missing"
                       ELSE IF check.managed[s].shown # Wanted(e) THEN "incorrect" ELSE "none"
      BY <2>2, <2>3, <2>5, <3>1 DEF Finding
    <3> QED BY <1>3, <1>4, <1>6, <2>5, <3>2 DEF Agrees, Drift
  <2> QED BY <2>4, <2>5
<1> QED BY <1>5, <1>6

(***************************************************************************)
(* If no calendar and no policy changes from the moment a reconciliation   *)
(* lists the source calendar, its report is the truth about the window: a  *)
(* mapped event is reported as drift exactly if its source can be read and *)
(* its projection is not what the policy makes of it, and every live       *)
(* projection of an event of the window that is not reported as unmapped   *)
(* is its event's mapped one.  This holds after any failures, lost         *)
(* answers and edits (ReconcileSyncRule._reconcile and                     *)
(* ReconciliationService, reconciliation.py and services.py).              *)
(***************************************************************************)
THEOREM ReportsAreTrue == SpecCheck => ReportIsTrue
<1>1. Consulted /\ ReconcileNext =>
        [ReportFindings /\ check.calm =>
           \A e \in Events : ~src[e].ended /\ ~Excluded(e) =>
             /\ mapping[e] # None =>
                  (e \in ReportedDrift <=> src[e].status # "gone" /\ ~Agrees(e))
             /\ \A s \in Slots \ UnmappedProjections :
                  Owned(s, e) => mapping[e] # None /\ mapping[e].slot = s]_<<vars, blocked, checkVars>>
  <2> SUFFICES ASSUME Consulted, ReportFindings, check.calm, NEW e \in Events, ~src[e].ended, ~Excluded(e)
               PROVE  /\ mapping[e] # None =>
                           (e \in ReportedDrift <=> src[e].status # "gone" /\ ~Agrees(e))
                      /\ \A s \in Slots \ UnmappedProjections :
                           Owned(s, e) => mapping[e] # None /\ mapping[e].slot = s
    OBVIOUS
  <2>1. check.at = "compared"
    BY DEF ReportFindings
  <2>2. ASSUME mapping[e] # None
        PROVE  e \in ReportedDrift <=> src[e].status # "gone" /\ ~Agrees(e)
    BY <2>1, <2>2, FoundAsItIs DEF ReportedDrift
  <2>3. ASSUME NEW s \in Slots, s \notin UnmappedProjections, Owned(s, e)
        PROVE  mapping[e] # None /\ mapping[e].slot = s
    <3>1. /\ dst[s] # None /\ e # None
          /\ check.past = {f \in Events : src[f].ended}
          /\ check.managed[s] = IF ManagedNow(s) THEN dst[s] ELSE None
      BY <2>1, NoneAssumption DEF Consulted, Ground, Typed, TypeOK, Recalled, Reporting
    <3>2. Managed(s) /\ check.managed[s].owner = e
      BY <2>3, <3>1 DEF Managed, ManagedNow, Owned
    <3>3. MappedTo(s) # {}
      BY <2>3, <3>2 DEF UnmappedProjections
    <3>4. PICK f \in Events : mapping[f] # None /\ mapping[f].slot = s
      BY <3>3 DEF MappedTo
    <3>5. dst[s].owner \in {f, None}
      BY <3>4 DEF Consulted, Ground, Apart, MappedSlots
    <3> QED BY <2>3, <3>1, <3>4, <3>5 DEF Owned
  <2> QED BY <2>2, <2>3
<1> QED BY <1>1, ConsultedInit, ConsultedNext, PTL DEF SpecCheck, ReportIsTrue, ReconcileNext


(***************************************************************************)
(* Drift is due.  What the reconciliation has listed of a mapped event     *)
(* either agrees with its projection, or has changed since and is due.     *)
(***************************************************************************)
\* What fell out of the window before the source was listed, neither listing shows.
PastUnread ==
  Reporting => \A e \in check.past :
    /\ check.source[e] = None
    /\ check.at = "compared" /\ mapping[e] # None => ~Managed(mapping[e].slot)

\* Both listings show the event in sync, and so it still is.
ListedInSync(e) ==
  LET s == mapping[e].slot IN
  /\ check.source[e] # None /\ check.source[e].rev = src[e].rev
  /\ check.source[e].status = "confirmed" /\ src[e].status = "confirmed"
  /\ check.policy = rule.policy /\ Wanted(e) # Withheld
  /\ dst[s].status = "confirmed" /\ dst[s].shown = Wanted(e)
  /\ check.at = "compared" => Managed(s) /\ check.managed[s].shown = Wanted(e)

Accounted(e) ==
  \/ Due(e) \/ Unproven(e) \/ ListedInSync(e)
  \/ check.source[e] = None /\ src[e].status = "gone"

AllAccounted ==
  Reporting => \A e \in Events \ check.past : mapping[e] # None => Accounted(e)

Compared ==
  Kept /\ CheckTyped /\ BetweenRuns /\ PastUnread /\ AllAccounted

LEMMA PastUnreadNext == Ground /\ CheckTyped /\ BetweenRuns /\ PastUnread /\ ReconcileNext => PastUnread'
<1> SUFFICES ASSUME Ground, CheckTyped, BetweenRuns, PastUnread, ReconcileNext, Reporting',
                    NEW e \in check'.past
             PROVE  /\ check'.source[e] = None
                    /\ check'.at = "compared" /\ mapping'[e] # None => check'.managed[mapping'[e].slot] = None
  BY DEF PastUnread, Managed
<1> USE DEF Reporting
<1>1. ~PassSucceeds
  BY PassFacts
<1>2. CASE ListSources
  <2>1. /\ check'.at = "listed" /\ check'.source = SourceListing
        /\ check'.past = {f \in Events : src[f].ended}
    BY <1>2 DEF ListSources, CheckTyped, Check
  <2> QED BY <2>1 DEF SourceListing, ListedSources
<1>3. CASE ListManaged
  <2>1. /\ check.at = "listed" /\ check'.source = check.source /\ check'.past = check.past
        /\ check'.managed = [s \in Slots |-> IF ManagedNow(s) THEN dst[s] ELSE None]
        /\ mapping' = mapping /\ e \in Events
    BY <1>3 DEF ListManaged, CheckTyped, Check, vars, storeVars
  <2>2. ASSUME mapping[e] # None
        PROVE  check'.managed[mapping[e].slot] = None
    <3>1. dst[mapping[e].slot].owner \in {e, None} /\ mapping[e].slot \in Slots
      BY <2>1, <2>2 DEF Ground, Apart, MappedSlots, Typed, TypeOK, Mapping
    <3> QED BY <2>1, <3>1 DEF ManagedNow
  <2> QED BY <2>1, <2>2 DEF PastUnread, Managed
<1>4. ~(ReportFindings \/ ReconciliationFails)
  BY NoCheckFacts DEF ReportFindings, ReconciliationFails
<1>5. CASE (People \/ Administrator) /\ Noticed
  BY <1>5, NoticedFacts, OutsideRuns DEF PastUnread, Managed
<1>6. ~((Deciding \/ Proceeding) /\ Noticed)
  BY NoticedFacts, StepsRun DEF BetweenRuns, Ground
<1>7. ~(\E full, rejected \in BOOLEAN :
          StartRun(full, rejected) /\ check.at \notin {"listed", "compared"} /\ UNCHANGED <<blocked, checkVars>>)
  BY DEF checkVars
<1>8. CASE UNCHANGED <<vars, blocked, checkVars>>
  BY <1>8 DEF vars, storeVars, checkVars, PastUnread, Managed
<1> QED BY <1>1, <1>2, <1>3, <1>4, <1>5, <1>6, <1>7, <1>8 DEF ReconcileNext, NextCheck

\* What people and administrators do to an event that is not due makes it due, unless it stays as accounted.
LEMMA AccountedStays ==
  ASSUME Kept, People \/ Administrator,
         UNCHANGED <<check.at, check.past, check.policy, check.source, check.managed>>,
         NEW e \in Events, mapping[e] # None, Accounted(e)
  PROVE  Accounted(e)'
<1>1. /\ src \in [Events -> SourceEvent] /\ dst \in [Slots -> DestinationEvent]
      /\ mapping[e].slot \in Slots
      /\ rule \in [state : RuleStates, policy : Policies, reproject : BOOLEAN]
  BY DEF Kept, Ground, Typed, TypeOK, Mapping
<1>2. mapping' = mapping /\ synced' = synced
  BY OutsideRuns
<1>3. ASSUME NEW f \in Events, EditSource(f) \/ CancelSource(f) \/ ForgetSource(f) \/ EndSource(f)
      PROVE  Accounted(e)'
  <2>1. /\ UNCHANGED <<rule, dst, dstNews>> /\ srcNews \subseteq srcNews'
        /\ f # e => src'[e] = src[e]
    BY <1>1, <1>3 DEF EditSource, CancelSource, ForgetSource, EndSource, SourceChanged, ruleVars,
       destinationVars
  <2>2. CASE f # e
    BY <1>2, <2>1, <2>2 DEF Accounted, Due, Unproven, ListedInSync, Wanted, Managed
  <2>3. CASE EditSource(e) \/ CancelSource(e)
    <3>1. e \in srcNews'
      BY <2>3 DEF EditSource, CancelSource, SourceChanged
    <3> QED BY <3>1 DEF Accounted, Due
  <2>4. CASE ForgetSource(e)
    <3>1. src[e].status = "cancelled"
      BY <2>4 DEF ForgetSource
    <3>2. Due(e) \/ Unproven(e)
      BY <3>1 DEF Accounted, ListedInSync
    <3> QED BY <1>2, <2>1, <3>2 DEF Accounted, Due, Unproven
  <2>5. CASE EndSource(e)
    <3>1. src' = [src EXCEPT ![e] = [src[e] EXCEPT !.ended = TRUE]]
      BY <2>5 DEF EndSource
    <3>2. src'[e].status = src[e].status /\ src'[e].rev = src[e].rev
      BY <1>1, <3>1 DEF SourceEvent
    <3> QED BY <1>2, <2>1, <3>2 DEF Accounted, Due, Unproven, ListedInSync, Wanted, Managed
  <2> QED BY <1>3, <2>2, <2>3, <2>4, <2>5
<1>4. ASSUME NEW s \in Slots, EditProjection(s) \/ DeleteProjection(s) \/ StripProjection(s)
      PROVE  Accounted(e)'
  <2>1. /\ UNCHANGED <<rule, src, srcNews>> /\ dstNews' = dstNews \cup {s}
        /\ mapping[e].slot # s => dst'[mapping[e].slot] = dst[mapping[e].slot]
    BY <1>1, <1>4 DEF EditProjection, DeleteProjection, StripProjection, DestinationChanged, ruleVars,
       sourceVars
  <2>2. CASE mapping[e].slot = s
    BY <1>2, <2>1, <2>2 DEF Accounted, Due
  <2>3. CASE mapping[e].slot # s
    BY <1>2, <2>1, <2>3 DEF Accounted, Due, Unproven, ListedInSync, Wanted, Managed
  <2> QED BY <2>2, <2>3
<1>5. CASE Administrator
  <2>1. /\ UNCHANGED <<src, srcNews, dst, dstNews>>
        /\ (rule'.policy = rule.policy /\ rule'.reproject = rule.reproject) \/ rule'.reproject
    BY <1>5, AdministratorFacts DEF Kept, Ground, sourceVars, destinationVars
  <2>2. CASE rule'.reproject
    BY <2>2 DEF Accounted, Due
  <2>3. CASE rule'.policy = rule.policy /\ rule'.reproject = rule.reproject
    BY <1>2, <2>1, <2>3 DEF Accounted, Due, Unproven, ListedInSync, Wanted, Managed
  <2> QED BY <2>1, <2>2, <2>3
<1> QED BY <1>3, <1>4, <1>5 DEF People


LEMMA AllAccountedNext ==
  Kept /\ CheckTyped /\ BetweenRuns /\ PastUnread /\ AllAccounted /\ ReconcileNext => AllAccounted'
<1> SUFFICES ASSUME Kept, CheckTyped, BetweenRuns, PastUnread, AllAccounted, ReconcileNext, Reporting',
                    NEW e \in Events, e \notin check'.past, mapping'[e] # None
             PROVE  Accounted(e)'
  BY DEF AllAccounted
<1> USE DEF Reporting
<1>1. ~PassSucceeds
  BY PassFacts
<1>2. CASE ListSources
  <2>1. /\ check'.at = "listed" /\ check'.source = SourceListing /\ check'.policy = rule.policy
        /\ check'.past = {f \in Events : src[f].ended}
        /\ UNCHANGED <<rule, src, srcNews, dst, dstNews, mapping, synced>>
    BY <1>2 DEF ListSources, CheckTyped, Check, vars, ruleVars, sourceVars, destinationVars, storeVars
  <2>2. ~src[e].ended /\ src[e] # None /\ mapping[e] # None
    BY <2>1, NoneAssumption DEF Kept, Ground, Typed, TypeOK
  <2>3. Noted(e)
    BY DEF Kept, AllNoted
  <2>4. CASE ~SyncedUnder(rule.policy, e)
    BY <2>1, <2>2, <2>3, <2>4 DEF Noted, ChangedIn, Accounted, Due
  <2>5. CASE SyncedUnder(rule.policy, e)
    <3>1. CASE dst[mapping[e].slot].status = "confirmed" /\ dst[mapping[e].slot].owner # e
      BY <2>1, <3>1 DEF Accounted, Unproven
    <3>2. CASE src[e].status = "gone"
      BY <2>1, <3>2 DEF Accounted, SourceListing, ListedSources
    <3>3. CASE /\ WantedUnder(rule.policy, e) # Withheld /\ dst[mapping[e].slot].status = "confirmed"
               /\ dst[mapping[e].slot].shown = WantedUnder(rule.policy, e)
      <4>1. src[e].status = "confirmed" /\ Wanted(e) = WantedUnder(rule.policy, e)
        BY <3>3 DEF WantedUnder, Wanted
      <4>2. check'.source[e] = src[e]
        BY <2>1, <2>2, <4>1 DEF SourceListing, ListedSources
      <4>3. Wanted(e)' = Wanted(e)
        BY <2>1 DEF Wanted
      <4>4. ListedInSync(e)'
        BY <2>1, <2>2, <3>3, <4>1, <4>2, <4>3 DEF ListedInSync
      <4> QED BY <4>4 DEF Accounted
    <3> QED BY <2>2, <2>5, <3>1, <3>2, <3>3 DEF SyncedUnder
  <2> QED BY <2>4, <2>5
<1>3. CASE ListManaged
  <2>1. /\ check.at = "listed" /\ check'.source = check.source /\ check'.past = check.past
        /\ check'.policy = check.policy
        /\ check'.managed = [s \in Slots |-> IF ManagedNow(s) THEN dst[s] ELSE None]
        /\ UNCHANGED <<rule, src, srcNews, dst, dstNews, mapping, synced>>
    BY <1>3 DEF ListManaged, CheckTyped, Check, vars, ruleVars, sourceVars, destinationVars, storeVars
  <2>2. Accounted(e) /\ mapping[e] # None
    BY <2>1 DEF AllAccounted
  <2>3. CASE ~ListedInSync(e) \/ Unproven(e)
    BY <2>1, <2>2, <2>3 DEF Accounted, Due, Unproven
  <2>4. CASE ListedInSync(e) /\ ~Unproven(e)
    <3> DEFINE s == mapping[e].slot
    <3>1. /\ s \in Slots /\ dst[s].status = "confirmed" /\ dst[s].owner = e /\ e # None /\ dst[s] # None
          /\ dst[s].shown = Wanted(e)
      BY <2>2, <2>4, NoneAssumption DEF ListedInSync, Unproven, Kept, Ground, Typed, TypeOK, Mapping
    <3>2. check'.managed[s] = dst[s]
      BY <2>1, <3>1 DEF ManagedNow
    <3> QED BY <2>1, <2>4, <3>1, <3>2 DEF Accounted, ListedInSync, Wanted, Managed
  <2> QED BY <2>3, <2>4
<1>4. ~(ReportFindings \/ ReconciliationFails)
  BY NoCheckFacts DEF ReportFindings, ReconciliationFails
<1>5. CASE (People \/ Administrator) /\ Noticed
  <2>1. UNCHANGED <<check.at, check.past, check.policy, check.source, check.managed>>
    BY <1>5, NoticedFacts
  <2>2. Accounted(e) /\ mapping[e] # None
    BY <1>5, <2>1, OutsideRuns DEF AllAccounted
  <2> QED BY <1>5, <2>1, <2>2, AccountedStays
<1>6. ~((Deciding \/ Proceeding) /\ Noticed)
  BY NoticedFacts, StepsRun DEF BetweenRuns, Kept, Ground
<1>7. ~(\E full, rejected \in BOOLEAN :
          StartRun(full, rejected) /\ check.at \notin {"listed", "compared"} /\ UNCHANGED <<blocked, checkVars>>)
  BY DEF checkVars
<1>8. CASE UNCHANGED <<vars, blocked, checkVars>>
  <2>1. UNCHANGED <<rule, src, srcNews, dst, dstNews, mapping, synced, check>>
    BY <1>8 DEF vars, ruleVars, sourceVars, destinationVars, storeVars, checkVars
  <2>2. Accounted(e)
    BY <2>1 DEF AllAccounted
  <2> QED BY <2>1, <2>2 DEF Accounted, Due, Unproven, ListedInSync, Wanted, Managed
<1> QED BY <1>1, <1>2, <1>3, <1>4, <1>5, <1>6, <1>7, <1>8 DEF ReconcileNext, NextCheck

(***************************************************************************)
(* Whatever a reconciliation reports as drift, the next run repairs: the   *)
(* event is due from the saved cursors or by reprojection, or somebody     *)
(* took its Managed Origin away and no run may touch it.  People and the   *)
(* administrator may have acted between any two of its reads: a difference *)
(* between an older and a newer listing is then due as well                *)
(* (ReconcileSyncRule._reconcile, reconciliation.py).                      *)
(***************************************************************************)
THEOREM ReportedDriftIsDue ==
  ASSUME EditsOrFaults, PoliciesShowNoEdit
  PROVE  SpecCheck => DriftIsDue
<1>1. InitCheck => Compared
  <2> SUFFICES ASSUME InitCheck PROVE Compared
    OBVIOUS
  <2>1. Kept
    BY KeptInit DEF InitCheck
  <2>2. CheckTyped /\ BetweenRuns
    BY ConsultedInit DEF Consulted
  <2>3. PastUnread /\ AllAccounted
    BY NoCheckFacts DEF InitCheck, PastUnread, AllAccounted, Reporting
  <2> QED BY <2>1, <2>2, <2>3 DEF Compared
<1>2. Compared /\ ReconcileNext => Compared'
  <2> SUFFICES ASSUME Compared, ReconcileNext PROVE Compared'
    OBVIOUS
  <2>1. Kept'
    BY CheckSteps, KeptNext DEF Compared
  <2>2. CheckTyped' /\ BetweenRuns'
    BY CheckTypedNext, BetweenRunsNext DEF Compared, Kept, Ground
  <2>3. PastUnread' /\ AllAccounted'
    BY PastUnreadNext, AllAccountedNext DEF Compared, Kept
  <2> QED BY <2>1, <2>2, <2>3 DEF Compared
<1>3. Compared =>
        [ReportFindings => \A e \in ReportedDrift : Due(e) \/ Unproven(e)]_<<vars, blocked, checkVars>>
  <2> SUFFICES ASSUME Compared, check.at = "compared", NEW e \in Events, Finding(e) \in Drift
               PROVE  Due(e) \/ Unproven(e)
    BY DEF ReportFindings, ReportedDrift
  <2>1. Reached(e) /\ Readable(e)
    BY DEF Finding, Drift
  <2>2. e \notin check.past
    BY <2>1 DEF Reached, Compared, PastUnread, Reporting
  <2>3. Accounted(e)
    BY <2>1, <2>2 DEF Reached, Compared, AllAccounted, Reporting
  <2>4. ~(check.source[e] = None /\ src[e].status = "gone")
    BY <2>1 DEF Readable, Unverifiable
  <2>5. ~ListedInSync(e)
    <3> SUFFICES ASSUME ListedInSync(e) PROVE FALSE
      OBVIOUS
    <3>1. /\ Authoritative(e) = check.source[e]
          /\ Project[check.policy][Authoritative(e).rev] = Wanted(e) /\ Wanted(e) # Withheld
          /\ Managed(mapping[e].slot) /\ check.managed[mapping[e].slot].shown = Wanted(e)
      BY DEF ListedInSync, Authoritative, Wanted
    <3>2. Eligible(Authoritative(e))
      BY <3>1 DEF Eligible, ListedInSync
    <3>3. Finding(e) = "none"
      BY <2>1, <3>1, <3>2 DEF Finding
    <3> QED BY <3>3 DEF Drift
  <2> QED BY <2>3, <2>4, <2>5 DEF Accounted
<1> QED BY <1>1, <1>2, <1>3, PTL DEF SpecCheck, DriftIsDue, ReconcileNext

=============================================================================
