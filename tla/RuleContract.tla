---------------------------- MODULE RuleContract ----------------------------
(***************************************************************************)
(* What a Sync Rule promises about its destination calendar, with no runs, *)
(* mappings, cursors or locks: it writes only while it is enabled, only    *)
(* under its current policy, only to projections it owns and can prove it  *)
(* owns; and it is only enabled under a policy that was previewed.         *)
(***************************************************************************)
CONSTANTS Events, Slots, Policies, Shown, Edited, Withheld, Project, None

VARIABLES
  state,       \* the rule's lifecycle state
  policy,      \* its transformation policy
  previewing,  \* the policy a preview in progress reads, or None
  calendar     \* the destination calendar

vars == <<state, policy, previewing, calendar>>

Init ==
  /\ state = "draft" /\ policy \in Policies /\ previewing = None
  /\ calendar = [s \in Slots |-> [status |-> "unused", owner |-> None, shown |-> None]]

Previewable == {"draft", "paused", "degraded"}

StartPreview ==
  /\ previewing = None /\ state \in Previewable
  /\ previewing' = policy
  /\ UNCHANGED <<state, policy, calendar>>

\* Only the policy that was read is validated; a preview overtaken by a change is void.
FinishPreview ==
  /\ previewing # None /\ previewing' = None
  /\ \/ state \in Previewable /\ previewing = policy /\ state' = "previewed"
     \/ state' = state
  /\ UNCHANGED <<policy, calendar>>

Enable ==
  /\ state = "previewed" /\ state' = "enabled"
  /\ UNCHANGED <<policy, previewing, calendar>>

Stop ==
  /\ state' \in {"paused", "degraded"}
  /\ UNCHANGED <<policy, previewing, calendar>>

ChangePolicy ==
  /\ policy' \in Policies /\ state' \in Previewable
  /\ UNCHANGED <<previewing, calendar>>

Change(s, event) ==
  /\ calendar' = [calendar EXCEPT ![s] = event]
  /\ UNCHANGED <<state, policy, previewing>>

Cancelled == [status |-> "cancelled", owner |-> None, shown |-> None]

\* A person edits a projection, takes away the evidence of its owner, or deletes it.
Person(s) ==
  /\ calendar[s].status = "confirmed"
  /\ \/ Change(s, [calendar[s] EXCEPT !.shown = Edited])
     \/ Change(s, [calendar[s] EXCEPT !.owner = None])
     \/ Change(s, Cancelled)

Projection(e, r) == [status |-> "confirmed", owner |-> e, shown |-> Project[policy][r]]

Projects(e, s) ==
  /\ state = "enabled"
  /\ calendar[s].status = "unused" \/ calendar[s].owner = e
  /\ \E r \in DOMAIN Project[policy] :
       Project[policy][r] # Withheld /\ Change(s, Projection(e, r))

Removes(e, s) ==
  /\ state = "enabled"
  /\ calendar[s].owner = e
  /\ Change(s, Cancelled)

Next ==
  \/ StartPreview \/ FinishPreview \/ Enable \/ Stop \/ ChangePolicy
  \/ \E s \in Slots : Person(s)
  \/ \E e \in Events, s \in Slots : Projects(e, s) \/ Removes(e, s)

Spec == Init /\ [][Next]_vars
=============================================================================
