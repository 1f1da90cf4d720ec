----------------------------- MODULE MCActivity -----------------------------
(***************************************************************************)
(* A small instance of Activity: an event is blocked with its title known  *)
(* or not, repaired, or reported as cancelled without a title.             *)
(*                                                                         *)
(* What the other modules say needs no interleaving: one of them runs, and *)
(* the others stay as they began.  A projection's times lie before, across *)
(* and in the sync window, which begins in day 1, UTC.                       *)
(***************************************************************************)
EXTENDS Activity, ActivityQueries, SourceChanges, Projections

MCDecisions == {[act |-> "block", titled |-> TRUE], [act |-> "block", titled |-> FALSE],
                [act |-> "repair", titled |-> TRUE], [act |-> "other", titled |-> FALSE]}

MCTimes == {[allDay |-> FALSE, from |-> 1, to |-> 3], [allDay |-> FALSE, from |-> 9, to |-> 11],
            [allDay |-> TRUE, from |-> 0, to |-> 1]}
MCOffsets == {-2, 1}

VARIABLE scene   \* the module that runs

tables == <<entries, rows>>
observed == <<listings, memory>>

MCInit ==
  /\ scene \in {"activity", "names", "recent", "changes", "projections"}
  /\ Init /\ InitTables /\ InitChanges /\ InitProjections

MCNext ==
  /\ UNCHANGED scene
  /\ \/ scene = "activity" /\ Next /\ UNCHANGED <<tables, observed, pvars>>
     \/ scene = "names" /\ NextEntry /\ UNCHANGED <<vars, observed, pvars>>
     \/ scene = "recent" /\ NextRow /\ UNCHANGED <<vars, observed, pvars>>
     \/ scene = "changes" /\ NextChanges /\ UNCHANGED <<vars, tables, pvars>>
     \/ scene = "projections" /\ NextProjections /\ UNCHANGED <<vars, tables, observed>>

MCSpec == MCInit /\ [][MCNext]_<<scene, vars, tables, observed, pvars>>
=============================================================================
