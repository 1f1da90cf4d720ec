-------------------------- MODULE MCReconciliation --------------------------
(***************************************************************************)
(* Small instances of SyncRun with a reconciliation beside its runs.       *)
(***************************************************************************)
EXTENDS MCSyncRun, Reconciliation
=============================================================================
