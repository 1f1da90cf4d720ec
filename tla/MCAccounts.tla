----------------------------- MODULE MCAccounts -----------------------------
(***************************************************************************)
(* The small instance of Accounts that TLC checks.                         *)
(***************************************************************************)
EXTENDS Accounts
=============================================================================
