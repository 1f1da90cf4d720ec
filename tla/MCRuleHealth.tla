---------------------------- MODULE MCRuleHealth ----------------------------
(***************************************************************************)
(* A small instance of RuleHealth.                                         *)
(***************************************************************************)
EXTENDS RuleHealth
=============================================================================
