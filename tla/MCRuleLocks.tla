---------------------------- MODULE MCRuleLocks ----------------------------
(***************************************************************************)
(* Instances of RuleLocks: two rules that may or may not exist when the    *)
(* threads start, both using the account, and a bounded number of          *)
(* operations begun by two threads.                                        *)
(***************************************************************************)
EXTENDS RuleLocks

CONSTANTS t1, t2
=============================================================================
