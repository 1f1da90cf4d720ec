---------------------------- MODULE MCRuleRemoval ----------------------------
(***************************************************************************)
(* Instances of RuleRemoval: two events, any of them mapped at the start,  *)
(* two requests that may both ask twice.                                   *)
(***************************************************************************)
EXTENDS RuleRemoval

CONSTANTS e1, e2, q1, q2
=============================================================================
