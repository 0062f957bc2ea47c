-------------------------- MODULE MCPracticeRules --------------------------
(***************************************************************************)
(* Instances of PracticeRulesCheck for TLC.                                *)
(***************************************************************************)
EXTENDS PracticeRulesCheck

CONSTANTS s1

Piece  == [id |-> "piece",  mode |-> "practice_days", target |-> 2]
Theory == [id |-> "theory", mode |-> "one_time",      target |-> 1]

\* A week that ends on day 2, so that the ledger runs over its seam.
MixedWeek == [student |-> s1, start |-> -4, items |-> {Piece, Theory}]
=============================================================================
