---------------------------- MODULE MCRuleOrder -----------------------------
(* Small instances of RuleOrder for TLC.                                   *)
EXTENDS RuleHistory, TLC

(* Calls and rules differ only by name.                                    *)
Symmetry == Permutations(Calls) \cup Permutations(Rules)
=============================================================================
