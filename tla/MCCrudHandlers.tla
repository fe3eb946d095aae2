-------------------------- MODULE MCCrudHandlers ---------------------------
(* Small instances of CrudHandlers for TLC.                                *)
EXTENDS CrudHandlers, TLC

(* Calls and fields differ only by name.                                   *)
Symmetry == Permutations(Calls) \cup Permutations(Fields)
=============================================================================
