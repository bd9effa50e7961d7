--------------------------- MODULE MCDefinitions ---------------------------
(* Small instances of DefinitionPublication for TLC.                       *)
EXTENDS DefinitionPublication, TLC

Symmetry == Permutations(Requests) \cup Permutations(AttrSets) \cup Permutations(Dids)
=============================================================================
