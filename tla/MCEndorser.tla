----------------------------- MODULE MCEndorser -----------------------------
(* Small instances of EndorsementProcessor for TLC.                        *)
EXTENDS EndorsementProcessor, TLC

Symmetry == Permutations(Processors) \cup Permutations(Events)
=============================================================================
