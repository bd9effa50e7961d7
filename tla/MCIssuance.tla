----------------------------- MODULE MCIssuance -----------------------------
(* Small instances of Issuance for TLC.  What an exchange or a DID is      *)
(* called, and which request is which, makes no difference to safety.      *)
EXTENDS Issuance, TLC

Symmetry == Permutations(Requests) \cup Permutations(Exchanges) \cup Permutations(Dids)
=============================================================================
