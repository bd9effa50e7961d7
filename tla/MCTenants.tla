----------------------------- MODULE MCTenants -----------------------------
(* Small instances of TenantLifecycle for TLC.                             *)
EXTENDS TenantLifecycle, TLC

Symmetry == Permutations(Requests) \cup Permutations(Wallets) \cup Permutations(Labels)
=============================================================================
