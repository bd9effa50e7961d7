---------------------------- MODULE MCOnboarding ----------------------------
(* Small instances of IssuerOnboarding for TLC.                            *)
EXTENDS IssuerOnboarding, TLC
=============================================================================
