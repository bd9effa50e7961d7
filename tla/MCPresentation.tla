--------------------------- MODULE MCPresentation ---------------------------
(* Small instances of Presentation for TLC: an actor without the role, a   *)
(* verifier under its invitation's key only, and one under its DID and its *)
(* label.  By DID and by key, a lookup meets each of: a verifier, another  *)
(* actor, nobody and a label that is a verifier's, nobody at all.          *)
EXTENDS Presentation, TLC

Nobody == [i \in Ids |-> "none"]

SmallRegisters ==
    {[Nobody EXCEPT !["did"] = "actor"],
     [Nobody EXCEPT !["key"] = "verifier"],
     [Nobody EXCEPT !["did"] = "verifier", !["label"] = "verifier"]}

Symmetry == Permutations(Requests) \cup Permutations(Exchanges)
=============================================================================
