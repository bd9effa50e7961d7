---------------------------- MODULE MCRevocation ----------------------------
(* Small instances of Revocation for TLC: two registries, one with two     *)
(* credentials, and requests that name one, all of a registry, or all.     *)
EXTENDS Revocation, TLC

CONSTANTS c1, c2, d1, g1, g2

RegistryOfEach == c1 :> g1 @@ c2 :> g1 @@ d1 :> g2

Whole(g) == g :> {}
One(g, c) == g :> {c}

ClientCalls ==
    [op : {"publish"}, map : {<<>>, Whole(g1), One(g1, c1), One(g1, c1) @@ Whole(g2)}]
    \cup [op : {"clear"}, map : {<<>>, One(g1, c1)}]
    \cup [op : {"auto", "mark"}, map : {One(g1, c1)}]
    \cup {[op |-> "record", map |-> One(g1, c1)], [op |-> "pending", map |-> Whole(g1)],
          [op |-> "fix", map |-> Whole(g1)]}
=============================================================================
