------------------------------- MODULE MCLBAdmin -------------------------------
(***************************************************************************)
(* Two pools and a route; bodies that Validate accepts and one it refuses.   *)
(***************************************************************************)
EXTENDS LBAdmin

CONSTANTS h1, d1, u1, p1, p2

Matchless == [w \in {} |-> {}]

TokenOf == [d \in {d1} |-> "x"]

SameFold == [id \in {p1, p2} |-> id]

Nodes(weight) == <<[upstream |-> u1, weight |-> weight, enabled |-> TRUE]>>

Bodies == {Nodes(1), Nodes(0)}

Pools == <<[id |-> p1, nodes |-> Nodes(1)], [id |-> p2, nodes |-> Nodes(1)]>>

Routes == <<[domain |-> d1, pool |-> p1, fallback |-> None, force |-> FALSE]>>

RoutesTo == [pool : {p1, p2}, fallback : {None}]

=============================================================================
