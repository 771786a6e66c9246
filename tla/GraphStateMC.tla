---------------------------- MODULE GraphStateMC ----------------------------
(* Small graph-state deployments for TLC. *)
EXTENDS GraphState, TLC

CONSTANTS q1, q2, A, B, C

Tenth == Unit \div 10

\* A and B together, praised or blamed; C alone; A twice with C.
Praise == [mentions |-> A :> <<Unit>> @@ B :> <<Unit>>, pairs |-> {A, B} :> 1]
Blame == [mentions |-> A :> <<-Unit>> @@ B :> <<-Unit>>, pairs |-> {A, B} :> 1]
Alone == [mentions |-> C :> <<0>>, pairs |-> EmptyGraph]
Twice == [mentions |-> A :> <<Unit, -Unit>> @@ C :> <<Tenth>>, pairs |-> {A, C} :> 2]

FourResults == {Praise, Blame, Alone, Twice}
TwoResults == {Praise, Twice}

\* Sent by hand: a pair without mentions, which the processor never produces.
PairOnly == [mentions |-> EmptyGraph, pairs |-> {B, C} :> 1]
HandMade == {PairOnly}
NoPosts == {}
=============================================================================
