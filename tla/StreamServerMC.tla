---------------------------- MODULE StreamServerMC ----------------------------
(* A stream over three short topics for TLC. *)
EXTENDS StreamServer

CONSTANTS a, b, c, noid, RawMessages, EntityMessages, GraphMessages

Messages == [t \in Topics |->
    CASE t = Raw -> RawMessages [] t = Entity -> EntityMessages [] OTHER -> GraphMessages]
=============================================================================
