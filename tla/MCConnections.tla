---------------------------- MODULE MCConnections ----------------------------
(***************************************************************************)
(* Two nodes at most, of which one is inbound and both may be outbound; a1 *)
(* and a2 are of one network group; one slot is that of a found connection.*)
(***************************************************************************)
EXTENDS Connections

Groups == [a \in Addresses |-> IF a = "a2" THEN "a1" ELSE a]
=============================================================================
