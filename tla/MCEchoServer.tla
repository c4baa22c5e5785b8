---- MODULE MCEchoServer ----
(***************************************************************************)
(* The instance of EchoServer for TLC.  A header is written as minus the   *)
(* length that it announces: that of a payload too short for a Drone, that *)
(* of a Drone, and that of a longer one.                                   *)
(***************************************************************************)
EXTENDS EchoServer, Integers

MCHeader == {-1, -2, -3}
MCUnit == MCHeader \cup {0}
MCAnnounced == [h \in MCHeader |-> -h]
====
