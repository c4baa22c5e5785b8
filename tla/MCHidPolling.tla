---------------------------- MODULE MCHidPolling ----------------------------
(* Two hosts and two ports, so that a piece of a line can be another address;
   one line of every kind. *)
EXTENDS HidPolling

CONSTANTS h1, h2, p1, p2

MCHostName == {h1, h2}
MCPortNo == {p1, p2}
MCLines == {DefaultLine, [host |-> h2, port |-> p2], [host |-> h2, port |-> BadPort], NoText}
=============================================================================
