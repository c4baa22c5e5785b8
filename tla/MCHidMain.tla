---- MODULE MCHidMain ----
(* Instances of HidMain for TLC: two hosts and two ports, so that a host and a port can be
   mixed, one line per kind of content a user can leave in hosts.txt. *)
EXTENDS HidMain

CONSTANTS h1, h2, p1, p2

MCHostName == {h1, h2}
MCPortNo == {p1, p2}
NewLine == [host |-> h2, port |-> p2]
RejectedLine == [host |-> h2, port |-> BadPort]

\* Every kind of content: default, new, bad port, empty, deleted.
AllLines == {DefaultLine, NewLine, RejectedLine, NoText, NoFile}
\* What the liveness runs need: a change and a change back.
TwoLines == {DefaultLine, NewLine}
====
