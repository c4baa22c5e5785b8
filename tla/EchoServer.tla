---- MODULE EchoServer ----
(***************************************************************************)
(* The echo server of cmd/gpsce/main.go.  The main goroutine accepts; one  *)
(* goroutine per connection reads a frame, writes it back, and does so     *)
(* Rounds times.  Every read and write has a deadline.                     *)
(*                                                                         *)
(* A frame is a header unit and as many payload units as the header        *)
(* announces; the client chooses.  A unit stands for some bytes that       *)
(* travel together.  up and down are the units in flight on a connection;  *)
(* a direction that holds Window units is full, and a Write that makes no  *)
(* progress before its deadline times out.                                 *)
(*                                                                         *)
(* Clients here do whatever TCP lets them do.  Roundtrip puts the firmware *)
(* in their place.                                                         *)
(***************************************************************************)
EXTENDS Naturals, Sequences, SequencesExt

CONSTANTS
  Conn,
  Rounds,        \* -rounds
  Unit,
  Header,        \* the units that are a good header
  Announced,     \* the payload length that a header announces
  DroneLen,      \* what load.Decode reads of a payload
  Window,
  SendLimit,     \* bound on the units a client sends on a connection
  StallLimit     \* where the history of write timeouts stops counting

ioRetries == 3
acceptRetries == 3

ASSUME SizesAssumption ==
  /\ Rounds \in Nat \ {0} /\ Header \subseteq Unit /\ Announced \in [Header -> Nat \ {0}]
  /\ DroneLen \in Nat /\ Window \in Nat \ {0} /\ SendLimit \in Nat /\ StallLimit \in Nat

VARIABLES
  running, failures,   \* the process, and the Accept errors in a row
  conn,                \* free, queued (not yet accepted), served, closed
  go,                  \* the locals of a connection's goroutine
  up, down, gone,      \* units in flight, and whether the client has closed
  taken, sent,         \* history: units the server has read, and written until a Write tore
  torn, stalls         \* history: a Write timed out half done; timeouts of this writeFull

processVars == <<running, failures>>
wireVars == <<up, down, gone>>
ghostVars == <<taken, sent, torn, stalls>>
esVars == <<processVars, conn, go, wireVars, ghostVars>>

\* at: readFull of header or payload, writeFull of header or payload.  got: what readFull has,
\* tries: its timeouts.  hdr, payload: the frame, once read.  n: what the current Write has written.
Start == [at |-> "rhdr", got |-> <<>>, tries |-> 0, hdr |-> <<>>, payload |-> <<>>, n |-> 0,
          round |-> 0]

Reading(c) == conn[c] = "served" /\ go[c].at \in {"rhdr", "rbody"}
Writing(c) == conn[c] = "served" /\ go[c].at \in {"whdr", "wbody"}

\* The buffers of the readFull and of the writeFull a goroutine is in.  writeFrame builds its
\* header from the length of the payload, so it announces what the one that was read did.
Needed(c) == IF go[c].at = "rhdr" THEN 1 ELSE Announced[Head(go[c].hdr)]
Buffer(c) == IF go[c].at = "whdr" THEN go[c].hdr ELSE go[c].payload

ESTypeOK ==
  /\ running \in BOOLEAN /\ failures \in 0..acceptRetries
  /\ conn \in [Conn -> {"free", "queued", "served", "closed"}]
  /\ \A c \in Conn :
       /\ go[c].at \in {"rhdr", "rbody", "whdr", "wbody"}
       /\ Len(go[c].got) < Needed(c) \/ conn[c] = "closed"
       /\ go[c].tries \in 0..(ioRetries - 1) /\ go[c].round \in 0..Rounds
       /\ Writing(c) => Len(go[c].payload) = Needed(c) /\ go[c].n < Len(Buffer(c))
       /\ Len(down[c]) <= Window /\ Len(up[c]) <= SendLimit
  /\ gone \in [Conn -> BOOLEAN] /\ torn \in [Conn -> BOOLEAN]
  /\ stalls \in [Conn -> 0..StallLimit]

ESInit ==
  /\ running = TRUE /\ failures = 0
  /\ conn = [c \in Conn |-> "free"]
  /\ go = [c \in Conn |-> Start]
  /\ up = [c \in Conn |-> <<>>] /\ down = [c \in Conn |-> <<>>]
  /\ gone = [c \in Conn |-> FALSE]
  /\ taken = [c \in Conn |-> <<>>] /\ sent = [c \in Conn |-> <<>>]
  /\ torn = [c \in Conn |-> FALSE] /\ stalls = [c \in Conn |-> 0]

----
(* main: the accept loop *)

Accept(c) ==
  /\ running /\ conn[c] = "queued"
  /\ conn' = [conn EXCEPT ![c] = "served"]
  /\ failures' = 0
  /\ UNCHANGED <<running, go, wireVars, ghostVars>>

\* The process ends, and with it every connection.
ProcessEnds ==
  /\ running' = FALSE
  /\ conn' = [c \in Conn |-> IF conn[c] = "free" THEN "free" ELSE "closed"]

\* A temporary error is retried; the third, or any other error, ends the process.
AcceptFails ==
  /\ running
  /\ \/ /\ failures < acceptRetries - 1
        /\ failures' = failures + 1
        /\ UNCHANGED <<running, conn>>
     \/ ProcessEnds /\ UNCHANGED failures
  /\ UNCHANGED <<go, wireVars, ghostVars>>

----
(* serveConnection *)

\* The goroutine returns; conn.Close is deferred.
Ends(c) == conn' = [conn EXCEPT ![c] = "closed"]

Continues(c, locals) == go' = [go EXCEPT ![c] = locals] /\ UNCHANGED conn

\* The unit that completes a payload too short for a Drone.
Short(c) == go[c].at = "rbody" /\ Len(go[c].got) + 1 = Needed(c) /\ Needed(c) < DroneLen

\* Mutant: a second frame is read into the buffer that still holds the first.
ReadsStale(c) ==
  /\ Reading(c) /\ up[c] # <<>> /\ ~Short(c)
  /\ LET u == Head(up[c])
         g == go[c]
         buf == Append(g.got, u)
     IN /\ IF Len(buf) < Needed(c) THEN Continues(c, [g EXCEPT !.got = buf])
           ELSE IF g.at = "rbody"
             THEN Continues(c, [g EXCEPT !.at = "whdr", !.got = <<>>, !.n = 0,
                                  !.payload = IF @ = <<>> THEN buf ELSE @])
           ELSE IF u \in Header
             THEN Continues(c, [g EXCEPT !.at = "rbody", !.got = <<>>, !.tries = 0, !.hdr = <<u>>])
           ELSE Ends(c) /\ UNCHANGED go
        /\ taken' = [taken EXCEPT ![c] = Append(@, u)]
        /\ stalls' = [stalls EXCEPT ![c] = 0]
  /\ up' = [up EXCEPT ![c] = Tail(@)]
  /\ UNCHANGED <<processVars, down, gone, sent, torn>>

\* readFull gets a unit.  A wrong header ends the connection: its magic is wrong, or its length
\* is zero, and then readFull of the empty payload never tries and reports exhausted retries.
Reads(c) ==
  /\ Reading(c) /\ up[c] # <<>> /\ ~Short(c)
  /\ LET u == Head(up[c])
         g == go[c]
         buf == Append(g.got, u)
     IN /\ IF Len(buf) < Needed(c) THEN Continues(c, [g EXCEPT !.got = buf])
           ELSE IF g.at = "rbody"
             THEN Continues(c, [g EXCEPT !.at = "whdr", !.got = <<>>, !.n = 0, !.payload = buf])
           ELSE IF u \in Header
             THEN Continues(c, [g EXCEPT !.at = "rbody", !.got = <<>>, !.tries = 0, !.hdr = <<u>>])
           ELSE Ends(c) /\ UNCHANGED go
        /\ taken' = [taken EXCEPT ![c] = Append(@, u)]
        /\ stalls' = [stalls EXCEPT ![c] = 0]
  /\ up' = [up EXCEPT ![c] = Tail(@)]
  /\ UNCHANGED <<processVars, down, gone, sent, torn>>

\* load.Decode runs off the end of the payload, and a panic of one goroutine ends the process.
ReadsShort(c) ==
  /\ Reading(c) /\ up[c] # <<>> /\ Short(c)
  /\ ProcessEnds
  /\ taken' = [taken EXCEPT ![c] = Append(@, Head(up[c]))]
  /\ up' = [up EXCEPT ![c] = Tail(@)]
  /\ UNCHANGED <<failures, go, down, gone, sent, torn, stalls>>

\* Mutant: the attempts of a readFull are not counted.
ReadTimesOutForever(c) ==
  /\ Reading(c) /\ up[c] = <<>> /\ ~gone[c]
  /\ Continues(c, go[c])
  /\ UNCHANGED <<processVars, wireVars, ghostVars>>

\* Mutant: one attempt too many.
ReadTimesOutOnceMore(c) ==
  /\ Reading(c) /\ up[c] = <<>> /\ ~gone[c]
  /\ IF go[c].tries < ioRetries
       THEN Continues(c, [go[c] EXCEPT !.tries = @ + 1])
       ELSE Ends(c) /\ UNCHANGED go
  /\ UNCHANGED <<processVars, wireVars, ghostVars>>

\* A deadline passes: what was read is kept, and the third timeout is the last.
ReadTimesOut(c) ==
  /\ Reading(c) /\ up[c] = <<>> /\ ~gone[c]
  /\ IF go[c].tries < ioRetries - 1
       THEN Continues(c, [go[c] EXCEPT !.tries = @ + 1])
       ELSE Ends(c) /\ UNCHANGED go
  /\ UNCHANGED <<processVars, wireVars, ghostVars>>

ReadsEof(c) ==
  /\ Reading(c) /\ up[c] = <<>> /\ gone[c]
  /\ Ends(c)
  /\ UNCHANGED <<processVars, go, wireVars, ghostVars>>

\* Write moves a unit on; with the last one writeFull, the frame or the connection is done.
Writes(c) ==
  /\ Writing(c) /\ Len(down[c]) < Window
  /\ LET g == go[c]
         u == Buffer(c)[g.n + 1]
         next == [g EXCEPT !.n = 0, !.tries = 0]
     IN /\ down' = [down EXCEPT ![c] = Append(@, u)]
        /\ sent' = [sent EXCEPT ![c] = IF torn[c] THEN @ ELSE Append(@, u)]
        /\ IF g.n + 1 < Len(Buffer(c)) THEN Continues(c, [g EXCEPT !.n = @ + 1])
           ELSE IF g.at = "whdr" THEN Continues(c, [next EXCEPT !.at = "wbody"])
           ELSE IF g.round + 1 < Rounds
             THEN Continues(c, [next EXCEPT !.at = "rhdr", !.round = @ + 1])
           ELSE Ends(c) /\ go' = [go EXCEPT ![c].round = @ + 1]
        /\ stalls' = [stalls EXCEPT ![c] = IF g.n + 1 = Len(Buffer(c)) THEN 0 ELSE @]
  /\ UNCHANGED <<processVars, up, gone, taken, torn>>

\* The direction is full, and the client is there.
Stuck(c) == Writing(c) /\ ~gone[c] /\ Len(down[c]) = Window

\* The deadline passes: writeFull writes the same buffer again from its start, as often as it
\* takes, and for ever if the buffer is longer than the window and the client never in time.
WriteTimesOut(c) ==
  /\ Stuck(c)
  /\ Continues(c, [go[c] EXCEPT !.n = 0])
  /\ torn' = [torn EXCEPT ![c] = @ \/ go[c].n > 0]
  /\ stalls' = [stalls EXCEPT ![c] = IF @ < StallLimit THEN @ + 1 ELSE @]
  /\ UNCHANGED <<processVars, wireVars, taken, sent>>

\* The client has closed, and the server's host has come to know: the write fails.
WriteFails(c) ==
  /\ Writing(c) /\ gone[c]
  /\ Ends(c)
  /\ UNCHANGED <<processVars, go, wireVars, ghostVars>>

Serves(c) ==
  Accept(c) \/ Reads(c) \/ ReadsShort(c) \/ ReadTimesOut(c) \/ ReadsEof(c)
            \/ Writes(c) \/ WriteTimesOut(c) \/ WriteFails(c)

----
(* Any client *)

Connects(c) ==
  /\ running /\ conn[c] = "free"
  /\ conn' = [conn EXCEPT ![c] = "queued"]
  /\ UNCHANGED <<processVars, go, wireVars, ghostVars>>

ClientSends(c, u) ==
  /\ conn[c] \in {"queued", "served"} /\ ~gone[c]
  /\ Len(up[c]) < Window /\ Len(taken[c]) + Len(up[c]) < SendLimit
  /\ up' = [up EXCEPT ![c] = Append(@, u)]
  /\ UNCHANGED <<processVars, conn, go, down, gone, ghostVars>>

ClientReads(c) ==
  /\ down[c] # <<>>
  /\ down' = [down EXCEPT ![c] = Tail(@)]
  /\ UNCHANGED <<processVars, conn, go, up, gone, ghostVars>>

ClientCloses(c) ==
  /\ conn[c] # "free" /\ ~gone[c]
  /\ gone' = [gone EXCEPT ![c] = TRUE]
  /\ UNCHANGED <<processVars, conn, go, up, down, ghostVars>>

ClientNext ==
  \E c \in Conn :
    Connects(c) \/ (\E u \in Unit : ClientSends(c, u)) \/ ClientReads(c) \/ ClientCloses(c)

ESNext == AcceptFails \/ (\E c \in Conn : Serves(c)) \/ ClientNext

\* Every goroutine gets its turn and every deadline passes.
ESFairness == \A c \in Conn : WF_esVars(Serves(c))

ESSpec == ESInit /\ [][ESNext]_esVars /\ ESFairness

----
(* Properties *)

\* What the server has sent on a connection is a prefix of what it has read from it: frames
\* come back whole, undamaged, in order and on their own connection, through every partial
\* read and retry, unless a Write timed out half way (readFrame, writeFrame).
EchoIsPrefix == \A c \in Conn : ~torn[c] => IsPrefix(sent[c], taken[c])

\* No connection is served for ever, whatever its client sends or announces, and whether it
\* stalls or vanishes, if only a Write finds its direction full no more than finitely often:
\* every loop but that of writeFull is bounded (serveConnection, readFull, readFrame).
ConnectionsEnd ==
  \A c \in Conn : <>[]~Stuck(c) => (conn[c] = "served" ~> conn[c] = "closed")

\* README.md:72: the server has timeouts and a limited number of retries on accept, read and
\* write.
WriteRetriesLimited == \A c \in Conn : stalls[c] <= ioRetries
====
