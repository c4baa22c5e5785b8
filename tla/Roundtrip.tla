---- MODULE Roundtrip ----
(***************************************************************************)
(* The boot-time session from end to end: the attempts of main in          *)
(* main_ec801e_hid.c, run_roundtrip_session of drone.c with its framing    *)
(* and its socket helpers, the offload socket and the modem of             *)
(* SocketOffload, and the server of EchoServer.                            *)
(*                                                                         *)
(* Attempt k asks for connection k, so Peer of SocketOffload and Conn of   *)
(* EchoServer are the attempts.  The modem's connection is the client end  *)
(* of linkPeer: LinkOpens puts it into the server's queue, closing it is   *)
(* seen by the server, and a restart of the modem leaves it dangling.      *)
(***************************************************************************)
EXTENDS Naturals, Sequences

CONSTANTS
  GPSEC_RETRIES,
  PollLimit,      \* receives without data before the deadline of recv_all passes
  Rounds, PayloadLen, Window, SendLimit, StallLimit,
  NoPeer

Attempts == 1..GPSEC_RETRIES

ASSUME RetriesAssumption == GPSEC_RETRIES \in Nat \ {0} /\ PollLimit \in Nat
ASSUME NoPeerAssumption == NoPeer \notin Attempts

ASSUME SizesAssumption ==
  /\ Rounds \in Nat \ {0} /\ PayloadLen \in Nat \ {0} /\ Window \in Nat \ {0}
  /\ SendLimit \in Nat /\ StallLimit \in Nat

\* A frame of this firmware, 69 bytes, fits any TCP window, and the server is sent one per
\* connection (BYTES_LENGTH_DRONE of drone_bp.h, write_frame of drone.c).
ASSUME FrameFits == PayloadLen < Window /\ PayloadLen < SendLimit

VARIABLES
  allocated, connected, useTls, peer, opened, stackReady,
  link, linkPeer, pdp, urc, op, want, ret, slack,
  running, failures, conn, go, up, down, gone, taken, sent, torn, stalls,
  cpc, attempt,
  buf, polls,      \* what the current recv_all has, and its polls without data
  result,          \* ret of run_roundtrip_session
  rounds           \* history: round trips verified in this session, one at most

\* Every client here is this firmware: one header, which announces a whole Drone.
Hdr == 0
Unit == 0..PayloadLen
Header == {Hdr}
Announced == [h \in Header |-> PayloadLen]
DroneLen == PayloadLen

SO == INSTANCE SocketOffload WITH Peer <- Attempts
ES == INSTANCE EchoServer WITH Conn <- Attempts

soVars == <<allocated, connected, useTls, peer, opened, stackReady,
            link, linkPeer, pdp, urc, op, want, ret, slack>>
esVars == <<running, failures, conn, go, up, down, gone, taken, sent, torn, stalls>>
clientVars == <<cpc, attempt, buf, polls, result, rounds>>
vars == <<soVars, esVars, clientVars>>

MyPayload == [i \in 1..PayloadLen |-> i]
MyFrame == <<Hdr>> \o MyPayload

ClientPc == {"socket", "connect", "dial", "whdr", "wbody", "rhdr", "rbody", "close",
             "backoff", "done", "failed"}

RTTypeOK ==
  /\ SO!SOTypeOK /\ ES!ESTypeOK
  /\ cpc \in ClientPc /\ attempt \in Attempts
  /\ Len(buf) < PayloadLen /\ (cpc # "rbody" => buf = <<>>)
  /\ polls \in 0..PollLimit
  /\ result \in {"none", "ok", "fail"} /\ rounds \in 0..1

Init ==
  /\ SO!SOInit /\ ES!ESInit
  /\ cpc = "socket" /\ attempt = 1 /\ buf = <<>> /\ polls = 0
  /\ result = "none" /\ rounds = 0

----
(* Both ends of the connection *)

HasLink == link \in {"open", "peerclosed"}

\* The server's host learns that the client has hung up when the modem closes the connection.
HangsUpIfClosed ==
  /\ gone' = IF HasLink /\ link' \notin {"open", "peerclosed"}
               THEN [gone EXCEPT ![linkPeer] = TRUE] ELSE gone
  /\ UNCHANGED <<running, failures, conn, go, up, down, taken, sent, torn, stalls>>

\* The units reach the server, unless its end is closed.
Delivers(units) ==
  /\ up' = IF link = "open" /\ conn[linkPeer] # "closed"
             THEN [up EXCEPT ![linkPeer] = @ \o units] ELSE up
  /\ UNCHANGED <<running, failures, conn, go, down, gone, taken, sent, torn, stalls>>

\* k units leave what has arrived for the modem's connection.
Arrived == IF HasLink THEN down[linkPeer] ELSE <<>>
Consumes(k) ==
  /\ down' = IF k = 0 THEN down
             ELSE [down EXCEPT ![linkPeer] = SubSeq(@, k + 1, Len(@))]
  /\ UNCHANGED <<running, failures, conn, go, up, gone, taken, sent, torn, stalls>>

----
(* The client *)

ClientMoves(to) == cpc' = to /\ UNCHANGED <<attempt, rounds>>

\* Mutant: a failure leaves the half-filled buffer to the next receive.
FailsKeepingBuffer == ClientMoves("close") /\ result' = "fail" /\ polls' = 0 /\ UNCHANGED buf

\* A failure inside the session: the socket is closed next.
Fails == ClientMoves("close") /\ result' = "fail" /\ buf' = <<>> /\ polls' = 0

\* The session has returned: main goes on, waits for its next attempt, or gives up.
SessionReturns(res) ==
  /\ IF res = "ok" THEN cpc' = "done"
     ELSE IF attempt < GPSEC_RETRIES THEN cpc' = "backoff"
     ELSE cpc' = "failed"
  /\ UNCHANGED <<attempt, buf, polls, rounds>>

OpensSocket ==
  /\ cpc = "socket"
  /\ \/ SO!Create(FALSE) /\ ClientMoves("connect") /\ UNCHANGED <<buf, polls, result>>
     \/ SO!CreateFails /\ result' = "fail" /\ SessionReturns("fail")
  /\ UNCHANGED esVars

Connects ==
  /\ cpc = "connect"
  /\ \/ SO!ConnectNotReady /\ Fails
     \/ SO!ConnectStarts(attempt) /\ ClientMoves("dial") /\ UNCHANGED <<buf, polls, result>>
  /\ UNCHANGED esVars

DialsOn ==
  /\ cpc = "dial"
  /\ SO!CloseThenOpen \/ SO!NoCloseThenOpen
  /\ HangsUpIfClosed
  /\ UNCHANGED clientVars

\* Mutant: a connect error is returned without closing the socket.
DialEndsUnclosed ==
  /\ cpc = "dial"
  /\ \/ SO!OpenDone /\ ClientMoves("whdr") /\ UNCHANGED <<buf, polls, result>>
     \/ SO!OpenFails /\ result' = "fail" /\ SessionReturns("fail")
  /\ UNCHANGED esVars

DialEnds ==
  /\ cpc = "dial"
  /\ \/ SO!OpenDone /\ ClientMoves("whdr") /\ UNCHANGED <<buf, polls, result>>
     \/ SO!OpenFails /\ Fails
  /\ UNCHANGED esVars

\* send_all: one AT+QISEND takes the whole buffer.  A send that fails may have got through.
Sending(from, to, units) ==
  /\ cpc = from /\ SO!Sends
  /\ \/ ret' = "ok" /\ Delivers(units) /\ ClientMoves(to) /\ UNCHANGED <<buf, polls, result>>
     \/ ret' # "ok" /\ (Delivers(units) \/ Delivers(<<>>)) /\ Fails

SendsHeader == Sending("whdr", "wbody", <<Hdr>>)
SendsPayload == Sending("wbody", "rhdr", MyPayload)

ReceivesHeader ==
  /\ cpc = "rhdr" /\ SO!Receives /\ ret' = "ok" /\ Arrived # <<>>
  /\ Consumes(1)
  /\ IF Head(Arrived) = Hdr
       THEN ClientMoves("rbody") /\ polls' = 0 /\ UNCHANGED <<buf, result>>
       ELSE Fails

\* recv_all takes what there is; the whole payload is compared with what was sent.
ReceivesPayload ==
  /\ cpc = "rbody" /\ SO!Receives /\ ret' = "ok"
  /\ \E k \in 1..Len(Arrived) :
       LET all == buf \o SubSeq(Arrived, 1, k) IN
       /\ Len(all) <= PayloadLen
       /\ Consumes(k)
       /\ IF Len(all) < PayloadLen
            THEN buf' = all /\ ClientMoves("rbody") /\ UNCHANGED <<polls, result>>
          ELSE IF all = MyPayload
            THEN /\ cpc' = "close" /\ result' = "ok" /\ rounds' = rounds + 1
                 /\ buf' = <<>> /\ polls' = 0 /\ UNCHANGED attempt
          ELSE Fails

Receiving == cpc \in {"rhdr", "rbody"} /\ SO!Receives

\* What an answer to AT+QIRD carries is lost when the answer comes too late or too slowly.
Loses == \E k \in 0..Len(Arrived) : k <= PayloadLen /\ Consumes(k)

\* Mutant: recv_all sets its deadline anew in every turn of its loop.
PollsForever ==
  /\ Receiving /\ ret' = "eagain"
  /\ Loses
  /\ polls' = (IF polls < PollLimit THEN polls + 1 ELSE 0)
  /\ UNCHANGED <<cpc, attempt, buf, result, rounds>>

\* EAGAIN: recv_all polls again until its deadline.
Polls ==
  /\ Receiving /\ ret' = "eagain"
  /\ Loses
  /\ IF polls < PollLimit
       THEN polls' = polls + 1 /\ UNCHANGED <<cpc, attempt, buf, result, rounds>>
       ELSE Fails

\* Mutant: an error inside recv_all is not passed on.
ReceiveErrorIgnored ==
  /\ Receiving /\ ret' = "eio"
  /\ Loses
  /\ ClientMoves("close") /\ result' = "ok" /\ buf' = <<>> /\ polls' = 0

ReceiveFails ==
  /\ Receiving /\ ret' = "eio"
  /\ Loses
  /\ Fails

ClosesSocket ==
  /\ cpc = "close"
  /\ SO!CloseUnconnected \/ SO!CloseConnected \/ SO!CloseUnanswered
  /\ HangsUpIfClosed
  /\ SessionReturns(result) /\ UNCHANGED result

BackoffEnds ==
  /\ cpc = "backoff"
  /\ cpc' = "socket" /\ attempt' = attempt + 1 /\ rounds' = 0 /\ result' = "none"
  /\ UNCHANGED <<soVars, esVars, buf, polls>>

ClientNext ==
  \/ OpensSocket \/ Connects \/ DialsOn \/ DialEnds
  \/ SendsHeader \/ SendsPayload
  \/ ReceivesHeader \/ ReceivesPayload \/ Polls \/ ReceiveFails
  \/ ClosesSocket \/ BackoffEnds

----
(* The modem and the server *)

\* A dial completes, perhaps after the client has given it up: the server has a connection.
LinkOpens ==
  /\ SO!LinkOpens /\ ES!Connects(linkPeer)
  /\ UNCHANGED clientVars

LinkRefused ==
  /\ SO!LinkRefused
  /\ UNCHANGED <<esVars, clientVars>>

PeerCloses ==
  /\ SO!PeerCloses /\ conn[linkPeer] = "closed"
  /\ UNCHANGED <<esVars, clientVars>>

\* The server is told nothing.
ModemReboots ==
  /\ SO!ModemReboots
  /\ UNCHANGED <<esVars, clientVars>>

ServerServes == (\E c \in Attempts : ES!Serves(c)) /\ UNCHANGED <<soVars, clientVars>>
ServerAcceptFails == ES!AcceptFails /\ UNCHANGED <<soVars, clientVars>>

Next ==
  \/ ClientNext
  \/ LinkOpens \/ LinkRefused \/ PeerCloses \/ ModemReboots
  \/ ServerServes \/ ServerAcceptFails

\* main runs, every wait of it has a deadline; so have the server's goroutines.
Fairness ==
  /\ WF_vars(ClientNext)
  /\ \A c \in Attempts : WF_vars(ES!Serves(c) /\ UNCHANGED <<soVars, clientVars>>)

Spec == Init /\ [][Next]_vars /\ Fairness

----
(* Properties *)

\* A session that reports success has made a real round trip: some connection carried this
\* firmware's frame to the server, whole, and the server's echo of it back, whole, whatever
\* was late, lost or retried before (run_roundtrip_session).
SuccessIsEchoed ==
  result = "ok" => \E c \in Attempts : taken[c] = MyFrame /\ sent[c] = MyFrame

\* Between attempts and at the end no socket is left allocated, and the modem is left with a
\* connection only if it did not answer: the next attempt can have the one socket there is.
NothingIsLeaked ==
  cpc \in {"socket", "backoff", "done", "failed"} =>
    ~allocated /\ ~opened /\ (link # "closed" => slack # {})

\* The session ends: with a round trip, or after GPSEC_RETRIES failures.
SessionEnds == <>(cpc \in {"done", "failed"})

\* Whatever becomes of the firmware's side, also when the modem restarts and never says so,
\* the server does not keep a connection for ever: here a reply fits the window.
ServerConnectionsEnd == \A c \in Attempts : conn[c] = "served" ~> conn[c] = "closed"
====
