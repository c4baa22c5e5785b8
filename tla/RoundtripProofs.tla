---- MODULE RoundtripProofs ----
(***************************************************************************)
(* Proofs about Roundtrip, for any number of attempts and any server.      *)
(*                                                                         *)
(* The session is a client of the socket of SocketOffload: each of its     *)
(* steps is a step of the socket, or leaves it alone.  So what             *)
(* SocketOffloadProofs proves of the socket holds within the session, and  *)
(* for the socket only the place where the session is remains to be        *)
(* followed.  The same for the server: its goroutines are those of         *)
(* EchoServer, whose lemmas say what a step of theirs does, and the        *)
(* streams through socket, wires and goroutine are followed here.          *)
(***************************************************************************)
EXTENDS Roundtrip, SequenceTheorems, TLAPS

SP == INSTANCE SocketOffloadProofs WITH Peer <- Attempts
EP == INSTANCE EchoServerProofs WITH Conn <- Attempts

\* Between attempts and at the end the session has no socket; only an attempt that is not the
\* last one is followed by another.
Place ==
  /\ cpc \in {"socket", "backoff", "done", "failed"} => ~allocated
  /\ attempt \in Attempts
  /\ cpc = "backoff" => attempt < GPSEC_RETRIES

----
(* The socket of the session and that of SocketOffloadProofs are the same. *)

\* One step for each call of the session, and for each step of the modem.
LEMMA SameSocket ==
  /\ SO!SOInit => SP!SOInit
  /\ SO!Create(FALSE) => SP!SONext
  /\ SO!ConnectStarts(attempt) /\ attempt \in Attempts => SP!SONext
  /\ SO!CreateFails => SP!SONext
  /\ SO!ConnectNotReady => SP!SONext
  /\ SO!CloseThenOpen => SP!SONext
  /\ SO!NoCloseThenOpen => SP!SONext
  /\ SO!OpenDone => SP!SONext
  /\ SO!OpenFails => SP!SONext
  /\ SO!Sends => SP!SONext
  /\ SO!Receives => SP!SONext
  /\ SO!CloseUnconnected => SP!SONext
  /\ SO!CloseConnected => SP!SONext
  /\ SO!CloseUnanswered => SP!SONext
  /\ SO!LinkOpens => SP!SONext
  /\ SO!LinkRefused => SP!SONext
  /\ SO!PeerCloses => SP!SONext
  /\ SO!ModemReboots => SP!SONext
<1> USE DEF SO!Returns, SP!Returns, SO!ctxVars, SP!ctxVars, SO!driverVars, SP!driverVars,
        SO!modemVars, SP!modemVars, SO!NoUrc, SP!NoUrc
<1> USE DEF SP!SONext, SP!AppNext, SP!ModemNext
<1>1. SO!SOInit => SP!SOInit BY DEF SO!SOInit, SP!SOInit
<1>2. SO!Create(FALSE) => SP!SONext
  <2>1. SO!Create(FALSE) => SP!Create(FALSE) BY DEF SO!Create, SP!Create
  <2>2. QED BY <2>1
<1>3. SO!ConnectStarts(attempt) /\ attempt \in Attempts => SP!SONext
  <2>1. SO!ConnectStarts(attempt) => SP!ConnectStarts(attempt)
    BY DEF SO!ConnectStarts, SP!ConnectStarts, SO!StackInit, SP!StackInit
  <2>2. QED BY <2>1
<1>4. SO!CreateFails => SP!SONext
  <2>1. SO!CreateFails => SP!CreateFails
    BY DEF SO!CreateFails, SP!CreateFails
  <2>2. QED BY <2>1
<1>5. SO!ConnectNotReady => SP!SONext
  <2>1. SO!ConnectNotReady => SP!ConnectNotReady
    BY DEF SO!ConnectNotReady, SP!ConnectNotReady
  <2>2. QED BY <2>1
<1>6. SO!CloseThenOpen => SP!SONext
  <2>1. SO!CloseThenOpen => SP!CloseThenOpen
    BY DEF SO!CloseThenOpen, SP!CloseThenOpen, SO!Dials, SP!Dials
  <2>2. QED BY <2>1
<1>7. SO!NoCloseThenOpen => SP!SONext
  <2>1. SO!NoCloseThenOpen => SP!NoCloseThenOpen
    BY DEF SO!NoCloseThenOpen, SP!NoCloseThenOpen, SO!Dials, SP!Dials
  <2>2. QED BY <2>1
<1>8. SO!OpenDone => SP!SONext
  <2>1. SO!OpenDone => SP!OpenDone
    BY DEF SO!OpenDone, SP!OpenDone, SO!Waits, SP!Waits
  <2>2. QED BY <2>1
<1>9. SO!OpenFails => SP!SONext
  <2>1. SO!OpenFails => SP!OpenFails
    BY DEF SO!OpenFails, SP!OpenFails, SO!NoResult, SP!NoResult, SO!Result, SP!Result
  <2>2. QED BY <2>1
<1>10. SO!Sends => SP!SONext
  <2>1. SO!Sends => SP!Sends
    BY DEF SO!Sends, SP!Sends
  <2>2. QED BY <2>1
<1>11. SO!Receives => SP!SONext
  <2>1. SO!Receives => SP!Receives
    BY DEF SO!Receives, SP!Receives
  <2>2. QED BY <2>1
<1>12. SO!CloseUnconnected => SP!SONext
  <2>1. SO!CloseUnconnected => SP!CloseUnconnected
    BY DEF SO!CloseUnconnected, SP!CloseUnconnected, SO!Released, SP!Released
  <2>2. QED BY <2>1
<1>13. SO!CloseConnected => SP!SONext
  <2>1. SO!CloseConnected => SP!CloseConnected
    BY DEF SO!CloseConnected, SP!CloseConnected, SO!Released, SP!Released
  <2>2. QED BY <2>1
<1>14. SO!CloseUnanswered => SP!SONext
  <2>1. SO!CloseUnanswered => SP!CloseUnanswered
    BY DEF SO!CloseUnanswered, SP!CloseUnanswered, SO!Released, SP!Released
  <2>2. QED BY <2>1
<1>15. SO!LinkOpens => SP!SONext
  <2>1. SO!LinkOpens => SP!LinkOpens
    BY DEF SO!LinkOpens, SP!LinkOpens, SO!callVars, SP!callVars
  <2>2. QED BY <2>1
<1>16. SO!LinkRefused => SP!SONext
  <2>1. SO!LinkRefused => SP!LinkRefused
    BY DEF SO!LinkRefused, SP!LinkRefused, SO!callVars, SP!callVars
  <2>2. QED BY <2>1
<1>17. SO!PeerCloses => SP!SONext
  <2>1. SO!PeerCloses => SP!PeerCloses
    BY DEF SO!PeerCloses, SP!PeerCloses, SO!callVars, SP!callVars
  <2>2. QED BY <2>1
<1>18. SO!ModemReboots => SP!SONext
  <2>1. SO!ModemReboots => SP!ModemReboots
    BY DEF SO!ModemReboots, SP!ModemReboots, SO!callVars, SP!callVars
  <2>2. QED BY <2>1
<1>19. QED
  BY <1>1, <1>2, <1>3, <1>4, <1>5, <1>6, <1>7, <1>8, <1>9, <1>10, <1>11, <1>12,
     <1>13, <1>14, <1>15, <1>16, <1>17, <1>18

\* A step of the session, of the modem or of the server is one of the socket, or leaves it
\* alone.
LEMMA SocketStep == Place /\ [Next]_vars => [SP!SONext]_SP!soVars
<1> SUFFICES ASSUME Place, [Next]_vars PROVE SP!SONext \/ UNCHANGED soVars
  BY DEF soVars, SP!soVars, SP!ctxVars, SP!driverVars, SP!modemVars, SP!callVars
<1>1. attempt \in Attempts BY DEF Place
<1>2. OpensSocket => SP!SONext BY SameSocket DEF OpensSocket
<1>3. Connects => SP!SONext BY <1>1, SameSocket DEF Connects
<1>4. DialsOn => SP!SONext BY SameSocket DEF DialsOn
<1>5. DialEnds => SP!SONext BY SameSocket DEF DialEnds
<1>6. SendsHeader \/ SendsPayload => SP!SONext
  BY SameSocket DEF SendsHeader, SendsPayload, Sending
<1>7. ReceivesHeader \/ ReceivesPayload \/ Polls \/ ReceiveFails => SP!SONext
  BY SameSocket DEF ReceivesHeader, ReceivesPayload, Polls, ReceiveFails, Receiving
<1>8. ClosesSocket => SP!SONext BY SameSocket DEF ClosesSocket
<1>9. BackoffEnds => UNCHANGED soVars BY DEF BackoffEnds
<1>10. LinkOpens => SP!SONext BY SameSocket DEF LinkOpens
<1>11. LinkRefused => SP!SONext BY SameSocket DEF LinkRefused
<1>12. PeerCloses => SP!SONext BY SameSocket DEF PeerCloses
<1>13. ModemReboots => SP!SONext BY SameSocket DEF ModemReboots
<1>14. ServerServes \/ ServerAcceptFails => UNCHANGED soVars
  BY DEF ServerServes, ServerAcceptFails
<1>15. UNCHANGED vars => UNCHANGED soVars BY DEF vars
<1>16. QED
  BY <1>2, <1>3, <1>4, <1>5, <1>6, <1>7, <1>8, <1>9, <1>10, <1>11, <1>12, <1>13, <1>14, <1>15,
     Zenon DEF Next, ClientNext

----
(* Where the session is *)

\* The session starts without a socket.
LEMMA PlaceInit == Init => Place
BY RetriesAssumption DEF Init, Place, Attempts, SO!SOInit

\* It goes to another place only through a close, or when it got no socket.
LEMMA PlaceKept == Place /\ [Next]_vars => Place'
<1> SUFFICES ASSUME Place, [Next]_vars PROVE Place'
  OBVIOUS
<1> USE DEF Place, ClientMoves, Fails, SessionReturns,
        clientVars, soVars, SO!ctxVars
<1>1. CASE OpensSocket
  <2>1. CASE ClientMoves("connect") BY <2>1
  <2>2. CASE SO!CreateFails /\ SessionReturns("fail")
    <3>1. ~allocated /\ allocated' = allocated
      BY <1>1, <2>2, Zenon DEF OpensSocket, SO!CreateFails
    <3>2. attempt' = attempt /\ (cpc' = "backoff" => attempt < GPSEC_RETRIES) BY <2>2
    <3>3. QED BY <3>1, <3>2, Zenon
  <2>3. QED BY <1>1, <2>1, <2>2, Zenon DEF OpensSocket
<1>2. CASE Connects BY <1>2 DEF Connects
<1>3. CASE DialsOn BY <1>3 DEF DialsOn
<1>4. CASE DialEnds BY <1>4 DEF DialEnds
<1>5. CASE SendsHeader \/ SendsPayload BY <1>5 DEF SendsHeader, SendsPayload, Sending
<1>6. CASE ReceivesHeader \/ ReceivesPayload
  BY <1>6 DEF ReceivesHeader, ReceivesPayload
<1>7. CASE Polls \/ ReceiveFails BY <1>7 DEF Polls, ReceiveFails, Receiving
<1>8. CASE ClosesSocket
  BY <1>8 DEF ClosesSocket, SO!CloseUnconnected, SO!CloseConnected, SO!CloseUnanswered,
     SO!Released
<1>9. CASE BackoffEnds
  <2>1. cpc = "backoff" /\ cpc' = "socket" /\ attempt' = attempt + 1 /\ allocated' = allocated
    BY <1>9, Zenon DEF BackoffEnds
  <2>2. attempt' \in Attempts BY <2>1, RetriesAssumption DEF Attempts
  <2>3. QED BY <2>1, <2>2, Zenon
<1>10. CASE LinkOpens \/ LinkRefused \/ PeerCloses \/ ModemReboots
  BY <1>10 DEF LinkOpens, LinkRefused, PeerCloses, ModemReboots, SO!LinkOpens, SO!LinkRefused,
     SO!PeerCloses, SO!ModemReboots
<1>11. CASE ServerServes \/ ServerAcceptFails BY <1>11 DEF ServerServes, ServerAcceptFails
<1>12. CASE UNCHANGED vars BY <1>12 DEF vars
<1>13. QED
  BY <1>1, <1>2, <1>3, <1>4, <1>5, <1>6, <1>7, <1>8, <1>9, <1>10, <1>11, <1>12, Zenon
  DEF Next, ClientNext

\* It holds in every reachable state.
LEMMA PlaceCorrect == Spec => []Place
BY PlaceInit, PlaceKept, PTL DEF Spec

----
\* The socket inside the session is that of SocketOffload, so what is proved there holds here.
LEMMA SocketIsOffload == Spec => SP!SOSpec
<1>1. Init => SP!SOInit BY SameSocket DEF Init
<1>2. QED BY <1>1, PlaceCorrect, SocketStep, PTL DEF Spec, SP!SOSpec

\* Between attempts and at the end the one socket is free and the driver closed, and the
\* modem has a connection only if it left a command unanswered (run_roundtrip_session,
\* zsock_close).
THEOREM NothingLeaks == Spec => []NothingIsLeaked
<1>1. Place /\ SP!SOInv => NothingIsLeaked
  BY DEF Place, NothingIsLeaked, SP!SOInv, SP!SOTypeOK, SP!LayersAgree, SP!NothingHidden,
     SP!Waits
<1>2. SP!SOSpec => []SP!SOInv
  BY NoPeerAssumption, SP!SOInvariance
<1>3. QED BY <1>1, <1>2, PlaceCorrect, SocketIsOffload, PTL

----
(* The server of the session and that of EchoServerProofs are the same. *)

\* The sizes of the session are sizes for a server.
LEMMA ServerSizes ==
  /\ Rounds \in Nat \ {0} /\ Header \subseteq Unit /\ Announced \in [Header -> Nat \ {0}]
  /\ DroneLen \in Nat /\ Window \in Nat \ {0} /\ SendLimit \in Nat /\ StallLimit \in Nat
BY SizesAssumption DEF Header, Unit, Announced, Hdr, DroneLen

\* One step for each step of the server.
LEMMA SameServer ==
  /\ ES!ESInit => EP!ESInit
  /\ \A c \in Attempts : ES!Serves(c) => EP!Serves(c)
  /\ \A c : ES!Connects(c) => EP!Connects(c)
  /\ ES!AcceptFails => EP!AcceptFails
  /\ EP!ESTypeOK => ES!ESTypeOK
<1> USE DEF ES!ioRetries, EP!ioRetries, ES!acceptRetries, EP!acceptRetries,
        ES!processVars, EP!processVars, ES!wireVars, EP!wireVars, ES!ghostVars, EP!ghostVars
<1>1. ES!ESInit => EP!ESInit BY Zenon DEF ES!ESInit, EP!ESInit, ES!Start, EP!Start
<1>2. ASSUME NEW c \in Attempts PROVE ES!Serves(c) => EP!Serves(c)
  <2> USE DEF ES!Continues, EP!Continues, ES!Ends, EP!Ends, ES!Reading, EP!Reading,
          ES!Writing, EP!Writing, ES!Needed, EP!Needed, ES!Buffer, EP!Buffer,
          ES!Short, EP!Short, ES!Stuck, EP!Stuck, ES!ProcessEnds, EP!ProcessEnds
  <2>1. ES!Accept(c) => EP!Accept(c) BY Zenon DEF ES!Accept, EP!Accept
  <2>2. ES!Reads(c) => EP!Reads(c) BY Zenon DEF ES!Reads, EP!Reads
  <2>3. ES!ReadTimesOut(c) => EP!ReadTimesOut(c) BY Zenon DEF ES!ReadTimesOut, EP!ReadTimesOut
  <2>4. ES!ReadsEof(c) => EP!ReadsEof(c) BY Zenon DEF ES!ReadsEof, EP!ReadsEof
  <2>5. ES!Writes(c) => EP!Writes(c) BY Zenon DEF ES!Writes, EP!Writes
  <2>6. ES!WriteTimesOut(c) => EP!WriteTimesOut(c) BY Zenon DEF ES!WriteTimesOut, EP!WriteTimesOut
  <2>7. ES!WriteFails(c) => EP!WriteFails(c) BY Zenon DEF ES!WriteFails, EP!WriteFails
  <2>8. ES!ReadsShort(c) => EP!ReadsShort(c) BY Zenon DEF ES!ReadsShort, EP!ReadsShort
  <2>9. QED
    BY <2>1, <2>2, <2>3, <2>4, <2>5, <2>6, <2>7, <2>8, Zenon DEF ES!Serves, EP!Serves
<1>3. \A c : ES!Connects(c) => EP!Connects(c) BY Zenon DEF ES!Connects, EP!Connects
<1>4. ES!AcceptFails => EP!AcceptFails
  BY Zenon DEF ES!AcceptFails, EP!AcceptFails, ES!ProcessEnds, EP!ProcessEnds
<1>5. EP!ESTypeOK => ES!ESTypeOK
  BY Zenon DEF ES!ESTypeOK, EP!ESTypeOK, ES!Needed, EP!Needed, ES!Buffer, EP!Buffer,
     ES!Writing, EP!Writing
<1>6. QED BY <1>1, <1>2, <1>3, <1>4, <1>5

----
(* Units that count up *)

Counts(s, first) == \A i \in DOMAIN s : s[i] = first + i - 1

\* Nothing, a unit more, one less at the front, some less, and two runs in a row.
LEMMA CountsEmpty == \A first : Counts(<<>>, first)
BY DEF Counts

LEMMA CountsAppend ==
  ASSUME NEW S, NEW s \in Seq(S), NEW first \in Nat, NEW u \in S,
         Counts(s, first), u = first + Len(s)
  PROVE  /\ Append(s, u) \in Seq(S) /\ Len(Append(s, u)) = Len(s) + 1
         /\ Counts(Append(s, u), first)
<1>1. Append(s, u) \in Seq(S) /\ Len(Append(s, u)) = Len(s) + 1 /\ Len(s) \in Nat
  OBVIOUS
<1>2. ASSUME NEW i \in DOMAIN Append(s, u) PROVE Append(s, u)[i] = first + i - 1
  <2>1. i \in 1..Len(s) + 1 BY <1>1
  <2>2. CASE i \in 1..Len(s)
    <3>1. Append(s, u)[i] = s[i] /\ i \in DOMAIN s BY <2>2
    <3>2. QED BY <3>1 DEF Counts
  <2>3. CASE i = Len(s) + 1
    <3>1. Append(s, u)[i] = u BY <2>3
    <3>2. QED BY <1>1, <2>3, <3>1
  <2>4. QED BY <1>1, <2>1, <2>2, <2>3
<1>3. QED BY <1>1, <1>2 DEF Counts

LEMMA CountsTail ==
  ASSUME NEW S, NEW s \in Seq(S), NEW first \in Nat, Counts(s, first), s # <<>>
  PROVE  /\ Head(s) = first /\ Head(s) \in S
         /\ Tail(s) \in Seq(S) /\ Len(Tail(s)) = Len(s) - 1 /\ Len(s) \in Nat
         /\ Counts(Tail(s), first + 1)
<1>1. /\ Len(s) \in Nat /\ Len(s) > 0 /\ 1 \in DOMAIN s /\ Head(s) = s[1] /\ s[1] \in S
      /\ Tail(s) \in Seq(S) /\ Len(Tail(s)) = Len(s) - 1
  OBVIOUS
<1>2. ASSUME NEW i \in DOMAIN Tail(s) PROVE Tail(s)[i] = first + 1 + i - 1
  <2>1. i \in Nat /\ i + 1 \in DOMAIN s /\ Tail(s)[i] = s[i + 1] BY <1>1
  <2>2. QED BY <2>1 DEF Counts
<1>3. QED BY <1>1, <1>2 DEF Counts

LEMMA CountsRest ==
  ASSUME NEW S, NEW s \in Seq(S), NEW first \in Nat, Counts(s, first), NEW k \in 0..Len(s)
  PROVE  /\ SubSeq(s, k + 1, Len(s)) \in Seq(S) /\ Len(SubSeq(s, k + 1, Len(s))) = Len(s) - k
         /\ Counts(SubSeq(s, k + 1, Len(s)), first + k)
<1> DEFINE rest == SubSeq(s, k + 1, Len(s))
<1>1. Len(s) \in Nat /\ k \in Nat OBVIOUS
<1>2. rest \in Seq(S) /\ Len(rest) = Len(s) - k
      /\ \A i \in 1..(Len(s) - k) : rest[i] = s[k + i]
  <2>1. \A i \in (k + 1)..Len(s) : s[i] \in S BY <1>1
  <2>2. k + 1 \in Int /\ Len(s) \in Int BY <1>1
  <2>3. /\ rest \in Seq(S)
        /\ Len(rest) = IF k + 1 <= Len(s) THEN Len(s) - (k + 1) + 1 ELSE 0
        /\ \A i \in 1..(Len(s) - (k + 1) + 1) : rest[i] = s[(k + 1) + i - 1]
    BY <2>1, <2>2, SubSeqProperties
  <2>4. Len(rest) = Len(s) - k BY <1>1, <2>3
  <2>5. \A i \in 1..(Len(s) - k) : rest[i] = s[k + i]
    <3>1. TAKE i \in 1..(Len(s) - k)
    <3>2. i \in 1..(Len(s) - (k + 1) + 1) /\ (k + 1) + i - 1 = k + i BY <1>1
    <3>3. QED BY <2>3, <3>2
  <2>6. QED BY <2>3, <2>4, <2>5
<1> HIDE DEF rest
<1>3. ASSUME NEW i \in DOMAIN rest PROVE rest[i] = first + k + i - 1
  <2>1. i \in 1..(Len(s) - k) BY <1>2
  <2>2. rest[i] = s[k + i] /\ k + i \in DOMAIN s BY <1>1, <1>2, <2>1
  <2>3. QED BY <1>1, <2>1, <2>2 DEF Counts
<1>4. QED BY <1>2, <1>3 DEF Counts, rest

LEMMA CountsConcat ==
  ASSUME NEW S, NEW s \in Seq(S), NEW t \in Seq(S), NEW first \in Nat,
         Counts(s, first), Counts(t, first + Len(s))
  PROVE  s \o t \in Seq(S) /\ Len(s \o t) = Len(s) + Len(t) /\ Counts(s \o t, first)
<1>1. /\ s \o t \in Seq(S) /\ Len(s \o t) = Len(s) + Len(t) /\ Len(s) \in Nat /\ Len(t) \in Nat
  OBVIOUS
<1>2. ASSUME NEW i \in DOMAIN (s \o t) PROVE (s \o t)[i] = first + i - 1
  <2>1. i \in 1..(Len(s) + Len(t)) BY <1>1
  <2>2. CASE i \in 1..Len(s)
    <3>1. (s \o t)[i] = s[i] /\ i \in DOMAIN s BY <2>2
    <3>2. QED BY <3>1 DEF Counts
  <2>3. CASE i \notin 1..Len(s)
    <3>1. (s \o t)[i] = t[i - Len(s)] /\ i - Len(s) \in DOMAIN t BY <1>1, <2>1, <2>3
    <3>2. QED BY <1>1, <2>1, <3>1 DEF Counts
  <2>4. QED BY <2>2, <2>3
<1>3. QED BY <1>1, <1>2 DEF Counts

\* The frame is such a run, and the only one of its length.
LEMMA FrameCounts ==
  /\ PayloadLen \in Nat /\ PayloadLen > 0
  /\ <<Hdr>> \in Seq(Unit) /\ Len(<<Hdr>>) = 1 /\ Counts(<<Hdr>>, 0)
  /\ MyPayload \in Seq(Unit) /\ Len(MyPayload) = PayloadLen /\ Counts(MyPayload, 1)
  /\ \A s \in Seq(Unit) : Counts(s, 0) /\ Len(s) = PayloadLen + 1 => s = MyFrame
<1>1. PayloadLen \in Nat /\ PayloadLen > 0 BY SizesAssumption
<1>2. <<Hdr>> \in Seq(Unit) /\ Len(<<Hdr>>) = 1 /\ Counts(<<Hdr>>, 0)
  BY <1>1 DEF Hdr, Unit, Counts
<1>3. MyPayload \in Seq(Unit) /\ Len(MyPayload) = PayloadLen /\ Counts(MyPayload, 1)
  <2>1. MyPayload \in Seq(Unit) BY <1>1 DEF MyPayload, Unit
  <2>2. Len(MyPayload) = PayloadLen BY <1>1 DEF MyPayload
  <2>3. DOMAIN MyPayload = 1..PayloadLen /\ \A i \in 1..PayloadLen : MyPayload[i] = i
    BY DEF MyPayload
  <2>4. Counts(MyPayload, 1) BY <1>1, <2>3 DEF Counts
  <2>5. QED BY <2>1, <2>2, <2>4
<1>4. /\ MyFrame \in Seq(Unit) /\ Len(MyFrame) = PayloadLen + 1 /\ Counts(MyFrame, 0)
  <2>1. Counts(MyPayload, 0 + Len(<<Hdr>>)) BY <1>2, <1>3
  <2>2. 0 \in Nat /\ 1 + PayloadLen = PayloadLen + 1 BY <1>1
  <2>3. QED BY <1>2, <1>3, <2>1, <2>2, CountsConcat DEF MyFrame
<1>5. ASSUME NEW s \in Seq(Unit), Counts(s, 0), Len(s) = PayloadLen + 1 PROVE s = MyFrame
  <2>1. \A i \in 1..Len(s) : s[i] = MyFrame[i]
    <3>1. \A i \in 1..Len(s) : i \in DOMAIN s /\ i \in DOMAIN MyFrame BY <1>4, <1>5
    <3>2. QED BY <1>4, <1>5, <3>1 DEF Counts
  <2>2. QED BY <1>4, <1>5, <2>1, SeqEqual
<1>6. QED BY <1>1, <1>2, <1>3, <1>5

----
(* The streams of a connection *)

\* What the client has sent on a connection, read by the server or on its way.
Total(c) == Len(taken[c]) + Len(up[c])

\* Each direction carries a run of the units of the frame, at most once.
Stream(c) ==
  /\ ~torn[c]
  /\ Counts(taken[c], 0) /\ Counts(up[c], Len(taken[c])) /\ Total(c) <= PayloadLen + 1
  /\ Len(sent[c]) <= Len(taken[c]) /\ Len(down[c]) <= Len(sent[c])
  /\ Counts(down[c], Len(sent[c]) - Len(down[c]))
  /\ conn[c] = "free" => Total(c) = 0

Streams == EP!ESInv /\ \A c \in Attempts : Stream(c)

\* A connection neither becomes new again nor comes back.
ConnOnward(c) ==
  /\ conn'[c] = "free" => conn[c] = "free"
  /\ conn[c] = "closed" => conn'[c] = "closed"

\* What a step of the server may do to a connection, as the client sees it.
Onward(c) ==
  /\ Total(c)' = Total(c)
  /\ Len(taken[c]) <= Len(taken'[c]) /\ Len(sent[c]) <= Len(sent'[c])
  /\ ConnOnward(c)

\* The lengths are numbers.
LEMMA StreamTypes ==
  ASSUME EP!ESInv, NEW c \in Attempts
  PROVE  /\ up[c] \in Seq(Unit) /\ down[c] \in Seq(Unit)
         /\ taken[c] \in Seq(Unit) /\ sent[c] \in Seq(Unit)
         /\ Len(up[c]) \in Nat /\ Len(down[c]) \in Nat
         /\ Len(taken[c]) \in Nat /\ Len(sent[c]) \in Nat /\ Total(c) \in Nat
<1>1. /\ up[c] \in Seq(Unit) /\ down[c] \in Seq(Unit)
      /\ taken[c] \in Seq(Unit) /\ sent[c] \in Seq(Unit)
  BY DEF EP!ESInv, EP!Tables
<1>2. /\ Len(up[c]) \in Nat /\ Len(down[c]) \in Nat /\ Len(taken[c]) \in Nat
      /\ Len(sent[c]) \in Nat
  BY <1>1
<1>3. \A a, b \in Nat : a + b \in Nat OBVIOUS
<1>4. Total(c) \in Nat BY <1>2, <1>3, Zenon DEF Total
<1>5. QED BY <1>1, <1>2, <1>4

\* A connection nothing happens to.
LEMMA StreamKept ==
  ASSUME NEW c \in Attempts, Stream(c), EP!ESInv,
         UNCHANGED <<torn[c], taken[c], up[c], down[c], sent[c]>>,
         ConnOnward(c)
  PROVE  Stream(c)' /\ Onward(c)
<1>1. Len(taken[c]) \in Nat /\ Len(sent[c]) \in Nat BY StreamTypes
<1>2. Total(c)' = Total(c) BY DEF Total
<1>3. /\ Counts(taken[c], 0)' = Counts(taken[c], 0)
      /\ Counts(up[c], Len(taken[c]))' = Counts(up[c], Len(taken[c]))
      /\ Counts(down[c], Len(sent[c]) - Len(down[c]))' = Counts(down[c], Len(sent[c]) - Len(down[c]))
  BY DEF Counts
<1>4. Stream(c)' BY <1>2, <1>3 DEF Stream, ConnOnward
<1>5. Len(taken[c]) <= Len(taken'[c]) /\ Len(sent[c]) <= Len(sent'[c]) BY <1>1
<1>6. QED BY <1>2, <1>4, <1>5 DEF Onward

\* What the server does to a connection: it reads a unit, writes one, or leaves the units alone;
\* a Write that finds the window full is another matter.
LEMMA ServesEffects ==
  ASSUME EP!ESInv, NEW c \in Attempts, ES!Serves(c)
  PROVE  /\ \A k \in Attempts : ConnOnward(k)
         /\ \/ /\ up[c] # <<>>
               /\ up' = [up EXCEPT ![c] = Tail(up[c])]
               /\ taken' = [taken EXCEPT ![c] = Append(taken[c], Head(up[c]))]
               /\ UNCHANGED <<down, sent, torn>>
            \/ /\ EP!Writing(c)
               /\ down' = [down EXCEPT ![c] = Append(down[c], EP!Buffer(c)[go[c].n + 1])]
               /\ sent' = [sent EXCEPT ![c] = IF torn[c] THEN sent[c]
                                             ELSE Append(sent[c], EP!Buffer(c)[go[c].n + 1])]
               /\ UNCHANGED <<up, taken, torn>>
            \/ UNCHANGED <<up, down, taken, sent, torn>>
            \/ EP!Writing(c) /\ Len(down[c]) = Window
<1>1. conn \in [Attempts -> {"free", "queued", "served", "closed"}] BY DEF EP!ESInv, EP!Tables
<1>2. EP!Serves(c) BY SameServer, Zenon
<1>3. /\ conn[c] \in {"queued", "served"}
      /\ \/ conn' = conn
         \/ conn' = [conn EXCEPT ![c] = "served"]
         \/ conn' = [conn EXCEPT ![c] = "closed"]
         \/ conn' = [k \in Attempts |-> IF conn[k] = "free" THEN "free" ELSE "closed"]
  BY <1>2, Zenon DEF EP!Serves, EP!ReadsShort, EP!ProcessEnds, EP!Stuck, EP!Accept, EP!Reads, EP!ReadTimesOut, EP!ReadsEof, EP!Writes,
     EP!WriteTimesOut, EP!WriteFails, EP!Reading, EP!Writing, EP!Continues, EP!Ends
<1>4. \A k \in Attempts : ConnOnward(k)
  BY <1>1, <1>3 DEF ConnOnward
<1> USE DEF EP!processVars, EP!wireVars, EP!ghostVars
<1>5. CASE EP!Reads(c)
  BY <1>4, <1>5 DEF EP!Reads
<1>6. CASE EP!Writes(c)
  BY <1>4, <1>6, Zenon DEF EP!Writes
<1>7. CASE EP!WriteTimesOut(c)
  BY <1>4, <1>7 DEF EP!WriteTimesOut, EP!Stuck
<1>8. CASE EP!Accept(c) \/ EP!ReadTimesOut(c) \/ EP!ReadsEof(c) \/ EP!WriteFails(c)
  BY <1>4, <1>8 DEF EP!Accept, EP!ReadTimesOut, EP!ReadsEof, EP!WriteFails
<1>9. CASE EP!ReadsShort(c)
  BY <1>4, <1>9, Zenon DEF EP!ReadsShort
<1>10. QED BY <1>2, <1>5, <1>6, <1>7, <1>8, <1>9, Zenon DEF EP!Serves

\* A read moves a unit from one run to the next.
LEMMA ReadCounts ==
  ASSUME Streams, NEW c \in Attempts, up[c] # <<>>,
         up'[c] = Tail(up[c]), taken'[c] = Append(taken[c], Head(up[c])),
         UNCHANGED <<down[c], sent[c], torn[c]>>,
         ConnOnward(c)
  PROVE  Stream(c)' /\ Onward(c)
<1>1. EP!ESInv /\ Stream(c) BY DEF Streams
<1>2. /\ up[c] \in Seq(Unit) /\ taken[c] \in Seq(Unit)
      /\ Len(up[c]) \in Nat /\ Len(taken[c]) \in Nat /\ Len(sent[c]) \in Nat
  BY <1>1, StreamTypes
<1>3. Counts(taken[c], 0) /\ Counts(up[c], Len(taken[c])) BY <1>1 DEF Stream
<1>4. /\ Head(up[c]) = Len(taken[c]) /\ Head(up[c]) \in Unit
      /\ Len(Tail(up[c])) = Len(up[c]) - 1
      /\ Counts(Tail(up[c]), Len(taken[c]) + 1)
  BY <1>2, <1>3, CountsTail
<1>5. /\ Len(Append(taken[c], Head(up[c]))) = Len(taken[c]) + 1
      /\ Counts(Append(taken[c], Head(up[c])), 0)
  BY <1>2, <1>3, <1>4, CountsAppend
<1>6. Len(taken'[c]) = Len(taken[c]) + 1 /\ Len(up'[c]) = Len(up[c]) - 1 BY <1>4, <1>5
<1>7. Total(c)' = Total(c)
  <2>1. \A a, b \in Nat : (a + 1) + (b - 1) = a + b OBVIOUS
  <2>2. (Len(taken[c]) + 1) + (Len(up[c]) - 1) = Len(taken[c]) + Len(up[c])
    BY <1>2, <2>1, Zenon
  <2>3. QED BY <1>6, <2>2, Zenon DEF Total
<1>8. Counts(taken[c], 0)' /\ Counts(up[c], Len(taken[c]))'
  BY <1>4, <1>5, <1>6 DEF Counts
<1>9. /\ Len(sent'[c]) <= Len(taken'[c]) /\ Len(taken[c]) <= Len(taken'[c])
      /\ Len(sent[c]) <= Len(sent'[c])
  BY <1>1, <1>2, <1>6 DEF Stream
<1>10. Counts(down[c], Len(sent[c]) - Len(down[c]))' BY <1>1 DEF Stream, Counts
<1>11. QED BY <1>1, <1>7, <1>8, <1>9, <1>10 DEF Stream, Onward, ConnOnward

\* A write sends on what was read.
LEMMA WriteCounts ==
  ASSUME Streams, NEW c \in Attempts, EP!Writing(c), NEW u, u = EP!Buffer(c)[go[c].n + 1],
         down'[c] = Append(down[c], u), sent'[c] = Append(sent[c], u),
         UNCHANGED <<up[c], taken[c], torn[c]>>,
         ConnOnward(c)
  PROVE  Stream(c)' /\ Onward(c)
<1>1. EP!ESInv /\ Stream(c) BY DEF Streams
<1>2. /\ down[c] \in Seq(Unit) /\ taken[c] \in Seq(Unit) /\ sent[c] \in Seq(Unit)
      /\ Len(down[c]) \in Nat /\ Len(taken[c]) \in Nat /\ Len(sent[c]) \in Nat
      /\ Total(c) \in Nat
  BY <1>1, StreamTypes
<1>3. Len(sent[c]) < Len(taken[c]) /\ u = taken[c][Len(sent[c]) + 1]
  <2>1. ~torn[c] BY <1>1 DEF Stream
  <2>2. QED BY <1>1, <2>1, ServerSizes, EP!SentWasTaken
<1>4. u = Len(sent[c]) /\ u \in Unit
  <2>1. Len(sent[c]) + 1 \in DOMAIN taken[c] BY <1>2, <1>3
  <2>2. u = 0 + (Len(sent[c]) + 1) - 1 BY <1>1, <1>3, <2>1 DEF Stream, Counts
  <2>3. u \in Unit BY <1>2, <1>3, <2>1
  <2>4. QED BY <1>2, <2>2, <2>3
<1>5. /\ Len(Append(sent[c], u)) = Len(sent[c]) + 1 /\ Len(Append(down[c], u)) = Len(down[c]) + 1
  BY <1>2, <1>4
<1>6. Len(sent[c]) - Len(down[c]) \in Nat
      /\ u = (Len(sent[c]) - Len(down[c])) + Len(down[c])
      /\ (Len(sent[c]) + 1) - (Len(down[c]) + 1) = Len(sent[c]) - Len(down[c])
  BY <1>1, <1>2, <1>4 DEF Stream
<1>7. Counts(Append(down[c], u), Len(sent[c]) - Len(down[c]))
  <2>1. Counts(down[c], Len(sent[c]) - Len(down[c])) BY <1>1 DEF Stream
  <2>2. QED BY <1>2, <1>4, <1>6, <2>1, CountsAppend
<1>8. Counts(down[c], Len(sent[c]) - Len(down[c]))'
  BY <1>5, <1>6, <1>7 DEF Counts
<1>9. /\ Len(sent'[c]) <= Len(taken'[c]) /\ Len(down'[c]) <= Len(sent'[c])
      /\ Len(sent[c]) <= Len(sent'[c]) /\ Len(taken[c]) <= Len(taken'[c])
  BY <1>1, <1>2, <1>3, <1>5 DEF Stream
<1>10. Total(c)' = Total(c) BY DEF Total
<1>11. Counts(taken[c], 0)' /\ Counts(up[c], Len(taken[c]))' BY <1>1 DEF Stream, Counts
<1>12. QED BY <1>1, <1>8, <1>9, <1>10, <1>11 DEF Stream, Onward, ConnOnward

\* A frame fits the window, so no Write finds it full.
LEMMA NeverFull ==
  ASSUME Streams, NEW c \in Attempts, EP!Writing(c)
  PROVE  Len(down[c]) < Window
<1>1. EP!ESInv /\ Stream(c) BY DEF Streams
<1>2. /\ Len(down[c]) \in Nat /\ Len(taken[c]) \in Nat /\ Len(sent[c]) \in Nat
      /\ Len(up[c]) \in Nat
  BY <1>1, StreamTypes
<1>3. Len(sent[c]) < Len(taken[c])
  <2>1. ~torn[c] BY <1>1 DEF Stream
  <2>2. QED BY <1>1, <2>1, ServerSizes, EP!SentWasTaken
<1>4. Len(down[c]) <= Len(sent[c]) /\ Len(taken[c]) + Len(up[c]) <= PayloadLen + 1
  BY <1>1 DEF Stream, Total
<1>5. \A d, x, t, v, p, w \in Nat : d <= x /\ x < t /\ t + v <= p + 1 /\ p < w => d < w
  OBVIOUS
<1>6. PayloadLen \in Nat /\ Window \in Nat /\ PayloadLen < Window BY FrameFits, SizesAssumption
<1>7. QED BY <1>2, <1>3, <1>4, <1>5, <1>6, Zenon

\* Nothing has travelled when the session starts.
LEMMA StreamsInit == ES!ESInit => Streams
<1> SUFFICES ASSUME ES!ESInit PROVE Streams
  OBVIOUS
<1>1. EP!ESInv BY SameServer, ServerSizes, EP!ESInitInv
<1>2. ASSUME NEW c \in Attempts PROVE Stream(c)
  <2>1. /\ taken[c] = <<>> /\ up[c] = <<>> /\ down[c] = <<>> /\ sent[c] = <<>>
        /\ torn[c] = FALSE
    BY DEF ES!ESInit
  <2>2. Len(<<>>) = 0 /\ 0 - 0 = 0 /\ 0 + 0 = 0 /\ 0 <= PayloadLen + 1 BY SizesAssumption
  <2>3. QED BY <2>1, <2>2, CountsEmpty DEF Stream, Total
<1>3. QED BY <1>1, <1>2 DEF Streams

\* A step of a goroutine.
LEMMA ServesStreams ==
  ASSUME Streams, NEW c \in Attempts, ES!Serves(c)
  PROVE  Streams' /\ \A k \in Attempts : Onward(k)
<1>1. EP!ESInv /\ \A k \in Attempts : Stream(k) BY DEF Streams
<1>2. EP!ESInv'
  <2>1. EP!Serves(c) BY SameServer
  <2>2. QED BY <1>1, <2>1, ServerSizes, EP!ServesKeepsInv
<1>3. /\ DOMAIN up = Attempts /\ DOMAIN down = Attempts /\ DOMAIN taken = Attempts
      /\ DOMAIN sent = Attempts
  BY <1>1 DEF EP!ESInv, EP!Tables
<1>4. \A k \in Attempts : ConnOnward(k)
  BY <1>1, ServesEffects, Zenon
<1>5. ASSUME NEW k \in Attempts, UNCHANGED <<torn[k], taken[k], up[k], down[k], sent[k]>>
      PROVE  Stream(k)' /\ Onward(k)
  BY <1>1, <1>4, <1>5, StreamKept
<1>6. CASE /\ up[c] # <<>>
           /\ up' = [up EXCEPT ![c] = Tail(up[c])]
           /\ taken' = [taken EXCEPT ![c] = Append(taken[c], Head(up[c]))]
           /\ UNCHANGED <<down, sent, torn>>
  <2>1. up'[c] = Tail(up[c]) /\ taken'[c] = Append(taken[c], Head(up[c])) BY <1>3, <1>6
  <2>2. Stream(c)' /\ Onward(c) BY <1>4, <1>6, <2>1, ReadCounts
  <2>3. \A k \in Attempts \ {c} : UNCHANGED <<torn[k], taken[k], up[k], down[k], sent[k]>>
    BY <1>3, <1>6
  <2>4. QED BY <1>2, <1>5, <2>2, <2>3 DEF Streams
<1>7. CASE /\ EP!Writing(c)
           /\ down' = [down EXCEPT ![c] = Append(down[c], EP!Buffer(c)[go[c].n + 1])]
           /\ sent' = [sent EXCEPT ![c] = IF torn[c] THEN sent[c]
                                         ELSE Append(sent[c], EP!Buffer(c)[go[c].n + 1])]
           /\ UNCHANGED <<up, taken, torn>>
  <2> DEFINE u == EP!Buffer(c)[go[c].n + 1]
  <2>1. ~torn[c] BY <1>1 DEF Stream
  <2>2. down'[c] = Append(down[c], u) /\ sent'[c] = Append(sent[c], u) BY <1>3, <1>7, <2>1
  <2>3. UNCHANGED <<up[c], taken[c], torn[c]>> BY <1>7
  <2>4. Stream(c)' /\ Onward(c)
    <3>1. EP!Writing(c) BY <1>7
    <3>2. QED BY <1>4, <2>2, <2>3, <3>1, WriteCounts
  <2>5. \A k \in Attempts \ {c} : UNCHANGED <<torn[k], taken[k], up[k], down[k], sent[k]>>
    BY <1>3, <1>7
  <2>6. QED BY <1>2, <1>5, <2>4, <2>5 DEF Streams
<1>8. CASE UNCHANGED <<up, down, taken, sent, torn>>
  <2>1. \A k \in Attempts : UNCHANGED <<torn[k], taken[k], up[k], down[k], sent[k]>> BY <1>8
  <2>2. QED BY <1>2, <1>5, <2>1 DEF Streams
<1>9. CASE EP!Writing(c) /\ Len(down[c]) = Window
  <2>1. Len(down[c]) < Window BY <1>9, NeverFull
  <2>2. Window \in Nat BY SizesAssumption
  <2>3. QED BY <1>9, <2>1, <2>2
<1>10. QED BY <1>1, <1>6, <1>7, <1>8, <1>9, ServesEffects, Zenon

\* The accept loop, and a new connection, which leaves the units alone.
LEMMA ConnStreams ==
  ASSUME Streams, ES!AcceptFails \/ \E c \in Attempts : ES!Connects(c)
  PROVE  Streams' /\ \A k \in Attempts : Onward(k)
<1>1. EP!ESInv /\ \A k \in Attempts : Stream(k) BY DEF Streams
<1>2. EP!AcceptFails \/ \E c \in Attempts : EP!Connects(c) BY SameServer
<1>3. EP!ESInv'
  <2>1. CASE EP!AcceptFails BY <1>1, <2>1, ServerSizes, EP!AcceptFailsKeepsInv
  <2>2. CASE \E c \in Attempts : EP!Connects(c)
    BY <1>1, <2>2, ServerSizes, EP!EndsKeepInv
  <2>3. QED BY <1>2, <2>1, <2>2
<1>4. UNCHANGED <<up, down, taken, sent, torn>>
  BY <1>2 DEF EP!AcceptFails, EP!Connects, EP!wireVars, EP!ghostVars
<1>5. conn \in [Attempts -> {"free", "queued", "served", "closed"}]
  BY <1>1 DEF EP!ESInv, EP!Tables
<1>6. \A k \in Attempts : ConnOnward(k)
  <2>1. CASE EP!AcceptFails BY <1>5, <2>1 DEF EP!AcceptFails, EP!ProcessEnds, ConnOnward
  <2>2. CASE \E c \in Attempts : EP!Connects(c) BY <1>5, <2>2 DEF EP!Connects, ConnOnward
  <2>3. QED BY <1>2, <2>1, <2>2
<1>7. ASSUME NEW k \in Attempts PROVE Stream(k)' /\ Onward(k)
  <2>1. UNCHANGED <<torn[k], taken[k], up[k], down[k], sent[k]>> BY <1>4
  <2>2. QED BY <1>1, <1>6, <2>1, StreamKept
<1>8. QED BY <1>3, <1>7 DEF Streams

\* The client's end of the wire: the lengths still fit.
LEMMA WireFits ==
  ASSUME EP!ESInv, \A k \in Attempts : Stream(k)',
         UNCHANGED <<running, failures, conn, go, taken, sent, torn, stalls>>,
         up' \in [Attempts -> Seq(Unit)], down' \in [Attempts -> Seq(Unit)],
         gone' \in [Attempts -> BOOLEAN]
  PROVE  Streams'
<1>1. ASSUME NEW k \in Attempts PROVE EP!Wire(k)'
  <2>1. /\ Len(down'[k]) \in Nat /\ Len(up'[k]) \in Nat /\ Len(taken'[k]) \in Nat
        /\ Len(sent'[k]) \in Nat
    <3>1. /\ down'[k] \in Seq(Unit) /\ up'[k] \in Seq(Unit) OBVIOUS
    <3>2. Len(taken[k]) \in Nat /\ Len(sent[k]) \in Nat BY StreamTypes
    <3>3. QED BY <3>1, <3>2
  <2>2. /\ Len(taken'[k]) + Len(up'[k]) <= PayloadLen + 1
        /\ Len(sent'[k]) <= Len(taken'[k]) /\ Len(down'[k]) <= Len(sent'[k])
    BY DEF Stream, Total
  <2>3. /\ PayloadLen \in Nat /\ Window \in Nat /\ SendLimit \in Nat
        /\ PayloadLen < Window /\ PayloadLen < SendLimit
    BY FrameFits, SizesAssumption
  <2>4. \A d, x, t, v, p, w, l \in Nat :
          t + v <= p + 1 /\ x <= t /\ d <= x /\ p < w /\ p < l => d <= w /\ t + v <= l
    OBVIOUS
  <2>5. Len(down'[k]) <= Window /\ Len(taken'[k]) + Len(up'[k]) <= SendLimit
    BY <2>1, <2>2, <2>3, <2>4
  <2>6. QED BY <2>5, Zenon DEF EP!Wire
<1>2. EP!ESInv' BY <1>1, ServerSizes, EP!WireChanges
<1>3. QED BY <1>2 DEF Streams

----
(* The client and the connection *)

\* The modem's connection is one the server knows; a result that announces it is older than the
\* first unit sent on it; and while the client sends, what it has sent on it, if anything,
\* is this frame up to here.
Linked ==
  /\ link # "closed" => linkPeer \in Attempts
  /\ HasLink => conn[linkPeer] # "free"
  /\ urc.ok => link # "opening" /\ (HasLink => Total(linkPeer) = 0)
  /\ cpc = "dial" => want \in Attempts
  /\ cpc \in {"whdr", "wbody"} => link # "opening"
  /\ cpc = "whdr" /\ HasLink => Total(linkPeer) = 0
  /\ cpc = "wbody" /\ HasLink /\ conn[linkPeer] # "closed" => Total(linkPeer) = 1

\* Hanging up is no matter of units.
LEMMA HangsUpStreams ==
  ASSUME Streams, HangsUpIfClosed
  PROVE  Streams' /\ UNCHANGED <<conn, taken, up, sent>>
<1>1. EP!ESInv /\ \A k \in Attempts : Stream(k) BY DEF Streams
<1>2. UNCHANGED <<running, failures, conn, go, up, down, taken, sent, torn, stalls>>
  BY DEF HangsUpIfClosed
<1>3. /\ up \in [Attempts -> Seq(Unit)] /\ down \in [Attempts -> Seq(Unit)]
      /\ gone \in [Attempts -> BOOLEAN]
  BY <1>1 DEF EP!ESInv, EP!Tables
<1>4. gone' \in [Attempts -> BOOLEAN] BY <1>3 DEF HangsUpIfClosed
<1>5. ASSUME NEW k \in Attempts PROVE Stream(k)'
  <2>1. UNCHANGED <<torn[k], taken[k], up[k], down[k], sent[k]>> /\ ConnOnward(k)
    BY <1>2 DEF ConnOnward
  <2>2. QED BY <1>1, <2>1, StreamKept
<1>6. QED BY <1>1, <1>2, <1>3, <1>4, <1>5, WireFits

\* What the client sends is the next part of the frame.
LEMMA DeliversStreams ==
  ASSUME Streams, Linked, NEW units \in Seq(Unit), Delivers(units),
         link = "open" /\ conn[linkPeer] # "closed" =>
           /\ Counts(units, Total(linkPeer))
           /\ Total(linkPeer) + Len(units) <= PayloadLen + 1
  PROVE  /\ Streams' /\ UNCHANGED <<conn, taken, sent>>
         /\ link = "open" /\ conn[linkPeer] # "closed" =>
              \A k \in Attempts : k = linkPeer => Total(k)' = Total(k) + Len(units)
<1>1. EP!ESInv /\ \A k \in Attempts : Stream(k) BY DEF Streams
<1>2. UNCHANGED <<running, failures, conn, go, down, gone, taken, sent, torn, stalls>>
  BY DEF Delivers
<1>3. /\ up \in [Attempts -> Seq(Unit)] /\ down \in [Attempts -> Seq(Unit)]
      /\ gone \in [Attempts -> BOOLEAN]
  BY <1>1 DEF EP!ESInv, EP!Tables
<1>4. ASSUME NEW k \in Attempts, up'[k] = up[k] PROVE Stream(k)'
  <2>1. UNCHANGED <<torn[k], taken[k], up[k], down[k], sent[k]>> /\ ConnOnward(k)
    BY <1>2, <1>4 DEF ConnOnward
  <2>2. QED BY <1>1, <2>1, StreamKept
<1>5. CASE ~(link = "open" /\ conn[linkPeer] # "closed")
  <2>1. up' = up BY <1>5 DEF Delivers
  <2>2. QED BY <1>1, <1>2, <1>3, <1>4, <1>5, <2>1, WireFits
<1>6. CASE link = "open" /\ conn[linkPeer] # "closed"
  <2>1. PICK c \in Attempts : c = linkPeer BY <1>6 DEF Linked
  <2>2. c \in Attempts /\ conn[c] # "free" BY <1>6, <2>1 DEF Linked, HasLink
  <2>3. up' = [up EXCEPT ![c] = up[c] \o units] BY <1>6, <2>1 DEF Delivers
  <2>4. /\ up[c] \in Seq(Unit) /\ Len(up[c]) \in Nat /\ Len(taken[c]) \in Nat
        /\ Len(units) \in Nat
    BY <1>1, <2>2, StreamTypes
  <2>5. Counts(up[c], Len(taken[c])) BY <1>1, <2>2 DEF Stream
  <2>6. Counts(units, Len(taken[c]) + Len(up[c])) BY <1>6, <2>1 DEF Total
  <2>7. /\ up[c] \o units \in Seq(Unit) /\ Len(up[c] \o units) = Len(up[c]) + Len(units)
        /\ Counts(up[c] \o units, Len(taken[c]))
    BY <2>4, <2>5, <2>6, CountsConcat
  <2>8. up'[c] = up[c] \o units /\ \A k \in Attempts \ {c} : up'[k] = up[k]
    BY <1>3, <2>2, <2>3
  <2>9. up' \in [Attempts -> Seq(Unit)] BY <1>3, <2>3, <2>7
  <2>10. Total(c)' = Total(c) + Len(units)
    <3>1. \A a, b, l \in Nat : a + (b + l) = (a + b) + l OBVIOUS
    <3>2. Len(taken[c]) + (Len(up[c]) + Len(units)) = (Len(taken[c]) + Len(up[c])) + Len(units)
      BY <2>4, <3>1, Zenon
    <3>3. Len(up'[c]) = Len(up[c]) + Len(units) /\ taken'[c] = taken[c] BY <1>2, <2>7, <2>8
    <3>4. QED BY <3>2, <3>3, Zenon DEF Total
  <2>11. Stream(c)'
    <3>1. Stream(c) BY <1>1, <2>2
    <3>2. UNCHANGED <<torn[c], taken[c], down[c], sent[c], conn[c]>> BY <1>2
    <3>3. /\ Counts(taken[c], 0)' = Counts(taken[c], 0)
          /\ Counts(down[c], Len(sent[c]) - Len(down[c]))'
               = Counts(down[c], Len(sent[c]) - Len(down[c]))
      BY <3>2 DEF Counts
    <3>4. Counts(up[c], Len(taken[c]))' BY <2>7, <2>8, <3>2 DEF Counts
    <3>5. Total(c)' <= PayloadLen + 1 BY <1>6, <2>1, <2>10
    <3>6. conn'[c] # "free" BY <2>2, <3>2
    <3>7. QED BY <3>1, <3>2, <3>3, <3>4, <3>5, <3>6 DEF Stream
  <2>12. \A k \in Attempts : Stream(k)' BY <1>4, <2>8, <2>11
  <2>13. Streams' BY <1>1, <1>2, <1>3, <2>9, <2>12, WireFits
  <2>14. QED BY <1>2, <2>1, <2>10, <2>13
<1>7. QED BY <1>5, <1>6

\* What the client takes off the wire, or loses, are the first of the units that are left.
LEMMA ConsumesStreams ==
  ASSUME Streams, Linked, NEW n \in 0..Len(Arrived), Consumes(n)
  PROVE  Streams' /\ UNCHANGED <<conn, taken, up, sent>>
<1>1. EP!ESInv /\ \A k \in Attempts : Stream(k) BY DEF Streams
<1>2. UNCHANGED <<running, failures, conn, go, up, gone, taken, sent, torn, stalls>>
  BY DEF Consumes
<1>3. /\ up \in [Attempts -> Seq(Unit)] /\ down \in [Attempts -> Seq(Unit)]
      /\ gone \in [Attempts -> BOOLEAN]
  BY <1>1 DEF EP!ESInv, EP!Tables
<1>4. ASSUME NEW k \in Attempts, down'[k] = down[k] PROVE Stream(k)'
  <2>1. UNCHANGED <<torn[k], taken[k], up[k], down[k], sent[k]>> /\ ConnOnward(k)
    BY <1>2, <1>4 DEF ConnOnward
  <2>2. QED BY <1>1, <2>1, StreamKept
<1>5. CASE n = 0
  <2>1. down' = down BY <1>5 DEF Consumes
  <2>2. QED BY <1>1, <1>2, <1>3, <1>4, <2>1, WireFits
<1>6. CASE n # 0
  <2>1. HasLink /\ Arrived = down[linkPeer]
    <3>1. Len(<<>>) = 0 OBVIOUS
    <3>2. QED BY <1>6, <3>1 DEF Arrived
  <2>2. PICK c \in Attempts : c = linkPeer BY <2>1 DEF Linked, HasLink
  <2>3. down' = [down EXCEPT ![c] = SubSeq(down[c], n + 1, Len(down[c]))]
    BY <1>6, <2>2 DEF Consumes
  <2>4. /\ down[c] \in Seq(Unit) /\ Len(down[c]) \in Nat /\ Len(sent[c]) \in Nat
        /\ n \in 0..Len(down[c])
    BY <1>1, <2>1, <2>2, StreamTypes
  <2>5. Stream(c) BY <1>1, <2>2
  <2>6. Len(sent[c]) - Len(down[c]) \in Nat BY <2>4, <2>5 DEF Stream
  <2>7. /\ SubSeq(down[c], n + 1, Len(down[c])) \in Seq(Unit)
        /\ Len(SubSeq(down[c], n + 1, Len(down[c]))) = Len(down[c]) - n
        /\ Counts(SubSeq(down[c], n + 1, Len(down[c])), (Len(sent[c]) - Len(down[c])) + n)
    <3>1. Counts(down[c], Len(sent[c]) - Len(down[c])) BY <2>5 DEF Stream
    <3>2. QED BY <2>4, <2>6, <3>1, CountsRest
  <2>8. /\ down'[c] = SubSeq(down[c], n + 1, Len(down[c]))
        /\ \A k \in Attempts \ {c} : down'[k] = down[k]
    BY <1>3, <2>2, <2>3
  <2>9. down' \in [Attempts -> Seq(Unit)] BY <1>3, <2>3, <2>7
  <2>10. Stream(c)'
    <3>1. UNCHANGED <<torn[c], taken[c], up[c], sent[c], conn[c]>> BY <1>2
    <3>2. /\ Counts(taken[c], 0)' = Counts(taken[c], 0)
          /\ Counts(up[c], Len(taken[c]))' = Counts(up[c], Len(taken[c]))
          /\ Total(c)' = Total(c)
      BY <3>1 DEF Counts, Total
    <3>3. Len(down'[c]) = Len(down[c]) - n BY <2>7, <2>8
    <3>4. /\ Len(down'[c]) <= Len(sent'[c])
          /\ Len(sent'[c]) - Len(down'[c]) = (Len(sent[c]) - Len(down[c])) + n
      BY <2>4, <2>5, <3>1, <3>3 DEF Stream
    <3>5. Counts(down[c], Len(sent[c]) - Len(down[c]))' BY <2>7, <2>8, <3>4 DEF Counts
    <3>6. QED BY <2>5, <3>1, <3>2, <3>4, <3>5 DEF Stream
  <2>11. \A k \in Attempts : Stream(k)' BY <1>4, <2>8, <2>10
  <2>12. QED BY <1>1, <1>2, <1>3, <2>9, <2>11, WireFits
<1>7. QED BY <1>5, <1>6

----
(* The session *)

\* Some connection has carried the frame there and back.
Echoed == \E c \in Attempts : Len(taken[c]) = PayloadLen + 1 /\ Len(sent[c]) = PayloadLen + 1

Session ==
  /\ cpc \in ClientPc /\ polls \in 0..PollLimit
  /\ buf \in Seq(Unit) /\ Len(buf) < PayloadLen /\ (cpc # "rbody" => buf = <<>>)
  /\ result \in {"none", "ok", "fail"} /\ rounds \in 0..1
  /\ rounds = 1 => result = "ok" /\ cpc \in {"close", "done"}
  /\ result = "ok" => Echoed

\* Inductive: a success rests on what the streams carried.
RTInv == Streams /\ Linked /\ Session

\* The session starts so.
LEMMA RTInitInv == Init => RTInv
<1> SUFFICES ASSUME Init PROVE RTInv
  OBVIOUS
<1>1. Streams BY StreamsInit DEF Init
<1>2. /\ cpc = "socket" /\ buf = <<>> /\ polls = 0 /\ result = "none" /\ rounds = 0
      /\ link = "closed" /\ urc.ok = FALSE
  BY DEF Init, SO!SOInit, SO!NoUrc
<1>3. Linked BY <1>2 DEF Linked, HasLink
<1>4. <<>> \in Seq(Unit) /\ Len(<<>>) = 0 /\ 0 < PayloadLen /\ 0 \in 0..PollLimit
  BY SizesAssumption, RetriesAssumption
<1>5. Session BY <1>2, <1>4 DEF Session, ClientPc
<1>6. QED BY <1>1, <1>3, <1>5 DEF RTInv

\* What was carried stays carried.
LEMMA EchoedStays ==
  ASSUME Echoed, Streams', \A c \in Attempts : Len(taken[c]) <= Len(taken'[c]) /\ Len(sent[c]) <= Len(sent'[c])
  PROVE  Echoed'
<1>1. PICK c \in Attempts : Len(taken[c]) = PayloadLen + 1 /\ Len(sent[c]) = PayloadLen + 1
  BY DEF Echoed
<1>2. Stream(c)' BY DEF Streams
<1>3. Len(taken'[c]) \in Nat /\ Len(up'[c]) \in Nat /\ Len(sent'[c]) \in Nat
  <2>1. taken'[c] \in Seq(Unit) /\ up'[c] \in Seq(Unit) /\ sent'[c] \in Seq(Unit)
    BY DEF Streams, EP!ESInv, EP!Tables
  <2>2. QED BY <2>1
<1>4. /\ Len(taken'[c]) + Len(up'[c]) <= PayloadLen + 1 /\ Len(sent'[c]) <= Len(taken'[c])
      /\ PayloadLen + 1 <= Len(taken'[c]) /\ PayloadLen + 1 <= Len(sent'[c])
  BY <1>1, <1>2 DEF Stream, Total
<1>5. \A t, v, x, p \in Nat :
        t + v <= p + 1 /\ x <= t /\ p + 1 <= t /\ p + 1 <= x => t = p + 1 /\ x = p + 1
  OBVIOUS
<1>6. Len(taken'[c]) = PayloadLen + 1 /\ Len(sent'[c]) = PayloadLen + 1
  <2>1. PayloadLen \in Nat BY SizesAssumption
  <2>2. \A x, p \in Nat : Len(taken'[c]) + Len(up'[c]) <= p + 1 /\ x <= Len(taken'[c])
          /\ p + 1 <= Len(taken'[c]) /\ p + 1 <= x => Len(taken'[c]) = p + 1 /\ x = p + 1
    BY <1>3, <1>5, Zenon
  <2>3. QED BY <1>3, <1>4, <2>1, <2>2, Zenon
<1>7. QED BY <1>6 DEF Echoed

\* A step of the client, the modem or the network is none of the server: what it has read
\* and written stays.
LEMMA EchoedKept ==
  ASSUME UNCHANGED <<taken, sent>>
  PROVE  Echoed => Echoed'
BY DEF Echoed

\* The server is left alone.
LEMMA ServerRests ==
  ASSUME Streams, UNCHANGED esVars
  PROVE  Streams' /\ UNCHANGED <<conn, taken, up, sent>>
<1>1. UNCHANGED <<running, failures, conn, go, up, down, gone, taken, sent, torn, stalls>>
  BY DEF esVars
<1>2. EP!ESInv /\ \A k \in Attempts : Stream(k) BY DEF Streams
<1>3. /\ up' \in [Attempts -> Seq(Unit)] /\ down' \in [Attempts -> Seq(Unit)]
      /\ gone' \in [Attempts -> BOOLEAN]
  BY <1>1, <1>2 DEF EP!ESInv, EP!Tables
<1>4. ASSUME NEW k \in Attempts PROVE Stream(k)'
  <2>1. UNCHANGED <<torn[k], taken[k], up[k], down[k], sent[k]>> /\ ConnOnward(k)
    BY <1>1 DEF ConnOnward
  <2>2. QED BY <1>2, <2>1, StreamKept
<1>5. QED BY <1>1, <1>2, <1>3, <1>4, WireFits

\* Steps that leave the client away from its sends.
LEMMA LinkedAway ==
  ASSUME Linked, UNCHANGED conn, cpc' \notin {"whdr", "wbody"},
         cpc' = "dial" => want' \in Attempts,
         \/ UNCHANGED <<link, linkPeer>>
         \/ link' = "closed"
         \/ link' = "opening" /\ linkPeer' \in Attempts,
         ~urc'.ok \/ UNCHANGED <<urc, link, linkPeer, taken, up>>
  PROVE  Linked'
<1>1. CASE UNCHANGED <<link, linkPeer>>
  <2>1. HasLink' = HasLink BY <1>1 DEF HasLink
  <2>2. UNCHANGED <<urc, taken, up>> => Total(linkPeer)' = Total(linkPeer) BY <1>1 DEF Total
  <2>3. urc'.ok => UNCHANGED <<urc, taken, up>> OBVIOUS
  <2>4. QED BY <1>1, <2>1, <2>2, <2>3 DEF Linked
<1>2. CASE link' = "closed"
  <2>1. ~HasLink' BY <1>2 DEF HasLink
  <2>2. QED BY <1>2, <2>1 DEF Linked
<1>3. CASE link' = "opening" /\ linkPeer' \in Attempts
  <2>1. ~HasLink' BY <1>3 DEF HasLink
  <2>2. CASE ~urc'.ok BY <1>3, <2>1, <2>2 DEF Linked
  <2>3. CASE UNCHANGED <<urc, link, linkPeer, taken, up>> BY <1>1, <2>3
  <2>4. QED BY <2>2, <2>3
<1>4. QED BY <1>1, <1>2, <1>3

\* A step within a session, and a failure.
LEMMA SessionMoves ==
  ASSUME Session, cpc \notin {"close", "done", "rbody"}, cpc' \in ClientPc,
         buf' = buf, polls' \in 0..PollLimit, rounds' = rounds,
         result' = result \/ result' = "fail", Echoed => Echoed'
  PROVE  Session'
BY DEF Session

LEMMA SessionFails ==
  ASSUME Session, cpc \notin {"close", "done"}, Fails
  PROVE  Session'
<1>1. <<>> \in Seq(Unit) /\ Len(<<>>) = 0 /\ 0 < PayloadLen /\ 0 \in 0..PollLimit
  BY SizesAssumption, RetriesAssumption
<1>2. cpc' = "close" /\ result' = "fail" /\ buf' = <<>> /\ polls' = 0 /\ rounds' = rounds
  BY DEF Fails, ClientMoves
<1>3. QED BY <1>1, <1>2 DEF Session, ClientPc

LEMMA SessionRests == ASSUME Session, UNCHANGED clientVars, Echoed => Echoed' PROVE Session'
BY DEF Session, clientVars

\* A step of the session: to its next place, and the failure of an attempt.
LEMMA StepAway ==
  ASSUME RTInv, Streams', UNCHANGED <<conn, taken, up, sent>>,
         UNCHANGED <<link, linkPeer>> \/ link' = "closed"
           \/ (link' = "opening" /\ linkPeer' \in Attempts),
         ~urc'.ok \/ UNCHANGED <<urc, link, linkPeer>>,
         cpc' \notin {"whdr", "wbody"}, cpc' = "dial" => want' \in Attempts,
         Session'
  PROVE  RTInv'
<1>1. Linked'
  <2>1. ~urc'.ok \/ UNCHANGED <<urc, link, linkPeer, taken, up>> OBVIOUS
  <2>2. Linked BY DEF RTInv
  <2>3. QED BY <2>1, <2>2, LinkedAway
<1>2. QED BY <1>1 DEF RTInv

LEMMA OpensSocketKeeps == ASSUME RTInv, OpensSocket PROVE RTInv'
<1>1. Streams' /\ UNCHANGED <<conn, taken, up, sent>>
  BY ServerRests DEF OpensSocket, RTInv
<1>2. UNCHANGED <<link, linkPeer, urc>>
  BY Zenon DEF OpensSocket, SO!Create, SO!CreateFails, SO!modemVars
<1>3. cpc = "socket" /\ Session /\ (Echoed => Echoed')
  BY <1>1, EchoedKept DEF OpensSocket, RTInv
<1>4. CASE cpc' = "connect" /\ UNCHANGED <<buf, polls, result, rounds>>
  <2>1. Session' BY <1>3, <1>4 DEF Session, ClientPc
  <2>2. QED BY <1>1, <1>2, <1>4, <2>1, StepAway
<1>5. CASE /\ cpc' \in {"done", "backoff", "failed"} /\ result' = "fail"
           /\ UNCHANGED <<buf, polls, rounds>>
  <2>1. Session' BY <1>3, <1>5 DEF Session, ClientPc
  <2>2. QED BY <1>1, <1>2, <1>5, <2>1, StepAway
<1>6. QED BY <1>4, <1>5 DEF OpensSocket, ClientMoves, SessionReturns

LEMMA ConnectsKeeps == ASSUME RTInv, Place, Connects PROVE RTInv'
<1>1. Streams' /\ UNCHANGED <<conn, taken, up, sent>>
  BY ServerRests DEF Connects, RTInv
<1>2. cpc = "connect" /\ Session /\ (Echoed => Echoed')
  BY <1>1, EchoedKept DEF Connects, RTInv
<1>3. CASE SO!ConnectNotReady /\ Fails
  <2>1. UNCHANGED <<link, linkPeer, urc>> BY <1>3, Zenon DEF SO!ConnectNotReady, SO!modemVars
  <2>2. cpc' = "close" BY <1>3 DEF Fails, ClientMoves
  <2>3. Session' BY <1>2, <1>3, SessionFails
  <2>4. QED BY <1>1, <2>1, <2>2, <2>3, StepAway
<1>4. CASE SO!ConnectStarts(attempt) /\ ClientMoves("dial") /\ UNCHANGED <<buf, polls, result>>
  <2>1. UNCHANGED <<link, linkPeer>> /\ want' = attempt /\ urc' = SO!NoUrc
    BY <1>4, Zenon DEF SO!ConnectStarts
  <2>2. ~urc'.ok BY <2>1 DEF SO!NoUrc
  <2>3. cpc' = "dial" /\ rounds' = rounds BY <1>4 DEF ClientMoves
  <2>4. Session' BY <1>2, <1>4, <2>3 DEF Session, ClientPc
  <2>5. want' \in Attempts BY <2>1 DEF Place
  <2>6. QED BY <1>1, <2>1, <2>2, <2>3, <2>4, <2>5, StepAway
<1>5. QED BY <1>3, <1>4 DEF Connects

LEMMA DialsOnKeeps == ASSUME RTInv, DialsOn PROVE RTInv'
<1>1. Streams' /\ UNCHANGED <<conn, taken, up, sent>>
  BY HangsUpStreams DEF DialsOn, RTInv
<1>2. cpc = "dial" /\ UNCHANGED clientVars /\ Session /\ (Echoed => Echoed')
  BY <1>1, EchoedKept DEF DialsOn, RTInv
<1>3. want \in Attempts /\ want' = want
  <2>1. want \in Attempts BY <1>2 DEF RTInv, Linked
  <2>2. want' = want BY Zenon DEF DialsOn, SO!CloseThenOpen, SO!NoCloseThenOpen
  <2>3. QED BY <2>1, <2>2
<1>4. \/ link' = "opening" /\ linkPeer' = want /\ urc' = SO!NoUrc
      \/ urc' = [ok |-> FALSE, to |-> want] /\ (link' = "closed" \/ UNCHANGED <<link, linkPeer>>)
  <2>1. SO!Dials(TRUE) \/ SO!Dials(link = "closed")
    BY Zenon DEF DialsOn, SO!CloseThenOpen, SO!NoCloseThenOpen
  <2>2. QED BY <2>1 DEF SO!Dials
<1>5. ~urc'.ok BY <1>4 DEF SO!NoUrc
<1>6. Session' /\ cpc' = "dial" BY <1>2, SessionRests DEF clientVars
<1>7. QED BY <1>1, <1>3, <1>4, <1>5, <1>6, StepAway

LEMMA DialEndsKeeps == ASSUME RTInv, DialEnds PROVE RTInv'
<1>1. Streams' /\ UNCHANGED <<conn, taken, up, sent>>
  BY ServerRests DEF DialEnds, RTInv
<1>2. cpc = "dial" /\ Session /\ Linked /\ (Echoed => Echoed')
  BY <1>1, EchoedKept DEF DialEnds, RTInv
<1>3. CASE SO!OpenFails /\ Fails
  <2>1. UNCHANGED <<link, linkPeer>> /\ urc' = SO!NoUrc
    BY <1>3, Zenon DEF SO!OpenFails, SO!modemVars
  <2>2. ~urc'.ok BY <2>1 DEF SO!NoUrc
  <2>3. cpc' = "close" BY <1>3 DEF Fails, ClientMoves
  <2>4. Session' BY <1>2, <1>3, SessionFails
  <2>5. QED BY <1>1, <2>1, <2>2, <2>3, <2>4, StepAway
<1>4. CASE SO!OpenDone /\ ClientMoves("whdr") /\ UNCHANGED <<buf, polls, result>>
  <2>1. urc.ok /\ UNCHANGED <<link, linkPeer>> /\ urc' = SO!NoUrc
    BY <1>4, Zenon DEF SO!OpenDone, SO!modemVars
  <2>2. ~urc'.ok BY <2>1 DEF SO!NoUrc
  <2>3. cpc' = "whdr" /\ rounds' = rounds BY <1>4 DEF ClientMoves
  <2>4. Session' BY <1>2, <1>4, <2>3 DEF Session, ClientPc
  <2>5. HasLink' = HasLink /\ Total(linkPeer)' = Total(linkPeer)
    BY <1>1, <2>1 DEF HasLink, Total
  <2>6. Linked' BY <1>1, <1>2, <2>1, <2>2, <2>3, <2>5 DEF Linked
  <2>7. QED BY <1>1, <2>4, <2>6 DEF RTInv
<1>5. QED BY <1>3, <1>4 DEF DialEnds

\* What a send delivers, whether or not it succeeds, is the part of the frame that is due.
LEMMA SendDelivers ==
  ASSUME RTInv, NEW units \in Seq(Unit), Delivers(units) \/ Delivers(<<>>),
         link = "open" /\ conn[linkPeer] # "closed" =>
           /\ Counts(units, Total(linkPeer))
           /\ Total(linkPeer) + Len(units) <= PayloadLen + 1
  PROVE  /\ Streams' /\ UNCHANGED <<conn, taken, sent>>
         /\ Delivers(units) /\ link = "open" /\ conn[linkPeer] # "closed" =>
              \A k \in Attempts : k = linkPeer => Total(k)' = Total(k) + Len(units)
<1>1. Streams /\ Linked BY DEF RTInv
<1>2. CASE Delivers(units) BY <1>1, <1>2, DeliversStreams
<1>3. CASE Delivers(<<>>) /\ ~Delivers(units)
  <2>1. <<>> \in Seq(Unit) /\ Len(<<>>) = 0 OBVIOUS
  <2>2. ASSUME link = "open", conn[linkPeer] # "closed"
        PROVE  /\ Counts(<<>>, Total(linkPeer))
               /\ Total(linkPeer) + Len(<<>>) <= PayloadLen + 1
    <3>1. linkPeer \in Attempts BY <1>1, <2>2 DEF Linked
    <3>2. Stream(linkPeer) /\ EP!ESInv BY <1>1, <3>1 DEF Streams
    <3>3. Total(linkPeer) \in Nat /\ Total(linkPeer) <= PayloadLen + 1
      BY <3>1, <3>2, StreamTypes DEF Stream
    <3>4. \A t \in Nat : t + 0 = t OBVIOUS
    <3>5. Total(linkPeer) + Len(<<>>) = Total(linkPeer) BY <2>1, <3>3, <3>4, Zenon
    <3>6. QED BY <3>3, <3>5, CountsEmpty
  <2>3. Streams' /\ UNCHANGED <<conn, taken, sent>>
    BY <1>1, <1>3, <2>1, <2>2, DeliversStreams
  <2>4. QED BY <1>3, <2>3
<1>4. QED BY <1>2, <1>3

\* A send that fails, however much of it got through.
LEMMA SendFailsKeeps ==
  ASSUME RTInv, SO!Sends, Streams', UNCHANGED <<conn, taken, sent>>, Fails,
         cpc \in {"whdr", "wbody"}
  PROVE  RTInv'
<1>1. UNCHANGED <<link, linkPeer>> /\ urc' = SO!NoUrc BY Zenon DEF SO!Sends, SO!modemVars
<1>2. ~urc'.ok BY <1>1 DEF SO!NoUrc
<1>3. cpc' = "close" BY DEF Fails, ClientMoves
<1>4. Linked' BY <1>1, <1>2, <1>3, LinkedAway DEF RTInv
<1>5. Session'
  <2>1. Session /\ (Echoed => Echoed') BY EchoedKept DEF RTInv
  <2>2. QED BY <2>1, SessionFails
<1>6. QED BY <1>4, <1>5 DEF RTInv

\* The socket while a send succeeds.
LEMMA SendSucceeds ==
  ASSUME SO!Sends, ret' = "ok"
  PROVE  link = "open" /\ UNCHANGED <<link, linkPeer>> /\ ~urc'.ok
<1>1. UNCHANGED <<link, linkPeer>> /\ urc' = SO!NoUrc BY Zenon DEF SO!Sends, SO!modemVars
<1>2. link = "open" BY DEF SO!Sends, SO!Returns
<1>3. QED BY <1>1, <1>2 DEF SO!NoUrc

LEMMA SendsHeaderKeeps == ASSUME RTInv, SendsHeader PROVE RTInv'
<1>1. /\ cpc = "whdr" /\ SO!Sends
      /\ \/ ret' = "ok" /\ Delivers(<<Hdr>>) /\ ClientMoves("wbody") /\ UNCHANGED <<buf, polls, result>>
         \/ ret' # "ok" /\ (Delivers(<<Hdr>>) \/ Delivers(<<>>)) /\ Fails
  BY DEF SendsHeader, Sending
<1>2. Streams /\ Linked /\ Session BY DEF RTInv
<1>3. link = "open" => linkPeer \in Attempts /\ HasLink /\ Total(linkPeer) = 0
  BY <1>1, <1>2 DEF Linked, HasLink
<1>4. <<Hdr>> \in Seq(Unit) /\ Len(<<Hdr>>) = 1 /\ Counts(<<Hdr>>, 0) /\ 0 + 1 <= PayloadLen + 1
  BY FrameCounts
<1>5. /\ Streams' /\ UNCHANGED <<conn, taken, sent>>
      /\ Delivers(<<Hdr>>) /\ link = "open" /\ conn[linkPeer] # "closed" =>
           \A k \in Attempts : k = linkPeer => Total(k)' = Total(k) + Len(<<Hdr>>)
  BY <1>1, <1>3, <1>4, SendDelivers
<1>6. CASE ret' # "ok" /\ Fails BY <1>1, <1>5, <1>6, SendFailsKeeps
<1>7. CASE ret' = "ok" /\ Delivers(<<Hdr>>) /\ ClientMoves("wbody") /\ UNCHANGED <<buf, polls, result>>
  <2>1. link = "open" /\ UNCHANGED <<link, linkPeer>> /\ ~urc'.ok BY <1>1, <1>7, SendSucceeds
  <2>2. cpc' = "wbody" /\ rounds' = rounds BY <1>7 DEF ClientMoves
  <2>3. conn[linkPeer] # "closed" => Total(linkPeer)' = 1
    <3>1. PICK c \in Attempts : c = linkPeer BY <1>3, <2>1
    <3>2. conn[c] # "closed" => Total(c)' = 1 BY <1>3, <1>4, <1>5, <1>7, <2>1, <3>1
    <3>3. Total(linkPeer)' = Total(c)' BY <2>1, <3>1 DEF Total
    <3>4. QED BY <3>1, <3>2, <3>3
  <2>4. Linked'
    <3>1. HasLink' = HasLink BY <2>1 DEF HasLink
    <3>2. QED BY <1>2, <1>5, <2>1, <2>2, <2>3, <3>1 DEF Linked
  <2>5. Session'
    <3>1. Echoed => Echoed' BY <1>5, EchoedKept
    <3>2. QED BY <1>1, <1>2, <1>7, <2>2, <3>1 DEF Session, ClientPc
  <2>6. QED BY <1>5, <2>4, <2>5 DEF RTInv
<1>8. QED BY <1>1, <1>6, <1>7

LEMMA SendsPayloadKeeps == ASSUME RTInv, SendsPayload PROVE RTInv'
<1>1. /\ cpc = "wbody" /\ SO!Sends
      /\ \/ ret' = "ok" /\ Delivers(MyPayload) /\ ClientMoves("rhdr") /\ UNCHANGED <<buf, polls, result>>
         \/ ret' # "ok" /\ (Delivers(MyPayload) \/ Delivers(<<>>)) /\ Fails
  BY DEF SendsPayload, Sending
<1>2. Streams /\ Linked /\ Session BY DEF RTInv
<1>3. link = "open" /\ conn[linkPeer] # "closed" => Total(linkPeer) = 1
  BY <1>1, <1>2 DEF Linked, HasLink
<1>4. /\ MyPayload \in Seq(Unit) /\ Len(MyPayload) = PayloadLen /\ Counts(MyPayload, 1)
      /\ 1 + PayloadLen <= PayloadLen + 1
  BY FrameCounts
<1>5. Streams' /\ UNCHANGED <<conn, taken, sent>>
  BY <1>1, <1>3, <1>4, SendDelivers
<1>6. CASE ret' # "ok" /\ Fails BY <1>1, <1>5, <1>6, SendFailsKeeps
<1>7. CASE ret' = "ok" /\ ClientMoves("rhdr") /\ UNCHANGED <<buf, polls, result>>
  <2>1. UNCHANGED <<link, linkPeer>> /\ ~urc'.ok BY <1>1, <1>7, SendSucceeds
  <2>2. cpc' = "rhdr" /\ rounds' = rounds BY <1>7 DEF ClientMoves
  <2>3. Linked' BY <1>2, <1>5, <2>1, <2>2, LinkedAway
  <2>4. Session'
    <3>1. Echoed => Echoed' BY <1>5, EchoedKept
    <3>2. QED BY <1>1, <1>2, <1>7, <2>2, <3>1 DEF Session, ClientPc
  <2>5. QED BY <1>5, <2>3, <2>4 DEF RTInv
<1>8. QED BY <1>1, <1>6, <1>7

\* A receive: what it takes off the wire, and the socket.
LEMMA ReceiveConsumes ==
  ASSUME RTInv, SO!Receives, NEW n \in 0..Len(Arrived), Consumes(n)
  PROVE  /\ Streams' /\ UNCHANGED <<conn, taken, up, sent, link, linkPeer>> /\ ~urc'.ok
         /\ Session /\ (Echoed => Echoed')
<1>1. Streams' /\ UNCHANGED <<conn, taken, up, sent>> BY ConsumesStreams DEF RTInv
<1>2. UNCHANGED <<link, linkPeer>> /\ urc' = SO!NoUrc BY Zenon DEF SO!Receives, SO!modemVars
<1>3. ~urc'.ok BY <1>2 DEF SO!NoUrc
<1>4. QED BY <1>1, <1>2, <1>3, EchoedKept DEF RTInv

LEMMA ReceiveFailsKeeps ==
  ASSUME RTInv, SO!Receives, NEW n \in 0..Len(Arrived), Consumes(n),
         cpc \in {"rhdr", "rbody"}, Fails
  PROVE  RTInv'
<1>1. /\ Streams' /\ UNCHANGED <<conn, taken, up, sent, link, linkPeer>> /\ ~urc'.ok
      /\ Session
  BY ReceiveConsumes
<1>2. cpc' = "close" BY DEF Fails, ClientMoves
<1>3. Session' BY <1>1, SessionFails
<1>4. QED BY <1>1, <1>2, <1>3, StepAway

\* A success is made of the unit that comes last in the frame, and the server's.
LEMMA LastUnitMeansEchoed ==
  ASSUME RTInv, NEW k \in 1..Len(Arrived), buf \o SubSeq(Arrived, 1, k) = MyPayload
  PROVE  Echoed
<1>1. Streams /\ Linked /\ Session BY DEF RTInv
<1>2. HasLink /\ Arrived = down[linkPeer]
  <2>1. Len(<<>>) = 0 /\ 1..0 = {} OBVIOUS
  <2>2. QED BY <2>1 DEF Arrived
<1>3. PICK c \in Attempts : c = linkPeer BY <1>1, <1>2 DEF Linked, HasLink
<1>4. /\ EP!ESInv /\ Stream(c) BY <1>1 DEF Streams
<1>5. /\ down[c] \in Seq(Unit) /\ Len(down[c]) \in Nat /\ Len(sent[c]) \in Nat
      /\ Len(taken[c]) \in Nat /\ Len(up[c]) \in Nat /\ k \in 1..Len(down[c])
  BY <1>2, <1>3, <1>4, StreamTypes
<1>6. down[c][k] = PayloadLen
  <2>1. buf \in Seq(Unit) /\ Len(buf) \in Nat BY <1>1 DEF Session
  <2>2. /\ SubSeq(down[c], 1, k) \in Seq(Unit) /\ Len(SubSeq(down[c], 1, k)) = k
        /\ SubSeq(down[c], 1, k)[k] = down[c][k]
    BY <1>5
  <2>3. buf \o SubSeq(down[c], 1, k) = MyPayload BY <1>2, <1>3
  <2>4. Len(buf) + k = PayloadLen
    <3>1. \A a, b \in Seq(Unit) : Len(a \o b) = Len(a) + Len(b) BY ConcatProperties
    <3>2. Len(buf \o SubSeq(down[c], 1, k)) = Len(buf) + k BY <2>1, <2>2, <3>1, Zenon
    <3>3. QED BY <2>3, <3>2, FrameCounts, Zenon
  <2>5. (buf \o SubSeq(down[c], 1, k))[Len(buf) + k] = SubSeq(down[c], 1, k)[k]
    <3>1. \A a, b \in Seq(Unit) : \A i \in 1..Len(b) : (a \o b)[Len(a) + i] = b[i]
      BY LenProperties, ConcatProperties
    <3>2. k \in 1..Len(SubSeq(down[c], 1, k)) BY <1>5, <2>2
    <3>3. QED BY <2>1, <2>2, <3>1, <3>2, Zenon
  <2>6. MyPayload[PayloadLen] = PayloadLen BY FrameCounts DEF MyPayload
  <2>7. QED BY <2>2, <2>3, <2>4, <2>5, <2>6
<1>7. PayloadLen = Len(sent[c]) - Len(down[c]) + k - 1
  <2>1. k \in DOMAIN down[c] BY <1>5
  <2>2. QED BY <1>4, <1>6, <2>1 DEF Stream, Counts
<1>8. /\ Len(sent[c]) <= Len(taken[c]) /\ Len(taken[c]) + Len(up[c]) <= PayloadLen + 1
  BY <1>4 DEF Stream, Total
<1>9. Len(taken[c]) = PayloadLen + 1 /\ Len(sent[c]) = PayloadLen + 1
  <2>1. \A x, d \in Nat : \A j \in 1..d : \A p \in Nat : p = x - d + j - 1 => p + 1 <= x
    OBVIOUS
  <2>2. PayloadLen \in Nat BY SizesAssumption
  <2>3. PayloadLen + 1 <= Len(sent[c]) BY <1>5, <1>7, <2>1, <2>2, Zenon
  <2>4. \A x, t, v, p \in Nat : p + 1 <= x /\ x <= t /\ t + v <= p + 1 => t = p + 1 /\ x = p + 1
    OBVIOUS
  <2>5. \A p \in Nat : p + 1 <= Len(sent[c]) /\ Len(sent[c]) <= Len(taken[c])
          /\ Len(taken[c]) + Len(up[c]) <= p + 1 => Len(taken[c]) = p + 1 /\ Len(sent[c]) = p + 1
    BY <1>5, <2>4, Zenon
  <2>6. QED BY <1>8, <2>2, <2>3, <2>5, Zenon
<1>10. QED BY <1>9 DEF Echoed

LEMMA ReceivesHeaderKeeps == ASSUME RTInv, ReceivesHeader PROVE RTInv'
<1>1. /\ cpc = "rhdr" /\ SO!Receives /\ Consumes(1)
      /\ \/ ClientMoves("rbody") /\ polls' = 0 /\ UNCHANGED <<buf, result>>
         \/ Fails
  BY DEF ReceivesHeader
<1>2. 1 \in 0..Len(Arrived)
  <2>1. Streams /\ Linked BY DEF RTInv
  <2>2. Arrived # <<>> BY DEF ReceivesHeader
  <2>3. HasLink /\ Arrived = down[linkPeer] /\ linkPeer \in Attempts
    BY <2>1, <2>2 DEF Arrived, HasLink, Linked
  <2>4. Arrived \in Seq(Unit) BY <2>1, <2>3, StreamTypes DEF Streams
  <2>5. QED BY <2>2, <2>4
<1>3. /\ Streams' /\ UNCHANGED <<conn, taken, up, sent, link, linkPeer>> /\ ~urc'.ok
      /\ Session /\ (Echoed => Echoed')
  BY <1>1, <1>2, ReceiveConsumes
<1>4. CASE ClientMoves("rbody") /\ polls' = 0 /\ UNCHANGED <<buf, result>>
  <2>1. cpc' = "rbody" /\ rounds' = rounds BY <1>4 DEF ClientMoves
  <2>2. 0 \in 0..PollLimit BY RetriesAssumption
  <2>3. Session' BY <1>1, <1>3, <1>4, <2>1, <2>2 DEF Session, ClientPc
  <2>4. QED BY <1>3, <2>1, <2>3, StepAway
<1>5. CASE Fails BY <1>1, <1>2, <1>5, ReceiveFailsKeeps
<1>6. QED BY <1>1, <1>4, <1>5

LEMMA ReceivesPayloadKeeps == ASSUME RTInv, ReceivesPayload PROVE RTInv'
<1>1. PICK k \in 1..Len(Arrived) :
        LET all == buf \o SubSeq(Arrived, 1, k) IN
        /\ Len(all) <= PayloadLen
        /\ Consumes(k)
        /\ IF Len(all) < PayloadLen
             THEN buf' = all /\ ClientMoves("rbody") /\ UNCHANGED <<polls, result>>
           ELSE IF all = MyPayload
             THEN /\ cpc' = "close" /\ result' = "ok" /\ rounds' = rounds + 1
                  /\ buf' = <<>> /\ polls' = 0 /\ UNCHANGED attempt
           ELSE Fails
  BY DEF ReceivesPayload
<1> DEFINE all == buf \o SubSeq(Arrived, 1, k)
<1>2. cpc = "rbody" /\ SO!Receives /\ k \in 0..Len(Arrived) BY DEF ReceivesPayload
<1>3. /\ Streams' /\ UNCHANGED <<conn, taken, up, sent, link, linkPeer>> /\ ~urc'.ok
      /\ Session /\ (Echoed => Echoed')
  BY <1>1, <1>2, ReceiveConsumes
<1>4. all \in Seq(Unit)
  <2>1. Streams /\ Linked /\ Session BY DEF RTInv
  <2>2. HasLink /\ Arrived = down[linkPeer] /\ linkPeer \in Attempts
    <3>1. Len(<<>>) = 0 /\ 1..0 = {} OBVIOUS
    <3>2. QED BY <2>1, <3>1 DEF Arrived, HasLink, Linked
  <2>3. Arrived \in Seq(Unit) BY <2>1, <2>2, StreamTypes DEF Streams
  <2>4. buf \in Seq(Unit) /\ SubSeq(Arrived, 1, k) \in Seq(Unit)
    BY <2>1, <2>3 DEF Session
  <2>5. QED BY <2>4
<1>5. CASE buf' = all /\ Len(all) < PayloadLen /\ ClientMoves("rbody") /\ UNCHANGED <<polls, result>>
  <2>1. cpc' = "rbody" /\ rounds' = rounds BY <1>5 DEF ClientMoves
  <2> HIDE DEF all
  <2>2. Session' BY <1>2, <1>3, <1>4, <1>5, <2>1 DEF Session, ClientPc
  <2>3. QED BY <1>3, <2>1, <2>2, StepAway
<1>6. CASE /\ all = MyPayload /\ cpc' = "close" /\ result' = "ok" /\ rounds' = rounds + 1
           /\ buf' = <<>> /\ polls' = 0
  <2>1. Echoed' BY <1>3, <1>6, LastUnitMeansEchoed
  <2>2. <<>> \in Seq(Unit) /\ Len(<<>>) = 0 /\ 0 < PayloadLen /\ 0 \in 0..PollLimit
    BY SizesAssumption, RetriesAssumption
  <2>3. rounds = 0 BY <1>2, <1>3 DEF Session
  <2>4. Session' BY <1>3, <1>6, <2>1, <2>2, <2>3 DEF Session, ClientPc
  <2>5. QED BY <1>3, <1>6, <2>4, StepAway
<1>7. CASE Fails BY <1>1, <1>2, <1>7, ReceiveFailsKeeps
<1>8. QED BY <1>1, <1>5, <1>6, <1>7

\* A poll, and an error of the modem: what the answer carried is lost.
LEMMA PollsKeeps == ASSUME RTInv, Polls \/ ReceiveFails PROVE RTInv'
<1>1. cpc \in {"rhdr", "rbody"} /\ SO!Receives /\ Loses
  BY DEF Polls, ReceiveFails, Receiving
<1>2. PICK n \in 0..Len(Arrived) : Consumes(n) BY <1>1 DEF Loses
<1>3. /\ Streams' /\ UNCHANGED <<conn, taken, up, sent, link, linkPeer>> /\ ~urc'.ok
      /\ Session /\ (Echoed => Echoed')
  BY <1>1, <1>2, ReceiveConsumes
<1>4. CASE polls < PollLimit /\ polls' = polls + 1 /\ UNCHANGED <<cpc, buf, result, rounds>>
  <2>1. polls' \in 0..PollLimit BY <1>3, <1>4, RetriesAssumption DEF Session
  <2>2. Session' BY <1>1, <1>3, <1>4, <2>1 DEF Session, ClientPc
  <2>3. QED BY <1>1, <1>3, <1>4, <2>2, StepAway
<1>5. CASE Fails BY <1>1, <1>2, <1>5, ReceiveFailsKeeps
<1>6. QED BY <1>4, <1>5 DEF Polls, ReceiveFails

LEMMA ClosesSocketKeeps == ASSUME RTInv, ClosesSocket PROVE RTInv'
<1>1. Streams' /\ UNCHANGED <<conn, taken, up, sent>>
  BY HangsUpStreams DEF ClosesSocket, RTInv
<1>2. cpc = "close" /\ UNCHANGED result /\ Session /\ (Echoed => Echoed')
  BY <1>1, EchoedKept DEF ClosesSocket, RTInv
<1>3. /\ UNCHANGED <<link, linkPeer>> \/ link' = "closed"
      /\ ~urc'.ok \/ UNCHANGED <<urc, link, linkPeer>>
  <2>1. \/ UNCHANGED <<link, linkPeer, urc>>
        \/ link' = "closed" /\ urc' = SO!NoUrc
        \/ UNCHANGED <<link, linkPeer>> /\ urc' = SO!NoUrc
    BY Zenon DEF ClosesSocket, SO!CloseUnconnected, SO!CloseConnected, SO!CloseUnanswered,
       SO!modemVars
  <2>2. QED BY <2>1 DEF SO!NoUrc
<1>4. /\ cpc' \in {"done", "backoff", "failed"} /\ (result = "ok" => cpc' = "done")
      /\ UNCHANGED <<buf, polls, rounds>>
  BY DEF ClosesSocket, SessionReturns
<1>5. Session' BY <1>2, <1>4 DEF Session, ClientPc
<1>6. QED BY <1>1, <1>3, <1>4, <1>5, StepAway

LEMMA BackoffEndsKeeps == ASSUME RTInv, BackoffEnds PROVE RTInv'
<1>1. Streams' /\ UNCHANGED <<conn, taken, up, sent>>
  BY ServerRests DEF BackoffEnds, RTInv
<1>2. UNCHANGED <<link, linkPeer, urc>> BY Zenon DEF BackoffEnds, soVars
<1>3. /\ cpc = "backoff" /\ cpc' = "socket" /\ rounds' = 0 /\ result' = "none"
      /\ UNCHANGED <<buf, polls>>
  BY DEF BackoffEnds
<1>4. Session' BY <1>3 DEF RTInv, Session, ClientPc
<1>5. QED BY <1>1, <1>2, <1>3, <1>4, StepAway

----
(* The modem and the server *)

\* A step of the server, or of the network: what the client sees of its connection.
LEMMA OnwardKeeps ==
  ASSUME RTInv, Streams', \A k \in Attempts : Onward(k),
         UNCHANGED <<link, linkPeer, urc, want>>, UNCHANGED clientVars
  PROVE  RTInv'
<1>1. Linked /\ Session BY DEF RTInv
<1>2. Echoed => Echoed' BY EchoedStays DEF Onward
<1>3. Session' BY <1>1, <1>2, SessionRests
<1>4. cpc' = cpc /\ HasLink' = HasLink BY DEF clientVars, HasLink
<1>5. ASSUME link # "closed"
      PROVE  /\ linkPeer \in Attempts /\ Total(linkPeer)' = Total(linkPeer)
             /\ conn'[linkPeer] = "free" => conn[linkPeer] = "free"
             /\ conn[linkPeer] = "closed" => conn'[linkPeer] = "closed"
  <2>1. PICK c \in Attempts : c = linkPeer BY <1>1, <1>5 DEF Linked
  <2>2. Onward(c) BY <2>1
  <2>3. Total(linkPeer)' = Total(c)' BY <2>1 DEF Total
  <2>4. QED BY <2>1, <2>2, <2>3 DEF Onward, ConnOnward
<1>6. HasLink => link # "closed" BY DEF HasLink
<1>7. Linked' BY <1>1, <1>4, <1>5, <1>6 DEF Linked
<1>8. QED BY <1>3, <1>7 DEF RTInv

LEMMA ServerKeeps == ASSUME RTInv, ServerServes \/ ServerAcceptFails PROVE RTInv'
<1>1. Streams' /\ \A k \in Attempts : Onward(k)
  <2>1. Streams BY DEF RTInv
  <2>2. CASE ServerServes BY <2>1, <2>2, ServesStreams DEF ServerServes
  <2>3. CASE ServerAcceptFails BY <2>1, <2>3, ConnStreams DEF ServerAcceptFails
  <2>4. QED BY <2>2, <2>3
<1>2. UNCHANGED <<link, linkPeer, urc, want>> /\ UNCHANGED clientVars
  BY Zenon DEF ServerServes, ServerAcceptFails, soVars
<1>3. QED BY <1>1, <1>2, OnwardKeeps

\* The server has a connection on which nothing has been sent.
LEMMA LinkOpensKeeps == ASSUME RTInv, LinkOpens PROVE RTInv'
<1>1. Streams /\ Linked /\ Session BY DEF RTInv
<1>2. /\ link = "opening" /\ link' = "open" /\ UNCHANGED <<linkPeer, want>>
      /\ UNCHANGED clientVars /\ ES!Connects(linkPeer)
  BY Zenon DEF LinkOpens, SO!LinkOpens, SO!callVars
<1>3. PICK c \in Attempts : c = linkPeer BY <1>1, <1>2 DEF Linked
<1>4. Streams' /\ \A k \in Attempts : Onward(k)
  BY <1>1, <1>2, <1>3, ConnStreams
<1>5. Total(linkPeer)' = 0 /\ conn'[linkPeer] # "free"
  <2>1. conn[c] = "free" /\ conn' = [conn EXCEPT ![c] = "queued"]
    BY <1>2, <1>3 DEF ES!Connects
  <2>2. Stream(c) /\ EP!ESInv BY <1>1 DEF Streams
  <2>3. Total(c) = 0 /\ conn'[c] = "queued"
    BY <2>1, <2>2 DEF Stream, EP!ESInv, EP!Tables
  <2>4. Total(c)' = Total(c) BY <1>4 DEF Onward
  <2>5. Total(linkPeer)' = Total(c)' BY <1>2, <1>3 DEF Total
  <2>6. QED BY <1>2, <1>3, <2>3, <2>4, <2>5
<1>6. Linked'
  <2>1. cpc \notin {"whdr", "wbody"} /\ cpc' = cpc BY <1>1, <1>2 DEF Linked, clientVars
  <2>2. QED BY <1>1, <1>2, <1>3, <1>5, <2>1 DEF Linked, HasLink
<1>7. Session'
  <2>1. Echoed => Echoed' BY <1>4, EchoedStays DEF Onward
  <2>2. QED BY <1>1, <1>2, <2>1, SessionRests
<1>8. QED BY <1>4, <1>6, <1>7 DEF RTInv

\* The other steps of the modem.
LEMMA ModemKeeps == ASSUME RTInv, LinkRefused \/ PeerCloses \/ ModemReboots PROVE RTInv'
<1>1. Linked /\ Session BY DEF RTInv
<1>2. UNCHANGED esVars /\ UNCHANGED clientVars /\ want' = want
  BY Zenon DEF LinkRefused, PeerCloses, ModemReboots, SO!LinkRefused, SO!PeerCloses,
     SO!ModemReboots, SO!callVars
<1>3. Streams' /\ UNCHANGED <<conn, taken, up, sent>>
  BY <1>2, ServerRests DEF RTInv
<1>4. Session' BY <1>1, <1>2, <1>3, EchoedKept, SessionRests
<1>5. cpc' = cpc BY <1>2 DEF clientVars
<1>6. CASE link' = "closed"
  <2>1. ~HasLink' BY <1>6 DEF HasLink
  <2>2. QED BY <1>1, <1>2, <1>3, <1>4, <1>5, <1>6, <2>1 DEF Linked, RTInv
<1>7. CASE link = "open" /\ link' = "peerclosed" /\ UNCHANGED <<linkPeer, urc>>
  <2>1. HasLink /\ HasLink' BY <1>7 DEF HasLink
  <2>2. Total(linkPeer)' = Total(linkPeer) BY <1>3, <1>7 DEF Total
  <2>3. Linked' BY <1>1, <1>2, <1>3, <1>5, <1>7, <2>1, <2>2 DEF Linked
  <2>4. QED BY <1>3, <1>4, <2>3 DEF RTInv
<1>8. link' = "closed" \/ (link = "open" /\ link' = "peerclosed" /\ UNCHANGED <<linkPeer, urc>>)
  BY Zenon DEF LinkRefused, PeerCloses, ModemReboots, SO!LinkRefused, SO!PeerCloses,
     SO!ModemReboots
<1>9. QED BY <1>6, <1>7, <1>8

\* Every step keeps it.
LEMMA RTInvKept == RTInv /\ Place /\ [Next]_vars => RTInv'
<1> SUFFICES ASSUME RTInv, Place, [Next]_vars PROVE RTInv'
  OBVIOUS
<1>1. CASE UNCHANGED vars
  <2>1. UNCHANGED esVars /\ UNCHANGED clientVars /\ UNCHANGED soVars BY <1>1, Zenon DEF vars
  <2>2. Streams' /\ UNCHANGED <<conn, taken, up, sent>> BY <2>1, ServerRests DEF RTInv
  <2>3. UNCHANGED <<link, linkPeer, urc, want>> BY <2>1, Zenon DEF soVars
  <2>4. \A k \in Attempts : Onward(k)
    <3>1. ASSUME NEW k \in Attempts PROVE Onward(k)
      <4>1. UNCHANGED <<torn[k], taken[k], up[k], down[k], sent[k]>> /\ ConnOnward(k)
        BY <2>1 DEF esVars, ConnOnward
      <4>2. QED BY <4>1, StreamKept DEF RTInv, Streams
    <3>2. QED BY <3>1
  <2>5. QED BY <2>1, <2>2, <2>3, <2>4, OnwardKeeps
<1>2. CASE Next
  BY <1>2, OpensSocketKeeps, ConnectsKeeps, DialsOnKeeps, DialEndsKeeps, SendsHeaderKeeps,
     SendsPayloadKeeps, ReceivesHeaderKeeps, ReceivesPayloadKeeps, PollsKeeps,
     ClosesSocketKeeps, BackoffEndsKeeps, LinkOpensKeeps, ModemKeeps, ServerKeeps, Zenon
  DEF Next, ClientNext
<1>3. QED BY <1>1, <1>2

\* However late the modem answers and whatever it loses, each connection carries at most one
\* run of this firmware's units each way (write_frame, read_frame, ec801e_socket_recv_raw).
THEOREM RTInvariance == Spec => []RTInv
BY RTInitInv, RTInvKept, PlaceCorrect, PTL DEF Spec

\* A session that reports success has made a round trip of a whole frame on one connection:
\* run_roundtrip_session never takes part of an earlier echo, or of what a lost receive has
\* left, for the answer to this frame.
THEOREM SuccessEchoed == Spec => []SuccessIsEchoed
<1>1. RTInv => SuccessIsEchoed
  <2> SUFFICES ASSUME RTInv, result = "ok"
               PROVE  \E c \in Attempts : taken[c] = MyFrame /\ sent[c] = MyFrame
    BY DEF SuccessIsEchoed
  <2>1. PICK c \in Attempts : Len(taken[c]) = PayloadLen + 1 /\ Len(sent[c]) = PayloadLen + 1
    BY DEF RTInv, Session, Echoed
  <2>2. EP!ESInv /\ Stream(c) BY DEF RTInv, Streams
  <2>3. taken[c] \in Seq(Unit) /\ sent[c] \in Seq(Unit) BY <2>2, StreamTypes
  <2>4. Counts(taken[c], 0) /\ ~torn[c] BY <2>2 DEF Stream
  <2>5. Counts(sent[c], 0)
    <3>1. \A i \in 1..Len(sent[c]) : sent[c][i] = taken[c][i]
      BY <2>2, <2>4, ServerSizes, EP!SentWasTaken
    <3>2. \A i \in DOMAIN sent[c] : i \in 1..Len(sent[c]) /\ i \in DOMAIN taken[c]
      BY <2>1, <2>3
    <3>3. QED BY <2>4, <3>1, <3>2 DEF Counts
  <2>6. taken[c] = MyFrame /\ sent[c] = MyFrame BY <2>1, <2>3, <2>4, <2>5, FrameCounts
  <2>7. QED BY <2>6
<1>2. QED BY <1>1, RTInvariance, PTL

\* Every part of the session stays within its type, the two parts it is composed of included
\* (run_roundtrip_session, g_ctx, serveConnection).
THEOREM RTTypeCorrect == Spec => []RTTypeOK
<1>1. RTInv => ES!ESTypeOK /\ Session
  <2>1. EP!ESInv => EP!ESTypeOK BY ServerSizes, EP!InvHasTypes
  <2>2. QED BY <2>1, SameServer DEF RTInv, Streams
<1>2. SP!SOInv => SO!SOTypeOK
  BY DEF SP!SOInv, SP!SOTypeOK, SO!SOTypeOK, SP!Result, SO!Result, SP!NoUrc, SO!NoUrc,
     SP!OpSet, SO!OpSet
<1>3. SP!SOSpec => []SP!SOInv BY NoPeerAssumption, SP!SOInvariance
<1>4. ES!ESTypeOK /\ SO!SOTypeOK /\ Session /\ Place => RTTypeOK
  BY DEF RTTypeOK, Session, Place
<1>5. QED BY <1>1, <1>2, <1>3, <1>4, RTInvariance, PlaceCorrect, SocketIsOffload, PTL
====
