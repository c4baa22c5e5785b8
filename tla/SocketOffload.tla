---- MODULE SocketOffload ----
(***************************************************************************)
(* The one socket of drivers/ec801e/ec801e_socket_offload.c (g_ctx) over   *)
(* the socket part of ec801e.c and the connection 0 of the modem.          *)
(*                                                                         *)
(* Three layers each keep their own idea of the connection:                *)
(*   offload   allocated, connected, useTls, peer     (g_ctx)              *)
(*   driver    opened (ec801e_socket_opened), stackReady                   *)
(*   modem     link, linkPeer, pdp: what is really connected (external)    *)
(*                                                                         *)
(* zsock_connect is a conversation: AT+QICLOSE, AT+QIOPEN, then a wait for *)
(* the +QIOPEN result, which the modem sends on its own time, perhaps      *)
(* after the wait has given up.  urc is a result that waits unread in the  *)
(* UART; drain_rx throws it away.  Socket calls come from the main thread  *)
(* only: op is the connect under way.                                      *)
(***************************************************************************)
CONSTANTS Peer, NoPeer

ASSUME PeerAssumption == NoPeer \notin Peer

VARIABLES
  allocated, connected, useTls, peer,
  opened, stackReady,
  link, linkPeer, pdp,
  urc,
  op, want,    \* the connect in progress and the peer it asks for
  ret,         \* what the last call returned
  slack        \* history: what went unanswered since the modem was last known to have closed

ctxVars == <<allocated, connected, useTls, peer>>
driverVars == <<opened, stackReady>>
modemVars == <<link, linkPeer, pdp>>
callVars == <<op, want, ret>>
soVars == <<ctxVars, driverVars, modemVars, urc, callVars, slack>>

Result == [ok : BOOLEAN, to : Peer]
NoUrc == [ok |-> FALSE, to |-> NoPeer]

\* qiclose: waiting for the OK of AT+QICLOSE.  qiopen: waiting for +QIOPEN.
\* sslcfg: the AT+QSSLCFG conversation.  ssl1, ssl2: the two AT+QIOPEN of a TLS connect.
OpSet == {"idle", "qiclose", "qiopen", "sslcfg", "ssl1", "ssl2"}
Waits == {"qiopen", "ssl1", "ssl2"}

SOTypeOK ==
  /\ allocated \in BOOLEAN /\ connected \in BOOLEAN /\ useTls \in BOOLEAN
  /\ peer \in Peer \cup {NoPeer}
  /\ opened \in BOOLEAN /\ stackReady \in BOOLEAN
  /\ link \in {"closed", "opening", "open", "peerclosed"}
  /\ linkPeer \in Peer \cup {NoPeer}
  /\ pdp \in BOOLEAN
  /\ urc \in Result \cup {NoUrc}
  /\ op \in OpSet
  /\ want \in Peer \cup {NoPeer}
  /\ ret \in {"none", "ok", "emfile", "enotconn", "eagain", "einval", "eai", "eio"}
  /\ slack \subseteq {"open", "close"}
  /\ ~allocated => ~connected /\ ~useTls /\ peer = NoPeer /\ op = "idle"

SOInit ==
  /\ allocated = FALSE /\ connected = FALSE /\ useTls = FALSE /\ peer = NoPeer
  /\ opened = FALSE /\ stackReady = FALSE
  /\ link = "closed" /\ linkPeer = NoPeer /\ pdp = FALSE
  /\ urc = NoUrc /\ op = "idle" /\ want = NoPeer /\ ret = "none" /\ slack = {}

Returns(result) == op' = "idle" /\ ret' = result /\ UNCHANGED want

----
(* zsock_socket *)

\* A second socket while one is allocated, or no file descriptor left.
CreateFails ==
  /\ op = "idle"
  /\ Returns("emfile")
  /\ UNCHANGED <<ctxVars, driverVars, modemVars, urc, slack>>

Create(tls) ==
  /\ op = "idle" /\ ~allocated
  /\ allocated' = TRUE /\ connected' = FALSE /\ useTls' = tls
  /\ Returns("ok")
  /\ UNCHANGED <<peer, driverVars, modemVars, urc, slack>>

----
(* zsock_connect *)

ConnectAgain ==
  /\ op = "idle" /\ allocated /\ connected
  /\ Returns("ok")
  /\ UNCHANGED <<ctxVars, driverVars, modemVars, urc, slack>>

\* The first connect brings the modem up and activates the PDP context.  Once that has worked
\* it is never done again, whatever becomes of the modem.
StackInit ==
  /\ stackReady' = TRUE
  /\ IF stackReady THEN pdp' = pdp ELSE pdp' \in BOOLEAN

ConnectNotReady ==
  /\ op = "idle" /\ allocated /\ ~connected /\ ~stackReady
  /\ Returns("eio")
  /\ UNCHANGED <<ctxVars, driverVars, modemVars, urc, slack>>

\* Every command but AT+QIOPEN of a TLS connect is preceded by drain_rx.
ConnectStarts(p) ==
  /\ op = "idle" /\ allocated /\ ~connected
  /\ StackInit
  /\ op' = (IF useTls THEN "sslcfg" ELSE "qiclose") /\ want' = p
  /\ urc' = NoUrc
  /\ UNCHANGED <<ctxVars, opened, link, linkPeer, ret, slack>>

\* The modem takes an AT+QIOPEN: it dials if connection 0 is free, and else refuses.
Dials(free) ==
  IF free /\ pdp
    THEN link' = "opening" /\ linkPeer' = want /\ urc' = NoUrc
    ELSE /\ urc' = [ok |-> FALSE, to |-> want]
         /\ link' = IF free THEN "closed" ELSE link
         /\ linkPeer' = IF free THEN NoPeer ELSE linkPeer

\* Mutant: a TCP connect skips the AT+QICLOSE that clears an old connection.
OpenWithoutClose ==
  /\ op = "qiclose"
  /\ Dials(link = "closed")
  /\ op' = "qiopen"
  /\ UNCHANGED <<ctxVars, driverVars, pdp, want, ret, slack>>

\* The modem closes connection 0, and AT+QIOPEN goes out.
CloseThenOpen ==
  /\ op = "qiclose"
  /\ Dials(TRUE)
  /\ op' = "qiopen" /\ slack' = {}
  /\ UNCHANGED <<ctxVars, driverVars, pdp, want, ret>>

\* The result of AT+QICLOSE is ignored: without an answer AT+QIOPEN goes out all the same.
NoCloseThenOpen ==
  /\ op = "qiclose"
  /\ Dials(link = "closed")
  /\ op' = "qiopen" /\ slack' = slack \cup {"close"}
  /\ UNCHANGED <<ctxVars, driverVars, pdp, want, ret>>

\* A TLS connect sends no AT+QICLOSE; a result arriving meanwhile may be read here or later.
SslConfigured ==
  /\ op = "sslcfg"
  /\ Dials(link = "closed") \/ (link # "closed" /\ urc.ok /\ UNCHANGED <<urc, link, linkPeer>>)
  /\ op' = "ssl1"
  /\ UNCHANGED <<ctxVars, driverVars, pdp, want, ret, slack>>

\* Mutant: the driver forgets to note that the TCP connection is open.
OpenDoneUnnoted ==
  /\ op \in Waits /\ urc.ok
  /\ connected' = TRUE /\ peer' = want /\ urc' = NoUrc
  /\ Returns("ok")
  /\ UNCHANGED <<allocated, useTls, driverVars, modemVars, slack>>

\* +QIOPEN: 0,0 arrives.  Only the TCP path tells the driver's send and receive about it.
OpenDone ==
  /\ op \in Waits /\ urc.ok
  /\ connected' = TRUE /\ peer' = want /\ urc' = NoUrc
  /\ opened' = (opened \/ op = "qiopen")
  /\ Returns("ok")
  /\ UNCHANGED <<allocated, useTls, stackReady, modemVars, slack>>

\* An error result, or none before the deadline: then the modem may still be dialling.
NoResult ==
  /\ urc \in Result => ~urc.ok
  /\ slack' = IF urc \in Result THEN slack ELSE slack \cup {"open"}

OpenFails ==
  /\ op \in {"qiopen", "ssl2"} /\ NoResult
  /\ urc' = NoUrc
  /\ Returns("eio")
  /\ UNCHANGED <<ctxVars, driverVars, modemVars>>

\* A TLS connect tries the other access mode, without clearing anything first.
SslTriesAgain ==
  /\ op = "ssl1" /\ NoResult
  /\ Dials(link = "closed")
  /\ op' = "ssl2"
  /\ UNCHANGED <<ctxVars, driverVars, pdp, want, ret>>

----
(* zsock_send, zsock_recv, zsock_close *)

NotConnected ==
  /\ op = "idle" /\ allocated /\ ~(connected /\ opened)
  /\ Returns("enotconn")
  /\ UNCHANGED <<ctxVars, driverVars, modemVars, urc, slack>>

\* Each command drains a stale result first.  What the peer closed still takes bytes
\* nowhere, and a receive never learns of it: +QIRD: 0 is EAGAIN.
Sends ==
  /\ op = "idle" /\ allocated /\ connected /\ opened
  /\ \/ link = "open" /\ Returns("ok")
     \/ Returns("eio")
  /\ urc' = NoUrc
  /\ UNCHANGED <<ctxVars, driverVars, modemVars, slack>>

Receives ==
  /\ op = "idle" /\ allocated /\ connected /\ opened
  /\ \/ link \in {"open", "peerclosed"} /\ Returns("ok")
     \/ Returns("eagain")
     \/ Returns("eio")
  /\ urc' = NoUrc
  /\ UNCHANGED <<ctxVars, driverVars, modemVars, slack>>

\* Mutant: the protocol of the released socket stays behind.
ReleasedKeepsTls ==
  /\ allocated' = FALSE /\ connected' = FALSE /\ peer' = NoPeer /\ UNCHANGED useTls

Released ==
  /\ allocated' = FALSE /\ connected' = FALSE /\ useTls' = FALSE /\ peer' = NoPeer

CloseUnconnected ==
  /\ op = "idle" /\ allocated /\ ~connected
  /\ Released
  /\ Returns("ok")
  /\ UNCHANGED <<driverVars, modemVars, urc, slack>>

\* Mutant: the context and the driver let go, and the modem is never told.
CloseSkipsModem ==
  /\ op = "idle" /\ allocated /\ connected
  /\ Released
  /\ opened' = FALSE
  /\ Returns("ok")
  /\ UNCHANGED <<stackReady, modemVars, urc, slack>>

CloseConnected ==
  /\ op = "idle" /\ allocated /\ connected
  /\ Released
  /\ opened' = FALSE
  /\ link' = "closed" /\ linkPeer' = NoPeer /\ slack' = {} /\ urc' = NoUrc
  /\ Returns("ok") \/ Returns("eio")
  /\ UNCHANGED <<stackReady, pdp>>

\* AT+QICLOSE is not answered; both layers let go of the connection all the same.
CloseUnanswered ==
  /\ op = "idle" /\ allocated /\ connected
  /\ Released
  /\ opened' = FALSE
  /\ slack' = slack \cup {"close"} /\ urc' = NoUrc
  /\ Returns("eio")
  /\ UNCHANGED <<stackReady, modemVars>>

----
(* The calls that leave the connection alone *)

\* zsock_getaddrinfo: bad arguments, a failed bring-up, or a lookup by the modem, which drains
\* the UART first.  It brings the modem up as a connect does, and needs no socket.
GetAddrInfo ==
  /\ op = "idle"
  /\ \/ Returns("eai") /\ UNCHANGED <<stackReady, pdp, urc>>
     \/ StackInit /\ urc' \in {urc, NoUrc} /\ (Returns("ok") \/ Returns("eai"))
  /\ UNCHANGED <<ctxVars, opened, link, linkPeer, slack>>

\* setsockopt, getsockopt, ioctl: an option shapes waits and names, not what the layers know;
\* "einval" stands for a refusal of any kind.
Option ==
  /\ op = "idle"
  /\ Returns("einval") \/ (allocated /\ Returns("ok"))
  /\ UNCHANGED <<ctxVars, driverVars, modemVars, urc, slack>>

GetPeerName ==
  /\ op = "idle" /\ allocated
  /\ Returns(IF connected THEN "ok" ELSE "enotconn")
  /\ UNCHANGED <<ctxVars, driverVars, modemVars, urc, slack>>

----
(* The modem and the network *)

LinkOpens ==
  /\ link = "opening"
  /\ link' = "open" /\ urc' = [ok |-> TRUE, to |-> linkPeer]
  /\ UNCHANGED <<ctxVars, driverVars, linkPeer, pdp, callVars, slack>>

LinkRefused ==
  /\ link = "opening"
  /\ link' = "closed" /\ linkPeer' = NoPeer /\ urc' = [ok |-> FALSE, to |-> linkPeer]
  /\ UNCHANGED <<ctxVars, driverVars, pdp, callVars, slack>>

PeerCloses ==
  /\ link = "open"
  /\ link' = "peerclosed"
  /\ UNCHANGED <<ctxVars, driverVars, linkPeer, pdp, urc, callVars, slack>>

\* The supply dips and the modem restarts: its connection and its PDP context are gone.
ModemReboots ==
  /\ pdp
  /\ link' = "closed" /\ linkPeer' = NoPeer /\ pdp' = FALSE /\ slack' = {}
  /\ UNCHANGED <<ctxVars, driverVars, urc, callVars>>

AppNext ==
  \/ CreateFails \/ (\E tls \in BOOLEAN : Create(tls))
  \/ ConnectAgain \/ ConnectNotReady \/ (\E p \in Peer : ConnectStarts(p))
  \/ CloseThenOpen \/ NoCloseThenOpen \/ SslConfigured \/ OpenDone \/ OpenFails \/ SslTriesAgain
  \/ NotConnected \/ Sends \/ Receives
  \/ CloseUnconnected \/ CloseConnected \/ CloseUnanswered
  \/ GetAddrInfo \/ Option \/ GetPeerName
ModemNext == LinkOpens \/ LinkRefused \/ PeerCloses \/ ModemReboots

SONext == AppNext \/ ModemNext

SOSpec == SOInit /\ [][SONext]_soVars

----
(* Properties *)

\* The driver's flag and the offload context agree: a TCP socket is connected exactly while
\* the driver will send and receive for it, and no released socket leaves the driver open
\* (ec801e_socket_opened against g_ctx.connected).
LayersAgree == opened <=> connected /\ ~useTls

\* A TCP socket that says it is connected talks to the peer it was asked for, if the modem is
\* connected at all, unless the modem left an AT+QICLOSE unanswered: a result for an earlier
\* dial is never taken for this one (ec801e_socket_open_tcp closes and drains first).
ConnectedToWanted ==
  connected /\ ~useTls /\ "close" \notin slack /\ link # "closed" => linkPeer = peer

\* The modem holds a connection nobody asked for only after an open that timed out or a close
\* that went unanswered (ec801e_sock_close).
NoHiddenConnection ==
  link # "closed" /\ ~connected /\ op = "idle" => slack # {}
====
