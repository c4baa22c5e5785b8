---- MODULE SocketOffloadProofs ----
(***************************************************************************)
(* Proofs about SocketOffload, for any set of peers: types, the agreement  *)
(* of the offload context with the driver, and what a connection at the    *)
(* modem belongs to.                                                       *)
(***************************************************************************)
EXTENDS SocketOffload, TLAPS

\* A connect in progress belongs to an allocated, unconnected socket, and its protocol is
\* that of the socket; a connection at the modem has a peer.
ConnectInProgress ==
  /\ op # "idle" => allocated /\ ~connected /\ want \in Peer
  /\ link # "closed" => linkPeer \in Peer
  /\ op \in {"qiclose", "qiopen"} => ~useTls
  /\ op \in {"sslcfg", "ssl1", "ssl2"} => useTls

\* While a TCP connect waits, the modem has nothing but that connect's connection.
DialledIsWanted ==
  op = "qiopen" /\ "close" \notin slack /\ link # "closed" => linkPeer = want

\* An error result tells the truth unless something earlier went unanswered.
RefusedIsClosed ==
  op \in Waits /\ slack = {} /\ urc \in Result /\ ~urc.ok => link = "closed"

\* NoHiddenConnection for every moment of a connect.
NothingHidden == link # "closed" /\ ~connected => slack # {} \/ op \in Waits

\* Why the three properties hold together: what is true between calls rests on what is true
\* while a connect waits for the modem.
SOInv ==
  /\ SOTypeOK
  /\ LayersAgree
  /\ ConnectedToWanted
  /\ ConnectInProgress
  /\ DialledIsWanted
  /\ RefusedIsClosed
  /\ NothingHidden

----
\* The inductive invariant holds when the firmware starts.
LEMMA SOInitInv == SOInit => SOInv
BY PeerAssumption
DEF SOInit, SOInv, SOTypeOK, LayersAgree, ConnectedToWanted, ConnectInProgress, DialledIsWanted,
    RefusedIsClosed, NothingHidden, NoUrc, Result, OpSet, Waits

\* What an AT+QIOPEN leaves behind: a dial under way, or a refusal that waits to be read.
LEMMA DialsEffect ==
  ASSUME NEW free \in BOOLEAN, want \in Peer, Dials(free)
  PROVE  \/ /\ link' = "opening" /\ linkPeer' = want /\ urc' = NoUrc
         \/ /\ urc' \in Result /\ urc'.ok = FALSE
            /\ link' = (IF free THEN "closed" ELSE link)
            /\ linkPeer' = (IF free THEN NoPeer ELSE linkPeer)
<1>1. CASE free /\ pdp BY <1>1 DEF Dials
<1>2. CASE ~(free /\ pdp)
  <2>1. urc' = [ok |-> FALSE, to |-> want] BY <1>2 DEF Dials
  <2>2. urc' \in Result /\ urc'.ok = FALSE BY <2>1 DEF Result
  <2>3. QED BY <1>2, <2>2 DEF Dials
<1>3. QED BY <1>1, <1>2

\* The same for the dials that go out only if the modem's connection is closed.
LEMMA DialsIfClosed ==
  ASSUME want \in Peer, Dials(link = "closed")
  PROVE  \/ /\ link' = "opening" /\ linkPeer' = want /\ urc' = NoUrc
         \/ /\ urc' \in Result /\ urc'.ok = FALSE /\ link' = link
            /\ linkPeer' \in {linkPeer, NoPeer} /\ (link # "closed" => linkPeer' = linkPeer)
<1>1. CASE link = "closed"
  <2>1. (link = "closed") = TRUE BY <1>1
  <2>2. Dials(TRUE) BY <2>1
  <2>3. QED BY <1>1, <2>2, DialsEffect
<1>2. CASE link # "closed"
  <2>1. (link = "closed") = FALSE BY <1>2
  <2>2. Dials(FALSE) BY <2>1
  <2>3. QED BY <1>2, <2>2, DialsEffect
<1>3. QED BY <1>1, <1>2

\* A step of the application or of the modem preserves the inductive invariant.
LEMMA SOStepInv == SOInv /\ [SONext]_soVars => SOInv'
<1> SUFFICES ASSUME SOInv, [SONext]_soVars PROVE SOInv'
  OBVIOUS
<1> USE PeerAssumption
<1> USE DEF SOInv, SOTypeOK, LayersAgree, ConnectedToWanted, ConnectInProgress, DialledIsWanted,
            RefusedIsClosed, NothingHidden, NoUrc, Result, OpSet, Waits,
            ctxVars, driverVars, modemVars, callVars, Returns
<1>1. CASE CreateFails BY <1>1 DEF CreateFails
<1>2. ASSUME NEW tls \in BOOLEAN, Create(tls) PROVE SOInv'
  BY <1>2 DEF Create
<1>3. CASE ConnectAgain BY <1>3 DEF ConnectAgain
<1>4. CASE ConnectNotReady BY <1>4 DEF ConnectNotReady
<1>5. ASSUME NEW p \in Peer, ConnectStarts(p) PROVE SOInv'
  <2>1. stackReady' \in BOOLEAN /\ pdp' \in BOOLEAN BY <1>5 DEF ConnectStarts, StackInit
  <2>2. QED BY <1>5, <2>1 DEF ConnectStarts
<1>6. CASE CloseThenOpen
  <2>1. /\ want \in Peer /\ allocated /\ ~connected /\ ~opened
        /\ allocated' = allocated /\ connected' = connected /\ useTls' = useTls
        /\ peer' = peer /\ opened' = opened /\ stackReady' = stackReady /\ pdp' = pdp
        /\ want' = want /\ ret' = ret
    BY <1>6 DEF CloseThenOpen
  <2>2. \/ link' = "opening" /\ linkPeer' = want /\ urc' = NoUrc
        \/ urc' \in Result /\ urc'.ok = FALSE /\ link' = "closed" /\ linkPeer' = NoPeer
    BY <1>6, <2>1, DialsEffect DEF CloseThenOpen
  <2>3. op = "qiclose" /\ op' = "qiopen" /\ slack' = {}
    BY <1>6 DEF CloseThenOpen
  <2>4. QED BY <2>1, <2>2, <2>3
<1>7. CASE NoCloseThenOpen
  <2>1. /\ want \in Peer /\ allocated /\ ~connected /\ ~opened
        /\ allocated' = allocated /\ connected' = connected /\ useTls' = useTls
        /\ peer' = peer /\ opened' = opened /\ stackReady' = stackReady /\ pdp' = pdp
        /\ want' = want /\ ret' = ret
    BY <1>7 DEF NoCloseThenOpen
  <2>2. Dials(link = "closed")
    BY <1>7 DEF NoCloseThenOpen
  <2>3. op = "qiclose" /\ op' = "qiopen" /\ slack' = slack \cup {"close"}
    BY <1>7 DEF NoCloseThenOpen
  <2>4. QED BY <2>1, <2>2, <2>3, DialsIfClosed
<1>8. CASE SslConfigured
  <2>1. /\ want \in Peer /\ allocated /\ ~connected /\ ~opened
        /\ allocated' = allocated /\ connected' = connected /\ useTls' = useTls
        /\ peer' = peer /\ opened' = opened /\ stackReady' = stackReady /\ pdp' = pdp
        /\ want' = want /\ ret' = ret
    BY <1>8 DEF SslConfigured
  <2>2. Dials(link = "closed") \/ (urc' = urc /\ urc.ok /\ link' = link /\ linkPeer' = linkPeer)
    BY <1>8 DEF SslConfigured
  <2>3. op = "sslcfg" /\ op' = "ssl1" /\ slack' = slack /\ useTls
    BY <1>8 DEF SslConfigured
  <2>4. CASE Dials(link = "closed")
    <3>1. link # "closed" => slack # {}
      BY <2>1, <2>3
    <3>2. PICK refused \in BOOLEAN :
            /\ ~refused => link' = "opening" /\ linkPeer' = want /\ urc' = NoUrc
            /\ refused => /\ urc' \in Result /\ urc'.ok = FALSE /\ link' = link
                          /\ linkPeer' \in {linkPeer, NoPeer}
                          /\ (link # "closed" => linkPeer' = linkPeer)
      BY ONLY <2>1, <2>4, DialsIfClosed
    <3>3. CASE refused BY <2>1, <2>3, <3>1, <3>2, <3>3
    <3>4. CASE ~refused BY <2>1, <2>3, <3>2, <3>4
    <3>5. QED BY <3>3, <3>4
  <2>5. CASE urc' = urc /\ urc.ok /\ link' = link /\ linkPeer' = linkPeer
    BY <2>1, <2>3, <2>5
  <2>6. QED BY <2>2, <2>4, <2>5
<1>9. CASE OpenDone BY <1>9 DEF OpenDone
<1>10. CASE OpenFails BY <1>10 DEF OpenFails, NoResult
<1>11. CASE SslTriesAgain
  <2>1. /\ want \in Peer /\ allocated /\ ~connected /\ ~opened
        /\ allocated' = allocated /\ connected' = connected /\ useTls' = useTls
        /\ peer' = peer /\ opened' = opened /\ stackReady' = stackReady /\ pdp' = pdp
        /\ want' = want /\ ret' = ret
    BY <1>11 DEF SslTriesAgain
  <2>2. Dials(link = "closed")
    BY <1>11 DEF SslTriesAgain
  <2>3. /\ op = "ssl1" /\ op' = "ssl2" /\ useTls
        /\ \/ slack' = slack /\ urc \in Result /\ ~urc.ok
           \/ slack' = slack \cup {"open"}
    BY <1>11 DEF SslTriesAgain, NoResult
  <2>4. slack' \subseteq {"open", "close"} /\ (slack' = {} => link = "closed")
    BY <2>3
  <2>5. PICK refused \in BOOLEAN :
          /\ ~refused => link' = "opening" /\ linkPeer' = want /\ urc' = NoUrc
          /\ refused => /\ urc' \in Result /\ urc'.ok = FALSE /\ link' = link
                        /\ linkPeer' \in {linkPeer, NoPeer}
                        /\ (link # "closed" => linkPeer' = linkPeer)
    BY ONLY <2>1, <2>2, DialsIfClosed
  <2>6. CASE refused BY <2>1, <2>3, <2>4, <2>5, <2>6
  <2>7. CASE ~refused BY <2>1, <2>3, <2>4, <2>5, <2>7
  <2>8. QED BY <2>6, <2>7
<1>12. CASE NotConnected BY <1>12 DEF NotConnected
<1>13. CASE Sends BY <1>13 DEF Sends
<1>14. CASE Receives BY <1>14 DEF Receives
<1>15. CASE CloseUnconnected BY <1>15 DEF CloseUnconnected, Released
<1>16. CASE CloseConnected BY <1>16 DEF CloseConnected, Released
<1>17. CASE CloseUnanswered BY <1>17 DEF CloseUnanswered, Released
<1>18. CASE LinkOpens BY <1>18 DEF LinkOpens
<1>19. CASE LinkRefused BY <1>19 DEF LinkRefused
<1>20. CASE PeerCloses BY <1>20 DEF PeerCloses
<1>21. CASE ModemReboots BY <1>21 DEF ModemReboots
<1>22. CASE GetAddrInfo BY <1>22 DEF GetAddrInfo, StackInit
<1>23. CASE Option BY <1>23 DEF Option
<1>24. CASE GetPeerName BY <1>24 DEF GetPeerName
<1>25. CASE UNCHANGED soVars BY <1>25 DEF soVars
<1>26. QED
  BY <1>1, <1>2, <1>3, <1>4, <1>5, <1>6, <1>7, <1>8, <1>9, <1>10, <1>11, <1>12, <1>13, <1>14,
     <1>15, <1>16, <1>17, <1>18, <1>19, <1>20, <1>21, <1>22, <1>23, <1>24, <1>25 DEF SONext, AppNext, ModemNext

\* The inductive invariant holds in every reachable state.
THEOREM SOInvariance == SOSpec => []SOInv
BY SOInitInv, SOStepInv, PTL DEF SOSpec

\* Every variable keeps its type, and a released socket keeps nothing of its last use
\* (ec801e_sock_close).
THEOREM SOTypeCorrect == SOSpec => []SOTypeOK
<1>1. SOInv => SOTypeOK BY DEF SOInv
<1>2. QED BY <1>1, SOInvariance, PTL

\* The driver's flag and the offload context agree about TCP (ec801e_socket_opened against
\* g_ctx.connected).
THEOREM LayersAlwaysAgree == SOSpec => []LayersAgree
<1>1. SOInv => LayersAgree BY DEF SOInv
<1>2. QED BY <1>1, SOInvariance, PTL

\* A result for an earlier dial is never taken for this one (ec801e_socket_open_tcp).
THEOREM ConnectionSafety == SOSpec => []ConnectedToWanted
<1>1. SOInv => ConnectedToWanted BY DEF SOInv
<1>2. QED BY <1>1, SOInvariance, PTL

\* The modem holds no connection behind the socket's back unless something it was told went
\* unanswered (ec801e_sock_close, ec801e_socket_open_tcp).
THEOREM HiddenConnectionSafety == SOSpec => []NoHiddenConnection
<1>1. SOInv => NoHiddenConnection BY DEF SOInv, NothingHidden, NoHiddenConnection, Waits
<1>2. QED BY <1>1, SOInvariance, PTL
====
