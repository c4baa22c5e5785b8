---- MODULE ModemBringup ----
(***************************************************************************)
(* ec801e_socket_stack_init of drivers/ec801e/ec801e.c: the self-test of   *)
(* the UART, ec801e_boot with its probing of baud rates and its power      *)
(* cycles, ec801e_post_handshake_init, and ec801e_prepare_network with the *)
(* wait for registration and the activation of PDP context 1.              *)
(*                                                                         *)
(* d holds the locals of all these functions.  d.at names the exchange     *)
(* under way; Exchange says what that exchange asks of the AT link.  When  *)
(* it is done one action per exchange decides what comes next.  Sleeps are *)
(* left out: they let answers arrive, which may happen at any time anyway. *)
(***************************************************************************)
EXTENDS AtLink

CONSTANTS
  HasPower,         \* whether the EN pin is wired (ec801e_power_gpio)
  Bauds,            \* probe_bauds has 8; the first is the modem's
  HandshakeTries,   \* 12
  PostTries,        \* 5
  HitThreshold,     \* EC801E_REBOOT_HIT_THRESHOLD, 3
  PollLimit,        \* polls of CEREG before the deadline passes
  RestartLimit, CallLimit    \* bounds on restarts of the modem and on calls

ASSUME BringupAssumption ==
  /\ HasPower \in BOOLEAN
  /\ {Bauds, HandshakeTries, PostTries, HitThreshold} \subseteq Nat \ {0}
  /\ {PollLimit, RestartLimit, CallLimit} \subseteq Nat

VARIABLES
  d,                   \* the driver
  verified,            \* ec801e_uart_verified
  stackReady,          \* ec801e_stack_ready
  powered, registered, pdp,   \* the modem
  restarts, calls,     \* bounded counters
  rebooted             \* history: whether the modem restarted, in this call or earlier

modemVars == <<powered, registered, pdp, restarts, rebooted>>
vars == <<atVars, d, verified, stackReady, modemVars, calls>>

X(cmd, ok, drain, tries) == [cmd |-> cmd, ok |-> ok, drain |-> drain, tries |-> tries]

\* Mutant: the status queries return at the status line, as that for the SIM does.
QueryEndsAtStatus == {"OK", "STAT", "REG", "PDP"}

\* What ends AT+CEREG? and AT+QIACT?, whose status is looked for in what was read before.
QueryEnd == {"OK"}

Exchange == [
  self    |-> X("AT", {"OK", "ERROR"}, TRUE, 1),
  hs      |-> X("AT", {"OK"}, TRUE, 1),
  ate0    |-> X("ATE0", {"OK"}, TRUE, 2),
  cpin    |-> X("CPIN", {"READY", "OK"}, TRUE, 4),
  qiclose |-> X("QICLOSE", {"OK", "ERROR"}, TRUE, 1),
  cfun    |-> X("CFUN", {"OK"}, TRUE, 2),
  cereg1  |-> X("CEREG1", {"OK"}, TRUE, 2),
  cereg   |-> X("CEREG", QueryEnd, FALSE, 1),
  recfun  |-> X("CFUN", {"OK"}, TRUE, 2),
  recereg |-> X("CEREG1", {"OK"}, TRUE, 2),
  cgdcont |-> X("CGDCONT", {"OK"}, TRUE, 2),
  qicsgp  |-> X("QICSGP", {"OK"}, TRUE, 2),
  query1  |-> X("QIACT?", QueryEnd, FALSE, 1),
  act1    |-> X("QIACT", {"OK"}, TRUE, 3),
  query2  |-> X("QIACT?", QueryEnd, FALSE, 1),
  deact   |-> X("QIDEACT", {"OK", "ERROR"}, TRUE, 1),
  act2    |-> X("QIACT", {"OK"}, TRUE, 3),
  cgpaddr |-> X("CGPADDR", {"OK"}, TRUE, 2)]

\* cycle is the power cycle, the one step that is no exchange.
Points == DOMAIN Exchange \cup {"off", "cycle"}

Locals == [
  at : Points,
  baud : 1..Bauds,
  anyRx : BOOLEAN,
  hs : 1..HandshakeTries,                      \* of ec801e_handshake_at
  probing : BOOLEAN,                           \* handshake called by ec801e_probe_uart_only
  probeFor : {"boot", "post", "recovery"},     \* and who called that
  cycles : 0..2,
  post : 1..PostTries,                         \* of ec801e_post_handshake_init
  postFor : {"boot", "hit", "recovery"},       \* and who called it
  hits : 0..HitThreshold,                      \* of ec801e_wait_cereg_registered
  budget : 0..PollLimit]

MBTypeOK ==
  /\ AtTypeOK
  /\ d \in Locals
  /\ verified \in BOOLEAN /\ stackReady \in BOOLEAN
  /\ powered \in BOOLEAN /\ registered \in BOOLEAN /\ pdp \in BOOLEAN
  /\ rebooted \in {"no", "earlier", "now"}
  /\ restarts \in 0..RestartLimit /\ calls \in 0..CallLimit
  /\ d.at \in DOMAIN Exchange => try <= Exchange[d.at].tries
  /\ phase = "idle" <=> d.at \in {"off", "cycle"}

Off == [at |-> "off", baud |-> 1, anyRx |-> FALSE, hs |-> 1, probing |-> FALSE,
        probeFor |-> "boot", cycles |-> 0, post |-> 1, postFor |-> "boot", hits |-> 0,
        budget |-> 0]

MBInit ==
  /\ AtInit
  /\ d = Off /\ verified = FALSE /\ stackReady = FALSE
  /\ powered = TRUE /\ registered = FALSE /\ pdp = FALSE /\ rebooted = "no"
  /\ restarts = 0 /\ calls = 0

----
(* Where a function call or a return leads: from locals to locals. *)

Goto(l, point) == [l EXCEPT !.at = point]
Fails(l) == [Off EXCEPT !.baud = l.baud]

StartHandshake(l) == [Goto(l, "hs") EXCEPT !.hs = 1]
StartProbe(l, for) == [StartHandshake(l) EXCEPT !.probing = TRUE, !.probeFor = for, !.baud = 1]
PostAttempt(l) == [StartHandshake(l) EXCEPT !.probing = FALSE]
StartPost(l, for) == [PostAttempt(l) EXCEPT !.postFor = for, !.post = 1]

\* Mutant: the deadline of the wait is set anew by every poll.
PollsWithoutEnd(l) == Goto(l, "cereg")

\* The loop of ec801e_wait_cereg_registered, until its deadline.
PollAgain(l) == IF l.budget > 0 THEN [Goto(l, "cereg") EXCEPT !.budget = @ - 1] ELSE Fails(l)

\* ec801e_post_handshake_init returns.
PostSucceeds(l) ==
  CASE l.postFor = "boot" -> Goto(l, "qiclose")
    [] l.postFor = "hit" -> Goto(l, "recfun")
    [] l.postFor = "recovery" -> [Goto(l, "recfun") EXCEPT !.hits = 0, !.budget = PollLimit]

PostGivesUp(l) ==
  CASE l.postFor = "boot" -> Fails(l)
    [] l.postFor = "hit" -> Goto(l, "recfun")
    [] l.postFor = "recovery" -> PollAgain(l)

PostRetries(l) ==
  IF l.post < PostTries THEN [PostAttempt(l) EXCEPT !.post = @ + 1] ELSE PostGivesUp(l)

\* ec801e_probe_uart_only returns.
ProbeSucceeds(l) ==
  CASE l.probeFor = "boot" -> StartPost(l, "boot")
    [] l.probeFor = "post" -> PostRetries(l)
    [] l.probeFor = "recovery" -> StartPost(l, "recovery")

ProbeFails(l) ==
  CASE l.probeFor = "boot" -> IF HasPower /\ l.cycles < 2 THEN Goto(l, "cycle") ELSE Fails(l)
    [] l.probeFor = "post" -> PostRetries(l)
    [] l.probeFor = "recovery" -> PollAgain(l)

----
(* The driver *)

\* Whether modem and driver understand each other.
Heard == powered /\ d.baud = 1

\* The exchange at this point is done, and the driver goes on with these locals.
Moves(l) ==
  /\ d' = l
  /\ phase' = IF l.at \in {"off", "cycle"} THEN "idle" ELSE "send"
  /\ try' = 1 /\ seen' = {} /\ out' = "none"
  /\ UNCHANGED <<cmds, air, rx, late, misread>>

Done(point) ==
  /\ d.at = point /\ phase = "done"
  /\ UNCHANGED <<modemVars, calls>>

Called ==
  /\ d.at = "off" /\ ~stackReady /\ calls < CallLimit
  /\ calls' = calls + 1
  /\ d' = [Off EXCEPT !.at = "self"]
  /\ phase' = "send" /\ try' = 1 /\ seen' = {} /\ out' = "none"
  /\ misread' = FALSE /\ rebooted' = (IF rebooted = "no" THEN "no" ELSE "earlier")
  /\ UNCHANGED <<cmds, air, rx, late, verified, stackReady, powered, registered, pdp, restarts>>

\* Bytes without an OK lead on to ec801e_boot; a silent UART ends the call.
SelfTestEnds ==
  /\ Done("self")
  /\ LET l == [d EXCEPT !.anyRx = @ \/ seen # {}] IN
     IF out = "ok" /\ "OK" \in seen
       THEN verified' = TRUE /\ Moves(StartPost(l, "boot"))
     ELSE IF d.baud < Bauds
       THEN Moves([l EXCEPT !.baud = @ + 1]) /\ UNCHANGED verified
     ELSE verified' = FALSE /\ Moves(IF l.anyRx THEN StartProbe(l, "boot") ELSE Fails(l))
  /\ UNCHANGED stackReady

HandshakeEnds ==
  /\ Done("hs")
  /\ Moves(IF out = "ok"
             THEN (IF d.probing THEN ProbeSucceeds(d) ELSE Goto(d, "ate0"))
           ELSE IF d.hs < HandshakeTries THEN [d EXCEPT !.hs = @ + 1]
           ELSE IF ~d.probing THEN PostRetries(d)
           ELSE IF d.baud < Bauds THEN [StartHandshake(d) EXCEPT !.baud = @ + 1]
           ELSE ProbeFails(d))
  /\ UNCHANGED <<verified, stackReady>>

\* ec801e_power_cycle.  The first of a boot, and that of a recovery, ends with EN at the level
\* the overlay gives it; the second of a boot ends with it at the other one.
PowerCycles ==
  /\ d.at = "cycle"
  /\ powered' = (d.probeFor = "recovery" \/ d.cycles = 0)
  /\ IF powered' THEN SaysReady ELSE cmds' = <<>> /\ air' = <<>>
  /\ registered' = FALSE /\ pdp' = FALSE /\ rebooted' = "now"
  /\ d' = IF d.probeFor = "boot" THEN [StartProbe(d, "boot") EXCEPT !.cycles = @ + 1]
                                 ELSE StartProbe(d, "recovery")
  /\ phase' = "send"
  /\ UNCHANGED <<rx, late, try, seen, out, misread, verified, stackReady, restarts, calls>>

Ate0Ends ==
  /\ Done("ate0")
  /\ Moves(IF out = "ok" THEN Goto(d, "cpin") ELSE PostRetries(d))
  /\ UNCHANGED <<verified, stackReady>>

\* After a timeout the baud rate is looked for again, with whatever result.
CpinEnds ==
  /\ Done("cpin")
  /\ Moves(CASE out = "ok" -> PostSucceeds(d)
             [] out = "timeout" -> StartProbe(d, "post")
             [] OTHER -> PostRetries(d))
  /\ UNCHANGED <<verified, stackReady>>

\* The commands whose failure ends the call, and QICLOSE, whose result is ignored.
ConfigEnds ==
  /\ \E step \in {<<"qiclose", "cfun">>, <<"cfun", "cereg1">>, <<"cereg1", "cereg">>,
                  <<"cgdcont", "qicsgp">>, <<"qicsgp", "query1">>} :
       /\ Done(step[1])
       /\ Moves(IF out # "ok" /\ step[1] # "qiclose" THEN Fails(d)
                ELSE IF step[2] = "cereg" THEN [Goto(d, "cereg") EXCEPT !.hits = 0,
                                                                         !.budget = PollLimit]
                ELSE Goto(d, step[2]))
  /\ UNCHANGED <<verified, stackReady>>

\* Counted as far as the comparison with the threshold can tell.
CountsHit(l) == [l EXCEPT !.hits = IF @ < HitThreshold THEN @ + 1 ELSE @]

\* Mutant: any answer to AT+CEREG? is taken for registration.
CeregEndsOnOk ==
  /\ Done("cereg")
  /\ Moves(IF out = "ok" THEN Goto(d, "cgdcont")
           ELSE IF out = "hostdown" THEN StartPost(CountsHit(d), "hit")
           ELSE PollAgain(d))
  /\ UNCHANGED <<verified, stackReady>>

\* Only a status of 1 or 5 is registration; a reboot marker starts the handshake over.
CeregEnds ==
  /\ Done("cereg")
  /\ Moves(IF out = "ok" /\ "REG" \in seen THEN Goto(d, "cgdcont")
           ELSE IF out = "hostdown" THEN StartPost(CountsHit(d), "hit")
           ELSE PollAgain(d))
  /\ UNCHANGED <<verified, stackReady>>

ReattachEnds ==
  /\ Done("recfun")
  /\ Moves(Goto(d, "recereg"))
  /\ UNCHANGED <<verified, stackReady>>

\* After a reboot marker the deadline moves on, by more or less than the recovery took; at
\* the threshold the modem is power cycled.
RecoveryEnds ==
  /\ Done("recereg")
  /\ IF d.postFor = "recovery" THEN Moves(PollAgain(d))
     ELSE \E left \in 0..PollLimit :
       LET l == [d EXCEPT !.budget = left] IN
       /\ left <= d.budget + 2
       /\ IF d.hits = HitThreshold /\ HasPower
            THEN Moves([Goto(l, "cycle") EXCEPT !.probeFor = "recovery"])
            ELSE Moves(PollAgain(l))
  /\ UNCHANGED <<verified, stackReady>>

\* Mutant: a failed activation is taken for a context that is active already.
ActivationAssumed ==
  /\ \/ Done("query1") /\ Moves(Goto(d, IF out = "ok" /\ "PDP" \in seen THEN "cgpaddr" ELSE "act1"))
     \/ Done("act1") /\ Moves(Goto(d, "cgpaddr"))
  /\ UNCHANGED <<verified, stackReady>>

\* ec801e_ensure_pdp_activated: asks, activates, asks again, deactivates, activates.
PdpStepEnds ==
  /\ LET active == out = "ok" /\ "PDP" \in seen IN
     \/ Done("query1") /\ Moves(Goto(d, IF active THEN "cgpaddr" ELSE "act1"))
     \/ Done("act1") /\ Moves(Goto(d, IF out = "ok" THEN "cgpaddr" ELSE "query2"))
     \/ Done("query2") /\ Moves(Goto(d, IF active THEN "cgpaddr" ELSE "deact"))
     \/ Done("deact") /\ Moves(Goto(d, "act2"))
     \/ Done("act2") /\ Moves(IF out = "ok" THEN Goto(d, "cgpaddr") ELSE Fails(d))
  /\ UNCHANGED <<verified, stackReady>>

\* The address query may fail; the stack is ready all the same.
BecomesReady ==
  /\ Done("cgpaddr")
  /\ Moves(Fails(d))
  /\ stackReady' = TRUE
  /\ UNCHANGED verified

LinkStep ==
  /\ d.at \in DOMAIN Exchange
  /\ LET x == Exchange[d.at] IN Sends(x, Heard) \/ Reads(x) \/ TimesOut(x)
  /\ UNCHANGED <<d, verified, stackReady, modemVars, calls>>

DriverNext ==
  \/ LinkStep
  \/ SelfTestEnds \/ HandshakeEnds \/ PowerCycles \/ Ate0Ends \/ CpinEnds
  \/ ConfigEnds \/ CeregEnds \/ ReattachEnds \/ RecoveryEnds \/ PdpStepEnds \/ BecomesReady

----
(* The modem *)

LineArrives == Arrives(Heard) /\ UNCHANGED <<d, verified, stackReady, modemVars, calls>>

Executes ==
  /\ LET cmd == Head(cmds) IN
     \/ /\ cmd = "CPIN" /\ Answers(<<"READY", "OK">>)
        /\ UNCHANGED pdp
     \/ /\ cmd = "CEREG" /\ Answers(IF registered THEN <<"REG", "OK">> ELSE <<"STAT", "OK">>)
        /\ UNCHANGED pdp
     \/ /\ cmd = "QIACT?" /\ Answers(IF pdp THEN <<"PDP", "OK">> ELSE <<"OK">>)
        /\ UNCHANGED pdp
     \/ /\ cmd = "QIACT" /\ registered /\ ~pdp /\ Answers(<<"OK">>)
        /\ pdp' = TRUE
     \/ /\ cmd = "QIDEACT" /\ Answers(<<"OK">>)
        /\ pdp' = FALSE
     \/ /\ cmd \notin {"CPIN", "CEREG", "QIACT?", "QIACT", "QIDEACT"} /\ Answers(<<"OK">>)
        /\ UNCHANGED pdp
     \/ /\ cmd \notin {"AT", "ATE0"} /\ Answers(<<"ERROR">>)
        /\ UNCHANGED pdp
  /\ UNCHANGED <<d, verified, stackReady, powered, registered, restarts, rebooted, calls>>

Registers ==
  /\ powered /\ ~registered /\ registered' = TRUE
  /\ UNCHANGED <<atVars, d, verified, stackReady, powered, pdp, restarts, rebooted, calls>>

\* The supply dips (docs/ec801e_4g_guide.md:210).
Restarts ==
  /\ powered /\ restarts < RestartLimit /\ restarts' = restarts + 1
  /\ SaysReady /\ registered' = FALSE /\ pdp' = FALSE /\ rebooted' = "now"
  /\ UNCHANGED <<rx, late, phase, try, seen, out, misread, d, verified, stackReady, powered, calls>>

ModemNext == LineArrives \/ (cmds # <<>> /\ Executes) \/ Registers \/ Restarts

MBNext == Called \/ DriverNext \/ ModemNext

\* The driver polls, and every wait has a deadline.
MBSpec == MBInit /\ [][MBNext]_vars /\ WF_vars(DriverNext)

----
(* Properties *)

\* When the stack is ready the modem has registered, unless it restarted meanwhile: answers
\* that belong to other commands do not fool the wait for registration, also one poll late
\* (ec801e_wait_cereg_registered).
RegisteredWhenReady == stackReady /\ rebooted # "now" => registered

\* When the stack is ready PDP context 1 is active, unless the modem restarted meanwhile or
\* the answer to one command was taken for that to another (ec801e_ensure_pdp_activated).
PdpWhenReady == stackReady /\ rebooted # "now" /\ ~misread => pdp

\* As long as no wait gives up too early and the modem does not restart, the driver is at
\* most one answer behind the modem when it sends a command: what one exchange leaves on the
\* wire does not add up (ec801e_wait_response, ec801e_drain_rx).
OneAnswerBehind == phase = "send" /\ late = 0 /\ rebooted = "no" => Behind <= 1

\* Bring-up comes to an end, ready or not, if the modem does not restart for ever.
BringUpEnds == d.at # "off" ~> d.at = "off"

\* docs/ec801e_4g_guide.md:193: AT+QIACT=1 answered by OK means that PDP is up, and bring-up
\* activates it (:107).
ReadyHasPdp == stackReady /\ rebooted # "now" => pdp
====
