---- MODULE ModemBringupProofs ----
(***************************************************************************)
(* Proofs about ModemBringup, for any number of baud rates, tries, polls,  *)
(* restarts and late answers: its types, and that a stack that is ready    *)
(* has a modem that registered (MBInv); which command a line on its way    *)
(* answers, so that the context of a ready stack is active (PdpInv); and   *)
(* what each exchange leaves on the line, so that left-over answers do not *)
(* add up (Tidy).                                                          *)
(***************************************************************************)
EXTENDS ModemBringup, SequenceTheorems, FiniteSetTheorems, TLAPS

\* Lines that were sent as lines.
Lines(s) == s \in Seq(Line)

\* What the status of registration looks like on its way.
HasReg(lines) == \E i \in DOMAIN lines : lines[i].text = "REG"

\* The exchanges behind the wait for registration.
Attached == {"cgdcont", "qicsgp", "query1", "act1", "query2", "deact", "act2", "cgpaddr"}

\* The modem has registered and has not restarted in this call.
StillThere == registered \/ rebooted = "now"

----
(* What an exchange asks of the link *)

\* Which points are exchanges.
LEMMA PointNames ==
  /\ DOMAIN Exchange = {"self", "hs", "ate0", "cpin", "qiclose", "cfun", "cereg1", "cereg",
                        "recfun", "recereg", "cgdcont", "qicsgp", "query1", "act1", "query2",
                        "deact", "act2", "cgpaddr"}
  /\ Attached \subseteq DOMAIN Exchange
  /\ DOMAIN Exchange \subseteq Points /\ {"off", "cycle"} \subseteq Points
  /\ "off" \notin DOMAIN Exchange /\ "cycle" \notin DOMAIN Exchange
BY DEF Exchange, X, Attached, Points

\* Every exchange is tried at least once.
LEMMA ExchangeTypes == \A p \in DOMAIN Exchange : Exchange[p].tries \in Nat \ {0}
<1> SUFFICES ASSUME NEW p \in DOMAIN Exchange PROVE Exchange[p].tries \in Nat \ {0}
  OBVIOUS
<1>1. CASE p \in {"self", "hs", "ate0", "cpin", "qiclose", "cfun"} BY <1>1 DEF Exchange, X
<1>2. CASE p \in {"cereg1", "cereg", "recfun", "recereg", "cgdcont", "qicsgp"}
  BY <1>2 DEF Exchange, X
<1>3. CASE p \in {"query1", "act1", "query2", "deact", "act2", "cgpaddr"}
  BY <1>3 DEF Exchange, X
<1>4. QED BY <1>1, <1>2, <1>3, PointNames

\* The first command of a call throws away what has arrived.
LEMMA SelfDrains == Exchange["self"].drain = TRUE
BY DEF Exchange, X

----
(* Where the functions of the driver lead *)

\* Locals that do not lie behind the wait for registration; a boot has two power cycles.
Early == {l \in Locals : /\ l.at \notin Attached
                         /\ l.at = "cycle" => l.probeFor = "recovery" \/ l.cycles < 2}

\* Those that do.
Beyond == {l \in Locals : l.at \in Attached}

\* They stay so when one local changes.
LEMMA Updates ==
  \A l \in Early :
    /\ \A n \in 1..HandshakeTries : [l EXCEPT !.hs = n] \in Early
    /\ \A n \in 1..Bauds : [l EXCEPT !.baud = n] \in Early
    /\ \A b \in BOOLEAN : [l EXCEPT !.anyRx = b] \in Early
    /\ \A n \in 1..PostTries : [l EXCEPT !.post = n] \in Early
    /\ \A n \in 0..HitThreshold : [l EXCEPT !.hits = n] \in Early
    /\ \A n \in 0..PollLimit : [l EXCEPT !.budget = n] \in Early
    /\ l.at # "cycle" => \A n \in 0..2 : [l EXCEPT !.cycles = n] \in Early
BY DEF Locals, Early

\* They stay so when the driver starts over, and when a wait begins.
LEMMA Starts ==
  \A l \in Early :
    /\ [l EXCEPT !.probing = FALSE] \in Early
    /\ \A for \in {"boot", "hit", "recovery"}, n \in 1..PostTries :
         [l EXCEPT !.postFor = for, !.post = n] \in Early
    /\ \A n \in 0..HitThreshold, m \in 0..PollLimit : [l EXCEPT !.hits = n, !.budget = m] \in Early
BY DEF Locals, Early

\* Starting to probe the baud rates, away from a power cycle.
LEMMA ProbeStarts ==
  \A l \in Early : l.at # "cycle" =>
    \A for \in {"boot", "post", "recovery"}, n \in 1..Bauds :
      /\ [l EXCEPT !.probing = TRUE, !.probeFor = for, !.baud = n] \in Early
      /\ [l EXCEPT !.probing = TRUE, !.probeFor = for, !.baud = n].at = l.at
<1> SUFFICES ASSUME NEW l \in Early, l.at # "cycle",
                    NEW for \in {"boot", "post", "recovery"}, NEW n \in 1..Bauds
    PROVE  /\ [l EXCEPT !.probing = TRUE, !.probeFor = for, !.baud = n] \in Early
           /\ [l EXCEPT !.probing = TRUE, !.probeFor = for, !.baud = n].at = l.at
  OBVIOUS
<1> DEFINE m == [l EXCEPT !.probing = TRUE, !.probeFor = for, !.baud = n]
<1>1. m \in Locals BY DEF Early, Locals
<1>2. m.at = l.at BY DEF Early, Locals
<1>3. QED BY <1>1, <1>2 DEF Early

\* Where the limits of the driver begin.
LEMMA Limits ==
  /\ 1 \in 1..HandshakeTries /\ 1 \in 1..Bauds /\ 1 \in 1..PostTries /\ 0 \in 0..HitThreshold
  /\ 0 \in 0..PollLimit /\ PollLimit \in 0..PollLimit
BY BringupAssumption

\* Nowhere but behind the wait for registration do a handshake, a probe of baud rates, a
\* sequence of commands after a handshake, a poll or a failure lead there.
LEMMA GotoEarly ==
  \A l \in Locals : \A p \in Points \ (Attached \cup {"cycle"}) :
    Goto(l, p) \in Early /\ Goto(l, p).at = p
BY DEF Goto, Locals, Early

\* A step to an exchange behind the wait.
LEMMA GotoBeyond == \A l \in Locals : \A p \in Attached : Goto(l, p) \in Beyond
BY PointNames DEF Goto, Locals, Beyond

\* A call that fails.
LEMMA FailsEarly == \A l \in Locals : Fails(l) \in Early /\ Fails(l).at = "off"
<1>1. Off \in Locals
  BY BringupAssumption, PointNames DEF Off, Locals
<1>2. Off.at = "off" BY DEF Off
<1>3. \A l \in Locals : l.baud \in 1..Bauds BY DEF Locals
<1>4. "off" \notin Attached BY DEF Attached
<1>5. Off \in Early BY <1>1, <1>2, <1>4 DEF Early
<1>6. \A n \in 1..Bauds : [Off EXCEPT !.baud = n].at = "off" BY DEF Off
<1>7. QED BY <1>3, <1>5, <1>6, Updates DEF Fails

\* The starts of a handshake, of a probe, and of the commands after a handshake.
LEMMA HandshakeEarly ==
  \A l \in Locals :
    /\ StartHandshake(l) \in Early
    /\ \A for \in {"boot", "post", "recovery"} :
         StartProbe(l, for) \in Early /\ StartProbe(l, for).at = "hs"
    /\ PostAttempt(l) \in Early
    /\ \A for \in {"boot", "hit", "recovery"} : StartPost(l, for) \in Early
<1> SUFFICES ASSUME NEW l \in Locals
    PROVE  /\ StartHandshake(l) \in Early
           /\ \A for \in {"boot", "post", "recovery"} :
                StartProbe(l, for) \in Early /\ StartProbe(l, for).at = "hs"
           /\ PostAttempt(l) \in Early
           /\ \A for \in {"boot", "hit", "recovery"} : StartPost(l, for) \in Early
  OBVIOUS
<1>1. "hs" \in Points \ (Attached \cup {"cycle"}) BY PointNames DEF Attached
<1>2. Goto(l, "hs") \in Early BY <1>1, GotoEarly
<1>3. StartHandshake(l) \in Early /\ StartHandshake(l).at = "hs"
  <2>1. StartHandshake(l) \in Early BY <1>2, Updates, Limits, Zenon DEF StartHandshake
  <2>2. StartHandshake(l).at = "hs" BY DEF StartHandshake, Goto, Locals
  <2>3. QED BY <2>1, <2>2
<1>4. \A for \in {"boot", "post", "recovery"} :
        StartProbe(l, for) \in Early /\ StartProbe(l, for).at = "hs"
  <2>1. StartHandshake(l).at # "cycle" BY <1>3
  <2>2. QED BY <1>3, <2>1, ProbeStarts, Limits, Zenon DEF StartProbe
<1>5. PostAttempt(l) \in Early BY <1>3, Starts, Zenon DEF PostAttempt
<1>6. \A for \in {"boot", "hit", "recovery"} : StartPost(l, for) \in Early
  BY <1>5, Starts, Limits, Zenon DEF StartPost
<1>7. QED BY <1>3, <1>4, <1>5, <1>6

\* The returns of the functions they are called from.
LEMMA ReturnsEarly ==
  \A l \in Locals :
    /\ PollAgain(l) \in Early
    /\ PostSucceeds(l) \in Early /\ PostGivesUp(l) \in Early /\ PostRetries(l) \in Early
    /\ ProbeSucceeds(l) \in Early /\ ProbeFails(l) \in Early
<1> SUFFICES ASSUME NEW l \in Locals
    PROVE  /\ PollAgain(l) \in Early
           /\ PostSucceeds(l) \in Early /\ PostGivesUp(l) \in Early /\ PostRetries(l) \in Early
           /\ ProbeSucceeds(l) \in Early /\ ProbeFails(l) \in Early
  OBVIOUS
<1>1. {"cereg", "qiclose", "recfun"} \subseteq Points \ (Attached \cup {"cycle"})
  BY PointNames DEF Attached
<1>2. /\ l.postFor \in {"boot", "hit", "recovery"} /\ l.probeFor \in {"boot", "post", "recovery"}
      /\ l.budget \in 0..PollLimit /\ l.post \in 1..PostTries
  BY DEF Locals
<1>3. PollAgain(l) \in Early
  <2>1. CASE l.budget > 0
    <3>1. l.budget - 1 \in 0..PollLimit BY <1>2, <2>1, BringupAssumption
    <3>2. Goto(l, "cereg") \in Early BY <1>1, GotoEarly
    <3>3. Goto(l, "cereg").budget = l.budget BY DEF Goto, Locals
    <3>4. QED BY <2>1, <3>1, <3>2, <3>3, Updates, Zenon DEF PollAgain
  <2>2. QED BY <2>1, FailsEarly DEF PollAgain
<1>4. PostSucceeds(l) \in Early
  <2>1. [Goto(l, "recfun") EXCEPT !.hits = 0, !.budget = PollLimit] \in Early
    BY <1>1, GotoEarly, Starts, Limits, Zenon
  <2>2. QED BY <1>1, <1>2, <2>1, GotoEarly DEF PostSucceeds
<1>5. PostGivesUp(l) \in Early
  BY <1>1, <1>2, <1>3, GotoEarly, FailsEarly DEF PostGivesUp
<1>6. PostRetries(l) \in Early
  <2>1. CASE l.post < PostTries
    <3>1. l.post + 1 \in 1..PostTries BY <1>2, <2>1, BringupAssumption
    <3>2. PostAttempt(l) \in Early BY HandshakeEarly
    <3>3. PostAttempt(l).post = l.post BY DEF PostAttempt, StartHandshake, Goto, Locals
    <3>4. QED BY <2>1, <3>1, <3>2, <3>3, Updates, Zenon DEF PostRetries
  <2>2. QED BY <1>5, <2>1 DEF PostRetries
<1>7. ProbeSucceeds(l) \in Early
  BY <1>2, <1>6, HandshakeEarly DEF ProbeSucceeds
<1>8. ProbeFails(l) \in Early
  <2>1. l.cycles < 2 => Goto(l, "cycle") \in Early
    BY PointNames DEF Goto, Locals, Early, Attached
  <2>2. QED BY <1>2, <1>3, <1>6, <2>1, FailsEarly DEF ProbeFails
<1>9. QED BY <1>3, <1>4, <1>5, <1>6, <1>7, <1>8

----
(* What the link does to the lines under way *)

\* Sending a command throws away what has arrived, or leaves it.
LEMMA SendsLines ==
  ASSUME Lines(air), Lines(rx), NEW x, NEW heard, Sends(x, heard)
  PROVE  /\ Lines(air') /\ Lines(rx')
         /\ HasReg(air') => HasReg(air)
         /\ HasReg(rx') => HasReg(rx) /\ x.drain # TRUE
<1>1. \A s : Lines(s) => Lines(Stale(s)) /\ (HasReg(Stale(s)) => HasReg(s))
  <2> SUFFICES ASSUME NEW s \in Seq(Line)
      PROVE Lines(Stale(s)) /\ (HasReg(Stale(s)) => HasReg(s))
    BY DEF Lines
  <2>1. \A line \in Line : [line EXCEPT !.fresh = FALSE] \in Line
                           /\ [line EXCEPT !.fresh = FALSE].text = line.text
    BY DEF Line
  <2>2. \A i \in DOMAIN s : s[i] \in Line OBVIOUS
  <2>3. \A i \in DOMAIN s : Stale(s)[i] \in Line /\ Stale(s)[i].text = s[i].text
    BY <2>1, <2>2 DEF Stale
  <2>4. DOMAIN Stale(s) = DOMAIN s /\ Stale(s) = [i \in DOMAIN s |-> Stale(s)[i]]
    BY DEF Stale
  <2>5. DOMAIN s = 1..Len(s) /\ Len(s) \in Nat OBVIOUS
  <2>6. Stale(s) \in Seq(Line) BY <2>3, <2>4, <2>5
  <2>7. QED BY <2>3, <2>4, <2>6 DEF Lines, HasReg
<1>2. air' = Stale(air) BY DEF Sends
<1>3. rx' = <<>> \/ (rx' = Stale(rx) /\ x.drain # TRUE) BY DEF Sends
<1>4. Lines(<<>>) /\ ~HasReg(<<>>) BY DEF Lines, HasReg
<1>5. Lines(air') /\ (HasReg(air') => HasReg(air)) BY <1>1, <1>2
<1>6. CASE rx' = <<>> BY <1>4, <1>5, <1>6
<1>7. CASE rx' = Stale(rx) /\ x.drain # TRUE BY <1>1, <1>5, <1>7
<1>8. QED BY <1>3, <1>6, <1>7

\* A wait takes the first line.
LEMMA ReadsLines ==
  ASSUME Lines(rx), seen \subseteq LineText, NEW x, Reads(x)
  PROVE  /\ Lines(rx') /\ seen' \subseteq LineText
         /\ HasReg(rx') => HasReg(rx)
         /\ "REG" \in seen' => "REG" \in seen \/ HasReg(rx)
<1> USE DEF Lines, HasReg
<1>1. rx # <<>> /\ rx' = Tail(rx) /\ seen' = seen \cup {Head(rx).text}
  BY DEF Reads
<1>2. /\ Tail(rx) \in Seq(Line) /\ Head(rx) \in Line /\ Head(rx) = rx[1] /\ 1 \in DOMAIN rx
      /\ \A i \in DOMAIN Tail(rx) : i + 1 \in DOMAIN rx /\ Tail(rx)[i] = rx[i + 1]
  BY <1>1
<1>3. Head(rx).text \in LineText BY <1>2 DEF Line
<1>4. QED BY <1>1, <1>2, <1>3

\* A line that arrives is the one sent, or noise.
LEMMA ArrivesLines ==
  ASSUME Lines(air), Lines(rx), NEW heard, Arrives(heard)
  PROVE  /\ Lines(air') /\ Lines(rx')
         /\ HasReg(air') => HasReg(air)
         /\ HasReg(rx') => HasReg(rx) \/ HasReg(air)
<1> USE DEF Lines, HasReg
<1>1. air # <<>> /\ air' = Tail(air) BY DEF Arrives
<1>2. PICK line : rx' = Append(rx, line)
                  /\ line \in {Head(air), [Head(air) EXCEPT !.text = "NOISE"]}
  BY DEF Arrives
<1>3. /\ Tail(air) \in Seq(Line) /\ Head(air) \in Line /\ Head(air) = air[1] /\ 1 \in DOMAIN air
      /\ \A i \in DOMAIN Tail(air) : i + 1 \in DOMAIN air /\ Tail(air)[i] = air[i + 1]
  BY <1>1
<1>4. line \in Line /\ (line.text = "REG" => Head(air).text = "REG")
  BY <1>2, <1>3 DEF Line, LineText, Final
<1>5. /\ Append(rx, line) \in Seq(Line)
      /\ \A i \in DOMAIN Append(rx, line) :
           (i \in DOMAIN rx /\ Append(rx, line)[i] = rx[i]) \/ Append(rx, line)[i] = line
  BY <1>4
<1>6. QED BY <1>1, <1>2, <1>3, <1>4, <1>5

\* An answer has the lines it is made of.
LEMMA AnswersLines ==
  ASSUME NEW texts \in Seq(LineText), Answers(texts)
  PROVE  Lines(air') /\ (HasReg(air') => \E i \in DOMAIN texts : texts[i] = "REG")
<1> DEFINE f == Len(cmds) = 1
<1>1. air' = [i \in DOMAIN texts |-> [text |-> texts[i], fresh |-> f]]
  BY DEF Answers
<1>2. f \in BOOLEAN OBVIOUS
<1> HIDE DEF f
<1>3. \A text \in LineText : [text |-> text, fresh |-> f] \in Line
  BY <1>2 DEF Line
<1>4. /\ DOMAIN texts = 1..Len(texts) /\ Len(texts) \in Nat
      /\ \A i \in DOMAIN texts : texts[i] \in LineText
  OBVIOUS
<1>5. air' \in Seq(Line) BY <1>1, <1>3, <1>4
<1>6. DOMAIN air' = DOMAIN texts /\ \A i \in DOMAIN texts : air'[i].text = texts[i] BY <1>1
<1>7. QED BY <1>5, <1>6 DEF Lines, HasReg

\* A modem that restarts says so, perhaps several times, and nothing else.
LEMMA ReadyLines == SaysReady => Lines(air') /\ ~HasReg(air')
<1> SUFFICES ASSUME SaysReady PROVE Lines(air') /\ ~HasReg(air')
  OBVIOUS
<1>1. PICK markers \in 1..3 : air' = Fresh([i \in 1..markers |-> "RDY"])
  BY Zenon DEF SaysReady
<1>2. [text |-> "RDY", fresh |-> TRUE] \in Line /\ "RDY" # "REG"
  BY DEF Line, LineText, Final
<1>3. air' = [i \in 1..markers |-> [text |-> "RDY", fresh |-> TRUE]]
  BY <1>1 DEF Fresh
<1>4. air' \in Seq(Line) BY <1>2, <1>3
<1>5. DOMAIN air' = 1..markers /\ \A i \in 1..markers : air'[i].text = "RDY" BY <1>3
<1>6. QED BY <1>2, <1>4, <1>5 DEF Lines, HasReg

----
(* The inductive invariant *)

\* Between the modem and the decision of the driver nothing turns a status into a
\* registration: one on the wire is true, one that was read was true in this call, and what is
\* left over from before a restart is thrown away by the first command of the next call.
NoFalseReg ==
  /\ HasReg(air) => registered
  /\ HasReg(rx) => StillThere \/ (d.at = "self" /\ phase = "send")
  /\ "REG" \in seen => StillThere
  /\ d.at \in Attached \/ stackReady => StillThere

MBInv ==
  /\ MBTypeOK /\ d \in Early \cup Beyond /\ (phase = "idle" => try = 1)
  /\ Lines(air) /\ Lines(rx) /\ NoFalseReg

\* The types of a sequence of lines are those of its lines.
LEMMA LinesTyped == \A s : Lines(s) => \A i \in DOMAIN s : s[i] \in Line
BY DEF Lines

\* It holds before the first call.
LEMMA MBInitInv == MBInit => MBInv
<1> SUFFICES ASSUME MBInit PROVE MBInv
  OBVIOUS
<1>1. Lines(<<>>) /\ ~HasReg(<<>>) /\ Off \in Locals /\ Off.at = "off"
  <2>1. Off \in Locals BY BringupAssumption, PointNames DEF Off, Locals
  <2>2. QED BY <2>1 DEF Lines, HasReg, Off
<1>2. air = <<>> /\ rx = <<>> /\ late = 0 /\ phase = "idle" /\ try = 1 /\ seen = {} /\ out = "none"
      /\ d = Off /\ restarts = 0 /\ calls = 0 /\ rebooted = "no"
  BY Zenon DEF MBInit, AtInit
<1>3. /\ misread \in BOOLEAN /\ verified \in BOOLEAN /\ powered \in BOOLEAN /\ pdp \in BOOLEAN
      /\ registered \in BOOLEAN /\ stackReady \in BOOLEAN /\ ~stackReady
  BY Zenon DEF MBInit, AtInit
<1>4. AtTypeOK BY <1>1, <1>2, <1>3, LinesTyped, LateAssumption DEF AtTypeOK, Outcome
<1>5. MBTypeOK
  BY <1>1, <1>2, <1>3, <1>4, PointNames, BringupAssumption DEF MBTypeOK
<1>6. NoFalseReg /\ d \in Early BY <1>1, <1>2, <1>3 DEF NoFalseReg, Attached, Early
<1>7. QED BY <1>1, <1>2, <1>5, <1>6 DEF MBInv

\* The driver goes on to another exchange, or to none: not behind the wait for registration
\* unless the modem has registered.
LEMMA MovesKeepInv ==
  ASSUME MBInv, NEW l \in Early \cup Beyond, Moves(l), phase = "done",
         l.at \in Attached => StillThere,
         UNCHANGED <<modemVars, calls>>,
         verified' \in BOOLEAN, stackReady' \in BOOLEAN, stackReady' => StillThere
  PROVE  MBInv'
<1>1. /\ d' = l /\ try' = 1 /\ seen' = {} /\ out' = "none" /\ air' = air /\ rx' = rx /\ late' = late
      /\ phase' = (IF l.at \in {"off", "cycle"} THEN "idle" ELSE "send")
  BY Zenon DEF Moves
<1>2. misread' = misread /\ powered' = powered /\ registered' = registered /\ pdp' = pdp
      /\ restarts' = restarts /\ rebooted' = rebooted /\ calls' = calls
  BY Zenon DEF Moves, modemVars
<1>3. AtTypeOK'
  BY <1>1, <1>2 DEF MBInv, MBTypeOK, AtTypeOK, Outcome
<1>4. l.at \in DOMAIN Exchange => 1 <= Exchange[l.at].tries
  BY ExchangeTypes
<1>5. l \in Locals BY DEF Early, Beyond
<1>6. MBTypeOK'
  BY <1>1, <1>2, <1>3, <1>4, <1>5 DEF MBInv, MBTypeOK
<1>7. NoFalseReg'
  BY <1>1, <1>2 DEF MBInv, NoFalseReg, StillThere
<1>8. QED BY <1>1, <1>6, <1>7 DEF MBInv

\* A decision of the driver that does not lead behind the wait for registration.
EarlyMove ==
  /\ \E point \in DOMAIN Exchange : Done(point)
  /\ \E l \in Early : Moves(l)
  /\ verified' \in BOOLEAN /\ UNCHANGED stackReady

\* It keeps what the invariant says.
LEMMA EarlyKeepsInv == MBInv /\ EarlyMove => MBInv'
<1> SUFFICES ASSUME MBInv, EarlyMove PROVE MBInv'
  OBVIOUS
<1>1. PICK l \in Early : Moves(l) BY DEF EarlyMove
<1>2. l.at \notin Attached /\ verified' \in BOOLEAN /\ UNCHANGED stackReady
  BY DEF Early, EarlyMove
<1>3. phase = "done" /\ UNCHANGED <<modemVars, calls>> BY Zenon DEF EarlyMove, Done
<1>4. stackReady \in BOOLEAN /\ (stackReady => StillThere)
  BY DEF MBInv, MBTypeOK, NoFalseReg
<1>5. QED BY <1>1, <1>2, <1>3, <1>4, MovesKeepInv

\* Those behind it are made by a driver whose modem has registered.
LEMMA LateKeepsInv ==
  ASSUME MBInv, NEW point \in DOMAIN Exchange, Done(point), StillThere,
         \E l \in Early \cup Beyond : Moves(l),
         UNCHANGED verified, stackReady' \in BOOLEAN
  PROVE  MBInv'
<1>1. PICK l \in Early \cup Beyond : Moves(l) OBVIOUS
<1>2. phase = "done" /\ UNCHANGED <<modemVars, calls>> BY Zenon DEF Done
<1>3. verified \in BOOLEAN BY DEF MBInv, MBTypeOK
<1>4. QED BY <1>1, <1>2, <1>3, MovesKeepInv

\* Where the driver is when an exchange is done.
LEMMA DoneTypes ==
  ASSUME MBInv
  PROVE  /\ d \in Locals /\ verified \in BOOLEAN
         /\ \A point : Done(point) => d.at = point /\ (point \notin Attached => d \in Early)
                                      /\ (point \in Attached => StillThere)
         /\ "REG" \in seen => StillThere
BY DEF MBInv, MBTypeOK, NoFalseReg, Early, Beyond, Done

\* The points before the end of the wait, and those behind it.
LEMMA PointSets ==
  /\ {"self", "hs", "ate0", "cpin", "qiclose", "cfun", "cereg1", "cereg", "recfun", "recereg"}
       \subseteq DOMAIN Exchange \ Attached
  /\ DOMAIN Exchange \ Attached \subseteq Points \ (Attached \cup {"cycle"})
  /\ Attached \subseteq DOMAIN Exchange /\ Attached \subseteq Points
BY PointNames DEF Attached

\* The self-test over the baud rates.
LEMMA SelfTestIsEarly == MBInv /\ SelfTestEnds => EarlyMove
<1> SUFFICES ASSUME MBInv, SelfTestEnds PROVE EarlyMove
  OBVIOUS
<1> DEFINE l == [d EXCEPT !.anyRx = @ \/ seen # {}]
<1>1. Done("self") /\ UNCHANGED stackReady BY Zenon DEF SelfTestEnds
<1>2. d \in Early /\ d \in Locals /\ d.baud \in 1..Bauds /\ Bauds \in Nat
  BY <1>1, DoneTypes, PointSets, BringupAssumption DEF Locals
<1>3. l \in Early /\ l.baud = d.baud
  <2>1. (d.anyRx \/ seen # {}) \in BOOLEAN OBVIOUS
  <2>2. \A b \in BOOLEAN : [d EXCEPT !.anyRx = b].baud = d.baud BY <1>2 DEF Locals
  <2>3. QED BY <1>2, <2>1, <2>2, Updates, Zenon
<1> HIDE DEF l
<1>4. l \in Locals BY <1>3 DEF Early
<1>5. StartPost(l, "boot") \in Early /\ StartProbe(l, "boot") \in Early /\ Fails(l) \in Early
  BY <1>4, HandshakeEarly, FailsEarly
<1>6. d.baud < Bauds => [l EXCEPT !.baud = @ + 1] \in Early
  <2>1. d.baud < Bauds => l.baud + 1 \in 1..Bauds BY <1>2, <1>3
  <2>2. QED BY <1>3, <2>1, Updates, Zenon
<1>7. verified' \in BOOLEAN /\ \E m \in Early : Moves(m)
  <2>1. CASE verified' = TRUE /\ Moves(StartPost(l, "boot"))
    BY <1>5, <2>1, Zenon
  <2>2. CASE d.baud < Bauds /\ Moves([l EXCEPT !.baud = @ + 1]) /\ UNCHANGED verified
    BY <1>6, <2>2, DoneTypes, Zenon
  <2>3. CASE verified' = FALSE /\ Moves(IF l.anyRx THEN StartProbe(l, "boot") ELSE Fails(l))
    <3>1. (IF l.anyRx THEN StartProbe(l, "boot") ELSE Fails(l)) \in Early BY <1>5, Zenon
    <3>2. QED BY <2>3, <3>1, Zenon
  <2>4. QED BY <2>1, <2>2, <2>3, Zenon DEF SelfTestEnds, l
<1>8. QED BY <1>1, <1>7, PointSets DEF EarlyMove

\* The handshake at one baud rate, or at each.
LEMMA HandshakeIsEarly == MBInv /\ HandshakeEnds => EarlyMove
<1> SUFFICES ASSUME MBInv, HandshakeEnds PROVE EarlyMove
  OBVIOUS
<1>1. Done("hs") /\ UNCHANGED <<verified, stackReady>> BY Zenon DEF HandshakeEnds
<1>2. /\ d \in Early /\ d \in Locals /\ verified \in BOOLEAN
      /\ d.baud \in 1..Bauds /\ d.hs \in 1..HandshakeTries
      /\ Bauds \in Nat /\ HandshakeTries \in Nat
  BY <1>1, DoneTypes, PointSets, BringupAssumption DEF Locals
<1>3. Goto(d, "ate0") \in Early /\ ProbeSucceeds(d) \in Early /\ PostRetries(d) \in Early
      /\ ProbeFails(d) \in Early
  BY <1>2, GotoEarly, ReturnsEarly, PointSets
<1>4. d.hs < HandshakeTries => [d EXCEPT !.hs = @ + 1] \in Early
  <2>1. d.hs < HandshakeTries => d.hs + 1 \in 1..HandshakeTries BY <1>2
  <2>2. QED BY <1>2, <2>1, Updates, Zenon
<1>5. d.baud < Bauds => [StartHandshake(d) EXCEPT !.baud = @ + 1] \in Early
  <2>1. d.baud < Bauds => d.baud + 1 \in 1..Bauds BY <1>2
  <2>2. StartHandshake(d) \in Early BY <1>2, HandshakeEarly
  <2>3. StartHandshake(d).baud = d.baud BY <1>2 DEF StartHandshake, Goto, Locals
  <2>4. QED BY <2>1, <2>2, <2>3, Updates, Zenon
<1>6. \E l \in Early : Moves(l)
  BY <1>3, <1>4, <1>5, Zenon DEF HandshakeEnds
<1>7. QED BY <1>1, <1>2, <1>6, PointSets DEF EarlyMove

\* The commands after the handshake.
LEMMA PostHandshakeIsEarly == MBInv /\ (Ate0Ends \/ CpinEnds) => EarlyMove
<1> SUFFICES ASSUME MBInv, Ate0Ends \/ CpinEnds PROVE EarlyMove
  OBVIOUS
<1>1. PICK point \in {"ate0", "cpin"} : Done(point)
  BY Zenon DEF Ate0Ends, CpinEnds
<1>2. UNCHANGED <<verified, stackReady>> BY Zenon DEF Ate0Ends, CpinEnds
<1>3. d \in Locals /\ verified \in BOOLEAN BY DoneTypes
<1>4. Goto(d, "cpin") \in Early /\ PostSucceeds(d) \in Early /\ PostRetries(d) \in Early
      /\ StartProbe(d, "post") \in Early
  BY <1>3, GotoEarly, ReturnsEarly, HandshakeEarly, PointSets
<1>5. \E l \in Early : Moves(l)
  BY <1>4, Zenon DEF Ate0Ends, CpinEnds
<1>6. QED BY <1>1, <1>2, <1>3, <1>5, PointSets DEF EarlyMove

\* The commands whose failure ends the call, on both sides of the wait: behind it the driver
\* sets up the context, and goes on when the modem took it.
LEMMA ConfigSteps ==
  ASSUME MBInv, ConfigEnds
  PROVE  \/ EarlyMove
         \/ /\ Done("cgdcont") /\ Moves(Goto(d, "qicsgp"))
            /\ UNCHANGED <<verified, stackReady>>
         \/ /\ Done("qicsgp") /\ out = "ok" /\ Moves(Goto(d, "query1"))
            /\ UNCHANGED <<verified, stackReady>>
<1> DEFINE l(next) ==
      IF next = "cereg" THEN [Goto(d, "cereg") EXCEPT !.hits = 0, !.budget = PollLimit]
                        ELSE Goto(d, next)
<1>1. d \in Locals /\ verified \in BOOLEAN
  BY DoneTypes DEF MBInv, MBTypeOK
<1>2. UNCHANGED <<verified, stackReady>> BY Zenon DEF ConfigEnds
<1>3. Fails(d) \in Early BY <1>1, FailsEarly
<1>4. \A next \in {"cfun", "cereg1", "cereg"} : l(next) \in Early
  <2>1. \A next \in {"cfun", "cereg1", "cereg"} : Goto(d, next) \in Early
    BY <1>1, GotoEarly, PointSets
  <2>2. [Goto(d, "cereg") EXCEPT !.hits = 0, !.budget = PollLimit] \in Early
    BY <2>1, Starts, Limits, Zenon
  <2>3. QED BY <2>1, <2>2, Zenon
<1>5. l("qicsgp") = Goto(d, "qicsgp") /\ l("query1") = Goto(d, "query1") OBVIOUS
<1>6. PICK step \in {<<"qiclose", "cfun">>, <<"cfun", "cereg1">>, <<"cereg1", "cereg">>,
                     <<"cgdcont", "qicsgp">>, <<"qicsgp", "query1">>} :
        /\ Done(step[1])
        /\ \/ Moves(Fails(d))
           \/ (out = "ok" \/ step[1] = "qiclose") /\ Moves(l(step[2]))
  BY Zenon DEF ConfigEnds
<1> HIDE DEF l
<1>7. step[1] \in DOMAIN Exchange BY <1>6, PointNames
<1>8. CASE Moves(Fails(d)) BY <1>1, <1>2, <1>3, <1>6, <1>7, <1>8, Zenon DEF EarlyMove
<1>9. CASE (out = "ok" \/ step[1] = "qiclose") /\ Moves(l(step[2]))
  <2>1. CASE step \in {<<"qiclose", "cfun">>, <<"cfun", "cereg1">>, <<"cereg1", "cereg">>}
    <3>1. step[2] \in {"cfun", "cereg1", "cereg"} BY <2>1
    <3>2. \E m \in Early : Moves(m) BY <1>4, <1>9, <3>1, Zenon
    <3>3. QED BY <1>1, <1>2, <1>6, <1>7, <3>2, Zenon DEF EarlyMove
  <2>2. CASE step = <<"cgdcont", "qicsgp">>
    <3>1. step[1] = "cgdcont" /\ step[2] = "qicsgp" BY <2>2
    <3>2. QED BY <1>2, <1>5, <1>6, <1>9, <3>1, Zenon
  <2>3. CASE step = <<"qicsgp", "query1">>
    <3>1. step[1] = "qicsgp" /\ step[2] = "query1" BY <2>3
    <3>2. "qicsgp" # "qiclose" OBVIOUS
    <3>3. QED BY <1>2, <1>5, <1>6, <1>9, <3>1, <3>2, Zenon
  <2>4. QED BY <1>6, <2>1, <2>2, <2>3
<1>10. QED BY <1>6, <1>8, <1>9

\* They keep the invariant.
LEMMA ConfigKeepsInv == MBInv /\ ConfigEnds => MBInv'
<1> SUFFICES ASSUME MBInv, ConfigEnds PROVE MBInv'
  OBVIOUS
<1>1. d \in Locals /\ verified \in BOOLEAN /\ stackReady \in BOOLEAN
  BY DoneTypes DEF MBInv, MBTypeOK
<1>2. Goto(d, "qicsgp") \in Beyond /\ Goto(d, "query1") \in Beyond
  BY <1>1, GotoBeyond DEF Attached
<1>3. CASE EarlyMove BY <1>3, EarlyKeepsInv
<1>4. ASSUME NEW point \in {"cgdcont", "qicsgp"}, Done(point), \E l \in Beyond : Moves(l),
             UNCHANGED <<verified, stackReady>>
      PROVE  MBInv'
  <2>1. point \in Attached BY <1>4 DEF Attached
  <2>2. StillThere BY <1>4, <2>1, DoneTypes
  <2>3. QED BY <1>1, <1>4, <2>1, <2>2, LateKeepsInv, PointSets
<1>5. QED BY <1>2, <1>3, <1>4, ConfigSteps

\* The one way behind the wait is a registered status that was read in it.
LEMMA CeregSteps ==
  ASSUME MBInv, CeregEnds
  PROVE  \/ EarlyMove
         \/ /\ Done("cereg") /\ "REG" \in seen /\ Moves(Goto(d, "cgdcont"))
            /\ UNCHANGED <<verified, stackReady>>
<1>1. Done("cereg") /\ UNCHANGED <<verified, stackReady>> BY Zenon DEF CeregEnds
<1>2. d \in Early /\ d \in Locals /\ verified \in BOOLEAN
  BY <1>1, DoneTypes, PointSets DEF MBInv, MBTypeOK
<1>3. CASE out = "ok" /\ "REG" \in seen
  BY <1>1, <1>3, Zenon DEF CeregEnds
<1>4. CASE ~(out = "ok" /\ "REG" \in seen)
  <2>1. CountsHit(d) \in Early
    <3>1. d.hits \in 0..HitThreshold /\ HitThreshold \in Nat
      BY <1>2, BringupAssumption DEF Locals
    <3>2. (IF d.hits < HitThreshold THEN d.hits + 1 ELSE d.hits) \in 0..HitThreshold BY <3>1
    <3>3. QED BY <1>2, <3>2, Updates, Zenon DEF CountsHit
  <2>2. CountsHit(d) \in Locals BY <2>1 DEF Early
  <2>3. StartPost(CountsHit(d), "hit") \in Early /\ PollAgain(d) \in Early
    BY <1>2, <2>2, HandshakeEarly, ReturnsEarly
  <2>4. \E l \in Early : Moves(l) BY <1>4, <2>3, Zenon DEF CeregEnds
  <2>5. QED BY <1>1, <1>2, <2>4, PointSets DEF EarlyMove
<1>5. QED BY <1>3, <1>4

\* Such a status is true.
LEMMA CeregKeepsInv == MBInv /\ CeregEnds => MBInv'
<1> SUFFICES ASSUME MBInv, CeregEnds PROVE MBInv'
  OBVIOUS
<1>1. d \in Locals /\ verified \in BOOLEAN /\ stackReady \in BOOLEAN
  BY DoneTypes DEF MBInv, MBTypeOK
<1>2. Goto(d, "cgdcont") \in Beyond BY <1>1, GotoBeyond DEF Attached
<1>3. CASE EarlyMove BY <1>3, EarlyKeepsInv
<1>4. CASE /\ Done("cereg") /\ "REG" \in seen /\ Moves(Goto(d, "cgdcont"))
           /\ UNCHANGED <<verified, stackReady>>
  <2>1. StillThere BY <1>4, DoneTypes
  <2>2. QED BY <1>1, <1>2, <1>4, <2>1, LateKeepsInv, PointSets
<1>5. QED BY <1>3, <1>4, CeregSteps

\* Recovery within the wait.
LEMMA RecoveryIsEarly == MBInv /\ (ReattachEnds \/ RecoveryEnds) => EarlyMove
<1> SUFFICES ASSUME MBInv, ReattachEnds \/ RecoveryEnds PROVE EarlyMove
  OBVIOUS
<1>1. PICK point \in {"recfun", "recereg"} : Done(point)
  BY Zenon DEF ReattachEnds, RecoveryEnds
<1>2. UNCHANGED <<verified, stackReady>> BY Zenon DEF ReattachEnds, RecoveryEnds
<1>3. d \in Early /\ d \in Locals /\ verified \in BOOLEAN BY <1>1, DoneTypes, PointSets
<1>4. CASE ReattachEnds
  <2>1. Goto(d, "recereg") \in Early BY <1>3, GotoEarly, PointSets
  <2>2. \E l \in Early : Moves(l) BY <1>4, <2>1, Zenon DEF ReattachEnds
  <2>3. QED BY <1>1, <1>2, <1>3, <2>2, PointSets DEF EarlyMove
<1>5. CASE RecoveryEnds
  <2>1. \A left \in 0..PollLimit : [d EXCEPT !.budget = left] \in Early
    BY <1>3, Updates
  <2>2. \A l \in Early : [Goto(l, "cycle") EXCEPT !.probeFor = "recovery"] \in Early
                         /\ PollAgain(l) \in Early
    <3> SUFFICES ASSUME NEW l \in Early
        PROVE [Goto(l, "cycle") EXCEPT !.probeFor = "recovery"] \in Early /\ PollAgain(l) \in Early
      OBVIOUS
    <3>1. l \in Locals BY DEF Early
    <3>2. [Goto(l, "cycle") EXCEPT !.probeFor = "recovery"] \in Early
      BY <3>1, PointNames DEF Goto, Locals, Early, Attached
    <3>3. QED BY <3>1, <3>2, ReturnsEarly
  <2>3. CASE Moves(PollAgain(d))
    BY <1>1, <1>2, <1>3, <2>2, <2>3, PointSets DEF EarlyMove
  <2>4. CASE \E left \in 0..PollLimit :
               LET l == [d EXCEPT !.budget = left] IN
               \/ Moves([Goto(l, "cycle") EXCEPT !.probeFor = "recovery"])
               \/ Moves(PollAgain(l))
    <3>1. \E m \in Early : Moves(m) BY <2>1, <2>2, <2>4, Zenon
    <3>2. QED BY <1>1, <1>2, <1>3, <3>1, PointSets DEF EarlyMove
  <2>5. QED BY <1>5, <2>3, <2>4, Zenon DEF RecoveryEnds
<1>6. QED BY <1>4, <1>5

\* The activation of the PDP context, and the end of a call that worked.
LEMMA ActivationKeepsInv == MBInv /\ (PdpStepEnds \/ BecomesReady) => MBInv'
<1> SUFFICES ASSUME MBInv, PdpStepEnds \/ BecomesReady PROVE MBInv'
  OBVIOUS
<1>1. PICK point \in {"query1", "act1", "query2", "deact", "act2", "cgpaddr"} : Done(point)
  BY Zenon DEF PdpStepEnds, BecomesReady
<1>2. point \in Attached BY <1>1 DEF Attached
<1>3. d \in Locals /\ StillThere BY <1>1, <1>2, DoneTypes
<1>4. UNCHANGED verified BY Zenon DEF PdpStepEnds, BecomesReady
<1>5. stackReady' \in BOOLEAN
  <2>1. stackReady \in BOOLEAN BY DEF MBInv, MBTypeOK
  <2>2. stackReady' = stackReady \/ stackReady' = TRUE BY Zenon DEF PdpStepEnds, BecomesReady
  <2>3. QED BY <2>1, <2>2, Zenon
<1>6. \A p \in Attached : Goto(d, p) \in Beyond BY <1>3, GotoBeyond
<1>7. Fails(d) \in Early BY <1>3, FailsEarly
<1>8. {"query1", "act1", "query2", "deact", "act2", "cgpaddr"} \subseteq Attached BY DEF Attached
<1>9. \E l \in Early \cup Beyond : Moves(l)
  <2>1. CASE BecomesReady BY <1>7, <2>1, Zenon DEF BecomesReady
  <2>2. CASE PdpStepEnds
    <3>1. \A c \in BOOLEAN : Goto(d, IF c THEN "cgpaddr" ELSE "act1") \in Beyond
                             /\ Goto(d, IF c THEN "cgpaddr" ELSE "query2") \in Beyond
                             /\ Goto(d, IF c THEN "cgpaddr" ELSE "deact") \in Beyond
      BY <1>6, <1>8
    <3>2. (out = "ok" /\ "PDP" \in seen) \in BOOLEAN /\ (out = "ok") \in BOOLEAN OBVIOUS
    <3>3. Goto(d, "act2") \in Beyond /\ Goto(d, "cgpaddr") \in Beyond BY <1>6, <1>8
    <3>4. QED BY <1>7, <2>2, <3>1, <3>2, <3>3, Zenon DEF PdpStepEnds
  <2>3. QED BY <2>1, <2>2
<1>10. QED BY <1>1, <1>2, <1>3, <1>4, <1>5, <1>9, LateKeepsInv, PointSets

\* A power cycle takes back the registration, and forgets what was on the way.
LEMMA PowerCycleKeepsInv == MBInv /\ PowerCycles => MBInv'
<1> SUFFICES ASSUME MBInv, PowerCycles PROVE MBInv'
  OBVIOUS
<1>1. d \in Locals /\ d.at = "cycle" /\ d.cycles \in 0..2
  BY DEF PowerCycles, MBInv, MBTypeOK, Locals
<1>2. d.probeFor = "recovery" \/ d.cycles < 2
  BY <1>1 DEF MBInv, Early, Beyond, Attached
<1>3. d' \in Early /\ d'.at = "hs"
  <2>1. /\ StartProbe(d, "boot") \in Early /\ StartProbe(d, "boot").at = "hs"
        /\ StartProbe(d, "recovery") \in Early /\ StartProbe(d, "recovery").at = "hs"
    BY <1>1, HandshakeEarly
  <2>2. CASE d.probeFor = "boot"
    <3>1. d' = [StartProbe(d, "boot") EXCEPT !.cycles = @ + 1]
      BY <2>2, Zenon DEF PowerCycles
    <3>2. StartProbe(d, "boot").cycles = d.cycles
      BY <1>1 DEF StartProbe, StartHandshake, Goto, Locals
    <3>3. d.cycles + 1 \in 0..2 BY <1>1, <1>2, <2>2
    <3>4. d' \in Early BY <2>1, <3>1, <3>2, <3>3, Updates
    <3>5. d'.at = "hs" BY <2>1, <3>1 DEF Early, Locals
    <3>6. QED BY <3>4, <3>5
  <2>3. CASE d.probeFor # "boot"
    <3>1. d' = StartProbe(d, "recovery") BY <2>3, Zenon DEF PowerCycles
    <3>2. QED BY <2>1, <3>1
  <2>4. QED BY <2>2, <2>3
<1>4. Lines(air') /\ ~HasReg(air')
  <2>1. CASE powered' BY <2>1, ReadyLines DEF PowerCycles
  <2>2. CASE ~powered' BY <2>2 DEF PowerCycles, Lines, HasReg
  <2>3. QED BY <2>1, <2>2
<1>5. /\ rx' = rx /\ late' = late /\ try' = try /\ seen' = seen /\ out' = out /\ phase' = "send"
      /\ restarts' = restarts /\ rebooted' = "now" /\ calls' = calls
  BY Zenon DEF PowerCycles
<1>6. /\ misread' = misread /\ verified' = verified /\ stackReady' = stackReady
      /\ powered' \in BOOLEAN /\ registered' \in BOOLEAN /\ pdp' \in BOOLEAN
  <2>1. (d.probeFor = "recovery" \/ d.cycles = 0) \in BOOLEAN OBVIOUS
  <2>2. QED BY <2>1, Zenon DEF PowerCycles
<1>7. AtTypeOK' BY <1>4, <1>5, <1>6, LinesTyped DEF MBInv, MBTypeOK, AtTypeOK, Outcome
<1>8. try' = 1 BY <1>1, <1>5 DEF MBInv, MBTypeOK
<1>9. MBTypeOK'
  BY <1>3, <1>5, <1>6, <1>7, <1>8, ExchangeTypes, PointNames DEF MBInv, MBTypeOK, Early
<1>10. NoFalseReg' BY <1>3, <1>4, <1>5 DEF NoFalseReg, StillThere
<1>11. QED BY <1>3, <1>4, <1>5, <1>9, <1>10 DEF MBInv

\* A new call knows nothing of the restarts before it.
LEMMA CallKeepsInv == MBInv /\ Called => MBInv'
<1> SUFFICES ASSUME MBInv, Called PROVE MBInv'
  OBVIOUS
<1>1. d' \in Locals /\ d'.at = "self"
  <2>1. Off \in Locals BY BringupAssumption, PointNames DEF Off, Locals
  <2>2. \A p \in Points : [Off EXCEPT !.at = p] \in Locals /\ [Off EXCEPT !.at = p].at = p
    BY <2>1 DEF Locals
  <2>3. QED BY <2>2, PointNames DEF Called
<1>2. /\ air' = air /\ rx' = rx /\ late' = late /\ try' = 1 /\ seen' = {} /\ out' = "none"
      /\ phase' = "send" /\ restarts' = restarts /\ calls' = calls + 1 /\ calls < CallLimit
      /\ rebooted' = (IF rebooted = "no" THEN "no" ELSE "earlier")
  BY Zenon DEF Called
<1>3. /\ misread' \in BOOLEAN /\ verified' = verified /\ stackReady' = stackReady /\ ~stackReady
      /\ powered' = powered /\ registered' = registered /\ pdp' = pdp
  BY Zenon DEF Called
<1>4. AtTypeOK' BY <1>2, <1>3 DEF MBInv, MBTypeOK, AtTypeOK, Outcome
<1>5. MBTypeOK'
  BY <1>1, <1>2, <1>3, <1>4, ExchangeTypes, PointNames, BringupAssumption DEF MBInv, MBTypeOK
<1>6. NoFalseReg' /\ d' \in Early
  BY <1>1, <1>2, <1>3 DEF MBInv, NoFalseReg, StillThere, Attached, Early
<1>7. QED BY <1>2, <1>5, <1>6 DEF MBInv

\* An exchange ends, or is tried again.
LEMMA EndsTypes ==
  ASSUME NEW x, NEW outcome \in Outcome, x.tries \in Nat, try \in Nat \ {0}, try <= x.tries,
         out \in Outcome, Ends(x, outcome)
  PROVE  /\ phase' \in {"send", "done"} /\ try' \in Nat \ {0} /\ try' <= x.tries
         /\ out' \in Outcome
<1>1. CASE outcome \in {"hostdown", "timeout"} /\ try < x.tries BY <1>1 DEF Ends
<1>2. CASE ~(outcome \in {"hostdown", "timeout"} /\ try < x.tries) BY <1>2 DEF Ends
<1>3. QED BY <1>1, <1>2

\* What goes over the link while the driver waits.
LEMMA LinkKeepsInv == MBInv /\ LinkStep => MBInv'
<1> SUFFICES ASSUME MBInv, LinkStep PROVE MBInv'
  OBVIOUS
<1> DEFINE x == Exchange[d.at]
<1>1. /\ d.at \in DOMAIN Exchange /\ d' = d /\ verified' = verified /\ stackReady' = stackReady
      /\ powered' = powered /\ registered' = registered /\ pdp' = pdp /\ restarts' = restarts
      /\ rebooted' = rebooted /\ calls' = calls
  BY Zenon DEF LinkStep, modemVars
<1>2. /\ x.tries \in Nat /\ try <= x.tries /\ try \in Nat \ {0} /\ out \in Outcome
      /\ (d.at = "self" => x.drain = TRUE)
      /\ seen \subseteq LineText /\ Lines(air) /\ Lines(rx) /\ late \in 0..LateLimit
      /\ misread \in BOOLEAN /\ NoFalseReg
  BY <1>1, ExchangeTypes, SelfDrains DEF MBInv, MBTypeOK, AtTypeOK
<1>3. Sends(x, Heard) \/ Reads(x) \/ TimesOut(x) BY Zenon DEF LinkStep
<1> HIDE DEF x
<1>4. /\ Lines(air') /\ Lines(rx') /\ NoFalseReg'
      /\ late' \in 0..LateLimit /\ phase' \in {"send", "wait", "done"}
      /\ try' \in Nat \ {0} /\ try' <= x.tries /\ seen' \subseteq LineText /\ out' \in Outcome
      /\ misread' \in BOOLEAN
  <2>1. CASE Sends(x, Heard)
    <3>1. /\ phase = "send" /\ phase' = "wait" /\ seen' = {} /\ late' = late /\ try' = try
          /\ out' = out /\ misread' = misread
      BY <2>1, Zenon DEF Sends
    <3>2. /\ Lines(air') /\ Lines(rx')
          /\ HasReg(air') => HasReg(air)
          /\ HasReg(rx') => HasReg(rx) /\ x.drain # TRUE
      BY <1>2, <2>1, SendsLines
    <3>3. NoFalseReg' BY <1>1, <1>2, <3>1, <3>2 DEF NoFalseReg, StillThere
    <3>4. QED BY <1>2, <3>1, <3>2, <3>3
  <2>2. CASE Reads(x)
    <3>1. phase = "wait" /\ air' = air /\ late' = late BY <2>2, Zenon DEF Reads
    <3>2. /\ Lines(rx') /\ seen' \subseteq LineText
          /\ HasReg(rx') => HasReg(rx)
          /\ "REG" \in seen' => "REG" \in seen \/ HasReg(rx)
      BY <1>2, <2>2, ReadsLines
    <3>3. NoFalseReg' BY <1>1, <1>2, <3>1, <3>2 DEF NoFalseReg, StillThere
    <3>4. misread' \in BOOLEAN BY <2>2 DEF Reads
    <3>5. PICK verdict \in {"ok", "hostdown", "eio", "none"} :
            IF verdict = "none" THEN UNCHANGED <<phase, try, out>> ELSE Ends(x, verdict)
      BY <2>2 DEF Reads, Verdict
    <3>6. phase' \in {"send", "wait", "done"} /\ try' \in Nat \ {0} /\ try' <= x.tries
          /\ out' \in Outcome
      BY <1>2, <3>1, <3>5, EndsTypes DEF Outcome
    <3>7. QED BY <1>2, <3>1, <3>2, <3>3, <3>4, <3>6
  <2>3. CASE TimesOut(x)
    <3>1. /\ phase = "wait" /\ rx' = rx /\ seen' = seen /\ misread' = misread
          /\ Ends(x, "timeout")
      BY <2>3, Zenon DEF TimesOut
    <3>2. air' = air \/ air' = <<>> BY <2>3, Zenon DEF TimesOut
    <3>3. late' \in 0..LateLimit BY <1>2, <2>3, LateAssumption DEF TimesOut
    <3>4. Lines(<<>>) /\ ~HasReg(<<>>) BY DEF Lines, HasReg
    <3>5. NoFalseReg' /\ Lines(air')
      BY <1>1, <1>2, <3>1, <3>2, <3>4 DEF NoFalseReg, StillThere
    <3>6. phase' \in {"send", "done"} /\ try' \in Nat \ {0} /\ try' <= x.tries /\ out' \in Outcome
      BY <1>2, <3>1, EndsTypes DEF Outcome
    <3>7. QED BY <1>2, <3>1, <3>3, <3>5, <3>6
  <2>4. QED BY <1>3, <2>1, <2>2, <2>3
<1>5. AtTypeOK' BY <1>4, LinesTyped DEF AtTypeOK
<1>6. MBTypeOK' BY <1>1, <1>4, <1>5, PointNames DEF MBInv, MBTypeOK, x
<1>7. QED BY <1>1, <1>4, <1>6 DEF MBInv

\* What every step of the modem leaves alone.
LEMMA DriverRests ==
  ASSUME MBInv,
         /\ late' = late /\ phase' = phase /\ try' = try /\ seen' = seen /\ out' = out
         /\ d' = d /\ calls' = calls,
         misread' = misread /\ verified' = verified /\ stackReady' = stackReady,
         Lines(air'), Lines(rx'),
         /\ powered' \in BOOLEAN /\ registered' \in BOOLEAN /\ pdp' \in BOOLEAN
         /\ rebooted' \in {"no", "earlier", "now"} /\ restarts' \in 0..RestartLimit,
         HasReg(air') => registered',
         HasReg(rx') => HasReg(rx) \/ registered',
         StillThere => StillThere'
  PROVE  MBInv'
<1>1. AtTypeOK' BY LinesTyped DEF MBInv, MBTypeOK, AtTypeOK
<1>2. MBTypeOK' BY <1>1 DEF MBInv, MBTypeOK
<1>3. NoFalseReg' BY DEF MBInv, NoFalseReg, StillThere
<1>4. QED BY <1>2, <1>3 DEF MBInv

\* Nothing the modem does makes a registration look true that is not.
LEMMA ModemKeepsInv == MBInv /\ ModemNext => MBInv'
<1> SUFFICES ASSUME MBInv, ModemNext PROVE MBInv'
  OBVIOUS
<1> USE DEF modemVars, atVars
<1>1. /\ Lines(air) /\ Lines(rx) /\ powered \in BOOLEAN /\ registered \in BOOLEAN /\ pdp \in BOOLEAN
      /\ rebooted \in {"no", "earlier", "now"} /\ restarts \in 0..RestartLimit
      /\ HasReg(air) => registered
  BY DEF MBInv, MBTypeOK, NoFalseReg
<1>2. CASE LineArrives
  <2>1. /\ late' = late /\ phase' = phase /\ try' = try /\ seen' = seen /\ out' = out
        /\ d' = d /\ calls' = calls /\ rebooted' = rebooted /\ restarts' = restarts
    BY <1>2, Zenon DEF LineArrives, Arrives
  <2>2. /\ misread' = misread /\ verified' = verified /\ stackReady' = stackReady
        /\ powered' = powered /\ registered' = registered /\ pdp' = pdp
    BY <1>2, Zenon DEF LineArrives, Arrives
  <2>3. /\ Lines(air') /\ Lines(rx')
        /\ HasReg(air') => HasReg(air)
        /\ HasReg(rx') => HasReg(rx) \/ HasReg(air)
    <3>1. Arrives(Heard) BY <1>2, Zenon DEF LineArrives
    <3>2. QED BY <1>1, <3>1, ArrivesLines
  <2>4. StillThere => StillThere' BY <2>1, <2>2 DEF StillThere
  <2>5. HasReg(air') => registered' BY <1>1, <2>2, <2>3, Zenon
  <2>6. HasReg(rx') => HasReg(rx) \/ registered' BY <1>1, <2>2, <2>3, Zenon
  <2>7. QED BY <1>1, <2>1, <2>2, <2>3, <2>4, <2>5, <2>6, DriverRests
<1>3. CASE cmds # <<>> /\ Executes
  <2>1. PICK texts \in {<<"READY", "OK">>, <<"REG", "OK">>, <<"STAT", "OK">>, <<"PDP", "OK">>,
                        <<"OK">>, <<"ERROR">>} :
          Answers(texts) /\ (texts = <<"REG", "OK">> => registered)
    BY <1>3 DEF Executes
  <2>2. /\ rx' = rx /\ late' = late /\ phase' = phase /\ try' = try /\ seen' = seen /\ out' = out
        /\ d' = d /\ calls' = calls /\ rebooted' = rebooted /\ restarts' = restarts
    BY <1>3, <2>1, Zenon DEF Executes, Answers
  <2>3. /\ misread' = misread /\ verified' = verified /\ stackReady' = stackReady
        /\ powered' = powered /\ registered' = registered
    BY <1>3, <2>1, Zenon DEF Executes, Answers
  <2>4. pdp' \in BOOLEAN
    <3>1. pdp' = pdp \/ pdp' = TRUE \/ pdp' = FALSE BY <1>3, Zenon DEF Executes
    <3>2. QED BY <1>1, <3>1, Zenon
  <2>5. texts \in Seq(LineText)
    <3>1. {"READY", "REG", "STAT", "PDP", "OK", "ERROR"} \subseteq LineText BY DEF LineText, Final
    <3>2. \A a, b \in LineText : <<a, b>> \in Seq(LineText) /\ <<a>> \in Seq(LineText)
      OBVIOUS
    <3>3. QED BY <2>1, <3>1, <3>2
  <2>6. (\E i \in DOMAIN texts : texts[i] = "REG") => texts = <<"REG", "OK">>
    OBVIOUS
  <2>7. Lines(air') /\ (HasReg(air') => registered)
    BY <2>1, <2>5, <2>6, AnswersLines
  <2>8. StillThere => StillThere' BY <2>2, <2>3 DEF StillThere
  <2>9. HasReg(air') => registered' BY <2>3, <2>7, Zenon
  <2>10. QED BY <1>1, <2>2, <2>3, <2>4, <2>7, <2>8, <2>9, DriverRests
<1>4. CASE Registers
  <2>1. /\ air' = air /\ rx' = rx /\ late' = late /\ phase' = phase /\ try' = try /\ seen' = seen
        /\ out' = out /\ d' = d /\ calls' = calls /\ rebooted' = rebooted /\ restarts' = restarts
    BY <1>4, Zenon DEF Registers
  <2>2. /\ misread' = misread /\ verified' = verified /\ stackReady' = stackReady
        /\ powered' = powered /\ registered' = TRUE /\ pdp' = pdp
    BY <1>4, Zenon DEF Registers
  <2>3. StillThere' BY <2>2, Zenon DEF StillThere
  <2>4. QED BY <1>1, <2>1, <2>2, <2>3, DriverRests
<1>5. CASE Restarts
  <2>1. /\ rx' = rx /\ late' = late /\ phase' = phase /\ try' = try /\ seen' = seen /\ out' = out
        /\ d' = d /\ calls' = calls /\ rebooted' = "now" /\ restarts' = restarts + 1
        /\ restarts < RestartLimit
    BY <1>5, Zenon DEF Restarts
  <2>2. /\ misread' = misread /\ verified' = verified /\ stackReady' = stackReady
        /\ powered' = powered /\ registered' = FALSE /\ pdp' = FALSE
    BY <1>5, Zenon DEF Restarts
  <2>3. Lines(air') /\ ~HasReg(air') BY <1>5, ReadyLines DEF Restarts
  <2>4. restarts' \in 0..RestartLimit BY <1>1, <2>1, BringupAssumption
  <2>5. StillThere' BY <2>1 DEF StillThere
  <2>6. QED BY <1>1, <2>1, <2>2, <2>3, <2>4, <2>5, DriverRests
<1>6. QED BY <1>2, <1>3, <1>4, <1>5 DEF ModemNext

----
\* The inductive invariant holds in every reachable state.
THEOREM MBInvariance == MBSpec => []MBInv
<1>1. MBInv /\ [MBNext]_vars => MBInv'
  <2> SUFFICES ASSUME MBInv, [MBNext]_vars PROVE MBInv'
    OBVIOUS
  <2>1. CASE Called BY <2>1, CallKeepsInv
  <2>2. CASE DriverNext
    BY <2>2, LinkKeepsInv, SelfTestIsEarly, HandshakeIsEarly, PostHandshakeIsEarly,
       RecoveryIsEarly, EarlyKeepsInv, PowerCycleKeepsInv, ConfigKeepsInv, CeregKeepsInv,
       ActivationKeepsInv, Zenon DEF DriverNext
  <2>3. CASE ModemNext BY <2>3, ModemKeepsInv
  <2>4. CASE UNCHANGED vars
    BY <2>4 DEF vars, atVars, modemVars, MBInv, MBTypeOK, AtTypeOK, NoFalseReg, StillThere
  <2>5. QED BY <2>1, <2>2, <2>3, <2>4 DEF MBNext
<1>2. QED BY <1>1, MBInitInv, PTL DEF MBSpec

\* Every variable keeps its type: no exchange is tried more often than the code says, and the
\* driver leaves the link alone outside an exchange (ec801e_cmd_expect_retry).
THEOREM MBTypeCorrect == MBSpec => []MBTypeOK
<1>1. MBInv => MBTypeOK BY DEF MBInv
<1>2. QED BY <1>1, MBInvariance, PTL

\* A stack that is ready has a modem that registered in this call, unless it restarted in it
\* (ec801e_wait_cereg_registered).
THEOREM Registration == MBSpec => []RegisteredWhenReady
<1>1. MBInv => RegisteredWhenReady
  BY DEF MBInv, NoFalseReg, StillThere, RegisteredWhenReady
<1>2. QED BY <1>1, MBInvariance, PTL

----
(* Which command a line answers *)

\* Lines that do answer the command under way, unless they came through as noise.
Told(line) == line.fresh /\ line.text # "NOISE"

HasPdp(lines) == \E i \in DOMAIN lines : lines[i].text = "PDP"
NoDeact == \A i \in DOMAIN cmds : cmds[i] # "QIDEACT"
Silent == cmds = <<>> /\ air = <<>> /\ rx = <<>>

\* The exchanges that activate the context, and those before it may be deactivated again.
Acts == {"act1", "act2"}
Asking == {"query1", "act1", "query2"}

\* During a wait the lines that answer its command are the last ones there will be, and an OK
\* among them to AT+QIACT means an active context.
AirAnswers ==
  \A i \in DOMAIN air : air[i].fresh => cmds = <<>> /\ (air[i].text \in Final => i = Len(air))
RxAnswers ==
  \A i \in DOMAIN rx : Told(rx[i]) =>
    cmds = <<>> /\ Heard /\ (rx[i].text \in Final => i = Len(rx) /\ air = <<>>)
LastCommand == Heard /\ cmds # <<>> => cmds[Len(cmds)] = Exchange[d.at].cmd
Activates ==
  Heard /\ d.at \in Acts =>
    /\ \A i \in DOMAIN air : air[i].fresh /\ air[i].text = "OK" => pdp
    /\ \A i \in DOMAIN rx : rx[i].fresh /\ rx[i].text = "OK" => pdp
AnswersFit ==
  phase = "wait" /\ rebooted # "now" => AirAnswers /\ RxAnswers /\ LastCommand /\ Activates

\* What the driver knows of the context: the last command before it asks leaves the line
\* silent; while it asks, a status on its way or read is that of a context nothing is about to
\* deactivate; and behind a successful AT+QIACT it is active and stays so.
PdpFollowed ==
  rebooted # "now" /\ ~misread =>
    /\ d.at = "qicsgp" /\ phase = "done" /\ out = "ok" => Silent
    /\ d.at \in Asking => NoDeact /\ (HasPdp(air) \/ HasPdp(rx) \/ "PDP" \in seen => pdp)
    /\ d.at \in Acts /\ phase = "done" /\ out = "ok" => pdp /\ NoDeact
    /\ d.at = "cgpaddr" \/ stackReady => pdp /\ NoDeact

Commands == {Exchange[p].cmd : p \in DOMAIN Exchange}

\* Inductive together with MBInv.
PdpInv ==
  cmds \in Seq(Commands) /\ AnswersFit /\ PdpFollowed /\ (stackReady => d.at = "off")

\* Nothing to do is a list of commands.
LEMMA EmptyCommands == <<>> \in Seq(Commands)
OBVIOUS

\* What the exchanges around the context send, and what ends them well.
LEMMA ExchangeCommands ==
  /\ \A p \in Asking \cup {"cgpaddr"} : Exchange[p].cmd # "QIDEACT"
  /\ \A p \in Acts : Exchange[p].cmd = "QIACT" /\ Exchange[p].ok = {"OK"}
  /\ Exchange["qicsgp"].ok = {"OK"}
<1>1. \A p \in Acts : Exchange[p].cmd = "QIACT" /\ Exchange[p].ok = {"OK"}
  BY DEF Acts, Exchange, X
<1>2. \A p \in Asking \cup {"cgpaddr"} : Exchange[p].cmd # "QIDEACT"
  BY DEF Asking, Exchange, X
<1>3. Exchange["qicsgp"].ok = {"OK"} BY DEF Exchange, X
<1>4. QED BY <1>1, <1>2, <1>3

\* Nothing is known before the first call.
LEMMA PdpInitInv == MBInit => PdpInv
<1> SUFFICES ASSUME MBInit PROVE PdpInv
  OBVIOUS
<1>1. cmds = <<>> /\ phase = "idle" /\ d.at = "off"
  BY Zenon DEF MBInit, AtInit, Off
<1>2. ~stackReady BY Zenon DEF MBInit
<1>3. QED BY <1>1, <1>2 DEF PdpInv, AnswersFit, PdpFollowed, Asking, Acts

----
(* The driver and the context *)

\* A decision: it must not lead to an exchange around the context that knows too little.
LEMMA MovesFollow ==
  ASSUME PdpInv, NEW l, Moves(l), UNCHANGED modemVars,
         rebooted # "now" /\ ~misread =>
           /\ l.at \in Asking => NoDeact /\ (HasPdp(air) \/ HasPdp(rx) => pdp)
           /\ l.at = "cgpaddr" \/ stackReady' => pdp /\ NoDeact,
         stackReady' => l.at = "off"
  PROVE  PdpInv'
<1>1. /\ d' = l /\ seen' = {} /\ air' = air /\ rx' = rx /\ cmds' = cmds /\ misread' = misread
      /\ phase' = (IF l.at \in {"off", "cycle"} THEN "idle" ELSE "send")
      /\ rebooted' = rebooted
  BY Zenon DEF Moves, modemVars
<1>2. phase' # "wait" /\ phase' # "done" BY <1>1
<1>3. pdp' = pdp BY Zenon DEF modemVars
<1>4. AnswersFit' BY <1>2 DEF AnswersFit
<1>5. NoDeact' = NoDeact /\ HasPdp(air)' = HasPdp(air) /\ HasPdp(rx)' = HasPdp(rx)
  BY <1>1 DEF NoDeact, HasPdp
<1>6. PdpFollowed' BY <1>1, <1>2, <1>3, <1>5 DEF PdpFollowed
<1>7. QED BY <1>1, <1>4, <1>6 DEF PdpInv

\* An exchange that is done is not the end of a call.
LEMMA DoneNotReady == ASSUME PdpInv, NEW point \in DOMAIN Exchange, Done(point) PROVE ~stackReady
BY PointNames DEF PdpInv, Done

\* Most decisions stay away from the context.
LEMMA EarlyFollows == PdpInv /\ EarlyMove => PdpInv'
<1> SUFFICES ASSUME PdpInv, EarlyMove PROVE PdpInv'
  OBVIOUS
<1>1. PICK point \in DOMAIN Exchange : Done(point) BY DEF EarlyMove
<1>2. PICK l \in Early : Moves(l) BY DEF EarlyMove
<1>3. UNCHANGED modemVars BY <1>1, Zenon DEF Done
<1>4. ~stackReady' BY <1>1, DoneNotReady, Zenon DEF EarlyMove
<1>5. l.at \notin Asking /\ l.at # "cgpaddr" BY DEF Early, Asking, Attached
<1>6. QED BY <1>2, <1>3, <1>4, <1>5, MovesFollow

\* Only a line that has fallen silent leads to the first question about the context.
LEMMA ConfigFollows == MBInv /\ PdpInv /\ ConfigEnds => PdpInv'
<1> SUFFICES ASSUME MBInv, PdpInv, ConfigEnds PROVE PdpInv'
  OBVIOUS
<1>1. d \in Locals BY DoneTypes
<1>2. CASE EarlyMove BY <1>2, EarlyFollows
<1>3. \A p \in Points : Goto(d, p).at = p BY <1>1 DEF Goto, Locals
<1>4. CASE Done("cgdcont") /\ Moves(Goto(d, "qicsgp")) /\ UNCHANGED <<verified, stackReady>>
  <2>1. UNCHANGED modemVars BY <1>4, Zenon DEF Done
  <2>2. ~stackReady' BY <1>4, DoneNotReady, PointNames, Zenon
  <2>3. Goto(d, "qicsgp").at = "qicsgp" BY <1>3, PointNames
  <2>4. "qicsgp" \notin Asking \cup {"cgpaddr"} BY DEF Asking
  <2>5. QED BY <1>4, <2>1, <2>2, <2>3, <2>4, MovesFollow
<1>5. CASE /\ Done("qicsgp") /\ out = "ok" /\ Moves(Goto(d, "query1"))
           /\ UNCHANGED <<verified, stackReady>>
  <2>1. UNCHANGED modemVars BY <1>5, Zenon DEF Done
  <2>2. ~stackReady' BY <1>5, DoneNotReady, PointNames, Zenon
  <2>3. Goto(d, "query1").at = "query1" BY <1>3, PointNames
  <2>4. rebooted # "now" /\ ~misread => Silent
    BY <1>5 DEF PdpInv, PdpFollowed, Done
  <2>5. Silent => NoDeact /\ ~HasPdp(air) /\ ~HasPdp(rx) BY DEF Silent, NoDeact, HasPdp
  <2>6. QED BY <1>5, <2>1, <2>2, <2>3, <2>4, <2>5, MovesFollow
<1>6. QED BY <1>2, <1>4, <1>5, ConfigSteps

\* The wait for registration is over.
LEMMA CeregFollows == MBInv /\ PdpInv /\ CeregEnds => PdpInv'
<1> SUFFICES ASSUME MBInv, PdpInv, CeregEnds PROVE PdpInv'
  OBVIOUS
<1>1. CASE EarlyMove BY <1>1, EarlyFollows
<1>2. CASE Done("cereg") /\ Moves(Goto(d, "cgdcont")) /\ UNCHANGED <<verified, stackReady>>
  <2>1. UNCHANGED modemVars BY <1>2, Zenon DEF Done
  <2>2. ~stackReady' BY <1>2, DoneNotReady, PointNames, Zenon
  <2>3. d \in Locals BY DoneTypes
  <2>4. Goto(d, "cgdcont").at = "cgdcont" BY <2>3, PointNames DEF Goto, Locals
  <2>5. "cgdcont" \notin Asking \cup {"cgpaddr"} BY DEF Asking
  <2>6. QED BY <1>2, <2>1, <2>2, <2>4, <2>5, MovesFollow
<1>3. QED BY <1>1, <1>2, CeregSteps

\* The driver goes on behind a context that is active, by its status or by the OK to
\* AT+QIACT.
LEMMA ActivationFollows == MBInv /\ PdpInv /\ PdpStepEnds => PdpInv'
<1> SUFFICES ASSUME MBInv, PdpInv, PdpStepEnds PROVE PdpInv'
  OBVIOUS
<1>1. PICK point \in {"query1", "act1", "query2", "deact", "act2"} : Done(point)
  BY Zenon DEF PdpStepEnds
<1>2. point \in DOMAIN Exchange BY PointNames
<1>3. /\ UNCHANGED modemVars /\ ~stackReady' /\ d.at = point /\ phase = "done"
  BY <1>1, <1>2, DoneNotReady, Zenon DEF Done, PdpStepEnds
<1>4. d \in Locals BY DoneTypes
<1>5. \A p \in Points : Goto(d, p).at = p BY <1>4 DEF Goto, Locals
<1>6. Asking \cup {"deact", "act2", "cgpaddr"} \subseteq Points BY PointNames DEF Asking
<1>7. ASSUME NEW p \in {"deact", "act2"}, Moves(Goto(d, p)) PROVE PdpInv'
  BY <1>3, <1>5, <1>6, <1>7, MovesFollow DEF Asking
<1>8. ASSUME NEW p \in {"act1", "query2"}, Moves(Goto(d, p)), d.at \in Asking PROVE PdpInv'
  <2>1. rebooted # "now" /\ ~misread => NoDeact /\ (HasPdp(air) \/ HasPdp(rx) => pdp)
    BY <1>8 DEF PdpInv, PdpFollowed
  <2>2. Goto(d, p).at = p /\ p # "cgpaddr" BY <1>5, <1>6 DEF Asking
  <2>3. QED BY <1>3, <1>8, <2>1, <2>2, MovesFollow
<1>9. ASSUME Moves(Goto(d, "cgpaddr")), out = "ok",
             d.at \in Acts \/ (d.at \in Asking /\ "PDP" \in seen)
      PROVE  PdpInv'
  <2>1. rebooted # "now" /\ ~misread => pdp /\ NoDeact
    BY <1>3, <1>9 DEF PdpInv, PdpFollowed
  <2>2. Goto(d, "cgpaddr").at = "cgpaddr" /\ "cgpaddr" \notin Asking
    BY <1>5, <1>6 DEF Asking
  <2>3. QED BY <1>3, <1>9, <2>1, <2>2, MovesFollow
<1>10. ASSUME Moves(Fails(d)) PROVE PdpInv'
  <2>1. Fails(d).at = "off" BY <1>4, FailsEarly
  <2>2. QED BY <1>3, <1>10, <2>1, MovesFollow DEF Asking
<1>11. CASE d.at \in {"query1", "query2"}
  <2>1. \/ Moves(Goto(d, "cgpaddr")) /\ out = "ok" /\ "PDP" \in seen
        \/ d.at = "query1" /\ Moves(Goto(d, "act1"))
        \/ d.at = "query2" /\ Moves(Goto(d, "deact"))
    BY <1>11, Zenon DEF PdpStepEnds, Done
  <2>2. d.at \in Asking BY <1>11 DEF Asking
  <2>3. QED BY <1>7, <1>8, <1>9, <2>1, <2>2
<1>12. CASE d.at \in {"act1", "act2", "deact"}
  <2>1. \/ Moves(Goto(d, "cgpaddr")) /\ out = "ok" /\ d.at \in {"act1", "act2"}
        \/ d.at = "act1" /\ Moves(Goto(d, "query2"))
        \/ Moves(Goto(d, "act2"))
        \/ Moves(Fails(d))
    BY <1>12, Zenon DEF PdpStepEnds, Done
  <2>2. d.at = "act1" => d.at \in Asking BY DEF Asking
  <2>3. QED BY <1>7, <1>8, <1>9, <1>10, <2>1, <2>2 DEF Acts
<1>13. QED BY <1>1, <1>3, <1>11, <1>12

\* The stack is ready.
LEMMA ReadyFollows == MBInv /\ PdpInv /\ BecomesReady => PdpInv'
<1> SUFFICES ASSUME MBInv, PdpInv, BecomesReady PROVE PdpInv'
  OBVIOUS
<1>1. UNCHANGED modemVars /\ d.at = "cgpaddr" /\ Moves(Fails(d))
  BY Zenon DEF BecomesReady, Done
<1>2. d \in Locals BY DoneTypes
<1>3. Fails(d).at = "off" BY <1>2, FailsEarly
<1>4. rebooted # "now" /\ ~misread => pdp /\ NoDeact BY <1>1 DEF PdpInv, PdpFollowed
<1>5. QED BY <1>1, <1>3, <1>4, MovesFollow DEF Asking

----
(* The link, the modem and the context *)

\* A restart of the modem in a call ends what is known of it.
LEMMA RestartFollows ==
  ASSUME PdpInv, rebooted' = "now", cmds' = <<>>, stackReady' => d'.at = "off"
  PROVE  PdpInv'
BY DEF PdpInv, AnswersFit, PdpFollowed

\* Power cycles.
LEMMA CycleFollows == PdpInv /\ PowerCycles => PdpInv'
<1> SUFFICES ASSUME PdpInv, PowerCycles PROVE PdpInv'
  OBVIOUS
<1>1. rebooted' = "now" /\ stackReady' = stackReady /\ d.at = "cycle" BY Zenon DEF PowerCycles
<1>2. cmds' = <<>> BY Zenon DEF PowerCycles, SaysReady
<1>3. ~stackReady BY <1>1 DEF PdpInv
<1>4. QED BY <1>1, <1>2, <1>3, RestartFollows

\* A new call.
LEMMA CallFollows == PdpInv /\ Called => PdpInv'
<1> SUFFICES ASSUME PdpInv, Called PROVE PdpInv'
  OBVIOUS
<1>1. phase' = "send" /\ cmds' = cmds /\ stackReady' = stackReady /\ ~stackReady
  BY Zenon DEF Called
<1>2. d'.at = "self" BY DEF Called, Off
<1>3. QED BY <1>1, <1>2 DEF PdpInv, AnswersFit, PdpFollowed, Asking, Acts

\* What stays the same during an exchange.
LEMMA LinkRests ==
  ASSUME PdpInv, LinkStep
  PROVE  /\ d.at \in DOMAIN Exchange /\ d' = d /\ pdp' = pdp /\ powered' = powered
         /\ rebooted' = rebooted /\ ~stackReady' /\ Heard' = Heard
<1>1. /\ d.at \in DOMAIN Exchange /\ d' = d /\ pdp' = pdp /\ powered' = powered
      /\ rebooted' = rebooted /\ stackReady' = stackReady
  BY Zenon DEF LinkStep, modemVars
<1>2. ~stackReady BY <1>1, PointNames DEF PdpInv
<1>3. Heard' = Heard BY <1>1 DEF Heard
<1>4. QED BY <1>1, <1>2, <1>3

\* Lines that are stale.
LEMMA StaleLines ==
  \A lines : /\ \A i \in DOMAIN Stale(lines) : ~Stale(lines)[i].fresh
             /\ Lines(lines) /\ HasPdp(Stale(lines)) => HasPdp(lines)
<1>1. \A line \in Line : [line EXCEPT !.fresh = FALSE].text = line.text BY DEF Line
<1>2. \A lines : Lines(lines) => \A i \in DOMAIN lines : lines[i] \in Line BY DEF Lines
<1>3. \A lines : \A i \in DOMAIN Stale(lines) : ~Stale(lines)[i].fresh
  <2>1. \A line : [line EXCEPT !.fresh = FALSE].fresh = FALSE
    OBVIOUS
  <2>2. QED BY <2>1, Zenon DEF Stale
<1>4. QED BY <1>1, <1>2, <1>3 DEF Stale, HasPdp

\* A command makes the lines before it stale.
LEMMA SendsFollow ==
  ASSUME MBInv, PdpInv, LinkStep, Sends(Exchange[d.at], Heard)
  PROVE  PdpInv'
<1> DEFINE x == Exchange[d.at]
<1>1. /\ phase' = "wait" /\ seen' = {} /\ misread' = misread /\ air' = Stale(air)
      /\ rx' = <<>> \/ rx' = Stale(rx)
      /\ cmds' = IF Heard THEN Append(cmds, x.cmd) ELSE cmds
  BY DEF Sends
<1>2. /\ d.at \in DOMAIN Exchange /\ d' = d /\ pdp' = pdp /\ rebooted' = rebooted
      /\ ~stackReady' /\ Heard' = Heard
  BY LinkRests
<1>3. x.cmd \in Commands /\ cmds \in Seq(Commands) BY <1>2, Zenon DEF Commands, PdpInv
<1>4. /\ \A i \in DOMAIN air' : ~air'[i].fresh
      /\ \A i \in DOMAIN rx' : ~rx'[i].fresh
      /\ HasPdp(air') => HasPdp(air)
      /\ HasPdp(rx') => HasPdp(rx)
  BY <1>1, StaleLines DEF MBInv, HasPdp
<1>5. cmds' \in Seq(Commands) BY <1>1, <1>3
<1>6. Heard => cmds'[Len(cmds')] = x.cmd BY <1>1, <1>3
<1>7. \A i \in DOMAIN cmds' : cmds'[i] = x.cmd \/ (i \in DOMAIN cmds /\ cmds'[i] = cmds[i])
  BY <1>1, <1>3
<1>8. LastCommand' BY <1>2, <1>6 DEF LastCommand
<1>9. AirAnswers' /\ RxAnswers' /\ Activates'
  BY <1>4 DEF AirAnswers, RxAnswers, Activates, Told
<1>10. AnswersFit' BY <1>8, <1>9 DEF AnswersFit
<1>11. d.at \in Asking \cup {"cgpaddr"} /\ NoDeact => NoDeact'
  BY <1>7, ExchangeCommands DEF NoDeact
<1>12. PdpFollowed' BY <1>1, <1>2, <1>4, <1>11 DEF PdpInv, PdpFollowed, HasPdp
<1>13. QED BY <1>2, <1>5, <1>10, <1>12 DEF PdpInv

\* A line that ends a wait well, and answers its command, leaves nothing behind it.
LEMMA ReadsFollow ==
  ASSUME MBInv, PdpInv, LinkStep, Reads(Exchange[d.at])
  PROVE  PdpInv'
<1> DEFINE x == Exchange[d.at]
           verdict == Verdict(x, Head(rx).text)
<1>1. /\ phase = "wait" /\ rx # <<>> /\ rx' = Tail(rx) /\ seen' = seen \cup {Head(rx).text}
      /\ cmds' = cmds /\ air' = air
      /\ misread' = (misread \/ (verdict \in {"ok", "eio"} /\ ~Head(rx).fresh))
      /\ IF verdict = "none" THEN UNCHANGED <<phase, try, out>> ELSE Ends(x, verdict)
  BY Zenon DEF Reads
<1>2. /\ d.at \in DOMAIN Exchange /\ d' = d /\ pdp' = pdp /\ rebooted' = rebooted
      /\ ~stackReady' /\ Heard' = Heard
  BY LinkRests
<1>3. /\ Head(rx) = rx[1] /\ 1 \in DOMAIN rx /\ Len(rx) \in Nat /\ Len(Tail(rx)) = Len(rx) - 1
      /\ \A i \in DOMAIN Tail(rx) : i + 1 \in DOMAIN rx /\ Tail(rx)[i] = rx[i + 1]
      /\ DOMAIN Tail(rx) \subseteq Nat
      /\ Len(rx) = 1 => Tail(rx) = <<>>
  BY <1>1 DEF MBInv, Lines
<1>4. ~misread' => ~misread /\ (verdict = "ok" => rx[1].fresh)
  BY <1>1, <1>3, Zenon
<1>5. phase' = "done" /\ out' = "ok" => verdict = "ok"
  BY <1>1 DEF Ends
<1>6. verdict = "ok" => Head(rx).text \in x.ok BY DEF Verdict
<1> HIDE DEF verdict
<1>7. ASSUME phase' = "done", out' = "ok", rebooted # "now", ~misread', x.ok = {"OK"}
      PROVE  Silent' /\ (d.at \in Acts => pdp)
  <2>1. rx[1].text = "OK" /\ rx[1].fresh BY <1>3, <1>4, <1>5, <1>6, <1>7
  <2>2. Told(rx[1]) /\ rx[1].text \in Final BY <2>1 DEF Told, Final
  <2>3. RxAnswers /\ Activates BY <1>1, <1>7 DEF PdpInv, AnswersFit
  <2>4. cmds = <<>> /\ Heard /\ 1 = Len(rx) /\ air = <<>> BY <1>3, <2>2, <2>3 DEF RxAnswers
  <2>5. Silent' BY <1>1, <1>3, <2>4 DEF Silent
  <2>6. d.at \in Acts => pdp BY <1>3, <2>1, <2>3, <2>4 DEF Activates
  <2>7. QED BY <2>5, <2>6
<1>8. AnswersFit'
  <2>1. SUFFICES ASSUME phase' = "wait", rebooted # "now" PROVE AnswersFit'
    BY <1>2 DEF AnswersFit
  <2>2. AirAnswers /\ RxAnswers /\ LastCommand /\ Activates
    BY <1>1, <2>1 DEF PdpInv, AnswersFit
  <2>3. AirAnswers' BY <1>1, <2>2 DEF AirAnswers
  <2>4. RxAnswers' BY <1>1, <1>2, <1>3, <2>2 DEF RxAnswers, Told
  <2>5. LastCommand' BY <1>1, <1>2, <2>2 DEF LastCommand
  <2>6. Activates' BY <1>1, <1>2, <1>3, <2>2 DEF Activates
  <2>7. QED BY <2>3, <2>4, <2>5, <2>6 DEF AnswersFit
<1>9. /\ NoDeact' = NoDeact /\ HasPdp(air)' = HasPdp(air)
      /\ HasPdp(rx') => HasPdp(rx)
      /\ "PDP" \in seen' => "PDP" \in seen \/ HasPdp(rx)
  BY <1>1, <1>3 DEF NoDeact, HasPdp
<1>10. Silent' => NoDeact' BY DEF Silent, NoDeact
<1>11. PdpFollowed'
  BY <1>2, <1>4, <1>7, <1>9, <1>10, ExchangeCommands DEF PdpInv, PdpFollowed, HasPdp
<1>12. QED BY <1>1, <1>2, <1>8, <1>11 DEF PdpInv

\* A deadline: what was on its way comes later, or never.
LEMMA TimeoutFollows ==
  ASSUME MBInv, PdpInv, LinkStep, TimesOut(Exchange[d.at])
  PROVE  PdpInv'
<1> DEFINE x == Exchange[d.at]
<1>1. /\ rx' = rx /\ seen' = seen /\ misread' = misread /\ Ends(x, "timeout")
      /\ \/ cmds' = cmds /\ air' = air
         \/ cmds' = <<>> /\ air' = <<>>
  BY Zenon DEF TimesOut
<1>2. /\ d' = d /\ pdp' = pdp /\ rebooted' = rebooted /\ ~stackReady'
  BY LinkRests
<1>3. phase' # "wait" /\ (phase' = "done" => out' # "ok") BY <1>1 DEF Ends
<1>4. AnswersFit' BY <1>3 DEF AnswersFit
<1>5. cmds' \in Seq(Commands)
  <2>1. cmds \in Seq(Commands) /\ <<>> \in Seq(Commands) BY Zenon, EmptyCommands DEF PdpInv
  <2>2. QED BY <1>1, <2>1, Zenon
<1>6. (NoDeact => NoDeact') /\ (HasPdp(air') => HasPdp(air))
  <2>1. CASE cmds' = cmds /\ air' = air BY <2>1 DEF NoDeact, HasPdp
  <2>2. CASE cmds' = <<>> /\ air' = <<>> BY <2>2 DEF NoDeact, HasPdp
  <2>3. QED BY <1>1, <2>1, <2>2
<1>7. PdpFollowed' BY <1>1, <1>2, <1>3, <1>6 DEF PdpInv, PdpFollowed, HasPdp
<1>8. QED BY <1>2, <1>4, <1>5, <1>7 DEF PdpInv

\* A line that arrives belongs to the command it was sent for.
LEMMA ArrivalFollows ==
  ASSUME MBInv, PdpInv, LineArrives
  PROVE  PdpInv'
<1>1. /\ air # <<>> /\ air' = Tail(air) /\ cmds' = cmds /\ phase' = phase /\ out' = out
      /\ seen' = seen /\ misread' = misread /\ d' = d /\ stackReady' = stackReady
      /\ pdp' = pdp /\ powered' = powered /\ rebooted' = rebooted
      /\ rx' = Append(rx, IF Heard THEN Head(air) ELSE [Head(air) EXCEPT !.text = "NOISE"])
  BY Zenon DEF LineArrives, Arrives, modemVars
<1>2. Heard' = Heard BY <1>1 DEF Heard
<1> DEFINE line == rx'[Len(rx) + 1]
<1>3. /\ air[1] \in Line /\ 1 \in DOMAIN air /\ Len(air) \in Nat /\ Len(Tail(air)) = Len(air) - 1
      /\ \A i \in DOMAIN Tail(air) : i + 1 \in DOMAIN air /\ Tail(air)[i] = air[i + 1]
      /\ DOMAIN Tail(air) \subseteq Nat /\ Head(air) = air[1]
      /\ Len(air) = 1 => Tail(air) = <<>>
  BY <1>1 DEF MBInv, Lines
<1>4. /\ Len(rx) \in Nat /\ Len(rx') = Len(rx) + 1 /\ DOMAIN rx' = DOMAIN rx \cup {Len(rx) + 1}
      /\ \A i \in DOMAIN rx : rx'[i] = rx[i]
      /\ line = IF Heard THEN air[1] ELSE [air[1] EXCEPT !.text = "NOISE"]
  BY <1>1, <1>3 DEF MBInv, Lines
<1> HIDE DEF line
<1>5. /\ line.text \in {air[1].text, "NOISE"} /\ line.fresh = air[1].fresh
      /\ Told(line) => Heard /\ air[1].fresh /\ line.text = air[1].text
  BY <1>3, <1>4 DEF Line, Told
<1>6. AnswersFit'
  <2>1. SUFFICES ASSUME phase = "wait", rebooted # "now" PROVE AnswersFit'
    BY <1>1 DEF AnswersFit
  <2>2. AirAnswers /\ RxAnswers /\ LastCommand /\ Activates
    BY <2>1 DEF PdpInv, AnswersFit
  <2>3. AirAnswers' BY <1>1, <1>3, <2>2 DEF AirAnswers
  <2>4. RxAnswers'
    <3>1. ASSUME NEW i \in DOMAIN rx, Told(rx[i])
          PROVE  cmds = <<>> /\ Heard /\ rx[i].text \notin Final
      BY <1>1, <2>2, <3>1 DEF RxAnswers
    <3>2. ASSUME Told(line)
          PROVE  /\ cmds = <<>> /\ Heard
                 /\ line.text \in Final => air' = <<>>
      BY <1>1, <1>3, <1>5, <2>2, <3>2 DEF AirAnswers
    <3>3. ASSUME NEW i \in DOMAIN rx', Told(rx'[i])
          PROVE  cmds' = <<>> /\ Heard' /\ (rx'[i].text \in Final => i = Len(rx') /\ air' = <<>>)
      BY <1>1, <1>2, <1>4, <3>1, <3>2, <3>3 DEF line
    <3>4. QED BY <3>3 DEF RxAnswers, Told
  <2>5. LastCommand' BY <1>1, <1>2, <2>2 DEF LastCommand
  <2>6. Activates'
    <3>1. ASSUME Heard, d.at \in Acts, line.fresh, line.text = "OK" PROVE pdp
      BY <1>3, <1>5, <2>2, <3>1 DEF Activates
    <3>2. QED BY <1>1, <1>2, <1>3, <1>4, <2>2, <3>1 DEF Activates, line
  <2>7. QED BY <2>3, <2>4, <2>5, <2>6 DEF AnswersFit
<1>7. /\ NoDeact' = NoDeact
      /\ HasPdp(air') => HasPdp(air)
      /\ HasPdp(rx') => HasPdp(rx) \/ HasPdp(air)
  BY <1>1, <1>3, <1>4, <1>5 DEF NoDeact, HasPdp, line
<1>8. Silent => FALSE BY <1>1 DEF Silent
<1>9. PdpFollowed' BY <1>1, <1>7, <1>8 DEF PdpInv, PdpFollowed, HasPdp
<1>10. QED BY <1>1, <1>6, <1>9 DEF PdpInv

\* What the modem answers, and what it does to the context.
LEMMA ExecutesAnswers ==
  ASSUME Executes
  PROVE  \E texts \in {<<"READY", "OK">>, <<"REG", "OK">>, <<"STAT", "OK">>, <<"PDP", "OK">>,
                      <<"OK">>, <<"ERROR">>} :
           /\ Answers(texts)
           /\ texts = <<"PDP", "OK">> => pdp
           /\ Head(cmds) = "QIACT" /\ texts = <<"OK">> => pdp'
           /\ Head(cmds) = "QIACT" => texts \in {<<"OK">>, <<"ERROR">>}
           /\ Head(cmds) # "QIDEACT" /\ pdp => pdp'
           /\ texts = <<"READY", "OK">> => Head(cmds) = "CPIN"
<1> DEFINE P(texts) ==
             /\ Answers(texts)
             /\ texts = <<"PDP", "OK">> => pdp
             /\ Head(cmds) = "QIACT" /\ texts = <<"OK">> => pdp'
             /\ Head(cmds) = "QIACT" => texts \in {<<"OK">>, <<"ERROR">>}
             /\ Head(cmds) # "QIDEACT" /\ pdp => pdp'
             /\ texts = <<"READY", "OK">> => Head(cmds) = "CPIN"
<1>1. CASE Head(cmds) = "CPIN" /\ Answers(<<"READY", "OK">>) /\ pdp' = pdp
  <2>1. P(<<"READY", "OK">>) BY <1>1
  <2>2. QED BY <2>1
<1>2. CASE /\ Head(cmds) = "CEREG" /\ pdp' = pdp
           /\ Answers(<<"REG", "OK">>) \/ Answers(<<"STAT", "OK">>)
  <2>1. P(<<"REG", "OK">>) \/ P(<<"STAT", "OK">>) BY <1>2
  <2>2. QED BY <2>1
<1>3. CASE /\ Head(cmds) = "QIACT?" /\ pdp' = pdp
           /\ (pdp /\ Answers(<<"PDP", "OK">>)) \/ Answers(<<"OK">>)
  <2>1. P(<<"PDP", "OK">>) \/ P(<<"OK">>) BY <1>3
  <2>2. QED BY <2>1
<1>4. CASE Head(cmds) # "QIACT" /\ Answers(<<"OK">>) /\ (Head(cmds) = "QIDEACT" \/ pdp' = pdp)
  <2>1. P(<<"OK">>) BY <1>4
  <2>2. QED BY <2>1
<1>5. CASE Answers(<<"OK">>) /\ pdp'
  <2>1. P(<<"OK">>) BY <1>5
  <2>2. QED BY <2>1
<1>6. CASE Answers(<<"ERROR">>) /\ pdp' = pdp
  <2>1. P(<<"ERROR">>) BY <1>6
  <2>2. QED BY <2>1
<1>7. \/ Head(cmds) = "CPIN" /\ Answers(<<"READY", "OK">>) /\ pdp' = pdp
      \/ /\ Head(cmds) = "CEREG" /\ pdp' = pdp
         /\ Answers(<<"REG", "OK">>) \/ Answers(<<"STAT", "OK">>)
      \/ /\ Head(cmds) = "QIACT?" /\ pdp' = pdp
         /\ (pdp /\ Answers(<<"PDP", "OK">>)) \/ Answers(<<"OK">>)
      \/ Head(cmds) # "QIACT" /\ Answers(<<"OK">>) /\ (Head(cmds) = "QIDEACT" \/ pdp' = pdp)
      \/ Answers(<<"OK">>) /\ pdp'
      \/ Answers(<<"ERROR">>) /\ pdp' = pdp
  BY SMT DEF Executes
<1>8. QED BY <1>1, <1>2, <1>3, <1>4, <1>5, <1>6, <1>7, Zenon

\* The modem carries out the oldest command: only the last one's answer is fresh.
LEMMA ExecutesFollow ==
  ASSUME MBInv, PdpInv, cmds # <<>>, Executes
  PROVE  PdpInv'
<1>1. PICK texts \in {<<"READY", "OK">>, <<"REG", "OK">>, <<"STAT", "OK">>, <<"PDP", "OK">>,
                      <<"OK">>, <<"ERROR">>} :
        /\ Answers(texts)
        /\ texts = <<"PDP", "OK">> => pdp
        /\ Head(cmds) = "QIACT" /\ texts = <<"OK">> => pdp'
        /\ Head(cmds) = "QIACT" => texts \in {<<"OK">>, <<"ERROR">>}
        /\ Head(cmds) # "QIDEACT" /\ pdp => pdp'
  BY ExecutesAnswers
<1>2. /\ rx' = rx /\ phase' = phase /\ out' = out /\ seen' = seen /\ misread' = misread
      /\ cmds' = Tail(cmds) /\ d' = d /\ powered' = powered /\ rebooted' = rebooted
      /\ stackReady' = stackReady
  BY <1>1, Zenon DEF Executes, Answers
<1>3. Heard' = Heard BY <1>2 DEF Heard
<1>4. /\ cmds \in Seq(Commands) /\ Len(cmds) \in Nat /\ Len(cmds) >= 1 /\ 1 \in DOMAIN cmds
      /\ Head(cmds) = cmds[1] /\ cmds' \in Seq(Commands) /\ Len(cmds') = Len(cmds) - 1
      /\ \A i \in DOMAIN cmds' : i + 1 \in DOMAIN cmds /\ cmds'[i] = cmds[i + 1]
      /\ Len(cmds) = 1 => cmds' = <<>>
      /\ cmds' # <<>> => cmds'[Len(cmds')] = cmds[Len(cmds)]
  BY <1>2 DEF PdpInv
<1>5. /\ DOMAIN texts = 1..Len(texts) /\ Len(texts) \in 1..2
      /\ \A i \in DOMAIN texts : texts[i] \in Final => i = Len(texts)
      /\ \A i \in DOMAIN texts : texts[i] = "PDP" => texts = <<"PDP", "OK">>
      /\ texts = <<"ERROR">> => \A i \in DOMAIN texts : texts[i] # "OK"
  <2>1. CASE texts \in {<<"READY", "OK">>, <<"REG", "OK">>, <<"STAT", "OK">>, <<"PDP", "OK">>}
    <3>1. PICK a \in {"READY", "REG", "STAT", "PDP"} : texts = <<a, "OK">> BY <2>1
    <3>2. DOMAIN texts = 1..2 /\ Len(texts) = 2 /\ texts[1] = a /\ texts[2] = "OK" BY <3>1
    <3>3. QED BY <3>1, <3>2 DEF Final
  <2>2. CASE texts \in {<<"OK">>, <<"ERROR">>}
    <3>1. PICK a \in {"OK", "ERROR"} : texts = <<a>> BY <2>2
    <3>2. DOMAIN texts = 1..1 /\ Len(texts) = 1 /\ texts[1] = a BY <3>1
    <3>3. QED BY <3>1, <3>2
  <2>3. QED BY <1>1, <2>1, <2>2
<1>6. air' = [i \in DOMAIN texts |-> [text |-> texts[i], fresh |-> Len(cmds) = 1]]
  BY <1>1 DEF Answers
<1>7. /\ DOMAIN air' = DOMAIN texts /\ Len(air') = Len(texts)
      /\ \A i \in DOMAIN air' : air'[i].text = texts[i] /\ air'[i].fresh = (Len(cmds) = 1)
  <2> DEFINE f == Len(cmds) = 1
  <2>1. air' = [i \in DOMAIN texts |-> [text |-> texts[i], fresh |-> f]] BY <1>6, Zenon
  <2> HIDE DEF f
  <2>2. DOMAIN air' = 1..Len(texts) BY <1>5, <2>1
  <2>3. Len(air') = Len(texts)
    <3>1. \A n \in Nat : \A g : g = [i \in 1..n |-> [text |-> texts[i], fresh |-> f]] => Len(g) = n
      OBVIOUS
    <3>2. Len(texts) \in Nat /\ DOMAIN texts = 1..Len(texts) BY <1>5
    <3>3. QED BY <2>1, <3>1, <3>2, Zenon
  <2>4. \A i \in 1..Len(texts) : air'[i].text = texts[i] /\ air'[i].fresh = f BY <1>5, <2>1
  <2>5. QED BY <1>5, <2>2, <2>3, <2>4 DEF f
<1>8. AnswersFit'
  <2>1. SUFFICES ASSUME phase = "wait", rebooted # "now" PROVE AnswersFit'
    BY <1>2 DEF AnswersFit
  <2>2. RxAnswers /\ LastCommand BY <2>1 DEF PdpInv, AnswersFit
  <2>3. AirAnswers' BY <1>4, <1>5, <1>7 DEF AirAnswers
  <2>4. \A i \in DOMAIN rx : ~Told(rx[i]) BY <2>2 DEF RxAnswers
  <2>5. RxAnswers' BY <1>2, <2>4 DEF RxAnswers, Told
  <2>6. LastCommand' BY <1>2, <1>3, <1>4, <2>2 DEF LastCommand
  <2>7. Activates'
    <3>1. ASSUME Heard, d.at \in Acts,
                 NEW i \in DOMAIN air', air'[i].fresh, air'[i].text = "OK"
          PROVE  pdp'
      <4>1. Len(cmds) = 1 /\ texts[i] = "OK" BY <1>7, <3>1
      <4>2. cmds[1] = "QIACT" BY <1>4, <2>2, <3>1, <4>1, ExchangeCommands DEF LastCommand
      <4>3. QED BY <1>1, <1>4, <1>5, <1>7, <3>1, <4>1, <4>2
    <3>2. ASSUME NEW i \in DOMAIN rx', rx'[i].fresh PROVE rx'[i].text # "OK"
      BY <1>2, <2>4, <3>2 DEF Told
    <3>3. QED BY <1>2, <1>3, <3>1, <3>2 DEF Activates
  <2>8. QED BY <2>3, <2>5, <2>6, <2>7 DEF AnswersFit
<1>9. NoDeact => Head(cmds) # "QIDEACT" /\ NoDeact' BY <1>4 DEF NoDeact
<1>10. HasPdp(air') => pdp BY <1>1, <1>5, <1>7 DEF HasPdp
<1>11. ~Silent BY DEF Silent
<1>12. PdpFollowed'
  BY <1>1, <1>2, <1>9, <1>10, <1>11 DEF PdpInv, PdpFollowed, HasPdp
<1>13. QED BY <1>2, <1>4, <1>8, <1>12 DEF PdpInv

\* Registration, and a restart of the modem.
LEMMA RegistersFollow == PdpInv /\ Registers => PdpInv'
<1> SUFFICES ASSUME PdpInv, Registers PROVE PdpInv'
  OBVIOUS
<1>1. UNCHANGED <<cmds, air, rx, phase, out, seen, misread, d, stackReady>>
  BY Zenon DEF Registers, atVars
<1>2. UNCHANGED <<powered, pdp, rebooted>> BY Zenon DEF Registers
<1>3. AnswersFit' = AnswersFit
  BY <1>1, <1>2 DEF AnswersFit, AirAnswers, RxAnswers, LastCommand, Activates, Heard
<1>4. PdpFollowed' = PdpFollowed BY <1>1, <1>2 DEF PdpFollowed, NoDeact, HasPdp, Silent
<1>5. QED BY <1>1, <1>3, <1>4 DEF PdpInv

LEMMA RestartsFollow == PdpInv /\ Restarts => PdpInv'
<1> SUFFICES ASSUME PdpInv, Restarts PROVE PdpInv'
  OBVIOUS
<1>1. rebooted' = "now" /\ stackReady' = stackReady /\ d' = d BY Zenon DEF Restarts
<1>2. cmds' = <<>> BY Zenon DEF Restarts, SaysReady
<1>3. stackReady => d.at = "off" BY DEF PdpInv
<1>4. QED BY <1>1, <1>2, <1>3, RestartFollows

\* Every step keeps what is known of the context.
LEMMA PdpStep == MBInv /\ PdpInv /\ [MBNext]_vars => PdpInv'
<1> SUFFICES ASSUME MBInv, PdpInv, [MBNext]_vars PROVE PdpInv'
  OBVIOUS
<1>1. CASE Called BY <1>1, CallFollows
<1>2. CASE DriverNext
  <2>1. CASE LinkStep
    BY <2>1, SendsFollow, ReadsFollow, TimeoutFollows, Zenon DEF LinkStep
  <2>2. CASE EarlyMove BY <2>2, EarlyFollows
  <2>3. QED
    BY <1>2, <2>1, <2>2, SelfTestIsEarly, HandshakeIsEarly, PostHandshakeIsEarly,
       RecoveryIsEarly, CycleFollows, ConfigFollows, CeregFollows, ActivationFollows,
       ReadyFollows, Zenon DEF DriverNext
<1>3. CASE ModemNext
  BY <1>3, ArrivalFollows, ExecutesFollow, RegistersFollow, RestartsFollow, Zenon DEF ModemNext
<1>4. CASE UNCHANGED vars
  <2>1. UNCHANGED <<cmds, air, rx, phase, out, seen, misread>> BY <1>4 DEF vars, atVars
  <2>2. UNCHANGED <<powered, pdp, rebooted, d, stackReady>> BY <1>4 DEF vars, modemVars
  <2>3. AnswersFit' = AnswersFit
    BY <2>1, <2>2 DEF AnswersFit, AirAnswers, RxAnswers, LastCommand, Activates, Heard
  <2>4. PdpFollowed' = PdpFollowed BY <2>1, <2>2 DEF PdpFollowed, NoDeact, HasPdp, Silent
  <2>5. QED BY <2>1, <2>2, <2>3, <2>4 DEF PdpInv
<1>5. QED BY <1>1, <1>2, <1>3, <1>4 DEF MBNext

----
\* What the driver knows of the context holds in every reachable state.
THEOREM PdpInvariance == MBSpec => []PdpInv
<1>1. PdpInv /\ (MBInv /\ MBInv') /\ [MBNext]_vars => PdpInv' BY PdpStep
<1>2. QED BY <1>1, PdpInitInv, MBInvariance, PTL DEF MBSpec

\* A stack that is ready has an active PDP context, unless the modem restarted in the call or
\* the answer to one command was taken for that to another: what is left of earlier exchanges
\* cannot deactivate it behind the driver (ec801e_ensure_pdp_activated).
THEOREM ContextIsActive == MBSpec => []PdpWhenReady
<1>1. PdpInv => PdpWhenReady BY DEF PdpInv, PdpFollowed, PdpWhenReady
<1>2. QED BY <1>1, PdpInvariance, PTL

----
(* What the exchanges leave on the line *)

\* The lines the driver has yet to read, in the order it will.
Owed == rx \o air

IsFinal(line) == line.text \in Final
Quiet == \A i \in DOMAIN Owed : ~IsFinal(Owed[i])
NoReady ==
  /\ \A i \in DOMAIN Owed : Owed[i].text # "READY"
  /\ \A i \in DOMAIN cmds : cmds[i] # "CPIN"

\* The answer to the command under way comes after everything else, and no reboot marker.
AnsweredLast ==
  /\ \A i, j \in DOMAIN Owed : i < j /\ Owed[i].fresh => Owed[j].fresh
  /\ \A i \in DOMAIN Owed : Owed[i].fresh => cmds = <<>>
  /\ \A i \in DOMAIN Owed : Owed[i].text # "RDY"

\* There is one end of an answer, or during a wait one that was left over and one that
\* answers; a command that was not executed takes the place of an end.
OneEach ==
  \A i, j \in DOMAIN Owed :
    /\ IsFinal(Owed[i]) /\ IsFinal(Owed[j])
    /\ phase = "wait" => Owed[i].fresh = Owed[j].fresh
    => i = j
FewCommands ==
  /\ Len(cmds) <= 2 /\ (phase # "wait" => Len(cmds) <= 1)
  /\ Quiet \/ cmds = <<>> \/ (phase = "wait" /\ Len(cmds) = 1)

\* The status of the SIM, which ends its wait before the end of the answer, comes behind the
\* end of another answer only while the SIM is asked for.
SimFirst ==
  /\ \A i, j \in DOMAIN Owed :
       j < i /\ Owed[i].text = "READY" /\ IsFinal(Owed[j]) =>
         phase = "wait" /\ d.at = "cpin" /\ Owed[i].fresh /\ ~Owed[j].fresh
  /\ \A i \in DOMAIN cmds :
       cmds[i] = "CPIN" =>
         (i = 1 /\ Quiet) \/ (phase = "wait" /\ d.at = "cpin" /\ i = Len(cmds))

\* Before the SIM is asked for, a handshake and ATE0 have used up what an earlier question
\* left.
SimGone ==
  /\ d.at = "ate0" \/ (d.at = "cpin" /\ phase = "send")
       \/ (d.at = "hs" /\ phase = "done" /\ out = "ok")
     => NoReady
  /\ d.at = "cpin" /\ phase = "wait" =>
       /\ \A i \in DOMAIN Owed : Owed[i].text = "READY" => Owed[i].fresh
       /\ \A i \in DOMAIN cmds : cmds[i] = "CPIN" => i = Len(cmds)

TidyLine == AnsweredLast /\ OneEach /\ FewCommands /\ SimFirst /\ SimGone

\* Inductive together with MBInv and PdpInv.
Tidy == late = 0 /\ rebooted = "no" => TidyLine

\* One sequence of lines behind another.
LEMMA Joined ==
  ASSUME NEW r \in Seq(Line), NEW a \in Seq(Line)
  PROVE  /\ r \o a \in Seq(Line)
         /\ DOMAIN (r \o a) = 1..(Len(r) + Len(a)) /\ Len(r) \in Nat /\ Len(a) \in Nat
         /\ \A i \in 1..Len(r) : (r \o a)[i] = r[i]
         /\ \A i \in 1..Len(a) : (r \o a)[Len(r) + i] = a[i]
         /\ \A i \in (Len(r) + 1)..(Len(r) + Len(a)) : (r \o a)[i] = a[i - Len(r)]
OBVIOUS

\* After a step every line owed is one that was owed before, at most garbled.
Shifted(k) ==
  \A i \in DOMAIN Owed' :
    i + k \in DOMAIN Owed /\ Owed'[i].text \in {Owed[i + k].text, "NOISE"}

\* Nothing new is owed then.
LEMMA ShiftedRests ==
  ASSUME NEW k \in Nat, Shifted(k)
  PROVE  /\ \A i \in DOMAIN Owed' : IsFinal(Owed'[i]) => IsFinal(Owed[i + k])
         /\ \A i \in DOMAIN Owed' : Owed'[i].text = "READY" => Owed[i + k].text = "READY"
         /\ \A i \in DOMAIN Owed' : Owed'[i].text = "RDY" => Owed[i + k].text = "RDY"
         /\ Quiet => Quiet'
BY DEF Shifted, IsFinal, Final, Quiet

\* A line that arrives, or is read and does not end the wait, changes nothing.
LEMMA ShiftKeepsTidy ==
  ASSUME TidyLine, NEW k \in Nat, Shifted(k), MBInv, MBInv',
         \A i \in DOMAIN Owed' : Owed'[i].fresh = Owed[i + k].fresh,
         cmds' = cmds, phase' = phase, d' = d, out' = out
  PROVE  TidyLine'
<1>1. /\ \A i \in DOMAIN Owed' : i + k \in DOMAIN Owed
      /\ DOMAIN Owed \subseteq Nat /\ DOMAIN Owed' \subseteq Nat
  <2>1. rx \in Seq(Line) /\ air \in Seq(Line) /\ rx' \in Seq(Line) /\ air' \in Seq(Line)
    BY DEF MBInv, Lines
  <2>2. DOMAIN Owed \subseteq Nat /\ DOMAIN Owed' \subseteq Nat
    <3>1. \A r, a \in Seq(Line) : DOMAIN (r \o a) \subseteq Nat BY Joined
    <3>2. QED BY <2>1, <3>1, Zenon DEF Owed
  <2>3. QED BY <2>2 DEF Shifted
<1>2. AnsweredLast'
  <2>1. ASSUME NEW i \in DOMAIN Owed', NEW j \in DOMAIN Owed', i < j, Owed'[i].fresh
        PROVE  Owed'[j].fresh
    <3>1. i + k < j + k BY <1>1, <2>1
    <3>2. QED BY <1>1, <2>1, <3>1 DEF TidyLine, AnsweredLast
  <2>2. \A i \in DOMAIN Owed' : Owed'[i].fresh => cmds' = <<>>
    BY <1>1 DEF TidyLine, AnsweredLast
  <2>3. \A i \in DOMAIN Owed' : Owed'[i].text # "RDY"
    BY <1>1, ShiftedRests DEF TidyLine, AnsweredLast
  <2>4. QED BY <2>1, <2>2, <2>3 DEF AnsweredLast
<1>3. OneEach'
  <2>1. ASSUME NEW i \in DOMAIN Owed', NEW j \in DOMAIN Owed',
               IsFinal(Owed'[i]), IsFinal(Owed'[j]),
               phase = "wait" => Owed'[i].fresh = Owed'[j].fresh
        PROVE  i = j
    <3>1. IsFinal(Owed[i + k]) /\ IsFinal(Owed[j + k]) BY <2>1, ShiftedRests
    <3>2. i + k = j + k BY <1>1, <2>1, <3>1 DEF TidyLine, OneEach
    <3>3. QED BY <1>1, <3>2
  <2>2. QED BY <2>1 DEF OneEach, IsFinal
<1>4. FewCommands' BY ShiftedRests DEF TidyLine, FewCommands
<1>5. SimFirst'
  <2>1. ASSUME NEW i \in DOMAIN Owed', NEW j \in DOMAIN Owed', j < i,
               Owed'[i].text = "READY", IsFinal(Owed'[j])
        PROVE  phase = "wait" /\ d.at = "cpin" /\ Owed'[i].fresh /\ ~Owed'[j].fresh
    <3>1. Owed[i + k].text = "READY" /\ IsFinal(Owed[j + k]) BY <2>1, ShiftedRests
    <3>2. j + k < i + k BY <1>1, <2>1
    <3>3. QED BY <1>1, <3>1, <3>2 DEF TidyLine, SimFirst
  <2>2. Quiet => Quiet' BY ShiftedRests
  <2>3. QED BY <2>1, <2>2 DEF TidyLine, SimFirst, IsFinal
<1>6. SimGone'
  <2>1. NoReady => NoReady' BY <1>1, ShiftedRests DEF NoReady
  <2>2. ASSUME d.at = "cpin", phase = "wait", NEW i \in DOMAIN Owed', Owed'[i].text = "READY"
        PROVE  Owed'[i].fresh
    BY <1>1, <2>2, ShiftedRests DEF TidyLine, SimGone
  <2>3. QED BY <2>1, <2>2 DEF TidyLine, SimGone
<1>7. QED BY <1>2, <1>3, <1>4, <1>5, <1>6 DEF TidyLine

\* Which lines end the exchanges, and which of them asks for the SIM.
LEMMA ExchangeEnds ==
  \A p \in DOMAIN Exchange :
    /\ "OK" \in Exchange[p].ok /\ Exchange[p].ok \subseteq {"OK", "ERROR", "READY"}
    /\ "READY" \in Exchange[p].ok => p = "cpin"
    /\ p = "hs" => Exchange[p].ok = {"OK"}
    /\ Exchange[p].cmd = "CPIN" => p = "cpin"
<1> SUFFICES ASSUME NEW p \in DOMAIN Exchange
    PROVE  /\ "OK" \in Exchange[p].ok /\ Exchange[p].ok \subseteq {"OK", "ERROR", "READY"}
           /\ "READY" \in Exchange[p].ok => p = "cpin"
           /\ p = "hs" => Exchange[p].ok = {"OK"}
           /\ Exchange[p].cmd = "CPIN" => p = "cpin"
  OBVIOUS
<1>1. CASE p \in {"self", "qiclose", "deact"}
  <2>1. Exchange[p].ok = {"OK", "ERROR"} /\ Exchange[p].cmd # "CPIN" BY <1>1 DEF Exchange, X
  <2>2. QED BY <1>1, <2>1
<1>2. CASE p = "cpin"
  <2>1. Exchange[p].ok = {"READY", "OK"} BY <1>2 DEF Exchange, X
  <2>2. QED BY <1>2, <2>1
<1>3. CASE p \in {"hs", "ate0", "cfun", "cereg1", "recfun", "recereg", "cgdcont", "qicsgp"}
  <2>1. Exchange[p].ok = {"OK"} /\ Exchange[p].cmd # "CPIN" BY <1>3 DEF Exchange, X
  <2>2. QED BY <2>1
<1>4. CASE p \in {"cereg", "query1", "act1", "query2", "act2", "cgpaddr"}
  <2>1. Exchange[p].ok = {"OK"} /\ Exchange[p].cmd # "CPIN" BY <1>4 DEF Exchange, X, QueryEnd
  <2>2. QED BY <2>1
<1>5. QED BY <1>1, <1>2, <1>3, <1>4, PointNames

\* Stale lines say what they said.
LEMMA StaleTexts ==
  ASSUME NEW s \in Seq(Line)
  PROVE  /\ Stale(s) \in Seq(Line) /\ Len(Stale(s)) = Len(s)
         /\ \A i \in 1..Len(s) : Stale(s)[i].text = s[i].text /\ ~Stale(s)[i].fresh
<1>1. \A line \in Line : /\ [line EXCEPT !.fresh = FALSE] \in Line
                         /\ [line EXCEPT !.fresh = FALSE].text = line.text
                         /\ ~[line EXCEPT !.fresh = FALSE].fresh
  BY DEF Line
<1>2. Len(s) \in Nat /\ DOMAIN s = 1..Len(s) /\ \A i \in 1..Len(s) : s[i] \in Line
  OBVIOUS
<1>3. Stale(s) = [i \in 1..Len(s) |-> [s[i] EXCEPT !.fresh = FALSE]]
  BY <1>2 DEF Stale
<1>4. \A i \in 1..Len(s) : /\ Stale(s)[i] \in Line /\ Stale(s)[i].text = s[i].text
                           /\ ~Stale(s)[i].fresh
  <2>1. \A i \in 1..Len(s) : Stale(s)[i] = [s[i] EXCEPT !.fresh = FALSE] BY <1>3
  <2>2. QED BY <1>1, <1>2, <2>1, Zenon
<1>5. Stale(s) \in [1..Len(s) -> Line]
  <2>1. \A i \in 1..Len(s) : [s[i] EXCEPT !.fresh = FALSE] \in Line BY <1>1, <1>2
  <2>2. QED BY <1>3, <2>1
<1>6. \A n \in Nat : \A f \in [1..n -> Line] : f \in Seq(Line) /\ Len(f) = n
  OBVIOUS
<1>7. QED BY <1>2, <1>4, <1>5, <1>6

\* What is owed when a command goes out, all of it stale.
LEMMA SendsShift ==
  ASSUME MBInv, NEW x, Sends(x, Heard)
  PROVE  /\ \E k \in Nat : Shifted(k)
         /\ \A i \in DOMAIN Owed' : ~Owed'[i].fresh
<1>1. air' = Stale(air) /\ (rx' = <<>> \/ rx' = Stale(rx)) BY DEF Sends
<1>2. /\ air \in Seq(Line) /\ rx \in Seq(Line) /\ air' \in Seq(Line) /\ rx' \in Seq(Line)
      /\ Len(air') = Len(air) /\ Len(rx) \in Nat /\ Len(air) \in Nat
      /\ \A i \in 1..Len(air) : air'[i].text = air[i].text /\ ~air'[i].fresh
  <2>1. air \in Seq(Line) /\ rx \in Seq(Line) BY DEF MBInv, Lines
  <2>2. /\ air' \in Seq(Line) /\ Len(air') = Len(air)
        /\ \A i \in 1..Len(air) : air'[i].text = air[i].text /\ ~air'[i].fresh
    BY <1>1, <2>1, StaleTexts, Zenon
  <2>3. rx' \in Seq(Line)
    <3>1. <<>> \in Seq(Line) OBVIOUS
    <3>2. QED BY <1>1, <2>1, <3>1, StaleTexts, Zenon
  <2>4. QED BY <2>1, <2>2, <2>3
<1>3. /\ DOMAIN Owed = 1..(Len(rx) + Len(air)) /\ DOMAIN Owed' = 1..(Len(rx') + Len(air))
      /\ \A i \in 1..Len(rx) : Owed[i] = rx[i]
      /\ \A i \in 1..Len(air) : Owed[Len(rx) + i] = air[i]
      /\ \A i \in 1..Len(rx') : Owed'[i] = rx'[i]
      /\ \A i \in (Len(rx') + 1)..(Len(rx') + Len(air)) : Owed'[i] = air'[i - Len(rx')]
  <2>1. /\ DOMAIN Owed = 1..(Len(rx) + Len(air))
        /\ \A i \in 1..Len(rx) : Owed[i] = rx[i]
        /\ \A i \in 1..Len(air) : Owed[Len(rx) + i] = air[i]
    BY <1>2, Joined, Zenon DEF Owed
  <2>2. /\ DOMAIN Owed' = 1..(Len(rx') + Len(air'))
        /\ \A i \in 1..Len(rx') : Owed'[i] = rx'[i]
        /\ \A i \in (Len(rx') + 1)..(Len(rx') + Len(air')) : Owed'[i] = air'[i - Len(rx')]
    BY <1>2, Joined, Zenon DEF Owed
  <2>3. QED BY <1>2, <2>1, <2>2
<1>4. CASE rx' = <<>>
  <2>1. Len(rx') = 0 BY <1>4
  <2>2. \A i \in DOMAIN Owed' : i \in 1..Len(air) /\ Owed'[i] = air'[i] BY <1>2, <1>3, <2>1
  <2>3. \A i \in 1..Len(air) : i + Len(rx) \in DOMAIN Owed /\ Owed[i + Len(rx)] = air[i]
    BY <1>2, <1>3
  <2>4. Shifted(Len(rx)) BY <1>2, <2>2, <2>3 DEF Shifted
  <2>5. QED BY <1>2, <2>2, <2>4
<1>5. CASE rx' = Stale(rx)
  <2>1. /\ Len(rx') = Len(rx)
        /\ \A i \in 1..Len(rx) : rx'[i].text = rx[i].text /\ ~rx'[i].fresh
    BY <1>2, <1>5, StaleTexts
  <2>2. ASSUME NEW i \in DOMAIN Owed'
        PROVE  i \in DOMAIN Owed /\ Owed'[i].text = Owed[i].text /\ ~Owed'[i].fresh
    <3>1. CASE i <= Len(rx) BY <1>2, <1>3, <2>1, <2>2, <3>1
    <3>2. CASE i > Len(rx)
      <4>1. i - Len(rx) \in 1..Len(air) /\ Owed'[i] = air'[i - Len(rx)]
        BY <1>2, <1>3, <2>1, <2>2, <3>2
      <4>2. Owed[Len(rx) + (i - Len(rx))] = air[i - Len(rx)] BY <1>3, <4>1
      <4>3. Len(rx) + (i - Len(rx)) = i BY <1>2, <1>3, <2>2
      <4>4. QED BY <1>2, <1>3, <2>1, <2>2, <4>1, <4>2, <4>3
    <3>3. QED BY <1>2, <1>3, <2>2, <3>1, <3>2
  <2>3. \A i \in DOMAIN Owed' : i + 0 = i BY <1>2, <1>3, <2>1
  <2>4. Shifted(0) BY <2>2, <2>3 DEF Shifted
  <2>5. QED BY <2>2, <2>4
<1>6. QED BY <1>1, <1>4, <1>5

\* A command goes out behind what was left.
LEMMA SendsTidy ==
  ASSUME MBInv, MBInv', PdpInv, TidyLine, LinkStep, Sends(Exchange[d.at], Heard)
  PROVE  TidyLine'
<1> DEFINE x == Exchange[d.at]
<1>1. /\ phase = "send" /\ phase' = "wait" /\ d' = d /\ d.at \in DOMAIN Exchange
      /\ cmds' = (IF Heard THEN Append(cmds, x.cmd) ELSE cmds)
  BY Zenon, LinkRests DEF Sends
<1>2. PICK k \in Nat : Shifted(k) BY SendsShift
<1>3. /\ \A i \in DOMAIN Owed' : ~Owed'[i].fresh
      /\ \A i \in DOMAIN Owed' : i + k \in DOMAIN Owed
      /\ DOMAIN Owed \subseteq Nat /\ DOMAIN Owed' \subseteq Nat
  <2>1. rx \in Seq(Line) /\ air \in Seq(Line) /\ rx' \in Seq(Line) /\ air' \in Seq(Line)
    BY DEF MBInv, Lines
  <2>2. DOMAIN Owed \subseteq Nat /\ DOMAIN Owed' \subseteq Nat
    <3>1. \A r, a \in Seq(Line) : DOMAIN (r \o a) \subseteq Nat BY Joined
    <3>2. QED BY <2>1, <3>1, Zenon DEF Owed
  <2>3. QED BY <1>2, <2>2, SendsShift DEF Shifted
<1>4. /\ cmds \in Seq(Commands) /\ Len(cmds) \in Nat /\ x.cmd \in Commands
      /\ x.cmd = "CPIN" => d.at = "cpin"
  <2>1. cmds \in Seq(Commands) /\ x.cmd \in Commands BY <1>1, Zenon DEF PdpInv, Commands
  <2>2. x.cmd = "CPIN" => d.at = "cpin" BY <1>1, ExchangeEnds, Zenon
  <2>3. QED BY <2>1, <2>2
<1>5. /\ cmds' = cmds \/ Len(cmds') = Len(cmds) + 1
      /\ Len(cmds') <= Len(cmds) + 1
      /\ \A i \in DOMAIN cmds' : \/ i \in DOMAIN cmds /\ cmds'[i] = cmds[i]
                                 \/ i = Len(cmds') /\ cmds'[i] = x.cmd
  BY <1>1, <1>4
<1> HIDE DEF x
<1>6. AnsweredLast' BY <1>2, <1>3, ShiftedRests DEF TidyLine, AnsweredLast
<1>7. OneEach'
  <2>1. ASSUME NEW i \in DOMAIN Owed', NEW j \in DOMAIN Owed',
               IsFinal(Owed'[i]), IsFinal(Owed'[j])
        PROVE  i = j
    <3>1. IsFinal(Owed[i + k]) /\ IsFinal(Owed[j + k]) BY <1>2, <2>1, ShiftedRests
    <3>2. i + k = j + k BY <1>1, <1>3, <2>1, <3>1 DEF TidyLine, OneEach
    <3>3. QED BY <1>3, <3>2
  <2>2. QED BY <2>1 DEF OneEach, IsFinal
<1>8. FewCommands'
  <2>1. Quiet => Quiet' BY <1>2, ShiftedRests
  <2>2. Len(cmds) <= 1 /\ (Quiet \/ cmds = <<>>) BY <1>1 DEF TidyLine, FewCommands
  <2>3. cmds = <<>> => cmds' = <<>> \/ Len(cmds') = 1 BY <1>5
  <2>4. QED BY <1>1, <1>4, <1>5, <2>1, <2>2, <2>3 DEF FewCommands
<1>9. SimFirst'
  <2>1. ASSUME NEW i \in DOMAIN Owed', NEW j \in DOMAIN Owed', j < i,
               Owed'[i].text = "READY", IsFinal(Owed'[j])
        PROVE  FALSE
    <3>1. Owed[i + k].text = "READY" /\ IsFinal(Owed[j + k]) BY <1>2, <2>1, ShiftedRests
    <3>2. j + k < i + k BY <1>3, <2>1
    <3>3. QED BY <1>1, <1>3, <3>1, <3>2 DEF TidyLine, SimFirst
  <2>2. ASSUME NEW i \in DOMAIN cmds', cmds'[i] = "CPIN"
        PROVE  (i = 1 /\ Quiet') \/ (d.at = "cpin" /\ i = Len(cmds'))
    <3>1. Quiet => Quiet' BY <1>2, ShiftedRests
    <3>2. QED BY <1>1, <1>4, <1>5, <2>2, <3>1 DEF TidyLine, SimFirst
  <2>3. QED BY <1>1, <2>1, <2>2 DEF SimFirst, IsFinal
<1>10. SimGone'
  <2>1. ASSUME d.at \in {"ate0", "cpin"}
        PROVE  /\ \A i \in DOMAIN Owed' : Owed'[i].text # "READY"
               /\ \A i \in DOMAIN cmds' : cmds'[i] = "CPIN" => d.at = "cpin" /\ i = Len(cmds')
    <3>1. NoReady BY <1>1, <2>1 DEF TidyLine, SimGone
    <3>2. QED BY <1>2, <1>3, <1>4, <1>5, <3>1, ShiftedRests DEF NoReady
  <2>2. QED BY <1>1, <2>1 DEF SimGone, NoReady
<1>11. QED BY <1>6, <1>7, <1>8, <1>9, <1>10 DEF TidyLine

\* A wait takes the first line that is owed.
LEMMA ReadsShift ==
  ASSUME MBInv, NEW x, Reads(x)
  PROVE  /\ Shifted(1) /\ 1 \in DOMAIN Owed /\ Owed[1] = Head(rx)
         /\ \A i \in DOMAIN Owed' : Owed'[i] = Owed[i + 1]
         /\ DOMAIN Owed \subseteq Nat \ {0} /\ DOMAIN Owed' \subseteq Nat \ {0}
<1>1. rx \in Seq(Line) /\ air \in Seq(Line) /\ rx # <<>> /\ rx' = Tail(rx) /\ air' = air
  BY Zenon DEF MBInv, Lines, Reads
<1>2. /\ rx' \in Seq(Line) /\ Len(rx) \in Nat \ {0} /\ Len(air) \in Nat
      /\ Len(rx') = Len(rx) - 1 /\ Head(rx) = rx[1]
      /\ \A i \in 1..Len(rx') : rx'[i] = rx[i + 1]
  BY <1>1
<1>3. /\ DOMAIN Owed = 1..(Len(rx) + Len(air))
      /\ \A i \in 1..Len(rx) : Owed[i] = rx[i]
      /\ \A i \in (Len(rx) + 1)..(Len(rx) + Len(air)) : Owed[i] = air[i - Len(rx)]
  BY <1>1, Joined, Zenon DEF Owed
<1>4. /\ DOMAIN Owed' = 1..(Len(rx') + Len(air))
      /\ \A i \in 1..Len(rx') : Owed'[i] = rx'[i]
      /\ \A i \in (Len(rx') + 1)..(Len(rx') + Len(air)) : Owed'[i] = air[i - Len(rx')]
  <2>1. Owed' = rx' \o air BY <1>1, Zenon DEF Owed
  <2> DEFINE joined == rx' \o air
  <2>2. /\ DOMAIN joined = 1..(Len(rx') + Len(air))
        /\ \A i \in 1..Len(rx') : joined[i] = rx'[i]
        /\ \A i \in (Len(rx') + 1)..(Len(rx') + Len(air)) : joined[i] = air[i - Len(rx')]
    BY <1>1, <1>2, Joined, Zenon
  <2> HIDE DEF joined
  <2>3. Owed' = joined BY <2>1 DEF joined
  <2>4. QED BY <2>2, <2>3, Zenon
<1>5. ASSUME NEW i \in DOMAIN Owed' PROVE i + 1 \in DOMAIN Owed /\ Owed'[i] = Owed[i + 1]
  <2>1. i \in 1..(Len(rx') + Len(air)) /\ i + 1 \in 1..(Len(rx) + Len(air))
    BY <1>2, <1>4, <1>5
  <2>2. CASE i <= Len(rx') BY <1>2, <1>3, <1>4, <2>1, <2>2
  <2>3. CASE i > Len(rx')
    <3>1. i - Len(rx') = (i + 1) - Len(rx) BY <1>2, <2>1
    <3>2. Owed'[i] = air[i - Len(rx')] BY <1>2, <1>4, <2>1, <2>3
    <3>3. Owed[i + 1] = air[(i + 1) - Len(rx)] BY <1>2, <1>3, <2>1, <2>3
    <3>4. QED BY <1>3, <2>1, <3>1, <3>2, <3>3
  <2>4. QED BY <1>2, <1>3, <2>1, <2>2, <2>3
<1>6. 1 \in DOMAIN Owed /\ Owed[1] = Head(rx) BY <1>2, <1>3
<1>7. DOMAIN Owed \subseteq Nat \ {0} /\ DOMAIN Owed' \subseteq Nat \ {0} BY <1>2, <1>3, <1>4
<1>8. QED BY <1>5, <1>6, <1>7 DEF Shifted

\* A line that ends a wait leaves at most what answers the command, complete or to come.
LEMMA ReadsTidy ==
  ASSUME MBInv, MBInv', PdpInv, TidyLine, LinkStep, Reads(Exchange[d.at])
  PROVE  TidyLine'
<1> DEFINE x == Exchange[d.at]
           verdict == Verdict(x, Head(rx).text)
<1>1. /\ phase = "wait" /\ cmds' = cmds /\ d' = d /\ d.at \in DOMAIN Exchange
      /\ IF verdict = "none" THEN UNCHANGED <<phase, try, out>> ELSE Ends(x, verdict)
  BY Zenon, LinkRests DEF Reads
<1>2. /\ Shifted(1) /\ 1 \in DOMAIN Owed /\ Owed[1] = Head(rx)
      /\ \A i \in DOMAIN Owed' : Owed'[i] = Owed[i + 1] /\ i + 1 \in DOMAIN Owed
      /\ DOMAIN Owed \subseteq Nat \ {0} /\ DOMAIN Owed' \subseteq Nat \ {0}
  BY ReadsShift DEF Shifted
<1>3. CASE verdict = "none"
  <2>1. phase' = phase /\ out' = out BY <1>1, <1>3
  <2>2. 1 \in Nat /\ \A i \in DOMAIN Owed' : Owed'[i].fresh = Owed[i + 1].fresh BY <1>2
  <2>3. QED BY <1>1, <1>2, <2>1, <2>2, ShiftKeepsTidy
<1>4. CASE verdict # "none"
  <2>1. Owed[1].text # "RDY" BY <1>2 DEF TidyLine, AnsweredLast
  <2>2. verdict \in {"ok", "eio"} /\ (verdict = "ok" <=> Owed[1].text \in x.ok)
        /\ (verdict = "eio" => Owed[1].text = "ERROR")
    <3>1. verdict = Verdict(x, Owed[1].text) BY <1>2
    <3> HIDE DEF verdict
    <3>2. QED BY <1>4, <2>1, <3>1 DEF Verdict
  <2>3. phase' = "done" /\ out' = verdict BY <1>1, <2>2 DEF Ends
  <2>4. IsFinal(Owed[1]) \/ (Owed[1].text = "READY" /\ d.at = "cpin")
    BY <1>1, <2>2, ExchangeEnds DEF IsFinal, Final
  <2>5. ~Owed[1].fresh => IsFinal(Owed[1])
    BY <1>1, <1>2, <2>4 DEF TidyLine, SimGone
  <2>6. ASSUME NEW i \in DOMAIN Owed', IsFinal(Owed[i + 1]) PROVE Owed[i + 1].fresh
    <3>1. i + 1 \in DOMAIN Owed /\ 1 < i + 1 BY <1>2
    <3>2. CASE Owed[1].fresh BY <1>2, <3>1, <3>2 DEF TidyLine, AnsweredLast
    <3>3. CASE ~Owed[1].fresh
      <4>1. SUFFICES ASSUME ~Owed[i + 1].fresh PROVE FALSE
        OBVIOUS
      <4>2. /\ Owed[1] \in Line /\ Owed[i + 1] \in Line
        <5>1. Owed \in Seq(Line) BY Joined, Zenon DEF Owed, MBInv, Lines
        <5>2. QED BY <1>2, <3>1, <5>1
      <4>3. Owed[1].fresh = Owed[i + 1].fresh BY <3>3, <4>1, <4>2 DEF Line
      <4>4. 1 = i + 1 BY <1>2, <2>5, <2>6, <3>1, <3>3, <4>3 DEF TidyLine, OneEach
      <4>5. QED BY <3>1, <4>4
    <3>4. QED BY <3>2, <3>3
  <2>7. AnsweredLast'
    <3>1. ASSUME NEW i \in DOMAIN Owed', NEW j \in DOMAIN Owed', i < j, Owed'[i].fresh
          PROVE  Owed'[j].fresh
      <4>1. i + 1 < j + 1 BY <1>2, <3>1
      <4>2. QED BY <1>2, <3>1, <4>1 DEF TidyLine, AnsweredLast
    <3>2. QED BY <1>1, <1>2, <3>1 DEF TidyLine, AnsweredLast
  <2>8. OneEach'
    <3>1. ASSUME NEW i \in DOMAIN Owed', NEW j \in DOMAIN Owed',
                 IsFinal(Owed'[i]), IsFinal(Owed'[j])
          PROVE  i = j
      <4>1. Owed[i + 1].fresh /\ Owed[j + 1].fresh BY <1>2, <2>6, <3>1
      <4>2. Owed[i + 1].fresh = Owed[j + 1].fresh
        <5>1. Owed \in Seq(Line) BY Joined, Zenon DEF Owed, MBInv, Lines
        <5>2. Owed[i + 1] \in Line /\ Owed[j + 1] \in Line BY <1>2, <5>1
        <5>3. QED BY <4>1, <5>2 DEF Line
      <4>3. i + 1 = j + 1 BY <1>2, <3>1, <4>2 DEF TidyLine, OneEach
      <4>4. QED BY <1>2, <4>3
    <3>2. QED BY <3>1 DEF OneEach, IsFinal
  <2>9. Quiet' \/ cmds = <<>>
    <3>1. SUFFICES ASSUME NEW i \in DOMAIN Owed', IsFinal(Owed'[i]) PROVE cmds = <<>>
      BY DEF Quiet, IsFinal
    <3>2. Owed[i + 1].fresh /\ i + 1 \in DOMAIN Owed BY <1>2, <2>6, <3>1
    <3>3. QED BY <3>2 DEF TidyLine, AnsweredLast
  <2>10. Len(cmds) <= 1 /\ cmds \in Seq(Commands)
    <3>1. cmds \in Seq(Commands) /\ Len(<<>>) = 0 BY Zenon, EmptyCommands DEF PdpInv
    <3>2. CASE Owed[1].fresh BY <1>2, <3>1, <3>2 DEF TidyLine, AnsweredLast
    <3>3. CASE ~Owed[1].fresh
      <4>1. ~Quiet BY <1>2, <2>5, <3>3 DEF Quiet
      <4>2. cmds = <<>> \/ Len(cmds) = 1 BY <4>1, Zenon DEF TidyLine, FewCommands
      <4>3. Len(cmds) = 0 \/ Len(cmds) = 1 BY <3>1, <4>2, Zenon
      <4>4. \A n \in {0, 1} : n <= 1 OBVIOUS
      <4>5. QED BY <3>1, <4>3, <4>4, Zenon
    <3>4. QED BY <3>2, <3>3
  <2>11. FewCommands' BY <1>1, <2>3, <2>9, <2>10 DEF FewCommands
  <2>12. SimFirst'
    <3>1. ASSUME NEW i \in DOMAIN Owed', NEW j \in DOMAIN Owed', j < i,
                 Owed'[i].text = "READY", IsFinal(Owed'[j])
          PROVE  FALSE
      <4>1. j + 1 < i + 1 BY <1>2, <3>1
      <4>2. ~Owed[j + 1].fresh BY <1>2, <3>1, <4>1 DEF TidyLine, SimFirst
      <4>3. QED BY <1>2, <2>6, <3>1, <4>2
    <3>2. \A i \in DOMAIN cmds : i = 1 /\ cmds # <<>> BY <2>10
    <3>3. QED BY <1>1, <2>9, <3>1, <3>2 DEF SimFirst, IsFinal
  <2>13. SimGone'
    <3>1. NoReady => NoReady' BY <1>1, <1>2 DEF NoReady
    <3>2. ASSUME d.at = "hs", verdict = "ok" PROVE NoReady'
      <4>1. IsFinal(Owed[1]) BY <2>4, <3>2
      <4>2. ASSUME NEW i \in DOMAIN Owed', Owed'[i].text = "READY" PROVE FALSE
        <5>1. 1 < i + 1 /\ i + 1 \in DOMAIN Owed BY <1>2
        <5>2. QED BY <1>2, <3>2, <4>1, <4>2, <5>1 DEF TidyLine, SimFirst
      <4>3. ~Quiet BY <1>2, <4>1 DEF Quiet
      <4>4. \A i \in DOMAIN cmds : cmds[i] # "CPIN" BY <3>2, <4>3 DEF TidyLine, SimFirst
      <4>5. QED BY <1>1, <4>2, <4>4 DEF NoReady
    <3>3. d.at = "ate0" => NoReady' BY <3>1 DEF TidyLine, SimGone
    <3>4. QED BY <1>1, <2>3, <3>2, <3>3 DEF SimGone
  <2>14. QED BY <2>7, <2>8, <2>11, <2>12, <2>13 DEF TidyLine
<1>5. QED BY <1>3, <1>4

\* A deadline that passes for good leaves nothing.
LEMMA TimeoutTidy ==
  ASSUME MBInv, TimesOut(Exchange[d.at]), late' = 0
  PROVE  TidyLine'
<1>1. late \in Nat BY LateAssumption DEF MBInv, MBTypeOK, AtTypeOK
<1>2. late' # late + 1 BY <1>1
<1>3. cmds' = <<>> /\ air' = <<>> /\ rx' = <<>> BY <1>2, Zenon DEF TimesOut
<1>4. Owed' = <<>> BY <1>3 DEF Owed
<1>5. DOMAIN Owed' = {} /\ DOMAIN cmds' = {} /\ Len(cmds') = 0 BY <1>3, <1>4
<1>6. NoReady' BY <1>5 DEF NoReady
<1>7. QED
  BY <1>3, <1>5, <1>6 DEF TidyLine, AnsweredLast, OneEach, FewCommands, SimFirst, SimGone

\* A line that arrives was owed before.
LEMMA ArrivalTidy ==
  ASSUME MBInv, MBInv', TidyLine, LineArrives
  PROVE  TidyLine'
<1>1. PICK line : /\ air # <<>> /\ air' = Tail(air) /\ rx' = Append(rx, line)
                  /\ line \in {Head(air), [Head(air) EXCEPT !.text = "NOISE"]}
  BY DEF LineArrives, Arrives
<1>2. cmds' = cmds /\ phase' = phase /\ d' = d /\ out' = out
  BY Zenon DEF LineArrives, Arrives
<1>3. /\ rx \in Seq(Line) /\ air \in Seq(Line) /\ rx' \in Seq(Line) /\ air' \in Seq(Line)
      /\ Len(rx) \in Nat /\ Len(air) \in Nat \ {0}
  BY <1>1 DEF MBInv, Lines
<1>4. line.text \in {air[1].text, "NOISE"} /\ line.fresh = air[1].fresh
  <2>1. Head(air) = air[1] /\ air[1] \in Line BY <1>1, <1>3
  <2>2. QED BY <1>1, <2>1 DEF Line
<1>5. /\ Len(rx') = Len(rx) + 1 /\ Len(air') = Len(air) - 1
      /\ \A i \in 1..Len(rx) : rx'[i] = rx[i]
      /\ rx'[Len(rx) + 1] = line
      /\ \A i \in 1..Len(air') : air'[i] = air[i + 1]
  <2>1. line \in Line
    <3>1. rx'[Len(rx) + 1] = line /\ Len(rx') = Len(rx) + 1 BY <1>1, <1>3
    <3>2. QED BY <1>3, <3>1
  <2>2. QED BY <1>1, <1>3, <2>1
<1>6. /\ DOMAIN Owed = 1..(Len(rx) + Len(air))
      /\ \A i \in 1..Len(rx) : Owed[i] = rx[i]
      /\ \A i \in (Len(rx) + 1)..(Len(rx) + Len(air)) : Owed[i] = air[i - Len(rx)]
  BY <1>3, Joined, Zenon DEF Owed
<1>7. /\ DOMAIN Owed' = 1..(Len(rx') + Len(air'))
      /\ \A i \in 1..Len(rx') : Owed'[i] = rx'[i]
      /\ \A i \in (Len(rx') + 1)..(Len(rx') + Len(air')) : Owed'[i] = air'[i - Len(rx')]
  BY <1>3, Joined, Zenon DEF Owed
<1>8. ASSUME NEW i \in DOMAIN Owed'
      PROVE  /\ i + 0 = i /\ i \in DOMAIN Owed
             /\ Owed'[i].text \in {Owed[i].text, "NOISE"} /\ Owed'[i].fresh = Owed[i].fresh
  <2>1. i \in DOMAIN Owed /\ i \in Nat \ {0} BY <1>3, <1>5, <1>6, <1>7, <1>8
  <2>2. CASE i <= Len(rx) BY <1>3, <1>5, <1>6, <1>7, <2>1, <2>2
  <2>3. CASE i = Len(rx) + 1
    <3>1. Owed'[i] = line BY <1>3, <1>5, <1>7, <2>1, <2>3
    <3>2. Owed[i] = air[1]
      <4>1. i - Len(rx) = 1 BY <1>3, <2>3
      <4>2. QED BY <1>3, <1>6, <2>1, <2>3, <4>1
    <3>3. QED BY <1>4, <2>1, <3>1, <3>2
  <2>4. CASE i > Len(rx) + 1
    <3>1. Owed'[i] = air'[i - Len(rx')] /\ i - Len(rx') \in 1..Len(air')
      <4>1. i \in (Len(rx') + 1)..(Len(rx') + Len(air')) /\ Len(air') \in Nat
        BY <1>3, <1>5, <1>7, <1>8, <2>1, <2>4
      <4>2. i - Len(rx') \in 1..Len(air') BY <1>3, <1>5, <2>1, <4>1
      <4>3. QED BY <1>7, <4>1, <4>2
    <3>2. (i - Len(rx')) + 1 = i - Len(rx) BY <1>3, <1>5, <2>1
    <3>3. Owed[i] = air[i - Len(rx)] BY <1>3, <1>6, <2>1, <2>4
    <3>4. QED BY <1>5, <2>1, <3>1, <3>2, <3>3
  <2>5. QED BY <1>3, <2>1, <2>2, <2>3, <2>4
<1>9. Shifted(0) BY <1>8 DEF Shifted
<1>10. \A i \in DOMAIN Owed' : Owed'[i].fresh = Owed[i + 0].fresh BY <1>8
<1>11. QED BY <1>2, <1>9, <1>10, ShiftKeepsTidy

\* An answer ends with its only end; the status of the SIM comes first.
LEMMA AnswerTexts ==
  ASSUME NEW texts \in {<<"READY", "OK">>, <<"REG", "OK">>, <<"STAT", "OK">>, <<"PDP", "OK">>,
                        <<"OK">>, <<"ERROR">>}
  PROVE  /\ DOMAIN texts = 1..Len(texts) /\ Len(texts) \in 1..2
         /\ \A i \in 1..Len(texts) : texts[i] \in Final <=> i = Len(texts)
         /\ \A i \in 1..Len(texts) :
              texts[i] = "READY" => texts = <<"READY", "OK">> /\ i # Len(texts)
         /\ \A i \in 1..Len(texts) : texts[i] # "RDY"
<1>1. CASE texts \in {<<"READY", "OK">>, <<"REG", "OK">>, <<"STAT", "OK">>, <<"PDP", "OK">>}
  <2>1. PICK a \in {"READY", "REG", "STAT", "PDP"} : texts = <<a, "OK">> BY <1>1
  <2>2. DOMAIN texts = 1..2 /\ Len(texts) = 2 /\ texts[1] = a /\ texts[2] = "OK" BY <2>1
  <2>3. a = "READY" => texts = <<"READY", "OK">> BY <2>1
  <2>4. QED BY <2>2, <2>3 DEF Final
<1>2. CASE texts \in {<<"OK">>, <<"ERROR">>}
  <2>1. PICK a \in {"OK", "ERROR"} : texts = <<a>> BY <1>2
  <2>2. DOMAIN texts = 1..1 /\ Len(texts) = 1 /\ texts[1] = a BY <2>1
  <2>3. QED BY <2>2 DEF Final
<1>3. QED BY <1>1, <1>2

\* The lines it is sent as: fresh, when no other command waits.
LEMMA AnswersAir ==
  ASSUME NEW texts, DOMAIN texts = 1..Len(texts), Len(texts) \in Nat, Answers(texts), Lines(air')
  PROVE  /\ Len(air') = Len(texts)
         /\ \A i \in 1..Len(texts) :
              air'[i].text = texts[i] /\ (air'[i].fresh <=> Len(cmds) = 1)
<1> DEFINE f == Len(cmds) = 1
<1>1. air' = [i \in 1..Len(texts) |-> [text |-> texts[i], fresh |-> f]]
  BY Zenon DEF Answers
<1> HIDE DEF f
<1>2. \A n \in Nat : \A g : g = [i \in 1..n |-> [text |-> texts[i], fresh |-> f]] => Len(g) = n
  OBVIOUS
<1>3. Len(air') = Len(texts) BY <1>1, <1>2, Zenon
<1>4. \A i \in 1..Len(texts) : air'[i].text = texts[i] /\ air'[i].fresh = f BY <1>1
<1>5. QED BY <1>3, <1>4 DEF f

\* What is owed when the modem has answered a command: all that was, stale, and the answer.
LEMMA ExecutesGrows ==
  ASSUME MBInv, MBInv', PdpInv, TidyLine, cmds # <<>>, Executes
  PROVE  \E m, last \in Nat :
           /\ m < last /\ DOMAIN Owed = 1..m /\ DOMAIN Owed' = 1..last
           /\ \A i \in 1..m : Owed'[i] = Owed[i] /\ ~Owed[i].fresh
           /\ \A i \in (m + 1)..last :
                /\ Owed'[i].fresh <=> Len(cmds) = 1
                /\ IsFinal(Owed'[i]) <=> i = last
                /\ Owed'[i].text # "RDY"
                /\ Owed'[i].text = "READY" => Head(cmds) = "CPIN" /\ i # last
<1>1. PICK texts \in {<<"READY", "OK">>, <<"REG", "OK">>, <<"STAT", "OK">>, <<"PDP", "OK">>,
                      <<"OK">>, <<"ERROR">>} :
        Answers(texts) /\ (texts = <<"READY", "OK">> => Head(cmds) = "CPIN")
  BY ExecutesAnswers
<1>2. /\ DOMAIN texts = 1..Len(texts) /\ Len(texts) \in Nat /\ Len(texts) \in 1..2
      /\ \A i \in 1..Len(texts) : texts[i] \in Final <=> i = Len(texts)
      /\ \A i \in 1..Len(texts) :
           texts[i] = "READY" => texts = <<"READY", "OK">> /\ i # Len(texts)
      /\ \A i \in 1..Len(texts) : texts[i] # "RDY"
  BY AnswerTexts
<1>3. air = <<>> /\ rx' = rx BY <1>1, Zenon DEF Answers
<1>4. rx \in Seq(Line) /\ air' \in Seq(Line) /\ Len(rx) \in Nat BY DEF MBInv, Lines
<1>5. /\ Len(air') = Len(texts)
      /\ \A i \in 1..Len(texts) :
           air'[i].text = texts[i] /\ (air'[i].fresh <=> Len(cmds) = 1)
  <2>1. Lines(air') BY <1>4 DEF Lines
  <2>2. QED BY <1>1, <1>2, <2>1, AnswersAir
<1>6. DOMAIN Owed = 1..Len(rx) /\ \A i \in 1..Len(rx) : Owed[i] = rx[i]
  <2>1. Owed = rx BY <1>3, <1>4 DEF Owed
  <2>2. QED BY <1>4, <2>1
<1>7. /\ DOMAIN Owed' = 1..(Len(rx) + Len(texts))
      /\ \A i \in 1..Len(rx) : Owed'[i] = rx[i]
      /\ \A i \in (Len(rx) + 1)..(Len(rx) + Len(texts)) : Owed'[i] = air'[i - Len(rx)]
  <2>1. Owed' = rx \o air' BY <1>3, Zenon DEF Owed
  <2>2. /\ DOMAIN (rx \o air') = 1..(Len(rx) + Len(air'))
        /\ \A i \in 1..Len(rx) : (rx \o air')[i] = rx[i]
        /\ \A i \in (Len(rx) + 1)..(Len(rx) + Len(air')) : (rx \o air')[i] = air'[i - Len(rx)]
    BY <1>4, Joined, Zenon
  <2>3. QED BY <1>5, <2>1, <2>2, Zenon
<1>8. \A i \in 1..Len(rx) : ~Owed[i].fresh
  BY <1>6 DEF TidyLine, AnsweredLast
<1>9. \A i \in (Len(rx) + 1)..(Len(rx) + Len(texts)) :
        i - Len(rx) \in 1..Len(texts) /\ (i = Len(rx) + Len(texts) <=> i - Len(rx) = Len(texts))
  <2>1. \A m, n \in Nat : \A i \in (m + 1)..(m + n) :
          i - m \in 1..n /\ (i = m + n <=> i - m = n)
    OBVIOUS
  <2>2. QED BY <1>2, <1>4, <2>1, Zenon
<1>10. ASSUME NEW i \in (Len(rx) + 1)..(Len(rx) + Len(texts))
       PROVE  /\ Owed'[i].fresh <=> Len(cmds) = 1
              /\ IsFinal(Owed'[i]) <=> i = Len(rx) + Len(texts)
              /\ Owed'[i].text # "RDY"
              /\ Owed'[i].text = "READY" => Head(cmds) = "CPIN" /\ i # Len(rx) + Len(texts)
  <2>1. PICK j \in 1..Len(texts) : j = i - Len(rx) /\ (i = Len(rx) + Len(texts) <=> j = Len(texts))
    BY <1>9
  <2>2. Owed'[i] = air'[j] BY <1>7, <1>10, <2>1
  <2>3. air'[j].text = texts[j] /\ (air'[j].fresh <=> Len(cmds) = 1) BY <1>5, <2>1
  <2>4. Owed'[i].fresh <=> Len(cmds) = 1 BY <2>2, <2>3
  <2>5. Owed'[i].text = texts[j] BY <2>2, <2>3
  <2>6. IsFinal(Owed'[i]) <=> i = Len(rx) + Len(texts) BY <1>2, <2>1, <2>5, Zenon DEF IsFinal
  <2>7. /\ Owed'[i].text # "RDY"
        /\ Owed'[i].text = "READY" => Head(cmds) = "CPIN" /\ i # Len(rx) + Len(texts)
    BY <1>1, <1>2, <2>1, <2>5, Zenon
  <2>8. QED BY <2>4, <2>6, <2>7
<1>11. Len(rx) + Len(texts) \in Nat /\ Len(rx) < Len(rx) + Len(texts)
  <2>1. \A m \in Nat, n \in 1..2 : m + n \in Nat /\ m < m + n OBVIOUS
  <2>2. QED BY <1>2, <1>4, <2>1, Zenon
<1>12. WITNESS Len(rx) \in Nat, Len(rx) + Len(texts) \in Nat
<1>13. QED BY <1>6, <1>7, <1>8, <1>10, <1>11

\* The modem answers one command: the place of the command is taken by the end of its answer.
LEMMA ExecutesTidy ==
  ASSUME MBInv, MBInv', PdpInv, TidyLine, cmds # <<>>, Executes
  PROVE  TidyLine'
<1>1. PICK m \in Nat, last \in Nat :
        /\ m < last /\ DOMAIN Owed = 1..m /\ DOMAIN Owed' = 1..last
        /\ \A i \in 1..m : Owed'[i] = Owed[i] /\ ~Owed[i].fresh
        /\ \A i \in (m + 1)..last :
             /\ Owed'[i].fresh <=> Len(cmds) = 1
             /\ IsFinal(Owed'[i]) <=> i = last
             /\ Owed'[i].text # "RDY"
             /\ Owed'[i].text = "READY" => Head(cmds) = "CPIN" /\ i # last
  BY ExecutesGrows
<1>2. phase' = phase /\ d' = d /\ out' = out /\ cmds' = Tail(cmds)
  BY Zenon DEF Executes, Answers
<1>3. PICK n \in Nat \ {0} :
        /\ n = Len(cmds) /\ DOMAIN cmds = 1..n /\ Head(cmds) = cmds[1]
        /\ Len(cmds') = n - 1 /\ DOMAIN cmds' = 1..(n - 1) /\ (n = 1 => cmds' = <<>>)
        /\ \A i \in 1..(n - 1) : cmds'[i] = cmds[i + 1]
  <2>1. cmds \in Seq(Commands) BY DEF PdpInv
  <2>2. QED BY <1>2, <2>1
<1>4. \A i \in 1..last : i \in 1..m \/ i \in (m + 1)..last BY <1>1
<1>5. n <= 2 /\ (phase # "wait" => n = 1) /\ (~Quiet => phase = "wait" /\ n = 1)
  BY <1>3 DEF TidyLine, FewCommands
<1>6. AnsweredLast'
  <2>1. ASSUME NEW i \in 1..last, NEW j \in 1..last, i < j, Owed'[i].fresh
        PROVE  Owed'[j].fresh
    <3>1. i \in (m + 1)..last BY <1>1, <1>4, <2>1
    <3>2. j \in (m + 1)..last BY <1>1, <2>1, <3>1
    <3>3. QED BY <1>1, <2>1, <3>1, <3>2
  <2>2. \A i \in 1..last : Owed'[i].fresh => n = 1 BY <1>1, <1>3, <1>4
  <2>3. \A i \in 1..last : Owed'[i].text # "RDY"
    BY <1>1, <1>4 DEF TidyLine, AnsweredLast
  <2>4. QED BY <1>1, <1>3, <2>1, <2>2, <2>3 DEF AnsweredLast
<1>7. ASSUME NEW i \in 1..last, IsFinal(Owed'[i])
      PROVE  i = last \/ (i \in 1..m /\ IsFinal(Owed[i]) /\ phase = "wait" /\ n = 1)
  <2>1. CASE i \in 1..m
    <3>1. Owed'[i] = Owed[i] BY <1>1, <2>1
    <3>2. IsFinal(Owed[i]) BY <1>7, <3>1
    <3>3. ~Quiet BY <1>1, <2>1, <3>2 DEF Quiet
    <3>4. QED BY <1>5, <2>1, <3>2, <3>3
  <2>2. CASE i \in (m + 1)..last BY <1>1, <1>7, <2>2
  <2>3. QED BY <1>4, <2>1, <2>2
<1>8. OneEach'
  <2>1. last \in (m + 1)..last /\ last \in 1..last BY <1>1
  <2>2. ASSUME NEW i \in 1..m, phase = "wait", n = 1, Owed'[i].fresh = Owed'[last].fresh
        PROVE  FALSE
    <3>1. Owed'[last].fresh BY <1>1, <1>3, <2>1, <2>2
    <3>2. ~Owed'[i].fresh BY <1>1
    <3>3. Owed'[last] \in Line /\ Owed'[i] \in Line
      <4>1. \A r, a \in Seq(Line) : r \o a \in Seq(Line) BY Joined
      <4>2. Owed' \in Seq(Line) BY <4>1, Zenon DEF Owed, MBInv, Lines
      <4>3. QED BY <1>1, <2>1, <4>2
    <3>4. QED BY <2>2, <3>1, <3>2, <3>3 DEF Line
  <2>3. ASSUME NEW i \in 1..last, NEW j \in 1..last, IsFinal(Owed'[i]), IsFinal(Owed'[j]),
               phase = "wait" => Owed'[i].fresh = Owed'[j].fresh
        PROVE  i = j
    <3>1. CASE i = last BY <1>7, <2>2, <2>3, <3>1
    <3>2. CASE j = last BY <1>7, <2>2, <2>3, <3>2
    <3>3. CASE i # last /\ j # last
      <4>1. i \in 1..m /\ j \in 1..m /\ IsFinal(Owed[i]) /\ IsFinal(Owed[j])
        BY <1>7, <2>3, <3>3
      <4>2. Owed[i].fresh = Owed[j].fresh
        <5>1. phase = "wait" BY <1>7, <2>3, <3>3
        <5>2. QED BY <1>1, <2>3, <4>1, <5>1
      <4>3. QED BY <1>1, <4>1, <4>2 DEF TidyLine, OneEach
    <3>4. QED BY <3>1, <3>2, <3>3
  <2>4. QED BY <1>1, <1>2, <2>3 DEF OneEach, IsFinal
<1>9. FewCommands'
  <2>1. n = 1 => cmds' = <<>> BY <1>3
  <2>2. n = 2 => phase' = "wait" /\ Len(cmds') = 1 BY <1>2, <1>3, <1>5
  <2>3. n = 1 \/ n = 2 BY <1>3, <1>5
  <2>4. Len(cmds') <= 1 BY <1>3, <2>3
  <2>5. QED BY <1>3, <2>1, <2>2, <2>3, <2>4 DEF FewCommands
<1>10. SimFirst'
  <2>1. ASSUME NEW i \in 1..last, NEW j \in 1..last, j < i,
               Owed'[i].text = "READY", IsFinal(Owed'[j])
        PROVE  phase = "wait" /\ d.at = "cpin" /\ Owed'[i].fresh /\ ~Owed'[j].fresh
    <3>1. j \in 1..m /\ IsFinal(Owed[j]) /\ n = 1 /\ ~Owed'[j].fresh BY <1>1, <1>7, <2>1
    <3>2. CASE i \in 1..m BY <1>1, <2>1, <3>1, <3>2 DEF TidyLine, SimFirst
    <3>3. CASE i \in (m + 1)..last
      <4>1. cmds[1] = "CPIN" /\ Owed'[i].fresh BY <1>1, <1>3, <2>1, <3>1, <3>3
      <4>2. ~Quiet /\ 1 \in DOMAIN cmds BY <1>1, <1>3, <3>1 DEF Quiet
      <4>3. phase = "wait" /\ d.at = "cpin" BY <4>1, <4>2 DEF TidyLine, SimFirst
      <4>4. QED BY <3>1, <4>1, <4>3
    <3>4. QED BY <1>4, <3>2, <3>3
  <2>2. ASSUME NEW i \in 1..(n - 1), cmds'[i] = "CPIN"
        PROVE  phase = "wait" /\ d.at = "cpin" /\ i = Len(cmds')
    <3>1. i + 1 \in DOMAIN cmds /\ cmds[i + 1] = "CPIN" /\ i + 1 # 1 BY <1>3, <2>2
    <3>2. phase = "wait" /\ d.at = "cpin" /\ i + 1 = Len(cmds)
      BY <3>1 DEF TidyLine, SimFirst
    <3>3. QED BY <1>3, <3>2
  <2>3. QED BY <1>1, <1>2, <1>3, <2>1, <2>2 DEF SimFirst, IsFinal
<1>11. SimGone'
  <2>1. ASSUME NoReady PROVE NoReady'
    <3>1. Head(cmds) # "CPIN" BY <1>3, <2>1 DEF NoReady
    <3>2. \A i \in 1..last : Owed'[i].text # "READY" BY <1>1, <1>4, <2>1, <3>1 DEF NoReady
    <3>3. \A i \in 1..(n - 1) : cmds'[i] # "CPIN" BY <1>3, <2>1 DEF NoReady
    <3>4. QED BY <1>1, <1>3, <3>2, <3>3 DEF NoReady
  <2>2. ASSUME d.at = "cpin", phase = "wait"
        PROVE  /\ \A i \in 1..last : Owed'[i].text = "READY" => Owed'[i].fresh
               /\ \A i \in 1..(n - 1) : cmds'[i] = "CPIN" => i = Len(cmds')
    <3>1. /\ \A i \in DOMAIN Owed : Owed[i].text = "READY" => Owed[i].fresh
          /\ \A i \in DOMAIN cmds : cmds[i] = "CPIN" => i = n
      BY <1>3, <2>2 DEF TidyLine, SimGone
    <3>2. ASSUME NEW i \in (m + 1)..last, Owed'[i].text = "READY" PROVE Owed'[i].fresh
      BY <1>1, <1>3, <3>1, <3>2
    <3>3. \A i \in 1..m : Owed'[i].text = "READY" => Owed'[i].fresh BY <1>1, <3>1
    <3>4. \A i \in 1..(n - 1) : cmds'[i] = "CPIN" => i = n - 1 BY <1>3, <3>1
    <3>5. QED BY <1>3, <1>4, <3>2, <3>3, <3>4
  <2>3. QED BY <1>1, <1>2, <1>3, <2>1, <2>2 DEF TidyLine, SimGone
<1>12. QED BY <1>6, <1>8, <1>9, <1>10, <1>11 DEF TidyLine

----
(* Which decisions lead to ATE0 and to the SIM *)

\* Changing another local leaves the point alone.
LEMMA PointKept ==
  \A l \in Locals : \A v :
    /\ [l EXCEPT !.hs = v].at = l.at /\ [l EXCEPT !.baud = v].at = l.at
    /\ [l EXCEPT !.anyRx = v].at = l.at /\ [l EXCEPT !.probing = v].at = l.at
    /\ [l EXCEPT !.post = v].at = l.at /\ [l EXCEPT !.hits = v].at = l.at
    /\ [l EXCEPT !.budget = v].at = l.at /\ [l EXCEPT !.probeFor = v].at = l.at
BY DEF Locals

\* So does changing two.
LEMMA PointKeptTwice ==
  \A l \in Locals : \A v, w :
    /\ [l EXCEPT !.postFor = v, !.post = w].at = l.at
    /\ [l EXCEPT !.hits = v, !.budget = w].at = l.at
BY DEF Locals

\* Locals that lead to neither.
Aside(l) == l.at \notin {"ate0", "cpin"}

\* Starting over, and the returns of the functions, lead aside.
LEMMA ReturnsAside ==
  \A l \in Locals :
    /\ \A p \in Points \ {"ate0", "cpin"} : Aside(Goto(l, p))
    /\ Aside(Fails(l)) /\ Aside(StartHandshake(l)) /\ Aside(PostAttempt(l))
    /\ \A for \in {"boot", "post", "recovery"} : Aside(StartProbe(l, for))
    /\ \A for \in {"boot", "hit", "recovery"} : Aside(StartPost(l, for))
    /\ Aside(PollAgain(l)) /\ Aside(PostSucceeds(l)) /\ Aside(PostRetries(l))
    /\ Aside(ProbeSucceeds(l)) /\ Aside(ProbeFails(l))
<1> SUFFICES ASSUME NEW l \in Locals
    PROVE  /\ \A p \in Points \ {"ate0", "cpin"} : Aside(Goto(l, p))
           /\ Aside(Fails(l)) /\ Aside(StartHandshake(l)) /\ Aside(PostAttempt(l))
           /\ \A for \in {"boot", "post", "recovery"} : Aside(StartProbe(l, for))
           /\ \A for \in {"boot", "hit", "recovery"} : Aside(StartPost(l, for))
           /\ Aside(PollAgain(l)) /\ Aside(PostSucceeds(l)) /\ Aside(PostRetries(l))
           /\ Aside(ProbeSucceeds(l)) /\ Aside(ProbeFails(l))
  OBVIOUS
<1>1. \A p \in Points : Goto(l, p).at = p /\ Goto(l, p) \in Locals
  BY DEF Goto, Locals
<1>2. \A p \in Points \ {"ate0", "cpin"} : Aside(Goto(l, p)) BY <1>1 DEF Aside
<1>3. {"hs", "cereg", "qiclose", "recfun", "cycle"} \subseteq Points \ {"ate0", "cpin"}
  BY PointNames
<1>4. Aside(Fails(l)) BY FailsEarly DEF Aside
<1>5. Early \subseteq Locals BY DEF Early
<1>6. StartHandshake(l) \in Locals /\ StartHandshake(l).at = "hs"
  <2>1. StartHandshake(l).at = Goto(l, "hs").at
    BY <1>1, <1>3, PointKept, Zenon DEF StartHandshake
  <2>2. QED BY <1>1, <1>3, <1>5, <2>1, HandshakeEarly
<1>7. PostAttempt(l) \in Locals /\ PostAttempt(l).at = "hs"
  <2>1. PostAttempt(l).at = StartHandshake(l).at BY <1>6, PointKept, Zenon DEF PostAttempt
  <2>2. QED BY <1>5, <1>6, <2>1, HandshakeEarly
<1>8. \A for : StartPost(l, for).at = "hs"
  <2>1. \A v, w : [PostAttempt(l) EXCEPT !.postFor = v, !.post = w].at = "hs"
    <3>1. SUFFICES ASSUME NEW v, NEW w
                   PROVE  [PostAttempt(l) EXCEPT !.postFor = v, !.post = w].at = "hs"
      OBVIOUS
    <3>2. [PostAttempt(l) EXCEPT !.postFor = v, !.post = w].at = PostAttempt(l).at
      BY <1>7, PointKeptTwice
    <3>3. QED BY <1>7, <3>2
  <2>2. QED BY <2>1, Zenon DEF StartPost
<1>9. \A for \in {"boot", "post", "recovery"} : StartProbe(l, for).at = "hs"
  BY HandshakeEarly
<1>10. /\ Aside(StartHandshake(l)) /\ Aside(PostAttempt(l)) /\ \A for : Aside(StartPost(l, for))
       /\ \A for \in {"boot", "post", "recovery"} : Aside(StartProbe(l, for))
  BY <1>6, <1>7, <1>8, <1>9 DEF Aside
<1>11. Aside(PollAgain(l))
  <2>1. \A v : [Goto(l, "cereg") EXCEPT !.budget = v].at = "cereg"
    <3>1. Goto(l, "cereg") \in Locals /\ Goto(l, "cereg").at = "cereg" BY <1>1, <1>3
    <3>2. QED BY <3>1, PointKept, Zenon
  <2>2. \A v : Aside([Goto(l, "cereg") EXCEPT !.budget = v]) BY <2>1 DEF Aside
  <2>3. QED BY <1>4, <2>2, Zenon DEF PollAgain
<1>12. /\ l.postFor \in {"boot", "hit", "recovery"} /\ l.probeFor \in {"boot", "post", "recovery"}
  BY DEF Locals
<1>13. Aside(PostSucceeds(l))
  <2>1. \A v, w : [Goto(l, "recfun") EXCEPT !.hits = v, !.budget = w].at = "recfun"
    <3>1. Goto(l, "recfun") \in Locals /\ Goto(l, "recfun").at = "recfun" BY <1>1, <1>3
    <3>2. QED BY <3>1, PointKeptTwice
  <2>2. Aside([Goto(l, "recfun") EXCEPT !.hits = 0, !.budget = PollLimit])
    <3>1. \A v, w : Aside([Goto(l, "recfun") EXCEPT !.hits = v, !.budget = w])
      BY <2>1 DEF Aside
    <3>2. QED BY <3>1, Zenon
  <2>3. Aside(Goto(l, "qiclose")) /\ Aside(Goto(l, "recfun")) BY <1>2, <1>3
  <2>4. QED BY <1>12, <2>2, <2>3 DEF PostSucceeds
<1>14. Aside(PostGivesUp(l))
  <2>1. Aside(Goto(l, "recfun")) BY <1>2, <1>3
  <2>2. QED BY <1>4, <1>11, <1>12, <2>1 DEF PostGivesUp
<1>15. Aside(PostRetries(l))
  <2>1. \A v : [PostAttempt(l) EXCEPT !.post = v].at = "hs" BY <1>7, PointKept, Zenon
  <2>2. \A v : Aside([PostAttempt(l) EXCEPT !.post = v]) BY <2>1 DEF Aside
  <2>3. QED BY <1>14, <2>2, Zenon DEF PostRetries
<1>16. Aside(ProbeSucceeds(l)) BY <1>10, <1>12, <1>15 DEF ProbeSucceeds
<1>17. Aside(ProbeFails(l))
  <2>1. Aside(Goto(l, "cycle")) BY <1>2, <1>3
  <2>2. QED BY <1>4, <1>11, <1>12, <1>15, <2>1 DEF ProbeFails
<1>18. QED BY <1>2, <1>4, <1>10, <1>11, <1>13, <1>15, <1>16, <1>17

\* A decision leads to ATE0 after a handshake that was answered, and to the SIM after ATE0.
Leads ==
  /\ phase = "done" /\ UNCHANGED modemVars
  /\ \E l : /\ Moves(l)
            /\ l.at = "ate0" => d.at = "hs" /\ out = "ok"
            /\ l.at = "cpin" => d.at = "ate0"

\* A decision that leads aside.
LEMMA AsideLeads ==
  ASSUME NEW point, Done(point), NEW l, Moves(l), Aside(l)
  PROVE  Leads
BY Zenon DEF Leads, Done, Aside

\* The self-test, the handshake and the commands behind it.
LEMMA HandshakeLeads ==
  MBInv /\ (SelfTestEnds \/ HandshakeEnds \/ Ate0Ends \/ CpinEnds) => Leads
<1> SUFFICES ASSUME MBInv, SelfTestEnds \/ HandshakeEnds \/ Ate0Ends \/ CpinEnds PROVE Leads
  OBVIOUS
<1>1. d \in Locals BY DoneTypes
<1>2. CASE SelfTestEnds
  <2> DEFINE l == [d EXCEPT !.anyRx = @ \/ seen # {}]
  <2>1. Done("self") /\ d.at = "self" BY <1>2, Zenon DEF SelfTestEnds, Done
  <2>2. l \in Locals /\ l.at = "self"
    <3>1. (d.anyRx \/ seen # {}) \in BOOLEAN OBVIOUS
    <3>2. \A b \in BOOLEAN : [d EXCEPT !.anyRx = b] \in Locals BY <1>1 DEF Locals
    <3>3. l \in Locals BY <3>1, <3>2, Zenon
    <3>4. l.at = d.at BY <1>1, PointKept, Zenon
    <3>5. QED BY <2>1, <3>3, <3>4
  <2> HIDE DEF l
  <2>3. Aside(StartPost(l, "boot")) /\ Aside(StartProbe(l, "boot")) /\ Aside(Fails(l))
    BY <2>2, ReturnsAside
  <2>4. Aside([l EXCEPT !.baud = @ + 1])
    <3>1. \A v : [l EXCEPT !.baud = v].at = "self" BY <2>2, PointKept, Zenon
    <3>2. \A v : Aside([l EXCEPT !.baud = v]) BY <3>1 DEF Aside
    <3>3. QED BY <3>2, Zenon
  <2>5. \/ Moves(StartPost(l, "boot")) \/ Moves([l EXCEPT !.baud = @ + 1])
        \/ Moves(StartProbe(l, "boot")) \/ Moves(Fails(l))
    BY <1>2, Zenon DEF SelfTestEnds, l
  <2>6. QED BY <2>1, <2>3, <2>4, <2>5, AsideLeads, Zenon
<1>3. CASE HandshakeEnds
  <2>1. Done("hs") /\ d.at = "hs" BY <1>3, Zenon DEF HandshakeEnds, Done
  <2>2. Aside(ProbeSucceeds(d)) /\ Aside(PostRetries(d)) /\ Aside(ProbeFails(d))
    BY <1>1, ReturnsAside
  <2>3. Aside([d EXCEPT !.hs = @ + 1])
    <3>1. \A v : [d EXCEPT !.hs = v].at = "hs" BY <1>1, <2>1, PointKept, Zenon
    <3>2. \A v : Aside([d EXCEPT !.hs = v]) BY <3>1 DEF Aside
    <3>3. QED BY <3>2, Zenon
  <2>4. Aside([StartHandshake(d) EXCEPT !.baud = @ + 1])
    <3>1. StartHandshake(d) \in Locals BY <1>1, HandshakeEarly DEF Early
    <3>2. \A v : [StartHandshake(d) EXCEPT !.baud = v].at = StartHandshake(d).at
      BY <3>1, PointKept, Zenon
    <3>3. Aside(StartHandshake(d)) BY <1>1, ReturnsAside
    <3>4. \A v : Aside([StartHandshake(d) EXCEPT !.baud = v]) BY <3>2, <3>3, Zenon DEF Aside
    <3>5. QED BY <3>4, Zenon
  <2>5. CASE out = "ok" /\ Moves(Goto(d, "ate0"))
    <3>1. Goto(d, "ate0").at = "ate0" BY <1>1, PointNames DEF Goto, Locals
    <3>2. phase = "done" /\ UNCHANGED modemVars BY <2>1, Zenon DEF Done
    <3>3. "ate0" # "cpin" OBVIOUS
    <3>4. QED BY <2>1, <2>5, <3>1, <3>2, <3>3, Zenon DEF Leads
  <2>6. \/ Moves(ProbeSucceeds(d)) \/ Moves(PostRetries(d)) \/ Moves(ProbeFails(d))
        \/ Moves([d EXCEPT !.hs = @ + 1]) \/ Moves([StartHandshake(d) EXCEPT !.baud = @ + 1])
        \/ out = "ok" /\ Moves(Goto(d, "ate0"))
    BY <1>3, Zenon DEF HandshakeEnds
  <2>7. QED BY <2>1, <2>2, <2>3, <2>4, <2>5, <2>6, AsideLeads, Zenon
<1>4. CASE Ate0Ends
  <2>1. Done("ate0") /\ d.at = "ate0" BY <1>4, Zenon DEF Ate0Ends, Done
  <2>2. Goto(d, "cpin").at = "cpin" BY <1>1, PointNames DEF Goto, Locals
  <2>3. phase = "done" /\ UNCHANGED modemVars BY <2>1, Zenon DEF Done
  <2>4. Aside(PostRetries(d)) BY <1>1, ReturnsAside
  <2>5. Moves(Goto(d, "cpin")) \/ Moves(PostRetries(d)) BY <1>4, Zenon DEF Ate0Ends
  <2>6. "ate0" # "cpin" OBVIOUS
  <2>7. Moves(Goto(d, "cpin")) => Leads BY <2>1, <2>2, <2>3, <2>6, Zenon DEF Leads
  <2>8. QED BY <2>1, <2>4, <2>5, <2>7, AsideLeads, Zenon
<1>5. CASE CpinEnds
  <2>1. Done("cpin") BY <1>5, Zenon DEF CpinEnds
  <2>2. Aside(PostSucceeds(d)) /\ Aside(StartProbe(d, "post")) /\ Aside(PostRetries(d))
    BY <1>1, ReturnsAside
  <2>3. Moves(PostSucceeds(d)) \/ Moves(StartProbe(d, "post")) \/ Moves(PostRetries(d))
    BY <1>5 DEF CpinEnds
  <2>4. QED BY <2>1, <2>2, <2>3, AsideLeads, Zenon
<1>6. QED BY <1>2, <1>3, <1>4, <1>5

\* The commands that set up the context, and the wait for registration with its recovery.
LEMMA ConfigLeads ==
  MBInv /\ (ConfigEnds \/ CeregEnds \/ ReattachEnds \/ RecoveryEnds) => Leads
<1> SUFFICES ASSUME MBInv, ConfigEnds \/ CeregEnds \/ ReattachEnds \/ RecoveryEnds PROVE Leads
  OBVIOUS
<1>1. d \in Locals BY DoneTypes
<1>2. {"cfun", "cereg1", "cereg", "qicsgp", "query1", "cgdcont", "recereg", "cycle"}
        \subseteq Points \ {"ate0", "cpin"}
  BY PointNames
<1>3. Aside(Fails(d)) /\ Aside(PollAgain(d)) BY <1>1, ReturnsAside
<1>4. CASE ConfigEnds
  <2> DEFINE l(next) ==
        IF next = "cereg" THEN [Goto(d, "cereg") EXCEPT !.hits = 0, !.budget = PollLimit]
                          ELSE Goto(d, next)
  <2>1. PICK step \in {<<"qiclose", "cfun">>, <<"cfun", "cereg1">>, <<"cereg1", "cereg">>,
                       <<"cgdcont", "qicsgp">>, <<"qicsgp", "query1">>} :
          Done(step[1]) /\ (Moves(Fails(d)) \/ Moves(l(step[2])))
    BY <1>4, Zenon DEF ConfigEnds
  <2>2. step[2] \in {"cfun", "cereg1", "cereg", "qicsgp", "query1"} OBVIOUS
  <2>3. Aside([Goto(d, "cereg") EXCEPT !.hits = 0, !.budget = PollLimit])
    <3>1. Goto(d, "cereg") \in Locals /\ Goto(d, "cereg").at = "cereg"
      BY <1>1, <1>2 DEF Goto, Locals
    <3>2. \A v, w : [Goto(d, "cereg") EXCEPT !.hits = v, !.budget = w].at = "cereg"
      BY <3>1, PointKeptTwice, Zenon
    <3>3. \A v, w : Aside([Goto(d, "cereg") EXCEPT !.hits = v, !.budget = w])
      BY <3>2 DEF Aside
    <3>4. QED BY <3>3, Zenon
  <2>4. Aside(l(step[2]))
    <3>1. Aside(Goto(d, step[2])) BY <1>1, <1>2, <2>2, ReturnsAside
    <3>2. QED BY <2>3, <3>1, Zenon
  <2> HIDE DEF l
  <2>5. QED BY <1>3, <2>1, <2>4, AsideLeads, Zenon
<1>5. CASE CeregEnds
  <2>1. Done("cereg") BY <1>5, Zenon DEF CeregEnds
  <2>2. CountsHit(d) \in Locals
    <3>1. d.hits \in 0..HitThreshold /\ HitThreshold \in Nat
      BY <1>1, BringupAssumption DEF Locals
    <3>2. (IF d.hits < HitThreshold THEN d.hits + 1 ELSE d.hits) \in 0..HitThreshold BY <3>1
    <3>3. \A v \in 0..HitThreshold : [d EXCEPT !.hits = v] \in Locals BY <1>1 DEF Locals
    <3>4. QED BY <3>2, <3>3, Zenon DEF CountsHit
  <2>3. Aside(StartPost(CountsHit(d), "hit")) /\ Aside(Goto(d, "cgdcont"))
    BY <1>1, <1>2, <2>2, ReturnsAside
  <2>4. \/ Moves(Goto(d, "cgdcont")) \/ Moves(StartPost(CountsHit(d), "hit"))
        \/ Moves(PollAgain(d))
    BY <1>5, Zenon DEF CeregEnds
  <2>5. QED BY <1>3, <2>1, <2>3, <2>4, AsideLeads, Zenon
<1>6. CASE ReattachEnds
  <2>1. Done("recfun") /\ Moves(Goto(d, "recereg")) BY <1>6, Zenon DEF ReattachEnds
  <2>2. Aside(Goto(d, "recereg")) BY <1>1, <1>2, ReturnsAside
  <2>3. QED BY <2>1, <2>2, AsideLeads, Zenon
<1>7. CASE RecoveryEnds
  <2>1. Done("recereg") BY <1>7, Zenon DEF RecoveryEnds
  <2>2. ASSUME NEW left \in 0..PollLimit
        PROVE  /\ Aside(PollAgain([d EXCEPT !.budget = left]))
               /\ Aside([Goto([d EXCEPT !.budget = left], "cycle") EXCEPT !.probeFor = "recovery"])
    <3>1. [d EXCEPT !.budget = left] \in Locals BY <1>1 DEF Locals
    <3>2. PICK l \in Locals : l = [d EXCEPT !.budget = left] BY <3>1
    <3>3. Goto(l, "cycle") \in Locals /\ Goto(l, "cycle").at = "cycle"
      BY <1>2, <3>2 DEF Goto, Locals
    <3>4. \A v : [Goto(l, "cycle") EXCEPT !.probeFor = v].at = "cycle" BY <3>3, PointKept, Zenon
    <3>5. \A v : Aside([Goto(l, "cycle") EXCEPT !.probeFor = v]) BY <3>4 DEF Aside
    <3>6. Aside(PollAgain(l)) BY <3>2, ReturnsAside
    <3>7. QED BY <3>2, <3>5, <3>6, Zenon
  <2>3. \/ Moves(PollAgain(d))
        \/ \E left \in 0..PollLimit :
             \/ Moves([Goto([d EXCEPT !.budget = left], "cycle") EXCEPT !.probeFor = "recovery"])
             \/ Moves(PollAgain([d EXCEPT !.budget = left]))
    BY <1>7, Zenon DEF RecoveryEnds
  <2>4. QED BY <1>3, <2>1, <2>2, <2>3, AsideLeads, Zenon
<1>8. QED BY <1>4, <1>5, <1>6, <1>7

\* The activation of the context.
LEMMA ActivationLeads == MBInv /\ (PdpStepEnds \/ BecomesReady) => Leads
<1> SUFFICES ASSUME MBInv, PdpStepEnds \/ BecomesReady PROVE Leads
  OBVIOUS
<1>1. d \in Locals BY DoneTypes
<1>2. PICK point : Done(point) BY Zenon DEF PdpStepEnds, BecomesReady
<1>3. {"act1", "query2", "deact", "act2", "cgpaddr"} \subseteq Points \ {"ate0", "cpin"}
  BY PointNames
<1>4. Aside(Fails(d)) BY <1>1, ReturnsAside
<1>5. \A p \in {"act1", "query2", "deact", "act2", "cgpaddr"} : Aside(Goto(d, p))
  BY <1>1, <1>3, ReturnsAside
<1>6. \/ Moves(Fails(d))
      \/ Moves(Goto(d, "act1")) \/ Moves(Goto(d, "query2")) \/ Moves(Goto(d, "deact"))
      \/ Moves(Goto(d, "act2")) \/ Moves(Goto(d, "cgpaddr"))
  BY Zenon DEF PdpStepEnds, BecomesReady
<1>7. \/ Moves(Fails(d))
      \/ \E p \in {"act1", "query2", "deact", "act2", "cgpaddr"} : Moves(Goto(d, p))
  BY <1>6, Zenon
<1>8. QED BY <1>2, <1>4, <1>5, <1>7, AsideLeads, Zenon

----
(* Tidiness is inductive *)

\* Between two exchanges the line is left alone.
LEMMA LineRests ==
  ASSUME TidyLine, cmds' = cmds, air' = air, rx' = rx,
         phase # "wait", phase' \in {"idle", "send"},
         d'.at = "ate0" \/ d'.at = "cpin" => NoReady
  PROVE  TidyLine'
<1>1. Owed' = Owed BY DEF Owed
<1>2. (Quiet' <=> Quiet) /\ (NoReady' <=> NoReady) BY <1>1 DEF Quiet, NoReady
<1>3. AnsweredLast' BY <1>1 DEF TidyLine, AnsweredLast
<1>4. OneEach' BY <1>1 DEF TidyLine, OneEach, IsFinal
<1>5. FewCommands' BY <1>2 DEF TidyLine, FewCommands
<1>6. SimFirst' BY <1>1, <1>2 DEF TidyLine, SimFirst, IsFinal
<1>7. SimGone' BY <1>2 DEF SimGone
<1>8. QED BY <1>3, <1>4, <1>5, <1>6, <1>7 DEF TidyLine

\* A decision asks for the SIM only on a line without its status.
LEMMA MovesTidy == MBInv /\ Tidy /\ Leads => Tidy'
<1> SUFFICES ASSUME MBInv, Tidy, Leads, late' = 0, rebooted' = "no" PROVE TidyLine'
  BY DEF Tidy
<1>1. PICK l : /\ Moves(l)
               /\ l.at = "ate0" => d.at = "hs" /\ out = "ok"
               /\ l.at = "cpin" => d.at = "ate0"
  BY DEF Leads
<1>2. /\ phase = "done" /\ late' = late /\ rebooted' = rebooted /\ d' = l
      /\ cmds' = cmds /\ air' = air /\ rx' = rx
      /\ phase' = IF l.at \in {"off", "cycle"} THEN "idle" ELSE "send"
  BY <1>1, Zenon DEF Leads, Moves, modemVars
<1>3. phase' \in {"idle", "send"} /\ phase # "wait" BY <1>2
<1>4. TidyLine BY <1>2 DEF Tidy
<1>5. d'.at = "ate0" \/ d'.at = "cpin" => NoReady
  BY <1>1, <1>2, <1>4 DEF TidyLine, SimGone
<1>6. QED BY <1>2, <1>3, <1>4, <1>5, LineRests

\* A new call starts on the line as it is.
LEMMA CallTidy == MBInv /\ Tidy /\ Called => Tidy'
<1> SUFFICES ASSUME MBInv, Tidy, Called, late' = 0, rebooted' = "no" PROVE TidyLine'
  BY DEF Tidy
<1>1. /\ d.at = "off" /\ late' = late /\ phase' = "send" /\ cmds' = cmds /\ air' = air /\ rx' = rx
      /\ rebooted' = (IF rebooted = "no" THEN "no" ELSE "earlier")
  BY Zenon DEF Called
<1>2. d'.at = "self" BY DEF Called, Off
<1>3. rebooted = "no" BY <1>1
<1>4. phase # "wait" BY <1>1 DEF MBInv, MBTypeOK
<1>5. TidyLine BY <1>1, <1>3 DEF Tidy
<1>6. QED BY <1>1, <1>2, <1>4, <1>5, LineRests

\* The line is tidy before the first call.
LEMMA InitTidy == MBInit => Tidy
<1> SUFFICES ASSUME MBInit PROVE TidyLine
  BY DEF Tidy
<1>1. cmds = <<>> /\ air = <<>> /\ rx = <<>> /\ phase = "idle" /\ d = Off
  BY Zenon DEF MBInit, AtInit
<1>2. Owed = <<>> BY <1>1 DEF Owed
<1>3. DOMAIN Owed = {} /\ DOMAIN cmds = {} /\ Len(cmds) = 0 BY <1>1, <1>2
<1>4. NoReady BY <1>3 DEF NoReady
<1>5. QED
  BY <1>1, <1>3, <1>4 DEF TidyLine, AnsweredLast, OneEach, FewCommands, SimFirst, SimGone

\* An exchange, step by step.
LEMMA LinkTidy == MBInv /\ MBInv' /\ PdpInv /\ Tidy /\ LinkStep => Tidy'
<1> SUFFICES ASSUME MBInv, MBInv', PdpInv, Tidy, LinkStep, late' = 0, rebooted' = "no"
             PROVE  TidyLine'
  BY DEF Tidy
<1>1. rebooted = "no" BY LinkRests
<1>2. Sends(Exchange[d.at], Heard) \/ Reads(Exchange[d.at]) \/ TimesOut(Exchange[d.at])
  BY Zenon DEF LinkStep
<1>3. CASE TimesOut(Exchange[d.at]) BY <1>3, TimeoutTidy
<1>4. CASE Sends(Exchange[d.at], Heard)
  <2>1. late' = late BY <1>4, Zenon DEF Sends
  <2>2. TidyLine BY <1>1, <2>1 DEF Tidy
  <2>3. QED BY <1>4, <2>2, SendsTidy
<1>5. CASE Reads(Exchange[d.at])
  <2>1. late' = late BY <1>5, Zenon DEF Reads
  <2>2. TidyLine BY <1>1, <2>1 DEF Tidy
  <2>3. QED BY <1>5, <2>2, ReadsTidy
<1>6. QED BY <1>2, <1>3, <1>4, <1>5

\* The modem, step by step.
LEMMA ModemTidy == MBInv /\ MBInv' /\ PdpInv /\ Tidy /\ ModemNext => Tidy'
<1> SUFFICES ASSUME MBInv, MBInv', PdpInv, Tidy, ModemNext, late' = 0, rebooted' = "no"
             PROVE  TidyLine'
  BY DEF Tidy
<1>1. CASE LineArrives
  <2>1. late' = late /\ rebooted' = rebooted
    BY <1>1, Zenon DEF LineArrives, Arrives, modemVars
  <2>2. TidyLine BY <2>1 DEF Tidy
  <2>3. QED BY <1>1, <2>2, ArrivalTidy
<1>2. CASE cmds # <<>> /\ Executes
  <2>1. late' = late /\ rebooted' = rebooted BY <1>2, Zenon DEF Executes, Answers
  <2>2. TidyLine BY <2>1 DEF Tidy
  <2>3. QED BY <1>2, <2>2, ExecutesTidy
<1>3. CASE Registers
  <2>1. UNCHANGED <<cmds, air, rx, late, phase, out, d, rebooted>>
    BY <1>3, Zenon DEF Registers, atVars
  <2>2. Owed' = Owed BY <2>1 DEF Owed
  <2>3. (Quiet' <=> Quiet) /\ (NoReady' <=> NoReady) BY <2>1, <2>2 DEF Quiet, NoReady
  <2>4. TidyLine BY <2>1 DEF Tidy
  <2>5. AnsweredLast' /\ OneEach'
    BY <2>1, <2>2, <2>4 DEF TidyLine, AnsweredLast, OneEach, IsFinal
  <2>6. FewCommands' BY <2>1, <2>3, <2>4 DEF TidyLine, FewCommands
  <2>7. SimFirst' BY <2>1, <2>2, <2>3, <2>4 DEF TidyLine, SimFirst, IsFinal
  <2>8. SimGone' BY <2>1, <2>2, <2>3, <2>4 DEF TidyLine, SimGone
  <2>9. QED BY <2>5, <2>6, <2>7, <2>8 DEF TidyLine
<1>4. CASE Restarts
  <2>1. rebooted' = "now" BY <1>4, Zenon DEF Restarts
  <2>2. QED BY <2>1
<1>5. QED BY <1>1, <1>2, <1>3, <1>4, Zenon DEF ModemNext

\* Every step keeps the line tidy.
LEMMA TidyStep == MBInv /\ MBInv' /\ PdpInv /\ Tidy /\ [MBNext]_vars => Tidy'
<1> SUFFICES ASSUME MBInv, MBInv', PdpInv, Tidy, [MBNext]_vars PROVE Tidy'
  OBVIOUS
<1>1. CASE Called BY <1>1, CallTidy
<1>2. CASE DriverNext
  <2>1. CASE PowerCycles
    <3>1. rebooted' = "now" BY <2>1, Zenon DEF PowerCycles
    <3>2. QED BY <3>1 DEF Tidy
  <2>2. CASE Leads BY <2>2, MovesTidy
  <2>3. QED
    BY <1>2, <2>1, <2>2, LinkTidy, HandshakeLeads, ConfigLeads, ActivationLeads, Zenon
    DEF DriverNext
<1>3. CASE ModemNext BY <1>3, ModemTidy
<1>4. CASE UNCHANGED vars
  <2>1. UNCHANGED <<cmds, air, rx, late, phase, out, d, rebooted>>
    BY <1>4 DEF vars, atVars, modemVars
  <2>2. Owed' = Owed BY <2>1 DEF Owed
  <2>3. (Quiet' <=> Quiet) /\ (NoReady' <=> NoReady) BY <2>1, <2>2 DEF Quiet, NoReady
  <2>4. AnsweredLast' <=> AnsweredLast BY <2>1, <2>2 DEF AnsweredLast
  <2>5. OneEach' <=> OneEach BY <2>1, <2>2 DEF OneEach, IsFinal
  <2>6. FewCommands' <=> FewCommands BY <2>1, <2>3 DEF FewCommands
  <2>7. SimFirst' <=> SimFirst BY <2>1, <2>2, <2>3 DEF SimFirst, IsFinal
  <2>8. SimGone' <=> SimGone BY <2>1, <2>2, <2>3 DEF SimGone
  <2>9. QED BY <2>1, <2>4, <2>5, <2>6, <2>7, <2>8 DEF Tidy, TidyLine
<1>5. QED BY <1>1, <1>2, <1>3, <1>4 DEF MBNext

\* The ends of answers in a sequence are as many as there are places of them: none, or one.
LEMMA CountsFinals ==
  ASSUME NEW lines
  PROVE  /\ (\A i \in DOMAIN lines : ~IsFinal(lines[i])) => Finals(lines) = 0
         /\ \A k : (\A i \in DOMAIN lines : IsFinal(lines[i]) => i = k) => Finals(lines) \in {0, 1}
<1> DEFINE S == {i \in DOMAIN lines : lines[i].text \in Final}
<1>1. Finals(lines) = Cardinality(S) BY Zenon DEF Finals
<1>2. Cardinality({}) = 0 /\ \A k : Cardinality({k}) = 1 BY FS_EmptySet, FS_Singleton
<1>3. ASSUME \A i \in DOMAIN lines : ~IsFinal(lines[i]) PROVE Finals(lines) = 0
  <2>1. S = {} BY <1>3 DEF IsFinal
  <2>2. QED BY <1>1, <1>2, <2>1, Zenon
<1>4. ASSUME NEW k, \A i \in DOMAIN lines : IsFinal(lines[i]) => i = k
      PROVE  Finals(lines) \in {0, 1}
  <2>1. S = {} \/ S = {k} BY <1>4 DEF IsFinal
  <2>2. Finals(lines) = 0 \/ Finals(lines) = 1 BY <1>1, <1>2, <2>1, Zenon
  <2>3. QED BY <2>2
<1>5. QED BY <1>3, <1>4

\* A tidy line is at most one answer behind when a command goes out.
LEMMA TidyIsOneBehind == MBInv /\ PdpInv /\ Tidy => OneAnswerBehind
<1> SUFFICES ASSUME MBInv, PdpInv, Tidy, phase = "send", late = 0, rebooted = "no"
             PROVE  Behind <= 1
  BY DEF OneAnswerBehind
<1>1. TidyLine BY DEF Tidy
<1>2. /\ rx \in Seq(Line) /\ air \in Seq(Line) /\ Len(rx) \in Nat /\ Len(air) \in Nat
      /\ DOMAIN rx = 1..Len(rx) /\ DOMAIN air = 1..Len(air)
  BY DEF MBInv, Lines
<1>3. /\ DOMAIN Owed = 1..(Len(rx) + Len(air))
      /\ \A i \in 1..Len(rx) : Owed[i] = rx[i]
      /\ \A i \in 1..Len(air) : Owed[Len(rx) + i] = air[i]
  BY <1>2, Joined, Zenon DEF Owed
<1>4. /\ \A i \in 1..Len(rx) : i \in DOMAIN Owed
      /\ \A i \in 1..Len(air) : Len(rx) + i \in DOMAIN Owed
      /\ \A i \in 1..Len(rx), j \in 1..Len(air) : i # Len(rx) + j
      /\ \A i, j \in 1..Len(air) : Len(rx) + i = Len(rx) + j => i = j
  <2>1. \A m, n \in Nat :
          /\ \A i \in 1..m : i \in 1..(m + n)
          /\ \A i \in 1..n : m + i \in 1..(m + n)
          /\ \A i \in 1..m, j \in 1..n : i # m + j
          /\ \A i, j \in 1..n : m + i = m + j => i = j
    OBVIOUS
  <2>2. QED BY <1>2, <1>3, <2>1, Zenon
<1>5. \A i, j \in DOMAIN Owed : IsFinal(Owed[i]) /\ IsFinal(Owed[j]) => i = j
  BY <1>1 DEF TidyLine, OneEach
<1>6. Len(cmds) \in {0, 1} /\ (~Quiet => Len(cmds) = 0)
  <2>1. cmds \in Seq(Commands) /\ Len(<<>>) = 0 BY Zenon, EmptyCommands DEF PdpInv
  <2>2. Len(cmds) \in Nat /\ Len(cmds) <= 1 BY <1>1, <2>1 DEF TidyLine, FewCommands
  <2>3. ~Quiet => cmds = <<>> BY <1>1, Zenon DEF TidyLine, FewCommands
  <2>4. ~Quiet => Len(cmds) = 0 BY <2>1, <2>3, Zenon
  <2>5. \A n \in Nat : n <= 1 => n \in {0, 1} OBVIOUS
  <2>6. QED BY <2>2, <2>4, <2>5, Zenon
<1>7. /\ \A n \in {0, 1} : n + 0 + 0 <= 1 /\ 0 + n + 0 <= 1 /\ 0 + 0 + n <= 1
      /\ 0 \in {0, 1}
  OBVIOUS
<1>8. CASE Quiet
  <2>1. (\A i \in DOMAIN rx : ~IsFinal(rx[i])) /\ (\A i \in DOMAIN air : ~IsFinal(air[i]))
    BY <1>2, <1>3, <1>4, <1>8 DEF Quiet
  <2>2. Finals(rx) = 0 /\ Finals(air) = 0 BY <2>1, CountsFinals
  <2>3. QED BY <1>6, <1>7, <2>2, Zenon DEF Behind
<1>9. CASE ~Quiet
  <2>1. CASE \E i \in DOMAIN rx : IsFinal(rx[i])
    <3>1. PICK k \in DOMAIN rx : IsFinal(rx[k]) BY <2>1
    <3>2. \A i \in DOMAIN rx : IsFinal(rx[i]) => i = k BY <1>2, <1>3, <1>4, <1>5, <3>1
    <3>3. \A i \in DOMAIN air : ~IsFinal(air[i]) BY <1>2, <1>3, <1>4, <1>5, <3>1
    <3>4. Finals(rx) \in {0, 1} /\ Finals(air) = 0 BY <3>2, <3>3, CountsFinals
    <3>5. QED BY <1>6, <1>7, <1>9, <3>4, Zenon DEF Behind
  <2>2. CASE ~\E i \in DOMAIN rx : IsFinal(rx[i])
    <3>1. PICK k \in 1..Len(air) : IsFinal(air[k])
      <4>1. PICK i \in DOMAIN Owed : IsFinal(Owed[i]) BY <1>9 DEF Quiet
      <4>2. i \in 1..Len(rx) \/ \E k \in 1..Len(air) : i = Len(rx) + k
        <5>1. \A m, n \in Nat : \A j \in 1..(m + n) : j \in 1..m \/ \E h \in 1..n : j = m + h
          <6>1. SUFFICES ASSUME NEW m \in Nat, NEW n \in Nat, NEW j \in 1..(m + n), j \notin 1..m
                         PROVE  \E h \in 1..n : j = m + h
            OBVIOUS
          <6>2. j - m \in 1..n /\ j = m + (j - m) BY <6>1
          <6>3. QED BY <6>2
        <5>2. i \in 1..(Len(rx) + Len(air)) BY <1>3, <4>1
        <5>3. QED BY <1>2, <5>1, <5>2, Zenon
      <4>3. QED BY <1>2, <1>3, <2>2, <4>1, <4>2
    <3>2. \A i \in DOMAIN air : IsFinal(air[i]) => i = k BY <1>2, <1>3, <1>4, <1>5, <3>1
    <3>3. Finals(air) \in {0, 1} /\ Finals(rx) = 0 BY <2>2, <3>2, CountsFinals
    <3>4. QED BY <1>6, <1>7, <1>9, <3>3, Zenon DEF Behind
  <2>3. QED BY <2>1, <2>2
<1>10. QED BY <1>8, <1>9

\* The line is tidy in every reachable state.
THEOREM TidyInvariance == MBSpec => []Tidy
<1>1. Tidy /\ (MBInv /\ MBInv' /\ PdpInv) /\ [MBNext]_vars => Tidy' BY TidyStep
<1>2. QED BY <1>1, InitTidy, MBInvariance, PdpInvariance, PTL DEF MBSpec

\* As long as no wait gives up too early and the modem does not restart, what one exchange
\* leaves on the wire does not add up: the driver is at most one answer behind the modem when
\* it sends a command (ec801e_wait_response, ec801e_drain_rx).
THEOREM LeftoversDoNotAddUp == MBSpec => []OneAnswerBehind
<1>1. MBInv /\ PdpInv /\ Tidy => OneAnswerBehind BY TidyIsOneBehind
<1>2. QED BY <1>1, MBInvariance, PdpInvariance, TidyInvariance, PTL
====
