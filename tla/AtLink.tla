---- MODULE AtLink ----
(***************************************************************************)
(* The AT link of drivers/ec801e/ec801e.c: send_cmd, wait_response,        *)
(* drain_rx, cmd_expect and cmd_expect_retry over one UART.                *)
(*                                                                         *)
(* An answer is a few lines.  A wait reads lines until one matches and     *)
(* leaves the rest of the answer on the wire, where the next wait finds it *)
(* unless a drain_rx throws away what has arrived by then.  Nothing in a   *)
(* line says which command it answers; fresh is a history of that.         *)
(*                                                                         *)
(* An exchange is what the code asks of the link: the command, the lines   *)
(* that mean success, whether drain_rx comes first, and how often          *)
(* cmd_expect_retry tries (once for the others).                           *)
(***************************************************************************)
EXTENDS Naturals, Sequences, FiniteSets

CONSTANT LateLimit    \* bound on the waits that give up on an answer that still comes

ASSUME LateAssumption == LateLimit \in Nat

VARIABLES
  cmds,         \* commands the modem has yet to execute
  air,          \* lines it is sending
  rx,           \* lines in the UART, unread
  late,         \* waits given up while the answer was under way
  phase,        \* idle, send, wait, done
  try,          \* of cmd_expect_retry
  seen, out,    \* the lines this wait has read, and how the exchange ended
  misread       \* history: a wait was ended by the answer to an earlier command

atVars == <<cmds, air, rx, late, phase, try, seen, out, misread>>

Final == {"OK", "ERROR"}
LineText == Final \cup {"READY", "STAT", "REG", "PDP", "RDY", "NOISE"}
Line == [text : LineText, fresh : BOOLEAN]
Fresh(texts) == [i \in DOMAIN texts |-> [text |-> texts[i], fresh |-> TRUE]]
Stale(lines) == [i \in DOMAIN lines |-> [lines[i] EXCEPT !.fresh = FALSE]]

Outcome == {"none", "ok", "eio", "hostdown", "timeout"}

AtTypeOK ==
  /\ \A i \in DOMAIN air : air[i] \in Line
  /\ \A i \in DOMAIN rx : rx[i] \in Line
  /\ late \in 0..LateLimit
  /\ phase \in {"idle", "send", "wait", "done"}
  /\ try \in Nat \ {0}
  /\ seen \subseteq LineText /\ out \in Outcome
  /\ misread \in BOOLEAN

\* Nothing sent, nothing to read.
AtInit ==
  /\ cmds = <<>> /\ air = <<>> /\ rx = <<>> /\ late = 0
  /\ phase = "idle" /\ try = 1 /\ seen = {} /\ out = "none" /\ misread = FALSE

----
(* The driver *)

\* send_cmd, after drain_rx if the exchange has one.  At a wrong baud rate the modem hears
\* nothing it understands.
Sends(x, heard) ==
  /\ phase = "send"
  /\ rx' = (IF x.drain THEN <<>> ELSE Stale(rx)) /\ air' = Stale(air)
  /\ cmds' = IF heard THEN Append(cmds, x.cmd) ELSE cmds
  /\ phase' = "wait" /\ seen' = {}
  /\ UNCHANGED <<late, try, out, misread>>

\* Mutant: cmd_expect_retry tries once too often.
EndsLate(x, outcome) ==
  IF outcome \in {"hostdown", "timeout"} /\ try <= x.tries
    THEN phase' = "send" /\ try' = try + 1 /\ UNCHANGED out
    ELSE phase' = "done" /\ out' = outcome /\ UNCHANGED try

\* cmd_expect_retry tries again after a timeout or a reboot marker, not after an error.
Ends(x, outcome) ==
  IF outcome \in {"hostdown", "timeout"} /\ try < x.tries
    THEN phase' = "send" /\ try' = try + 1 /\ UNCHANGED out
    ELSE phase' = "done" /\ out' = outcome /\ UNCHANGED try

Verdict(x, text) ==
  IF text \in x.ok THEN "ok"
  ELSE IF text = "RDY" THEN "hostdown"
  ELSE IF text = "ERROR" THEN "eio"
  ELSE "none"

\* wait_response reads a line: the success patterns first, then the reboot marker, then the
\* failures; any other line is kept and the wait goes on.
Reads(x) ==
  /\ phase = "wait" /\ rx # <<>>
  /\ LET line == Head(rx)
         verdict == Verdict(x, line.text)
     IN /\ seen' = seen \cup {line.text}
        /\ IF verdict = "none" THEN UNCHANGED <<phase, try, out>> ELSE Ends(x, verdict)
        /\ misread' = (misread \/ (verdict \in {"ok", "eio"} /\ ~line.fresh))
  /\ rx' = Tail(rx)
  /\ UNCHANGED <<cmds, air, late>>

\* The deadline passes.  What the modem still owes comes later, or never.
TimesOut(x) ==
  /\ phase = "wait" /\ rx = <<>>
  /\ Ends(x, "timeout")
  /\ \/ late < LateLimit /\ cmds \o air # <<>> /\ late' = late + 1 /\ UNCHANGED <<cmds, air>>
     \/ cmds' = <<>> /\ air' = <<>> /\ UNCHANGED late
  /\ UNCHANGED <<rx, seen, misread>>

----
(* The wire and the modem *)

\* A line reaches the UART; at a wrong baud rate it is noise.
Arrives(heard) ==
  /\ air # <<>>
  /\ rx' = Append(rx, IF heard THEN Head(air) ELSE [Head(air) EXCEPT !.text = "NOISE"])
  /\ air' = Tail(air)
  /\ UNCHANGED <<cmds, late, phase, try, seen, out, misread>>

\* The modem takes up a command when it has sent the answer to the one before.
Answers(texts) ==
  /\ cmds # <<>> /\ air = <<>>
  /\ cmds' = Tail(cmds)
  /\ air' = [i \in DOMAIN texts |-> [text |-> texts[i], fresh |-> Len(cmds) = 1]]
  /\ UNCHANGED <<rx, late, phase, try, seen, out, misread>>

\* The modem restarts: what it had to do or to say is gone.  One boot prints one to three
\* markers (RDY, ^boot.rom, PB DONE), and each of them counts as a restart with the driver.
SaysReady ==
  /\ cmds' = <<>>
  /\ \E markers \in 1..3 : air' = Fresh([i \in 1..markers |-> "RDY"])

\* How many answers the driver is behind: commands not executed, and answers not read.
Finals(lines) == Cardinality({i \in DOMAIN lines : lines[i].text \in Final})
Behind == Len(cmds) + Finals(air) + Finals(rx)
====
