---- MODULE ServAddr ----
(***************************************************************************)
(* The active-address store, src/serv_addr.c: one address in RAM           *)
(* (g_active_addr, g_active_valid) and one record in a private flash       *)
(* partition.  serv_addr_init restores the record or adopts the content of *)
(* hosts.txt; serv_addr_try_promote replaces the address by a candidate    *)
(* that accepts a TCP connection, and keeps the old one otherwise.         *)
(*                                                                         *)
(* A save erases the partition and then writes the record, and the power   *)
(* may go at any moment, so every flash operation is a step of its own.    *)
(* Both calls come from the main thread: at most one is in progress, and   *)
(* pc says how far it is.                                                  *)
(*                                                                         *)
(* Texts are hosts.txt lines after trim_line_end.  An Addr is one that     *)
(* parse_host_port accepts; a Malformed one is non-empty and rejected.     *)
(***************************************************************************)
CONSTANTS
  Addr, Malformed,
  NoText,          \* the empty string
  Blank, Torn,     \* partition content: erased (bad magic), half written (bad checksum)
  FlashFaults      \* whether the flash driver may return errors

Text == Addr \cup Malformed

ASSUME TextAssumption == NoText \notin Text /\ Addr \cap Malformed = {}
ASSUME FlashAssumption == Text \cap {Blank, Torn} = {} /\ NoText \notin {Blank, Torn}
ASSUME FaultsAssumption == FlashFaults \in BOOLEAN

VARIABLES
  active, valid,   \* g_active_addr, g_active_valid
  flash,           \* content of activeaddr_partition
  pc, arg, ret,    \* the call in progress, its address, the last return value
  answered,        \* history: addresses whose probe connected
  adopted,         \* history: texts a boot took over because it could read no record
  misreported      \* history: the address whose record is complete although its write
                   \* returned an error; NoText if there is none

saVars == <<active, valid, flash, pc, arg, ret, answered, adopted, misreported>>

Intact(content) == content \in Text

SavePc == {"erase", "write", "commit"}
PcSet == {"down", "load", "probe", "idle", "failed"} \cup SavePc
Errors == {"einval", "unreach", "eio"}

SATypeOK ==
  /\ active \in Text \cup {NoText}
  /\ valid \in BOOLEAN
  /\ flash \in Text \cup {Blank, Torn}
  /\ pc \in PcSet
  /\ arg \in Text \cup {NoText}
  /\ ret \in {"none", "ok"} \cup Errors
  /\ answered \subseteq Addr
  /\ adopted \subseteq Text
  /\ misreported \in Text \cup {NoText}

SAInit ==
  /\ active = NoText /\ valid = FALSE
  /\ flash = Blank
  /\ pc = "down" /\ arg = NoText /\ ret = "none"
  /\ answered = {} /\ adopted = {} /\ misreported = NoText

----
(* serv_addr_init.  Neither this call nor serv_addr_try_promote looks at pc: that a caller
   makes one call at a time, and this one once and first, is an assumption of SANext. *)

\* The empty argument is refused before the partition is looked at.
InitRejects(h) ==
  /\ h = NoText
  /\ pc' = "failed" /\ ret' = "einval"
  /\ UNCHANGED <<active, valid, flash, arg, answered, adopted, misreported>>

InitCalled(h) ==
  /\ h \in Text
  /\ pc' = "load" /\ arg' = h
  /\ UNCHANGED <<active, valid, flash, ret, answered, adopted, misreported>>

LoadHit ==
  /\ pc = "load" /\ Intact(flash)
  /\ active' = flash /\ valid' = TRUE
  /\ pc' = "idle" /\ ret' = "ok"
  /\ UNCHANGED <<flash, arg, answered, adopted, misreported>>

\* No record, a bad checksum and a failed read all fall through to the same code.
LoadMiss ==
  /\ pc = "load" /\ (~Intact(flash) \/ FlashFaults)
  /\ active' = arg
  /\ adopted' = adopted \cup {arg}
  /\ pc' = "erase"
  /\ UNCHANGED <<valid, flash, arg, ret, answered, misreported>>

----
(* serv_addr_try_promote *)

PromoteRejects(c) ==
  /\ ~valid \/ c = NoText
  /\ ret' = "einval"
  /\ UNCHANGED <<active, valid, flash, pc, arg, answered, adopted, misreported>>

PromoteSame(c) ==
  /\ valid /\ c # NoText /\ c = active
  /\ ret' = "ok"
  /\ UNCHANGED <<active, valid, flash, pc, arg, answered, adopted, misreported>>

\* Mutant: the save starts before the candidate has been probed.
PromoteWithoutProbe(c) ==
  /\ valid /\ c # NoText /\ c # active
  /\ pc' = "erase" /\ arg' = c
  /\ UNCHANGED <<active, valid, flash, ret, answered, adopted, misreported>>

PromoteProbes(c) ==
  /\ valid /\ c # NoText /\ c # active
  /\ pc' = "probe" /\ arg' = c
  /\ UNCHANGED <<active, valid, flash, ret, answered, adopted, misreported>>

Promote(c) == PromoteRejects(c) \/ PromoteSame(c) \/ PromoteProbes(c)

\* Mutant: the candidate's format is not checked before it is probed and saved.
ProbeWithoutParse ==
  /\ pc = "probe"
  /\ answered' = answered \cup {arg}
  /\ pc' = "erase"
  /\ UNCHANGED <<active, valid, flash, arg, ret, adopted, misreported>>

\* tcp_reachable: only a well-formed address can connect.
ProbeAnswers ==
  /\ pc = "probe" /\ arg \in Addr
  /\ answered' = answered \cup {arg}
  /\ pc' = "erase"
  /\ UNCHANGED <<active, valid, flash, arg, ret, adopted, misreported>>

\* Mutant: an unreachable candidate is saved all the same.
ProbeFailureIgnored ==
  /\ pc = "probe"
  /\ pc' = "erase"
  /\ UNCHANGED <<active, valid, flash, arg, ret, answered, adopted, misreported>>

\* Malformed, unresolved, no socket, refused or timed out.
ProbeFails ==
  /\ pc = "probe"
  /\ pc' = "idle" /\ ret' = "unreach"
  /\ UNCHANGED <<active, valid, flash, arg, answered, adopted, misreported>>

----
(* save_active_addr_to_flash, reached from both calls; valid tells which. *)

EraseDone ==
  /\ pc = "erase"
  /\ flash' = Blank /\ pc' = "write" /\ misreported' = NoText
  /\ UNCHANGED <<active, valid, arg, ret, answered, adopted>>

WriteDone ==
  /\ pc = "write"
  /\ flash' = arg /\ pc' = "commit"
  /\ UNCHANGED <<active, valid, arg, ret, answered, adopted, misreported>>

\* Mutant: RAM takes the candidate although the save failed.
SaveFailsButTaken(left) ==
  /\ FlashFaults
  /\ flash' \in left
  /\ active' = arg
  /\ pc' = IF valid THEN "idle" ELSE "failed"
  /\ ret' = "eio"
  /\ UNCHANGED <<valid, arg, answered, adopted>>

\* Mutant: the caller goes on once the record is written and never updates RAM.
CommitLeavesRam ==
  /\ pc = "commit"
  /\ valid' = TRUE
  /\ pc' = "idle" /\ ret' = "ok"
  /\ UNCHANGED <<active, flash, arg, answered, adopted, misreported>>

\* A failed save is reported and the partition is left as the failure left it.
SaveFails(left) ==
  /\ FlashFaults
  /\ flash' \in left
  /\ pc' = IF valid THEN "idle" ELSE "failed"
  /\ ret' = "eio"
  /\ UNCHANGED <<active, valid, arg, answered, adopted>>

EraseFails == pc = "erase" /\ SaveFails({flash, Blank, Torn}) /\ UNCHANGED misreported

\* The error may come after the last byte: the record is complete, and the caller told otherwise.
WriteFails ==
  /\ pc = "write" /\ SaveFails({Blank, Torn, arg})
  /\ misreported' = IF flash' = arg THEN arg ELSE NoText

\* The record is in flash; RAM follows.
Commit ==
  /\ pc = "commit"
  /\ active' = arg /\ valid' = TRUE
  /\ pc' = "idle" /\ ret' = "ok"
  /\ UNCHANGED <<flash, arg, answered, adopted, misreported>>

SaveStep == EraseDone \/ EraseFails \/ WriteDone \/ WriteFails \/ Commit
CallStep == LoadHit \/ LoadMiss \/ ProbeAnswers \/ ProbeFails \/ SaveStep

----
(* Loss of power: RAM is gone, a flash operation in progress is cut short. *)

PowerLoss ==
  /\ pc # "down"
  /\ active' = NoText /\ valid' = FALSE
  /\ pc' = "down" /\ arg' = NoText /\ ret' = "none"
  /\ flash' \in CASE pc = "erase" -> {flash, Blank, Torn}
                  [] pc = "write" -> {Blank, Torn}
                  [] OTHER -> {flash}
  /\ UNCHANGED <<answered, adopted, misreported>>

SANext ==
  \/ \E h \in Text \cup {NoText} :
       \/ pc = "down" /\ (InitRejects(h) \/ InitCalled(h))
       \/ pc = "idle" /\ Promote(h)
  \/ CallStep
  \/ PowerLoss

SASpec == SAInit /\ [][SANext]_saVars

----
(* Properties *)

\* Between calls, flash holds no intact record other than the running address: a restart
\* resumes the running address or finds no record at all, never a third address, but for the
\* candidate whose record was completed by a write that returned an error.  Without flash
\* errors the record is always there (save_active_addr_to_flash before the RAM copy).
RecordIsRunning ==
  pc = "idle" => /\ Intact(flash) => flash \in {active, misreported}
                 /\ ~FlashFaults => flash = active

\* Whatever runs, and whatever a restart would find, has answered a probe or was adopted by
\* a boot that could read no record: across crashes and failed saves no candidate gets in
\* unprobed (serv_addr_try_promote).
AddressIsEarned ==
  /\ valid => active \in answered \cup adopted
  /\ Intact(flash) => flash \in answered \cup adopted

\* The partition is touched only for an address that earned it, and the running address gives
\* way only to one already recorded in flash, by a call that succeeds: a candidate that is
\* refused or unreachable, or whose save fails, leaves the running address alone.
FailBackRule ==
  [][/\ flash' # flash => arg \in answered \cup adopted
     /\ valid /\ valid' /\ active' # active => ret' = "ok" /\ flash = active']_saVars

\* The module implements the abstract fail-back store.
Store == INSTANCE FailBack WITH
  None <- NoText,
  running <- IF valid THEN active ELSE NoText,
  stored <- IF Intact(flash) THEN flash ELSE NoText

ImplementsFailBack == Store!FBSpec

\* docs/usb-hid-dev-guide.md:250 says that after a power cycle the active address comes back
\* from the private partition whatever hosts.txt holds: a boot fails only if there is no record.
BootNeedsOnlyTheRecord == pc = "failed" => ~Intact(flash)
====
