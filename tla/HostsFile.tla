----------------------------- MODULE HostsFile -----------------------------
(***************************************************************************)
(* What both firmwares with an address store share: main_ec801e_hid.c and  *)
(* main_hid.c keep hosts.txt on the flash disk, remember the text they     *)
(* read last, and hand another one to the store of serv_addr.c.            *)
(***************************************************************************)
EXTENDS Naturals

CONSTANTS
  HostName, PortNo,
  BadPort,                  \* a port field outside 1..65535
  Garbage,                  \* a line without a host:port colon
  Lines,                    \* the lines the user writes into hosts.txt
  DefaultHost, DefaultPort, \* default_host
  NoText, NoFile,           \* an empty hosts.txt, and none
  Blank, Torn, FlashFaults, \* the private partition: empty, half written; errors from it
  EditLimit, CutLimit       \* bounds on the user's edits and on losses of power

Addr == [host : HostName, port : PortNo]
Malformed == [host : HostName, port : {BadPort}] \cup {Garbage}
Content == Addr \cup Malformed \cup {NoText, NoFile}
DefaultLine == [host |-> DefaultHost, port |-> DefaultPort]

ASSUME LinesAssumption ==
  /\ Lines \subseteq Content
  /\ DefaultLine \in Addr
  /\ BadPort \notin PortNo /\ Garbage \notin Addr /\ NoText # NoFile
\* The lines, the empty text and the contents of the partition are different things.
ASSUME StoreAssumption ==
  /\ NoText \notin Addr \cup Malformed
  /\ (Addr \cup Malformed) \cap {Blank, Torn} = {} /\ NoText \notin {Blank, Torn}
  /\ FlashFaults \in BOOLEAN
ASSUME BoundsAssumption == EditLimit \in Nat /\ CutLimit \in Nat

VARIABLES
  active, valid, flash, pc, arg, ret, answered, adopted, misreported,  \* serv_addr.c
  disk,                \* hosts.txt on the raw disk
  mounted,             \* the firmware's mount
  mpc,                 \* main: where it is
  lastHost,            \* last_host_value; host_value_valid is TRUE from the first read on
  edits, cuts,         \* bounded counters
  typed                \* history: what the host has put on the disk since the power came on

saVars == <<active, valid, flash, pc, arg, ret, answered, adopted, misreported>>

SA == INSTANCE ServAddr

\* ensure_default_hosts_file: written over a file that could not be opened for reading, the
\* default may leave the tail of what was there.  A write that fails or is cut short leaves
\* the file it has created empty, and of another file a mixture.
Filled == {DefaultLine} \cup (IF disk \in {NoFile, NoText} THEN {} ELSE {Garbage})
HalfFilled == {disk, IF disk \in {NoFile, NoText} THEN NoText ELSE Garbage}

\* The address is meant to outlive the disk it came from: an intact record is given up only
\* by a promotion, of an address that has answered and that the host has put on the disk since
\* the power came on.  The default line that a format or a missing file leaves there, the text
\* of an earlier run, an eject or a poll without an edit, a refresh that failed half way: none
\* of them costs the record, in any order.  Only a boot that cannot read the flash goes on as
\* if there were none (setup_flash_disk and refresh_hosts_if_needed, main_ec801e_hid.c:318-447;
\* refresh_hosts_if_changed, main_hid.c:321-373).
RecordOutlivesDisk ==
  [][SA!Intact(flash) /\ flash' # flash
       => \/ valid /\ arg \in answered \cap typed
          \/ ~valid /\ FlashFaults]_<<saVars, typed>>
=============================================================================
