---- MODULE HidMain ----
(***************************************************************************)
(* The firmware of src/main_ec801e_hid.c with the USB side of src/usb.c    *)
(* and the store of serv_addr.c: three actors share the flash disk that    *)
(* holds hosts.txt.                                                        *)
(*                                                                         *)
(*   main      mounts the disk, makes sure hosts.txt exists, initialises   *)
(*             the active address, runs the boot-time session, then loops: *)
(*             after an eject it remounts, re-reads and promotes           *)
(*   consumer  woken by sync_sem on every eject, reads hosts.txt through   *)
(*             whatever is mounted and points serv_ip/serv_port at it      *)
(*   host      the PC: edits hosts.txt on the raw disk, ejects, pulls the  *)
(*             cable; and the power supply                                 *)
(*                                                                         *)
(* main has priority 0 and consumer 7 on one core: consumer takes a step   *)
(* only while main blocks (MainBlocked), and main may resume between any   *)
(* two of its steps.  The USB thread is cooperative: its callbacks are one *)
(* step each and come between any two steps of the others.                 *)
(***************************************************************************)
EXTENDS HostsFile

CONSTANT DriverFaults       \* errors from the file system or the USB stack

GPSEC_RETRIES == 3

ASSUME DriverAssumption == DriverFaults \in BOOLEAN

VARIABLES
  view,                \* hosts.txt as the mount has cached it
  attempt,             \* the session attempt under way
  pending,             \* hosts_refresh_pending
  connected, loaded,   \* usb_host_connected; the host has the medium
  sem,                 \* sync_sem, K_SEM_DEFINE(sync_sem, 0, 1)
  cpc, cport,          \* consumer: where it is, and its local port
  ipIsStack,           \* serv_ip points into consumer's stack, not at the literal
  stackHost,           \* consumer's local host[80]
  servPort,            \* serv_port
  unsure               \* history: the host wrote since it last ejected, or a refresh gave up

diskVars == <<disk, edits, typed>>
fsVars == <<mounted, view>>
mainVars == <<mpc, attempt, lastHost>>
usbVars == <<connected, loaded, unsure>>
consumerVars == <<cpc, cport, ipIsStack, stackHost, servPort>>
vars == <<saVars, diskVars, fsVars, mainVars, pending, usbVars, sem, consumerVars, cuts>>

\* What belongs to the others, seen from main, from the consumer and from the host.
notMain == <<connected, loaded, sem, consumerVars, cuts>>
othersVars == <<notMain, unsure>>
notConsumer == <<saVars, diskVars, fsVars, mainVars, pending, usbVars, cuts>>
notHost == <<saVars, fsVars, mainVars, consumerVars, cuts>>

BootPc == {"mount", "ensure", "fill", "read", "init", "usb"}
MainPc == BootPc \cup {"session", "talk", "backoff", "loop", "unmount", "remount", "reread",
                       "promote", "sleep", "dead"}

\* main waits for the modem (in a session or a probe) or sleeps.
MainBlocked == mpc \in {"talk", "backoff", "sleep", "dead"} \/ pc = "probe"

UsbIsUp == mpc \notin BootPc \cup {"dead"}

Target == [host |-> IF ipIsStack THEN stackHost ELSE DefaultHost, port |-> servPort]

TypeOK ==
  /\ SA!SATypeOK
  /\ disk \in Content /\ view \in Content
  /\ mounted \in BOOLEAN /\ mpc \in MainPc /\ attempt \in 1..GPSEC_RETRIES
  /\ lastHost \in Addr \cup Malformed \cup {NoText}
  /\ pending \in BOOLEAN /\ connected \in BOOLEAN /\ loaded \in BOOLEAN /\ unsure \in BOOLEAN
  /\ sem \in 0..1 /\ cpc \in {"wait", "read", "ip", "port"} /\ cport \in PortNo
  /\ ipIsStack \in BOOLEAN /\ stackHost \in HostName /\ servPort \in PortNo
  /\ edits \in 0..EditLimit /\ cuts \in 0..CutLimit /\ typed \subseteq Content

\* What the firmware's RAM holds when main starts.
PowerOn ==
  /\ mounted' = FALSE /\ view' = NoFile
  /\ mpc' = "mount" /\ attempt' = 1 /\ lastHost' = NoText
  /\ pending' = FALSE /\ connected' = FALSE /\ loaded' = FALSE
  /\ sem' = 0 /\ cpc' = "wait" /\ cport' = DefaultPort
  /\ ipIsStack' = FALSE /\ stackHost' = DefaultHost /\ servPort' = DefaultPort

Init ==
  /\ SA!SAInit
  /\ disk = NoFile /\ edits = 0 /\ cuts = 0 /\ unsure = FALSE /\ typed = {}
  /\ mounted = FALSE /\ view = NoFile
  /\ mpc = "mount" /\ attempt = 1 /\ lastHost = NoText
  /\ pending = FALSE /\ connected = FALSE /\ loaded = FALSE
  /\ sem = 0 /\ cpc = "wait" /\ cport = DefaultPort
  /\ ipIsStack = FALSE /\ stackHost = DefaultHost /\ servPort = DefaultPort

----
(* main: setup_flash_disk and setup_usb_msc *)

\* Only what a step of main can change besides mpc.
MainStep(from, to) == mpc = from /\ mpc' = to
MainFails(from) == DriverFaults /\ MainStep(from, "dead")

BootMounts ==
  /\ MainStep("mount", "ensure")
  /\ mounted' = TRUE /\ view' = disk
  /\ UNCHANGED <<saVars, diskVars, attempt, lastHost, pending, othersVars>>

\* A failed mount is answered by fs_mkfs: the volume starts over, without hosts.txt.
BootFormats ==
  /\ DriverFaults
  /\ MainStep("mount", "ensure")
  /\ disk' = NoFile
  /\ mounted' = TRUE /\ view' = NoFile
  /\ UNCHANGED <<saVars, edits, typed, attempt, lastHost, pending, othersVars>>

\* Any failure to open hosts.txt leads to creating it, a missing file among them.
EnsureOpens ==
  /\ \/ MainStep("ensure", "read") /\ disk # NoFile
     \/ MainStep("ensure", "fill") /\ (disk = NoFile \/ DriverFaults)
  /\ UNCHANGED <<saVars, diskVars, fsVars, attempt, lastHost, pending, othersVars>>

EnsureWrites ==
  /\ MainStep("fill", "read")
  /\ disk' \in Filled /\ view' = disk'
  /\ UNCHANGED <<saVars, edits, typed, mounted, attempt, lastHost, pending, othersVars>>

\* Mutant: the text is handed to the store, but not kept in last_host_value.
BootReadsAndForgets ==
  /\ MainStep("read", "init")
  /\ unsure' = FALSE /\ UNCHANGED lastHost
  /\ SA!InitRejects(disk) \/ SA!InitCalled(disk)
  /\ UNCHANGED <<diskVars, fsVars, attempt, pending, notMain>>

\* read_hosts into last_host_value, then serv_addr_init on it.
BootReads ==
  /\ MainStep("read", "init")
  /\ lastHost' = disk /\ unsure' = FALSE
  /\ SA!InitRejects(disk) \/ SA!InitCalled(disk)
  /\ UNCHANGED <<diskVars, fsVars, attempt, pending, notMain>>

\* The call returned: an error ends main, with USB still down.
BootInitialised ==
  /\ \/ pc = "idle" /\ MainStep("init", "usb")
     \/ pc = "failed" /\ MainStep("init", "dead")
  /\ pending' = FALSE
  /\ UNCHANGED <<saVars, diskVars, fsVars, attempt, lastHost, othersVars>>

\* Descriptors, configurations, classes, usbd_init, the callback, usbd_enable.
SetupUsbMsc ==
  /\ MainStep("usb", "session")
  /\ UNCHANGED <<saVars, diskVars, fsVars, attempt, lastHost, pending, othersVars>>

\* A driver error before USB is up ends main; the disk may have been formatted, and hosts.txt
\* created or overwritten in part.
BootFails ==
  /\ \/ MainFails("mount") /\ disk' \in {disk, NoFile}
     \/ MainFails("fill") /\ disk' \in HalfFilled
     \/ (MainFails("ensure") \/ MainFails("read") \/ MainFails("usb")) /\ UNCHANGED disk
  /\ UNCHANGED <<saVars, edits, typed, fsVars, attempt, lastHost, pending, othersVars>>

----
(* main: the session at boot, up to GPSEC_RETRIES attempts *)

SessionDials ==
  /\ MainStep("session", "talk")
  /\ UNCHANGED <<saVars, diskVars, fsVars, attempt, lastHost, pending, othersVars>>

SessionEnds ==
  /\ \/ MainStep("talk", "loop") /\ UNCHANGED attempt
     \/ attempt < GPSEC_RETRIES /\ MainStep("talk", "backoff") /\ attempt' = attempt + 1
  /\ UNCHANGED <<saVars, diskVars, fsVars, lastHost, pending, othersVars>>

BackoffEnds ==
  /\ MainStep("backoff", "session")
  /\ UNCHANGED <<saVars, diskVars, fsVars, attempt, lastHost, pending, othersVars>>

----
(* main: refresh_hosts_if_needed and the loop around it *)

\* An early return of the refresh: the pending flag is already cleared.
GivesUp(from) == MainStep(from, "sleep") /\ unsure' = TRUE

\* Mutant: a pending eject is looked at only while the cable is in.
LoopChecksIfAttached ==
  /\ \/ MainStep("loop", "unmount") /\ connected /\ pending /\ pending' = FALSE
     \/ MainStep("loop", "sleep") /\ ~(connected /\ pending) /\ UNCHANGED pending
  /\ UNCHANGED <<saVars, diskVars, fsVars, attempt, lastHost, othersVars>>

LoopChecks ==
  /\ \/ MainStep("loop", "unmount") /\ (connected \/ pending) /\ pending
     \/ MainStep("loop", "sleep") /\ ~pending
  /\ pending' = FALSE
  /\ UNCHANGED <<saVars, diskVars, fsVars, attempt, lastHost, othersVars>>

\* fs_unmount fails if an earlier remount failed: nothing is mounted.
Unmounts ==
  /\ \/ MainStep("unmount", "remount") /\ mounted /\ mounted' = FALSE /\ UNCHANGED unsure
     \/ GivesUp("unmount") /\ (~mounted \/ DriverFaults) /\ UNCHANGED mounted
  /\ UNCHANGED <<saVars, diskVars, view, attempt, lastHost, pending, notMain>>

Remounts ==
  /\ \/ MainStep("remount", "reread") /\ mounted' = TRUE /\ view' = disk /\ UNCHANGED unsure
     \/ GivesUp("remount") /\ DriverFaults /\ UNCHANGED fsVars
  /\ UNCHANGED <<saVars, diskVars, attempt, lastHost, pending, notMain>>

\* A missing or unreadable hosts.txt ends the refresh; lastHost stays.
RereadFails ==
  /\ GivesUp("reread")
  /\ disk = NoFile \/ DriverFaults
  /\ view' = disk
  /\ UNCHANGED <<saVars, diskVars, mounted, attempt, lastHost, pending, notMain>>

\* Unchanged, empty or malformed content is at most remembered.
RereadKeeps ==
  /\ MainStep("reread", "sleep")
  /\ disk # NoFile
  /\ disk = lastHost \/ disk \notin Addr
  /\ view' = disk /\ lastHost' = disk
  /\ UNCHANGED <<saVars, diskVars, mounted, attempt, pending, othersVars>>

\* New well-formed content is handed to serv_addr_try_promote; arg holds it during the call.
RereadPromotes ==
  /\ mpc = "reread" /\ disk \in Addr /\ disk # lastHost
  /\ view' = disk
  /\ SA!Promote(disk)
  /\ IF pc' = "probe" THEN mpc' = "promote" /\ UNCHANGED lastHost
                      ELSE mpc' = "sleep" /\ lastHost' = disk
  /\ UNCHANGED <<diskVars, mounted, attempt, pending, othersVars>>

\* Mutant: the pending flag is cleared when the work is done, not before it starts.
PromoteReturnsAndClears ==
  /\ MainStep("promote", "sleep") /\ pc = "idle"
  /\ lastHost' = arg /\ pending' = FALSE
  /\ UNCHANGED <<saVars, diskVars, fsVars, attempt, othersVars>>

\* The content is remembered whether or not the promotion succeeded.
PromoteReturns ==
  /\ MainStep("promote", "sleep") /\ pc = "idle"
  /\ lastHost' = arg
  /\ UNCHANGED <<saVars, diskVars, fsVars, attempt, pending, othersVars>>

Wakes ==
  /\ MainStep("sleep", "loop")
  /\ UNCHANGED <<saVars, diskVars, fsVars, attempt, lastHost, pending, othersVars>>

\* A step of the serv_addr.c call main is in.
CallStep ==
  /\ mpc \in {"init", "promote"} /\ SA!CallStep
  /\ UNCHANGED <<diskVars, fsVars, mainVars, pending, othersVars>>

MainNext ==
  \/ BootMounts \/ BootFormats \/ EnsureOpens \/ EnsureWrites \/ BootReads
  \/ BootInitialised \/ SetupUsbMsc \/ BootFails
  \/ SessionDials \/ SessionEnds \/ BackoffEnds
  \/ LoopChecks \/ Unmounts \/ Remounts \/ RereadFails \/ RereadKeeps \/ RereadPromotes
  \/ PromoteReturns \/ Wakes \/ CallStep

----
(* consumer_thread *)

ConsumerWakes ==
  /\ MainBlocked /\ cpc = "wait" /\ sem = 1
  /\ sem' = 0 /\ cpc' = "read"
  /\ UNCHANGED <<cport, ipIsStack, stackHost, servPort, notConsumer>>

\* read_hosts without a remount sees the cached file or the raw disk, or fails; then
\* parse_host_port fills the local buffer before it looks at the port.
ConsumerReads ==
  /\ MainBlocked /\ cpc = "read"
  /\ \E line \in {view, disk, NoFile} :
       /\ line = NoFile => (~mounted \/ DriverFaults \/ NoFile \in {view, disk})
       /\ line # NoFile => mounted
       /\ stackHost' = IF line \in Addr \cup (Malformed \ {Garbage}) THEN line.host ELSE stackHost
       /\ IF line \in Addr THEN cport' = line.port /\ cpc' = "ip"
                           ELSE cport' = cport /\ cpc' = "wait"
  /\ UNCHANGED <<sem, ipIsStack, servPort, notConsumer>>

ConsumerSetsIp ==
  /\ MainBlocked /\ cpc = "ip"
  /\ ipIsStack' = TRUE /\ cpc' = "port"
  /\ UNCHANGED <<sem, cport, stackHost, servPort, notConsumer>>

ConsumerSetsPort ==
  /\ MainBlocked /\ cpc = "port"
  /\ servPort' = cport /\ cpc' = "wait"
  /\ UNCHANGED <<sem, cport, ipIsStack, stackHost, notConsumer>>

ConsumerNext == ConsumerWakes \/ ConsumerReads \/ ConsumerSetsIp \/ ConsumerSetsPort

----
(* The host, through usb_msg_cb and usbd_msc_medium_event, and the power *)

HostAttaches ==
  /\ UsbIsUp /\ ~connected
  /\ connected' = TRUE /\ loaded' = TRUE
  /\ UNCHANGED <<diskVars, pending, unsure, sem, notHost>>

\* The cable goes without an eject: VBUS_REMOVED, and no medium event.
HostPullsCable ==
  /\ connected
  /\ connected' = FALSE /\ loaded' = FALSE
  /\ UNCHANGED <<diskVars, pending, unsure, sem, notHost>>

HostReloads ==
  /\ connected /\ ~loaded
  /\ loaded' = TRUE
  /\ UNCHANGED <<diskVars, pending, connected, unsure, sem, notHost>>

HostWrites(line) ==
  /\ loaded /\ edits < EditLimit /\ line # disk
  /\ disk' = line /\ edits' = edits + 1 /\ typed' = typed \cup {line} /\ unsure' = TRUE
  /\ UNCHANGED <<pending, connected, loaded, sem, notHost>>

\* Mutant: the semaphore counts ejects instead of saturating at one.
HostEjectsCounts ==
  /\ loaded
  /\ loaded' = FALSE /\ unsure' = FALSE
  /\ pending' = TRUE /\ sem' = sem + 1
  /\ UNCHANGED <<diskVars, connected, notHost>>

HostEjects ==
  /\ loaded
  /\ loaded' = FALSE /\ unsure' = FALSE
  /\ pending' = TRUE /\ sem' = 1
  /\ UNCHANGED <<diskVars, connected, notHost>>

HostNext ==
  \/ HostAttaches \/ HostPullsCable \/ HostReloads \/ HostEjects
  \/ \E line \in Lines : HostWrites(line)

\* Creating hosts.txt and filling it are not one step for the disk.
PowerCut ==
  /\ cuts < CutLimit /\ cuts' = cuts + 1
  /\ PowerOn
  /\ IF pc = "down" THEN UNCHANGED saVars ELSE SA!PowerLoss
  /\ disk' \in IF mpc = "fill" THEN HalfFilled ELSE {disk}
  /\ typed' = {}
  /\ UNCHANGED <<edits, unsure>>

Next == MainNext \/ ConsumerNext \/ HostNext \/ PowerCut

\* main and the flash and network operations it waits for always come to an end, and its
\* one-second sleeps give the consumer the processor again and again.
Fairness == WF_vars(MainNext) /\ SF_vars(ConsumerNext)

Spec == Init /\ [][Next]_vars
FairSpec == Spec /\ Fairness

----
(* Properties *)

\* The refresh loses no eject: once main is back in its loop with nothing pending, what it
\* remembers is what the disk holds, unless the host has written since it last ejected or the
\* refresh gave up on an error.  An eject that arrives in the middle of a refresh must not be
\* swallowed (usb.c:121-124, refresh_hosts_if_needed).
NoEjectIsLost ==
  mpc \in {"loop", "sleep"} /\ ~pending /\ ~unsure => lastHost = disk

\* Every eject is followed by a refresh that brings lastHost to the ejected content, unless
\* the host writes again, deletes the file, or the power fails (main loop).
EjectIsProcessed ==
  mpc # "dead" /\ pending /\ ~unsure
    ~> \/ lastHost = disk \/ unsure \/ mpc \in BootPc \cup {"dead"}

\* docs/usb-hid-dev-guide.md:347-351: a business module gets the address to connect to from
\* get_serv_addr(), the active address.
DialsActiveAddress == [][mpc # "talk" /\ mpc' = "talk" => Target = active]_vars

\* docs/usb-hid-dev-guide.md:23: a changed hosts.txt is probed, and becomes the active address
\* if the probe succeeds.  Stated weakly: content that stays on the disk while the user keeps
\* ejecting is at some time active or probed.
EditIsProbed ==
  \A line \in Lines \cap Addr :
    <>[](disk = line) /\ []<>pending
      => <>(active = line \/ (pc = "probe" /\ arg = line))
====
