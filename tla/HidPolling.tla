----------------------------- MODULE HidPolling -----------------------------
(***************************************************************************)
(* The firmware of src/src/main_hid.c around the store of serv_addr.c: no  *)
(* eject events and no second thread, but a poll.  Every three seconds     *)
(* main remounts the disk, reads hosts.txt and, if the text is another     *)
(* than the last one, hands it to serv_addr_try_promote.                   *)
(*                                                                         *)
(* The PC writes raw sectors at any time, and what it writes (content,     *)
(* directory entry, allocation table) arrives piece by piece: a poll may   *)
(* find the file missing, empty, cut short, or a well-formed line that     *)
(* nobody meant.                                                           *)
(***************************************************************************)
EXTENDS HostsFile

CONSTANTS
  NoEdit,                   \* the PC is not writing
  FaultLimit                \* bound on errors from the disk, the file system and USB

ASSUME FaultAssumption == FaultLimit \in Nat

VARIABLES
  edit,                     \* what the PC is in the middle of writing
  faults                    \* bounded counter

diskVars == <<disk, edit, edits, typed>>
mainVars == <<mounted, mpc, lastHost>>
vars == <<saVars, diskVars, mainVars, faults, cuts>>

UsbIsUp == mpc \in {"sleep", "unmount", "remount", "reread", "promote"}

PowerOn == mounted' = FALSE /\ mpc' = "disk" /\ lastHost' = NoText

Init ==
  /\ SA!SAInit
  /\ disk = NoFile /\ edit = NoEdit
  /\ mounted = FALSE /\ mpc = "disk" /\ lastHost = NoText
  /\ faults = 0 /\ edits = 0 /\ cuts = 0 /\ typed = {}

\* A step of main that leaves the store alone, without and with an error.
Goes(from, to) == mpc = from /\ mpc' = to /\ UNCHANGED <<saVars, edit, edits, typed, faults, cuts>>
Errs(from, to) ==
  /\ mpc = from /\ mpc' = to
  /\ faults < FaultLimit /\ faults' = faults + 1
  /\ UNCHANGED <<saVars, edit, edits, typed, cuts>>

----------------------------------------------------------------------------
(* setup_flash_disk and setup_usb_msc: an error ends main, but for that of the first mount *)

DiskInit ==
  /\ Goes("disk", "mount") \/ Errs("disk", "dead")
  /\ UNCHANGED <<disk, mounted, lastHost>>

\* A mount that fails is answered by formatting, and a second mount.
BootMounts ==
  /\ \/ Goes("mount", "ensure") /\ mounted' = TRUE /\ UNCHANGED disk
     \/ Errs("mount", "ensure") /\ mounted' = TRUE /\ disk' = NoFile
     \/ Errs("mount", "dead") /\ UNCHANGED mounted /\ disk' \in {disk, NoFile}
  /\ UNCHANGED lastHost

\* Any failure to open hosts.txt leads to creating it.
EnsureOpens ==
  /\ \/ Goes("ensure", "read") /\ disk # NoFile
     \/ Goes("ensure", "fill") /\ disk = NoFile
     \/ Errs("ensure", "fill")
  /\ UNCHANGED <<disk, mounted, lastHost>>

EnsureWrites ==
  /\ \/ Goes("fill", "read") /\ disk' \in Filled
     \/ Errs("fill", "dead") /\ disk' \in HalfFilled
  /\ UNCHANGED <<mounted, lastHost>>

\* Mutant: the text is handed to the store, but not kept in last_host_value.
BootReadsAndForgets ==
  \/ /\ mpc = "read" /\ mpc' = "init" /\ UNCHANGED lastHost
     /\ SA!InitRejects(disk) \/ SA!InitCalled(disk)
     /\ UNCHANGED <<diskVars, mounted, faults, cuts>>
  \/ Errs("read", "dead") /\ UNCHANGED <<disk, mounted, lastHost>>

\* read_hosts into last_host_value, then serv_addr_init on it.
BootReads ==
  \/ /\ mpc = "read" /\ mpc' = "init" /\ lastHost' = disk
     /\ SA!InitRejects(disk) \/ SA!InitCalled(disk)
     /\ UNCHANGED <<diskVars, mounted, faults, cuts>>
  \/ Errs("read", "dead") /\ UNCHANGED <<disk, mounted, lastHost>>

BootInitialised ==
  /\ \/ Goes("init", "usb") /\ pc = "idle"
     \/ Goes("init", "dead") /\ pc = "failed"
  /\ UNCHANGED <<disk, mounted, lastHost>>

\* Descriptors, configurations, classes, usbd_init, usbd_enable.
SetupUsbMsc ==
  /\ Goes("usb", "sleep") \/ Errs("usb", "dead")
  /\ UNCHANGED <<disk, mounted, lastHost>>

----------------------------------------------------------------------------
(* The loop and refresh_hosts_if_changed *)

Wakes == Goes("sleep", "unmount") /\ UNCHANGED <<disk, mounted, lastHost>>

\* fs_unmount fails for good after a remount that failed: nothing is mounted.
Unmounts ==
  /\ \/ Goes("unmount", "remount") /\ mounted /\ mounted' = FALSE
     \/ Goes("unmount", "sleep") /\ ~mounted /\ UNCHANGED mounted
     \/ Errs("unmount", "sleep") /\ UNCHANGED mounted
  /\ UNCHANGED <<disk, lastHost>>

Remounts ==
  /\ \/ Goes("remount", "reread") /\ mounted' = TRUE
     \/ Errs("remount", "sleep") /\ UNCHANGED mounted
  /\ UNCHANGED <<disk, lastHost>>

\* A missing or unreadable file is looked at again by the next poll.
RereadFails ==
  /\ \/ Goes("reread", "sleep") /\ disk = NoFile
     \/ Errs("reread", "sleep")
  /\ UNCHANGED <<disk, mounted, lastHost>>

RereadSame ==
  /\ Goes("reread", "sleep") /\ disk = lastHost
  /\ UNCHANGED <<disk, mounted, lastHost>>

\* Mutant: the file is read into last_host_value itself, which then never differs.
RereadOverLast ==
  /\ Goes("reread", "sleep") /\ disk \notin {lastHost, NoFile}
  /\ lastHost' = disk
  /\ UNCHANGED <<disk, mounted>>

\* Any other text goes to the store, the empty one and malformed ones too.
RereadPromotes ==
  /\ mpc = "reread" /\ disk \notin {lastHost, NoFile}
  /\ SA!Promote(disk)
  /\ IF pc' = "probe" THEN mpc' = "promote" /\ UNCHANGED lastHost
                      ELSE mpc' = "sleep" /\ lastHost' = disk
  /\ UNCHANGED <<diskVars, mounted, faults, cuts>>

\* Whatever the store returned, the text is remembered.
PromoteReturns ==
  /\ Goes("promote", "sleep") /\ pc = "idle"
  /\ lastHost' = arg
  /\ UNCHANGED <<disk, mounted>>

\* A step of the serv_addr.c call main is in.
CallStep ==
  /\ mpc \in {"init", "promote"} /\ SA!CallStep
  /\ UNCHANGED <<diskVars, mainVars, faults, cuts>>

MainNext ==
  \/ DiskInit \/ BootMounts \/ EnsureOpens \/ EnsureWrites \/ BootReads \/ BootInitialised
  \/ SetupUsbMsc
  \/ Wakes \/ Unmounts \/ Remounts \/ RereadFails \/ RereadSame \/ RereadPromotes
  \/ PromoteReturns \/ CallStep

----------------------------------------------------------------------------
(* The PC and the power *)

\* What a poll may find while line is being written.
Pieces(line) ==
  {NoFile, NoText, Garbage}
    \cup IF line \in Addr THEN [host : {line.host}, port : PortNo \cup {BadPort}] ELSE {}

HostBegins(line) ==
  /\ UsbIsUp /\ edit = NoEdit /\ edits < EditLimit /\ line # disk
  /\ edit' = line /\ edits' = edits + 1
  /\ disk' \in Pieces(line) /\ typed' = typed \cup {disk'}
  /\ UNCHANGED <<saVars, mainVars, faults, cuts>>

HostEnds ==
  /\ UsbIsUp /\ edit # NoEdit
  /\ disk' = edit /\ edit' = NoEdit /\ typed' = typed \cup {disk'}
  /\ UNCHANGED <<saVars, mainVars, edits, faults, cuts>>

\* An edit under way is lost with the power; so may be the default just being written.
PowerCut ==
  /\ cuts < CutLimit /\ cuts' = cuts + 1
  /\ PowerOn /\ edit' = NoEdit /\ typed' = {}
  /\ IF pc = "down" THEN UNCHANGED saVars ELSE SA!PowerLoss
  /\ disk' \in IF mpc = "fill" THEN HalfFilled ELSE {disk}
  /\ UNCHANGED <<edits, faults>>

Next ==
  \/ MainNext \/ PowerCut \/ HostEnds
  \/ \E line \in Lines : HostBegins(line)

\* Nothing but main runs; its sleeps end, and flash, disk and network calls return.
Spec == Init /\ [][Next]_vars /\ WF_vars(MainNext)

----------------------------------------------------------------------------
(* Properties *)

(* main_hid.c:321-402: a text that a sleeping main has not seen yet is probed by
   some later poll, if it is not active already, even after polls that failed or
   picked up a piece of it, unless it is changed again, the power fails, or a
   remount has failed, after which no poll reads the disk again. *)
EditIsTried ==
  \A line \in Lines \cap (Addr \cup Malformed) :
    mpc = "sleep" /\ disk = line /\ lastHost # line
      ~> \/ active = line
         \/ pc = "probe" /\ arg = line
         \/ disk # line \/ ~UsbIsUp
         \/ mpc = "sleep" /\ ~mounted
=============================================================================
