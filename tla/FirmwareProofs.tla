--------------------------- MODULE FirmwareProofs ---------------------------
(***************************************************************************)
(* Proofs about the two firmwares around the address store, for any hosts, *)
(* ports and lines and any number of edits, errors and losses of power:    *)
(* of HidMain its types and that no eject is lost; of both, that they call *)
(* the store only when ServAddr allows it, and that a record outlives the  *)
(* disk it came from.                                                      *)
(*                                                                         *)
(* The calls of the store do not look at where the store is, so that they  *)
(* come at the right time has to be proved, from the place of main.  With  *)
(* that, what ServAddrProofs proves of the store holds in both firmwares.  *)
(***************************************************************************)
EXTENDS HidMain, TLAPS

(* The other firmware, over the same hosts.txt and the same store. *)
CONSTANTS NoEdit, FaultLimit
VARIABLES edit, faults

Poll == INSTANCE HidPolling

(* The store, with what is proved of it. *)
SP == INSTANCE ServAddrProofs

(* The types of everything but the store. *)
OwnTypes ==
  /\ disk \in Content /\ view \in Content
  /\ mounted \in BOOLEAN /\ mpc \in MainPc /\ attempt \in 1..GPSEC_RETRIES
  /\ lastHost \in Addr \cup Malformed \cup {NoText}
  /\ pending \in BOOLEAN /\ connected \in BOOLEAN /\ loaded \in BOOLEAN /\ unsure \in BOOLEAN
  /\ sem \in 0..1 /\ cpc \in {"wait", "read", "ip", "port"} /\ cport \in PortNo
  /\ ipIsStack \in BOOLEAN /\ stackHost \in HostName /\ servPort \in PortNo
  /\ edits \in 0..EditLimit /\ cuts \in 0..CutLimit /\ typed \subseteq Content

(* Before USB is up no host can touch the disk. *)
BootIsAlone == mpc \in BootPc \cup {"dead"} => ~pending /\ ~connected /\ ~loaded

(* NoEjectIsLost from the first read of the boot on: outside a refresh main
   remembers what the disk holds, and within a promotion the address on its
   way to lastHost is what the disk holds. *)
Settled == {"init", "usb", "session", "talk", "backoff", "loop", "sleep"}
Remembers ==
  ~pending /\ ~unsure =>
    /\ mpc \in Settled => lastHost = disk
    /\ mpc = "promote" => arg = disk

(* The address on its way to lastHost is one. *)
PromotesText == mpc = "promote" => arg \in Addr

HidInv == OwnTypes /\ BootIsAlone /\ Remembers /\ PromotesText

----------------------------------------------------------------------------
(* A step of a call of the store keeps the address it was called with. *)
LEMMA CallKeepsArg == SA!CallStep => arg' = arg
BY DEF SA!CallStep, SA!LoadHit, SA!LoadMiss, SA!ProbeAnswers, SA!ProbeFails, SA!SaveStep,
       SA!EraseDone, SA!EraseFails, SA!WriteDone, SA!WriteFails, SA!SaveFails, SA!Commit

(* The compiled-in address has a host and a port. *)
LEMMA DefaultParts == DefaultHost \in HostName /\ DefaultPort \in PortNo
BY LinesAssumption DEF DefaultLine, Addr

(* A line cannot be both well-formed and malformed. *)
LEMMA TextsDiffer ==
  /\ Addr \cap Malformed = {}
  /\ \A line \in Addr : line.host \in HostName /\ line.port \in PortNo
  /\ \A line \in Malformed \ {Garbage} : line.host \in HostName
BY LinesAssumption DEF Addr, Malformed

(* What the firmwares write is a text, too, or no file. *)
LEMMA WritesContent ==
  /\ Filled \subseteq Content
  /\ disk \in Content => HalfFilled \subseteq Content
BY LinesAssumption DEF Filled, HalfFilled, Content, Malformed

(* HidInv holds when the power comes on for the first time. *)
LEMMA HidInitInv == Init => HidInv
<1> SUFFICES ASSUME Init PROVE HidInv
  OBVIOUS
<1>1. /\ pending \in BOOLEAN /\ connected \in BOOLEAN /\ loaded \in BOOLEAN /\ unsure \in BOOLEAN
      /\ mounted \in BOOLEAN /\ ipIsStack \in BOOLEAN /\ ~pending /\ ~connected /\ ~loaded
  BY Zenon DEF Init
<1>2. /\ disk = NoFile /\ edits = 0 /\ cuts = 0 /\ view = NoFile /\ mpc = "mount" /\ attempt = 1
      /\ lastHost = NoText /\ sem = 0 /\ cpc = "wait" /\ cport = DefaultPort
      /\ stackHost = DefaultHost /\ servPort = DefaultPort /\ typed = {}
  BY Zenon DEF Init
<1>3. QED
  BY <1>1, <1>2, DefaultParts, BoundsAssumption
  DEF HidInv, OwnTypes, Content, BootIsAlone, Remembers, PromotesText, Settled, MainPc,
      BootPc, GPSEC_RETRIES

(* Main keeps the invariant, one step of it at a time. *)
LEMMA MainKeepsInv == HidInv /\ (mpc = "reread" => pc = "idle") /\ MainNext => HidInv'
<1> SUFFICES ASSUME HidInv, mpc = "reread" => pc = "idle", MainNext PROVE HidInv'
  OBVIOUS
<1> USE DEF HidInv, OwnTypes, Content, BootIsAlone, Remembers, PromotesText, Settled, MainPc,
            BootPc, GPSEC_RETRIES, MainStep, MainFails, GivesUp,
            diskVars, fsVars, mainVars, usbVars, consumerVars, saVars, notMain, othersVars
<1>1. CASE BootMounts BY <1>1 DEF BootMounts
<1>2. CASE BootFormats BY <1>2 DEF BootFormats
<1>3. CASE EnsureOpens BY <1>3 DEF EnsureOpens
<1>4. CASE EnsureWrites
  BY <1>4, WritesContent DEF EnsureWrites
<1>5. CASE BootReads
  BY <1>5 DEF BootReads, SA!InitRejects, SA!InitCalled, SA!Text
<1>6. CASE BootInitialised
  <2>1. pending' \in BOOLEAN /\ ~pending'
    BY <1>6, Zenon DEF BootInitialised
  <2>2. /\ mpc = "init" /\ mpc' \in {"usb", "dead"}
        /\ UNCHANGED <<diskVars, fsVars, attempt, lastHost, othersVars>>
    BY <1>6, Zenon DEF BootInitialised
  <2>3. QED BY <2>1, <2>2
<1>7. CASE SetupUsbMsc BY <1>7 DEF SetupUsbMsc
<1>8. CASE BootFails BY <1>8, WritesContent DEF BootFails
<1>9. CASE SessionDials BY <1>9 DEF SessionDials
<1>10. CASE SessionEnds BY <1>10 DEF SessionEnds
<1>11. CASE BackoffEnds BY <1>11 DEF BackoffEnds
<1>12. CASE LoopChecks
  <2>1. pending' \in BOOLEAN /\ ~pending'
    BY <1>12, Zenon DEF LoopChecks
  <2>2. /\ mpc = "loop" /\ (mpc' = "unmount" \/ (mpc' = "sleep" /\ ~pending))
        /\ UNCHANGED <<diskVars, fsVars, attempt, lastHost, othersVars>>
    BY <1>12, Zenon DEF LoopChecks
  <2>3. QED BY <2>1, <2>2
<1>13. CASE Unmounts
  <2>1. mounted' \in BOOLEAN /\ unsure' \in BOOLEAN
    BY <1>13, Zenon DEF Unmounts
  <2>2. /\ mpc = "unmount" /\ (mpc' = "remount" \/ (mpc' = "sleep" /\ unsure'))
        /\ UNCHANGED <<diskVars, view, attempt, lastHost, pending, notMain>>
    BY <1>13, Zenon DEF Unmounts
  <2>3. QED BY <2>1, <2>2
<1>14. CASE Remounts
  <2>1. mounted' \in BOOLEAN /\ unsure' \in BOOLEAN
    BY <1>14, Zenon DEF Remounts
  <2>2. /\ mpc = "remount" /\ (mpc' = "reread" \/ (mpc' = "sleep" /\ unsure'))
        /\ view' \in {view, disk}
        /\ UNCHANGED <<diskVars, attempt, lastHost, pending, notMain>>
    BY <1>14, Zenon DEF Remounts
  <2>3. QED BY <2>1, <2>2
<1>15. CASE RereadFails BY <1>15 DEF RereadFails
<1>16. CASE RereadKeeps BY <1>16 DEF RereadKeeps
<1>17. CASE RereadPromotes
  BY <1>17
  DEF RereadPromotes, SA!Promote, SA!PromoteRejects, SA!PromoteSame, SA!PromoteProbes
<1>18. CASE PromoteReturns BY <1>18 DEF PromoteReturns
<1>19. CASE Wakes BY <1>19 DEF Wakes
<1>20. CASE CallStep BY <1>20, CallKeepsArg DEF CallStep
<1>21. QED
  BY <1>1, <1>2, <1>3, <1>4, <1>5, <1>6, <1>7, <1>8, <1>9, <1>10, <1>11, <1>12, <1>13,
     <1>14, <1>15, <1>16, <1>17, <1>18, <1>19, <1>20 DEF MainNext

(* The consumer thread keeps it: it only reads what the others share. *)
LEMMA ConsumerKeepsInv == HidInv /\ ConsumerNext => HidInv'
<1> SUFFICES ASSUME HidInv, ConsumerNext PROVE HidInv'
  OBVIOUS
<1> USE DEF HidInv, OwnTypes, Content, BootIsAlone, Remembers, PromotesText, Settled,
            diskVars, fsVars, mainVars, usbVars, saVars, notConsumer
<1>1. CASE ConsumerWakes BY <1>1 DEF ConsumerWakes
<1>2. CASE ConsumerReads
  <2>1. PICK line \in {view, disk, NoFile} :
          /\ stackHost' = IF line \in Addr \cup (Malformed \ {Garbage}) THEN line.host
                                                                        ELSE stackHost
          /\ IF line \in Addr THEN cport' = line.port /\ cpc' = "ip"
                              ELSE cport' = cport /\ cpc' = "wait"
    BY <1>2 DEF ConsumerReads
  <2>2. stackHost' \in HostName /\ cport' \in PortNo /\ cpc' \in {"ip", "wait"}
    BY <2>1, TextsDiffer
  <2>3. QED BY <1>2, <2>2 DEF ConsumerReads
<1>3. CASE ConsumerSetsIp BY <1>3 DEF ConsumerSetsIp
<1>4. CASE ConsumerSetsPort BY <1>4 DEF ConsumerSetsPort
<1>5. QED BY <1>1, <1>2, <1>3, <1>4 DEF ConsumerNext

(* The host keeps it: what it writes is uncertain until it ejects, and then pending. *)
LEMMA HostKeepsInv == HidInv /\ HostNext => HidInv'
<1> SUFFICES ASSUME HidInv, HostNext PROVE HidInv'
  OBVIOUS
<1> USE DEF HidInv, OwnTypes, Content, BootIsAlone, Remembers, PromotesText, Settled, UsbIsUp,
            diskVars, fsVars, mainVars, consumerVars, saVars, notHost
<1>1. CASE HostAttaches BY <1>1 DEF HostAttaches
<1>2. CASE HostPullsCable
  <2>1. /\ connected' \in BOOLEAN /\ loaded' \in BOOLEAN /\ ~connected' /\ ~loaded'
        /\ UNCHANGED <<diskVars, pending, unsure, sem, notHost>>
    BY <1>2, Zenon DEF HostPullsCable
  <2>2. QED BY <2>1
<1>3. CASE HostReloads BY <1>3 DEF HostReloads
<1>4. CASE HostEjects
  <2>1. /\ loaded /\ loaded' \in BOOLEAN /\ unsure' \in BOOLEAN /\ pending' \in BOOLEAN /\ pending'
        /\ sem' = 1 /\ UNCHANGED <<diskVars, connected, notHost>>
    BY <1>4, Zenon DEF HostEjects
  <2>2. QED BY <2>1
<1>5. ASSUME NEW line \in Lines, HostWrites(line) PROVE HidInv'
  BY <1>5, LinesAssumption, BoundsAssumption DEF HostWrites
<1>6. QED BY <1>1, <1>2, <1>3, <1>4, <1>5 DEF HostNext

(* A loss of power keeps it. *)
LEMMA PowerCutKeepsInv == HidInv /\ PowerCut => HidInv'
<1> SUFFICES ASSUME HidInv, PowerCut PROVE HidInv'
  OBVIOUS
<1>1. /\ mounted' \in BOOLEAN /\ ipIsStack' \in BOOLEAN
      /\ pending' \in BOOLEAN /\ connected' \in BOOLEAN /\ loaded' \in BOOLEAN
      /\ ~pending' /\ ~connected' /\ ~loaded'
  BY Zenon DEF PowerCut, PowerOn
<1>2. /\ view' = NoFile /\ mpc' = "mount" /\ attempt' = 1 /\ lastHost' = NoText
      /\ sem' = 0 /\ cpc' = "wait" /\ cport' = DefaultPort
      /\ stackHost' = DefaultHost /\ servPort' = DefaultPort
      /\ UNCHANGED <<edits, unsure>>
  BY Zenon DEF PowerCut, PowerOn
<1>3. disk' \in Content /\ typed' = {} /\ cuts < CutLimit /\ cuts' = cuts + 1
  BY WritesContent DEF PowerCut, HidInv, OwnTypes
<1>4. QED
  BY <1>1, <1>2, <1>3, DefaultParts, BoundsAssumption
  DEF HidInv, OwnTypes, Content, BootIsAlone, Remembers, PromotesText, Settled, MainPc,
      BootPc, GPSEC_RETRIES

----------------------------------------------------------------------------
(* The store in both firmwares *)

(* Where main is, by what the store may be doing meanwhile. *)
BeforeRead == {"disk", "mount", "ensure", "fill", "read"}
Running == {"usb", "session", "talk", "backoff", "loop", "unmount", "remount", "reread", "sleep"}

(* The store is down until main has read hosts.txt, and between calls from then
   on; only within init and promote is it anywhere else. *)
InPlace ==
  /\ mpc \in BeforeRead \cup Running \cup {"init", "promote", "dead"}
  /\ mpc \in BeforeRead => pc = "down"
  /\ mpc = "init" => pc \in {"load", "idle", "failed"} \cup SP!SavePc /\ (pc # "idle" => ~valid)
  /\ mpc \in Running => pc = "idle"
  /\ mpc = "dead" => pc \in {"down", "idle", "failed"}
  /\ pc = "down" => ~valid

(* Main remembers what the disk holds, or the host has put it there since; and
   what it asks the store to promote, the host has put there. *)
KnowsDisk ==
  /\ mpc \in Running \cup {"init", "promote"} => disk = lastHost \/ disk \in typed
  /\ mpc = "promote" => arg \in typed /\ disk \in typed

(* The store of the firmwares is that of ServAddrProofs. *)
LEMMA ProvedStore ==
  /\ SA!SAInit => SP!SAInit
  /\ SA!CallStep => SP!CallStep
  /\ [SA!SANext]_SA!saVars => [SP!SANext]_SP!saVars
<1> USE DEF SA!Text, SP!Text
<1>1. SA!SAInit => SP!SAInit
  BY DEF SA!SAInit, SP!SAInit
<1>2. \A h : SA!InitRejects(h) => SP!InitRejects(h)
  BY DEF SA!InitRejects, SP!InitRejects
<1>3. \A h : SA!InitCalled(h) => SP!InitCalled(h)
  BY DEF SA!InitCalled, SP!InitCalled
<1>4. \A h : SA!Promote(h) => SP!Promote(h)
  BY DEF SA!Promote, SA!PromoteRejects, SA!PromoteSame, SA!PromoteProbes,
         SP!Promote, SP!PromoteRejects, SP!PromoteSame, SP!PromoteProbes
<1>5. SA!LoadHit \/ SA!LoadMiss => SP!LoadHit \/ SP!LoadMiss
  BY DEF SA!LoadHit, SA!LoadMiss, SA!Intact, SP!LoadHit, SP!LoadMiss, SP!Intact
<1>6. SA!ProbeAnswers \/ SA!ProbeFails => SP!ProbeAnswers \/ SP!ProbeFails
  BY DEF SA!ProbeAnswers, SA!ProbeFails, SP!ProbeAnswers, SP!ProbeFails
<1>7. SA!SaveStep => SP!SaveStep
  BY DEF SA!SaveStep, SA!EraseDone, SA!EraseFails, SA!WriteDone, SA!WriteFails, SA!SaveFails,
         SA!Commit,
         SP!SaveStep, SP!EraseDone, SP!EraseFails, SP!WriteDone, SP!WriteFails, SP!SaveFails,
         SP!Commit
<1>8. SA!PowerLoss => SP!PowerLoss
  BY DEF SA!PowerLoss, SP!PowerLoss
<1>9. UNCHANGED SA!saVars => UNCHANGED SP!saVars
  BY DEF SA!saVars, SP!saVars
<1>10. SA!CallStep => SP!CallStep
  BY <1>5, <1>6, <1>7 DEF SA!CallStep, SP!CallStep
<1>11. SA!SANext => SP!SANext
  BY <1>2, <1>3, <1>4, <1>8, <1>10 DEF SA!SANext, SP!SANext
<1>12. QED BY <1>1, <1>9, <1>10, <1>11

(* What ServAddrProofs assumes of its constants holds of the lines and contents
   here, so its invariant holds in whatever firmware calls the store in order. *)
LEMMA StoreInvariance == SP!SASpec => []SP!SAInv
<1> USE LinesAssumption, StoreAssumption
<1>1. Addr \cap Malformed = {}
  BY DEF Addr, Malformed
<1>2. /\ NoText \notin SP!Text /\ SP!Text \cap {Blank, Torn} = {}
      /\ NoText \notin {Blank, Torn} /\ FlashFaults \in BOOLEAN
  BY DEF SP!Text
<1>3. QED BY <1>1, <1>2, SP!Invariance

(* Within init and promote the store takes its steps, and main stays in its place. *)
LEMMA CallKeepsPlace ==
  ASSUME InPlace, KnowsDisk, mpc \in {"init", "promote"}, SP!CallStep,
         UNCHANGED <<mpc, disk, lastHost, typed>>
  PROVE  InPlace' /\ KnowsDisk'
<1> USE DEF InPlace, KnowsDisk, BeforeRead, Running, SP!SavePc
<1>1. CASE SP!LoadHit BY <1>1 DEF SP!LoadHit
<1>2. CASE SP!LoadMiss BY <1>2 DEF SP!LoadMiss
<1>3. CASE SP!ProbeAnswers BY <1>3 DEF SP!ProbeAnswers
<1>4. CASE SP!ProbeFails BY <1>4 DEF SP!ProbeFails
<1>5. CASE SP!EraseDone BY <1>5 DEF SP!EraseDone
<1>6. CASE SP!EraseFails BY <1>6 DEF SP!EraseFails, SP!SaveFails
<1>7. CASE SP!WriteDone BY <1>7 DEF SP!WriteDone
<1>8. CASE SP!WriteFails BY <1>8 DEF SP!WriteFails, SP!SaveFails
<1>9. CASE SP!Commit BY <1>9 DEF SP!Commit
<1>10. QED
  BY <1>1, <1>2, <1>3, <1>4, <1>5, <1>6, <1>7, <1>8, <1>9 DEF SP!CallStep, SP!SaveStep

(* A step of the store that gives up an intact record is one of a promotion the
   host has asked for, or of a boot that could not read the flash. *)
LEMMA RecordKept ==
  ASSUME SP!SAInv, InPlace, KnowsDisk, [SP!SANext]_SP!saVars, SA!Intact(flash), flash' # flash
  PROVE  \/ valid /\ arg \in answered \cap typed
         \/ ~valid /\ FlashFaults
<1> USE DEF SP!SAInv, SP!SaveOK, SP!SavePc
<1>1. SP!Intact(flash) /\ ~SP!Intact(Blank)
  BY StoreAssumption DEF SA!Intact, SA!Text, SP!Intact, SP!Text
<1>2. pc \in {"erase", "write"}
  <2>1. ASSUME NEW h \in SP!Text \cup {NoText},
               SP!InitRejects(h) \/ SP!InitCalled(h) \/ SP!Promote(h)
        PROVE  FALSE
    BY <2>1
    DEF SP!InitRejects, SP!InitCalled, SP!Promote, SP!PromoteRejects, SP!PromoteSame,
        SP!PromoteProbes
  <2>2. CASE SP!LoadHit \/ SP!LoadMiss \/ SP!ProbeAnswers \/ SP!ProbeFails \/ SP!Commit
    BY <2>2 DEF SP!LoadHit, SP!LoadMiss, SP!ProbeAnswers, SP!ProbeFails, SP!Commit
  <2>3. CASE SP!EraseDone \/ SP!EraseFails \/ SP!WriteDone \/ SP!WriteFails
    BY <2>3 DEF SP!EraseDone, SP!EraseFails, SP!WriteDone, SP!WriteFails
  <2>4. CASE SP!PowerLoss BY <2>4 DEF SP!PowerLoss
  <2>5. CASE UNCHANGED SP!saVars BY <2>5 DEF SP!saVars
  <2>6. QED BY <2>1, <2>2, <2>3, <2>4, <2>5 DEF SP!SANext, SP!CallStep, SP!SaveStep
<1>3. pc = "erase"
  BY <1>1, <1>2
<1>4. CASE valid
  <2>1. mpc = "promote" BY <1>3, <1>4 DEF InPlace, BeforeRead, Running
  <2>2. QED BY <1>3, <1>4, <2>1 DEF KnowsDisk
<1>5. CASE ~valid
  BY <1>1, <1>3, <1>5
<1>6. QED BY <1>4, <1>5

----------------------------------------------------------------------------
(* The store in the firmware of main_ec801e_hid.c *)

(* A step of the firmware is a step of the store or leaves it alone: where main
   calls it, it is ready for that call. *)
LEMMA StoreStep == InPlace /\ [Next]_vars => [SA!SANext]_SA!saVars
<1> SUFFICES ASSUME InPlace, [Next]_vars PROVE SA!SANext \/ UNCHANGED SA!saVars
  OBVIOUS
<1> USE DEF saVars, SA!saVars
<1>1. CASE UNCHANGED saVars BY <1>1
<1>2. CASE BootReads
  <2>1. pc = "down" BY <1>2 DEF BootReads, MainStep, InPlace, BeforeRead
  <2>2. QED BY <1>2, <2>1 DEF BootReads, SA!SANext, SA!InitRejects, SA!InitCalled
<1>3. CASE RereadPromotes
  <2>1. pc = "idle" BY <1>3 DEF RereadPromotes, InPlace, Running
  <2>2. QED BY <1>3, <2>1 DEF RereadPromotes, SA!SANext, SA!Text
<1>4. CASE CallStep BY <1>4 DEF CallStep, SA!SANext
<1>5. CASE PowerCut BY <1>5 DEF PowerCut, SA!SANext
<1>6. ASSUME MainNext, ~BootReads, ~RereadPromotes, ~CallStep PROVE UNCHANGED saVars
  BY <1>6 DEF MainNext, BootMounts, BootFormats, EnsureOpens, EnsureWrites, BootInitialised,
     SetupUsbMsc, BootFails, SessionDials, SessionEnds, BackoffEnds, LoopChecks, Unmounts,
     Remounts, RereadFails, RereadKeeps, PromoteReturns, Wakes
<1>7. ASSUME ConsumerNext PROVE UNCHANGED saVars
  BY <1>7 DEF ConsumerNext, ConsumerWakes, ConsumerReads, ConsumerSetsIp, ConsumerSetsPort,
     notConsumer
<1>8. ASSUME HostNext PROVE UNCHANGED saVars
  BY <1>8 DEF HostNext, HostAttaches, HostPullsCable, HostReloads, HostEjects, HostWrites, notHost
<1>9. QED
  BY <1>1, <1>2, <1>3, <1>4, <1>5, <1>6, <1>7, <1>8 DEF Next, vars

(* Main stays in step with the store, and with the disk. *)
LEMMA PlaceKept == InPlace /\ KnowsDisk /\ [Next]_vars => InPlace' /\ KnowsDisk'
<1> SUFFICES ASSUME InPlace, KnowsDisk, [Next]_vars PROVE InPlace' /\ KnowsDisk'
  OBVIOUS
<1>1. CASE CallStep
  <2>1. SP!CallStep
    BY <1>1, ProvedStore DEF CallStep
  <2>2. QED BY <1>1, <2>1, CallKeepsPlace DEF CallStep, diskVars, mainVars
<1> USE DEF InPlace, KnowsDisk, BeforeRead, Running, SP!SavePc,
            MainStep, MainFails, GivesUp, saVars, diskVars, fsVars, mainVars, notMain, othersVars
<1>2. CASE BootMounts \/ BootFormats BY <1>2 DEF BootMounts, BootFormats
<1>3. CASE EnsureOpens \/ EnsureWrites BY <1>3 DEF EnsureOpens, EnsureWrites
<1>4. CASE BootReads BY <1>4 DEF BootReads, SA!InitRejects, SA!InitCalled
<1>5. CASE BootInitialised \/ SetupUsbMsc BY <1>5 DEF BootInitialised, SetupUsbMsc
<1>6. CASE BootFails BY <1>6 DEF BootFails
<1>7. CASE SessionDials \/ SessionEnds \/ BackoffEnds
  BY <1>7 DEF SessionDials, SessionEnds, BackoffEnds
<1>8. CASE LoopChecks \/ Wakes BY <1>8 DEF LoopChecks, Wakes
<1>9. CASE Unmounts \/ Remounts BY <1>9 DEF Unmounts, Remounts
<1>10. CASE RereadFails \/ RereadKeeps BY <1>10 DEF RereadFails, RereadKeeps
<1>11. CASE RereadPromotes
  BY <1>11
  DEF RereadPromotes, SA!Promote, SA!PromoteRejects, SA!PromoteSame, SA!PromoteProbes
<1>12. CASE PromoteReturns BY <1>12 DEF PromoteReturns
<1>13. CASE ConsumerNext
  BY <1>13 DEF ConsumerNext, ConsumerWakes, ConsumerReads, ConsumerSetsIp, ConsumerSetsPort,
     notConsumer
<1>14. CASE HostNext
  <2>1. typed \subseteq typed' /\ (disk' = disk \/ disk' \in typed')
    BY <1>14 DEF HostNext, HostAttaches, HostPullsCable, HostReloads, HostEjects, HostWrites
  <2>2. UNCHANGED <<saVars, mpc, lastHost>>
    BY <1>14 DEF HostNext, HostAttaches, HostPullsCable, HostReloads, HostEjects, HostWrites,
       notHost
  <2>3. QED BY <2>1, <2>2
<1>15. CASE PowerCut
  <2>1. mpc' = "mount" BY <1>15 DEF PowerCut, PowerOn
  <2>2. pc' = "down" /\ ~valid' BY <1>15 DEF PowerCut, SA!PowerLoss
  <2>3. QED BY <2>1, <2>2
<1>16. CASE UNCHANGED vars BY <1>16 DEF vars
<1>17. QED
  BY <1>1, <1>2, <1>3, <1>4, <1>5, <1>6, <1>7, <1>8, <1>9, <1>10, <1>11, <1>12, <1>13, <1>14,
     <1>15, <1>16 DEF Next, MainNext

(* Main calls the store in the order it allows: initialised once and first, a
   promotion never during another call, whatever order boots, ejects, failures and losses of
   power come in. *)
THEOREM StoreUsedLegally == Spec => SP!SASpec /\ [](InPlace /\ KnowsDisk)
<1>1. Init => SP!SAInit BY ProvedStore DEF Init
<1>2. Init => InPlace /\ KnowsDisk
  BY DEF Init, SA!SAInit, InPlace, KnowsDisk, BeforeRead, Running
<1>3. InPlace /\ [Next]_vars => [SP!SANext]_SP!saVars
  BY StoreStep, ProvedStore
<1>4. QED BY <1>1, <1>2, <1>3, PlaceKept, PTL DEF Spec, SP!SASpec

(* The inductive invariant holds in every reachable state. *)
THEOREM HidInvariance == Spec => []HidInv
<1>1. HidInv /\ InPlace /\ [Next]_vars => HidInv'
  <2>1. HidInv /\ UNCHANGED vars => HidInv'
    BY DEF HidInv, OwnTypes, BootIsAlone, Remembers, PromotesText, vars, saVars, diskVars,
           fsVars, mainVars, usbVars, consumerVars
  <2>2. QED
    BY <2>1, MainKeepsInv, ConsumerKeepsInv, HostKeepsInv, PowerCutKeepsInv
    DEF Next, InPlace, Running
<1>2. QED BY HidInitInv, <1>1, StoreUsedLegally, PTL DEF Spec

(* No eject is lost: back in the loop with nothing pending, main remembers what
   the disk holds, however ejects, refreshes and errors interleave. *)
THEOREM NoEjectLost == Spec => []NoEjectIsLost
<1>1. HidInv => NoEjectIsLost
  BY DEF HidInv, Remembers, Settled, NoEjectIsLost
<1>2. QED BY <1>1, HidInvariance, PTL

(* Every variable of the firmware and of the store keeps its type. *)
THEOREM HidTypeCorrect == Spec => []TypeOK
<1>1. HidInv /\ SP!SAInv => TypeOK
  BY DEF HidInv, OwnTypes, Content, SP!SAInv, TypeOK, SP!SATypeOK, SA!SATypeOK, SP!Text, SA!Text,
     SP!PcSet, SA!PcSet, SP!SavePc, SA!SavePc, SP!Errors, SA!Errors
<1>2. QED BY <1>1, HidInvariance, StoreUsedLegally, StoreInvariance, PTL

(* An intact record is given up only for an address that answered and that the host put on
   the disk in this run, or by a boot that could not read the flash: in the firmware with
   ejects and two threads. *)
THEOREM RecordSurvives == Spec => RecordOutlivesDisk
<1>1. SP!SAInv /\ InPlace /\ KnowsDisk /\ [Next]_vars
        => [SA!Intact(flash) /\ flash' # flash
              => \/ valid /\ arg \in answered \cap typed
                 \/ ~valid /\ FlashFaults]_<<saVars, typed>>
  BY StoreStep, ProvedStore, RecordKept
<1>2. QED
  BY <1>1, StoreUsedLegally, StoreInvariance, PTL DEF Spec, RecordOutlivesDisk

----------------------------------------------------------------------------
(* The polling firmware *)

(* The steps of main that leave the store alone. *)
LEMMA PollLeavesStore ==
  (\/ Poll!DiskInit \/ Poll!BootMounts \/ Poll!EnsureOpens \/ Poll!EnsureWrites \/ Poll!BootInitialised \/ Poll!SetupUsbMsc
   \/ Poll!Wakes \/ Poll!Unmounts \/ Poll!Remounts \/ Poll!RereadFails \/ Poll!RereadSame \/ Poll!PromoteReturns)
  => UNCHANGED Poll!saVars
<1> USE DEF Poll!Goes, Poll!Errs, Poll!saVars
<1>1. Poll!DiskInit => UNCHANGED Poll!saVars BY DEF Poll!DiskInit
<1>2. Poll!BootMounts => UNCHANGED Poll!saVars BY DEF Poll!BootMounts
<1>3. Poll!EnsureOpens => UNCHANGED Poll!saVars BY DEF Poll!EnsureOpens
<1>4. Poll!EnsureWrites => UNCHANGED Poll!saVars BY DEF Poll!EnsureWrites
<1>5. Poll!BootInitialised => UNCHANGED Poll!saVars BY DEF Poll!BootInitialised
<1>6. Poll!SetupUsbMsc => UNCHANGED Poll!saVars BY DEF Poll!SetupUsbMsc
<1>7. Poll!Wakes => UNCHANGED Poll!saVars BY DEF Poll!Wakes
<1>8. Poll!Unmounts => UNCHANGED Poll!saVars BY DEF Poll!Unmounts
<1>9. Poll!Remounts => UNCHANGED Poll!saVars BY DEF Poll!Remounts
<1>10. Poll!RereadFails => UNCHANGED Poll!saVars BY DEF Poll!RereadFails
<1>11. Poll!RereadSame => UNCHANGED Poll!saVars BY DEF Poll!RereadSame
<1>12. Poll!PromoteReturns => UNCHANGED Poll!saVars BY DEF Poll!PromoteReturns
<1>13. QED
  BY <1>1, <1>2, <1>3, <1>4, <1>5, <1>6, <1>7, <1>8, <1>9, <1>10, <1>11, <1>12

----------------------------------------------------------------------------
(* What the disk may hold *)

(* A poll reads a text the store knows, or no file. *)
DiskType == disk \in Poll!Content /\ edit \in Poll!Content \cup {NoEdit}

(* Also in the middle of an edit. *)
LEMMA PiecesAreContent == \A line \in Lines : Poll!Pieces(line) \subseteq Poll!Content
<1> SUFFICES ASSUME NEW line \in Lines, NEW piece \in Poll!Pieces(line) PROVE piece \in Poll!Content
  OBVIOUS
<1>1. CASE piece \in {NoFile, NoText, Garbage}
  BY <1>1 DEF Poll!Content, Poll!Malformed
<1>2. CASE line \in Poll!Addr /\ piece \in [host : {line.host}, port : PortNo \cup {BadPort}]
  <2>1. line.host \in HostName
    BY <1>2 DEF Poll!Addr
  <2>2. piece \in [host : HostName, port : PortNo] \/ piece \in [host : HostName, port : {BadPort}]
    BY <1>2, <2>1
  <2>3. QED BY <2>2 DEF Poll!Content, Poll!Addr, Poll!Malformed
<1>3. QED BY <1>1, <1>2 DEF Poll!Pieces

(* No step puts anything else there. *)
LEMMA DiskTypeKept == DiskType /\ [Poll!Next]_Poll!vars => DiskType'
<1> SUFFICES ASSUME DiskType, [Poll!Next]_Poll!vars PROVE DiskType'
  OBVIOUS
<1> USE DEF DiskType, Poll!Goes, Poll!Errs, Poll!diskVars
<1>1. {NoFile, NoText, Garbage, Poll!DefaultLine} \subseteq Poll!Content
  BY LinesAssumption DEF DefaultLine, Addr, Poll!DefaultLine, Poll!Addr, Poll!Content, Poll!Malformed
<1>2. CASE Poll!MainNext
  <2>1. CASE Poll!DiskInit BY <2>1 DEF Poll!DiskInit
  <2>2. CASE Poll!BootMounts
    <3>1. disk' \in {disk, NoFile} /\ edit' = edit BY <2>2, Zenon DEF Poll!BootMounts
    <3>2. QED BY <1>1, <3>1
  <2>3. CASE Poll!EnsureOpens BY <2>3 DEF Poll!EnsureOpens
  <2>4. CASE Poll!EnsureWrites BY <1>1, <2>4 DEF Poll!EnsureWrites, Poll!Filled, Poll!HalfFilled
  <2>5. CASE Poll!BootReads BY <2>5 DEF Poll!BootReads
  <2>6. CASE Poll!BootInitialised BY <2>6 DEF Poll!BootInitialised
  <2>7. CASE Poll!SetupUsbMsc BY <2>7 DEF Poll!SetupUsbMsc
  <2>8. CASE Poll!Wakes BY <2>8 DEF Poll!Wakes
  <2>9. CASE Poll!Unmounts BY <2>9 DEF Poll!Unmounts
  <2>10. CASE Poll!Remounts BY <2>10 DEF Poll!Remounts
  <2>11. CASE Poll!RereadFails BY <2>11 DEF Poll!RereadFails
  <2>12. CASE Poll!RereadSame BY <2>12 DEF Poll!RereadSame
  <2>13. CASE Poll!RereadPromotes BY <2>13 DEF Poll!RereadPromotes
  <2>14. CASE Poll!PromoteReturns BY <2>14 DEF Poll!PromoteReturns
  <2>15. CASE Poll!CallStep BY <2>15 DEF Poll!CallStep
  <2>16. QED
    BY <1>2, <2>1, <2>2, <2>3, <2>4, <2>5, <2>6, <2>7, <2>8, <2>9, <2>10, <2>11, <2>12, <2>13,
       <2>14, <2>15 DEF Poll!MainNext
<1>3. CASE Poll!PowerCut
  BY <1>1, <1>3 DEF Poll!PowerCut, Poll!HalfFilled
<1>4. CASE Poll!HostEnds BY <1>4 DEF Poll!HostEnds
<1>5. ASSUME NEW line \in Lines, Poll!HostBegins(line) PROVE DiskType'
  BY <1>5, LinesAssumption, PiecesAreContent
     DEF Poll!HostBegins, Content, Addr, Malformed, Poll!Content, Poll!Addr, Poll!Malformed
<1>6. CASE UNCHANGED Poll!vars BY <1>6 DEF Poll!vars
<1>7. QED BY <1>2, <1>3, <1>4, <1>5, <1>6 DEF Poll!Next

(* It holds in every reachable state. *)
THEOREM DiskTypeCorrect == Poll!Spec => []DiskType
<1>1. Poll!Init => DiskType
  BY DEF Poll!Init, DiskType, Poll!Content
<1>2. QED BY <1>1, DiskTypeKept, PTL DEF Poll!Spec

(* The store each firmware uses is the same one. *)
LEMMA SameStore ==
  /\ Poll!SA!SAInit => SA!SAInit
  /\ Poll!SA!CallStep => SA!CallStep
  /\ [Poll!SA!SANext]_Poll!SA!saVars => [SA!SANext]_SA!saVars
<1> USE DEF Poll!Addr, Addr, Poll!Malformed, Malformed, Poll!SA!Text, SA!Text
<1>1. Poll!SA!SAInit => SA!SAInit
  BY DEF Poll!SA!SAInit, SA!SAInit
<1>2. \A h : Poll!SA!InitRejects(h) => SA!InitRejects(h)
  BY DEF Poll!SA!InitRejects, SA!InitRejects
<1>3. \A h : Poll!SA!InitCalled(h) => SA!InitCalled(h)
  BY DEF Poll!SA!InitCalled, SA!InitCalled
<1>4. \A h : Poll!SA!Promote(h) => SA!Promote(h)
  BY DEF Poll!SA!Promote, Poll!SA!PromoteRejects, Poll!SA!PromoteSame, Poll!SA!PromoteProbes,
         SA!Promote, SA!PromoteRejects, SA!PromoteSame, SA!PromoteProbes
<1>5. Poll!SA!LoadHit \/ Poll!SA!LoadMiss => SA!LoadHit \/ SA!LoadMiss
  BY DEF Poll!SA!LoadHit, Poll!SA!LoadMiss, Poll!SA!Intact, SA!LoadHit, SA!LoadMiss, SA!Intact
<1>6. Poll!SA!ProbeAnswers \/ Poll!SA!ProbeFails => SA!ProbeAnswers \/ SA!ProbeFails
  BY DEF Poll!SA!ProbeAnswers, Poll!SA!ProbeFails, SA!ProbeAnswers, SA!ProbeFails
<1>7. Poll!SA!SaveStep => SA!SaveStep
  BY DEF Poll!SA!SaveStep, Poll!SA!EraseDone, Poll!SA!EraseFails, Poll!SA!WriteDone,
         Poll!SA!WriteFails, Poll!SA!SaveFails, Poll!SA!Commit,
         SA!SaveStep, SA!EraseDone, SA!EraseFails, SA!WriteDone, SA!WriteFails, SA!SaveFails, SA!Commit
<1>8. Poll!SA!PowerLoss => SA!PowerLoss
  BY DEF Poll!SA!PowerLoss, SA!PowerLoss
<1>9. UNCHANGED Poll!SA!saVars => UNCHANGED SA!saVars
  BY DEF Poll!SA!saVars, SA!saVars
<1>10. Poll!SA!CallStep => SA!CallStep
  BY <1>5, <1>6, <1>7 DEF Poll!SA!CallStep, SA!CallStep
<1>11. Poll!SA!SANext => SA!SANext
  BY <1>2, <1>3, <1>4, <1>8, <1>10 DEF Poll!SA!SANext, SA!SANext
<1>12. QED BY <1>1, <1>9, <1>10, <1>11

----------------------------------------------------------------------------
(* The store in the firmware of main_hid.c *)

(* A step of the firmware is a step of the store or leaves it alone. *)
LEMMA PollStoreStep ==
  DiskType /\ InPlace /\ [Poll!Next]_Poll!vars => [Poll!SA!SANext]_Poll!SA!saVars
<1> SUFFICES ASSUME DiskType, InPlace, [Poll!Next]_Poll!vars
             PROVE  Poll!SA!SANext \/ UNCHANGED Poll!SA!saVars
  OBVIOUS
<1>1. CASE UNCHANGED Poll!saVars BY <1>1 DEF Poll!saVars, Poll!SA!saVars
<1>2. CASE Poll!BootReads
  <2>1. CASE mpc = "read" /\ (Poll!SA!InitRejects(disk) \/ Poll!SA!InitCalled(disk))
    <3>1. pc = "down" BY <2>1 DEF InPlace, BeforeRead
    <3>2. QED BY <2>1, <3>1 DEF Poll!SA!SANext, Poll!SA!InitRejects, Poll!SA!InitCalled
  <2>2. CASE Poll!Errs("read", "dead")
    BY <1>1, <2>2 DEF Poll!Errs
  <2>3. QED BY <1>2, <2>1, <2>2 DEF Poll!BootReads
<1>3. CASE Poll!RereadPromotes
  <2>1. Poll!SA!Promote(disk) /\ disk # NoFile /\ pc = "idle"
    BY <1>3 DEF Poll!RereadPromotes, InPlace, Running
  <2>2. disk \in Poll!SA!Text \cup {NoText} BY <2>1 DEF DiskType, Poll!Content, Poll!SA!Text
  <2>3. QED BY <2>1, <2>2 DEF Poll!SA!SANext
<1>4. CASE Poll!CallStep BY <1>4 DEF Poll!CallStep, Poll!SA!SANext
<1>5. CASE Poll!PowerCut BY <1>1, <1>5 DEF Poll!PowerCut, Poll!SA!SANext
<1>6. CASE Poll!HostEnds BY <1>1, <1>6 DEF Poll!HostEnds
<1>7. ASSUME NEW line \in Lines, Poll!HostBegins(line) PROVE UNCHANGED Poll!saVars
  BY <1>7 DEF Poll!HostBegins
<1>8. CASE UNCHANGED Poll!vars BY <1>1, <1>8 DEF Poll!vars
<1>9. CASE Poll!MainNext
  <2>1. Poll!BootReads \/ Poll!RereadPromotes \/ Poll!CallStep \/ UNCHANGED Poll!saVars
    BY <1>9, PollLeavesStore, Zenon DEF Poll!MainNext
  <2>2. QED BY <1>1, <1>2, <1>3, <1>4, <2>1, Zenon
<1>10. QED
  BY <1>1, <1>5, <1>6, <1>7, <1>8, <1>9, Zenon DEF Poll!Next

(* Main stays in step with the store, and with the disk. *)
LEMMA PollPlaceKept ==
  InPlace /\ KnowsDisk /\ [Poll!Next]_Poll!vars => InPlace' /\ KnowsDisk'
<1> SUFFICES ASSUME InPlace, KnowsDisk, [Poll!Next]_Poll!vars PROVE InPlace' /\ KnowsDisk'
  OBVIOUS
<1>1. CASE Poll!CallStep
  <2>1. SP!CallStep
    BY <1>1, SameStore, ProvedStore DEF Poll!CallStep
  <2>2. QED BY <1>1, <2>1, CallKeepsPlace DEF Poll!CallStep, Poll!diskVars, Poll!mainVars
<1> USE DEF InPlace, KnowsDisk, BeforeRead, Running, SP!SavePc,
            Poll!Goes, Poll!Errs, Poll!saVars, Poll!diskVars, Poll!mainVars
<1>2. CASE Poll!DiskInit \/ Poll!BootMounts BY <1>2 DEF Poll!DiskInit, Poll!BootMounts
<1>3. CASE Poll!EnsureOpens \/ Poll!EnsureWrites BY <1>3 DEF Poll!EnsureOpens, Poll!EnsureWrites
<1>4. CASE Poll!BootReads
  BY <1>4 DEF Poll!BootReads, Poll!SA!InitRejects, Poll!SA!InitCalled
<1>5. CASE Poll!BootInitialised \/ Poll!SetupUsbMsc
  BY <1>5 DEF Poll!BootInitialised, Poll!SetupUsbMsc
<1>6. CASE Poll!Wakes BY <1>6 DEF Poll!Wakes
<1>7. CASE Poll!Unmounts \/ Poll!Remounts BY <1>7 DEF Poll!Unmounts, Poll!Remounts
<1>8. CASE Poll!RereadFails \/ Poll!RereadSame BY <1>8 DEF Poll!RereadFails, Poll!RereadSame
<1>9. CASE Poll!RereadPromotes
  BY <1>9
  DEF Poll!RereadPromotes, Poll!SA!Promote, Poll!SA!PromoteRejects, Poll!SA!PromoteSame,
      Poll!SA!PromoteProbes
<1>10. CASE Poll!PromoteReturns BY <1>10 DEF Poll!PromoteReturns
<1>11. CASE Poll!HostEnds BY <1>11 DEF Poll!HostEnds
<1>12. ASSUME NEW line \in Lines, Poll!HostBegins(line) PROVE InPlace' /\ KnowsDisk'
  BY <1>12 DEF Poll!HostBegins
<1>13. CASE Poll!PowerCut
  <2>1. mpc' = "disk" BY <1>13 DEF Poll!PowerCut, Poll!PowerOn
  <2>2. pc' = "down" /\ ~valid' BY <1>13 DEF Poll!PowerCut, Poll!SA!PowerLoss
  <2>3. QED BY <2>1, <2>2
<1>14. CASE UNCHANGED Poll!vars BY <1>14 DEF Poll!vars
<1>15. QED
  BY <1>1, <1>2, <1>3, <1>4, <1>5, <1>6, <1>7, <1>8, <1>9, <1>10, <1>11, <1>12, <1>13, <1>14
  DEF Poll!Next, Poll!MainNext

(* Main calls the store in the order it allows, with texts it knows, whatever
   half-written text the polls pick up and wherever errors end them. *)
THEOREM PollingUsesStoreLegally == Poll!Spec => SP!SASpec /\ [](InPlace /\ KnowsDisk)
<1>1. Poll!Init => SP!SAInit BY SameStore, ProvedStore DEF Poll!Init
<1>2. Poll!Init => InPlace /\ KnowsDisk
  BY DEF Poll!Init, Poll!SA!SAInit, InPlace, KnowsDisk, BeforeRead, Running
<1>3. DiskType /\ InPlace /\ [Poll!Next]_Poll!vars => [SP!SANext]_SP!saVars
  BY PollStoreStep, SameStore, ProvedStore
<1>4. QED
  BY <1>1, <1>2, <1>3, PollPlaceKept, DiskTypeCorrect, PTL DEF Poll!Spec, SP!SASpec

(* The same of the record in the firmware that polls: what gives it up is a text that the PC
   has put on the disk in this run, finished or not, and that answered. *)
THEOREM PollingRecordSurvives == Poll!Spec => RecordOutlivesDisk
<1>1. DiskType /\ SP!SAInv /\ InPlace /\ KnowsDisk /\ [Poll!Next]_Poll!vars
        => [SA!Intact(flash) /\ flash' # flash
              => \/ valid /\ arg \in answered \cap typed
                 \/ ~valid /\ FlashFaults]_<<saVars, typed>>
  BY PollStoreStep, SameStore, ProvedStore, RecordKept
<1>2. QED
  BY <1>1, PollingUsesStoreLegally, StoreInvariance, DiskTypeCorrect, PTL
  DEF Poll!Spec, RecordOutlivesDisk
=============================================================================
