---- MODULE ServAddrProofs ----
(***************************************************************************)
(* Proofs about the active-address store, for every set of addresses and   *)
(* with or without flash errors: its types, the safety of the record and   *)
(* of the running address, the fail-back rule, and that ServAddr           *)
(* implements FailBack.                                                    *)
(***************************************************************************)
EXTENDS ServAddr, TLAPS

Earned == answered \cup adopted

\* Which calls run before an address is valid, and which after.
PhaseOK ==
  /\ pc \in {"down", "load", "failed"} => ~valid
  /\ pc \in {"idle", "probe"} => valid
  /\ pc \in {"load", "probe"} \cup SavePc => arg \in Text

\* What a save in progress has done so far, and on whose behalf.
SaveOK ==
  /\ pc = "write" => flash = Blank
  /\ pc = "commit" => flash = arg
  /\ pc \in SavePc => arg \in Earned
  /\ pc \in SavePc /\ valid => arg \in answered
  /\ pc = "erase" /\ ~valid => ~Intact(flash) \/ FlashFaults
  /\ pc = "erase" /\ ~valid => ~Intact(flash) \/ FlashFaults

\* RecordIsRunning, extended to the part of a promotion that precedes the erase.
RecordOK ==
  pc \in {"idle", "probe"} \/ (pc = "erase" /\ valid) =>
    /\ Intact(flash) => flash \in {active, misreported}
    /\ ~FlashFaults => flash = active

\* The inductive invariant.
SAInv == SATypeOK /\ PhaseOK /\ SaveOK /\ RecordOK /\ AddressIsEarned

----
\* An erased or half-written partition, and the empty text, are not records.
LEMMA BlankIsNoRecord == ~Intact(Blank) /\ ~Intact(Torn) /\ ~Intact(NoText)
BY TextAssumption, FlashAssumption DEF Intact

\* The inductive invariant holds before the first boot.
LEMMA InitInv == SAInit => SAInv
BY BlankIsNoRecord
DEF SAInit, SAInv, SATypeOK, PhaseOK, SaveOK, RecordOK, AddressIsEarned, Text, PcSet, SavePc

\* Every step preserves the inductive invariant.
LEMMA StepInv == SAInv /\ [SANext]_saVars => SAInv'
<1> SUFFICES ASSUME SAInv, [SANext]_saVars PROVE SAInv'
  OBVIOUS
<1> USE BlankIsNoRecord, TextAssumption, FlashAssumption
<1> USE DEF SAInv, SATypeOK, PhaseOK, SaveOK, RecordOK, AddressIsEarned, Earned,
            Text, PcSet, SavePc, Errors, Intact
<1>1. ASSUME NEW h \in Text \cup {NoText}, pc = "down", InitRejects(h) PROVE SAInv'
  BY <1>1 DEF InitRejects
<1>2. ASSUME NEW h \in Text \cup {NoText}, pc = "down", InitCalled(h) PROVE SAInv'
  BY <1>2 DEF InitCalled
<1>3. ASSUME NEW h \in Text \cup {NoText}, pc = "idle", Promote(h) PROVE SAInv'
  <2>1. CASE PromoteRejects(h) BY <1>3, <2>1 DEF PromoteRejects
  <2>2. CASE PromoteSame(h) BY <1>3, <2>2 DEF PromoteSame
  <2>3. CASE PromoteProbes(h) BY <1>3, <2>3 DEF PromoteProbes
  <2>4. QED BY <1>3, <2>1, <2>2, <2>3 DEF Promote
<1>4. CASE LoadHit BY <1>4 DEF LoadHit
<1>5. CASE LoadMiss BY <1>5 DEF LoadMiss
<1>6. CASE ProbeAnswers BY <1>6 DEF ProbeAnswers
<1>7. CASE ProbeFails BY <1>7 DEF ProbeFails
<1>8. CASE EraseDone BY <1>8 DEF EraseDone
<1>9. CASE EraseFails BY <1>9 DEF EraseFails, SaveFails
<1>10. CASE WriteDone BY <1>10 DEF WriteDone
<1>11. CASE WriteFails BY <1>11 DEF WriteFails, SaveFails
<1>12. CASE Commit BY <1>12 DEF Commit
<1>13. CASE PowerLoss BY <1>13 DEF PowerLoss
<1>14. CASE UNCHANGED saVars BY <1>14 DEF saVars
<1>15. QED
  BY <1>1, <1>2, <1>3, <1>4, <1>5, <1>6, <1>7, <1>8, <1>9, <1>10, <1>11, <1>12, <1>13,
     <1>14 DEF SANext, CallStep, SaveStep

\* The inductive invariant holds in every reachable state.
THEOREM Invariance == SASpec => []SAInv
BY InitInv, StepInv, PTL DEF SASpec

\* Every variable keeps its type (the C types and the call states of serv_addr.c).
THEOREM TypeCorrect == SASpec => []SATypeOK
<1>1. SAInv => SATypeOK BY DEF SAInv
<1>2. QED BY <1>1, Invariance, PTL

\* Between calls the record in flash is the running address or no record at all, so a
\* restart never resumes a third address.
THEOREM RecordSafety == SASpec => []RecordIsRunning
<1>1. SAInv => RecordIsRunning BY DEF SAInv, RecordOK, RecordIsRunning
<1>2. QED BY <1>1, Invariance, PTL

\* Nothing runs, and nothing is restored, that neither answered a probe nor was adopted by
\* a boot without a readable record.
THEOREM EarnedSafety == SASpec => []AddressIsEarned
<1>1. SAInv => AddressIsEarned BY DEF SAInv
<1>2. QED BY <1>1, Invariance, PTL

----
\* The fail-back rule: flash is touched only for an address that earned it, and the running
\* address gives way only to the one recorded in flash, by a call that returns success.
THEOREM FailBackSafety == SASpec => FailBackRule
<1>1. ASSUME SAInv, [SANext]_saVars
      PROVE  /\ flash' # flash => arg \in answered \cup adopted
             /\ valid /\ valid' /\ active' # active => ret' = "ok" /\ flash = active'
  <2> USE <1>1 DEF SAInv, PhaseOK, SaveOK, SavePc, Earned
  <2>1. CASE UNCHANGED saVars BY <2>1 DEF saVars
  <2>2. ASSUME NEW h \in Text \cup {NoText}, InitRejects(h) \/ InitCalled(h) \/ Promote(h)
        PROVE  UNCHANGED <<active, flash>>
    BY <2>2 DEF InitRejects, InitCalled, Promote, PromoteRejects, PromoteSame, PromoteProbes
  <2>3. CASE LoadHit \/ LoadMiss BY <2>3 DEF LoadHit, LoadMiss
  <2>4. CASE ProbeAnswers \/ ProbeFails BY <2>4 DEF ProbeAnswers, ProbeFails
  <2>5. CASE EraseDone \/ WriteDone \/ Commit BY <2>5 DEF EraseDone, WriteDone, Commit
  <2>6. CASE EraseFails \/ WriteFails BY <2>6 DEF EraseFails, WriteFails, SaveFails
  <2>7. CASE PowerLoss BY <2>7 DEF PowerLoss
  <2>8. QED
    BY <2>1, <2>2, <2>3, <2>4, <2>5, <2>6, <2>7 DEF SANext, CallStep, SaveStep
<1>2. QED BY <1>1, Invariance, PTL DEF SASpec, FailBackRule

----
(* Refinement *)

\* A fresh store is a fresh abstract store.
LEMMA RefinesInit == SAInit => Store!FBInit
BY BlankIsNoRecord DEF SAInit, Store!FBInit

\* Every step of the detailed store is a step of the abstract one, or changes nothing of it:
\* an erase forgets, a write stores, a commit or a restore takes up, a probe is an answer.
LEMMA RefinesStep == SAInv /\ [SANext]_saVars => [Store!FBNext]_(Store!fbVars)
<1> SUFFICES ASSUME SAInv, [SANext]_saVars PROVE [Store!FBNext]_(Store!fbVars)
  OBVIOUS
<1> USE BlankIsNoRecord, TextAssumption
<1> USE DEF SAInv, SATypeOK, PhaseOK, SaveOK, SavePc, Store!fbVars
<1>1. CASE UNCHANGED saVars BY <1>1 DEF saVars
<1>2. ASSUME NEW h \in Text \cup {NoText}, InitRejects(h) \/ InitCalled(h) \/ Promote(h)
      PROVE  UNCHANGED <<active, valid, flash, answered>>
  BY <1>2 DEF InitRejects, InitCalled, Promote, PromoteRejects, PromoteSame, PromoteProbes
<1>3. CASE LoadHit
  <2>1. Store!TakeUp BY <1>3 DEF LoadHit, Store!TakeUp, Intact
  <2>2. QED BY <2>1 DEF Store!FBNext
<1>4. CASE LoadMiss BY <1>4 DEF LoadMiss
<1>5. CASE ProbeAnswers
  <2>1. valid /\ active # NoText BY <1>5 DEF ProbeAnswers, AddressIsEarned, Text
  <2>2. Store!Answer(arg) BY <1>5, <2>1 DEF ProbeAnswers, Store!Answer
  <2>3. QED BY <1>5, <2>2 DEF Store!FBNext, ProbeAnswers, Text
<1>6. CASE ProbeFails BY <1>6 DEF ProbeFails
<1>7. CASE EraseDone \/ EraseFails
  <2>1. UNCHANGED <<active, valid, answered>> /\ (flash' = flash \/ ~Intact(flash'))
    BY <1>7 DEF EraseDone, EraseFails, SaveFails
  <2>2. CASE ~Intact(flash) \/ flash' = flash BY <2>1, <2>2 
  <2>3. CASE Intact(flash) /\ ~Intact(flash')
    <3>1. Store!Forget BY <2>1, <2>3 DEF Store!Forget, Intact
    <3>2. QED BY <3>1 DEF Store!FBNext
  <2>4. QED BY <2>1, <2>2, <2>3
<1>8. CASE WriteDone \/ WriteFails
  <2>1. /\ UNCHANGED <<active, valid, answered>> /\ arg \in Text /\ ~Intact(flash)
        /\ valid => arg \in answered
        /\ flash' \in {Blank, Torn, arg}
    BY <1>8 DEF WriteDone, WriteFails, SaveFails
  <2>2. CASE flash' = arg
    <3>1. Store!Store(arg) BY <2>1, <2>2 DEF Store!Store, Intact
    <3>2. QED BY <2>1, <3>1 DEF Store!FBNext
  <2>3. CASE ~Intact(flash') BY <2>1, <2>3
  <2>4. QED BY <2>1, <2>2, <2>3
<1>9. CASE Commit
  <2>1. Store!TakeUp BY <1>9 DEF Commit, Store!TakeUp, Intact
  <2>2. QED BY <2>1 DEF Store!FBNext
<1>10. CASE PowerLoss
  <2>1. Store!PowerCut BY <1>10 DEF PowerLoss, Store!PowerCut
  <2>2. QED BY <2>1 DEF Store!FBNext
<1>11. QED
  BY <1>1, <1>2, <1>3, <1>4, <1>5, <1>6, <1>7, <1>8, <1>9, <1>10
  DEF SANext, CallStep, SaveStep

\* The store of serv_addr.c implements the abstract fail-back store.
THEOREM Refinement == SASpec => ImplementsFailBack
BY RefinesInit, RefinesStep, Invariance, PTL DEF SASpec, ImplementsFailBack, Store!FBSpec
====
