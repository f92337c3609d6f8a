--------------------------- MODULE SocBoot_proofs ---------------------------
EXTENDS SocBoot, TLAPS

USE DEF Kernels, CheckMaint, BootScript, SucInit, MainOS, MaintOS,
        Places, Phases, UBOOT, OS_START, OS_RUNNING, MAINT_OS_RUNNING

LEMMA StatesType ==
  {0, UBOOT, OS_START, OS_RUNNING, MAINT_OS_RUNNING} \subseteq SocStates
BY DEF SocStates

LEMMA ModInRange ==
  ASSUME NEW a \in Nat
  PROVE  a % RegMod \in 0 .. RegMod - 1
BY BootAssumption

LEMMA FlagsByteNat ==
  ASSUME NEW sensors \in SensorFlags
  PROVE  FlagsByte(sensors) \in Nat
BY BootAssumption DEF FlagsByte

LEMMA NewBootType ==
  ASSUME NEW phase \in Phases, NEW asked \in BOOLEAN
  PROVE  NewBoot(phase, asked) \in BootHistory
BY DEF NewBoot, BootHistory

LEMMA PhaseType == TypeOK => PhaseAtReset \in Phases
<1>1. TypeOK => boot.phase \in Phases
  BY DEF TypeOK, BootHistory
<1>2. QED
  BY <1>1 DEF PhaseAtReset

LEMMA ResetType ==
  ASSUME TypeOK, NEW wd \in BOOLEAN, ResetSoC(wd)
  PROVE  TypeOK'
<1>1. boot' \in BootHistory
  BY PhaseType, NewBootType, (ctrl = 2) \in BOOLEAN DEF ResetSoC
<1>2. flags' \in [wdFired: BOOLEAN, osRecovery: BOOLEAN]
  BY DEF ResetSoC
<1>3. ctrl' \in 0 .. 2
  BY DEF ResetSoC, TypeOK
<1>4. pc' \in Places
  BY DEF ResetSoC
<1>5. /\ socState' \in SocStates /\ scratch' \in Scratch /\ swCount' \in 0 .. RegMod - 1
      /\ crashes' \in 0 .. RegMod /\ faults' \in 0 .. MaxFaults
  BY DEF ResetSoC, TypeOK
<1>6. script' \in BOOLEAN /\ maintFile' \in BOOLEAN /\ kernel' \in Kernels
  BY DEF ResetSoC, TypeOK, mediaVars
<1>7. env' \in BOOLEAN /\ needs' \in BOOLEAN /\ hung' \in BOOLEAN
  BY DEF ResetSoC
<1>8. QED
  BY <1>1, <1>2, <1>3, <1>4, <1>5, <1>6, <1>7 DEF TypeOK

LEMMA OrBoolean ==
  ASSUME NEW a, NEW b
  PROVE  (a \/ b) \in BOOLEAN
OBVIOUS

LEMMA ScratchType ==
  ASSUME NEW prev \in SocStates, NEW recovery \in BOOLEAN, NEW recovered \in BOOLEAN
  PROVE  [prev |-> prev, recovery |-> recovery, recovered |-> recovered] \in Scratch
BY DEF Scratch

LEMMA ScratchUpdates ==
  ASSUME scratch \in Scratch
  PROVE  /\ [scratch EXCEPT !.prev = MAINT_OS_RUNNING] \in Scratch
         /\ [scratch EXCEPT !.recovery = FALSE, !.recovered = TRUE] \in Scratch
         /\ [scratch EXCEPT !.recovery = FALSE] \in Scratch
BY StatesType DEF Scratch

LEMMA ScratchSaved ==
  ASSUME scratch \in Scratch, NEW asked \in BOOLEAN
  PROVE  [scratch EXCEPT !.prev = UBOOT, !.recovery = @ \/ asked] \in Scratch
BY StatesType, OrBoolean DEF Scratch

(* Every update an action makes of the history record keeps its type. *)
LEMMA BootUpdates ==
  ASSUME boot \in BootHistory
  PROVE  /\ [boot EXCEPT !.wdOff = TRUE] \in BootHistory
         /\ [boot EXCEPT !.decided = TRUE] \in BootHistory
         /\ [boot EXCEPT !.scriptRan = TRUE] \in BootHistory
         /\ [boot EXCEPT !.stateSaved = TRUE] \in BootHistory
         /\ [boot EXCEPT !.maintSaved = TRUE] \in BootHistory
         /\ [boot EXCEPT !.mainFailed = TRUE] \in BootHistory
         /\ [boot EXCEPT !.initFault = TRUE] \in BootHistory
BY DEF BootHistory

LEMMA BootMaintUpdate ==
  ASSUME boot \in BootHistory, NEW seen \in BOOLEAN, NEW failed \in BOOLEAN
  PROVE  [boot EXCEPT !.fileSeen = seen, !.maintFailed = failed] \in BootHistory
BY DEF BootHistory

LEMMA ColdStartType ==
  ASSUME TypeOK, ColdStart
  PROVE  TypeOK'
<1>1. boot' \in BootHistory
  BY NewBootType DEF ColdStart
<1>2. swCount' \in 0 .. RegMod - 1 /\ crashes' \in 0 .. RegMod
  BY BootAssumption DEF ColdStart
<1>3. ctrl' \in 0 .. 2 /\ socState' \in SocStates /\ pc' \in Places
  BY StatesType DEF ColdStart
<1>4. /\ env' \in BOOLEAN /\ needs' \in BOOLEAN /\ hung' \in BOOLEAN
      /\ flags' \in [wdFired: BOOLEAN, osRecovery: BOOLEAN]
  BY DEF ColdStart
<1>5. scratch' \in Scratch
  BY ScratchType, StatesType DEF ColdStart
<1>6. /\ script' \in BOOLEAN /\ maintFile' \in BOOLEAN /\ kernel' \in Kernels
      /\ faults' \in 0 .. MaxFaults
  BY DEF ColdStart, TypeOK, mediaVars
<1>7. QED
  BY <1>1, <1>2, <1>3, <1>4, <1>5, <1>6 DEF TypeOK

LEMMA CmDecideType ==
  ASSUME TypeOK, CmDecide
  PROVE  TypeOK'
<1>1. swCount' \in 0 .. RegMod - 1
  <2>1. swCount + 1 \in Nat /\ swCount \in 0 .. RegMod - 1
    BY DEF TypeOK
  <2>2. /\ (swCount + 1) % RegMod \in 0 .. RegMod - 1
        /\ \A sensors \in SensorFlags : FlagsByte(sensors) % RegMod \in 0 .. RegMod - 1
    BY <2>1, ModInRange, FlagsByteNat
  <2>3. \/ swCount' = swCount \/ swCount' = (swCount + 1) % RegMod
        \/ \E sensors \in SensorFlags : swCount' = FlagsByte(sensors) % RegMod
    BY DEF CmDecide, NextCount
  <2>4. QED
    BY <2>1, <2>2, <2>3
<1>2. needs' \in BOOLEAN
  <2>1. needs \in BOOLEAN /\ TooManyResets(swCount') \in BOOLEAN
    BY DEF TypeOK, TooManyResets
  <2>2. needs' = needs \/ needs' = TRUE \/ needs' = TooManyResets(swCount')
    BY DEF CmDecide
  <2>3. QED
    BY <2>1, <2>2
<1>3. crashes' \in 0 .. RegMod
  BY BootAssumption DEF CmDecide, TypeOK
<1>4. QED
  BY <1>1, <1>2, <1>3 DEF CmDecide, TypeOK, mediaVars, Goto

LEMMA UBootType ==
  ASSUME TypeOK, UBootStep \/ CmAborts
  PROVE  TypeOK'
<1> USE DEF TypeOK, Goto, OthersKept, mediaVars, sucVars
<1>1. CASE CmAborts
  BY <1>1, BootAssumption DEF CmAborts, SucFails
<1>2. CASE CmIdentify
  BY <1>2, StatesType DEF CmIdentify
<1>3. CASE CmDisableWatchdog
  <2>1. boot' \in BootHistory
    BY <1>3, BootUpdates DEF CmDisableWatchdog
  <2>2. QED
    BY <1>3, <2>1 DEF CmDisableWatchdog
<1>4. CASE CmReadFlags
  <2>1. env' \in BOOLEAN
    BY <1>4, OrBoolean DEF CmReadFlags
  <2>2. QED
    BY <1>4, <2>1 DEF CmReadFlags
<1>5. CASE CmDecide
  BY <1>5, CmDecideType
<1>6. CASE CmSave
  <2>1. env' \in BOOLEAN
    BY <1>6, OrBoolean DEF CmSave
  <2>2. scratch' \in Scratch
    BY <1>6, ScratchSaved DEF CmSave
  <2>3. boot' \in BootHistory
    BY <1>6, BootUpdates DEF CmSave
  <2>4. QED
    BY <1>6, <2>1, <2>2, <2>3 DEF CmSave
<1>7. CASE BootCommand
  <2>1. boot' \in BootHistory
    BY <1>7, BootUpdates DEF BootCommand
  <2>2. pc' \in Places
    BY <1>7 DEF BootCommand, LoadMaintImage
  <2>3. QED
    BY <1>7, <2>1, <2>2 DEF BootCommand
<1>8. QED
  BY <1>1, <1>2, <1>3, <1>4, <1>5, <1>6, <1>7 DEF UBootStep

LEMMA ScriptType ==
  ASSUME TypeOK, ScriptStep
  PROVE  TypeOK'
<1> USE BootAssumption DEF TypeOK, Goto, OthersKept, mediaVars, sucVars, SucFails
<1>1. CASE ScState
  BY <1>1, StatesType DEF ScState
<1>2. CASE ScScratch
  <2>1. scratch' \in Scratch
    BY <1>2, ScratchType, StatesType DEF ScScratch
  <2>2. boot' \in BootHistory
    BY <1>2, BootUpdates DEF ScScratch
  <2>3. QED
    BY <1>2, <2>1, <2>2 DEF ScScratch
<1>3. CASE ScMaint
  <2>1. env' \in BOOLEAN
    BY <1>3, OrBoolean DEF ScMaint
  <2>2. boot' \in BootHistory
    <3>1. boot' = boot \/ boot' = [boot EXCEPT !.fileSeen = maintFile,
                                              !.maintFailed = (pc' = "sc_main")]
      BY <1>3 DEF ScMaint
    <3>2. maintFile \in BOOLEAN /\ (pc' = "sc_main") \in BOOLEAN /\ boot \in BootHistory
      OBVIOUS
    <3>3. QED
      BY ONLY <3>1, <3>2, BootMaintUpdate
  <2>3. QED
    BY <1>3, <2>1, <2>2 DEF ScMaint, LoadMaintImage
<1>4. CASE ScMain
  <2>1. boot' \in BootHistory
    BY <1>4, BootUpdates DEF ScMain
  <2>2. QED
    BY <1>4, <2>1 DEF ScMain
<1>5. CASE ScBooti
  <2>1. boot' \in BootHistory
    BY <1>5, BootUpdates DEF ScBooti
  <2>2. QED
    BY <1>5, <2>1 DEF ScBooti
<1>6. CASE ScFallback
  BY <1>6 DEF ScFallback, LoadMaintImage
<1>7. QED
  BY <1>1, <1>2, <1>3, <1>4, <1>5, <1>6 DEF ScriptStep

LEMMA OSType ==
  ASSUME TypeOK, OSStep \/ LinuxHangs \/ LinuxStages \/ AskMaintenance \/ MaintUpdates
  PROVE  TypeOK'
<1> USE BootAssumption DEF TypeOK, Goto, OthersKept, mediaVars, sucVars, socVars, SucFails
<1>1. CASE KernelUp
  BY <1>1 DEF KernelUp
<1>2. CASE SiCtrl
  <2>1. boot' \in BootHistory
    BY <1>2, BootUpdates DEF SiCtrl
  <2>2. QED
    BY <1>2, <2>1 DEF SiCtrl
<1>3. CASE SiState
  BY <1>3, StatesType DEF SiState
<1>4. CASE SiScratch
  <2>1. scratch' \in Scratch
    BY <1>4, ScratchType, StatesType DEF SiScratch
  <2>2. QED
    BY <1>4, <2>1 DEF SiScratch
<1>5. CASE Reboot
  BY <1>5, ResetType DEF Reboot
<1>6. CASE MkState
  BY <1>6, StatesType DEF MkState
<1>7. CASE MkScratch
  <2>1. scratch' \in Scratch
    BY <1>7, ScratchUpdates DEF MkScratch
  <2>2. boot' \in BootHistory
    BY <1>7, BootUpdates DEF MkScratch
  <2>3. QED
    BY <1>7, <2>1, <2>2 DEF MkScratch
<1>8. CASE LinuxHangs
  BY <1>8 DEF LinuxHangs
<1>9. CASE LinuxStages
  BY <1>9 DEF LinuxStages
<1>10. CASE AskMaintenance
  BY <1>10 DEF AskMaintenance
<1>11. CASE MaintUpdates
  <2>1. scratch' \in Scratch
    BY <1>11, ScratchUpdates DEF MaintUpdates
  <2>2. QED
    BY <1>11, <2>1 DEF MaintUpdates
<1>12. QED
  BY <1>1, <1>2, <1>3, <1>4, <1>5, <1>6, <1>7, <1>8, <1>9, <1>10, <1>11 DEF OSStep

(* Every register keeps its range over resets, failing accesses and the    *)
(* wrap of SW_RESET_COUNT.                                                 *)
THEOREM TypeCorrect == Spec => []TypeOK
<1>1. Init => TypeOK
  <2> SUFFICES ASSUME Init PROVE TypeOK
    OBVIOUS
  <2>1. boot \in BootHistory
    BY NewBootType DEF Init
  <2>2. flags \in [wdFired: BOOLEAN, osRecovery: BOOLEAN] /\ scratch \in Scratch
    BY ScratchType, StatesType DEF Init
  <2>3. env \in BOOLEAN /\ needs \in BOOLEAN /\ hung \in BOOLEAN
    BY DEF Init
  <2>4. script \in BOOLEAN /\ maintFile \in BOOLEAN /\ kernel \in Kernels
    BY DEF Init
  <2>5. /\ ctrl \in 0 .. 2 /\ socState \in SocStates /\ swCount \in 0 .. RegMod - 1
        /\ pc \in Places /\ crashes \in 0 .. RegMod /\ faults \in 0 .. MaxFaults
    BY BootAssumption, StatesType DEF Init
  <2>6. QED
    BY <2>1, <2>2, <2>3, <2>4, <2>5 DEF TypeOK
<1>2. TypeOK /\ [Next]_vars => TypeOK'
  <2> SUFFICES ASSUME TypeOK, [Next]_vars PROVE TypeOK'
    OBVIOUS
  <2>1. CASE Program
    BY <2>1, UBootType, ScriptType, OSType DEF Program
  <2>2. CASE CmAborts
    BY <2>2, UBootType
  <2>3. CASE LinuxHangs \/ LinuxStages \/ AskMaintenance \/ MaintUpdates
    BY <2>3, OSType
  <2>4. CASE WatchdogFires \/ ExternalReset
    BY <2>4, ResetType DEF WatchdogFires, ExternalReset
  <2>5. CASE ColdStart
    BY <2>5, ColdStartType
  <2>6. CASE UNCHANGED vars
    BY <2>6 DEF vars, sucVars, socVars, mediaVars, TypeOK
  <2>7. QED
    BY <2>1, <2>2, <2>3, <2>4, <2>5, <2>6 DEF Next
<1>3. QED
  BY <1>1, <1>2, PTL DEF Spec

-----------------------------------------------------------------------------
LEMMA DecisionStep ==
  ASSUME TypeOK, BootInvariant, [Next]_vars
  PROVE  DecisionKept'
<1> USE DEF DecisionKept, StartFailed, Goto, OthersKept, mediaVars, sucVars, socVars
<1>1. CASE CmDecide
  BY <1>1 DEF CmDecide, BootInvariant, ScratchKept, StartTimedOut, RunTimedOut
<1>2. CASE CmSave
  BY <1>2 DEF CmSave, BootInvariant, TypeOK, BootHistory
<1>3. CASE CmReadFlags
  BY <1>3 DEF CmReadFlags, BootInvariant
<1>4. CASE BootCommand
  BY <1>4 DEF BootCommand, LoadMaintImage, BootInvariant, TypeOK, BootHistory
<1>5. CASE ScMaint
  BY <1>5 DEF ScMaint, LoadMaintImage, BootInvariant, TypeOK, BootHistory
<1>6. CASE ScMain
  BY <1>6 DEF ScMain, BootInvariant, TypeOK, BootHistory
<1>7. CASE CmDisableWatchdog
  BY <1>7 DEF CmDisableWatchdog, BootInvariant, TypeOK, BootHistory
<1>8. CASE ColdStart
  BY <1>8 DEF ColdStart, NewBoot
<1>9. CASE WatchdogFires \/ ExternalReset \/ Reboot
  BY <1>9 DEF WatchdogFires, ExternalReset, Reboot, ResetSoC, NewBoot
<1>10. CASE CmAborts \/ CmIdentify
  BY <1>10 DEF CmAborts, CmIdentify, BootInvariant
<1>11. CASE ScState \/ ScBooti \/ ScFallback
  BY <1>11 DEF ScState, ScBooti, ScFallback, LoadMaintImage, BootInvariant, TypeOK, BootHistory
<1>12. CASE ScScratch
  BY <1>12 DEF ScScratch, BootInvariant, TypeOK, BootHistory
<1>13. CASE KernelUp \/ SiState \/ SiScratch
  BY <1>13 DEF KernelUp, SiState, SiScratch, BootInvariant
<1>14. CASE SiCtrl
  BY <1>14 DEF SiCtrl, BootInvariant, TypeOK, BootHistory
<1>15. CASE MkState
  BY <1>15 DEF MkState, BootInvariant
<1>16. CASE MkScratch
  BY <1>16 DEF MkScratch, BootInvariant, TypeOK, BootHistory
<1>17. CASE LinuxHangs \/ LinuxStages \/ AskMaintenance \/ MaintUpdates
  BY <1>17 DEF LinuxHangs, LinuxStages, AskMaintenance, MaintUpdates, BootInvariant
<1>18. CASE UNCHANGED vars
  BY <1>18 DEF vars, BootInvariant
<1>19. QED
  BY <1>1, <1>2, <1>3, <1>4, <1>5, <1>6, <1>7, <1>8, <1>9, <1>10, <1>11, <1>12, <1>13,
     <1>14, <1>15, <1>16, <1>17, <1>18 DEF Next, Program, UBootStep, ScriptStep, OSStep

LEMMA ScratchStep ==
  ASSUME TypeOK, BootInvariant, [Next]_vars
  PROVE  ScratchKept'
<1> USE DEF ScratchKept, RunningIsRecorded, StartWindow, Goto, OthersKept, mediaVars, sucVars, socVars
<1>1. CASE CmDecide \/ CmReadFlags \/ CmAborts \/ CmIdentify
  BY <1>1 DEF CmDecide, CmReadFlags, CmAborts, CmIdentify, BootInvariant
<1>2. CASE CmSave
  BY <1>2 DEF CmSave, BootInvariant, TypeOK, BootHistory
<1>3. CASE CmDisableWatchdog
  BY <1>3 DEF CmDisableWatchdog, BootInvariant, TypeOK, BootHistory
<1>4. CASE BootCommand
  BY <1>4 DEF BootCommand, LoadMaintImage, BootInvariant, TypeOK, BootHistory
<1>5. CASE ScMaint
  BY <1>5 DEF ScMaint, LoadMaintImage, BootInvariant, TypeOK, BootHistory
<1>6. CASE ScMain
  BY <1>6 DEF ScMain, BootInvariant, TypeOK, BootHistory
<1>7. CASE ScState \/ ScBooti \/ ScFallback
  BY <1>7 DEF ScState, ScBooti, ScFallback, LoadMaintImage, BootInvariant, TypeOK, BootHistory
<1>8. CASE ScScratch
  BY <1>8 DEF ScScratch, BootInvariant, TypeOK, BootHistory
<1>9. CASE KernelUp \/ SiState \/ SiScratch
  BY <1>9 DEF KernelUp, SiState, SiScratch, BootInvariant
<1>10. CASE SiCtrl
  BY <1>10 DEF SiCtrl, BootInvariant, TypeOK, BootHistory
<1>11. CASE MkState
  BY <1>11 DEF MkState, BootInvariant
<1>12. CASE MkScratch
  BY <1>12 DEF MkScratch, BootInvariant, TypeOK, BootHistory, Scratch
<1>13. CASE LinuxHangs \/ LinuxStages \/ AskMaintenance
  BY <1>13 DEF LinuxHangs, LinuxStages, AskMaintenance, BootInvariant
<1>14. CASE MaintUpdates
  BY <1>14 DEF MaintUpdates, BootInvariant, TypeOK, Scratch
<1>15. CASE ColdStart
  BY <1>15 DEF ColdStart, NewBoot
<1>16. CASE WatchdogFires \/ ExternalReset \/ Reboot
  BY <1>16 DEF WatchdogFires, ExternalReset, Reboot, ResetSoC, NewBoot, PhaseAtReset,
               BootInvariant
<1>17. CASE UNCHANGED vars
  BY <1>17 DEF vars, BootInvariant
<1>18. QED
  BY <1>1, <1>2, <1>3, <1>4, <1>5, <1>6, <1>7, <1>8, <1>9, <1>10, <1>11, <1>12, <1>13,
     <1>14, <1>15, <1>16, <1>17 DEF Next, Program, UBootStep, ScriptStep, OSStep

LEMMA WatchdogStep ==
  ASSUME TypeOK, BootInvariant, [Next]_vars
  PROVE  WatchdogKept'
<1> USE DEF WatchdogKept, WatchdogCoversStart, Goto, OthersKept, mediaVars, sucVars, socVars
<1>1. CASE CmDecide \/ CmReadFlags \/ CmAborts \/ CmIdentify
  BY <1>1 DEF CmDecide, CmReadFlags, CmAborts, CmIdentify, BootInvariant
<1>2. CASE CmSave \/ CmDisableWatchdog
  BY <1>2 DEF CmSave, CmDisableWatchdog, BootInvariant, TypeOK, BootHistory
<1>3. CASE BootCommand \/ ScMaint
  BY <1>3 DEF BootCommand, ScMaint, LoadMaintImage, BootInvariant, TypeOK, BootHistory
<1>4. CASE ScMain
  BY <1>4 DEF ScMain, BootInvariant, TypeOK, BootHistory
<1>5. CASE ScState \/ ScBooti \/ ScFallback
  BY <1>5 DEF ScState, ScBooti, ScFallback, LoadMaintImage, BootInvariant, TypeOK, BootHistory
<1>6. CASE ScScratch
  BY <1>6 DEF ScScratch, BootInvariant, TypeOK, BootHistory
<1>7. CASE KernelUp \/ SiState \/ SiScratch
  BY <1>7 DEF KernelUp, SiState, SiScratch, BootInvariant
<1>8. CASE SiCtrl
  BY <1>8 DEF SiCtrl, BootInvariant, TypeOK, BootHistory
<1>9. CASE MkState \/ MkScratch
  BY <1>9 DEF MkState, MkScratch, BootInvariant, TypeOK, BootHistory
<1>10. CASE LinuxHangs \/ LinuxStages \/ AskMaintenance \/ MaintUpdates
  BY <1>10 DEF LinuxHangs, LinuxStages, AskMaintenance, MaintUpdates, BootInvariant
<1>11. CASE ColdStart
  BY <1>11 DEF ColdStart, NewBoot
<1>12. CASE WatchdogFires \/ ExternalReset \/ Reboot
  BY <1>12 DEF WatchdogFires, ExternalReset, Reboot, ResetSoC, NewBoot
<1>13. CASE UNCHANGED vars
  BY <1>13 DEF vars, BootInvariant
<1>14. QED
  BY <1>1, <1>2, <1>3, <1>4, <1>5, <1>6, <1>7, <1>8, <1>9, <1>10, <1>11, <1>12, <1>13
     DEF Next, Program, UBootStep, ScriptStep, OSStep

LEMMA BootInvariantCorrect == Spec => []BootInvariant
<1>1. Init => BootInvariant
  BY DEF Init, BootInvariant, DecisionKept, ScratchKept, WatchdogKept, StartFailed,
         RunningIsRecorded, WatchdogCoversStart, NewBoot
<1>2. TypeOK /\ BootInvariant /\ [Next]_vars => BootInvariant'
  BY DecisionStep, ScratchStep, WatchdogStep DEF BootInvariant
<1>3. QED
  BY <1>1, <1>2, TypeCorrect, PTL DEF Spec

(* After a watchdog reset of a starting kernel, or a boot_maintenance, the *)
(* main kernel starts only if no maintenance image loaded: whatever the    *)
(* interleaving of resets and failing accesses, once check_maint has run.  *)
THEOREM Escalation == Spec => []EscalationHonoured
<1>1. BootInvariant => EscalationHonoured
  BY DEF BootInvariant, DecisionKept, EscalationHonoured
<1>2. QED
  BY <1>1, BootInvariantCorrect, PTL

(* A later watchdog reset of a running OS is never mistaken for a kernel   *)
(* that failed to start.                                                   *)
THEOREM Recorded == Spec => []RunningIsRecorded
<1>1. BootInvariant => RunningIsRecorded
  BY DEF BootInvariant, ScratchKept
<1>2. QED
  BY <1>1, BootInvariantCorrect, PTL

(* A maintenance kernel the boot script started never recovers by itself.  *)
THEOREM NoAutoRecovery == Spec => []AutoRecoveryDisabled
<1>1. BootInvariant => AutoRecoveryDisabled
  BY DEF BootInvariant, ScratchKept, AutoRecoveryDisabled
<1>2. QED
  BY <1>1, BootInvariantCorrect, PTL

(* The watchdog is on for the start of the main kernel and for nothing     *)
(* else, unless that kernel or an access of suc_init failed.               *)
THEOREM WatchdogCorrect == Spec => []WatchdogCoversStart
<1>1. BootInvariant => WatchdogCoversStart
  BY DEF BootInvariant, WatchdogKept
<1>2. QED
  BY <1>1, BootInvariantCorrect, PTL

-----------------------------------------------------------------------------
(* Nothing but a reset, a decision and the loading of a maintenance image  *)
(* bears on the reasons for one.                                           *)
LEMMA ReasonStep ==
  ASSUME TypeOK, BootInvariant, ReasonKept, [Next]_vars
  PROVE  ReasonKept'
<1> USE DEF ReasonKept, Ordered, RunFailed, NoSpuriousMaintenance, Goto, OthersKept, mediaVars,
            sucVars, socVars
<1>1. CASE CmDecide
  <2>1. boot.phase \in Phases
    BY DEF TypeOK, BootHistory
  <2>2. needs' => needs \/ (flags.wdFired /\ (boot.phase = "run" => Counter # 0 /\ Timer = 0))
    <3>1. \/ needs' = needs
          \/ StartTimedOut
          \/ flags.wdFired /\ needs' = TooManyResets(swCount')
      BY <1>1 DEF CmDecide, RunTimedOut
    <3>2. StartTimedOut => flags.wdFired /\ boot.phase # "run"
      BY <1>1 DEF CmDecide, StartTimedOut
    <3>3. TooManyResets(swCount') => Counter # 0 /\ Timer = 0
      BY DEF TooManyResets
    <3>4. QED
      BY <3>1, <3>2, <3>3
  <2>3. needs' => Ordered
    BY <2>1, <2>2
  <2>4. QED
    BY <1>1, <2>3 DEF CmDecide
<1>2. CASE CmReadFlags
  BY <1>2 DEF CmReadFlags, BootInvariant, DecisionKept
<1>3. CASE CmSave
  BY <1>3 DEF CmSave, TypeOK, BootHistory
<1>4. CASE CmDisableWatchdog
  BY <1>4 DEF CmDisableWatchdog, TypeOK, BootHistory
<1>5. CASE CmAborts \/ CmIdentify
  BY <1>5 DEF CmAborts, CmIdentify
<1>6. CASE BootCommand
  BY <1>6 DEF BootCommand, LoadMaintImage, TypeOK, BootHistory
<1>7. CASE ScMaint
  BY <1>7 DEF ScMaint, LoadMaintImage, TypeOK, BootHistory
<1>8. CASE ScMain
  BY <1>8 DEF ScMain, TypeOK, BootHistory
<1>9. CASE ScFallback
  BY <1>9 DEF ScFallback, LoadMaintImage, BootInvariant, WatchdogKept
<1>10. CASE ScScratch
  BY <1>10 DEF ScScratch, TypeOK, BootHistory
<1>11. CASE ScState \/ ScBooti
  BY <1>11 DEF ScState, ScBooti, TypeOK, BootHistory
<1>12. CASE KernelUp \/ SiState \/ SiScratch
  BY <1>12 DEF KernelUp, SiState, SiScratch
<1>13. CASE SiCtrl
  BY <1>13 DEF SiCtrl, TypeOK, BootHistory
<1>14. CASE MkState
  BY <1>14 DEF MkState
<1>15. CASE MkScratch
  BY <1>15 DEF MkScratch, TypeOK, BootHistory, Scratch
<1>16. CASE LinuxHangs \/ LinuxStages \/ AskMaintenance
  BY <1>16 DEF LinuxHangs, LinuxStages, AskMaintenance
<1>17. CASE MaintUpdates
  BY <1>17 DEF MaintUpdates, TypeOK, Scratch
<1>18. CASE ColdStart
  BY <1>18 DEF ColdStart, NewBoot
<1>19. CASE WatchdogFires \/ ExternalReset \/ Reboot
  <2>1. /\ pc' = "cm_identify" /\ ~env' /\ ~needs' /\ scratch' = scratch
        /\ boot' = NewBoot(PhaseAtReset, ctrl = 2)
    BY <1>19 DEF WatchdogFires, ExternalReset, Reboot, ResetSoC
  <2>2. PhaseAtReset = "run" => scratch.prev \in {OS_RUNNING, MAINT_OS_RUNNING}
    BY DEF PhaseAtReset, StartWindow, BootInvariant, ScratchKept, RunningIsRecorded
  <2>3. QED
    BY <2>1, <2>2 DEF NewBoot
<1>20. CASE UNCHANGED vars
  BY <1>20 DEF vars
<1>21. QED
  BY <1>1, <1>2, <1>3, <1>4, <1>5, <1>6, <1>7, <1>8, <1>9, <1>10, <1>11, <1>12, <1>13, <1>14,
     <1>15, <1>16, <1>17, <1>18, <1>19, <1>20 DEF Next, Program, UBootStep, ScriptStep, OSStep

LEMMA ReasonCorrect == Spec => []ReasonKept
<1>1. Init => ReasonKept
  BY DEF Init, ReasonKept, NoSpuriousMaintenance, NewBoot
<1>2. QED
  BY <1>1, ReasonStep, TypeCorrect, BootInvariantCorrect, PTL DEF Spec

(* The boot script starts the maintenance kernel for a reason only: no     *)
(* interleaving of resets and failing accesses takes the board out of      *)
(* service for a crash that Counter still allows.                          *)
THEOREM NoSpurious == Spec => []NoSpuriousMaintenance
<1>1. ReasonKept => NoSpuriousMaintenance
  BY DEF ReasonKept
<1>2. QED
  BY <1>1, ReasonCorrect, PTL

-----------------------------------------------------------------------------
(* The count of SW_RESET_COUNT and the crashes there were. *)

(* No step but a failing access makes a reset one that may be miscounted.  *)
LEMMA MiscountStep ==
  ASSUME TypeOK, BootInvariant, ReasonKept, CrashKept, Next, ~CmDecide, ~ColdStart
  PROVE  /\ UNCHANGED <<swCount, crashes>>
         /\ (faults' = faults /\ (Miscounted' => Miscounted)) \/ faults' = faults + 1
<1> USE DEF Miscounted, OSRecorded, PhaseAtReset, StartWindow, Goto, OthersKept, mediaVars,
            sucVars, socVars, SucFails
<1>1. CASE CmAborts
  BY <1>1 DEF CmAborts
<1>2. CASE CmIdentify
  BY <1>2 DEF CmIdentify
<1>3. CASE CmReadFlags
  BY <1>3 DEF CmReadFlags
<1>4. CASE CmDisableWatchdog
  BY <1>4 DEF CmDisableWatchdog, TypeOK, BootHistory
<1>5. CASE CmSave
  BY <1>5 DEF CmSave, TypeOK, Scratch
<1>6. CASE BootCommand
  BY <1>6 DEF BootCommand, LoadMaintImage, TypeOK, BootHistory
<1>7. CASE ScState
  BY <1>7 DEF ScState
<1>8. CASE ScScratch
  BY <1>8 DEF ScScratch
<1>9. CASE ScMaint
  BY <1>9 DEF ScMaint, LoadMaintImage, TypeOK, BootHistory
<1>10. CASE ScMain
  BY <1>10 DEF ScMain, TypeOK, BootHistory, BootInvariant, ScratchKept
<1>11. CASE ScBooti
  BY <1>11 DEF ScBooti, TypeOK, BootHistory
<1>12. CASE ScFallback
  BY <1>12 DEF ScFallback, LoadMaintImage, BootInvariant, ScratchKept
<1>13. CASE KernelUp
  BY <1>13 DEF KernelUp
<1>14. CASE SiCtrl
  BY <1>14 DEF SiCtrl, TypeOK, BootHistory
<1>15. CASE SiState
  BY <1>15 DEF SiState
<1>16. CASE SiScratch
  BY <1>16 DEF SiScratch
<1>17. CASE MkState
  BY <1>17 DEF MkState
<1>18. CASE MkScratch
  BY <1>18 DEF MkScratch, TypeOK, BootHistory
<1>19. CASE LinuxHangs \/ LinuxStages \/ AskMaintenance
  BY <1>19 DEF LinuxHangs, LinuxStages, AskMaintenance
<1>20. CASE MaintUpdates
  BY <1>20 DEF MaintUpdates, TypeOK, Scratch
<1>21. CASE WatchdogFires
  BY <1>21 DEF WatchdogFires, ResetSoC, NewBoot, CrashKept
<1>22. CASE ExternalReset \/ Reboot
  BY <1>22 DEF ExternalReset, Reboot, ResetSoC, NewBoot, CrashKept
<1>23. QED
  BY <1>1, <1>2, <1>3, <1>4, <1>5, <1>6, <1>7, <1>8, <1>9, <1>10, <1>11, <1>12, <1>13, <1>14,
     <1>15, <1>16, <1>17, <1>18, <1>19, <1>20, <1>21, <1>22
     DEF Next, Program, UBootStep, ScriptStep, OSStep

LEMMA FlagsByteBound ==
  ASSUME NEW sensors \in SensorFlags
  PROVE  FlagsByte(sensors) \in Nat /\ FlagsByte(sensors) <= sensors + 3
BY BootAssumption DEF FlagsByte

LEMMA SumBelow ==
  ASSUME NEW c \in Nat, NEW d \in Nat, NEW f \in Nat, NEW g \in Nat, NEW s \in Nat, NEW m \in Nat,
         c <= d, f <= g, d + s + 3 + g < m
  PROVE  c + s + 3 + f < m /\ c < m
OBVIOUS

LEMMA AtLeastAbove ==
  ASSUME NEW a \in Nat, NEW b \in Nat, NEW c \in Nat, a >= b, b > c
  PROVE  a > c
OBVIOUS

LEMMA UnwrappedBefore ==
  ASSUME crashes \in Nat, crashes' \in Nat, faults \in Nat, faults' \in Nat,
         crashes <= crashes', faults <= faults', Unwrapped'
  PROVE  Unwrapped
<1>1. ASSUME NEW sensors \in SensorFlags PROVE crashes + sensors + 3 + faults < RegMod
  <2>1. crashes' + sensors + 3 + faults' < RegMod /\ sensors \in Nat /\ RegMod \in Nat
    BY BootAssumption DEF Unwrapped
  <2>2. QED
    BY <2>1, SumBelow
<1>2. QED
  BY <1>1 DEF Unwrapped

LEMMA ModKept ==
  ASSUME NEW a \in Nat, a < RegMod
  PROVE  a % RegMod = a
BY BootAssumption

(* A decision counts a crash, or a reset that is miscounted. *)
LEMMA CountDecided ==
  ASSUME TypeOK, BootInvariant, ReasonKept, CountKept, CmDecide, Unwrapped'
  PROVE  /\ crashes' <= swCount'
         /\ \E sensors \in SensorFlags : swCount' <= crashes' + sensors + 3 + faults
         /\ RunFailed => swCount' >= crashes'
<1> DEFINE Within(c, n) == \E sensors \in SensorFlags : n <= c + sensors + 3 + faults
<1>0. /\ SensorFlags \subseteq Nat /\ SensorFlags # {} /\ RegMod \in Nat
      /\ faults \in Nat /\ crashes \in Nat /\ swCount \in Nat /\ faults' = faults
      /\ crashes <= RegMod /\ pc = "cm_scratch"
  BY BootAssumption DEF TypeOK, CmDecide
<1>1. CASE ~flags.wdFired
  <2>1. PICK sensors \in SensorFlags : swCount' = FlagsByte(sensors) % RegMod
    BY <1>1 DEF CmDecide, StartTimedOut, RunTimedOut
  <2>2. crashes' = 0
    BY <1>1 DEF CmDecide
  <2>3. FlagsByte(sensors) < RegMod
    BY <1>0, <2>2, FlagsByteBound DEF Unwrapped
  <2>4. swCount' = FlagsByte(sensors)
    BY <2>1, <2>3, FlagsByteBound, ModKept
  <2>5. QED
    BY <1>0, <2>2, <2>4, FlagsByteBound
<1>2. CASE flags.wdFired
  <2>1. crashes' \in Nat /\ crashes' >= crashes /\ crashes' <= crashes + 1
    BY <1>0, <1>2 DEF CmDecide
  <2>2. Unwrapped
    BY <1>0, <2>1, UnwrappedBefore
  <2>3. crashes <= swCount
    BY <2>2 DEF CountKept
  <2>4. PICK sensors \in SensorFlags :
          swCount + (IF Miscounted THEN 1 ELSE 0) <= crashes + sensors + 3 + faults
    BY <2>2 DEF CountKept
  <2>5. crashes' + sensors + 3 + faults < RegMod /\ sensors \in Nat
    BY <1>0 DEF Unwrapped
  <2>6. crashes < RegMod
    <3>1. crashes + sensors + 3 + faults < RegMod
      BY <2>2, <2>4 DEF Unwrapped
    <3>2. QED
      BY <1>0, <2>5, <3>1
  <2>7. CASE boot.phase = "run"
    <3>1. RunTimedOut
      BY <1>0, <1>2, <2>7 DEF ReasonKept, RunTimedOut
    <3>2. swCount' = (swCount + 1) % RegMod /\ crashes' = crashes + 1
      BY <1>2, <2>6, <2>7, <3>1 DEF CmDecide, StartTimedOut, RunTimedOut, NextCount
    <3>3. swCount + 1 <= crashes' + sensors + 3 + faults
      BY <1>0, <2>4, <2>5, <3>2
    <3>4. swCount' = swCount + 1
      BY <1>0, <2>1, <2>5, <3>2, <3>3, ModKept
    <3>5. QED
      BY <1>0, <2>3, <2>5, <3>2, <3>3, <3>4
  <2>8. CASE boot.phase # "run"
    <3>1. crashes' = crashes
      BY <1>2, <2>8 DEF CmDecide
    <3>2. CASE RunTimedOut
      <4>1. swCount' = (swCount + 1) % RegMod
        BY <3>2 DEF CmDecide, StartTimedOut, RunTimedOut, NextCount
      <4>2. Miscounted \/ boot.phase = "start"
        BY <1>0, <1>2, <2>8, <3>2 DEF Miscounted, OSRecorded, RunTimedOut, TypeOK, BootHistory
      <4>3. Miscounted
        BY <1>0, <3>2, <4>2 DEF RunTimedOut, BootInvariant, ScratchKept
      <4>4. swCount + 1 <= crashes' + sensors + 3 + faults
        BY <1>0, <2>4, <2>5, <3>1, <4>3
      <4>5. swCount' = swCount + 1
        BY <1>0, <2>5, <3>1, <4>1, <4>4, ModKept
      <4>6. QED
        BY <1>0, <2>3, <2>5, <3>1, <4>4, <4>5
    <3>3. CASE ~RunTimedOut
      <4>1. swCount' = swCount
        BY <1>2, <3>3 DEF CmDecide
      <4>2. QED
        BY <1>0, <2>3, <2>4, <2>5, <3>1, <4>1
    <3>4. QED
      BY <3>2, <3>3
  <2>9. QED
    BY <2>7, <2>8
<1>3. QED
  BY <1>1, <1>2

LEMMA CountStep ==
  ASSUME TypeOK, TypeOK', BootInvariant, ReasonKept, CrashKept, CountKept, [Next]_vars
  PROVE  CountKept'
<1> SUFFICES ASSUME Unwrapped'
             PROVE  /\ crashes' <= swCount'
                    /\ \E sensors \in SensorFlags :
                         swCount' + (IF Miscounted' THEN 1 ELSE 0) <= crashes' + sensors + 3 + faults'
  BY DEF CountKept
<1>0. /\ SensorFlags \subseteq Nat /\ SensorFlags # {}
      /\ faults \in Nat /\ crashes \in Nat /\ swCount \in Nat
  BY BootAssumption DEF TypeOK
<1>1. CASE CmDecide
  <2>1. ~Miscounted' /\ faults' = faults
    BY <1>1 DEF CmDecide, Miscounted, Goto
  <2>2. swCount' \in Nat
    BY DEF TypeOK
  <2>3. QED
    BY <1>0, <1>1, <2>1, <2>2, CountDecided
<1>2. CASE ColdStart
  <2>1. ~Miscounted' /\ swCount' = 0 /\ crashes' = 0 /\ faults' = faults
    BY <1>2 DEF ColdStart, Miscounted, OSRecorded
  <2>2. PICK sensors \in SensorFlags : sensors \in Nat
    BY <1>0
  <2>3. swCount' + (IF Miscounted' THEN 1 ELSE 0) <= crashes' + sensors + 3 + faults'
    BY <1>0, <2>1, <2>2
  <2>4. QED
    BY <2>1, <2>3
<1>3. CASE Next /\ ~CmDecide /\ ~ColdStart
  <2>1. /\ swCount' = swCount /\ crashes' = crashes
        /\ (faults' = faults /\ (Miscounted' => Miscounted)) \/ faults' = faults + 1
    BY <1>3, MiscountStep
  <2>2. Unwrapped
    BY <1>0, <2>1, UnwrappedBefore
  <2>3. crashes <= swCount
    BY <2>2 DEF CountKept
  <2>4. PICK sensors \in SensorFlags :
          swCount + (IF Miscounted THEN 1 ELSE 0) <= crashes + sensors + 3 + faults
    BY <2>2 DEF CountKept
  <2>5. swCount' + (IF Miscounted' THEN 1 ELSE 0) <= crashes' + sensors + 3 + faults'
    BY <1>0, <2>1, <2>4
  <2>6. QED
    BY <2>1, <2>3, <2>5
<1>4. CASE UNCHANGED vars
  <2>1. UNCHANGED <<swCount, crashes, faults, Miscounted, Unwrapped>>
    BY <1>4 DEF vars, sucVars, socVars, Miscounted, OSRecorded, PhaseAtReset, Unwrapped
  <2>2. QED
    BY <2>1 DEF CountKept
<1>5. QED
  BY <1>1, <1>2, <1>3, <1>4

(* What the count orders reaches the environment, and the script obeys it. *)
LEMMA CrashStep ==
  ASSUME TypeOK, TypeOK', BootInvariant, ReasonKept, CrashKept, CountKept, [Next]_vars
  PROVE  CrashKept'
<1> USE DEF CrashKept, RunFailed, Goto, OthersKept, mediaVars, sucVars, socVars
<1>0. crashes \in Nat /\ swCount \in Nat /\ faults \in Nat /\ SensorFlags \subseteq Nat
  BY BootAssumption DEF TypeOK
<1>a. ASSUME faults' = faults \/ faults' = faults + 1, crashes' = crashes, Unwrapped'
      PROVE  Unwrapped
  BY <1>0, <1>a, UnwrappedBefore
<1>1. CASE CmDecide
  <2>1. SUFFICES ASSUME Counter # 0, Timer = 0, RunFailed', crashes' > Counter, Unwrapped'
                 PROVE  needs'
    BY <1>1 DEF CmDecide
  <2>2. flags.wdFired /\ boot.phase = "run"
    BY <1>1, <2>1 DEF CmDecide
  <2>3. RunTimedOut /\ ~StartTimedOut
    BY <1>1, <2>2 DEF CmDecide, ReasonKept, RunTimedOut, StartTimedOut
  <2>4. needs' = TooManyResets(swCount')
    BY <1>1, <2>2, <2>3 DEF CmDecide
  <2>5. swCount' >= crashes' /\ swCount' \in Nat /\ crashes' \in Nat
    BY <1>1, <2>1, <2>2, CountDecided DEF TypeOK
  <2>6. swCount' > Counter
    BY <2>1, <2>5, AtLeastAbove, BootAssumption
  <2>7. QED
    BY <2>1, <2>4, <2>6 DEF TooManyResets
<1>2. CASE CmSave
  BY <1>2, <1>a DEF CmSave, TypeOK, BootHistory
<1>3. CASE CmReadFlags \/ CmIdentify
  BY <1>3, <1>a DEF CmReadFlags, CmIdentify
<1>4. CASE BootCommand
  BY <1>4, <1>a DEF BootCommand, LoadMaintImage, TypeOK, BootHistory
<1>5. CASE ScMaint
  BY <1>5, <1>a DEF ScMaint, LoadMaintImage, TypeOK, BootHistory
<1>6. CASE ScMain
  BY <1>6, <1>a DEF ScMain, SucFails, TypeOK, BootHistory
<1>7. CASE CmDisableWatchdog
  BY <1>7, <1>a DEF CmDisableWatchdog, TypeOK, BootHistory
<1>8. CASE ColdStart
  BY <1>8 DEF ColdStart, NewBoot
<1>9. CASE WatchdogFires \/ ExternalReset \/ Reboot
  BY <1>9 DEF WatchdogFires, ExternalReset, Reboot, ResetSoC, NewBoot
<1>10. CASE CmAborts
  BY <1>10, <1>a DEF CmAborts, SucFails, BootInvariant, DecisionKept
<1>11. CASE ScState \/ ScBooti \/ ScFallback
  BY <1>11, <1>a DEF ScState, ScBooti, ScFallback, LoadMaintImage, SucFails, TypeOK, BootHistory
<1>12. CASE ScScratch
  BY <1>12, <1>a DEF ScScratch, SucFails, TypeOK, BootHistory
<1>13. CASE KernelUp \/ SiState \/ SiScratch
  BY <1>13, <1>a DEF KernelUp, SiState, SiScratch, SucFails
<1>14. CASE SiCtrl
  BY <1>14, <1>a DEF SiCtrl, SucFails, TypeOK, BootHistory
<1>15. CASE MkState
  BY <1>15, <1>a DEF MkState, SucFails
<1>16. CASE MkScratch
  BY <1>16, <1>a DEF MkScratch, SucFails, TypeOK, BootHistory
<1>17. CASE LinuxHangs \/ LinuxStages \/ AskMaintenance \/ MaintUpdates
  BY <1>17, <1>a DEF LinuxHangs, LinuxStages, AskMaintenance, MaintUpdates, SucFails
<1>18. CASE UNCHANGED vars
  BY <1>18, <1>a DEF vars
<1>19. QED
  BY <1>1, <1>2, <1>3, <1>4, <1>5, <1>6, <1>7, <1>8, <1>9, <1>10, <1>11, <1>12, <1>13,
     <1>14, <1>15, <1>16, <1>17, <1>18 DEF Next, Program, UBootStep, ScriptStep, OSStep

(* More than Counter crashes in a row end in the maintenance kernel, for   *)
(* every width of SW_RESET_COUNT it does not wrap in, whatever the sensors *)
(* show and however many accesses fail.                                    *)
THEOREM CrashesLimited == Spec => []CrashLimit
<1>1. Init => CountKept /\ CrashKept
  <2>1. SUFFICES ASSUME Init PROVE CountKept /\ CrashKept
    OBVIOUS
  <2>2. ~Miscounted /\ CrashKept
    BY <2>1 DEF Init, Miscounted, OSRecorded, CrashKept, RunFailed, NewBoot
  <2>3. QED
    <3>1. PICK sensors \in SensorFlags : sensors \in Nat
      BY BootAssumption
    <3>2. swCount + (IF Miscounted THEN 1 ELSE 0) <= crashes + sensors + 3 + faults /\ crashes <= swCount
      BY <2>1, <2>2, <3>1 DEF Init
    <3>3. QED
      BY <2>2, <3>2 DEF CountKept
<1>2. /\ TypeOK /\ TypeOK' /\ BootInvariant /\ ReasonKept /\ CountKept /\ CrashKept /\ [Next]_vars
      => (CountKept /\ CrashKept)'
  BY CountStep, CrashStep
<1>3. CrashKept => CrashLimit
  BY DEF CrashKept, CrashLimit
<1>4. QED
  BY <1>1, <1>2, <1>3, TypeCorrect, BootInvariantCorrect, ReasonCorrect, PTL DEF Spec
=============================================================================
