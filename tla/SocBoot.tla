------------------------------- MODULE SocBoot -------------------------------
(***************************************************************************)
(* The boot chain of the SmartNIC SoC, as the programs of the SDK drive it *)
(* through the registers of the satellite controller (SuC):                *)
(*                                                                         *)
(*   U-Boot `suc check_maint`  ->  boot script  ->  main kernel + suc_init *)
(*                                             \->  maintenance kernel     *)
(*                                                                         *)
(* The SuC keeps its registers over a reset of the SoC and owns the        *)
(* watchdog.  Every step below is one access to the SuC or one hand-over   *)
(* from a program to the next, so that a reset or a failing access can     *)
(* fall between any two of them.                                           *)
(***************************************************************************)
EXTENDS Integers

CONSTANTS
  RegMod,          \* size of an 8-bit register (256)
  Counter, Timer,  \* the arguments of `suc check_maint` (0 0 as PREBOOT runs it)
  AuxPower,        \* AUX_POWER_FLAG, wired on the board
  SensorFlags,     \* values of the warning, critical and throttle bits of 0x2
  MaintImageBoots, \* every load of a maintenance image succeeds
  MaxFaults        \* bound on failing accesses to the SuC

ASSUME BootAssumption ==
  /\ RegMod \in Nat /\ RegMod > 4
  /\ Counter \in Nat /\ Timer \in Nat
  /\ AuxPower \in BOOLEAN /\ MaintImageBoots \in BOOLEAN
  /\ MaxFaults \in Nat
  /\ SensorFlags \subseteq Nat /\ SensorFlags # {}

VARIABLES
  (* registers of the SuC: they survive a reset of the SoC *)
  ctrl,      \* 0xB: 0 watchdog off, 1 watchdog on, 2 OS recovery asked for
  flags,     \* 0x2: what the SuC reports of the last reset
  socState,  \* 0x7: the state shown to the host
  scratch,   \* 0x9: previous state and the RECOVERY / RECOVERED bits
  swCount,   \* 0x8: SW_RESET_COUNT
  (* the SoC: lost at every reset *)
  pc,        \* the program running and its next step
  env,       \* U-Boot's environment variable `maintenance` exists
  needs,     \* check_maint's needs_maint
  hung,      \* the running OS is stuck
  (* what is on the media *)
  script,    \* a boot target holds boot.scr
  maintFile, \* /maintenance/maintenance is on partition 2
  kernel,    \* the kernel image and DTB of the main OS
  (* history, read by the properties only *)
  boot,      \* what happened in this boot
  crashes,   \* watchdog resets of a running OS that check_maint has seen in a row
  faults     \* SuC accesses that have failed

sucVars   == <<ctrl, flags, socState, scratch, swCount>>
socVars   == <<pc, env, needs, hung>>
mediaVars == <<script, maintFile, kernel>>
vars == <<sucVars, socVars, mediaVars, boot, crashes, faults>>

-----------------------------------------------------------------------------
(* States of the SoC as the SuC knows them. *)
UBOOT == 1
OS_START == 2
OS_RUNNING == 3
MAINT_OS_RUNNING == 4
SocStates == 0 .. 4

Scratch == [prev: SocStates, recovery: BOOLEAN, recovered: BOOLEAN]
Kernels == {"absent", "unbootable", "hangs", "boots"}

CheckMaint == {"cm_identify", "cm_wd", "cm_flags", "cm_scratch", "cm_save"}
BootScript == {"sc_state", "sc_scratch", "sc_maint", "sc_main", "sc_booti", "sc_fallback"}
SucInit    == {"si_ctrl", "si_state", "si_scratch"}
MainOS     == {"kernel", "linux", "asked"} \cup SucInit
MaintOS    == {"mk_state", "mk_scratch", "maint"}
Places     == CheckMaint \cup {"bootcmd", "shell"} \cup BootScript \cup MainOS \cup MaintOS

(* From the arming of the watchdog until suc_init records OS_RUNNING. *)
StartWindow == {"sc_booti", "sc_fallback", "kernel"} \cup SucInit

(* What the board was doing when the resets that led to this boot began. *)
Phases == {"start", "run", "other"}

BootHistory ==
  [phase: Phases, asked: BOOLEAN, wdOff: BOOLEAN, decided: BOOLEAN,
   scriptRan: BOOLEAN, stateSaved: BOOLEAN, maintSaved: BOOLEAN, fileSeen: BOOLEAN,
   maintFailed: BOOLEAN, mainFailed: BOOLEAN, initFault: BOOLEAN]

NewBoot(phase, asked) ==
  [phase |-> phase, asked |-> asked,
   wdOff |-> FALSE, decided |-> FALSE, scriptRan |-> FALSE, stateSaved |-> FALSE,
   maintSaved |-> FALSE, fileSeen |-> FALSE, maintFailed |-> FALSE,
   mainFailed |-> FALSE, initFault |-> FALSE]

(* The status byte when the watchdog has not fired. *)
FlagsByte(sensors) ==
  sensors + (IF AuxPower THEN 1 ELSE 0) + (IF flags.osRecovery THEN 2 ELSE 0)

-----------------------------------------------------------------------------
(* One access to the SuC fails. *)
SucFails == faults < MaxFaults /\ faults' = faults + 1

Goto(place) == pc' = place
OthersKept == UNCHANGED <<mediaVars, hung, crashes>>

(* check_maint returns early on any failing access; PREBOOT goes on regardless. *)
CmAborts ==
  /\ pc \in CheckMaint
  /\ SucFails
  /\ Goto("bootcmd")
  /\ UNCHANGED <<sucVars, env, needs, boot>> /\ OthersKept

(* Device id and version match; SoC type, device id and state are written. *)
CmIdentify ==
  /\ pc = "cm_identify"
  /\ socState' = UBOOT
  /\ Goto("cm_wd")
  /\ UNCHANGED <<ctrl, flags, scratch, swCount, env, needs, boot, faults>> /\ OthersKept

CmDisableWatchdog ==
  /\ pc = "cm_wd"
  /\ ctrl' = 0
  /\ boot' = [boot EXCEPT !.wdOff = TRUE]
  /\ Goto("cm_flags")
  /\ UNCHANGED <<flags, socState, scratch, swCount, env, needs, faults>> /\ OthersKept

CmReadFlags ==
  /\ pc = "cm_flags"
  /\ env' = (env \/ flags.osRecovery)
  /\ Goto("cm_scratch")
  /\ UNCHANGED <<sucVars, needs, boot, faults>> /\ OthersKept

(* Mutants: the wrong previous state is looked at; the flag is not. *)
StartTimedOutWrongState == flags.wdFired /\ scratch.prev = UBOOT
StartTimedOutUnasked == scratch.prev = OS_START

(* The watchdog fired while the previous kernel was starting. *)
StartTimedOut == flags.wdFired /\ scratch.prev = OS_START

(* The watchdog fired under a running OS, main or maintenance. *)
RunTimedOut == flags.wdFired /\ scratch.prev \in {OS_RUNNING, MAINT_OS_RUNNING}

(* Mutant: off by one. *)
TooManyResetsLate(count) == Counter # 0 /\ count > Counter + 1 /\ Timer = 0

TooManyResets(count) == Counter # 0 /\ count > Counter /\ Timer = 0

NextCount == (swCount + 1) % RegMod

(* Reads the scratchpad and settles needs_maint and SW_RESET_COUNT. *)
CmDecide ==
  /\ pc = "cm_scratch"
  /\ \/ /\ StartTimedOut
        /\ needs' = TRUE
        /\ UNCHANGED swCount
     \/ /\ RunTimedOut
        /\ swCount' = NextCount
        /\ needs' = TooManyResets(swCount')
     \/ /\ flags.wdFired /\ ~StartTimedOut /\ ~RunTimedOut
        /\ UNCHANGED <<needs, swCount>>
     \/ /\ ~flags.wdFired
        /\ \E sensors \in SensorFlags : swCount' = FlagsByte(sensors) % RegMod
        /\ UNCHANGED needs
  /\ crashes' = IF ~flags.wdFired THEN 0
                ELSE IF boot.phase = "run" /\ crashes < RegMod THEN crashes + 1
                ELSE crashes
  /\ Goto("cm_save")
  /\ UNCHANGED <<ctrl, flags, socState, scratch, env, boot, faults, mediaVars, hung>>

CmSave ==
  /\ pc = "cm_save"
  /\ scratch' = [scratch EXCEPT !.prev = UBOOT, !.recovery = @ \/ needs]
  /\ env' = (env \/ needs)
  /\ boot' = [boot EXCEPT !.decided = TRUE]
  /\ Goto("bootcmd")
  /\ UNCHANGED <<ctrl, flags, socState, swCount, needs, faults>> /\ OthersKept

-----------------------------------------------------------------------------
(* U-Boot's boot command: a boot.scr of a boot target, else the image in   *)
(* the xSPI flash, which is the maintenance kernel.                        *)
LoadMaintImage(onFailure) ==
  \/ Goto("mk_state")
  \/ ~MaintImageBoots /\ Goto(onFailure)

BootCommand ==
  /\ pc = "bootcmd"
  /\ \/ script /\ Goto("sc_state") /\ boot' = [boot EXCEPT !.scriptRan = TRUE]
     \/ ~script /\ LoadMaintImage("shell") /\ UNCHANGED boot
  /\ UNCHANGED <<sucVars, env, needs, faults>> /\ OthersKept

(* The script ignores the result of every `i2c mw`. *)
ScState ==
  /\ pc = "sc_state"
  /\ \/ socState' = OS_START /\ UNCHANGED faults
     \/ SucFails /\ UNCHANGED socState
  /\ Goto("sc_scratch")
  /\ UNCHANGED <<ctrl, flags, scratch, swCount, env, needs, boot>> /\ OthersKept

(* Mutant: read, mask, write, as the line commented out did. *)
ScScratchMasked ==
  /\ pc = "sc_scratch"
  /\ scratch' = [scratch EXCEPT !.prev = OS_START]
  /\ boot' = [boot EXCEPT !.stateSaved = TRUE]
  /\ Goto("sc_maint")
  /\ UNCHANGED <<ctrl, flags, socState, swCount, env, needs, faults>> /\ OthersKept

(* The whole scratchpad is overwritten: RECOVERY and RECOVERED are lost. *)
ScScratch ==
  /\ pc = "sc_scratch"
  /\ \/ /\ scratch' = [prev |-> OS_START, recovery |-> FALSE, recovered |-> FALSE]
        /\ boot' = [boot EXCEPT !.stateSaved = TRUE]
        /\ UNCHANGED faults
     \/ SucFails /\ UNCHANGED <<scratch, boot>>
  /\ Goto("sc_maint")
  /\ UNCHANGED <<ctrl, flags, socState, swCount, env, needs>> /\ OthersKept

(* A maintenance image that does not load lets the script go on to line 60. *)
ScMaint ==
  /\ pc = "sc_maint"
  /\ env' = (env \/ maintFile)
  /\ \/ ~env' /\ Goto("sc_main") /\ UNCHANGED boot
     \/ env' /\ LoadMaintImage("sc_main")
             /\ boot' = [boot EXCEPT !.fileSeen = maintFile,
                                     !.maintFailed = (pc' = "sc_main")]
  /\ UNCHANGED <<sucVars, needs, faults>> /\ OthersKept

(* The watchdog is armed once both the kernel and its DTB are found. *)
ScMain ==
  /\ pc = "sc_main"
  /\ \/ /\ kernel = "absent"
        /\ boot' = [boot EXCEPT !.mainFailed = TRUE]
        /\ Goto("sc_fallback")
        /\ UNCHANGED <<ctrl, faults>>
     \/ /\ kernel # "absent"
        /\ Goto("sc_booti")
        /\ UNCHANGED boot
        /\ \/ ctrl' = 1 /\ UNCHANGED faults
           \/ SucFails /\ UNCHANGED ctrl
  /\ UNCHANGED <<flags, socState, scratch, swCount, env, needs>> /\ OthersKept

(* booti returns only if it cannot start the image. *)
ScBooti ==
  /\ pc = "sc_booti"
  /\ \/ kernel # "unbootable" /\ Goto("kernel") /\ UNCHANGED boot
     \/ /\ kernel = "unbootable"
        /\ Goto("sc_fallback")
        /\ boot' = [boot EXCEPT !.mainFailed = TRUE]
  /\ UNCHANGED <<sucVars, env, needs, faults>> /\ OthersKept

(* An ITB on partition 2 or on USB, then the xSPI flash: all maintenance kernels. *)
ScFallback ==
  /\ pc = "sc_fallback"
  /\ LoadMaintImage("shell")
  /\ UNCHANGED <<sucVars, env, needs, boot, faults>> /\ OthersKept

-----------------------------------------------------------------------------
(* The main OS. *)
KernelUp ==
  /\ pc = "kernel"
  /\ kernel = "boots"
  /\ Goto("si_ctrl")
  /\ UNCHANGED <<sucVars, env, needs, boot, faults>> /\ OthersKept

(* Mutant: suc_init leaves the watchdog alone. *)
SiCtrlLeftOn ==
  /\ pc = "si_ctrl"
  /\ Goto("si_state")
  /\ UNCHANGED <<sucVars, env, needs, boot, faults>> /\ OthersKept

(* suc_init.sh: the empty answer of a failing i2cget does not stop it      *)
(* (`[ != 0x53 ]` is an error, not true), nor does a failing i2cset, and   *)
(* only the last one decides its exit status.                              *)
SiCtrl ==
  /\ pc = "si_ctrl"
  /\ \/ ctrl' = 0 /\ UNCHANGED <<faults, boot>>
     \/ SucFails /\ boot' = [boot EXCEPT !.initFault = TRUE] /\ UNCHANGED ctrl
  /\ Goto("si_state")
  /\ UNCHANGED <<flags, socState, scratch, swCount, env, needs>> /\ OthersKept

SiState ==
  /\ pc = "si_state"
  /\ \/ socState' = OS_RUNNING /\ UNCHANGED faults
     \/ SucFails /\ UNCHANGED socState
  /\ Goto("si_scratch")
  /\ UNCHANGED <<ctrl, flags, scratch, swCount, env, needs, boot>> /\ OthersKept

(* A failing last write fails the service, which systemd restarts. *)
SiScratch ==
  /\ pc = "si_scratch"
  /\ \/ /\ scratch' = [prev |-> OS_RUNNING, recovery |-> FALSE, recovered |-> FALSE]
        /\ Goto("linux")
        /\ UNCHANGED faults
     \/ SucFails /\ Goto("si_ctrl") /\ UNCHANGED scratch
  /\ UNCHANGED <<ctrl, flags, socState, swCount, env, needs, boot>> /\ OthersKept

LinuxHangs ==
  /\ pc = "linux" /\ ~hung
  /\ hung' = TRUE
  /\ UNCHANGED <<sucVars, pc, env, needs, mediaVars, boot, crashes, faults>>

(* upgrade_soc stages or withdraws an upgrade. *)
LinuxStages ==
  /\ pc = "linux" /\ ~hung
  /\ maintFile' \in BOOLEAN
  /\ UNCHANGED <<sucVars, socVars, script, kernel, boot, crashes, faults>>

(* boot_maintenance asks the SuC for recovery, then reboots. *)
AskMaintenance ==
  /\ pc = "linux" /\ ~hung
  /\ \/ ctrl' = 2 /\ UNCHANGED faults
     \/ SucFails /\ UNCHANGED ctrl
  /\ Goto("asked")
  /\ UNCHANGED <<flags, socState, scratch, swCount, env, needs, boot>> /\ OthersKept

-----------------------------------------------------------------------------
(* The maintenance kernel: presetup, then update_maintenance. *)
MkState ==
  /\ pc = "mk_state"
  /\ \/ socState' = MAINT_OS_RUNNING /\ Goto("mk_scratch") /\ UNCHANGED faults
     \/ SucFails /\ pc' \in {"mk_scratch", "maint"} /\ UNCHANGED socState
  /\ UNCHANGED <<ctrl, flags, scratch, swCount, env, needs, boot>> /\ OthersKept

(* Read, mask, write: the RECOVERY and RECOVERED bits are kept. *)
MkScratch ==
  /\ pc = "mk_scratch"
  /\ \/ /\ scratch' = [scratch EXCEPT !.prev = MAINT_OS_RUNNING]
        /\ boot' = [boot EXCEPT !.maintSaved = TRUE]
        /\ UNCHANGED faults
     \/ SucFails /\ UNCHANGED <<scratch, boot>>
  /\ Goto("maint")
  /\ UNCHANGED <<ctrl, flags, socState, swCount, env, needs>> /\ OthersKept

(* What update_maintenance can leave behind, whenever it ends or is cut    *)
(* short: other media, and the bits its recoveries set and clear.          *)
MaintUpdates ==
  /\ pc = "maint"
  /\ script' \in BOOLEAN
  /\ maintFile' \in BOOLEAN
  /\ kernel' \in Kernels
  /\ \/ UNCHANGED scratch
     \/ scratch.recovery /\ ~scratch.recovered
          /\ scratch' = [scratch EXCEPT !.recovery = FALSE, !.recovered = TRUE]
     \/ scratch' = [scratch EXCEPT !.recovery = FALSE]
  /\ UNCHANGED <<ctrl, flags, socState, swCount, socVars, boot, crashes, faults>>

-----------------------------------------------------------------------------
(* Resets of the SoC. *)
PhaseAtReset ==
  IF pc \in CheckMaint THEN boot.phase
  ELSE IF pc \in StartWindow /\ boot.stateSaved THEN "start"
  ELSE IF pc \in {"linux", "asked"} \/ (pc = "maint" /\ boot.maintSaved) THEN "run"
  ELSE "other"

ResetSoC(wd) ==
  /\ flags' = [wdFired |-> wd, osRecovery |-> (ctrl = 2)]
  /\ ctrl' \in {ctrl, 0}
  /\ boot' = NewBoot(PhaseAtReset, ctrl = 2)
  /\ pc' = "cm_identify" /\ env' = FALSE /\ needs' = FALSE /\ hung' = FALSE
  /\ UNCHANGED <<socState, scratch, swCount, mediaVars, crashes, faults>>

(* Mutant: the kernel kicks from its start. *)
KickedFromStart == pc \in {"kernel", "linux", "asked"} /\ ~hung

(* suc_comms kicks every 20 s as long as the main OS runs. *)
Kicked == pc \in {"linux", "asked"} /\ ~hung

WatchdogFires ==
  /\ ctrl = 1 /\ ~Kicked
  /\ ResetSoC(TRUE)

(* boot_maintenance ends with a reboot. *)
Reboot == pc = "asked" /\ ResetSoC(FALSE)

(* A user's reboot, a reset by the host, a power cycle of the SoC alone. *)
ExternalReset == pc # "asked" /\ ResetSoC(FALSE)

(* The card loses power: the SuC starts over as well. *)
ColdStart ==
  /\ ctrl' = 0 /\ socState' = 0 /\ swCount' = 0
  /\ scratch' = [prev |-> 0, recovery |-> FALSE, recovered |-> FALSE]
  /\ flags' = [wdFired |-> FALSE, osRecovery |-> FALSE]
  /\ boot' = NewBoot("other", FALSE)
  /\ pc' = "cm_identify" /\ env' = FALSE /\ needs' = FALSE /\ hung' = FALSE
  /\ crashes' = 0
  /\ UNCHANGED <<mediaVars, faults>>

-----------------------------------------------------------------------------
Init ==
  /\ ctrl = 0 /\ socState = 0 /\ swCount = 0
  /\ scratch = [prev |-> 0, recovery |-> FALSE, recovered |-> FALSE]
  /\ flags = [wdFired |-> FALSE, osRecovery |-> FALSE]
  /\ pc = "cm_identify" /\ env = FALSE /\ needs = FALSE /\ hung = FALSE
  /\ script \in BOOLEAN /\ maintFile \in BOOLEAN /\ kernel \in Kernels
  /\ boot = NewBoot("other", FALSE) /\ crashes = 0 /\ faults = 0

UBootStep ==
  CmIdentify \/ CmDisableWatchdog \/ CmReadFlags \/ CmDecide \/ CmSave \/ BootCommand

ScriptStep == ScState \/ ScScratch \/ ScMaint \/ ScMain \/ ScBooti \/ ScFallback

OSStep == KernelUp \/ SiCtrl \/ SiState \/ SiScratch \/ Reboot \/ MkState \/ MkScratch

Program == UBootStep \/ ScriptStep \/ OSStep

Next ==
  \/ Program \/ CmAborts
  \/ LinuxHangs \/ LinuxStages \/ AskMaintenance \/ MaintUpdates
  \/ WatchdogFires \/ ExternalReset \/ ColdStart

Spec == Init /\ [][Next]_vars

(* A program that can take its next step takes it, and an armed watchdog   *)
(* nobody kicks runs out.  The period of 180 s (complex_boot.txt:26) is    *)
(* long against the steps listed with SF: it does not cut them short each  *)
(* time.  Nothing is assumed of users, hosts and faults.                   *)
FairSpec ==
  /\ Spec
  /\ WF_vars(Program) /\ WF_vars(WatchdogFires)
  /\ SF_vars(CmDisableWatchdog) /\ SF_vars(ScBooti) /\ SF_vars(ScFallback)
  /\ SF_vars(MkState) /\ SF_vars(MkScratch)

-----------------------------------------------------------------------------
(* Types of the registers and of the program state. *)
TypeOK ==
  /\ ctrl \in 0 .. 2
  /\ flags \in [wdFired: BOOLEAN, osRecovery: BOOLEAN]
  /\ socState \in SocStates
  /\ scratch \in Scratch
  /\ swCount \in 0 .. RegMod - 1
  /\ pc \in Places
  /\ env \in BOOLEAN /\ needs \in BOOLEAN /\ hung \in BOOLEAN
  /\ script \in BOOLEAN /\ maintFile \in BOOLEAN /\ kernel \in Kernels
  /\ boot \in BootHistory
  /\ crashes \in 0 .. RegMod
  /\ faults \in 0 .. MaxFaults

(* The watchdog reset that led to this boot hit a starting kernel / an OS. *)
StartFailed == flags.wdFired /\ boot.phase = "start"
RunFailed == flags.wdFired /\ boot.phase = "run"

(* A boot that follows a watchdog reset of a starting kernel, or a         *)
(* boot_maintenance, and whose check_maint ran to its end, starts the main *)
(* kernel only after a maintenance image failed to load.                   *)
EscalationHonoured ==
  boot.decided /\ pc \in MainOS /\ (StartFailed \/ boot.asked)
    => boot.maintFailed

(* Conversely a boot whose script ran ends in the maintenance kernel only  *)
(* if it was asked to, if the previous start failed, if the main kernel    *)
(* cannot be started, or if a running OS was reset and Counter is in use.  *)
NoSpuriousMaintenance ==
  pc \in MaintOS /\ boot.scriptRan =>
    \/ boot.asked \/ boot.fileSeen \/ boot.mainFailed
    \/ flags.wdFired /\ boot.phase \in {"start", "other"}
    \/ RunFailed /\ Counter # 0 /\ Timer = 0

(* suc_init ends only once the scratchpad says so: a later watchdog reset  *)
(* of the running OS is never taken for a kernel that failed to start.     *)
RunningIsRecorded ==
  pc \in {"linux", "asked"} =>
    scratch = [prev |-> OS_RUNNING, recovery |-> FALSE, recovered |-> FALSE]

(* complex_boot.txt:38, "it will disable the auto recovery in maintenance  *)
(* kernel": whatever check_maint and earlier boots left in the scratchpad, *)
(* a maintenance kernel started by the script sees neither bit.            *)
AutoRecoveryDisabled ==
  pc \in MaintOS /\ boot.scriptRan /\ boot.stateSaved =>
    ~scratch.recovery /\ ~scratch.recovered

(* Once check_maint has turned the watchdog off, it is on only while the   *)
(* main kernel starts, unless that kernel could not be started or an       *)
(* access of suc_init failed.                                              *)
WatchdogCoversStart ==
  ctrl = 1 /\ boot.wdOff =>
    pc \in {"sc_booti", "sc_fallback", "kernel", "si_ctrl"}
      \/ boot.mainFailed \/ boot.initFault

(* The count has not wrapped: it starts from the status byte, which is at  *)
(* most the sensors' bits and 3, and each failing access may have it count *)
(* one reset more than there were.                                         *)
Unwrapped == \A sensors \in SensorFlags : crashes + sensors + 3 + faults < RegMod

(* With `suc check_maint <Counter> 0`: more than Counter watchdog resets   *)
(* of a running OS in a row lead to maintenance, below the wrap of the     *)
(* 8-bit register, whichever accesses fail in between.                     *)
CrashLimit ==
  ( /\ Counter # 0 /\ Timer = 0 /\ boot.decided /\ RunFailed
    /\ crashes > Counter /\ pc \in MainOS /\ Unwrapped )
    => boot.maintFailed

(* What check_maint has decided reaches the environment, and the script    *)
(* obeys it.                                                               *)
DecisionKept ==
  /\ boot.asked <=> flags.osRecovery
  /\ pc \in CheckMaint => ~boot.decided
  /\ pc = "cm_save" /\ StartFailed => needs
  /\ pc \in {"cm_scratch", "cm_save"} /\ boot.asked => env
  /\ pc \in {"bootcmd", "sc_state", "sc_scratch", "sc_maint"}
       /\ boot.decided /\ (StartFailed \/ boot.asked) => env
  /\ pc \in {"sc_main", "sc_booti", "sc_fallback"} \cup MainOS
       /\ boot.decided /\ (StartFailed \/ boot.asked) => boot.maintFailed

(* The scratchpad tells the next check_maint where a reset hit, and this   *)
(* maintenance kernel what to recover.                                     *)
ScratchKept ==
  /\ pc \in CheckMaint /\ boot.phase = "start" => scratch.prev = OS_START
  /\ pc \in {"sc_maint", "sc_main"} \cup StartWindow /\ boot.stateSaved
       => scratch.prev = OS_START
  /\ pc \in CheckMaint \cup {"bootcmd", "sc_state", "sc_scratch"} => ~boot.stateSaved
  /\ boot.stateSaved => ~scratch.recovery /\ ~scratch.recovered
  /\ RunningIsRecorded

WatchdogKept ==
  /\ pc = "sc_fallback" => boot.mainFailed
  /\ WatchdogCoversStart

(* Every way to the maintenance kernel has its reason: what check_maint    *)
(* orders follows a request, a reset that did not hit a running OS, or, if *)
(* Counter is in use, one that did, which the scratchpad tells apart.      *)
Ordered ==
  \/ boot.asked
  \/ flags.wdFired /\ boot.phase \in {"start", "other"}
  \/ RunFailed /\ Counter # 0 /\ Timer = 0

ReasonKept ==
  /\ pc \in CheckMaint /\ boot.phase = "run"
       => scratch.prev \in {OS_RUNNING, MAINT_OS_RUNNING}
  /\ boot.maintSaved => pc = "maint" /\ scratch.prev = MAINT_OS_RUNNING
  /\ pc \in CheckMaint \cup {"bootcmd"} => ~boot.scriptRan
  /\ needs => Ordered
  /\ pc \in CheckMaint \cup {"bootcmd", "sc_state", "sc_scratch", "sc_maint"} /\ env
       => Ordered
  /\ NoSpuriousMaintenance

(* A watchdog reset that hits, or would hit, no running OS, and that       *)
(* check_maint will all the same count as one: the scratchpad still holds  *)
(* the state of the boot before. It takes a failing access to get here.    *)
OSRecorded == scratch.prev \in {OS_RUNNING, MAINT_OS_RUNNING}
Miscounted ==
  IF pc \in CheckMaint
  THEN pc # "cm_save" /\ boot.phase = "other" /\ OSRecorded /\ (flags.wdFired \/ ctrl = 1)
  ELSE /\ PhaseAtReset = "other" /\ OSRecorded
       /\ ctrl = 1 \/ pc \in {"sc_maint", "sc_main"}

(* As long as it does not wrap, SW_RESET_COUNT is never below the number   *)
(* of crashes, and exceeds it at most by the status byte it started from   *)
(* and by one for each failing access: inductive with CrashKept.           *)
CountKept ==
  Unwrapped =>
    /\ crashes <= swCount
    /\ \E sensors \in SensorFlags :
         swCount + (IF Miscounted THEN 1 ELSE 0) <= crashes + sensors + 3 + faults

(* Once the crashes exceed Counter, the order for maintenance goes from    *)
(* check_maint's variable to the environment, and from there to the boot   *)
(* script, which goes past it only if no maintenance image loads.          *)
CrashKept ==
  /\ pc \in {"cm_flags", "cm_scratch", "cm_save"} => ctrl = 0
  /\ Counter # 0 /\ Timer = 0 /\ RunFailed /\ crashes > Counter /\ Unwrapped =>
       /\ pc = "cm_save" => needs
       /\ pc \in {"bootcmd", "sc_state", "sc_scratch", "sc_maint"} /\ boot.decided => env
       /\ pc \in {"sc_main", "sc_booti", "sc_fallback"} \cup MainOS /\ boot.decided
            => boot.maintFailed

(* What each program may rely on when it gets control: inductive, and it   *)
(* implies the four invariants above that hold for every Counter and Timer. *)
BootInvariant == DecisionKept /\ ScratchKept /\ WatchdogKept

(* complex_boot.txt:67 sets the watchdog "for kernel boot": no maintenance *)
(* kernel, which never kicks it, runs under it.                            *)
MaintenanceUnwatched == pc \in MaintOS => ctrl # 1

(* Resets from outside come to an end. *)
ResetsEnd == <>[][~ExternalReset /\ ~ColdStart]_vars

(* The watchdog rescues a kernel that hangs while it starts: the board     *)
(* ends up in the maintenance kernel.                                      *)
HungStartRescued ==
  ResetsEnd => (pc = "kernel" /\ kernel = "hangs" ~> pc = "maint")

(* No boot is stuck half-way: again and again the board is in an OS, or at *)
(* U-Boot's prompt when nothing can be loaded.                             *)
BootSettles == ResetsEnd => []<>(pc \in {"linux", "maint", "shell"})
=============================================================================
