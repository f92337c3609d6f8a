---------------------------- MODULE UpgradeCycle ----------------------------
(***************************************************************************)
(* The whole cycle of an upgrade: upgrade_soc in the main OS, resets at    *)
(* any time, the boot chain (as SocBoot details it) and update_maintenance *)
(* in the maintenance kernel.                                              *)
(***************************************************************************)
EXTENDS UpdateMaintenance, UpgradeSoc

CONSTANTS
  MaxResets,  \* bound on resets nobody's program asked for
  MaxEvents   \* bound on those resets and the calls of upgrade_soc together

ASSUME CycleAssumption == MaxResets \in Nat /\ MaxEvents \in Nat

VARIABLE resets

vars == <<mediaVars, pc, faults, mishaps, umVars, usVars, resets>>

-----------------------------------------------------------------------------
(* What U-Boot and the boot script make of the media.  Without a boot.scr  *)
(* the maintenance kernel of the flash runs, with the bits of the          *)
(* scratchpad as they are and as check_maint leaves them; the script       *)
(* clears both and looks for the maintenance file.  For want of a kernel   *)
(* in the flash it takes one from a USB stick, or goes on to the main OS,  *)
(* even with a job pending, or ends at U-Boot's prompt.                    *)
Boot ==
  /\ pc = "off"
  /\ \/ xspi.uboot = "broken" /\ Goto("dead") /\ UNCHANGED bits
     \/ /\ xspi.uboot # "broken" /\ ~HasScript
        /\ \E asked \in BOOLEAN : bits' = [bits EXCEPT !.recovery = @ \/ asked]
        /\ IF xspi.kernel = "broken" THEN Goto("dead") ELSE Goto("um_start")
     \/ /\ xspi.uboot # "broken" /\ HasScript
        /\ bits' = NoBits
        /\ \/ Goto("um_start")
           \/ xspi.kernel = "broken" /\ Goto("dead")
           \/ ~p2.mfile.file /\ p2.boot # "script" /\ Goto("os")
           \/ xspi.kernel = "broken" /\ p2.boot # "script" /\ Goto("os")
  /\ mishaps' = IF pc' = "os" /\ p2.mfile.file THEN mishaps \cup {"passed over"} ELSE mishaps
  /\ UNCHANGED <<p2, p3, xspi, umVars, usVars, resets, faults>>

(* Programs that a reset finds at work on something a later boot relies on. *)
CutByReset ==
  CASE pc = "us_copy" /\ InUse(Current) -> {"staging"}
    [] pc \in {"bt_erase", "bt_boot", "bt_data", "bt_mfile", "rr_erase"} -> {"partition2"}
    [] pc = "bt_validate" /\ caller = "remote" -> {"partition2"}
    [] pc \in {"bt_rootfs", "bt_rootfs_write", "bt_xspi", "bt_xspi_erase", "bt_finish"} ->
         {"process"}
    [] pc \in {"bt_xspi_fw", "bt_xspi_write"} -> {"process", "flash"}
    [] pc = "lr_write" -> {"recovery"}
    [] pc \in {"up_xspi_fw", "up_xspi_write"} -> {"flash"}
    [] OTHER -> {}

Reset ==
  /\ pc \notin {"off", "dead"}
  /\ resets < MaxResets /\ resets' = resets + 1
  /\ mishaps' = mishaps \cup CutByReset
  /\ Exit("off")
  /\ todo' = {} /\ mfile' = NoJob
  /\ UNCHANGED <<mediaVars, stagings, faults>>

(* The flash of a board that does not start is written from outside. *)
Reprogram ==
  /\ pc = "dead"
  /\ xspi' = OldFlash
  /\ Goto("off")
  /\ UNCHANGED <<p2, p3, bits, umVars, usVars, resets>> /\ Quiet

-----------------------------------------------------------------------------
(* A card in use, or one whose eMMC has just been partitioned. *)
Init ==
  /\ \/ p2 = [EmptyP2 EXCEPT !.boot = "old", !.rootfs = "old"] /\ p3 = "old"
     \/ p2 = EmptyP2 /\ p3 = "broken"
  /\ xspi = OldFlash /\ bits = NoBits
  /\ pc = "off" /\ faults = 0 /\ mishaps = {}
  /\ UmIdle /\ UsIdle /\ stagings = 0 /\ resets = 0

Program ==
  \/ Boot
  \/ UmStep /\ UNCHANGED <<usVars, resets>>
  \/ UsStep /\ UNCHANGED <<umVars, resets>>

Next ==
  \/ Program
  \/ UmUser /\ UNCHANGED <<usVars, resets>>
  \/ UsUser /\ stagings' + resets <= MaxEvents /\ UNCHANGED <<umVars, resets>>
  \/ Reset /\ stagings + resets' <= MaxEvents
  \/ Reprogram

Spec == Init /\ [][Next]_vars

FairSpec == Spec /\ WF_vars(Program)

-----------------------------------------------------------------------------
TypeOK ==
  /\ p2 \in Partition2
  /\ p3 \in {"broken", "old", "new"}
  /\ xspi \in FlashParts
  /\ bits \in [recovery: BOOLEAN, recovered: BOOLEAN]
  /\ seen \in [recovery: BOOLEAN, recovered: BOOLEAN]
  /\ job \in Jobs /\ mfile \in Jobs /\ todo \subseteq Kinds
  /\ tgz \in Images \cup {"none"}
  /\ mishaps \subseteq Mishaps
  /\ faults \in 0 .. MaxFaults /\ resets \in 0 .. MaxResets /\ stagings \in 0 .. MaxStagings

InOS == pc \in {"os", "us", "us_copy", "us_save"}

(* What may have cost partition 3 since the last complete update.          *)
RootfsAtRisk ==
  mishaps \cap {"staging", "partition2", "recovery", "unpack", "mount", "passed over", "image"} # {}

(* The same for data/rootfs.tgz, and for the flash. *)
ArchiveAtRisk == mishaps \cap {"partition2", "process", "image"} # {}
FlashAtRisk == mishaps \cap {"flash", "flash image"} # {}

(* Partition 3 has to be written before a main OS may run.                 *)
Behind == p3 = "broken" \/ (p2.boot = "new" /\ p3 # "new")

(* A main OS never runs on a half-written root file system, nor with the   *)
(* /boot of a new image on an older one: the maintenance file, staged or   *)
(* from the image itself, outlives every write to partition 3 and makes    *)
(* the next boot write it again.                                           *)
RootfsFits == InOS /\ Behind => RootfsAtRisk

(* data/rootfs.tgz, from which do_local_recovery restores partition 3, is  *)
(* there whenever the main OS runs.                                        *)
RecoveryArchiveKept ==
  InOS /\ p2.rootfs \in {"none", "bad"} => ArchiveAtRisk

(* update_maintenance reboots by itself only into a system it has          *)
(* completed: no job left, a root file system that is whole, and a flash   *)
(* without a half-written image, unless a reset or a failing write cut     *)
(* update_xspi short, or it copied a cut-short image.                      *)
RebootsComplete ==
  [][pc = "um_end" /\ pc' = "off" /\ UNCHANGED resets =>
       /\ ~p2.mfile.file
       /\ p3 = "broken" => RootfsAtRisk
       /\ Flash = "broken" => FlashAtRisk
    ]_vars

(* A reset at any time does not send the card from one automatic reboot to *)
(* the next: it comes to rest in an OS, at the maintenance prompt or dead. *)
ComesToRest == []<>(InOS \/ pc \in {"idle", "dead"})

(* A job that update_maintenance has taken up is ended by it, whatever     *)
(* fails on the way (do_upgrade, finish_upgrade), unless a reset stops it. *)
JobEnds == pc = "up_parse" ~> ~p2.mfile.file \/ pc = "off"

(* What the maintenance file asks for, as parts of the card. *)
Owed == {part \in {"rootfs", "flash"} :
  IF part = "rootfs" THEN p2.mfile.rootfs # "none" ELSE p2.mfile.xspi}

Bootable == IF p2.boot \in {"old", "new"} THEN p2.boot ELSE "none"

AtRisk == {part \in {"rootfs", "flash"} :
  IF part = "rootfs" THEN RootfsAtRisk ELSE FlashAtRisk}

(* The implementation of UpgradePromise: a job for the root file system or *)
(* the flash is not forgotten before it is carried out, and the main OS is *)
(* not started with one pending.  A job for a whole image is not among     *)
(* them: UpTgz moves the image into memory, and a reset loses it.          *)
Promise == INSTANCE UpgradePromise WITH
  running <- InOS,
  owed <- Owed,
  boot <- Bootable,
  rootfs <- p3,
  flash <- Flash,
  risks <- AtRisk

CardKeepsPromise == Promise!Spec

(* update_maintenance:552, "SoC updated with new image": what              *)
(* process_boottgz then reports has been written.                          *)
UpdatedMeansWritten == pc = "bt_finish" /\ retval => p3 = "new" /\ Flash # "broken"
-----------------------------------------------------------------------------
(* Why the maintenance file is a journal: what RootfsFits rests on, and    *)
(* inductive.                                                              *)

(* The next boot does not start the main OS, or the job it finds first     *)
(* restores partition 3, from an archive that is there and whole.          *)
Restores(j) ==
  \/ j.rootfs = "data" /\ p2.rootfs \in {"old", "new"}
  \/ j.rootfs = "staged" /\ p2.staged["rootfs"] = "whole"
Journaled == ~HasScript \/ Restores(p2.mfile)

(* Steps after which partition 3 needs no job any more. *)
Written ==
  \/ pc \in {"up_rootfs_rm", "up_tgz", "um_finish"}
  \/ pc = "bt_validate" /\ caller = "upgrade"

Flashing == {"bt_xspi", "bt_xspi_fw", "bt_xspi_erase", "bt_xspi_write"}

Unpacking == {"bt_boot", "bt_data", "bt_mfile", "bt_rootfs", "bt_rootfs_write", "bt_finish"}
               \cup Flashing

(* The programs on partition 2, whatever has gone wrong. *)
Unpacked ==
  /\ p2.boot \in {"dir", "script", "new"} => p2.rootfs # "old"
  /\ pc \in Unpacking => p2.staged["rootfs"] = "none" /\ p2.rootfs # "old"
  /\ pc = "bt_boot" => p2.rootfs = "none"
  /\ pc \in {"bt_rootfs", "bt_rootfs_write"} => p2.mfile = InstallerJob
  /\ pc \in {"bt_rootfs_write", "lr_write"} => p2.rootfs # "none"
  /\ pc \in Flashing => retval /\ p3 = "new" /\ p2.rootfs = "new"
  /\ pc = "bt_finish" /\ retval => p3 = "new" /\ p2.rootfs = "new"

(* The job in memory is the one of the file, which is written last. *)
JobKept ==
  /\ p2.mfile.rootfs # "none" => p2.mfile.file
  /\ pc \in {"up_xspi", "up_xspi_fw", "up_xspi_erase", "up_xspi_write", "up_xspi_rm",
              "up_rootfs", "up_rootfs_write", "up_rootfs_rm"} => job = p2.mfile
  /\ pc = "up_rootfs_write" => job.rootfs # "none" /\ RootfsOfJob # "none"
  /\ pc \in {"us", "us_copy", "us_save"} /\ mfile.rootfs # "none" =>
       mfile.file /\ mfile.rootfs = "staged"
  /\ pc \in {"us_save"} => todo = {}
  /\ pc = "us_copy" => todo # {}

(* As long as no mishap puts partition 3 at risk. *)
ArchivesKept ==
  /\ p2.rootfs = "bad" => pc = "bt_data"
  /\ p2.mfile.rootfs = "staged" =>
       p2.staged["rootfs"] \in {"whole", "none"} \/ (pc = "us_copy" /\ "rootfs" \in todo)
  /\ pc \in {"us", "us_copy", "us_save"} /\ mfile.rootfs = "staged" /\ "rootfs" \notin todo =>
       p2.staged["rootfs"] = "whole"
  /\ pc \in {"bt_mfile", "bt_rootfs", "bt_rootfs_write"} => p2.rootfs = "new"
  /\ pc = "bt_finish" => retval

JournalKept ==
  /\ Behind => Journaled \/ pc \in {"lr_write", "bt_boot", "bt_data", "bt_mfile"}
  /\ Behind /\ Written => ~HasScript
  /\ InOS => ~Behind

JournalInv == Unpacked /\ JobKept /\ (~RootfsAtRisk => ArchivesKept /\ JournalKept)
(* What the other two rest on: the archive that local recovery needs goes  *)
(* only with the /boot that would start the main OS, and a job that takes  *)
(* it away is put aside by the process_boottgz that brought it;            *)
RecoveryKept ==
  /\ p2.rootfs \in {"none", "bad"} => ~HasScript \/ pc \in {"bt_boot", "bt_data"}
  /\ p2.mfile.rootfs = "data" => pc \in Unpacking \ {"bt_boot", "bt_data", "bt_mfile"}
  /\ InOS => p2.rootfs \notin {"none", "bad"}

(* and whoever ends with a reboot has a system to start, and no job left.  *)
RebootKept ==
  /\ pc = "idle" => ~reboot
  /\ caller = "user" => pc \in Unpacking \cup {"bt_validate", "bt_erase", "um_end"} /\ ~reboot
  /\ pc \in {"um_local", "lr_write", "lr_bits", "um_remote", "rr_bits"} => ~p2.mfile.file
  /\ pc \in (Unpacking \ {"bt_boot"}) \cup {"rr_bits"} => p2.boot = "new"
  /\ pc = "um_end" /\ reboot /\ retval => ~p2.mfile.file /\ p2.boot # "none"

DirKept == p2.boot = "dir" => pc = "bt_boot"

FlashKept ==
  /\ xspi.uboot = "broken" => FlashAtRisk \/ pc \in {"up_xspi_fw", "bt_xspi_fw"}
  /\ xspi.kernel = "broken" => FlashAtRisk \/ pc \in {"up_xspi_write", "bt_xspi_write"}
  /\ pc \in {"up_xspi_fw", "bt_xspi_fw"} => xspi.uboot = "broken"
  /\ pc \in {"up_xspi_write", "bt_xspi_write"} => xspi.kernel = "broken"

CycleInv ==
  /\ JournalInv /\ RebootKept /\ FlashKept
  /\ ~ArchiveAtRisk => RecoveryKept
  /\ ~RootfsAtRisk => DirKept

(* What the promise rests on besides: the job of the file, and what it     *)
(* asks of the flash,                                                      *)
PastFlash == pc \in {"up_xspi_rm", "up_rootfs", "up_rootfs_write"} \/ Written

FlashWritten == Flash = "new" \/ FlashAtRisk

FlashOwed ==
  /\ pc = "dead" => Flash = "broken"
  /\ p2.mfile.xspi => p2.mfile.file
  /\ pc \in {"bt_boot", "bt_data", "bt_mfile"} => p2.mfile = NoJob
  /\ pc \in Flashing \cup {"bt_finish"} => p2.mfile = InstallerJob
  /\ p2.mfile.rootfs = "data" => p2.rootfs # "old"
  /\ pc \in {"us", "us_copy", "us_save"} /\ mfile.xspi =>
       mfile.file /\ ("xspi" \in todo \/ p2.staged["xspi"] # "none")
  /\ pc \in {"up_xspi_fw", "up_xspi_erase", "up_xspi_write"} => p2.staged["xspi"] # "none"
  /\ pc \in {"up_xspi_erase", "up_xspi_write"} => xspi.uboot = "new" \/ FlashAtRisk
  /\ p2.mfile.xspi => p2.staged["xspi"] # "none" \/ FlashWritten
  /\ p2.mfile.xspi /\ PastFlash => FlashWritten

(* and of partition 3, as long as no mishap puts it at risk: an archive    *)
(* is removed, or passed over, only after it has been unpacked.            *)
RootfsOwed ==
  /\ p2.mfile.rootfs = "data" /\ p2.rootfs = "none" => p3 = "new"
  /\ p2.mfile.rootfs = "staged" /\ p2.staged["rootfs"] = "none" => p3 = "new"
  /\ p2.mfile.rootfs # "none" /\ Written => p3 = "new"

PromiseInv == FlashOwed /\ (~RootfsAtRisk => RootfsOwed)
=============================================================================
