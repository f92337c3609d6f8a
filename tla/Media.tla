------------------------------- MODULE Media -------------------------------
(***************************************************************************)
(* What the two programs of an upgrade, upgrade_soc in the main OS and     *)
(* update_maintenance in the maintenance kernel, leave to each other and   *)
(* to the next boot: the eMMC partitions, the xSPI flash and the recovery  *)
(* bits of the SuC scratchpad.                                             *)
(***************************************************************************)
EXTENDS Integers

CONSTANT MaxFaults  \* bound on failing mounts, accesses to the SuC and writes

ASSUME MediaAssumption == MaxFaults \in Nat

VARIABLES
  p2,     \* partition 2: /boot, /data, /maintenance and the staged images
  p3,     \* partition 3: the root file system
  xspi,   \* the flash: U-Boot in one partition, the maintenance kernel in another
  bits,   \* RECOVERY and RECOVERED in the scratchpad
  pc,     \* the program running and its next step
  faults, \* mounts, accesses and writes that have failed
  mishaps \* history: what has gone wrong since the last complete update

mediaVars == <<p2, p3, xspi, bits>>

(* The images upgrade_soc stages, in the order in which it copies them. *)
Kinds == {"rootfs", "xspi", "tgz"}

(* A boot_mmc1.tgz: whole, without data/rootfs.tgz, with one that does not *)
(* unpack, or one that does not list, for being cut short or no image.     *)
Images == {"whole", "norootfs", "badrootfs", "invalid"}

(* A reset or a failing write cut short: the copy of an image that a job   *)
(* names, the replacing of partition 2, process_boottgz after it, a local  *)
(* recovery, the writing of the flash, the unpacking into partition 3; a   *)
(* job skipped because partition 3 did not mount, or passed over by a boot *)
(* for want of a maintenance kernel; an image or a flash image tried that  *)
(* was not whole.                                                          *)
Mishaps == {"staging", "partition2", "process", "recovery", "flash", "unpack", "mount",
            "passed over", "image", "flash image"}

FlashParts == [{"uboot", "kernel"} -> {"broken", "old", "new"}]

(* The flash as a whole: not whole, of the new image, or not yet. *)
Flash ==
  CASE xspi.uboot = "broken" \/ xspi.kernel = "broken" -> "broken"
    [] xspi.uboot = "new" /\ xspi.kernel = "new"       -> "new"
    [] OTHER -> "old"

OldFlash == [part \in {"uboot", "kernel"} |-> "old"]

(* /boot: missing, without boot.scr, without the DTB, complete. *)
Boots == {"none", "dir", "script", "old", "new"}

(* A rootfs archive: missing, not whole, or of a version. *)
Archives == {"none", "bad", "old", "new"}

(* The file /maintenance/maintenance: "data" names the rootfs of a         *)
(* boot_mmc1.tgz, "staged" the one of upgrade_soc.                         *)
NoJob == [file |-> FALSE, rootfs |-> "none", xspi |-> FALSE, tgz |-> FALSE, reboot |-> FALSE]
EmptyJob == [NoJob EXCEPT !.file = TRUE]
InstallerJob == [EmptyJob EXCEPT !.rootfs = "data", !.reboot = TRUE]
Jobs == [file: BOOLEAN, rootfs: {"none", "data", "staged"}, xspi: BOOLEAN,
         tgz: BOOLEAN, reboot: BOOLEAN]

Partition2 == [boot: Boots, rootfs: Archives, mfile: Jobs,
               staged: [Kinds -> Images \cup {"none"}]]

EmptyP2 == [boot |-> "none", rootfs |-> "none", mfile |-> NoJob,
            staged |-> [kind \in Kinds |-> "none"]]

HasScript == p2.boot \in {"script", "old", "new"}

(* An archive as populate_dir finds it on partition 2. *)
StagedRootfs ==
  CASE p2.staged["rootfs"] = "none"  -> "none"
    [] p2.staged["rootfs"] = "whole" -> "new"
    [] OTHER -> "bad"

Note(mishap) == mishaps' = mishaps \cup {mishap}

Fails == faults < MaxFaults /\ faults' = faults + 1

Goto(place) == pc' = place
=============================================================================
