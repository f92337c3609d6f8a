----------------------------- MODULE MaintTools -----------------------------
(***************************************************************************)
(* The tools of the main OS that work on partition 2 share one mount point *)
(* and no lock: upgrade_soc, which stages an image there, and              *)
(* update-cmdline, which writes the kernel arguments that the boot script  *)
(* imports.  Each unmounts what it finds mounted there first.              *)
(***************************************************************************)
EXTENDS Naturals

CONSTANTS
  Cmdlines,  \* update-cmdline --update, run side by side or again
  Stager,    \* upgrade_soc, run once at a time
  MaxFaults  \* bound on failing mounts and copies

ToolsAssumption == Stager \notin Cmdlines /\ MaxFaults \in Nat

VARIABLES
  mounted,  \* partition 2 is mounted at /mnt/maint
  images,   \* the images staged on partition 2
  job,      \* the images the maintenance file names
  args,     \* /boot/args.txt
  pc, what, \* of each tool
  staged,   \* history: the image that upgrade_soc has reported as staged
  pulled,   \* history: the partition was unmounted under upgrade_soc, before its copy
  disturbed,\* history: the last write of args.txt was cut short, or met another
  faults

disk == <<images, job, args>>
vars == <<mounted, disk, pc, what, staged, pulled, disturbed, faults>>

Tools == Cmdlines \cup {Stager}

(* boot_mmc1.tgz is staged in the root of the partition, rootfs_1.tgz in a *)
(* directory of it that /mnt/maint has only while it is mounted.           *)
Kinds == {"boot_tgz", "rootfs"}

(* Arguments, some shorter than others; more than 2048 characters are     *)
(* reported as too long, and written all the same.                         *)
Arguments == {"short", "long"}

-----------------------------------------------------------------------------
Go(t, place) == pc' = [pc EXCEPT ![t] = place]

(* A file of partition 2 is open: umount then fails. *)
Busy == \E t \in Tools : pc[t] \in {"copy", "write"}

UmountDevpart ==
  /\ mounted' = (mounted /\ Busy)
  /\ pulled' = (pulled \/ (mounted /\ ~Busy /\ pc[Stager] = "open"))

Start(t) ==
  /\ pc[t] = "idle"
  /\ \E w \in (IF t = Stager THEN Kinds ELSE Arguments) : what' = [what EXCEPT ![t] = w]
  /\ Go(t, "umount")
  /\ staged' = IF t = Stager THEN "none" ELSE staged
  /\ pulled' = (pulled /\ t # Stager)
  /\ UNCHANGED <<mounted, disk, disturbed, faults>>

(* mount_devpart, its umount and its mount. *)
MountUmounts(t) ==
  /\ pc[t] = "umount"
  /\ UmountDevpart
  /\ Go(t, "mount")
  /\ UNCHANGED <<disk, what, staged, disturbed, faults>>

(* A second mount of one partition in one place is refused. *)
MountMounts(t) ==
  /\ pc[t] = "mount"
  /\ \/ ~mounted /\ mounted' = TRUE /\ Go(t, "open") /\ UNCHANGED faults
     \/ mounted /\ Go(t, "idle") /\ UNCHANGED <<mounted, faults>>
     \/ /\ faults < MaxFaults /\ faults' = faults + 1
        /\ Go(t, "idle") /\ UNCHANGED mounted
  /\ UNCHANGED <<disk, what, staged, pulled, disturbed>>

-----------------------------------------------------------------------------
(* upgrade_soc.  Without the mount, the image for the root of partition 2  *)
(* is copied onto the root file system; the other copy fails.              *)
(* Mutant: the result of the copy is not asked for.                        *)
CopyUnchecked ==
  /\ pc[Stager] = "open"
  /\ \/ /\ mounted
        /\ images' = [images EXCEPT ![what[Stager]] = "cut"]
        /\ Go(Stager, "copy")
     \/ ~mounted /\ Go(Stager, "save") /\ UNCHANGED images
  /\ UNCHANGED <<mounted, job, args, what, staged, pulled, disturbed, faults>>

Copy ==
  /\ pc[Stager] = "open"
  /\ \/ /\ mounted
        /\ images' = [images EXCEPT ![what[Stager]] = "cut"]
        /\ Go(Stager, "copy")
     \/ ~mounted /\ what[Stager] = "boot_tgz" /\ Go(Stager, "save") /\ UNCHANGED images
     \/ ~mounted /\ what[Stager] = "rootfs" /\ Go(Stager, "end") /\ UNCHANGED images
  /\ UNCHANGED <<mounted, job, args, what, staged, pulled, disturbed, faults>>

Copied ==
  /\ pc[Stager] = "copy"
  /\ \/ /\ images' = [images EXCEPT ![what[Stager]] = "whole"]
        /\ Go(Stager, "save") /\ UNCHANGED faults
     \/ /\ faults < MaxFaults /\ faults' = faults + 1
        /\ Go(Stager, "end") /\ UNCHANGED images
  /\ UNCHANGED <<mounted, job, args, what, staged, pulled, disturbed>>

(* save_config; the open raises when there is no directory maintenance. *)
Save ==
  /\ pc[Stager] = "save"
  /\ \/ /\ mounted
        /\ job' = {what[Stager]} /\ staged' = what[Stager]
        /\ Go(Stager, "end")
     \/ ~mounted /\ Go(Stager, "idle") /\ UNCHANGED <<job, staged>>
  /\ UNCHANGED <<mounted, images, args, what, pulled, disturbed, faults>>

-----------------------------------------------------------------------------
(* update-cmdline.  Mutant: the file is not truncated. *)
OpenArgsAsIs(t) ==
  /\ t \in Cmdlines /\ pc[t] = "open"
  /\ IF mounted THEN Go(t, "write") ELSE Go(t, "idle")
  /\ disturbed' = IF mounted THEN \E c \in Cmdlines : pc[c] = "write" ELSE disturbed
  /\ UNCHANGED <<mounted, disk, what, staged, pulled, faults>>

(* open(.., "w") truncates, or raises when there is no directory boot. *)
OpenArgs(t) ==
  /\ t \in Cmdlines /\ pc[t] = "open"
  /\ IF mounted THEN Go(t, "write") /\ args' = "empty" ELSE Go(t, "idle") /\ UNCHANGED args
  /\ disturbed' = IF mounted THEN \E c \in Cmdlines : pc[c] = "write" ELSE disturbed
  /\ UNCHANGED <<mounted, images, job, what, staged, pulled, faults>>

(* Written over something longer, it leaves the end of that in the file. *)
WriteArgs(t) ==
  /\ t \in Cmdlines /\ pc[t] = "write"
  /\ args' = IF args \in {"none", "empty", what[t]}
                  \/ (what[t] = "long" /\ args = "short")
               THEN what[t] ELSE "mixed"
  /\ Go(t, "end")
  /\ UNCHANGED <<mounted, images, job, what, staged, pulled, disturbed, faults>>

(* umount_devpart, whose result no tool looks at. *)
End(t) ==
  /\ pc[t] = "end"
  /\ UmountDevpart
  /\ Go(t, "idle")
  /\ UNCHANGED <<disk, what, staged, disturbed, faults>>

(* A reset.  The boot script imports args.txt as it is then; a job is taken *)
(* up by the maintenance kernel (UpgradeSoc).                              *)
Reset ==
  /\ mounted' = FALSE /\ pc' = [t \in Tools |-> "idle"] /\ staged' = "none"
  /\ disturbed' = (disturbed \/ \E c \in Cmdlines : pc[c] = "write")
  /\ job' = {} /\ images' = [k \in Kinds |-> IF k \in job THEN "none" ELSE images[k]]
  /\ UNCHANGED <<args, what, pulled, faults>>

-----------------------------------------------------------------------------
Init ==
  /\ mounted = FALSE
  /\ images = [k \in Kinds |-> "none"] /\ job = {}
  /\ args = "none"
  /\ pc = [t \in Tools |-> "idle"] /\ what = [t \in Tools |-> "none"]
  /\ staged = "none" /\ pulled = FALSE /\ disturbed = FALSE /\ faults = 0

Next ==
  \/ Copy \/ Copied \/ Save \/ Reset
  \/ \E t \in Tools : Start(t) \/ MountUmounts(t) \/ MountMounts(t) \/ OpenArgs(t)
                        \/ WriteArgs(t) \/ End(t)

Spec == Init /\ [][Next]_vars

-----------------------------------------------------------------------------
(* The ranges, and the tools that have a file open have it on the          *)
(* partition (run_cmd of umount).                                          *)
TypeOK ==
  /\ mounted \in BOOLEAN /\ (Busy => mounted)
  /\ images \in [Kinds -> {"none", "cut", "whole"}] /\ job \subseteq Kinds
  /\ args \in Arguments \cup {"none", "empty", "mixed"}
  /\ pc \in [Tools -> {"idle", "umount", "mount", "open", "copy", "save", "write", "end"}]
  /\ what \in [Tools -> Kinds \cup Arguments \cup {"none"}]
  /\ staged \in Kinds \cup {"none"} /\ pulled \in BOOLEAN /\ disturbed \in BOOLEAN
  /\ faults \in 0 .. MaxFaults

(* However the tools mount and unmount under each other, what upgrade_soc  *)
(* reports as staged ("Reboot SoC to start upgrade") is the whole image,   *)
(* on partition 2, with its job: but for an image of the card whose copy   *)
(* went to the root file system, since another tool had unmounted the      *)
(* partition just before.                                                  *)
StagedThere ==
  staged # "none" =>
    /\ job = {staged}
    /\ images[staged] = "whole" \/ (staged = "boot_tgz" /\ pulled)

(* What the boot script imports is the arguments of one update-cmdline,    *)
(* unless a reset or another update-cmdline fell between its truncating    *)
(* and its writing.                                                        *)
ArgsWhole ==
  args \in {"empty", "mixed"} => disturbed \/ \E c \in Cmdlines : pc[c] = "write"

-----------------------------------------------------------------------------
(* What the theorems rest on: upgrade_soc reports an image only after its  *)
(* copy, and reaches the copy unmounted only if another tool unmounted the *)
(* partition; of two update-cmdline that have args.txt open, one counts as *)
(* disturbed.                                                              *)
ToolTypes ==
  /\ pc \in [Tools -> {"idle", "umount", "mount", "open", "copy", "save", "write", "end"}]
  /\ what \in [Tools -> Kinds \cup Arguments \cup {"none"}]
  /\ images \in [Kinds -> {"none", "cut", "whole"}]
  /\ pc[Stager] # "write" /\ (pc[Stager] # "idle" => what[Stager] \in Kinds)
  /\ \A c \in Cmdlines : pc[c] # "idle" => what[c] \in Arguments

Unreported ==
  /\ pc[Stager] \in {"umount", "mount", "open", "copy", "save"} => staged = "none"
  /\ pc[Stager] = "open" => mounted \/ pulled
  /\ pc[Stager] = "save" =>
       images[what[Stager]] = "whole" \/ (what[Stager] = "boot_tgz" /\ pulled)

OneWriter ==
  \A c \in Cmdlines : pc[c] = "write" /\ ~disturbed =>
    /\ args = "empty"
    /\ \A d \in Cmdlines : pc[d] = "write" => d = c

ToolsInv == ToolTypes /\ Unreported /\ OneWriter /\ StagedThere /\ ArgsWhole
=============================================================================
