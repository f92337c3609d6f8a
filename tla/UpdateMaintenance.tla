------------------------- MODULE UpdateMaintenance -------------------------
(***************************************************************************)
(* `update_maintenance --auto`, the program of the maintenance kernel: it  *)
(* installs a staged upgrade, or recovers the eMMC from its own copy, from *)
(* a USB stick or from a server.  A step is one change of the media, so    *)
(* that a reset can fall between any two of them.                          *)
(***************************************************************************)
EXTENDS Media

VARIABLES
  job,     \* maint_obj: what the maintenance file asks for
  caller,  \* who called process_boottgz
  tgz,     \* the image in /tmp
  retval, remote, reboot,
  seen,    \* scratchreg, as read once
  mounted  \* partition 3 is mounted

umVars == <<job, caller, tgz, retval, remote, reboot, seen, mounted>>

NoBits == [recovery |-> FALSE, recovered |-> FALSE]

UmIdle ==
  /\ job = NoJob /\ caller = "none" /\ tgz = "none" /\ seen = NoBits
  /\ retval = FALSE /\ remote = FALSE /\ reboot = FALSE /\ mounted = FALSE

(* do_maintenance is left, by its end, a return or an exception. *)
Exit(place) ==
  /\ job' = NoJob /\ caller' = "none" /\ tgz' = "none" /\ seen' = NoBits
  /\ retval' = FALSE /\ remote' = FALSE /\ reboot' = FALSE /\ mounted' = FALSE
  /\ Goto(place)

Quiet == UNCHANGED <<faults, mishaps>>

-----------------------------------------------------------------------------
(* mount_p2p3 ignores both results; partition 3 may be missing after it. *)
MountP3 ==
  /\ \/ mounted' = TRUE /\ UNCHANGED faults
     \/ Fails /\ mounted' = FALSE
  /\ UNCHANGED mishaps

(* The start of do_maintenance. *)
UmStart ==
  /\ pc = "um_start"
  /\ MountP3
  /\ IF p2.boot = "none" THEN Goto("um_usb") ELSE Goto("um_scratch")
  /\ UNCHANGED <<mediaVars, job, caller, tgz, retval, remote, reboot, seen>>

(* Partition 2 does not mount: nothing is found and nothing is changed. *)
UmNotMounted ==
  /\ pc = "um_start"
  /\ Exit("idle")
  /\ UNCHANGED mediaVars /\ Quiet

CallProcess(who, image) ==
  /\ caller' = who
  /\ tgz' = image
  /\ Goto("bt_validate")

UmUsb ==
  /\ pc = "um_usb"
  /\ \/ remote' = TRUE /\ Goto("um_scratch") /\ UNCHANGED <<caller, tgz>>
     \/ \E image \in Images : CallProcess("usb", image) /\ UNCHANGED remote
  /\ UNCHANGED <<mediaVars, job, retval, reboot, seen, mounted>> /\ Quiet

UmScratch ==
  /\ pc = "um_scratch"
  /\ \/ /\ seen' = bits
        /\ IF p2.mfile.file THEN Goto("up_parse") ELSE Goto("um_local")
        /\ UNCHANGED <<faults, job, caller, tgz, retval, remote, reboot, mounted>>
     \/ Fails /\ Exit("idle")
  /\ UNCHANGED <<mediaVars, mishaps>>

-----------------------------------------------------------------------------
(* do_upgrade from the eMMC: flash, rootfs, full image, in this order. *)
(* Mutant: the maintenance file is put aside as soon as it has been read. *)
UpParseTakes ==
  /\ pc = "up_parse"
  /\ job' = p2.mfile /\ reboot' = p2.mfile.reboot /\ retval' = FALSE
  /\ p2' = [p2 EXCEPT !.mfile = NoJob]
  /\ Goto("up_xspi")
  /\ UNCHANGED <<p3, xspi, bits, caller, tgz, remote, seen, mounted>> /\ Quiet

UpParse ==
  /\ pc = "up_parse"
  /\ job' = p2.mfile /\ reboot' = p2.mfile.reboot /\ retval' = FALSE
  /\ Goto("up_xspi")
  /\ UNCHANGED <<mediaVars, caller, tgz, remote, seen, mounted>> /\ Quiet

(* flash_erase *)
ErasePart(part) == xspi' = [xspi EXCEPT ![part] = "broken"]

UpXspi ==
  /\ pc = "up_xspi"
  /\ \/ /\ job.xspi /\ p2.staged["xspi"] # "none"
        /\ ErasePart("uboot")
        /\ Goto("up_xspi_fw")
     \/ /\ ~job.xspi \/ p2.staged["xspi"] = "none"
        /\ Goto("up_rootfs")
        /\ UNCHANGED xspi
  /\ UNCHANGED <<p2, p3, bits, umVars>> /\ Quiet

(* update_xspi, for do_mmc_upgrade ("up_") and process_boottgz ("bt_"):    *)
(* U-Boot, then the maintenance kernel, whatever came of U-Boot.  An image *)
(* cut short may hold the one, which comes first, but not the other.       *)
FlashImage == IF pc \in {"bt_xspi_fw", "bt_xspi_write"} THEN "whole" ELSE p2.staged["xspi"]

XspiFw ==
  /\ pc \in {"up_xspi_fw", "bt_xspi_fw"}
  /\ \/ /\ FlashImage = "whole"
        /\ xspi' = [xspi EXCEPT !.uboot = "new"]
        /\ UNCHANGED <<faults, mishaps>>
     \/ /\ FlashImage # "whole" /\ Note("flash image")
        /\ xspi' \in {xspi, [xspi EXCEPT !.uboot = "new"]}
        /\ UNCHANGED faults
     \/ Fails /\ Note("flash") /\ UNCHANGED xspi
  /\ IF pc = "up_xspi_fw" THEN Goto("up_xspi_erase") ELSE Goto("bt_xspi_erase")
  /\ UNCHANGED <<p2, p3, bits, umVars>>

XspiErase ==
  /\ pc \in {"up_xspi_erase", "bt_xspi_erase"}
  /\ ErasePart("kernel")
  /\ IF pc = "up_xspi_erase" THEN Goto("up_xspi_write") ELSE Goto("bt_xspi_write")
  /\ UNCHANGED <<p2, p3, bits, umVars>> /\ Quiet

(* update_xspi ends with an echo: a failing dd does not show. *)
XspiWrite ==
  /\ pc \in {"up_xspi_write", "bt_xspi_write"}
  /\ \/ /\ FlashImage = "whole"
        /\ xspi' = [xspi EXCEPT !.kernel = "new"]
        /\ mishaps' = IF xspi.uboot = "new" THEN mishaps \ {"flash", "flash image"} ELSE mishaps
        /\ UNCHANGED faults
     \/ FlashImage # "whole" /\ Note("flash image") /\ UNCHANGED <<xspi, faults>>
     \/ Fails /\ Note("flash") /\ UNCHANGED xspi
  /\ retval' = TRUE
  /\ IF pc = "up_xspi_write" THEN Goto("up_xspi_rm") ELSE Goto("bt_finish")
  /\ UNCHANGED <<p2, p3, bits, job, caller, tgz, remote, reboot, seen, mounted>>

UpXspiRm ==
  /\ pc = "up_xspi_rm"
  /\ p2' = [p2 EXCEPT !.staged["xspi"] = "none"]
  /\ Goto("up_rootfs")
  /\ UNCHANGED <<p3, xspi, bits, umVars>> /\ Quiet

RootfsOfJob == IF job.rootfs = "data" THEN p2.rootfs ELSE StagedRootfs

(* populate_dir erases only when the archive is there. *)
UpRootfs ==
  /\ pc = "up_rootfs"
  /\ \/ /\ job.rootfs # "none" /\ mounted /\ RootfsOfJob # "none"
        /\ p3' = "broken"
        /\ Goto("up_rootfs_write")
        /\ UNCHANGED <<retval, mishaps>>
     \/ /\ job.rootfs # "none" /\ mounted /\ RootfsOfJob = "none"
        /\ retval' = FALSE
        /\ Goto("up_tgz")
        /\ UNCHANGED <<p3, mishaps>>
     \/ /\ job.rootfs # "none" /\ ~mounted
        /\ Note("mount")
        /\ Goto("up_tgz")
        /\ UNCHANGED <<p3, retval>>
     \/ /\ job.rootfs = "none"
        /\ Goto("up_tgz")
        /\ UNCHANGED <<p3, retval, mishaps>>
  /\ UNCHANGED <<p2, xspi, bits, job, caller, tgz, remote, reboot, seen, mounted, faults>>

(* tar stops at an archive that is not whole, or at a partition 3 that is  *)
(* full or fails.                                                          *)
UnpackInto3(archive) ==
  \/ archive # "bad" /\ retval' = TRUE /\ p3' = archive /\ Quiet
  \/ archive = "bad" /\ retval' = FALSE /\ p3' = "broken" /\ Quiet
  \/ Fails /\ Note("unpack") /\ retval' = FALSE /\ p3' = "broken"

UpRootfsWrite ==
  /\ pc = "up_rootfs_write"
  /\ UnpackInto3(RootfsOfJob)
  /\ Goto("up_rootfs_rm")
  /\ UNCHANGED <<p2, xspi, bits, job, caller, tgz, remote, reboot, seen, mounted>>

(* Whatever came of the unpacking. *)
UpRootfsRm ==
  /\ pc = "up_rootfs_rm"
  /\ p2' = IF job.rootfs = "data" THEN [p2 EXCEPT !.rootfs = "none"]
                                  ELSE [p2 EXCEPT !.staged["rootfs"] = "none"]
  /\ Goto("up_tgz")
  /\ UNCHANGED <<p3, xspi, bits, umVars>> /\ Quiet

(* The image is moved into memory before anything is checked. *)
UpTgz ==
  /\ pc = "up_tgz"
  /\ \/ /\ job.tgz /\ p2.staged["tgz"] # "none"
        /\ p2' = [p2 EXCEPT !.staged["tgz"] = "none"]
        /\ CallProcess("upgrade", p2.staged["tgz"])
     \/ /\ ~job.tgz \/ p2.staged["tgz"] = "none"
        /\ Goto("um_finish")
        /\ UNCHANGED <<p2, caller, tgz>>
  /\ UNCHANGED <<p3, xspi, bits, job, retval, remote, reboot, seen, mounted>> /\ Quiet

(* Mutant: do_upgrade leaves the file to process_boottgz. *)
UmFinishNot ==
  /\ pc = "um_finish"
  /\ Goto("um_local")
  /\ UNCHANGED <<mediaVars, umVars>> /\ Quiet

UmFinish ==
  /\ pc = "um_finish"
  /\ p2' = [p2 EXCEPT !.mfile = NoJob]
  /\ Goto("um_local")
  /\ UNCHANGED <<p3, xspi, bits, umVars>> /\ Quiet

-----------------------------------------------------------------------------
(* process_boottgz, for the callers "usb", "upgrade", "remote" and "user". *)
Return(ok) ==
  /\ retval' = ok
  /\ remote' = IF caller = "usb" THEN ~ok ELSE remote
  /\ reboot' = (reboot \/ (caller = "usb" /\ ok))
  /\ \/ caller = "usb" /\ Goto("um_scratch")
     \/ caller = "upgrade" /\ Goto("um_finish")
     \/ caller = "remote" /\ ok /\ Goto("rr_bits")
     \/ caller = "remote" /\ ~ok /\ Goto("um_end")
     \/ caller = "user" /\ Goto("um_end")
  /\ UNCHANGED <<job, caller, tgz, seen, mounted>>

BtValidate ==
  /\ pc = "bt_validate"
  /\ \/ (tgz = "invalid" \/ ~mounted) /\ Return(FALSE)
     \/ tgz # "invalid" /\ mounted /\ Goto("bt_erase") /\ UNCHANGED umVars
  /\ UNCHANGED mediaVars /\ Quiet

(* rm -rf takes /boot first; what is left may outlive a reset. *)
EraseP2(place) ==
  \/ p2.boot # "none" /\ p2' = [p2 EXCEPT !.boot = "none"] /\ UNCHANGED pc
  \/ p2.boot = "none" /\ p2' = EmptyP2 /\ Goto(place)

BtErase ==
  /\ pc = "bt_erase"
  /\ EraseP2("bt_boot")
  /\ UNCHANGED <<p3, xspi, bits, umVars>> /\ Quiet

(* The archive holds boot, data and maintenance, in this order. *)
BtBoot ==
  /\ pc = "bt_boot"
  /\ \/ p2.boot = "none"   /\ p2' = [p2 EXCEPT !.boot = "dir"]    /\ UNCHANGED pc
     \/ p2.boot = "dir"    /\ p2' = [p2 EXCEPT !.boot = "script"] /\ UNCHANGED pc
     \/ p2.boot = "script" /\ p2' = [p2 EXCEPT !.boot = "new"]    /\ Goto("bt_data")
  /\ UNCHANGED <<p3, xspi, bits, umVars>> /\ Quiet

BtData ==
  /\ pc = "bt_data"
  /\ \/ tgz = "norootfs" /\ Goto("bt_mfile") /\ UNCHANGED p2
     \/ tgz # "norootfs" /\ p2.rootfs = "none"
          /\ p2' = [p2 EXCEPT !.rootfs = "bad"] /\ UNCHANGED pc
     \/ tgz # "norootfs" /\ p2.rootfs = "bad"
          /\ p2' = [p2 EXCEPT !.rootfs = IF tgz = "whole" THEN "new" ELSE "bad"]
          /\ Goto("bt_mfile")
  /\ IF tgz = "whole" THEN UNCHANGED mishaps ELSE Note("image")
  /\ UNCHANGED <<p3, xspi, bits, umVars, faults>>

(* Mutant: an image without maintenance/maintenance. *)
BtMfileMissing ==
  /\ pc = "bt_mfile"
  /\ Goto("bt_rootfs")
  /\ UNCHANGED <<mediaVars, umVars>> /\ Quiet

BtMfile ==
  /\ pc = "bt_mfile"
  /\ p2' = [p2 EXCEPT !.mfile = InstallerJob]
  /\ Goto("bt_rootfs")
  /\ UNCHANGED <<p3, xspi, bits, umVars>> /\ Quiet

(* tar stops, at a partition that is full for instance. *)
BtTarFails ==
  /\ pc \in {"bt_boot", "bt_data", "bt_mfile"}
  /\ Fails /\ Note("partition2")
  /\ Return(FALSE)
  /\ UNCHANGED mediaVars

BtRootfs ==
  /\ pc = "bt_rootfs"
  /\ \/ p2.rootfs = "none" /\ retval' = FALSE /\ Goto("bt_finish") /\ UNCHANGED p3
     \/ p2.rootfs # "none" /\ p3' = "broken" /\ Goto("bt_rootfs_write") /\ UNCHANGED retval
  /\ UNCHANGED <<p2, xspi, bits, job, caller, tgz, remote, reboot, seen, mounted>> /\ Quiet

BtRootfsWrite ==
  /\ pc = "bt_rootfs_write"
  /\ UnpackInto3(p2.rootfs)
  /\ IF retval' THEN Goto("bt_xspi") ELSE Goto("bt_finish")
  /\ UNCHANGED <<p2, xspi, bits, job, caller, tgz, remote, reboot, seen, mounted>>

(* An image may come without data/boot_xspi.img. *)
BtXspi ==
  /\ pc = "bt_xspi"
  /\ \/ ErasePart("uboot") /\ Goto("bt_xspi_fw")
     \/ Goto("bt_finish") /\ UNCHANGED xspi
  /\ UNCHANGED <<p2, p3, bits, umVars>> /\ Quiet

(* Mutant: process_boottgz does not finish the upgrade. *)
BtFinishNot ==
  /\ pc = "bt_finish"
  /\ Return(retval)
  /\ mishaps' = IF retval THEN mishaps \cap {"flash", "flash image"} ELSE mishaps
  /\ UNCHANGED <<mediaVars, faults>>

(* All that has gone wrong before on the eMMC is history. *)
BtFinish ==
  /\ pc = "bt_finish"
  /\ p2' = [p2 EXCEPT !.mfile = NoJob]
  /\ Return(retval)
  /\ mishaps' = IF retval THEN mishaps \cap {"flash", "flash image"} ELSE mishaps
  /\ UNCHANGED <<p3, xspi, bits, faults>>

-----------------------------------------------------------------------------
(* Local recovery, from the archive the last full image left behind. *)
UmLocal ==
  /\ pc = "um_local"
  /\ LET wanted == seen.recovery /\ ~seen.recovered
         able   == mounted /\ p2.rootfs # "none"
     IN \/ wanted /\ able /\ p3' = "broken" /\ Goto("lr_write") /\ UNCHANGED <<retval, remote>>
        \/ wanted /\ ~able /\ retval' = FALSE /\ remote' = TRUE /\ Goto("um_remote")
             /\ UNCHANGED p3
        \/ ~wanted /\ Goto("um_remote") /\ UNCHANGED <<p3, retval, remote>>
  /\ UNCHANGED <<p2, xspi, bits, job, caller, tgz, reboot, seen, mounted>> /\ Quiet

LrWrite ==
  /\ pc = "lr_write"
  /\ UnpackInto3(p2.rootfs)
  /\ remote' = (remote \/ ~retval')
  /\ IF retval' THEN Goto("lr_bits") ELSE Goto("um_remote")
  /\ UNCHANGED <<p2, xspi, bits, job, caller, tgz, reboot, seen, mounted>>

(* The result of the i2cset is ignored, that of the i2cget is not. *)
LrBits ==
  /\ pc = "lr_bits"
  /\ \/ bits' = [recovery |-> FALSE, recovered |-> TRUE] /\ reboot' = TRUE
          /\ UNCHANGED <<faults, retval, remote>>
     \/ Fails /\ reboot' = TRUE /\ UNCHANGED <<bits, retval, remote>>
     \/ Fails /\ retval' = FALSE /\ remote' = TRUE /\ UNCHANGED <<bits, reboot>>
  /\ Goto("um_remote")
  /\ UNCHANGED <<p2, p3, xspi, job, caller, tgz, seen, mounted, mishaps>>

-----------------------------------------------------------------------------
(* Remote recovery: no server, nothing to fetch, or an image. *)
UmRemote ==
  /\ pc = "um_remote"
  /\ LET wanted == remote \/ p2.boot = "none" \/ (seen.recovery /\ seen.recovered)
     IN \/ ~wanted /\ Goto("um_end") /\ UNCHANGED <<caller, tgz, retval, reboot>>
        \/ wanted /\ retval' = FALSE /\ reboot' \in BOOLEAN /\ Goto("um_end")
             /\ UNCHANGED <<caller, tgz>>
        \/ /\ wanted /\ reboot' \in BOOLEAN
           /\ caller' = "remote" /\ tgz' \in Images
           /\ Goto("rr_erase")
           /\ UNCHANGED retval
  /\ UNCHANGED <<mediaVars, job, remote, seen, mounted>> /\ Quiet

(* The partition is erased before the image is looked at. *)
RrErase ==
  /\ pc = "rr_erase"
  /\ EraseP2("bt_validate")
  /\ UNCHANGED <<p3, xspi, bits, umVars>> /\ Quiet

RrBits ==
  /\ pc = "rr_bits"
  /\ \/ bits' = [bits EXCEPT !.recovery = FALSE] /\ UNCHANGED <<faults, retval>>
     \/ Fails /\ UNCHANGED <<bits, retval>>
     \/ Fails /\ retval' = FALSE /\ UNCHANGED bits
  /\ Goto("um_end")
  /\ UNCHANGED <<p2, p3, xspi, job, caller, tgz, remote, reboot, seen, mounted, mishaps>>

(* Mutant: the result is not asked for. *)
UmEndAnyway ==
  /\ pc = "um_end"
  /\ IF reboot THEN Exit("off") ELSE Exit("idle")
  /\ UNCHANGED mediaVars /\ Quiet

UmEnd ==
  /\ pc = "um_end"
  /\ IF reboot /\ retval THEN Exit("off") ELSE Exit("idle")
  /\ UNCHANGED mediaVars /\ Quiet

(* At the prompt: update_maintenance --auto again, or --image-path. *)
UmAgain ==
  /\ pc = "idle"
  /\ Goto("um_start")
  /\ UNCHANGED <<mediaVars, umVars>> /\ Quiet

UmImagePath ==
  /\ pc = "idle"
  /\ MountP3
  /\ \E image \in Images : CallProcess("user", image)
  /\ UNCHANGED <<mediaVars, job, retval, remote, reboot, seen>>

UmStep ==
  \/ UmStart \/ UmNotMounted \/ UmUsb \/ UmScratch
  \/ UpParse \/ UpXspi \/ XspiFw \/ XspiErase \/ XspiWrite \/ UpXspiRm
  \/ UpRootfs \/ UpRootfsWrite \/ UpRootfsRm \/ UpTgz \/ UmFinish
  \/ BtValidate \/ BtErase \/ BtBoot \/ BtData \/ BtMfile \/ BtTarFails
  \/ BtRootfs \/ BtRootfsWrite \/ BtXspi \/ BtFinish
  \/ UmLocal \/ LrWrite \/ LrBits \/ UmRemote \/ RrErase \/ RrBits \/ UmEnd

UmUser == UmAgain \/ UmImagePath
=============================================================================
