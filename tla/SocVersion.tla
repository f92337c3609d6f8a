----------------------------- MODULE SocVersion -----------------------------
(***************************************************************************)
(* The versions the SuC tells the host, eight registers for each part of   *)
(* the software: U-Boot writes those of the firmware and its own, the      *)
(* maintenance kernel (buildroot, "br") and the main OS (root file system, *)
(* "rfs") their own and, from a file on partition 2, that of each other.   *)
(***************************************************************************)
EXTENDS Integers

CONSTANTS
  NumRegs,   \* registers of a version that are written (8; 5 of U-Boot's own)
  Versions,  \* versions of the software, each one other than the next in every byte
  Blank,     \* a register after a cold start of the SuC
  MaxFaults  \* bound on failing accesses, mounts, opens and writes

ASSUME SocVersionAssumption ==
  /\ NumRegs \in Nat \ {0}
  /\ Blank \notin Versions
  /\ {"missing", "empty"} \cap Versions = {}
  /\ MaxFaults \in Nat

VARIABLES
  reg,     \* of each slot: the version that each of its registers was written with
  file,    \* br_version.bin and rfs_version.bin on partition 2
  flash, rootfs, \* versions installed
  boots,   \* partition 2 holds the main OS's /boot
  dir,     \* /mnt/p2 exists on the root file system of the main OS
  pc, who, \* the program running and its next step
  slot, n, \* the register to be written next
  version_val,
  mounted,
  faults,
  failed,  \* history: something failed in this boot
  torn,    \* history: slots whose writing was begun and not finished
  cut      \* history: update_version once left /mnt/p2 behind

disk == <<file, boots, dir>>
installed == <<flash, rootfs>>
history == <<torn, cut>>
program == <<pc, who, slot, n, version_val, mounted>>
vars == <<reg, disk, installed, program, faults, failed, history>>

Systems == {"br", "rfs"}
Slots == {"fw", "uboot"} \cup Systems
Peer(s) == IF s = "br" THEN "rfs" ELSE "br"
Files == Versions \cup {"missing", "empty"}

(* The version compiled into a system. *)
SDKVERSION(s) == IF s = "rfs" THEN rootfs ELSE flash

Whole(v) == [k \in 1 .. NumRegs |-> v]

Fails == faults < MaxFaults /\ faults' = faults + 1 /\ failed' = TRUE
Works == UNCHANGED <<faults, failed>>

-----------------------------------------------------------------------------
(* Eight writes to the SuC, one after another. *)
(* Mutant: the first register is left out. *)
BeginWriteAtSecond(s, v) ==
  /\ pc' = "write" /\ slot' = s /\ n' = 2 /\ version_val' = v
  /\ torn' = torn \cup {s}

BeginWrite(s, v) ==
  /\ pc' = "write" /\ slot' = s /\ n' = 1 /\ version_val' = v
  /\ torn' = torn \cup {s}

EndWrite(place) == pc' = place /\ UNCHANGED <<slot, n, version_val>>

WriteReg ==
  /\ pc = "write" /\ n < NumRegs
  /\ reg' = [reg EXCEPT ![slot][n] = version_val]
  /\ n' = n + 1
  /\ Works
  /\ UNCHANGED <<disk, installed, pc, who, slot, version_val, mounted, history>>

(* After the firmware's version U-Boot writes its own, out of the same     *)
(* image; soc_version then saves its own version, or is done.              *)
WriteLastReg ==
  /\ pc = "write" /\ n = NumRegs
  /\ reg' = [reg EXCEPT ![slot][n] = version_val]
  /\ \/ slot = "fw" /\ pc' = "write" /\ slot' = "uboot" /\ n' = 1
          /\ torn' = (torn \ {slot}) \cup {"uboot"} /\ UNCHANGED version_val
     \/ slot = "uboot" /\ EndWrite("bootcmd") /\ torn' = torn \ {slot}
     \/ slot \in Systems /\ EndWrite(IF slot = who THEN "open" ELSE "umount")
          /\ torn' = torn \ {slot}
  /\ Works
  /\ UNCHANGED <<disk, installed, who, mounted, cut>>

(* A failing write ends both programs. *)
WriteFails ==
  /\ pc = "write"
  /\ Fails
  /\ EndWrite(IF slot \in Systems THEN "umount" ELSE "bootcmd")
  /\ UNCHANGED <<reg, disk, installed, who, mounted, history>>

-----------------------------------------------------------------------------
(* `suc update_version`, as PREBOOT runs it. *)
UpdateVersion ==
  /\ pc = "preboot"
  /\ \/ BeginWrite("fw", flash) /\ Works
     \/ Fails /\ EndWrite("bootcmd") /\ UNCHANGED torn
  /\ UNCHANGED <<reg, disk, installed, who, mounted, cut>>

BootCommand ==
  /\ pc = "bootcmd"
  /\ \/ who' = "br"
     \/ who' = "rfs" /\ boots
  /\ pc' = "mkdir"
  /\ Works
  /\ UNCHANGED <<reg, disk, installed, slot, n, version_val, mounted, history>>

-----------------------------------------------------------------------------
(* presetup and update_version, which differ in the root file system: the  *)
(* one of the maintenance kernel is in memory and new at every boot.       *)
MkDir ==
  /\ pc = "mkdir"
  /\ \/ who = "rfs" /\ dir /\ pc' = "up" /\ UNCHANGED dir
     \/ who = "rfs" /\ ~dir /\ pc' = "mount" /\ dir' = TRUE
     \/ who = "br" /\ pc' = "mount" /\ UNCHANGED dir
  /\ Works
  /\ UNCHANGED <<reg, file, boots, installed, who, slot, n, version_val, mounted, history>>

Mount ==
  /\ pc = "mount"
  /\ \/ mounted' = TRUE /\ Works
     \/ Fails /\ mounted' = FALSE
  /\ pc' = "init"
  /\ UNCHANGED <<reg, disk, installed, who, slot, n, version_val, history>>

InitI2c ==
  /\ pc = "init"
  /\ \/ BeginWrite(who, SDKVERSION(who)) /\ Works
     \/ Fails /\ EndWrite("umount") /\ UNCHANGED torn
  /\ UNCHANGED <<reg, disk, installed, who, mounted, cut>>

(* open(myfile, O_TRUNC), of partition 2 if it is mounted. *)
OpenOwn ==
  /\ pc = "open"
  /\ \/ /\ file' = IF mounted THEN [file EXCEPT ![who] = "empty"] ELSE file
        /\ pc' = "save"
        /\ Works
     \/ Fails /\ pc' = "umount" /\ UNCHANGED file
  /\ UNCHANGED <<reg, boots, dir, installed, who, slot, n, version_val, mounted, history>>

SaveOwn ==
  /\ pc = "save"
  /\ \/ /\ file' = IF mounted THEN [file EXCEPT ![who] = version_val] ELSE file
        /\ Works
     \/ Fails /\ UNCHANGED file
  /\ pc' = "peer"
  /\ UNCHANGED <<reg, boots, dir, installed, who, slot, n, version_val, mounted, torn, cut>>

(* Mutant: what is read of the peer's version is not used. *)
OpenPeerUnread ==
  /\ pc = "peer"
  /\ mounted /\ file[Peer(who)] # "missing"
  /\ BeginWrite(Peer(who), version_val)
  /\ Works
  /\ UNCHANGED <<reg, disk, installed, who, mounted, cut>>

(* Reading an empty file is no error: version_val stays as it is. *)
OpenPeer ==
  /\ pc = "peer"
  /\ \/ /\ mounted /\ file[Peer(who)] # "missing"
        /\ BeginWrite(Peer(who), IF file[Peer(who)] = "empty" THEN version_val ELSE file[Peer(who)])
        /\ Works
     \/ (~mounted \/ file[Peer(who)] = "missing") /\ EndWrite("umount") /\ Works /\ UNCHANGED torn
     \/ mounted /\ Fails /\ EndWrite("umount") /\ UNCHANGED torn
  /\ UNCHANGED <<reg, disk, installed, who, mounted, cut>>

(* Mutant: the partition is not unmounted. *)
UmountForgets ==
  /\ pc = "umount"
  /\ Works
  /\ pc' = "rm"
  /\ UNCHANGED <<reg, disk, installed, who, slot, n, version_val, mounted, history>>

(* umount; the script goes on when it fails. *)
Umount ==
  /\ pc = "umount"
  /\ \/ mounted' = FALSE /\ Works
     \/ mounted /\ Fails /\ UNCHANGED mounted
  /\ pc' = "rm"
  /\ UNCHANGED <<reg, disk, installed, who, slot, n, version_val, history>>

(* rm -rf /mnt/p2: what is mounted there goes first, and then stays.       *)
RmDir ==
  /\ pc = "rm"
  /\ \/ /\ mounted
        /\ file' = [s \in Systems |-> "missing"] /\ boots' = FALSE
        /\ cut' = (cut \/ who = "rfs")
        /\ UNCHANGED dir
     \/ /\ ~mounted
        /\ dir' = (dir /\ who # "rfs")
        /\ UNCHANGED <<file, boots, cut>>
  /\ pc' = "up"
  /\ Works
  /\ UNCHANGED <<reg, installed, who, slot, n, version_val, mounted, torn>>

-----------------------------------------------------------------------------
(* What an upgrade leaves: update_maintenance writes the flash, or the     *)
(* root file system, or both and partition 2 anew.                         *)
Upgrade ==
  /\ pc = "up" /\ who = "br"
  /\ \/ flash' \in Versions /\ UNCHANGED <<rootfs, disk, cut>>
     \/ rootfs' \in Versions /\ dir' = FALSE /\ cut' = FALSE
          /\ UNCHANGED <<flash, file, boots>>
     \/ /\ flash' \in Versions /\ rootfs' = flash'
        /\ dir' = FALSE /\ cut' = FALSE /\ boots' = TRUE
        /\ file' = [s \in Systems |-> "missing"]
  /\ pc' = "upgraded"
  /\ UNCHANGED <<reg, who, slot, n, version_val, mounted, faults, failed, torn>>

(* A reset of the SoC, of the SuC as well when the card loses power. *)
Reset(cold) ==
  /\ pc' = "preboot" /\ who' = "none" /\ mounted' = FALSE /\ failed' = FALSE
  /\ reg' = IF cold THEN [s \in Slots |-> Whole(Blank)] ELSE reg
  /\ cut' = (cut \/ (who = "rfs" /\ pc \notin {"mkdir", "up"}))
  /\ UNCHANGED <<disk, installed, slot, n, version_val, faults, torn>>

Init ==
  /\ reg = [s \in Slots |-> Whole(Blank)]
  /\ file = [s \in Systems |-> "missing"]
  /\ flash \in Versions /\ rootfs \in Versions /\ boots \in BOOLEAN /\ dir = FALSE
  /\ pc = "preboot" /\ who = "none" /\ mounted = FALSE
  /\ slot = "fw" /\ n = 1 /\ version_val = flash
  /\ faults = 0 /\ failed = FALSE
  /\ torn = {} /\ cut = FALSE

Program ==
  \/ UpdateVersion \/ BootCommand \/ WriteReg \/ WriteLastReg \/ WriteFails
  \/ MkDir \/ Mount \/ InitI2c \/ OpenOwn \/ SaveOwn \/ OpenPeer \/ Umount \/ RmDir

Next == Program \/ Upgrade \/ Reset(FALSE) \/ Reset(TRUE)

Spec == Init /\ [][Next]_vars

-----------------------------------------------------------------------------
Places == {"preboot", "write", "bootcmd", "mkdir", "mount", "init", "open", "save", "peer",
           "umount", "rm", "up", "upgraded"}

TypeOK ==
  /\ reg \in [Slots -> [1 .. NumRegs -> Versions \cup {Blank}]]
  /\ file \in [Systems -> Files]
  /\ flash \in Versions /\ rootfs \in Versions
  /\ boots \in BOOLEAN /\ dir \in BOOLEAN /\ mounted \in BOOLEAN
  /\ pc \in Places /\ who \in Systems \cup {"none"}
  /\ slot \in Slots /\ n \in 1 .. NumRegs /\ version_val \in Versions
  /\ faults \in 0 .. MaxFaults /\ failed \in BOOLEAN
  /\ torn \subseteq Slots /\ cut \in BOOLEAN

(* The registers and the file tell the versions of what was booted, as soon *)
(* as its script is done and nothing failed in this boot, unless update_version   *)
(* was cut short in an earlier one or could not unmount: then it never     *)
(* runs again, until the root file system is written anew.                 *)
OwnTold ==
  pc = "up" /\ ~failed =>
    /\ reg["fw"] = Whole(flash) /\ reg["uboot"] = Whole(flash)
    /\ \/ reg[who] = Whole(SDKVERSION(who)) /\ file[who] = SDKVERSION(who)
       \/ who = "rfs" /\ cut

(* The registers of the other system tell the version in its file, or, if  *)
(* there is none to read, the one they told before: never bytes of two,    *)
(* although a reset may hit between any two of them, but for a torn one    *)
(* that has no file to be written from.                                    *)
PeerTold ==
  pc = "up" /\ ~failed /\ ~cut =>
    LET peer == Peer(who)
    IN \/ reg[peer] = Whole(file[peer])
       \/ /\ file[peer] \notin Versions
          /\ peer \in torn \/ \E v \in Versions \cup {Blank} : reg[peer] = Whole(v)

(* Telling a version costs nothing else: the main OS's /boot and the       *)
(* version files stay on partition 2 through every boot and every reset,   *)
(* unless something failed in that boot (update_version:13 then erases     *)
(* what umount left in place) or an upgrade replaces them.                 *)
PartitionKept ==
  [][ (boots /\ ~boots') \/ (\E s \in Systems : file[s] # "missing" /\ file'[s] = "missing")
        => failed \/ pc' = "upgraded" ]_vars

-----------------------------------------------------------------------------
(* What the theorems rest on.  A version is being written from its first   *)
(* register on, and one that is not being written, nor was left torn, is   *)
(* whole.                                                                  *)
WritesInOrder ==
  /\ pc = "write" => slot \in torn /\ \A k \in 1 .. n - 1 : reg[slot][k] = version_val
  /\ \A s \in Slots \ torn : \E v \in Versions \cup {Blank} : reg[s] = Whole(v)

(* No system runs while U-Boot does. *)
InUBoot == pc \in {"preboot", "bootcmd"} \/ (pc = "write" /\ slot \in {"fw", "uboot"})
WhoRuns == (who = "none" <=> InUBoot) /\ (pc = "upgraded" => who = "br")

(* /mnt/p2 stays behind only where update_version was cut short. *)
DirLeft == dir => cut \/ (who = "rfs" /\ pc \notin {"mkdir", "up"})

(* How far a boot has come in which nothing failed. *)
Writes(s) == pc = "write" /\ slot = s

UBootTold ==
  ~failed =>
    /\ Writes("fw") \/ Writes("uboot") => version_val = flash
    /\ Writes("uboot") => reg["fw"] = Whole(flash)
    /\ pc = "bootcmd" \/ (who # "none" /\ pc # "upgraded") =>
         reg["fw"] = Whole(flash) /\ reg["uboot"] = Whole(flash)

MountKept ==
  ~failed =>
    /\ pc \in {"init", "open", "save", "peer", "umount"} => mounted
    /\ pc = "write" /\ who # "none" => mounted
    /\ pc = "rm" => ~mounted

OwnSaved ==
  \A s \in Systems : who = s /\ ~failed =>
    /\ Writes(s) \/ pc \in {"open", "save"} => version_val = SDKVERSION(s)
    /\ pc \in {"open", "save", "peer", "umount", "rm"} \/ Writes(Peer(s)) => reg[s] = Whole(SDKVERSION(s))
    /\ pc \in {"peer", "umount", "rm"} \/ Writes(Peer(s)) => file[s] = SDKVERSION(s)

PeerRead ==
  \A s \in Systems : who = s /\ ~failed /\ file[Peer(s)] \in Versions =>
    /\ Writes(Peer(s)) => version_val = file[Peer(s)]
    /\ pc \in {"umount", "rm"} => reg[Peer(s)] = Whole(file[Peer(s)])

VersionInv ==
  /\ WritesInOrder /\ WhoRuns /\ DirLeft
  /\ UBootTold /\ MountKept /\ OwnSaved /\ PeerRead
  /\ OwnTold /\ PeerTold
=============================================================================
