--------------------------- MODULE UpgradePromise ---------------------------
(***************************************************************************)
(* What the upgrade of a card promises, in terms of the parts a job may    *)
(* name: the root file system and the flash.  What a job asks for is owed  *)
(* until it has been written, over any number of resets, unless something  *)
(* has put that part at risk; and no main OS is started before.            *)
(***************************************************************************)
VARIABLES
  running, \* a main OS runs
  owed,    \* the parts the pending job asks for
  boot,    \* the system that would start: "none", "old", "new"
  rootfs,  \* the root file system: "broken", "old", "new"
  flash,   \* the flash: "broken", "old", "new"
  risks    \* the parts for which nothing is promised any more

vars == <<running, owed, boot, rootfs, flash, risks>>

Parts == {"rootfs", "flash"}

media == <<boot, rootfs, flash>>

(* The root file system is one that the kernel in /boot can run on. *)
Fits == rootfs # "broken" /\ (boot = "new" => rootfs = "new")

Carried(part) ==
  \/ part \in risks
  \/ part = "rootfs" /\ rootfs = "new"
  \/ part = "flash" /\ flash = "new"

Init ==
  /\ ~running /\ owed = {} /\ risks = {}
  /\ boot = "none" \/ (boot = "old" /\ rootfs = "old")
  /\ rootfs \in {"broken", "old"} /\ flash = "old"

(* With the flash at risk it may start too early, on a root file system    *)
(* that does not fit: for want of a maintenance kernel.                    *)
Start ==
  /\ ~running /\ running' = TRUE
  /\ boot # "none"
  /\ flash = "broken" => "flash" \in risks
  /\ \/ owed = {} /\ UNCHANGED risks
     \/ "flash" \in risks /\ risks' = risks \cup {"rootfs"}
  /\ Fits \/ "rootfs" \in risks'
  /\ UNCHANGED <<owed, media>>

Stop ==
  /\ running /\ running' = FALSE
  /\ risks \subseteq risks'
  /\ UNCHANGED <<owed, media>>

(* The user of a running OS asks for a job, replaces it or takes it back. *)
Ask ==
  /\ running
  /\ owed' \subseteq Parts
  /\ UNCHANGED <<running, media, risks>>

(* A job ends when it has been carried out, or with the system it lay on. *)
End ==
  /\ ~running
  /\ boot = "none" \/ \A part \in owed : Carried(part)
  /\ owed' = {}
  /\ \/ UNCHANGED risks
     \/ rootfs = "new" /\ risks' = risks \ {"rootfs"}
  /\ UNCHANGED <<running, media>>

(* The job that comes with a new /boot. *)
Journal ==
  /\ ~running /\ owed = {} /\ boot = "new"
  /\ owed' = {"rootfs"}
  /\ UNCHANGED <<running, media, risks>>

(* A system goes whatever is owed; a new one comes when nothing is. *)
Replace ==
  /\ ~running
  /\ boot' = "none" \/ (boot' = "new" /\ owed = {})
  /\ UNCHANGED <<running, owed, rootfs, flash, risks>>

(* The root file system is written for a job, or to recover it; a writing  *)
(* that fails puts it at risk.                                             *)
WriteRootfs ==
  /\ ~running
  /\ owed = {} \/ "rootfs" \in owed
  /\ \/ rootfs' \in {"broken", "old", "new"} /\ UNCHANGED risks
     \/ rootfs' = "broken" /\ risks' = risks \cup {"rootfs"}
  /\ UNCHANGED <<running, owed, boot, flash>>

(* The flash is erased and written, one partition after the other; or it   *)
(* is written from outside, when it was left broken.                       *)
WriteFlash ==
  /\ ~running
  /\ flash' = "broken" \/ (flash = "broken" /\ flash' \in {"old", "new"})
  /\ \/ risks' \in {risks, risks \cup {"flash"}}
     \/ flash' = "new" /\ risks' = risks \ {"flash"}
  /\ UNCHANGED <<running, owed, boot, rootfs>>

Mishap ==
  /\ risks \subseteq risks' /\ risks' \subseteq Parts
  /\ UNCHANGED <<running, owed, media>>

Next ==
  \/ Start \/ Stop \/ Ask \/ End \/ Journal \/ Replace \/ WriteRootfs \/ WriteFlash \/ Mishap

Spec == Init /\ [][Next]_vars
=============================================================================
