----------------------------- MODULE UpgradeSoc -----------------------------
(***************************************************************************)
(* upgrade_soc, the program of the main OS that stages an upgrade: it      *)
(* copies the images to partition 2 and then writes the maintenance file   *)
(* that makes the next boot install them.                                  *)
(***************************************************************************)
EXTENDS Media

CONSTANT MaxStagings  \* bound on calls of upgrade_soc

ASSUME StagingAssumption == MaxStagings \in Nat

VARIABLES
  todo,     \* images still to be copied
  mfile,    \* setup_update.mfile, the job being put together
  stagings  \* calls so far

usVars == <<todo, mfile, stagings>>

UsIdle == todo = {} /\ mfile = NoJob

JobOf(kinds, restart) ==
  [file |-> TRUE, rootfs |-> IF "rootfs" \in kinds THEN "staged" ELSE "none",
   xspi |-> "xspi" \in kinds, tgz |-> "tgz" \in kinds, reboot |-> restart]

UsStart ==
  /\ pc = "os"
  /\ stagings < MaxStagings /\ stagings' = stagings + 1
  /\ todo' \in (SUBSET Kinds) \ {{}}
  /\ \E restart \in BOOLEAN : mfile' = JobOf(todo', restart)
  /\ Goto("us")
  /\ UNCHANGED <<mediaVars, faults, mishaps>>

(* --disable-update *)
UsDisable ==
  /\ pc = "os"
  /\ p2' = [p2 EXCEPT !.mfile = NoJob]
  /\ UNCHANGED <<p3, xspi, bits, pc, usVars, faults, mishaps>>

Current == CHOOSE kind \in todo :
  \/ kind = "rootfs"
  \/ kind = "xspi" /\ "rootfs" \notin todo
  \/ todo = {"tgz"}

(* An older job still names the file that is being overwritten. *)
InUse(kind) ==
  /\ p2.mfile.file
  /\ \/ kind = "rootfs" /\ p2.mfile.rootfs = "staged"
     \/ kind = "xspi" /\ p2.mfile.xspi
     \/ kind = "tgz" /\ p2.mfile.tgz

(* validate_bootfs and validate_rootfs refuse the image, or cp begins. *)
UsCopy ==
  /\ pc = "us" /\ todo # {}
  /\ \/ /\ p2' = [p2 EXCEPT !.staged[Current] = "invalid"]
        /\ Goto("us_copy")
        /\ UNCHANGED usVars
     \/ /\ Goto("os") /\ todo' = {} /\ mfile' = NoJob
        /\ UNCHANGED <<p2, stagings>>
  /\ UNCHANGED <<p3, xspi, bits, faults, mishaps>>

(* What passes validation: `tar -t` sees the whole of an archive but not   *)
(* inside data/rootfs.tgz; a flash image is not looked at.                 *)
Accepted(kind) ==
  CASE kind = "tgz"    -> Images \ {"invalid"}
    [] kind = "rootfs" -> {"whole"}
    [] kind = "xspi"   -> {"whole", "invalid"}

UsCopied ==
  /\ pc = "us_copy"
  /\ \/ /\ \E image \in Accepted(Current) : p2' = [p2 EXCEPT !.staged[Current] = image]
        /\ todo' = todo \ {Current}
        /\ Goto("us")
        /\ UNCHANGED <<mfile, stagings, faults, mishaps>>
     \/ /\ Fails
        /\ Goto("os") /\ todo' = {} /\ mfile' = NoJob
        /\ IF InUse(Current) THEN Note("staging") ELSE UNCHANGED mishaps
        /\ UNCHANGED <<p2, stagings>>
  /\ UNCHANGED <<p3, xspi, bits>>

(* save_config truncates the file, then writes it. *)
UsSave ==
  /\ pc = "us" /\ todo = {}
  /\ p2' = [p2 EXCEPT !.mfile = EmptyJob]
  /\ Goto("us_save")
  /\ UNCHANGED <<p3, xspi, bits, usVars, faults, mishaps>>

UsSaved ==
  /\ pc = "us_save"
  /\ p2' = [p2 EXCEPT !.mfile = mfile]
  /\ Goto("os") /\ mfile' = NoJob
  /\ UNCHANGED <<p3, xspi, bits, todo, stagings, faults, mishaps>>

UsStep == UsCopy \/ UsCopied \/ UsSave \/ UsSaved

UsUser == UsStart \/ UsDisable
=============================================================================
