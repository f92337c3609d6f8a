----------------------------- MODULE MCSoftware -----------------------------
(***************************************************************************)
(* The three small machines around the versions and partition 2, checked   *)
(* side by side: `unit' chooses the one that runs, the others rest.        *)
(***************************************************************************)
EXTENDS SocVersion, TLC

CONSTANTS
  Numbers, Distances,   \* of VersionEncoding
  Cmdlines, Stager      \* of MaintTools

VARIABLES
  unit,
  describe, encoder, fields, place, bytes, outside,
  maint, images, job, args, at, what, staged, pulled, disturbed, failures

encodingVars == <<describe, encoder, fields, place, bytes, outside>>
toolVars == <<maint, images, job, args, at, what, staged, pulled, disturbed, failures>>

Encoding == INSTANCE VersionEncoding WITH program <- encoder, i <- place, version_val <- bytes
Tools == INSTANCE MaintTools WITH mounted <- maint, pc <- at, faults <- failures

ASSUME SoftwareAssumption == Encoding!EncodingAssumption /\ Tools!ToolsAssumption

EncodingRests ==
  /\ describe = [tag |-> "none", number |-> <<0, 0, 0>>, commits |-> 0, dirty |-> 0]
  /\ encoder = "soc_version" /\ fields = << >>
  /\ place = 0 /\ bytes = [k \in 0 .. 7 |-> 0] /\ outside = FALSE

VersionRests == Init /\ flash = rootfs /\ ~boots

SoftwareInit ==
  \/ unit = "encoding" /\ Encoding!Init /\ VersionRests /\ Tools!Init
  \/ unit = "versions" /\ Init /\ EncodingRests /\ Tools!Init
  \/ unit = "tools" /\ Tools!Init /\ VersionRests /\ EncodingRests

(* A version is encoded once. *)
Encoded == unit = "encoding" /\ Encoding!Done /\ UNCHANGED encodingVars

SoftwareNext ==
  /\ \/ unit = "encoding" /\ Encoding!Next /\ UNCHANGED <<vars, toolVars>>
     \/ Encoded /\ UNCHANGED <<vars, toolVars>>
     \/ unit = "versions" /\ Next /\ UNCHANGED <<encodingVars, toolVars>>
     \/ unit = "tools" /\ Tools!Next /\ UNCHANGED <<vars, encodingVars>>
  /\ UNCHANGED unit

SoftwareSpec == SoftwareInit /\ [][SoftwareNext]_<<unit, vars, encodingVars, toolVars>>

Symmetry == Permutations(Versions) \cup Permutations(Cmdlines)

-----------------------------------------------------------------------------
(* The properties of the two machines that are instances here. *)

(* VersionEncoding's: both encoders tell the numbers of the tag, and stay  *)
(* within the eight bytes.                                                 *)
NumbersTold == unit = "encoding" => Encoding!NumbersTold

(* MaintTools': what upgrade_soc reports as staged is on partition 2. *)
StagedThere == Tools!StagedThere

(* MaintTools': the kernel arguments are those of one update-cmdline. *)
ArgsWhole == Tools!ArgsWhole
=============================================================================
