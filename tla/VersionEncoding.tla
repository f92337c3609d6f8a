--------------------------- MODULE VersionEncoding ---------------------------
(***************************************************************************)
(* The version of the software on its way from git to eight bytes:         *)
(* version_script.sh names it, soc_version and sdk_version_util encode the *)
(* name, and U-Boot encodes it from within its own version string.         *)
(***************************************************************************)
EXTENDS Integers, SequencesExt

CONSTANTS
  Numbers,   \* the numbers of a tag
  Distances  \* the numbers of commits since a tag

EncodingAssumption == Numbers \subseteq Nat /\ Distances \subseteq Nat \ {0}

VARIABLES
  describe,    \* what git says of the commit
  program,
  fields,      \* what is left of the version string, a sequence of fields
  i,
  version_val,
  outside      \* a byte past the end of version_val was written

vars == <<describe, program, fields, i, version_val, outside>>

-----------------------------------------------------------------------------
Digit(n, place) == (n \div place) % 10

(* A field: its characters, each one as its distance from '0'. *)
Decimal(n) ==
  IF n < 10 THEN <<n>>
  ELSE IF n < 100 THEN <<Digit(n, 10), Digit(n, 1)>>
  ELSE IF n < 1000 THEN <<Digit(n, 100), Digit(n, 10), Digit(n, 1)>>
  ELSE <<Digit(n, 1000), Digit(n, 100), Digit(n, 10), Digit(n, 1)>>

(* A commit's hash, and what ends U-Boot's version string: `-g..., (date'. *)
Hash == <<49, 1, 2, 50, 51, 5, 6>>
Ending == <<-3, 55>> \o Hash

(* A tag may be lightweight or annotated, or there may be none. *)
Describe ==
  [tag: {"none"}, number: {<<0, 0, 0>>}, commits: {0}, dirty: {0, 1}]
    \cup [tag: {"lightweight", "annotated"}, number: Numbers \X Numbers \X Numbers,
          commits: {0} \cup Distances, dirty: {0, 1}]

(* `git describe --always` alone knows annotated tags only: with one, it   *)
(* is no hash, and SUFFIX does not match the end of BUILD.                 *)
Build(d) ==
  CASE d.tag = "none" -> <<Hash>>
    [] d.tag # "none" /\ d.commits = 0 -> [k \in 1 .. 3 |-> Decimal(d.number[k])]
    [] d.tag = "lightweight" /\ d.commits # 0 ->
         [k \in 1 .. 3 |-> Decimal(d.number[k])] \o <<Decimal(d.commits)>>
    [] d.tag = "annotated" /\ d.commits # 0 ->
         [k \in 1 .. 3 |-> Decimal(d.number[k])] \o <<Decimal(d.commits), <<55>> \o Hash>>

SdkVersion(d) == Append(Build(d), <<d.dirty>>)

(* SUBLEVEL = SDK_VERSION, after the version and patch level of U-Boot,    *)
(* two fields that are skipped, and before an ending.                      *)
UBootVersion(d) ==
  LET sdk == SdkVersion(d)
  IN <<Hash, <<1, 0>>>> \o Front(sdk) \o <<Last(sdk) \o Ending>>

-----------------------------------------------------------------------------
Value(str) ==
  LET res[k \in 0 .. Len(str)] == IF k = 0 THEN 0 ELSE (res[k - 1] * 10 + str[k]) % 256
  IN res[Len(str)]

(* Mutant: a field of four digits is not refused. *)
strtouint8Long(str) == Value(str)

strtouint8(str) == IF Len(str) > 3 THEN 0 ELSE Value(str)

(* Every second byte, but the last for the field after the fourth. *)
NextPlace(k) == IF k + 2 = 8 THEN 7 ELSE k + 2

(* soc_version and sdk_version_util. *)
EncodeField ==
  /\ program = "soc_version" /\ fields # <<>>
  /\ IF i \in DOMAIN version_val
       THEN /\ version_val' = [version_val EXCEPT ![i] = strtouint8(Head(fields))]
            /\ UNCHANGED outside
       ELSE outside' = TRUE /\ UNCHANGED version_val
  /\ fields' = Tail(fields)
  /\ i' = NextPlace(i)
  /\ UNCHANGED <<describe, program>>

(* U-Boot's five bytes, from its fields 2 to 6, and the registers of the   *)
(* SuC into which they are then written.                                   *)
UBootPlace(k) == IF k = 6 THEN 7 ELSE 2 * (k - 2)

(* `version_loc = 1`: one byte is expected of the dirty flag. *)
UBootField(k) == IF k = 6 THEN <<Head(Head(fields))>> ELSE Head(fields)

EncodeUBootField ==
  /\ program = "u-boot" /\ fields # <<>>
  /\ version_val' = IF i \in 2 .. 6
       THEN [version_val EXCEPT ![UBootPlace(i)] = strtouint8(UBootField(i))]
       ELSE version_val
  /\ fields' = Tail(fields)
  /\ i' = i + 1
  /\ UNCHANGED <<describe, program, outside>>

-----------------------------------------------------------------------------
Init ==
  /\ describe \in Describe
  /\ \/ program = "soc_version" /\ fields = SdkVersion(describe)
     \/ program = "u-boot" /\ fields = UBootVersion(describe)
  /\ i = 0
  /\ version_val = [k \in 0 .. 7 |-> 0]
  /\ outside = FALSE

Next == EncodeField \/ EncodeUBootField

Spec == Init /\ [][Next]_vars

-----------------------------------------------------------------------------
TypeOK ==
  /\ describe \in Describe
  /\ program \in {"soc_version", "u-boot"}
  /\ fields \in Seq(Seq(Int))
  /\ i \in Nat
  /\ version_val \in [0 .. 7 -> 0 .. 255]
  /\ outside \in BOOLEAN

Done == fields = <<>>

(* What eight bits can tell of a number of at most three digits. *)
Told(n) == IF n > 999 THEN 0 ELSE n % 256

(* However the commit is described, the two encoders tell the same: the    *)
(* numbers of the tag in the first three low bytes, and the build and the  *)
(* dirty flag after them where the name has all five fields.  No field is  *)
(* stored past the eight bytes, but the sixth, which a commit after an     *)
(* annotated tag gets.                                                     *)
NumbersTold ==
  /\ outside => describe.tag = "annotated" /\ describe.commits # 0
  /\ Done /\ describe.tag # "none" =>
       /\ \A k \in 1 .. 3 :
            /\ version_val[2 * (k - 1)] = Told(describe.number[k])
            /\ version_val[2 * k - 1] = 0
       /\ describe.commits # 0 => version_val[6] = Told(describe.commits)
       /\ describe.commits # 0 /\ describe.tag = "lightweight" => version_val[7] = describe.dirty

(* version_script.sh:12, "SDKMajor.SDKMinor.SDKPatch.SDKBuild.SDKDirty":   *)
(* the last byte tells whether a tagged software was built from a dirty    *)
(* tree.                                                                   *)
DirtyTold == Done /\ describe.tag # "none" => version_val[7] = describe.dirty
=============================================================================
