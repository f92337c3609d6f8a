------------------------- MODULE MaintTools_proofs -------------------------
(***************************************************************************)
(* Proofs about MaintTools, for any number of update-cmdline side by side  *)
(* and every bound on the faults.                                          *)
(***************************************************************************)
EXTENDS MaintTools, TLAPS

LEMMA TypesNext ==
  ToolsAssumption /\ ToolTypes /\ [Next]_vars => ToolTypes'
<1> SUFFICES ASSUME ToolsAssumption, ToolTypes, [Next]_vars PROVE ToolTypes'
  OBVIOUS
<1> USE DEF ToolTypes, ToolsAssumption, Tools, Kinds, Arguments
<1>1. CASE Copy
  BY <1>1 DEF Copy, Go, disk
<1>2. CASE Copied
  BY <1>2 DEF Copied, Go, disk
<1>3. CASE Save
  BY <1>3 DEF Save, Go, disk
<1>4. CASE Reset
  BY <1>4 DEF Reset, Go, disk
<1>5. ASSUME NEW t \in Tools, Start(t) PROVE ToolTypes'
  BY <1>5 DEF Start, Go, disk
<1>6. ASSUME NEW t \in Tools, MountUmounts(t) PROVE ToolTypes'
  BY <1>6 DEF MountUmounts, Go, disk
<1>7. ASSUME NEW t \in Tools, MountMounts(t) PROVE ToolTypes'
  BY <1>7 DEF MountMounts, Go, disk
<1>8. ASSUME NEW t \in Tools, OpenArgs(t) PROVE ToolTypes'
  BY <1>8 DEF OpenArgs, Go, disk
<1>9. ASSUME NEW t \in Tools, WriteArgs(t) PROVE ToolTypes'
  BY <1>9 DEF WriteArgs, Go, disk
<1>10. ASSUME NEW t \in Tools, End(t) PROVE ToolTypes'
  BY <1>10 DEF End, Go, disk
<1>11. CASE UNCHANGED vars
  BY <1>11 DEF vars, disk
<1> QED
  BY <1>1, <1>2, <1>3, <1>4, <1>5, <1>6, <1>7, <1>8, <1>9, <1>10, <1>11 DEF Next

LEMMA UnreportedNext ==
  ToolsAssumption /\ ToolTypes /\ Unreported /\ [Next]_vars => Unreported'
<1> SUFFICES ASSUME ToolsAssumption, ToolTypes, Unreported, [Next]_vars PROVE Unreported'
  OBVIOUS
<1> USE DEF Unreported, ToolTypes, ToolsAssumption, Tools, Kinds
<1>1. CASE Copy
  BY <1>1 DEF Copy, Go, disk, UmountDevpart, Busy
<1>2. CASE Copied
  BY <1>2 DEF Copied, Go, disk, UmountDevpart, Busy
<1>3. CASE Save
  BY <1>3 DEF Save, Go, disk, UmountDevpart, Busy
<1>4. CASE Reset
  BY <1>4 DEF Reset, Go, disk, UmountDevpart, Busy
<1>5. ASSUME NEW t \in Tools, Start(t) PROVE Unreported'
  BY <1>5 DEF Start, Go, disk, UmountDevpart, Busy
<1>6. ASSUME NEW t \in Tools, MountUmounts(t) PROVE Unreported'
  BY <1>6 DEF MountUmounts, Go, disk, UmountDevpart, Busy
<1>7. ASSUME NEW t \in Tools, MountMounts(t) PROVE Unreported'
  BY <1>7 DEF MountMounts, Go, disk, UmountDevpart, Busy
<1>8. ASSUME NEW t \in Tools, OpenArgs(t) PROVE Unreported'
  BY <1>8 DEF OpenArgs, Go, disk, UmountDevpart, Busy
<1>9. ASSUME NEW t \in Tools, WriteArgs(t) PROVE Unreported'
  BY <1>9 DEF WriteArgs, Go, disk, UmountDevpart, Busy
<1>10. ASSUME NEW t \in Tools, End(t) PROVE Unreported'
  BY <1>10 DEF End, Go, disk, UmountDevpart, Busy
<1>11. CASE UNCHANGED vars
  BY <1>11 DEF vars, disk
<1> QED
  BY <1>1, <1>2, <1>3, <1>4, <1>5, <1>6, <1>7, <1>8, <1>9, <1>10, <1>11 DEF Next

LEMMA StagedNext ==
  ToolsAssumption /\ ToolTypes /\ Unreported /\ StagedThere /\ [Next]_vars => StagedThere'
<1> SUFFICES ASSUME ToolsAssumption, ToolTypes, Unreported, StagedThere, [Next]_vars PROVE StagedThere'
  OBVIOUS
<1> USE DEF StagedThere, Unreported, ToolTypes, ToolsAssumption, Tools
<1>1. CASE Copy
  BY <1>1 DEF Copy, Go, disk, UmountDevpart, Busy
<1>2. CASE Copied
  BY <1>2 DEF Copied, Go, disk, UmountDevpart, Busy
<1>3. CASE Save
  BY <1>3 DEF Save, Go, disk, UmountDevpart, Busy
<1>4. CASE Reset
  BY <1>4 DEF Reset, Go, disk, UmountDevpart, Busy
<1>5. ASSUME NEW t \in Tools, Start(t) PROVE StagedThere'
  BY <1>5 DEF Start, Go, disk, UmountDevpart, Busy
<1>6. ASSUME NEW t \in Tools, MountUmounts(t) PROVE StagedThere'
  BY <1>6 DEF MountUmounts, Go, disk, UmountDevpart, Busy
<1>7. ASSUME NEW t \in Tools, MountMounts(t) PROVE StagedThere'
  BY <1>7 DEF MountMounts, Go, disk, UmountDevpart, Busy
<1>8. ASSUME NEW t \in Tools, OpenArgs(t) PROVE StagedThere'
  BY <1>8 DEF OpenArgs, Go, disk, UmountDevpart, Busy
<1>9. ASSUME NEW t \in Tools, WriteArgs(t) PROVE StagedThere'
  BY <1>9 DEF WriteArgs, Go, disk, UmountDevpart, Busy
<1>10. ASSUME NEW t \in Tools, End(t) PROVE StagedThere'
  BY <1>10 DEF End, Go, disk, UmountDevpart, Busy
<1>11. CASE UNCHANGED vars
  BY <1>11 DEF vars, disk
<1> QED
  BY <1>1, <1>2, <1>3, <1>4, <1>5, <1>6, <1>7, <1>8, <1>9, <1>10, <1>11 DEF Next

LEMMA WriterNext ==
  ToolsAssumption /\ ToolTypes /\ OneWriter /\ [Next]_vars => OneWriter'
<1> SUFFICES ASSUME ToolsAssumption, ToolTypes, OneWriter, [Next]_vars PROVE OneWriter'
  OBVIOUS
<1> USE DEF OneWriter, ToolTypes, ToolsAssumption, Tools
<1>1. CASE Copy
  BY <1>1 DEF Copy, Go, disk
<1>2. CASE Copied
  BY <1>2 DEF Copied, Go, disk
<1>3. CASE Save
  BY <1>3 DEF Save, Go, disk
<1>4. CASE Reset
  BY <1>4 DEF Reset, Go, disk
<1>5. ASSUME NEW t \in Tools, Start(t) PROVE OneWriter'
  BY <1>5 DEF Start, Go, disk
<1>6. ASSUME NEW t \in Tools, MountUmounts(t) PROVE OneWriter'
  BY <1>6 DEF MountUmounts, Go, disk
<1>7. ASSUME NEW t \in Tools, MountMounts(t) PROVE OneWriter'
  BY <1>7 DEF MountMounts, Go, disk
<1>8. ASSUME NEW t \in Tools, OpenArgs(t) PROVE OneWriter'
  BY <1>8 DEF OpenArgs, Go, disk
<1>9. ASSUME NEW t \in Tools, WriteArgs(t) PROVE OneWriter'
  BY <1>9 DEF WriteArgs, Go, disk
<1>10. ASSUME NEW t \in Tools, End(t) PROVE OneWriter'
  BY <1>10 DEF End, Go, disk
<1>11. CASE UNCHANGED vars
  BY <1>11 DEF vars, disk
<1> QED
  BY <1>1, <1>2, <1>3, <1>4, <1>5, <1>6, <1>7, <1>8, <1>9, <1>10, <1>11 DEF Next

LEMMA ArgsNext ==
  ToolsAssumption /\ ToolTypes /\ OneWriter /\ ArgsWhole /\ [Next]_vars => ArgsWhole'
<1> SUFFICES ASSUME ToolsAssumption, ToolTypes, OneWriter, ArgsWhole, [Next]_vars PROVE ArgsWhole'
  OBVIOUS
<1> USE DEF ArgsWhole, OneWriter, ToolTypes, ToolsAssumption, Tools, Arguments
<1>1. CASE Copy
  BY <1>1 DEF Copy, Go, disk
<1>2. CASE Copied
  BY <1>2 DEF Copied, Go, disk
<1>3. CASE Save
  BY <1>3 DEF Save, Go, disk
<1>4. CASE Reset
  BY <1>4 DEF Reset, Go, disk
<1>5. ASSUME NEW t \in Tools, Start(t) PROVE ArgsWhole'
  BY <1>5 DEF Start, Go, disk
<1>6. ASSUME NEW t \in Tools, MountUmounts(t) PROVE ArgsWhole'
  BY <1>6 DEF MountUmounts, Go, disk
<1>7. ASSUME NEW t \in Tools, MountMounts(t) PROVE ArgsWhole'
  BY <1>7 DEF MountMounts, Go, disk
<1>8. ASSUME NEW t \in Tools, OpenArgs(t) PROVE ArgsWhole'
  BY <1>8 DEF OpenArgs, Go, disk
<1>9. ASSUME NEW t \in Tools, WriteArgs(t) PROVE ArgsWhole'
  BY <1>9 DEF WriteArgs, Go, disk
<1>10. ASSUME NEW t \in Tools, End(t) PROVE ArgsWhole'
  BY <1>10 DEF End, Go, disk
<1>11. CASE UNCHANGED vars
  BY <1>11 DEF vars, disk
<1> QED
  BY <1>1, <1>2, <1>3, <1>4, <1>5, <1>6, <1>7, <1>8, <1>9, <1>10, <1>11 DEF Next

LEMMA ToolsInit == ToolsAssumption /\ Init => ToolsInv
  BY DEF ToolsAssumption, Init, ToolsInv, ToolTypes, Unreported, OneWriter, StagedThere, ArgsWhole, Tools

LEMMA ToolsNext == ToolsAssumption /\ ToolsInv /\ [Next]_vars => ToolsInv'
  BY TypesNext, UnreportedNext, StagedNext, WriterNext, ArgsNext DEF ToolsInv

(* What upgrade_soc reports as staged is on partition 2 with its job, but  *)
(* for an image whose copy met the partition unmounted by another tool.    *)
THEOREM StagedIsThere == ASSUME ToolsAssumption PROVE Spec => []StagedThere
<1>1. ToolsInv => StagedThere
  BY DEF ToolsInv
<1>2. Init => ToolsInv
  BY ToolsInit
<1>3. ToolsInv /\ [Next]_vars => ToolsInv'
  BY ToolsNext
<1> QED
  BY <1>1, <1>2, <1>3, PTL DEF Spec

(* The arguments the boot script imports are those of one update-cmdline,  *)
(* unless its writing was disturbed.                                       *)
THEOREM ArgsAreWhole == ASSUME ToolsAssumption PROVE Spec => []ArgsWhole
<1>1. ToolsInv => ArgsWhole
  BY DEF ToolsInv
<1>2. Init => ToolsInv
  BY ToolsInit
<1>3. ToolsInv /\ [Next]_vars => ToolsInv'
  BY ToolsNext
<1> QED
  BY <1>1, <1>2, <1>3, PTL DEF Spec

-----------------------------------------------------------------------------
(* A tool that has a file open has it on the partition: nobody can unmount *)
(* it then.                                                                *)
OpenThere == mounted \in BOOLEAN /\ (Busy => mounted)

LEMMA OpenNext ==
  ToolsAssumption /\ ToolTypes /\ OpenThere /\ [Next]_vars => OpenThere'
<1> SUFFICES ASSUME ToolsAssumption, ToolTypes, OpenThere, [Next]_vars PROVE OpenThere'
  OBVIOUS
<1> USE DEF OpenThere, ToolTypes, ToolsAssumption, Tools
<1>1. CASE Copy
  BY <1>1 DEF Copy, Go, disk, UmountDevpart, Busy
<1>2. CASE Copied
  BY <1>2 DEF Copied, Go, disk, UmountDevpart, Busy
<1>3. CASE Save
  BY <1>3 DEF Save, Go, disk, UmountDevpart, Busy
<1>4. CASE Reset
  BY <1>4 DEF Reset, Go, disk, UmountDevpart, Busy
<1>5. ASSUME NEW t \in Tools, Start(t) PROVE OpenThere'
  BY <1>5 DEF Start, Go, disk, UmountDevpart, Busy
<1>6. ASSUME NEW t \in Tools, MountUmounts(t) PROVE OpenThere'
  BY <1>6 DEF MountUmounts, Go, disk, UmountDevpart, Busy
<1>7. ASSUME NEW t \in Tools, MountMounts(t) PROVE OpenThere'
  BY <1>7 DEF MountMounts, Go, disk, UmountDevpart, Busy
<1>8. ASSUME NEW t \in Tools, OpenArgs(t) PROVE OpenThere'
  BY <1>8 DEF OpenArgs, Go, disk, UmountDevpart, Busy
<1>9. ASSUME NEW t \in Tools, WriteArgs(t) PROVE OpenThere'
  BY <1>9 DEF WriteArgs, Go, disk, UmountDevpart, Busy
<1>10. ASSUME NEW t \in Tools, End(t) PROVE OpenThere'
  BY <1>10 DEF End, Go, disk, UmountDevpart, Busy
<1>11. CASE UNCHANGED vars
  BY <1>11 DEF vars, disk, Busy
<1> QED
  BY <1>1, <1>2, <1>3, <1>4, <1>5, <1>6, <1>7, <1>8, <1>9, <1>10, <1>11 DEF Next

(* The remaining ranges. *)
Ranges ==
  /\ job \subseteq Kinds /\ args \in Arguments \cup {"none", "empty", "mixed"}
  /\ staged \in Kinds \cup {"none"} /\ pulled \in BOOLEAN /\ disturbed \in BOOLEAN
  /\ faults \in 0 .. MaxFaults

LEMMA RangesNext ==
  ToolsAssumption /\ ToolTypes /\ Ranges /\ [Next]_vars => Ranges'
<1> SUFFICES ASSUME ToolsAssumption, ToolTypes, Ranges, [Next]_vars PROVE Ranges'
  OBVIOUS
<1> USE DEF Ranges, ToolTypes, ToolsAssumption, Tools
<1>1. CASE Copy
  BY <1>1 DEF Copy, Go, disk, UmountDevpart, Busy
<1>2. CASE Copied
  BY <1>2 DEF Copied, Go, disk, UmountDevpart, Busy
<1>3. CASE Save
  BY <1>3 DEF Save, Go, disk, UmountDevpart, Busy
<1>4. CASE Reset
  BY <1>4 DEF Reset, Go, disk, UmountDevpart, Busy
<1>5. ASSUME NEW t \in Tools, Start(t) PROVE Ranges'
  BY <1>5 DEF Start, Go, disk, UmountDevpart, Busy
<1>6. ASSUME NEW t \in Tools, MountUmounts(t) PROVE Ranges'
  BY <1>6 DEF MountUmounts, Go, disk, UmountDevpart, Busy
<1>7. ASSUME NEW t \in Tools, MountMounts(t) PROVE Ranges'
  BY <1>7 DEF MountMounts, Go, disk, UmountDevpart, Busy
<1>8. ASSUME NEW t \in Tools, OpenArgs(t) PROVE Ranges'
  BY <1>8 DEF OpenArgs, Go, disk, UmountDevpart, Busy
<1>9. ASSUME NEW t \in Tools, WriteArgs(t) PROVE Ranges'
  BY <1>9 DEF WriteArgs, Go, disk, UmountDevpart, Busy
<1>10. ASSUME NEW t \in Tools, End(t) PROVE Ranges'
  BY <1>10 DEF End, Go, disk, UmountDevpart, Busy
<1>11. CASE UNCHANGED vars
  BY <1>11 DEF vars, disk, Busy
<1> QED
  BY <1>1, <1>2, <1>3, <1>4, <1>5, <1>6, <1>7, <1>8, <1>9, <1>10, <1>11 DEF Next

(* Types, and that a file is open on the partition only. *)
THEOREM TypeCorrect == ASSUME ToolsAssumption PROVE Spec => []TypeOK
<1> DEFINE Inv == ToolTypes /\ OpenThere /\ Ranges
<1>1. Init => Inv
  <2> SUFFICES ASSUME Init PROVE Inv
    OBVIOUS
  <2>1. ToolTypes
    BY ToolsInit DEF ToolsInv
  <2>2. OpenThere
    BY DEF Init, OpenThere, Busy
  <2>3. 0 \in 0 .. MaxFaults
    BY DEF ToolsAssumption
  <2> QED
    BY <2>1, <2>2, <2>3 DEF Init, Ranges
<1>2. Inv /\ [Next]_vars => Inv'
  BY TypesNext, OpenNext, RangesNext
<1>3. Inv => TypeOK
  BY DEF ToolTypes, OpenThere, Ranges, TypeOK
<1> QED
  BY <1>1, <1>2, <1>3, PTL DEF Spec
=============================================================================
