------------------------- MODULE SocVersion_proofs -------------------------
(***************************************************************************)
(* Proofs about SocVersion, for every number of registers, every set of    *)
(* versions and every bound on the faults; and, at the end, about the      *)
(* machines of MCSoftware side by side.                                    *)
(***************************************************************************)
EXTENDS MCSoftware, Sequences, TLAPS

Flags ==
  /\ boots \in BOOLEAN /\ dir \in BOOLEAN /\ mounted \in BOOLEAN
  /\ failed \in BOOLEAN /\ cut \in BOOLEAN

Values ==
  /\ reg \in [Slots -> [1 .. NumRegs -> Versions \cup {Blank}]]
  /\ file \in [Systems -> Files]
  /\ flash \in Versions /\ rootfs \in Versions
  /\ pc \in Places /\ who \in Systems \cup {"none"}
  /\ slot \in Slots /\ n \in 1 .. NumRegs /\ version_val \in Versions
  /\ faults \in 0 .. MaxFaults
  /\ torn \subseteq Slots

LEMMA TypeInit == Init => TypeOK
<1> SUFFICES ASSUME Init PROVE TypeOK
  OBVIOUS
<1>1. Flags
  BY Zenon DEF Init, Flags
<1>2. Values
  BY SocVersionAssumption DEF Init, Values, Whole, Slots, Systems, Files, Places
<1> QED
  BY <1>1, <1>2, Zenon DEF TypeOK, Flags, Values

LEMMA FlagsNext == TypeOK /\ [Next]_vars => Flags'
<1> SUFFICES ASSUME TypeOK, [Next]_vars PROVE Flags'
  OBVIOUS
<1> USE SocVersionAssumption DEF TypeOK, Flags
<1>1. CASE UpdateVersion
  BY <1>1, Zenon DEF UpdateVersion, BeginWrite, EndWrite, Works, Fails, disk, installed
<1>2. CASE BootCommand
  BY <1>2, Zenon DEF BootCommand, Works, disk, installed, history
<1>3. CASE WriteReg
  BY <1>3, Zenon DEF WriteReg, Works, disk, installed, history
<1>4. CASE WriteLastReg
  BY <1>4, Zenon DEF WriteLastReg, EndWrite, Works, disk, installed
<1>5. CASE WriteFails
  BY <1>5, Zenon DEF WriteFails, EndWrite, Fails, disk, installed, history
<1>6. CASE MkDir
  BY <1>6, Zenon DEF MkDir, Works, installed, history
<1>7. CASE Mount
  BY <1>7, Zenon DEF Mount, Works, Fails, disk, installed, history
<1>8. CASE InitI2c
  BY <1>8, Zenon DEF InitI2c, BeginWrite, EndWrite, Works, Fails, disk, installed, SDKVERSION
<1>9. CASE OpenOwn
  BY <1>9, Zenon DEF OpenOwn, Works, Fails, installed, history, Files
<1>10. CASE SaveOwn
  BY <1>10, Zenon DEF SaveOwn, Works, Fails, installed, history, Files
<1>11. CASE OpenPeer
  BY <1>11, Zenon DEF OpenPeer, BeginWrite, EndWrite, Works, Fails, disk, installed, Files, Peer
<1>12. CASE Umount
  BY <1>12, Zenon DEF Umount, Works, Fails, disk, installed, history
<1>13. CASE RmDir
  BY <1>13, Zenon DEF RmDir, Works, installed, Files
<1>14. CASE Upgrade
  BY <1>14, Zenon DEF Upgrade, disk, Files
<1>15. ASSUME NEW cold \in BOOLEAN, Reset(cold) PROVE Flags'
  BY <1>15, Zenon DEF Reset, disk, installed, Whole
<1>16. CASE UNCHANGED vars
  BY <1>16, Zenon DEF vars, disk, installed, program, history
<1> QED
  BY <1>1, <1>2, <1>3, <1>4, <1>5, <1>6, <1>7, <1>8, <1>9, <1>10, <1>11, <1>12, <1>13, <1>14, <1>15, <1>16
     DEF Next, Program

LEMMA WhoNext == TypeOK /\ WhoRuns /\ [Next]_vars => WhoRuns'
<1> SUFFICES ASSUME TypeOK, WhoRuns, [Next]_vars PROVE WhoRuns'
  OBVIOUS
<1> USE DEF WhoRuns, InUBoot
<1>1. CASE UpdateVersion
  BY <1>1 DEF UpdateVersion, BeginWrite, EndWrite
<1>2. CASE BootCommand
  BY <1>2 DEF BootCommand
<1>3. CASE WriteReg
  BY <1>3 DEF WriteReg
<1>4. CASE WriteLastReg
  BY <1>4 DEF WriteLastReg, EndWrite, Systems
<1>5. CASE WriteFails
  BY <1>5 DEF WriteFails, EndWrite, TypeOK, Slots, Systems
<1>6. CASE MkDir
  BY <1>6 DEF MkDir
<1>7. CASE Mount
  BY <1>7 DEF Mount
<1>8. CASE InitI2c
  BY <1>8 DEF InitI2c, BeginWrite, EndWrite, TypeOK, Systems
<1>9. CASE OpenOwn
  BY <1>9 DEF OpenOwn
<1>10. CASE SaveOwn
  BY <1>10 DEF SaveOwn
<1>11. CASE OpenPeer
  BY <1>11 DEF OpenPeer, BeginWrite, EndWrite, Peer
<1>12. CASE Umount
  BY <1>12 DEF Umount
<1>13. CASE RmDir
  BY <1>13 DEF RmDir
<1>14. CASE Upgrade
  BY <1>14 DEF Upgrade
<1>15. ASSUME NEW cold \in BOOLEAN, Reset(cold) PROVE WhoRuns'
  BY <1>15 DEF Reset
<1>16. CASE UNCHANGED vars
  BY <1>16 DEF vars, program
<1> QED
  BY <1>1, <1>2, <1>3, <1>4, <1>5, <1>6, <1>7, <1>8, <1>9, <1>10, <1>11, <1>12, <1>13, <1>14, <1>15, <1>16
     DEF Next, Program

LEMMA ValuesNext == TypeOK /\ WhoRuns /\ [Next]_vars => Values'
<1> SUFFICES ASSUME TypeOK, WhoRuns, [Next]_vars PROVE Values'
  OBVIOUS
<1> USE SocVersionAssumption DEF TypeOK, Values, Places, Slots, Systems
<1>a. ASSUME NEW s \in Slots, NEW v \in Versions, BeginWrite(s, v)
      PROVE  /\ pc' \in Places /\ slot' \in Slots /\ n' \in 1 .. NumRegs
             /\ version_val' \in Versions /\ torn' \subseteq Slots
  BY <1>a DEF BeginWrite
<1>b. ASSUME NEW next \in Places, EndWrite(next), UNCHANGED torn
      PROVE  /\ pc' \in Places /\ slot' \in Slots /\ n' \in 1 .. NumRegs
             /\ version_val' \in Versions /\ torn' \subseteq Slots
  BY <1>b DEF EndWrite
<1>c. Works \/ Fails => faults' \in 0 .. MaxFaults
  BY DEF Works, Fails
<1>1. CASE UpdateVersion
  <2>1. \/ BeginWrite("fw", flash)
        \/ EndWrite("bootcmd") /\ UNCHANGED torn
    BY <1>1 DEF UpdateVersion
  <2>2. UNCHANGED <<reg, file, flash, rootfs, who>> /\ (Works \/ Fails)
    BY <1>1 DEF UpdateVersion, disk, installed
  <2> QED
    BY <2>1, <2>2, <1>a, <1>b, <1>c
<1>2. CASE BootCommand
  BY <1>2 DEF BootCommand, Works, disk, installed, history
<1>3. CASE WriteReg
  <2>1. reg' \in [Slots -> [1 .. NumRegs -> Versions \cup {Blank}]]
    <3>1. [reg[slot] EXCEPT ![n] = version_val] \in [1 .. NumRegs -> Versions \cup {Blank}]
      OBVIOUS
    <3>2. reg' = [reg EXCEPT ![slot] = [reg[slot] EXCEPT ![n] = version_val]]
      BY <1>3 DEF WriteReg
    <3> QED
      BY <3>1, <3>2
  <2>2. n' \in 1 .. NumRegs
    BY <1>3 DEF WriteReg
  <2> QED
    BY <1>3, <2>1, <2>2 DEF WriteReg, Works, disk, installed, history
<1>4. CASE WriteLastReg
  <2>1. reg' \in [Slots -> [1 .. NumRegs -> Versions \cup {Blank}]]
    BY <1>4 DEF WriteLastReg
  <2>2. /\ pc' \in Places /\ slot' \in Slots /\ n' \in 1 .. NumRegs
        /\ version_val' \in Versions /\ torn' \subseteq Slots
    <3>1. CASE slot = "fw"
      <4>1. /\ pc' = "write" /\ slot' = "uboot" /\ n' = 1 /\ version_val' = version_val
            /\ torn' = (torn \ {slot}) \cup {"uboot"}
        BY <1>4, <3>1 DEF WriteLastReg
      <4>2. 1 \in 1 .. NumRegs
        OBVIOUS
      <4> QED
        BY <4>1, <4>2
    <3>2. CASE slot # "fw"
      BY <1>4, <3>2 DEF WriteLastReg, EndWrite
    <3> QED
      BY <3>1, <3>2
  <2>3. UNCHANGED <<file, flash, rootfs, who, faults>>
    BY <1>4 DEF WriteLastReg, Works, disk, installed
  <2> QED
    BY <2>1, <2>2, <2>3
<1>5. CASE WriteFails
  BY <1>5 DEF WriteFails, EndWrite, Fails, disk, installed, history
<1>6. CASE MkDir
  BY <1>6 DEF MkDir, Works, installed, history
<1>7. CASE Mount
  BY <1>7 DEF Mount, Works, Fails, disk, installed, history
<1>8. CASE InitI2c
  <2>1. \/ BeginWrite(who, SDKVERSION(who))
        \/ EndWrite("umount") /\ UNCHANGED torn
    BY <1>8 DEF InitI2c
  <2>2. UNCHANGED <<reg, file, flash, rootfs, who>> /\ (Works \/ Fails)
    BY <1>8 DEF InitI2c, disk, installed
  <2>3. who \in Slots /\ SDKVERSION(who) \in Versions
    BY <1>8 DEF InitI2c, WhoRuns, InUBoot, SDKVERSION
  <2> QED
    BY <2>1, <2>2, <2>3, <1>a, <1>b, <1>c
<1>9. CASE OpenOwn
  BY <1>9 DEF OpenOwn, Works, Fails, installed, history, Files
<1>10. CASE SaveOwn
  BY <1>10 DEF SaveOwn, Works, Fails, installed, history, Files
<1>11. CASE OpenPeer
  <2>1. Peer(who) \in Systems
    BY DEF Peer
  <2>2. \/ \E v \in Versions : BeginWrite(Peer(who), v)
        \/ EndWrite("umount") /\ UNCHANGED torn
    <3>1. file[Peer(who)] \in Files
      BY <2>1
    <3> QED
      BY <1>11, <3>1 DEF OpenPeer, Files
  <2>3. UNCHANGED <<reg, file, flash, rootfs, who>> /\ (Works \/ Fails)
    BY <1>11 DEF OpenPeer, disk, installed
  <2> QED
    BY <2>1, <2>2, <2>3, <1>a, <1>b, <1>c
<1>12. CASE Umount
  BY <1>12 DEF Umount, Works, Fails, disk, installed, history
<1>13. CASE RmDir
  BY <1>13 DEF RmDir, Works, installed, Files
<1>14. CASE Upgrade
  BY <1>14 DEF Upgrade, disk, Files
<1>15. ASSUME NEW cold \in BOOLEAN, Reset(cold) PROVE Values'
  BY <1>15 DEF Reset, disk, installed, Whole
<1>16. CASE UNCHANGED vars
  BY <1>16 DEF vars, disk, installed, program, history
<1> QED
  BY <1>1, <1>2, <1>3, <1>4, <1>5, <1>6, <1>7, <1>8, <1>9, <1>10, <1>11, <1>12, <1>13, <1>14, <1>15, <1>16
     DEF Next, Program

LEMMA TypeNext == TypeOK /\ WhoRuns /\ [Next]_vars => TypeOK'
  BY FlagsNext, ValuesNext, Zenon DEF TypeOK, Flags, Values

(* The ranges of the variables, in every state. *)
THEOREM TypeCorrect == Spec => []TypeOK
<1>1. Init => WhoRuns
  BY DEF Init, WhoRuns, InUBoot
<1> QED
  BY TypeInit, TypeNext, <1>1, WhoNext, PTL DEF Spec

-----------------------------------------------------------------------------
(* The last write of a version leaves it whole. *)
LEMMA LastWrite ==
  ASSUME TypeOK, WritesInOrder, WriteLastReg
  PROVE  reg' = [reg EXCEPT ![slot] = Whole(version_val)]
<1>1. reg[slot] \in [1 .. NumRegs -> Versions \cup {Blank}] /\ n = NumRegs /\ n \in Nat
  BY SocVersionAssumption DEF TypeOK, WriteLastReg
<1>2. \A k \in 1 .. n - 1 : reg[slot][k] = version_val
  BY DEF WritesInOrder, WriteLastReg
<1>3. [reg[slot] EXCEPT ![n] = version_val] = Whole(version_val)
  BY <1>1, <1>2 DEF Whole
<1> QED
  BY <1>3 DEF WriteLastReg, TypeOK

LEMMA OrderNext == TypeOK /\ WhoRuns /\ WritesInOrder /\ [Next]_vars => WritesInOrder'
<1> SUFFICES ASSUME TypeOK, WhoRuns, WritesInOrder, [Next]_vars PROVE WritesInOrder'
  OBVIOUS
<1> USE SocVersionAssumption
<1>a. ASSUME NEW s \in Slots, NEW v, NEW next, BeginWrite(s, v) \/ (EndWrite(next) /\ next # "write" /\ UNCHANGED torn),
             UNCHANGED reg
      PROVE  WritesInOrder'
  BY <1>a DEF WritesInOrder, BeginWrite, EndWrite, Whole
<1>1. CASE UpdateVersion
  BY <1>1, <1>a DEF UpdateVersion, Slots
<1>2. CASE BootCommand
  BY <1>2 DEF BootCommand, history, WritesInOrder, Whole
<1>3. CASE WriteReg
  <2>1. slot \in torn /\ pc' = "write" /\ torn' = torn /\ slot' = slot /\ n' = n + 1 /\ version_val' = version_val
    BY <1>3 DEF WriteReg, WritesInOrder, history
  <2>2. \A s \in Slots : s # slot => reg'[s] = reg[s]
    BY <1>3 DEF WriteReg, TypeOK
  <2>3. \A k \in 1 .. n : reg'[slot][k] = version_val
    BY <1>3 DEF WriteReg, TypeOK, WritesInOrder
  <2>4. n \in Nat
    BY DEF TypeOK
  <2> QED
    BY <2>1, <2>2, <2>3, <2>4 DEF WritesInOrder, Whole
<1>4. CASE WriteLastReg
  <2>1. reg' = [reg EXCEPT ![slot] = Whole(version_val)]
    BY <1>4, LastWrite
  <2>2. /\ version_val \in Versions /\ slot \in Slots /\ reg \in [Slots -> [1 .. NumRegs -> Versions \cup {Blank}]]
        /\ slot \in torn
    BY <1>4 DEF TypeOK, WritesInOrder, WriteLastReg
  <2>3. \A s \in Slots \ (torn \ {slot}) : \E v \in Versions \cup {Blank} : reg'[s] = Whole(v)
    BY <2>1, <2>2 DEF WritesInOrder
  <2>4. \/ pc' = "write" /\ slot' = "uboot" /\ n' = 1 /\ torn' = (torn \ {slot}) \cup {"uboot"}
        \/ pc' # "write" /\ torn' = torn \ {slot}
    BY <1>4 DEF WriteLastReg, EndWrite
  <2>5. pc' = "write" => slot' \in torn' /\ \A k \in 1 .. n' - 1 : reg'[slot'][k] = version_val'
    BY <2>4
  <2> QED
    BY <2>3, <2>4, <2>5 DEF WritesInOrder, Whole
<1>5. CASE WriteFails
  BY <1>5, <1>a DEF WriteFails, history, Slots
<1>6. CASE MkDir
  BY <1>6 DEF MkDir, history, WritesInOrder, Whole
<1>7. CASE Mount
  BY <1>7 DEF Mount, history, WritesInOrder, Whole
<1>8. CASE InitI2c
  <2>1. who \in Slots
    BY <1>8 DEF InitI2c, TypeOK, WhoRuns, InUBoot, Slots, Systems
  <2> QED
    BY <1>8, <1>a, <2>1 DEF InitI2c
<1>9. CASE OpenOwn
  BY <1>9 DEF OpenOwn, history, WritesInOrder, Whole
<1>10. CASE SaveOwn
  BY <1>10 DEF SaveOwn, history, WritesInOrder, Whole
<1>11. CASE OpenPeer
  <2>1. Peer(who) \in Slots
    BY DEF Peer, Slots, Systems
  <2> QED
    BY <1>11, <1>a, <2>1 DEF OpenPeer
<1>12. CASE Umount
  BY <1>12 DEF Umount, history, WritesInOrder, Whole
<1>13. CASE RmDir
  BY <1>13 DEF RmDir, WritesInOrder, Whole
<1>14. CASE Upgrade
  BY <1>14 DEF Upgrade, WritesInOrder, Whole
<1>15. ASSUME NEW cold \in BOOLEAN, Reset(cold) PROVE WritesInOrder'
  <2>1. CASE cold
    <3>1. \A s \in Slots : reg'[s] = Whole(Blank)
      BY <1>15, <2>1 DEF Reset
    <3> QED
      BY <1>15, <3>1 DEF Reset, WritesInOrder, Whole
  <2>2. CASE ~cold
    BY <1>15, <2>2 DEF Reset, WritesInOrder, Whole
  <2> QED
    BY <2>1, <2>2
<1>16. CASE UNCHANGED vars
  BY <1>16 DEF vars, program, history, WritesInOrder, Whole
<1> QED
  BY <1>1, <1>2, <1>3, <1>4, <1>5, <1>6, <1>7, <1>8, <1>9, <1>10, <1>11, <1>12, <1>13, <1>14, <1>15, <1>16
     DEF Next, Program

LEMMA OtherRegs ==
  ASSUME TypeOK, WriteReg \/ WriteLastReg
  PROVE  \A s \in Slots : s # slot => reg'[s] = reg[s]
  BY DEF TypeOK, WriteReg, WriteLastReg

(* After its last write, a version is told whole. *)
LEMMA SlotTold ==
  ASSUME TypeOK, WritesInOrder, WriteLastReg
  PROVE  slot \in Slots /\ reg'[slot] = Whole(version_val)
  BY LastWrite DEF TypeOK

LEMMA DirNext ==
  TypeOK /\ WhoRuns /\ DirLeft /\ [Next]_vars => DirLeft'
<1> SUFFICES ASSUME TypeOK, WhoRuns, DirLeft, [Next]_vars PROVE DirLeft'
  OBVIOUS
<1> USE DEF DirLeft
<1>1. CASE UpdateVersion
  BY <1>1 DEF UpdateVersion, WhoRuns, InUBoot, disk, BeginWrite, EndWrite
<1>2. CASE BootCommand
  BY <1>2 DEF BootCommand, WhoRuns, InUBoot, disk, history
<1>3. CASE WriteReg
  BY <1>3 DEF WriteReg, disk, history
<1>4. CASE WriteLastReg
  BY <1>4 DEF WriteLastReg, EndWrite, disk, WhoRuns, InUBoot, Systems
<1>5. CASE WriteFails
  BY <1>5 DEF WriteFails, EndWrite, disk, history, WhoRuns, InUBoot
<1>6. CASE MkDir
  BY <1>6 DEF MkDir, history
<1>7. CASE Mount
  BY <1>7 DEF Mount, disk, history
<1>8. CASE InitI2c
  BY <1>8 DEF InitI2c, disk, EndWrite, BeginWrite
<1>9. CASE OpenOwn
  BY <1>9 DEF OpenOwn, history
<1>10. CASE SaveOwn
  BY <1>10 DEF SaveOwn
<1>11. CASE OpenPeer
  BY <1>11 DEF OpenPeer, disk, EndWrite, BeginWrite
<1>12. CASE Umount
  BY <1>12 DEF Umount, disk, history
<1>13. CASE RmDir
  <2>1. CASE mounted
    BY <1>13, <2>1, Zenon DEF RmDir
  <2>2. CASE ~mounted
    <3>1. (dir' => dir /\ who # "rfs") /\ UNCHANGED <<cut, who>>
      BY <1>13, <2>2, Zenon DEF RmDir
    <3> QED
      BY <3>1
  <2> QED
    BY <2>1, <2>2
<1>14. CASE Upgrade
  BY <1>14 DEF Upgrade, disk
<1>15. ASSUME NEW cold \in BOOLEAN, Reset(cold) PROVE DirLeft'
  BY <1>15 DEF Reset, disk
<1>16. CASE UNCHANGED vars
  BY <1>16 DEF vars, program, history, disk, installed
<1> QED
  BY <1>1, <1>2, <1>3, <1>4, <1>5, <1>6, <1>7, <1>8, <1>9, <1>10, <1>11, <1>12, <1>13, <1>14, <1>15, <1>16
     DEF Next, Program

LEMMA MountNext ==
  TypeOK /\ WhoRuns /\ MountKept /\ [Next]_vars => MountKept'
<1> SUFFICES ASSUME TypeOK, WhoRuns, MountKept, [Next]_vars PROVE MountKept'
  OBVIOUS
<1> USE DEF MountKept, WhoRuns, InUBoot
<1>1. CASE UpdateVersion
  BY <1>1 DEF UpdateVersion, BeginWrite, EndWrite, Works, Fails
<1>2. CASE BootCommand
  BY <1>2 DEF BootCommand, Works
<1>3. CASE WriteReg
  BY <1>3 DEF WriteReg, Works
<1>4. CASE WriteLastReg
  BY <1>4 DEF WriteLastReg, Works, EndWrite, Systems
<1>5. CASE WriteFails
  BY <1>5 DEF WriteFails, Fails
<1>6. CASE MkDir
  BY <1>6 DEF MkDir, Works
<1>7. CASE Mount
  BY <1>7 DEF Mount, Works, Fails
<1>8. CASE InitI2c
  BY <1>8 DEF InitI2c, Works, Fails, BeginWrite, EndWrite
<1>9. CASE OpenOwn
  BY <1>9 DEF OpenOwn, Works, Fails
<1>10. CASE SaveOwn
  BY <1>10 DEF SaveOwn, Works, Fails
<1>11. CASE OpenPeer
  BY <1>11 DEF OpenPeer, Works, Fails, BeginWrite, EndWrite
<1>12. CASE Umount
  BY <1>12 DEF Umount, Works, Fails
<1>13. CASE RmDir
  BY <1>13 DEF RmDir, Works
<1>14. CASE Upgrade
  BY <1>14 DEF Upgrade
<1>15. ASSUME NEW cold \in BOOLEAN, Reset(cold) PROVE MountKept'
  BY <1>15 DEF Reset
<1>16. CASE UNCHANGED vars
  BY <1>16 DEF vars, program, history, disk, installed
<1> QED
  BY <1>1, <1>2, <1>3, <1>4, <1>5, <1>6, <1>7, <1>8, <1>9, <1>10, <1>11, <1>12, <1>13, <1>14, <1>15, <1>16
     DEF Next, Program

LEMMA UBootNext ==
  TypeOK /\ WhoRuns /\ WritesInOrder /\ UBootTold /\ [Next]_vars => UBootTold'
<1> SUFFICES ASSUME TypeOK, WhoRuns, WritesInOrder, UBootTold, [Next]_vars PROVE UBootTold'
  OBVIOUS
<1> USE DEF UBootTold, WhoRuns, InUBoot, Writes
<1>1. CASE UpdateVersion
  BY <1>1 DEF UpdateVersion, BeginWrite, EndWrite, Works, Fails, installed
<1>2. CASE BootCommand
  BY <1>2 DEF BootCommand, Works, installed
<1>3. CASE WriteReg
  <2>1. "fw" \in Slots /\ "uboot" \in Slots /\ slot \in Slots
    BY DEF TypeOK, Slots
  <2>2. slot # "fw" => reg'["fw"] = reg["fw"]
    BY <1>3, <2>1, OtherRegs
  <2>3. slot # "uboot" => reg'["uboot"] = reg["uboot"]
    BY <1>3, <2>1, OtherRegs
  <2> QED
    BY <1>3, <2>2, <2>3 DEF WriteReg, Works, installed
<1>4. CASE WriteLastReg
  <2>1. "fw" \in Slots /\ "uboot" \in Slots /\ slot \in Slots
    BY DEF TypeOK, Slots
  <2>2. slot # "fw" => reg'["fw"] = reg["fw"]
    BY <1>4, <2>1, OtherRegs
  <2>3. slot # "uboot" => reg'["uboot"] = reg["uboot"]
    BY <1>4, <2>1, OtherRegs
  <2>4. reg'[slot] = Whole(version_val)
    BY <1>4, SlotTold
  <2> QED
    BY <1>4, <2>2, <2>3, <2>4 DEF WriteLastReg, Works, installed, EndWrite, Systems, Whole
<1>5. CASE WriteFails
  BY <1>5 DEF WriteFails, Fails
<1>6. CASE MkDir
  BY <1>6 DEF MkDir, Works, installed
<1>7. CASE Mount
  BY <1>7 DEF Mount, Works, Fails, installed
<1>8. CASE InitI2c
  <2>1. who # "fw" /\ who # "uboot" /\ who # "none"
    BY <1>8 DEF InitI2c, TypeOK, Systems
  <2> QED
    BY <1>8, <2>1 DEF InitI2c, Works, Fails, BeginWrite, EndWrite, installed
<1>9. CASE OpenOwn
  BY <1>9 DEF OpenOwn, Works, Fails, installed
<1>10. CASE SaveOwn
  BY <1>10 DEF SaveOwn, Works, Fails, installed
<1>11. CASE OpenPeer
  <2>1. Peer(who) # "fw" /\ Peer(who) # "uboot" /\ who # "none"
    BY <1>11 DEF OpenPeer, Peer
  <2> QED
    BY <1>11, <2>1 DEF OpenPeer, Works, Fails, BeginWrite, EndWrite, installed
<1>12. CASE Umount
  BY <1>12 DEF Umount, Works, Fails, installed
<1>13. CASE RmDir
  BY <1>13 DEF RmDir, Works, installed
<1>14. CASE Upgrade
  BY <1>14 DEF Upgrade
<1>15. ASSUME NEW cold \in BOOLEAN, Reset(cold) PROVE UBootTold'
  BY <1>15 DEF Reset
<1>16. CASE UNCHANGED vars
  BY <1>16 DEF vars, program, history, disk, installed
<1> QED
  BY <1>1, <1>2, <1>3, <1>4, <1>5, <1>6, <1>7, <1>8, <1>9, <1>10, <1>11, <1>12, <1>13, <1>14, <1>15, <1>16
     DEF Next, Program

LEMMA OwnNext ==
  TypeOK /\ WhoRuns /\ WritesInOrder /\ MountKept /\ OwnSaved /\ [Next]_vars => OwnSaved'
<1> SUFFICES ASSUME TypeOK, WhoRuns, WritesInOrder, MountKept, OwnSaved, [Next]_vars PROVE OwnSaved'
  OBVIOUS
<1> USE DEF OwnSaved, SDKVERSION, Peer, Systems, Writes
<1>1. CASE UpdateVersion
  BY <1>1 DEF UpdateVersion, BeginWrite, EndWrite, Works, Fails, installed
<1>2. CASE BootCommand
  BY <1>2 DEF BootCommand, Works, installed
<1>3. CASE WriteReg
  <2>1. \A s \in Systems : s # slot => reg'[s] = reg[s]
    BY <1>3, OtherRegs DEF Slots
  <2>2. slot \in Systems \/ who = "none"
    BY <1>3 DEF WriteReg, WhoRuns, InUBoot, TypeOK, Slots
  <2> QED
    BY <1>3, <2>1, <2>2 DEF WriteReg, Works, disk, installed, Whole
<1>4. CASE WriteLastReg
  <2>1. \A s \in Systems : s # slot => reg'[s] = reg[s]
    BY <1>4, OtherRegs DEF Slots
  <2>2. reg'[slot] = Whole(version_val)
    BY <1>4, SlotTold
  <2>3. slot \in Systems \/ who = "none"
    BY <1>4 DEF WriteLastReg, WhoRuns, InUBoot, TypeOK, Slots
  <2> QED
    BY <1>4, <2>1, <2>2, <2>3 DEF WriteLastReg, Works, disk, installed, EndWrite, Whole
<1>5. CASE WriteFails
  BY <1>5 DEF WriteFails, Fails
<1>6. CASE MkDir
  BY <1>6 DEF MkDir, Works, installed
<1>7. CASE Mount
  BY <1>7 DEF Mount, Works, Fails, installed
<1>8. CASE InitI2c
  BY <1>8 DEF InitI2c, Works, Fails, BeginWrite, EndWrite, installed
<1>9. CASE OpenOwn
  BY <1>9 DEF OpenOwn, Works, Fails, installed
<1>10. CASE SaveOwn
  <2>1. CASE failed'
    BY <2>1
  <2>2. CASE ~failed'
    <3>1. mounted
      BY <1>10, <2>2 DEF SaveOwn, Works, Fails, MountKept
    <3>2. file' = [file EXCEPT ![who] = version_val]
      BY <1>10, <2>2, <3>1 DEF SaveOwn, Fails
    <3> QED
      BY <1>10, <2>2, <3>2 DEF SaveOwn, Works, Fails, installed, TypeOK
  <2> QED
    BY <2>1, <2>2
<1>11. CASE OpenPeer
  BY <1>11 DEF OpenPeer, Works, Fails, BeginWrite, EndWrite, disk, installed
<1>12. CASE Umount
  BY <1>12 DEF Umount, Works, Fails, disk, installed
<1>13. CASE RmDir
  BY <1>13 DEF RmDir, Works, installed
<1>14. CASE Upgrade
  BY <1>14 DEF Upgrade
<1>15. ASSUME NEW cold \in BOOLEAN, Reset(cold) PROVE OwnSaved'
  BY <1>15 DEF Reset
<1>16. CASE UNCHANGED vars
  BY <1>16 DEF vars, program, history, disk, installed
<1> QED
  BY <1>1, <1>2, <1>3, <1>4, <1>5, <1>6, <1>7, <1>8, <1>9, <1>10, <1>11, <1>12, <1>13, <1>14, <1>15, <1>16
     DEF Next, Program

LEMMA PeerNext ==
  TypeOK /\ WhoRuns /\ WritesInOrder /\ MountKept /\ PeerRead /\ [Next]_vars => PeerRead'
<1> SUFFICES ASSUME TypeOK, WhoRuns, WritesInOrder, MountKept, PeerRead, [Next]_vars PROVE PeerRead'
  OBVIOUS
<1> USE DEF PeerRead, Peer, Systems, Writes
<1>1. CASE UpdateVersion
  BY <1>1 DEF UpdateVersion, BeginWrite, EndWrite
<1>2. CASE BootCommand
  BY <1>2 DEF BootCommand, Works
<1>3. CASE WriteReg
  <2>1. slot \in Systems \/ who = "none"
    BY <1>3 DEF WriteReg, WhoRuns, InUBoot, TypeOK, Slots
  <2> QED
    BY <1>3, <2>1 DEF WriteReg, Works, disk
<1>4. CASE WriteLastReg
  <2>1. reg'[slot] = Whole(version_val)
    BY <1>4, SlotTold
  <2>2. slot \in Systems \/ who = "none"
    BY <1>4 DEF WriteLastReg, WhoRuns, InUBoot, TypeOK, Slots
  <2> QED
    BY <1>4, <2>1, <2>2 DEF WriteLastReg, Works, disk, EndWrite, Whole
<1>5. CASE WriteFails
  BY <1>5 DEF WriteFails, Fails
<1>6. CASE MkDir
  BY <1>6 DEF MkDir, Works
<1>7. CASE Mount
  BY <1>7 DEF Mount, Works, Fails
<1>8. CASE InitI2c
  BY <1>8 DEF InitI2c, Works, Fails, BeginWrite, EndWrite
<1>9. CASE OpenOwn
  BY <1>9 DEF OpenOwn, Works, Fails
<1>10. CASE SaveOwn
  BY <1>10 DEF SaveOwn, Works, Fails
<1>11. CASE OpenPeer
  BY <1>11, SocVersionAssumption DEF OpenPeer, Works, Fails, BeginWrite, EndWrite, disk, MountKept
<1>12. CASE Umount
  BY <1>12 DEF Umount, Works, Fails, disk
<1>13. CASE RmDir
  BY <1>13 DEF RmDir
<1>14. CASE Upgrade
  BY <1>14 DEF Upgrade
<1>15. ASSUME NEW cold \in BOOLEAN, Reset(cold) PROVE PeerRead'
  BY <1>15 DEF Reset
<1>16. CASE UNCHANGED vars
  BY <1>16 DEF vars, program, history, disk, installed
<1> QED
  BY <1>1, <1>2, <1>3, <1>4, <1>5, <1>6, <1>7, <1>8, <1>9, <1>10, <1>11, <1>12, <1>13, <1>14, <1>15, <1>16
     DEF Next, Program

(* A boot in which nothing failed is done with its script, in MkDir where *)
(* the directory was left behind and else in RmDir.                        *)
LEMMA UpNext ==
  TypeOK /\ VersionInv /\ [Next]_vars => OwnTold' /\ PeerTold'
<1> SUFFICES ASSUME TypeOK, VersionInv, [Next]_vars PROVE OwnTold' /\ PeerTold'
  OBVIOUS
<1> USE DEF VersionInv
<1>1. CASE MkDir
  <2>1. pc' = "up" => cut /\ who = "rfs" /\ who' = "rfs"
    BY <1>1 DEF MkDir, DirLeft
  <2>2. pc' = "up" /\ ~failed' => reg'["fw"] = Whole(flash) /\ reg'["uboot"] = Whole(flash)
    BY <1>1 DEF MkDir, Works, UBootTold
  <2> QED
    BY <1>1, <2>1, <2>2 DEF MkDir, OwnTold, PeerTold, installed, history, Whole
<1>2. CASE RmDir
  <2>1. who \in Systems /\ UNCHANGED <<reg, flash, rootfs, who, failed, torn>>
    BY <1>2 DEF RmDir, WhoRuns, InUBoot, TypeOK, Works, installed
  <2>2. CASE failed
    BY <2>1, <2>2 DEF OwnTold, PeerTold
  <2>3. CASE ~failed
    <3>1. ~mounted
      BY <1>2, <2>3 DEF RmDir, MountKept
    <3>2. UNCHANGED <<file, cut>>
      BY <1>2, <3>1 DEF RmDir
    <3>3. reg["fw"] = Whole(flash) /\ reg["uboot"] = Whole(flash)
      BY <1>2, <2>1, <2>3 DEF RmDir, UBootTold, Systems
    <3>4. reg[who] = Whole(SDKVERSION(who)) /\ file[who] = SDKVERSION(who)
      BY <1>2, <2>1, <2>3 DEF RmDir, OwnSaved
    <3>5. OwnTold'
      BY <2>1, <3>2, <3>3, <3>4 DEF OwnTold, SDKVERSION, Whole
    <3>6. Peer(who) \in Systems /\ Peer(who) \in Slots
      BY DEF Peer, Systems, Slots
    <3>7. file[Peer(who)] \in Versions => reg[Peer(who)] = Whole(file[Peer(who)])
      BY <1>2, <2>1, <2>3 DEF RmDir, PeerRead
    <3>8. Peer(who) \in torn \/ \E v \in Versions \cup {Blank} : reg[Peer(who)] = Whole(v)
      BY <3>6 DEF WritesInOrder
    <3>9. PeerTold'
      BY <2>1, <3>2, <3>7, <3>8 DEF PeerTold, Peer, Whole
    <3> QED
      BY <3>5, <3>9
  <2> QED
    BY <2>2, <2>3
<1>3. CASE UNCHANGED vars
  BY <1>3 DEF vars, program, history, disk, installed, OwnTold, PeerTold, SDKVERSION, Peer, Whole
<1>4. ASSUME pc' # "up" PROVE OwnTold' /\ PeerTold'
  BY <1>4 DEF OwnTold, PeerTold
<1>5. ASSUME UpdateVersion \/ BootCommand \/ WriteReg \/ WriteLastReg \/ WriteFails \/ Mount \/ InitI2c
      PROVE  pc' # "up"
  BY <1>5 DEF UpdateVersion, BootCommand, WriteReg, WriteLastReg, WriteFails, Mount, InitI2c, BeginWrite, EndWrite
<1>6. ASSUME NEW cold \in BOOLEAN,
             OpenOwn \/ SaveOwn \/ OpenPeer \/ Umount \/ Upgrade \/ Reset(cold)
      PROVE  pc' # "up"
  BY <1>6 DEF OpenOwn, SaveOwn, OpenPeer, Umount, Upgrade, Reset, BeginWrite, EndWrite
<1> QED
  BY <1>1, <1>2, <1>3, <1>4, <1>5, <1>6 DEF Next, Program

LEMMA VersionInit == Init => VersionInv
<1> SUFFICES ASSUME Init PROVE VersionInv
  OBVIOUS
<1>1. WritesInOrder
  BY DEF Init, WritesInOrder
<1>2. WhoRuns /\ DirLeft /\ UBootTold /\ MountKept /\ OwnSaved /\ PeerRead /\ OwnTold /\ PeerTold
  BY DEF Init, WhoRuns, InUBoot, DirLeft, UBootTold, MountKept, OwnSaved, PeerRead, OwnTold, PeerTold,
         Systems, Writes
<1> QED
  BY <1>1, <1>2 DEF VersionInv

LEMMA VersionNext == TypeOK /\ VersionInv /\ [Next]_vars => VersionInv'
  BY OrderNext, WhoNext, DirNext, UBootNext, MountNext, OwnNext, PeerNext, UpNext, Zenon DEF VersionInv

(* The inductive invariant. *)
THEOREM VersionsInductive == Spec => [](TypeOK /\ VersionInv)
  BY TypeInit, TypeNext, VersionInit, VersionNext, Zenon, PTL DEF Spec, VersionInv

(* When the script of a boot is done and nothing failed, the registers and *)
(* the file tell the versions of what was booted, however earlier boots    *)
(* ended.                                                                  *)
THEOREM OwnVersionTold == Spec => []OwnTold
<1>1. VersionInv => OwnTold
  BY DEF VersionInv
<1> QED
  BY VersionsInductive, <1>1, PTL

(* The registers of the other system are never bytes of two versions where *)
(* its file can be read.                                                   *)
THEOREM PeerVersionTold == Spec => []PeerTold
<1>1. VersionInv => PeerTold
  BY DEF VersionInv
<1> QED
  BY VersionsInductive, <1>1, PTL

(* No boot in which nothing failed takes a file or /boot from partition 2. *)
THEOREM PartitionStays == Spec => PartitionKept
<1> DEFINE Taken == (boots /\ ~boots') \/ (\E s \in Systems : file[s] # "missing" /\ file'[s] = "missing")
<1>1. ASSUME TypeOK, VersionInv, [Next]_vars PROVE [Taken => failed \/ pc' = "upgraded"]_vars
  <2>1. CASE RmDir
    <3>1. ~failed => ~mounted
      BY <1>1, <2>1 DEF RmDir, VersionInv, MountKept
    <3> QED
      BY <2>1, <3>1 DEF RmDir
  <2>2. CASE Upgrade
    BY <2>2 DEF Upgrade
  <2>3. CASE OpenOwn \/ SaveOwn
    BY <1>1, <2>3, SocVersionAssumption DEF OpenOwn, SaveOwn, TypeOK, Systems
  <2>4. CASE UNCHANGED <<file, boots>>
    BY <2>4
  <2>5. ASSUME UpdateVersion \/ BootCommand \/ WriteReg \/ WriteLastReg \/ WriteFails \/ MkDir
        PROVE  UNCHANGED <<file, boots>>
    BY <2>5 DEF UpdateVersion, BootCommand, WriteReg, WriteLastReg, WriteFails, MkDir, disk
  <2>6. ASSUME NEW cold \in BOOLEAN,
               Mount \/ InitI2c \/ OpenPeer \/ Umount \/ Reset(cold) \/ UNCHANGED vars
        PROVE  UNCHANGED <<file, boots>>
    BY <2>6 DEF Mount, InitI2c, OpenPeer, Umount, Reset, disk, vars
  <2> QED
    BY <1>1, <2>1, <2>2, <2>3, <2>4, <2>5, <2>6 DEF Next, Program
<1> QED
  BY VersionsInductive, <1>1, PTL DEF Spec, PartitionKept

-----------------------------------------------------------------------------
(* The machines of MCSoftware: the versions and the tools behave in it as  *)
(* they do alone, so that what is proved of them alone holds there.        *)
ToolsAlone == INSTANCE MaintTools_proofs WITH mounted <- maint, pc <- at, faults <- failures

LEMMA SameTools ==
  /\ Tools!Init => ToolsAlone!Init
  /\ Tools!Next => ToolsAlone!Next
  /\ toolVars' = toolVars => ToolsAlone!vars' = ToolsAlone!vars
  /\ Tools!ToolsAssumption => ToolsAlone!ToolsAssumption
<1>1. Tools!Init => ToolsAlone!Init
  BY DEF Tools!Init, Tools!Tools, Tools!Kinds, ToolsAlone!Init, ToolsAlone!Tools,
         ToolsAlone!Kinds
<1>2. Tools!Next => ToolsAlone!Next
  BY Zenon
     DEF Tools!Next, Tools!Go, Tools!Busy, Tools!UmountDevpart, Tools!Start,
         Tools!MountUmounts, Tools!MountMounts, Tools!Copy, Tools!Copied, Tools!Save,
         Tools!OpenArgs, Tools!WriteArgs, Tools!End, Tools!Reset, Tools!Tools, Tools!Kinds,
         Tools!Arguments, Tools!disk, ToolsAlone!Next, ToolsAlone!Go, ToolsAlone!Busy,
         ToolsAlone!UmountDevpart, ToolsAlone!Start, ToolsAlone!MountUmounts,
         ToolsAlone!MountMounts, ToolsAlone!Copy, ToolsAlone!Copied, ToolsAlone!Save,
         ToolsAlone!OpenArgs, ToolsAlone!WriteArgs, ToolsAlone!End, ToolsAlone!Reset,
         ToolsAlone!Tools, ToolsAlone!Kinds, ToolsAlone!Arguments, ToolsAlone!disk
<1>3. toolVars' = toolVars => ToolsAlone!vars' = ToolsAlone!vars
  BY DEF toolVars, ToolsAlone!vars, ToolsAlone!disk
<1>4. Tools!ToolsAssumption => ToolsAlone!ToolsAssumption
  BY DEF Tools!ToolsAssumption, ToolsAlone!ToolsAssumption
<1> QED
  BY <1>1, <1>2, <1>3, <1>4

(* None of the machines disturbs another. *)
THEOREM SoftwareIsBoth == SoftwareSpec => Spec /\ ToolsAlone!Spec
<1>1. SoftwareInit => Init /\ ToolsAlone!Init
  BY SameTools DEF SoftwareInit, VersionRests
<1>2. [SoftwareNext]_<<unit, vars, encodingVars, toolVars>>
        => [Next]_vars /\ [ToolsAlone!Next]_ToolsAlone!vars
  BY SameTools DEF SoftwareNext, Encoded
<1> QED
  BY <1>1, <1>2, PTL DEF SoftwareSpec, Spec, ToolsAlone!Spec

(* What upgrade_soc reports as staged is on partition 2, and the kernel    *)
(* arguments are those of one update-cmdline, whatever else runs.          *)
THEOREM StagedStays == SoftwareSpec => []StagedThere
<1>1. ToolsAlone!ToolsAssumption
  BY SoftwareAssumption, SameTools
<1>2. ToolsAlone!Spec => []ToolsAlone!StagedThere
  BY <1>1, ToolsAlone!StagedIsThere
<1>3. ToolsAlone!StagedThere => StagedThere
  BY DEF StagedThere, Tools!StagedThere, ToolsAlone!StagedThere
<1> QED
  BY <1>2, <1>3, SoftwareIsBoth, PTL

THEOREM ArgsStay == SoftwareSpec => []ArgsWhole
<1>1. ToolsAlone!ToolsAssumption
  BY SoftwareAssumption, SameTools
<1>2. ToolsAlone!Spec => []ToolsAlone!ArgsWhole
  BY <1>1, ToolsAlone!ArgsAreWhole
<1>3. ToolsAlone!ArgsWhole => ArgsWhole
  BY DEF ArgsWhole, Tools!ArgsWhole, ToolsAlone!ArgsWhole
<1> QED
  BY <1>2, <1>3, SoftwareIsBoth, PTL

-----------------------------------------------------------------------------
(* The encoding of a version, in the machine that MCSoftware runs. *)

Push(res, c) == (res * 10 + c) % 256

(* The value of a field after each of its first three characters. *)
Steps(str) ==
  [k \in 0 .. Len(str) |->
     CASE k = 0 -> 0
       [] k = 1 -> Push(0, str[1])
       [] k = 2 -> Push(Push(0, str[1]), str[2])
       [] OTHER -> Push(Push(Push(0, str[1]), str[2]), str[3])]

(* The recursive function of Value, unfolded. *)
LEMMA ValueIs ==
  ASSUME NEW str \in Seq(Int), Len(str) <= 3
  PROVE  Encoding!Value(str) = Steps(str)[Len(str)]
<1> DEFINE Is(f) == f = [k \in 0 .. Len(str) |-> IF k = 0 THEN 0 ELSE (f[k - 1] * 10 + str[k]) % 256]
<1>1. Is(Steps(str))
  <2>1. \A k \in 0 .. Len(str) :
          Steps(str)[k] = IF k = 0 THEN 0 ELSE (Steps(str)[k - 1] * 10 + str[k]) % 256
    <3> TAKE k \in 0 .. Len(str)
    <3>1. k \in 0 .. 3
      OBVIOUS
    <3>2. CASE k = 0
      BY <3>2 DEF Steps
    <3>3. CASE k = 1
      BY <3>3 DEF Steps, Push
    <3>4. CASE k = 2
      BY <3>4 DEF Steps, Push
    <3>5. CASE k = 3
      BY <3>5 DEF Steps, Push
    <3> QED
      BY <3>1, <3>2, <3>3, <3>4, <3>5
  <2>2. Steps(str) = [k \in 0 .. Len(str) |-> Steps(str)[k]]
    BY DEF Steps
  <2> QED
    BY <2>1, <2>2
<1>2. Is(CHOOSE f : Is(f))
  BY <1>1, ZenonT(60)
<1>3. ASSUME NEW f, Is(f) PROVE f = Steps(str)
  <2>1. \A k \in 0 .. Len(str) : f[k] = IF k = 0 THEN 0 ELSE (f[k - 1] * 10 + str[k]) % 256
    BY <1>3
  <2>2. f[0] = 0
    BY <2>1
  <2>3. Len(str) >= 1 => f[1] = Push(0, str[1])
    BY <2>1, <2>2 DEF Push
  <2>4. Len(str) >= 2 => f[2] = Push(Push(0, str[1]), str[2])
    BY <2>1, <2>3 DEF Push
  <2>5. Len(str) >= 3 => f[3] = Push(Push(Push(0, str[1]), str[2]), str[3])
    BY <2>1, <2>4 DEF Push
  <2>6. \A k \in 0 .. Len(str) : f[k] = Steps(str)[k]
    BY <2>2, <2>3, <2>4, <2>5 DEF Steps
  <2>7. f = [k \in 0 .. Len(str) |-> f[k]]
    BY <1>3
  <2> QED
    BY <2>6, <2>7 DEF Steps
<1>4. Encoding!Value(str) = (CHOOSE f : Is(f))[Len(str)]
  BY DEF Encoding!Value
<1> QED
  BY <1>2, <1>3, <1>4

LEMMA One ==
  ASSUME NEW str \in Seq(Int), Len(str) = 1
  PROVE  Encoding!Value(str) = Push(0, str[1])
<1>1. Len(str) <= 3
  OBVIOUS
<1>2. Steps(str)[1] = Push(0, str[1])
  BY DEF Steps
<1> QED
  BY <1>1, <1>2, ValueIs

LEMMA Two ==
  ASSUME NEW str \in Seq(Int), Len(str) = 2
  PROVE  Encoding!Value(str) = Push(Push(0, str[1]), str[2])
<1>1. Len(str) <= 3
  OBVIOUS
<1>2. Steps(str)[2] = Push(Push(0, str[1]), str[2])
  BY DEF Steps
<1> QED
  BY <1>1, <1>2, ValueIs

LEMMA Three ==
  ASSUME NEW str \in Seq(Int), Len(str) = 3
  PROVE  Encoding!Value(str) = Push(Push(Push(0, str[1]), str[2]), str[3])
<1>1. Len(str) <= 3
  OBVIOUS
<1>2. Steps(str)[3] = Push(Push(Push(0, str[1]), str[2]), str[3])
  BY DEF Steps
<1> QED
  BY <1>1, <1>2, ValueIs

(* Nothing overflows before the last digit. *)
LEMMA Small ==
  ASSUME NEW a \in 0 .. 9, NEW b \in 0 .. 9, NEW c \in 0 .. 9
  PROVE  /\ Push(0, a) = a
         /\ Push(a, b) = a * 10 + b
         /\ Push(a * 10 + b, c) = (a * 100 + b * 10 + c) % 256
  BY DEF Push

LEMMA Digits ==
  ASSUME NEW m \in Nat
  PROVE  /\ m = (m \div 10) * 10 + (m % 10)
         /\ m \div 10 \in Nat /\ m % 10 \in 0 .. 9
         /\ m < 1000 => m \div 10 < 100
         /\ m < 100 => m \div 10 < 10 /\ (m \div 10) % 10 = m \div 10
         /\ m \div 1 = m
         /\ m \div 100 = (m \div 10) \div 10
         /\ m < 1000 => (m \div 100) % 10 = m \div 100 /\ m \div 100 \in 0 .. 9
  OBVIOUS

(* A number told is what eight bits can tell of it. *)
LEMMA DecimalTold ==
  ASSUME NEW m \in Nat
  PROVE  /\ Encoding!Decimal(m) \in Seq(Int) /\ Encoding!Decimal(m) # << >>
         /\ Encoding!strtouint8(Encoding!Decimal(m)) = Encoding!Told(m)
<1> DEFINE h == Encoding!Digit(m, 100)
           t == Encoding!Digit(m, 10)
           u == Encoding!Digit(m, 1)
<1>0. /\ h \in 0 .. 9 /\ t \in 0 .. 9 /\ u \in 0 .. 9
      /\ m < 1000 => m = h * 100 + t * 10 + u
      /\ m < 100 => h = 0
      /\ m < 10 => t = 0
  <2>1. m \div 10 \in Nat /\ (m \div 10) \div 10 \in Nat
    BY Digits
  <2>2. m < 1000 => m \div 100 = h
    BY Digits DEF Encoding!Digit
  <2>3. m \div 10 = ((m \div 10) \div 10) * 10 + t
    BY <2>1, Digits DEF Encoding!Digit
  <2>4. m = (m \div 10) * 10 + u
    BY Digits DEF Encoding!Digit
  <2> QED
    BY <2>1, <2>2, <2>3, <2>4, Digits DEF Encoding!Digit
<1>1. CASE m < 10
  <2>1. Encoding!Decimal(m) = <<m>>
    BY <1>1 DEF Encoding!Decimal
  <2>2. Encoding!Value(<<m>>) = Push(0, m)
    <3>1. <<m>> \in Seq(Int) /\ Len(<<m>>) = 1 /\ <<m>>[1] = m
      OBVIOUS
    <3> QED
      BY <3>1, One
  <2> QED
    BY <1>1, <2>1, <2>2 DEF Encoding!strtouint8, Encoding!Told, Push
<1>2. CASE m >= 10 /\ m < 100
  <2>1. Encoding!Decimal(m) = <<t, u>>
    <3>1. ~(m < 10) /\ m < 100
      BY <1>2
    <3> QED
      BY <3>1, SMT DEF Encoding!Decimal
  <2>2. Encoding!Value(<<t, u>>) = Push(Push(0, t), u)
    <3> DEFINE s == <<t, u>>
    <3>1. s \in Seq(Int) /\ Len(s) = 2 /\ s[1] = t /\ s[2] = u
      BY <1>0
    <3> HIDE DEF s
    <3>2. Encoding!Value(s) = Push(Push(0, s[1]), s[2])
      BY <3>1, Two
    <3> QED
      BY <3>1, <3>2 DEF s
  <2>3. Push(Push(0, t), u) = m % 256
    BY <1>0, <1>2, Small
  <2> QED
    BY <1>0, <1>2, <2>1, <2>2, <2>3 DEF Encoding!strtouint8, Encoding!Told
<1>3. CASE m >= 100 /\ m < 1000
  <2>1. Encoding!Decimal(m) = <<h, t, u>>
    <3>1. ~(m < 10) /\ ~(m < 100) /\ m < 1000
      BY <1>3
    <3> QED
      BY <3>1, SMT DEF Encoding!Decimal
  <2>2. Encoding!Value(<<h, t, u>>) = Push(Push(Push(0, h), t), u)
    <3> DEFINE s == <<h, t, u>>
    <3>1. s \in Seq(Int) /\ Len(s) = 3 /\ s[1] = h /\ s[2] = t /\ s[3] = u
      BY <1>0
    <3> HIDE DEF s
    <3>2. Encoding!Value(s) = Push(Push(Push(0, s[1]), s[2]), s[3])
      BY <3>1, Three
    <3> QED
      BY <3>1, <3>2 DEF s
  <2>3. Push(Push(Push(0, h), t), u) = m % 256
    <3>1. Push(Push(0, h), t) = h * 10 + t
      BY <1>0, Small
    <3>2. h \in 0 .. 9 /\ t \in 0 .. 9 /\ u \in 0 .. 9 /\ m = h * 100 + t * 10 + u
      BY <1>0, <1>3
    <3> HIDE DEF h, t, u
    <3>3. Push(h * 10 + t, u) = (h * 100 + t * 10 + u) % 256
      BY <3>2 DEF Push
    <3> QED
      BY <3>1, <3>2, <3>3
  <2> QED
    BY <1>0, <1>3, <2>1, <2>2, <2>3 DEF Encoding!strtouint8, Encoding!Told
<1>4. CASE m >= 1000
  <2>1. Encoding!Decimal(m) = <<Encoding!Digit(m, 1000), h, t, u>>
    <3>1. ~(m < 10) /\ ~(m < 100) /\ ~(m < 1000)
      BY <1>4
    <3> QED
      BY <3>1, SMT DEF Encoding!Decimal
  <2>2. Encoding!Digit(m, 1000) \in Int
    BY DEF Encoding!Digit
  <2> QED
    BY <1>0, <1>4, <2>1, <2>2 DEF Encoding!strtouint8, Encoding!Told
<1> QED
  BY <1>1, <1>2, <1>3, <1>4

(* Whatever a field holds, a byte is stored for it. *)
LEMMA StoresByte ==
  ASSUME NEW str \in Seq(Int)
  PROVE  Encoding!strtouint8(str) \in 0 .. 255
<1> DEFINE l == Len(str)
<1>1. \A res, c \in Int : Push(res, c) \in Int /\ Push(res, c) \in 0 .. 255
  BY DEF Push
<1>2. l \in Nat
  OBVIOUS
<1>3. \A k \in 1 .. l : str[k] \in Int
  OBVIOUS
<1>4. l > 3 => Encoding!strtouint8(str) = 0
  BY DEF Encoding!strtouint8
<1>5. l = 0 => Encoding!strtouint8(str) = 0
  <2>1. l = 0 => l <= 3 /\ Steps(str)[0] = 0
    BY DEF Steps
  <2> QED
    BY <2>1, ValueIs DEF Encoding!strtouint8
<1>6. l = 1 => Encoding!strtouint8(str) = Push(0, str[1])
  BY One DEF Encoding!strtouint8
<1>7. l = 2 => Encoding!strtouint8(str) = Push(Push(0, str[1]), str[2])
  BY Two DEF Encoding!strtouint8
<1>8. l = 3 => Encoding!strtouint8(str) = Push(Push(Push(0, str[1]), str[2]), str[3])
  BY Three DEF Encoding!strtouint8
<1> HIDE DEF l
<1>9. l >= 1 => Push(0, str[1]) \in Int /\ Push(0, str[1]) \in 0 .. 255
  <2>1. 0 \in Int /\ (l >= 1 => str[1] \in Int)
    BY <1>2, <1>3
  <2> QED
    BY <1>1, <2>1
<1>10. l >= 2 => Push(Push(0, str[1]), str[2]) \in Int /\ Push(Push(0, str[1]), str[2]) \in 0 .. 255
  <2>1. l >= 2 => l >= 1 /\ str[2] \in Int
    BY <1>2, <1>3
  <2> QED
    BY <1>1, <1>9, <2>1
<1>11. l >= 3 => Push(Push(Push(0, str[1]), str[2]), str[3]) \in 0 .. 255
  <2>1. l >= 3 => l >= 2 /\ str[3] \in Int
    BY <1>2, <1>3
  <2> QED
    BY <1>1, <1>10, <2>1
<1>12. l = 0 \/ l = 1 \/ l = 2 \/ l = 3 \/ l > 3
  BY <1>2
<1>13. l = 0 \/ l > 3 => Encoding!strtouint8(str) \in 0 .. 255
  BY <1>4, <1>5
<1>14. l = 1 => l >= 1
  OBVIOUS
<1>15. l = 2 => l >= 2
  OBVIOUS
<1>16. l = 3 => l >= 3
  OBVIOUS
<1> QED
  BY <1>6, <1>7, <1>8, <1>9, <1>10, <1>11, <1>12, <1>13, <1>14, <1>15, <1>16, ZenonT(60)

(* A field has a character. *)
Field == Seq(Int) \ {<< >>}

Names == Seq(Field)

(* The number of fields of a name. *)
Size(d) == IF d.tag = "none" THEN 2 ELSE IF d.commits = 0 THEN 4
           ELSE IF d.tag = "lightweight" THEN 5 ELSE 6

(* Names put together. *)
LEMMA ConcatOf ==
  ASSUME NEW s \in Names, NEW t \in Names
  PROVE  /\ s \o t \in Names /\ Len(s \o t) = Len(s) + Len(t)
         /\ \A k \in 1 .. Len(s) : (s \o t)[k] = s[k]
         /\ \A k \in 1 .. Len(t) : (s \o t)[Len(s) + k] = t[k]
  BY DEF Names

(* The flag of a dirty tree, one digit. *)
LEMMA FlagTold ==
  ASSUME NEW flag \in {0, 1}
  PROVE  Encoding!strtouint8(<<flag>>) = flag
<1> DEFINE s == <<flag>>
<1>1. s \in Seq(Int) /\ Len(s) = 1 /\ s[1] = flag
  OBVIOUS
<1> HIDE DEF s
<1>2. Encoding!strtouint8(s) = Push(0, flag)
  BY <1>1, One DEF Encoding!strtouint8
<1> QED
  BY <1>2 DEF Push, s

LEMMA DescribedNumbers ==
  ASSUME NEW d \in Encoding!Describe, Encoding!EncodingAssumption, d.tag # "none"
  PROVE  /\ d.tag \in {"lightweight", "annotated"}
         /\ \A k \in 1 .. 3 : d.number[k] \in Nat
         /\ d.commits \in Nat
<1>1. d \in [tag: {"lightweight", "annotated"}, number: Numbers \X Numbers \X Numbers,
             commits: {0} \cup Distances, dirty: {0, 1}]
  BY DEF Encoding!Describe
<1>2. Numbers \subseteq Nat /\ Distances \subseteq Nat
  BY DEF Encoding!EncodingAssumption
<1>3. d.tag \in {"lightweight", "annotated"}
  BY <1>1
<1>4. d.number \in Numbers \X Numbers \X Numbers
  BY <1>1
<1>5. d.commits \in {0} \cup Distances
  BY <1>1
<1>6. d.number \in Nat \X Nat \X Nat
  BY <1>2, <1>4
<1>7. d.commits \in Nat
  <2>1. 0 \in Nat
    OBVIOUS
  <2> QED
    BY <1>2, <1>5, <2>1, Zenon
<1> QED
  BY <1>3, <1>6, <1>7

(* The fields of what the encoders are given, one by one. *)
LEMMA BuildFields ==
  ASSUME NEW d \in Encoding!Describe, Encoding!EncodingAssumption
  PROVE  LET b == Encoding!Build(d) IN
         /\ b \in Names /\ Len(b) = Size(d) - 1
         /\ d.tag # "none" => \A k \in 1 .. 3 : b[k] = Encoding!Decimal(d.number[k])
         /\ d.tag # "none" /\ d.commits # 0 => b[4] = Encoding!Decimal(d.commits)
<1> DEFINE three == [k \in 1 .. 3 |-> Encoding!Decimal(d.number[k])]
           fourth == <<Encoding!Decimal(d.commits)>>
           fifth == <<Encoding!Decimal(d.commits), <<55>> \o Encoding!Hash>>
<1>1. Encoding!Hash \in Field /\ <<55>> \o Encoding!Hash \in Field
  BY DEF Encoding!Hash, Field
<1>2. CASE d.tag = "none"
  <2>1. Encoding!Build(d) = <<Encoding!Hash>>
    BY <1>2 DEF Encoding!Build
  <2> QED
    BY <1>1, <1>2, <2>1 DEF Size, Names
<1>3. CASE d.tag # "none"
  <2>1. d.tag \in {"lightweight", "annotated"} /\ d.commits \in Nat
    BY <1>3, DescribedNumbers
  <2>2. \A k \in 1 .. 3 : d.number[k] \in Nat
    BY <1>3, DescribedNumbers
  <2>3. \A k \in 1 .. 3 : Encoding!Decimal(d.number[k]) \in Field
    BY <2>2, DecimalTold DEF Field
  <2>4. Encoding!Decimal(d.commits) \in Field
    BY <2>1, DecimalTold DEF Field
  <2>5. three \in Names /\ Len(three) = 3
    BY <2>3 DEF Names
  <2>6. fourth \in Names /\ Len(fourth) = 1 /\ fourth[1] = Encoding!Decimal(d.commits)
    BY <2>4 DEF Names
  <2>7. fifth \in Names /\ Len(fifth) = 2 /\ fifth[1] = Encoding!Decimal(d.commits)
    BY <1>1, <2>4 DEF Names
  <2>8. \A k \in 1 .. 3 : three[k] = Encoding!Decimal(d.number[k])
    OBVIOUS
  <2>9. CASE d.commits = 0
    <3>1. Encoding!Build(d) = three
      BY <1>3, <2>9 DEF Encoding!Build
    <3> QED
      BY <1>3, <2>5, <2>8, <2>9, <3>1 DEF Size
  <2>10. CASE d.commits # 0 /\ d.tag = "lightweight"
    <3>1. Encoding!Build(d) = three \o fourth
      BY <2>10 DEF Encoding!Build
    <3> HIDE DEF three, fourth
    <3>2. /\ three \o fourth \in Names /\ Len(three \o fourth) = 3 + 1
          /\ \A k \in 1 .. 3 : (three \o fourth)[k] = three[k]
          /\ \A k \in 1 .. 1 : (three \o fourth)[3 + k] = fourth[k]
      <4>1. /\ three \o fourth \in Names /\ Len(three \o fourth) = Len(three) + Len(fourth)
            /\ \A k \in 1 .. Len(three) : (three \o fourth)[k] = three[k]
            /\ \A k \in 1 .. Len(fourth) : (three \o fourth)[Len(three) + k] = fourth[k]
        BY <2>5, <2>6, ConcatOf, Zenon
      <4> QED
        BY <2>5, <2>6, <4>1, Zenon
    <3>3. (three \o fourth)[4] = fourth[1]
      <4>1. 3 + 1 = 4 /\ 1 \in 1 .. 1
        OBVIOUS
      <4>2. (three \o fourth)[3 + 1] = fourth[1]
        BY <3>2, <4>1, Zenon
      <4> QED
        BY <4>1, <4>2, Zenon
    <3>4. Size(d) - 1 = 3 + 1
      BY <1>3, <2>10 DEF Size
    <3>5. \A k \in 1 .. 3 : (three \o fourth)[k] = Encoding!Decimal(d.number[k])
      BY <2>8, <3>2, Zenon
    <3> QED
      BY <2>6, <3>1, <3>2, <3>3, <3>4, <3>5, Zenon
  <2>11. CASE d.commits # 0 /\ d.tag = "annotated"
    <3>1. Encoding!Build(d) = three \o fifth
      BY <2>11 DEF Encoding!Build
    <3> HIDE DEF three, fifth
    <3>2. /\ three \o fifth \in Names /\ Len(three \o fifth) = 3 + 2
          /\ \A k \in 1 .. 3 : (three \o fifth)[k] = three[k]
          /\ \A k \in 1 .. 2 : (three \o fifth)[3 + k] = fifth[k]
      <4>1. /\ three \o fifth \in Names /\ Len(three \o fifth) = Len(three) + Len(fifth)
            /\ \A k \in 1 .. Len(three) : (three \o fifth)[k] = three[k]
            /\ \A k \in 1 .. Len(fifth) : (three \o fifth)[Len(three) + k] = fifth[k]
        BY <2>5, <2>7, ConcatOf, Zenon
      <4> QED
        BY <2>5, <2>7, <4>1, Zenon
    <3>3. (three \o fifth)[4] = fifth[1]
      <4>1. 3 + 1 = 4 /\ 1 \in 1 .. 2
        OBVIOUS
      <4>2. (three \o fifth)[3 + 1] = fifth[1]
        BY <3>2, <4>1, Zenon
      <4> QED
        BY <4>1, <4>2, Zenon
    <3>4. Size(d) - 1 = 3 + 2
      BY <1>3, <2>11 DEF Size
    <3>5. \A k \in 1 .. 3 : (three \o fifth)[k] = Encoding!Decimal(d.number[k])
      BY <2>8, <3>2, Zenon
    <3> QED
      BY <2>7, <3>1, <3>2, <3>3, <3>4, <3>5, Zenon
  <2> QED
    BY <2>1, <2>9, <2>10, <2>11
<1> QED
  BY <1>2, <1>3

LEMMA SdkFields ==
  ASSUME NEW d \in Encoding!Describe, Encoding!EncodingAssumption
  PROVE  LET sdk == Encoding!SdkVersion(d) IN
         /\ sdk \in Names /\ Len(sdk) = Size(d)
         /\ d.tag # "none" => \A k \in 1 .. 3 : sdk[k] = Encoding!Decimal(d.number[k])
         /\ d.tag # "none" /\ d.commits # 0 => sdk[4] = Encoding!Decimal(d.commits)
         /\ sdk[Size(d)] = <<d.dirty>> /\ d.dirty \in {0, 1}
<1> DEFINE b == Encoding!Build(d)
<1>1. /\ b \in Names /\ Len(b) = Size(d) - 1
      /\ d.tag # "none" => \A k \in 1 .. 3 : b[k] = Encoding!Decimal(d.number[k])
      /\ d.tag # "none" /\ d.commits # 0 => b[4] = Encoding!Decimal(d.commits)
  BY BuildFields
<1>2. d.dirty \in {0, 1} /\ <<d.dirty>> \in Field
  BY DEF Encoding!Describe, Field
<1>3. Encoding!SdkVersion(d) = Append(b, <<d.dirty>>)
  BY DEF Encoding!SdkVersion
<1>4. /\ Size(d) \in Nat /\ Size(d) >= 2
      /\ d.tag # "none" => Size(d) >= 4
      /\ d.tag # "none" /\ d.commits # 0 => Size(d) >= 5
  BY DEF Size
<1> HIDE DEF b
<1> QED
  BY <1>1, <1>2, <1>3, <1>4 DEF Names

LEMMA UBootFields ==
  ASSUME NEW d \in Encoding!Describe, Encoding!EncodingAssumption
  PROVE  LET sdk == Encoding!SdkVersion(d)
             name == Encoding!UBootVersion(d) IN
         /\ name \in Names /\ Len(name) = Size(d) + 2
         /\ \A k \in 1 .. Size(d) - 1 : name[k + 2] = sdk[k]
         /\ name[Size(d) + 2] = sdk[Size(d)] \o Encoding!Ending
<1> DEFINE sdk == Encoding!SdkVersion(d)
           start == <<Encoding!Hash, <<1, 0>>>>
           last == sdk[Size(d)] \o Encoding!Ending
           front == SubSeq(sdk, 1, Size(d) - 1)
<1>1. sdk \in Names /\ Len(sdk) = Size(d) /\ Size(d) \in Nat /\ Size(d) >= 2
  BY SdkFields DEF Size
<1>2. sdk[Size(d)] \in Field /\ Encoding!Hash \in Field /\ <<1, 0>> \in Field
  BY <1>1 DEF Names, Encoding!Hash, Field
<1>3. start \in Names /\ Len(start) = 2
  BY <1>2 DEF Names
<1>4. last \in Field
  <2>1. Encoding!Ending \in Seq(Int)
    BY DEF Encoding!Ending, Encoding!Hash
  <2> QED
    BY <1>2, <2>1 DEF Field
<1>5. Encoding!UBootVersion(d) = start \o front \o <<last>>
  BY <1>1 DEF Encoding!UBootVersion, Encoding!Front, Encoding!Last
<1> HIDE DEF sdk, start, last
<1>6. front \in Names /\ Len(front) = Size(d) - 1 /\ \A k \in 1 .. Size(d) - 1 : front[k] = sdk[k]
  BY <1>1 DEF Names
<1> HIDE DEF front
<1>7. /\ start \o front \in Names /\ Len(start \o front) = Size(d) + 1
      /\ \A k \in 1 .. Size(d) - 1 : (start \o front)[k + 2] = front[k]
  <2>1. Size(d) - 1 \in Nat /\ 2 \in Nat /\ 2 + (Size(d) - 1) = Size(d) + 1
        /\ \A k \in 1 .. Size(d) - 1 : 2 + k = k + 2
    BY <1>1
  <2>2. /\ start \o front \in Names /\ Len(start \o front) = 2 + (Size(d) - 1)
        /\ \A k \in 1 .. Size(d) - 1 : (start \o front)[2 + k] = front[k]
    <3> DEFINE l == Size(d) - 1
    <3>1. 2 \in Nat /\ l \in Nat
      BY <2>1
    <3>2. front \in Names /\ Len(front) = l
      BY <1>6
    <3> HIDE DEF l
    <3>3. /\ start \o front \in Names /\ Len(start \o front) = 2 + l
          /\ \A k \in 1 .. 2 : (start \o front)[k] = start[k]
          /\ \A k \in 1 .. l : (start \o front)[2 + k] = front[k]
      <4>1. /\ start \o front \in Names /\ Len(start \o front) = Len(start) + Len(front)
            /\ \A k \in 1 .. Len(start) : (start \o front)[k] = start[k]
            /\ \A k \in 1 .. Len(front) : (start \o front)[Len(start) + k] = front[k]
        BY <1>3, <3>2, ConcatOf, Zenon
      <4> QED
        BY <1>3, <3>2, <4>1, Zenon
    <3> QED
      BY <3>3 DEF l
  <2> QED
    BY <2>1, <2>2, Zenon
<1>8. <<last>> \in Names /\ Len(<<last>>) = 1 /\ <<last>>[1] = last
  BY <1>4 DEF Names
<1> DEFINE s == start \o front
           t == <<last>>
<1>9. /\ s \o t \in Names /\ Len(s \o t) = (Size(d) + 1) + 1
      /\ \A k \in 1 .. Size(d) + 1 : (s \o t)[k] = s[k]
      /\ \A k \in 1 .. 1 : (s \o t)[(Size(d) + 1) + k] = t[k]
  <2>1. /\ s \o t \in Names /\ Len(s \o t) = Len(s) + Len(t)
        /\ \A k \in 1 .. Len(s) : (s \o t)[k] = s[k]
        /\ \A k \in 1 .. Len(t) : (s \o t)[Len(s) + k] = t[k]
    BY <1>7, <1>8, ConcatOf, Zenon
  <2> QED
    BY <1>7, <1>8, <2>1, Zenon
<1>10. (Size(d) + 1) + 1 = Size(d) + 2 /\ 1 \in 1 .. 1
  BY <1>1
<1>11. (s \o t)[Size(d) + 2] = last
  BY <1>8, <1>9, <1>10, Zenon
<1>12. \A k \in 1 .. Size(d) - 1 : (s \o t)[k + 2] = sdk[k]
  <2> TAKE k \in 1 .. Size(d) - 1
  <2>1. k + 2 \in 1 .. Size(d) + 1
    BY <1>1
  <2>2. (s \o t)[k + 2] = s[k + 2]
    BY <1>9, <2>1, Zenon
  <2> QED
    BY <1>6, <1>7, <2>2, Zenon
<1> QED
  BY <1>5, <1>9, <1>10, <1>11, <1>12, Zenon DEF sdk, last

(* What the encoder that runs is given, how many fields of it are none of  *)
(* the name, and how many it has read. *)
All == IF encoder = "u-boot" THEN Encoding!UBootVersion(describe) ELSE Encoding!SdkVersion(describe)
Skipped == IF encoder = "u-boot" THEN 2 ELSE 0
HasRead == Len(All) - Len(fields)

(* Where both encoders store the fields of the name, what they should     *)
(* store there, and what is stored once c fields have been read.           *)
ByteOf(k) == IF k = 5 THEN 7 ELSE 2 * (k - 1)

Right(k, v) ==
  /\ v \in 0 .. 255
  /\ describe.tag # "none" =>
       /\ k \in 1 .. 3 => v = Encoding!Told(describe.number[k])
       /\ k = 4 /\ describe.commits # 0 => v = Encoding!Told(describe.commits)
       /\ k = 5 /\ describe.commits # 0 /\ describe.tag = "lightweight" => v = describe.dirty

Stored(c, b) ==
  /\ b \in [0 .. 7 -> 0 .. 255]
  /\ describe.tag # "none" =>
       /\ \A k \in 1 .. 3 : b[2 * k - 1] = 0
       /\ \A k \in 1 .. 3 : k <= c => b[2 * (k - 1)] = Encoding!Told(describe.number[k])
       /\ c >= 4 /\ describe.commits # 0 => b[6] = Encoding!Told(describe.commits)
       /\ c >= 5 /\ describe.commits # 0 /\ describe.tag = "lightweight" => b[7] = describe.dirty

(* The fields have bytes of their own. *)
LEMMA StoreField ==
  ASSUME NEW b, NEW v, NEW k \in 1 .. 5, Stored(k - 1, b), Right(k, v)
  PROVE  Stored(k, [b EXCEPT ![ByteOf(k)] = v])
<1> DEFINE new == [b EXCEPT ![ByteOf(k)] = v]
<1>1. ByteOf(k) \in 0 .. 7 /\ v \in 0 .. 255 /\ b \in [0 .. 7 -> 0 .. 255]
  BY DEF ByteOf, Right, Stored
<1>2. /\ new \in [0 .. 7 -> 0 .. 255] /\ new[ByteOf(k)] = v
      /\ \A j \in 0 .. 7 : j # ByteOf(k) => new[j] = b[j]
  BY <1>1
<1> HIDE DEF new
<1> SUFFICES ASSUME describe.tag # "none" PROVE Stored(k, new)
  BY <1>2 DEF Stored, new
<1>3. \A j \in 1 .. 3 : new[2 * j - 1] = 0
  <2> TAKE j \in 1 .. 3
  <2>1. 2 * j - 1 \in 0 .. 7 /\ 2 * j - 1 # ByteOf(k)
    BY DEF ByteOf
  <2> QED
    BY <1>2, <2>1 DEF Stored
<1>4. ASSUME NEW j \in 1 .. 3, j <= k PROVE new[2 * (j - 1)] = Encoding!Told(describe.number[j])
  <2>1. CASE j = k
    <3>1. ByteOf(k) = 2 * (j - 1)
      BY <2>1 DEF ByteOf
    <3> QED
      BY <1>2, <2>1, <3>1 DEF Right
  <2>2. CASE j # k
    <3>1. 2 * (j - 1) \in 0 .. 7 /\ 2 * (j - 1) # ByteOf(k) /\ j <= k - 1
      BY <1>4, <2>2 DEF ByteOf
    <3> QED
      BY <1>2, <3>1 DEF Stored
  <2> QED
    BY <2>1, <2>2
<1>5. k >= 4 /\ describe.commits # 0 => new[6] = Encoding!Told(describe.commits)
  <2>1. CASE k = 4
    BY <1>2, <2>1 DEF Right, ByteOf
  <2>2. CASE k = 5
    BY <1>2, <2>2 DEF Stored, ByteOf
  <2> QED
    BY <2>1, <2>2
<1>6. k >= 5 /\ describe.commits # 0 /\ describe.tag = "lightweight" => new[7] = describe.dirty
  BY <1>2 DEF Right, ByteOf
<1> QED
  BY <1>2, <1>3, <1>4, <1>5, <1>6 DEF Stored

LEMMA TakeField ==
  ASSUME NEW all \in Names, NEW rest \in Names, rest # << >>, Len(rest) <= Len(all),
         \A k \in 1 .. Len(rest) : rest[k] = all[Len(all) - Len(rest) + k]
  PROVE  /\ Tail(rest) \in Names /\ Len(Tail(rest)) = Len(rest) - 1
         /\ Head(rest) = all[Len(all) - Len(rest) + 1]
         /\ Len(all) - Len(rest) + 1 \in 1 .. Len(all)
         /\ \A k \in 1 .. Len(Tail(rest)) :
              Tail(rest)[k] = all[Len(all) - Len(Tail(rest)) + k]
<1>1. Len(rest) \in Nat /\ Len(rest) > 0 /\ Len(all) \in Nat
  BY DEF Names
<1>2. Tail(rest) \in Names /\ Len(Tail(rest)) = Len(rest) - 1
  BY <1>1 DEF Names
<1>3. Head(rest) = rest[1]
  BY <1>1 DEF Names
<1>4. \A k \in 1 .. Len(rest) - 1 : Tail(rest)[k] = rest[k + 1]
  BY <1>1 DEF Names
<1>5. \A k \in 1 .. Len(rest) - 1 : rest[k + 1] = all[Len(all) - (Len(rest) - 1) + k]
  <2> TAKE k \in 1 .. Len(rest) - 1
  <2>1. k + 1 \in 1 .. Len(rest)
    BY <1>1
  <2>2. Len(all) - Len(rest) + (k + 1) = Len(all) - (Len(rest) - 1) + k
    BY <1>1
  <2> QED
    BY <2>1, <2>2
<1>6. 1 \in 1 .. Len(rest)
  BY <1>1
<1>7. Len(all) - Len(rest) + 1 \in 1 .. Len(all)
  BY <1>1
<1> QED
  BY <1>2, <1>3, <1>4, <1>5, <1>6, <1>7

(* Both encoders find the right byte in a field of what they are given.   *)
LEMMA FieldTold ==
  ASSUME describe \in Encoding!Describe, Encoding!EncodingAssumption,
         NEW k \in 1 .. 5, k <= Size(describe)
  PROVE  Right(k, Encoding!strtouint8(Encoding!SdkVersion(describe)[k]))
<1> DEFINE sdk == Encoding!SdkVersion(describe)
<1>1. /\ sdk \in Names /\ Len(sdk) = Size(describe)
      /\ describe.tag # "none" => \A j \in 1 .. 3 : sdk[j] = Encoding!Decimal(describe.number[j])
      /\ describe.tag # "none" /\ describe.commits # 0 => sdk[4] = Encoding!Decimal(describe.commits)
      /\ sdk[Size(describe)] = <<describe.dirty>> /\ describe.dirty \in {0, 1}
  BY SdkFields
<1> HIDE DEF sdk
<1>2. sdk[k] \in Seq(Int)
  BY <1>1 DEF Names, Field
<1>3. Encoding!strtouint8(sdk[k]) \in 0 .. 255
  BY <1>2, StoresByte
<1>4. ASSUME describe.tag # "none", k \in 1 .. 3
      PROVE  Encoding!strtouint8(sdk[k]) = Encoding!Told(describe.number[k])
  <2>1. describe.number[k] \in Nat
    BY <1>4, DescribedNumbers
  <2> QED
    BY <1>1, <1>4, <2>1, DecimalTold
<1>5. ASSUME describe.tag # "none", k = 4, describe.commits # 0
      PROVE  Encoding!strtouint8(sdk[k]) = Encoding!Told(describe.commits)
  <2>1. describe.commits \in Nat
    BY <1>5, DescribedNumbers
  <2> QED
    BY <1>1, <1>5, <2>1, DecimalTold
<1>6. ASSUME describe.tag = "lightweight", k = 5, describe.commits # 0
      PROVE  Encoding!strtouint8(sdk[k]) = describe.dirty
  <2>1. sdk[k] = <<describe.dirty>>
    BY <1>1, <1>6 DEF Size
  <2> QED
    BY <1>1, <2>1, FlagTold
<1> QED
  BY <1>3, <1>4, <1>5, <1>6 DEF Right, sdk

LEMMA UBootFieldTold ==
  ASSUME describe \in Encoding!Describe, Encoding!EncodingAssumption,
         NEW k \in 1 .. 5, k <= Size(describe)
  PROVE  LET name == Encoding!UBootVersion(describe)
         IN Right(k, Encoding!strtouint8(IF k = 5 THEN <<Head(name[k + 2])>> ELSE name[k + 2]))
<1> DEFINE sdk == Encoding!SdkVersion(describe)
           name == Encoding!UBootVersion(describe)
           size == Size(describe)
<1>1. /\ name \in Names /\ Len(name) = size + 2
      /\ \A j \in 1 .. size - 1 : name[j + 2] = sdk[j]
      /\ name[size + 2] = sdk[size] \o Encoding!Ending
  BY UBootFields
<1>2. sdk[size] = <<describe.dirty>> /\ describe.dirty \in {0, 1}
  BY SdkFields
<1>3. Right(k, Encoding!strtouint8(sdk[k]))
  BY FieldTold
<1>4. size \in Nat
  BY DEF Size
<1> HIDE DEF sdk, name
<1>5. name[k + 2] \in Seq(Int) /\ name[k + 2] # << >>
  <2>1. k + 2 \in 1 .. Len(name)
    BY <1>1, <1>4
  <2> QED
    BY <1>1, <2>1 DEF Names, Field
<1>6. CASE k # 5 /\ k < size
  BY <1>1, <1>3, <1>4, <1>6 DEF name
<1>7. CASE k # 5 /\ k = size
  <2>1. describe.tag = "none" \/ describe.commits = 0
    BY <1>7 DEF Size
  <2>2. Encoding!strtouint8(name[k + 2]) \in 0 .. 255
    BY <1>5, StoresByte
  <2>3. describe.tag # "none" => k = 4
    BY <1>7, <2>1 DEF Size
  <2> QED
    BY <1>7, <2>1, <2>2, <2>3 DEF Right, name
<1>8. CASE k = 5
  <2>1. <<Head(name[k + 2])>> \in Seq(Int)
    BY <1>5
  <2>2. Encoding!strtouint8(<<Head(name[k + 2])>>) \in 0 .. 255
    BY <2>1, StoresByte
  <2>3. ASSUME describe.tag = "lightweight", describe.commits # 0
        PROVE  Encoding!strtouint8(<<Head(name[k + 2])>>) = describe.dirty
    <3>1. size = 5
      BY <2>3 DEF Size
    <3>2. name[k + 2] = <<describe.dirty>> \o Encoding!Ending
      BY <1>1, <1>2, <1>8, <3>1
    <3>3. Encoding!Ending \in Seq(Int)
      BY DEF Encoding!Ending, Encoding!Hash
    <3>4. Head(<<describe.dirty>> \o Encoding!Ending) = describe.dirty
      BY <1>2, <3>3
    <3> QED
      BY <1>2, <3>2, <3>4, FlagTold
  <2> QED
    BY <1>8, <2>2, <2>3 DEF Right, name
<1> QED
  BY <1>4, <1>6, <1>7, <1>8

(* The encoder has read a first part of its name, and knows how far it is: *)
(* its place follows from the number of fields read.                       *)
LeftOver ==
  /\ fields \in Names /\ Len(fields) <= Len(All)
  /\ \A k \in 1 .. Len(fields) : fields[k] = All[Len(All) - Len(fields) + k]

Placed ==
  place = IF encoder = "u-boot" THEN HasRead
          ELSE IF HasRead <= 3 THEN 2 * HasRead ELSE 2 * HasRead - 1

EncodingInv ==
  /\ describe \in Encoding!Describe /\ encoder \in {"soc_version", "u-boot"}
  /\ outside \in BOOLEAN
  /\ LeftOver /\ Placed
  /\ Stored(HasRead - Skipped, bytes)
  /\ outside => describe.tag = "annotated" /\ describe.commits # 0

LEMMA AllFields ==
  ASSUME describe \in Encoding!Describe, Encoding!EncodingAssumption
  PROVE  All \in Names /\ Len(All) = Size(describe) + Skipped /\ Size(describe) \in 2 .. 6
<1>1. Size(describe) \in 2 .. 6
  BY DEF Size
<1>2. CASE encoder = "u-boot"
  BY <1>1, <1>2, UBootFields DEF All, Skipped
<1>3. CASE encoder # "u-boot"
  BY <1>1, <1>3, SdkFields DEF All, Skipped
<1> QED
  BY <1>2, <1>3

LEMMA EncodingInit == Encoding!Init => EncodingInv
<1> SUFFICES ASSUME Encoding!Init PROVE EncodingInv
  OBVIOUS
<1>1. describe \in Encoding!Describe /\ Encoding!EncodingAssumption
  BY SoftwareAssumption DEF Encoding!Init
<1>2. All \in Names /\ Len(All) \in Nat
  BY <1>1, AllFields DEF Names
<1>3. fields = All /\ encoder \in {"soc_version", "u-boot"}
  BY DEF Encoding!Init, All
<1>4. HasRead = 0 /\ LeftOver
  BY <1>2, <1>3 DEF HasRead, LeftOver
<1>5. place = 0 /\ bytes = [k \in 0 .. 7 |-> 0] /\ outside = FALSE
  BY DEF Encoding!Init
<1>6. Placed
  BY <1>4, <1>5 DEF Placed
<1>7. Stored(HasRead - Skipped, bytes)
  <2>1. HasRead - Skipped <= 0 /\ HasRead - Skipped \in Int
    BY <1>4 DEF Skipped
  <2>2. bytes \in [0 .. 7 -> 0 .. 255] /\ \A k \in 0 .. 7 : bytes[k] = 0
    BY <1>5
  <2> QED
    BY <2>1, <2>2 DEF Stored
<1> QED
  BY <1>1, <1>3, <1>4, <1>5, <1>6, <1>7 DEF EncodingInv

(* What reading a field does to what is left. *)
LEMMA ReadingOn ==
  ASSUME EncodingInv, fields # << >>, fields' = Tail(fields), UNCHANGED <<describe, encoder>>
  PROVE  /\ LeftOver' /\ HasRead' = HasRead + 1 /\ HasRead \in Nat
         /\ HasRead + 1 <= Size(describe) + Skipped
         /\ Head(fields) = All[HasRead + 1]
         /\ All' = All /\ Skipped' = Skipped
<1>1. /\ All \in Names /\ Len(All) = Size(describe) + Skipped /\ Size(describe) \in 2 .. 6
      /\ Len(All) \in Nat
  BY SoftwareAssumption, AllFields DEF EncodingInv, Names
<1>2. All' = All /\ Skipped' = Skipped
  BY DEF All, Skipped
<1>3. /\ Tail(fields) \in Names /\ Len(Tail(fields)) = Len(fields) - 1
      /\ Head(fields) = All[Len(All) - Len(fields) + 1]
      /\ Len(All) - Len(fields) + 1 \in 1 .. Len(All)
      /\ \A k \in 1 .. Len(Tail(fields)) :
           Tail(fields)[k] = All[Len(All) - Len(Tail(fields)) + k]
  BY <1>1, TakeField DEF EncodingInv, LeftOver
<1>4. Len(fields) \in Nat /\ Len(fields) <= Len(All)
  BY DEF EncodingInv, LeftOver, Names
<1>5. LeftOver'
  <2>1. fields' \in Names /\ Len(fields') <= Len(All')
    BY <1>1, <1>2, <1>3, <1>4
  <2>2. \A k \in 1 .. Len(fields') : fields'[k] = All'[Len(All') - Len(fields') + k]
    BY <1>2, <1>3
  <2> QED
    BY <2>1, <2>2 DEF LeftOver
<1> QED
  BY <1>1, <1>2, <1>3, <1>4, <1>5 DEF HasRead

(* A field that is not stored leaves the bytes as they should be. *)
LEMMA StoredLater ==
  ASSUME NEW c \in Int, NEW b, Stored(c, b), c < 0 \/ c >= 5
  PROVE  Stored(c + 1, b)
  BY DEF Stored

LEMMA EncodeFieldStep == EncodingInv /\ Encoding!EncodeField => EncodingInv'
<1> SUFFICES ASSUME EncodingInv, Encoding!EncodeField PROVE EncodingInv'
  OBVIOUS
<1> DEFINE k == HasRead + 1
           new == IF place \in DOMAIN bytes
                    THEN [bytes EXCEPT ![place] = Encoding!strtouint8(Head(fields))] ELSE bytes
<1>1. /\ encoder = "soc_version" /\ fields # << >> /\ fields' = Tail(fields)
      /\ place' = Encoding!NextPlace(place) /\ UNCHANGED <<describe, encoder>>
      /\ bytes' = new
      /\ outside' = (outside \/ place \notin DOMAIN bytes)
  BY DEF Encoding!EncodeField, EncodingInv
<1>2. /\ LeftOver' /\ HasRead' = HasRead + 1 /\ HasRead \in Nat
      /\ HasRead + 1 <= Size(describe) + Skipped
      /\ Head(fields) = All[HasRead + 1]
      /\ All' = All /\ Skipped' = Skipped
  BY <1>1, ReadingOn
<1>3. All = Encoding!SdkVersion(describe) /\ Skipped = 0
  BY <1>1 DEF All, Skipped
<1>4. Size(describe) \in 2 .. 6 /\ (Size(describe) = 6 => describe.tag = "annotated" /\ describe.commits # 0)
  <2>1. describe.tag \in {"none", "lightweight", "annotated"}
    BY DEF EncodingInv, Encoding!Describe
  <2> QED
    BY <2>1 DEF Size
<1>5. place = IF HasRead <= 3 THEN 2 * HasRead ELSE 2 * HasRead - 1
  BY <1>1 DEF EncodingInv, Placed
<1>6. Placed'
  BY <1>1, <1>2, <1>3, <1>4, <1>5 DEF Placed, Encoding!NextPlace
<1>7. DOMAIN bytes = 0 .. 7 /\ Stored(k - 1, bytes)
  BY <1>2, <1>3 DEF EncodingInv, Stored
<1>8. Stored(k, new) /\ (outside' => describe.tag = "annotated" /\ describe.commits # 0)
  <2>1. CASE k <= 5
    <3>1. place = ByteOf(k) /\ place \in 0 .. 7 /\ k \in 1 .. 5
      BY <1>2, <1>5, <2>1 DEF ByteOf
    <3>2. Right(k, Encoding!strtouint8(All[k]))
      <4>1. k <= Size(describe)
        BY <1>2, <1>3, <1>4
      <4> QED
        BY <1>3, <3>1, <4>1, SoftwareAssumption, FieldTold DEF EncodingInv
    <3>3. Stored(k, [bytes EXCEPT ![ByteOf(k)] = Encoding!strtouint8(All[k])])
      BY <1>7, <3>1, <3>2, StoreField
    <3>4. outside' = outside
      BY <1>1, <1>7, <3>1 DEF EncodingInv
    <3> QED
      BY <1>2, <1>7, <3>1, <3>3, <3>4 DEF EncodingInv
  <2>2. CASE k > 5
    <3>1. k = 6 /\ place = 9
      BY <1>2, <1>3, <1>4, <1>5, <2>2
    <3>2. Stored((k - 1) + 1, bytes)
      BY <1>7, <3>1, StoredLater
    <3>3. describe.tag = "annotated" /\ describe.commits # 0
      BY <1>2, <1>3, <1>4, <3>1
    <3> QED
      BY <1>7, <3>1, <3>2, <3>3
  <2> QED
    BY <1>2, <2>1, <2>2
<1> HIDE DEF k, new
<1>9. Stored(HasRead - Skipped, bytes)'
  <2>1. HasRead' - Skipped' = k
    BY <1>2, <1>3 DEF k
  <2> QED
    BY <1>1, <1>8, <2>1 DEF Stored
<1> QED
  BY <1>1, <1>2, <1>6, <1>8, <1>9 DEF EncodingInv

LEMMA EncodeUBootFieldStep == EncodingInv /\ Encoding!EncodeUBootField => EncodingInv'
<1> SUFFICES ASSUME EncodingInv, Encoding!EncodeUBootField PROVE EncodingInv'
  OBVIOUS
<1> DEFINE k == HasRead - 1
           v == Encoding!strtouint8(Encoding!UBootField(place))
           new == IF place \in 2 .. 6 THEN [bytes EXCEPT ![Encoding!UBootPlace(place)] = v] ELSE bytes
<1>1. /\ encoder = "u-boot" /\ fields # << >> /\ fields' = Tail(fields)
      /\ place' = place + 1 /\ UNCHANGED <<describe, encoder, outside>>
      /\ bytes' = new
  BY DEF Encoding!EncodeUBootField
<1>2. /\ LeftOver' /\ HasRead' = HasRead + 1 /\ HasRead \in Nat
      /\ HasRead + 1 <= Size(describe) + Skipped
      /\ Head(fields) = All[HasRead + 1]
      /\ All' = All /\ Skipped' = Skipped
  BY <1>1, ReadingOn
<1>3. All = Encoding!UBootVersion(describe) /\ Skipped = 2
  BY <1>1 DEF All, Skipped
<1>4. place = HasRead
  BY <1>1 DEF EncodingInv, Placed
<1>5. Placed'
  BY <1>1, <1>2, <1>4 DEF Placed
<1>6. Stored(k - 1, bytes)
  <2>1. HasRead - Skipped = k - 1
    BY <1>2, <1>3
  <2> QED
    BY <2>1 DEF EncodingInv
<1>7. Stored(k, new)
  <2>1. CASE k \in 1 .. 5
    <3>1. place \in 2 .. 6 /\ Encoding!UBootPlace(place) = ByteOf(k) /\ k + 2 = HasRead + 1
      BY <1>2, <1>4, <2>1 DEF ByteOf, Encoding!UBootPlace
    <3>2. Encoding!UBootField(place) = IF k = 5 THEN <<Head(All[k + 2])>> ELSE All[k + 2]
      BY <1>2, <1>4, <3>1 DEF Encoding!UBootField
    <3>3. k <= Size(describe)
      <4>1. Size(describe) \in Nat
        BY DEF Size
      <4> QED
        BY <1>2, <1>3, <4>1
    <3>4. Right(k, v)
      BY <1>3, <2>1, <3>2, <3>3, SoftwareAssumption, UBootFieldTold DEF EncodingInv
    <3>5. Stored(k, [bytes EXCEPT ![ByteOf(k)] = v])
      BY <1>6, <2>1, <3>4, StoreField
    <3> QED
      BY <3>1, <3>5
  <2>2. CASE k \notin 1 .. 5
    <3>1. place \notin 2 .. 6 /\ k - 1 \in Int /\ (k - 1 < 0 \/ k - 1 >= 5)
      BY <1>2, <1>4, <2>2
    <3>2. Stored((k - 1) + 1, bytes)
      BY <1>6, <3>1, StoredLater
    <3> QED
      BY <1>2, <3>1, <3>2
  <2> QED
    BY <2>1, <2>2
<1> HIDE DEF k, new
<1>8. Stored(HasRead - Skipped, bytes)'
  <2>1. HasRead' - Skipped' = k
    BY <1>2, <1>3 DEF k
  <2> QED
    BY <1>1, <1>7, <2>1 DEF Stored
<1> QED
  BY <1>1, <1>2, <1>5, <1>8 DEF EncodingInv

LEMMA EncodingRested ==
  EncodingInv /\ encodingVars' = encodingVars => EncodingInv'
  BY SMTT(30) DEF EncodingInv, encodingVars, LeftOver, Placed, Stored, HasRead, Skipped, All, Right

LEMMA EncodingTells == EncodingInv => Encoding!NumbersTold
<1> SUFFICES ASSUME EncodingInv PROVE Encoding!NumbersTold
  OBVIOUS
<1> SUFFICES ASSUME Encoding!Done, describe.tag # "none"
             PROVE  /\ \A k \in 1 .. 3 : /\ bytes[2 * (k - 1)] = Encoding!Told(describe.number[k])
                                        /\ bytes[2 * k - 1] = 0
                    /\ describe.commits # 0 => bytes[6] = Encoding!Told(describe.commits)
                    /\ describe.commits # 0 /\ describe.tag = "lightweight" => bytes[7] = describe.dirty
  BY DEF EncodingInv, Encoding!NumbersTold
<1>1. Len(All) = Size(describe) + Skipped /\ Size(describe) \in 2 .. 6
  BY SoftwareAssumption, AllFields DEF EncodingInv
<1>2. HasRead - Skipped = Size(describe)
  BY <1>1 DEF Encoding!Done, HasRead, Skipped
<1>3. Size(describe) >= 4 /\ (describe.commits # 0 => Size(describe) >= 5)
  BY DEF Size
<1> QED
  BY <1>1, <1>2, <1>3 DEF EncodingInv, Stored

LEMMA EncodingKept == SoftwareSpec => [](unit = "encoding" => EncodingInv)
<1> DEFINE Inv == unit = "encoding" => EncodingInv
<1>1. SoftwareInit => Inv
  BY EncodingInit DEF SoftwareInit
<1>2. Inv /\ [SoftwareNext]_<<unit, vars, encodingVars, toolVars>> => Inv'
  <2> SUFFICES ASSUME Inv, [SoftwareNext]_<<unit, vars, encodingVars, toolVars>>, unit' = "encoding"
               PROVE  EncodingInv'
    OBVIOUS
  <2>1. EncodingInv
    BY DEF SoftwareNext
  <2>2. CASE Encoding!Next
    BY <2>1, <2>2, EncodeFieldStep, EncodeUBootFieldStep DEF Encoding!Next
  <2>3. CASE encodingVars' = encodingVars
    BY <2>1, <2>3, EncodingRested
  <2>4. Encoding!Next \/ encodingVars' = encodingVars
    BY DEF SoftwareNext, Encoded
  <2> QED
    BY <2>2, <2>3, <2>4
<1> QED
  BY <1>1, <1>2, PTL DEF SoftwareSpec

(* While a version is encoded, the variables of VersionEncoding keep their *)
(* ranges: every byte of version_val is one, whatever the fields hold.     *)
THEOREM EncodingTyped == SoftwareSpec => [](unit = "encoding" => Encoding!TypeOK)
<1>1. ASSUME EncodingInv PROVE Encoding!TypeOK
  <2>1. fields \in Seq(Seq(Int))
    BY <1>1 DEF EncodingInv, LeftOver, Names, Field
  <2>2. HasRead \in Nat
    <3>1. All \in Names /\ fields \in Names /\ Len(fields) <= Len(All)
      BY <1>1, SoftwareAssumption, AllFields DEF EncodingInv, LeftOver
    <3> QED
      BY <3>1 DEF HasRead, Names
  <2>3. place \in Nat
    BY <1>1, <2>2 DEF EncodingInv, Placed
  <2> QED
    BY <1>1, <2>1, <2>3 DEF EncodingInv, Stored, Encoding!TypeOK
<1> QED
  BY <1>1, EncodingKept, PTL

(* However the commit is described and whatever its numbers, soc_version   *)
(* and U-Boot tell the same of it in the same bytes, and neither stores a  *)
(* byte past the eight but after an annotated tag.                         *)
THEOREM NumbersAreTold == SoftwareSpec => []NumbersTold
<1>1. (unit = "encoding" => EncodingInv) => NumbersTold
  BY EncodingTells DEF NumbersTold
<1> QED
  BY <1>1, EncodingKept, PTL
=============================================================================
