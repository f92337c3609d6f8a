------------------------ MODULE UpgradeCycle_proofs ------------------------
(* That the maintenance file is a journal: proofs about UpgradeCycle. *)
EXTENDS UpgradeCycle, TLAPS

USE MediaAssumption, StagingAssumption, CycleAssumption

LEMMA Updates ==
  ASSUME p2 \in Partition2
  PROVE  /\ \A b \in Boots :
              /\ [p2 EXCEPT !.boot = b] \in Partition2
              /\ [p2 EXCEPT !.boot = b].boot = b
              /\ [p2 EXCEPT !.boot = b].rootfs = p2.rootfs
              /\ [p2 EXCEPT !.boot = b].mfile = p2.mfile
              /\ [p2 EXCEPT !.boot = b].staged = p2.staged
         /\ \A a \in Archives :
              /\ [p2 EXCEPT !.rootfs = a] \in Partition2
              /\ [p2 EXCEPT !.rootfs = a].boot = p2.boot
              /\ [p2 EXCEPT !.rootfs = a].rootfs = a
              /\ [p2 EXCEPT !.rootfs = a].mfile = p2.mfile
              /\ [p2 EXCEPT !.rootfs = a].staged = p2.staged
         /\ \A j \in Jobs :
              /\ [p2 EXCEPT !.mfile = j] \in Partition2
              /\ [p2 EXCEPT !.mfile = j].boot = p2.boot
              /\ [p2 EXCEPT !.mfile = j].rootfs = p2.rootfs
              /\ [p2 EXCEPT !.mfile = j].mfile = j
              /\ [p2 EXCEPT !.mfile = j].staged = p2.staged
         /\ \A kind \in Kinds, image \in Images \cup {"none"} :
              /\ [p2 EXCEPT !.staged[kind] = image] \in Partition2
              /\ [p2 EXCEPT !.staged[kind] = image].boot = p2.boot
              /\ [p2 EXCEPT !.staged[kind] = image].rootfs = p2.rootfs
              /\ [p2 EXCEPT !.staged[kind] = image].mfile = p2.mfile
              /\ [p2 EXCEPT !.staged[kind] = image].staged = [p2.staged EXCEPT ![kind] = image]
BY DEF Partition2

LEMMA Restaged ==
  ASSUME p2 \in Partition2, NEW kind, NEW image, p2' = [p2 EXCEPT !.staged[kind] = image]
  PROVE  /\ p2'.boot = p2.boot /\ p2'.rootfs = p2.rootfs /\ p2'.mfile = p2.mfile
         /\ p2'.staged = [p2.staged EXCEPT ![kind] = image]
BY DEF Partition2

LEMMA BootChanged ==
  ASSUME p2 \in Partition2, NEW b, p2' = [p2 EXCEPT !.boot = b]
  PROVE  p2'.boot = b /\ p2'.rootfs = p2.rootfs /\ p2'.mfile = p2.mfile /\ p2'.staged = p2.staged
BY DEF Partition2

LEMMA RootfsChanged ==
  ASSUME p2 \in Partition2, NEW a, p2' = [p2 EXCEPT !.rootfs = a]
  PROVE  p2'.boot = p2.boot /\ p2'.rootfs = a /\ p2'.mfile = p2.mfile /\ p2'.staged = p2.staged
BY DEF Partition2

LEMMA JobChanged ==
  ASSUME p2 \in Partition2, NEW j, p2' = [p2 EXCEPT !.mfile = j]
  PROVE  p2'.boot = p2.boot /\ p2'.rootfs = p2.rootfs /\ p2'.mfile = j /\ p2'.staged = p2.staged
BY DEF Partition2

LEMMA RestagedAll ==
  ASSUME p2 \in Partition2
  PROVE  \A kind, image : p2' = [p2 EXCEPT !.staged[kind] = image] =>
           p2'.boot = p2.boot /\ p2'.rootfs = p2.rootfs /\ p2'.mfile = p2.mfile
BY Restaged

LEMMA Taken ==
  ASSUME p2 \in Partition2, NEW kind \in {"rootfs", "xspi", "tgz"}
  PROVE  [p2 EXCEPT !.staged[kind] = "none"] \in Partition2
BY Updates DEF Kinds

LEMMA Fields ==
  ASSUME p2 \in Partition2
  PROVE  /\ p2.boot \in Boots /\ p2.rootfs \in Archives /\ p2.mfile \in Jobs
         /\ p2.staged \in [Kinds -> Images \cup {"none"}]
         /\ p2.mfile.rootfs \in {"none", "data", "staged"} /\ p2.mfile.file \in BOOLEAN
BY DEF Partition2, Jobs

LEMMA ArchiveTypes ==
  ASSUME p2 \in Partition2
  PROVE  /\ RootfsOfJob \in Archives /\ p2.rootfs \in Archives
         /\ Archives = {"none", "bad", "old", "new"}
BY Fields DEF Archives, RootfsOfJob, StagedRootfs

LEMMA JobTypes ==
  /\ NoJob \in Jobs /\ NoJob.rootfs = "none" /\ ~NoJob.file
  /\ EmptyJob \in Jobs /\ EmptyJob.rootfs = "none" /\ EmptyJob.file
  /\ InstallerJob \in Jobs /\ InstallerJob.rootfs = "data" /\ InstallerJob.file
BY DEF NoJob, EmptyJob, InstallerJob, Jobs

LEMMA EmptyType ==
  /\ EmptyP2 \in Partition2
  /\ EmptyP2.boot = "none" /\ EmptyP2.rootfs = "none" /\ EmptyP2.mfile = NoJob
  /\ EmptyP2.staged = [kind \in Kinds |-> "none"]
BY JobTypes DEF EmptyP2, Partition2, Boots, Archives

LEMMA Erased ==
  ASSUME p2 \in Partition2, NEW place, EraseP2(place)
  PROVE  \/ /\ p2.boot # "none" /\ p2'.boot = "none"
            /\ p2'.rootfs = p2.rootfs /\ p2'.mfile = p2.mfile /\ p2'.staged = p2.staged
            /\ pc' = pc
         \/ /\ p2.boot = "none" /\ p2'.boot = "none"
            /\ p2'.rootfs = "none" /\ p2'.mfile = NoJob /\ p2'.staged["rootfs"] = "none"
            /\ pc' = place
BY BootChanged, EmptyType DEF EraseP2, Kinds, Goto

LEMMA StagedFor ==
  ASSUME NEW kinds \in SUBSET Kinds, NEW restart \in BOOLEAN
  PROVE  /\ JobOf(kinds, restart) \in Jobs /\ JobOf(kinds, restart).file
         /\ JobOf(kinds, restart).rootfs \in {"none", "staged"}
         /\ JobOf(kinds, restart).rootfs = "staged" => "rootfs" \in kinds
BY DEF JobOf, Jobs

(* upgrade_soc copies the root file system first. *)
LEMMA CurrentIs ==
  ASSUME todo \subseteq Kinds, todo # {}
  PROVE  /\ Current \in todo /\ Current \in Kinds
         /\ "rootfs" \in todo => Current = "rootfs"
<1> DEFINE P(kind) == \/ kind = "rootfs"
                      \/ kind = "xspi" /\ "rootfs" \notin todo
                      \/ todo = {"tgz"}
<1>1. \E kind \in todo : P(kind)
  BY DEF Kinds
<1>2. Current \in todo /\ P(Current)
  BY <1>1 DEF Current
<1>3. QED
  BY <1>2

LEMMA FlashJobs ==
  /\ ~NoJob.xspi /\ ~EmptyJob.xspi /\ ~InstallerJob.xspi
  /\ \A kinds \in SUBSET Kinds, restart \in BOOLEAN :
       JobOf(kinds, restart).file /\ (JobOf(kinds, restart).xspi => "xspi" \in kinds)
BY DEF NoJob, EmptyJob, InstallerJob, JobOf

LEMMA FlashStaged ==
  ASSUME p2 \in Partition2
  PROVE  \A kind \in Kinds : \A image : p2' = [p2 EXCEPT !.staged[kind] = image] =>
           /\ p2'.staged["xspi"] = IF kind = "xspi" THEN image ELSE p2.staged["xspi"]
           /\ p2'.staged["rootfs"] = IF kind = "rootfs" THEN image ELSE p2.staged["rootfs"]
BY Restaged, Fields DEF Kinds

LEMMA TgzTaken ==
  ASSUME p2 \in Partition2, p2' = p2 \/ p2' = [p2 EXCEPT !.staged["tgz"] = "none"]
  PROVE  /\ p2'.boot = p2.boot /\ p2'.rootfs = p2.rootfs /\ p2'.mfile = p2.mfile
         /\ p2'.staged["xspi"] = p2.staged["xspi"]
         /\ p2'.staged["rootfs"] = p2.staged["rootfs"]
<1>1. "tgz" \in Kinds
  BY DEF Kinds
<1>2. QED
  BY <1>1, RestagedAll, FlashStaged

-----------------------------------------------------------------------------
BitsOf == [recovery: BOOLEAN, recovered: BOOLEAN]

LEMMA NoBitsType == NoBits \in BitsOf
BY DEF NoBits, BitsOf

LEMMA BitTypes ==
  /\ \A b \in BOOLEAN : [recovery |-> FALSE, recovered |-> b] \in BitsOf
  /\ \A b \in BitsOf : [b EXCEPT !.recovery = FALSE] \in BitsOf
  /\ \A b \in BitsOf, a \in BOOLEAN : [b EXCEPT !.recovery = @ \/ a] \in BitsOf
BY DEF BitsOf

LEMMA FaultType ==
  ASSUME faults \in 0 .. MaxFaults, Fails
  PROVE  faults' \in 0 .. MaxFaults
BY DEF Fails

LEMMA Partly ==
  /\ OldFlash \in FlashParts
  /\ \A part \in {"uboot", "kernel"}, state \in {"broken", "old", "new"} :
       xspi \in FlashParts => [xspi EXCEPT ![part] = state] \in FlashParts
BY DEF OldFlash, FlashParts

(* Every action of update_maintenance keeps the types. *)
LEMMA UmType ==
  ASSUME TypeOK, Unpacked, JobKept, UmStep \/ UmUser, UNCHANGED <<usVars, resets>>
  PROVE  TypeOK'
<1> USE DEF TypeOK, Goto, Exit, Quiet, Note, mediaVars, umVars, usVars, BitsOf, Kinds, Boots,
    Archives,
        Images, Mishaps, UnpackInto3, MountP3, ErasePart, EraseP2, Return, CallProcess
<1>1. CASE UmUsb \/ UpXspi \/ UpRootfs
  BY <1>1, Partly DEF UmUsb, UpXspi, UpRootfs
<1>2. CASE BtValidate \/ BtRootfs \/ BtXspi
  BY <1>2, Partly DEF BtValidate, BtRootfs, BtXspi
<1>3. CASE UmLocal \/ UmRemote \/ UmAgain
  BY <1>3 DEF UmLocal, UmRemote, UmAgain
<1>4. CASE UmStart
  BY <1>4, FaultType, ZenonT(60) DEF UmStart
<1>5. CASE UmNotMounted
  BY <1>5, JobTypes, NoBitsType DEF UmNotMounted
<1>6. CASE UmScratch
  <2>1. CASE seen' = bits /\ UNCHANGED <<faults, job, tgz>>
    BY <1>6, <2>1 DEF UmScratch
  <2>2. CASE Exit("idle")
    BY <1>6, <2>2, FaultType, JobTypes, NoBitsType DEF UmScratch
  <2>3. QED
    BY <1>6, <2>1, <2>2 DEF UmScratch
<1>7. CASE UpParse
  BY <1>7, Fields, ZenonT(60) DEF UpParse
<1>8. CASE XspiFw
  BY <1>8, FaultType, Partly, ZenonT(60) DEF XspiFw
<1>9. CASE UpXspiRm
  BY <1>9, Updates, ZenonT(60) DEF UpXspiRm
<1>10. CASE UpRootfsWrite
  BY <1>10, ArchiveTypes, FaultType DEF UpRootfsWrite, JobKept
<1>11. CASE UpRootfsRm
  BY <1>11, Updates, ZenonT(60) DEF UpRootfsRm
<1>12. CASE UpTgz
  <2>1. p2' \in Partition2
    BY <1>12, Taken DEF UpTgz
  <2>2. tgz' \in Images \cup {"none"}
    BY <1>12, Fields DEF UpTgz
  <2>3. QED
    BY <1>12, <2>1, <2>2 DEF UpTgz
<1>13. CASE UmFinish
  BY <1>13, Updates, JobTypes, ZenonT(60) DEF UmFinish
<1>14. CASE BtErase
  <2>1. p2' \in Partition2
    BY <1>14, Updates, EmptyType DEF BtErase
  <2>2. QED
    BY <1>14, <2>1 DEF BtErase
<1>15. CASE BtBoot
  <2>1. p2' \in Partition2
    BY <1>15, Updates DEF BtBoot
  <2>2. QED
    BY <1>15, <2>1 DEF BtBoot
<1>16. CASE BtData
  <2>1. p2' \in Partition2
    BY <1>16, Updates DEF BtData
  <2>2. QED
    BY <1>16, <2>1, ZenonT(60) DEF BtData
<1>17. CASE BtMfile
  BY <1>17, Updates, JobTypes, ZenonT(60) DEF BtMfile
<1>18. CASE BtTarFails
  BY <1>18, FaultType DEF BtTarFails
<1>19. CASE BtRootfsWrite
  BY <1>19, ArchiveTypes, FaultType DEF BtRootfsWrite, Unpacked
<1>20. CASE XspiErase \/ XspiWrite
  BY <1>20, FaultType, Partly, ZenonT(60) DEF XspiErase, XspiWrite
<1>21. CASE BtFinish
  BY <1>21, Updates, JobTypes, ZenonT(60) DEF BtFinish
<1>22. CASE LrWrite
  BY <1>22, ArchiveTypes, FaultType DEF LrWrite, Unpacked
<1>23. CASE LrBits
  <2>1. faults' \in 0 .. MaxFaults
    BY <1>23, FaultType DEF LrBits
  <2>2. bits' \in BitsOf
    BY <1>23, BitTypes, ZenonT(60) DEF LrBits
  <2>3. QED
    BY <1>23, <2>1, <2>2 DEF LrBits
<1>24. CASE RrErase
  BY <1>24, Updates, EmptyType, ZenonT(60) DEF RrErase
<1>25. CASE RrBits
  <2>1. faults' \in 0 .. MaxFaults
    BY <1>25, FaultType DEF RrBits
  <2>2. bits' \in BitsOf
    BY <1>25, BitTypes, ZenonT(60) DEF RrBits
  <2>3. QED
    BY <1>25, <2>1, <2>2 DEF RrBits
<1>26. CASE UmEnd
  <2>1. Exit("off") \/ Exit("idle")
    BY <1>26 DEF UmEnd
  <2>2. QED
    BY <1>26, <2>1, JobTypes, NoBitsType DEF UmEnd
<1>27. CASE UmImagePath
  BY <1>27, FaultType, ZenonT(60) DEF UmImagePath
<1>28. QED
  BY <1>1, <1>2, <1>3, <1>4, <1>5, <1>6, <1>7, <1>8, <1>9, <1>10, <1>11, <1>12, <1>13,
     <1>14, <1>15, <1>16, <1>17, <1>18, <1>19, <1>20, <1>21, <1>22, <1>23, <1>24, <1>25,
     <1>26, <1>27
     DEF UmStep, UmUser

(* So does every action of upgrade_soc, *)
LEMMA UsType ==
  ASSUME TypeOK, JobKept, UsStep \/ UsUser, UNCHANGED <<umVars, resets>>
  PROVE  TypeOK'
<1> USE DEF TypeOK, Goto, umVars, usVars, mediaVars
<1>1. CASE UsStart
  <2>1. todo' \subseteq Kinds /\ mfile' \in Jobs
    BY <1>1, StagedFor DEF UsStart
  <2>2. stagings' \in 0 .. MaxStagings
    BY <1>1 DEF UsStart
  <2>3. QED
    BY <1>1, <2>1, <2>2 DEF UsStart
<1>2. CASE UsDisable
  BY <1>2, Updates, JobTypes DEF UsDisable
<1>3. CASE UsCopy
  <2>1. p2' \in Partition2
    <3>1. p2' = p2 \/ p2' = [p2 EXCEPT !.staged[Current] = "invalid"]
      BY <1>3 DEF UsCopy
    <3>2. Current \in Kinds /\ "invalid" \in Images
      BY <1>3, CurrentIs DEF UsCopy, Images
    <3>3. QED
      BY <3>1, <3>2, Updates
  <2>2. todo' \subseteq Kinds /\ mfile' \in Jobs
    BY <1>3, JobTypes DEF UsCopy
  <2>3. QED
    BY <1>3, <2>1, <2>2 DEF UsCopy
<1>4. CASE UsCopied
  <2>1. p2' \in Partition2
    <3>1. Current \in Kinds
      BY <1>4, CurrentIs DEF UsCopied, JobKept
    <3>2. Accepted(Current) \subseteq Images
      BY <3>1 DEF Accepted, Images, Kinds
    <3>3. QED
      BY <1>4, <3>1, <3>2, Updates DEF UsCopied
  <2>2. todo' \subseteq Kinds /\ mfile' \in Jobs
    BY <1>4, JobTypes DEF UsCopied
  <2>3. faults' \in 0 .. MaxFaults
    BY <1>4, FaultType DEF UsCopied
  <2>4. mishaps' \subseteq Mishaps
    BY <1>4 DEF UsCopied, Note, Mishaps
  <2>5. QED
    BY <1>4, <2>1, <2>2, <2>3, <2>4 DEF UsCopied
<1>5. CASE UsSave
  BY <1>5, Updates, JobTypes DEF UsSave
<1>6. CASE UsSaved
  BY <1>6, Updates, JobTypes DEF UsSaved
<1>7. QED
  BY <1>1, <1>2, <1>3, <1>4, <1>5, <1>6 DEF UsStep, UsUser

(* and so do resets and the boots between the programs. *)
LEMMA BootType ==
  ASSUME TypeOK, Boot \/ Reset \/ Reprogram
  PROVE  TypeOK'
<1> USE DEF TypeOK, Goto, Quiet, umVars, usVars, mediaVars
<1>1. CASE Boot
  <2>1. bits' \in BitsOf
    <3>1. \/ bits' = bits \/ bits' = NoBits
          \/ \E asked \in BOOLEAN : bits' = [bits EXCEPT !.recovery = @ \/ asked]
      BY <1>1 DEF Boot
    <3>2. QED
      BY <3>1, BitTypes, NoBitsType DEF BitsOf
  <2>2. mishaps' \subseteq Mishaps
    BY <1>1 DEF Boot, Mishaps
  <2>3. QED
    BY <1>1, <2>1, <2>2 DEF Boot, BitsOf
<1>2. CASE Reset
  <2>1. mishaps' \subseteq Mishaps
    BY <1>2 DEF Reset, CutByReset, Mishaps
  <2>2. resets' \in 0 .. MaxResets
    BY <1>2 DEF Reset
  <2>3. QED
    BY <1>2, <2>1, <2>2, JobTypes, NoBitsType DEF Reset, Exit, BitsOf
<1>3. CASE Reprogram
  BY <1>3, Partly DEF Reprogram
<1>4. QED
  BY <1>1, <1>2, <1>3

(* Each step of an unpacking finds partition 2 as the steps before it left it. *)
LEMMA UnpackedStep ==
  ASSUME TypeOK, Unpacked, JobKept, Next
  PROVE  Unpacked'
<1> USE DEF TypeOK, Unpacked, Unpacking, Flashing, Goto, Exit, Quiet, Note, mediaVars, umVars,
           usVars,
    UnpackInto3,
           MountP3, ErasePart, EraseP2, Return, CallProcess, Fails
<1>1. CASE UmStart
  BY <1>1 DEF UmStart
<1>2. CASE UmNotMounted
  BY <1>2 DEF UmNotMounted
<1>3. CASE UmUsb
  BY <1>3 DEF UmUsb
<1>4. CASE UmScratch
  BY <1>4 DEF UmScratch
<1>5. CASE UpParse
  BY <1>5 DEF UpParse
<1>6. CASE UpXspi
  BY <1>6 DEF UpXspi
<1>7. CASE XspiFw
  BY <1>7 DEF XspiFw
<1>8. CASE UpRootfs
  BY <1>8 DEF UpRootfs
<1>9. CASE UpRootfsWrite
  BY <1>9 DEF UpRootfsWrite
<1>10. CASE BtValidate
  BY <1>10 DEF BtValidate
<1>11. CASE BtTarFails
  BY <1>11 DEF BtTarFails
<1>12. CASE BtRootfs
  BY <1>12 DEF BtRootfs
<1>13. CASE BtXspi
  BY <1>13 DEF BtXspi
<1>14. CASE XspiErase \/ XspiWrite
  <2>1. CASE XspiErase
    BY <2>1 DEF XspiErase
  <2>2. CASE XspiWrite
    BY <2>2 DEF XspiWrite
  <2>3. QED
    BY <1>14, <2>1, <2>2
<1>15. CASE UmLocal
  BY <1>15 DEF UmLocal
<1>16. CASE LrWrite
  BY <1>16 DEF LrWrite
<1>17. CASE LrBits
  BY <1>17 DEF LrBits
<1>18. CASE UmRemote
  BY <1>18 DEF UmRemote
<1>19. CASE RrBits
  BY <1>19 DEF RrBits
<1>20. CASE UmEnd
  BY <1>20 DEF UmEnd
<1>21. CASE UmAgain
  BY <1>21 DEF UmAgain
<1>22. CASE UmImagePath
  BY <1>22 DEF UmImagePath
<1>23. CASE UsStart
  BY <1>23 DEF UsStart
<1>24. CASE Boot
  BY <1>24 DEF Boot
<1>25. CASE Reset
  BY <1>25 DEF Reset
<1>26. CASE Reprogram
  BY <1>26 DEF Reprogram
<1>27. CASE UpXspiRm
  BY <1>27, Taken DEF UpXspiRm
<1>28. CASE UpRootfsRm
  BY <1>28, Updates, EmptyType, JobTypes, Fields DEF UpRootfsRm, Boots, Archives
<1>29. CASE UpTgz
  <2>1. p2'.boot = p2.boot /\ p2'.rootfs = p2.rootfs
    BY <1>29, Restaged DEF UpTgz
  <2>2. QED
    BY <1>29, <2>1 DEF UpTgz
<1>30. CASE UmFinish
  BY <1>30, Updates, EmptyType, JobTypes, Fields DEF UmFinish, Boots, Archives
<1>31. CASE BtErase
  <2>1. CASE p2.boot # "none"
    BY <1>31, <2>1, Updates DEF BtErase, Boots
  <2>2. CASE p2.boot = "none"
    BY <1>31, <2>2, EmptyType DEF BtErase, Kinds
  <2>3. QED
    BY <2>1, <2>2
<1>32. CASE BtBoot
  <2>1. p2'.rootfs = p2.rootfs /\ p2'.staged = p2.staged
    BY <1>32, BootChanged DEF BtBoot
  <2>2. QED
    BY <1>32, <2>1 DEF BtBoot
<1>33. CASE BtData
  <2>1. p2'.boot = p2.boot /\ p2'.rootfs # "old" /\ p2'.staged = p2.staged
    BY <1>33, Updates, ZenonT(60) DEF BtData, Archives
  <2>2. QED
    BY <1>33, <2>1 DEF BtData
<1>34. CASE BtMfile
  BY <1>34, Updates, EmptyType, JobTypes, Fields DEF BtMfile, Boots, Archives
<1>35. CASE BtRootfsWrite
  BY <1>35, ArchiveTypes DEF BtRootfsWrite
<1>36. CASE BtFinish
  BY <1>36, Updates, EmptyType, JobTypes, Fields DEF BtFinish, Boots, Archives
<1>37. CASE RrErase
  BY <1>37, Updates, EmptyType, JobTypes, Fields DEF RrErase, Boots, Archives
<1>38. CASE UsDisable
  BY <1>38, Updates, EmptyType, JobTypes, Fields DEF UsDisable, Boots, Archives
<1>39. CASE UsCopy
  <2>1. p2'.boot = p2.boot /\ p2'.rootfs = p2.rootfs
    BY <1>39, Restaged DEF UsCopy
  <2>2. QED
    BY <1>39, <2>1 DEF UsCopy
<1>40. CASE UsCopied
  <2>1. p2'.boot = p2.boot /\ p2'.rootfs = p2.rootfs
    BY <1>40, Restaged DEF UsCopied
  <2>2. QED
    BY <1>40, <2>1 DEF UsCopied
<1>41. CASE UsSave
  BY <1>41, Updates, EmptyType, JobTypes, Fields DEF UsSave, Boots, Archives
<1>42. CASE UsSaved
  BY <1>42, Updates, EmptyType, JobTypes, Fields DEF UsSaved, Boots, Archives
<1>43. QED
  BY <1>1, <1>2, <1>3, <1>4, <1>5, <1>6, <1>7, <1>8, <1>9, <1>10, <1>11, <1>12, <1>13,
     <1>14, <1>15, <1>16, <1>17, <1>18, <1>19, <1>20, <1>21, <1>22, <1>23, <1>24, <1>25,
     <1>26, <1>27, <1>28, <1>29, <1>30, <1>31, <1>32, <1>33, <1>34, <1>35, <1>36, <1>37,
     <1>38, <1>39, <1>40, <1>41, <1>42
     DEF Next, Program, UmStep, UmUser, UsStep, UsUser

(* The job in memory stays the one of the maintenance file. *)
LEMMA JobStep ==
  ASSUME TypeOK, Unpacked, JobKept, Next
  PROVE  JobKept'
<1> USE DEF TypeOK, JobKept, Goto, Exit, Quiet, Note, mediaVars, umVars, usVars, UnpackInto3,
           MountP3, ErasePart, EraseP2, Return, CallProcess, Fails
<1>1. CASE UmStart
  BY <1>1 DEF UmStart
<1>2. CASE UmNotMounted
  BY <1>2 DEF UmNotMounted
<1>3. CASE UmUsb
  BY <1>3 DEF UmUsb
<1>4. CASE UmScratch
  BY <1>4 DEF UmScratch
<1>5. CASE UpParse
  BY <1>5 DEF UpParse
<1>6. CASE UpXspi
  BY <1>6 DEF UpXspi
<1>7. CASE XspiFw
  BY <1>7 DEF XspiFw
<1>8. CASE UpRootfsWrite
  BY <1>8 DEF UpRootfsWrite
<1>9. CASE BtValidate
  BY <1>9 DEF BtValidate
<1>10. CASE BtTarFails
  BY <1>10 DEF BtTarFails
<1>11. CASE BtRootfs
  BY <1>11 DEF BtRootfs
<1>12. CASE BtRootfsWrite
  BY <1>12 DEF BtRootfsWrite
<1>13. CASE BtXspi
  BY <1>13 DEF BtXspi
<1>14. CASE XspiErase \/ XspiWrite
  BY <1>14 DEF XspiErase, XspiWrite
<1>15. CASE UmLocal
  BY <1>15 DEF UmLocal
<1>16. CASE LrWrite
  BY <1>16 DEF LrWrite
<1>17. CASE LrBits
  BY <1>17 DEF LrBits
<1>18. CASE UmRemote
  BY <1>18 DEF UmRemote
<1>19. CASE RrBits
  BY <1>19 DEF RrBits
<1>20. CASE UmEnd
  BY <1>20 DEF UmEnd
<1>21. CASE UmAgain
  BY <1>21 DEF UmAgain
<1>22. CASE UmImagePath
  BY <1>22 DEF UmImagePath
<1>23. CASE Boot
  BY <1>23 DEF Boot
<1>24. CASE Reset
  BY <1>24 DEF Reset
<1>25. CASE Reprogram
  BY <1>25 DEF Reprogram
<1>26. CASE UpXspiRm
  BY <1>26, Restaged DEF UpXspiRm
<1>27. CASE UpRootfs
  BY <1>27 DEF UpRootfs, RootfsOfJob, StagedRootfs
<1>28. CASE UpRootfsRm
  BY <1>28, Updates, Restaged DEF UpRootfsRm, Archives
<1>29. CASE UpTgz
  BY <1>29, Restaged, ZenonT(60) DEF UpTgz
<1>30. CASE UmFinish
  BY <1>30, Updates, EmptyType, JobTypes, Fields DEF UmFinish, Boots, Archives
<1>31. CASE BtErase
  <2>1. p2'.mfile \in {p2.mfile, NoJob}
    BY <1>31, Updates, EmptyType, ZenonT(60) DEF BtErase, Boots
  <2>2. QED
    BY <1>31, <2>1, JobTypes DEF BtErase
<1>32. CASE BtBoot
  <2>1. p2'.mfile = p2.mfile
    BY <1>32, BootChanged DEF BtBoot
  <2>2. QED
    BY <1>32, <2>1 DEF BtBoot
<1>33. CASE BtData
  <2>1. p2'.mfile = p2.mfile
    BY <1>33, Updates, ZenonT(60) DEF BtData, Boots, Archives
  <2>2. QED
    BY <1>33, <2>1 DEF BtData
<1>34. CASE BtMfile
  BY <1>34, Updates, EmptyType, JobTypes, Fields DEF BtMfile, Boots, Archives
<1>35. CASE BtFinish
  BY <1>35, Updates, EmptyType, JobTypes, Fields, ZenonT(60) DEF BtFinish, Boots, Archives
<1>36. CASE RrErase
  <2>1. p2'.mfile \in {p2.mfile, NoJob}
    BY <1>36, Updates, EmptyType, ZenonT(60) DEF RrErase, Boots
  <2>2. QED
    BY <1>36, <2>1, JobTypes DEF RrErase
<1>37. CASE UsStart
  <2>1. UNCHANGED p2 /\ pc' = "us"
    BY <1>37 DEF UsStart
  <2>2. mfile'.rootfs # "none" => mfile'.file /\ mfile'.rootfs = "staged"
    BY <1>37, StagedFor DEF UsStart
  <2>3. QED
    BY <2>1, <2>2
<1>38. CASE UsDisable
  BY <1>38, Updates, EmptyType, JobTypes, Fields DEF UsDisable, Boots, Archives
<1>39. CASE UsCopy
  BY <1>39, Restaged, ZenonT(60) DEF UsCopy
<1>40. CASE UsCopied
  BY <1>40, Restaged DEF UsCopied
<1>41. CASE UsSave
  BY <1>41, Updates, EmptyType, JobTypes, Fields DEF UsSave, Boots, Archives
<1>42. CASE UsSaved
  BY <1>42, Updates, EmptyType, JobTypes, Fields DEF UsSaved, Boots, Archives
<1>43. QED
  BY <1>1, <1>2, <1>3, <1>4, <1>5, <1>6, <1>7, <1>8, <1>9, <1>10, <1>11, <1>12, <1>13,
     <1>14, <1>15, <1>16, <1>17, <1>18, <1>19, <1>20, <1>21, <1>22, <1>23, <1>24, <1>25,
     <1>26, <1>27, <1>28, <1>29, <1>30, <1>31, <1>32, <1>33, <1>34, <1>35, <1>36, <1>37,
     <1>38, <1>39, <1>40, <1>41, <1>42
     DEF Next, Program, UmStep, UmUser, UsStep, UsUser

(* Only a complete image makes good what has gone wrong. *)
LEMMA MishapsKept ==
  ASSUME TypeOK, Next, ~(BtFinish /\ retval)
  PROVE  mishaps \subseteq mishaps' \cup {"flash", "flash image"}
<1> USE DEF Goto, Exit, Quiet, Note, mediaVars, umVars, usVars, UnpackInto3,
           MountP3, ErasePart, EraseP2, Return, CallProcess, Fails
<1>1. CASE UmStart \/ UmNotMounted
  BY <1>1 DEF UmStart, UmNotMounted
<1>2. CASE UmUsb \/ UmScratch
  BY <1>2 DEF UmUsb, UmScratch
<1>3. CASE UpParse \/ UpXspi
  BY <1>3 DEF UpParse, UpXspi
<1>4. CASE XspiFw \/ UpXspiRm
  BY <1>4 DEF XspiFw, UpXspiRm
<1>5. CASE UpRootfs \/ UpRootfsWrite
  BY <1>5 DEF UpRootfs, UpRootfsWrite
<1>6. CASE UpRootfsRm \/ UpTgz
  BY <1>6 DEF UpRootfsRm, UpTgz
<1>7. CASE UmFinish \/ BtValidate
  BY <1>7 DEF UmFinish, BtValidate
<1>8. CASE BtErase \/ BtBoot
  BY <1>8 DEF BtErase, BtBoot
<1>9. CASE BtData \/ BtMfile
  BY <1>9 DEF BtData, BtMfile
<1>10. CASE BtTarFails \/ BtRootfs
  BY <1>10 DEF BtTarFails, BtRootfs
<1>11. CASE BtRootfsWrite \/ BtXspi
  BY <1>11 DEF BtRootfsWrite, BtXspi
<1>12. CASE XspiErase \/ XspiWrite \/ BtFinish
  BY <1>12 DEF XspiErase, XspiWrite, BtFinish
<1>13. CASE UmLocal \/ LrWrite
  BY <1>13 DEF UmLocal, LrWrite
<1>14. CASE LrBits \/ UmRemote
  BY <1>14 DEF LrBits, UmRemote
<1>15. CASE RrErase \/ RrBits
  BY <1>15 DEF RrErase, RrBits
<1>16. CASE UmEnd \/ UmAgain
  BY <1>16 DEF UmEnd, UmAgain
<1>17. CASE UmImagePath \/ UsStart
  BY <1>17 DEF UmImagePath, UsStart
<1>18. CASE UsDisable \/ UsCopy
  BY <1>18 DEF UsDisable, UsCopy
<1>19. CASE UsCopied \/ UsSave
  BY <1>19 DEF UsCopied, UsSave
<1>20. CASE UsSaved \/ Boot
  BY <1>20 DEF UsSaved, Boot
<1>21. CASE Reset \/ Reprogram
  BY <1>21 DEF Reset, Reprogram
<1>22. QED
  BY <1>1, <1>2, <1>3, <1>4, <1>5, <1>6, <1>7, <1>8, <1>9, <1>10, <1>11, <1>12, <1>13,
     <1>14, <1>15, <1>16, <1>17, <1>18, <1>19, <1>20, <1>21
     DEF Next, Program, UmStep, UmUser, UsStep, UsUser

LEMMA RiskKept ==
  ASSUME TypeOK, Next, ~RootfsAtRisk', ~(BtFinish /\ retval)
  PROVE  ~RootfsAtRisk
BY MishapsKept DEF RootfsAtRisk

(* What a job names stays there and whole, unless a mishap is recorded. *)
LEMMA ArchivesStep ==
  ASSUME TypeOK, Unpacked, JobKept, ArchivesKept, JournalKept, Next, ~RootfsAtRisk',
         ~(BtFinish /\ retval)
  PROVE  ArchivesKept'
<1> USE DEF TypeOK, JobKept, Unpacked, Flashing, ArchivesKept, Goto, Exit, Quiet, Note, mediaVars,
    umVars, usVars, UnpackInto3,
           MountP3, ErasePart, EraseP2, Return, CallProcess, Fails
<1>1. CASE UmStart
  BY <1>1 DEF UmStart
<1>2. CASE UmNotMounted
  BY <1>2 DEF UmNotMounted
<1>3. CASE UmUsb
  BY <1>3 DEF UmUsb
<1>4. CASE UmScratch
  BY <1>4 DEF UmScratch
<1>5. CASE UpParse
  BY <1>5 DEF UpParse
<1>6. CASE UpXspi
  BY <1>6 DEF UpXspi
<1>7. CASE XspiFw
  BY <1>7 DEF XspiFw
<1>8. CASE UpRootfsWrite
  BY <1>8 DEF UpRootfsWrite
<1>9. CASE BtValidate
  BY <1>9 DEF BtValidate
<1>10. CASE BtRootfs
  BY <1>10 DEF BtRootfs
<1>11. CASE BtRootfsWrite
  BY <1>11 DEF BtRootfsWrite, RootfsAtRisk
<1>12. CASE BtXspi
  BY <1>12 DEF BtXspi
<1>13. CASE XspiErase \/ XspiWrite
  BY <1>13 DEF XspiErase, XspiWrite
<1>14. CASE UmLocal
  BY <1>14 DEF UmLocal
<1>15. CASE LrWrite
  BY <1>15 DEF LrWrite
<1>16. CASE LrBits
  BY <1>16 DEF LrBits
<1>17. CASE UmRemote
  BY <1>17 DEF UmRemote
<1>18. CASE RrBits
  BY <1>18 DEF RrBits
<1>19. CASE UmEnd
  BY <1>19 DEF UmEnd
<1>20. CASE UmAgain
  BY <1>20 DEF UmAgain
<1>21. CASE UmImagePath
  BY <1>21 DEF UmImagePath
<1>22. CASE Boot
  BY <1>22 DEF Boot
<1>23. CASE Reprogram
  BY <1>23 DEF Reprogram
<1>24. CASE UpXspiRm
  BY <1>24, Restaged DEF UpXspiRm
<1>25. CASE UpRootfs
  BY <1>25 DEF UpRootfs, RootfsOfJob, StagedRootfs
<1>26. CASE UpRootfsRm
  BY <1>26, Updates, Restaged DEF UpRootfsRm, Archives
<1>27. CASE UpTgz
  <2>1. /\ p2'.rootfs = p2.rootfs /\ p2'.mfile = p2.mfile
        /\ p2'.staged["rootfs"] = p2.staged["rootfs"]
    BY <1>27, Restaged, Fields DEF UpTgz, Kinds
  <2>2. QED
    BY <1>27, <2>1 DEF UpTgz
<1>28. CASE UmFinish
  BY <1>28, Updates, EmptyType, JobTypes, Fields DEF UmFinish, Boots, Archives
<1>29. CASE BtErase
  BY <1>29, Erased, JobTypes DEF BtErase
<1>30. CASE BtBoot
  <2>1. p2'.rootfs = p2.rootfs /\ p2'.mfile = p2.mfile /\ p2'.staged = p2.staged
    BY <1>30, BootChanged DEF BtBoot
  <2>2. QED
    BY <1>30, <2>1 DEF BtBoot
<1>31. CASE BtData
  <2>1. tgz = "whole"
    BY <1>31 DEF BtData, RootfsAtRisk
  <2>2. /\ p2'.mfile = p2.mfile /\ p2'.staged = p2.staged
        /\ p2'.rootfs = IF p2.rootfs = "none" THEN "bad" ELSE "new"
    BY <1>31, <2>1, RootfsChanged DEF BtData
  <2>3. QED
    BY <1>31, <2>1, <2>2 DEF BtData
<1>32. CASE BtMfile
  BY <1>32, Updates, EmptyType, JobTypes, Fields DEF BtMfile, Boots, Archives
<1>33. CASE BtTarFails
  BY <1>33 DEF BtTarFails, RootfsAtRisk
<1>34. CASE BtFinish
  BY <1>34, Updates, EmptyType, JobTypes, Fields DEF BtFinish, Boots, Archives
<1>35. CASE RrErase
  BY <1>35, Erased, JobTypes DEF RrErase
<1>36. CASE UsStart
  BY <1>36, StagedFor DEF UsStart
<1>37. CASE UsDisable
  BY <1>37, Updates, EmptyType, JobTypes, Fields DEF UsDisable, Boots, Archives
<1>38. CASE UsCopy
  <2>1. CASE pc' = "us_copy"
    <3>1. Current \in todo /\ ("rootfs" \in todo => Current = "rootfs")
      BY <1>38, CurrentIs DEF UsCopy
    <3>2. /\ p2'.rootfs = p2.rootfs /\ p2'.mfile = p2.mfile
          /\ Current # "rootfs" => p2'.staged["rootfs"] = p2.staged["rootfs"]
      BY <1>38, <2>1, Restaged, Fields DEF UsCopy, Kinds
    <3>3. QED
      BY <1>38, <2>1, <3>1, <3>2 DEF UsCopy
  <2>2. CASE pc' = "os"
    BY <1>38, <2>2 DEF UsCopy
  <2>3. QED
    BY <1>38, <2>1, <2>2 DEF UsCopy
<1>39. CASE UsCopied
  <2>1. Current \in todo /\ ("rootfs" \in todo => Current = "rootfs")
    BY <1>39, CurrentIs DEF UsCopied
  <2>2. CASE pc' = "us"
    <3>1. PICK image \in Accepted(Current) : p2' = [p2 EXCEPT !.staged[Current] = image]
      BY <1>39, <2>2 DEF UsCopied
    <3>2. /\ p2'.rootfs = p2.rootfs /\ p2'.mfile = p2.mfile
          /\ p2'.staged["rootfs"] = IF Current = "rootfs" THEN image ELSE p2.staged["rootfs"]
      BY <3>1, Restaged, Fields DEF Kinds
    <3>3. Current = "rootfs" => image = "whole"
      BY <3>1 DEF Accepted
    <3>4. QED
      BY <1>39, <2>1, <2>2, <3>2, <3>3 DEF UsCopied
  <2>3. CASE pc' = "os"
    <3>1. ~InUse(Current)
      BY <1>39, <2>3 DEF UsCopied, RootfsAtRisk
    <3>2. QED
      BY <1>39, <2>1, <2>3, <3>1 DEF UsCopied, InUse
  <2>4. QED
    BY <1>39, <2>2, <2>3 DEF UsCopied
<1>40. CASE UsSave
  BY <1>40, Updates, EmptyType, JobTypes, Fields DEF UsSave, Boots, Archives
<1>41. CASE UsSaved
  BY <1>41, Updates, EmptyType, JobTypes, Fields DEF UsSaved, Boots, Archives
<1>42. CASE Reset
  <2>1. pc # "bt_data" /\ ~(pc = "us_copy" /\ InUse(Current))
    BY <1>42 DEF Reset, RootfsAtRisk, CutByReset
  <2>2. pc = "us_copy" /\ "rootfs" \in todo => p2.mfile.rootfs # "staged"
    BY <2>1, CurrentIs DEF InUse
  <2>3. QED
    BY <1>42, <2>1, <2>2 DEF Reset
<1>43. QED
  BY <1>1, <1>2, <1>3, <1>4, <1>5, <1>6, <1>7, <1>8, <1>9, <1>10, <1>11, <1>12, <1>13,
     <1>14, <1>15, <1>16, <1>17, <1>18, <1>19, <1>20, <1>21, <1>22, <1>23, <1>24, <1>25,
     <1>26, <1>27, <1>28, <1>29, <1>30, <1>31, <1>32, <1>33, <1>34, <1>35, <1>36, <1>37,
     <1>38, <1>39, <1>40, <1>41, <1>42
     DEF Next, Program, UmStep, UmUser, UsStep, UsUser

(* While partition 3 is behind, the next boot has a job that restores it. *)
LEMMA JournalStep ==
  ASSUME TypeOK, Unpacked, JobKept, ArchivesKept, JournalKept, Next, ~RootfsAtRisk',
         ~(BtFinish /\ retval)
  PROVE  JournalKept'
<1> USE DEF TypeOK, JobKept, Unpacked, ArchivesKept, JournalKept, Behind, Journaled, Restores,
    Written,
           InOS, HasScript, Goto, Exit, Quiet, Note, mediaVars, umVars, usVars, UnpackInto3,
           MountP3, ErasePart, Return, CallProcess, Fails
<1>1. CASE UmStart
  BY <1>1 DEF UmStart
<1>2. CASE UmNotMounted
  BY <1>2 DEF UmNotMounted
<1>3. CASE UmUsb
  BY <1>3 DEF UmUsb
<1>4. CASE UmScratch
  BY <1>4 DEF UmScratch
<1>5. CASE UpParse
  BY <1>5 DEF UpParse
<1>6. CASE UpXspi
  BY <1>6 DEF UpXspi
<1>7. CASE XspiFw
  BY <1>7 DEF XspiFw
<1>8. CASE BtValidate
  BY <1>8 DEF BtValidate
<1>9. CASE BtXspi
  BY <1>9 DEF BtXspi
<1>10. CASE XspiErase \/ XspiWrite
  BY <1>10 DEF XspiErase, XspiWrite
<1>11. CASE BtFinish
  BY <1>11 DEF BtFinish
<1>12. CASE UmLocal
  BY <1>12 DEF UmLocal
<1>13. CASE LrBits
  BY <1>13 DEF LrBits
<1>14. CASE UmRemote
  BY <1>14 DEF UmRemote
<1>15. CASE RrBits
  BY <1>15 DEF RrBits
<1>16. CASE UmEnd
  BY <1>16 DEF UmEnd
<1>17. CASE UmAgain
  BY <1>17 DEF UmAgain
<1>18. CASE UmImagePath
  BY <1>18 DEF UmImagePath
<1>19. CASE UsStart
  BY <1>19 DEF UsStart
<1>20. CASE Boot
  BY <1>20 DEF Boot, RootfsAtRisk
<1>21. CASE Reprogram
  BY <1>21 DEF Reprogram
<1>22. CASE UpXspiRm
  BY <1>22, Restaged, Fields DEF UpXspiRm, Kinds
<1>23. CASE UpRootfs
  BY <1>23, Fields DEF UpRootfs, RootfsOfJob, StagedRootfs, RootfsAtRisk, Archives
<1>24. CASE UpRootfsWrite
  <2>1. RootfsOfJob \in {"old", "new"} /\ (p2.boot = "new" => RootfsOfJob = "new")
    BY <1>24, Fields DEF UpRootfsWrite, RootfsOfJob, StagedRootfs, Archives
  <2>2. QED
    BY <1>24, <2>1 DEF UpRootfsWrite, RootfsAtRisk
<1>25. CASE UpRootfsRm
  BY <1>25, Restaged, RootfsChanged DEF UpRootfsRm
<1>26. CASE UpTgz
  <2>1. p2' = p2 \/ p2' = [p2 EXCEPT !.staged["tgz"] = "none"]
    BY <1>26 DEF UpTgz
  <2>2. p2'.boot = p2.boot
    BY <2>1, Restaged, ZenonT(60)
  <2>3. QED
    BY <1>26, <2>2 DEF UpTgz
<1>27. CASE UmFinish
  BY <1>27, JobChanged, JobTypes DEF UmFinish
<1>28. CASE BtErase
  BY <1>28, Erased DEF BtErase
<1>29. CASE BtBoot
  BY <1>29, BootChanged DEF BtBoot
<1>30. CASE BtData
  BY <1>30, RootfsChanged DEF BtData
<1>31. CASE BtMfile
  BY <1>31, JobChanged, JobTypes DEF BtMfile
<1>32. CASE BtTarFails
  BY <1>32 DEF BtTarFails, RootfsAtRisk
<1>33. CASE BtRootfs
  BY <1>33, JobTypes DEF BtRootfs
<1>34. CASE BtRootfsWrite
  BY <1>34, Fields DEF BtRootfsWrite, Archives, RootfsAtRisk
<1>35. CASE LrWrite
  BY <1>35, Fields DEF LrWrite, Archives, RootfsAtRisk
<1>36. CASE RrErase
  BY <1>36, Erased DEF RrErase
<1>37. CASE UsDisable
  BY <1>37, JobChanged, JobTypes DEF UsDisable
<1>38. CASE UsCopy
  BY <1>38, Restaged, ZenonT(60) DEF UsCopy
<1>39. CASE UsCopied
  BY <1>39, Restaged DEF UsCopied
<1>40. CASE UsSave
  BY <1>40, JobChanged, JobTypes DEF UsSave
<1>41. CASE UsSaved
  BY <1>41, JobChanged, JobTypes DEF UsSaved
<1>42. CASE Reset
  BY <1>42 DEF Reset, RootfsAtRisk, CutByReset
<1>43. QED
  BY <1>1, <1>2, <1>3, <1>4, <1>5, <1>6, <1>7, <1>8, <1>9, <1>10, <1>11, <1>12, <1>13,
     <1>14, <1>15, <1>16, <1>17, <1>18, <1>19, <1>20, <1>21, <1>22, <1>23, <1>24, <1>25,
     <1>26, <1>27, <1>28, <1>29, <1>30, <1>31, <1>32, <1>33, <1>34, <1>35, <1>36, <1>37,
     <1>38, <1>39, <1>40, <1>41, <1>42
     DEF Next, Program, UmStep, UmUser, UsStep, UsUser

(* A complete image leaves nothing to be made good. *)
LEMMA FinishStep ==
  ASSUME TypeOK, Unpacked, JobKept, BtFinish, retval
  PROVE  ArchivesKept' /\ JournalKept'
<1>1. /\ p2'.mfile = NoJob /\ p2'.boot = p2.boot /\ p2'.rootfs = "new" /\ p3' = "new"
  BY JobChanged DEF BtFinish, TypeOK, Unpacked
<1>2. pc' \in {"um_scratch", "um_finish", "rr_bits", "um_end"}
  BY DEF BtFinish, Return, Goto
<1>3. QED
  BY <1>1, <1>2, JobTypes DEF ArchivesKept, JournalKept, Behind, InOS

LEMMA JournalInvStep ==
  ASSUME TypeOK, JournalInv, [Next]_vars
  PROVE  TypeOK' /\ JournalInv'
<1>1. CASE Next
  <2>1. TypeOK'
    <3>1. \/ (UmStep \/ UmUser) /\ UNCHANGED <<usVars, resets>>
          \/ (UsStep \/ UsUser) /\ UNCHANGED <<umVars, resets>>
          \/ Boot \/ Reset \/ Reprogram
      BY <1>1 DEF Next, Program
    <3>2. QED
      BY <3>1, UmType, UsType, BootType DEF JournalInv
  <2>2. Unpacked' /\ JobKept'
    BY <1>1, UnpackedStep, JobStep DEF JournalInv
  <2>3. ASSUME ~RootfsAtRisk' PROVE ArchivesKept' /\ JournalKept'
    <3>1. CASE BtFinish /\ retval
      BY <3>1, FinishStep DEF JournalInv
    <3>2. CASE ~(BtFinish /\ retval)
      BY <1>1, <2>3, <3>2, RiskKept, ArchivesStep, JournalStep DEF JournalInv
    <3>3. QED
      BY <3>1, <3>2
  <2>4. QED
    BY <2>1, <2>2, <2>3 DEF JournalInv
<1>2. CASE UNCHANGED vars
  <2>1. UNCHANGED <<p2, p3, xspi, bits, pc, job, caller, tgz, retval, reboot, seen, todo, mfile,
                    stagings, faults, mishaps, resets>>
    BY <1>2 DEF vars, mediaVars, umVars, usVars
  <2>2. TypeOK'
    BY <2>1 DEF TypeOK
  <2>3. Unpacked' /\ JobKept'
    BY <2>1 DEF JournalInv, Unpacked, JobKept, RootfsOfJob, StagedRootfs
  <2>4. UNCHANGED <<RootfsAtRisk, ArchivesKept, JournalKept>>
    BY <2>1 DEF RootfsAtRisk, ArchivesKept, JournalKept, Behind, Journaled, Restores, HasScript,
                Written, InOS
  <2>5. QED
    BY <2>2, <2>3, <2>4 DEF JournalInv
<1>3. QED
  BY <1>1, <1>2

(* The archive of local recovery goes only with the /boot that needs it. *)
LEMMA RecoveryStep ==
  ASSUME TypeOK, Unpacked, JobKept, RecoveryKept, Next, ~ArchiveAtRisk',
         ~(BtFinish /\ retval)
  PROVE  RecoveryKept'
<1> USE DEF TypeOK, JobKept, Unpacked, Unpacking, Flashing, RecoveryKept, HasScript, InOS, Goto,
    Exit,
    Quiet, Note, mediaVars, umVars, usVars, UnpackInto3,
           MountP3, ErasePart, Return, CallProcess, Fails
<1>1. CASE UmStart
  BY <1>1 DEF UmStart
<1>2. CASE UmNotMounted
  BY <1>2 DEF UmNotMounted
<1>3. CASE UmUsb
  BY <1>3 DEF UmUsb
<1>4. CASE UmScratch
  BY <1>4 DEF UmScratch
<1>5. CASE UpParse
  BY <1>5 DEF UpParse
<1>6. CASE UpXspi
  BY <1>6 DEF UpXspi
<1>7. CASE XspiFw
  BY <1>7 DEF XspiFw
<1>8. CASE UpRootfs
  BY <1>8 DEF UpRootfs
<1>9. CASE UpRootfsWrite
  BY <1>9 DEF UpRootfsWrite
<1>10. CASE BtValidate
  BY <1>10 DEF BtValidate
<1>11. CASE BtRootfs
  BY <1>11 DEF BtRootfs
<1>12. CASE BtRootfsWrite
  BY <1>12 DEF BtRootfsWrite
<1>13. CASE BtXspi
  BY <1>13 DEF BtXspi
<1>14. CASE XspiErase \/ XspiWrite
  BY <1>14 DEF XspiErase, XspiWrite
<1>15. CASE UmLocal
  BY <1>15 DEF UmLocal
<1>16. CASE LrWrite
  BY <1>16 DEF LrWrite
<1>17. CASE LrBits
  BY <1>17 DEF LrBits
<1>18. CASE UmRemote
  BY <1>18 DEF UmRemote
<1>19. CASE RrBits
  BY <1>19 DEF RrBits
<1>20. CASE UmEnd
  BY <1>20 DEF UmEnd
<1>21. CASE UmAgain
  BY <1>21 DEF UmAgain
<1>22. CASE UmImagePath
  BY <1>22 DEF UmImagePath
<1>23. CASE UsStart
  BY <1>23 DEF UsStart
<1>24. CASE Boot
  BY <1>24 DEF Boot
<1>25. CASE Reprogram
  BY <1>25 DEF Reprogram
<1>26. CASE UpXspiRm
  BY <1>26, RestagedAll DEF UpXspiRm
<1>27. CASE UpRootfsRm
  BY <1>27, RestagedAll, RootfsChanged DEF UpRootfsRm
<1>28. CASE UpTgz
  BY <1>28, RestagedAll, SMTT(30) DEF UpTgz
<1>29. CASE UmFinish
  BY <1>29, JobChanged, JobTypes DEF UmFinish
<1>30. CASE BtErase
  BY <1>30, Erased, JobTypes DEF BtErase
<1>31. CASE BtBoot
  BY <1>31, BootChanged DEF BtBoot
<1>32. CASE BtData
  BY <1>32, RootfsChanged DEF BtData, ArchiveAtRisk
<1>33. CASE BtMfile
  BY <1>33, JobChanged, JobTypes DEF BtMfile
<1>34. CASE BtTarFails
  BY <1>34 DEF BtTarFails, ArchiveAtRisk
<1>35. CASE BtFinish
  BY <1>35, JobChanged, JobTypes DEF BtFinish
<1>36. CASE RrErase
  BY <1>36, Erased, JobTypes DEF RrErase
<1>37. CASE UsDisable
  BY <1>37, JobChanged, JobTypes DEF UsDisable
<1>38. CASE UsCopy
  BY <1>38, RestagedAll DEF UsCopy
<1>39. CASE UsCopied
  BY <1>39, RestagedAll DEF UsCopied
<1>40. CASE UsSave
  BY <1>40, JobChanged, JobTypes DEF UsSave
<1>41. CASE UsSaved
  BY <1>41, JobChanged DEF UsSaved
<1>42. CASE Reset
  BY <1>42 DEF Reset, ArchiveAtRisk, CutByReset
<1>43. QED
  BY <1>1, <1>2, <1>3, <1>4, <1>5, <1>6, <1>7, <1>8, <1>9, <1>10, <1>11, <1>12, <1>13,
     <1>14, <1>15, <1>16, <1>17, <1>18, <1>19, <1>20, <1>21, <1>22, <1>23, <1>24, <1>25,
     <1>26, <1>27, <1>28, <1>29, <1>30, <1>31, <1>32, <1>33, <1>34, <1>35, <1>36, <1>37,
     <1>38, <1>39, <1>40, <1>41, <1>42
     DEF Next, Program, UmStep, UmUser, UsStep, UsUser

(* Whoever asks for a reboot has a system to start, and no job left. *)
LEMMA RebootStep ==
  ASSUME TypeOK, RebootKept, Next
  PROVE  RebootKept'
<1> USE DEF TypeOK, Unpacking, Flashing, RebootKept, Goto, Exit, Quiet, Note, mediaVars, umVars,
    usVars,
    UnpackInto3,
           MountP3, ErasePart, Return, CallProcess, Fails
<1>1. CASE UmStart
  BY <1>1 DEF UmStart
<1>2. CASE UmNotMounted
  BY <1>2 DEF UmNotMounted
<1>3. CASE UmUsb
  BY <1>3 DEF UmUsb
<1>4. CASE UmScratch
  BY <1>4 DEF UmScratch
<1>5. CASE UpParse
  BY <1>5 DEF UpParse
<1>6. CASE UpXspi
  BY <1>6 DEF UpXspi
<1>7. CASE XspiFw
  BY <1>7 DEF XspiFw
<1>8. CASE UpRootfs
  BY <1>8 DEF UpRootfs
<1>9. CASE UpRootfsWrite
  BY <1>9 DEF UpRootfsWrite
<1>10. CASE BtRootfs
  BY <1>10 DEF BtRootfs
<1>11. CASE BtRootfsWrite
  BY <1>11 DEF BtRootfsWrite
<1>12. CASE BtXspi
  BY <1>12 DEF BtXspi
<1>13. CASE XspiErase \/ XspiWrite
  <2>1. CASE XspiErase
    BY <2>1 DEF XspiErase
  <2>2. CASE XspiWrite
    BY <2>2 DEF XspiWrite
  <2>3. QED
    BY <1>13, <2>1, <2>2
<1>14. CASE UmLocal
  BY <1>14 DEF UmLocal
<1>15. CASE LrWrite
  BY <1>15 DEF LrWrite
<1>16. CASE LrBits
  BY <1>16 DEF LrBits
<1>17. CASE UmRemote
  BY <1>17 DEF UmRemote
<1>18. CASE RrBits
  BY <1>18 DEF RrBits
<1>19. CASE UmEnd
  BY <1>19 DEF UmEnd
<1>20. CASE UmAgain
  BY <1>20 DEF UmAgain
<1>21. CASE UmImagePath
  BY <1>21 DEF UmImagePath
<1>22. CASE Boot
  BY <1>22 DEF Boot
<1>23. CASE Reprogram
  BY <1>23 DEF Reprogram
<1>24. CASE UpXspiRm
  BY <1>24, RestagedAll DEF UpXspiRm
<1>25. CASE UpRootfsRm
  BY <1>25, RestagedAll, RootfsChanged DEF UpRootfsRm
<1>26. CASE UpTgz
  BY <1>26, RestagedAll DEF UpTgz
<1>27. CASE UmFinish
  BY <1>27, JobChanged, JobTypes DEF UmFinish
<1>28. CASE BtValidate
  <2>1. CASE Return(FALSE)
    BY <1>28, <2>1 DEF BtValidate
  <2>2. CASE pc' = "bt_erase" /\ UNCHANGED umVars
    BY <1>28, <2>2 DEF BtValidate
  <2>3. QED
    BY <1>28, <2>1, <2>2 DEF BtValidate
<1>29. CASE BtErase
  BY <1>29, Erased, JobTypes DEF BtErase
<1>30. CASE BtBoot
  BY <1>30, BootChanged DEF BtBoot
<1>31. CASE BtData
  BY <1>31, RootfsChanged DEF BtData
<1>32. CASE BtMfile
  BY <1>32, JobChanged, JobTypes DEF BtMfile
<1>33. CASE BtTarFails
  BY <1>33 DEF BtTarFails, RootfsAtRisk
<1>34. CASE BtFinish
  BY <1>34, JobChanged, JobTypes DEF BtFinish, RootfsAtRisk
<1>35. CASE RrErase
  BY <1>35, Erased, JobTypes DEF RrErase
<1>36. CASE UsStart /\ UNCHANGED umVars
  BY <1>36 DEF UsStart
<1>37. CASE UsDisable /\ UNCHANGED umVars
  BY <1>37, JobChanged DEF UsDisable
<1>38. CASE UsCopy /\ UNCHANGED umVars
  BY <1>38, RestagedAll DEF UsCopy
<1>39. CASE UsCopied /\ UNCHANGED umVars
  BY <1>39, RestagedAll DEF UsCopied
<1>40. CASE UsSave /\ UNCHANGED umVars
  BY <1>40, JobChanged, JobTypes DEF UsSave
<1>41. CASE UsSaved /\ UNCHANGED umVars
  BY <1>41, JobChanged DEF UsSaved
<1>42. CASE Reset
  BY <1>42 DEF Reset, RootfsAtRisk, CutByReset
<1>43. QED
  BY <1>1, <1>2, <1>3, <1>4, <1>5, <1>6, <1>7, <1>8, <1>9, <1>10, <1>11, <1>12, <1>13,
     <1>14, <1>15, <1>16, <1>17, <1>18, <1>19, <1>20, <1>21, <1>22, <1>23, <1>24, <1>25,
     <1>26, <1>27, <1>28, <1>29, <1>30, <1>31, <1>32, <1>33, <1>34, <1>35, <1>36, <1>37,
     <1>38, <1>39, <1>40, <1>41, <1>42
     DEF Next, Program, UmStep, UmUser, UsStep, UsUser

(* Nothing but an unpacking cut short leaves /boot without its script. *)
LEMMA DirStep ==
  ASSUME TypeOK, DirKept, Next, ~RootfsAtRisk', ~(BtFinish /\ retval)
  PROVE  DirKept'
<1> USE DEF TypeOK, DirKept, Goto, Exit, Quiet, Note, mediaVars, umVars, usVars, UnpackInto3,
           MountP3, ErasePart, Return, CallProcess, Fails
<1>1. CASE UmStart \/ UmNotMounted \/ UmUsb
  BY <1>1 DEF UmStart, UmNotMounted, UmUsb
<1>2. CASE UmScratch \/ UpParse \/ UpXspi
  BY <1>2 DEF UmScratch, UpParse, UpXspi
<1>3. CASE XspiFw \/ UpRootfs \/ UpRootfsWrite
  BY <1>3 DEF XspiFw, UpRootfs, UpRootfsWrite
<1>4. CASE BtValidate \/ BtRootfs \/ BtRootfsWrite
  BY <1>4 DEF BtValidate, BtRootfs, BtRootfsWrite
<1>5. CASE BtXspi \/ XspiErase \/ XspiWrite \/ UmLocal
  BY <1>5 DEF BtXspi, XspiErase, XspiWrite, UmLocal
<1>6. CASE LrWrite \/ LrBits \/ UmRemote
  BY <1>6 DEF LrWrite, LrBits, UmRemote
<1>7. CASE RrBits \/ UmEnd \/ UmAgain
  BY <1>7 DEF RrBits, UmEnd, UmAgain
<1>8. CASE UmImagePath \/ UsStart \/ Boot
  BY <1>8 DEF UmImagePath, UsStart, Boot
<1>9. CASE Reprogram
  BY <1>9 DEF Reprogram
<1>10. CASE UpXspiRm
  BY <1>10, RestagedAll DEF UpXspiRm
<1>11. CASE UpRootfsRm
  BY <1>11, RestagedAll, RootfsChanged DEF UpRootfsRm
<1>12. CASE UpTgz
  BY <1>12, RestagedAll DEF UpTgz
<1>13. CASE UmFinish
  BY <1>13, JobChanged, JobTypes DEF UmFinish
<1>14. CASE BtErase
  BY <1>14, Erased, JobTypes DEF BtErase
<1>15. CASE BtBoot
  BY <1>15, BootChanged DEF BtBoot
<1>16. CASE BtData
  BY <1>16, RootfsChanged DEF BtData
<1>17. CASE BtMfile
  BY <1>17, JobChanged, JobTypes DEF BtMfile
<1>18. CASE BtTarFails
  BY <1>18 DEF BtTarFails, RootfsAtRisk
<1>19. CASE BtFinish
  BY <1>19, JobChanged, JobTypes DEF BtFinish
<1>20. CASE RrErase
  BY <1>20, Erased, JobTypes DEF RrErase
<1>21. CASE UsDisable
  BY <1>21, JobChanged, JobTypes DEF UsDisable
<1>22. CASE UsCopy
  BY <1>22, RestagedAll DEF UsCopy
<1>23. CASE UsCopied
  BY <1>23, RestagedAll DEF UsCopied
<1>24. CASE UsSave
  BY <1>24, JobChanged, JobTypes DEF UsSave
<1>25. CASE UsSaved
  BY <1>25, JobChanged, JobTypes DEF UsSaved
<1>26. CASE Reset
  BY <1>26 DEF Reset, RootfsAtRisk, CutByReset
<1>27. QED
  BY <1>1, <1>2, <1>3, <1>4, <1>5, <1>6, <1>7, <1>8, <1>9, <1>10, <1>11, <1>12, <1>13,
     <1>14, <1>15, <1>16, <1>17, <1>18, <1>19, <1>20, <1>21, <1>22, <1>23, <1>24, <1>25,
     <1>26
     DEF Next, Program, UmStep, UmUser, UsStep, UsUser

LEMMA PartChanged ==
  ASSUME xspi \in FlashParts
  PROVE  /\ ErasePart("uboot") => xspi'.uboot = "broken" /\ xspi'.kernel = xspi.kernel
         /\ ErasePart("kernel") => xspi'.kernel = "broken" /\ xspi'.uboot = xspi.uboot
         /\ xspi' = [xspi EXCEPT !.uboot = "new"] =>
              xspi'.uboot = "new" /\ xspi'.kernel = xspi.kernel
         /\ xspi' = [xspi EXCEPT !.kernel = "new"] =>
              xspi'.kernel = "new" /\ xspi'.uboot = xspi.uboot
BY DEF ErasePart, FlashParts

LEMMA OldFlashIs == OldFlash.uboot = "old" /\ OldFlash.kernel = "old"
BY DEF OldFlash

(* A broken flash is being written, or its mishap is recorded. *)
LEMMA FlashStep ==
  ASSUME TypeOK, FlashKept, Next
  PROVE  FlashKept'
<1> USE PartChanged DEF TypeOK, FlashKept, FlashAtRisk, Goto, Exit, Quiet, Note, mediaVars, umVars, usVars,
    UnpackInto3,
           MountP3, Return, CallProcess, Fails, EraseP2
<1>1. CASE UmStart
  BY <1>1 DEF UmStart
<1>2. CASE UmNotMounted
  BY <1>2 DEF UmNotMounted
<1>3. CASE UmUsb
  BY <1>3 DEF UmUsb
<1>4. CASE UmScratch
  BY <1>4 DEF UmScratch
<1>5. CASE UpParse
  BY <1>5 DEF UpParse
<1>6. CASE UpXspi
  BY <1>6 DEF UpXspi
<1>7. CASE XspiFw
  BY <1>7 DEF XspiFw
<1>8. CASE UpXspiRm
  BY <1>8 DEF UpXspiRm
<1>9. CASE UpRootfs
  BY <1>9 DEF UpRootfs
<1>10. CASE UpRootfsWrite
  BY <1>10 DEF UpRootfsWrite
<1>11. CASE UpRootfsRm
  BY <1>11 DEF UpRootfsRm
<1>12. CASE UpTgz
  BY <1>12 DEF UpTgz
<1>13. CASE UmFinish
  BY <1>13 DEF UmFinish
<1>14. CASE BtValidate
  BY <1>14 DEF BtValidate
<1>15. CASE BtErase
  BY <1>15 DEF BtErase
<1>16. CASE BtBoot
  BY <1>16 DEF BtBoot
<1>17. CASE BtData
  BY <1>17 DEF BtData
<1>18. CASE BtMfile
  BY <1>18 DEF BtMfile
<1>19. CASE BtTarFails
  BY <1>19 DEF BtTarFails
<1>20. CASE BtRootfs
  BY <1>20 DEF BtRootfs
<1>21. CASE BtRootfsWrite
  BY <1>21 DEF BtRootfsWrite
<1>22. CASE BtXspi
  BY <1>22 DEF BtXspi
<1>23. CASE XspiErase
  BY <1>23 DEF XspiErase
<1>24. CASE XspiWrite
  BY <1>24 DEF XspiWrite
<1>25. CASE BtFinish
  BY <1>25 DEF BtFinish
<1>26. CASE UmLocal
  BY <1>26 DEF UmLocal
<1>27. CASE LrWrite
  BY <1>27 DEF LrWrite
<1>28. CASE LrBits
  BY <1>28 DEF LrBits
<1>29. CASE UmRemote
  BY <1>29 DEF UmRemote
<1>30. CASE RrErase
  BY <1>30 DEF RrErase
<1>31. CASE RrBits
  BY <1>31 DEF RrBits
<1>32. CASE UmEnd
  BY <1>32 DEF UmEnd
<1>33. CASE UmAgain
  BY <1>33 DEF UmAgain
<1>34. CASE UmImagePath
  BY <1>34 DEF UmImagePath
<1>35. CASE UsStart
  BY <1>35 DEF UsStart
<1>36. CASE UsDisable
  BY <1>36 DEF UsDisable
<1>37. CASE UsCopy
  BY <1>37 DEF UsCopy
<1>38. CASE UsCopied
  BY <1>38 DEF UsCopied
<1>39. CASE UsSave
  BY <1>39 DEF UsSave
<1>40. CASE UsSaved
  BY <1>40 DEF UsSaved
<1>41. CASE Boot
  BY <1>41 DEF Boot
<1>42. CASE Reprogram
  BY <1>42, OldFlashIs DEF Reprogram
<1>43. CASE Reset
  BY <1>43 DEF Reset, CutByReset
<1>44. QED
  BY <1>1, <1>2, <1>3, <1>4, <1>5, <1>6, <1>7, <1>8, <1>9, <1>10, <1>11, <1>12, <1>13, <1>14,
     <1>15, <1>16, <1>17, <1>18, <1>19, <1>20, <1>21, <1>22, <1>23, <1>24, <1>25, <1>26,
     <1>27, <1>28, <1>29, <1>30, <1>31, <1>32, <1>33, <1>34, <1>35, <1>36, <1>37, <1>38,
     <1>39, <1>40, <1>41, <1>42, <1>43
     DEF Next, Program, UmStep, UmUser, UsStep, UsUser

LEMMA FlashIs ==
  ASSUME xspi \in FlashParts
  PROVE  /\ Flash = "broken" <=> xspi.uboot = "broken" \/ xspi.kernel = "broken"
         /\ Flash = "new" <=> xspi.uboot = "new" /\ xspi.kernel = "new"
         /\ Flash \in {"broken", "old", "new"}
BY DEF Flash, FlashParts

LEMMA FlashSame == UNCHANGED xspi => Flash' = Flash
BY DEF Flash

(* A job for the flash is not passed over before the flash has been written. *)
LEMMA FlashOwedStep ==
  ASSUME TypeOK, Unpacked, JobKept, FlashKept, FlashOwed, Next
  PROVE  FlashOwed'
<1> USE FlashSame, PartChanged DEF TypeOK, Goto, Exit, Quiet, Note, mediaVars, umVars, usVars, UnpackInto3,
           MountP3, Return, CallProcess, Fails, JobKept, Unpacked, Unpacking, Flashing,
           FlashKept, FlashOwed, PastFlash, Written, FlashWritten, FlashAtRisk
<1>1. CASE UmStart
  BY <1>1 DEF UmStart
<1>2. CASE UmNotMounted
  BY <1>2 DEF UmNotMounted
<1>3. CASE UmUsb
  BY <1>3 DEF UmUsb
<1>4. CASE UmScratch
  BY <1>4 DEF UmScratch
<1>5. CASE UpParse
  BY <1>5 DEF UpParse
<1>6. CASE UpXspi
  BY <1>6 DEF UpXspi
<1>7. CASE XspiFw
  BY <1>7, JobTypes, FlashJobs DEF XspiFw
<1>8. CASE UpXspiRm
  BY <1>8, Restaged DEF UpXspiRm
<1>9. CASE UpRootfs
  BY <1>9 DEF UpRootfs
<1>10. CASE UpRootfsWrite
  BY <1>10 DEF UpRootfsWrite
<1>11. CASE UpRootfsRm
  BY <1>11, Restaged, RootfsChanged DEF UpRootfsRm
<1>12. CASE UpTgz
  <2>1. p2' = p2 \/ p2' = [p2 EXCEPT !.staged["tgz"] = "none"]
    BY <1>12 DEF UpTgz
  <2>2. /\ p2'.rootfs = p2.rootfs /\ p2'.mfile = p2.mfile
        /\ p2'.staged["xspi"] = p2.staged["xspi"]
    BY <2>1, TgzTaken
  <2>3. QED
    BY <1>12, <2>2 DEF UpTgz
<1>13. CASE UmFinish
  BY <1>13, JobChanged, JobTypes, FlashJobs, ZenonT(60) DEF UmFinish
<1>14. CASE BtValidate
  BY <1>14 DEF BtValidate
<1>15. CASE BtErase
  <2>1. CASE p2.boot # "none"
    BY <1>15, <2>1, Erased DEF BtErase
  <2>2. CASE p2.boot = "none"
    <3>1. p2'.mfile = NoJob /\ pc' = "bt_boot" /\ UNCHANGED <<xspi, mishaps>>
      BY <1>15, <2>2, Erased DEF BtErase
    <3>2. QED
      BY <3>1, JobTypes, FlashJobs
  <2>3. QED
    BY <2>1, <2>2
<1>16. CASE BtBoot
  BY <1>16, BootChanged DEF BtBoot
<1>17. CASE BtData
  BY <1>17, RootfsChanged, ZenonT(150) DEF BtData
<1>18. CASE BtMfile
  <2>1. /\ p2'.rootfs = p2.rootfs /\ p2'.mfile = InstallerJob /\ p2'.staged = p2.staged
        /\ p2.rootfs # "old"
    BY <1>18, JobChanged DEF BtMfile
  <2>2. QED
    BY <1>18, <2>1, JobTypes, FlashJobs DEF BtMfile
<1>19. CASE BtTarFails
  BY <1>19, JobTypes, FlashJobs DEF BtTarFails
<1>20. CASE BtRootfs
  BY <1>20 DEF BtRootfs
<1>21. CASE BtRootfsWrite
  BY <1>21 DEF BtRootfsWrite
<1>22. CASE BtXspi
  BY <1>22, JobTypes, FlashJobs DEF BtXspi
<1>23. CASE XspiErase \/ XspiWrite
  <2>1. CASE XspiErase
    BY <2>1, JobTypes, FlashJobs DEF XspiErase
  <2>2. CASE XspiWrite
    <3>1. pc = "up_xspi_write" => FlashWritten'
      <4>1. CASE xspi.uboot = "new" /\ xspi' = [xspi EXCEPT !.kernel = "new"]
        BY <4>1 DEF Flash
      <4>2. CASE ~(xspi.uboot = "new" /\ xspi' = [xspi EXCEPT !.kernel = "new"])
        BY <2>2, <4>2 DEF XspiWrite
      <4>3. QED
        BY <4>1, <4>2
    <3>2. QED
      BY <2>2, <3>1, JobTypes, FlashJobs DEF XspiWrite
  <2>3. QED
    BY <1>23, <2>1, <2>2
<1>24. CASE BtFinish
  BY <1>24, JobChanged, JobTypes, FlashJobs, ZenonT(60) DEF BtFinish
<1>25. CASE UmLocal
  BY <1>25 DEF UmLocal
<1>26. CASE LrWrite
  BY <1>26 DEF LrWrite
<1>27. CASE LrBits
  BY <1>27 DEF LrBits
<1>28. CASE UmRemote
  BY <1>28 DEF UmRemote
<1>29. CASE RrErase
  <2>1. CASE p2.boot # "none"
    BY <1>29, <2>1, Erased DEF RrErase
  <2>2. CASE p2.boot = "none"
    <3>1. p2'.mfile = NoJob /\ pc' = "bt_validate" /\ UNCHANGED <<xspi, mishaps>>
      BY <1>29, <2>2, Erased DEF RrErase
    <3>2. QED
      BY <3>1, JobTypes, FlashJobs
  <2>3. QED
    BY <2>1, <2>2
<1>30. CASE RrBits
  BY <1>30 DEF RrBits
<1>31. CASE UmEnd
  BY <1>31 DEF UmEnd
<1>32. CASE UmAgain
  BY <1>32 DEF UmAgain
<1>33. CASE UmImagePath
  BY <1>33 DEF UmImagePath
<1>34. CASE UsStart /\ UNCHANGED <<umVars, resets>>
  BY <1>34, FlashJobs, ZenonT(150) DEF UsStart
<1>35. CASE UsDisable /\ UNCHANGED <<umVars, resets>>
  BY <1>35, JobChanged, JobTypes, FlashJobs, ZenonT(60) DEF UsDisable
<1>36. CASE UsCopy /\ UNCHANGED <<umVars, resets>>
  <2>1. CASE pc' = "us_copy"
    <3>1. Current \in Kinds
      BY <1>36, CurrentIs DEF UsCopy
    <3>2. /\ p2'.rootfs = p2.rootfs /\ p2'.mfile = p2.mfile
          /\ p2'.staged["xspi"] = IF Current = "xspi" THEN "invalid" ELSE p2.staged["xspi"]
      <4>1. p2' = [p2 EXCEPT !.staged[Current] = "invalid"]
        BY <1>36, <2>1 DEF UsCopy
      <4>2. QED
        BY <3>1, <4>1, RestagedAll, FlashStaged, ZenonT(60)
    <3>3. QED
      BY <1>36, <2>1, <3>2 DEF UsCopy
  <2>2. CASE pc' = "os"
    BY <1>36, <2>2 DEF UsCopy
  <2>3. QED
    BY <1>36, <2>1, <2>2 DEF UsCopy
<1>37. CASE UsCopied /\ UNCHANGED <<umVars, resets>>
  <2>1. Current \in Kinds
    BY <1>37, CurrentIs DEF UsCopied
  <2>2. CASE pc' = "us"
    <3>1. PICK image \in Accepted(Current) : p2' = [p2 EXCEPT !.staged[Current] = image]
      BY <1>37, <2>2 DEF UsCopied
    <3>2. /\ p2'.rootfs = p2.rootfs /\ p2'.mfile = p2.mfile
          /\ p2'.staged["xspi"] = IF Current = "xspi" THEN image ELSE p2.staged["xspi"]
      BY <2>1, <3>1, RestagedAll, FlashStaged, ZenonT(60)
    <3>3. image # "none"
      BY <2>1, <3>1 DEF Accepted, Images, Kinds
    <3>4. QED
      BY <1>37, <2>2, <3>2, <3>3 DEF UsCopied
  <2>3. CASE pc' = "os"
    BY <1>37, <2>3 DEF UsCopied
  <2>4. QED
    BY <1>37, <2>2, <2>3 DEF UsCopied
<1>38. CASE UsSave /\ UNCHANGED <<umVars, resets>>
  BY <1>38, JobChanged, JobTypes, FlashJobs, ZenonT(60) DEF UsSave
<1>39. CASE UsSaved /\ UNCHANGED <<umVars, resets>>
  BY <1>39, JobChanged, JobTypes, ZenonT(60) DEF UsSaved
<1>40. CASE Boot
  BY <1>40, FlashIs DEF Boot
<1>41. CASE Reset
  BY <1>41 DEF Reset, CutByReset
<1>42. CASE Reprogram
  BY <1>42, OldFlashIs DEF Reprogram
<1>43. QED
  BY <1>1, <1>2, <1>3, <1>4, <1>5, <1>6, <1>7, <1>8, <1>9, <1>10, <1>11, <1>12, <1>13,
     <1>14, <1>15, <1>16, <1>17, <1>18, <1>19, <1>20, <1>21, <1>22, <1>23, <1>24, <1>25,
     <1>26, <1>27, <1>28, <1>29, <1>30, <1>31, <1>32, <1>33, <1>34, <1>35, <1>36, <1>37,
     <1>38, <1>39, <1>40, <1>41, <1>42
     DEF Next, Program, UmStep, UmUser, UsStep, UsUser

(* Nor is a job for partition 3, whose archive goes only once it is unpacked. *)
LEMMA RootfsOwedStep ==
  ASSUME TypeOK, Unpacked, JobKept, ArchivesKept, JournalKept, RebootKept, FlashOwed, RootfsOwed,
         Next, ~RootfsAtRisk', ~(BtFinish /\ retval)
  PROVE  RootfsOwed'
<1> USE DEF TypeOK, Goto, Exit, Quiet, Note, mediaVars, umVars, usVars, UnpackInto3,
           MountP3, ErasePart, Return, CallProcess, Fails, JobKept, Unpacked,
           ArchivesKept, RebootKept,
           FlashOwed, RootfsOwed, Written
<1>1. CASE UmStart
  BY <1>1 DEF UmStart
<1>2. CASE UmNotMounted
  BY <1>2 DEF UmNotMounted
<1>3. CASE UmUsb
  BY <1>3 DEF UmUsb
<1>4. CASE UmScratch
  BY <1>4 DEF UmScratch
<1>5. CASE UpParse
  BY <1>5 DEF UpParse
<1>6. CASE UpXspi
  BY <1>6 DEF UpXspi
<1>7. CASE XspiFw
  BY <1>7 DEF XspiFw
<1>8. CASE UpXspiRm
  <2>1. /\ p2'.rootfs = p2.rootfs /\ p2'.mfile = p2.mfile
        /\ p2'.staged["rootfs"] = p2.staged["rootfs"]
    <3>1. p2' = [p2 EXCEPT !.staged["xspi"] = "none"] /\ "xspi" \in Kinds
      BY <1>8 DEF UpXspiRm, Kinds
    <3>2. QED
      BY <3>1, RestagedAll, FlashStaged
  <2>2. QED
    BY <1>8, <2>1 DEF UpXspiRm
<1>9. CASE UpRootfs
  BY <1>9, Fields DEF UpRootfs, RootfsOfJob, StagedRootfs, RootfsAtRisk
<1>10. CASE UpRootfsWrite
  <2>1. RootfsOfJob = "new"
    BY <1>10, Fields DEF UpRootfsWrite, RootfsOfJob, StagedRootfs, Archives
  <2>2. QED
    BY <1>10, <2>1 DEF UpRootfsWrite, RootfsAtRisk
<1>11. CASE UpRootfsRm
  BY <1>11, RootfsChanged, Restaged, Fields DEF UpRootfsRm
<1>12. CASE UpTgz
  <2>1. p2' = p2 \/ p2' = [p2 EXCEPT !.staged["tgz"] = "none"]
    BY <1>12 DEF UpTgz
  <2>2. /\ p2'.rootfs = p2.rootfs /\ p2'.mfile = p2.mfile
        /\ p2'.staged["rootfs"] = p2.staged["rootfs"]
    BY <2>1, TgzTaken
  <2>3. QED
    BY <1>12, <2>2 DEF UpTgz
<1>13. CASE UmFinish
  BY <1>13, JobChanged, JobTypes DEF UmFinish
<1>14. CASE BtValidate
  BY <1>14 DEF BtValidate
<1>15. CASE BtErase
  <2>1. CASE p2.boot # "none"
    BY <1>15, <2>1, Erased DEF BtErase
  <2>2. CASE p2.boot = "none"
    <3>1. p2'.mfile = NoJob
      BY <1>15, <2>2, Erased DEF BtErase
    <3>2. QED
      BY <3>1, JobTypes
  <2>3. QED
    BY <2>1, <2>2
<1>16. CASE BtBoot
  BY <1>16, BootChanged DEF BtBoot
<1>17. CASE BtData
  BY <1>17, RootfsChanged DEF BtData
<1>18. CASE BtMfile
  BY <1>18, JobChanged, JobTypes DEF BtMfile
<1>19. CASE BtTarFails
  BY <1>19, JobTypes DEF BtTarFails, RootfsAtRisk
<1>20. CASE BtRootfs
  BY <1>20, JobTypes DEF BtRootfs
<1>21. CASE BtRootfsWrite
  BY <1>21, JobTypes DEF BtRootfsWrite
<1>22. CASE BtXspi
  BY <1>22 DEF BtXspi
<1>23. CASE XspiErase \/ XspiWrite
  BY <1>23 DEF XspiErase, XspiWrite
<1>24. CASE BtFinish
  BY <1>24, JobChanged, JobTypes DEF BtFinish
<1>25. CASE UmLocal
  BY <1>25 DEF UmLocal
<1>26. CASE LrWrite
  BY <1>26 DEF LrWrite
<1>27. CASE LrBits
  BY <1>27 DEF LrBits
<1>28. CASE UmRemote
  BY <1>28 DEF UmRemote
<1>29. CASE RrErase
  <2>1. CASE p2.boot # "none"
    BY <1>29, <2>1, Erased DEF RrErase
  <2>2. CASE p2.boot = "none"
    <3>1. p2'.mfile = NoJob
      BY <1>29, <2>2, Erased DEF RrErase
    <3>2. QED
      BY <3>1, JobTypes
  <2>3. QED
    BY <2>1, <2>2
<1>30. CASE RrBits
  BY <1>30 DEF RrBits
<1>31. CASE UmEnd
  BY <1>31 DEF UmEnd
<1>32. CASE UmAgain
  BY <1>32 DEF UmAgain
<1>33. CASE UmImagePath
  BY <1>33 DEF UmImagePath
<1>34. CASE UsStart /\ UNCHANGED <<umVars, resets>>
  BY <1>34 DEF UsStart
<1>35. CASE UsDisable /\ UNCHANGED <<umVars, resets>>
  BY <1>35, JobChanged, JobTypes DEF UsDisable
<1>36. CASE UsCopy /\ UNCHANGED <<umVars, resets>>
  <2>1. CASE pc' = "us_copy"
    <3>1. Current \in Kinds
      BY <1>36, CurrentIs DEF UsCopy
    <3>2. /\ p2'.rootfs = p2.rootfs /\ p2'.mfile = p2.mfile
          /\ p2'.staged["rootfs"] = IF Current = "rootfs" THEN "invalid" ELSE p2.staged["rootfs"]
      <4>1. p2' = [p2 EXCEPT !.staged[Current] = "invalid"]
        BY <1>36, <2>1 DEF UsCopy
      <4>2. QED
        BY <3>1, <4>1, RestagedAll, FlashStaged
    <3>3. QED
      BY <1>36, <2>1, <3>2 DEF UsCopy
  <2>2. CASE pc' = "os"
    BY <1>36, <2>2 DEF UsCopy
  <2>3. QED
    BY <1>36, <2>1, <2>2 DEF UsCopy
<1>37. CASE UsCopied /\ UNCHANGED <<umVars, resets>>
  <2>1. Current \in Kinds
    BY <1>37, CurrentIs DEF UsCopied
  <2>2. CASE pc' = "us"
    <3>1. PICK image \in Accepted(Current) : p2' = [p2 EXCEPT !.staged[Current] = image]
      BY <1>37, <2>2 DEF UsCopied
    <3>2. /\ p2'.rootfs = p2.rootfs /\ p2'.mfile = p2.mfile
          /\ p2'.staged["rootfs"] = IF Current = "rootfs" THEN image ELSE p2.staged["rootfs"]
      BY <2>1, <3>1, RestagedAll, FlashStaged
    <3>3. image # "none"
      BY <2>1, <3>1 DEF Accepted, Images, Kinds
    <3>4. QED
      BY <1>37, <2>2, <3>2, <3>3 DEF UsCopied
  <2>3. CASE pc' = "os"
    BY <1>37, <2>3 DEF UsCopied
  <2>4. QED
    BY <1>37, <2>2, <2>3 DEF UsCopied
<1>38. CASE UsSave /\ UNCHANGED <<umVars, resets>>
  BY <1>38, JobChanged, JobTypes DEF UsSave
<1>39. CASE UsSaved /\ UNCHANGED <<umVars, resets>>
  BY <1>39, JobChanged, JobTypes DEF UsSaved
<1>40. CASE Boot
  BY <1>40 DEF Boot
<1>41. CASE Reset
  BY <1>41 DEF Reset, RootfsAtRisk, CutByReset
<1>42. CASE Reprogram
  BY <1>42 DEF Reprogram
<1>43. QED
  BY <1>1, <1>2, <1>3, <1>4, <1>5, <1>6, <1>7, <1>8, <1>9, <1>10, <1>11, <1>12, <1>13,
     <1>14, <1>15, <1>16, <1>17, <1>18, <1>19, <1>20, <1>21, <1>22, <1>23, <1>24, <1>25,
     <1>26, <1>27, <1>28, <1>29, <1>30, <1>31, <1>32, <1>33, <1>34, <1>35, <1>36, <1>37,
     <1>38, <1>39, <1>40, <1>41, <1>42
     DEF Next, Program, UmStep, UmUser, UsStep, UsUser

LEMMA JournalInvInit == Init => TypeOK /\ JournalInv
<1> SUFFICES ASSUME Init PROVE TypeOK /\ JournalInv
  OBVIOUS
<1>1. /\ p2 \in Partition2 /\ p2.mfile = NoJob
      /\ p2.boot = "old" \/ p2.boot = "none"
      /\ p2.boot = "none" => p2.rootfs = "none"
      /\ p2.boot = "old" => p2.rootfs = "old" /\ p3 = "old"
  <2>1. CASE p2 = EmptyP2
    BY <2>1, EmptyType
  <2>2. CASE p2 = [EmptyP2 EXCEPT !.boot = "old", !.rootfs = "old"] /\ p3 = "old"
    BY <2>2, EmptyType DEF Partition2, Boots, Archives
  <2>3. QED
    BY <2>1, <2>2 DEF Init
<1>2. TypeOK
  BY <1>1, JobTypes, NoBitsType, Partly DEF Init, TypeOK, UmIdle, UsIdle, BitsOf
<1>3. Unpacked /\ JobKept
  BY <1>1, JobTypes DEF Init, Unpacked, Unpacking, Flashing, JobKept
<1>4. ArchivesKept /\ JournalKept
  BY <1>1, JobTypes DEF Init, ArchivesKept, JournalKept, Behind, Journaled, HasScript, Written,
                        InOS
<1>5. QED
  BY <1>2, <1>3, <1>4 DEF JournalInv

LEMMA CycleInvInit == Init => TypeOK /\ CycleInv
<1> SUFFICES ASSUME Init PROVE TypeOK /\ CycleInv
  OBVIOUS
<1>1. /\ p2.mfile = NoJob
      /\ \/ p2.boot = "old" /\ p2.rootfs = "old"
         \/ p2.boot = "none"
  BY EmptyType DEF Init, Partition2
<1>2. RecoveryKept /\ RebootKept /\ DirKept /\ FlashKept
  BY <1>1, JobTypes DEF Init, RecoveryKept, RebootKept, DirKept, FlashKept, OldFlash, HasScript,
      Unpacking, Flashing,
                        UmIdle, InOS
<1>3. QED
  BY <1>2, JournalInvInit DEF CycleInv

LEMMA CycleInvStep ==
  ASSUME TypeOK, CycleInv, [Next]_vars
  PROVE  TypeOK' /\ CycleInv'
<1>1. TypeOK' /\ JournalInv'
  BY JournalInvStep DEF CycleInv
<1>2. CASE Next
  <2>1. RebootKept' /\ FlashKept'
    BY <1>2, RebootStep, FlashStep DEF CycleInv
  <2>2. CASE BtFinish /\ retval
    <3>1. /\ p2'.mfile = NoJob /\ p2'.boot = "new" /\ p2'.rootfs = "new"
      BY <2>2, JobChanged DEF BtFinish, TypeOK, CycleInv, JournalInv, Unpacked, RebootKept,
          Unpacking, Flashing
    <3>2. RecoveryKept' /\ DirKept'
      BY <3>1, JobTypes DEF RecoveryKept, DirKept
    <3>3. QED
      BY <1>1, <2>1, <3>2 DEF CycleInv
  <2>3. CASE ~(BtFinish /\ retval)
    <3>1. ASSUME ~ArchiveAtRisk' PROVE RecoveryKept'
      <4>1. ~ArchiveAtRisk
        BY <1>2, <2>3, <3>1, MishapsKept DEF ArchiveAtRisk
      <4>2. QED
        BY <1>2, <2>3, <3>1, <4>1, RecoveryStep DEF CycleInv, JournalInv
    <3>2. ASSUME ~RootfsAtRisk' PROVE DirKept'
      BY <1>2, <2>3, <3>2, RiskKept, DirStep DEF CycleInv
    <3>3. QED
      BY <1>1, <2>1, <3>1, <3>2 DEF CycleInv
  <2>4. QED
    BY <2>2, <2>3
<1>3. CASE UNCHANGED vars
  <2>1. UNCHANGED <<p2, p3, xspi, pc, caller, retval, reboot, mishaps>>
    BY <1>3 DEF vars, mediaVars, umVars
  <2>2. UNCHANGED <<RecoveryKept, RebootKept, FlashKept, DirKept, ArchiveAtRisk, RootfsAtRisk>>
    BY <2>1 DEF RecoveryKept, RebootKept, FlashKept, FlashAtRisk, DirKept, ArchiveAtRisk,
                RootfsAtRisk, HasScript, InOS
  <2>3. QED
    BY <1>1, <2>2 DEF CycleInv
<1>4. QED
  BY <1>2, <1>3

LEMMA CycleInvCorrect == Spec => [](TypeOK /\ CycleInv)
<1>1. TypeOK /\ CycleInv /\ [Next]_vars => (TypeOK /\ CycleInv)'
  BY CycleInvStep
<1>2. QED
  BY <1>1, CycleInvInit, PTL DEF Spec

-----------------------------------------------------------------------------
(* The refinement: which step of UpgradePromise each step is. *)
PromiseStep == [Promise!Next]_(Promise!vars)

Outside == ~InOS /\ ~InOS'

LEMMA StaysOut == Outside => InOS' = InOS
BY DEF Outside, InOS

LEMMA SameCard ==
  /\ p2'.mfile = p2.mfile => Owed' = Owed
  /\ p2'.boot = p2.boot => Bootable' = Bootable
  /\ mishaps' = mishaps => AtRisk' = AtRisk
  /\ mishaps \subseteq mishaps' => AtRisk \subseteq AtRisk'
  /\ UNCHANGED xspi => Flash' = Flash
BY FlashSame DEF Owed, Bootable, AtRisk, RootfsAtRisk, FlashAtRisk

LEMMA OwedIs ==
  /\ p2.mfile.rootfs = "none" /\ ~p2.mfile.xspi => Owed = {}
  /\ p2.mfile.rootfs # "none" => "rootfs" \in Owed
BY DEF Owed

LEMMA RiskTypes == AtRisk \subseteq Promise!Parts /\ AtRisk' \subseteq Promise!Parts
BY DEF AtRisk, Promise!Parts

LEMMA AsMishap ==
  ASSUME InOS' = InOS, p2'.mfile = p2.mfile, p2'.boot = p2.boot, UNCHANGED <<p3, xspi>>,
         mishaps \subseteq mishaps'
  PROVE  PromiseStep
<1>1. Promise!Mishap
  BY SameCard, RiskTypes DEF Promise!Mishap, Promise!media
<1>2. QED
  BY <1>1 DEF PromiseStep, Promise!Next

LEMMA AsStop ==
  ASSUME InOS, ~InOS', UNCHANGED <<p2, p3, xspi>>, mishaps \subseteq mishaps'
  PROVE  PromiseStep
<1>1. InOS' = FALSE
  BY DEF InOS
<1>2. Promise!Stop
  BY <1>1, SameCard DEF Promise!Stop, Promise!media
<1>3. QED
  BY <1>2 DEF PromiseStep, Promise!Next

LEMMA AsAsk ==
  ASSUME InOS, InOS', p2'.boot = p2.boot, UNCHANGED <<p3, xspi, mishaps>>
  PROVE  PromiseStep
<1>1. Owed' \subseteq Promise!Parts /\ InOS' = InOS
  BY DEF Owed, Promise!Parts, InOS
<1>2. Promise!Ask
  BY <1>1, SameCard DEF Promise!Ask, Promise!media
<1>3. QED
  BY <1>2 DEF PromiseStep, Promise!Next

LEMMA AsWriteRootfs ==
  ASSUME Outside, UNCHANGED <<p2, xspi>>,
         Owed = {} \/ "rootfs" \in Owed,
         \/ p3' \in {"broken", "old", "new"} /\ UNCHANGED mishaps
         \/ p3' = "broken" /\ Note("unpack")
  PROVE  PromiseStep
<1>1. InOS' = InOS /\ Owed' = Owed /\ Bootable' = Bootable /\ Flash' = Flash
  BY StaysOut, SameCard DEF Flash
<1>2. CASE p3' \in {"broken", "old", "new"} /\ UNCHANGED mishaps
  <2>1. Promise!WriteRootfs
    BY <1>1, <1>2, SameCard DEF Promise!WriteRootfs, Outside
  <2>2. QED
    BY <2>1 DEF PromiseStep, Promise!Next
<1>3. CASE p3' = "broken" /\ Note("unpack")
  <2>1. AtRisk' = AtRisk \cup {"rootfs"}
    BY <1>3 DEF Note, AtRisk, RootfsAtRisk, FlashAtRisk
  <2>2. Promise!WriteRootfs
    BY <1>1, <1>3, <2>1 DEF Promise!WriteRootfs, Outside
  <2>3. QED
    BY <2>2 DEF PromiseStep, Promise!Next
<1>4. QED
  BY <1>2, <1>3

(* Of a flash that is not whole, or becomes so, or of one left as it was. *)
LEMMA AsWriteFlash ==
  ASSUME Outside, UNCHANGED <<p2, p3>>, xspi \in FlashParts, xspi' \in FlashParts,
         UNCHANGED <<xspi, mishaps>> \/ Flash' = "broken" \/ Flash = "broken",
         \/ mishaps' \in {mishaps, mishaps \cup {"flash"}, mishaps \cup {"flash image"}}
         \/ Flash' = "new" /\ mishaps' = mishaps \ {"flash", "flash image"}
  PROVE  PromiseStep
<1>1. InOS' = InOS /\ Owed' = Owed /\ Bootable' = Bootable
  BY StaysOut, SameCard
<1>2. Flash' \in {"broken", "old", "new"}
  BY FlashIs DEF Flash, FlashParts
<1>3. CASE UNCHANGED <<xspi, mishaps>>
  BY <1>1, <1>3, AsMishap
<1>4. CASE Flash' = "broken" \/ Flash = "broken"
  <2>1. \/ AtRisk' \in {AtRisk, AtRisk \cup {"flash"}}
        \/ Flash' = "new" /\ AtRisk' = AtRisk \ {"flash"}
    BY DEF AtRisk, RootfsAtRisk, FlashAtRisk
  <2>2. Promise!WriteFlash
    BY <1>1, <1>2, <1>4, <2>1 DEF Promise!WriteFlash, Outside
  <2>3. QED
    BY <2>2 DEF PromiseStep, Promise!Next
<1>5. QED
  BY <1>3, <1>4

LEMMA AsReplace ==
  ASSUME Outside, p2'.mfile = p2.mfile, UNCHANGED <<p3, xspi, mishaps>>,
         Bootable' = "none" \/ (Bootable' = "new" /\ Owed = {})
  PROVE  PromiseStep
<1>1. InOS' = InOS
  BY StaysOut
<1>2. Promise!Replace
  BY <1>1, SameCard DEF Promise!Replace, Outside
<1>3. QED
  BY <1>2 DEF PromiseStep, Promise!Next

LEMMA AsJournal ==
  ASSUME Outside, p2'.boot = p2.boot, p2.boot = "new", p2.mfile = NoJob,
         p2'.mfile = InstallerJob, UNCHANGED <<p3, xspi, mishaps>>
  PROVE  PromiseStep
<1>1. InOS' = InOS /\ Flash' = Flash
  BY StaysOut, SameCard
<1>2. Owed = {} /\ Owed' = {"rootfs"}
  BY JobTypes, FlashJobs DEF Owed
<1>3. Bootable = "new"
  BY DEF Bootable
<1>4. Promise!Journal
  BY <1>1, <1>2, <1>3, SameCard DEF Promise!Journal, Promise!media, Outside
<1>5. QED
  BY <1>4 DEF PromiseStep, Promise!Next

(* The end of a job, which leaves nothing owed: carried out, or lost with  *)
(* the system it lay on.                                                   *)
LEMMA AsEnd ==
  ASSUME Outside, p2'.mfile = NoJob, Bootable' = Bootable, UNCHANGED <<p3, xspi>>,
         \/ p2.boot = "none"
         \/ /\ p2.mfile.rootfs # "none" => p3 = "new" \/ RootfsAtRisk
            /\ p2.mfile.xspi => FlashWritten,
         \/ UNCHANGED mishaps
         \/ p3 = "new" /\ mishaps' = mishaps \cap {"flash", "flash image"}
  PROVE  PromiseStep
<1>1. InOS' = InOS /\ Flash' = Flash
  BY StaysOut, SameCard
<1>2. Owed' = {}
  BY JobTypes, FlashJobs DEF Owed
<1>3. Bootable = "none" \/ \A part \in Owed : Promise!Carried(part)
  BY DEF Bootable, Owed, Promise!Carried, AtRisk, FlashWritten
<1>4. AtRisk' = AtRisk \/ (p3 = "new" /\ AtRisk' = AtRisk \ {"rootfs"})
  BY DEF AtRisk, RootfsAtRisk, FlashAtRisk
<1>5. Promise!End
  BY <1>1, <1>2, <1>3, <1>4 DEF Promise!End, Promise!media, Outside
<1>6. QED
  BY <1>5 DEF PromiseStep, Promise!Next

(* Steps that leave the card as it is, and those that write to partition 3 *)
(* or to the flash,                                                        *)
LEMMA ReadingStep ==
  ASSUME TypeOK,
         \/ UmStart \/ UmNotMounted \/ UmUsb \/ UmScratch \/ UpParse \/ UpXspiRm \/ UpRootfsRm
         \/ UpTgz \/ BtValidate \/ BtData \/ BtTarFails \/ LrBits \/ UmRemote \/ RrBits
         \/ UmEnd \/ UmAgain \/ UmImagePath
  PROVE  PromiseStep
<1> USE DEF TypeOK, Goto, Exit, Quiet, Note, mediaVars, umVars, MountP3, Return, CallProcess,
            Fails
<1>1. CASE UmStart \/ UmNotMounted \/ UmUsb \/ UmScratch \/ UpParse
  <2>1. ~InOS /\ ~InOS' /\ UNCHANGED <<p2, p3, xspi, mishaps>>
    BY <1>1 DEF InOS, UmStart, UmNotMounted, UmUsb, UmScratch, UpParse
  <2>2. QED
    BY <2>1, AsMishap, StaysOut DEF Outside
<1>2. CASE LrBits \/ UmRemote \/ RrBits \/ UmEnd \/ UmAgain \/ UmImagePath
  <2>1. ~InOS /\ ~InOS' /\ UNCHANGED <<p2, p3, xspi, mishaps>>
    BY <1>2 DEF InOS, LrBits, UmRemote, RrBits, UmEnd, UmAgain, UmImagePath
  <2>2. QED
    BY <2>1, AsMishap, StaysOut DEF Outside
<1>3. CASE BtValidate \/ BtTarFails
  <2>1. ~InOS /\ ~InOS' /\ UNCHANGED <<p2, p3, xspi>> /\ mishaps \subseteq mishaps'
    BY <1>3 DEF InOS, BtValidate, BtTarFails
  <2>2. QED
    BY <2>1, AsMishap, StaysOut DEF Outside
<1>4. CASE UpXspiRm \/ UpRootfsRm \/ UpTgz \/ BtData
  <2>1. ~InOS /\ ~InOS' /\ UNCHANGED <<p3, xspi>> /\ mishaps \subseteq mishaps'
    BY <1>4 DEF InOS, UpXspiRm, UpRootfsRm, UpTgz, BtData
  <2>2. p2'.mfile = p2.mfile /\ p2'.boot = p2.boot
    BY <1>4, RestagedAll, RootfsChanged DEF UpXspiRm, UpRootfsRm, UpTgz, BtData
  <2>3. QED
    BY <2>1, <2>2, AsMishap, StaysOut DEF Outside
<1>5. QED
  BY <1>1, <1>2, <1>3, <1>4

LEMMA WritingStep ==
  ASSUME TypeOK, TypeOK', Unpacked, JobKept, RebootKept, FlashKept, FlashOwed,
         \/ UpXspi \/ XspiFw \/ XspiErase \/ XspiWrite \/ UpRootfs \/ UpRootfsWrite
         \/ BtRootfs \/ BtRootfsWrite \/ BtXspi \/ UmLocal \/ LrWrite
  PROVE  PromiseStep
<1> USE DEF Goto, Quiet, umVars
<1>1. CASE UpXspi \/ BtXspi \/ XspiErase
  <2>1. Outside /\ UNCHANGED <<p2, p3, mishaps>>
    BY <1>1 DEF Outside, InOS, UpXspi, BtXspi, XspiErase
  <2>2. UNCHANGED xspi \/ xspi'.uboot = "broken" \/ xspi'.kernel = "broken"
    BY <1>1 DEF UpXspi, BtXspi, XspiErase, ErasePart, TypeOK, FlashParts
  <2>3. UNCHANGED xspi \/ Flash' = "broken"
    BY <2>2 DEF Flash
  <2>4. QED
    BY <2>1, <2>3, AsWriteFlash DEF TypeOK
<1>2. CASE XspiFw \/ XspiWrite
  <2>1. Outside /\ UNCHANGED <<p2, p3>>
    BY <1>2 DEF Outside, InOS, XspiFw, XspiWrite
  <2>2. Flash = "broken"
    BY <1>2 DEF XspiFw, XspiWrite, FlashKept, Flash
  <2>3. \/ mishaps' \in {mishaps, mishaps \cup {"flash"}, mishaps \cup {"flash image"}}
        \/ Flash' = "new" /\ mishaps' = mishaps \ {"flash", "flash image"}
    <3>1. CASE XspiFw
      BY <3>1 DEF XspiFw, Note
    <3>2. CASE XspiWrite
      <4>1. CASE xspi.uboot = "new" /\ xspi' = [xspi EXCEPT !.kernel = "new"]
        <5>1. xspi'.uboot = "new" /\ xspi'.kernel = "new"
          BY <4>1 DEF TypeOK, FlashParts
        <5>2. QED
          BY <3>2, <4>1, <5>1 DEF XspiWrite, Note, Flash
      <4>2. CASE ~(xspi.uboot = "new" /\ xspi' = [xspi EXCEPT !.kernel = "new"])
        BY <3>2, <4>2 DEF XspiWrite, Note
      <4>3. QED
        BY <4>1, <4>2
    <3>3. QED
      BY <1>2, <3>1, <3>2
  <2>4. QED
    BY <2>1, <2>2, <2>3, AsWriteFlash DEF TypeOK
<1>3. CASE UpRootfs
  <2>1. Outside /\ UNCHANGED <<p2, xspi>> /\ mishaps \subseteq mishaps'
    BY <1>3 DEF Outside, InOS, UpRootfs, Note
  <2>2. CASE p3' = "broken" /\ UNCHANGED mishaps /\ job.rootfs # "none"
    <3>1. "rootfs" \in Owed
      BY <1>3, <2>2, OwedIs DEF UpRootfs, JobKept
    <3>2. QED
      BY <2>1, <2>2, <3>1, AsWriteRootfs
  <2>3. CASE UNCHANGED p3
    BY <2>1, <2>3, AsMishap, StaysOut
  <2>4. QED
    BY <1>3, <2>2, <2>3 DEF UpRootfs
<1>4. CASE UpRootfsWrite
  <2>1. Outside /\ UNCHANGED <<p2, xspi>>
    BY <1>4 DEF Outside, InOS, UpRootfsWrite
  <2>2. \/ p3' \in {"broken", "old", "new"} /\ UNCHANGED mishaps
        \/ p3' = "broken" /\ Note("unpack")
    BY <1>4 DEF UpRootfsWrite, UnpackInto3, TypeOK
  <2>3. "rootfs" \in Owed
    BY <1>4, OwedIs DEF UpRootfsWrite, JobKept
  <2>4. QED
    BY <2>1, <2>2, <2>3, AsWriteRootfs
<1>5. CASE BtRootfs \/ BtRootfsWrite
  <2>1. Outside /\ UNCHANGED <<p2, xspi>>
    BY <1>5 DEF Outside, InOS, BtRootfs, BtRootfsWrite
  <2>2. \/ p3' \in {"broken", "old", "new"} /\ UNCHANGED mishaps
        \/ p3' = "broken" /\ Note("unpack")
    BY <1>5 DEF BtRootfs, BtRootfsWrite, UnpackInto3, TypeOK
  <2>3. CASE "rootfs" \in Owed
    BY <2>1, <2>2, <2>3, AsWriteRootfs
  <2>4. "rootfs" \in Owed
    BY <1>5, OwedIs, JobTypes DEF BtRootfs, BtRootfsWrite, Unpacked
  <2>5. QED
    BY <2>3, <2>4
<1>6. CASE UmLocal \/ LrWrite
  <2>1. Outside /\ UNCHANGED <<p2, xspi>>
    BY <1>6 DEF Outside, InOS, UmLocal, LrWrite
  <2>2. \/ p3' \in {"broken", "old", "new"} /\ UNCHANGED mishaps
        \/ p3' = "broken" /\ Note("unpack")
    BY <1>6 DEF UmLocal, LrWrite, UnpackInto3, TypeOK
  <2>3. Owed = {}
    BY <1>6, OwedIs DEF UmLocal, LrWrite, RebootKept, JobKept, FlashOwed
  <2>4. QED
    BY <2>1, <2>2, <2>3, AsWriteRootfs
<1>7. QED
  BY <1>1, <1>2, <1>3, <1>4, <1>5, <1>6

(* those that replace partition 2 or put the job aside,                    *)
LEMMA ReplacingStep ==
  ASSUME TypeOK, Unpacked, RebootKept, FlashOwed, ~RootfsAtRisk => ArchivesKept /\ RootfsOwed,
         UmFinish \/ BtErase \/ RrErase \/ BtBoot \/ BtMfile \/ BtFinish
  PROVE  PromiseStep
<1> USE DEF Goto, Quiet, Return
<1>1. CASE UmFinish
  <2>1. /\ Outside /\ UNCHANGED <<p3, xspi, mishaps>>
        /\ p2' = [p2 EXCEPT !.mfile = NoJob] /\ pc = "um_finish"
    BY <1>1 DEF Outside, InOS, UmFinish
  <2>2. p2'.mfile = NoJob /\ Bootable' = Bootable
    BY <2>1, JobChanged DEF TypeOK, Bootable
  <2>3. p2.mfile.rootfs # "none" => p3 = "new" \/ RootfsAtRisk
    BY <2>1 DEF RootfsOwed, Written
  <2>4. p2.mfile.xspi => FlashWritten
    BY <2>1 DEF FlashOwed, PastFlash, Written
  <2>5. QED
    BY <2>1, <2>2, <2>3, <2>4, AsEnd
<1>2. CASE BtErase \/ RrErase
  <2>1. PICK place : EraseP2(place)
    BY <1>2 DEF BtErase, RrErase
  <2>2. /\ Outside /\ UNCHANGED <<p3, xspi, mishaps>>
    BY <1>2 DEF Outside, InOS, BtErase, RrErase, EraseP2
  <2>3. Bootable' = "none"
    BY <2>1, Erased DEF TypeOK, Bootable
  <2>4. CASE p2.boot # "none"
    BY <2>1, <2>2, <2>3, <2>4, Erased, AsReplace DEF TypeOK
  <2>5. CASE p2.boot = "none"
    <3>1. p2'.mfile = NoJob /\ Bootable' = Bootable
      BY <2>1, <2>3, <2>5, Erased DEF TypeOK, Bootable
    <3>2. QED
      BY <2>2, <2>5, <3>1, AsEnd
  <2>6. QED
    BY <2>4, <2>5
<1>3. CASE BtBoot
  <2>1. Outside /\ UNCHANGED <<p3, xspi, mishaps>> /\ pc = "bt_boot"
    BY <1>3 DEF Outside, InOS, BtBoot
  <2>2. p2'.mfile = p2.mfile /\ p2'.boot \in {"dir", "script", "new"}
    BY <1>3, BootChanged DEF BtBoot, TypeOK
  <2>3. Bootable' \in {"none", "new"}
    BY <2>2 DEF Bootable
  <2>4. Owed = {}
    BY <2>1, OwedIs, JobTypes, FlashJobs DEF FlashOwed
  <2>5. QED
    BY <2>1, <2>2, <2>3, <2>4, AsReplace
<1>4. CASE BtMfile
  <2>1. /\ Outside /\ UNCHANGED <<p3, xspi, mishaps>> /\ pc = "bt_mfile"
        /\ p2' = [p2 EXCEPT !.mfile = InstallerJob]
    BY <1>4 DEF Outside, InOS, BtMfile
  <2>2. p2.boot = "new" /\ p2.mfile = NoJob
    BY <2>1 DEF RebootKept, Unpacking, Flashing, FlashOwed
  <2>3. QED
    BY <2>1, <2>2, JobChanged, AsJournal DEF TypeOK
<1>5. CASE BtFinish
  <2>1. /\ Outside /\ UNCHANGED <<p3, xspi>> /\ pc = "bt_finish"
        /\ p2' = [p2 EXCEPT !.mfile = NoJob]
        /\ mishaps' = IF retval THEN mishaps \cap {"flash", "flash image"} ELSE mishaps
    BY <1>5 DEF Outside, InOS, BtFinish
  <2>2. p2'.mfile = NoJob /\ Bootable' = Bootable
    BY <2>1, JobChanged DEF TypeOK, Bootable
  <2>3. (retval => p3 = "new") /\ (~retval => RootfsAtRisk)
    BY <2>1 DEF Unpacked, ArchivesKept
  <2>4. ~p2.mfile.xspi
    BY <2>1, FlashJobs DEF FlashOwed
  <2>5. QED
    BY <2>1, <2>2, <2>3, <2>4, AsEnd
<1>6. QED
  BY <1>1, <1>2, <1>3, <1>4, <1>5

(* upgrade_soc, and what comes between the programs.                       *)
LEMMA StagingStep ==
  ASSUME TypeOK, UsStep \/ UsUser
  PROVE  PromiseStep
<1> USE DEF Goto, Note, mediaVars
<1>1. CASE UsStart \/ UsCopy \/ UsCopied
  <2>1. /\ InOS /\ InOS' /\ UNCHANGED <<p3, xspi>> /\ mishaps \subseteq mishaps'
    BY <1>1 DEF InOS, UsStart, UsCopy, UsCopied
  <2>2. p2'.mfile = p2.mfile /\ p2'.boot = p2.boot
    BY <1>1, RestagedAll DEF UsStart, UsCopy, UsCopied, TypeOK
  <2>3. InOS' = InOS
    BY <2>1 DEF InOS
  <2>4. QED
    BY <2>1, <2>2, <2>3, AsMishap
<1>2. CASE UsDisable \/ UsSave \/ UsSaved
  <2>1. InOS /\ InOS' /\ UNCHANGED <<p3, xspi, mishaps>>
    BY <1>2 DEF InOS, UsDisable, UsSave, UsSaved
  <2>2. p2'.boot = p2.boot
    BY <1>2, JobChanged DEF UsDisable, UsSave, UsSaved, TypeOK
  <2>3. QED
    BY <2>1, <2>2, AsAsk
<1>3. QED
  BY <1>1, <1>2 DEF UsStep, UsUser

LEMMA BetweenStep ==
  ASSUME TypeOK, JobKept, FlashKept, FlashOwed, RootfsFits', Boot \/ Reset \/ Reprogram
  PROVE  PromiseStep
<1> USE DEF Goto, Quiet
<1>1. CASE Boot
  <2>1. ~InOS /\ UNCHANGED <<p2, p3, xspi>>
    BY <1>1 DEF InOS, Boot
  <2>2. CASE pc' = "os"
    <3>1. /\ pc = "off" /\ p2.boot \in {"old", "new"}
          /\ xspi.uboot = "broken" \/ xspi.kernel = "broken" => FlashAtRisk
      BY <1>1, <2>2, Fields DEF Boot, HasScript, TypeOK, Boots, FlashKept
    <3>2. InOS' = TRUE /\ Bootable = p2.boot
      BY <2>2, <3>1 DEF InOS, Bootable
    <3>3. Promise!Fits \/ "rootfs" \in AtRisk'
      BY <2>1, <3>2 DEF RootfsFits, Behind, RootfsAtRisk, Promise!Fits, AtRisk
    <3>4. Flash = "broken" => "flash" \in AtRisk
      BY <3>1, FlashIs DEF AtRisk, TypeOK
    <3>5. \/ Owed = {} /\ AtRisk' = AtRisk
          \/ "flash" \in AtRisk /\ AtRisk' = AtRisk \cup {"rootfs"}
      <4>1. CASE p2.mfile.file
        <5>1. xspi.kernel = "broken" /\ mishaps' = mishaps \cup {"passed over"}
          BY <1>1, <2>2, <4>1 DEF Boot
        <5>2. "flash" \in AtRisk
          BY <3>1, <5>1 DEF AtRisk
        <5>3. AtRisk' = AtRisk \cup {"rootfs"}
          BY <5>1 DEF AtRisk, RootfsAtRisk, FlashAtRisk
        <5>4. QED
          BY <5>2, <5>3
      <4>2. CASE ~p2.mfile.file
        <5>1. Owed = {}
          BY <4>2, OwedIs, Fields DEF JobKept, FlashOwed, TypeOK
        <5>2. UNCHANGED mishaps
          BY <1>1, <4>2 DEF Boot
        <5>3. QED
          BY <5>1, <5>2, SameCard
      <4>3. QED
        BY <4>1, <4>2
    <3>6. Owed' = Owed /\ Bootable' = Bootable /\ Flash' = Flash
      BY <2>1, SameCard DEF Flash
    <3>7. Bootable # "none"
      BY <3>1, <3>2
    <3>8. Promise!Start
      BY <2>1, <3>2, <3>3, <3>4, <3>5, <3>6, <3>7 DEF Promise!Start, Promise!media
    <3>9. QED
      BY <3>8 DEF PromiseStep, Promise!Next
  <2>3. CASE pc' # "os"
    <3>1. ~InOS' /\ UNCHANGED mishaps
      BY <1>1, <2>3 DEF InOS, Boot
    <3>2. QED
      BY <2>1, <3>1, AsMishap, StaysOut DEF Outside
  <2>4. QED
    BY <2>2, <2>3
<1>2. CASE Reset
  <2>1. ~InOS' /\ UNCHANGED <<p2, p3, xspi>> /\ mishaps \subseteq mishaps'
    BY <1>2 DEF InOS, Reset, Exit, mediaVars
  <2>2. CASE InOS
    BY <2>1, <2>2, AsStop
  <2>3. CASE ~InOS
    BY <2>1, <2>3, AsMishap, StaysOut DEF Outside
  <2>4. QED
    BY <2>2, <2>3
<1>3. CASE Reprogram
  <2>1. Outside /\ UNCHANGED <<p2, p3, mishaps>> /\ xspi' = OldFlash /\ pc = "dead"
    BY <1>3 DEF Outside, InOS, Reprogram
  <2>2. Flash = "broken"
    BY <2>1 DEF FlashOwed
  <2>3. QED
    BY <2>1, <2>2, AsWriteFlash, Partly DEF TypeOK
<1>4. QED
  BY <1>1, <1>2, <1>3

LEMMA PromiseInit == Init => Promise!Init
<1> SUFFICES ASSUME Init PROVE Promise!Init
  OBVIOUS
<1>1. /\ p2.mfile = NoJob
      /\ p2.boot = "none" \/ (p2.boot = "old" /\ p3 = "old")
      /\ p3 \in {"broken", "old"}
  BY EmptyType DEF Init, Partition2
<1>2. Owed = {}
  BY <1>1, OwedIs, JobTypes, FlashJobs
<1>3. AtRisk = {} /\ ~InOS /\ Flash = "old"
  BY DEF Init, AtRisk, RootfsAtRisk, FlashAtRisk, InOS, Flash, OldFlash
<1>4. Bootable = p2.boot
  BY <1>1 DEF Bootable
<1>5. QED
  BY <1>1, <1>2, <1>3, <1>4 DEF Promise!Init

-----------------------------------------------------------------------------
LEMMA PromiseInvInit == Init => PromiseInv
<1> SUFFICES ASSUME Init PROVE PromiseInv
  OBVIOUS
<1>1. p2.mfile = NoJob
  BY EmptyType DEF Init, Partition2
<1>2. pc = "off"
  BY DEF Init
<1>3. QED
  BY <1>1, <1>2, JobTypes, FlashJobs DEF PromiseInv, FlashOwed, RootfsOwed, PastFlash, Written,
                                       Flashing

LEMMA PromiseInvStep ==
  ASSUME TypeOK, CycleInv, PromiseInv, [Next]_vars
  PROVE  PromiseInv'
<1>1. CASE Next
  <2>1. FlashOwed'
    BY <1>1, FlashOwedStep DEF CycleInv, JournalInv, PromiseInv
  <2>2. ASSUME ~RootfsAtRisk' PROVE RootfsOwed'
    <3>1. CASE BtFinish /\ retval
      <4>1. p2'.mfile = NoJob
        BY <3>1, JobChanged DEF BtFinish, TypeOK
      <4>2. QED
        BY <4>1, JobTypes DEF RootfsOwed
    <3>2. CASE ~(BtFinish /\ retval)
      BY <1>1, <2>2, <3>2, RiskKept, RootfsOwedStep DEF CycleInv, JournalInv, PromiseInv
    <3>3. QED
      BY <3>1, <3>2
  <2>3. QED
    BY <2>1, <2>2 DEF PromiseInv
<1>2. CASE UNCHANGED vars
  <2>1. UNCHANGED <<p2, p3, xspi, pc, caller, mishaps, mfile, todo>>
    BY <1>2 DEF vars, mediaVars, umVars, usVars
  <2>2. QED
    BY <2>1, FlashSame, ZenonT(60) DEF PromiseInv, FlashOwed, RootfsOwed, PastFlash, Written,
                FlashWritten, FlashAtRisk, RootfsAtRisk
<1>3. QED
  BY <1>1, <1>2

LEMMA RefinesStep ==
  ASSUME TypeOK, TypeOK', CycleInv, PromiseInv, CycleInv', [Next]_vars
  PROVE  PromiseStep
<1>1. Unpacked /\ JobKept /\ RebootKept /\ FlashKept /\ FlashOwed
  BY DEF CycleInv, JournalInv, PromiseInv
<1>2. ~RootfsAtRisk => ArchivesKept /\ RootfsOwed
  BY DEF CycleInv, JournalInv, PromiseInv
<1>3. RootfsFits'
  BY DEF CycleInv, JournalInv, JournalKept, RootfsFits
<1>4. CASE UmStep \/ UmUser
  BY <1>1, <1>2, <1>4, ReadingStep, WritingStep, ReplacingStep DEF UmStep, UmUser
<1>5. CASE UsStep \/ UsUser
  BY <1>5, StagingStep
<1>6. CASE Boot \/ Reset \/ Reprogram
  BY <1>1, <1>3, <1>6, BetweenStep
<1>7. CASE UNCHANGED vars
  <2>1. UNCHANGED <<p2, p3, xspi, pc, mishaps>>
    BY <1>7 DEF vars, mediaVars
  <2>2. InOS' = InOS
    BY <2>1 DEF InOS
  <2>3. QED
    BY <2>1, <2>2, AsMishap
<1>8. QED
  BY <1>4, <1>5, <1>6, <1>7 DEF Next, Program

-----------------------------------------------------------------------------
(* Media and memory of both programs keep their types, over any number of  *)
(* resets, failures and stagings.                                          *)
THEOREM TypeCorrect == Spec => []TypeOK
BY CycleInvCorrect, PTL

(* A main OS never runs on a half-written root file system, nor on one     *)
(* older than its kernel, whatever number of resets hit whatever steps,    *)
(* but for the mishaps named.                                              *)
THEOREM RootfsDoesFit == Spec => []RootfsFits
<1>1. CycleInv => RootfsFits
  BY DEF CycleInv, JournalInv, JournalKept, RootfsFits
<1>2. QED
  BY <1>1, CycleInvCorrect, PTL

(* Local recovery finds its archive after any upgrade that no reset, cut-  *)
(* short tar or bad image has kept from its end.                           *)
THEOREM RecoveryHasArchive == Spec => []RecoveryArchiveKept
<1>1. CycleInv => RecoveryArchiveKept
  BY DEF CycleInv, RecoveryKept, RecoveryArchiveKept
<1>2. QED
  BY <1>1, CycleInvCorrect, PTL

(* update_maintenance reboots only into a system it has completed.         *)
THEOREM RebootsAreComplete == Spec => RebootsComplete
<1> DEFINE Ends == pc = "um_end" /\ pc' = "off" /\ UNCHANGED resets
           Complete == /\ ~p2.mfile.file
                       /\ p3 = "broken" => RootfsAtRisk
                       /\ Flash = "broken" => FlashAtRisk
<1>1. ASSUME TypeOK, CycleInv, Next, Ends PROVE Complete
  <2>1. UmEnd
    <3>1. CASE UmStep \/ UmUser
      BY <1>1, <3>1 DEF UmStep, UmUser, MountP3, Return, EraseP2,
           UmStart, UmNotMounted, UmUsb, UmScratch, UpParse, UpXspi, XspiFw, XspiErase, UpXspiRm,
           UpRootfs, UpRootfsWrite, UpRootfsRm, UpTgz, UmFinish, BtValidate, BtErase,
           BtBoot, BtData, BtMfile, BtTarFails, BtRootfs, BtRootfsWrite, BtXspi,
           XspiWrite, BtFinish, UmLocal, LrWrite, LrBits, UmRemote, RrErase, RrBits,
           UmAgain, UmImagePath
    <3>2. CASE UsStep \/ UsUser
      BY <1>1, <3>2 DEF UsStep, UsUser, UsStart, UsDisable, UsCopy, UsCopied, UsSave, UsSaved
    <3>3. CASE Reset
      BY <1>1, <3>3 DEF Reset, TypeOK
    <3>4. QED
      BY <1>1, <3>1, <3>2, <3>3 DEF Next, Program, Boot, Reprogram
  <2>2. reboot /\ retval
    BY <1>1, <2>1 DEF UmEnd, Exit, Goto
  <2>3. ~p2.mfile.file /\ p2.boot # "none"
    BY <1>1, <2>2 DEF CycleInv, RebootKept
  <2>4. p3 = "broken" => RootfsAtRisk
    <3>1. SUFFICES ASSUME p3 = "broken", ~RootfsAtRisk PROVE FALSE
      OBVIOUS
    <3>2. HasScript
      BY <1>1, <2>3, <3>1, Fields DEF CycleInv, DirKept, HasScript, TypeOK, Boots
    <3>3. p2.mfile.rootfs = "none"
      BY <1>1, <2>3, Fields DEF CycleInv, JournalInv, JobKept, TypeOK
    <3>4. QED
      BY <1>1, <3>1, <3>2, <3>3 DEF CycleInv, JournalInv, JournalKept, Behind, Journaled,
          Restores
  <2>5. Flash = "broken" => FlashAtRisk
    BY <1>1, FlashIs DEF CycleInv, FlashKept, TypeOK
  <2>6. QED
    BY <2>3, <2>4, <2>5
<1>2. TypeOK /\ CycleInv /\ [Next]_vars => [Ends => Complete]_vars
  BY <1>1
<1>3. QED
  BY <1>2, CycleInvCorrect, PTL DEF Spec, RebootsComplete
(* A job for the root file system or the flash is kept over resets until   *)
(* it has been carried out, and the main OS is not started before: every   *)
(* step of the programs is one UpgradePromise allows, or none at all.      *)
THEOREM CardPromiseKept == Spec => CardKeepsPromise
<1>1. Init => PromiseInv
  BY PromiseInvInit
<1>2. TypeOK /\ CycleInv /\ PromiseInv /\ [Next]_vars => PromiseInv'
  BY PromiseInvStep
<1>3. TypeOK /\ CycleInv /\ (TypeOK /\ CycleInv)' /\ PromiseInv /\ [Next]_vars
        => [Promise!Next]_(Promise!vars)
  BY RefinesStep DEF PromiseStep
<1>4. QED
  BY <1>1, <1>2, <1>3, PromiseInit, CycleInvCorrect, PTL
     DEF Spec, CardKeepsPromise, Promise!Spec
=============================================================================
