--------------------------- MODULE DateTime_proofs ---------------------------
(***************************************************************************)
(* Proofs about DateTime, for all times, releases and orders of the steps  *)
(* of both services, of NTP, resets and upgrades.                          *)
(***************************************************************************)
EXTENDS DateTime, TLAPS

LEMMA Bounds ==
  ASSUME DateTimeAssumption
  PROVE  /\ Oldest \in Nat /\ 0 < Oldest
         /\ \A b \in Builds : b \in Nat /\ Oldest <= b
  BY DEF DateTimeAssumption

LEMMA TypeNext ==
  ASSUME DateTimeAssumption, TypeOK, Late, [Next]_vars
  PROVE  TypeOK'
<1> USE Bounds DEF TypeOK, Times, Missing, time, stamps, programs, history
<1>1. CASE Check
  BY <1>1 DEF Check
<1>2. CASE Choose
  BY <1>2 DEF Choose
<1>3. CASE SetFromRfs
  BY <1>3 DEF SetFromRfs
<1>4. CASE StampAfterRfs
  BY <1>4 DEF StampAfterRfs, TouchMmc, Later
<1>5. CASE ReadMmc
  BY <1>5 DEF ReadMmc
<1>6. CASE SetFromMmc
  BY <1>6 DEF SetFromMmc, Late
<1>7. CASE Wake
  BY <1>7 DEF Wake
<1>8. CASE TouchTemp
  BY <1>8 DEF TouchTemp
<1>9. CASE Test
  BY <1>9 DEF Test
<1>10. CASE Stamp
  BY <1>10 DEF Stamp, TouchMmc, Later
<1>11. CASE Remove
  BY <1>11 DEF Remove
<1>12. CASE Tick
  BY <1>12 DEF Tick
<1>13. CASE Sync
  BY <1>13 DEF Sync
<1>14. CASE Reset
  BY <1>14 DEF Reset, Boot
<1>15. ASSUME NEW b \in Builds, Upgrade(b) PROVE TypeOK'
  BY <1>15 DEF Upgrade, Boot
<1>16. CASE UNCHANGED vars
  BY <1>16 DEF vars
<1> QED
  BY <1>1, <1>2, <1>3, <1>4, <1>5, <1>6, <1>7, <1>8, <1>9, <1>10, <1>11, <1>12, <1>13, <1>14, <1>15, <1>16
     DEF Next, DateTimeStart, DateTimeUpdate

LEMMA LateNext ==
  ASSUME DateTimeAssumption, TypeOK, Late, Stamping, [Next]_vars
  PROVE  Late'
<1> USE Bounds DEF TypeOK, Times, Missing, time, stamps, programs, history, Late, InSetting, Stamping
<1>1. CASE Check
  BY <1>1 DEF Check
<1>2. CASE Choose
  BY <1>2 DEF Choose
<1>3. CASE SetFromRfs
  BY <1>3 DEF SetFromRfs
<1>4. CASE StampAfterRfs
  BY <1>4 DEF StampAfterRfs, TouchMmc, Later
<1>5. CASE ReadMmc
  BY <1>5 DEF ReadMmc
<1>6. CASE SetFromMmc
  BY <1>6 DEF SetFromMmc
<1>7. CASE Wake
  BY <1>7 DEF Wake
<1>8. CASE TouchTemp
  BY <1>8 DEF TouchTemp
<1>9. CASE Test
  BY <1>9 DEF Test
<1>10. CASE Stamp
  BY <1>10 DEF Stamp, TouchMmc, Later
<1>11. CASE Remove
  BY <1>11 DEF Remove
<1>12. CASE Tick
  BY <1>12 DEF Tick
<1>13. CASE Sync
  BY <1>13 DEF Sync
<1>14. CASE Reset
  BY <1>14 DEF Reset, Boot
<1>15. ASSUME NEW b \in Builds, Upgrade(b) PROVE Late'
  BY <1>15 DEF Upgrade, Boot
<1>16. CASE UNCHANGED vars
  BY <1>16 DEF vars
<1> QED
  BY <1>1, <1>2, <1>3, <1>4, <1>5, <1>6, <1>7, <1>8, <1>9, <1>10, <1>11, <1>12, <1>13, <1>14, <1>15, <1>16
     DEF Next, DateTimeStart, DateTimeUpdate

LEMMA StampingNext ==
  ASSUME DateTimeAssumption, TypeOK, Late, Stamping, [Next]_vars
  PROVE  Stamping'
<1> USE Bounds DEF TypeOK, Times, Missing, time, stamps, programs, history, Late, InSetting, Stamping
<1>1. CASE Check
  BY <1>1 DEF Check
<1>2. CASE Choose
  BY <1>2 DEF Choose
<1>3. CASE SetFromRfs
  BY <1>3 DEF SetFromRfs
<1>4. CASE StampAfterRfs
  BY <1>4 DEF StampAfterRfs, TouchMmc, Later
<1>5. CASE ReadMmc
  BY <1>5 DEF ReadMmc
<1>6. CASE SetFromMmc
  BY <1>6 DEF SetFromMmc
<1>7. CASE Wake
  BY <1>7 DEF Wake
<1>8. CASE TouchTemp
  BY <1>8 DEF TouchTemp
<1>9. CASE Test
  BY <1>9 DEF Test
<1>10. CASE Stamp
  BY <1>10 DEF Stamp, TouchMmc, Later
<1>11. CASE Remove
  BY <1>11 DEF Remove
<1>12. CASE Tick
  BY <1>12 DEF Tick
<1>13. CASE Sync
  BY <1>13 DEF Sync
<1>14. CASE Reset
  BY <1>14 DEF Reset, Boot
<1>15. ASSUME NEW b \in Builds, Upgrade(b) PROVE Stamping'
  BY <1>15 DEF Upgrade, Boot
<1>16. CASE UNCHANGED vars
  BY <1>16 DEF vars
<1> QED
  BY <1>1, <1>2, <1>3, <1>4, <1>5, <1>6, <1>7, <1>8, <1>9, <1>10, <1>11, <1>12, <1>13, <1>14, <1>15, <1>16
     DEF Next, DateTimeStart, DateTimeUpdate

LEMMA OrderNext ==
  ASSUME DateTimeAssumption, ClockInv, [Next]_vars
  PROVE  InOrder'
<1> USE Bounds DEF TypeOK, Times, Missing, time, stamps, programs, history, Late, InSetting, Stamping, InOrder, ClockInv
<1>1. CASE Check
  BY <1>1 DEF Check
<1>2. CASE Choose
  BY <1>2 DEF Choose
<1>3. CASE SetFromRfs
  BY <1>3 DEF SetFromRfs
<1>4. CASE StampAfterRfs
  BY <1>4 DEF StampAfterRfs, TouchMmc, Later
<1>5. CASE ReadMmc
  BY <1>5 DEF ReadMmc
<1>6. CASE SetFromMmc
  BY <1>6 DEF SetFromMmc
<1>7. CASE Wake
  BY <1>7 DEF Wake
<1>8. CASE TouchTemp
  BY <1>8 DEF TouchTemp
<1>9. CASE Test
  BY <1>9 DEF Test
<1>10. CASE Stamp
  BY <1>10 DEF Stamp, TouchMmc, Later
<1>11. CASE Remove
  BY <1>11 DEF Remove
<1>12. CASE Tick
  BY <1>12 DEF Tick
<1>13. CASE Sync
  <2>1. SUFFICES ASSUME ~raced' PROVE InOrder'
    BY DEF InOrder
  <2>2. raced' = (raced \/ start \in {"choose", "rfs", "mmc", "set"})
    BY <1>13 DEF Sync
  <2>3. ~raced /\ start \notin {"choose", "rfs", "mmc", "set"}
    BY <2>1, <2>2, Zenon
  <2> QED
    BY <1>13, <2>3 DEF Sync
<1>14. CASE Reset
  BY <1>14 DEF Reset, Boot
<1>15. ASSUME NEW b \in Builds, Upgrade(b) PROVE InOrder'
  BY <1>15 DEF Upgrade, Boot
<1>16. CASE UNCHANGED vars
  BY <1>16 DEF vars
<1> QED
  BY <1>1, <1>2, <1>3, <1>4, <1>5, <1>6, <1>7, <1>8, <1>9, <1>10, <1>11, <1>12, <1>13, <1>14, <1>15, <1>16
     DEF Next, DateTimeStart, DateTimeUpdate

LEMMA KeptNext ==
  ASSUME DateTimeAssumption, ClockInv, [Next]_vars
  PROVE  StampKept'
<1> USE Bounds DEF TypeOK, Times, Missing, time, stamps, programs, history, Late, InSetting, Stamping, InOrder, ClockInv, StampKept
<1>1. CASE Check
  BY <1>1 DEF Check
<1>2. CASE Choose
  BY <1>2 DEF Choose
<1>3. CASE SetFromRfs
  BY <1>3 DEF SetFromRfs
<1>4. CASE StampAfterRfs
  BY <1>4 DEF StampAfterRfs, TouchMmc, Later
<1>5. CASE ReadMmc
  BY <1>5 DEF ReadMmc
<1>6. CASE SetFromMmc
  BY <1>6 DEF SetFromMmc
<1>7. CASE Wake
  BY <1>7 DEF Wake
<1>8. CASE TouchTemp
  BY <1>8 DEF TouchTemp
<1>9. CASE Test
  BY <1>9 DEF Test
<1>10. CASE Stamp
  BY <1>10 DEF Stamp, TouchMmc, Later
<1>11. CASE Remove
  BY <1>11 DEF Remove
<1>12. CASE Tick
  BY <1>12 DEF Tick
<1>13. CASE Sync
  BY <1>13 DEF Sync
<1>14. CASE Reset
  BY <1>14 DEF Reset, Boot
<1>15. ASSUME NEW b \in Builds, Upgrade(b) PROVE StampKept'
  BY <1>15 DEF Upgrade, Boot
<1>16. CASE UNCHANGED vars
  BY <1>16 DEF vars
<1> QED
  BY <1>1, <1>2, <1>3, <1>4, <1>5, <1>6, <1>7, <1>8, <1>9, <1>10, <1>11, <1>12, <1>13, <1>14, <1>15, <1>16
     DEF Next, DateTimeStart, DateTimeUpdate

LEMMA ClockInit ==
  ASSUME DateTimeAssumption, Init
  PROVE  ClockInv
<1> USE Bounds DEF Init, Times, Missing, InSetting
<1>1. TypeOK
  BY DEF TypeOK
<1>2. Late
  BY DEF Late
<1>3. Stamping
  BY DEF Stamping
<1>4. InOrder
  BY DEF InOrder
<1>5. StampKept /\ ClockRestored
  BY DEF StampKept, ClockRestored
<1> QED
  BY <1>1, <1>2, <1>3, <1>4, <1>5 DEF ClockInv

LEMMA ClockNext ==
  ASSUME DateTimeAssumption, ClockInv, [Next]_vars
  PROVE  ClockInv'
<1>1. TypeOK' /\ Late' /\ Stamping'
  BY TypeNext, LateNext, StampingNext DEF ClockInv
<1>2. InOrder' /\ StampKept'
  BY OrderNext, KeptNext
<1>3. ClockRestored'
  BY <1>1, <1>2 DEF TypeOK, InOrder, StampKept, ClockRestored
<1> QED
  BY <1>1, <1>2, <1>3 DEF ClockInv

(* After datetime_start the clock is not behind any stamp nor the release, *)
(* however many resets and upgrades there were and wherever they hit, but  *)
(* where NTP set the clock while it was being set from a stamp.            *)
THEOREM ClockIsRestored == ASSUME DateTimeAssumption PROVE Spec => []ClockRestored
<1>1. Init => ClockInv
  BY ClockInit
<1>2. ClockInv /\ [Next]_vars => ClockInv'
  BY ClockNext
<1>3. ClockInv => ClockRestored
  BY DEF ClockInv
<1> QED
  BY <1>1, <1>2, <1>3, PTL DEF Spec
=============================================================================
