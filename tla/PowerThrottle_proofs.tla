------------------------ MODULE PowerThrottle_proofs ------------------------
(***************************************************************************)
(* Proofs about PowerThrottle, for every number of CPUs, every queue and   *)
(* every bound on the faults; and, at the end, about both services of      *)
(* MCServices side by side.                                                *)
(***************************************************************************)
EXTENDS MCServices, SequenceTheorems, TLAPS

LEMMA CpusType == NumCpus \in Nat \ {0} /\ Cpus \subseteq 1 .. AllCpus
  BY PowerThrottleAssumption DEF NumCpus, Cpus

LEMMA StateType == State \in Governors
  BY DEF State, Governors

LEMMA TypeInit == Init => TypeOK
<1> SUFFICES ASSUME Init PROVE TypeOK
  OBVIOUS
<1> USE CpusType, PowerThrottleAssumption DEF Init
<1>1. queue \in Seq(Levels) /\ Len(queue) <= QueueSize
  OBVIOUS
<1>2. governor \in [1 .. AllCpus -> Governors] /\ prev_state \in Governors
  BY DEF Governors
<1>3. cpu \in 1 .. NumCpus + 1
  OBVIOUS
<1>4. pc \in Listening \cup {"start", "exited"} /\ faults \in 0 .. MaxFaults
  BY DEF Listening
<1>5. gpio_set \in BOOLEAN /\ missed \in BOOLEAN /\ stale \in BOOLEAN
  BY Zenon
<1> QED
  BY <1>1, <1>2, <1>3, <1>4, <1>5 DEF TypeOK

LEMMA TypeNext == TypeOK /\ LoopInv /\ [Next]_vars => TypeOK'
<1> SUFFICES ASSUME TypeOK, LoopInv, [Next]_vars PROVE TypeOK'
  OBVIOUS
<1> USE CpusType, PowerThrottleAssumption DEF TypeOK, Listening
<1>1. CASE Start
  <2>1. queue' \in Seq(Levels) /\ Len(queue') <= QueueSize
    BY <1>1 DEF Start
  <2>2. gpio_set' \in BOOLEAN /\ missed' \in BOOLEAN /\ stale' \in BOOLEAN
    BY <1>1, Zenon DEF Start
  <2> QED
    BY <1>1, <2>1, <2>2 DEF Start, Governors
<1>2. CASE ReadEdge
  <2>1. queue' \in Seq(Levels) /\ Len(queue') <= QueueSize
    BY <1>2 DEF ReadEdge
  <2>2. gpio_set' \in BOOLEAN
    BY <1>2, Zenon DEF ReadEdge
  <2> QED
    BY <1>2, <2>1, <2>2 DEF ReadEdge
<1>3. CASE ReadSensors
  BY <1>3 DEF ReadSensors
<1>4. CASE Decide
  <2>1. cpu' \in 1 .. NumCpus + 1
    BY <1>4 DEF Decide
  <2>2. stale' \in BOOLEAN
    BY <1>4, Zenon DEF Decide
  <2>3. pc' \in Listening \cup {"start", "exited"}
    BY <1>4 DEF Decide
  <2>4. queue' \in Seq(Levels) /\ Len(queue') <= QueueSize
    BY <1>4 DEF Decide
  <2> QED
    BY <1>4, <2>1, <2>2, <2>3, <2>4, Zenon DEF Decide
<1>5. CASE Apply
  <2>1. cpu' \in 1 .. NumCpus + 1
    <3>1. CASE cpu < NumCpus
      BY <1>5, <3>1 DEF Apply
    <3>2. CASE ~(cpu < NumCpus)
      BY <1>5, <3>2 DEF Apply, LoopInv
    <3> QED
      BY <3>1, <3>2
  <2>2. governor' \in [1 .. AllCpus -> Governors] /\ prev_state' \in Governors
    BY <1>5, StateType DEF Apply
  <2>3. faults' \in 0 .. MaxFaults
    BY <1>5 DEF Apply, Fails
  <2>4. stale' \in BOOLEAN
    BY <1>5, Zenon DEF Apply
  <2>5. pc' \in Listening \cup {"start", "exited"}
    BY <1>5 DEF Apply
  <2>6. UNCHANGED <<line, queue, gpio_set, missed>>
    BY <1>5 DEF Apply
  <2>7. line' \in Levels /\ queue' \in Seq(Levels) /\ Len(queue') <= QueueSize
    BY <2>6
  <2>8. gpio_set' \in BOOLEAN /\ missed' \in BOOLEAN
    BY <2>6
  <2> QED
    BY <2>1, <2>2, <2>3, <2>4, <2>5, <2>7, <2>8, Zenon
<1>6. CASE Restart
  BY <1>6 DEF Restart
<1>7. CASE Exits
  BY <1>7 DEF Exits, Fails
<1>8. CASE LineChanges
  <2>1. line' \in Levels /\ missed' \in BOOLEAN
    BY <1>8 DEF LineChanges
  <2>2. queue' \in Seq(Levels) /\ Len(queue') <= QueueSize
    BY <1>8, <2>1 DEF LineChanges
  <2> QED
    BY <1>8, <2>1, <2>2 DEF LineChanges
<1>9. CASE UNCHANGED vars
  BY <1>9 DEF vars
<1> QED
  BY <1>1, <1>2, <1>3, <1>4, <1>5, <1>6, <1>7, <1>8, <1>9 DEF Next, Program

LEMMA LoopNext == TypeOK /\ LoopInv /\ [Next]_vars => LoopInv'
<1> SUFFICES ASSUME TypeOK, LoopInv, [Next]_vars PROVE LoopInv'
  OBVIOUS
<1> USE CpusType DEF LoopInv, State
<1>1. CASE Start
  BY <1>1 DEF Start
<1>2. CASE ReadEdge
  BY <1>2 DEF ReadEdge
<1>3. CASE ReadSensors
  BY <1>3 DEF ReadSensors
<1>4. CASE Decide
  BY <1>4 DEF Decide
<1>5. CASE Apply
  BY <1>5 DEF Apply, TypeOK
<1>6. CASE Restart
  BY <1>6 DEF Restart
<1>7. CASE Exits
  BY <1>7 DEF Exits
<1>8. CASE LineChanges
  BY <1>8 DEF LineChanges
<1>9. CASE UNCHANGED vars
  BY <1>9 DEF vars
<1> QED
  BY <1>1, <1>2, <1>3, <1>4, <1>5, <1>6, <1>7, <1>8, <1>9 DEF Next, Program

LEMMA TailKeepsLast ==
  ASSUME NEW S, NEW seq \in Seq(S), seq # <<>>
  PROVE  IF Len(seq) = 1
           THEN Tail(seq) = <<>> /\ Head(seq) = seq[Len(seq)]
           ELSE Tail(seq) # <<>> /\ Tail(seq)[Len(Tail(seq))] = seq[Len(seq)]
<1>1. Len(seq) \in Nat \ {0}
  BY EmptySeq
<1>2. /\ Tail(seq) \in Seq(S) /\ Len(Tail(seq)) = Len(seq) - 1
      /\ \A i \in 1 .. Len(Tail(seq)) : Tail(seq)[i] = seq[i + 1]
  BY HeadTailProperties
<1>3. CASE Len(seq) = 1
  <2>1. Tail(seq) # <<>> => Len(Tail(seq)) \in Nat \ {0}
    BY <1>2, EmptySeq
  <2>2. Tail(seq) = <<>>
    BY <2>1, <1>2, <1>3
  <2> QED
    BY <2>2, <1>3
<1>4. CASE Len(seq) # 1
  <2>0. Len(<<>>) = 0 /\ Len(Tail(seq)) # 0
    BY <1>1, <1>2, <1>4, EmptySeq
  <2>1. Tail(seq) # <<>>
    BY <2>0, Zenon
  <2>2. Len(Tail(seq)) \in 1 .. Len(Tail(seq)) /\ Len(Tail(seq)) + 1 = Len(seq)
    BY <1>1, <1>2, <1>4
  <2> QED
    BY <2>1, <2>2, <1>2, <1>4
<1> QED
  BY <1>3, <1>4

LEMMA EdgesNext == TypeOK /\ EdgesTell /\ [Next]_vars => EdgesTell'
<1> SUFFICES ASSUME TypeOK, EdgesTell, [Next]_vars PROVE EdgesTell'
  OBVIOUS
<1> USE DEF EdgesTell, Listening
<1>1. CASE Start
  BY <1>1 DEF Start, TypeOK, Levels
<1>2. CASE ReadEdge
  <2>1. queue \in Seq(Levels) /\ queue # <<>> /\ queue' = Tail(queue)
    BY <1>2 DEF ReadEdge, TypeOK
  <2>2. CASE Len(queue) = 1
    <3>1. queue' = <<>> /\ Head(queue) = queue[Len(queue)]
      BY <2>1, <2>2, TailKeepsLast
    <3> QED
      BY <1>2, <3>1 DEF ReadEdge
  <2>3. CASE Len(queue) # 1
    <3>1. queue' # <<>> /\ queue'[Len(queue')] = queue[Len(queue)]
      BY <2>1, <2>3, TailKeepsLast
    <3> QED
      BY <1>2, <3>1 DEF ReadEdge
  <2> QED
    BY <2>2, <2>3
<1>3. CASE ReadSensors
  BY <1>3 DEF ReadSensors
<1>4. CASE Decide
  BY <1>4 DEF Decide
<1>5. CASE Apply
  BY <1>5 DEF Apply
<1>6. CASE Restart
  BY <1>6 DEF Restart
<1>7. CASE Exits
  BY <1>7 DEF Exits
<1>8. CASE LineChanges
  <2>1. CASE pc \in Listening /\ Len(queue) < QueueSize
    <3>1. queue' = Append(queue, line') /\ queue \in Seq(Levels) /\ line' \in Levels
      BY <1>8, <2>1 DEF LineChanges, TypeOK
    <3>2. queue' # <<>> /\ queue'[Len(queue')] = line'
      BY <3>1
    <3> QED
      BY <3>2
  <2>2. CASE ~(pc \in Listening /\ Len(queue) < QueueSize)
    BY <1>8, <2>2 DEF LineChanges
  <2> QED
    BY <2>1, <2>2
<1>9. CASE UNCHANGED vars
  BY <1>9 DEF vars
<1> QED
  BY <1>1, <1>2, <1>3, <1>4, <1>5, <1>6, <1>7, <1>8, <1>9 DEF Next, Program

LEMMA GovernorsNext ==
  TypeOK /\ LoopInv /\ GovernorsKept /\ [Next]_vars => GovernorsKept'
<1> SUFFICES ASSUME TypeOK, LoopInv, GovernorsKept, [Next]_vars PROVE GovernorsKept'
  OBVIOUS
<1> USE CpusType DEF GovernorsKept, State
<1>1. CASE Start
  BY <1>1 DEF Start
<1>2. CASE ReadEdge
  BY <1>2 DEF ReadEdge
<1>3. CASE ReadSensors
  BY <1>3 DEF ReadSensors
<1>4. CASE Decide
  BY <1>4 DEF Decide, Cpus
<1>5. CASE Apply
  <2> SUFFICES ASSUME ~stale', NEW c \in Cpus
               PROVE  /\ (pc' # "apply" => governor'[c] = prev_state')
                      /\ (pc' = "apply" /\ c < cpu' => governor'[c] = State)
    BY <1>5 DEF Apply, Cpus, NumCpus
  <2>1. governor' = [governor EXCEPT ![cpu] = State] /\ ~stale
    BY <1>5 DEF Apply
  <2>2. governor \in [1 .. AllCpus -> Governors] /\ c \in 1 .. AllCpus /\ c \in Nat /\ cpu \in Nat
    BY DEF TypeOK, Cpus
  <2>3. c < cpu + 1 => governor'[c] = State
    BY <1>5, <2>1, <2>2 DEF Apply
  <2> QED
    BY <1>5, <2>2, <2>3 DEF Apply, LoopInv, Cpus
<1>6. CASE Restart
  BY <1>6 DEF Restart
<1>7. CASE Exits
  BY <1>7 DEF Exits
<1>8. CASE LineChanges
  BY <1>8 DEF LineChanges
<1>9. CASE UNCHANGED vars
  BY <1>9 DEF vars
<1> QED
  BY <1>1, <1>2, <1>3, <1>4, <1>5, <1>6, <1>7, <1>8, <1>9 DEF Next, Program

LEMMA InvInit == Init => ThrottleInv
<1> SUFFICES ASSUME Init PROVE ThrottleInv
  OBVIOUS
<1>1. TypeOK
  BY TypeInit
<1>2. LoopInv /\ EdgesTell
  BY DEF Init, LoopInv, EdgesTell, Listening, State
<1>3. GovernorsKept
  BY CpusType DEF Init, GovernorsKept
<1> QED
  BY <1>1, <1>2, <1>3 DEF ThrottleInv

(* The inductive invariant of power_throttle.                              *)
THEOREM InvCorrect == Spec => []ThrottleInv
<1>1. ThrottleInv /\ [Next]_vars => ThrottleInv'
  BY TypeNext, LoopNext, EdgesNext, GovernorsNext DEF ThrottleInv
<1> QED
  BY InvInit, <1>1, PTL DEF Spec

(* The variables of power_throttle keep their types, and its loop over the *)
(* CPUs stays within those in use.                                         *)
THEOREM TypeCorrect == Spec => []TypeOK
<1>1. ThrottleInv => TypeOK
  BY DEF ThrottleInv
<1> QED
  BY InvCorrect, <1>1, PTL

(* Whenever power_throttle waits with no edge unread, the CPUs run as the  *)
(* line asks, but for the two exceptions the program does not exclude.     *)
THEOREM FollowsLine == Spec => []GovernorsFollowLine
<1>1. ThrottleInv => GovernorsFollowLine
  <2> SUFFICES ASSUME ThrottleInv, pc = "poll", queue = <<>>, ~missed, ~stale, NEW c \in Cpus
               PROVE  governor[c] = IF line = "low" THEN "powersave" ELSE "ondemand"
    BY DEF GovernorsFollowLine
  <2>1. gpio_set = (line = "low")
    BY DEF ThrottleInv, EdgesTell, Listening
  <2>2. governor[c] = State
    <3>1. prev_state = State
      BY DEF ThrottleInv, LoopInv
    <3>2. governor[c] = prev_state
      BY DEF ThrottleInv, GovernorsKept
    <3> QED
      BY <3>1, <3>2
  <2>3. CASE line = "low"
    BY <2>1, <2>2, <2>3 DEF State
  <2>4. CASE line # "low"
    BY <2>1, <2>2, <2>4 DEF State
  <2> QED
    BY <2>3, <2>4
<1> QED
  BY InvCorrect, <1>1, PTL

-----------------------------------------------------------------------------
(* The refinement of Throttling: its variables as PowerThrottle sees them. *)
GovernorBar == [c \in Cpus |-> governor[c]]
WantedBar == IF stale THEN "unknown" ELSE IF pc = "apply" THEN State ELSE prev_state

LEMMA StutterRefines ==
  ASSUME UNCHANGED governor, WantedBar' = WantedBar
  PROVE  [Promise!Next]_(Promise!vars)
BY DEF Promise!vars, WantedBar

LEMMA PromiseInit == Init => Promise!Init
BY CpusType DEF Init, Promise!Init

LEMMA PromiseStart ==
  ASSUME TypeOK, GovernorsKept, Start
  PROVE  [Promise!Next]_(Promise!vars)
<1>1. GovernorBar' = GovernorBar /\ pc = "start" /\ pc' = "poll" /\ prev_state' = "ondemand"
  BY DEF Start, GovernorBar
<1>2. CASE stale'
  BY <1>1, <1>2 DEF Promise!Next, Promise!Lose, GovernorBar
<1>3. CASE ~stale'
  <2>1. ~stale => \A c \in Cpus : GovernorBar[c] = prev_state
    BY <1>1 DEF GovernorsKept, GovernorBar
  <2>2. Promise!Request
    BY <1>1, <1>3, <2>1 DEF Promise!Request, Promise!CarriedOut, Promise!Governors, GovernorBar
  <2> QED
    BY <2>2 DEF Promise!Next
<1> QED
  BY <1>2, <1>3

LEMMA PromiseDecide ==
  ASSUME TypeOK, GovernorsKept, Decide
  PROVE  [Promise!Next]_(Promise!vars)
<1>1. CASE State = prev_state
  BY <1>1, StutterRefines DEF Decide, WantedBar
<1>2. CASE State # prev_state
  <2>1. UNCHANGED <<governor, gpio_set>> /\ pc = "decide" /\ pc' = "apply" /\ ~stale'
    BY <1>2 DEF Decide
  <2>2. GovernorBar' = GovernorBar /\ State' = State
    BY <2>1 DEF GovernorBar, State
  <2>3. ~stale => \A c \in Cpus : GovernorBar[c] = prev_state
    BY <2>1 DEF GovernorsKept, GovernorBar
  <2>4. Promise!Request
    BY <2>1, <2>2, <2>3, StateType
    DEF Promise!Request, Promise!CarriedOut, Promise!Governors, Governors, GovernorBar
  <2> QED
    BY <2>4 DEF Promise!Next
<1> QED
  BY <1>1, <1>2

LEMMA PromiseApply ==
  ASSUME TypeOK, LoopInv, Apply
  PROVE  [Promise!Next]_(Promise!vars)
<1>1. cpu \in Cpus /\ pc = "apply" /\ State' = State
  BY CpusType DEF TypeOK, LoopInv, Apply, Cpus, State
<1>2. IF pc' = "apply" THEN prev_state' = prev_state ELSE prev_state' = State
  BY DEF Apply
<1>3. CASE governor' = [governor EXCEPT ![cpu] = State] /\ stale' = stale
  <2>1. GovernorBar' = [GovernorBar EXCEPT ![cpu] = State]
    BY <1>1, <1>3, CpusType DEF GovernorBar, TypeOK
  <2>2. WantedBar' = WantedBar
    BY <1>1, <1>2, <1>3 DEF WantedBar
  <2>3. CASE stale
    <3>1. Promise!Stray(cpu)
      BY <2>1, <2>2, <2>3, StateType
      DEF Promise!Stray, Promise!Governors, Governors, GovernorBar, WantedBar
    <3> QED
      BY <1>1, <3>1 DEF Promise!Next, Promise!Stray, GovernorBar, WantedBar
  <2>4. CASE ~stale
    <3>1. WantedBar = State /\ State # "unknown"
      BY <1>1, <2>4, StateType DEF WantedBar, Governors
    <3>2. Promise!Set(cpu)
      BY <2>1, <2>2, <3>1 DEF Promise!Set, GovernorBar, WantedBar
    <3> QED
      BY <1>1, <3>2 DEF Promise!Next, Promise!Set, GovernorBar, WantedBar
  <2> QED
    BY <2>3, <2>4
<1>4. CASE governor' = governor /\ stale' = TRUE
  BY <1>4 DEF Promise!Next, Promise!Lose
<1> QED
  BY <1>3, <1>4 DEF Apply

LEMMA PromiseNext ==
  TypeOK /\ LoopInv /\ GovernorsKept /\ [Next]_vars => [Promise!Next]_(Promise!vars)
<1> SUFFICES ASSUME TypeOK, LoopInv, GovernorsKept, [Next]_vars
             PROVE  [Promise!Next]_(Promise!vars)
  OBVIOUS
<1>1. CASE Start
  BY <1>1, PromiseStart
<1>2. CASE Decide
  BY <1>2, PromiseDecide
<1>3. CASE Apply
  BY <1>3, PromiseApply
<1>4. CASE ReadEdge \/ ReadSensors \/ Restart
  BY <1>4, StutterRefines DEF ReadEdge, ReadSensors, Restart, WantedBar
<1>5. CASE Exits
  BY <1>5, StutterRefines DEF Exits, WantedBar
<1>6. CASE LineChanges
  BY <1>6, StutterRefines DEF LineChanges, WantedBar, State
<1>7. CASE UNCHANGED vars
  BY <1>7, StutterRefines DEF vars, WantedBar, State
<1> QED
  BY <1>1, <1>2, <1>3, <1>4, <1>5, <1>6, <1>7 DEF Next, Program

(* power_throttle implements Throttling: a request of the SuC is carried   *)
(* out on every CPU before the next one is looked at.                      *)
THEOREM PromiseKept == Spec => KeepsPromise
<1>1. ThrottleInv => TypeOK /\ LoopInv /\ GovernorsKept
  BY DEF ThrottleInv
<1> QED
  BY InvCorrect, PromiseInit, PromiseNext, <1>1, PTL DEF Spec, KeepsPromise, Promise!Spec

-----------------------------------------------------------------------------
(* The two services of MCServices: each behaves in it as it does alone, so *)
(* that what is proved of it alone holds there.                            *)
ClockAlone == INSTANCE DateTime_proofs

LEMMA SameClock ==
  /\ Clock!Init => ClockAlone!Init
  /\ Clock!Next => ClockAlone!Next
  /\ clockVars' = clockVars => ClockAlone!vars' = ClockAlone!vars
  /\ Clock!DateTimeAssumption => ClockAlone!DateTimeAssumption
<1>1. Clock!Init => ClockAlone!Init
  BY DEF Clock!Init, ClockAlone!Init, Clock!Missing, ClockAlone!Missing
<1>2. Clock!Next => ClockAlone!Next
  BY Zenon
     DEF Clock!Next, Clock!DateTimeStart, Clock!DateTimeUpdate, Clock!time, Clock!stamps,
         Clock!programs, Clock!history, Clock!Missing, Clock!Later, Clock!TouchMmc, Clock!Check,
         Clock!Choose, Clock!SetFromRfs, Clock!StampAfterRfs, Clock!ReadMmc, Clock!SetFromMmc,
         Clock!Wake, Clock!TouchTemp, Clock!Test, Clock!TestNothing, Clock!TestOlder,
         Clock!Stamp, Clock!Remove, Clock!Tick, Clock!Sync, Clock!Boot, Clock!Reset,
         Clock!Upgrade,
         ClockAlone!Next, ClockAlone!DateTimeStart, ClockAlone!DateTimeUpdate, ClockAlone!time,
         ClockAlone!stamps, ClockAlone!programs, ClockAlone!history, ClockAlone!Missing,
         ClockAlone!Later, ClockAlone!TouchMmc, ClockAlone!Check, ClockAlone!Choose,
         ClockAlone!SetFromRfs, ClockAlone!StampAfterRfs, ClockAlone!ReadMmc,
         ClockAlone!SetFromMmc, ClockAlone!Wake, ClockAlone!TouchTemp, ClockAlone!Test,
         ClockAlone!TestNothing, ClockAlone!TestOlder, ClockAlone!Stamp, ClockAlone!Remove,
         ClockAlone!Tick, ClockAlone!Sync, ClockAlone!Boot, ClockAlone!Reset, ClockAlone!Upgrade
<1>3. clockVars' = clockVars => ClockAlone!vars' = ClockAlone!vars
  BY DEF clockVars, ClockAlone!vars, ClockAlone!time, ClockAlone!stamps, ClockAlone!programs,
         ClockAlone!history
<1>4. Clock!DateTimeAssumption => ClockAlone!DateTimeAssumption
  BY DEF Clock!DateTimeAssumption, ClockAlone!DateTimeAssumption
<1> QED
  BY <1>1, <1>2, <1>3, <1>4

(* Neither service disturbs the other: what runs side by side is a         *)
(* behaviour of power_throttle and one of the clock.                       *)
THEOREM ServicesAreBoth == ServicesSpec => Spec /\ ClockAlone!Spec
<1>1. ServicesInit => Init /\ ClockAlone!Init
  BY SameClock DEF ServicesInit
<1>2. [ServicesNext]_<<unit, vars, clockVars>> => [Next]_vars /\ [ClockAlone!Next]_ClockAlone!vars
  BY SameClock DEF ServicesNext
<1> QED
  BY <1>1, <1>2, PTL DEF ServicesSpec, Spec, ClockAlone!Spec

(* The clock that datetime_start leaves is behind no stamp, beside         *)
(* power_throttle too.                                                     *)
THEOREM ClockIsRestored == ServicesSpec => []ClockRestored
<1>1. ClockAlone!DateTimeAssumption
  BY ClockAssumption, SameClock
<1>2. ClockAlone!Spec => []ClockAlone!ClockRestored
  BY <1>1, ClockAlone!ClockIsRestored
<1>3. ClockAlone!ClockRestored => ClockRestored
  BY DEF ClockRestored, Clock!ClockRestored, ClockAlone!ClockRestored
<1> QED
  BY <1>2, <1>3, ServicesAreBoth, PTL

(* power_throttle keeps its properties beside the clock.                   *)
THEOREM ThrottleStays == ServicesSpec => []GovernorsFollowLine /\ KeepsPromise
  BY ServicesAreBoth, FollowsLine, PromiseKept, PTL
=============================================================================
