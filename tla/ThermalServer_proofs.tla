------------------------- MODULE ThermalServer_proofs -------------------------
(***************************************************************************)
(* What ThermalServer keeps for any number of connections, sensors,        *)
(* requests and faults: undisturbed readings are told in full, and the     *)
(* loads are as pidof and the answers said.                                *)
(***************************************************************************)
EXTENDS ThermalServer, FiniteSetTheorems, TLAPS

USE ThermalServerAssumption

LEMMA LoadInit == Init => LoadInv
BY DEF Init, LoadInv, CheckHolds, Answer, Pcs, Reading, Loading, Stopping, Idle,
       SUCCESS, FAILURE, PROCESS_RUNNING

-----------------------------------------------------------------------------
(* Readings. *)
LEMMA SensorInit == Init => SensorInv
<1> SUFFICES ASSUME Init PROVE SensorInv
  OBVIOUS
<1>1. ServerTypes
  <2>1. Indexed(load_response) /\ Indexed(reply)
    BY DEF Init, Indexed
  <2>2. pc \in [Clients -> Pcs]
    BY DEF Init, Pcs, Idle
  <2>3. ret \in [Clients -> {0, -1}] /\ count \in [Clients -> Nat]
        /\ buf \in [Clients -> Nat] /\ size \in [Clients -> Nat]
    BY DEF Init
  <2>4. max_sensors \in Nat /\ cursor \in 1 .. NumSensors + 1
        /\ sensor_data \in [1 .. TableSize -> Nat]
    BY DEF Init, Unset
  <2> QED
    BY <2>1, <2>2, <2>3, <2>4 DEF ServerTypes
<1>2. \A t \in Clients : pc[t] = "closed"
  BY DEF Init
<1>3. ReadersKnown
  BY <1>2 DEF ReadersKnown, Reading
<1>4. \A t \in Clients : Progress(t) /\ Replied(t)
  BY <1>2 DEF Progress, Replied
<1> QED
  BY <1>1, <1>3, <1>4 DEF SensorInv

(* A step that leaves the readings alone: of a thread outside them, to a   *)
(* place outside them. *)
LEMMA Elsewhere ==
  ASSUME SensorInv, NEW t \in Clients,
         NEW p \in Pcs \ (Reading \cup {"rp_send"}), Go(t, p),
         Indexed(load_response)', UNCHANGED <<locals, shared, overlapped>>
  PROVE  SensorInv'
<1>1. ServerTypes'
  BY DEF SensorInv, ServerTypes, Go, locals, shared, Indexed
<1>2. pc'[t] = p /\ \A c \in Clients \ {t} : pc'[c] = pc[c]
  BY DEF SensorInv, ServerTypes, Go
<1>3. ReadersKnown'
  BY <1>2 DEF SensorInv, ReadersKnown
<1>4. ASSUME NEW c \in Clients \ overlapped' PROVE Progress(c)' /\ Replied(c)'
  <2>1. CASE c = t
    BY <2>1, <1>2 DEF Progress, Replied, Reading
  <2>2. CASE c # t
    BY <2>2, <1>2 DEF SensorInv, Progress, Replied, Listed, locals, shared
  <2> QED
    BY <2>1, <2>2
<1> QED
  BY <1>1, <1>3, <1>4 DEF SensorInv

(* A step of a reading disturbs no undisturbed reading but its own.  The   *)
(* thread stays among the readers or answers, and what the others hold in  *)
(* their locals is left alone. *)
LEMMA Others ==
  ASSUME SensorInv, NEW t \in Clients, pc[t] \in Reading,
         NEW p \in Reading \cup {"rp_send", "gone"}, Go(t, p), UNCHANGED overlapped,
         \A c \in Clients \ {t} :
           ret'[c] = ret[c] /\ count'[c] = count[c] /\ buf'[c] = buf[c]
           /\ size'[c] = size[c] /\ reply'[c] = reply[c],
         ServerTypes',
         t \notin overlapped => Progress(t)' /\ Replied(t)'
  PROVE  SensorInv'
<1>1. pc'[t] = p /\ \A c \in Clients \ {t} : pc'[c] = pc[c]
  BY DEF SensorInv, ServerTypes, Go
<1>2. ReadersKnown'
  BY <1>1 DEF SensorInv, ReadersKnown
<1>3. ASSUME NEW c \in Clients \ overlapped' PROVE Progress(c)' /\ Replied(c)'
  <2>1. CASE c = t
    BY <2>1
  <2>2. CASE c # t
    <3>1. pc[c] \notin Reading
      BY <2>2 DEF SensorInv, ReadersKnown
    <3>2. Progress(c)'
      BY <3>1, <2>2, <1>1 DEF Progress, Reading
    <3>3. Replied(c)
      BY DEF SensorInv
    <3>4. pc'[c] # "copy"
      BY <3>1, <2>2, <1>1 DEF Reading
    <3>5. Replied(c)'
      BY <3>3, <3>4, <2>2, <1>1 DEF Replied
    <3> QED
      BY <3>2, <3>5
  <2> QED
    BY <2>1, <2>2
<1> QED
  BY <1>2, <1>3 DEF SensorInv

LEMMA SdFailsStep ==
  ASSUME SensorInv, NEW t \in Clients, SdFails(t)
  PROVE  SensorInv'
<1> USE DEF SensorInv, SdFails, Go, Reading
<1>1. ServerTypes'
  BY DEF ServerTypes, Indexed, Pcs, locals, shared
<1>2. pc'[t] = "size"
  BY DEF ServerTypes
<1>3. ASSUME t \notin overlapped PROVE Progress(t)' /\ Replied(t)'
  BY <1>2, <1>3 DEF ServerTypes, Progress, Replied, Listed, locals, shared, Status
<1> QED
  BY <1>1, <1>3, Others DEF ServerTypes, locals, shared, history

LEMMA SdVerifyStep ==
  ASSUME SensorInv, NEW t \in Clients, SdVerify(t)
  PROVE  SensorInv'
<1> USE DEF SensorInv, SdVerify, Go, Reading
<1>1. ServerTypes'
  BY DEF ServerTypes, Indexed, Pcs, locals, shared
<1>2. pc'[t] = "start"
  BY DEF ServerTypes
<1>3. ASSUME t \notin overlapped PROVE Progress(t)' /\ Replied(t)'
  BY <1>2, <1>3 DEF ServerTypes, Progress, Replied, Listed, locals, shared, Status
<1> QED
  BY <1>1, <1>3, Others DEF ServerTypes, locals, shared, history

LEMMA SdStartStep ==
  ASSUME SensorInv, NEW t \in Clients, SdStart(t)
  PROVE  SensorInv'
<1> USE DEF SensorInv, SdStart, Go, Reading
<1>1. ServerTypes'
  BY DEF ServerTypes, Indexed, Pcs, locals, shared
<1>2. pc'[t] = "first"
  BY DEF ServerTypes
<1>3. ASSUME t \notin overlapped PROVE Progress(t)' /\ Replied(t)'
  BY <1>2, <1>3 DEF ServerTypes, Progress, Replied, Listed, locals, shared, Status
<1> QED
  BY <1>1, <1>3, Others DEF ServerTypes, locals, shared, history

LEMMA SdReadStep ==
  ASSUME SensorInv, NEW t \in Clients, SdRead(t)
  PROVE  SensorInv'
<1> USE DEF SensorInv, SdRead, Go, Reading
<1>1. ServerTypes'
  <2>1. pc' \in [Clients -> Pcs]
    <3>1. PICK p \in Pcs : pc' = [pc EXCEPT ![t] = p]
      BY DEF Pcs
    <3> QED
      BY <3>1 DEF ServerTypes
  <2>2. buf' \in [Clients -> Nat]
    BY DEF ServerTypes
  <2> QED
    BY <2>1, <2>2 DEF ServerTypes, Indexed, shared
<1>2. pc'[t] \in {"reset", "store", "total"}
  BY DEF ServerTypes
<1>3. ASSUME t \notin overlapped PROVE Progress(t)' /\ Replied(t)'
  BY <1>2, <1>3 DEF ServerTypes, Progress, Replied, Listed, locals, shared, Status
<1> QED
  BY <1>1, <1>3, Others DEF ServerTypes, locals, shared, history

LEMMA SdResetStep ==
  ASSUME SensorInv, NEW t \in Clients, SdReset(t)
  PROVE  SensorInv'
<1> USE DEF SensorInv, SdReset, Go, Reading
<1>1. ServerTypes'
  BY DEF ServerTypes, Indexed, Pcs, locals, shared
<1>2. pc'[t] \in {"store", "total"}
  BY DEF ServerTypes
<1>3. ASSUME t \notin overlapped PROVE Progress(t)' /\ Replied(t)'
  <2>1. Status(buf[t]) = 0
    BY <1>3 DEF Progress, Status
  <2>2. pc'[t] = "store" /\ count'[t] = 0 /\ cursor' = 1 /\ buf'[t] = 1
    BY <1>3, <2>1 DEF ServerTypes, Progress
  <2>3. Listed(0)'
    BY DEF Listed
  <2> QED
    BY <2>2, <2>3 DEF Progress, Replied
<1> QED
  BY <1>1, <1>3, Others DEF ServerTypes, locals, shared, history

LEMMA SdStoreTypes ==
  ASSUME SensorInv, NEW t \in Clients, SdStore(t)
  PROVE  ServerTypes'
<1>1. pc' \in [Clients -> Pcs]
  BY DEF SensorInv, ServerTypes, SdStore, Go, Pcs, Reading, Idle
<1>2. count' \in [Clients -> Nat] /\ max_sensors' \in Nat
  BY DEF SensorInv, ServerTypes, SdStore
<1>3. sensor_data' \in [1 .. TableSize -> Nat]
  BY DEF SensorInv, ServerTypes, SdStore
<1> QED
  BY <1>1, <1>2, <1>3 DEF SensorInv, ServerTypes, SdStore, Indexed

LEMMA SdStoreStep ==
  ASSUME SensorInv, NEW t \in Clients, SdStore(t), pc' # [c \in Clients |-> "gone"]
  PROVE  SensorInv'
<1>1. pc[t] = "store" /\ Go(t, "next") /\ UNCHANGED <<cursor, overlapped>>
  BY DEF SdStore, history
<1>2. pc'[t] = "next"
  BY <1>1 DEF SensorInv, ServerTypes, Go
<1>3. ASSUME t \notin overlapped PROVE Progress(t)' /\ Replied(t)'
  <2>1. count[t] < NumSensors /\ cursor = count[t] + 1 /\ buf[t] = cursor /\ Listed(count[t])
    BY <1>1, <1>3 DEF SensorInv, Progress
  <2>2. count[t] \in Nat /\ count[t] < TableSize /\ count[t] + 1 # CountSize
    BY <2>1 DEF SensorInv, ServerTypes
  <2>3. count'[t] = count[t] + 1
    BY <2>2 DEF SensorInv, ServerTypes, SdStore
  <2>4. Listed(count[t])'
    <3>1. sensor_data' = [sensor_data EXCEPT ![count[t] + 1] = count[t] + 1]
      BY <2>1, <2>2 DEF SdStore
    <3> QED
      BY <2>1, <2>2, <2>3, <3>1 DEF SensorInv, ServerTypes, Listed
  <2>5. count[t] + 1 <= NumSensors
    BY <2>1, <2>2
  <2> QED
    BY <1>1, <1>2, <2>1, <2>3, <2>4, <2>5 DEF Progress, Replied
<1>4. \A c \in Clients \ {t} :
        ret'[c] = ret[c] /\ count'[c] = count[c] /\ buf'[c] = buf[c]
        /\ size'[c] = size[c] /\ reply'[c] = reply[c]
  BY DEF SdStore, SensorInv, ServerTypes
<1> QED
  BY <1>1, <1>3, <1>4, SdStoreTypes, Others DEF Reading

LEMMA SdNextStep ==
  ASSUME SensorInv, NEW t \in Clients, SdNext(t)
  PROVE  SensorInv'
<1> USE DEF SensorInv, SdNext, Go, Reading
<1>1. ServerTypes'
  BY SMTT(30) DEF ServerTypes, Indexed, Pcs, locals, shared
<1>2. pc'[t] = "read"
  BY DEF ServerTypes
<1>3. ASSUME t \notin overlapped PROVE Progress(t)' /\ Replied(t)'
  <2>1. cursor = count[t] /\ count[t] <= NumSensors /\ Listed(count[t])
    BY <1>3 DEF Progress
  <2>2. cursor' = count[t] + 1 /\ count' = count
    BY <2>1 DEF ServerTypes, locals
  <2>3. Listed(count[t])'
    BY <2>1, <2>2 DEF Listed
  <2> QED
    BY <1>2, <2>2, <2>3 DEF Progress, Replied
<1> QED
  BY <1>1, <1>3, Others DEF ServerTypes, locals, shared, history

LEMMA SdTotalStep ==
  ASSUME SensorInv, NEW t \in Clients, SdTotal(t)
  PROVE  SensorInv'
<1> USE DEF SensorInv, SdTotal, Go, Reading
<1>1. ServerTypes'
  BY DEF ServerTypes, Indexed, Pcs, locals, shared
<1>2. pc'[t] = "size"
  BY DEF ServerTypes
<1>3. ASSUME t \notin overlapped PROVE Progress(t)' /\ Replied(t)'
  BY <1>2, <1>3 DEF ServerTypes, Progress, Replied, Listed, locals, shared, Status
<1> QED
  BY <1>1, <1>3, Others DEF ServerTypes, locals, shared, history

LEMMA RpSizeStep ==
  ASSUME SensorInv, NEW t \in Clients, RpSize(t)
  PROVE  SensorInv'
<1> USE DEF SensorInv, RpSize, Go, Reading
<1>1. ServerTypes'
  <2>1. pc' \in [Clients -> Pcs] /\ size' \in [Clients -> Nat]
    BY DEF ServerTypes, Pcs, Idle
  <2> QED
    BY <2>1 DEF ServerTypes, Indexed, shared
<1>2. pc'[t] \in {"fill", "gone"}
  BY DEF ServerTypes
<1>3. ASSUME t \notin overlapped PROVE Progress(t)' /\ Replied(t)'
  BY <1>2, <1>3 DEF ServerTypes, Progress, Replied, Listed, locals, shared, Status
<1> QED
  BY <1>1, <1>3, Others DEF ServerTypes, locals, shared, history

LEMMA RpFillStep ==
  ASSUME SensorInv, NEW t \in Clients, RpFill(t)
  PROVE  SensorInv'
<1> USE DEF SensorInv, RpFill, Go, Reading
<1>1. ServerTypes'
  BY DEF ServerTypes, Indexed, Pcs, locals, shared
<1>2. pc'[t] \in {"copy", "rp_send"}
  BY DEF ServerTypes
<1>3. ASSUME t \notin overlapped PROVE Progress(t)' /\ Replied(t)'
  <2>1. size[t] = max_sensors /\ (ret[t] = 0 => max_sensors = NumSensors /\ Listed(NumSensors))
    BY <1>3 DEF Progress
  <2>2. reply'[t].max_sensors = size[t] /\ DOMAIN reply'[t].sensor_data = 1 .. size[t]
    BY <2>1 DEF ServerTypes, Indexed
  <2>3. CASE ret[t] = 0
    <3>1. pc'[t] = "copy"
      BY <2>3 DEF ServerTypes
    <3>2. Listed(NumSensors)'
      BY <2>1, <2>3 DEF Listed, shared
    <3> QED
      BY <2>1, <2>2, <2>3, <3>1, <3>2 DEF Progress, Replied, shared
  <2>4. CASE ret[t] = -1
    <3>1. pc'[t] = "rp_send" /\ reply'[t].response = FAILURE
      BY <2>4 DEF ServerTypes, Indexed
    <3> QED
      BY <2>2, <3>1 DEF Progress, Replied, SUCCESS, FAILURE
  <2> QED
    BY <2>3, <2>4 DEF ServerTypes
<1> QED
  BY <1>1, <1>3, Others DEF ServerTypes, Indexed, Pcs, history

LEMMA RpCopyStep ==
  ASSUME SensorInv, NEW t \in Clients, RpCopy(t), pc' # [c \in Clients |-> "gone"]
  PROVE  SensorInv'
<1> USE DEF SensorInv, RpCopy, Go, Reading
<1>1. ServerTypes'
  BY DEF ServerTypes, Indexed, Pcs, shared
<1>2. pc'[t] = "rp_send"
  BY DEF ServerTypes
<1>3. ASSUME t \notin overlapped PROVE Progress(t)' /\ Replied(t)'
  <2>1. size[t] = NumSensors /\ max_sensors = NumSensors /\ Listed(NumSensors)
    BY <1>3 DEF Progress
  <2>2. reply[t].max_sensors = NumSensors
    BY <1>3 DEF Replied
  <2>3. reply'[t].max_sensors = NumSensors
    BY <2>2 DEF ServerTypes, Indexed
  <2>4. reply'[t].sensor_data = [i \in 1 .. NumSensors |-> i]
    <3>0. reply'[t].sensor_data =
            [i \in 1 .. size[t] |->
              IF i <= max_sensors /\ i <= TableSize THEN sensor_data[i] ELSE Unset]
      <4> DEFINE whole == [response |-> reply[t].response, max_sensors |-> reply[t].max_sensors,
                           sensor_data |-> [i \in 1 .. size[t] |->
                             IF i <= max_sensors /\ i <= TableSize THEN sensor_data[i]
                             ELSE Unset]]
      <4>1. reply' = [reply EXCEPT ![t] = whole]
        OBVIOUS
      <4> HIDE DEF whole
      <4>2. reply'[t] = whole
        BY <4>1 DEF ServerTypes, Indexed
      <4> QED
        BY <4>2 DEF whole
    <3>1. reply'[t].sensor_data =
            [i \in 1 .. NumSensors |->
              IF i <= NumSensors /\ i <= TableSize THEN sensor_data[i] ELSE Unset]
      BY <3>0, <2>1
    <3>2. \A i \in 1 .. NumSensors :
            (IF i <= NumSensors /\ i <= TableSize THEN sensor_data[i] ELSE Unset) = i
      BY <2>1 DEF Listed
    <3> QED
      BY <3>1, <3>2
  <2> QED
    BY <1>2, <2>3, <2>4 DEF Progress, Replied
<1>4. Go(t, "rp_send")
  OBVIOUS
<1> QED
  BY <1>1, <1>3, <1>4, Others DEF ServerTypes, Indexed, history

(* The end of the server. *)
LEMMA Gone ==
  ASSUME pc' = [c \in Clients |-> "gone"], ServerTypes'
  PROVE  SensorInv'
<1>1. ReadersKnown'
  BY DEF ReadersKnown, Reading
<1>2. \A c \in Clients : Progress(c)' /\ Replied(c)'
  BY DEF Progress, Replied
<1> QED
  BY <1>1, <1>2 DEF SensorInv

LEMMA RpSendStep ==
  ASSUME SensorInv, NEW t \in Clients, RpSend(t)
  PROVE  SensorInv'
<1> USE DEF SensorInv, RpSend, Go
<1>1. ServerTypes'
  <2>1. pc' \in [Clients -> Pcs]
    BY DEF ServerTypes, Pcs, Idle
  <2>2. ret' \in [Clients -> {0, -1}] /\ count' \in [Clients -> Nat]
    BY DEF ServerTypes
  <2>3. buf' \in [Clients -> Nat] /\ size' \in [Clients -> Nat]
    BY DEF ServerTypes
  <2> QED
    BY <2>1, <2>2, <2>3 DEF ServerTypes, Indexed, shared
<1>2. pc'[t] \in {"recv", "closed"} /\ \A c \in Clients \ {t} : pc'[c] = pc[c]
  BY DEF ServerTypes
<1>3. ReadersKnown'
  BY <1>2 DEF ReadersKnown, Reading, history
<1>4. ASSUME NEW c \in Clients \ overlapped' PROVE Progress(c)' /\ Replied(c)'
  <2>1. CASE c = t
    BY <2>1, <1>2 DEF Progress, Replied
  <2>2. CASE c # t
    <3>1. ret'[c] = ret[c] /\ count'[c] = count[c] /\ buf'[c] = buf[c]
          /\ size'[c] = size[c] /\ reply'[c] = reply[c]
      BY <2>2 DEF ServerTypes, Indexed
    <3>2. Progress(c) /\ Replied(c)
      BY DEF history
    <3> QED
      BY <2>2, <3>1, <3>2, <1>2 DEF Progress, Replied, Listed, shared
  <2> QED
    BY <2>1, <2>2
<1> QED
  BY <1>1, <1>3, <1>4

LEMMA ReceiveStep ==
  ASSUME SensorInv, NEW t \in Clients, Receive(t)
  PROVE  SensorInv'
<1> USE DEF SensorInv, Go
<1>0. Indexed(load_response)'
  BY DEF Receive, ServerTypes, Indexed, history
<1>1. CASE Go(t, "verify")
  <2> DEFINE others == {c \in Clients \ {t} : pc[c] \in Reading}
  <2>1. overlapped' = IF others = {} THEN overlapped \ {t} ELSE overlapped \cup others \cup {t}
    BY <1>1 DEF Receive, ServerTypes
  <2>2. pc'[t] = "verify" /\ \A c \in Clients \ {t} : pc'[c] = pc[c]
    BY <1>1 DEF ServerTypes
  <2>3. ServerTypes'
    BY <1>0, <1>1 DEF Receive, ServerTypes, Indexed, Pcs, Reading, locals, shared
  <2>4. ReadersKnown'
    BY <2>1, <2>2 DEF ReadersKnown
  <2>5. ASSUME NEW c \in Clients \ overlapped' PROVE Progress(c)' /\ Replied(c)'
    <3>1. CASE c = t
      BY <3>1, <2>2 DEF Progress, Replied
    <3>2. CASE c # t
      <4>1. Progress(c) /\ Replied(c)
        BY <2>1, <3>2
      <4> QED
        BY <4>1, <3>2, <2>2 DEF Receive, Progress, Replied, Listed, locals, shared
    <3> QED
      BY <3>1, <3>2
  <2> QED
    BY <2>3, <2>4, <2>5
<1>2. CASE ~ Go(t, "verify")
  <2>1. PICK p \in {"ld_check", "st_check", "un_send"} : Go(t, p) /\ UNCHANGED overlapped
    BY <1>2 DEF Receive, history
  <2>2. p \in Pcs \ (Reading \cup {"rp_send"})
    BY DEF Pcs, Reading, Loading, Stopping
  <2> QED
    BY <1>0, <2>1, <2>2, Elsewhere DEF Receive
<1> QED
  BY <1>1, <1>2

(* The other steps of the server. *)
Other(t) == Accept(t) \/ Close(t) \/ LoadStep(t) \/ StopStep(t) \/ LoadEnds(t)

LEMMA OtherStep ==
  ASSUME SensorInv, NEW t \in Clients, Other(t)
  PROVE  SensorInv'
<1>1. CASE LoadEnds(t)
  BY <1>1, ZenonT(60) DEF SensorInv, LoadEnds, ServerTypes, Indexed, ReadersKnown, Progress, Replied,
              Listed, locals, shared, history
<1>2. CASE ~ LoadEnds(t)
  <2>1. Indexed(load_response)' /\ UNCHANGED <<locals, shared, overlapped>>
    BY <1>2 DEF Other, Accept, Close, LoadStep, LdCheck, LdSend, LdRun, LdDone, Pidof,
                StopStep, StCheck, StKill, Send, SensorInv, ServerTypes, Indexed, history
  <2>2. PICK p \in {"recv", "closed", "load", "ld_send", "ld_run", "st_kill", "st_send"} : Go(t, p)
    BY <1>2 DEF Other, Accept, Close, LoadStep, LdCheck, LdSend, LdRun, LdDone, Pidof,
                StopStep, StCheck, StKill, Send
  <2>3. p \in Pcs \ (Reading \cup {"rp_send"})
    BY DEF Pcs, Reading, Loading, Stopping, Idle
  <2> QED
    BY <2>1, <2>2, <2>3, Elsewhere
<1> QED
  BY <1>1, <1>2

LEMMA SensorStepKeeps == SensorInv /\ [Next]_vars => SensorInv'
<1> SUFFICES ASSUME SensorInv, [Next]_vars PROVE SensorInv'
  OBVIOUS
<1>1. CASE ServerEnds
  <2>1. ServerTypes'
    BY <1>1 DEF ServerEnds, SensorInv, ServerTypes, Indexed, Pcs, Idle, locals, shared
  <2> QED
    BY <1>1, <2>1, Gone DEF ServerEnds
<1>2. ASSUME NEW t \in Clients, Receive(t) PROVE SensorInv'
  BY <1>2, ReceiveStep
<1>3. ASSUME NEW t \in Clients, Other(t) PROVE SensorInv'
  BY <1>3, OtherStep
<1>4. ASSUME NEW t \in Clients, SensorStep(t) PROVE SensorInv'
  <2>1. CASE RpCopy(t)
    <3>1. CASE pc' = [c \in Clients |-> "gone"]
      <4>1. ServerTypes'
        BY <2>1, <3>1 DEF RpCopy, SensorInv, ServerTypes, Indexed, Pcs, Idle, shared
      <4> QED
        BY <3>1, <4>1, Gone
    <3> QED
      BY <2>1, <3>1, RpCopyStep
  <2>2. CASE SdStore(t)
    BY <2>2, SdStoreTypes, SdStoreStep, Gone
  <2> QED
    BY <1>4, <2>1, <2>2, SdVerifyStep, SdStartStep, SdReadStep, SdResetStep, SdNextStep,
       SdTotalStep, RpSizeStep, RpFillStep, RpSendStep DEF SensorStep
<1>5. ASSUME NEW t \in Clients, SdFails(t) PROVE SensorInv'
  BY <1>5, SdFailsStep
<1>6. CASE UNCHANGED vars
  BY <1>6 DEF vars, SensorInv, ServerTypes, Indexed, ReadersKnown, Progress, Replied, Listed,
              locals, shared, history
<1> QED
  BY <1>1, <1>2, <1>3, <1>4, <1>5, <1>6 DEF Next, Handle, Other

(* Undisturbed readings are told in full, whatever the other connections   *)
(* ask, and however many sensors there are. *)
THEOREM RepliesComplete == Spec => []ReplyComplete
<1>1. SensorInv => ReplyComplete
  BY DEF SensorInv, Replied, ReplyComplete
<1> QED
  BY <1>1, SensorInit, SensorStepKeeps, PTL DEF Spec

-----------------------------------------------------------------------------
(* Loads. *)
LEMMA LoadStepKeeps == ServerTypes /\ LoadInv /\ [Next]_vars => LoadInv'
<1> SUFFICES ASSUME ServerTypes, LoadInv, [Next]_vars PROVE LoadInv'
  OBVIOUS
<1> USE DEF LoadInv, CheckHolds, Answer, Go, SUCCESS, FAILURE, PROCESS_RUNNING
<1>a. pc = [c \in Clients |-> pc[c]] /\ load_response = [c \in Clients |-> load_response[c]]
  BY DEF ServerTypes, Indexed
<1>1. CASE ServerEnds
  BY <1>1 DEF ServerEnds, history
<1>2. ASSUME NEW t \in Clients, Accept(t) PROVE LoadInv'
  BY <1>a, <1>2 DEF Accept
<1>3. ASSUME NEW t \in Clients, Close(t) PROVE LoadInv'
  BY <1>a, <1>3 DEF Close, history
<1>4. ASSUME NEW t \in Clients, Receive(t) PROVE LoadInv'
  BY <1>a, <1>4 DEF Receive, history, Pcs, Reading, Loading, Stopping, Idle
<1>5. ASSUME NEW t \in Clients, LoadEnds(t) PROVE LoadInv'
  BY <1>5 DEF LoadEnds, history
<1>6. ASSUME NEW t \in Clients, LdCheck(t) PROVE LoadInv'
  BY <1>a, <1>6 DEF LdCheck, Pidof, Pcs, Loading
<1>7. ASSUME NEW t \in Clients, LdSend(t) PROVE LoadInv'
  BY <1>a, <1>7 DEF LdSend, history
<1>8. ASSUME NEW t \in Clients, LdRun(t) PROVE LoadInv'
  BY <1>a, <1>8 DEF LdRun, Pcs, Loading, Stopping
<1>9. ASSUME NEW t \in Clients, LdDone(t) PROVE LoadInv'
  BY <1>a, <1>9 DEF LdDone, history, Pcs, Idle
<1>10. ASSUME NEW t \in Clients, StCheck(t) PROVE LoadInv'
  BY <1>a, <1>10 DEF StCheck, Pidof, Pcs, Stopping
<1>11. ASSUME NEW t \in Clients, StKill(t) PROVE LoadInv'
  BY <1>a, <1>11 DEF StKill, Pcs, Stopping
<1>12. ASSUME NEW t \in Clients, Send(t) PROVE LoadInv'
  BY <1>a, <1>12 DEF Send, history, Pcs, Stopping
<1>13. ASSUME NEW t \in Clients, SensorStep(t) \/ SdFails(t) PROVE LoadInv'
  <2>1. CASE SdStore(t)
    BY <1>a, <1>13, <2>1 DEF SdStore, history, Pcs, Reading
  <2>2. CASE RpSize(t) \/ RpFill(t) \/ RpCopy(t) \/ RpSend(t) \/ SdFails(t)
    BY <1>a, <1>13, <2>2 DEF RpSize, RpFill, RpCopy, RpSend, SdFails, Fails, history, Pcs, Reading
  <2>3. CASE SdVerify(t) \/ SdStart(t) \/ SdRead(t) \/ SdReset(t) \/ SdNext(t) \/ SdTotal(t)
    BY <1>a, <1>13, <2>3 DEF SdVerify, SdStart, SdRead, SdReset, SdNext, SdTotal, history, Pcs,
                             Reading
  <2> QED
    BY <1>13, <2>1, <2>2, <2>3 DEF SensorStep
<1>14. CASE UNCHANGED vars
  BY <1>14 DEF vars, history
<1> QED
  BY <1>1, <1>2, <1>3, <1>4, <1>5, <1>6, <1>7, <1>8, <1>9, <1>10, <1>11, <1>12, <1>13, <1>14
     DEF Next, Handle, LoadStep, StopStep

(* Loads are started and stopped on what still holds of them. *)
THEOREM ChecksHold == Spec => []CheckHolds
<1>1. SensorInv => ServerTypes
  BY DEF SensorInv
<1>2. LoadInv => CheckHolds
  BY DEF LoadInv
<1> QED
  BY <1>1, <1>2, SensorInit, SensorStepKeeps, LoadInit, LoadStepKeeps, PTL DEF Spec

(* A load runs only for a connection that was told so. *)
THEOREM LoadsTold == Spec => []LoadsAnswered
<1>1. SensorInv => ServerTypes
  BY DEF SensorInv
<1>2. LoadInv => LoadsAnswered
  BY DEF LoadInv, LoadsAnswered, Pcs, Loading, Idle
<1> QED
  BY <1>1, <1>2, SensorInit, SensorStepKeeps, LoadInit, LoadStepKeeps, PTL DEF Spec

-----------------------------------------------------------------------------
(* The table, and the types. *)
LEMMA Times ==
  ASSUME NEW n \in Nat, NEW a \in Int, NEW b \in Int
  PROVE  /\ n * a \in Int /\ n * (a + 1) = n * a + n
         /\ a <= b => n * a <= n * b
OBVIOUS

LEMMA Rewinding ==
  ASSUME NEW n \in Nat, NEW k \in Nat
  PROVE  /\ n * (1 + k) \in Nat /\ n <= n * (1 + k)
         /\ n * (1 + (k + 1)) = n * (1 + k) + n
<1>1. n * (k + 1) = n * k + n /\ n * k \in Int
  BY Times
<1>2. n * 0 <= n * k /\ n * 0 = 0
  BY Times
<1>3. n * ((k + 1) + 1) = n * (k + 1) + n
  BY Times
<1>4. 1 + k = k + 1 /\ 1 + (k + 1) = (k + 1) + 1
  OBVIOUS
<1> QED
  BY <1>1, <1>2, <1>3, <1>4

LEMMA Remaining ==
  ASSUME NEW n \in Nat, NEW c \in 1 .. n + 1, NEW d \in 1 .. n + 1
  PROVE  /\ n + 1 - c \in 0 .. n /\ n + 1 - d \in 0 .. n
         /\ d = 1 => n + 1 - d = n
         /\ d >= c => n + 1 - d <= n + 1 - c
OBVIOUS

(* What is known of a reading for the bound on its stores. *)
LEMMA Known ==
  ASSUME SensorInv, RewindInv, NEW t \in Clients
  PROVE  /\ count[t] \in Nat /\ buf[t] \in Nat /\ rewinds[t] \in Nat
         /\ cursor \in 1 .. NumSensors + 1
         /\ ToShow \in 0 .. NumSensors
         /\ Shown(t) \in Nat /\ NumSensors <= Shown(t) /\ NumSensors \in Nat \ {0}
BY Remaining, Rewinding DEF SensorInv, ServerTypes, RewindInv, ToShow, Shown

(* A thread that does nothing keeps its bound: the cursor goes on, or      *)
(* another reading rewinds it. *)
LEMMA StoresKept ==
  ASSUME SensorInv, SensorInv', RewindInv, NEW c \in Clients,
         pc'[c] = pc[c], count'[c] = count[c], buf'[c] = buf[c],
         \/ cursor' >= cursor /\ rewinds'[c] = rewinds[c]
         \/ cursor' = 1 /\ (pc[c] \in Storing => rewinds'[c] = rewinds[c] + 1)
  PROVE  Stores(c)'
<1>0. Stores(c)
  BY DEF RewindInv
<1>1. cursor' \in 1 .. NumSensors + 1
  BY DEF SensorInv, ServerTypes
<1>2. CASE cursor' >= cursor /\ rewinds'[c] = rewinds[c]
  <2>1. Shown(c)' = Shown(c)
    BY <1>2 DEF Shown
  <2>2. ToShow' \in 0 .. NumSensors /\ ToShow' <= ToShow
    BY <1>1, <1>2, Known, Remaining DEF ToShow
  <2> QED
    BY <1>0, <2>1, <2>2, Known DEF Stores
<1>3. CASE cursor' = 1 /\ pc[c] \in Storing /\ rewinds'[c] = rewinds[c] + 1
  <2>1. Shown(c)' = Shown(c) + NumSensors
    BY <1>3, Known, Rewinding DEF Shown
  <2>2. ToShow' = NumSensors
    BY <1>3, Known DEF ToShow
  <2> QED
    BY <1>0, <2>1, <2>2, Known DEF Stores
<1>4. CASE pc[c] \notin Storing
  BY <1>4 DEF Stores, Storing
<1> QED
  BY <1>2, <1>3, <1>4

(* A step of a reading that starts no cursor. *)
LEMMA RewindStep ==
  ASSUME SensorInv, SensorInv', RewindInv, NEW t \in Clients, NEW p, Go(t, p),
         UNCHANGED rewinds, cursor' >= cursor,
         \A c \in Clients \ {t} : count'[c] = count[c] /\ buf'[c] = buf[c],
         Stores(t)'
  PROVE  RewindInv'
<1>1. \A c \in Clients \ {t} : pc'[c] = pc[c]
  BY DEF SensorInv, ServerTypes, Go
<1>2. ASSUME NEW c \in Clients PROVE Stores(c)'
  BY <1>1, StoresKept
<1> QED
  BY <1>2 DEF RewindInv

(* Steps that take a thread to no store. *)
LEMMA RewindOther ==
  ASSUME SensorInv, SensorInv', RewindInv, NEW t \in Clients,
         NEW p, p \notin {"store", "next", "read"}, Go(t, p), UNCHANGED <<rewinds, cursor>>,
         \A c \in Clients \ {t} : count'[c] = count[c] /\ buf'[c] = buf[c]
  PROVE  RewindInv'
<1>1. pc'[t] = p
  BY DEF SensorInv, ServerTypes, Go
<1>2. Stores(t)'
  BY <1>1 DEF Stores
<1>3. cursor' >= cursor
  BY DEF SensorInv, ServerTypes
<1> QED
  BY <1>2, <1>3, RewindStep

LEMMA RewindStart ==
  ASSUME SensorInv, SensorInv', RewindInv, NEW t \in Clients, SdStart(t)
  PROVE  RewindInv'
<1>1. pc'[t] = "first" /\ \A c \in Clients \ {t} : pc'[c] = pc[c]
  BY DEF SdStart, SensorInv, ServerTypes, Go
<1>2. cursor' = 1 /\ UNCHANGED <<count, buf>>
  BY DEF SdStart, locals
<1>3. ASSUME NEW c \in Clients
      PROVE  rewinds'[c] = IF c # t /\ pc[c] \in Storing THEN rewinds[c] + 1 ELSE 0
  BY DEF SdStart
<1>4. rewinds' \in [Clients -> Nat]
  BY DEF SdStart, RewindInv
<1>5. ASSUME NEW c \in Clients PROVE Stores(c)'
  <2>1. CASE c = t
    BY <1>1, <2>1 DEF Stores
  <2>2. CASE c # t
    BY <1>1, <1>2, <1>3, <2>2, StoresKept
  <2> QED
    BY <2>1, <2>2
<1> QED
  BY <1>4, <1>5 DEF RewindInv

LEMMA RewindReads ==
  ASSUME SensorInv, SensorInv', RewindInv, NEW t \in Clients,
         SdRead(t) \/ SdReset(t) \/ (SdStore(t) /\ Go(t, "next")) \/ SdNext(t)
  PROVE  RewindInv'
<1>0. Stores(t) /\ UNCHANGED rewinds /\ Shown(t)' = Shown(t)
  BY DEF RewindInv, SdRead, SdReset, SdStore, SdNext, history, Shown
<1>1. \A p : Go(t, p) => pc'[t] = p
  BY DEF SensorInv, ServerTypes, Go
<1>2. \A c \in Clients \ {t} : count'[c] = count[c] /\ buf'[c] = buf[c]
  BY DEF SdRead, SdReset, SdStore, SdNext, locals, SensorInv, ServerTypes
<1>3. CASE SdRead(t)
  <2>1. UNCHANGED <<cursor, count>> /\ buf'[t] = cursor
    BY <1>3 DEF SdRead, shared, SensorInv, ServerTypes
  <2>2. CASE Go(t, "reset") \/ Go(t, "total")
    BY <1>0, <1>2, <2>1, <2>2, RewindOther
  <2>3. CASE pc[t] = "read" /\ Go(t, "store") /\ Status(cursor) = 0
    <3>1. cursor <= NumSensors /\ ToShow' = ToShow /\ ToShow > 0
      BY <2>1, <2>3, Known DEF Status, ToShow
    <3>2. Stores(t)'
      BY <1>0, <1>1, <2>1, <2>3, <3>1, Known DEF Stores
    <3> QED
      BY <1>0, <1>2, <2>1, <2>3, <3>2, Known, RewindStep
  <2> QED
    BY <1>3, <2>2, <2>3 DEF SdRead, Status
<1>4. CASE SdReset(t)
  <2>1. UNCHANGED <<cursor, buf>> /\ count'[t] = 0
    BY <1>4 DEF SdReset, SensorInv, ServerTypes
  <2>2. CASE Go(t, "total")
    BY <1>0, <1>2, <2>1, <2>2, RewindOther
  <2>3. CASE Go(t, "store") /\ Status(buf[t]) = 0
    <3>1. buf[t] <= NumSensors /\ ToShow' = ToShow
      BY <2>1, <2>3, Known DEF Status, ToShow
    <3>2. Stores(t)'
      BY <1>0, <1>1, <2>1, <2>3, <3>1, Known DEF Stores
    <3> QED
      BY <1>0, <1>2, <2>1, <2>3, <3>2, Known, RewindStep
  <2> QED
    BY <1>4, <2>2, <2>3 DEF SdReset, Status
<1>5. CASE SdStore(t) /\ Go(t, "next")
  <2>1. /\ UNCHANGED <<cursor, buf>> /\ ToShow' = ToShow /\ pc[t] = "store"
        /\ count'[t] \in {0, count[t] + 1}
    BY <1>5 DEF SdStore, SensorInv, ServerTypes, ToShow
  <2>2. Stores(t)'
    BY <1>0, <1>1, <1>5, <2>1, Known DEF Stores
  <2> QED
    BY <1>0, <1>2, <1>5, <2>1, <2>2, Known, RewindStep
<1>6. CASE SdNext(t)
  <2>1. /\ UNCHANGED <<count, buf>> /\ pc[t] = "next" /\ Go(t, "read")
        /\ cursor' = IF cursor > NumSensors THEN cursor ELSE cursor + 1
    BY <1>6 DEF SdNext, locals
  <2>2. cursor' >= cursor /\ ToShow' = IF ToShow = 0 THEN 0 ELSE ToShow - 1
    BY <2>1, Known DEF ToShow
  <2>3. Stores(t)'
    BY <1>0, <1>1, <2>1, <2>2, Known DEF Stores
  <2> QED
    BY <1>0, <1>2, <2>1, <2>2, <2>3, RewindStep
<1> QED
  BY <1>3, <1>4, <1>5, <1>6

(* The whole server at its end, and steps that leave the readings alone. *)
LEMMA RewindIdle ==
  ASSUME RewindInv, UNCHANGED rewinds,
         pc' = [c \in Clients |-> "gone"] \/ UNCHANGED <<pc, count, buf, cursor>>
  PROVE  RewindInv'
<1>1. CASE pc' = [c \in Clients |-> "gone"]
  BY <1>1 DEF RewindInv, Stores
<1>2. CASE UNCHANGED <<pc, count, buf, cursor>>
  BY <1>2 DEF RewindInv, Shown, ToShow, Stores
<1> QED
  BY <1>1, <1>2

LEMMA RewindNext ==
  ASSUME SensorInv, SensorInv', RewindInv, [Next]_vars
  PROVE  RewindInv'
<1> DEFINE same(t) == \A c \in Clients \ {t} : count'[c] = count[c] /\ buf'[c] = buf[c]
<1>1. CASE ServerEnds \/ UNCHANGED vars
  BY <1>1, RewindIdle DEF ServerEnds, vars, locals, shared, history
<1>2. ASSUME NEW t \in Clients, Receive(t) PROVE RewindInv'
  <2>1. PICK p \in {"ld_check", "st_check", "un_send", "verify"} : Go(t, p)
    BY <1>2 DEF Receive
  <2>2. UNCHANGED <<rewinds, cursor, count, buf>>
    BY <1>2 DEF Receive, locals, shared, history
  <2> QED
    BY <2>1, <2>2, RewindOther
<1>3. ASSUME NEW t \in Clients, Other(t) PROVE RewindInv'
  <2>1. UNCHANGED <<rewinds, cursor, count, buf>>
    BY <1>3 DEF Other, Accept, Close, LoadStep, LdCheck, LdSend, LdRun, LdDone, Pidof,
                StopStep, StCheck, StKill, Send, LoadEnds, locals, shared, history
  <2>2. CASE LoadEnds(t)
    BY <2>1, <2>2, RewindIdle DEF LoadEnds
  <2>3. CASE ~ LoadEnds(t)
    <3>1. PICK p \in {"recv", "closed", "load", "ld_send", "ld_run", "st_kill", "st_send"} : Go(t, p)
      BY <1>3, <2>3 DEF Other, Accept, Close, LoadStep, LdCheck, LdSend, LdRun, LdDone, Pidof,
                        StopStep, StCheck, StKill, Send
    <3> QED
      BY <2>1, <3>1, RewindOther
  <2> QED
    BY <2>2, <2>3
<1>4. ASSUME NEW t \in Clients, RpCopy(t) \/ SdStore(t) PROVE RewindInv'
  <2>1. UNCHANGED rewinds
    BY <1>4 DEF RpCopy, SdStore, history
  <2>2. CASE pc' = [c \in Clients |-> "gone"]
    BY <2>1, <2>2, RewindIdle
  <2>3. CASE RpCopy(t) /\ Go(t, "rp_send")
    BY <2>1, <2>3, RewindOther DEF RpCopy, shared
  <2>4. CASE SdStore(t) /\ Go(t, "next")
    BY <2>4, RewindReads
  <2> QED
    BY <1>4, <2>2, <2>3, <2>4 DEF RpCopy, SdStore
<1>5. ASSUME NEW t \in Clients,
             SdVerify(t) \/ SdTotal(t) \/ RpSize(t) \/ RpFill(t) \/ RpSend(t) \/ SdFails(t)
      PROVE  RewindInv'
  <2>1. UNCHANGED <<rewinds, cursor>>
    BY <1>5 DEF SdVerify, SdTotal, RpSize, RpFill, RpSend, SdFails, shared, history
  <2>2. same(t)
    BY <1>5 DEF SdVerify, SdTotal, RpSize, RpFill, RpSend, SdFails, locals, SensorInv, ServerTypes
  <2>3. PICK p \in {"start", "size", "fill", "gone", "copy", "rp_send", "recv", "closed"} : Go(t, p)
    BY <1>5 DEF SdVerify, SdTotal, RpSize, RpFill, RpSend, SdFails
  <2> QED
    BY <2>1, <2>2, <2>3, RewindOther
<1> QED
  BY <1>1, <1>2, <1>3, <1>4, <1>5, RewindStart, RewindReads DEF Next, Handle, SensorStep, Other

LEMMA RewindInit == Init => RewindInv
BY DEF Init, RewindInv, Stores

ReplyTypes(r) ==
  /\ r.response \in Responses /\ r.max_sensors \in 0 .. CountSize - 1
  /\ r.sensor_data \in Seq(0 .. NumSensors)

(* What a thread writes, the others keep. *)
LEMMA TypeWritten ==
  ASSUME SensorInv, TypeOK, RewindInv, NEW t \in Clients, SensorStep(t) \/ SdFails(t)
  PROVE  /\ ret' \in [Clients -> {0, -1}] /\ count' \in [Clients -> 0 .. CountSize - 1]
         /\ buf' \in [Clients -> 0 .. NumSensors + 1] /\ size' \in [Clients -> 0 .. CountSize - 1]
         /\ \A c \in Clients : ReplyTypes(reply'[c])
         /\ max_sensors' \in 0 .. CountSize - 1
         /\ sensor_data' \in [1 .. TableSize -> 0 .. NumSensors]
         /\ cursor' \in 1 .. NumSensors + 1
         /\ UNCHANGED <<load_response, loads, requests, overlapped, overtaken, asked>>
         /\ faults' \in 0 .. MaxFaults
<1> DEFINE B == 0 .. CountSize - 1
<1>0. /\ NumSensors \in Nat /\ TableSize \in Nat /\ MaxFaults \in Nat /\ 0 \in B
      /\ CountSize \in Nat /\ TableSize < CountSize
      /\ ret \in [Clients -> {0, -1}] /\ count \in [Clients -> B]
      /\ buf \in [Clients -> 0 .. NumSensors + 1] /\ size \in [Clients -> B]
      /\ \A c \in Clients : ReplyTypes(reply[c])
      /\ max_sensors \in B /\ sensor_data \in [1 .. TableSize -> 0 .. NumSensors]
      /\ cursor \in 1 .. NumSensors + 1 /\ faults \in 0 .. MaxFaults /\ Indexed(reply)
  BY SMTT(30) DEF TypeOK, ReplyTypes, SensorInv, ServerTypes
<1>1. /\ UNCHANGED <<load_response, loads, requests, overlapped, overtaken, asked>>
      /\ faults' = faults \/ (faults < MaxFaults /\ faults' = faults + 1)
  BY SMTT(30) DEF SensorStep, SdVerify, SdStart, SdRead, SdReset, SdStore, SdNext, SdTotal,
                  RpSize, RpFill, RpCopy, RpSend, SdFails, Fails, bounds, history
<1>2. faults' \in 0 .. MaxFaults
  BY <1>0, <1>1
<1>3. CASE SdVerify(t)
  BY <1>0, <1>1, <1>2, <1>3 DEF SdVerify, locals, shared
<1>4. CASE SdStart(t)
  BY <1>0, <1>1, <1>2, <1>4 DEF SdStart, locals
<1>5. CASE SdRead(t)
  BY <1>0, <1>1, <1>2, <1>5 DEF SdRead, shared
<1>6. CASE SdReset(t)
  BY <1>0, <1>1, <1>2, <1>6 DEF SdReset
<1>7. CASE SdStore(t)
  <2>1. buf[t] \in 0 .. NumSensors /\ count[t] \in B
    BY <1>0, <1>7 DEF SdStore, RewindInv, Stores
  <2>2. count' \in [Clients -> B] /\ max_sensors' \in B
    BY <1>0, <1>7, <2>1 DEF SdStore
  <2>3. sensor_data' \in [1 .. TableSize -> 0 .. NumSensors]
    BY <1>0, <1>7, <2>1 DEF SdStore
  <2> QED
    BY <1>0, <1>1, <1>2, <1>7, <2>2, <2>3 DEF SdStore
<1>8. CASE SdNext(t)
  BY <1>0, <1>1, <1>2, <1>8, SMTT(30) DEF SdNext, locals
<1>9. CASE SdTotal(t)
  BY <1>0, <1>1, <1>2, <1>9 DEF SdTotal
<1>10. CASE RpSize(t)
  BY <1>0, <1>1, <1>2, <1>10 DEF RpSize, shared
<1>11. CASE RpFill(t)
  <2>1. [i \in 1 .. size[t] |-> Unset] \in Seq(0 .. NumSensors)
    BY <1>0 DEF Unset
  <2>2. ReplyTypes(reply'[t]) /\ \A c \in Clients \ {t} : reply'[c] = reply[c]
    BY <1>0, <1>11, <2>1 DEF RpFill, ReplyTypes, Responses, Indexed
  <2> QED
    BY <1>0, <1>1, <1>2, <1>11, <2>2 DEF RpFill, shared
<1>12. CASE RpCopy(t)
  <2> DEFINE copied == [i \in 1 .. size[t] |->
               IF i <= max_sensors /\ i <= TableSize THEN sensor_data[i] ELSE Unset]
             whole == [response |-> reply[t].response, max_sensors |-> reply[t].max_sensors,
                       sensor_data |-> copied]
  <2>1. copied \in Seq(0 .. NumSensors)
    <3>1. \A i \in 1 .. size[t] :
            (IF i <= max_sensors /\ i <= TableSize THEN sensor_data[i] ELSE Unset)
              \in 0 .. NumSensors
      BY <1>0 DEF Unset
    <3>2. size[t] \in Nat
      BY <1>0
    <3> QED
      BY <3>1, <3>2
  <2>2. ReplyTypes(whole)
    BY <1>0, <2>1 DEF ReplyTypes
  <2>3. reply' = reply \/ reply' = [reply EXCEPT ![t] = whole]
    BY <1>12 DEF RpCopy
  <2> HIDE DEF whole
  <2>4. \A c \in Clients : ReplyTypes(reply'[c])
    BY <1>0, <2>2, <2>3 DEF Indexed
  <2> QED
    BY <1>0, <1>1, <1>2, <1>12, <2>4 DEF RpCopy, shared
<1>13. CASE RpSend(t)
  <2>1. ReplyTypes(NoReply)
    <3>1. <<>> \in Seq(0 .. NumSensors)
      OBVIOUS
    <3> QED
      BY <1>0, <3>1 DEF ReplyTypes, NoReply, Responses
  <2>2. \A c \in Clients : ReplyTypes(reply'[c])
    BY <1>0, <1>13, <2>1 DEF RpSend, Indexed
  <2>3. /\ ret' \in [Clients -> {0, -1}] /\ count' \in [Clients -> B]
        /\ buf' \in [Clients -> 0 .. NumSensors + 1] /\ size' \in [Clients -> B]
    BY <1>0, <1>13 DEF RpSend
  <2> QED
    BY <1>0, <1>1, <1>2, <1>13, <2>2, <2>3 DEF RpSend, shared
<1>14. CASE SdFails(t)
  BY <1>0, <1>1, <1>2, <1>14 DEF SdFails, shared
<1> QED
  BY <1>3, <1>4, <1>5, <1>6, <1>7, <1>8, <1>9, <1>10, <1>11, <1>12, <1>13, <1>14 DEF SensorStep

LEMMA TypeInit == Init => TypeOK
<1> SUFFICES ASSUME Init PROVE TypeOK
  OBVIOUS
<1>1. pc \in [Clients -> Pcs]
  BY SensorInit DEF SensorInv, ServerTypes
<1>2. /\ load_response \in [Clients -> Responses] /\ ret \in [Clients -> {0, -1}]
      /\ count \in [Clients -> 0 .. CountSize - 1] /\ buf \in [Clients -> 0 .. NumSensors + 1]
      /\ size \in [Clients -> 0 .. CountSize - 1]
  BY DEF Init, Responses
<1>3. /\ NoReply.response \in Responses /\ NoReply.max_sensors \in 0 .. CountSize - 1
      /\ NoReply.sensor_data \in Seq(0 .. NumSensors)
  <2>1. <<>> \in Seq(0 .. NumSensors)
    OBVIOUS
  <2> QED
    BY <2>1 DEF NoReply, Responses
<1>4. \A t \in Clients : /\ reply[t].response \in Responses
                         /\ reply[t].max_sensors \in 0 .. CountSize - 1
                         /\ reply[t].sensor_data \in Seq(0 .. NumSensors)
  BY <1>3 DEF Init
<1> QED
  BY <1>1, <1>2, <1>4 DEF Init, TypeOK, Unset

(* What the other steps write. *)
LEMMA TypeOther ==
  ASSUME TypeOK, NEW t \in Clients, Receive(t) \/ Other(t)
  PROVE  /\ UNCHANGED <<locals, shared>>
         /\ load_response' \in [Clients -> Responses] /\ loads' \subseteq Clients
         /\ overlapped' \subseteq Clients /\ overtaken' \subseteq Clients /\ asked' \subseteq Clients
         /\ requests' \in 0 .. MaxRequests /\ faults' \in 0 .. MaxFaults
<1>0. /\ load_response \in [Clients -> Responses] /\ loads \subseteq Clients
      /\ overlapped \subseteq Clients /\ overtaken \subseteq Clients /\ asked \subseteq Clients
      /\ requests \in 0 .. MaxRequests /\ faults \in 0 .. MaxFaults
      /\ MaxRequests \in Nat /\ MaxFaults \in Nat
      /\ {SUCCESS, FAILURE, PROCESS_RUNNING} = Responses
  BY DEF TypeOK, Responses
<1>1. CASE Receive(t)
  BY <1>0, <1>1 DEF Receive, history
<1>2. CASE Accept(t) \/ Close(t) \/ LoadEnds(t)
  BY <1>0, <1>2 DEF Accept, Close, LoadEnds, bounds, history
<1>3. CASE LoadStep(t)
  BY <1>0, <1>3 DEF LoadStep, LdCheck, LdSend, LdRun, LdDone, Pidof, Fails, bounds, history
<1>4. CASE StopStep(t)
  BY <1>0, <1>4 DEF StopStep, StCheck, StKill, Send, Pidof, Fails, bounds, history
<1> QED
  BY <1>1, <1>2, <1>3, <1>4 DEF Other

LEMMA TypeNext ==
  ASSUME SensorInv, SensorInv', TypeOK, RewindInv, RewindInv', [Next]_vars
  PROVE  TypeOK'
<1>1. pc' \in [Clients -> Pcs] /\ rewinds' \in [Clients -> Nat]
  BY DEF SensorInv, ServerTypes, RewindInv
<1>2. ASSUME NEW t \in Clients, SensorStep(t) \/ SdFails(t) PROVE TypeOK'
  <2>1. overlapped' \subseteq Clients /\ overtaken' \subseteq Clients /\ asked' \subseteq Clients
    BY <1>2, TypeWritten DEF TypeOK
  <2> QED
    BY <1>1, <1>2, <2>1, TypeWritten DEF TypeOK, ReplyTypes
<1>3. ASSUME NEW t \in Clients, Receive(t) \/ Other(t) PROVE TypeOK'
  BY <1>1, <1>3, TypeOther DEF TypeOK, locals, shared
<1>4. CASE ServerEnds \/ UNCHANGED vars
  <2>1. faults' \in 0 .. MaxFaults
    BY <1>4 DEF ServerEnds, Fails, TypeOK, vars, bounds
  <2> QED
    BY <1>1, <1>4, <2>1 DEF ServerEnds, TypeOK, vars, locals, shared, bounds, history
<1> QED
  BY <1>2, <1>3, <1>4 DEF Next, Handle, Other

ServerInv == SensorInv /\ TypeOK /\ RewindInv

LEMMA ServerKept == Spec => []ServerInv
<1>1. Init => ServerInv
  BY SensorInit, TypeInit, RewindInit DEF ServerInv
<1>2. ServerInv /\ [Next]_vars => ServerInv'
  <2> SUFFICES ASSUME ServerInv, [Next]_vars PROVE ServerInv'
    OBVIOUS
  <2>1. SensorInv'
    BY SensorStepKeeps DEF ServerInv
  <2>2. RewindInv'
    BY <2>1, RewindNext DEF ServerInv
  <2> QED
    BY <2>1, <2>2, TypeNext DEF ServerInv
<1> QED
  BY <1>1, <1>2, PTL DEF Spec

(* Every variable of the server stays in its type, the thread's count and  *)
(* the lengths of its reply among them. *)
THEOREM TypeCorrect == Spec => []TypeOK
<1>1. ServerInv => TypeOK
  BY DEF ServerInv
<1> QED
  BY <1>1, ServerKept, PTL

(* A reading stores the sensors once, and once more for each other reading *)
(* that rewinds the cursor under it, however many connections there are    *)
(* and whatever fails. *)
THEOREM StoresAreBounded == Spec => []RewindsBoundStores
<1>1. ServerInv => RewindsBoundStores
  BY DEF ServerInv, RewindInv, Stores, Shown, RewindsBoundStores
<1> QED
  BY <1>1, ServerKept, PTL

(* So none leaves the table unless enough others start while it is under   *)
(* way; one that no other rewinds never does. *)
THEOREM TableLeftByRewinds ==
  Spec => [](\A t \in Clients :
               pc[t] = "store" /\ NumSensors * (1 + rewinds[t]) <= TableSize =>
                 count[t] + 1 \in DOMAIN sensor_data)
<1> DEFINE Within(t) == pc[t] = "store" /\ NumSensors * (1 + rewinds[t]) <= TableSize =>
                          count[t] + 1 \in DOMAIN sensor_data
<1>1. ServerInv => \A t \in Clients : Within(t)
  <2> SUFFICES ASSUME ServerInv, NEW t \in Clients, pc[t] = "store", Shown(t) <= TableSize
               PROVE  count[t] + 1 \in DOMAIN sensor_data
    BY DEF Shown
  <2>1. count[t] < Shown(t) /\ count[t] \in Nat /\ Shown(t) \in Nat
    BY Known DEF ServerInv, RewindInv, Stores
  <2>2. DOMAIN sensor_data = 1 .. TableSize
    BY DEF ServerInv, TypeOK
  <2> QED
    BY <2>1, <2>2
<1> QED
  BY <1>1, ServerKept, PTL
=============================================================================
