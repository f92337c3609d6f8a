---------------------------- MODULE ThermalServer ----------------------------
(***************************************************************************)
(* thermalload: a TCP server that puts the CPUs of the card under load and *)
(* reports its sensors.  One thread serves each connection; the threads    *)
(* share the table of sensors, its length max_sensors, the SuC's cursor    *)
(* over the sensors and the stress-ng processes, with no lock.             *)
(***************************************************************************)
EXTENDS Integers, Sequences, FiniteSets

CONSTANTS
  Clients,      \* connections, each with its thread; one may be made again
  NumSensors,   \* sensors of the card
  TableSize,    \* entries of sensor_data
  CountSize,    \* values of a uint8_t, the type of count and max_sensors
  MaxRequests,  \* bound on requests
  MaxFaults     \* bound on failing accesses, sends, commands and allocations

(* The table takes the sensors of a card, once.  Nothing bounds how often  *)
(* other readings rewind the cursor under one that goes on storing.        *)
ASSUME ThermalServerAssumption ==
  /\ NumSensors \in Nat \ {0} /\ TableSize \in Nat /\ CountSize \in Nat
  /\ MaxRequests \in Nat /\ MaxFaults \in Nat
  /\ NumSensors <= TableSize /\ TableSize < CountSize

VARIABLES
  pc,            \* where each thread is
  load_response, \* of each thread; set, but never reset, by its requests
  ret, count, buf, size, \* of each thread: locals of a "sensordata" request
  reply,         \* of each thread: the reply it builds
  max_sensors, sensor_data,
  cursor,        \* the SuC's: the sensor it shows, NumSensors + 1 after the last
  loads,         \* threads whose stress-ng runs
  requests, faults,
  overlapped,    \* history: readings that were not alone
  overtaken,     \* history: threads whose pidof a later start made untrue
  asked,         \* history: connections that asked for an unsupported load
  rewinds        \* history: starts of the cursor by others during a reading

locals == <<ret, count, buf, size, reply>>
shared == <<max_sensors, sensor_data, cursor>>
bounds == <<requests, faults>>
history == <<overlapped, overtaken, asked, rewinds>>
vars == <<pc, load_response, locals, shared, loads, bounds, history>>

SUCCESS == "success"
FAILURE == "failure"
PROCESS_RUNNING == "running"
Responses == {SUCCESS, FAILURE, PROCESS_RUNNING}

Unset == 0 \* an entry of a fresh allocation, of the table before any store, or past it

NoReply == [response |-> FAILURE, max_sensors |-> 0, sensor_data |-> <<>>]

Reading == {"verify", "start", "first", "reset", "store", "next", "read", "total",
            "size", "fill", "copy"}
Storing == {"first", "reset", "store", "next", "read"}
Loading == {"ld_check", "ld_send", "ld_run"}
Stopping == {"st_check", "st_kill", "st_send"}
Idle == {"closed", "recv", "load", "gone"}

Fails == faults < MaxFaults /\ faults' = faults + 1

Go(t, step) == pc' = [pc EXCEPT ![t] = step]

Status(seen) == IF seen > NumSensors THEN 1 ELSE 0

-----------------------------------------------------------------------------
(* main: a connection is accepted and gets its thread.  The whole server   *)
(* ends when accept or pthread_create fails, and by SIGPIPE when it sends  *)
(* to a client that has gone; nothing starts it again.                     *)
Accept(t) ==
  /\ pc[t] = "closed"
  /\ Go(t, "recv")
  /\ load_response' = [load_response EXCEPT ![t] = SUCCESS]
  /\ asked' = asked \ {t}
  /\ UNCHANGED <<locals, shared, loads, bounds, overlapped, overtaken, rewinds>>

ServerEnds ==
  /\ Fails
  /\ pc' = [t \in Clients |-> "gone"]
  /\ UNCHANGED <<load_response, locals, shared, loads, requests, history>>

(* recv: a request, or the end of the connection. *)
Receive(t) ==
  /\ pc[t] = "recv" /\ requests < MaxRequests
  /\ requests' = requests + 1
  /\ \/ Go(t, "ld_check") /\ UNCHANGED <<load_response, history>>
     \/ Go(t, "st_check") /\ UNCHANGED <<load_response, history>>
     \/ /\ Go(t, "un_send")
        /\ load_response' = [load_response EXCEPT ![t] = FAILURE]
        /\ asked' = asked \cup {t}
        /\ UNCHANGED <<overlapped, overtaken, rewinds>>
     \/ /\ Go(t, "verify")
        /\ LET others == {c \in Clients \ {t} : pc[c] \in Reading}
           IN overlapped' = IF others = {} THEN overlapped \ {t}
                                           ELSE overlapped \cup others \cup {t}
        /\ UNCHANGED <<load_response, overtaken, asked, rewinds>>
  /\ UNCHANGED <<locals, shared, loads, faults>>

Close(t) ==
  /\ pc[t] = "recv"
  /\ Go(t, "closed")
  /\ UNCHANGED <<load_response, locals, shared, loads, bounds, history>>

-----------------------------------------------------------------------------
(* "load" between 1 and 100. *)
Pidof(t, found, none) ==
  \/ /\ IF loads # {} THEN found ELSE none
     /\ overtaken' = overtaken \ {t}
     /\ UNCHANGED faults
  \/ Fails /\ none /\ overtaken' = overtaken \cup {t}

(* Mutant: the request waits for the load of another to end. *)
LdCheckWaits(t) ==
  /\ pc[t] = "ld_check" /\ loads = {}
  /\ Go(t, "ld_send")
  /\ overtaken' = overtaken \ {t}
  /\ UNCHANGED <<load_response, locals, shared, loads, bounds, overlapped, asked, rewinds>>

LdCheck(t) ==
  /\ pc[t] = "ld_check"
  /\ Pidof(t, load_response' = [load_response EXCEPT ![t] = PROCESS_RUNNING],
              UNCHANGED load_response)
  /\ Go(t, "ld_send")
  /\ UNCHANGED <<locals, shared, loads, requests, overlapped, asked, rewinds>>

(* Mutant: the connection of a refused client goes on. *)
LdSendOn(t) ==
  /\ pc[t] = "ld_send"
  /\ Go(t, "ld_run")
  /\ UNCHANGED <<load_response, locals, shared, loads, bounds, history>>

LdSend(t) ==
  /\ pc[t] = "ld_send"
  /\ \/ Go(t, IF load_response[t] = PROCESS_RUNNING THEN "closed" ELSE "ld_run")
        /\ UNCHANGED faults
     \/ Fails /\ Go(t, "closed")
  /\ UNCHANGED <<load_response, locals, shared, loads, requests, history>>

(* system() returns at once when there is no shell or no stress-ng. *)
LdRun(t) ==
  /\ pc[t] = "ld_run"
  /\ \/ /\ Go(t, "load")
        /\ loads' = loads \cup {t}
        /\ overtaken' = overtaken \cup {c \in Clients \ {t} : pc[c] \in Loading \cup Stopping}
        /\ UNCHANGED faults
     \/ Fails /\ Go(t, "recv") /\ UNCHANGED <<loads, overtaken>>
  /\ UNCHANGED <<load_response, locals, shared, requests, overlapped, asked, rewinds>>

LoadEnds(t) ==
  /\ t \in loads
  /\ loads' = loads \ {t}
  /\ UNCHANGED <<pc, load_response, locals, shared, bounds, history>>

LdDone(t) ==
  /\ pc[t] = "load" /\ t \notin loads
  /\ Go(t, "recv")
  /\ UNCHANGED <<load_response, locals, shared, loads, bounds, history>>

(* "load" 0 *)
StCheck(t) ==
  /\ pc[t] = "st_check"
  /\ Pidof(t, Go(t, "st_kill"), Go(t, "st_send"))
  /\ UNCHANGED <<load_response, locals, shared, loads, requests, overlapped, asked, rewinds>>

(* Mutant: only the load of this connection is ended. *)
StKillOwn(t) ==
  /\ pc[t] = "st_kill"
  /\ Go(t, "st_send")
  /\ loads' = loads \ {t}
  /\ overtaken' = overtaken \ {t}
  /\ UNCHANGED <<load_response, locals, shared, bounds, overlapped, asked, rewinds>>

StKill(t) ==
  /\ pc[t] = "st_kill"
  /\ Go(t, "st_send")
  /\ \/ loads' = {} /\ overtaken' = overtaken \ {t} /\ UNCHANGED faults
     \/ Fails /\ overtaken' = overtaken \cup {t} /\ UNCHANGED loads
  /\ UNCHANGED <<load_response, locals, shared, requests, overlapped, asked, rewinds>>

(* The answers to a load of 0 and to one over 100. *)
Send(t) ==
  /\ pc[t] \in {"st_send", "un_send"}
  /\ \/ Go(t, "recv") /\ UNCHANGED faults
     \/ Fails /\ Go(t, "closed")
  /\ UNCHANGED <<load_response, locals, shared, loads, requests, history>>

-----------------------------------------------------------------------------
(* "sensordata": sensor_data_read, one access to what is shared at a time. *)

(* Mutant: the reading goes on after a failing NEXT_SENSOR. *)
SdFailsOn(t) ==
  /\ pc[t] = "next"
  /\ Fails
  /\ Go(t, "read")
  /\ UNCHANGED <<load_response, locals, shared, loads, requests, history>>

SdFails(t) ==
  /\ pc[t] \in {"verify", "start", "first", "next", "read"}
  /\ Fails
  /\ Go(t, "size")
  /\ ret' = [ret EXCEPT ![t] = -1]
  /\ UNCHANGED <<load_response, count, buf, size, reply, shared, loads, requests, history>>

SdVerify(t) ==
  /\ pc[t] = "verify"
  /\ Go(t, "start")
  /\ UNCHANGED <<load_response, locals, shared, loads, bounds, history>>

SdStart(t) ==
  /\ pc[t] = "start"
  /\ Go(t, "first")
  /\ cursor' = 1
  /\ rewinds' = [c \in Clients |-> IF c # t /\ pc[c] \in Storing THEN rewinds[c] + 1 ELSE 0]
  /\ UNCHANGED <<load_response, locals, max_sensors, sensor_data, loads, bounds,
                 overlapped, overtaken, asked>>

SdRead(t) ==
  /\ \/ pc[t] = "first" /\ Go(t, "reset")
     \/ pc[t] = "read" /\ Go(t, IF Status(cursor) = 0 THEN "store" ELSE "total")
  /\ buf' = [buf EXCEPT ![t] = cursor]
  /\ UNCHANGED <<load_response, ret, count, size, reply, shared, loads, bounds, history>>

SdReset(t) ==
  /\ pc[t] = "reset"
  /\ Go(t, IF Status(buf[t]) = 0 THEN "store" ELSE "total")
  /\ count' = [count EXCEPT ![t] = 0]
  /\ max_sensors' = 0
  /\ UNCHANGED <<load_response, ret, buf, size, reply, sensor_data, cursor, loads, bounds, history>>

(* A store past the table is not checked: it may hit max_sensors, one of   *)
(* the variables behind it, or end the server.                             *)
SdStore(t) ==
  /\ pc[t] = "store"
  /\ count' = [count EXCEPT ![t] = IF @ + 1 = CountSize THEN 0 ELSE @ + 1]
  /\ \/ /\ count[t] < TableSize
        /\ Go(t, "next")
        /\ sensor_data' = [sensor_data EXCEPT ![count[t] + 1] = buf[t]]
        /\ UNCHANGED max_sensors
     \/ /\ count[t] >= TableSize
        /\ Go(t, "next")
        /\ max_sensors' \in 0 .. CountSize - 1
        /\ UNCHANGED sensor_data
     \/ /\ count[t] >= TableSize
        /\ pc' = [c \in Clients |-> "gone"]
        /\ UNCHANGED <<max_sensors, sensor_data>>
  /\ UNCHANGED <<load_response, ret, buf, size, reply, cursor, loads, bounds, history>>

SdNext(t) ==
  /\ pc[t] = "next"
  /\ Go(t, "read")
  /\ cursor' = IF cursor > NumSensors THEN cursor ELSE cursor + 1
  /\ UNCHANGED <<load_response, locals, max_sensors, sensor_data, loads, bounds, history>>

(* Mutant: one sensor too few is counted. *)
SdTotalLess(t) ==
  /\ pc[t] = "total"
  /\ Go(t, "size")
  /\ max_sensors' = IF count[t] > 0 THEN count[t] - 1 ELSE 0
  /\ ret' = [ret EXCEPT ![t] = 0]
  /\ UNCHANGED <<load_response, count, buf, size, reply, sensor_data, cursor, loads, bounds, history>>

SdTotal(t) ==
  /\ pc[t] = "total"
  /\ Go(t, "size")
  /\ max_sensors' = count[t]
  /\ ret' = [ret EXCEPT ![t] = 0]
  /\ UNCHANGED <<load_response, count, buf, size, reply, sensor_data, cursor, loads, bounds, history>>

(* The reply.  max_sensors is read again at every step of it; without      *)
(* memory for it the thread ends and leaves the connection open.           *)
RpSize(t) ==
  /\ pc[t] = "size"
  /\ size' = [size EXCEPT ![t] = max_sensors]
  /\ \/ Go(t, "fill") /\ UNCHANGED faults
     \/ Fails /\ Go(t, "gone")
  /\ UNCHANGED <<load_response, ret, count, buf, reply, shared, loads, requests, history>>

RpFill(t) ==
  /\ pc[t] = "fill"
  /\ Go(t, IF ret[t] < 0 THEN "rp_send" ELSE "copy")
  /\ reply' = [reply EXCEPT ![t] =
       [response |-> IF ret[t] < 0 THEN FAILURE ELSE SUCCESS,
        max_sensors |-> max_sensors,
        sensor_data |-> [i \in 1 .. size[t] |-> Unset]]]
  /\ UNCHANGED <<load_response, ret, count, buf, size, shared, loads, bounds, history>>

(* A table that has grown since RpSize does not fit: the copy runs over    *)
(* the end of the allocation, and the server may end.                      *)
RpCopy(t) ==
  /\ pc[t] = "copy"
  /\ \/ /\ Go(t, "rp_send")
        /\ reply' = [reply EXCEPT ![t] =
             [response |-> @.response, max_sensors |-> @.max_sensors,
              sensor_data |-> [i \in 1 .. size[t] |->
                IF i <= max_sensors /\ i <= TableSize THEN sensor_data[i] ELSE Unset]]]
     \/ /\ max_sensors > size[t]
        /\ pc' = [c \in Clients |-> "gone"]
        /\ UNCHANGED reply
  /\ UNCHANGED <<load_response, ret, count, buf, size, shared, loads, bounds, history>>

RpSend(t) ==
  /\ pc[t] = "rp_send"
  /\ \/ Go(t, "recv") /\ UNCHANGED faults
     \/ Fails /\ Go(t, "closed")
  /\ ret' = [ret EXCEPT ![t] = 0] /\ count' = [count EXCEPT ![t] = 0]
  /\ buf' = [buf EXCEPT ![t] = 0] /\ size' = [size EXCEPT ![t] = 0]
  /\ reply' = [reply EXCEPT ![t] = NoReply]
  /\ UNCHANGED <<load_response, shared, loads, requests, history>>

-----------------------------------------------------------------------------
Init ==
  /\ pc = [t \in Clients |-> "closed"]
  /\ load_response = [t \in Clients |-> SUCCESS]
  /\ ret = [t \in Clients |-> 0] /\ count = [t \in Clients |-> 0]
  /\ buf = [t \in Clients |-> 0] /\ size = [t \in Clients |-> 0]
  /\ reply = [t \in Clients |-> NoReply]
  /\ max_sensors = 0
  /\ sensor_data = [i \in 1 .. TableSize |-> Unset]
  /\ cursor \in 1 .. NumSensors + 1
  /\ loads = {} /\ requests = 0 /\ faults = 0
  /\ overlapped = {} /\ overtaken = {} /\ asked = {}
  /\ rewinds = [t \in Clients |-> 0]

LoadStep(t) == LdCheck(t) \/ LdSend(t) \/ LdRun(t) \/ LdDone(t)

StopStep(t) == StCheck(t) \/ StKill(t) \/ Send(t)

SensorStep(t) ==
  \/ SdVerify(t) \/ SdStart(t) \/ SdRead(t) \/ SdReset(t) \/ SdStore(t)
  \/ SdNext(t) \/ SdTotal(t) \/ RpSize(t) \/ RpFill(t) \/ RpCopy(t) \/ RpSend(t)

Handle(t) == LoadStep(t) \/ StopStep(t) \/ SensorStep(t)

Next ==
  \/ ServerEnds
  \/ \E t \in Clients :
       Accept(t) \/ Receive(t) \/ Close(t) \/ Handle(t) \/ SdFails(t) \/ LoadEnds(t)

Spec == Init /\ [][Next]_vars

FairSpec == Spec /\ \A t \in Clients : WF_vars(Handle(t))

-----------------------------------------------------------------------------
Pcs == Reading \cup Loading \cup Stopping \cup Idle \cup {"un_send", "rp_send"}

TypeOK ==
  /\ pc \in [Clients -> Pcs]
  /\ load_response \in [Clients -> Responses]
  /\ ret \in [Clients -> {0, -1}]
  /\ count \in [Clients -> 0 .. CountSize - 1]
  /\ buf \in [Clients -> 0 .. NumSensors + 1]
  /\ size \in [Clients -> 0 .. CountSize - 1]
  /\ \A t \in Clients :
       /\ reply[t].response \in Responses
       /\ reply[t].max_sensors \in 0 .. CountSize - 1
       /\ reply[t].sensor_data \in Seq(0 .. NumSensors)
  /\ max_sensors \in 0 .. CountSize - 1
  /\ sensor_data \in [1 .. TableSize -> 0 .. NumSensors]
  /\ cursor \in 1 .. NumSensors + 1
  /\ loads \subseteq Clients
  /\ requests \in 0 .. MaxRequests /\ faults \in 0 .. MaxFaults
  /\ overlapped \subseteq Clients /\ overtaken \subseteq Clients /\ asked \subseteq Clients
  /\ rewinds \in [Clients -> Nat]

(* A reading that no other one overlapped is told in full: the reply is as *)
(* long as it says, and a successful one lists every sensor once, in the   *)
(* SuC's order, whatever earlier readings, failed or not, left behind.     *)
ReplyComplete ==
  \A t \in Clients \ overlapped :
    pc[t] = "rp_send" =>
      /\ DOMAIN reply[t].sensor_data = 1 .. reply[t].max_sensors
      /\ reply[t].response = SUCCESS =>
           reply[t].sensor_data = [i \in 1 .. NumSensors |-> i]

(* What pidof told still holds when the program acts on it, unless a load  *)
(* was started in between or a command failed: a load is started only when *)
(* none runs, and a load of 0 is answered when none does.                  *)
CheckHolds ==
  \A t \in Clients \ overtaken :
    \/ pc[t] = "ld_send" /\ load_response[t] # PROCESS_RUNNING
    \/ pc[t] \in {"ld_run", "st_send"}
    => loads = {}

Answer(t) == IF t \in asked THEN FAILURE ELSE SUCCESS

(* A load runs only for a connection that was told SUCCESS, but for one    *)
(* that had asked for an unsupported load before: its load_response stays. *)
LoadsAnswered ==
  \A t \in Clients :
    pc[t] \in {"ld_run", "load"} =>
      load_response[t] = Answer(t)

(* A reading stores every sensor once, and all of them once more for each  *)
(* other reading that rewinds the cursor under it, but never more: it      *)
(* leaves the table only if TableSize \div NumSensors others start while it *)
(* is under way, and without any its store is always in the table.         *)
RewindsBoundStores ==
  \A t \in Clients : pc[t] = "store" => count[t] < NumSensors * (1 + rewinds[t])

(* Every request is answered, or its connection ends, whatever the other   *)
(* connections do: the reading of the sensors ends although each new one   *)
(* rewinds the cursor under it, and nobody waits for a load to end.        *)
RequestsEnd == \A t \in Clients : pc[t] \notin Idle ~> pc[t] \in Idle

(* The inductive invariant: the types it needs, that overlapping readings  *)
(* are known as such, how far an undisturbed one has come, and what is     *)
(* known of a load on the way to its start.                                *)
Indexed(f) == f = [t \in Clients |-> f[t]]

ServerTypes ==
  /\ pc \in [Clients -> Pcs]
  /\ Indexed(load_response) /\ Indexed(reply)
  /\ ret \in [Clients -> {0, -1}]
  /\ count \in [Clients -> Nat] /\ buf \in [Clients -> Nat] /\ size \in [Clients -> Nat]
  /\ max_sensors \in Nat /\ cursor \in 1 .. NumSensors + 1
  /\ sensor_data \in [1 .. TableSize -> Nat]

ReadersKnown ==
  \A t, c \in Clients : t # c /\ {pc[t], pc[c]} \subseteq Reading => t \in overlapped

Listed(n) == \A i \in 1 .. n : sensor_data[i] = i

Progress(t) ==
  /\ pc[t] \in {"first", "reset"} => cursor = 1
  /\ pc[t] = "reset" => buf[t] = 1
  /\ pc[t] = "store" => cursor = count[t] + 1 /\ buf[t] = cursor
  /\ pc[t] \in {"store", "next", "read", "total"} => Listed(count[t])
  /\ pc[t] = "store" => count[t] < NumSensors
  /\ pc[t] = "next" => cursor = count[t] /\ count[t] <= NumSensors
  /\ pc[t] = "read" => cursor = count[t] + 1
  /\ pc[t] = "total" => count[t] = NumSensors
  /\ pc[t] \in {"size", "fill", "copy"} /\ ret[t] = 0 =>
       max_sensors = NumSensors /\ Listed(NumSensors)
  /\ pc[t] \in {"fill", "copy"} => size[t] = max_sensors
  /\ pc[t] = "copy" => ret[t] = 0

(* How far a reading can get: what the SuC has still to show, and what it  *)
(* has shown since the start of the reading.                               *)
Shown(t) == NumSensors * (1 + rewinds[t])
ToShow == NumSensors + 1 - cursor

Stores(t) ==
  /\ pc[t] = "store" => count[t] + ToShow <= Shown(t) /\ count[t] < Shown(t)
  /\ pc[t] = "store" => buf[t] <= NumSensors
  /\ pc[t] = "next" => count[t] + ToShow <= Shown(t) + 1 /\ count[t] <= Shown(t)
  /\ pc[t] = "read" => count[t] + ToShow <= Shown(t)

RewindInv ==
  /\ rewinds \in [Clients -> Nat]
  /\ \A t \in Clients : Stores(t)

Replied(t) ==
  /\ pc[t] \in {"copy", "rp_send"} =>
       DOMAIN reply[t].sensor_data = 1 .. reply[t].max_sensors
  /\ pc[t] = "copy" => reply[t].max_sensors = NumSensors
  /\ pc[t] = "rp_send" /\ reply[t].response = SUCCESS =>
       reply[t].sensor_data = [i \in 1 .. NumSensors |-> i]

SensorInv ==
  ServerTypes /\ ReadersKnown /\ \A t \in Clients \ overlapped : Progress(t) /\ Replied(t)

LoadInv ==
  /\ CheckHolds
  /\ \A t \in Clients :
       /\ pc[t] \in Pcs \ {"closed", "gone", "ld_send"} => load_response[t] = Answer(t)
       /\ pc[t] = "ld_send" => load_response[t] \in {Answer(t), PROCESS_RUNNING}
=============================================================================
