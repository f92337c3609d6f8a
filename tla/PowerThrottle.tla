---------------------------- MODULE PowerThrottle ----------------------------
(***************************************************************************)
(* power_throttle: the SuC pulls a GPIO line low to ask for less power;    *)
(* the program reads the edges of the line and sets the frequency governor *)
(* of every CPU.  systemd restarts it whenever it ends.                    *)
(***************************************************************************)
EXTENDS Integers, Sequences

CONSTANTS
  AllCpus, FewCpus, \* CPUs of the SoC, and those in use without auxiliary power
  AuxPower,         \* auxiliary power is available
  QueueSize,        \* edges the kernel keeps for the reader of a line (external)
  MaxFaults         \* bound on failing accesses to the SuC and writes to sysfs

ASSUME PowerThrottleAssumption ==
  /\ FewCpus \in Nat \ {0} /\ AllCpus \in Nat /\ FewCpus <= AllCpus
  /\ AuxPower \in BOOLEAN
  /\ QueueSize \in Nat \ {0}
  /\ MaxFaults \in Nat

VARIABLES
  line,       \* level of the GPIO line
  queue,      \* edges not yet read
  pc,
  gpio_set,
  prev_state,
  cpu,        \* the loop counter of throttle_cpu_freq
  governor,
  faults,
  missed,     \* history: the level differs from what the edges tell
  stale       \* history: the governors differ from prev_state

vars == <<line, queue, pc, gpio_set, prev_state, cpu, governor, faults, missed, stale>>

NumCpus == IF AuxPower THEN AllCpus ELSE FewCpus
Cpus == 1 .. NumCpus

Governors == {"powersave", "ondemand"}
Levels == {"low", "high"}

State == IF gpio_set THEN "powersave" ELSE "ondemand"

Fails == faults < MaxFaults /\ faults' = faults + 1

Listening == {"poll", "sensors", "decide", "apply"}

-----------------------------------------------------------------------------
(* The line changes; the kernel keeps the edge, or drops it when the queue *)
(* is full.  An edge is named for the level it leads to.                   *)
LineChanges ==
  /\ line' \in Levels \ {line}
  /\ IF pc \in Listening /\ Len(queue) < QueueSize
       THEN queue' = Append(queue, line') /\ missed' = FALSE
       ELSE missed' = TRUE /\ UNCHANGED queue
  /\ UNCHANGED <<pc, gpio_set, prev_state, cpu, governor, faults, stale>>

(* main up to the loop: the level of the line is not read. *)
Start ==
  /\ pc = "start"
  /\ pc' = "poll"
  /\ gpio_set' = FALSE /\ prev_state' = "ondemand"
  /\ queue' = <<>>
  /\ missed' = (line = "low")
  /\ stale' = \E c \in Cpus : governor[c] # "ondemand"
  /\ UNCHANGED <<line, cpu, governor, faults>>

(* Any failing access to the SuC ends the program, before or in the loop. *)
Exits ==
  /\ pc \in {"start", "sensors"}
  /\ Fails
  /\ pc' = "exited"
  /\ queue' = <<>>
  /\ UNCHANGED <<line, gpio_set, prev_state, cpu, governor, missed, stale>>

(* Mutant: the edges are mixed up. *)
ReadEdgeSwapped ==
  /\ pc = "poll" /\ queue # <<>>
  /\ queue' = Tail(queue)
  /\ gpio_set' = (Head(queue) = "high")
  /\ pc' = IF gpio_set' THEN "sensors" ELSE "decide"
  /\ UNCHANGED <<line, prev_state, cpu, governor, faults, missed, stale>>

ReadEdge ==
  /\ pc = "poll" /\ queue # <<>>
  /\ queue' = Tail(queue)
  /\ gpio_set' = (Head(queue) = "low")
  /\ pc' = IF gpio_set' THEN "sensors" ELSE "decide"
  /\ UNCHANGED <<line, prev_state, cpu, governor, faults, missed, stale>>

(* The reason and the limits are read and printed before anything is done. *)
ReadSensors ==
  /\ pc = "sensors"
  /\ pc' = "decide"
  /\ UNCHANGED <<line, queue, gpio_set, prev_state, cpu, governor, faults, missed, stale>>

Decide ==
  /\ pc = "decide"
  /\ \/ State = prev_state /\ pc' = "poll" /\ UNCHANGED <<cpu, stale>>
     \/ State # prev_state /\ pc' = "apply" /\ cpu' = 1 /\ stale' = FALSE
  /\ UNCHANGED <<line, queue, gpio_set, prev_state, governor, faults, missed>>

(* Mutants: the last CPU is left out; prev_state is not kept. *)
ApplyButLast ==
  /\ pc = "apply"
  /\ governor' = IF cpu < NumCpus THEN [governor EXCEPT ![cpu] = State] ELSE governor
  /\ cpu' = cpu + 1
  /\ IF cpu' > NumCpus THEN pc' = "poll" /\ prev_state' = State ELSE UNCHANGED <<pc, prev_state>>
  /\ UNCHANGED <<line, queue, gpio_set, faults, missed, stale>>

ApplyForgets ==
  /\ pc = "apply"
  /\ governor' = [governor EXCEPT ![cpu] = State]
  /\ cpu' = cpu + 1
  /\ pc' = IF cpu' > NumCpus THEN "poll" ELSE pc
  /\ UNCHANGED <<line, queue, gpio_set, prev_state, faults, missed, stale>>

(* One turn of the loop of throttle_cpu_freq; it ignores a failing echo. *)
Apply ==
  /\ pc = "apply"
  /\ \/ governor' = [governor EXCEPT ![cpu] = State] /\ UNCHANGED <<faults, stale>>
     \/ Fails /\ stale' = TRUE /\ UNCHANGED governor
  /\ cpu' = cpu + 1
  /\ IF cpu < NumCpus
       THEN UNCHANGED <<pc, prev_state>>
       ELSE pc' = "poll" /\ prev_state' = State
  /\ UNCHANGED <<line, queue, gpio_set, missed>>

(* Restart=always *)
Restart ==
  /\ pc = "exited"
  /\ pc' = "start"
  /\ UNCHANGED <<line, queue, gpio_set, prev_state, cpu, governor, faults, missed, stale>>

-----------------------------------------------------------------------------
Init ==
  /\ line \in Levels
  /\ queue = <<>> /\ pc = "start"
  /\ gpio_set = FALSE /\ prev_state = "ondemand" /\ cpu = 1
  /\ governor = [c \in 1 .. AllCpus |-> "ondemand"]
  /\ faults = 0 /\ missed = FALSE /\ stale = FALSE

Program ==
  \/ Start \/ ReadEdge \/ ReadSensors \/ Decide \/ Apply \/ Restart

Next == Program \/ Exits \/ LineChanges

Spec == Init /\ [][Next]_vars

FairSpec == Spec /\ WF_vars(Program)

-----------------------------------------------------------------------------
TypeOK ==
  /\ line \in Levels /\ queue \in Seq(Levels) /\ Len(queue) <= QueueSize
  /\ pc \in Listening \cup {"start", "exited"}
  /\ gpio_set \in BOOLEAN /\ prev_state \in Governors
  /\ cpu \in 1 .. NumCpus + 1
  /\ governor \in [1 .. AllCpus -> Governors]
  /\ faults \in 0 .. MaxFaults
  /\ missed \in BOOLEAN /\ stale \in BOOLEAN

(* The inductive invariant: what the loop knows, what the edges still in   *)
(* the queue tell, and how far the governors have followed prev_state.     *)
LoopInv ==
  /\ pc = "apply" => cpu <= NumCpus
  /\ pc = "poll" => prev_state = State

EdgesTell ==
  pc \in Listening /\ ~missed =>
    /\ queue = <<>> => gpio_set = (line = "low")
    /\ queue # <<>> => queue[Len(queue)] = line

GovernorsKept ==
  ~stale =>
    \A c \in Cpus :
      /\ pc # "apply" => governor[c] = prev_state
      /\ pc = "apply" /\ c < cpu => governor[c] = State

ThrottleInv == TypeOK /\ LoopInv /\ EdgesTell /\ GovernorsKept

(* Once every edge has been read, all CPUs in use run under the governor   *)
(* that the line asks for, unless an edge was lost (the queue was full,    *)
(* or the line was low when the program started) or a governor was left    *)
(* behind by an earlier run or a failing write.                            *)
GovernorsFollowLine ==
  pc = "poll" /\ queue = <<>> /\ ~missed /\ ~stale =>
    \A c \in Cpus : governor[c] = IF line = "low" THEN "powersave" ELSE "ondemand"

(* The implementation of Throttling. *)
Promise == INSTANCE Throttling WITH
  governor <- [c \in Cpus |-> governor[c]],
  wanted <- IF stale THEN "unknown" ELSE IF pc = "apply" THEN State ELSE prev_state

KeepsPromise == Promise!Spec

(* A line that stays as it is has its way in the end, however the edges    *)
(* before it fell between the steps of the program.                        *)
SettledLineObeyed ==
  \A level \in Levels :
    <>[](line = level /\ ~missed /\ ~stale) =>
      <>[](\A c \in Cpus : governor[c] = IF level = "low" THEN "powersave" ELSE "ondemand")
=============================================================================
