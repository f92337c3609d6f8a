------------------------ MODULE Diagnostics_proofs ------------------------
(***************************************************************************)
(* Proofs about Diagnostics, for all command lines, boards and bounds.     *)
(***************************************************************************)
EXTENDS Diagnostics, FiniteSetTheorems, SequenceTheorems, WellFoundedInduction, TLAPS

Options == [opt : Tests \cup {"all", "help"}, iter : Nat \cup {NoIter}, devid : STRING]

LEMMA OptionType ==
  ASSUME NEW o \in CommandLines
  PROVE  /\ o \in Seq(Options) /\ Len(o) \in Nat
         /\ \A i \in 1..Len(o) : o[i].opt \in Tests \cup {"all", "help"}
<1>1. o \in Seq(Options)
  BY DiagAssumption DEF Options
<1>2. ASSUME NEW i \in 1..Len(o) PROVE o[i].opt \in Tests \cup {"all", "help"}
  <2>1. o[i] \in Options
    BY <1>1, ElementOfSeq
  <2> QED
    BY <2>1 DEF Options
<1>3. Len(o) \in Nat
  BY <1>1, LenProperties
<1> QED
  BY <1>1, <1>2, <1>3

LEMMA TestsOfType ==
  ASSUME NEW opt \in Tests \cup {"all", "help"}
  PROVE  TestsOf(opt) \in Seq(Tests)
<1>1. CASE opt = "all"
  BY <1>1 DEF TestsOf, AllTests, Tests
<1>2. CASE opt = "help"
  BY <1>2 DEF TestsOf
<1>3. CASE opt \notin {"all", "help"}
  <2>1. TestsOf(opt) = <<opt>> /\ opt \in Tests
    BY <1>3 DEF TestsOf
  <2> QED
    BY <2>1
<1> QED
  BY <1>1, <1>2, <1>3

(* The steps of main outside of the 1G test. *)
Elsewhere ==
    \/ Option \/ Loop \/ End \/ PcieTest \/ DdrTest \/ StressTest \/ MemtesterKilled
    \/ I2cMdTest \/ UartTest \/ EepromTest \/ Eth25gTest

LEMMA ElsewhereKeeps ==
  ASSUME Elsewhere
  PROVE  UNCHANGED <<board, opts, eth1g_result, sock, queue, thread, unsent, wire>>
<1> USE DEF ether, history, options, Tell, Crash
<1>1. CASE Option
  BY <1>1 DEF Option
<1>2. CASE Loop
  BY <1>2 DEF Loop
<1>3. CASE End
  BY <1>3 DEF End
<1>4. CASE PcieTest
  BY <1>4 DEF PcieTest
<1>5. CASE DdrTest \/ StressTest \/ MemtesterKilled
  BY <1>5 DEF DdrTest, StressTest, MemtesterKilled, MemoryTest
<1>6. CASE I2cMdTest
  BY <1>6 DEF I2cMdTest
<1>7. CASE UartTest
  BY <1>7 DEF UartTest
<1>8. CASE EepromTest
  BY <1>8 DEF EepromTest
<1>9. CASE Eth25gTest
  BY <1>9 DEF Eth25gTest
<1> QED
  BY <1>1, <1>2, <1>3, <1>4, <1>5, <1>6, <1>7, <1>8, <1>9 DEF Elsewhere

(* They come from outside of the 1G test, and go on at its start at most. *)
LEMMA ElsewherePlaces ==
  ASSUME DiagTypes, Elsewhere
  PROVE  /\ pc \notin {"thread", "send", "join"} /\ Running
         /\ pc' \notin {"thread", "send", "join"}
         /\ k' \in 0..Len(opts) /\ (pc' \notin {"option", "done"} => k' > 0) /\ todo' \in Seq(Tests)
<1> USE DEF Running, Tell, Crash, options, DiagTypes
<1>1. CASE Option
  <2>1. k' = k + 1 /\ k < Len(opts) /\ pc' = "loop" /\ todo' = << >>
    BY <1>1 DEF Option
  <2>2. pc = "option" /\ Len(opts) \in Nat
    BY <1>1, OptionType DEF Option
  <2> QED
    BY <2>1, <2>2
<1>2. CASE Loop
  <2>1. CASE todo # << >>
    <3>1. Head(todo) \in Tests /\ Tail(todo) \in Seq(Tests)
      BY <2>1
    <3> QED
      BY <1>2, <2>1, <3>1 DEF Loop, Tests
  <2>2. CASE todo = << >> /\ left > 0
    <3>1. k \in 1..Len(opts)
      BY <1>2, OptionType DEF Loop
    <3>2. TestsOf(opts[k].opt) \in Seq(Tests)
      BY <3>1, OptionType, TestsOfType
    <3> QED
      BY <1>2, <2>2, <3>2 DEF Loop
  <2>3. CASE todo = << >> /\ ~(left > 0)
    BY <1>2, <2>3 DEF Loop
  <2> QED
    BY <2>1, <2>2, <2>3
<1>3. CASE End
  BY <1>3 DEF End
<1>4. CASE PcieTest
  BY <1>4 DEF PcieTest
<1>5. CASE DdrTest \/ StressTest \/ MemtesterKilled
  BY <1>5 DEF DdrTest, StressTest, MemtesterKilled, MemoryTest
<1>6. CASE I2cMdTest
  BY <1>6 DEF I2cMdTest
<1>7. CASE UartTest
  BY <1>7 DEF UartTest
<1>8. CASE EepromTest
  BY <1>8 DEF EepromTest
<1>9. CASE Eth25gTest
  BY <1>9 DEF Eth25gTest
<1> QED
  BY <1>1, <1>2, <1>3, <1>4, <1>5, <1>6, <1>7, <1>8, <1>9 DEF Elsewhere

LEMMA ReceivesType ==
  ASSUME NEW S, NEW s \in Open, queue[s] \in Seq(S), NEW p \in S
  PROVE  Receives(s, p) \in Seq(S)
<1>1. Append(queue[s], p) \in Seq(S)
  OBVIOUS
<1> QED
  BY <1>1, Zenon DEF Receives

LEMMA TypesNext == DiagTypes /\ [Next]_vars => DiagTypes'
<1> SUFFICES ASSUME DiagTypes, [Next]_vars PROVE DiagTypes'
  OBVIOUS
<1>a. ASSUME Elsewhere PROVE DiagTypes'
  BY <1>a, ElsewhereKeeps, ElsewherePlaces DEF DiagTypes, Open
<1>1. CASE EthOpen
  <2>1. /\ UNCHANGED <<opts, k, todo, unsent, eth1g_result, thread>>
        /\ pc = "eth1g" /\ pc' \in {"thread", "loop", "crashed"}
    BY <1>1 DEF EthOpen, options, Tell, Crash
  <2>2. CASE UNCHANGED <<sock, queue>>
    BY <2>1, <2>2 DEF DiagTypes, Open
  <2>3. CASE ~UNCHANGED <<sock, queue>>
    <3>1. /\ sock' = sock + 1
          /\ queue' = [s \in Open \cup {sock'} |-> IF s \in Open THEN queue[s] ELSE << >>]
      BY <1>1, <2>3 DEF EthOpen
    <3>2. Open' = Open \cup {sock'} /\ sock' \in Nat
      BY <3>1 DEF Open, DiagTypes
    <3>3. \A s \in Open' : queue'[s] \in Seq(Packets)
      BY <3>1, <3>2 DEF DiagTypes
    <3>4. queue' = [s \in Open' |-> queue'[s]] /\ Open' \subseteq Nat
      BY <3>1, <3>2 DEF DiagTypes
    <3> QED
      BY <2>1, <3>2, <3>3, <3>4 DEF DiagTypes
  <2> QED
    BY <2>2, <2>3
<1>2. CASE EthThread
  <2>1. thread' \in [Sockets -> [at : {"none", "start", "receive", "ended"}, sock : Nat,
                                 timeout : Int, rcv_buff : Packets \cup {"blank"}]]
    BY <1>2, ZenonT(60) DEF EthThread, DiagTypes
  <2>2. unsent' \in Nat /\ UNCHANGED <<opts, k, todo, eth1g_result, sock, queue>>
        /\ pc = "thread" /\ pc' \in {"send", "loop"}
    BY <1>2 DEF EthThread, DiagTypes, options, Tell
  <2> QED
    BY <2>1, <2>2 DEF DiagTypes, Open
<1>3. CASE EthSend
  <2>1. unsent' \in Nat /\ UNCHANGED <<opts, k, todo, eth1g_result, sock, thread>>
        /\ pc = "send" /\ pc' \in {"join", "loop"}
    BY <1>3 DEF EthSend, DiagTypes, options, Tell
  <2>2. /\ queue' = [s \in Open' |-> queue'[s]] /\ Open' = Open
        /\ \A s \in Open' : queue'[s] \in Seq(Packets)
    <3>1. CASE queue' = [s \in Open |-> IF s = sock THEN queue[s] ELSE Receives(s, "test")]
      BY <3>1, ReceivesType DEF DiagTypes, Open, Packets
    <3>2. CASE UNCHANGED queue
      BY <3>2 DEF DiagTypes, Open
    <3> QED
      BY <1>3, <3>1, <3>2 DEF EthSend
  <2> QED
    BY <2>1, <2>2 DEF DiagTypes
<1>4. CASE EthJoin
  <2>1. UNCHANGED <<opts, k, todo, unsent, eth1g_result, sock, thread>>
        /\ pc = "join" /\ pc' \in {"loop", "crashed"}
    BY <1>4 DEF EthJoin, options, ether, history, Tell, Crash
  <2>2. /\ queue' = [s \in Open' |-> queue'[s]] /\ Open' \subseteq Open
        /\ \A s \in Open' : queue'[s] \in Seq(Packets)
    <3>1. CASE queue' = [s \in Open \ {sock} |-> queue[s]]
      BY <3>1 DEF DiagTypes, Open
    <3>2. CASE UNCHANGED queue
      BY <3>2 DEF DiagTypes, Open
    <3> QED
      BY <1>4, <3>1, <3>2 DEF EthJoin
  <2> QED
    BY <2>1, <2>2 DEF DiagTypes
<1>5. ASSUME NEW t \in Sockets, ThreadStart(t) PROVE DiagTypes'
  <2>1. thread' \in [Sockets -> [at : {"none", "start", "receive", "ended"}, sock : Nat,
                                 timeout : Int, rcv_buff : Packets \cup {"blank"}]]
    <3>1. PICK s \in (IF InTest(t) THEN {t} ELSE Open \cup {0}),
               b \in {"blank"} \cup {thread[u].rcv_buff : u \in {u \in Sockets : thread[u].at = "ended"}} :
            thread' = [thread EXCEPT ![t] = [at |-> "receive", sock |-> s, timeout |-> Timeout, rcv_buff |-> b]]
      BY <1>5 DEF ThreadStart
    <3>2. s \in Nat /\ b \in Packets \cup {"blank"} /\ Timeout \in Int
      BY DiagAssumption DEF DiagTypes
    <3> QED
      BY <3>1, <3>2 DEF DiagTypes
  <2>2. UNCHANGED <<opts, k, todo, pc, unsent, eth1g_result, sock, queue>>
    BY <1>5 DEF ThreadStart, options, history
  <2> QED
    BY <2>1, <2>2 DEF DiagTypes, Open
<1>b. ASSUME NEW t \in Sockets, NEW p \in Packets \cup {"blank"}, Look(t, p)
      PROVE  /\ thread' \in [Sockets -> [at : {"none", "start", "receive", "ended"}, sock : Nat,
                                         timeout : Int, rcv_buff : Packets \cup {"blank"}]]
             /\ eth1g_result' \in {"PASS", "FAIL"}
  <2>1. PICK at \in {"ended", "receive"} :
           thread' = [thread EXCEPT ![t] = [at |-> at, sock |-> thread[t].sock,
                                            timeout |-> thread[t].timeout - 1, rcv_buff |-> p]]
    BY <1>b DEF Look
  <2>2. eth1g_result' \in {"PASS", "FAIL"}
    BY <1>b DEF Look, DiagTypes
  <2>3. thread[t].sock \in Nat /\ thread[t].timeout - 1 \in Int
    BY DEF DiagTypes
  <2>4. [at |-> at, sock |-> thread[t].sock, timeout |-> thread[t].timeout - 1, rcv_buff |-> p]
          \in [at : {"none", "start", "receive", "ended"}, sock : Nat,
              timeout : Int, rcv_buff : Packets \cup {"blank"}]
    BY <2>3
  <2> QED
    BY <2>1, <2>2, <2>4 DEF DiagTypes
<1>c. ASSUME NEW s \in Open, queue[s] # << >>
      PROVE  Head(queue[s]) \in Packets /\ Tail(queue[s]) \in Seq(Packets)
  BY <1>c, HeadTailProperties DEF DiagTypes
<1>6. ASSUME NEW t \in Sockets, Receive(t) PROVE DiagTypes'
  <2>1. UNCHANGED <<opts, k, todo, pc, unsent, sock>>
    BY <1>6 DEF Receive, options, history
  <2>2. CASE thread[t].sock \in Open
    <3>1. /\ queue[thread[t].sock] # << >> /\ Look(t, Head(queue[thread[t].sock]))
          /\ queue' = [queue EXCEPT ![thread[t].sock] = Tail(@)]
      BY <1>6, <2>2 DEF Receive
    <3>2. /\ queue' = [s \in Open' |-> queue'[s]] /\ Open' = Open
          /\ \A s \in Open' : queue'[s] \in Seq(Packets)
      BY <2>2, <3>1, <1>c DEF DiagTypes, Open
    <3> QED
      BY <2>1, <2>2, <3>1, <3>2, <1>b, <1>c DEF DiagTypes
  <2>3. CASE thread[t].sock \notin Open
    <3>1. Look(t, thread[t].rcv_buff) /\ UNCHANGED queue
      BY <1>6, <2>3 DEF Receive
    <3>2. thread[t].rcv_buff \in Packets \cup {"blank"}
      BY DEF DiagTypes
    <3> QED
      BY <2>1, <3>1, <3>2, <1>b DEF DiagTypes, Open
  <2> QED
    BY <2>2, <2>3
<1>7. ASSUME NEW t \in Sockets, ReceiveFails(t) PROVE DiagTypes'
  <2>1. UNCHANGED <<opts, k, todo, pc, unsent, sock, queue>> /\ Look(t, thread[t].rcv_buff)
    BY <1>7 DEF ReceiveFails, options, history
  <2>2. thread[t].rcv_buff \in Packets \cup {"blank"}
    BY DEF DiagTypes
  <2> QED
    BY <2>1, <2>2, <1>b DEF DiagTypes, Open
<1>8. ASSUME NEW p \in Packets, Arrives(p) PROVE DiagTypes'
  <2>1. UNCHANGED <<opts, k, todo, pc, unsent, sock, thread, eth1g_result>>
        /\ queue' = [s \in Open |-> Receives(s, p)]
    BY <1>8 DEF Arrives, options
  <2>2. Open' = Open /\ \A s \in Open : queue'[s] \in Seq(Packets)
    BY <2>1, ReceivesType DEF DiagTypes, Open
  <2> QED
    BY <2>1, <2>2 DEF DiagTypes
<1>9. CASE UNCHANGED vars
  BY <1>9 DEF vars, options, ether, history, DiagTypes, Open
<1> QED
  BY <1>a, <1>1, <1>2, <1>3, <1>4, <1>5, <1>6, <1>7, <1>8, <1>9 DEF Next, Main, Elsewhere, Terminated, Packets

LEMMA ClearedNext == DiagTypes /\ Cleared /\ [Next]_vars => Cleared'
<1> SUFFICES ASSUME DiagTypes, Cleared, [Next]_vars PROVE Cleared'
  OBVIOUS
<1> USE DEF Cleared, Tell, Crash, options, history
<1>1. CASE Option \/ End
  BY <1>1 DEF Option, End
<1>2. CASE Loop
  BY <1>2 DEF Loop
<1>3. CASE PcieTest \/ I2cMdTest \/ UartTest \/ EepromTest \/ Eth25gTest
  BY <1>3 DEF PcieTest, I2cMdTest, UartTest, EepromTest, Eth25gTest
<1>4. CASE DdrTest \/ StressTest \/ MemtesterKilled
  BY <1>4 DEF DdrTest, StressTest, MemtesterKilled, MemoryTest
<1>5. CASE EthOpen
  BY <1>5 DEF EthOpen
<1>6. CASE EthThread
  BY <1>6 DEF EthThread
<1>7. CASE EthSend
  BY <1>7 DEF EthSend
<1>8. CASE EthJoin
  BY <1>8 DEF EthJoin
<1>9. ASSUME NEW t \in Sockets, ThreadStart(t) \/ Receive(t) \/ ReceiveFails(t) PROVE Cleared'
  BY <1>9 DEF ThreadStart, Receive, ReceiveFails
<1>10. ASSUME NEW p \in Packets, Arrives(p) PROVE Cleared'
  BY <1>10 DEF Arrives
<1>11. CASE UNCHANGED vars
  BY <1>11 DEF vars
<1> QED
  BY <1>1, <1>2, <1>3, <1>4, <1>5, <1>6, <1>7, <1>8, <1>9, <1>10, <1>11 DEF Next, Main, Terminated, Packets

LEMMA OwnSocketNext == DiagTypes /\ OwnSocket /\ [Next]_vars => OwnSocket'
<1> SUFFICES ASSUME DiagTypes, OwnSocket, [Next]_vars, unsent' = 0, Running'
             PROVE  Open' \subseteq (IF pc' \in {"thread", "send", "join"} THEN {sock'} ELSE {})
  BY DEF OwnSocket
<1> USE DEF InEth
<1>a. ASSUME Elsewhere PROVE Open' \subseteq (IF pc' \in {"thread", "send", "join"} THEN {sock'} ELSE {})
  <2>1. unsent = 0 /\ queue' = queue
    BY <1>a, ElsewhereKeeps
  <2>2. ~InEth /\ Running /\ pc' \notin {"thread", "send", "join"}
    BY <1>a, ElsewherePlaces
  <2> QED
    BY <2>1, <2>2 DEF OwnSocket, Open
<1>1. CASE EthOpen
  <2>1. unsent = 0 /\ pc = "eth1g" /\ Open = {}
    BY <1>1 DEF EthOpen, OwnSocket, Running
  <2>2. \/ queue' = [s \in Open \cup {sock'} |-> IF s \in Open THEN queue[s] ELSE << >>] /\ pc' = "thread"
        \/ UNCHANGED queue
    BY <1>1 DEF EthOpen
  <2> QED
    BY <2>1, <2>2 DEF Open
<1>2. CASE EthThread
  <2>1. pc = "thread" /\ UNCHANGED <<sock, queue>> /\ ((pc' = "send" /\ unsent' = unsent) \/ unsent' = unsent + 1)
    BY <1>2 DEF EthThread
  <2>2. unsent \in Nat
    BY DEF DiagTypes
  <2>3. pc' = "send" /\ unsent = 0
    BY <2>1, <2>2
  <2> QED
    BY <2>1, <2>3 DEF OwnSocket, Running, Open
<1>3. CASE EthSend
  <2>1. pc = "send" /\ UNCHANGED sock
        /\ \/ pc' = "join" /\ unsent' = unsent /\ DOMAIN queue' = Open
           \/ unsent' = unsent + 1
    BY <1>3 DEF EthSend
  <2>2. unsent \in Nat
    BY DEF DiagTypes
  <2>3. pc' = "join" /\ unsent = 0 /\ Open' = Open
    BY <2>1, <2>2 DEF Open
  <2> QED
    BY <2>1, <2>3 DEF OwnSocket, Running
<1>4. CASE EthJoin
  <2>1. pc = "join" /\ UNCHANGED <<unsent, sock>> /\ pc' = "loop" /\ Open' = Open \ {sock}
    BY <1>4 DEF EthJoin, history, Tell, Crash, Running, Open
  <2> QED
    BY <2>1 DEF OwnSocket, Running
<1>5. ASSUME UNCHANGED <<pc, sock, unsent, Open>>
      PROVE  Open' \subseteq (IF pc' \in {"thread", "send", "join"} THEN {sock'} ELSE {})
  BY <1>5 DEF OwnSocket, Running
<1>6. ASSUME NEW t \in Sockets, ThreadStart(t) \/ Receive(t) \/ ReceiveFails(t)
      PROVE  UNCHANGED <<pc, sock, unsent, Open>>
  <2>1. UNCHANGED <<pc, sock, unsent>>
    BY <1>6 DEF ThreadStart, Receive, ReceiveFails, history
  <2>2. UNCHANGED Open
    BY <1>6 DEF ThreadStart, Receive, ReceiveFails, Open
  <2> QED
    BY <2>1, <2>2
<1>7. ASSUME NEW p \in Packets, Arrives(p) PROVE UNCHANGED <<pc, sock, unsent, Open>>
  BY <1>7 DEF Arrives, Open
<1>8. ASSUME UNCHANGED vars PROVE UNCHANGED <<pc, sock, unsent, Open>>
  BY <1>8 DEF vars, ether, history, Open
<1> QED
  BY <1>a, <1>1, <1>2, <1>3, <1>4, <1>5, <1>6, <1>7, <1>8 DEF Next, Main, Elsewhere, Terminated, Packets

(* What comes back, and what was left unsent, stays so. *)
LEMMA Grows ==
  ASSUME DiagTypes, [Next]_vars
  PROVE  /\ unsent' = 0 => unsent = 0
         /\ wire => wire'
<1>a. CASE Elsewhere
  BY <1>a, ElsewhereKeeps
<1>1. CASE EthOpen
  BY <1>1 DEF EthOpen
<1>2. CASE EthThread
  BY <1>2 DEF EthThread, DiagTypes
<1>3. CASE EthSend
  BY <1>3 DEF EthSend, DiagTypes
<1>4. CASE EthJoin
  BY <1>4 DEF EthJoin, history
<1>5. ASSUME NEW t \in Sockets, ThreadStart(t) \/ Receive(t) \/ ReceiveFails(t)
      PROVE  UNCHANGED <<unsent, wire>>
  BY <1>5 DEF ThreadStart, Receive, ReceiveFails, history
<1>6. ASSUME NEW p \in Packets, Arrives(p) PROVE unsent' = unsent /\ (wire => wire')
  <2>1. unsent' = unsent /\ wire' = (wire \/ p = "test")
    BY <1>6 DEF Arrives
  <2> QED
    BY <2>1, Zenon
<1>7. CASE UNCHANGED vars
  BY <1>7 DEF vars, history
<1> QED
  BY <1>a, <1>1, <1>2, <1>3, <1>4, <1>5, <1>6, <1>7 DEF Next, Main, Elsewhere, Terminated, Packets

LEMMA NoFrameNext == DiagTypes /\ OwnSocket /\ NoFrame /\ [Next]_vars => NoFrame'
<1> DEFINE Others == Packets \ {"test"}
           Blank == /\ eth1g_result = "FAIL"
                    /\ \A s \in Open : queue[s] \in Seq(Others)
                    /\ \A t \in Sockets : thread[t].rcv_buff # "test"
<1> SUFFICES ASSUME DiagTypes, OwnSocket, NoFrame, [Next]_vars, ~wire', ~(unsent' > 0)
             PROVE  Blank'
  BY Zenon DEF NoFrame
<1>e. unsent' = 0
  BY TypesNext DEF DiagTypes
<1>0. ~wire /\ unsent = 0
  BY <1>e, Grows, Zenon
<1>f. ~(unsent > 0)
  BY <1>0
<1>b. Blank
  BY <1>0, <1>f, Zenon DEF NoFrame
<1>c. ASSUME UNCHANGED <<eth1g_result, queue, thread>> PROVE Blank'
  BY <1>b, <1>c DEF Open
<1>a. CASE Elsewhere
  BY <1>a, <1>c, ElsewhereKeeps
<1>1. CASE EthOpen
  <2>1. UNCHANGED <<eth1g_result, thread>>
    BY <1>1 DEF EthOpen
  <2>2. CASE UNCHANGED queue
    BY <2>1, <2>2, <1>c
  <2>3. CASE queue' = [s \in Open \cup {sock'} |-> IF s \in Open THEN queue[s] ELSE << >>]
    <3>1. \A s \in Open' : queue'[s] \in Seq(Others)
      BY <2>3, <1>b DEF Open
    <3> QED
      BY <2>1, <3>1, <1>b
  <2> QED
    BY <1>1, <2>2, <2>3 DEF EthOpen
<1>2. CASE EthThread
  <2>1. UNCHANGED <<eth1g_result, queue>>
    BY <1>2 DEF EthThread
  <2>2. \A t \in Sockets : thread'[t].rcv_buff = thread[t].rcv_buff
    <3>1. CASE thread' = [thread EXCEPT ![sock].at = "start"]
      <4>1. ASSUME NEW t \in Sockets PROVE thread'[t].rcv_buff = thread[t].rcv_buff
        BY <3>1 DEF DiagTypes
      <4> QED
        BY <4>1
    <3>2. CASE UNCHANGED thread
      BY <3>2
    <3> QED
      BY <1>2, <3>1, <3>2 DEF EthThread
  <2> QED
    BY <2>1, <2>2, <1>b DEF Open
<1>3. CASE EthSend
  <2>1. UNCHANGED <<eth1g_result, thread>> /\ pc = "send"
    BY <1>3 DEF EthSend
  <2>2. CASE UNCHANGED queue
    BY <2>1, <2>2, <1>c
  <2>3. CASE queue' = [s \in Open |-> IF s = sock THEN queue[s] ELSE Receives(s, "test")]
    <3>1. Open \subseteq {sock}
      BY <2>1, <1>0 DEF OwnSocket, Running
    <3>2. \A s \in Open' : queue'[s] \in Seq(Others)
      BY <2>3, <3>1, <1>b DEF Open
    <3> QED
      BY <2>1, <3>2, <1>b
  <2> QED
    BY <1>3, <2>2, <2>3 DEF EthSend
<1>4. CASE EthJoin
  <2>1. UNCHANGED <<eth1g_result, thread>>
    BY <1>4 DEF EthJoin
  <2>2. CASE UNCHANGED queue
    BY <2>1, <2>2, <1>c
  <2>3. CASE queue' = [s \in Open \ {sock} |-> queue[s]]
    BY <2>1, <2>3, <1>b DEF Open
  <2> QED
    BY <1>4, <2>2, <2>3 DEF EthJoin
<1>5. ASSUME NEW t \in Sockets, ThreadStart(t) PROVE Blank'
  <2>1. UNCHANGED <<eth1g_result, queue>>
    BY <1>5 DEF ThreadStart
  <2>2. PICK s \in (IF InTest(t) THEN {t} ELSE Open \cup {0}),
             b \in {"blank"} \cup {thread[u].rcv_buff : u \in {u \in Sockets : thread[u].at = "ended"}} :
          thread' = [thread EXCEPT ![t] = [at |-> "receive", sock |-> s, timeout |-> Timeout, rcv_buff |-> b]]
    BY <1>5 DEF ThreadStart
  <2>3. b # "test"
    BY <1>b
  <2>4. \A u \in Sockets : thread'[u].rcv_buff # "test"
    BY <2>2, <2>3, <1>b DEF DiagTypes
  <2> QED
    BY <2>1, <2>4, <1>b DEF Open
<1>d. ASSUME NEW t \in Sockets, NEW p, p # "test", Look(t, p)
      PROVE  eth1g_result' = "FAIL" /\ \A u \in Sockets : thread'[u].rcv_buff # "test"
  <2>1. eth1g_result' = "FAIL"
    BY <1>b, <1>d DEF Look, Validate
  <2>2. PICK at \in {"ended", "receive"} :
           thread' = [thread EXCEPT ![t] = [at |-> at, sock |-> thread[t].sock,
                                            timeout |-> thread[t].timeout - 1, rcv_buff |-> p]]
    BY <1>d DEF Look
  <2>3. thread'[t].rcv_buff = p /\ \A u \in Sockets \ {t} : thread'[u] = thread[u]
    BY <2>2 DEF DiagTypes
  <2> QED
    BY <2>1, <2>3, <1>b, <1>d
<1>6. ASSUME NEW t \in Sockets, Receive(t) PROVE Blank'
  <2>1. CASE thread[t].sock \in Open
    <3>1. /\ queue[thread[t].sock] # << >> /\ Look(t, Head(queue[thread[t].sock]))
          /\ queue' = [queue EXCEPT ![thread[t].sock] = Tail(@)]
      BY <1>6, <2>1 DEF Receive
    <3>2. Head(queue[thread[t].sock]) \in Others /\ Tail(queue[thread[t].sock]) \in Seq(Others)
      BY <2>1, <3>1, <1>b, HeadTailProperties
    <3>3. \A s \in Open' : queue'[s] \in Seq(Others)
      BY <3>1, <3>2, <1>b DEF Open
    <3> QED
      BY <3>1, <3>2, <3>3, <1>d
  <2>2. CASE thread[t].sock \notin Open
    <3>1. Look(t, thread[t].rcv_buff) /\ UNCHANGED queue
      BY <1>6, <2>2 DEF Receive
    <3> QED
      BY <3>1, <1>b, <1>d DEF Open
  <2> QED
    BY <2>1, <2>2
<1>7. ASSUME NEW t \in Sockets, ReceiveFails(t) PROVE Blank'
  <2>1. Look(t, thread[t].rcv_buff) /\ UNCHANGED queue
    BY <1>7 DEF ReceiveFails
  <2> QED
    BY <2>1, <1>b, <1>d DEF Open
<1>8. ASSUME NEW p \in Packets, Arrives(p) PROVE Blank'
  <2>1. /\ UNCHANGED <<eth1g_result, thread>> /\ wire' = (wire \/ p = "test")
        /\ queue' = [s \in Open |-> Receives(s, p)]
    BY <1>8 DEF Arrives
  <2>2. p # "test"
    BY <2>1, Zenon
  <2>3. \A s \in Open : Receives(s, p) \in Seq(Others)
    BY <2>2, <1>b, ReceivesType
  <2> QED
    BY <2>1, <2>3, <1>b DEF Open
<1>9. CASE UNCHANGED vars
  BY <1>9, <1>c DEF vars, ether
<1> QED
  BY <1>a, <1>1, <1>2, <1>3, <1>4, <1>5, <1>6, <1>7, <1>8, <1>9 DEF Next, Main, Elsewhere, Terminated, Packets

LEMMA HonestNext == DiagInv /\ [Next]_vars => PassHonest'
<1> SUFFICES ASSUME DiagInv, [Next]_vars, told'.result = "PASS"
             PROVE  CASE told'.test = "pcie" -> board'.pcie \/ dev_id' # board'.dev \/ ~board'.opens
                      [] told'.test = "i2cmd" -> board'.suc
                      [] told'.test = "i2ceeprom" -> board'.eeprom
                      [] told'.test = "uart" -> board'.serial
                      [] told'.test = "eth1g" -> wire' \/ unsent' > 0
                      [] OTHER -> told'.test \in {"ddr", "stressapptest"}
  BY DEF PassHonest
<1> USE DEF Tell, Crash, NoVerdict
<1>0. DiagTypes /\ Cleared /\ NoFrame /\ PassHonest
  BY DEF DiagInv
<1>1. pc # "loop" => told.result # "PASS"
  <2>1. NoVerdict.result # "PASS"
    OBVIOUS
  <2> QED
    BY <1>0, <2>1 DEF Cleared
<1>2. CASE Option \/ End
  BY <1>1, <1>2 DEF Option, End
<1>3. CASE Loop
  BY <1>3 DEF Loop
<1>4. CASE PcieTest
  BY <1>1, <1>4 DEF PcieTest, PcieVerdict, options
<1>5. CASE DdrTest \/ StressTest \/ MemtesterKilled
  BY <1>1, <1>5 DEF DdrTest, StressTest, MemtesterKilled, MemoryTest
<1>6. CASE I2cMdTest
  BY <1>1, <1>6 DEF I2cMdTest
<1>7. CASE UartTest
  BY <1>1, <1>7 DEF UartTest
<1>8. CASE EepromTest
  BY <1>1, <1>8 DEF EepromTest
<1>9. CASE Eth25gTest
  BY <1>9 DEF Eth25gTest
<1>10. CASE EthOpen
  <2>1. \/ UNCHANGED told
        \/ told' = [test |-> "eth1g", result |-> "NOT RUN"]
        \/ told' = [test |-> "eth1g", result |-> "FAIL"]
    BY <1>10 DEF EthOpen
  <2>2. pc = "eth1g"
    BY <1>10 DEF EthOpen
  <2>3. told.result # "PASS"
    BY <1>1, <2>2
  <2>4. ~ UNCHANGED told
    BY <2>3
  <2>5. CASE told' = [test |-> "eth1g", result |-> "NOT RUN"]
    <3>1. told'.result = "NOT RUN"
      BY <2>5
    <3> QED
      BY <3>1
  <2>6. CASE told' = [test |-> "eth1g", result |-> "FAIL"]
    <3>1. told'.result = "FAIL"
      BY <2>6
    <3> QED
      BY <3>1
  <2> QED
    BY <2>1, <2>4, <2>5, <2>6
<1>11. CASE EthThread
  BY <1>1, <1>11 DEF EthThread
<1>12. CASE EthSend
  BY <1>1, <1>12 DEF EthSend
<1>13. CASE EthJoin
  <2>1. told' = [test |-> "eth1g", result |-> eth1g_result]
    BY <1>1, <1>13 DEF EthJoin
  <2>2. UNCHANGED <<wire, unsent>>
    BY <1>13 DEF EthJoin, history
  <2>3. wire \/ unsent > 0
    BY <1>0, <2>1 DEF NoFrame
  <2> QED
    BY <2>1, <2>2, <2>3
<1>14. ASSUME UNCHANGED <<told, board, dev_id>> PROVE PassHonest'
  <2>1. CASE told.test = "eth1g"
    <3>1. wire \/ unsent > 0
      BY <1>0, <1>14, <2>1 DEF PassHonest
    <3>2. (wire => wire') /\ (unsent' = 0 => unsent = 0)
      BY <1>0, Grows
    <3>3. unsent \in Nat /\ unsent' \in Nat
      BY <1>0, TypesNext DEF DiagTypes
    <3>4. unsent > 0 => unsent' > 0
      BY <3>2, <3>3
    <3>5. wire' \/ unsent' > 0
      BY <3>1, <3>2, <3>4, Zenon
    <3> QED
      BY <2>1, <1>14, <3>5 DEF PassHonest
  <2>2. CASE told.test # "eth1g"
    BY <1>0, <1>14, <2>2 DEF PassHonest
  <2> QED
    BY <2>1, <2>2
<1>15. ASSUME NEW t \in Sockets, ThreadStart(t) \/ Receive(t) \/ ReceiveFails(t)
       PROVE  UNCHANGED <<told, board, dev_id>>
  BY <1>15 DEF ThreadStart, Receive, ReceiveFails, options
<1>16. ASSUME NEW p \in Packets, Arrives(p) PROVE UNCHANGED <<told, board, dev_id>>
  BY <1>16 DEF Arrives, options
<1>17. ASSUME UNCHANGED vars PROVE UNCHANGED <<told, board, dev_id>>
  BY <1>17 DEF vars, options
<1> QED
  BY <1>2, <1>3, <1>4, <1>5, <1>6, <1>7, <1>8, <1>9, <1>10, <1>11, <1>12, <1>13,
     <1>14, <1>15, <1>16, <1>17 DEF Next, Main, Terminated, Packets, PassHonest

LEMMA DiagInit == Init => DiagInv
<1> SUFFICES ASSUME Init PROVE DiagInv
  OBVIOUS
<1>1. opts \in CommandLines /\ Len(opts) \in Nat
  BY OptionType DEF Init
<1>2. queue = << >> /\ Open = {}
  BY DEF Init, Open
<1>3. queue = [s \in Open |-> queue[s]]
  BY <1>2
<1>4. thread \in [Sockets -> [at : {"none", "start", "receive", "ended"}, sock : Nat,
                              timeout : Int, rcv_buff : Packets \cup {"blank"}]]
  BY DEF Init, NotStarted
<1>5. DiagTypes
  BY <1>1, <1>2, <1>3, <1>4 DEF Init, DiagTypes
<1>6. NoFrame
  BY <1>2 DEF Init, NoFrame, NotStarted
<1>7. Cleared /\ OwnSocket
  BY <1>2 DEF Init, Cleared, OwnSocket
<1>8. PassHonest
  BY DEF Init, PassHonest, NoVerdict
<1> QED
  BY <1>5, <1>6, <1>7, <1>8 DEF DiagInv

LEMMA DiagKept == Spec => []DiagInv
<1>1. DiagInv /\ [Next]_vars => DiagInv'
  BY TypesNext, ClearedNext, OwnSocketNext, NoFrameNext, HonestNext DEF DiagInv
<1> QED
  BY DiagInit, <1>1, PTL DEF Spec

(***************************************************************************)
(* PASS is told of hardware that works (diag.c): whatever the command line *)
(* asks for, however late or lost the packets are, and however many        *)
(* descriptors, sockets and failing calls there are.  For the 1G port it   *)
(* is so unless a test before had to leave without sending its frame.      *)
(***************************************************************************)
THEOREM PassIsHonest == Spec => []PassHonest
<1>1. DiagInv => PassHonest
  BY DEF DiagInv
<1> QED
  BY <1>1, DiagKept, PTL

-----------------------------------------------------------------------------
(* FAIL *)

(* A descriptor that a step of the other tests keeps is a memory test's. *)
LEMMA ElsewhereOpens ==
  ASSUME Elsewhere
  PROVE  /\ UNCHANGED foreign
         /\ \/ UNCHANGED <<leaked, popens>>
            \/ leaked' = leaked + 1 /\ popens' = popens + 1 /\ ~(Free < 2)
<1> USE DEF history
<1>1. CASE Option \/ Loop \/ End
  BY <1>1 DEF Option, Loop, End
<1>2. CASE PcieTest \/ I2cMdTest \/ UartTest \/ EepromTest \/ Eth25gTest
  BY <1>2 DEF PcieTest, I2cMdTest, UartTest, EepromTest, Eth25gTest
<1>3. CASE DdrTest \/ StressTest \/ MemtesterKilled
  BY <1>3 DEF DdrTest, StressTest, MemtesterKilled, MemoryTest
<1> QED
  BY <1>1, <1>2, <1>3 DEF Elsewhere

LEMMA ReceiverKeeps ==
  ASSUME NEW t \in Sockets, ThreadStart(t) \/ Receive(t) \/ ReceiveFails(t)
  PROVE  /\ UNCHANGED <<board, options, pc, sock, leaked, popens, unsent, foreign, told>>
         /\ UNCHANGED Open /\ Running
<1>1. CASE ThreadStart(t)
  BY <1>1 DEF ThreadStart, history, Open
<1>2. CASE Receive(t)
  BY <1>2 DEF Receive, history, Open
<1>3. CASE ReceiveFails(t)
  BY <1>3 DEF ReceiveFails, history, Open
<1> QED
  BY <1>1, <1>2, <1>3

LEMMA ArrivesKeeps ==
  ASSUME NEW p, Arrives(p)
  PROVE  /\ UNCHANGED <<board, options, pc, sock, eth1g_result, thread, leaked, popens, unsent, told>>
         /\ UNCHANGED Open /\ Running
BY DEF Arrives, Open

LEMMA SameSteps ==
  ASSUME UNCHANGED vars
  PROVE  /\ UNCHANGED <<board, options, opts, k, dev_id, left, infinite, ddr_test_infinite, pc, sock, queue>>
         /\ UNCHANGED <<thread, leaked, popens, unsent, foreign, told, eth1g_result, fault>>
         /\ UNCHANGED Open
BY DEF vars, options, ether, history, Open

(* A socket is opened with a free descriptor, and goes with its test.      *)
LEMMA EthOpens ==
  ASSUME EthOpen
  PROVE  /\ UNCHANGED <<board, options, thread, eth1g_result, leaked, popens, unsent>> /\ pc = "eth1g"
         /\ \/ /\ pc' = "thread" /\ sock' = sock + 1 /\ sock' \in Sockets /\ foreign' = 0
               /\ Free >= 1 /\ UNCHANGED <<told, fault>>
               /\ queue' = [s \in Open \cup {sock'} |-> IF s \in Open THEN queue[s] ELSE << >>]
               /\ Open' = Open \cup {sock'}
            \/ /\ pc' \in {"loop", "crashed"} /\ UNCHANGED <<sock, queue, foreign, Open>>
               /\ (told' = [test |-> "eth1g", result |-> "NOT RUN"] \/ fault' = TRUE)
BY DEF EthOpen, Open, Tell, Crash, Works, Fails

LEMMA EthThreads ==
  ASSUME EthThread
  PROVE  /\ UNCHANGED <<board, options, sock, queue, Open, eth1g_result, leaked, popens, foreign>>
         /\ pc = "thread"
         /\ \/ /\ pc' = "send" /\ thread' = [thread EXCEPT ![sock].at = "start"]
               /\ UNCHANGED <<unsent, fault>>
            \/ pc' = "send" /\ UNCHANGED <<thread, unsent>> /\ fault' = TRUE
            \/ pc' = "loop" /\ UNCHANGED thread /\ unsent' = unsent + 1 /\ fault' = TRUE
BY DEF EthThread, Open, Tell, Works, Fails

LEMMA EthSends ==
  ASSUME EthSend
  PROVE  /\ UNCHANGED <<board, options, sock, thread, eth1g_result, leaked, popens, foreign>>
         /\ Open' = Open
         /\ pc = "send"
         /\ \/ /\ pc' = "join" /\ UNCHANGED <<unsent, fault>>
               /\ queue' = [s \in Open |-> IF s = sock THEN queue[s] ELSE Receives(s, "test")]
            \/ pc' = "loop" /\ UNCHANGED queue /\ unsent' = unsent + 1 /\ fault' = TRUE
BY DEF EthSend, Open, Tell, Works, Fails

LEMMA EthJoins ==
  ASSUME EthJoin
  PROVE  /\ UNCHANGED <<board, options, sock, thread, eth1g_result, leaked, popens, unsent, foreign, fault>>
         /\ pc = "join"
         /\ \/ /\ pc' = "loop" /\ told' = [test |-> "eth1g", result |-> eth1g_result]
               /\ thread[sock].at \in {"none", "ended"}
               /\ queue' = [s \in Open \ {sock} |-> queue[s]] /\ Open' = Open \ {sock}
            \/ pc' = "crashed" /\ UNCHANGED <<queue, Open, told>>
BY DEF EthJoin, history, Open, Tell, Crash, Works

(* No descriptor but those of memory tests and of 1G tests that left early *)
(* is kept.                                                                *)
LEMMA DescriptorsNext ==
  DiagTypes /\ DescriptorsKept /\ OwnReceiver /\ [Next]_vars => DescriptorsKept'
<1> SUFFICES ASSUME DiagTypes, DescriptorsKept, OwnReceiver, [Next]_vars PROVE DescriptorsKept'
  OBVIOUS
<1>0. Cardinality(Open) \in Nat /\ unsent \in Nat /\ popens \in Nat
  BY FS_CardinalityType DEF DescriptorsKept, DiagTypes
<1>b. ASSUME UNCHANGED <<pc, leaked, popens, unsent, Open>> PROVE DescriptorsKept'
  BY <1>b DEF DescriptorsKept, Running, InEth
<1>a. ASSUME Elsewhere PROVE DescriptorsKept'
  <2>1. UNCHANGED <<queue, unsent>> /\ ~InEth /\ ~InEth' /\ Running
    BY <1>a, ElsewhereKeeps, ElsewherePlaces DEF InEth
  <2>2. Open' = Open
    BY <2>1 DEF Open
  <2>3. popens' \in Nat /\ leaked' = popens'
    BY <1>a, <1>0, ElsewhereOpens DEF DescriptorsKept
  <2> QED
    BY <2>1, <2>2, <2>3 DEF DescriptorsKept
<1>1. CASE EthOpen
  <2>1. Running /\ ~InEth
    BY <1>1, EthOpens DEF Running, InEth
  <2>2. CASE pc' = "thread" /\ Open' = Open \cup {sock'}
    <3>1. IsFiniteSet(Open') /\ Cardinality(Open') <= Cardinality(Open) + 1 /\ InEth'
      BY <1>0, <2>2, FS_AddElement DEF DescriptorsKept, InEth
    <3>2. Cardinality(Open) <= unsent
      BY <1>0, <2>1 DEF DescriptorsKept
    <3>3. Cardinality(Open') \in Nat
      BY <3>1, FS_CardinalityType
    <3>4. Cardinality(Open') <= unsent + 1
      BY <1>0, <3>1, <3>2, <3>3
    <3> QED
      BY <1>1, <3>1, <3>4, EthOpens DEF DescriptorsKept
  <2>3. CASE pc' \in {"loop", "crashed"} /\ UNCHANGED Open
    BY <1>1, <2>1, <2>3, EthOpens DEF DescriptorsKept, InEth
  <2> QED
    BY <1>1, <2>2, <2>3, EthOpens
<1>c. ASSUME UNCHANGED <<leaked, popens, Open>>, InEth /\ Running,
             (InEth' /\ unsent' = unsent) \/ (~InEth' /\ unsent' = unsent + 1)
      PROVE  DescriptorsKept'
  <2>1. Cardinality(Open) <= unsent + 1
    BY <1>c DEF DescriptorsKept
  <2>2. Cardinality(Open') <= unsent' + (IF InEth' THEN 1 ELSE 0)
    BY <1>0, <1>c, <2>1
  <2> QED
    BY <1>c, <2>2 DEF DescriptorsKept
<1>2. CASE EthThread
  BY <1>2, <1>c, EthThreads DEF Running, InEth
<1>3. CASE EthSend
  BY <1>3, <1>c, EthSends DEF Running, InEth
<1>4. CASE EthJoin
  <2>1. CASE pc' = "loop" /\ Open' = Open \ {sock}
    <3>1. sock \in Open
      BY <1>4, EthJoins DEF OwnReceiver, InEth
    <3>2. IsFiniteSet(Open') /\ Cardinality(Open') = Cardinality(Open) - 1
      BY <2>1, <3>1, FS_RemoveElement DEF DescriptorsKept
    <3> QED
      BY <1>0, <1>4, <2>1, <3>2, EthJoins DEF DescriptorsKept, Running, InEth
  <2>2. CASE pc' = "crashed" /\ UNCHANGED Open
    BY <1>4, <2>2, EthJoins DEF DescriptorsKept, Running
  <2> QED
    BY <1>4, <2>1, <2>2, EthJoins
<1>5. ASSUME NEW t \in Sockets, ThreadStart(t) \/ Receive(t) \/ ReceiveFails(t) PROVE DescriptorsKept'
  BY <1>5, <1>b, ReceiverKeeps
<1>6. ASSUME NEW p, Arrives(p) PROVE DescriptorsKept'
  BY <1>6, <1>b, ArrivesKeeps
<1>7. CASE UNCHANGED vars
  BY <1>7, <1>b, SameSteps
<1> QED
  BY <1>a, <1>1, <1>2, <1>3, <1>4, <1>5, <1>6, <1>7 DEF Next, Main, Elsewhere, Terminated

(* Types, and the receivers that have not started yet. *)
LEMMA LeastOf ==
  ASSUME NEW S \in SUBSET Nat, S # {}
  PROVE  \E m \in S : \A n \in S : m <= n
<1> DEFINE R == OpToRel(<, Nat)
<1>1. IsWellFoundedOn(R, Nat)
  BY NatLessThanWellFounded
<1>2. \E m \in S : \A n \in S : <<n, m>> \notin R
  <2> HIDE DEF R
  <2> QED
    BY <1>1, WFMin
<1>3. \A m, n \in Nat : n < m => <<n, m>> \in R
  BY DEF OpToRel
<1> HIDE DEF R
<1>4. PICK m \in S : \A n \in S : <<n, m>> \notin R
  BY <1>2
<1>5. ASSUME NEW n \in S PROVE m <= n
  <2>1. ~(n < m)
    BY <1>3, <1>4
  <2>2. m \in Nat /\ n \in Nat
    OBVIOUS
  <2> QED
    BY <2>1, <2>2
<1> QED
  BY <1>5

LEMMA LatestOf ==
  ASSUME NEW n \in Nat, NEW S \in SUBSET (1..n), S # {}
  PROVE  Latest(S) \in S
<1> DEFINE T == {n - m : m \in S}
<1>1. T \in SUBSET Nat /\ T # {}
  <2>1. \A m \in S : n - m \in Nat
    OBVIOUS
  <2>2. PICK m \in S : TRUE
    OBVIOUS
  <2> QED
    BY <2>1, <2>2
<1>2. PICK t \in T : \A i \in T : t <= i
  <2> HIDE DEF T
  <2> QED
    BY <1>1, LeastOf
<1>3. PICK m \in S : t = n - m
  BY <1>2
<1>4. ASSUME NEW i \in S PROVE i <= m
  <2>1. n - i \in T
    OBVIOUS
  <2>2. n - m <= n - i
    BY <1>2, <1>3, <2>1
  <2>3. i \in Int /\ m \in Int
    OBVIOUS
  <2> QED
    BY <2>2, <2>3
<1>5. \E j \in S : \A i \in S : i <= j
  BY <1>4
<1> QED
  BY <1>5 DEF Latest

LEMMA ItersType ==
  ASSUME opts \in CommandLines, NEW n \in 1..Len(opts), Iters(n) # {}
  PROVE  opts[Latest(Iters(n))].iter \in Nat
<1>1. opts \in Seq(Options) /\ Len(opts) \in Nat /\ DOMAIN opts = 1..Len(opts)
  BY OptionType
<1>2. Iters(n) \in SUBSET (1..Len(opts))
  <2> DEFINE first == First(opts[n].opt)
             words == CASE first = n -> {n} [] first = n - 1 -> 1..n - 1 [] OTHER -> {}
  <2>1. n \in Nat /\ n <= Len(opts)
    BY <1>1
  <2>2. words \in SUBSET (1..Len(opts))
    <3>1. CASE first = n
      BY <3>1, <2>1
    <3>2. CASE first # n /\ first = n - 1
      <4>1. words = 1..n - 1
        BY <3>2
      <4> HIDE DEF words, first
      <4> QED
        BY <4>1, <1>1, <2>1
    <3>3. CASE first # n /\ first # n - 1
      BY <3>3
    <3> QED
      BY <3>1, <3>2, <3>3
  <2>3. Iters(n) \subseteq words
    BY DEF Iters, ArgsOf
  <2> QED
    BY <2>2, <2>3
<1>3. Latest(Iters(n)) \in Iters(n)
  BY <1>1, <1>2, LatestOf
<1>4. opts[Latest(Iters(n))] \in Options /\ opts[Latest(Iters(n))].iter # NoIter
  BY <1>1, <1>2, <1>3, ElementOfSeq DEF Iters
<1> QED
  BY <1>4 DEF Options

LEMMA OptionsNext ==
  ASSUME DiagTypes, TypeOK, [Next]_vars
  PROVE  /\ board' \in Boards /\ opts' \in CommandLines /\ k' \in 0..Len(opts')
         /\ left' \in 0..IterMod - 1 /\ infinite' \in BOOLEAN /\ ddr_test_infinite' \in BOOLEAN
<1> DEFINE P == /\ board' \in Boards /\ opts' \in CommandLines
                /\ left' \in 0..IterMod - 1 /\ infinite' \in BOOLEAN /\ ddr_test_infinite' \in BOOLEAN
<1> SUFFICES P
  BY TypesNext DEF DiagTypes
<1>a. ASSUME UNCHANGED <<board, options>> PROVE P
  BY <1>a DEF TypeOK, options
<1>1. CASE Option
  <2>1. UNCHANGED <<board, opts>> /\ infinite' \in BOOLEAN /\ ddr_test_infinite' \in BOOLEAN
    BY <1>1 DEF Option, TypeOK
  <2>2. DEFINE iter == IF Iters(k') = {} THEN 1 ELSE opts[Latest(Iters(k'))].iter % IterMod
  <2>3. k' \in 1..Len(opts)
    <3>1. Len(opts) \in Nat /\ k \in 0..Len(opts)
      BY OptionType DEF DiagTypes
    <3>2. k < Len(opts) /\ k' = k + 1
      BY <1>1 DEF Option
    <3> QED
      BY <3>1, <3>2
  <2>4. iter \in 0..IterMod - 1
    <3>1. Iters(k') # {} => opts[Latest(Iters(k'))].iter \in Nat
      BY <2>3, ItersType DEF TypeOK
    <3>2. \A i \in Nat : i % IterMod \in 0..IterMod - 1
      BY DiagAssumption
    <3>3. CASE Iters(k') = {}
      BY <3>3, DiagAssumption
    <3>4. CASE Iters(k') # {}
      <4>1. opts[Latest(Iters(k'))].iter % IterMod \in 0..IterMod - 1
        BY <3>1, <3>2, <3>4
      <4> QED
        BY <3>4, <4>1
    <3> QED
      BY <3>3, <3>4
  <2>5. left' = IF iter = 0 THEN 1 ELSE iter
    BY <1>1 DEF Option
  <2> HIDE DEF iter
  <2>6. left' \in 0..IterMod - 1
    BY <2>4, <2>5, DiagAssumption
  <2> QED
    BY <2>1, <2>6 DEF TypeOK
<1>2. CASE Loop
  <2>1. UNCHANGED <<board, opts, infinite, ddr_test_infinite>>
        /\ (left' = left \/ (left > 0 /\ left' = left - 1))
    BY <1>2 DEF Loop
  <2>2. left' \in 0..IterMod - 1
    BY <2>1, DiagAssumption DEF TypeOK
  <2> QED
    BY <2>1, <2>2 DEF TypeOK
<1>3. CASE End \/ PcieTest \/ I2cMdTest \/ UartTest \/ EepromTest \/ Eth25gTest
  BY <1>3, <1>a DEF End, PcieTest, I2cMdTest, UartTest, EepromTest, Eth25gTest
<1>4. CASE DdrTest \/ StressTest \/ MemtesterKilled
  BY <1>4, <1>a DEF DdrTest, StressTest, MemtesterKilled, MemoryTest
<1>5. CASE EthOpen \/ EthThread \/ EthSend \/ EthJoin
  BY <1>5, <1>a, EthOpens, EthThreads, EthSends, EthJoins
<1>6. ASSUME NEW t \in Sockets, ThreadStart(t) \/ Receive(t) \/ ReceiveFails(t) PROVE P
  BY <1>6, <1>a, ReceiverKeeps
<1>7. ASSUME NEW p, Arrives(p) PROVE P
  BY <1>7, <1>a, ArrivesKeeps
<1>8. CASE UNCHANGED vars
  BY <1>8, <1>a, SameSteps
<1> QED
  BY <1>1, <1>2, <1>3, <1>4, <1>5, <1>6, <1>7, <1>8 DEF Next, Main, Terminated

LEMMA LookTo ==
  ASSUME DiagTypes, TypeOK, NEW t \in Sockets, NEW p, Look(t, p), thread[t].at = "receive"
  PROVE  /\ \A u \in Sockets \ {t} : thread'[u] = thread[u]
         /\ thread'[t].sock = thread[t].sock /\ thread'[t].at \in {"receive", "ended"}
         /\ thread'[t].timeout = thread[t].timeout - 1 /\ thread'[t].timeout \in 0..Timeout
         /\ thread'[t].at = "receive" <=> p \notin {"test", "broadcast"} /\ thread[t].timeout # 1
         /\ thread'[t].at = "receive" => thread'[t].timeout > 0
         /\ eth1g_result' = IF p = "test" THEN "PASS" ELSE eth1g_result
<1> DEFINE last == p \in {"test", "broadcast"} \/ thread[t].timeout = 1
           new == [at |-> IF last THEN "ended" ELSE "receive", sock |-> thread[t].sock,
                   timeout |-> thread[t].timeout - 1, rcv_buff |-> p]
<1>1. thread' = [thread EXCEPT ![t] = new]
  BY DEF Look
<1>2. thread'[t] = new /\ \A u \in Sockets \ {t} : thread'[u] = thread[u]
  BY <1>1 DEF DiagTypes
<1>3. thread[t].timeout \in 0..Timeout /\ thread[t].timeout > 0 /\ Timeout \in Nat
  BY DiagAssumption DEF TypeOK
<1>4. eth1g_result' = IF p = "test" THEN "PASS" ELSE eth1g_result
  BY DEF Look, Validate
<1> QED
  BY <1>2, <1>3, <1>4

LEMMA ReceivesTo ==
  ASSUME DiagTypes, TypeOK, NEW s \in Open, NEW p \in Packets
  PROVE  /\ Receives(s, p) = queue[s] \/ Receives(s, p) = Append(queue[s], p)
         /\ Len(Receives(s, p)) <= QueueSize
<1>1. queue[s] \in Seq(Packets) /\ Len(queue[s]) \in Nat /\ Len(queue[s]) <= QueueSize /\ QueueSize \in Nat
  BY DiagAssumption DEF DiagTypes, TypeOK
<1> QED
  BY <1>1, AppendProperties DEF Receives

LEMMA QueuesNext ==
  ASSUME DiagTypes, TypeOK, [Next]_vars
  PROVE  \A s \in Open' : Len(queue'[s]) <= QueueSize
<1> USE DEF TypeOK
<1>0. QueueSize \in Nat
  BY DiagAssumption
<1>a. ASSUME UNCHANGED queue PROVE \A s \in Open' : Len(queue'[s]) <= QueueSize
  BY <1>a DEF Open
<1>1. CASE EthOpen
  <2>1. CASE /\ queue' = [s \in Open \cup {sock'} |-> IF s \in Open THEN queue[s] ELSE << >>]
             /\ Open' = Open \cup {sock'}
    <3>1. Len(<< >>) <= QueueSize
      BY <1>0
    <3> QED
      BY <2>1, <3>1
  <2> QED
    BY <1>1, <1>a, <2>1, EthOpens
<1>2. CASE EthSend
  <2>1. CASE queue' = [s \in Open |-> IF s = sock THEN queue[s] ELSE Receives(s, "test")]
    BY <1>2, <2>1, EthSends, ReceivesTo DEF Packets
  <2> QED
    BY <1>2, <1>a, <2>1, EthSends
<1>3. CASE EthJoin
  <2>1. CASE queue' = [s \in Open \ {sock} |-> queue[s]] /\ Open' = Open \ {sock}
    BY <2>1
  <2> QED
    BY <1>3, <1>a, <2>1, EthJoins
<1>4. ASSUME NEW t \in Sockets, Receive(t) PROVE \A s \in Open' : Len(queue'[s]) <= QueueSize
  <2>1. CASE /\ thread[t].sock \in Open /\ queue[thread[t].sock] # << >>
             /\ queue' = [queue EXCEPT ![thread[t].sock] = Tail(@)]
    <3>1. Len(Tail(queue[thread[t].sock])) <= QueueSize
      <4>1. queue[thread[t].sock] \in Seq(Packets) /\ Len(queue[thread[t].sock]) <= QueueSize
        BY <2>1 DEF DiagTypes
      <4>2. Len(queue[thread[t].sock]) \in Nat
            /\ Len(Tail(queue[thread[t].sock])) = Len(queue[thread[t].sock]) - 1
        BY <2>1, <4>1, LenProperties, HeadTailProperties
      <4> QED
        BY <1>0, <4>1, <4>2
    <3> QED
      BY <2>1, <3>1 DEF Open
  <2> QED
    BY <1>4, <1>a, <2>1 DEF Receive
<1>5. ASSUME NEW t \in Sockets, ThreadStart(t) \/ ReceiveFails(t) PROVE UNCHANGED queue
  BY <1>5 DEF ThreadStart, ReceiveFails
<1>6. ASSUME NEW p \in Packets, Arrives(p) PROVE \A s \in Open' : Len(queue'[s]) <= QueueSize
  <2>1. queue' = [s \in Open |-> Receives(s, p)] /\ Open' = Open
    BY <1>6, ArrivesKeeps DEF Arrives
  <2> QED
    BY <2>1, ReceivesTo
<1>7. CASE EthThread \/ Elsewhere \/ UNCHANGED vars
  BY <1>7, <1>a, EthThreads, ElsewhereKeeps, SameSteps
<1> QED
  BY <1>a, <1>1, <1>2, <1>3, <1>4, <1>5, <1>6, <1>7
     DEF Next, Main, Elsewhere, Terminated, Packets

(* Only the receiver of the current test or of an earlier one has started. *)
LEMMA ThreadsNext ==
  ASSUME DiagTypes, TypeOK, OwnReceiver, [Next]_vars
  PROVE  /\ sock' \in Sockets \cup {0} /\ Open' \subseteq 1..sock'
         /\ \A t \in Sockets : /\ thread'[t].timeout \in 0..Timeout
                               /\ thread'[t].at = "receive" => thread'[t].timeout > 0
                               /\ t > sock' => thread'[t] = NotStarted
         /\ OwnReceiver'
<1> DEFINE P == /\ sock' \in Sockets \cup {0} /\ Open' \subseteq 1..sock'
                /\ \A t \in Sockets : /\ thread'[t].timeout \in 0..Timeout
                                      /\ thread'[t].at = "receive" => thread'[t].timeout > 0
                                      /\ t > sock' => thread'[t] = NotStarted
                /\ OwnReceiver'
<1>0. sock \in Nat /\ Sockets \subseteq Nat /\ Timeout \in Nat \ {0}
  BY DiagAssumption DEF DiagTypes
<1>a. ASSUME UNCHANGED <<sock, Open, thread>>, InEth' => InEth /\ (pc' = "thread" => pc = "thread") PROVE P
  BY <1>a DEF TypeOK, OwnReceiver
<1>1. CASE EthOpen
  <2>1. CASE /\ pc' = "thread" /\ sock' = sock + 1 /\ sock' \in Sockets
             /\ Open' = Open \cup {sock'} /\ UNCHANGED thread
    <3>1. Open' \subseteq 1..sock'
      <4>1. 1..sock \subseteq 1..sock' /\ sock' \in 1..sock'
        BY <1>0, <2>1
      <4> QED
        BY <2>1, <4>1 DEF TypeOK
    <3>2. \A t \in Sockets : t > sock' => t > sock
      BY <1>0, <2>1
    <3>3. thread[sock'] = NotStarted
      BY <1>0, <2>1 DEF TypeOK
    <3> QED
      BY <2>1, <3>1, <3>2, <3>3 DEF TypeOK, OwnReceiver, NotStarted
  <2>2. CASE pc' \in {"loop", "crashed"} /\ UNCHANGED <<sock, Open, thread>>
    BY <1>a, <2>2 DEF InEth
  <2> QED
    BY <1>1, <2>1, <2>2, EthOpens
<1>2. CASE EthThread
  <2>1. CASE pc' = "send" /\ thread' = [thread EXCEPT ![sock].at = "start"]
    <3>1. sock \in Sockets /\ sock \in Open /\ UNCHANGED <<sock, Open>>
      BY <1>2, EthThreads DEF OwnReceiver, InEth
    <3>2. /\ thread'[sock].timeout = thread[sock].timeout /\ thread'[sock].at = "start"
          /\ \A t \in Sockets \ {sock} : thread'[t] = thread[t]
      BY <2>1, <3>1 DEF DiagTypes
    <3> QED
      BY <1>0, <2>1, <3>1, <3>2 DEF TypeOK, OwnReceiver
  <2>2. CASE pc' \in {"send", "loop"} /\ UNCHANGED thread
    BY <1>2, <1>a, <2>2, EthThreads DEF InEth
  <2> QED
    BY <1>2, <2>1, <2>2, EthThreads
<1>3. CASE EthSend
  BY <1>3, <1>a, EthSends DEF InEth
<1>4. CASE EthJoin
  BY <1>4, EthJoins DEF TypeOK, OwnReceiver, InEth
<1>b. ASSUME NEW t \in Sockets, UNCHANGED <<pc, sock, Open>>, thread[t].at \in {"start", "receive"},
             \A u \in Sockets \ {t} : thread'[u] = thread[u],
             thread'[t].timeout \in 0..Timeout, thread'[t].at = "receive" => thread'[t].timeout > 0
      PROVE  P
  <2>1. ~(t > sock) /\ (pc = "thread" => t # sock)
    BY <1>b DEF TypeOK, OwnReceiver, InEth, NotStarted
  <2> QED
    BY <1>b, <2>1 DEF TypeOK, OwnReceiver, InEth
<1>5. ASSUME NEW t \in Sockets, ThreadStart(t) PROVE P
  <2>1. PICK s, b : thread' = [thread EXCEPT ![t] = [at |-> "receive", sock |-> s, timeout |-> Timeout, rcv_buff |-> b]]
    BY <1>5 DEF ThreadStart
  <2>2. thread'[t].timeout = Timeout /\ \A u \in Sockets \ {t} : thread'[u] = thread[u]
    BY <2>1 DEF DiagTypes
  <2>3. thread[t].at = "start"
    BY <1>5 DEF ThreadStart
  <2> QED
    BY <1>0, <1>5, <1>b, <2>2, <2>3, ReceiverKeeps
<1>6. ASSUME NEW t \in Sockets, Receive(t) \/ ReceiveFails(t) PROVE P
  <2>1. thread[t].at = "receive" /\ \E p : Look(t, p)
    BY <1>6 DEF Receive, ReceiveFails
  <2>2. /\ \A u \in Sockets \ {t} : thread'[u] = thread[u]
        /\ thread'[t].timeout \in 0..Timeout
        /\ thread'[t].at = "receive" => thread'[t].timeout > 0
    BY <2>1, LookTo
  <2> QED
    BY <1>6, <1>b, <2>1, <2>2, ReceiverKeeps
<1>7. ASSUME NEW p, Arrives(p) PROVE P
  BY <1>7, <1>a, ArrivesKeeps DEF InEth
<1>8. CASE Elsewhere
  BY <1>8, <1>a, ElsewhereKeeps, ElsewherePlaces DEF InEth, Open
<1>9. CASE UNCHANGED vars
  BY <1>9, <1>a, SameSteps DEF InEth
<1> QED
  BY <1>1, <1>2, <1>3, <1>4, <1>5, <1>6, <1>7, <1>8, <1>9
     DEF Next, Main, Elsewhere, Terminated

LEMMA ForeignNext ==
  ASSUME TypeOK, [Next]_vars
  PROVE  /\ foreign' \in 0..Timeout
         /\ ~EthOpen /\ foreign = Timeout => foreign' = Timeout
<1>0. foreign \in 0..Timeout /\ Timeout \in Nat
  BY DiagAssumption DEF TypeOK
<1>1. CASE EthOpen
  <2>1. foreign' = 0 \/ UNCHANGED foreign
    BY <1>1 DEF EthOpen
  <2> QED
    BY <1>0, <1>1, <2>1
<1>2. CASE EthThread \/ EthSend \/ EthJoin \/ Elsewhere
  BY <1>0, <1>2, EthThreads, EthSends, EthJoins, ElsewhereOpens
<1>3. ASSUME NEW t \in Sockets, ThreadStart(t) \/ Receive(t) \/ ReceiveFails(t) PROVE UNCHANGED foreign
  BY <1>3, ReceiverKeeps
<1>4. ASSUME NEW p, Arrives(p) PROVE foreign' \in 0..Timeout /\ (foreign = Timeout => foreign' = Timeout)
  <2>1. \/ UNCHANGED foreign
        \/ foreign' = Timeout
        \/ foreign < Timeout /\ foreign' = foreign + 1
    BY <1>4 DEF Arrives
  <2> QED
    BY <1>0, <2>1
<1>5. CASE UNCHANGED vars
  BY <1>0, <1>5, SameSteps
<1> QED
  BY <1>0, <1>1, <1>2, <1>3, <1>4, <1>5 DEF Next, Main, Elsewhere, Terminated

LEMMA FreeNext ==
  ASSUME DiagTypes, TypeOK, DescriptorsKept, DescriptorsKept', OwnReceiver, [Next]_vars
  PROVE  Free' >= 0
<1>0. /\ Descriptors \in Nat /\ leaked \in Nat /\ leaked' \in Nat
      /\ IsFiniteSet(Open) /\ Cardinality(Open) \in Nat
      /\ IsFiniteSet(Open') /\ Cardinality(Open') \in Nat
      /\ Descriptors - leaked - Cardinality(Open) >= 0
  BY DiagAssumption, FS_CardinalityType DEF DescriptorsKept, TypeOK, Free
<1>a. ASSUME UNCHANGED <<leaked, Open>> PROVE Free' >= 0
  BY <1>0, <1>a DEF Free
<1>1. CASE EthOpen
  <2>1. CASE Open' = Open \cup {sock'} /\ Free >= 1 /\ leaked' = leaked
    <3>1. Cardinality(Open') <= Cardinality(Open) + 1
      BY <1>0, <2>1, FS_AddElement
    <3> QED
      BY <1>0, <2>1, <3>1 DEF Free
  <2> QED
    BY <1>1, <1>a, <2>1, EthOpens
<1>2. CASE EthJoin
  <2>1. CASE Open' = Open \ {sock} /\ leaked' = leaked
    <3>1. Cardinality(Open') \in {Cardinality(Open) - 1, Cardinality(Open)}
      BY <1>0, <2>1, FS_RemoveElement
    <3> QED
      BY <1>0, <2>1, <3>1 DEF Free
  <2> QED
    BY <1>2, <1>a, <2>1, EthJoins
<1>3. CASE Elsewhere
  <2>1. UNCHANGED Open
    BY <1>3, ElsewhereKeeps DEF Open
  <2>2. CASE leaked' = leaked + 1 /\ ~(Free < 2)
    BY <1>0, <2>1, <2>2 DEF Free
  <2> QED
    BY <1>3, <1>a, <2>1, <2>2, ElsewhereOpens
<1>4. CASE EthThread \/ EthSend
  BY <1>4, <1>a, EthThreads, EthSends
<1>5. ASSUME NEW t \in Sockets, ThreadStart(t) \/ Receive(t) \/ ReceiveFails(t) PROVE Free' >= 0
  BY <1>5, <1>a, ReceiverKeeps
<1>6. ASSUME NEW p, Arrives(p) PROVE Free' >= 0
  BY <1>6, <1>a, ArrivesKeeps
<1>7. CASE UNCHANGED vars
  BY <1>7, <1>a, SameSteps
<1> QED
  BY <1>1, <1>2, <1>3, <1>4, <1>5, <1>6, <1>7 DEF Next, Main, Elsewhere, Terminated

(* Queues and the packets before the first frame of a test. *)
LEMMA FramedTail ==
  ASSUME NEW q \in Seq(Packets), q # << >>, Head(q) # "test", NEW n \in Int, FramedAfter(q, n)
  PROVE  1 <= n /\ FramedAfter(Tail(q), n - 1)
<1>1. /\ Len(q) \in Nat \ {0} /\ Len(Tail(q)) = Len(q) - 1 /\ q[1] # "test"
      /\ \A i \in 1..Len(Tail(q)) : Tail(q)[i] = q[i + 1]
  BY EmptySeq, HeadTailProperties
<1>2. 1 <= n
  BY <1>1 DEF FramedAfter
<1>3. ASSUME NEW j \in 0..Len(Tail(q)), \A m \in 1..j : Tail(q)[m] # "test" PROVE j <= n - 1
  <2>1. ASSUME NEW m \in 1..j + 1 PROVE q[m] # "test"
    <3>1. CASE m = 1
      BY <1>1, <3>1
    <3>2. CASE m # 1
      <4>1. m - 1 \in 1..j /\ m - 1 \in 1..Len(Tail(q)) /\ (m - 1) + 1 = m
        BY <1>1, <3>2
      <4> QED
        BY <1>1, <1>3, <4>1
    <3> QED
      BY <3>1, <3>2
  <2>2. j + 1 \in 0..Len(q)
    BY <1>1
  <2>3. j + 1 <= n
    BY <2>1, <2>2 DEF FramedAfter
  <2> QED
    BY <2>3
<1> QED
  BY <1>2, <1>3 DEF FramedAfter

LEMMA FramedMore ==
  ASSUME NEW q \in Seq(Packets), NEW n \in Int, NEW m \in Int, n <= m, FramedAfter(q, n)
  PROVE  FramedAfter(q, m)
<1>1. Len(q) \in Nat
  BY LenProperties
<1> QED
  BY <1>1 DEF FramedAfter

LEMMA FramedAppend ==
  ASSUME NEW q \in Seq(Packets), NEW p \in Packets, NEW n \in Int, FramedAfter(q, n)
  PROVE  FramedAfter(Append(q, p), IF p = "test" THEN n ELSE n + 1)
<1> DEFINE r == Append(q, p)
<1>1. /\ Len(q) \in Nat /\ Len(r) = Len(q) + 1 /\ r[Len(q) + 1] = p
      /\ \A i \in 1..Len(q) : r[i] = q[i]
  BY LenProperties, AppendProperties
<1> HIDE DEF r
<1>2. ASSUME NEW j \in 0..Len(r), \A m \in 1..j : r[m] # "test"
      PROVE  j <= IF p = "test" THEN n ELSE n + 1
  <2>1. CASE j \in 0..Len(q)
    <3>1. \A m \in 1..j : q[m] # "test"
      BY <1>1, <1>2, <2>1
    <3>2. j <= n
      BY <2>1, <3>1 DEF FramedAfter
    <3> QED
      BY <3>2
  <2>2. CASE j = Len(q) + 1
    <3>1. \A m \in 1..Len(q) : q[m] # "test"
      BY <1>1, <1>2, <2>2
    <3>2. Len(q) <= n
      BY <1>1, <3>1 DEF FramedAfter
    <3>3. p # "test"
      BY <1>1, <1>2, <2>2
    <3> QED
      BY <1>1, <2>2, <3>2, <3>3
  <2> QED
    BY <1>1, <2>1, <2>2
<1> QED
  BY <1>2 DEF FramedAfter, r

(* The receiver of the test going on is waiting still. *)
LEMMA WaitingNext ==
  DiagTypes /\ TypeOK /\ OwnReceiver /\ Waiting /\ [Next]_vars => Waiting'
<1> DEFINE Waits ==
      /\ pc # "thread" => thread[sock].at \in {"start", "receive"}
      /\ thread[sock].at = "receive" => thread[sock].sock = sock
      /\ \A n \in 1..Len(queue[sock]) : queue[sock][n] # "broadcast"
      /\ FramedAfter(queue[sock], foreign - Looked)
<1> SUFFICES ASSUME DiagTypes, TypeOK, OwnReceiver, Waiting, [Next]_vars,
                    InEth', ~fault', eth1g_result' = "FAIL", foreign' # Timeout
             PROVE  Waits'
  BY DEF Waiting
<1>0. /\ Timeout \in Nat \ {0} /\ foreign \in 0..Timeout /\ foreign' \in 0..Timeout
      /\ eth1g_result \in {"PASS", "FAIL"}
  BY DiagAssumption, ForeignNext DEF TypeOK
<1>a. ASSUME InEth, ~fault, eth1g_result = "FAIL", ~EthOpen
      PROVE  /\ Waits /\ foreign # Timeout /\ sock \in Open /\ sock \in Sockets
             /\ queue[sock] \in Seq(Packets) /\ Len(queue[sock]) \in Nat
             /\ thread[sock].timeout \in 0..Timeout /\ Looked \in 0..Timeout
  <2>1. foreign # Timeout
    BY <1>a, ForeignNext
  <2>2. sock \in Open /\ sock \in Sockets
    BY <1>a DEF OwnReceiver
  <2>3. queue[sock] \in Seq(Packets) /\ thread[sock].timeout \in 0..Timeout
    BY <2>2 DEF DiagTypes, TypeOK
  <2>4. Looked \in 0..Timeout
    BY <1>0, <2>3 DEF Looked
  <2> QED
    BY <1>a, <2>1, <2>2, <2>3, <2>4, LenProperties DEF Waiting
<1>b. ASSUME InEth, ~fault, eth1g_result = "FAIL", ~EthOpen,
             UNCHANGED <<sock, foreign>>, pc' = "thread" => pc = "thread",
             queue'[sock] = queue[sock], thread'[sock] = thread[sock], pc = "thread" => pc' = "thread"
      PROVE  Waits'
  BY <1>a, <1>b DEF Looked
<1>1. CASE EthOpen
  <2>1. /\ pc' = "thread" /\ sock' = sock + 1 /\ sock' \in Sockets /\ foreign' = 0 /\ UNCHANGED thread
        /\ queue' = [s \in Open \cup {sock'} |-> IF s \in Open THEN queue[s] ELSE << >>]
    BY <1>1, EthOpens DEF InEth
  <2>2. sock' \notin Open /\ sock' > sock
    BY <2>1 DEF TypeOK, DiagTypes
  <2>3. queue'[sock'] = << >> /\ thread'[sock'].at = "none"
    BY <2>1, <2>2 DEF TypeOK, NotStarted
  <2>4. Looked' = 0 /\ Len(<< >>) = 0
    BY <2>3 DEF Looked
  <2>5. FramedAfter(<< >>, 0)
    BY <2>4 DEF FramedAfter
  <2> QED
    BY <2>1, <2>3, <2>4, <2>5
<1>2. CASE EthThread
  <2>1. /\ pc' = "send" /\ thread' = [thread EXCEPT ![sock].at = "start"] /\ pc = "thread"
        /\ UNCHANGED <<fault, sock, queue, eth1g_result, foreign>> /\ ~EthOpen
    BY <1>2, EthThreads, EthOpens DEF InEth
  <2>2. InEth /\ ~fault /\ eth1g_result = "FAIL"
    BY <2>1 DEF InEth
  <2>3. Waits /\ sock \in Sockets /\ thread[sock].at = "none"
    BY <2>1, <2>2, <1>a DEF OwnReceiver
  <2>4. thread'[sock].at = "start"
    BY <2>1, <2>3 DEF DiagTypes
  <2>5. Looked' = 0 /\ Looked = 0
    BY <2>1, <2>3, <2>4 DEF Looked
  <2> QED
    BY <2>1, <2>3, <2>4, <2>5
<1>3. CASE EthSend
  <2>1. /\ pc' = "join" /\ pc = "send" /\ UNCHANGED <<fault, sock, thread, eth1g_result, foreign>>
        /\ queue' = [s \in Open |-> IF s = sock THEN queue[s] ELSE Receives(s, "test")] /\ ~EthOpen
    BY <1>3, EthSends, EthOpens DEF InEth
  <2>2. InEth /\ ~fault /\ eth1g_result = "FAIL"
    BY <2>1 DEF InEth
  <2>3. queue'[sock] = queue[sock]
    BY <2>1, <2>2, <1>a
  <2> QED
    BY <2>1, <2>2, <2>3, <1>b
<1>4. ASSUME NEW t \in Sockets, ThreadStart(t) PROVE Waits'
  <2>1. /\ UNCHANGED <<pc, sock, queue, eth1g_result, foreign, fault>> /\ thread[t].at = "start"
    BY <1>4 DEF ThreadStart, Works, history
  <2>2. InEth /\ ~fault /\ eth1g_result = "FAIL" /\ ~EthOpen
    BY <2>1, EthOpens DEF InEth
  <2>3. CASE t = sock
    <3>1. InTest(t)
      BY <2>1, <2>2, <2>3 DEF InTest, OwnReceiver, InEth
    <3>2. PICK b : thread' = [thread EXCEPT ![t] = [at |-> "receive", sock |-> t, timeout |-> Timeout, rcv_buff |-> b]]
      BY <1>4, <3>1 DEF ThreadStart
    <3>3. thread'[sock].at = "receive" /\ thread'[sock].sock = sock /\ thread'[sock].timeout = Timeout
      BY <2>3, <3>2 DEF DiagTypes
    <3>4. Looked' = 0 /\ Looked = 0
      BY <1>0, <2>1, <2>3, <3>3 DEF Looked
    <3> QED
      BY <2>1, <2>2, <3>3, <3>4, <1>a
  <2>4. CASE t # sock
    <3>1. thread'[sock] = thread[sock]
      BY <1>4, <2>4 DEF ThreadStart, DiagTypes
    <3> QED
      BY <2>1, <2>2, <3>1, <1>b
  <2> QED
    BY <2>3, <2>4
<1>5. ASSUME NEW t \in Sockets, Receive(t) PROVE Waits'
  <2>1. UNCHANGED <<pc, sock, foreign, fault>> /\ thread[t].at = "receive"
    BY <1>5 DEF Receive, Works, history
  <2>2. InEth /\ ~fault /\ ~EthOpen
    BY <2>1, EthOpens DEF InEth
  <2>3. eth1g_result = "FAIL"
    <3>1. PICK p : Look(t, p)
      BY <1>5 DEF Receive
    <3> QED
      BY <1>0, <2>1, <3>1, LookTo
  <2>4. /\ Waits /\ foreign # Timeout /\ sock \in Open /\ sock \in Sockets
        /\ queue[sock] \in Seq(Packets) /\ Len(queue[sock]) \in Nat
        /\ thread[sock].timeout \in 0..Timeout /\ Looked \in 0..Timeout
    BY <2>2, <2>3, <1>a
  <2>5. CASE thread[t].sock = sock
    <3> DEFINE q == queue[sock]
    <3>1. /\ q # << >> /\ Look(t, Head(q)) /\ queue' = [queue EXCEPT ![sock] = Tail(@)]
      BY <1>5, <2>4, <2>5 DEF Receive
    <3>2. Head(q) # "test"
      BY <1>0, <2>1, <3>1, LookTo
    <3>3. /\ Tail(q) \in Seq(Packets) /\ Len(Tail(q)) = Len(q) - 1
          /\ \A i \in 1..Len(Tail(q)) : Tail(q)[i] = q[i + 1] /\ i + 1 \in 1..Len(q)
          /\ Head(q) = q[1] /\ 1 \in 1..Len(q)
      BY <2>4, <3>1, HeadTailProperties, EmptySeq
    <3>4. Head(q) # "broadcast" /\ \A i \in 1..Len(Tail(q)) : Tail(q)[i] # "broadcast"
      BY <2>4, <3>3
    <3>5. 1 <= foreign - Looked /\ FramedAfter(Tail(q), (foreign - Looked) - 1)
      BY <1>0, <2>4, <3>1, <3>2, FramedTail
    <3>6. queue'[sock] = Tail(q)
      BY <2>4, <3>1 DEF DiagTypes
    <3> HIDE DEF q
    <3>7. CASE t = sock
      <4>1. Looked = Timeout - thread[sock].timeout
        BY <2>1, <3>7 DEF Looked
      <4>2. thread[sock].timeout # 1
        BY <1>0, <2>4, <3>5, <4>1
      <4>3. /\ thread'[sock].at = "receive" /\ thread'[sock].sock = sock
            /\ thread'[sock].timeout = thread[sock].timeout - 1
        BY <2>1, <2>5, <3>1, <3>2, <3>4, <3>7, <4>2, LookTo
      <4>4. foreign' - Looked' = (foreign - Looked) - 1
        BY <1>0, <2>1, <2>4, <4>1, <4>3 DEF Looked
      <4> QED
        BY <2>1, <3>4, <3>5, <3>6, <4>3, <4>4
    <3>8. CASE t # sock
      <4>1. thread'[sock] = thread[sock]
        BY <2>1, <2>4, <3>1, <3>8, LookTo
      <4>2. FramedAfter(Tail(q), foreign - Looked)
        <5>1. /\ foreign - Looked \in Int /\ (foreign - Looked) - 1 \in Int
              /\ (foreign - Looked) - 1 <= foreign - Looked
          BY <1>0, <2>4
        <5> QED
          BY <3>3, <3>5, <5>1, FramedMore
      <4>3. foreign' - Looked' = foreign - Looked
        BY <2>1, <4>1 DEF Looked
      <4> QED
        BY <2>1, <2>4, <3>4, <3>6, <4>1, <4>2, <4>3
    <3> QED
      BY <3>7, <3>8
  <2>6. CASE thread[t].sock # sock
    <3>1. t # sock
      BY <2>1, <2>4, <2>6
    <3>2. \E p : Look(t, p)
      BY <1>5 DEF Receive
    <3>3. thread'[sock] = thread[sock]
      BY <2>1, <2>4, <3>1, <3>2, LookTo
    <3>4. queue'[sock] = queue[sock]
      BY <1>5, <2>4, <2>6 DEF Receive, DiagTypes
    <3> QED
      BY <2>1, <2>2, <2>3, <3>3, <3>4, <1>b
  <2> QED
    BY <2>5, <2>6
<1>6. ASSUME NEW t \in Sockets, ReceiveFails(t) PROVE FALSE
  BY <1>6 DEF ReceiveFails, Fails
<1>7. ASSUME NEW p \in Packets, Arrives(p) PROVE Waits'
  <2>1. /\ UNCHANGED <<pc, sock, eth1g_result, thread, fault>>
        /\ queue' = [s \in Open |-> Receives(s, p)]
        /\ foreign' = CASE p = "test" -> foreign [] p = "broadcast" -> Timeout
                        [] OTHER -> IF foreign < Timeout THEN foreign + 1 ELSE Timeout
    BY <1>7 DEF Arrives, Works
  <2>2. InEth /\ ~fault /\ eth1g_result = "FAIL" /\ ~EthOpen
    BY <2>1, EthOpens DEF InEth
  <2>3. /\ Waits /\ foreign # Timeout /\ sock \in Open /\ sock \in Sockets
        /\ queue[sock] \in Seq(Packets) /\ Len(queue[sock]) \in Nat
        /\ thread[sock].timeout \in 0..Timeout /\ Looked \in 0..Timeout
    BY <2>2, <1>a
  <2>4. p # "broadcast" /\ foreign' = IF p = "test" THEN foreign ELSE foreign + 1
    BY <1>0, <2>1, <2>3 DEF Packets
  <2>5. foreign' - Looked' = IF p = "test" THEN foreign - Looked ELSE (foreign - Looked) + 1
    BY <1>0, <2>1, <2>3, <2>4, SMTT(30) DEF Looked
  <2>6. CASE queue'[sock] = queue[sock]
    <3>1. FramedAfter(queue[sock], foreign' - Looked')
      BY <1>0, <2>3, <2>5, FramedMore
    <3> QED
      BY <2>1, <2>3, <2>6, <3>1
  <2>7. CASE queue'[sock] = Append(queue[sock], p)
    <3>1. FramedAfter(Append(queue[sock], p), foreign' - Looked')
      BY <1>0, <2>3, <2>5, FramedAppend
    <3>2. \A n \in 1..Len(Append(queue[sock], p)) : Append(queue[sock], p)[n] # "broadcast"
      <4>1. /\ Len(Append(queue[sock], p)) = Len(queue[sock]) + 1
            /\ \A i \in 1..Len(queue[sock]) : Append(queue[sock], p)[i] = queue[sock][i]
            /\ Append(queue[sock], p)[Len(queue[sock]) + 1] = p
        BY <2>3, AppendProperties
      <4> QED
        BY <2>3, <2>4, <4>1
    <3> QED
      BY <2>1, <2>3, <2>7, <3>1, <3>2
  <2>8. queue'[sock] = queue[sock] \/ queue'[sock] = Append(queue[sock], p)
    BY <2>1, <2>3, ReceivesTo
  <2> QED
    BY <2>6, <2>7, <2>8
<1>8. CASE EthJoin \/ Elsewhere
  BY <1>8, EthJoins, ElsewherePlaces DEF InEth
<1>9. CASE UNCHANGED vars
  <2>1. /\ UNCHANGED <<pc, sock, queue, thread, foreign, eth1g_result, fault>>
    BY <1>9, SameSteps
  <2>2. InEth /\ ~fault /\ eth1g_result = "FAIL" /\ ~EthOpen
    BY <2>1, EthOpens DEF InEth
  <2> QED
    BY <2>1, <2>2, <1>b
<1> QED
  BY <1>1, <1>2, <1>3, <1>4, <1>5, <1>6, <1>7, <1>8, <1>9
     DEF Next, Main, Elsewhere, Terminated, Packets

LEMMA SumGrows ==
  ASSUME NEW a \in Nat, NEW b \in Nat, NEW c \in Nat, NEW d \in Nat, NEW n \in Int,
         a <= c, b <= d, a + b >= n
  PROVE  c + d >= n
OBVIOUS

(* A verdict of main stands until the next test begins. *)
LEMMA FailStands ==
  ASSUME DiagTypes, TypeOK, FailHonest, UNCHANGED <<board, dev_id, told>>, fault => fault',
         popens \in Nat, popens' \in Nat, unsent' \in Nat, popens <= popens', unsent <= unsent',
         foreign = Timeout => foreign' = Timeout
  PROVE  FailHonest'
<1>1. unsent \in Nat /\ Descriptors \in Nat
  BY DiagAssumption DEF DiagTypes
<1>2. SUFFICES ASSUME told.result = "FAIL", ~fault
               PROVE  FailHonest'
  BY DEF FailHonest
<1>3. ASSUME NEW n \in Int, popens + unsent >= n PROVE popens' + unsent' >= n
  BY <1>1, <1>3, SumGrows
<1>4. Descriptors \in Int /\ Descriptors - 1 \in Int
  BY <1>1
<1> QED
  BY <1>2, <1>3, <1>4 DEF FailHonest

(* Where too few descriptors are free, memory tests and 1G tests that left *)
(* early hold the others.                                                  *)
LEMMA DescriptorsUsed ==
  ASSUME DiagTypes, DescriptorsKept, Running, ~InEth
  PROVE  /\ Free < 1 => popens + unsent >= Descriptors
         /\ Free < 2 => popens + unsent >= Descriptors - 1
<1>1. /\ Descriptors \in Nat /\ unsent \in Nat /\ popens \in Nat /\ leaked = popens
      /\ Cardinality(Open) \in Nat
  BY DiagAssumption, FS_CardinalityType DEF DiagTypes, DescriptorsKept
<1>2. Cardinality(Open) <= unsent
  BY <1>1 DEF DescriptorsKept
<1> QED
  BY <1>1, <1>2 DEF Free

LEMMA FailNext ==
  DiagInv /\ TypeOK /\ DescriptorsKept /\ DescriptorsKept' /\ OwnReceiver /\ Waiting /\ FailHonest
    /\ [Next]_vars => FailHonest'
<1> SUFFICES ASSUME DiagInv, TypeOK, DescriptorsKept, DescriptorsKept', OwnReceiver, Waiting,
                    FailHonest, [Next]_vars
             PROVE  FailHonest'
  OBVIOUS
<1>0. /\ DiagTypes /\ Cleared /\ unsent \in Nat /\ unsent' \in Nat /\ popens \in Nat /\ popens' \in Nat
      /\ Descriptors \in Nat
  BY TypesNext, DiagAssumption DEF DiagInv, DiagTypes, DescriptorsKept
<1>1. pc # "loop" => told.result # "FAIL"
  <2>1. NoVerdict.result # "FAIL"
    BY DEF NoVerdict
  <2> QED
    BY <1>0, <2>1 DEF Cleared
<1>a. ASSUME told' = told, pc # "loop" PROVE FailHonest'
  BY <1>1, <1>a DEF FailHonest
<1>b. ASSUME fault' PROVE FailHonest'
  BY <1>b DEF FailHonest
<1>c. ASSUME NEW t, NEW r, told' = [test |-> t, result |-> r], r # "FAIL" PROVE FailHonest'
  <2>1. told'.result = r
    BY <1>c
  <2> QED
    BY <1>c, <2>1 DEF FailHonest
<1>d. ASSUME Elsewhere
      PROVE  /\ Free < 1 => popens + unsent >= Descriptors
             /\ Free < 2 => popens + unsent >= Descriptors - 1
  BY <1>0, <1>d, DescriptorsUsed, ElsewherePlaces DEF InEth
<1>2. CASE Option \/ End
  BY <1>2, <1>a DEF Option, End
<1>3. CASE Loop
  BY <1>3, <1>c DEF Loop, NoVerdict
<1>4. CASE PcieTest
  <2>1. \/ Tell("pcie", PcieVerdict) /\ Works
        \/ fault' = TRUE
    BY <1>4 DEF PcieTest, Fails
  <2>2. CASE told' = [test |-> "pcie", result |-> "FAIL"] /\ PcieVerdict = "FAIL"
    <3>1. ~board.pcie \/ Free < 2
      BY <2>2 DEF PcieVerdict
    <3>2. told'.test = "pcie" /\ UNCHANGED <<board, popens, unsent>>
      BY <1>4, <2>2 DEF PcieTest, history
    <3> QED
      BY <1>4, <1>d, <3>1, <3>2 DEF FailHonest, Elsewhere
  <2> QED
    BY <1>b, <1>c, <2>1, <2>2 DEF Tell
<1>5. CASE DdrTest \/ StressTest \/ MemtesterKilled
  <2>1. PICK t \in {"ddr", "stressapptest"} : MemoryTest(t)
    BY <1>5 DEF DdrTest, StressTest, MemtesterKilled
  <2>2. \/ told' = [test |-> t, result |-> "PASS"]
        \/ fault' = TRUE
        \/ /\ Free < 2 /\ told' = [test |-> t, result |-> "FAIL"]
           /\ UNCHANGED <<popens, unsent>>
    BY <2>1 DEF MemoryTest, Tell, Fails
  <2>3. CASE /\ Free < 2 /\ told' = [test |-> t, result |-> "FAIL"]
             /\ UNCHANGED <<popens, unsent>>
    <3>1. told'.test = t
      BY <2>3
    <3> QED
      BY <1>5, <1>d, <2>3, <3>1 DEF FailHonest, Elsewhere
  <2> QED
    BY <1>b, <1>c, <2>2, <2>3
<1>6. CASE I2cMdTest
  <2>1. \/ fault' = TRUE
        \/ told' = [test |-> "i2cmd", result |-> IF board.suc /\ Free >= 1 THEN "PASS" ELSE "FAIL"]
    BY <1>6 DEF I2cMdTest, Tell, Fails
  <2>2. CASE told' = [test |-> "i2cmd", result |-> "FAIL"] /\ ~(board.suc /\ Free >= 1)
    <3>1. told'.test = "i2cmd" /\ UNCHANGED <<board, popens, unsent>>
      BY <1>6, <2>2 DEF I2cMdTest, history
    <3>2. ~board.suc \/ popens + unsent >= Descriptors
      <4>1. Free \in Int
        BY <1>0, FS_CardinalityType DEF Free, DescriptorsKept
      <4> QED
        BY <1>6, <1>d, <2>2, <4>1 DEF Elsewhere
    <3> QED
      BY <3>1, <3>2 DEF FailHonest
  <2> QED
    BY <1>b, <1>c, <2>1, <2>2
<1>7. CASE UartTest
  <2>1. \/ fault' = TRUE
        \/ told' = [test |-> "uart", result |-> IF board.serial /\ Free >= 1 THEN "PASS" ELSE "FAIL"]
    BY <1>7 DEF UartTest, Tell, Fails
  <2>2. CASE told' = [test |-> "uart", result |-> "FAIL"] /\ ~(board.serial /\ Free >= 1)
    <3>1. told'.test = "uart" /\ UNCHANGED <<board, popens, unsent>>
      BY <1>7, <2>2 DEF UartTest, history
    <3>2. ~board.serial \/ popens + unsent >= Descriptors
      <4>1. Free \in Int
        BY <1>0, FS_CardinalityType DEF Free, DescriptorsKept
      <4> QED
        BY <1>7, <1>d, <2>2, <4>1 DEF Elsewhere
    <3> QED
      BY <3>1, <3>2 DEF FailHonest
  <2> QED
    BY <1>b, <1>c, <2>1, <2>2
<1>8. CASE EepromTest
  <2>1. \/ fault' = TRUE
        \/ told' = told /\ pc # "loop"
        \/ told' = [test |-> "i2ceeprom", result |-> IF board.eeprom THEN "PASS" ELSE "FAIL"]
    BY <1>8 DEF EepromTest, Tell, Crash, Fails
  <2>2. CASE told' = [test |-> "i2ceeprom", result |-> "FAIL"] /\ ~board.eeprom
    <3>1. told'.test = "i2ceeprom" /\ UNCHANGED board
      BY <1>8, <2>2 DEF EepromTest
    <3> QED
      BY <2>2, <3>1 DEF FailHonest
  <2> QED
    BY <1>a, <1>b, <1>c, <2>1, <2>2
<1>9. CASE Eth25gTest
  BY <1>9, <1>c DEF Eth25gTest, Tell
<1>10. CASE EthOpen
  <2>1. (UNCHANGED told /\ pc # "loop") \/ told' = [test |-> "eth1g", result |-> "NOT RUN"] \/ fault'
    BY <1>10, EthOpens
  <2> QED
    BY <1>a, <1>b, <1>c, <2>1
<1>11. CASE EthThread
  <2>1. pc # "loop" /\ (UNCHANGED told \/ fault')
    BY <1>11 DEF EthThread, Fails
  <2> QED
    BY <1>a, <1>b, <2>1
<1>12. CASE EthSend
  <2>1. pc # "loop" /\ (UNCHANGED told \/ fault')
    BY <1>12 DEF EthSend, Fails
  <2> QED
    BY <1>a, <1>b, <2>1
<1>13. CASE EthJoin
  <2>1. CASE /\ told' = [test |-> "eth1g", result |-> eth1g_result] /\ eth1g_result = "FAIL"
             /\ thread[sock].at \in {"none", "ended"} /\ ~fault
    <3>1. foreign = Timeout
      BY <1>13, <2>1, EthJoins DEF Waiting, InEth
    <3>2. told'.test = "eth1g" /\ foreign' = foreign
      BY <1>13, <2>1, EthJoins
    <3> QED
      BY <3>1, <3>2 DEF FailHonest
  <2> QED
    BY <1>13, <1>a, <1>b, <1>c, <2>1, EthJoins
<1>e. ASSUME ~EthOpen, UNCHANGED <<board, dev_id, told, popens, unsent>>, fault => fault' PROVE FailHonest'
  <2>1. foreign = Timeout => foreign' = Timeout
    BY <1>e, ForeignNext
  <2>2. popens <= popens' /\ unsent <= unsent'
    BY <1>0, <1>e
  <2> QED
    BY <1>0, <1>e, <2>1, <2>2, FailStands
<1>14. ASSUME NEW t \in Sockets, ThreadStart(t) \/ Receive(t) \/ ReceiveFails(t) PROVE FailHonest'
  <2>1. fault => fault'
    BY <1>14 DEF ThreadStart, Receive, ReceiveFails, Works, Fails
  <2>2. CASE EthOpen
    BY <1>14, <2>2, <1>a, ReceiverKeeps, EthOpens
  <2> QED
    BY <1>14, <1>e, <2>1, <2>2, ReceiverKeeps DEF options
<1>15. ASSUME NEW p, Arrives(p) PROVE FailHonest'
  <2>1. fault => fault'
    BY <1>15 DEF Arrives, Works
  <2>2. CASE EthOpen
    BY <1>15, <2>2, <1>a, ArrivesKeeps, EthOpens
  <2> QED
    BY <1>15, <1>e, <2>1, <2>2, ArrivesKeeps DEF options
<1>16. CASE UNCHANGED vars
  <2>1. CASE EthOpen
    BY <1>16, <2>1, <1>a, SameSteps, EthOpens
  <2> QED
    BY <1>16, <1>e, <2>1, SameSteps
<1> QED
  BY <1>2, <1>3, <1>4, <1>5, <1>6, <1>7, <1>8, <1>9, <1>10, <1>11, <1>12, <1>13,
     <1>14, <1>15, <1>16 DEF Next, Main, Terminated

LEMMA FailInit == Init => TypeOK /\ FailInv
<1> SUFFICES ASSUME Init PROVE TypeOK /\ FailInv
  OBVIOUS
<1>1. /\ Open = {} /\ IsFiniteSet(Open) /\ Cardinality(Open) = 0
  BY FS_EmptySet DEF Init, Open
<1>2. TypeOK
  <2>1. opts \in CommandLines /\ Len(opts) \in Nat
    BY OptionType DEF Init
  <2>2. 0 \in 0..IterMod - 1 /\ 0 \in 0..Timeout /\ 0 \in 0..Len(opts)
    BY <2>1, DiagAssumption
  <2>3. Free >= 0
    BY <1>1, DiagAssumption DEF Init, Free
  <2>4. \A t \in Sockets : thread[t] = NotStarted
    BY DEF Init
  <2>5. /\ board \in Boards /\ k = 0 /\ left = 0 /\ infinite = FALSE /\ ddr_test_infinite = FALSE
        /\ eth1g_result = "FAIL" /\ sock = 0 /\ foreign = 0
    BY DEF Init
  <2>6. \A t \in Sockets : thread[t].timeout = 0 /\ thread[t].at = "none"
    BY <2>4 DEF NotStarted
  <2>7. Open \subseteq 1..sock /\ \A s \in Open : Len(queue[s]) <= QueueSize
    BY <1>1
  <2> QED
    BY <2>1, <2>2, <2>3, <2>4, <2>5, <2>6, <2>7 DEF TypeOK
<1>3. DescriptorsKept /\ OwnReceiver /\ Waiting
  BY <1>1 DEF Init, DescriptorsKept, OwnReceiver, Waiting, InEth
<1>4. FailHonest
  BY DEF Init, FailHonest, NoVerdict
<1> QED
  BY <1>2, <1>3, <1>4 DEF FailInv

LEMMA FailKept == Spec => [](TypeOK /\ FailInv)
<1>1. DiagInv /\ TypeOK /\ FailInv /\ [Next]_vars => (TypeOK /\ FailInv)'
  <2> SUFFICES ASSUME DiagInv, TypeOK, FailInv, [Next]_vars PROVE (TypeOK /\ FailInv)'
    OBVIOUS
  <2>1. DiagTypes /\ DescriptorsKept /\ OwnReceiver /\ Waiting /\ FailHonest
    BY DEF DiagInv, FailInv
  <2>2. DescriptorsKept'
    BY <2>1, DescriptorsNext
  <2>3. OwnReceiver' /\ Waiting'
    BY <2>1, ThreadsNext, WaitingNext
  <2>4. eth1g_result' \in {"PASS", "FAIL"}
    BY <2>1, TypesNext DEF DiagTypes
  <2>5. TypeOK'
    BY <2>1, <2>2, <2>4, OptionsNext, QueuesNext, ThreadsNext, ForeignNext, FreeNext DEF TypeOK
  <2>6. FailHonest'
    BY <2>1, <2>2, FailNext
  <2> QED
    BY <2>2, <2>3, <2>5, <2>6 DEF FailInv
<1> QED
  BY FailInit, <1>1, DiagKept, PTL DEF Spec

(* The ranges of the model's variables: no more descriptors are open than  *)
(* there are, no queue is longer than its socket holds, and no receiver    *)
(* looks at more packets than Timeout.                                     *)
THEOREM TypeCorrect == Spec => []TypeOK
BY FailKept, PTL

(***************************************************************************)
(* FAIL is told of hardware that does not work (diag.c), when no call has  *)
(* failed and memory tests and 1G tests that left early have not used up   *)
(* the descriptors; of the 1G port, only after a broadcast or Timeout      *)
(* packets of others.  For any command line, board, Timeout and sockets.   *)
(***************************************************************************)
THEOREM FailIsHonest == Spec => []FailHonest
<1>1. FailInv => FailHonest
  BY DEF FailInv
<1> QED
  BY <1>1, FailKept, PTL
=============================================================================
