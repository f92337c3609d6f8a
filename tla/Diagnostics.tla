---------------------------- MODULE Diagnostics ----------------------------
(***************************************************************************)
(* The tests of the card (package/diagnostics/diag.c): main works through  *)
(* the options of its command line and prints a verdict for every test.    *)
(* Only the 1G test is more than one step to the others: a thread receives *)
(* what main sends, over a cable that loops the port back, and both share  *)
(* the socket and eth1g_result.  Descriptors that are never closed and     *)
(* receivers that are never joined outlive the test that left them.        *)
(***************************************************************************)
EXTENDS Integers, Sequences, FiniteSets

CONSTANTS
    CommandLines, \* sequences of [opt, iter, devid]; -1 and "" where not given; `devid X' first
    Boards,       \* states the hardware may be in
    IterMod,      \* the values of a uint16_t (65536)
    Timeout,      \* packets a receiver looks at (100)
    Descriptors,  \* file descriptors the program may have open
    Sockets,      \* sockets of the 1G test, 1, 2, ... (bound on its runs)
    QueueSize,    \* packets a socket holds (bound)
    MaxFaults     \* bound on failing calls of the system

Tests == {"pcie", "ddr", "i2cmd", "i2ceeprom", "uart", "eth1g", "eth25g", "stressapptest"}
NoIter == -1

ASSUME DiagAssumption ==
    /\ CommandLines \subseteq Seq([opt : Tests \cup {"all", "help"}, iter : Nat \cup {NoIter}, devid : STRING])
    /\ Sockets \subseteq Nat /\ Timeout \in Nat \ {0}
    /\ IterMod \in Nat /\ IterMod > 1 /\ {Descriptors, QueueSize, MaxFaults} \subseteq Nat

VARIABLES
    board,
    opts, k,      \* argv, and the option getopt_long has returned
    pc,           \* the step main is at
    dev_id, infinite, ddr_test_infinite,
    left, todo,   \* iterations, and tests in this one, still to be run
    eth1g_result,
    sock,         \* the socket of the current or last 1G test
    queue,        \* of every open socket, the packets it has received
    thread,       \* of every 1G test, its receiver
    leaked,       \* pipes open for good
    returning,    \* the frame of a test is on the cable that loops it back
    told,         \* the verdict printed last
    (* history, read by the properties only *)
    popens,       \* memory tests that have run
    unsent,       \* 1G tests left before their frame was sent
    wire,         \* a frame of the test has come back
    foreign,      \* packets of others since the socket was opened, a broadcast
                  \* counting as Timeout of them
    fault,        \* a call of the system has failed in this test
    faults

options == <<opts, k, dev_id, infinite, ddr_test_infinite, left, todo>>
ether == <<eth1g_result, sock, queue, thread, returning>>
history == <<popens, unsent, wire, foreign>>
vars == <<board, options, pc, ether, leaked, told, history, fault, faults>>

AllTests == <<"pcie", "ddr", "i2cmd", "i2ceeprom", "uart", "eth1g", "eth25g", "stressapptest">>
NoVerdict == [test |-> "none", result |-> "NOT RUN"]

NotStarted == [at |-> "none", sock |-> 0, timeout |-> 0, rcv_buff |-> "blank"]

Open == DOMAIN queue
Free == Descriptors - leaked - Cardinality(Open)

Fails == faults < MaxFaults /\ faults' = faults + 1 /\ fault' = TRUE
Works == UNCHANGED <<fault, faults>>

Tell(t, r) == told' = [test |-> t, result |-> r] /\ pc' = "loop"
Crash == pc' = "crashed" /\ UNCHANGED told

-----------------------------------------------------------------------------
(* main reads the words that follow the first occurrence of option n in    *)
(* argv.  By then getopt_long has moved the options before it in front of  *)
(* all their words: a repeated option finds the next option there, or,     *)
(* right after its first occurrence, the words of whatever came before.    *)
First(opt) == CHOOSE n \in DOMAIN opts : opts[n].opt = opt /\ \A m \in 1..n - 1 : opts[m].opt # opt

(* The options whose words option n reads; to ddr `devid' is the end. *)
ArgsOf(n) ==
    LET first == First(opts[n].opt)
        words == CASE first = n -> {n} [] first = n - 1 -> 1..n - 1 [] OTHER -> {}
    IN {m \in words : opts[n].opt = "ddr" => \A i \in words : i <= m => opts[i].devid = ""}

Iters(n) == {m \in ArgsOf(n) : opts[m].iter # NoIter /\ opts[n].opt \in {"pcie", "ddr", "all"}}
DevIds(n) == {m \in ArgsOf(n) : opts[m].devid # "" /\ opts[n].opt \in {"pcie", "all"}}
Latest(S) == CHOOSE m \in S : \A i \in S : i <= m
ZeroIter(n) == \E m \in Iters(n) : opts[m].iter % IterMod = 0

TestsOf(opt) == CASE opt = "all" -> AllTests [] opt = "help" -> << >> [] OTHER -> <<opt>>

(* iter is 16 bits wide; 0 is for ever for pcie, and for memtester itself, *)
(* but one iteration for all.  infinite is never reset.                    *)
Option ==
    /\ pc = "option" /\ k < Len(opts)
    /\ k' = k + 1
    /\ LET opt == opts[k'].opt
           iter == IF Iters(k') = {} THEN 1 ELSE opts[Latest(Iters(k'))].iter % IterMod
       IN /\ infinite' = (infinite \/ (ZeroIter(k') /\ opt \in {"pcie", "ddr"}))
          /\ ddr_test_infinite' = (ddr_test_infinite \/ (ZeroIter(k') /\ opt = "ddr"))
          /\ dev_id' = IF DevIds(k') = {} THEN dev_id ELSE opts[Latest(DevIds(k'))].devid
          /\ left' = IF iter = 0 THEN 1 ELSE iter
    /\ todo' = << >>
    /\ pc' = "loop" /\ Works
    /\ UNCHANGED <<board, opts, ether, leaked, told, history>>

End ==
    /\ pc = "option" /\ k = Len(opts)
    /\ pc' = "done" /\ Works
    /\ UNCHANGED <<board, options, ether, leaked, told, history>>

(* The loop of an option: the next test, the next iteration, or its end.   *)
Loop ==
    /\ pc = "loop"
    /\ CASE todo # << >> -> pc' = Head(todo) /\ todo' = Tail(todo) /\ UNCHANGED left
         [] todo = << >> /\ left > 0 ->
              /\ todo' = TestsOf(opts[k].opt)
              /\ left' = IF infinite /\ opts[k].opt = "pcie" THEN left ELSE left - 1
              /\ UNCHANGED pc
         [] OTHER -> pc' = "option" /\ UNCHANGED <<left, todo>>
    /\ fault' = FALSE /\ told' = NoVerdict
    /\ UNCHANGED <<board, opts, k, dev_id, infinite, ddr_test_infinite, ether, leaked, history, faults>>

-----------------------------------------------------------------------------
(* popen needs the two ends of a pipe. *)
PcieVerdict ==
    CASE Free < 2 -> "FAIL"
      [] Free >= 2 /\ (dev_id # board.dev \/ ~board.opens) -> "PASS"
      [] OTHER -> IF board.pcie THEN "PASS" ELSE "FAIL"

(* Mutant: only the way out of the checked accesses closes the pipe. *)
PcieTestLeaks ==
    /\ pc = "pcie"
    /\ Tell("pcie", PcieVerdict) /\ Works
    /\ leaked' = IF Free >= 2 THEN leaked + 1 ELSE leaked
    /\ UNCHANGED <<board, options, ether, history>>

(* No such device, or one whose memory cannot be opened, is no failure; an *)
(* mmap that fails is not seen (it does not return NULL).                  *)
PcieTest ==
    /\ pc = "pcie"
    /\ \/ Tell("pcie", PcieVerdict) /\ Works
       \/ Fails /\ \/ Tell("pcie", "FAIL")
                   \/ dev_id = board.dev /\ board.opens /\ Crash
    /\ UNCHANGED <<board, options, ether, leaked, history>>

(* The verdict is the status `$?' of a new shell, and the pipe to that one *)
(* is never closed.                                                        *)
MemoryTest(t) ==
    /\ pc = t
    /\ IF Free < 2 THEN Tell(t, "FAIL") /\ Works /\ UNCHANGED <<leaked, popens>>
       ELSE \/ /\ Tell(t, "PASS") /\ Works
               /\ leaked' = leaked + 1 /\ popens' = popens + 1
            \/ Fails /\ Tell(t, "FAIL") /\ UNCHANGED <<leaked, popens>>
    /\ UNCHANGED <<board, options, ether, unsent, wire, foreign>>

(* memtester without a count goes on until somebody kills it. *)
DdrTest == ~ddr_test_infinite /\ MemoryTest("ddr")
MemtesterKilled == ddr_test_infinite /\ MemoryTest("ddr")
StressTest == MemoryTest("stressapptest")

(* A device node is opened and closed, whatever comes of the accesses. *)
I2cMdTest ==
    /\ pc = "i2cmd"
    /\ \/ Tell("i2cmd", IF board.suc /\ Free >= 1 THEN "PASS" ELSE "FAIL") /\ Works
       \/ Fails /\ Tell("i2cmd", "FAIL")
    /\ UNCHANGED <<board, options, ether, leaked, history>>

UartTest ==
    /\ pc = "uart"
    /\ \/ Tell("uart", IF board.serial /\ Free >= 1 THEN "PASS" ELSE "FAIL") /\ Works
       \/ Fails /\ Tell("uart", "FAIL")
    /\ UNCHANGED <<board, options, ether, leaked, history>>

(* The results of fopen are not looked at. *)
EepromTest ==
    /\ pc = "i2ceeprom"
    /\ \/ Free >= 1 /\ Tell("i2ceeprom", IF board.eeprom THEN "PASS" ELSE "FAIL") /\ Works
       \/ Free < 1 /\ Crash /\ Works
       \/ Fails /\ (Tell("i2ceeprom", "FAIL") \/ Crash)
    /\ UNCHANGED <<board, options, ether, leaked, history>>

Eth25gTest ==
    /\ pc = "eth25g"
    /\ Tell("eth25g", "NOT RUN") /\ Works
    /\ UNCHANGED <<board, options, ether, leaked, history>>

-----------------------------------------------------------------------------
(* The 1G test: interface, socket ...                                      *)
EthOpen ==
    /\ pc = "eth1g"
    /\ \/ /\ board.port /\ Free >= 1 /\ sock + 1 \in Sockets
          /\ sock' = sock + 1
          /\ queue' = [s \in Open \cup {sock'} |-> IF s \in Open THEN queue[s] ELSE << >>]
          /\ pc' = "thread" /\ foreign' = 0
          /\ Works /\ UNCHANGED told
       \/ /\ ~board.port \/ Free < 1   \* a directory that cannot be opened is not there
          /\ Tell("eth1g", "NOT RUN") /\ Works
          /\ UNCHANGED <<sock, queue, foreign>>
       \/ /\ board.port /\ Fails   \* socket, or the file with the name
          /\ Tell("eth1g", "FAIL") \/ Crash
          /\ UNCHANGED <<sock, queue, foreign>>
    /\ UNCHANGED <<board, options, eth1g_result, thread, returning, leaked, popens, unsent, wire>>

(* ... its addresses, and a receiver, which may fail to start ...          *)
EthThread ==
    /\ pc = "thread"
    /\ \/ /\ thread' = [thread EXCEPT ![sock].at = "start"]
          /\ pc' = "send" /\ Works
          /\ UNCHANGED <<told, unsent>>
       \/ /\ Fails /\ pc' = "send"
          /\ UNCHANGED <<thread, told, unsent>>
       \/ /\ Fails /\ Tell("eth1g", "FAIL")   \* ioctl
          /\ unsent' = unsent + 1
          /\ UNCHANGED thread
    /\ UNCHANGED <<board, options, eth1g_result, sock, queue, returning, leaked, popens, wire, foreign>>

Receives(s, p) == IF Len(queue[s]) < QueueSize THEN Append(queue[s], p) ELSE queue[s]

(* ... one frame, which every other socket of the program sees as it goes  *)
(* out, and the cable brings back ...                                      *)
EthSend ==
    /\ pc = "send"
    /\ \/ /\ queue' = [s \in Open |-> IF s = sock THEN queue[s] ELSE Receives(s, "test")]
          /\ returning' = board.cable
          /\ pc' = "join" /\ Works
          /\ UNCHANGED <<told, unsent>>
       \/ /\ Fails /\ Tell("eth1g", "FAIL")
          /\ unsent' = unsent + 1
          /\ UNCHANGED <<queue, returning>>
    /\ UNCHANGED <<board, options, eth1g_result, sock, thread, leaked, popens, wire, foreign>>

(* ... and the end of the receiver.  Without one, what pthread_join does   *)
(* with the uninitialised thread_id is undefined.                          *)
EthJoin ==
    /\ pc = "join"
    /\ \/ thread[sock].at \in {"none", "ended"} /\ Tell("eth1g", eth1g_result)
          /\ queue' = [s \in Open \ {sock} |-> queue[s]]
       \/ thread[sock].at = "none" /\ Crash /\ UNCHANGED queue
    /\ Works
    /\ UNCHANGED <<board, options, eth1g_result, sock, thread, returning, leaked, history>>

-----------------------------------------------------------------------------
(* packet_receive.  It reads the number of its socket from main's stack,   *)
(* which main may have left by then; rcv_buff is on its own stack, perhaps *)
(* that of a receiver before it.                                           *)
Running == pc \notin {"done", "crashed"}
InTest(t) == sock = t /\ pc \in {"send", "join"}

ThreadStart(t) ==
    /\ Running /\ thread[t].at = "start"
    /\ \E s \in IF InTest(t) THEN {t} ELSE Open \cup {0},
          b \in {"blank"} \cup {thread[u].rcv_buff : u \in {u \in Sockets : thread[u].at = "ended"}} :
         thread' = [thread EXCEPT ![t] = [at |-> "receive", sock |-> s, timeout |-> Timeout, rcv_buff |-> b]]
    /\ Works
    /\ UNCHANGED <<board, options, pc, eth1g_result, sock, queue, returning, leaked, told, history>>

(* Mutant: the payload is not validated. *)
ValidateAny(p) == p \in {"test", "broadcast"}

Validate(p) == p = "test"

(* One turn of the loop with the packet p in rcv_buff. *)
Look(t, p) ==
    LET last == p \in {"test", "broadcast"} \/ thread[t].timeout = 1
    IN /\ thread' = [thread EXCEPT ![t] = [at |-> IF last THEN "ended" ELSE "receive", sock |-> @.sock,
                                           timeout |-> @.timeout - 1, rcv_buff |-> p]]
       /\ eth1g_result' = IF Validate(p) THEN "PASS" ELSE eth1g_result

(* Mutant: a receiver waits until its own packet comes. *)
ReceiveForEver(t) ==
    /\ Running /\ thread[t].at = "receive" /\ thread[t].sock \in Open
    /\ queue[thread[t].sock] # << >>
    /\ LET p == Head(queue[thread[t].sock])
       IN /\ thread' = [thread EXCEPT ![t].rcv_buff = p, ![t].at = IF p = "test" THEN "ended" ELSE "receive"]
          /\ eth1g_result' = IF p = "test" THEN "PASS" ELSE eth1g_result
    /\ queue' = [queue EXCEPT ![thread[t].sock] = Tail(@)] /\ Works
    /\ UNCHANGED <<board, options, pc, sock, returning, leaked, told, history>>

(* recvfrom, which waits for a packet; when it fails the buffer is looked  *)
(* at all the same.                                                        *)
Receive(t) ==
    /\ Running /\ thread[t].at = "receive"
    /\ LET s == thread[t].sock
       IN \/ /\ s \in Open /\ queue[s] # << >>
             /\ Look(t, Head(queue[s]))
             /\ queue' = [queue EXCEPT ![s] = Tail(@)]
          \/ /\ s \notin Open
             /\ Look(t, thread[t].rcv_buff) /\ UNCHANGED queue
    /\ Works
    /\ UNCHANGED <<board, options, pc, sock, returning, leaked, told, history>>

ReceiveFails(t) ==
    /\ Running /\ thread[t].at = "receive" /\ thread[t].sock \in Open
    /\ Fails /\ Look(t, thread[t].rcv_buff)
    /\ UNCHANGED <<board, options, pc, sock, queue, returning, leaked, told, history>>

(* A packet comes in; every socket receives it. *)
Arrives(p) ==
    /\ Running /\ Open # {}
    /\ p = "test" => returning
    /\ queue' = [s \in Open |-> Receives(s, p)]
    /\ returning' = (returning /\ p # "test")
    /\ wire' = (wire \/ p = "test")
    /\ foreign' = CASE p = "test" -> foreign [] p = "broadcast" -> Timeout
                    [] OTHER -> IF foreign < Timeout THEN foreign + 1 ELSE Timeout
    /\ Works
    /\ UNCHANGED <<board, options, pc, eth1g_result, sock, thread, leaked, told, popens, unsent>>

-----------------------------------------------------------------------------
Init ==
    /\ board \in Boards
    /\ opts \in CommandLines /\ k = 0 /\ pc = "option"
    /\ dev_id = "9038" /\ infinite = FALSE /\ ddr_test_infinite = FALSE
    /\ left = 0 /\ todo = << >>
    /\ eth1g_result = "FAIL"
    /\ sock = 0 /\ queue = << >> /\ thread = [t \in Sockets |-> NotStarted]
    /\ leaked = 0 /\ returning = FALSE /\ told = NoVerdict
    /\ popens = 0 /\ unsent = 0 /\ wire = FALSE /\ foreign = 0
    /\ fault = FALSE /\ faults = 0

Main ==
    \/ Option \/ Loop \/ End
    \/ PcieTest \/ DdrTest \/ StressTest \/ I2cMdTest \/ UartTest \/ EepromTest \/ Eth25gTest
    \/ EthOpen \/ EthThread \/ EthSend \/ EthJoin

Terminated == ~Running /\ UNCHANGED vars

Next ==
    \/ Main \/ MemtesterKilled
    \/ \E t \in Sockets : ThreadStart(t) \/ Receive(t) \/ ReceiveFails(t)
    \/ \E p \in {"test", "broadcast", "other"} : Arrives(p)
    \/ Terminated

Spec == Init /\ [][Next]_vars

(* main and the receivers go on; nothing is asked of the network. *)
FairSpec == Spec /\ WF_vars(Main) /\ \A t \in Sockets : WF_vars(ThreadStart(t) \/ Receive(t))

-----------------------------------------------------------------------------
(* No more descriptors are in use than there are, no queue is longer than  *)
(* its socket holds, no receiver looks at more than Timeout packets, and   *)
(* none runs for a test that has not begun.                                *)
TypeOK ==
    /\ board \in Boards /\ opts \in CommandLines /\ k \in 0..Len(opts)
    /\ left \in 0..IterMod - 1 /\ infinite \in BOOLEAN /\ ddr_test_infinite \in BOOLEAN
    /\ eth1g_result \in {"PASS", "FAIL"}
    /\ sock \in Sockets \cup {0} /\ Open \subseteq 1..sock
    /\ \A s \in Open : Len(queue[s]) <= QueueSize
    /\ \A t \in Sockets : /\ thread[t].timeout \in 0..Timeout
                          /\ thread[t].at = "receive" => thread[t].timeout > 0
                          /\ t > sock => thread[t] = NotStarted
    /\ foreign \in 0..Timeout
    /\ Free >= 0

(* PASS is told of hardware that works.  It says nothing of the memory     *)
(* (the status is another shell's), of a PCIe device that is not there or  *)
(* cannot be opened, and of a 1G port that passed before or had a test     *)
(* whose frame could not be sent: the receiver of that one takes the next  *)
(* test's frame on its way out for one that came back.                     *)
PassHonest ==
    told.result = "PASS" =>
      CASE told.test = "pcie" -> board.pcie \/ dev_id # board.dev \/ ~board.opens
        [] told.test = "i2cmd" -> board.suc
        [] told.test = "i2ceeprom" -> board.eeprom
        [] told.test = "uart" -> board.serial
        [] told.test = "eth1g" -> wire \/ unsent > 0
        [] OTHER -> told.test \in {"ddr", "stressapptest"}

(* FAIL is told of hardware that does not work, when no call has failed    *)
(* and until the descriptors are used up by memory tests and 1G tests that *)
(* left early: but for the 1G port, where a broadcast of anybody else ends *)
(* the waiting, and so do Timeout packets.                                 *)
FailHonest ==
    told.result = "FAIL" /\ ~fault =>
      CASE told.test = "pcie" -> ~board.pcie \/ popens + unsent >= Descriptors - 1
        [] told.test = "i2cmd" -> ~board.suc \/ popens + unsent >= Descriptors
        [] told.test = "i2ceeprom" -> ~board.eeprom
        [] told.test = "uart" -> ~board.serial \/ popens + unsent >= Descriptors
        [] told.test = "eth1g" -> foreign = Timeout
        [] OTHER -> popens + unsent >= Descriptors - 1

(* As long as packets keep coming in, the command comes to its end, unless *)
(* it is told to go on for ever: by 0 iterations, or a multiple of 65536,  *)
(* perhaps in the words of another option.                                 *)
ForEver == \E n \in DOMAIN opts : opts[n].opt \in {"pcie", "ddr"} /\ ZeroIter(n)

DiagEnds == WF_vars(Arrives("other")) /\ ~ForEver => <>~Running

-----------------------------------------------------------------------------
(* What the theorems rest on: a verdict is told in `loop' only; while every *)
(* test has sent its frame, no other socket is open when one does; and so  *)
(* no receiver finds a frame of the test before one has come back.         *)
Packets == {"test", "broadcast", "other"}

DiagTypes ==
    /\ opts \in CommandLines /\ k \in 0..Len(opts) /\ (pc \notin {"option", "done"} => k > 0)
    /\ todo \in Seq(Tests)
    /\ unsent \in Nat /\ sock \in Nat
    /\ eth1g_result \in {"PASS", "FAIL"}
    /\ queue = [s \in Open |-> queue[s]] /\ Open \subseteq Nat
    /\ \A s \in Open : queue[s] \in Seq(Packets)
    /\ thread \in [Sockets -> [at : {"none", "start", "receive", "ended"}, sock : Nat,
                              timeout : Int, rcv_buff : Packets \cup {"blank"}]]

Cleared == pc # "loop" => told = NoVerdict

OwnSocket ==
    unsent = 0 /\ Running => Open \subseteq (IF pc \in {"thread", "send", "join"} THEN {sock} ELSE {})

NoFrame ==
    wire \/ unsent > 0 \/
      /\ eth1g_result = "FAIL"
      /\ \A s \in Open : queue[s] \in Seq(Packets \ {"test"})
      /\ \A t \in Sockets : thread[t].rcv_buff # "test"

DiagInv == DiagTypes /\ Cleared /\ OwnSocket /\ NoFrame /\ PassHonest

(* Besides, for FAIL: only memory tests and 1G tests that left early keep  *)
(* descriptors; and the receiver of the test going on has looked at no     *)
(* more packets than have come in, as long as no broadcast did and nothing *)
(* failed: what it has looked at, and what is queued before a frame of the *)
(* test, are packets of others.                                            *)
InEth == pc \in {"thread", "send", "join"}

DescriptorsKept ==
    /\ popens \in Nat /\ leaked = popens
    /\ IsFiniteSet(Open)
    /\ Running => Cardinality(Open) <= unsent + (IF InEth THEN 1 ELSE 0)

OwnReceiver ==
    InEth => /\ sock \in Open /\ sock \in Sockets
             /\ pc = "thread" => thread[sock].at = "none"

(* At most n packets precede the first frame of a test. *)
FramedAfter(q, n) ==
    \A j \in 0..Len(q) : (\A m \in 1..j : q[m] # "test") => j <= n

Looked == IF thread[sock].at = "receive" THEN Timeout - thread[sock].timeout ELSE 0

Waiting ==
    InEth /\ ~fault /\ eth1g_result = "FAIL" /\ foreign # Timeout =>
      /\ pc # "thread" => thread[sock].at \in {"start", "receive"}
      /\ thread[sock].at = "receive" => thread[sock].sock = sock
      /\ \A n \in 1..Len(queue[sock]) : queue[sock][n] # "broadcast"
      /\ FramedAfter(queue[sock], foreign - Looked)

FailInv == DescriptorsKept /\ OwnReceiver /\ Waiting /\ FailHonest
=============================================================================
