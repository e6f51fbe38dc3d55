---------------------------- MODULE RadioTxProofs ---------------------------
(***************************************************************************)
(* Theorems of RadioTx, for every number of packet blocks, send timeout,   *)
(* air time and drain budget the assumptions allow.                        *)
(***************************************************************************)
EXTENDS RadioTx, SequenceTheorems, FiniteSetTheorems, TLAPS

USE DEF queueVars, sendVars, mainVars

DataTypes ==
  /\ free \subseteq Packets /\ queue \in Seq(Packets)
  /\ owned \in Packets \cup {NoPacket} /\ packet \in Packets \cup {NoPacket}
  /\ pending \in Int /\ completed \in Nat /\ accepted \in Nat
  /\ air \in Senders \cup {"none"} /\ age \in [Senders -> 0 .. SendTimeout]
  /\ mpc \in MainPlaces /\ control \in {"START", "END"}
  /\ tries \in Nat /\ drain_clock \in Nat
  /\ drained \in {"none", "ok", "timeout"}

FlagTypes == tx_done \in BOOLEAN /\ tx_ok \in BOOLEAN /\ begun \in BOOLEAN

(* Main has a packet exactly while it fills or puts one. *)
MainHasPacket == packet # NoPacket <=> mpc \in {"fill", "put"}

TypeOK == DataTypes /\ FlagTypes /\ MainHasPacket

(* The blocks of free, of the queue, the worker's and main's partition the *)
(* pool; the queue holds none twice.                                       *)
Partition(frees, queueds, workers, mains) ==
  /\ frees \cup queueds \cup ({workers, mains} \ {NoPacket}) = Packets
  /\ frees \cap queueds = {}
  /\ workers \notin frees \cup queueds
  /\ mains \notin frees \cup queueds
  /\ workers = mains => workers = NoPacket

BlocksOf(q) == {q[i] : i \in DOMAIN q}
DistinctBlocks(q) == \A i, j \in DOMAIN q : q[i] = q[j] => i = j

BlocksInv ==
  /\ Partition(free, BlocksOf(queue), owned, packet)
  /\ DistinctBlocks(queue)
  /\ Len(queue) <= QueueSize

(* Every accepted packet is queued, being sent or completed. *)
Accounted == completed + Len(queue) + Sending = accepted

(* Outside the frames and the drain the radio has nothing of a run left.   *)
(* drained says "ok" only from the drain to the next run, and never        *)
(* "timeout".                                                              *)
Quiet ==
  /\ mpc \in {"idle", "reset", "control", "wait"} => pending = 0
  /\ drained = "ok" => \/ mpc = "idle"
                       \/ mpc \in {"control", "wait"} /\ control = "END"
  /\ drained # "timeout"

(* The most the worker needs for what it has: a timeout for each queued    *)
(* packet and what is left of the one being sent.                          *)
QueueTime == Len(queue) * SendTimeout
Remaining == IF owned # NoPacket THEN SendTimeout - age["worker"] ELSE 0

TimeLeft ==
  mpc = "drain" /\ pending # 0
    => drain_clock + QueueTime + Remaining <= DrainBudget

(* The drain's clock is at zero until a run drains. *)
ClockInv ==
  \/ mpc \in {"reset", "frames", "fill", "put"}
  \/ mpc \in {"control", "wait"} /\ control = "START"
  => drain_clock = 0

RadioInv ==
  /\ TypeOK /\ BlocksInv
  /\ PendingExact /\ Accounted
  /\ Quiet /\ TimeLeft /\ ClockInv

-----------------------------------------------------------------------------
(* Main acts only while the worker has nothing that it can do. *)
LEMMA MainWaits ==
  ASSUME NEW place, MainMay(place)
  PROVE  /\ mpc = place
         /\ owned = NoPacket => queue = <<>>
         /\ owned # NoPacket => ~SendDone("worker")
BY DEF MainMay, WorkerReady

(* At first everything is free and nothing is on its way. *)
LEMMA TypeInit == Init => TypeOK
<1> SUFFICES ASSUME Init PROVE TypeOK
  OBVIOUS
<1>1. queue \in Seq(Packets) /\ age \in [Senders -> 0 .. SendTimeout]
  BY TimeAssumption DEF Init
<1>2. DataTypes
  BY <1>1 DEF Init, DataTypes, MainPlaces
<1>3. FlagTypes /\ MainHasPacket
  BY DEF Init, FlagTypes, MainHasPacket
<1> QED
  BY <1>2, <1>3 DEF TypeOK

(* What radio_send does at its two ends keeps the types of its variables. *)
LEMMA SendTypes ==
  ASSUME DataTypes, NEW s \in Senders, BeginSend(s) \/ EndSend(s)
  PROVE  /\ air' \in Senders \cup {"none"}
         /\ age' \in [Senders -> 0 .. SendTimeout]
<1>1. 0 \in 0 .. SendTimeout
  BY TimeAssumption
<1> QED
  BY <1>1 DEF DataTypes, BeginSend, EndSend

(* The flags stay Boolean. *)
LEMMA FlagStep == FlagTypes /\ [Next]_vars => FlagTypes'
<1> SUFFICES ASSUME FlagTypes, [Next]_vars PROVE FlagTypes'
  OBVIOUS
<1> USE DEF FlagTypes
<1>1. CASE Event \/ Tick \/ UNCHANGED vars
  BY <1>1 DEF Event, Tick, vars
<1>2. CASE WorkerTakes \/ ControlSends
  BY <1>2 DEF WorkerTakes, ControlSends, BeginSend
<1>3. CASE WorkerCompletes \/ ControlReturns
  BY <1>3, Zenon DEF WorkerCompletes, ControlReturns, EndSend
<1>4. CASE BeginRun \/ Reset \/ Acquire \/ AcquireFails \/ Cancel
  BY <1>4, Zenon DEF BeginRun, Reset, Acquire, AcquireFails, Cancel
<1>5. CASE CommitCounts \/ CommitPuts \/ EndFrames \/ DrainReturns
  BY <1>5, Zenon DEF CommitCounts, CommitPuts, EndFrames, DrainReturns
<1> QED
  BY <1>1, <1>2, <1>3, <1>4, <1>5 DEF Next, WorkerStep, MainStep

(* Main takes a packet to fill and has none once it is put or cancelled. *)
LEMMA MainHasPacketStep ==
  DataTypes /\ MainHasPacket /\ [Next]_vars => MainHasPacket'
<1> SUFFICES ASSUME DataTypes, MainHasPacket, [Next]_vars PROVE MainHasPacket'
  OBVIOUS
<1> USE DEF MainHasPacket
<1>1. CASE Event \/ Tick \/ WorkerStep \/ UNCHANGED vars
  BY <1>1 DEF Event, Tick, WorkerStep, WorkerTakes, WorkerCompletes, vars
<1>2. CASE Acquire
  BY <1>2, PacketAssumption DEF Acquire, DataTypes
<1>3. CASE BeginRun \/ Reset \/ ControlSends \/ ControlReturns \/ AcquireFails
  BY <1>3 DEF BeginRun, Reset, ControlSends, ControlReturns, AcquireFails,
              AfterControl, StartDrain, MainMay
<1>4. CASE Cancel \/ CommitCounts \/ CommitPuts \/ EndFrames \/ DrainReturns
  BY <1>4 DEF Cancel, CommitCounts, CommitPuts, EndFrames, DrainReturns,
              StartDrain, MainMay
<1> QED
  BY <1>1, <1>2, <1>3, <1>4 DEF Next, MainStep

(* The other variables keep their types. *)
LEMMA DataStep == DataTypes /\ MainHasPacket /\ [Next]_vars => DataTypes'
<1> SUFFICES ASSUME DataTypes, MainHasPacket, [Next]_vars PROVE DataTypes'
  OBVIOUS
<1> USE DEF DataTypes
<1>1. CASE Event
  BY <1>1 DEF Event
<1>2. CASE WorkerTakes
  <2>1. Head(queue) \in Packets /\ Tail(queue) \in Seq(Packets)
    BY <1>2, HeadTailProperties DEF WorkerTakes
  <2> QED
    BY <1>2, <2>1, SendTypes DEF WorkerTakes, KeepBlock, Senders
<1>3. CASE WorkerCompletes
  BY <1>3, SendTypes DEF WorkerCompletes, Complete, Senders
<1>4. CASE BeginRun \/ Reset
  BY <1>4 DEF BeginRun, Reset, StartDrain, MainPlaces
<1>5. CASE ControlSends \/ ControlReturns
  BY <1>5, SendTypes DEF ControlSends, ControlReturns, Senders, MainPlaces,
                         AfterControl
<1>6. CASE Acquire \/ AcquireFails \/ Cancel
  BY <1>6 DEF Acquire, AcquireFails, Cancel, StartDrain, MainMay, MainPlaces,
              MainHasPacket
<1>7. CASE CommitCounts \/ EndFrames \/ DrainReturns
  BY <1>7 DEF CommitCounts, EndFrames, DrainReturns, StartDrain, MainPlaces
<1>8. CASE CommitPuts
  <2>1. packet \in Packets
    BY <1>8 DEF CommitPuts, MainMay, MainHasPacket
  <2>2. Append(queue, packet) \in Seq(Packets)
    BY <2>1, AppendProperties
  <2> QED
    BY <1>8, <2>1, <2>2 DEF CommitPuts, MainPlaces
<1>9. CASE Tick
  <2>1. age' \in [Senders -> 0 .. SendTimeout]
    BY <1>9, TimeAssumption DEF Tick
  <2> QED
    BY <1>9, <2>1 DEF Tick
<1>10. CASE UNCHANGED vars
  BY <1>10 DEF vars
<1> QED
  BY <1>1, <1>2, <1>3, <1>4, <1>5, <1>6, <1>7, <1>8, <1>9, <1>10
  DEF Next, WorkerStep, MainStep

(* No step leaves the types. *)
LEMMA TypeStep == TypeOK /\ [Next]_vars => TypeOK'
BY FlagStep, DataStep, MainHasPacketStep DEF TypeOK

-----------------------------------------------------------------------------
(* The lengths of the queue the steps make. *)
LEMMA QueueLengths ==
  ASSUME DataTypes
  PROVE  /\ Len(queue) \in Nat
         /\ queue = <<>> <=> Len(queue) = 0
         /\ queue # <<>> => Len(Tail(queue)) = Len(queue) - 1
         /\ packet # NoPacket => Len(Append(queue, packet)) = Len(queue) + 1
BY LenProperties, EmptySeq, HeadTailProperties, AppendProperties DEF DataTypes

(* The count of pending packets follows each step that moves one. *)
LEMMA PendingStep ==
  ASSUME TypeOK, PendingExact, [Next]_vars
  PROVE  PendingExact'
<1> USE DEF TypeOK, DataTypes, PendingExact, Sending, One
<1>0. MainHasPacket /\ Len(queue) \in Nat
  BY QueueLengths
<1>1. CASE Event \/ Tick \/ UNCHANGED vars
  BY <1>1 DEF Event, Tick, vars
<1>2. CASE WorkerTakes
  <2>1. Head(queue) # NoPacket
    BY <1>2, HeadTailProperties, PacketAssumption DEF WorkerTakes
  <2> QED
    BY <1>0, <1>2, <2>1, QueueLengths DEF WorkerTakes
<1>3. CASE WorkerCompletes
  BY <1>0, <1>3 DEF WorkerCompletes, Complete
<1>4. CASE BeginRun \/ Reset \/ ControlSends \/ ControlReturns
  BY <1>4 DEF BeginRun, Reset, ControlSends, ControlReturns, AfterControl,
              StartDrain, MainMay
<1>5. CASE Acquire \/ AcquireFails \/ Cancel \/ EndFrames \/ DrainReturns
  BY <1>5 DEF Acquire, AcquireFails, Cancel, EndFrames, DrainReturns,
              StartDrain, MainMay
<1>6. CASE CommitCounts
  BY <1>0, <1>6 DEF CommitCounts, MainMay
<1>7. CASE CommitPuts
  BY <1>0, <1>7, QueueLengths DEF CommitPuts, MainMay, MainHasPacket
<1> QED
  BY <1>1, <1>2, <1>3, <1>4, <1>5, <1>6, <1>7 DEF Next, WorkerStep, MainStep

(* So does the account of the packets the run accepted; a reset finds none.*)
LEMMA AccountedStep ==
  ASSUME TypeOK, PendingExact, Accounted, [Next]_vars
  PROVE  Accounted'
<1> USE DEF TypeOK, DataTypes, Accounted, Sending, One
<1>0. MainHasPacket /\ Len(queue) \in Nat
  BY QueueLengths
<1>1. CASE Event \/ Tick \/ UNCHANGED vars
  BY <1>1 DEF Event, Tick, vars
<1>2. CASE WorkerTakes
  <2>1. Head(queue) # NoPacket
    BY <1>2, HeadTailProperties, PacketAssumption DEF WorkerTakes
  <2> QED
    BY <1>0, <1>2, <2>1, QueueLengths DEF WorkerTakes
<1>3. CASE WorkerCompletes
  BY <1>0, <1>3 DEF WorkerCompletes, Complete
<1>4. CASE BeginRun \/ ControlSends \/ ControlReturns
  BY <1>4 DEF BeginRun, ControlSends, ControlReturns
<1>5. CASE Reset
  BY <1>0, <1>5 DEF Reset, PendingExact, MainMay
<1>6. CASE Acquire \/ AcquireFails \/ Cancel \/ EndFrames \/ DrainReturns
  BY <1>6 DEF Acquire, AcquireFails, Cancel, EndFrames, DrainReturns
<1>7. CASE CommitCounts
  BY <1>7 DEF CommitCounts
<1>8. CASE CommitPuts
  BY <1>0, <1>8, QueueLengths DEF CommitPuts, MainMay, MainHasPacket
<1> QED
  BY <1>1, <1>2, <1>3, <1>4, <1>5, <1>6, <1>7, <1>8
  DEF Next, WorkerStep, MainStep

(* A count of zero is the whole truth: queue and worker are empty. *)
LEMMA NothingPending ==
  ASSUME TypeOK, PendingExact
  PROVE  pending = 0 <=> queue = <<>> /\ owned = NoPacket /\ mpc # "put"
<1>1. Len(queue) \in Nat /\ (queue = <<>> <=> Len(queue) = 0)
  BY QueueLengths DEF TypeOK
<1>2. Sending \in {0, 1} /\ (Sending = 0 <=> owned = NoPacket)
  BY DEF Sending, One
<1>3. One(mpc = "put") \in {0, 1} /\ (One(mpc = "put") = 0 <=> mpc # "put")
  BY DEF One
<1>4. pending = Len(queue) + Sending + One(mpc = "put")
  BY DEF PendingExact
<1>5. pending = 0 <=> Len(queue) = 0 /\ Sending = 0 /\ One(mpc = "put") = 0
  BY <1>1, <1>2, <1>3, <1>4
<1> QED
  BY <1>1, <1>2, <1>3, <1>5

-----------------------------------------------------------------------------
(* A queue that is longer takes longer to send. *)
LEMMA LongerTakesLonger ==
  ASSUME NEW m \in Nat, NEW n \in Nat, m <= n, NEW t \in Nat
  PROVE  /\ m * t \in Nat /\ n * t \in Nat /\ m * t <= n * t
         /\ (m + 1) * t = m * t + t
<1>1. (m + 1) * t = m * t + t /\ m * t \in Nat /\ n * t \in Nat
  OBVIOUS
<1>2. PICK d \in Nat : n = m + d
  <2>1. n - m \in Nat /\ n = m + (n - m)
    OBVIOUS
  <2> QED
    BY <2>1
<1>3. n * t = m * t + d * t /\ d * t \in Nat
  BY <1>2
<1> QED
  BY <1>1, <1>3

(* The two times are never negative, and a full queue and a packet that    *)
(* was just taken fit in the drain's budget.                               *)
LEMMA WorkerTimes ==
  ASSUME DataTypes
  PROVE  /\ QueueTime \in Nat /\ Remaining \in 0 .. SendTimeout
         /\ Len(queue) <= QueueSize => QueueTime + Remaining <= DrainBudget
         /\ queue # <<>> => Len(Tail(queue)) * SendTimeout + SendTimeout = QueueTime
<1>1. /\ Len(queue) \in Nat /\ SendTimeout \in Nat /\ QueueSize \in Nat
      /\ queue # <<>> => Len(Tail(queue)) \in Nat /\ Len(Tail(queue)) + 1 = Len(queue)
  BY QueueLengths, HeadTailProperties, LenProperties, TimeAssumption,
     PacketAssumption DEF DataTypes
<1>2. Remaining \in 0 .. SendTimeout
  BY <1>1 DEF DataTypes, Remaining, Senders
<1>3. QueueTime \in Nat
  BY <1>1, LongerTakesLonger DEF QueueTime
<1>4. ASSUME Len(queue) <= QueueSize PROVE QueueTime + Remaining <= DrainBudget
  <2>1. QueueTime <= QueueSize * SendTimeout /\ QueueSize * SendTimeout \in Nat
        /\ (QueueSize + 1) * SendTimeout = QueueSize * SendTimeout + SendTimeout
    BY <1>1, <1>4, LongerTakesLonger DEF QueueTime
  <2>2. QueueSize * SendTimeout + SendTimeout <= DrainBudget /\ DrainBudget \in Nat
    BY <2>1, TimeAssumption
  <2> DEFINE full == QueueSize * SendTimeout
  <2> HIDE DEF full
  <2>3. QueueTime <= full /\ full \in Nat /\ full + SendTimeout <= DrainBudget
    BY <2>1, <2>2 DEF full
  <2> QED
    BY <1>1, <1>2, <1>3, <2>2, <2>3
<1>5. ASSUME queue # <<>>
      PROVE  Len(Tail(queue)) * SendTimeout + SendTimeout = QueueTime
  BY <1>1, <1>5, LongerTakesLonger DEF QueueTime
<1> QED
  BY <1>2, <1>3, <1>4, <1>5

(* A drain that cannot have finished has not used up its budget either.    *)
LEMMA NoTimeout ==
  ASSUME DataTypes, TimeLeft, mpc = "drain", pending # 0
  PROVE  ~(drain_clock > DrainBudget)
<1>1. QueueTime \in Nat /\ Remaining \in Nat /\ DrainBudget \in Nat
  BY WorkerTimes, TimeAssumption
<1> QED
  BY <1>1 DEF TimeLeft, DataTypes

(* What drained means, and that nothing is pending outside a run.          *)
LEMMA QuietStep ==
  ASSUME TypeOK, PendingExact, TimeLeft, Quiet, [Next]_vars
  PROVE  Quiet'
<1> USE DEF TypeOK, Quiet
<1>1. CASE Event \/ Tick \/ UNCHANGED vars
  BY <1>1 DEF Event, Tick, vars
<1>2. CASE WorkerTakes \/ WorkerCompletes
  <2>1. pending # 0
    BY <1>2, NothingPending DEF WorkerTakes, WorkerCompletes
  <2> QED
    BY <1>2, <2>1 DEF WorkerTakes, WorkerCompletes
<1>3. CASE BeginRun \/ Reset
  BY <1>3 DEF BeginRun, Reset, StartDrain, MainMay
<1>4. CASE ControlSends \/ ControlReturns
  BY <1>4 DEF ControlSends, ControlReturns, AfterControl, MainMay, DataTypes
<1>5. CASE Acquire \/ AcquireFails \/ Cancel \/ EndFrames
  BY <1>5 DEF Acquire, AcquireFails, Cancel, EndFrames, StartDrain, MainMay
<1>6. CASE CommitCounts \/ CommitPuts
  BY <1>6 DEF CommitCounts, CommitPuts, MainMay
<1>7. CASE DrainReturns
  <2>1. pending = 0
    BY <1>7, NoTimeout DEF DrainReturns, NonePending, MainMay
  <2> QED
    BY <1>7, <2>1 DEF DrainReturns, NonePending
<1> QED
  BY <1>1, <1>2, <1>3, <1>4, <1>5, <1>6, <1>7 DEF Next, WorkerStep, MainStep

(* Each tick of a drain is one of the worker's send as well: what the clock*)
(* gains, the work that is left loses.                                     *)
LEMMA TimeLeftStep ==
  ASSUME TypeOK, PendingExact, Len(queue) <= QueueSize, Quiet, TimeLeft,
         [Next]_vars
  PROVE  TimeLeft'
<1>0. /\ DataTypes /\ drain_clock \in Nat
      /\ QueueTime \in Nat /\ Remaining \in 0 .. SendTimeout
      /\ QueueTime + Remaining <= DrainBudget
      /\ SendTimeout \in Nat /\ DrainBudget \in Nat
  BY WorkerTimes, TimeAssumption DEF TypeOK, DataTypes
<1>1. ASSUME UNCHANGED <<queue, owned, age>>, StartDrain PROVE TimeLeft'
  BY <1>0, <1>1 DEF StartDrain, TimeLeft, QueueTime, Remaining
<1>2. CASE Event \/ UNCHANGED vars
  <2>1. UNCHANGED <<queue, owned, age, mpc, pending, drain_clock>>
    BY <1>2 DEF Event, vars
  <2>2. QueueTime' = QueueTime /\ Remaining' = Remaining
    BY <2>1 DEF QueueTime, Remaining
  <2> QED
    BY <2>1, <2>2 DEF TimeLeft
<1>3. CASE WorkerTakes
  <2>1. Remaining = 0 /\ Remaining' = SendTimeout
    <3>1. Head(queue) # NoPacket
      BY <1>0, <1>3, HeadTailProperties, PacketAssumption DEF WorkerTakes, DataTypes
    <3>2. age'["worker"] = 0
      BY <1>0, <1>3 DEF WorkerTakes, BeginSend, DataTypes, Senders
    <3> QED
      BY <1>0, <1>3, <3>1, <3>2 DEF WorkerTakes, Remaining
  <2>2. QueueTime' = QueueTime - SendTimeout
    BY <1>0, <1>3, WorkerTimes DEF WorkerTakes, QueueTime
  <2>3. UNCHANGED <<mpc, pending, drain_clock>>
    BY <1>3 DEF WorkerTakes
  <2>4. ASSUME drain_clock + QueueTime + Remaining <= DrainBudget
        PROVE  drain_clock + QueueTime' + Remaining' <= DrainBudget
    BY <1>0, <2>1, <2>2, <2>4
  <2> QED
    BY <2>3, <2>4 DEF TimeLeft
<1>4. CASE WorkerCompletes
  <2>1. pending # 0
    BY <1>4, NothingPending DEF WorkerCompletes
  <2>2. Remaining' = 0 /\ QueueTime' = QueueTime /\ UNCHANGED <<mpc, drain_clock>>
    BY <1>4 DEF WorkerCompletes, Complete, Remaining, QueueTime
  <2>3. ASSUME drain_clock + QueueTime + Remaining <= DrainBudget
        PROVE  drain_clock + QueueTime' + Remaining' <= DrainBudget
    BY <1>0, <2>2, <2>3
  <2> QED
    BY <2>1, <2>2, <2>3 DEF TimeLeft
<1>5. CASE BeginRun
  BY <1>5 DEF BeginRun, Quiet, MainMay, TimeLeft
<1>6. CASE Reset \/ AcquireFails \/ EndFrames \/ Cancel
  BY <1>1, <1>6 DEF Reset, AcquireFails, EndFrames, Cancel, TimeLeft
<1>7. CASE ControlSends \/ ControlReturns \/ Acquire \/ CommitCounts
           \/ CommitPuts \/ DrainReturns
  BY <1>7 DEF ControlSends, ControlReturns, AfterControl, Acquire,
              CommitCounts, CommitPuts, DrainReturns, TimeLeft
<1>8. CASE Tick
  <2> SUFFICES ASSUME mpc = "drain", pending # 0
               PROVE  drain_clock' + QueueTime' + Remaining' <= DrainBudget
    BY <1>8 DEF Tick, TimeLeft
  <2>1. owned # NoPacket /\ age["worker"] # SendTimeout
    BY <1>8, NothingPending DEF Tick, WorkerReady, SendDone
  <2>2. age'["worker"] = age["worker"] + 1 /\ age["worker"] \in 0 .. SendTimeout
    BY <1>0, <1>8, <2>1 DEF Tick, DataTypes, Senders
  <2>3. Remaining' = Remaining - 1 /\ QueueTime' = QueueTime
    BY <1>0, <1>8, <2>1, <2>2 DEF Tick, Remaining, QueueTime
  <2>4. PICK clock \in Nat : drain_clock' = clock /\ clock <= drain_clock + 1
    BY <1>0, <1>8 DEF Tick
  <2>5. drain_clock + QueueTime + Remaining <= DrainBudget
    BY DEF TimeLeft
  <2>6. clock + QueueTime' + Remaining' <= DrainBudget
    BY <1>0, <2>3, <2>4, <2>5
  <2> QED
    BY <2>4, <2>6
<1> QED
  BY <1>2, <1>3, <1>4, <1>5, <1>6, <1>7, <1>8 DEF Next, WorkerStep, MainStep

(* Only a drain moves its clock. *)
LEMMA ClockStep == TypeOK /\ ClockInv /\ [Next]_vars => ClockInv'
<1> SUFFICES ASSUME TypeOK, ClockInv, [Next]_vars PROVE ClockInv'
  OBVIOUS
<1> USE DEF ClockInv
<1>1. CASE Event \/ Tick \/ WorkerStep \/ UNCHANGED vars
  BY <1>1 DEF Event, Tick, WorkerStep, WorkerTakes, WorkerCompletes, vars
<1>2. CASE BeginRun \/ Reset \/ ControlSends
  BY <1>2 DEF BeginRun, Reset, ControlSends, StartDrain, MainMay
<1>3. CASE ControlReturns
  BY <1>3 DEF ControlReturns, AfterControl, MainMay, TypeOK, DataTypes
<1>4. CASE Acquire \/ AcquireFails \/ Cancel \/ CommitCounts
  BY <1>4 DEF Acquire, AcquireFails, Cancel, CommitCounts, StartDrain, MainMay
<1>5. CASE CommitPuts \/ EndFrames \/ DrainReturns
  BY <1>5 DEF CommitPuts, EndFrames, DrainReturns, StartDrain, MainMay
<1> QED
  BY <1>1, <1>2, <1>3, <1>4, <1>5 DEF Next, MainStep

-----------------------------------------------------------------------------
(* A packet put at the end adds its block; blocks stay distinct. *)
LEMMA AppendBlocks ==
  ASSUME NEW q \in Seq(Packets), NEW p \in Packets
  PROVE  /\ BlocksOf(Append(q, p)) = BlocksOf(q) \cup {p}
         /\ DistinctBlocks(q) /\ p \notin BlocksOf(q)
              => DistinctBlocks(Append(q, p))
<1> DEFINE n == Len(q)
           a == Append(q, p)
<1>1. /\ n \in Nat /\ DOMAIN q = 1 .. n
      /\ a \in Seq(Packets) /\ Len(a) = n + 1
      /\ \A i \in 1 .. n : a[i] = q[i]
      /\ a[n + 1] = p
  BY LenProperties, AppendProperties
<1>2. DOMAIN a = 1 .. (n + 1)
  BY <1>1, LenProperties
<1> HIDE DEF a, n
<1>3. 1 .. (n + 1) = (1 .. n) \cup {n + 1} /\ n + 1 \notin 1 .. n
  BY <1>1
<1>4. BlocksOf(a) = BlocksOf(q) \cup {p}
  BY <1>1, <1>2, <1>3 DEF BlocksOf
<1>5. ASSUME DistinctBlocks(q), p \notin BlocksOf(q)
      PROVE  DistinctBlocks(a)
  BY <1>1, <1>2, <1>3, <1>5 DEF DistinctBlocks, BlocksOf
<1> QED
  BY <1>4, <1>5 DEF a

(* Taking the first packet removes exactly its block. *)
LEMMA TailBlocks ==
  ASSUME NEW q \in Seq(Packets), q # <<>>, DistinctBlocks(q)
  PROVE  /\ Head(q) \in BlocksOf(q)
         /\ BlocksOf(Tail(q)) = BlocksOf(q) \ {Head(q)}
         /\ DistinctBlocks(Tail(q))
<1> DEFINE n == Len(q)
           t == Tail(q)
<1>1. /\ n \in Nat /\ DOMAIN q = 1 .. n
      /\ t \in Seq(Packets) /\ Len(t) = n - 1
      /\ \A i \in 1 .. (n - 1) : t[i] = q[i + 1]
  BY LenProperties, HeadTailProperties
<1>2. DOMAIN t = 1 .. (n - 1)
  BY <1>1, LenProperties
<1>3. Head(q) = q[1] /\ n >= 1
  <2>1. Len(t) \in Nat
    BY <1>1, LenProperties
  <2> QED
    BY <1>1, <2>1
<1> HIDE DEF t, n
<1>4. BlocksOf(t) = {q[i] : i \in 2 .. n}
  <2>1. ASSUME NEW i \in 2 .. n PROVE q[i] \in BlocksOf(t)
    <3>1. i - 1 \in 1 .. (n - 1) /\ t[i - 1] = q[(i - 1) + 1] /\ (i - 1) + 1 = i
      BY <1>1
    <3> QED
      BY <3>1, <1>2 DEF BlocksOf
  <2>2. ASSUME NEW i \in 1 .. (n - 1) PROVE t[i] \in {q[j] : j \in 2 .. n}
    <3>1. i + 1 \in 2 .. n /\ t[i] = q[i + 1]
      BY <1>1
    <3> QED
      BY <3>1
  <2> QED
    BY <2>1, <2>2, <1>2 DEF BlocksOf
<1>5. 1 .. n = {1} \cup (2 .. n) /\ 1 \notin 2 .. n
  BY <1>1, <1>3
<1>6. BlocksOf(t) = BlocksOf(q) \ {q[1]} /\ q[1] \in BlocksOf(q)
  <2>1. BlocksOf(q) = {q[1]} \cup {q[i] : i \in 2 .. n}
    BY <1>1, <1>5 DEF BlocksOf
  <2>2. \A i \in 2 .. n : q[i] # q[1]
    BY <1>1, <1>5 DEF DistinctBlocks
  <2> QED
    BY <1>4, <2>1, <2>2
<1>7. DistinctBlocks(t)
  <2> SUFFICES ASSUME NEW i \in 1 .. (n - 1), NEW j \in 1 .. (n - 1), t[i] = t[j]
               PROVE  i = j
    BY <1>2 DEF DistinctBlocks
  <2>1. i + 1 \in 1 .. n /\ j + 1 \in 1 .. n /\ q[i + 1] = q[j + 1]
    BY <1>1
  <2>2. i + 1 = j + 1
    BY <2>1, <1>1 DEF DistinctBlocks
  <2> QED
    BY <2>2
<1> QED
  BY <1>3, <1>6, <1>7 DEF t

(* A queue without repetition has as many blocks as places. *)
LEMMA BlocksCounted ==
  ASSUME NEW q \in Seq(Packets), DistinctBlocks(q)
  PROVE  IsFiniteSet(BlocksOf(q)) /\ Cardinality(BlocksOf(q)) = Len(q)
<1> DEFINE f == [i \in 1 .. Len(q) |-> q[i]]
<1>1. Len(q) \in Nat /\ DOMAIN q = 1 .. Len(q)
  BY LenProperties
<1>2. IsFiniteSet(1 .. Len(q)) /\ Cardinality(1 .. Len(q)) = Len(q)
  BY <1>1, FS_Interval
<1>3. f \in Surjection(1 .. Len(q), BlocksOf(q))
  BY <1>1 DEF Surjection, BlocksOf
<1>4. f \in Injection(1 .. Len(q), BlocksOf(q))
  BY <1>1 DEF Injection, IsInjective, BlocksOf, DistinctBlocks
<1> QED
  BY <1>2, <1>3, <1>4, FS_Surjection

(* How each transfer of a block keeps the partition. *)
LEMMA Transfers ==
  ASSUME NEW frees, NEW queueds, NEW workers, NEW mains,
         Partition(frees, queueds, workers, mains)
  PROVE  /\ workers = NoPacket =>
               \A p \in queueds : Partition(frees, queueds \ {p}, p, mains)
         /\ workers # NoPacket =>
               Partition(frees \cup {workers}, queueds, NoPacket, mains)
         /\ mains = NoPacket =>
               \A p \in frees : Partition(frees \ {p}, queueds, workers, p)
         /\ mains # NoPacket =>
               /\ Partition(frees \cup {mains}, queueds, workers, NoPacket)
               /\ Partition(frees, queueds \cup {mains}, workers, NoPacket)
<1>1. NoPacket \notin Packets
  BY PacketAssumption
<1>2. workers = NoPacket =>
         \A p \in queueds : Partition(frees, queueds \ {p}, p, mains)
  BY <1>1 DEF Partition
<1>3. workers # NoPacket =>
         Partition(frees \cup {workers}, queueds, NoPacket, mains)
  BY <1>1 DEF Partition
<1>4. mains = NoPacket =>
         \A p \in frees : Partition(frees \ {p}, queueds, workers, p)
  BY <1>1 DEF Partition
<1>5. mains # NoPacket =>
         Partition(frees \cup {mains}, queueds, workers, NoPacket)
  BY <1>1 DEF Partition
<1>6. mains # NoPacket =>
         Partition(frees, queueds \cup {mains}, workers, NoPacket)
  BY <1>1 DEF Partition
<1> QED
  BY <1>2, <1>3, <1>4, <1>5, <1>6

(* Each step hands blocks from one owner to another. *)
LEMMA BlocksStep ==
  ASSUME TypeOK, BlocksInv, [Next]_vars
  PROVE  BlocksInv'
<1>0. /\ queue \in Seq(Packets) /\ MainHasPacket
      /\ packet \in Packets \cup {NoPacket} /\ Len(queue) \in Nat
      /\ QueueSize \in Nat
  BY QueueLengths, PacketAssumption DEF TypeOK, DataTypes
<1> USE DEF BlocksInv
<1>1. ASSUME UNCHANGED <<free, queue, owned, packet>> PROVE BlocksInv'
  BY <1>1
<1>2. CASE Event \/ Tick \/ UNCHANGED vars
  BY <1>1, <1>2 DEF Event, Tick, vars
<1>3. CASE WorkerTakes
  <2>1. /\ owned = NoPacket /\ queue # <<>> /\ queue' = Tail(queue)
        /\ owned' = Head(queue) /\ UNCHANGED <<free, packet>>
    BY <1>3 DEF WorkerTakes, KeepBlock
  <2>2. /\ Head(queue) \in BlocksOf(queue) /\ DistinctBlocks(queue')
        /\ BlocksOf(queue') = BlocksOf(queue) \ {Head(queue)}
    BY <1>0, <2>1, TailBlocks
  <2>3. Partition(free, BlocksOf(queue) \ {Head(queue)}, Head(queue), packet)
    BY <2>1, <2>2, Transfers
  <2>4. Len(queue') <= QueueSize
    BY <1>0, <2>1, QueueLengths DEF TypeOK
  <2> QED
    BY <2>1, <2>2, <2>3, <2>4
<1>4. CASE WorkerCompletes
  <2>1. /\ owned # NoPacket /\ free' = free \cup {owned} /\ owned' = NoPacket
        /\ UNCHANGED <<queue, packet>>
    BY <1>4 DEF WorkerCompletes, Complete
  <2> QED
    BY <2>1, Transfers
<1>5. CASE BeginRun \/ Reset \/ ControlSends \/ ControlReturns \/ AcquireFails
  BY <1>1, <1>5 DEF BeginRun, Reset, ControlSends, ControlReturns, AcquireFails
<1>6. CASE CommitCounts \/ EndFrames \/ DrainReturns
  BY <1>1, <1>6 DEF CommitCounts, EndFrames, DrainReturns
<1>7. CASE Acquire
  <2>1. packet = NoPacket
    BY <1>0, <1>7 DEF Acquire, MainMay, MainHasPacket
  <2>2. PICK p \in free : packet' = p /\ free' = free \ {p}
    BY <1>7 DEF Acquire
  <2>3. UNCHANGED <<queue, owned>>
    BY <1>7 DEF Acquire
  <2> QED
    BY <2>1, <2>2, <2>3, Transfers
<1>8. CASE Cancel
  <2>1. packet # NoPacket /\ free' = free \cup {packet} /\ packet' = NoPacket
        /\ UNCHANGED <<queue, owned>>
    BY <1>0, <1>8 DEF Cancel, MainMay, MainHasPacket
  <2> QED
    BY <2>1, Transfers
<1>9. CASE CommitPuts
  <2>1. packet \in Packets /\ packet # NoPacket /\ packet' = NoPacket
        /\ owned' = owned
    BY <1>0, <1>9 DEF CommitPuts, MainMay, MainHasPacket
  <2>2. CASE Room
    <3>1. queue' = Append(queue, packet) /\ free' = free
      BY <1>9, <2>2 DEF CommitPuts
    <3>2. packet \notin BlocksOf(queue)
      BY DEF Partition
    <3>3. BlocksOf(queue') = BlocksOf(queue) \cup {packet} /\ DistinctBlocks(queue')
      BY <1>0, <2>1, <3>1, <3>2, AppendBlocks
    <3>4. Len(queue') <= QueueSize
      BY <1>0, <2>1, <2>2, <3>1, QueueLengths DEF Room, TypeOK
    <3>5. Partition(free, BlocksOf(queue) \cup {packet}, owned, NoPacket)
      BY <2>1, Transfers
    <3> QED
      BY <2>1, <3>1, <3>3, <3>4, <3>5
  <2>3. CASE ~Room
    <3>1. free' = free \cup {packet} /\ queue' = queue
      BY <1>9, <2>3 DEF CommitPuts
    <3> QED
      BY <2>1, <3>1, Transfers
  <2> QED
    BY <2>2, <2>3
<1> QED
  BY <1>2, <1>3, <1>4, <1>5, <1>6, <1>7, <1>8, <1>9
  DEF Next, WorkerStep, MainStep

-----------------------------------------------------------------------------
(* The conjunction of all of it is inductive, and holds at first. *)
LEMMA RadioInduction ==
  /\ Init => RadioInv
  /\ RadioInv /\ [Next]_vars => RadioInv'
<1>1. Init => RadioInv
  <2> SUFFICES ASSUME Init PROVE RadioInv
    OBVIOUS
  <2>1. /\ queue = <<>> /\ Len(queue) = 0 /\ BlocksOf(queue) = {}
        /\ DistinctBlocks(queue)
    BY EmptySeq DEF Init, BlocksOf, DistinctBlocks
  <2>2. BlocksInv
    BY <2>1, PacketAssumption DEF Init, BlocksInv, Partition
  <2>3. PendingExact /\ Accounted
    BY <2>1 DEF Init, PendingExact, Accounted, Sending, One
  <2>4. Quiet /\ TimeLeft /\ ClockInv
    BY DEF Init, Quiet, TimeLeft, ClockInv
  <2> QED
    BY <2>2, <2>3, <2>4, TypeInit DEF RadioInv
<1>2. RadioInv /\ [Next]_vars => RadioInv'
  <2> SUFFICES ASSUME RadioInv, [Next]_vars PROVE RadioInv'
    OBVIOUS
  <2>1. /\ TypeOK /\ BlocksInv /\ PendingExact /\ Accounted /\ Quiet
        /\ TimeLeft /\ ClockInv /\ Len(queue) <= QueueSize
    BY DEF RadioInv, BlocksInv
  <2>2. TypeOK' /\ BlocksInv' /\ PendingExact' /\ Accounted'
    BY <2>1, TypeStep, BlocksStep, PendingStep, AccountedStep
  <2>3. Quiet' /\ TimeLeft' /\ ClockInv'
    BY <2>1, QuietStep, TimeLeftStep, ClockStep
  <2> QED
    BY <2>2, <2>3 DEF RadioInv
<1> QED
  BY <1>1, <1>2

(* pending is the number of packets queued, being sent or about to be put, *)
(* so radio_async's counter never goes below zero and never misses one.    *)
THEOREM RadioPendingExact == Spec => []PendingExact
<1>1. RadioInv => PendingExact
  BY DEF RadioInv
<1> QED
  BY RadioInduction, <1>1, PTL DEF Spec

(* Each block of tx_pool is free, queued, with the worker or with main, and*)
(* with one of them only, whatever ESB answers.                            *)
THEOREM RadioPacketOwnership == Spec => []PacketOwnership
<1>1. ASSUME RadioInv PROVE PacketOwnership
  <2> DEFINE held == {owned, packet} \ {NoPacket}
             kept == free \cup BlocksOf(queue)
  <2> HIDE DEF held, kept
  <2>1. /\ Partition(free, BlocksOf(queue), owned, packet)
        /\ DistinctBlocks(queue) /\ queue \in Seq(Packets)
        /\ free \subseteq Packets /\ IsFiniteSet(Packets)
    BY <1>1, PacketAssumption DEF RadioInv, BlocksInv, TypeOK, DataTypes
  <2>2. /\ IsFiniteSet(free) /\ Cardinality(free) \in Nat
        /\ IsFiniteSet(BlocksOf(queue)) /\ Cardinality(BlocksOf(queue)) = Len(queue)
        /\ Len(queue) \in Nat
    BY <2>1, FS_Subset, FS_CardinalityType, BlocksCounted
  <2>3. /\ free \cap BlocksOf(queue) = {} /\ kept \cap held = {}
        /\ kept \cup held = Packets
        /\ owned = packet => owned = NoPacket
    BY <2>1 DEF Partition, held, kept
  <2>4. IsFiniteSet({}) /\ Cardinality({}) = 0
        /\ IsFiniteSet({owned}) /\ Cardinality({owned}) = 1
        /\ IsFiniteSet({packet}) /\ Cardinality({packet}) = 1
    BY FS_EmptySet, FS_Singleton
  <2>5. IsFiniteSet(kept) /\ Cardinality(kept) = Cardinality(free) + Len(queue)
    <3>1. /\ IsFiniteSet(kept)
          /\ Cardinality(kept)
               = Cardinality(free) + Cardinality(BlocksOf(queue))
                   - Cardinality(free \cap BlocksOf(queue))
      BY <2>2, FS_Union DEF kept
    <3>2. Cardinality(free \cap BlocksOf(queue)) = 0
      BY <2>3, <2>4
    <3> QED
      BY <2>2, <3>1, <3>2
  <2>6. IsFiniteSet(held) /\ Cardinality(held) = Sending + One(packet # NoPacket)
    <3>1. CASE owned = NoPacket /\ packet = NoPacket
      <4>1. held = {} /\ Sending = 0 /\ One(packet # NoPacket) = 0
        BY <3>1 DEF held, Sending, One
      <4> QED
        BY <2>4, <4>1
    <3>2. CASE owned # NoPacket /\ packet = NoPacket
      <4>1. held = {owned} /\ Sending = 1 /\ One(packet # NoPacket) = 0
        BY <3>2 DEF held, Sending, One
      <4> QED
        BY <2>4, <4>1
    <3>3. CASE owned = NoPacket /\ packet # NoPacket
      <4>1. held = {packet} /\ Sending = 0 /\ One(packet # NoPacket) = 1
        BY <3>3 DEF held, Sending, One
      <4> QED
        BY <2>4, <4>1
    <3>4. CASE owned # NoPacket /\ packet # NoPacket
      <4>1. /\ held = {owned} \cup {packet} /\ packet \notin {owned}
            /\ Sending = 1 /\ One(packet # NoPacket) = 1
        BY <2>3, <3>4 DEF held, Sending, One
      <4>2. /\ IsFiniteSet({owned} \cup {packet})
            /\ Cardinality({owned} \cup {packet}) = 1 + 1
        BY <2>4, <4>1, FS_AddElement
      <4> QED
        BY <4>1, <4>2
    <3> QED
      BY <3>1, <3>2, <3>3, <3>4
  <2>7. Cardinality(Packets)
           = Cardinality(free) + Len(queue) + Sending + One(packet # NoPacket)
    <3>1. Cardinality(kept \cup held)
             = Cardinality(kept) + Cardinality(held) - Cardinality(kept \cap held)
      BY <2>5, <2>6, FS_Union
    <3>2. Sending \in Nat /\ One(packet # NoPacket) \in Nat
      BY DEF Sending, One
    <3>3. Cardinality(kept \cap held) = 0
      BY <2>3, <2>4
    <3>4. Cardinality(Packets) = Cardinality(kept) + Cardinality(held) - 0
      BY <2>3, <3>1, <3>3
    <3> QED
      BY <2>2, <2>5, <2>6, <3>2, <3>4
  <2> QED
    BY <2>3, <2>7 DEF kept, held, PacketOwnership, Queued, BlocksOf
<1> QED
  BY RadioInduction, <1>1, PTL DEF Spec

(* radio_async_drain never times out: a full queue and the packet in hand  *)
(* are sent or given up within its deadline even if ESB never answers.     *)
THEOREM RadioDrainInTime == Spec => []DrainInTime
<1>1. ASSUME RadioInv PROVE DrainInTime
  <2>1. /\ DataTypes /\ Quiet /\ TimeLeft /\ ClockInv
        /\ DrainBudget \in Nat
    BY <1>1, TimeAssumption DEF RadioInv, TypeOK
  <2>2. drained # "timeout"
    BY <2>1 DEF Quiet
  <2>3. ASSUME drain_clock > DrainBudget PROVE pending = 0
    <3>1. drain_clock # 0
      BY <2>1, <2>3
    <3>2. mpc \in {"idle", "control", "wait", "drain"}
      BY <2>1, <3>1 DEF ClockInv, DataTypes, MainPlaces
    <3> QED
      BY <2>1, <2>3, <3>2, NoTimeout DEF Quiet
  <2> QED
    BY <2>2, <2>3 DEF DrainInTime
<1> QED
  BY RadioInduction, <1>1, PTL DEF Spec

(* A drain that returns success found every accepted packet completed, and *)
(* a run is reset only when no packet of the last one is left.             *)
THEOREM RadioDrainedIsComplete == Spec => []DrainedIsComplete
<1>1. ASSUME RadioInv PROVE DrainedIsComplete
  <2>1. TypeOK /\ PendingExact /\ Quiet /\ Accounted
    BY <1>1 DEF RadioInv
  <2>2. ASSUME drained = "ok" PROVE completed = accepted
    <3>1. pending = 0
      BY <2>1, <2>2 DEF Quiet
    <3>2. Len(queue) = 0 /\ owned = NoPacket
      BY <2>1, <3>1, NothingPending, QueueLengths DEF TypeOK
    <3> QED
      BY <2>1, <3>2 DEF Accounted, Sending, One, TypeOK, DataTypes
  <2> QED
    BY <2>1, <2>2 DEF DrainedIsComplete, Quiet
<1> QED
  BY RadioInduction, <1>1, PTL DEF Spec
=============================================================================
