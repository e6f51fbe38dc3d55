---------------------------- MODULE UsbPcmProofs ----------------------------
(***************************************************************************)
(* Theorems of UsbPcm, for every pool size, frame size, warm-up and set of *)
(* frame counts the assumptions allow: who owns the blocks, and what the   *)
(* frames bring, as PcmFeed promises it; and of CommandMatcher, the bytes  *)
(* behind its commands, for every marker that can be found.                *)
(***************************************************************************)
EXTENDS UsbPcm, CommandMatcher, SequenceTheorems, FiniteSetTheorems, TLAPS

USE DEF usbVars, runVars, mainVars

(* A packet brings something, and less than a frame. *)
LEMMA PacketSize ==
  ASSUME NEW k \in PacketUnits
  PROVE  k \in 1 .. (FrameUnits - 1) /\ FrameUnits \in Nat \ {0}
BY SizeAssumption

(* Allocation returns a block of the pool, or none. *)
LEMMA StartPartialType ==
  ASSUME NEW free, free \subseteq Buffers, StartPartial(free)
  PROVE  partial' \in Buffers \cup {NoBuf} /\ pool' \subseteq Buffers
BY DEF StartPartial, Allocated

(* The endpoint begins with its whole pool, and main without a frame. *)
LEMMA TypeInit == Init => TypeOK
<1> SUFFICES ASSUME Init PROVE TypeOK
  OBVIOUS
<1>1. queue \in Seq(Frame)
  BY DEF Init
<1>2. 0 \in 0 .. (FrameUnits - 1)
  BY SizeAssumption
<1> QED
  BY <1>1, <1>2 DEF Init, TypeOK, Run, NoRun, Stats, ZeroStats, Places, NoFrame

(* The type of the frame a callback completes. *)
LEMMA CompletedType ==
  ASSUME TypeOK, partial # NoBuf
  PROVE  Completed \in Frame
BY DEF TypeOK, Completed, Frame

(* main has a frame exactly while it works on one. *)
WorkHasFrame == pc = "work" <=> input # NoFrame

(* NoFrame is no frame of the queue. *)
LEMMA NoFrameIsNone == NoFrame \notin Frame /\ NoFrame.buf = NoBuf
BY PoolAssumption DEF NoFrame, Frame

(* main takes a frame when it begins to work and gives it back when it ends. *)
LEMMA WorkHasFrameStep ==
  TypeOK /\ WorkHasFrame /\ [Next]_vars => WorkHasFrame'
<1> SUFFICES ASSUME TypeOK, WorkHasFrame, [Next]_vars PROVE WorkHasFrame'
  OBVIOUS
<1>1. ASSUME NEW frames \in FrameCounts, NEW k \in {0} \cup PacketUnits,
             ReceiveCommand(frames, k)
      PROVE  WorkHasFrame'
  BY <1>1 DEF ReceiveCommand, WorkHasFrame
<1>2. ASSUME NEW k \in PacketUnits, ReceivePart(k) PROVE WorkHasFrame'
  BY <1>2 DEF ReceivePart, WorkHasFrame
<1>3. ASSUME NEW k \in PacketUnits, ReceiveLast(k) PROVE WorkHasFrame'
  <2>1. CASE DropFrame
    BY <2>1 DEF DropFrame, WorkHasFrame
  <2>2. CASE PutFrame /\ partial # NoBuf
    BY <2>2, CompletedType, NoFrameIsNone DEF PutFrame, WorkHasFrame
  <2> QED
    BY <1>3, <2>1, <2>2 DEF ReceiveLast
<1>4. CASE TerminalDisabled \/ TerminalEnabled
  BY <1>4 DEF TerminalDisabled, TerminalEnabled, WorkHasFrame
<1>5. CASE Get
  <2>1. Head(queue) \in Frame
    BY <1>5, HeadTailProperties DEF Get, TypeOK
  <2> QED
    BY <1>5, <2>1, NoFrameIsNone DEF Get, WorkHasFrame
<1>6. CASE WaitRun \/ Block \/ GetTimeout \/ Reset \/ Drain \/ Finish \/ SendEnd
  BY <1>6 DEF WaitRun, Block, GetTimeout, Reset, Drain, Finish, SendEnd,
              WorkHasFrame
<1>7. CASE Work \/ WorkFails
  BY <1>7 DEF Work, WorkFails, Release, WorkHasFrame
<1>8. CASE UNCHANGED vars
  BY <1>8 DEF vars, WorkHasFrame
<1> QED
  BY <1>1, <1>2, <1>3, <1>4, <1>5, <1>6, <1>7, <1>8 DEF Next, UsbStep, MainStep

(* Every action keeps the types. *)
LEMMA TypeStep == TypeOK /\ WorkHasFrame /\ [Next]_vars => TypeOK'
<1> SUFFICES ASSUME TypeOK, WorkHasFrame, [Next]_vars PROVE TypeOK'
  OBVIOUS
<1>1. ASSUME NEW frames \in FrameCounts, NEW k \in {0} \cup PacketUnits,
             ReceiveCommand(frames, k)
      PROVE  TypeOK'
  <2>1. k \in 0 .. (FrameUnits - 1)
    BY PacketSize, SizeAssumption
  <2>2. partial' \in Buffers \cup {NoBuf} /\ pool' \subseteq Buffers
    BY <1>1, StartPartialType DEF ReceiveCommand, TypeOK
  <2> QED
    BY <1>1, <2>1, <2>2
    DEF ReceiveCommand, ResetAssembly, TypeOK, Run, Stats, ZeroStats
<1>2. ASSUME NEW k \in PacketUnits, ReceivePart(k) PROVE TypeOK'
  <2>1. partial' \in Buffers \cup {NoBuf} /\ pool' \subseteq Buffers
    BY <1>2, StartPartialType DEF ReceivePart, TypeOK
  <2>2. partial_have' \in 0 .. (FrameUnits - 1) /\ received' \in Nat
    BY <1>2, PacketSize DEF ReceivePart, FrameNotFull, TypeOK
  <2> QED
    BY <1>2, <2>1, <2>2 DEF ReceivePart, TypeOK
<1>3. ASSUME NEW k \in PacketUnits, ReceiveLast(k) PROVE TypeOK'
  <2> DEFINE rest == partial_have + k - FrameUnits
             lost == partial = NoBuf \/ QueueFull
             free == IF lost THEN pool \cup ({partial} \ {NoBuf}) ELSE pool
  <2>1. rest \in 0 .. (FrameUnits - 1)
    BY <1>3, PacketSize DEF ReceiveLast, TypeOK
  <2>2. free \subseteq Buffers
    BY DEF TypeOK
  <2>3. partial' \in Buffers \cup {NoBuf} /\ pool' \subseteq Buffers
    BY <1>3, <2>2, StartPartialType DEF ReceiveLast
  <2>4. partial_have' \in 0 .. (FrameUnits - 1) /\ received' \in Nat
    BY <1>3, <2>1, PacketSize DEF ReceiveLast, TypeOK
  <2>5. /\ queue' \in Seq(Frame) /\ input' \in Frame \cup {NoFrame}
        /\ pc' \in Places /\ stats' \in Stats
    <3>1. CASE lost
      BY <1>3, <3>1 DEF ReceiveLast, DropFrame, TypeOK, Stats
    <3>2. CASE ~lost
      <4>1. PutFrame /\ Completed \in Frame
        BY <1>3, <3>2, CompletedType DEF ReceiveLast
      <4>2. Append(queue, Completed) \in Seq(Frame)
        BY <4>1, AppendProperties DEF TypeOK
      <4>3. stats' \in Stats
        BY <4>1 DEF PutFrame, TypeOK, Stats
      <4> QED
        BY <4>1, <4>2, <4>3 DEF PutFrame, TypeOK, Places
    <3> QED
      BY <3>1, <3>2
  <2> QED
    BY <1>3, <2>3, <2>4, <2>5 DEF ReceiveLast, TypeOK
<1>4. CASE TerminalDisabled
  <2>1. stats' \in Stats
    BY <1>4 DEF TerminalDisabled, TypeOK, Stats
  <2>2. pool' \subseteq Buffers /\ partial' = NoBuf
    BY <1>4 DEF TerminalDisabled, GiveUpPartial, TypeOK
  <2>3. partial_have' \in 0 .. (FrameUnits - 1)
    BY <1>4, SizeAssumption DEF TerminalDisabled
  <2> QED
    BY <1>4, <2>1, <2>2, <2>3 DEF TerminalDisabled, TypeOK
<1>5. CASE TerminalEnabled
  BY <1>5 DEF TerminalEnabled, TypeOK
<1>6. CASE WaitRun
  BY <1>6 DEF WaitRun, TypeOK, Places
<1>7. CASE Get
  <2>1. Head(queue) \in Frame /\ Tail(queue) \in Seq(Frame)
    BY <1>7, HeadTailProperties DEF Get, TypeOK
  <2> QED
    BY <1>7, <2>1 DEF Get, TypeOK, Places
<1>8. CASE Block \/ GetTimeout \/ Reset \/ Drain \/ SendEnd
  BY <1>8 DEF Block, GetTimeout, Reset, Drain, SendEnd, TypeOK, Places
<1>9. CASE Work \/ WorkFails
  <2>1. pc' \in Places /\ index' \in Nat /\ sequence_errors' \in Nat
    BY <1>9 DEF Work, WorkFails, CheckSequence, TypeOK, Places
  <2>2. pool' \subseteq Buffers /\ input' \in Frame \cup {NoFrame}
    <3>1. input.buf \in Buffers
      BY <1>9 DEF Work, WorkFails, WorkHasFrame, TypeOK, Frame
    <3> QED
      BY <1>9, <3>1 DEF Work, WorkFails, Release, TypeOK
  <2> QED
    BY <1>9, <2>1, <2>2 DEF Work, WorkFails, TypeOK
<1>10. CASE Finish
  <2>1. QueuedBlocks \subseteq Buffers
    <3>1. \A i \in DOMAIN queue : queue[i] \in Frame
      BY ElementOfSeq DEF TypeOK
    <3> QED
      BY <3>1 DEF QueuedBlocks, Frame
  <2>2. queue' \in Seq(Frame)
    BY <1>10 DEF Finish, EmptyQueue
  <2> QED
    BY <1>10, <2>1, <2>2 DEF Finish, EmptyQueue, TypeOK, Places
<1>11. CASE UNCHANGED vars
  BY <1>11 DEF vars, TypeOK
<1> QED
  BY <1>1, <1>2, <1>3, <1>4, <1>5, <1>6, <1>7, <1>8, <1>9, <1>10, <1>11
  DEF Next, UsbStep, MainStep

(* Every variable of the endpoint and the frame loop keeps its type. *)
THEOREM UsbTypeCorrect == Spec => []TypeOK
<1>1. Init => TypeOK /\ WorkHasFrame
  BY TypeInit DEF Init, WorkHasFrame
<1>2. TypeOK /\ WorkHasFrame /\ [Next]_vars => (TypeOK /\ WorkHasFrame)'
  BY TypeStep, WorkHasFrameStep
<1> QED
  BY <1>1, <1>2, PTL DEF Spec

-----------------------------------------------------------------------------
(* Each block of the pool has one owner at a time, and a pool of two blocks*)
(* more than the queue holds never runs dry.                               *)
BlocksOf(q) == {q[i].buf : i \in DOMAIN q}
DistinctBlocks(q) == \A i, j \in DOMAIN q : q[i].buf = q[j].buf => i = j

(* A frame put at the end adds its block; blocks stay distinct. *)
LEMMA AppendBlocks ==
  ASSUME NEW q \in Seq(Frame), NEW f \in Frame
  PROVE  /\ BlocksOf(Append(q, f)) = BlocksOf(q) \cup {f.buf}
         /\ DistinctBlocks(q) /\ f.buf \notin BlocksOf(q)
              => DistinctBlocks(Append(q, f))
<1> DEFINE n == Len(q)
           a == Append(q, f)
<1>1. /\ n \in Nat /\ DOMAIN q = 1 .. n
      /\ a \in Seq(Frame) /\ Len(a) = n + 1
      /\ \A i \in 1 .. n : a[i] = q[i]
      /\ a[n + 1] = f
  BY LenProperties, AppendProperties
<1>2. DOMAIN a = 1 .. (n + 1)
  BY <1>1, LenProperties
<1> HIDE DEF a, n
<1>3. 1 .. (n + 1) = (1 .. n) \cup {n + 1} /\ n + 1 \notin 1 .. n
  BY <1>1
<1>4. BlocksOf(a) = BlocksOf(q) \cup {f.buf}
  BY <1>1, <1>2, <1>3 DEF BlocksOf
<1>5. ASSUME DistinctBlocks(q), f.buf \notin BlocksOf(q)
      PROVE  DistinctBlocks(a)
  BY <1>1, <1>2, <1>3, <1>5 DEF DistinctBlocks, BlocksOf
<1> QED
  BY <1>4, <1>5 DEF a

(* Taking the first frame removes exactly its block. *)
LEMMA TailBlocks ==
  ASSUME NEW q \in Seq(Frame), q # <<>>, DistinctBlocks(q)
  PROVE  /\ Head(q).buf \in BlocksOf(q)
         /\ BlocksOf(Tail(q)) = BlocksOf(q) \ {Head(q).buf}
         /\ DistinctBlocks(Tail(q))
<1> DEFINE n == Len(q)
           t == Tail(q)
<1>1. /\ n \in Nat /\ DOMAIN q = 1 .. n
      /\ t \in Seq(Frame) /\ Len(t) = n - 1
      /\ \A i \in 1 .. (n - 1) : t[i] = q[i + 1]
  BY LenProperties, HeadTailProperties
<1>2. DOMAIN t = 1 .. (n - 1)
  BY <1>1, LenProperties
<1>3. Head(q) = q[1] /\ n >= 1
  <2>1. Len(t) \in Nat
    BY <1>1, LenProperties
  <2> QED
    BY <1>1, <2>1
<1> HIDE DEF t, n
<1>4. BlocksOf(t) = {q[i].buf : i \in 2 .. n}
  <2>1. ASSUME NEW i \in 2 .. n PROVE q[i].buf \in BlocksOf(t)
    <3>1. i - 1 \in 1 .. (n - 1) /\ t[i - 1] = q[(i - 1) + 1] /\ (i - 1) + 1 = i
      BY <1>1
    <3> QED
      BY <3>1, <1>2 DEF BlocksOf
  <2>2. ASSUME NEW i \in 1 .. (n - 1) PROVE t[i].buf \in {q[j].buf : j \in 2 .. n}
    <3>1. i + 1 \in 2 .. n /\ t[i] = q[i + 1]
      BY <1>1
    <3> QED
      BY <3>1
  <2> QED
    BY <2>1, <2>2, <1>2 DEF BlocksOf
<1>5. 1 .. n = {1} \cup (2 .. n) /\ 1 \notin 2 .. n
  BY <1>1, <1>3
<1>6. BlocksOf(t) = BlocksOf(q) \ {q[1].buf} /\ q[1].buf \in BlocksOf(q)
  <2>1. BlocksOf(q) = {q[1].buf} \cup {q[i].buf : i \in 2 .. n}
    BY <1>1, <1>5 DEF BlocksOf
  <2>2. \A i \in 2 .. n : q[i].buf # q[1].buf
    BY <1>1, <1>5 DEF DistinctBlocks
  <2> QED
    BY <1>4, <2>1, <2>2
<1>7. DistinctBlocks(t)
  <2> SUFFICES ASSUME NEW i \in 1 .. (n - 1), NEW j \in 1 .. (n - 1),
                      t[i].buf = t[j].buf
               PROVE  i = j
    BY <1>2 DEF DistinctBlocks
  <2>1. i + 1 \in 1 .. n /\ j + 1 \in 1 .. n /\ q[i + 1].buf = q[j + 1].buf
    BY <1>1
  <2>2. i + 1 = j + 1
    BY <2>1, <1>1 DEF DistinctBlocks
  <2> QED
    BY <2>2
<1> QED
  BY <1>3, <1>6, <1>7 DEF t

(* A queue has no more blocks than places. *)
LEMMA BlocksBounded ==
  ASSUME NEW q \in Seq(Frame)
  PROVE  IsFiniteSet(BlocksOf(q)) /\ Cardinality(BlocksOf(q)) <= Len(q)
<1> DEFINE f == [i \in 1 .. Len(q) |-> q[i].buf]
<1>1. Len(q) \in Nat /\ DOMAIN q = 1 .. Len(q)
  BY LenProperties
<1>2. IsFiniteSet(1 .. Len(q)) /\ Cardinality(1 .. Len(q)) = Len(q)
  BY <1>1, FS_Interval
<1>3. f \in Surjection(1 .. Len(q), BlocksOf(q))
  BY <1>1 DEF Surjection, BlocksOf
<1> QED
  BY <1>2, <1>3, FS_Surjection

(* With the queue full and one frame with main, the pool has a free block. *)
LEMMA FreeBlockLeft ==
  ASSUME NEW free, NEW q \in Seq(Frame), Len(q) <= QueueSize, NEW b,
         Buffers \subseteq free \cup BlocksOf(q) \cup {b}
  PROVE  free # {}
<1> SUFFICES ASSUME free = {} PROVE FALSE
  OBVIOUS
<1> DEFINE held == BlocksOf(q) \cup {b}
<1>1. IsFiniteSet(BlocksOf(q)) /\ Cardinality(BlocksOf(q)) <= Len(q)
  BY BlocksBounded
<1>2. Cardinality(BlocksOf(q)) \in Nat /\ Len(q) \in Nat
  BY <1>1, FS_CardinalityType, LenProperties
<1>3. IsFiniteSet(held) /\ Cardinality(held) <= Len(q) + 1
  <2>1. IsFiniteSet(held)
        /\ Cardinality(held) = IF b \in BlocksOf(q)
                                 THEN Cardinality(BlocksOf(q))
                                 ELSE Cardinality(BlocksOf(q)) + 1
    BY <1>1, FS_AddElement, Zenon
  <2> HIDE DEF held
  <2> QED
    BY <1>1, <1>2, <2>1
<1>4. Cardinality(held) \in Nat
  BY <1>3, FS_CardinalityType
<1>5. Cardinality(Buffers) <= Cardinality(held)
  BY <1>3, FS_Subset
<1> QED
  BY <1>2, <1>3, <1>4, <1>5, PoolAssumption

(* The blocks of free, of queued frames, the one being filled and main's   *)
(* partition the pool.                                                     *)
Partition(free, queued, filling, mains) ==
  /\ free \cup queued \cup ({filling, mains} \ {NoBuf}) = Buffers
  /\ free \cap queued = {}
  /\ filling \notin free \cup queued
  /\ mains \notin free \cup queued
  /\ filling = mains => filling = NoBuf

(* How each transfer of a block keeps the partition. *)
LEMMA Transfers ==
  ASSUME NEW free, NEW queued, NEW filling, NEW mains,
         Partition(free, queued, filling, mains)
  PROVE  /\ filling = NoBuf =>
               \A b \in free : Partition(free \ {b}, queued, b, mains)
         /\ Partition(free \cup ({filling} \ {NoBuf}), queued, NoBuf, mains)
         /\ mains # NoBuf =>
               Partition(free \cup {mains}, queued, filling, NoBuf)
         /\ filling # NoBuf =>
               Partition(free, queued \cup {filling}, NoBuf, mains)
         /\ mains = NoBuf => Partition(free, queued, NoBuf, filling)
         /\ mains = NoBuf =>
               \A b \in queued : Partition(free, queued \ {b}, filling, b)
         /\ Partition(free \cup queued \cup ({filling} \ {NoBuf}), {}, NoBuf,
                      mains)
<1>1. NoBuf \notin Buffers
  BY PoolAssumption
<1>2. filling = NoBuf =>
         \A b \in free : Partition(free \ {b}, queued, b, mains)
  BY <1>1 DEF Partition
<1>3. Partition(free \cup ({filling} \ {NoBuf}), queued, NoBuf, mains)
  BY <1>1 DEF Partition
<1>4. mains # NoBuf => Partition(free \cup {mains}, queued, filling, NoBuf)
  BY <1>1 DEF Partition
<1>5. filling # NoBuf => Partition(free, queued \cup {filling}, NoBuf, mains)
  BY <1>1 DEF Partition
<1>6. mains = NoBuf => Partition(free, queued, NoBuf, filling)
  BY <1>1 DEF Partition
<1>7. mains = NoBuf =>
         \A b \in queued : Partition(free, queued \ {b}, filling, b)
  BY <1>1 DEF Partition
<1>8. Partition(free \cup queued \cup ({filling} \ {NoBuf}), {}, NoBuf, mains)
  BY <1>1 DEF Partition
<1> QED
  BY <1>2, <1>3, <1>4, <1>5, <1>6, <1>7, <1>8

(* The property, as a partition of the pool among four owners. *)
LEMMA OwnershipIsPartition ==
  ExclusiveOwnership <=>
    /\ Partition(pool, BlocksOf(queue), partial, input.buf)
    /\ DistinctBlocks(queue)
BY PoolAssumption DEF ExclusiveOwnership, Partition, QueuedBlocks, BlocksOf,
                      HeldBlocks, DistinctBlocks

(* Ownership, with what makes it inductive: the queue's capacity, the hand-*)
(* over to a blocked main only from an empty queue, and a block for the    *)
(* frame being filled exactly when some of it arrived.                     *)
OwnershipInv ==
  /\ Partition(pool, BlocksOf(queue), partial, input.buf)
  /\ DistinctBlocks(queue)
  /\ Len(queue) <= QueueSize
  /\ pc = "blocked" => queue = <<>>
  /\ partial # NoBuf => active
  /\ active => (partial_have = 0 <=> partial = NoBuf)

(* An empty queue owns no block. *)
LEMMA EmptyQueueFacts ==
  <<>> \in Seq(Frame) /\ Len(<<>>) = 0 /\ BlocksOf(<<>>) = {}
    /\ DistinctBlocks(<<>>)
BY EmptySeq DEF BlocksOf, DistinctBlocks

(* All blocks are in the pool at first. *)
LEMMA OwnershipInit == Init => OwnershipInv
BY EmptyQueueFacts, PoolAssumption
DEF Init, OwnershipInv, Partition, NoFrame

(* Allocating for a frame that starts succeeds, as the blocks the pool does*)
(* not have are in the queue and with main.                                *)
LEMMA StartSucceeds ==
  ASSUME NEW free, NEW q \in Seq(Frame), Len(q) <= QueueSize, NEW b,
         Partition(free, BlocksOf(q), NoBuf, b), StartPartial(free)
  PROVE  partial' # NoBuf /\ Partition(pool', BlocksOf(q), partial', b)
<1>1. free # {}
  BY FreeBlockLeft DEF Partition
<1>2. PICK c \in free : partial' = c /\ pool' = free \ {c}
  BY <1>1 DEF StartPartial, Allocated
<1>3. c # NoBuf
  BY PoolAssumption DEF Partition
<1> QED
  BY <1>2, <1>3, Transfers

(* The invariant is inductive: each action moves blocks between owners. *)
LEMMA OwnershipStep ==
  ASSUME TypeOK, WorkHasFrame, OwnershipInv, [Next]_vars
  PROVE  OwnershipInv'
<1> USE DEF OwnershipInv
<1> USE PoolAssumption
<1>0. /\ queue \in Seq(Frame) /\ Len(queue) \in Nat
      /\ pc # "work" => input.buf = NoBuf
      /\ pc = "work" => input.buf \in Buffers /\ input.buf # NoBuf
  BY LenProperties, NoFrameIsNone DEF TypeOK, WorkHasFrame, Frame
<1>1. ASSUME NEW frames \in FrameCounts, NEW k \in {0} \cup PacketUnits,
             ReceiveCommand(frames, k)
      PROVE  OwnershipInv'
  <2>1. partial = NoBuf /\ UNCHANGED <<queue, pc, input>> /\ partial_have' = k
        /\ active'
    BY <1>1 DEF ReceiveCommand, ResetAssembly
  <2>2. CASE k = 0
    BY <1>1, <2>1, <2>2 DEF ReceiveCommand
  <2>3. CASE k > 0
    <3>1. partial' # NoBuf
          /\ Partition(pool', BlocksOf(queue), partial', input.buf)
      BY <1>0, <1>1, <2>1, <2>3, StartSucceeds DEF ReceiveCommand
    <3> QED
      BY <2>1, <2>3, <3>1
  <2>4. k = 0 \/ k > 0
    BY PacketSize
  <2> QED
    BY <2>2, <2>3, <2>4
<1>2. ASSUME NEW k \in PacketUnits, ReceivePart(k) PROVE OwnershipInv'
  <2>1. UNCHANGED <<queue, pc, input, active>> /\ active
        /\ partial_have' = partial_have + k /\ partial_have \in Nat
        /\ k \in Nat /\ k > 0
    BY <1>2, PacketSize DEF ReceivePart, TypeOK
  <2>2. CASE partial_have = 0
    <3>1. partial' # NoBuf
          /\ Partition(pool', BlocksOf(queue), partial', input.buf)
      BY <1>0, <1>2, <2>1, <2>2, StartSucceeds DEF ReceivePart
    <3> QED
      BY <2>1, <3>1
  <2>3. CASE partial_have # 0
    BY <1>2, <2>1, <2>3 DEF ReceivePart
  <2> QED
    BY <2>2, <2>3
<1>3. ASSUME NEW k \in PacketUnits, ReceiveLast(k) PROVE OwnershipInv'
  <2> DEFINE rest == partial_have + k - FrameUnits
             lost == partial = NoBuf \/ QueueFull
             free == IF lost THEN pool \cup ({partial} \ {NoBuf}) ELSE pool
  <2>1. rest \in Nat /\ partial_have # 0
    BY <1>3, PacketSize DEF ReceiveLast, TypeOK
  <2>2. partial # NoBuf /\ active
    BY <1>3, <2>1 DEF ReceiveLast
  <2>3. /\ Partition(free, BlocksOf(queue'), NoBuf, input'.buf)
        /\ DistinctBlocks(queue') /\ queue' \in Seq(Frame)
        /\ Len(queue') <= QueueSize
        /\ pc' = "blocked" => queue' = <<>>
    <3>1. CASE lost
      BY <1>0, <1>3, <3>1, Transfers DEF ReceiveLast, DropFrame
    <3>2. CASE ~lost /\ pc = "blocked"
      <4>1. input' = Completed /\ queue' = queue /\ pc' = "work"
        BY <1>3, <3>2 DEF ReceiveLast, PutFrame
      <4>2. input'.buf = partial
        BY <4>1 DEF Completed
      <4>3. Partition(pool, BlocksOf(queue), NoBuf, partial)
        BY <1>0, <3>2, Transfers
      <4> QED
        BY <1>0, <3>2, <4>1, <4>2, <4>3
    <3>3. CASE ~lost /\ pc # "blocked"
      <4>1. queue' = Append(queue, Completed) /\ UNCHANGED <<input, pc>>
        BY <1>3, <3>3 DEF ReceiveLast, PutFrame
      <4>2. Completed \in Frame /\ Completed.buf = partial
        BY <2>2, CompletedType DEF Completed
      <4>3. Len(queue) < QueueSize
        BY <1>0, <3>3 DEF QueueFull
      <4>4. queue' \in Seq(Frame) /\ Len(queue') = Len(queue) + 1
        BY <1>0, <4>1, <4>2, AppendProperties
      <4>5. partial \notin BlocksOf(queue)
        BY <2>2 DEF Partition
      <4>6. BlocksOf(queue') = BlocksOf(queue) \cup {partial}
            /\ DistinctBlocks(queue')
        BY <1>0, <4>1, <4>2, <4>5, AppendBlocks
      <4>7. Partition(pool, BlocksOf(queue'), NoBuf, input.buf)
        <5>1. Partition(pool, BlocksOf(queue) \cup {partial}, NoBuf, input.buf)
          BY <2>2, Transfers
        <5> QED
          BY <4>6, <5>1
      <4> QED
        BY <1>0, <3>3, <4>1, <4>3, <4>4, <4>6, <4>7
    <3> QED
      BY <3>1, <3>2, <3>3
  <2>4. CASE LastFrame \/ rest = 0
    BY <1>3, <2>3, <2>4 DEF ReceiveLast
  <2>5. CASE ~(LastFrame \/ rest = 0)
    <3>1. StartPartial(free) /\ partial_have' = rest /\ active'
      BY <1>3, <2>5 DEF ReceiveLast
    <3>2. partial' # NoBuf
          /\ Partition(pool', BlocksOf(queue'), partial', input'.buf)
      <4> HIDE DEF free
      <4> QED
        BY <2>3, <3>1, StartSucceeds
    <3> QED
      BY <2>3, <2>5, <3>1, <3>2
  <2> QED
    BY <2>4, <2>5
<1>4. CASE TerminalDisabled
  BY <1>4, Transfers DEF TerminalDisabled, GiveUpPartial
<1>5. CASE TerminalEnabled \/ UNCHANGED vars
  BY <1>5 DEF TerminalEnabled, vars
<1>6. CASE Get
  <2>1. /\ input' = Head(queue) /\ queue' = Tail(queue) /\ queue # <<>>
        /\ pc' = "work" /\ UNCHANGED <<pool, partial, partial_have, active>>
    BY <1>6 DEF Get
  <2>2. Len(Tail(queue)) = Len(queue) - 1
    BY <1>0, <2>1, HeadTailProperties
  <2>3. /\ Head(queue).buf \in BlocksOf(queue)
        /\ BlocksOf(queue') = BlocksOf(queue) \ {Head(queue).buf}
        /\ DistinctBlocks(queue')
    BY <1>0, <2>1, TailBlocks
  <2>4. Partition(pool, BlocksOf(queue'), partial, input'.buf)
    <3>1. Partition(pool, BlocksOf(queue) \ {Head(queue).buf}, partial,
                    Head(queue).buf)
      BY <1>0, <1>6, <2>3, Transfers DEF Get
    <3> QED
      BY <2>1, <2>3, <3>1
  <2> QED
    BY <1>0, <2>1, <2>2, <2>3, <2>4
<1>7. CASE WaitRun \/ Block \/ GetTimeout \/ Reset \/ Drain \/ SendEnd
  BY <1>7 DEF WaitRun, Block, GetTimeout, Reset, Drain, SendEnd
<1>8. CASE Work \/ WorkFails
  <2>1. pc = "work" /\ pool' = pool \cup {input.buf} /\ input'.buf = NoBuf
        /\ UNCHANGED <<queue, partial, partial_have, active>>
        /\ pc' # "blocked"
    BY <1>8 DEF Work, WorkFails, Release, NoFrame
  <2> QED
    BY <1>0, <2>1, Transfers
<1>9. CASE Finish
  <2>1. /\ pool' = pool \cup BlocksOf(queue) \cup ({partial} \ {NoBuf})
        /\ queue' = <<>> /\ partial' = NoBuf /\ input' = input
        /\ active' = FALSE /\ pc' = "end"
    BY <1>9 DEF Finish, EmptyQueue, QueuedBlocks, BlocksOf
  <2> QED
    <3>1. Partition(pool \cup BlocksOf(queue) \cup ({partial} \ {NoBuf}), {},
                    NoBuf, input.buf)
      BY Transfers
    <3>2. BlocksOf(queue') = {} /\ DistinctBlocks(queue') /\ Len(queue') <= QueueSize
      BY <2>1, EmptyQueueFacts
    <3> QED
      BY <2>1, <3>1, <3>2
<1> QED
  BY <1>1, <1>2, <1>3, <1>4, <1>5, <1>6, <1>7, <1>8, <1>9
  DEF Next, UsbStep, MainStep

(* Each block of the pool has one owner at any time: the free list, the    *)
(* queue, the frame being filled or main.                                  *)
THEOREM UsbOwnership == Spec => []ExclusiveOwnership
<1>1. Init => TypeOK /\ WorkHasFrame /\ OwnershipInv
  BY TypeInit, OwnershipInit DEF Init, WorkHasFrame
<1>2. TypeOK /\ WorkHasFrame /\ OwnershipInv /\ [Next]_vars
        => (TypeOK /\ WorkHasFrame /\ OwnershipInv)'
  BY TypeStep, WorkHasFrameStep, OwnershipStep
<1>3. OwnershipInv => ExclusiveOwnership
  BY OwnershipIsPartition DEF OwnershipInv
<1> QED
  BY <1>1, <1>2, <1>3, PTL DEF Spec

(* The allocation of the callback, whose result it does not look at, never *)
(* fails: the pool has exactly the blocks it needs.                        *)
THEOREM UsbPoolSuffices == Spec => []PoolSuffices
<1>1. Init => TypeOK /\ WorkHasFrame /\ OwnershipInv
  BY TypeInit, OwnershipInit DEF Init, WorkHasFrame
<1>2. TypeOK /\ WorkHasFrame /\ OwnershipInv /\ [Next]_vars
        => (TypeOK /\ WorkHasFrame /\ OwnershipInv)'
  BY TypeStep, WorkHasFrameStep, OwnershipStep
<1>3. ASSUME TypeOK, OwnershipInv PROVE PoolSuffices
  <2>1. ASSUME active, partial_have = 0 PROVE pool # {}
    <3>1. Partition(pool, BlocksOf(queue), NoBuf, input.buf)
      BY <1>3, <2>1 DEF OwnershipInv
    <3> QED
      BY <1>3, <3>1, FreeBlockLeft DEF Partition, OwnershipInv, TypeOK
  <2>2. ASSUME active, partial_have > 0 PROVE partial # NoBuf
    BY <1>3, <2>2 DEF OwnershipInv
  <2> QED
    BY <2>1, <2>2 DEF PoolSuffices
<1> QED
  BY <1>1, <1>2, <1>3, PTL DEF Spec

-----------------------------------------------------------------------------
(***************************************************************************)
(* The matcher knows its longest match for every marker that goes on as    *)
(* from its beginning wherever its first byte recurs, and for any alphabet,*)
(* headers and bounds.                                                     *)
(*                                                                         *)
(* The argument.  Let k bytes be matched and b break the match.  A longer  *)
(* match than the one byte that Restart looks for would have j + 1 bytes,  *)
(* 0 < j < k, the last of them b.  Its first byte stands within the old    *)
(* match, so that the marker recurs there, k - j bytes from its beginning; *)
(* and so its byte j + 1 is its byte k + 1, which b is not.                *)
(***************************************************************************)

(* What is heard is a sequence, and empty while nothing is looked for.     *)
Listening ==
  /\ heard \in Seq(Bytes)
  /\ reading_header \/ streaming => marker_match = 0 /\ heard = <<>>

(* The marker is a sequence of bytes with a length. *)
LEMMA MarkerFacts ==
  /\ Size \in Nat /\ Size > 1
  /\ \A i \in 1 .. Size : Marker[i] \in Bytes
<1>1. Marker \in Seq(Bytes) /\ Size > 1
  BY MarkerAssumption
<1>2. Size \in Nat
  BY <1>1, LenProperties DEF Size
<1> QED BY <1>1, <1>2, ElementOfSeq DEF Size

(* A match of the bytes with one more is a match without it, and the byte. *)
LEMMA EndsWithAppend ==
  ASSUME NEW s \in Seq(Bytes), NEW b \in Bytes, NEW k \in Nat, k <= Len(s)
  PROVE  EndsWith(Append(s, b), k + 1) <=> EndsWith(s, k) /\ b = Marker[k + 1]
<1> DEFINE t == Append(s, b)
<1>1. Len(s) \in Nat /\ Len(t) = Len(s) + 1
  BY AppendProperties, LenProperties
<1>2. \A i \in 1 .. Len(s) : t[i] = s[i]
  BY AppendProperties
<1>3. t[Len(s) + 1] = b
  BY AppendProperties
<1>4. ASSUME EndsWith(t, k + 1) PROVE EndsWith(s, k) /\ b = Marker[k + 1]
  <2>1. \A i \in 1 .. k + 1 : t[Len(t) - (k + 1) + i] = Marker[i]
    BY <1>4 DEF EndsWith
  <2>2. b = Marker[k + 1]
    <3>1. k + 1 \in 1 .. k + 1 /\ Len(t) - (k + 1) + (k + 1) = Len(s) + 1
      BY <1>1
    <3> QED BY <3>1, <2>1, <1>3
  <2>3. ASSUME NEW i \in 1 .. k PROVE s[Len(s) - k + i] = Marker[i]
    <3>1. i \in 1 .. k + 1 /\ Len(t) - (k + 1) + i = Len(s) - k + i
      BY <1>1
    <3>2. Len(s) - k + i \in 1 .. Len(s)
      BY <1>1
    <3> QED BY <3>1, <3>2, <2>1, <1>2
  <2> QED BY <2>2, <2>3 DEF EndsWith
<1>5. ASSUME EndsWith(s, k), b = Marker[k + 1] PROVE EndsWith(t, k + 1)
  <2> SUFFICES ASSUME NEW i \in 1 .. k + 1
               PROVE  t[Len(t) - (k + 1) + i] = Marker[i]
    BY DEF EndsWith
  <2>1. Len(t) - (k + 1) + i = Len(s) - k + i
    BY <1>1
  <2>2. CASE i = k + 1
    BY <2>1, <2>2, <1>1, <1>3, <1>5
  <2>3. CASE i # k + 1
    <3>1. i \in 1 .. k /\ Len(s) - k + i \in 1 .. Len(s)
      BY <2>3, <1>1
    <3> QED BY <3>1, <2>1, <1>2, <1>5 DEF EndsWith
  <2> QED BY <2>2, <2>3
<1> QED BY <1>4, <1>5

(* Two matches that end at the same byte: the marker recurs where the      *)
(* shorter one begins, and so both go on with the same byte.               *)
LEMMA ShorterGoesOnAlike ==
  ASSUME NEW s \in Seq(Bytes), NEW j \in Nat, NEW k \in Nat,
         0 < j, j < k, k < Size, k <= Len(s),
         EndsWith(s, j), EndsWith(s, k)
  PROVE  Marker[j + 1] = Marker[k + 1]
<1> DEFINE d == k - j
<1>1. Len(s) \in Nat /\ Size \in Nat
  BY LenProperties, MarkerFacts
<1>2. s[Len(s) - j + 1] = Marker[1]
  <2>1. 1 \in 1 .. j
    OBVIOUS
  <2> QED BY <2>1 DEF EndsWith
<1>3. s[Len(s) - k + (1 + d)] = Marker[1 + d]
  <2>1. 1 + d \in 1 .. k
    OBVIOUS
  <2> QED BY <2>1 DEF EndsWith
<1>4. Len(s) - k + (1 + d) = Len(s) - j + 1
  BY <1>1
<1>5. Marker[1 + d] = Marker[1]
  BY <1>2, <1>3, <1>4
<1>6. d \in 1 .. Len(Marker) - 1 /\ j + 1 \in 1 .. Len(Marker) - d
  BY <1>1 DEF Size
<1>7. Marker[(j + 1) + d] = Marker[j + 1]
  BY <1>5, <1>6, MarkerAssumption DEF Recurs
<1>8. (j + 1) + d = k + 1
  OBVIOUS
<1> QED BY <1>7, <1>8

(* The match after a byte is the longest again. *)
LEMMA ExtendedIsLongest ==
  ASSUME NEW b \in Bytes, heard \in Seq(Bytes), MatchIsLongest
  PROVE  LET t == Append(heard, b)
             m == Extended(b)
         IN  /\ m \in 0 .. Size /\ m <= Len(t) /\ EndsWith(t, m)
             /\ \A n \in 0 .. Size : n > m /\ n <= Len(t) => ~EndsWith(t, n)
<1> DEFINE t == Append(heard, b)
           m == Extended(b)
           k == marker_match
<1>1. Size \in Nat /\ Size > 1 /\ Len(heard) \in Nat /\ Len(t) = Len(heard) + 1
  BY MarkerFacts, LenProperties, AppendProperties
<1>2. k \in 0 .. Size - 1 /\ k <= Len(heard) /\ EndsWith(heard, k)
  BY DEF MatchIsLongest
<1>3. \A n \in 0 .. Size : n > k /\ n <= Len(heard) => ~EndsWith(heard, n)
  BY DEF MatchIsLongest
<1>4. \A j \in Nat : j <= Len(heard) =>
         (EndsWith(t, j + 1) <=> EndsWith(heard, j) /\ b = Marker[j + 1])
  BY EndsWithAppend
<1>5. EndsWith(t, 0)
  BY DEF EndsWith
<1>6. EndsWith(heard, 0)
  BY DEF EndsWith
<1>7. ASSUME NEW n \in 0 .. Size, n > m, n <= Len(t), EndsWith(t, n)
      PROVE  FALSE
  <2> DEFINE j == n - 1
  <2>1. m \in Nat
    BY <1>2 DEF Extended, Restart
  <2>2. j \in Nat /\ j + 1 = n /\ j <= Len(heard) /\ j < Size
    BY <1>1, <1>7, <2>1
  <2>3. EndsWith(heard, j) /\ b = Marker[j + 1]
    BY <2>2, <1>4, <1>7
  <2>4. j <= k
    BY <2>2, <2>3, <1>2, <1>3, <1>1
  <2>5. CASE b = Marker[k + 1]
    BY <2>5, <2>4, <2>2, <1>7, <1>2 DEF Extended
  <2>6. CASE b # Marker[k + 1]
    <3>1. j # k
      BY <2>6, <2>3
    <3>2. m = Restart(b)
      BY <2>6 DEF Extended
    <3>3. j # 0
      BY <3>2, <2>3, <2>2, <1>7 DEF Restart
    <3>4. Marker[j + 1] = Marker[k + 1]
      BY <3>1, <3>3, <2>2, <2>3, <2>4, <1>1, <1>2, ShorterGoesOnAlike
    <3> QED BY <3>4, <2>3, <2>6
  <2> QED BY <2>5, <2>6
<1>8. m \in 0 .. Size /\ m <= Len(t) /\ EndsWith(t, m)
  <2>1. CASE b = Marker[k + 1]
    <3>1. m = k + 1
      BY <2>1 DEF Extended
    <3>2. EndsWith(t, k + 1)
      BY <2>1, <1>1, <1>2, <1>4
    <3> QED BY <3>1, <3>2, <1>1, <1>2
  <2>2. CASE b # Marker[k + 1] /\ b = Marker[1]
    <3>1. m = 1
      BY <2>2 DEF Extended, Restart
    <3>2. EndsWith(t, 0 + 1)
      BY <2>2, <1>1, <1>4, <1>6
    <3> QED BY <3>1, <3>2, <1>1
  <2>3. CASE b # Marker[k + 1] /\ b # Marker[1]
    <3>1. m = 0
      BY <2>3 DEF Extended, Restart
    <3> QED BY <3>1, <1>1, <1>5
  <2> QED BY <2>1, <2>2, <2>3
<1> QED BY <1>7, <1>8

(* Nothing heard, nothing matched. *)
LEMMA SilenceMatchesNothing ==
  ASSUME marker_match = 0, heard = <<>>
  PROVE  MatchIsLongest
<1>1. Len(<<>>) = 0
  OBVIOUS
<1>2. EndsWith(<<>>, 0)
  BY DEF EndsWith
<1> QED BY <1>1, <1>2, MarkerFacts DEF MatchIsLongest

(* Every step keeps both: only Scan disturbs them. *)
LEMMA MatcherStep ==
  Listening /\ MatchIsLongest /\ [MatcherNext]_matcherVars
    => Listening' /\ MatchIsLongest'
<1> SUFFICES ASSUME Listening, MatchIsLongest, [MatcherNext]_matcherVars
             PROVE  Listening' /\ MatchIsLongest'
  OBVIOUS
<1>e. <<>> \in Seq(Bytes)
  OBVIOUS
<1>1. ASSUME NEW b \in Bytes, Scan(b) PROVE Listening' /\ MatchIsLongest'
  <2> DEFINE t == Append(heard, b)
  <2>1. heard \in Seq(Bytes) /\ t \in Seq(Bytes)
    BY AppendProperties DEF Listening
  <2>2. CASE Extended(b) = Size
    <3>1. marker_match' = 0 /\ heard' = <<>>
      BY <1>1, <2>2 DEF Scan
    <3>2. MatchIsLongest'
      <4>1. Len(<<>>) = 0 /\ EndsWith(<<>>, 0)
        BY DEF EndsWith
      <4> QED BY <3>1, <4>1, MarkerFacts DEF MatchIsLongest, EndsWith
    <3> QED BY <3>1, <3>2, <1>e DEF Listening
  <2>3. CASE Extended(b) # Size
    <3>1. /\ marker_match' = Extended(b) /\ heard' = t
          /\ UNCHANGED <<reading_header, streaming>>
          /\ ~reading_header /\ ~streaming
      BY <1>1, <2>3 DEF Scan
    <3>2. /\ Extended(b) \in 0 .. Size /\ Extended(b) <= Len(t)
          /\ EndsWith(t, Extended(b))
          /\ \A n \in 0 .. Size : n > Extended(b) /\ n <= Len(t) => ~EndsWith(t, n)
      BY <2>1, ExtendedIsLongest
    <3>3. MatchIsLongest'
      <4>1. marker_match' \in 0 .. Size - 1 /\ marker_match' <= Len(heard')
        BY <3>1, <3>2, <2>3, MarkerFacts
      <4>2. EndsWith(heard', marker_match')
        BY <3>1, <3>2
      <4>3. \A n \in 0 .. Size :
               n > marker_match' /\ n <= Len(heard') => ~EndsWith(heard', n)
        BY <3>1, <3>2
      <4> QED BY <4>1, <4>2, <4>3 DEF MatchIsLongest, EndsWith
    <3> QED BY <3>1, <3>3, <2>1 DEF Listening
  <2> QED BY <2>2, <2>3
<1>2. ASSUME NEW b \in Bytes, ReadHeader(b) PROVE Listening' /\ MatchIsLongest'
  <2>1. UNCHANGED <<marker_match, heard>> /\ marker_match = 0 /\ heard = <<>>
    BY <1>2 DEF ReadHeader, Listening
  <2> QED BY <2>1 DEF Listening, MatchIsLongest, EndsWith
<1>3. CASE StreamEnds
  BY <1>3 DEF StreamEnds, Listening, MatchIsLongest, EndsWith
<1>4. CASE Disable
  <2>1. marker_match' = 0 /\ heard' = <<>>
    BY <1>4 DEF Disable
  <2>2. Len(<<>>) = 0 /\ EndsWith(<<>>, 0)
    BY DEF EndsWith
  <2> QED BY <2>1, <2>2, <1>e, MarkerFacts DEF Listening, MatchIsLongest, EndsWith
<1>5. CASE FinishRun
  BY <1>5 DEF FinishRun, Listening, MatchIsLongest, EndsWith
<1>6. CASE UNCHANGED matcherVars
  BY <1>6 DEF matcherVars, Listening, MatchIsLongest, EndsWith
<1> QED BY <1>1, <1>2, <1>3, <1>4, <1>5, <1>6 DEF MatcherNext

(* No beginning of a marker is overlooked, in any stream of bytes: looking *)
(* at the byte that breaks a match once more is enough, for the endpoint's *)
(* marker and every other that repeats itself as it does.                  *)
THEOREM MarkerIsNeverMissed == MatcherSpec => []MatchIsLongest
<1>1. MatcherInit => Listening /\ MatchIsLongest
  <2> SUFFICES ASSUME MatcherInit PROVE Listening /\ MatchIsLongest
    OBVIOUS
  <2>1. <<>> \in Seq(Bytes)
    OBVIOUS
  <2> QED BY <2>1, SilenceMatchesNothing DEF MatcherInit, Listening
<1> QED BY <1>1, MatcherStep, PTL DEF MatcherSpec

-----------------------------------------------------------------------------
(* The frames: cut at the right bytes, counted, kept in order, delivered   *)
(* as PcmFeed promises.                                                    *)

(* The handshake of the run: main is in the run it copied, the command that *)
(* waits for it is owned, and the endpoint takes PCM only for an owned run. *)
RunInv ==
  /\ InRun => run_owned /\ ~run_ready /\ cur = run
  /\ ~InRun => (run_ready <=> run_owned)
  /\ run_owned => generation > 0 /\ run.frames \in FrameCounts
  /\ ~run_owned => queue = <<>> /\ ~active

(* A run never gets more frames than its length, and one that lost its     *)
(* host never gets all of them.                                            *)
ProducedInv ==
  /\ run_owned => produced <= Target(run)
  /\ active => produced < Target(run)
  /\ run_owned /\ stats.disconnects > 0 => ~active /\ produced < Target(run)

Working == {"get", "blocked", "work", "reset"}
InWork == IF pc = "work" THEN 1 ELSE 0

(* Every frame completed is lost, queued, or was main's; main gives up on  *)
(* frames only on the way out of the run.                                  *)
CountInv ==
  /\ run_ready => Len(queue) + stats.overflows = produced
  /\ pc \in Working => index + InWork + Len(queue) + stats.overflows = produced
  /\ pc \in {"drain", "finish"} => index + Len(queue) + stats.overflows <= produced

(* While none is lost, the queue holds the last frames completed, and main *)
(* works on the one its index says.                                        *)
Contiguous(q, made) ==
  \A i \in DOMAIN q : q[i].sequence = made - Len(q) + i - 1

OrderInv ==
  stats.overflows = 0 /\ run_owned =>
    /\ Contiguous(queue, produced)
    /\ pc = "work" => input.sequence = index
    /\ InRun => sequence_errors = 0

(* Main has not consumed the whole run before it leaves the loop, and a    *)
(* timeout leaves it early.                                                *)
LoopInv ==
  /\ pc \in Working => index < Target(cur) /\ ~timeout
  /\ pc \in {"drain", "finish"} => (timeout => index < Target(cur))

FrameInv ==
  /\ RunInv /\ ProducedInv /\ CountInv /\ OrderInv /\ LoopInv
  /\ ByteAlignment /\ CompleteRunIsClean

-----------------------------------------------------------------------------
(* The three things that can become of a frame that a packet completes. *)
Lost ==
  /\ Len(queue) = QueueSize /\ pc # "blocked"
  /\ stats'.overflows = stats.overflows + 1
  /\ UNCHANGED <<queue, input, pc>>
HandedOver ==
  /\ pc = "blocked" /\ pc' = "work" /\ queue = <<>> /\ queue' = <<>>
  /\ input' = Completed /\ stats'.overflows = stats.overflows
Put ==
  /\ pc # "blocked" /\ Len(queue) < QueueSize
  /\ queue' = Append(queue, Completed)
  /\ stats'.overflows = stats.overflows /\ UNCHANGED <<input, pc>>

(* The variables these proofs are about, with the types they need.         *)
LEMMA FrameTypes ==
  ASSUME TypeOK
  PROVE  /\ queue \in Seq(Frame) /\ Len(queue) \in Nat
         /\ queue = <<>> <=> Len(queue) = 0
         /\ produced \in Nat /\ index \in Nat
         /\ stats.overflows \in Nat /\ stats.disconnects \in Nat
         /\ Target(run) \in Nat /\ Target(cur) \in Nat
         /\ generation \in Nat /\ pc \in Places
<1>1. queue \in Seq(Frame) /\ stats \in Stats
  BY DEF TypeOK
<1>2. Len(queue) \in Nat /\ (queue = <<>> <=> Len(queue) = 0)
  BY <1>1, LenProperties, EmptySeq
<1>3. stats.overflows \in Nat /\ stats.disconnects \in Nat
  BY <1>1 DEF Stats
<1>4. Target(run) \in Nat /\ Target(cur) \in Nat
  <2>1. run.frames \in FrameCounts \cup {0} /\ cur.frames \in FrameCounts \cup {0}
    BY DEF TypeOK, Run
  <2>2. FrameCounts \cup {0} \subseteq Nat /\ Warmup \in Nat
    BY SizeAssumption
  <2>3. run.frames \in Nat /\ cur.frames \in Nat
    BY <2>1, <2>2
  <2> QED
    BY <2>2, <2>3 DEF Target
<1> QED
  BY <1>1, <1>2, <1>3, <1>4 DEF TypeOK

(* A frame under way has a block, so only a full queue loses one.          *)
LEMMA LastFrameEffects ==
  ASSUME TypeOK, OwnershipInv, NEW k \in PacketUnits, ReceiveLast(k)
  PROVE  /\ active /\ produced' = produced + 1 /\ (active' <=> ~LastFrame)
         /\ stats'.disconnects = stats.disconnects
         /\ Lost \/ HandedOver \/ Put
         /\ UNCHANGED <<runVars, mainVars>>
<1> DEFINE rest == partial_have + k - FrameUnits
<1>1. partial # NoBuf
  <2>1. partial_have # 0 /\ active
    BY PacketSize DEF ReceiveLast, TypeOK
  <2> QED
    BY <2>1 DEF OwnershipInv
<1>2. IF QueueFull THEN DropFrame ELSE PutFrame
  BY <1>1 DEF ReceiveLast
<1>3. /\ stats'.disconnects = stats.disconnects
      /\ stats'.overflows = IF QueueFull THEN stats.overflows + 1 ELSE stats.overflows
  BY <1>2 DEF DropFrame, PutFrame, TypeOK, Stats
<1>4. CASE QueueFull
  BY <1>2, <1>3, <1>4 DEF DropFrame, QueueFull, Lost, ReceiveLast
<1>5. CASE ~QueueFull /\ pc = "blocked"
  BY <1>2, <1>3, <1>5 DEF PutFrame, OwnershipInv, HandedOver, ReceiveLast
<1>6. CASE ~QueueFull /\ pc # "blocked"
  <2>1. Len(queue) < QueueSize
    BY <1>6, FrameTypes, PoolAssumption DEF QueueFull, OwnershipInv
  <2> QED
    BY <1>2, <1>3, <1>6, <2>1 DEF PutFrame, Put, ReceiveLast
<1> QED
  BY <1>4, <1>5, <1>6

(* The length of the queue in each of them. *)
LEMMA LastFrameLength ==
  ASSUME TypeOK, partial # NoBuf
  PROVE  /\ Lost => Len(queue') = Len(queue)
         /\ HandedOver => Len(queue') = Len(queue) /\ Len(queue) = 0
         /\ Put => Len(queue') = Len(queue) + 1
BY FrameTypes, CompletedType, AppendProperties DEF Lost, HandedOver, Put

(* The stream of bytes: a run's first frame starts with its first byte and *)
(* each next one where the last ended.                                     *)
LEMMA AlignmentStep ==
  ASSUME TypeOK, ByteAlignment, [Next]_vars
  PROVE  ByteAlignment'
<1>0. /\ FrameUnits \in Nat /\ produced \in Nat /\ partial_have \in Nat
      /\ received \in Nat
  BY SizeAssumption DEF TypeOK
<1> USE DEF ByteAlignment
<1>1. ASSUME NEW frames \in FrameCounts, NEW k \in {0} \cup PacketUnits,
             ReceiveCommand(frames, k)
      PROVE  ByteAlignment'
  <2>1. k \in Nat /\ 0 * FrameUnits = 0
    BY <1>0, PacketSize
  <2> QED
    BY <1>1, <2>1 DEF ReceiveCommand, ResetAssembly
<1>2. ASSUME NEW k \in PacketUnits, ReceivePart(k) PROVE ByteAlignment'
  <2>1. k \in Nat /\ produced * FrameUnits \in Nat
    BY <1>0, PacketSize
  <2>2. received = produced * FrameUnits + partial_have
    BY <1>2 DEF ReceivePart
  <2>3. received' = produced * FrameUnits + partial_have'
    BY <1>0, <1>2, <2>1, <2>2 DEF ReceivePart
  <2> QED
    BY <1>2, <2>3 DEF ReceivePart
<1>3. ASSUME NEW k \in PacketUnits, ReceiveLast(k) PROVE ByteAlignment'
  <2> DEFINE rest == partial_have + k - FrameUnits
             whole == produced * FrameUnits
  <2>1. k \in Nat /\ whole \in Nat /\ (produced + 1) * FrameUnits = whole + FrameUnits
    BY <1>0, PacketSize
  <2>2. received = whole + partial_have
    BY <1>3 DEF ReceiveLast
  <2> HIDE DEF whole
  <2>3. ASSUME ~LastFrame
        PROVE  received' = whole + FrameUnits + partial_have'
    <3>1. CASE rest = 0
      BY <1>0, <1>3, <2>1, <2>2, <2>3, <3>1 DEF ReceiveLast
    <3>2. CASE rest # 0
      BY <1>0, <1>3, <2>1, <2>2, <2>3, <3>2 DEF ReceiveLast
    <3> QED
      BY <3>1, <3>2
  <2>4. produced' = produced + 1 /\ active' = ~LastFrame
    BY <1>3 DEF ReceiveLast
  <2> QED
    BY <2>1, <2>3, <2>4
<1>4. CASE TerminalDisabled \/ TerminalEnabled \/ UNCHANGED vars
  BY <1>4 DEF TerminalDisabled, TerminalEnabled, vars
<1>5. CASE WaitRun \/ Get \/ Block \/ GetTimeout \/ Work
  BY <1>5 DEF WaitRun, Get, Block, GetTimeout, Work
<1>6. CASE WorkFails \/ Reset \/ Drain \/ Finish \/ SendEnd
  BY <1>6 DEF WorkFails, Reset, Drain, Finish, SendEnd
<1> QED
  BY <1>1, <1>2, <1>3, <1>4, <1>5, <1>6 DEF Next, UsbStep, MainStep

(* PCM frames start at multiples of a frame after their run's command,     *)
(* whatever an earlier run left half filled.                               *)
THEOREM UsbByteAlignment == Spec => []ByteAlignment
<1>1. Init => TypeOK /\ WorkHasFrame /\ ByteAlignment
  BY TypeInit DEF Init, WorkHasFrame, ByteAlignment
<1>2. TypeOK /\ WorkHasFrame /\ ByteAlignment /\ [Next]_vars
        => (TypeOK /\ WorkHasFrame /\ ByteAlignment)'
  BY TypeStep, WorkHasFrameStep, AlignmentStep
<1> QED
  BY <1>1, <1>2, PTL DEF Spec

-----------------------------------------------------------------------------
(* The handshake between the endpoint and main. *)
LEMMA RunStep ==
  ASSUME TypeOK, OwnershipInv, RunInv, [Next]_vars
  PROVE  RunInv'
<1> USE DEF RunInv, InRun
<1>0. pc \in Places /\ generation \in Nat
  BY FrameTypes
<1>1. ASSUME NEW frames \in FrameCounts, NEW k \in {0} \cup PacketUnits,
             ReceiveCommand(frames, k)
      PROVE  RunInv'
  BY <1>0, <1>1 DEF ReceiveCommand, EndpointFree
<1>2. ASSUME NEW k \in PacketUnits, ReceivePart(k) PROVE RunInv'
  BY <1>2 DEF ReceivePart
<1>3. ASSUME NEW k \in PacketUnits, ReceiveLast(k) PROVE RunInv'
  <2>1. run_owned /\ UNCHANGED <<runVars, cur>>
    BY <1>3, LastFrameEffects
  <2>2. InRun' <=> InRun
    BY <1>3, LastFrameEffects DEF Lost, HandedOver, Put
  <2> QED
    BY <2>1, <2>2
<1>4. CASE TerminalDisabled \/ TerminalEnabled \/ UNCHANGED vars
  BY <1>4 DEF TerminalDisabled, TerminalEnabled, vars
<1>5. CASE WaitRun
  BY <1>5 DEF WaitRun
<1>6. CASE Get \/ Block \/ GetTimeout \/ Reset \/ Drain
  BY <1>6 DEF Get, Block, GetTimeout, Reset, Drain
<1>7. CASE Work \/ WorkFails
  BY <1>7 DEF Work, WorkFails
<1>8. CASE Finish \/ SendEnd
  BY <1>8 DEF Finish, EmptyQueue, SendEnd
<1> QED
  BY <1>1, <1>2, <1>3, <1>4, <1>5, <1>6, <1>7, <1>8
  DEF Next, UsbStep, MainStep

(* How many frames a run gets. *)
LEMMA ProducedStep ==
  ASSUME TypeOK, OwnershipInv, RunInv, ProducedInv, [Next]_vars
  PROVE  ProducedInv'
<1> USE DEF ProducedInv
<1>0. /\ produced \in Nat /\ Target(run) \in Nat /\ stats.disconnects \in Nat
      /\ stats \in Stats /\ Warmup \in Nat /\ FrameCounts \subseteq Nat \ {0}
  BY FrameTypes, SizeAssumption DEF TypeOK
<1>1. ASSUME NEW frames \in FrameCounts, NEW k \in {0} \cup PacketUnits,
             ReceiveCommand(frames, k)
      PROVE  ProducedInv'
  BY <1>0, <1>1 DEF ReceiveCommand, ZeroStats, Target
<1>2. ASSUME NEW k \in PacketUnits, ReceivePart(k) PROVE ProducedInv'
  BY <1>2 DEF ReceivePart
<1>3. ASSUME NEW k \in PacketUnits, ReceiveLast(k) PROVE ProducedInv'
  <2>1. /\ active /\ produced' = produced + 1 /\ (active' <=> ~LastFrame)
        /\ stats'.disconnects = stats.disconnects /\ UNCHANGED <<run, run_owned>>
    BY <1>3, LastFrameEffects
  <2> QED
    BY <1>0, <2>1 DEF LastFrame, Target, RunInv
<1>4. CASE TerminalDisabled
  <2>1. /\ active' = FALSE /\ UNCHANGED <<run, run_owned, produced>>
        /\ stats'.disconnects = IF active THEN stats.disconnects + 1
                                          ELSE stats.disconnects
    BY <1>0, <1>4 DEF TerminalDisabled, Stats
  <2> QED
    BY <1>0, <2>1 DEF Target
<1>5. CASE TerminalEnabled \/ UNCHANGED vars
  BY <1>5 DEF TerminalEnabled, vars
<1>6. CASE WaitRun \/ Get \/ Block \/ GetTimeout \/ Work
  BY <1>6 DEF WaitRun, Get, Block, GetTimeout, Work
<1>7. CASE WorkFails \/ Reset \/ Drain \/ Finish \/ SendEnd
  BY <1>7 DEF WorkFails, Reset, Drain, Finish, SendEnd
<1> QED
  BY <1>1, <1>2, <1>3, <1>4, <1>5, <1>6, <1>7 DEF Next, UsbStep, MainStep

(* The account of the frames a run completed. *)
LEMMA CountStep ==
  ASSUME TypeOK, OwnershipInv, RunInv, CountInv, [Next]_vars
  PROVE  CountInv'
<1> USE DEF CountInv, Working, InWork
<1>0. /\ queue \in Seq(Frame) /\ Len(queue) \in Nat
      /\ queue = <<>> <=> Len(queue) = 0
      /\ produced \in Nat /\ index \in Nat /\ stats \in Stats
      /\ stats.overflows \in Nat
  BY FrameTypes DEF TypeOK
<1>1. ASSUME NEW frames \in FrameCounts, NEW k \in {0} \cup PacketUnits,
             ReceiveCommand(frames, k)
      PROVE  CountInv'
  <2>1. /\ UNCHANGED <<queue, pc>> /\ stats'.overflows = 0 /\ produced' = 0
        /\ Len(queue) = 0 /\ ~InRun
    BY <1>0, <1>1 DEF ReceiveCommand, EndpointFree, RunInv, ZeroStats
  <2> QED
    BY <2>1 DEF InRun
<1>2. ASSUME NEW k \in PacketUnits, ReceivePart(k) PROVE CountInv'
  BY <1>2 DEF ReceivePart
<1>3. ASSUME NEW k \in PacketUnits, ReceiveLast(k) PROVE CountInv'
  <2>1. /\ produced' = produced + 1 /\ UNCHANGED <<index, run_ready>>
        /\ Lost \/ HandedOver \/ Put
    BY <1>3, LastFrameEffects
  <2>2. partial # NoBuf
    BY <1>3, PacketSize DEF ReceiveLast, TypeOK, OwnershipInv
  <2>3. CASE Lost
    BY <1>0, <2>1, <2>2, <2>3, LastFrameLength DEF Lost
  <2>4. CASE HandedOver
    BY <1>0, <2>1, <2>2, <2>4, LastFrameLength DEF HandedOver, RunInv, InRun
  <2>5. CASE Put
    <3>1. /\ Len(queue') = Len(queue) + 1 /\ pc' = pc
          /\ stats'.overflows = stats.overflows
      BY <2>2, <2>5, LastFrameLength DEF Put
    <3> QED
      BY <1>0, <2>1, <3>1
  <2> QED
    BY <2>1, <2>3, <2>4, <2>5
<1>4. CASE TerminalDisabled
  <2>1. stats'.overflows = stats.overflows
    BY <1>0, <1>4 DEF TerminalDisabled, Stats
  <2> QED
    BY <1>4, <2>1 DEF TerminalDisabled
<1>5. CASE TerminalEnabled \/ UNCHANGED vars
  BY <1>5 DEF TerminalEnabled, vars
<1>6. CASE WaitRun
  BY <1>0, <1>6 DEF WaitRun
<1>7. CASE Get
  <2>1. Len(queue') = Len(queue) - 1
    BY <1>0, <1>7, HeadTailProperties DEF Get
  <2> QED
    BY <1>0, <1>7, <2>1 DEF Get, RunInv, InRun
<1>8. CASE Block \/ GetTimeout \/ Reset \/ Drain \/ SendEnd
  BY <1>0, <1>8 DEF Block, GetTimeout, Reset, Drain, SendEnd
<1>9. CASE Work \/ WorkFails
  BY <1>0, <1>9 DEF Work, WorkFails
<1>10. CASE Finish
  BY <1>10 DEF Finish, RunInv, InRun
<1> QED
  BY <1>1, <1>2, <1>3, <1>4, <1>5, <1>6, <1>7, <1>8, <1>9, <1>10
  DEF Next, UsbStep, MainStep

-----------------------------------------------------------------------------
(* Frames put and taken keep the queue's sequence numbers contiguous. *)
LEMMA ContiguousQueues ==
  ASSUME NEW q \in Seq(Frame), NEW made \in Nat, Contiguous(q, made)
  PROVE  /\ \A f \in Frame : f.sequence = made => Contiguous(Append(q, f), made + 1)
         /\ q # <<>> => /\ Head(q).sequence = made - Len(q)
                        /\ Contiguous(Tail(q), made)
<1> DEFINE n == Len(q)
<1>1. n \in Nat /\ DOMAIN q = 1 .. n
  BY LenProperties
<1>2. ASSUME NEW f \in Frame, f.sequence = made
      PROVE  Contiguous(Append(q, f), made + 1)
  <2> DEFINE a == Append(q, f)
  <2>1. a \in Seq(Frame) /\ Len(a) = n + 1
        /\ a[n + 1] = f /\ \A i \in 1 .. n : a[i] = q[i]
    BY AppendProperties
  <2>2. DOMAIN a = 1 .. (n + 1)
    BY <2>1, LenProperties
  <2> HIDE DEF a
  <2> SUFFICES ASSUME NEW i \in 1 .. (n + 1)
               PROVE  a[i].sequence = (made + 1) - (n + 1) + i - 1
    BY <2>1, <2>2 DEF Contiguous, a
  <2>3. CASE i = n + 1
    <3>1. a[i].sequence = made
      BY <1>2, <2>1, <2>3
    <3> HIDE DEF n
    <3> QED
      BY <1>1, <2>3, <3>1
  <2>4. CASE i # n + 1
    <3>1. i \in 1 .. n
      BY <1>1, <2>4
    <3>2. a[i].sequence = made - n + i - 1
      BY <1>1, <2>1, <3>1 DEF Contiguous
    <3> HIDE DEF n
    <3> QED
      BY <1>1, <3>1, <3>2
  <2> QED
    BY <2>3, <2>4
<1>3. ASSUME q # <<>>
      PROVE  Head(q).sequence = made - n /\ Contiguous(Tail(q), made)
  <2> DEFINE t == Tail(q)
  <2>1. /\ t \in Seq(Frame) /\ Len(t) = n - 1 /\ Len(t) \in Nat
        /\ \A i \in 1 .. (n - 1) : t[i] = q[i + 1]
        /\ Head(q) = q[1]
    BY <1>3, HeadTailProperties, LenProperties
  <2>2. DOMAIN t = 1 .. (n - 1)
    BY <2>1, LenProperties
  <2>3. 1 \in 1 .. n
    BY <1>1, <2>1
  <2>4. q[1].sequence = made - n + 1 - 1
    BY <1>1, <2>3 DEF Contiguous
  <2>5. Head(q).sequence = made - n
    <3> HIDE DEF n
    <3> QED
      BY <1>1, <2>1, <2>4
  <2> HIDE DEF t
  <2>6. ASSUME NEW i \in 1 .. (n - 1)
        PROVE  t[i].sequence = made - (n - 1) + i - 1
    <3>1. i + 1 \in 1 .. n /\ t[i] = q[i + 1]
      BY <1>1, <2>1
    <3>2. q[i + 1].sequence = made - n + (i + 1) - 1
      BY <1>1, <3>1 DEF Contiguous
    <3>3. t[i].sequence = made - n + (i + 1) - 1
      BY <3>1, <3>2
    <3> HIDE DEF n
    <3> QED
      BY <1>1, <3>1, <3>3
  <2>7. Contiguous(t, made)
    BY <2>1, <2>2, <2>6 DEF Contiguous
  <2> QED
    BY <2>5, <2>7 DEF t
<1> QED
  BY <1>2, <1>3

(* The order of the frames, as long as none is lost. *)
LEMMA OrderStep ==
  ASSUME TypeOK, WorkHasFrame, OwnershipInv, RunInv, CountInv, OrderInv, [Next]_vars
  PROVE  OrderInv'
<1> USE DEF OrderInv
<1>0. /\ queue \in Seq(Frame) /\ Len(queue) \in Nat
      /\ queue = <<>> <=> Len(queue) = 0
      /\ produced \in Nat /\ index \in Nat /\ stats \in Stats
      /\ stats.overflows \in Nat
      /\ Contiguous(<<>>, produced')
  BY FrameTypes DEF TypeOK, Contiguous
<1>1. ASSUME NEW frames \in FrameCounts, NEW k \in {0} \cup PacketUnits,
             ReceiveCommand(frames, k)
      PROVE  OrderInv'
  <2>1. queue' = <<>> /\ pc' = pc /\ ~InRun /\ pc # "work"
    BY <1>1 DEF ReceiveCommand, EndpointFree, RunInv, InRun
  <2> QED
    BY <1>0, <2>1 DEF InRun
<1>2. ASSUME NEW k \in PacketUnits, ReceivePart(k) PROVE OrderInv'
  BY <1>2 DEF ReceivePart, InRun
<1>3. ASSUME NEW k \in PacketUnits, ReceiveLast(k) PROVE OrderInv'
  <2>1. /\ produced' = produced + 1
        /\ UNCHANGED <<index, sequence_errors, generation, run_owned>>
        /\ Lost \/ HandedOver \/ Put
    BY <1>3, LastFrameEffects
  <2>2. partial # NoBuf
    BY <1>3, PacketSize DEF ReceiveLast, TypeOK, OwnershipInv
  <2>3. Completed \in Frame /\ Completed.sequence = produced
    BY <2>2, CompletedType DEF Completed
  <2> SUFFICES ASSUME stats'.overflows = 0, run_owned
               PROVE  OrderInv'
    BY <2>1
  <2>4. CASE Lost
    BY <1>0, <2>4 DEF Lost
  <2>5. CASE HandedOver
    <3>1. stats.overflows = 0 /\ produced = index /\ input'.sequence = index'
      BY <1>0, <2>1, <2>3, <2>5 DEF HandedOver, CountInv, Working, InWork
    <3>2. queue' = <<>> /\ InRun
      BY <2>5 DEF HandedOver, InRun
    <3> QED
      BY <1>0, <2>1, <3>1, <3>2
  <2>6. CASE Put
    <3>1. /\ stats.overflows = 0 /\ queue' = Append(queue, Completed)
          /\ UNCHANGED <<input, pc>>
      BY <2>6 DEF Put
    <3>2. Contiguous(queue', produced')
      BY <1>0, <2>1, <2>3, <3>1, ContiguousQueues
    <3> QED
      BY <2>1, <3>1, <3>2 DEF InRun
  <2> QED
    BY <2>1, <2>4, <2>5, <2>6
<1>4. CASE TerminalDisabled
  <2>1. stats'.overflows = stats.overflows
    BY <1>0, <1>4 DEF TerminalDisabled, Stats
  <2> QED
    BY <1>4, <2>1 DEF TerminalDisabled, InRun
<1>5. CASE TerminalEnabled \/ UNCHANGED vars
  BY <1>5 DEF TerminalEnabled, vars, InRun
<1>6. CASE WaitRun
  BY <1>6 DEF WaitRun
<1>7. CASE Get
  <2> SUFFICES ASSUME stats.overflows = 0, run_owned PROVE OrderInv'
    BY <1>7 DEF Get
  <2>1. Head(queue).sequence = produced - Len(queue) /\ Contiguous(Tail(queue), produced)
    BY <1>0, <1>7, ContiguousQueues DEF Get
  <2>2. index + Len(queue) = produced
    BY <1>0, <1>7 DEF Get, CountInv, Working, InWork
  <2>3. Head(queue).sequence = index
    BY <1>0, <2>1, <2>2
  <2> QED
    BY <1>7, <2>1, <2>3 DEF Get, InRun
<1>8. CASE Block \/ GetTimeout \/ Reset \/ Drain \/ SendEnd
  BY <1>8 DEF Block, GetTimeout, Reset, Drain, SendEnd, InRun
<1>9. CASE Work \/ WorkFails
  <2>1. pc' # "work" /\ UNCHANGED <<queue, produced, stats, run_owned>> /\ InRun
    BY <1>9 DEF Work, WorkFails, InRun
  <2>2. input.sequence = index => sequence_errors' = sequence_errors + 0
    BY <1>9 DEF Work, WorkFails, CheckSequence
  <2> QED
    BY <1>9, <2>1, <2>2 DEF Work, WorkFails
<1>10. CASE Finish
  BY <1>10 DEF Finish
<1> QED
  BY <1>1, <1>2, <1>3, <1>4, <1>5, <1>6, <1>7, <1>8, <1>9, <1>10
  DEF Next, UsbStep, MainStep

(* Where main is in the run and how far it got. *)
LEMMA LoopStep ==
  ASSUME TypeOK, OwnershipInv, RunInv, LoopInv, [Next]_vars
  PROVE  LoopInv'
<1> USE DEF LoopInv, Working
<1>0. /\ index \in Nat /\ Target(cur) \in Nat /\ Warmup \in Nat
      /\ run_owned => Target(run) > Warmup
  <2>1. ASSUME run_owned PROVE Target(run) > Warmup
    <3>1. run.frames \in Nat \ {0} /\ Warmup \in Nat
      BY <2>1, SizeAssumption DEF RunInv
    <3> QED
      BY <3>1 DEF Target
  <2> QED
    BY <2>1, FrameTypes, SizeAssumption
<1>1. ASSUME UNCHANGED <<pc, mainVars>> PROVE LoopInv'
  BY <1>1 DEF Target
<1>2. ASSUME NEW frames \in FrameCounts, NEW k \in {0} \cup PacketUnits,
             ReceiveCommand(frames, k)
      PROVE  LoopInv'
  BY <1>1, <1>2 DEF ReceiveCommand
<1>3. ASSUME NEW k \in PacketUnits, ReceivePart(k) PROVE LoopInv'
  BY <1>1, <1>3 DEF ReceivePart
<1>4. ASSUME NEW k \in PacketUnits, ReceiveLast(k) PROVE LoopInv'
  <2>1. UNCHANGED mainVars /\ (Lost \/ HandedOver \/ Put)
    BY <1>4, LastFrameEffects
  <2> QED
    BY <2>1 DEF Lost, HandedOver, Put, Target
<1>5. CASE TerminalDisabled \/ TerminalEnabled \/ UNCHANGED vars
  BY <1>1, <1>5 DEF TerminalDisabled, TerminalEnabled, vars
<1>6. CASE WaitRun
  <2>1. run_owned
    BY <1>6 DEF WaitRun, RunInv, InRun
  <2>2. 0 < Target(run)
    <3> HIDE DEF LoopInv
    <3>1. run.frames \in Nat /\ Target(run) \in Nat
      BY FrameTypes, <2>1, SizeAssumption DEF RunInv
    <3> QED
      BY <1>0, <2>1, <3>1
  <2> QED
    BY <1>6, <2>2 DEF WaitRun, Target
<1>7. CASE Get \/ Block \/ GetTimeout \/ Reset \/ Drain \/ SendEnd \/ Finish
  BY <1>7 DEF Get, Block, GetTimeout, Reset, Drain, SendEnd, Finish, Target
<1>8. CASE Work
  <2>1. /\ index' = index + 1 /\ cur' = cur /\ timeout' = FALSE
        /\ cur = run /\ run_owned /\ index < Target(cur)
    BY <1>8 DEF Work, RunInv, InRun
  <2>2. Target(cur) > Warmup /\ Target(cur)' = Target(cur)
    BY <1>0, <2>1 DEF Target
  <2>3. CASE index + 1 = Warmup
    BY <1>0, <1>8, <2>1, <2>2, <2>3 DEF Work
  <2>4. CASE index + 1 # Warmup /\ index + 1 = Target(cur)
    BY <1>8, <2>1, <2>4 DEF Work
  <2>5. CASE index + 1 # Warmup /\ index + 1 # Target(cur)
    BY <1>0, <1>8, <2>1, <2>2, <2>5 DEF Work
  <2> QED
    BY <2>3, <2>4, <2>5
<1>9. CASE WorkFails
  BY <1>9 DEF WorkFails, Target
<1> QED
  BY <1>2, <1>3, <1>4, <1>5, <1>6, <1>7, <1>8, <1>9 DEF Next, UsbStep, MainStep

(* What usb_pcm_finish finds, when main has consumed the whole run, is     *)
(* what the report tells.                                                  *)
LEMMA CleanStep ==
  ASSUME TypeOK, OwnershipInv, RunInv, ProducedInv, CountInv, OrderInv, LoopInv,
         CompleteRunIsClean, [Next]_vars
  PROVE  CompleteRunIsClean'
<1> USE DEF CompleteRunIsClean
<1>1. ASSUME UNCHANGED <<pc, mainVars>> PROVE CompleteRunIsClean'
  BY <1>1 DEF Target
<1>2. ASSUME NEW frames \in FrameCounts, NEW k \in {0} \cup PacketUnits,
             ReceiveCommand(frames, k)
      PROVE  CompleteRunIsClean'
  BY <1>1, <1>2 DEF ReceiveCommand
<1>3. ASSUME NEW k \in PacketUnits, ReceivePart(k) PROVE CompleteRunIsClean'
  BY <1>1, <1>3 DEF ReceivePart
<1>4. ASSUME NEW k \in PacketUnits, ReceiveLast(k) PROVE CompleteRunIsClean'
  <2>1. UNCHANGED mainVars /\ (Lost \/ HandedOver \/ Put)
    BY <1>4, LastFrameEffects
  <2> QED
    BY <1>1, <2>1 DEF Lost, HandedOver, Put
<1>5. CASE TerminalDisabled \/ TerminalEnabled \/ UNCHANGED vars
  BY <1>1, <1>5 DEF TerminalDisabled, TerminalEnabled, vars
<1>6. CASE WaitRun \/ Get \/ Block \/ GetTimeout
  BY <1>6 DEF WaitRun, Get, Block, GetTimeout
<1>7. CASE Work \/ WorkFails \/ Reset \/ Drain \/ SendEnd
  BY <1>7 DEF Work, WorkFails, Reset, Drain, SendEnd
<1>8. CASE Finish
  <2> SUFFICES ASSUME index = Target(cur)
               PROVE  /\ stats.overflows = 0 /\ stats.disconnects = 0
                      /\ sequence_errors = 0 /\ ~timeout
    BY <1>8 DEF Finish, Target
  <2>1. /\ run_owned /\ cur = run /\ pc = "finish" /\ InRun
    BY <1>8 DEF Finish, RunInv, InRun
  <2>2. /\ Len(queue) \in Nat /\ stats.overflows \in Nat /\ index \in Nat
        /\ produced \in Nat /\ stats.disconnects \in Nat
    BY FrameTypes
  <2>3. index + Len(queue) + stats.overflows <= produced /\ produced <= index
    BY <2>1 DEF CountInv, ProducedInv
  <2>4. stats.overflows = 0 /\ produced = index
    BY <2>2, <2>3
  <2>5. stats.disconnects = 0
    BY <2>1, <2>2, <2>4 DEF ProducedInv
  <2>6. sequence_errors = 0
    BY <2>1, <2>4 DEF OrderInv
  <2>7. ~timeout
    BY <2>1, <2>2 DEF LoopInv
  <2> QED
    BY <2>4, <2>5, <2>6, <2>7
<1> QED
  BY <1>2, <1>3, <1>4, <1>5, <1>6, <1>7, <1>8 DEF Next, UsbStep, MainStep

(* All of it together is inductive, and holds at first. *)
UsbInv == TypeOK /\ WorkHasFrame /\ OwnershipInv /\ FrameInv

(* What the theorems of this module rest on. *)
LEMMA UsbInduction ==
  /\ Init => UsbInv
  /\ UsbInv /\ [Next]_vars => UsbInv'
<1>1. Init => UsbInv
  <2> SUFFICES ASSUME Init PROVE UsbInv
    OBVIOUS
  <2>1. TypeOK /\ WorkHasFrame /\ OwnershipInv
    BY TypeInit, OwnershipInit DEF Init, WorkHasFrame
  <2>2. RunInv /\ ProducedInv /\ CountInv /\ LoopInv
    BY DEF Init, RunInv, ProducedInv, CountInv, LoopInv, InRun, Working, ZeroStats
  <2>3. OrderInv /\ ByteAlignment /\ CompleteRunIsClean
    BY DEF Init, OrderInv, ByteAlignment, CompleteRunIsClean
  <2> QED
    BY <2>1, <2>2, <2>3 DEF UsbInv, FrameInv
<1>2. UsbInv /\ [Next]_vars => UsbInv'
  <2> SUFFICES ASSUME UsbInv, [Next]_vars PROVE UsbInv'
    OBVIOUS
  <2>1. TypeOK' /\ WorkHasFrame' /\ OwnershipInv'
    BY TypeStep, WorkHasFrameStep, OwnershipStep DEF UsbInv
  <2>2. RunInv' /\ ProducedInv' /\ CountInv' /\ LoopInv'
    BY RunStep, ProducedStep, CountStep, LoopStep DEF UsbInv, FrameInv
  <2>3. OrderInv' /\ ByteAlignment' /\ CompleteRunIsClean'
    BY OrderStep, AlignmentStep, CleanStep DEF UsbInv, FrameInv
  <2> QED
    BY <2>1, <2>2, <2>3 DEF UsbInv, FrameInv
<1> QED
  BY <1>1, <1>2

(* A run whose report says that every frame was consumed lost none to an   *)
(* overflow, had no gap, no disconnect and no timeout.                     *)
THEOREM UsbCompleteRunIsClean == Spec => []CompleteRunIsClean
<1>1. UsbInv => CompleteRunIsClean
  BY DEF UsbInv, FrameInv
<1> QED
  BY UsbInduction, <1>1, PTL DEF Spec

-----------------------------------------------------------------------------
(* The sequence numbers of the frames in a queue. *)
SequencesOf(q) == [i \in DOMAIN q |-> q[i].sequence]

(* A frame put or taken puts or takes its number. *)
LEMMA SequencesOfQueues ==
  ASSUME NEW q \in Seq(Frame)
  PROVE  /\ SequencesOf(q) \in Seq(Nat) /\ Len(SequencesOf(q)) = Len(q)
         /\ \A f \in Frame : SequencesOf(Append(q, f))
                               = Append(SequencesOf(q), f.sequence)
         /\ q # <<>> => SequencesOf(q)
                          = <<Head(q).sequence>> \o SequencesOf(Tail(q))
<1> DEFINE n == Len(q)
           s == SequencesOf(q)
<1>1. n \in Nat /\ DOMAIN q = 1 .. n /\ \A i \in 1 .. n : q[i] \in Frame
  BY LenProperties, ElementOfSeq
<1>2. /\ s \in Seq(Nat) /\ Len(s) = n
      /\ \A i \in 1 .. n : s[i] = q[i].sequence
  BY <1>1 DEF SequencesOf, Frame
<1>3. ASSUME NEW f \in Frame
      PROVE  SequencesOf(Append(q, f)) = Append(s, f.sequence)
  <2> DEFINE a == Append(q, f)
             t == Append(s, f.sequence)
  <2>1. /\ a \in Seq(Frame) /\ Len(a) = n + 1 /\ a[n + 1] = f
        /\ \A i \in 1 .. n : a[i] = q[i]
    BY AppendProperties
  <2>2. f.sequence \in Nat
    BY DEF Frame
  <2>3. /\ t \in Seq(Nat) /\ Len(t) = n + 1 /\ t[n + 1] = f.sequence
        /\ \A i \in 1 .. n : t[i] = s[i]
    BY <1>2, <2>2, AppendProperties
  <2>4. DOMAIN a = 1 .. (n + 1) /\ DOMAIN t = 1 .. (n + 1)
        /\ t = [i \in DOMAIN t |-> t[i]]
    BY <2>1, <2>3, LenProperties
  <2> HIDE DEF a, t
  <2>5. \A i \in 1 .. (n + 1) : a[i].sequence = t[i]
    <3>1. \A i \in 1 .. (n + 1) : i = n + 1 \/ i \in 1 .. n
      BY <1>1
    <3> QED
      BY <1>2, <2>1, <2>3, <3>1
  <2>6. SequencesOf(a) = t
    BY <2>4, <2>5 DEF SequencesOf
  <2> QED
    BY <2>6 DEF a, t
<1>4. ASSUME q # <<>>
      PROVE  s = <<Head(q).sequence>> \o SequencesOf(Tail(q))
  <2> DEFINE t == Tail(q)
             m == Len(t)
             h == <<Head(q).sequence>>
             r == SequencesOf(t)
  <2>1. /\ t \in Seq(Frame) /\ m \in Nat /\ n = m + 1
        /\ \A i \in 1 .. m : t[i] = q[i + 1]
        /\ Head(q) = q[1] /\ Head(q) \in Frame
    BY <1>1, <1>4, HeadTailProperties, LenProperties
  <2>2. DOMAIN t = 1 .. m /\ \A i \in 1 .. m : t[i] \in Frame
    BY <2>1, LenProperties, ElementOfSeq
  <2>3. h \in Seq(Nat) /\ Len(h) = 1 /\ h[1] = q[1].sequence
    BY <2>1 DEF Frame
  <2> HIDE DEF t, m, n
  <2>4. /\ r \in Seq(Nat) /\ Len(r) = m
        /\ \A i \in 1 .. m : r[i] = q[i + 1].sequence
    BY <2>1, <2>2 DEF SequencesOf, Frame
  <2> HIDE DEF h, r
  <2>5. /\ h \o r \in Seq(Nat) /\ Len(h \o r) = Len(h) + Len(r)
        /\ \A i \in 1 .. Len(h) + Len(r) :
              (h \o r)[i] = IF i <= Len(h) THEN h[i] ELSE r[i - Len(h)]
    BY <2>3, <2>4, ConcatProperties
  <2>6. Len(h \o r) = n
    BY <2>1, <2>3, <2>4, <2>5
  <2>7. ASSUME NEW i \in 1 .. n PROVE (h \o r)[i] = s[i]
    <3>1. i \in 1 .. Len(h) + Len(r)
      BY <2>1, <2>3, <2>4
    <3>2. CASE i = 1
      BY <1>2, <2>3, <2>5, <3>1, <3>2
    <3>3. CASE i # 1
      <4>1. ~(i <= Len(h)) /\ i - Len(h) \in 1 .. m /\ (i - Len(h)) + 1 = i
        BY <2>1, <2>3, <3>3
      <4> QED
        BY <1>2, <2>4, <2>5, <3>1, <4>1
    <3> QED
      BY <3>2, <3>3
  <2>8. s = h \o r
    <3> HIDE DEF s
    <3> QED
      BY <1>2, <2>5, <2>6, <2>7, SeqEqual
  <2> QED
    BY <2>8 DEF h, r, t
<1> QED
  BY <1>2, <1>3, <1>4

(* The abstract feed's stream: main's frame before those of the queue. *)
StreamOf(place, frame, q) ==
  IF place = "work" THEN <<frame.sequence>> \o SequencesOf(q) ELSE SequencesOf(q)

(* It is a sequence of numbers, one longer than the queue while main works.*)
LEMMA StreamProperties ==
  ASSUME NEW place, NEW frame, NEW q \in Seq(Frame),
         place = "work" => frame \in Frame
  PROVE  /\ StreamOf(place, frame, q) \in Seq(Nat)
         /\ Len(StreamOf(place, frame, q))
              = (IF place = "work" THEN 1 ELSE 0) + Len(q)
<1> DEFINE rest == SequencesOf(q)
<1>1. rest \in Seq(Nat) /\ Len(rest) = Len(q) /\ Len(q) \in Nat
  BY SequencesOfQueues, LenProperties
<1>2. CASE place = "work"
  <2> DEFINE h == <<frame.sequence>>
  <2>1. h \in Seq(Nat) /\ Len(h) = 1
    BY <1>2 DEF Frame
  <2> HIDE DEF h, rest
  <2>2. h \o rest \in Seq(Nat) /\ Len(h \o rest) = Len(h) + Len(rest)
    BY <1>1, <2>1, ConcatProperties
  <2>3. StreamOf(place, frame, q) = h \o rest
    BY <1>2 DEF StreamOf, h, rest
  <2>4. Len(StreamOf(place, frame, q)) = 1 + Len(q)
    BY <1>1, <2>1, <2>2, <2>3
  <2> QED
    BY <1>2, <2>2, <2>3, <2>4
<1>3. CASE place # "work"
  BY <1>1, <1>3 DEF StreamOf
<1> QED
  BY <1>2, <1>3

(* Waiting is that stream, before and after a step. *)
LEMMA WaitingIs ==
  ASSUME TypeOK, WorkHasFrame, TypeOK', WorkHasFrame'
  PROVE  /\ Waiting = StreamOf(pc, input, queue)
         /\ Waiting' = StreamOf(pc', input', queue')
         /\ queue \in Seq(Frame) /\ (pc = "work" => input \in Frame)
         /\ queue' \in Seq(Frame) /\ (pc' = "work" => input' \in Frame)
         /\ Waiting \in Seq(Nat) /\ Len(Waiting) = InWork + Len(queue)
         /\ Waiting' \in Seq(Nat) /\ Len(Waiting)' = InWork' + Len(queue')
<1>1. /\ queue \in Seq(Frame) /\ (pc = "work" => input \in Frame)
      /\ queue' \in Seq(Frame) /\ (pc' = "work" => input' \in Frame)
  BY DEF TypeOK, WorkHasFrame
<1>2. \A q \in Seq(Frame) : SequencesOf(q) \in Seq(Nat)
                             /\ <<>> \o SequencesOf(q) = SequencesOf(q)
  BY SequencesOfQueues, ConcatEmptySeq
<1>3. Waiting = StreamOf(pc, input, queue)
  BY <1>1, <1>2 DEF Waiting, StreamOf, SequencesOf
<1>4. Waiting' = StreamOf(pc', input', queue')
  BY <1>1, <1>2 DEF Waiting, StreamOf, SequencesOf
<1> QED
  BY <1>1, <1>3, <1>4, StreamProperties DEF InWork

(* A stream whose first frame main is done with. *)
LEMMA TailOfStream ==
  ASSUME NEW x \in Nat, NEW t \in Seq(Nat)
  PROVE  <<x>> \o t # <<>> /\ Tail(<<x>> \o t) = t
<1> DEFINE h == <<x>>
           n == Len(t)
           s == h \o t
<1>1. h \in Seq(Nat) /\ Len(h) = 1 /\ n \in Nat
  BY LenProperties
<1> HIDE DEF h, n
<1>2. /\ s \in Seq(Nat) /\ Len(s) = 1 + n
      /\ \A i \in 1 .. 1 + n : s[i] = IF i <= 1 THEN h[i] ELSE t[i - 1]
  <2>1. /\ s \in Seq(Nat) /\ Len(s) = Len(h) + Len(t)
        /\ \A i \in 1 .. Len(h) + Len(t) :
              s[i] = IF i <= Len(h) THEN h[i] ELSE t[i - Len(h)]
    BY <1>1, ConcatProperties
  <2> HIDE DEF s
  <2> QED
    BY <1>1, <2>1 DEF n
<1> HIDE DEF s
<1>3. s # <<>>
  BY <1>1, <1>2, EmptySeq
<1>4. /\ Tail(s) \in Seq(Nat) /\ Len(Tail(s)) = n
      /\ \A i \in 1 .. n : Tail(s)[i] = s[i + 1]
  <2>1. /\ Tail(s) \in Seq(Nat) /\ Len(Tail(s)) = Len(s) - 1
        /\ \A i \in 1 .. Len(Tail(s)) : Tail(s)[i] = s[i + 1]
    BY <1>2, <1>3, HeadTailProperties
  <2>2. Len(Tail(s)) = n
    BY <1>1, <1>2, <2>1
  <2> QED
    BY <2>1, <2>2
<1>5. \A i \in 1 .. n : Tail(s)[i] = t[i]
  <2> TAKE i \in 1 .. n
  <2>1. i + 1 \in 1 .. 1 + n /\ ~(i + 1 <= 1) /\ (i + 1) - 1 = i
    BY <1>1
  <2> QED
    BY <1>2, <1>4, <2>1
<1>6. Tail(s) = t
  BY <1>4, <1>5, SeqEqual DEF n
<1> QED
  BY <1>3, <1>6 DEF s, h

(* A stream that main's frame heads takes a frame at its end all the same. *)
LEMMA AppendToStream ==
  ASSUME NEW s \in Seq(Nat), NEW t \in Seq(Nat), NEW x \in Nat
  PROVE  s \o Append(t, x) = Append(s \o t, x)
<1>1. <<x>> \in Seq(Nat) /\ s \o t \in Seq(Nat)
  BY ConcatProperties
<1>2. Append(t, x) = t \o <<x>> /\ Append(s \o t, x) = (s \o t) \o <<x>>
  BY <1>1, AppendIsConcat
<1> QED
  BY <1>1, <1>2, ConcatAssociative

-----------------------------------------------------------------------------
(* The initial state of the endpoint is one of the abstract feed. *)
LEMMA FeedInits == Init => Feed!FeedInit
<1> SUFFICES ASSUME Init PROVE Feed!FeedInit
  OBVIOUS
<1>1. queue = <<>> /\ pc # "work" /\ SequencesOf(<<>>) = <<>>
  BY DEF Init, SequencesOf
<1>2. Waiting = <<>> \o SequencesOf(<<>>)
  BY <1>1 DEF Waiting, SequencesOf
<1>3. Waiting = <<>>
  BY <1>1, <1>2, ConcatEmptySeq, EmptySeq
<1> QED
  BY <1>3 DEF Init, Feed!FeedInit, RunTarget, ZeroStats

(* Steps that are no step of the feed. *)
LEMMA FeedStutters ==
  ASSUME UNCHANGED <<run_owned, generation, run, produced, Waiting>>,
         stats'.overflows = stats.overflows
  PROVE  UNCHANGED Feed!feedVars
BY DEF Feed!feedVars, RunTarget, Target

(* The stream stays while main neither takes a frame nor is done with one. *)
LEMMA StreamStays ==
  ASSUME UNCHANGED <<queue, input>>, pc' = "work" <=> pc = "work"
  PROVE  Waiting' = Waiting
BY DEF Waiting

(* A step of the callbacks is an opening, a frame, a loss or nothing. *)
LEMMA UsbFeedStep ==
  ASSUME UsbInv, UsbInv', UsbStep
  PROVE  Feed!FeedNext \/ UNCHANGED Feed!feedVars
<1>0. /\ TypeOK /\ WorkHasFrame /\ OwnershipInv /\ RunInv /\ ProducedInv
      /\ TypeOK' /\ WorkHasFrame' /\ stats \in Stats
  BY DEF UsbInv, FrameInv, TypeOK
<1>00. /\ queue \in Seq(Frame) /\ Len(queue) \in Nat /\ Len(Waiting) = InWork + Len(queue)
       /\ Waiting \in Seq(Nat) /\ produced \in Nat /\ generation \in Nat
       /\ Target(run) \in Nat
  BY <1>0, FrameTypes, WaitingIs
<1>1. ASSUME NEW frames \in FrameCounts, NEW k \in {0} \cup PacketUnits,
             ReceiveCommand(frames, k)
      PROVE  Feed!Open
  <2>1. /\ ~run_owned /\ run_owned' = TRUE /\ generation' = generation + 1
        /\ run' = [frames |-> frames] /\ produced' = 0 /\ stats'.overflows = 0
        /\ queue' = <<>> /\ pc' # "work"
    BY <1>0, <1>1 DEF ReceiveCommand, EndpointFree, RunInv, InRun, ZeroStats
  <2>2. Waiting' = <<>>
    <3>1. Len(Waiting') = 0 /\ Waiting' \in Seq(Nat)
      BY <1>0, <2>1, WaitingIs, EmptySeq DEF InWork
    <3> QED
      BY <3>1, EmptySeq
  <2>3. RunTarget' \in {f + Warmup : f \in FrameCounts}
    <3>1. generation' # 0
      BY <1>00, <2>1
    <3> QED
      BY <2>1, <3>1 DEF RunTarget, Target
  <2> QED
    BY <2>1, <2>2, <2>3 DEF Feed!Open
<1>2. ASSUME NEW k \in PacketUnits, ReceivePart(k)
      PROVE  UNCHANGED Feed!feedVars
  BY <1>2, FeedStutters, StreamStays DEF ReceivePart
<1>3. ASSUME NEW k \in PacketUnits, ReceiveLast(k)
      PROVE  Feed!Deliverable \/ Feed!Lose
  <2>1. /\ active /\ produced' = produced + 1
        /\ Lost \/ HandedOver \/ Put
        /\ UNCHANGED <<run, run_owned, generation>>
    BY <1>0, <1>3, LastFrameEffects
  <2>2. /\ run_owned /\ generation # 0 /\ produced < Target(run)
    BY <1>0, <1>00, <2>1 DEF RunInv, ProducedInv
  <2>3. RunTarget' = RunTarget /\ produced < RunTarget
    BY <1>00, <2>1, <2>2 DEF RunTarget, Target
  <2>4. Completed \in Frame /\ Completed.sequence = produced
    <3>1. partial # NoBuf
      BY <1>0, <1>3, PacketSize DEF ReceiveLast, TypeOK, OwnershipInv
    <3> QED
      BY <1>0, <3>1, CompletedType DEF Completed
  <2>5. CASE Lost
    <3>1. Waiting' = Waiting /\ stats'.overflows = stats.overflows + 1
      BY <2>5, StreamStays DEF Lost
    <3>2. Len(Waiting) >= QueueSize
      BY <1>00, <2>5, PoolAssumption DEF Lost, InWork
    <3> QED
      BY <2>1, <2>2, <2>3, <3>1, <3>2 DEF Feed!Lose
  <2>6. ASSUME stats'.overflows = stats.overflows, Len(Waiting) <= QueueSize,
               Waiting' = Append(Waiting, produced)
        PROVE  Feed!Deliverable
    BY <2>1, <2>2, <2>3, <2>6 DEF Feed!Deliverable
  <2>7. CASE HandedOver
    <3>1. Len(Waiting) = 0 /\ Waiting = <<>>
      <4>1. Len(queue) = 0 /\ InWork = 0
        BY <2>7 DEF HandedOver, InWork
      <4>2. Len(Waiting) = 0
        BY <1>00, <4>1
      <4> QED
        BY <1>00, <4>2, EmptySeq
    <3>2. Waiting' = <<produced>>
      <4>1. Waiting' = <<produced>> \o SequencesOf(<<>>)
        BY <1>0, <2>4, <2>7, WaitingIs DEF HandedOver, StreamOf
      <4>2. SequencesOf(<<>>) = <<>>
        BY DEF SequencesOf
      <4>3. <<produced>> \in Seq(Nat)
        BY <1>00
      <4> QED
        BY <4>1, <4>2, <4>3, ConcatEmptySeq
    <3>3. Append(<<>>, produced) = <<produced>>
      OBVIOUS
    <3> QED
      BY <2>6, <2>7, <3>1, <3>2, <3>3, PoolAssumption DEF HandedOver
  <2>8. CASE Put
    <3>1. SequencesOf(queue') = Append(SequencesOf(queue), produced)
          /\ SequencesOf(queue) \in Seq(Nat)
      BY <1>00, <2>4, <2>8, SequencesOfQueues DEF Put
    <3>2. Waiting' = Append(Waiting, produced)
      <4>1. CASE pc = "work"
        <5>1. Waiting = <<input.sequence>> \o SequencesOf(queue)
              /\ Waiting' = <<input.sequence>> \o SequencesOf(queue')
          BY <1>0, <2>8, <4>1, WaitingIs DEF Put, StreamOf
        <5>2. <<input.sequence>> \in Seq(Nat)
          BY <1>0, <4>1, NoFrameIsNone DEF TypeOK, WorkHasFrame, Frame
        <5> QED
          BY <1>00, <3>1, <5>1, <5>2, AppendToStream
      <4>2. CASE pc # "work"
        BY <1>0, <2>8, <3>1, <4>2, WaitingIs DEF Put, StreamOf
      <4> QED
        BY <4>1, <4>2
    <3>3. Len(Waiting) <= QueueSize
      BY <1>00, <2>8, PoolAssumption DEF Put, InWork
    <3> QED
      BY <2>6, <2>8, <3>2, <3>3 DEF Put
  <2> QED
    BY <2>1, <2>5, <2>7, <2>8
<1>4. CASE TerminalDisabled
  <2>1. stats'.overflows = stats.overflows
    BY <1>0, <1>4 DEF TerminalDisabled, Stats
  <2> QED
    BY <1>4, <2>1, FeedStutters, StreamStays DEF TerminalDisabled
<1>5. CASE TerminalEnabled
  BY <1>5, FeedStutters, StreamStays DEF TerminalEnabled
<1> QED
  BY <1>1, <1>2, <1>3, <1>4, <1>5 DEF UsbStep, Feed!FeedNext

(* A step of main is a delivery, the close of the run or nothing. *)
LEMMA MainFeedStep ==
  ASSUME UsbInv, UsbInv', MainStep
  PROVE  Feed!FeedNext \/ UNCHANGED Feed!feedVars
<1>0. /\ TypeOK /\ WorkHasFrame /\ RunInv /\ TypeOK' /\ WorkHasFrame'
      /\ queue \in Seq(Frame)
  BY DEF UsbInv, FrameInv, TypeOK
<1>1. CASE WaitRun \/ Block \/ GetTimeout \/ Reset \/ Drain \/ SendEnd
  BY <1>1, FeedStutters, StreamStays
  DEF WaitRun, Block, GetTimeout, Reset, Drain, SendEnd
<1>2. CASE Get
  <2>1. Waiting' = <<Head(queue).sequence>> \o SequencesOf(Tail(queue))
    BY <1>0, <1>2, WaitingIs DEF Get, StreamOf
  <2>2. Waiting = SequencesOf(queue)
    BY <1>0, <1>2, WaitingIs DEF Get, StreamOf
  <2>3. Waiting' = Waiting
    BY <1>0, <1>2, <2>1, <2>2, SequencesOfQueues DEF Get
  <2> QED
    BY <1>2, <2>3, FeedStutters DEF Get
<1>3. CASE Work \/ WorkFails
  <2>1. /\ pc = "work" /\ pc' # "work" /\ UNCHANGED <<queue, stats, run_owned,
           generation, run, produced>> /\ run_owned
    BY <1>0, <1>3 DEF Work, WorkFails, RunInv, InRun
  <2>2. Waiting = <<input.sequence>> \o SequencesOf(queue)
        /\ Waiting' = SequencesOf(queue)
    BY <1>0, <2>1, WaitingIs DEF StreamOf
  <2>3. input.sequence \in Nat /\ SequencesOf(queue) \in Seq(Nat)
    BY <1>0, <2>1, NoFrameIsNone, SequencesOfQueues DEF TypeOK, WorkHasFrame, Frame
  <2>4. Waiting # <<>> /\ Waiting' = Tail(Waiting)
    BY <2>2, <2>3, TailOfStream
  <2>5. Feed!Take
    BY <2>1, <2>4 DEF Feed!Take, RunTarget, Target
  <2> QED
    BY <2>5 DEF Feed!FeedNext
<1>4. CASE Finish
  <2>1. /\ run_owned /\ run_owned' = FALSE /\ queue' = <<>> /\ pc' # "work"
        /\ UNCHANGED <<stats, generation, run, produced>>
    BY <1>0, <1>4 DEF Finish, EmptyQueue, RunInv, InRun
  <2>2. Waiting' = <<>>
    <3>1. Len(Waiting') = 0 /\ Waiting' \in Seq(Nat)
      BY <1>0, <2>1, WaitingIs, EmptySeq DEF InWork
    <3> QED
      BY <3>1, EmptySeq
  <2>3. Feed!Close
    BY <2>1, <2>2 DEF Feed!Close, RunTarget, Target
  <2> QED
    BY <2>3 DEF Feed!FeedNext
<1> QED
  BY <1>1, <1>2, <1>3, <1>4 DEF MainStep

(* The endpoint, its queue and the frame loop implement PcmFeed: a run's   *)
(* frames come in order, each once or lost, and none is lost while fewer   *)
(* than QueueSize of them wait.                                            *)
THEOREM UsbImplementsFeed == Spec => ImplementsFeed
<1>1. Init => UsbInv /\ Feed!FeedInit
  BY UsbInduction, FeedInits
<1>2. UsbInv /\ [Next]_vars => UsbInv'
  BY UsbInduction
<1>3. UsbInv /\ UsbInv' /\ [Next]_vars => [Feed!FeedNext]_(Feed!feedVars)
  <2> SUFFICES ASSUME UsbInv, UsbInv', [Next]_vars
               PROVE  Feed!FeedNext \/ UNCHANGED Feed!feedVars
    OBVIOUS
  <2>1. CASE Next
    BY <2>1, UsbFeedStep, MainFeedStep DEF Next
  <2>2. CASE UNCHANGED vars
    BY <2>2, FeedStutters, StreamStays DEF vars
  <2> QED
    BY <2>1, <2>2
<1> QED
  BY <1>1, <1>2, <1>3, PTL DEF Spec, ImplementsFeed, Feed!FeedSpec
=============================================================================
