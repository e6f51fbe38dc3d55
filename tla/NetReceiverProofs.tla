-------------------------- MODULE NetReceiverProofs -------------------------
(***************************************************************************)
(* Theorems of NetReceiver, for every size of its queue and of the mailbox *)
(* it sends to, any number of frames, packets of a frame, tries and runs.  *)
(***************************************************************************)
EXTENDS NetReceiver, SequenceTheorems, TLAPS

USE DEF netVars, appVars, waitVars

AppMessage == [type : {"START", "END"}, run : Nat]
TxTypes ==
  tx \in [run : Nat, phase : {"START", "DATA", "END", "idle"}, passed : Nat,
          tries : Nat]

DataTypes ==
  /\ rx_queue \in Seq(Packet) /\ app_q \in Seq(AppMessage)
  /\ run \in Nat /\ good \in Nat /\ bad \in Nat
  /\ seq \in {NoSeq} \cup Nat /\ have \in Nat
  /\ pc \in {"loop", "end", "wait", "copy"}
  /\ app_run \in Nat /\ answering \in Nat
  /\ last_status \in Nat /\ copied \in Nat /\ late \subseteq Nat
  /\ reported \in Seq(Nat) /\ forwarded \in Seq(Nat)

ReportType == report \in [run : Nat, good : Nat, status : Nat \X Nat, late : SUBSET Nat]

FlagTypes == active \in BOOLEAN /\ status_sem \in BOOLEAN

TypeOK == TxTypes /\ DataTypes /\ ReportType /\ FlagTypes

(* The place of a packet in the frames of its run. *)
Number(s, o) == s * Fragments + o

Rank(type) ==
  CASE type = "START" -> 1 [] type = "DATA" -> 2 [] type = "END" -> 3 [] OTHER -> 4

(* The order in which the transmitter sends. *)
Precedes(a, b) ==
  \/ a.run < b.run
  \/ /\ a.run = b.run /\ Rank(a.type) <= Rank(b.type)
     /\ a.type = "DATA" /\ b.type = "DATA" =>
          Number(a.seq, a.offset) < Number(b.seq, b.offset)

Ordered(q) == \A i, j \in DOMAIN q : i < j => Precedes(q[i], q[j])

(* A transmitter in this phase of run r sent the packet, before packet n.  *)
SentBy(p, r, phase, n) ==
  /\ p.run \in 1 .. r
  /\ p.run = r => /\ Rank(p.type) <= Rank(phase)
                  /\ p.type = "DATA" => Number(p.seq, p.offset) < n

InRun(p) == p.seq \in 0 .. Frames - 1 /\ p.offset \in 0 .. Fragments - 1

(* The packet comes after those (T) the loop took of run r; once that run  *)
(* is over only its END may be left.                                       *)
Ahead(p, r, stage, T) ==
  /\ r <= p.run
  /\ p.run = r => /\ stage = "open" \/ p.type = "END"
                  /\ p.type = "DATA" =>
                       \A x \in T : Number(x[1], x[2]) < Number(p.seq, p.offset)

QueueOk(q, r, phase, n, taking, stage, T) ==
  /\ Ordered(q)
  /\ \A i \in DOMAIN q : /\ InRun(q[i]) /\ SentBy(q[i], r, phase, n)
                         /\ Ahead(q[i], taking, stage, T)

(* A run is open until the loop asks for its status. *)
Stage == IF active /\ pc = "loop" THEN "open" ELSE "over"

(* What arrived and was not yet taken is as it was sent. *)
QueueInv ==
  QueueOk(rx_queue, tx.run, tx.phase, tx.passed, run, Stage, taken)

(* The loop is not before the transmitter. *)
TxInv ==
  /\ tx.phase # "idle" => tx.run # 0
  /\ run <= tx.run
  /\ run = tx.run => /\ Stage = "open" \/ tx.phase \in {"END", "idle"}
                     /\ \A x \in taken : Number(x[1], x[2]) < tx.passed

(* The first h packets of frame s were taken, and not the next. *)
Assembled(s, h, T) == (\A k \in 0 .. h - 1 : <<s, k>> \in T) /\ <<s, h>> \notin T

(* The frame being reassembled is the last of which packets were taken.    *)
FrameInv ==
  /\ taken \subseteq (0 .. Frames - 1) \X (0 .. Fragments - 1)
  /\ \A x \in taken : x[1] <= seq
  /\ seq # NoSeq => \E x \in taken : x[1] = seq
  /\ Assembled(seq, have, taken)

(* Frames are forwarded once each in order, so that the n-th is at least n.*)
ForwardInv ==
  /\ \A i, j \in DOMAIN forwarded : i < j => forwarded[i] < forwarded[j]
  /\ \A i \in DOMAIN forwarded : forwarded[i] >= i - 1
  /\ good = Len(forwarded)

(* The loop waits in a run that it has not reported. *)
ReportInv ==
  /\ pc # "loop" => active
  /\ \A i \in DOMAIN reported : reported[i] <= run /\ (active => reported[i] < run)

(* From the END on, what the application core owes or has answered is of   *)
(* this run or was owed when it was asked.                                 *)
StatusInv ==
  /\ pc = "end" => Owed \subseteq late
  /\ pc \in {"wait", "copy"} => Owed \subseteq late \cup {run}
  /\ pc \in {"end", "wait"} /\ status_sem => last_status \in late \cup {run}
  /\ pc = "copy" => copied \in late \cup {run} /\ last_status \in late \cup {run}

NetInv ==
  /\ TypeOK /\ QueueInv /\ TxInv /\ FrameInv /\ ForwardInv
  /\ WholeFramesForwarded /\ ReportInv /\ OneReportPerRun
  /\ StatusInv /\ StatusIsOwn

-----------------------------------------------------------------------------
(* Numbers of packets. *)
LEMMA Sizes == Fragments \in Nat \ {0} /\ Frames \in Nat \ {0}
BY ReceiverAssumption

(* The packet of a number, as sequence and offset. *)
LEMMA NumberOfPacket ==
  ASSUME NEW n \in 0 .. Frames * Fragments - 1
  PROVE  /\ n \div Fragments \in 0 .. Frames - 1
         /\ n % Fragments \in 0 .. Fragments - 1
         /\ Number(n \div Fragments, n % Fragments) = n
<1>1. n \in Nat /\ n <= Frames * Fragments - 1
  BY Sizes
<1>2. n \div Fragments \in Nat /\ n % Fragments \in 0 .. Fragments - 1
  BY <1>1, Sizes
<1>3. n \div Fragments <= Frames - 1
  BY <1>1, Sizes
<1>4. Number(n \div Fragments, n % Fragments) = n
  BY <1>1, Sizes DEF Number
<1> QED
  BY <1>2, <1>3, <1>4, Sizes

(* A frame is numbered to its end before the next one begins. *)
LEMMA FullFrame ==
  ASSUME NEW a \in Nat, NEW b \in Nat, a < b
  PROVE  a * Fragments + Fragments <= b * Fragments
BY Sizes

(* Packets are numbered frame by frame and by offset in the frame. *)
LEMMA NumberOrder ==
  ASSUME NEW s \in Nat, NEW t \in Nat, NEW o \in 0 .. Fragments - 1,
         NEW p \in 0 .. Fragments - 1, Number(s, o) < Number(t, p)
  PROVE  s <= t /\ (s = t => o < p)
<1>1. ASSUME t < s PROVE t * Fragments + Fragments <= s * Fragments
  BY FullFrame, <1>1
<1> QED
  BY <1>1, Sizes DEF Number

(* The kinds of packets follow one another. *)
LEMMA Ranks ==
  /\ Rank("START") = 1 /\ Rank("DATA") = 2 /\ Rank("END") = 3 /\ Rank("idle") = 4
BY DEF Rank

-----------------------------------------------------------------------------
(* Both cores start with nothing received and nothing owed. *)
LEMMA TypeInit == Init => TypeOK
<1> SUFFICES ASSUME Init PROVE TypeOK
  OBVIOUS
<1>1. DataTypes
  BY DEF Init, DataTypes
<1>2. TxTypes
  BY DEF Init, TxTypes
<1>3. ReportType
  BY DEF Init, ReportType, NoReport
<1>4. FlagTypes
  BY DEF Init, FlagTypes
<1> QED
  BY <1>1, <1>2, <1>3, <1>4 DEF TypeOK

(* The transmitter's steps leave the receiver but for its queue as it is.  *)
LEMMA TxKeeps == TxStep => UNCHANGED <<netVars, appVars, waitVars>>
BY DEF TxStep, TxBegin, TxControl, TxData, TxEnds

(* What the event handler leaves in the queue. *)
LEMMA ReceiveTypes ==
  ASSUME rx_queue \in Seq(Packet), NEW p \in Packet, Receive(p)
  PROVE  rx_queue' \in Seq(Packet)
BY AppendProperties DEF Receive

(* What the transmitter sends is a packet of its run. *)
LEMMA TxTypesStep ==
  ASSUME TxTypes, rx_queue \in Seq(Packet), TxStep
  PROVE  TxTypes' /\ rx_queue' \in Seq(Packet)
<1>1. CASE TxBegin \/ TxEnds
  BY <1>1 DEF TxBegin, TxEnds, TxTypes
<1>2. ASSUME NEW arrives \in BOOLEAN, NEW acked \in BOOLEAN, TxControl(arrives, acked)
      PROVE  TxTypes' /\ rx_queue' \in Seq(Packet)
  <2>1. [type |-> tx.phase, run |-> tx.run, seq |-> 0, offset |-> 0] \in Packet
    BY <1>2 DEF TxControl, TxTypes, Packet
  <2>2. rx_queue' \in Seq(Packet)
    BY <1>2, <2>1, ReceiveTypes DEF TxControl
  <2>3. TxTypes'
    <3>1. \/ tx' = [tx EXCEPT !.phase = After(tx.phase), !.tries = 0]
          \/ tx' = [tx EXCEPT !.tries = tx.tries + 1]
      BY <1>2 DEF TxControl
    <3>2. CASE tx' = [tx EXCEPT !.phase = After(tx.phase), !.tries = 0]
      BY <3>2 DEF TxTypes, After
    <3>3. CASE tx' = [tx EXCEPT !.tries = tx.tries + 1]
      BY <3>3 DEF TxTypes
    <3> QED
      BY <3>1, <3>2, <3>3
  <2> QED
    BY <2>2, <2>3
<1>3. ASSUME NEW n \in 0 .. Frames * Fragments - 1, TxData(n)
      PROVE  TxTypes' /\ rx_queue' \in Seq(Packet)
  <2>1. n \in Nat /\ n \div Fragments \in Nat /\ n % Fragments \in Nat
    <3>1. n \div Fragments \in 0 .. Frames - 1 /\ n % Fragments \in 0 .. Fragments - 1
      BY NumberOfPacket
    <3>2. n \in Nat
      BY Sizes
    <3> QED
      BY <3>1, <3>2, Sizes
  <2>2. [type |-> "DATA", run |-> tx.run, seq |-> n \div Fragments,
         offset |-> n % Fragments] \in Packet
    BY <2>1 DEF TxTypes, Packet
  <2>3. rx_queue' \in Seq(Packet)
    BY <1>3, <2>2, ReceiveTypes DEF TxData
  <2>4. TxTypes'
    BY <1>3, <2>1 DEF TxData, TxTypes
  <2> QED
    BY <2>3, <2>4
<1> QED
  BY <1>1, <1>2, <1>3 DEF TxStep

(* What the application core sends and owes are runs. *)
LEMMA AppTypesStep ==
  ASSUME DataTypes, AppStep PROVE DataTypes'
<1>1. CASE AppTakes
  <2>1. Head(app_q) \in AppMessage /\ Tail(app_q) \in Seq(AppMessage)
    BY <1>1, HeadTailProperties DEF AppTakes, DataTypes
  <2> QED
    BY <1>1, <2>1 DEF AppTakes, DataTypes, AppMessage
<1>2. CASE StatusArrives
  BY <1>2 DEF StatusArrives, DataTypes
<1>3. CASE StatusLost
  BY <1>3 DEF StatusLost, DataTypes
<1> QED
  BY <1>1, <1>2, <1>3 DEF AppStep

(* What the link leaves in the application core's mailbox. *)
LEMMA SendTypes ==
  ASSUME app_q \in Seq(AppMessage), NEW m \in AppMessage, SendApp(m)
  PROVE  app_q' \in Seq(AppMessage)
BY AppendProperties DEF SendApp

(* The runs the application core owes a status of are naturals. *)
LEMMA OwedTypes == DataTypes => Owed \subseteq Nat
<1> SUFFICES ASSUME DataTypes PROVE Owed \subseteq Nat
  OBVIOUS
<1>1. \A i \in DOMAIN app_q : app_q[i] \in AppMessage
  BY ElementOfSeq, LenProperties DEF DataTypes
<1>2. \A i \in DOMAIN app_q : app_q[i].run \in Nat
  BY <1>1 DEF AppMessage
<1> QED
  BY <1>2 DEF Owed, DataTypes

(* The loop forwards sequences and reports runs. *)
LEMMA NetTypesStep ==
  ASSUME DataTypes, ReportType, NetStep PROVE DataTypes' /\ ReportType'
<1>1. rx_queue # <<>> => Head(rx_queue) \in Packet /\ Tail(rx_queue) \in Seq(Packet)
  BY HeadTailProperties DEF DataTypes
<1>2. \A p \in Packet : p.run \in Nat /\ p.seq \in Nat /\ p.offset \in Nat
  BY DEF Packet
<1>3. CASE TakeStart
  <2>1. rx_queue' \in Seq(Packet) /\ run' \in Nat
    BY <1>1, <1>2, <1>3 DEF TakeStart, Takes
  <2>2. [type |-> "START", run |-> run'] \in AppMessage
    BY <2>1 DEF AppMessage
  <2>3. app_q' \in Seq(AppMessage)
    BY <1>3, <2>2, SendTypes DEF TakeStart, DataTypes
  <2> QED
    BY <1>3, <2>1, <2>3, EmptySeq
       DEF TakeStart, Takes, ForgetFrame, DataTypes, ReportType
<1>4. CASE TakeData
  <2> DEFINE p == Head(rx_queue)
             continues == p.offset = HaveBefore(p)
             complete == continues /\ p.offset + 1 = Fragments
  <2>1. rx_queue' \in Seq(Packet) /\ p \in Packet
    BY <1>1, <1>4 DEF TakeData, Takes
  <2>2. p.seq \in Nat /\ HaveBefore(p) \in Nat
    BY <1>2, <2>1 DEF HaveBefore, DataTypes
  <2>3. /\ seq' = p.seq
        /\ have' = HaveBefore(p) + (IF continues THEN 1 ELSE 0)
        /\ bad' = bad + (IF continues THEN 0 ELSE 1)
        /\ good' = good + (IF complete THEN 1 ELSE 0)
        /\ forwarded' = IF complete THEN Append(forwarded, p.seq) ELSE forwarded
        /\ UNCHANGED <<tx, run, active, appVars, waitVars>>
    BY <1>4 DEF TakeData
  <2> HIDE DEF p, continues, complete
  <2>4. have' \in Nat /\ bad' \in Nat /\ good' \in Nat
    BY <2>2, <2>3 DEF DataTypes
  <2>5. forwarded' \in Seq(Nat)
    BY <2>2, <2>3, AppendProperties DEF DataTypes
  <2> QED
    BY <2>1, <2>2, <2>3, <2>4, <2>5 DEF DataTypes, ReportType
<1>5. CASE TakeEnd
  BY <1>1, <1>5, OwedTypes DEF TakeEnd, Takes, DataTypes, ReportType
<1>6. CASE SendEnd
  <2>1. [type |-> "END", run |-> run] \in AppMessage
    BY DEF AppMessage, DataTypes
  <2>2. app_q' \in Seq(AppMessage)
    BY <1>6, <2>1, SendTypes DEF SendEnd, DataTypes
  <2> QED
    BY <1>6, <2>2 DEF SendEnd, DataTypes, ReportType
<1>7. CASE TakeOther
  BY <1>1, <1>7 DEF TakeOther, DataTypes, ReportType
<1>8. CASE WaitStatus
  BY <1>8 DEF WaitStatus, DataTypes, ReportType
<1>9. ASSUME NEW status \in Nat \X Nat, Report(status), copied' = copied
      PROVE  DataTypes' /\ ReportType'
  <2>1. reported' \in Seq(Nat)
    BY <1>9, AppendProperties DEF Report, DataTypes
  <2>2. ReportType'
    BY <1>9 DEF Report, DataTypes, ReportType
  <2> QED
    BY <1>9, <2>1, <2>2 DEF Report, DataTypes
<1>10. CASE CopyStatus
  BY <1>9, <1>10 DEF CopyStatus, DataTypes
<1>11. CASE WaitTimeout
  BY <1>9, <1>11 DEF WaitTimeout
<1> QED
  BY <1>3, <1>4, <1>5, <1>6, <1>7, <1>8, <1>10, <1>11 DEF NetStep

(* The flags stay Boolean. *)
LEMMA FlagStep == FlagTypes /\ [Next]_vars => FlagTypes'
<1> SUFFICES ASSUME FlagTypes, [Next]_vars PROVE FlagTypes'
  OBVIOUS
<1> USE DEF FlagTypes
<1>1. CASE TxStep
  BY <1>1, TxKeeps, Zenon
<1>2. CASE AppTakes \/ StatusArrives \/ StatusLost
  BY <1>2, Zenon DEF AppTakes, StatusArrives, StatusLost
<1>3. CASE TakeStart \/ TakeData \/ TakeOther
  BY <1>3, Zenon DEF TakeStart, TakeData, TakeOther
<1>4. CASE TakeEnd \/ SendEnd \/ WaitStatus
  BY <1>4, Zenon DEF TakeEnd, SendEnd, WaitStatus, DiscardedStatus
<1>5. CASE CopyStatus \/ WaitTimeout
  BY <1>5, Zenon DEF CopyStatus, WaitTimeout, Report
<1>6. CASE UNCHANGED vars
  BY <1>6, Zenon DEF vars
<1> QED
  BY <1>1, <1>2, <1>3, <1>4, <1>5, <1>6 DEF Next, AppStep, NetStep

(* Every step keeps every variable in its type. *)
LEMMA TypeStep == TypeOK /\ [Next]_vars => TypeOK'
<1> SUFFICES ASSUME TypeOK, [Next]_vars PROVE TypeOK'
  OBVIOUS
<1> USE DEF TypeOK
<1>1. FlagTypes'
  BY FlagStep
<1>2. CASE TxStep
  <2>1. TxTypes' /\ rx_queue' \in Seq(Packet)
    BY <1>2, TxTypesStep DEF DataTypes
  <2>2. UNCHANGED <<netVars, appVars, waitVars>>
    BY <1>2, TxKeeps
  <2> QED
    BY <1>1, <2>1, <2>2 DEF DataTypes, ReportType
<1>3. CASE AppStep
  <2>1. UNCHANGED <<tx, report>>
    BY <1>3 DEF AppStep, AppTakes, StatusArrives, StatusLost
  <2> QED
    BY <1>1, <1>3, <2>1, AppTypesStep DEF TxTypes, ReportType
<1>4. CASE NetStep
  <2>1. tx' = tx
    BY <1>4 DEF NetStep, TakeStart, TakeData, TakeEnd, SendEnd, TakeOther,
                WaitStatus, CopyStatus, WaitTimeout, Report
  <2> QED
    BY <1>1, <1>4, <2>1, NetTypesStep DEF TxTypes
<1>5. CASE UNCHANGED vars
  BY <1>1, <1>5 DEF vars, DataTypes, TxTypes, ReportType
<1> QED
  BY <1>2, <1>3, <1>4, <1>5 DEF Next

-----------------------------------------------------------------------------
(* A packet sent stays one sent before the transmitter's place when that   *)
(* advances.                                                               *)
LEMMA SentLater ==
  ASSUME NEW p \in Packet, NEW r \in Nat, NEW phase, NEW n \in Nat,
         SentBy(p, r, phase, n), p.type = "DATA" => Number(p.seq, p.offset) \in Nat,
         NEW s \in Nat, NEW next, NEW m \in Nat,
         \/ s = r /\ Rank(phase) <= Rank(next) /\ n <= m
         \/ s = r + 1,
         Rank(phase) \in Nat, Rank(next) \in Nat, Rank(p.type) \in Nat
  PROVE  SentBy(p, s, next, m)
BY DEF SentBy, Packet

(* A packet in the queue has a rank, a run and a number. *)
LEMMA QueuedPacket ==
  ASSUME NEW q \in Seq(Packet), NEW i \in DOMAIN q
  PROVE  /\ q[i] \in Packet /\ Rank(q[i].type) \in 1 .. 3 /\ q[i].run \in Nat
         /\ Number(q[i].seq, q[i].offset) \in Nat
<1>1. q[i] \in Packet
  BY ElementOfSeq, LenProperties
<1>2. q[i].seq \in Nat /\ q[i].offset \in Nat /\ q[i].run \in Nat
      /\ q[i].type \in {"START", "DATA", "END"}
  BY <1>1 DEF Packet
<1>3. Number(q[i].seq, q[i].offset) \in Nat
  BY <1>2, Sizes DEF Number
<1> QED
  BY <1>1, <1>2, <1>3, Ranks

(* The queue when the transmitter advances. *)
LEMMA QueueLater ==
  ASSUME NEW q \in Seq(Packet), NEW r \in Nat, NEW phase, NEW n \in Nat,
         NEW taking, NEW stage, NEW T,
         QueueOk(q, r, phase, n, taking, stage, T),
         NEW s \in Nat, NEW next, NEW m \in Nat,
         \/ s = r /\ Rank(phase) <= Rank(next) /\ n <= m
         \/ s = r + 1,
         Rank(phase) \in Nat, Rank(next) \in Nat
  PROVE  QueueOk(q, s, next, m, taking, stage, T)
<1>1. ASSUME NEW i \in DOMAIN q PROVE SentBy(q[i], s, next, m)
  <2>1. /\ q[i] \in Packet /\ Rank(q[i].type) \in Nat
        /\ Number(q[i].seq, q[i].offset) \in Nat
    BY QueuedPacket
  <2>2. SentBy(q[i], r, phase, n)
    BY DEF QueueOk
  <2> QED
    BY <2>1, <2>2, SentLater
<1> QED
  BY <1>1 DEF QueueOk

(* The queue with a packet appended that the transmitter sends now. *)
LEMMA QueueAppend ==
  ASSUME NEW q \in Seq(Packet), NEW r \in Nat, NEW phase, NEW n \in Nat,
         NEW taking, NEW stage, NEW T,
         QueueOk(q, r, phase, n, taking, stage, T),
         NEW p \in Packet, InRun(p), SentBy(p, r, phase, n),
         Ahead(p, taking, stage, T),
         \A i \in DOMAIN q : Precedes(q[i], p)
  PROVE  QueueOk(Append(q, p), r, phase, n, taking, stage, T)
<1> DEFINE a == Append(q, p)
<1>1. /\ Len(q) \in Nat /\ DOMAIN q = 1 .. Len(q) /\ DOMAIN a = 1 .. Len(q) + 1
      /\ \A i \in DOMAIN q : a[i] = q[i]
      /\ a[Len(q) + 1] = p
  BY AppendProperties, LenProperties
<1>2. \A i \in DOMAIN a : i \in DOMAIN q \/ (i = Len(q) + 1 /\ a[i] = p)
  BY <1>1
<1> HIDE DEF a
<1>3. ASSUME NEW i \in DOMAIN a
      PROVE  InRun(a[i]) /\ SentBy(a[i], r, phase, n) /\ Ahead(a[i], taking, stage, T)
  BY <1>1, <1>2 DEF QueueOk
<1>4. ASSUME NEW i \in DOMAIN a, NEW j \in DOMAIN a, i < j
      PROVE  Precedes(a[i], a[j])
  <2>1. i \in DOMAIN q
    BY <1>1, <1>4
  <2>2. CASE j \in DOMAIN q
    BY <1>1, <1>4, <2>1, <2>2 DEF QueueOk, Ordered
  <2>3. CASE a[j] = p
    BY <1>1, <2>1, <2>3
  <2> QED
    BY <1>2, <2>2, <2>3
<1> QED
  BY <1>3, <1>4 DEF QueueOk, Ordered, a

(* The queue when its first packet is taken. *)
LEMMA QueueTake ==
  ASSUME NEW q \in Seq(Packet), q # <<>>, NEW r, NEW phase, NEW n,
         NEW taking, NEW stage, NEW T,
         QueueOk(q, r, phase, n, taking, stage, T)
  PROVE  /\ Head(q) \in Packet /\ Tail(q) \in Seq(Packet)
         /\ InRun(Head(q)) /\ SentBy(Head(q), r, phase, n)
         /\ Ahead(Head(q), taking, stage, T)
         /\ QueueOk(Tail(q), r, phase, n, taking, stage, T)
         /\ \A i \in DOMAIN Tail(q) : Precedes(Head(q), Tail(q)[i])
<1> DEFINE t == Tail(q)
<1>1. /\ Len(q) \in Nat \ {0} /\ DOMAIN q = 1 .. Len(q) /\ Head(q) = q[1]
      /\ DOMAIN t = 1 .. Len(q) - 1 /\ t \in Seq(Packet) /\ Head(q) \in Packet
      /\ \A i \in DOMAIN t : t[i] = q[i + 1]
  BY HeadTailProperties, LenProperties, EmptySeq
<1>2. 1 \in DOMAIN q /\ \A i \in DOMAIN t : i + 1 \in DOMAIN q /\ 1 < i + 1
  BY <1>1
<1> HIDE DEF t
<1>3. \A i \in DOMAIN t : Precedes(Head(q), t[i])
  BY <1>1, <1>2 DEF QueueOk, Ordered
<1>4. ASSUME NEW i \in DOMAIN t, NEW j \in DOMAIN t, i < j
      PROVE  Precedes(t[i], t[j])
  <2>1. i + 1 \in DOMAIN q /\ j + 1 \in DOMAIN q /\ i + 1 < j + 1
    BY <1>1, <1>2, <1>4
  <2> QED
    BY <1>1, <2>1 DEF QueueOk, Ordered
<1>5. QueueOk(t, r, phase, n, taking, stage, T)
  BY <1>1, <1>2, <1>4 DEF QueueOk, Ordered
<1> QED
  BY <1>1, <1>2, <1>3, <1>5 DEF t, QueueOk

(* What was taken has a number. *)
LEMMA TakenNumbers ==
  ASSUME taken \subseteq (0 .. Frames - 1) \X (0 .. Fragments - 1), NEW x \in taken
  PROVE  Number(x[1], x[2]) \in Nat
<1>1. x[1] \in Nat /\ x[2] \in Nat
  BY Sizes
<1> QED
  BY <1>1, Sizes DEF Number

(* What the transmitter sends now follows all that is queued. *)
LEMMA SentNow ==
  ASSUME TypeOK, QueueInv, TxInv, FrameInv, tx.phase # "idle",
         NEW p \in Packet, p.run = tx.run, p.type = tx.phase, InRun(p),
         p.type = "DATA" => Number(p.seq, p.offset) >= tx.passed,
         NEW n \in Nat, tx.passed <= n,
         p.type = "DATA" => Number(p.seq, p.offset) < n,
         Receive(p)
  PROVE  QueueOk(rx_queue', tx.run, tx.phase, n, run, Stage, taken)
<1>1. /\ rx_queue \in Seq(Packet) /\ tx.run \in Nat /\ tx.passed \in Nat
      /\ run \in Nat
  BY DEF TypeOK, DataTypes, TxTypes
<1>2. Rank(tx.phase) \in Nat /\ p.type \in {"START", "DATA", "END"}
  BY Ranks DEF TypeOK, TxTypes, Packet
<1>3. QueueOk(rx_queue, tx.run, tx.phase, n, run, Stage, taken)
  BY <1>1, <1>2, QueueLater DEF QueueInv
<1>4. p.type = "DATA" => Number(p.seq, p.offset) \in Nat
  <2>1. p.seq \in Nat /\ p.offset \in Nat
    BY DEF Packet
  <2> QED
    BY <2>1, Sizes DEF Number
<1>5. SentBy(p, tx.run, tx.phase, n)
  BY <1>1, <1>2 DEF SentBy, TxInv
<1>6. Ahead(p, run, Stage, taken)
  <2>1. ASSUME p.run = run PROVE Stage = "open" \/ p.type = "END"
    BY <1>2, <2>1 DEF TxInv
  <2>2. ASSUME p.run = run, p.type = "DATA", NEW x \in taken
        PROVE  Number(x[1], x[2]) < Number(p.seq, p.offset)
    <3>1. Number(x[1], x[2]) \in Nat
      BY TakenNumbers DEF FrameInv
    <3> QED
      BY <1>1, <1>4, <2>2, <3>1 DEF TxInv
  <2> QED
    BY <2>1, <2>2 DEF Ahead, TxInv
<1>7. ASSUME NEW i \in DOMAIN rx_queue PROVE Precedes(rx_queue[i], p)
  BY <1>1, <1>4, <1>7, QueuedPacket DEF QueueInv, QueueOk, SentBy, Precedes
<1>8. QueueOk(Append(rx_queue, p), tx.run, tx.phase, n, run, Stage, taken)
  BY <1>1, <1>3, <1>5, <1>6, <1>7, QueueAppend
<1> QED
  BY <1>3, <1>8 DEF Receive

(* The transmitter keeps the queue in order and stays ahead of the loop. *)
LEMMA TxQueueStep ==
  ASSUME TypeOK, QueueInv, TxInv, FrameInv, TxStep
  PROVE  QueueInv' /\ TxInv'
<1>1. /\ rx_queue \in Seq(Packet) /\ tx.run \in Nat /\ tx.passed \in Nat
      /\ run \in Nat /\ tx.phase \in {"START", "DATA", "END", "idle"}
  BY DEF TypeOK, DataTypes, TxTypes
<1>2. run' = run /\ Stage' = Stage /\ taken' = taken
  BY TxKeeps DEF Stage
<1>3. \A x \in taken : Number(x[1], x[2]) \in Nat
  BY TakenNumbers DEF FrameInv
<1>4. CASE TxBegin
  <2>1. /\ rx_queue' = rx_queue /\ tx'.run = tx.run + 1 /\ tx'.phase = "START"
        /\ tx'.passed = 0
    BY <1>4 DEF TxBegin
  <2>2. QueueOk(rx_queue, tx.run + 1, "START", 0, run, Stage, taken)
    BY <1>1, Ranks, QueueLater DEF QueueInv
  <2>3. TxInv'
    BY <1>1, <1>2, <2>1 DEF TxInv
  <2> QED
    BY <1>2, <2>1, <2>2, <2>3 DEF QueueInv
<1>5. CASE TxEnds
  <2>1. /\ rx_queue' = rx_queue /\ tx'.run = tx.run /\ tx'.phase \in {"END", "idle"}
        /\ tx'.passed = tx.passed /\ tx.phase = "DATA"
    BY <1>1, <1>5 DEF TxEnds, TypeOK, TxTypes
  <2>2. QueueOk(rx_queue, tx.run, tx'.phase, tx.passed, run, Stage, taken)
    BY <1>1, <2>1, Ranks, QueueLater DEF QueueInv
  <2>3. TxInv'
    BY <1>1, <1>2, <2>1 DEF TxInv
  <2> QED
    BY <1>2, <2>1, <2>2, <2>3 DEF QueueInv
<1>6. ASSUME NEW arrives \in BOOLEAN, NEW acked \in BOOLEAN, TxControl(arrives, acked)
      PROVE  QueueInv' /\ TxInv'
  <2> DEFINE p == [type |-> tx.phase, run |-> tx.run, seq |-> 0, offset |-> 0]
  <2>1. tx.phase \in {"START", "END"} /\ (Receive(p) \/ rx_queue' = rx_queue)
    BY <1>6 DEF TxControl
  <2>2. /\ tx'.run = tx.run /\ tx'.passed = tx.passed
        /\ tx'.phase \in {tx.phase, After(tx.phase)}
    <3>1. \/ tx' = [tx EXCEPT !.phase = After(tx.phase), !.tries = 0]
          \/ tx' = [tx EXCEPT !.tries = tx.tries + 1]
      BY <1>6 DEF TxControl
    <3> QED
      BY <3>1 DEF TypeOK, TxTypes
  <2>3. /\ p \in Packet /\ p.run = tx.run /\ p.type = tx.phase /\ InRun(p)
        /\ p.type # "DATA"
    BY <1>1, <2>1, Sizes DEF Packet, InRun
  <2> HIDE DEF p
  <2>4. QueueOk(rx_queue', tx.run, tx.phase, tx.passed, run, Stage, taken)
    BY <1>1, <2>1, <2>3, SentNow DEF QueueInv
  <2>5. rx_queue' \in Seq(Packet)
    BY <1>1, <2>1, <2>3, ReceiveTypes
  <2>6. /\ Rank(tx.phase) \in Nat /\ Rank(tx'.phase) \in Nat
        /\ Rank(tx.phase) <= Rank(tx'.phase)
    BY <2>1, <2>2, Ranks DEF After
  <2>7. QueueOk(rx_queue', tx.run, tx'.phase, tx.passed, run, Stage, taken)
    BY <1>1, <2>4, <2>5, <2>6, QueueLater
  <2>8. TxInv'
    BY <1>1, <1>2, <2>1, <2>2 DEF TxInv, After
  <2> QED
    BY <1>2, <2>2, <2>7, <2>8 DEF QueueInv
<1>7. ASSUME NEW n \in 0 .. Frames * Fragments - 1, TxData(n)
      PROVE  QueueInv' /\ TxInv'
  <2> DEFINE p == [type |-> "DATA", run |-> tx.run, seq |-> n \div Fragments,
                   offset |-> n % Fragments]
  <2>1. n \div Fragments \in 0 .. Frames - 1 /\ n % Fragments \in 0 .. Fragments - 1
        /\ Number(n \div Fragments, n % Fragments) = n
    BY NumberOfPacket
  <2>2. n \in Nat /\ n + 1 \in Nat
    BY Sizes
  <2>3. tx.phase = "DATA" /\ tx.passed <= n /\ Receive(p)
    <3>1. tx.phase = "DATA" /\ n \in tx.passed .. Frames * Fragments - 1 /\ Receive(p)
      BY <1>7 DEF TxData
    <3> QED
      BY <1>1, <2>2, <3>1, Sizes
  <2>4. tx'.run = tx.run /\ tx'.passed = n + 1 /\ tx'.phase = tx.phase
    BY <1>7 DEF TxData, TypeOK, TxTypes
  <2>5. /\ p \in Packet /\ p.run = tx.run /\ p.type = tx.phase /\ InRun(p)
        /\ Number(p.seq, p.offset) = n
    BY <1>1, <2>1, <2>3, Sizes DEF Packet, InRun
  <2> HIDE DEF p
  <2>6. QueueOk(rx_queue', tx.run, tx.phase, n + 1, run, Stage, taken)
    BY <1>1, <2>2, <2>3, <2>5, SentNow
  <2>7. TxInv'
    BY <1>1, <1>2, <1>3, <2>2, <2>3, <2>4 DEF TxInv
  <2> QED
    BY <1>2, <2>4, <2>6, <2>7 DEF QueueInv
<1> QED
  BY <1>4, <1>5, <1>6, <1>7 DEF TxStep

(* What the loop knows of the packet it takes, and of those behind it. *)
LEMMA TakenPacket ==
  ASSUME TypeOK, QueueInv, rx_queue # <<>>, rx_queue' = Tail(rx_queue),
         NEW p, p = Head(rx_queue)
  PROVE  /\ p \in Packet /\ rx_queue' \in Seq(Packet)
         /\ InRun(p) /\ SentBy(p, tx.run, tx.phase, tx.passed)
         /\ Ahead(p, run, Stage, taken)
         /\ QueueOk(rx_queue', tx.run, tx.phase, tx.passed, run, Stage, taken)
         /\ \A i \in DOMAIN rx_queue' : Precedes(p, rx_queue'[i])
<1>1. rx_queue \in Seq(Packet)
  BY DEF TypeOK, DataTypes
<1> QED
  BY <1>1, QueueTake DEF QueueInv

(* A START that is not a repetition begins a later run. *)
LEMMA LaterRun ==
  ASSUME TypeOK, QueueInv, TakeStart
  PROVE  Head(rx_queue).run \in Nat /\ run < Head(rx_queue).run
<1> DEFINE p == Head(rx_queue)
<1>1. /\ rx_queue # <<>> /\ rx_queue' = Tail(rx_queue) /\ p.type = "START"
      /\ ~(active /\ p.run = run)
  BY DEF TakeStart, Takes, NewStart, OfThisRun
<1>2. p \in Packet /\ Ahead(p, run, Stage, taken)
  BY <1>1, TakenPacket
<1>3. p.run \in Nat /\ run \in Nat
  BY <1>2 DEF TypeOK, DataTypes, Packet
<1> HIDE DEF p
<1>4. p.run # run
  BY <1>1, <1>2 DEF Ahead, Stage
<1> QED
  BY <1>2, <1>3, <1>4 DEF Ahead, p

(* The loop takes the head of the queue, and so stays behind all of it. *)
LEMMA LoopQueueStep ==
  ASSUME TypeOK, QueueInv, TxInv, FrameInv, ReportInv, NetStep
  PROVE  QueueInv' /\ TxInv'
<1> DEFINE p == Head(rx_queue)
<1>1. /\ rx_queue \in Seq(Packet) /\ tx.run \in Nat /\ tx.passed \in Nat
      /\ run \in Nat /\ tx.phase \in {"START", "DATA", "END", "idle"}
      /\ active \in BOOLEAN
  BY DEF TypeOK, DataTypes, TxTypes, FlagTypes
<1>2. CASE TakeStart
  <2>1. /\ rx_queue # <<>> /\ rx_queue' = Tail(rx_queue)
        /\ run' = p.run /\ tx' = tx /\ taken' = {} /\ Stage' = "open"
    BY <1>2 DEF TakeStart, Takes, Stage
  <2>2. /\ p \in Packet /\ rx_queue' \in Seq(Packet)
        /\ SentBy(p, tx.run, tx.phase, tx.passed)
        /\ QueueOk(rx_queue', tx.run, tx.phase, tx.passed, run, Stage, taken)
        /\ \A i \in DOMAIN rx_queue' : Precedes(p, rx_queue'[i])
    BY <2>1, TakenPacket
  <2>3. p.run \in Nat
    BY <2>2 DEF Packet
  <2> HIDE DEF p
  <2>4. ASSUME NEW i \in DOMAIN rx_queue' PROVE Ahead(rx_queue'[i], p.run, "open", {})
    BY <2>2, <2>3, <2>4, QueuedPacket DEF Precedes, Ahead
  <2>5. QueueInv'
    BY <2>1, <2>2, <2>4 DEF QueueInv, QueueOk
  <2>6. TxInv'
    BY <1>1, <2>1, <2>2, <2>3 DEF TxInv, SentBy
  <2> QED
    BY <2>5, <2>6
<1>3. CASE TakeData
  <2>1. /\ rx_queue # <<>> /\ rx_queue' = Tail(rx_queue) /\ p.type = "DATA"
        /\ run' = run /\ tx' = tx /\ taken' = taken \cup {<<p.seq, p.offset>>}
        /\ Stage = "open" /\ Stage' = "open" /\ p.run = run
    BY <1>3 DEF TakeData, Takes, OfThisRun, Stage
  <2>2. /\ p \in Packet /\ rx_queue' \in Seq(Packet)
        /\ SentBy(p, tx.run, tx.phase, tx.passed)
        /\ QueueOk(rx_queue', tx.run, tx.phase, tx.passed, run, Stage, taken)
        /\ \A i \in DOMAIN rx_queue' : Precedes(p, rx_queue'[i])
    BY <2>1, TakenPacket
  <2> HIDE DEF p
  <2>3. ASSUME NEW i \in DOMAIN rx_queue'
        PROVE  Ahead(rx_queue'[i], run, "open", taken')
    <3>1. Ahead(rx_queue'[i], run, "open", taken)
      BY <2>1, <2>2 DEF QueueOk
    <3>2. ASSUME rx_queue'[i].run = run, rx_queue'[i].type = "DATA"
          PROVE  Number(p.seq, p.offset) < Number(rx_queue'[i].seq, rx_queue'[i].offset)
      BY <1>1, <2>1, <2>2, <3>2 DEF Precedes
    <3> QED
      BY <2>1, <3>1, <3>2 DEF Ahead
  <2>4. QueueInv'
    BY <2>1, <2>2, <2>3 DEF QueueInv, QueueOk
  <2>5. run = tx.run => Number(p.seq, p.offset) < tx.passed
    BY <2>1, <2>2 DEF SentBy
  <2>6. TxInv'
    BY <2>1, <2>5 DEF TxInv
  <2> QED
    BY <2>4, <2>6
<1>4. CASE TakeEnd
  <2>1. /\ rx_queue # <<>> /\ rx_queue' = Tail(rx_queue) /\ p.type = "END"
        /\ run' = run /\ tx' = tx /\ taken' = taken
        /\ Stage' = "over" /\ p.run = run
    BY <1>4 DEF TakeEnd, Takes, EndsRun, OfThisRun, Stage
  <2>2. /\ p \in Packet /\ rx_queue' \in Seq(Packet)
        /\ SentBy(p, tx.run, tx.phase, tx.passed)
        /\ QueueOk(rx_queue', tx.run, tx.phase, tx.passed, run, Stage, taken)
        /\ \A i \in DOMAIN rx_queue' : Precedes(p, rx_queue'[i])
    BY <2>1, TakenPacket
  <2> HIDE DEF p
  <2>3. ASSUME NEW i \in DOMAIN rx_queue', rx_queue'[i].run = run
        PROVE  rx_queue'[i].type = "END"
    <3>1. rx_queue'[i].type \in {"START", "DATA", "END"}
      BY <2>2, QueuedPacket DEF Packet
    <3>2. Rank(rx_queue'[i].type) >= 3
      BY <1>1, <2>1, <2>2, <2>3, Ranks DEF Precedes
    <3> QED
      BY <3>1, <3>2, Ranks
  <2>4. ASSUME NEW i \in DOMAIN rx_queue'
        PROVE  Ahead(rx_queue'[i], run, "over", taken)
    BY <2>2, <2>3 DEF QueueOk, Ahead
  <2>5. QueueInv'
    BY <2>1, <2>2, <2>4 DEF QueueInv, QueueOk
  <2>6. run = tx.run => tx.phase \in {"END", "idle"}
    BY <1>1, <2>1, <2>2, Ranks DEF SentBy
  <2>7. TxInv'
    BY <2>1, <2>6 DEF TxInv
  <2> QED
    BY <2>5, <2>7
<1>5. CASE TakeOther
  <2>1. /\ rx_queue # <<>> /\ rx_queue' = Tail(rx_queue)
        /\ run' = run /\ tx' = tx /\ taken' = taken /\ Stage' = Stage
    BY <1>5 DEF TakeOther, Stage
  <2> QED
    BY <2>1, TakenPacket DEF QueueInv, TxInv
<1>6. CASE SendEnd \/ WaitStatus \/ CopyStatus \/ WaitTimeout
  <2>1. /\ rx_queue' = rx_queue /\ run' = run /\ tx' = tx /\ taken' = taken
        /\ Stage' = Stage
    BY <1>6 DEF SendEnd, WaitStatus, CopyStatus, WaitTimeout, Report, Stage
  <2> QED
    BY <2>1 DEF QueueInv, TxInv
<1> QED
  BY <1>2, <1>3, <1>4, <1>5, <1>6 DEF NetStep

(* Steps that leave the queue and the frames as they are. *)
LEMMA AppKeeps ==
  AppStep => UNCHANGED <<tx, rx_queue, netVars, pc, report, reported, late>>
BY DEF AppStep, AppTakes, StatusArrives, StatusLost

(* Queue and transmitter keep their order in every step. *)
LEMMA QueueStep ==
  /\ TypeOK /\ QueueInv /\ TxInv /\ FrameInv /\ ReportInv /\ [Next]_vars
  => QueueInv' /\ TxInv'
<1> SUFFICES ASSUME TypeOK, QueueInv, TxInv, FrameInv, ReportInv, [Next]_vars
             PROVE  QueueInv' /\ TxInv'
  OBVIOUS
<1>1. CASE AppStep \/ UNCHANGED vars
  <2>1. UNCHANGED <<tx, rx_queue, netVars, pc>>
    BY <1>1, AppKeeps DEF vars
  <2>2. Stage' = Stage
    BY <2>1 DEF Stage
  <2> QED
    BY <2>1, <2>2 DEF QueueInv, TxInv
<1> QED
  BY <1>1, TxQueueStep, LoopQueueStep DEF Next

(* A run is reported once: the loop leaves it and only later runs begin. *)
LEMMA ReportStep ==
  TypeOK /\ QueueInv /\ ReportInv /\ [Next]_vars => ReportInv'
<1> SUFFICES ASSUME TypeOK, QueueInv, ReportInv, [Next]_vars PROVE ReportInv'
  OBVIOUS
<1> USE DEF ReportInv
<1>1. run \in Nat /\ reported \in Seq(Nat)
  BY DEF TypeOK, DataTypes
<1>2. \A i \in DOMAIN reported : reported[i] \in Nat
  BY <1>1, ElementOfSeq, LenProperties
<1>3. CASE TxStep \/ AppStep \/ UNCHANGED vars
  BY <1>3, TxKeeps, AppKeeps DEF vars
<1>4. CASE TakeStart
  BY <1>1, <1>2, <1>4, LaterRun DEF TakeStart, Takes
<1>5. CASE TakeData \/ TakeEnd \/ TakeOther \/ SendEnd \/ WaitStatus
  BY <1>5 DEF TakeData, Takes, TakeEnd, EndsRun, OfThisRun, TakeOther, SendEnd,
              WaitStatus
<1>6. ASSUME NEW status, Report(status) PROVE ReportInv'
  <2>1. /\ reported' = Append(reported, run) /\ run' = run /\ ~active' /\ pc' = "loop"
    BY <1>6 DEF Report
  <2>2. /\ DOMAIN reported = 1 .. Len(reported) /\ Len(reported) \in Nat
        /\ DOMAIN reported' = 1 .. Len(reported) + 1
        /\ \A i \in 1 .. Len(reported) : reported'[i] = reported[i]
        /\ reported'[Len(reported) + 1] = run
    BY <1>1, <2>1, AppendProperties, LenProperties
  <2> QED
    BY <1>1, <2>1, <2>2
<1>7. CASE CopyStatus \/ WaitTimeout
  BY <1>6, <1>7 DEF CopyStatus, WaitTimeout
<1> QED
  BY <1>3, <1>4, <1>5, <1>7 DEF Next, NetStep

(* Only a run that was not reported yet is reported. *)
LEMMA OneReportStep ==
  TypeOK /\ ReportInv /\ OneReportPerRun /\ [Next]_vars => OneReportPerRun'
<1> SUFFICES ASSUME TypeOK, ReportInv, OneReportPerRun, [Next]_vars
             PROVE  OneReportPerRun'
  OBVIOUS
<1>1. run \in Nat /\ reported \in Seq(Nat)
  BY DEF TypeOK, DataTypes
<1>2. CASE reported' = reported
  BY <1>2 DEF OneReportPerRun, IsInjective
<1>3. CASE pc # "loop" /\ reported' = Append(reported, run)
  <2>1. /\ DOMAIN reported = 1 .. Len(reported) /\ Len(reported) \in Nat
        /\ DOMAIN reported' = 1 .. Len(reported) + 1
        /\ \A i \in 1 .. Len(reported) : reported'[i] = reported[i]
        /\ reported'[Len(reported) + 1] = run
    BY <1>1, <1>3, AppendProperties, LenProperties
  <2>2. \A i \in 1 .. Len(reported) : reported[i] # run
    BY <1>1, <1>3, <2>1 DEF ReportInv
  <2>3. \A i, j \in 1 .. Len(reported) : reported[i] = reported[j] => i = j
    BY <2>1 DEF OneReportPerRun, IsInjective
  <2> QED
    BY <2>1, <2>2, <2>3 DEF OneReportPerRun, IsInjective
<1>4. reported' = reported \/ (pc # "loop" /\ reported' = Append(reported, run))
  BY TxKeeps, AppKeeps DEF Next, NetStep, TakeStart, TakeData, TakeEnd, TakeOther,
     SendEnd, WaitStatus, CopyStatus, WaitTimeout, Report, vars
<1> QED
  BY <1>2, <1>3, <1>4

-----------------------------------------------------------------------------
(* Frames: the packet taken comes after all that were taken of its run. *)
LEMMA NextPacket ==
  ASSUME TypeOK, QueueInv, FrameInv, TakeData, NEW p, p = Head(rx_queue)
  PROVE  /\ p.seq \in 0 .. Frames - 1 /\ p.offset \in 0 .. Fragments - 1
         /\ \A x \in taken : x[1] <= p.seq /\ (x[1] = p.seq => x[2] < p.offset)
         /\ Assembled(p.seq, HaveBefore(p), taken)
         /\ HaveBefore(p) \in 0 .. Fragments
<1>1. /\ rx_queue # <<>> /\ rx_queue' = Tail(rx_queue) /\ p.type = "DATA"
      /\ p.run = run
  BY DEF TakeData, Takes, OfThisRun
<1>2. InRun(p) /\ Ahead(p, run, Stage, taken)
  BY <1>1, TakenPacket
<1>3. p.seq \in 0 .. Frames - 1 /\ p.offset \in 0 .. Fragments - 1
  BY <1>2 DEF InRun
<1>4. ASSUME NEW x \in taken
      PROVE  x[1] <= p.seq /\ (x[1] = p.seq => x[2] < p.offset)
  <2>1. Number(x[1], x[2]) < Number(p.seq, p.offset)
    BY <1>1, <1>2 DEF Ahead
  <2>2. x[1] \in 0 .. Frames - 1 /\ x[2] \in 0 .. Fragments - 1
    BY DEF FrameInv
  <2>3. x[1] \in Nat /\ p.seq \in Nat
    BY <1>3, <2>2, Sizes
  <2> QED
    BY <1>3, <2>1, <2>2, <2>3, NumberOrder
<1>5. have \in Nat /\ seq \in Int
  BY DEF TypeOK, DataTypes, NoSeq
<1>6. Assembled(p.seq, HaveBefore(p), taken) /\ HaveBefore(p) \in 0 .. Fragments
  <2>1. CASE p.seq = seq
    <3>1. HaveBefore(p) = have /\ Assembled(seq, have, taken)
      BY <2>1 DEF HaveBefore, FrameInv
    <3>2. have <= Fragments
      <4> SUFFICES ASSUME have > Fragments PROVE FALSE
        BY <1>5, Sizes
      <4>1. Fragments \in 0 .. have - 1
        BY <1>5, Sizes
      <4>2. <<seq, Fragments>> \in taken
        BY <3>1, <4>1 DEF Assembled
      <4>3. Fragments \in 0 .. Fragments - 1
        BY <4>2 DEF FrameInv
      <4> QED
        BY <4>3, Sizes
    <3> QED
      BY <1>5, <2>1, <3>1, <3>2, Sizes
  <2>2. CASE p.seq # seq
    <3>1. HaveBefore(p) = 0
      BY <2>2 DEF HaveBefore
    <3>2. <<p.seq, 0>> \notin taken
      <4> SUFFICES ASSUME <<p.seq, 0>> \in taken PROVE FALSE
        OBVIOUS
      <4>1. p.seq <= seq
        BY DEF FrameInv
      <4>2. seq # NoSeq
        BY <1>3, <4>1, Sizes DEF NoSeq
      <4>3. PICK x \in taken : x[1] = seq
        BY <4>2 DEF FrameInv
      <4>4. seq <= p.seq
        BY <1>4, <4>3
      <4> QED
        BY <1>3, <1>5, <2>2, <4>1, <4>4, Sizes
    <3> QED
      BY <3>1, <3>2, Sizes DEF Assembled
  <2> QED
    BY <2>1, <2>2
<1> QED
  BY <1>3, <1>4, <1>6

(* Taking a packet continues the frame, begins another or leaves a gap. *)
LEMMA FrameStep == TypeOK /\ QueueInv /\ FrameInv /\ [Next]_vars => FrameInv'
<1> SUFFICES ASSUME TypeOK, QueueInv, FrameInv, [Next]_vars PROVE FrameInv'
  OBVIOUS
<1>1. CASE TakeStart
  <2>1. taken' = {} /\ seq' = NoSeq /\ have' = 0
    BY <1>1 DEF TakeStart, ForgetFrame
  <2> QED
    BY <2>1 DEF FrameInv, Assembled
<1>2. CASE TakeData
  <2> DEFINE p == Head(rx_queue)
             h == HaveBefore(p)
             new == <<p.seq, p.offset>>
  <2>1. /\ taken' = taken \cup {new} /\ seq' = p.seq
        /\ have' = h + (IF p.offset = h THEN 1 ELSE 0)
    BY <1>2 DEF TakeData
  <2>2. /\ p.seq \in 0 .. Frames - 1 /\ p.offset \in 0 .. Fragments - 1
        /\ \A x \in taken : x[1] <= p.seq /\ (x[1] = p.seq => x[2] < p.offset)
        /\ Assembled(p.seq, h, taken) /\ h \in 0 .. Fragments
    BY <1>2, NextPacket
  <2> HIDE DEF h
  <2>3. p.seq \in Nat /\ p.offset \in Nat /\ h \in Nat
    BY <2>2, Sizes
  <2>4. /\ taken' \subseteq (0 .. Frames - 1) \X (0 .. Fragments - 1)
        /\ \A x \in taken' : x[1] <= p.seq
        /\ \E x \in taken' : x[1] = p.seq
    <3>1. new \in (0 .. Frames - 1) \X (0 .. Fragments - 1) /\ new[1] = p.seq
      BY <2>2
    <3> HIDE DEF new
    <3>2. taken' \subseteq (0 .. Frames - 1) \X (0 .. Fragments - 1)
      BY <2>1, <3>1 DEF FrameInv
    <3>3. \A x \in taken' : x[1] <= p.seq
      BY <2>1, <2>2, <2>3, <3>1
    <3> QED
      BY <2>1, <3>1, <3>2, <3>3
  <2>5. Assembled(p.seq, have', taken')
    <3>1. CASE p.offset = h
      <4>1. have' = h + 1 /\ \A k \in 0 .. h : k \in 0 .. h - 1 \/ k = h
        BY <2>1, <2>3, <3>1
      <4>2. \A k \in 0 .. have' - 1 : <<p.seq, k>> \in taken'
        BY <2>1, <2>2, <2>3, <3>1, <4>1 DEF Assembled
      <4>3. <<p.seq, h + 1>> \notin taken
        BY <2>2, <2>3, <3>1
      <4>4. <<p.seq, have'>> \notin taken'
        BY <2>1, <2>3, <3>1, <4>1, <4>3
      <4> QED
        BY <4>2, <4>4 DEF Assembled
    <3>2. CASE p.offset # h
      BY <2>1, <2>2, <2>3, <3>2 DEF Assembled
    <3> QED
      BY <3>1, <3>2
  <2> QED
    BY <2>1, <2>4, <2>5 DEF FrameInv
<1>3. CASE TxStep \/ AppStep \/ UNCHANGED vars
  BY <1>3, TxKeeps, AppKeeps DEF vars, FrameInv
<1>4. CASE TakeEnd \/ SendEnd \/ TakeOther \/ WaitStatus \/ CopyStatus \/ WaitTimeout
  BY <1>4 DEF TakeEnd, SendEnd, TakeOther, WaitStatus, CopyStatus, WaitTimeout,
              Report, FrameInv
<1> QED
  BY <1>1, <1>2, <1>3, <1>4 DEF Next, NetStep

(* The frames all of whose packets are in T. *)
WholeIn(s, T) == \A k \in 0 .. Fragments - 1 : <<s, k>> \in T
WholeOf(T) == {s \in 0 .. Frames - 1 : WholeIn(s, T)}

(* The property, with the packets taken as an argument. *)
LEMMA WholeForwarded ==
  /\ WholeFramesForwarded <=> Range(forwarded) = WholeOf(taken)
  /\ WholeFramesForwarded' <=> Range(forwarded') = WholeOf(taken')
BY DEF WholeFramesForwarded, Whole, WholeOf, WholeIn

(* A packet completes its frame exactly when it is forwarded. *)
LEMMA ForwardedWhole ==
  ASSUME TypeOK, QueueInv, FrameInv, TakeData, NEW p, p = Head(rx_queue)
  PROVE  /\ ~WholeIn(p.seq, taken)
         /\ WholeIn(p.seq, taken') <=> p.offset = HaveBefore(p) /\ p.offset + 1 = Fragments
         /\ \A s : s # p.seq => (WholeIn(s, taken') <=> WholeIn(s, taken))
<1> DEFINE h == HaveBefore(p)
           new == <<p.seq, p.offset>>
<1>1. taken' = taken \cup {new}
  BY DEF TakeData
<1>2. /\ p.seq \in 0 .. Frames - 1 /\ p.offset \in 0 .. Fragments - 1
      /\ \A x \in taken : x[1] <= p.seq /\ (x[1] = p.seq => x[2] < p.offset)
      /\ Assembled(p.seq, h, taken) /\ h \in 0 .. Fragments
  BY NextPacket
<1> HIDE DEF h
<1>3. p.seq \in Nat /\ p.offset \in Nat /\ h \in Nat
  BY <1>2, Sizes
<1>4. new \notin taken
  BY <1>2, <1>3
<1>5. ~WholeIn(p.seq, taken)
  BY <1>2, <1>4 DEF WholeIn
<1>6. ASSUME p.offset = h, p.offset + 1 = Fragments PROVE WholeIn(p.seq, taken')
  <2>1. \A k \in 0 .. Fragments - 1 : k \in 0 .. h - 1 \/ k = p.offset
    BY <1>3, <1>6
  <2> QED
    BY <1>1, <1>2, <2>1 DEF Assembled, WholeIn
<1>7. ASSUME WholeIn(p.seq, taken') PROVE p.offset = h /\ p.offset + 1 = Fragments
  <2>1. \A k \in 0 .. Fragments - 1 : <<p.seq, k>> \in taken \/ k = p.offset
    BY <1>1, <1>7 DEF WholeIn
  <2>2. p.offset + 1 = Fragments
    <3> SUFFICES ASSUME p.offset + 1 # Fragments PROVE FALSE
      OBVIOUS
    <3>1. p.offset + 1 \in 0 .. Fragments - 1
      BY <1>2, <1>3, Sizes
    <3>2. <<p.seq, p.offset + 1>> \in taken
      BY <1>3, <2>1, <3>1
    <3> QED
      BY <1>2, <1>3, <3>2
  <2>3. p.offset = h
    <3>1. CASE h \in 0 .. Fragments - 1
      BY <1>2, <2>1, <3>1 DEF Assembled
    <3>2. CASE h = Fragments
      <4>1. p.offset \in 0 .. h - 1
        BY <1>2, <3>2
      <4> QED
        BY <1>2, <1>4, <4>1 DEF Assembled
    <3> QED
      BY <1>2, <3>1, <3>2, Sizes
  <2> QED
    BY <2>2, <2>3
<1>8. ASSUME NEW s, s # p.seq PROVE WholeIn(s, taken') <=> WholeIn(s, taken)
  BY <1>1, <1>8 DEF WholeIn
<1> QED
  BY <1>5, <1>6, <1>7, <1>8 DEF h

(* A forwarded frame is added to those that were. *)
LEMMA RangeAppend ==
  ASSUME NEW S, NEW s \in Seq(S), NEW e \in S
  PROVE  Range(Append(s, e)) = Range(s) \cup {e}
<1> DEFINE a == Append(s, e)
<1>1. /\ Len(s) \in Nat /\ DOMAIN s = 1 .. Len(s) /\ DOMAIN a = 1 .. Len(s) + 1
      /\ \A i \in DOMAIN s : a[i] = s[i]
      /\ a[Len(s) + 1] = e
  BY AppendProperties, LenProperties
<1>2. DOMAIN a = DOMAIN s \cup {Len(s) + 1}
  BY <1>1
<1> HIDE DEF a
<1>3. Range(a) = Range(s) \cup {e}
  BY <1>1, <1>2 DEF Range
<1> QED
  BY <1>3 DEF a

(* A frame that is forwarded comes after those forwarded before it. *)
LEMMA ForwardLast ==
  ASSUME TypeOK, QueueInv, FrameInv, ForwardInv, WholeFramesForwarded, TakeData,
         NEW p, p = Head(rx_queue)
  PROVE  /\ \A i \in DOMAIN forwarded : forwarded[i] < p.seq
         /\ p.seq >= Len(forwarded) /\ p.seq \in Nat
<1>1. /\ p.seq \in 0 .. Frames - 1
      /\ \A x \in taken : x[1] <= p.seq
  BY NextPacket
<1>2. forwarded \in Seq(Nat) /\ Len(forwarded) \in Nat
      /\ DOMAIN forwarded = 1 .. Len(forwarded)
  BY LenProperties DEF TypeOK, DataTypes
<1>3. p.seq \in Nat
  BY <1>1, Sizes
<1>4. ASSUME NEW i \in DOMAIN forwarded PROVE forwarded[i] < p.seq
  <2> DEFINE f == forwarded[i]
  <2>1. f \in Range(forwarded)
    BY DEF Range
  <2>2. f \in 0 .. Frames - 1 /\ WholeIn(f, taken)
    BY <2>1, WholeForwarded DEF WholeOf
  <2> HIDE DEF f
  <2>3. <<f, 0>> \in taken
    BY <2>2, Sizes DEF WholeIn
  <2>4. f <= p.seq
    BY <1>1, <2>3
  <2>5. f # p.seq
    BY <2>2, ForwardedWhole
  <2>6. f < p.seq
    BY <1>3, <2>2, <2>4, <2>5, Sizes
  <2> QED
    BY <2>6 DEF f
<1>5. p.seq >= Len(forwarded)
  <2>1. CASE Len(forwarded) = 0
    BY <1>3, <2>1
  <2>2. CASE Len(forwarded) # 0
    <3>1. Len(forwarded) \in DOMAIN forwarded
      BY <1>2, <2>2
    <3>2. forwarded[Len(forwarded)] \in Nat
      BY <1>2, <3>1, ElementOfSeq
    <3>3. forwarded[Len(forwarded)] >= Len(forwarded) - 1
      BY <3>1 DEF ForwardInv
    <3> QED
      BY <1>2, <1>3, <1>4, <3>1, <3>2, <3>3
  <2> QED
    BY <2>1, <2>2
<1> QED
  BY <1>3, <1>4, <1>5

(* Forwarding keeps the order and tells whole frames from others. *)
LEMMA ForwardStep ==
  /\ TypeOK /\ QueueInv /\ FrameInv /\ ForwardInv /\ WholeFramesForwarded
  /\ [Next]_vars
  => ForwardInv' /\ WholeFramesForwarded'
<1> SUFFICES ASSUME TypeOK, QueueInv, FrameInv, ForwardInv, WholeFramesForwarded,
                    [Next]_vars
             PROVE  ForwardInv' /\ WholeFramesForwarded'
  OBVIOUS
<1>1. CASE TakeStart
  <2>1. taken' = {} /\ forwarded' = <<>> /\ good' = 0
    BY <1>1 DEF TakeStart
  <2>2. \A s : ~WholeIn(s, taken')
    BY <2>1, Sizes DEF WholeIn
  <2>3. Range(forwarded') = {}
    BY <2>1 DEF Range
  <2>4. ForwardInv'
    BY <2>1, EmptySeq DEF ForwardInv
  <2>5. WholeFramesForwarded'
    BY <2>2, <2>3, WholeForwarded DEF WholeOf
  <2> QED
    BY <2>4, <2>5
<1>2. CASE TakeData
  <2> DEFINE p == Head(rx_queue)
             complete == p.offset = HaveBefore(p) /\ p.offset + 1 = Fragments
  <2>1. /\ forwarded' = IF complete THEN Append(forwarded, p.seq) ELSE forwarded
        /\ good' = good + (IF complete THEN 1 ELSE 0)
    BY <1>2 DEF TakeData
  <2>2. /\ ~WholeIn(p.seq, taken)
        /\ WholeIn(p.seq, taken') <=> complete
        /\ \A s : s # p.seq => (WholeIn(s, taken') <=> WholeIn(s, taken))
    BY <1>2, ForwardedWhole
  <2>3. p.seq \in 0 .. Frames - 1 /\ p.seq \in Nat
    BY <1>2, NextPacket, ForwardLast
  <2>4. /\ \A i \in DOMAIN forwarded : forwarded[i] < p.seq
        /\ p.seq >= Len(forwarded)
    BY <1>2, ForwardLast
  <2>5. /\ forwarded \in Seq(Nat) /\ Len(forwarded) \in Nat /\ good \in Nat
        /\ DOMAIN forwarded = 1 .. Len(forwarded)
    BY LenProperties DEF TypeOK, DataTypes
  <2> HIDE DEF p, complete
  <2>6. CASE complete
    <3>1. forwarded' = Append(forwarded, p.seq) /\ good' = good + 1
      BY <2>1, <2>6
    <3>2. /\ DOMAIN forwarded' = 1 .. Len(forwarded) + 1
          /\ Len(forwarded') = Len(forwarded) + 1
          /\ \A i \in 1 .. Len(forwarded) : forwarded'[i] = forwarded[i]
          /\ forwarded'[Len(forwarded) + 1] = p.seq
      BY <2>3, <2>5, <3>1, AppendProperties, LenProperties
    <3>3. \A i \in DOMAIN forwarded' :
             i \in DOMAIN forwarded \/ (i = Len(forwarded) + 1 /\ forwarded'[i] = p.seq)
      BY <2>5, <3>2
    <3>4. ASSUME NEW i \in DOMAIN forwarded', NEW j \in DOMAIN forwarded', i < j
          PROVE  forwarded'[i] < forwarded'[j]
      <4>1. i \in DOMAIN forwarded
        BY <2>5, <3>2, <3>4
      <4> QED
        BY <2>4, <2>5, <3>2, <3>3, <3>4, <4>1 DEF ForwardInv
    <3>5. ASSUME NEW i \in DOMAIN forwarded' PROVE forwarded'[i] >= i - 1
      BY <2>3, <2>4, <2>5, <3>2, <3>3, <3>5 DEF ForwardInv
    <3>6. ForwardInv'
      BY <2>5, <3>1, <3>2, <3>4, <3>5 DEF ForwardInv
    <3>7. Range(forwarded') = Range(forwarded) \cup {p.seq}
      BY <2>3, <2>5, <3>1, RangeAppend
    <3>8. WholeFramesForwarded'
      BY <2>2, <2>3, <2>6, <3>7, WholeForwarded DEF WholeOf
    <3> QED
      BY <3>6, <3>8
  <2>7. CASE ~complete
    <3>1. forwarded' = forwarded /\ good' = good
      BY <2>1, <2>5, <2>7
    <3>2. \A s : WholeIn(s, taken') <=> WholeIn(s, taken)
      BY <2>2, <2>7
    <3>3. WholeFramesForwarded'
      BY <3>1, <3>2, WholeForwarded DEF WholeOf
    <3> QED
      BY <3>1, <3>3 DEF ForwardInv
  <2> QED
    BY <2>6, <2>7
<1>3. CASE TxStep \/ AppStep \/ UNCHANGED vars
  <2>1. UNCHANGED <<good, forwarded, taken>>
    BY <1>3, TxKeeps, AppKeeps DEF vars
  <2> QED
    BY <2>1 DEF ForwardInv, WholeFramesForwarded, Whole
<1>4. CASE TakeEnd \/ SendEnd \/ TakeOther \/ WaitStatus \/ CopyStatus \/ WaitTimeout
  <2>1. UNCHANGED <<good, forwarded, taken>>
    BY <1>4 DEF TakeEnd, SendEnd, TakeOther, WaitStatus, CopyStatus, WaitTimeout,
                Report
  <2> QED
    BY <2>1 DEF ForwardInv, WholeFramesForwarded, Whole
<1> QED
  BY <1>1, <1>2, <1>3, <1>4 DEF Next, NetStep

-----------------------------------------------------------------------------
(* What the application core owes shrinks as it works. *)
LEMMA OwedShrinks ==
  ASSUME DataTypes, AppStep PROVE Owed' \subseteq Owed
<1>1. CASE AppTakes
  <2> DEFINE h == Head(app_q)
  <2>1. /\ app_q \in Seq(AppMessage) /\ app_q # <<>> /\ app_q' = Tail(app_q)
        /\ answering = 0
    BY <1>1 DEF AppTakes, DataTypes
  <2>2. /\ Len(app_q) \in Nat \ {0} /\ DOMAIN app_q = 1 .. Len(app_q) /\ h = app_q[1]
        /\ DOMAIN app_q' = 1 .. Len(app_q) - 1 /\ h \in AppMessage
        /\ \A i \in DOMAIN app_q' : app_q'[i] = app_q[i + 1]
    BY <2>1, HeadTailProperties, LenProperties, EmptySeq
  <2>3. 1 \in DOMAIN app_q /\ \A i \in DOMAIN app_q' : i + 1 \in DOMAIN app_q
    BY <2>2
  <2>4. \/ h.type = "START" /\ answering' = answering
        \/ h.type # "START" /\ answering' \in {0, h.run}
    BY <1>1 DEF AppTakes
  <2>5. h.type # "START" => h.type = "END"
    BY <2>2 DEF AppMessage
  <2> HIDE DEF h
  <2>6. answering' # 0 => answering' \in Owed
    BY <2>1, <2>2, <2>3, <2>4, <2>5 DEF Owed
  <2>7. ASSUME NEW i \in DOMAIN app_q', app_q'[i].type = "END"
        PROVE  app_q'[i].run \in Owed
    BY <2>2, <2>3, <2>7 DEF Owed
  <2> QED
    BY <2>6, <2>7 DEF Owed
<1>2. CASE StatusArrives \/ StatusLost
  BY <1>2 DEF StatusArrives, StatusLost, Owed
<1> QED
  BY <1>1, <1>2 DEF AppStep

(* An END that is sent makes one more status owed. *)
LEMMA OwedGrows ==
  ASSUME DataTypes, SendApp([type |-> "END", run |-> run]), answering' = answering
  PROVE  Owed' \subseteq Owed \cup {run}
<1> DEFINE m == [type |-> "END", run |-> run]
<1>1. app_q \in Seq(AppMessage) /\ m \in AppMessage /\ m.run = run
  BY DEF DataTypes, AppMessage
<1>2. app_q' = app_q \/ app_q' = Append(app_q, m)
  BY DEF SendApp
<1> HIDE DEF m
<1>3. CASE app_q' = app_q
  BY <1>3 DEF Owed
<1>4. CASE app_q' = Append(app_q, m)
  <2>1. /\ DOMAIN app_q = 1 .. Len(app_q) /\ Len(app_q) \in Nat
        /\ DOMAIN app_q' = 1 .. Len(app_q) + 1
        /\ \A i \in 1 .. Len(app_q) : app_q'[i] = app_q[i]
        /\ app_q'[Len(app_q) + 1] = m
    BY <1>1, <1>4, AppendProperties, LenProperties
  <2>2. \A i \in DOMAIN app_q' : i \in DOMAIN app_q \/ app_q'[i] = m
    BY <2>1
  <2>3. ASSUME NEW i \in DOMAIN app_q', app_q'[i].type = "END"
        PROVE  app_q'[i].run \in Owed \cup {run}
    <3>1. CASE i \in DOMAIN app_q
      BY <2>1, <2>3, <3>1 DEF Owed
    <3>2. CASE app_q'[i] = m
      BY <1>1, <3>2
    <3> QED
      BY <2>2, <3>1, <3>2
  <2>4. {answering'} \ {0} \subseteq Owed
    BY DEF Owed
  <2> QED
    BY <2>3, <2>4 DEF Owed
<1> QED
  BY <1>2, <1>3, <1>4

(* Whatever status arrives after the END was owed then or is its answer.   *)
LEMMA StatusStep == TypeOK /\ StatusInv /\ [Next]_vars => StatusInv'
<1> SUFFICES ASSUME TypeOK, StatusInv, [Next]_vars PROVE StatusInv'
  OBVIOUS
<1>1. DataTypes
  BY DEF TypeOK
<1>2. CASE TxStep \/ UNCHANGED vars
  <2>1. UNCHANGED <<app_q, answering, pc, status_sem, last_status, copied, late, run>>
    BY <1>2, TxKeeps DEF vars
  <2>2. Owed' = Owed
    BY <2>1 DEF Owed
  <2> QED
    BY <2>1, <2>2 DEF StatusInv
<1>3. CASE AppStep
  <2>1. UNCHANGED <<pc, late, run>>
    BY <1>3, AppKeeps
  <2>2. Owed' \subseteq Owed
    BY <1>1, <1>3, OwedShrinks
  <2>3. CASE AppTakes \/ StatusLost
    <3>1. UNCHANGED <<status_sem, last_status, copied>>
      BY <2>3 DEF AppTakes, StatusLost
    <3> QED
      BY <2>1, <2>2, <3>1 DEF StatusInv
  <2>4. CASE StatusArrives
    <3>1. last_status' = answering /\ answering \in Owed /\ copied' = copied
      BY <2>4 DEF StatusArrives, Owed
    <3> QED
      BY <2>1, <2>2, <3>1 DEF StatusInv
  <2> QED
    BY <1>3, <2>3, <2>4 DEF AppStep
<1>4. CASE TakeStart \/ TakeData \/ TakeOther
  <2>1. pc' = "loop"
    BY <1>4 DEF TakeStart, TakeData, TakeOther, Takes
  <2> QED
    BY <2>1 DEF StatusInv
<1>5. CASE TakeEnd
  <2>1. pc' = "end" /\ ~status_sem' /\ late' = Owed /\ Owed' = Owed
    BY <1>5 DEF TakeEnd, DiscardedStatus, Owed
  <2> QED
    BY <2>1 DEF StatusInv
<1>6. CASE SendEnd
  <2>1. pc = "end" /\ pc' = "wait"
        /\ UNCHANGED <<status_sem, last_status, copied, late, run>>
    BY <1>6 DEF SendEnd
  <2>2. Owed' \subseteq Owed \cup {run}
    BY <1>1, <1>6, OwedGrows DEF SendEnd
  <2> QED
    BY <2>1, <2>2 DEF StatusInv
<1>7. CASE WaitStatus
  <2>1. /\ pc = "wait" /\ status_sem /\ pc' = "copy" /\ copied' = last_status
        /\ UNCHANGED <<last_status, late, run>> /\ Owed' = Owed
    BY <1>7 DEF WaitStatus, Owed
  <2> QED
    BY <2>1 DEF StatusInv
<1>8. CASE CopyStatus \/ WaitTimeout
  <2>1. pc' = "loop"
    BY <1>8 DEF CopyStatus, WaitTimeout, Report
  <2> QED
    BY <2>1 DEF StatusInv
<1> QED
  BY <1>2, <1>3, <1>4, <1>5, <1>6, <1>7, <1>8 DEF Next, NetStep

(* Hence both parts of the status that is reported. *)
LEMMA OwnStep == StatusInv /\ StatusIsOwn /\ [Next]_vars => StatusIsOwn'
<1> SUFFICES ASSUME StatusInv, StatusIsOwn, [Next]_vars PROVE StatusIsOwn'
  OBVIOUS
<1>1. CASE report' = report
  BY <1>1 DEF StatusIsOwn
<1>2. CASE CopyStatus
  <2>1. pc = "copy" /\ report' = [run |-> run, good |-> good,
                                  status |-> <<copied, last_status>>, late |-> late]
    BY <1>2 DEF CopyStatus, Report
  <2>2. copied \in late \cup {run} /\ last_status \in late \cup {run}
    BY <2>1 DEF StatusInv
  <2>3. /\ report'.run = run /\ report'.late = late
        /\ report'.status[1] = copied /\ report'.status[2] = last_status
    BY <2>1
  <2> QED
    BY <2>2, <2>3 DEF StatusIsOwn
<1>3. CASE WaitTimeout
  <2>1. report'.status[1] = 0 /\ report'.status[2] = 0
    BY <1>3 DEF WaitTimeout, Report
  <2> QED
    BY <2>1 DEF StatusIsOwn
<1>4. report' = report \/ CopyStatus \/ WaitTimeout
  BY TxKeeps, AppKeeps DEF Next, NetStep, TakeStart, TakeData, TakeEnd, TakeOther,
     SendEnd, WaitStatus, vars
<1> QED
  BY <1>1, <1>2, <1>3, <1>4

-----------------------------------------------------------------------------
(* Nothing was sent, taken or reported yet. *)
LEMMA NetInit == Init => NetInv
<1> SUFFICES ASSUME Init PROVE NetInv
  OBVIOUS
<1>1. TypeOK
  BY TypeInit
<1>2. QueueInv /\ TxInv
  BY DEF Init, QueueInv, QueueOk, Ordered, TxInv
<1>3. FrameInv
  BY DEF Init, FrameInv, Assembled
<1>4. ForwardInv
  BY EmptySeq DEF Init, ForwardInv
<1>5. WholeFramesForwarded
  <2>1. Range(forwarded) = {} /\ \A s : ~WholeIn(s, taken)
    BY Sizes DEF Init, Range, WholeIn
  <2> QED
    BY <2>1, WholeForwarded DEF WholeOf
<1>6. ReportInv /\ OneReportPerRun
  BY DEF Init, ReportInv, OneReportPerRun, IsInjective
<1>7. StatusInv /\ StatusIsOwn
  BY DEF Init, StatusInv, StatusIsOwn, NoReport
<1> QED
  BY <1>1, <1>2, <1>3, <1>4, <1>5, <1>6, <1>7 DEF NetInv

(* The transmitter, both cores and what lies between them keep it. *)
LEMMA NetStepKeeps == NetInv /\ [Next]_vars => NetInv'
BY TypeStep, QueueStep, FrameStep, ForwardStep, ReportStep, OneReportStep,
   StatusStep, OwnStep DEF NetInv

(* What the theorems below rest on. *)
LEMMA NetInvariant == Spec => []NetInv
BY NetInit, NetStepKeeps, PTL DEF Spec

(* A frame is forwarded to the application core exactly when all its       *)
(* packets reached the loop of main.c, whatever was lost around it.        *)
THEOREM NetWholeFramesForwarded == Spec => []WholeFramesForwarded
<1>1. NetInv => WholeFramesForwarded
  BY DEF NetInv
<1> QED
  BY <1>1, NetInvariant, PTL

(* Frames are forwarded in order and once each, and there are no more good *)
(* ones than frames: the missing frames of the report cannot wrap around.  *)
THEOREM NetForwardedInOrder == Spec => []ForwardedInOrder
<1>1. NetInv => ForwardedInOrder
  <2> SUFFICES ASSUME NetInv PROVE ForwardedInOrder
    OBVIOUS
  <2>1. /\ forwarded \in Seq(Nat) /\ Len(forwarded) \in Nat
        /\ DOMAIN forwarded = 1 .. Len(forwarded)
    BY LenProperties DEF NetInv, TypeOK, DataTypes
  <2>2. Len(forwarded) <= Frames
    <3>1. CASE Len(forwarded) = 0
      BY <3>1, Sizes
    <3>2. CASE Len(forwarded) # 0
      <4>1. Len(forwarded) \in DOMAIN forwarded
        BY <2>1, <3>2
      <4>2. forwarded[Len(forwarded)] \in Range(forwarded)
        BY <4>1 DEF Range
      <4>3. forwarded[Len(forwarded)] \in 0 .. Frames - 1
        BY <4>2 DEF NetInv, WholeFramesForwarded
      <4>4. forwarded[Len(forwarded)] >= Len(forwarded) - 1
        BY <4>1 DEF NetInv, ForwardInv
      <4> QED
        BY <2>1, <4>3, <4>4, Sizes
    <3> QED
      BY <3>1, <3>2
  <2> QED
    BY <2>2 DEF NetInv, ForwardInv, ForwardedInOrder
<1> QED
  BY <1>1, NetInvariant, PTL

(* A run is reported once, although its START and END come several times.  *)
THEOREM NetOneReportPerRun == Spec => []OneReportPerRun
<1>1. NetInv => OneReportPerRun
  BY DEF NetInv
<1> QED
  BY <1>1, NetInvariant, PTL

(* The status of a report is of the run it reports, in both the parts that *)
(* rx_ipc_wait_status copies, or was owed already when the END was sent.   *)
THEOREM NetStatusIsOwn == Spec => []StatusIsOwn
<1>1. NetInv => StatusIsOwn
  BY DEF NetInv
<1> QED
  BY <1>1, NetInvariant, PTL
=============================================================================
