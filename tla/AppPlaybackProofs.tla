-------------------------- MODULE AppPlaybackProofs -------------------------
(***************************************************************************)
(* Theorems of AppPlayback, for every mailbox, slab and prefill, every set *)
(* of run lengths and any number of runs.                                  *)
(***************************************************************************)
EXTENDS AppPlayback, SequenceTheorems, TLAPS

USE DEF runVars, outVars, reported

Block == [run : Nat, seq : Nat, concealed : BOOLEAN]

DataTypes ==
  /\ mailbox \in Seq(Message) /\ msg \in Message
  /\ run \in Nat /\ expected \in Nat /\ next_sequence \in Nat
  /\ decoded \in Nat /\ plc_frames \in Nat /\ i2s_blocks \in Nat
  /\ i2s_errors \in Nat /\ i2s_underruns \in Nat /\ dma_released \in Nat
  /\ pc \in {"idle", "frame", "finish", "sleep"}
  /\ driver \in {"READY", "RUNNING", "STOPPING", "ERROR"}
  /\ slab \in Seq(Block) /\ heard \in Seq(Block)

FlagTypes == active \in BOOLEAN /\ i2s_started \in BOOLEAN /\ restarted \in BOOLEAN

NetTypes == net \in [run : Nat, total : Nat, next : Nat, open : BOOLEAN]

TypeOK == DataTypes /\ FlagTypes /\ NetTypes

(* A frame of a run of this length is one of its frames. *)
Fits(m, r, total) == m.type = "FRAME" /\ m.run = r => m.seq < total

(* The network core is in run n, of length t: it sent this message.        *)
SentBy(m, n, t) ==
  /\ m.run <= n
  /\ m.type = "START" => /\ m.seq \in FrameTotals
                         /\ m.run = n => m.seq = t

(* No frame in the mailbox exceeds the length its run has, be it the one   *)
(* main is in (r, of length e) or one that a START before it begins.       *)
MailInv(q, n, t, r, e) ==
  /\ \A i \in DOMAIN q : SentBy(q[i], n, t) /\ Fits(q[i], r, e)
  /\ \A i, j \in DOMAIN q :
       i < j /\ q[i].type = "START" => Fits(q[j], q[i].run, q[i].seq)
  /\ r <= n
  /\ r = n => e = t

SentInv == MailInv(mailbox, net.run, net.total, run, expected)

(* What main knows where it is: its message is due, its run is complete.   *)
PlaceInv ==
  /\ pc # "idle" => active
  /\ active => expected \in FrameTotals
  /\ pc = "frame" => /\ msg.type = "FRAME" /\ msg.run = run
                     /\ next_sequence <= msg.seq /\ msg.seq < expected
  /\ pc = "sleep" => next_sequence = expected

(* The counters of the run agree with each other. *)
CountInv ==
  /\ decoded = next_sequence /\ next_sequence <= expected
  /\ i2s_blocks + i2s_underruns = decoded

(* The sleep covers what is left to drain: the slab holds no more, and what*)
(* the driver has includes the blocks of the run until it starts.          *)
DrainInv ==
  /\ sleep \in Nat /\ held \in Nat /\ held <= SlabBlocks
  /\ driver = "RUNNING" => held >= 1
  /\ driver = "STOPPING" => pc = "sleep" /\ held >= 1 /\ held <= sleep
  /\ active /\ pc # "sleep" /\ driver = "READY" => held >= i2s_blocks

(* The driver does what this run had it do, unless a run was interrupted.  *)
DriverInv ==
  /\ i2s_started => driver \in {"RUNNING", "ERROR"} /\ active /\ pc # "sleep"
  /\ ~restarted => IF pc = "sleep" THEN driver \in {"STOPPING", "READY"}
                                   ELSE driver = "READY" \/ i2s_started

(* The run so far would pass the bench's validator. *)
Clean == plc_frames = 0 /\ i2s_errors = 0 /\ i2s_underruns = 0

(* The stream ends with the first n frames of the run, none concealed.     *)
EndsWith(stream, r, n) ==
  /\ n <= Len(stream)
  /\ \A k \in 1 .. n : stream[Len(stream) - n + k] =
                         [run |-> r, seq |-> k - 1, concealed |-> FALSE]

(* As long as the run is clean, what was heard since it began and what the *)
(* driver has end with the frames written, and only played blocks came     *)
(* back; its stream is started at the prefill and drained at its end.      *)
StreamInv ==
  /\ Clean /\ driver # "ERROR" => /\ dma_released = Len(heard)
                                  /\ EndsWith(heard \o slab, run, i2s_blocks)
  /\ active /\ Clean /\ i2s_blocks >= Prefill /\ pc # "sleep" => i2s_started
  /\ pc = "sleep" /\ Clean => driver \in {"STOPPING", "READY"}

AppInv ==
  /\ TypeOK /\ SentInv /\ PlaceInv /\ CountInv /\ DrainInv /\ DriverInv
  /\ StreamInv /\ StatusComplete /\ PassedRunWasPlayed

-----------------------------------------------------------------------------
(* A run in which frames occur has a length in Nat, above the prefill.     *)
LEMMA Totals == \A n \in FrameTotals : n \in Nat /\ n >= Prefill /\ n # 0
BY PlaybackAssumption

(* Init of the data. *)
LEMMA TypeInit == Init => TypeOK
<1> SUFFICES ASSUME Init PROVE TypeOK
  OBVIOUS
<1>1. DataTypes
  BY DEF Init, DataTypes, NoMessage, Message
<1>2. FlagTypes
  BY DEF Init, FlagTypes
<1>3. NetTypes
  BY DEF Init, NetTypes
<1> QED
  BY <1>1, <1>2, <1>3 DEF TypeOK

(* What k_msgq_put leaves in the mailbox. *)
LEMMA DeliverTypes ==
  ASSUME mailbox \in Seq(Message), NEW m \in Message, Deliver(m)
  PROVE  mailbox' \in Seq(Message)
BY AppendProperties DEF Deliver

(* Steps of the network core keep the types. *)
LEMMA NetTypesStep ==
  ASSUME TypeOK, NetStep PROVE DataTypes' /\ NetTypes'
<1> USE DEF TypeOK
<1>1. ASSUME NEW total \in FrameTotals, NetStart(total) PROVE DataTypes' /\ NetTypes'
  <2>1. net.run + 1 \in Nat /\ total \in Nat
    BY Totals DEF NetTypes
  <2>2. NetTypes'
    BY <1>1, <2>1 DEF NetStart, NetTypes
  <2>3. mailbox' \in Seq(Message)
    <3>1. [type |-> "START", run |-> net.run + 1, seq |-> total] \in Message
      BY <2>1 DEF Message
    <3> QED
      BY <1>1, <3>1, DeliverTypes DEF NetStart, Sends, DataTypes
  <2> QED
    BY <1>1, <2>2, <2>3 DEF NetStart, Sends, DataTypes
<1>2. ASSUME NEW seq \in 0 .. net.total, NetFrame(seq) PROVE DataTypes' /\ NetTypes'
  <2>1. seq \in Nat
    BY DEF NetTypes
  <2>2. NetTypes'
    BY <1>2, <2>1 DEF NetFrame, NetTypes
  <2>3. [type |-> "FRAME", run |-> net.run, seq |-> seq] \in Message
    BY <2>1 DEF Message, NetTypes
  <2>4. mailbox' \in Seq(Message)
    BY <1>2, <2>3, DeliverTypes DEF NetFrame, Sends, DataTypes
  <2> QED
    BY <1>2, <2>2, <2>4 DEF NetFrame, Sends, DataTypes
<1>3. CASE NetEnd
  <2>1. NetTypes'
    BY <1>3 DEF NetEnd, NetTypes
  <2>2. [type |-> "END", run |-> net.run, seq |-> net.total] \in Message
    BY DEF Message, NetTypes
  <2>3. mailbox' \in Seq(Message)
    BY <1>3, <2>2, DeliverTypes DEF NetEnd, Sends, DataTypes
  <2> QED
    BY <1>3, <2>1, <2>3 DEF NetEnd, Sends, DataTypes
<1> QED
  BY <1>1, <1>2, <1>3 DEF NetStep

(* What a block that was played does to the types. *)
LEMMA BlockDoneTypes ==
  ASSUME DataTypes, held > 0, BlockDone
  PROVE  slab' \in Seq(Block) /\ heard' \in Seq(Block) /\ dma_released' \in Nat
<1>1. slab # <<>>
  BY DEF held, DataTypes
<1>2. Tail(slab) \in Seq(Block) /\ Head(slab) \in Block
  BY <1>1, HeadTailProperties DEF DataTypes
<1>3. Append(heard, Head(slab)) \in Seq(Block)
  BY <1>2, AppendProperties DEF DataTypes
<1> QED
  BY <1>2, <1>3 DEF BlockDone, DataTypes

(* Steps of the driver and of time keep the types. *)
LEMMA DmaTypesStep ==
  ASSUME TypeOK, DmaStep PROVE DataTypes' /\ NetTypes'
<1> USE DEF TypeOK, OthersUnchanged
<1>1. held \in Nat
  BY DEF held, DataTypes
<1>2. CASE BlockPlayed
  <2>1. held > 0 /\ BlockDone
    BY <1>1, <1>2 DEF BlockPlayed
  <2> QED
    BY <1>2, <2>1, BlockDoneTypes DEF BlockPlayed, DataTypes, NetTypes
<1>3. CASE Underrun
  BY <1>1, <1>3 DEF Underrun, DataTypes, NetTypes
<1>4. CASE DrainPeriod
  BY <1>1, <1>4, BlockDoneTypes DEF DrainPeriod, Draining, DataTypes, NetTypes
<1>5. CASE SleepPeriod
  BY <1>5 DEF SleepPeriod, DataTypes, NetTypes
<1> QED
  BY <1>2, <1>3, <1>4, <1>5 DEF DmaStep

(* What the output of a frame does to the types. *)
LEMMA OutputTypes ==
  ASSUME DataTypes, NetTypes, NEW sequence \in Nat, NEW concealed \in BOOLEAN,
         Output(sequence, concealed)
  PROVE  /\ mailbox' = mailbox /\ run' = run /\ expected' = expected
         /\ heard' = heard /\ NetTypes' /\ dma_released' = dma_released
         /\ decoded' \in Nat /\ plc_frames' \in Nat /\ next_sequence' \in Nat
         /\ i2s_blocks' \in Nat /\ i2s_errors' \in Nat /\ i2s_underruns' \in Nat
         /\ driver' \in {"READY", "RUNNING", "STOPPING", "ERROR"}
         /\ slab' \in Seq(Block)
<1>1. slab' \in Seq(Block)
  <2>1. [run |-> msg.run, seq |-> sequence, concealed |-> concealed] \in Block
    BY DEF Block, DataTypes, Message
  <2> QED
    BY <2>1, AppendProperties DEF Output, WriteBlock, DataTypes
<1>2. /\ mailbox' = mailbox /\ run' = run /\ expected' = expected
      /\ heard' = heard /\ NetTypes' /\ dma_released' = dma_released
  BY DEF Output, NetTypes
<1>3. decoded' \in Nat /\ plc_frames' \in Nat /\ next_sequence' \in Nat
  BY DEF Output, DataTypes, One
<1>4. i2s_blocks' \in Nat /\ i2s_errors' \in Nat /\ i2s_underruns' \in Nat
  BY DEF Output, WriteBlock, StartStream, DataTypes, One
<1>5. driver' \in {"READY", "RUNNING", "STOPPING", "ERROR"}
  BY DEF Output, StartStream, DataTypes
<1> QED
  BY <1>1, <1>2, <1>3, <1>4, <1>5

(* Steps of main keep the types. *)
LEMMA MainTypesStep ==
  ASSUME TypeOK, MainStep PROVE DataTypes' /\ NetTypes'
<1> USE DEF TypeOK
<1>1. ASSUME mailbox # <<>>
      PROVE  Head(mailbox) \in Message /\ Tail(mailbox) \in Seq(Message)
  BY <1>1, HeadTailProperties DEF DataTypes
<1>2. \A m \in Message : m.run \in Nat /\ m.seq \in Nat
  BY DEF Message
<1>3. CASE TakeStart
  BY <1>1, <1>2, <1>3, EmptySeq DEF TakeStart, Takes, ResetRun, DataTypes, NetTypes
<1>4. CASE TakeFrame
  BY <1>1, <1>4 DEF TakeFrame, Takes, DataTypes, NetTypes
<1>5. CASE TakeEnd
  BY <1>1, <1>5 DEF TakeEnd, Takes, DataTypes, NetTypes
<1>6. CASE ConcealGap
  <2>1. next_sequence \in Nat /\ TRUE \in BOOLEAN
    BY DEF DataTypes
  <2>2. Output(next_sequence, TRUE) /\ pc' = pc /\ msg' = msg
    BY <1>6 DEF ConcealGap
  <2> QED
    BY <2>1, <2>2, OutputTypes DEF DataTypes
<1>7. CASE PlayFrame
  <2>1. msg.seq \in Nat /\ FALSE \in BOOLEAN
    BY <1>2 DEF DataTypes
  <2>2. Output(msg.seq, FALSE) /\ pc' = "idle" /\ msg' = msg
    BY <1>7 DEF PlayFrame
  <2> QED
    BY <2>1, <2>2, OutputTypes DEF DataTypes
<1>8. CASE ConcealTail
  <2>1. next_sequence \in Nat /\ TRUE \in BOOLEAN
    BY DEF DataTypes
  <2>2. Output(next_sequence, TRUE) /\ pc' = pc /\ msg' = msg
    BY <1>8 DEF ConcealTail
  <2> QED
    BY <2>1, <2>2, OutputTypes DEF DataTypes
<1>9. CASE Stop
  <2>1. i2s_errors' \in Nat
    BY <1>9 DEF Stop, One, DataTypes
  <2>2. slab' \in Seq(Block)
    BY <1>9, EmptySeq DEF Stop, DrainOrPrepare, DataTypes
  <2>3. driver' \in {"READY", "RUNNING", "STOPPING", "ERROR"}
    BY <1>9 DEF Stop, DrainOrPrepare, DataTypes
  <2> QED
    BY <1>9, <2>1, <2>2, <2>3 DEF Stop, DataTypes, NetTypes
<1>10. CASE Report
  BY <1>10 DEF Report, DataTypes, NetTypes
<1> QED
  BY <1>3, <1>4, <1>5, <1>6, <1>7, <1>8, <1>9, <1>10 DEF MainStep

(* The driver and time touch the slab, what is heard and the sleep only. *)
LEMMA DmaKeeps == DmaStep => OthersUnchanged
BY DEF DmaStep, BlockPlayed, Underrun, DrainPeriod, SleepPeriod

(* The flags stay Boolean. *)
LEMMA FlagStep == FlagTypes /\ [Next]_vars => FlagTypes'
<1> SUFFICES ASSUME FlagTypes, [Next]_vars PROVE FlagTypes'
  OBVIOUS
<1> USE DEF FlagTypes
<1>1. CASE NetStep
  BY <1>1, Zenon DEF NetStep, NetStart, NetFrame, NetEnd, Sends
<1>2. CASE DmaStep
  BY <1>2, DmaKeeps, Zenon DEF OthersUnchanged
<1>3. CASE TakeStart
  BY <1>3, Zenon DEF TakeStart, ResetRun
<1>4. CASE TakeFrame \/ TakeEnd
  BY <1>4, Zenon DEF TakeFrame, TakeEnd
<1>5. CASE ConcealGap \/ PlayFrame \/ ConcealTail
  BY <1>5, Zenon DEF ConcealGap, PlayFrame, ConcealTail, Output, StartStream
<1>6. CASE Stop \/ Report
  BY <1>6, Zenon DEF Stop, Report
<1>7. CASE UNCHANGED vars
  BY <1>7, Zenon DEF vars
<1> QED
  BY <1>1, <1>2, <1>3, <1>4, <1>5, <1>6, <1>7 DEF Next, MainStep

(* Types are invariant. *)
LEMMA TypeStep == TypeOK /\ [Next]_vars => TypeOK'
<1> SUFFICES ASSUME TypeOK, [Next]_vars PROVE TypeOK'
  OBVIOUS
<1>1. FlagTypes'
  BY FlagStep DEF TypeOK
<1>2. DataTypes' /\ NetTypes'
  <2>1. CASE UNCHANGED vars
    BY <2>1 DEF vars, TypeOK, DataTypes, NetTypes
  <2> QED
    BY <2>1, NetTypesStep, DmaTypesStep, MainTypesStep DEF Next
<1> QED
  BY <1>1, <1>2 DEF TypeOK

-----------------------------------------------------------------------------
(* The network core touches the mailbox and itself only. *)
LEMMA NetKeeps ==
  NetStep => UNCHANGED <<pc, msg, runVars, outVars, reported, restarted>>
BY DEF NetStep, NetStart, NetFrame, NetEnd, Sends

(* Messages sent of runs up to n leave room for a new run after it. *)
LEMMA MailNewRun ==
  ASSUME NEW q \in Seq(Message), NEW n \in Nat, NEW t, NEW u, NEW r \in Nat,
         NEW e, MailInv(q, n, t, r, e)
  PROVE  MailInv(q, n + 1, u, r, e)
<1>1. \A i \in DOMAIN q : q[i].run \in Nat
  <2>1. \A i \in DOMAIN q : q[i] \in Message
    BY ElementOfSeq, LenProperties
  <2> QED
    BY <2>1 DEF Message
<1> QED
  BY <1>1 DEF MailInv, SentBy

(* A message of run n, a frame within its length, may follow. *)
LEMMA MailAppend ==
  ASSUME NEW q \in Seq(Message), NEW m \in Message, NEW n \in Nat, NEW t,
         NEW r \in Nat, NEW e, MailInv(q, n, t, r, e),
         SentBy(m, n, t), m.run = n, Fits(m, n, t)
  PROVE  MailInv(Append(q, m), n, t, r, e)
<1> DEFINE p == Append(q, m)
<1>1. /\ Len(q) \in Nat /\ DOMAIN q = 1 .. Len(q) /\ DOMAIN p = 1 .. Len(q) + 1
      /\ \A i \in DOMAIN q : p[i] = q[i]
      /\ p[Len(q) + 1] = m
  BY AppendProperties, LenProperties
<1>2. \A i \in DOMAIN p : i \in DOMAIN q \/ (i = Len(q) + 1 /\ p[i] = m)
  BY <1>1
<1> HIDE DEF p
<1>3. ASSUME NEW i \in DOMAIN p PROVE SentBy(p[i], n, t) /\ Fits(p[i], r, e)
  <2>1. CASE i \in DOMAIN q
    BY <1>1, <2>1 DEF MailInv
  <2>2. CASE p[i] = m
    BY <2>2 DEF MailInv, Fits
  <2> QED
    BY <1>2, <2>1, <2>2
<1>4. ASSUME NEW i \in DOMAIN p, NEW j \in DOMAIN p, i < j, p[i].type = "START"
      PROVE  Fits(p[j], p[i].run, p[i].seq)
  <2>1. i \in DOMAIN q
    BY <1>1, <1>4
  <2>2. CASE j \in DOMAIN q
    BY <1>1, <1>4, <2>1, <2>2 DEF MailInv
  <2>3. CASE p[j] = m
    BY <1>1, <1>4, <2>1, <2>3 DEF MailInv, SentBy, Fits
  <2> QED
    BY <1>2, <2>2, <2>3
<1> QED
  BY <1>3, <1>4 DEF MailInv, p

(* Taking a message leaves the mailbox as good as it was, and good for the *)
(* run that a START begins.                                                *)
LEMMA MailTake ==
  ASSUME NEW q \in Seq(Message), q # <<>>, NEW n \in Nat, NEW t,
         NEW r \in Nat, NEW e, MailInv(q, n, t, r, e)
  PROVE  /\ MailInv(Tail(q), n, t, r, e)
         /\ SentBy(Head(q), n, t) /\ Fits(Head(q), r, e)
         /\ Head(q).type = "START" =>
              MailInv(Tail(q), n, t, Head(q).run, Head(q).seq)
<1> DEFINE p == Tail(q)
<1>1. /\ Len(q) \in Nat \ {0} /\ DOMAIN q = 1 .. Len(q) /\ Head(q) = q[1]
      /\ DOMAIN p = 1 .. Len(q) - 1
      /\ \A i \in DOMAIN p : p[i] = q[i + 1]
  BY HeadTailProperties, LenProperties, EmptySeq
<1>2. 1 \in DOMAIN q /\ \A i \in DOMAIN p : i + 1 \in DOMAIN q /\ 1 < i + 1
  BY <1>1
<1> HIDE DEF p
<1>3. SentBy(Head(q), n, t) /\ Fits(Head(q), r, e)
  BY <1>1, <1>2 DEF MailInv
<1>4. \A i \in DOMAIN p : SentBy(p[i], n, t) /\ Fits(p[i], r, e)
  BY <1>1, <1>2 DEF MailInv
<1>5. ASSUME NEW i \in DOMAIN p, NEW j \in DOMAIN p, i < j, p[i].type = "START"
      PROVE  Fits(p[j], p[i].run, p[i].seq)
  <2>1. i + 1 \in DOMAIN q /\ j + 1 \in DOMAIN q /\ i + 1 < j + 1
    BY <1>1, <1>2, <1>5
  <2> QED
    BY <1>1, <1>5, <2>1 DEF MailInv
<1>6. MailInv(p, n, t, r, e)
  BY <1>4, <1>5 DEF MailInv
<1>7. ASSUME Head(q).type = "START" PROVE MailInv(p, n, t, Head(q).run, Head(q).seq)
  <2>1. \A i \in DOMAIN p : Fits(p[i], Head(q).run, Head(q).seq)
    BY <1>1, <1>2, <1>7 DEF MailInv
  <2>2. Head(q).run <= n /\ (Head(q).run = n => Head(q).seq = t)
    BY <1>3, <1>7 DEF SentBy
  <2> QED
    BY <1>4, <1>5, <2>1, <2>2 DEF MailInv
<1> QED
  BY <1>3, <1>6, <1>7 DEF p

(* What k_msgq_put leaves, with room or without. *)
LEMMA MailDeliver ==
  ASSUME mailbox \in Seq(Message), NEW m \in Message, NEW n \in Nat, NEW t,
         NEW r \in Nat, NEW e, MailInv(mailbox, n, t, r, e),
         SentBy(m, n, t), m.run = n, Fits(m, n, t), Deliver(m)
  PROVE  MailInv(mailbox', n, t, r, e)
BY MailAppend DEF Deliver

(* No step puts a frame beyond the length of its run into the mailbox. *)
LEMMA SentStep == TypeOK /\ SentInv /\ [Next]_vars => SentInv'
<1> SUFFICES ASSUME TypeOK, SentInv, [Next]_vars PROVE SentInv'
  OBVIOUS
<1> USE DEF TypeOK
<1>1. /\ mailbox \in Seq(Message) /\ run \in Nat /\ net.run \in Nat
      /\ net.total \in Nat /\ net.next \in Nat
  BY DEF DataTypes, NetTypes
<1>2. ASSUME NEW total \in FrameTotals, NetStart(total) PROVE SentInv'
  <2> DEFINE m == [type |-> "START", run |-> net.run + 1, seq |-> total]
  <2>1. /\ net'.run = net.run + 1 /\ net'.total = total /\ net.run + 1 \in Nat
        /\ run' = run /\ expected' = expected
        /\ Deliver(m) \/ mailbox' = mailbox
    BY <1>1, <1>2 DEF NetStart, Sends
  <2>2. MailInv(mailbox, net.run + 1, total, run, expected)
    BY <1>1, MailNewRun DEF SentInv
  <2>3. /\ m \in Message /\ m.run = net.run + 1
        /\ SentBy(m, net.run + 1, total) /\ Fits(m, net.run + 1, total)
    BY <2>1, Totals DEF Message, SentBy, Fits
  <2> HIDE DEF m
  <2>4. MailInv(mailbox', net.run + 1, total, run, expected)
    BY <1>1, <2>1, <2>2, <2>3, MailDeliver
  <2> QED
    BY <2>1, <2>4 DEF SentInv
<1>3. ASSUME NEW seq \in 0 .. net.total, NetFrame(seq) PROVE SentInv'
  <2> DEFINE m == [type |-> "FRAME", run |-> net.run, seq |-> seq]
  <2>1. /\ net'.run = net.run /\ net'.total = net.total /\ seq < net.total
        /\ run' = run /\ expected' = expected /\ Deliver(m) /\ seq \in Nat
    BY <1>1, <1>3 DEF NetFrame, Sends, NetTypes
  <2>2. /\ m \in Message /\ m.run = net.run
        /\ SentBy(m, net.run, net.total) /\ Fits(m, net.run, net.total)
    BY <1>1, <2>1 DEF Message, SentBy, Fits
  <2> HIDE DEF m
  <2>3. MailInv(mailbox', net.run, net.total, run, expected)
    BY <1>1, <2>1, <2>2, MailDeliver DEF SentInv
  <2> QED
    BY <2>1, <2>3 DEF SentInv
<1>4. CASE NetEnd
  <2> DEFINE m == [type |-> "END", run |-> net.run, seq |-> net.total]
  <2>1. /\ net'.run = net.run /\ net'.total = net.total
        /\ run' = run /\ expected' = expected /\ Deliver(m)
    BY <1>1, <1>4 DEF NetEnd, Sends, NetTypes
  <2>2. /\ m \in Message /\ m.run = net.run
        /\ SentBy(m, net.run, net.total) /\ Fits(m, net.run, net.total)
    BY <1>1 DEF Message, SentBy, Fits
  <2> HIDE DEF m
  <2>3. MailInv(mailbox', net.run, net.total, run, expected)
    BY <1>1, <2>1, <2>2, MailDeliver DEF SentInv
  <2> QED
    BY <2>1, <2>3 DEF SentInv
<1>5. CASE TakeStart
  BY <1>1, <1>5, MailTake DEF TakeStart, Takes, SentInv
<1>6. CASE TakeFrame \/ TakeEnd
  BY <1>1, <1>6, MailTake DEF TakeFrame, TakeEnd, Takes, SentInv
<1>7. CASE ConcealGap \/ PlayFrame \/ ConcealTail
  BY <1>7 DEF ConcealGap, PlayFrame, ConcealTail, Output, SentInv
<1>8. CASE Stop \/ Report \/ DmaStep \/ UNCHANGED vars
  BY <1>8, DmaKeeps DEF Stop, Report, OthersUnchanged, vars, SentInv
<1> QED
  BY <1>2, <1>3, <1>4, <1>5, <1>6, <1>7, <1>8 DEF Next, NetStep, MainStep

(* Main outputs only what is due. *)
LEMMA PlaceStep ==
  TypeOK /\ SentInv /\ PlaceInv /\ CountInv /\ [Next]_vars => PlaceInv'
<1> SUFFICES ASSUME TypeOK, SentInv, PlaceInv, CountInv, [Next]_vars PROVE PlaceInv'
  OBVIOUS
<1> USE DEF PlaceInv
<1>1. /\ mailbox \in Seq(Message) /\ run \in Nat /\ net.run \in Nat
      /\ next_sequence \in Nat /\ expected \in Nat /\ msg.seq \in Nat
  BY DEF TypeOK, DataTypes, NetTypes, Message
<1>2. ASSUME mailbox # <<>>
      PROVE  /\ Head(mailbox).seq \in Nat
             /\ Fits(Head(mailbox), run, expected)
             /\ SentBy(Head(mailbox), net.run, net.total)
  <2>1. Head(mailbox) \in Message
    BY <1>1, <1>2, HeadTailProperties
  <2>2. Head(mailbox).seq \in Nat
    BY <2>1 DEF Message
  <2>3. MailInv(mailbox, net.run, net.total, run, expected)
    BY DEF SentInv
  <2> QED
    BY <1>1, <1>2, <2>2, <2>3, MailTake
<1>3. CASE NetStep \/ DmaStep \/ UNCHANGED vars
  BY <1>3, NetKeeps, DmaKeeps DEF OthersUnchanged, vars
<1>4. CASE TakeStart
  BY <1>2, <1>4 DEF TakeStart, Takes, SentBy
<1>5. CASE TakeFrame
  BY <1>1, <1>2, <1>5 DEF TakeFrame, Takes, OfThisRun, Fits
<1>6. CASE TakeEnd
  BY <1>6 DEF TakeEnd, Takes, OfThisRun
<1>7. CASE ConcealGap
  BY <1>1, <1>7 DEF ConcealGap, Output
<1>8. CASE PlayFrame \/ ConcealTail
  BY <1>1, <1>8 DEF PlayFrame, ConcealTail, Output
<1>9. CASE Stop
  BY <1>1, <1>9 DEF Stop, TailMissing, CountInv
<1>10. CASE Report
  BY <1>10 DEF Report
<1> QED
  BY <1>3, <1>4, <1>5, <1>6, <1>7, <1>8, <1>9, <1>10 DEF Next, MainStep

(* A frame that is written is a block, one that is not an underrun. *)
LEMMA CountStep ==
  TypeOK /\ SentInv /\ PlaceInv /\ CountInv /\ [Next]_vars => CountInv'
<1> SUFFICES ASSUME TypeOK, PlaceInv, CountInv, [Next]_vars PROVE CountInv'
  OBVIOUS
<1> USE DEF CountInv
<1>1. /\ next_sequence \in Nat /\ expected \in Nat /\ msg.seq \in Nat
      /\ decoded \in Nat /\ i2s_blocks \in Nat /\ i2s_underruns \in Nat
  BY DEF TypeOK, DataTypes, Message
<1>2. ASSUME NEW sequence \in Nat, NEW concealed, Output(sequence, concealed),
             sequence = next_sequence, sequence < expected
      PROVE  CountInv'
  <2>1. /\ decoded' = decoded + 1 /\ next_sequence' = sequence + 1
        /\ expected' = expected
    BY <1>2 DEF Output
  <2>2. i2s_blocks' + i2s_underruns' = i2s_blocks + i2s_underruns + 1
    <3>1. CASE Written
      BY <1>1, <1>2, <3>1 DEF Output, WriteBlock, One
    <3>2. CASE ~Written
      BY <1>1, <1>2, <3>2 DEF Output, WriteBlock, One
    <3> QED
      BY <3>1, <3>2
  <2> QED
    BY <1>1, <1>2, <2>1, <2>2
<1>3. CASE NetStep \/ DmaStep \/ UNCHANGED vars
  BY <1>3, NetKeeps, DmaKeeps DEF OthersUnchanged, vars
<1>4. CASE TakeStart
  <2>1. Head(mailbox) \in Message
    BY <1>4, HeadTailProperties DEF TakeStart, Takes, TypeOK, DataTypes
  <2> QED
    BY <1>4, <2>1 DEF TakeStart, Takes, ResetRun, Message
<1>5. CASE TakeFrame \/ TakeEnd
  BY <1>5 DEF TakeFrame, TakeEnd
<1>6. CASE ConcealGap
  <2>1. next_sequence < expected
    BY <1>1, <1>6 DEF ConcealGap, PlaceInv
  <2> QED
    BY <1>1, <1>2, <1>6, <2>1 DEF ConcealGap
<1>7. CASE PlayFrame
  BY <1>1, <1>2, <1>7 DEF PlayFrame, FrameDue, PlaceInv
<1>8. CASE ConcealTail
  BY <1>1, <1>2, <1>8 DEF ConcealTail, TailMissing
<1>9. CASE Stop \/ Report
  BY <1>9 DEF Stop, Report
<1> QED
  BY <1>3, <1>4, <1>5, <1>6, <1>7, <1>8, <1>9 DEF Next, MainStep

(* What an output does to the slab and to the driver. *)
LEMMA OutputDrains ==
  ASSUME DataTypes, DrainInv, active, pc # "sleep", NEW sequence, NEW concealed,
         Output(sequence, concealed)
  PROVE  /\ held' <= SlabBlocks /\ held' \in Nat
         /\ driver' = "RUNNING" => held' >= 1
         /\ driver' # "STOPPING"
         /\ driver' = "READY" => held' >= i2s_blocks'
<1> DEFINE b == [run |-> msg.run, seq |-> sequence, concealed |-> concealed]
<1>1. /\ slab \in Seq(Block) /\ i2s_blocks \in Nat /\ held \in Nat /\ Prefill \in Nat
      /\ SlabBlocks \in Nat /\ Prefill >= 1
  BY PlaybackAssumption DEF DataTypes, held
<1>2. driver # "STOPPING" /\ (driver = "READY" => held >= i2s_blocks)
  BY DEF DrainInv
<1>3. driver' \in {driver, "RUNNING"} /\ (driver' # driver => Prefilled /\ driver = "READY")
  BY DEF Output, StartStream
<1>4. CASE Written
  <2>1. Len(Append(slab, b)) = Len(slab) + 1
    BY <1>1
  <2>2. held' = held + 1 /\ i2s_blocks' = i2s_blocks + 1
    BY <1>1, <1>4, <2>1 DEF Output, WriteBlock, One, held
  <2> QED
    BY <1>1, <1>2, <1>3, <1>4, <2>2 DEF Written
<1>5. CASE ~Written
  <2>1. held' = held /\ i2s_blocks' = i2s_blocks
    BY <1>1, <1>5 DEF Output, WriteBlock, One, held
  <2>2. held <= SlabBlocks /\ (driver = "RUNNING" => held >= 1)
    BY DEF DrainInv
  <2>3. Prefilled => i2s_blocks >= 1
    BY <1>1, <2>1 DEF Prefilled
  <2> QED
    BY <1>1, <1>2, <1>3, <2>1, <2>2, <2>3
<1> QED
  BY <1>4, <1>5

(* A block fewer in the slab when one was played. *)
LEMMA BlockDoneHeld ==
  ASSUME DataTypes, held > 0, BlockDone PROVE held' = held - 1 /\ held \in Nat
<1>1. slab \in Seq(Block) /\ slab # <<>>
  BY DEF DataTypes, held
<1> QED
  BY <1>1, HeadTailProperties DEF BlockDone, held

(* The drain of a run ends within its sleep. *)
LEMMA DrainStep ==
  TypeOK /\ PlaceInv /\ CountInv /\ DrainInv /\ [Next]_vars => DrainInv'
<1> SUFFICES ASSUME TypeOK, PlaceInv, CountInv, DrainInv, [Next]_vars PROVE DrainInv'
  OBVIOUS
<1>1. DataTypes /\ held \in Nat /\ sleep \in Nat /\ SlabBlocks \in Nat
  BY PlaybackAssumption DEF TypeOK, DataTypes, held, DrainInv
<1>2. CASE NetStep \/ UNCHANGED vars
  <2>1. UNCHANGED <<pc, runVars, outVars>>
    BY <1>2, NetKeeps DEF vars
  <2>2. held' = held
    BY <2>1 DEF held
  <2> QED
    BY <2>1, <2>2 DEF DrainInv
<1>3. CASE BlockPlayed
  <2>1. held' = held - 1 /\ driver = "RUNNING" /\ held > 1
    BY <1>1, <1>3, BlockDoneHeld DEF BlockPlayed
  <2> QED
    BY <1>1, <1>3, <2>1 DEF BlockPlayed, DrainInv
<1>4. CASE Underrun
  <2>1. held' = 0 /\ driver' = "ERROR" /\ sleep' = sleep
    BY <1>4 DEF Underrun, held
  <2> QED
    BY <1>1, <2>1 DEF DrainInv
<1>5. CASE DrainPeriod
  <2>1. held' = held - 1 /\ driver = "STOPPING" /\ held > 0 /\ pc' = pc
    BY <1>1, <1>5, BlockDoneHeld DEF DrainPeriod, Draining, OthersUnchanged
  <2>2. pc = "sleep" /\ held >= 1 /\ held <= sleep /\ held <= SlabBlocks
    BY <2>1 DEF DrainInv
  <2>3. sleep' = sleep - 1 /\ driver' = IF held = 1 THEN "READY" ELSE driver
    BY <1>1, <1>5, <2>2 DEF DrainPeriod
  <2> QED
    BY <1>1, <2>1, <2>2, <2>3 DEF DrainInv
<1>6. CASE SleepPeriod
  <2>1. driver # "STOPPING"
    BY <1>6 DEF SleepPeriod, Draining, DrainInv
  <2>2. held' = held /\ sleep' = sleep - 1 /\ sleep > 0
    BY <1>6 DEF SleepPeriod, held
  <2> QED
    BY <1>1, <1>6, <2>1, <2>2 DEF SleepPeriod, OthersUnchanged, DrainInv
<1>7. CASE TakeStart
  <2>1. held' = held /\ i2s_blocks' = 0 /\ pc = "idle" /\ pc' = pc
        /\ driver' = driver /\ sleep' = sleep
    BY <1>7 DEF TakeStart, Takes, ResetRun, held
  <2> QED
    BY <1>1, <2>1 DEF DrainInv
<1>8. CASE TakeFrame \/ TakeEnd
  <2>1. held' = held /\ pc = "idle" /\ pc' # "sleep" /\ UNCHANGED <<active, outVars>>
    BY <1>8 DEF TakeFrame, TakeEnd, Takes, held
  <2> QED
    BY <1>1, <2>1 DEF DrainInv
<1>9. CASE ConcealGap \/ PlayFrame \/ ConcealTail
  <2>1. /\ active /\ pc # "sleep" /\ pc' # "sleep" /\ sleep' = sleep
        /\ \E sequence, concealed : Output(sequence, concealed)
    BY <1>9 DEF ConcealGap, PlayFrame, ConcealTail, Output, PlaceInv
  <2> QED
    BY <1>1, <2>1, OutputDrains DEF DrainInv
<1>10. CASE Stop
  <2>1. active /\ pc # "sleep" /\ pc' = "sleep" /\ sleep' = SleepPeriods
    BY <1>10 DEF Stop, SleepLength, PlaceInv
  <2>2. SleepPeriods \in Nat /\ SlabBlocks <= SleepPeriods
    BY SleepAssumption
  <2>3. driver # "STOPPING" /\ held <= SlabBlocks /\ (driver = "RUNNING" => held >= 1)
    BY <2>1 DEF DrainInv
  <2>4. CASE slab' = slab
    <3>1. held' = held
      BY <2>4 DEF held
    <3>2. \/ driver = "RUNNING" /\ driver' = "STOPPING"
          \/ driver' # "STOPPING" /\ (driver' = "RUNNING" => driver = "RUNNING")
      BY <1>10, <2>3 DEF Stop, DrainOrPrepare
    <3> QED
      BY <1>1, <2>1, <2>2, <2>3, <3>1, <3>2 DEF DrainInv
  <2>5. CASE slab' # slab
    <3>1. driver' = "READY" /\ held' = 0
      BY <1>10, <2>5 DEF Stop, DrainOrPrepare, held
    <3> QED
      BY <1>1, <2>1, <2>2, <3>1 DEF DrainInv
  <2> QED
    BY <2>4, <2>5
<1>11. CASE Report
  <2>1. sleep = 0 /\ driver' = driver /\ held' = held /\ sleep' = sleep /\ ~active'
    BY <1>11 DEF Report, SleepOver, held
  <2>2. driver # "STOPPING"
    BY <1>1, <2>1 DEF DrainInv
  <2> QED
    BY <1>1, <2>1, <2>2 DEF DrainInv
<1> QED
  BY <1>2, <1>3, <1>4, <1>5, <1>6, <1>7, <1>8, <1>9, <1>10, <1>11
     DEF Next, DmaStep, MainStep

(* What a step does to the driver and to started. *)
LEMMA DriverStep ==
  FlagTypes /\ PlaceInv /\ DrainInv /\ DriverInv /\ [Next]_vars => DriverInv'
<1> SUFFICES ASSUME FlagTypes, PlaceInv, DrainInv, DriverInv, [Next]_vars
             PROVE  DriverInv'
  OBVIOUS
<1> USE DEF DriverInv
<1>1. CASE NetStep \/ UNCHANGED vars
  BY <1>1, NetKeeps DEF vars
<1>2. CASE DmaStep
  <2>1. UNCHANGED <<pc, active, i2s_started, restarted>>
    BY <1>2, DmaKeeps DEF OthersUnchanged
  <2>2. \/ driver = "RUNNING" /\ driver' \in {"RUNNING", "ERROR"}
        \/ driver = "STOPPING" /\ driver' \in {"STOPPING", "READY"}
        \/ driver' = driver
    BY <1>2 DEF DmaStep, BlockPlayed, Underrun, DrainPeriod, Draining, SleepPeriod
  <2>3. driver = "STOPPING" => pc = "sleep"
    BY DEF DrainInv
  <2> QED
    BY <2>1, <2>2, <2>3
<1>3. CASE TakeStart
  BY <1>3 DEF TakeStart, Takes, ResetRun
<1>4. CASE TakeFrame \/ TakeEnd
  BY <1>4 DEF TakeFrame, TakeEnd, Takes, OfThisRun
<1>5. CASE ConcealGap \/ PlayFrame \/ ConcealTail
  BY <1>5 DEF ConcealGap, PlayFrame, ConcealTail, Output, StartStream, PlaceInv
<1>6. CASE Stop
  BY <1>6 DEF Stop, DrainOrPrepare
<1>7. CASE Report
  <2>1. driver # "STOPPING"
    BY <1>7 DEF Report, SleepOver, DrainInv
  <2> QED
    BY <1>7, <2>1 DEF Report, SleepOver
<1> QED
  BY <1>1, <1>2, <1>3, <1>4, <1>5, <1>6, <1>7 DEF Next, MainStep

-----------------------------------------------------------------------------
(* A block that was played moves from the head of the slab to the end of   *)
(* what was heard.                                                         *)
LEMMA PlayedMoves ==
  ASSUME NEW h \in Seq(Block), NEW s \in Seq(Block), s # <<>>
  PROVE  Append(h, Head(s)) \o Tail(s) = h \o s
<1>1. Head(s) \in Block /\ Tail(s) \in Seq(Block)
  BY HeadTailProperties
<1>2. Append(h, Head(s)) = h \o <<Head(s)>> /\ <<Head(s)>> \in Seq(Block)
  BY <1>1, AppendIsConcat
<1>3. s = <<Head(s)>> \o Tail(s)
  <2>1. Len(s) \in Nat \ {0} /\ Head(s) = s[1]
    BY EmptySeq
  <2>2. 1 \in 1 .. Len(s) /\ Len(s) \in 1 .. Len(s)
    BY <2>1
  <2>3. SubSeq(s, 1, Len(s)) = <<s[1]>> \o SubSeq(s, 1 + 1, Len(s))
    BY <2>2, SubSeqRecursiveFirst
  <2> QED
    BY <2>1, <2>3, SubSeqFull, TailIsSubSeq
<1> QED
  BY <1>1, <1>2, <1>3, ConcatAssociative

(* A block that is written is appended to the stream. *)
LEMMA WrittenFollows ==
  ASSUME NEW h \in Seq(Block), NEW s \in Seq(Block), NEW b \in Block
  PROVE  h \o Append(s, b) = Append(h \o s, b)
<1>1. Append(s, b) = s \o <<b>> /\ <<b>> \in Seq(Block)
  BY AppendIsConcat
<1>2. h \o s \in Seq(Block)
  BY ConcatProperties
<1>3. Append(h \o s, b) = (h \o s) \o <<b>>
  BY <1>2, AppendIsConcat
<1> QED
  BY <1>1, <1>3, ConcatAssociative

(* The next frame of the run appended, the stream ends with one more. *)
LEMMA EndsAppend ==
  ASSUME NEW s \in Seq(Block), NEW r \in Nat, NEW n \in Nat, EndsWith(s, r, n)
  PROVE  EndsWith(Append(s, [run |-> r, seq |-> n, concealed |-> FALSE]), r, n + 1)
<1> DEFINE b == [run |-> r, seq |-> n, concealed |-> FALSE]
           p == Append(s, b)
<1>1. b \in Block
  BY DEF Block
<1>2. b = [run |-> r, seq |-> (n + 1) - 1, concealed |-> FALSE]
  OBVIOUS
<1> HIDE DEF b
<1>3. /\ Len(s) \in Nat /\ Len(p) = Len(s) + 1 /\ p[Len(s) + 1] = b
      /\ \A i \in 1 .. Len(s) : p[i] = s[i]
  BY <1>1, AppendProperties, LenProperties
<1> HIDE DEF p
<1>4. n <= Len(s)
  BY DEF EndsWith
<1>5. ASSUME NEW k \in 1 .. n + 1
      PROVE  p[Len(p) - (n + 1) + k] = [run |-> r, seq |-> k - 1, concealed |-> FALSE]
  <2>1. Len(p) - (n + 1) + k = Len(s) - n + k
    BY <1>3
  <2>2. CASE k = n + 1
    <3>1. Len(s) - n + k = Len(s) + 1
      BY <1>3, <2>2
    <3> QED
      BY <1>2, <1>3, <2>1, <2>2, <3>1
  <2>3. CASE k # n + 1
    <3>1. k \in 1 .. n /\ Len(s) - n + k \in 1 .. Len(s)
      BY <1>3, <1>4, <2>3
    <3> QED
      BY <1>3, <2>1, <3>1 DEF EndsWith
  <2> QED
    BY <2>2, <2>3
<1>6. n + 1 <= Len(p)
  BY <1>3, <1>4
<1> QED
  BY <1>5, <1>6 DEF EndsWith, p, b

(* A stream that is no longer than the frames it ends with is those frames.*)
LEMMA PlayedInFull ==
  ASSUME NEW s \in Seq(Block), NEW r \in Nat, NEW n \in Nat, Len(s) = n,
         EndsWith(s, r, n)
  PROVE  s = [i \in 1 .. n |-> [run |-> r, seq |-> i - 1, concealed |-> FALSE]]
<1>1. s \in [1 .. n -> Block]
  BY LenProperties
<1>2. \A k \in 1 .. n : n - n + k = k
  OBVIOUS
<1>3. \A k \in 1 .. n : s[k] = [run |-> r, seq |-> k - 1, concealed |-> FALSE]
  BY <1>2 DEF EndsWith
<1> QED
  BY <1>1, <1>3

(* Any stream ends with no frames. *)
LEMMA EndsWithNone == ASSUME NEW s \in Seq(Block), NEW r PROVE EndsWith(s, r, 0)
BY LenProperties DEF EndsWith

(* A clean output writes the next frame; at the prefill it starts.         *)
LEMMA CleanOutput ==
  ASSUME DataTypes, FlagTypes, CountInv, StreamInv, active, pc = "frame",
         msg.run = run, msg.seq = next_sequence,
         Output(msg.seq, FALSE), Clean'
  PROVE  /\ Clean /\ driver # "ERROR"
         /\ dma_released' = Len(heard)'
         /\ EndsWith((heard \o slab)', run', i2s_blocks')
         /\ i2s_blocks' >= Prefill => i2s_started'
<1>1. /\ plc_frames \in Nat /\ i2s_errors \in Nat /\ i2s_underruns \in Nat
      /\ i2s_blocks \in Nat /\ decoded \in Nat /\ run \in Nat
      /\ slab \in Seq(Block) /\ heard \in Seq(Block)
  BY DEF DataTypes
<1>2. Written
  BY <1>1 DEF Output, WriteBlock, One, Clean
<1>3. ~(Prefilled /\ driver # "READY")
  BY <1>1 DEF Output, StartStream, One, Clean
<1>4. Clean
  BY <1>1, <1>2, <1>3 DEF Output, WriteBlock, StartStream, One, Clean
<1>5. driver # "ERROR"
  BY <1>2 DEF Written
<1>6. /\ i2s_blocks' = i2s_blocks + 1 /\ heard' = heard /\ run' = run
      /\ dma_released' = dma_released
  BY <1>2 DEF Output, WriteBlock, One
<1>7. msg.seq = i2s_blocks
  BY <1>1, <1>4 DEF Clean, CountInv
<1> DEFINE b == [run |-> run, seq |-> i2s_blocks, concealed |-> FALSE]
<1>8. b \in Block /\ slab' = Append(slab, b)
  BY <1>1, <1>2, <1>7 DEF Block, Output, WriteBlock
<1>9. dma_released = Len(heard) /\ EndsWith(heard \o slab, run, i2s_blocks)
  BY <1>4, <1>5 DEF StreamInv
<1>10. EndsWith((heard \o slab)', run', i2s_blocks')
  <2>1. heard \o slab \in Seq(Block)
    BY <1>1, ConcatProperties
  <2>2. EndsWith(Append(heard \o slab, b), run, i2s_blocks + 1)
    BY <1>1, <1>9, <2>1, EndsAppend
  <2>3. (heard \o slab)' = Append(heard \o slab, b)
    BY <1>1, <1>6, <1>8, WrittenFollows
  <2> QED
    BY <1>6, <2>2, <2>3
<1>11. ASSUME i2s_blocks' >= Prefill PROVE i2s_started'
  <2>1. Prefill \in Nat
    BY PlaybackAssumption
  <2>2. CASE i2s_blocks' = Prefill
    BY <1>3, <2>2 DEF Output, StartStream, Prefilled
  <2>3. CASE i2s_blocks' # Prefill
    <3>1. i2s_blocks >= Prefill
      BY <1>1, <1>6, <1>11, <2>1, <2>3
    <3>2. i2s_started
      BY <1>4, <3>1 DEF StreamInv
    <3> QED
      BY <3>2 DEF Output, StartStream
  <2> QED
    BY <2>2, <2>3
<1> QED
  BY <1>4, <1>5, <1>6, <1>9, <1>10, <1>11

(* Every step keeps what is claimed of the stream of a clean run. *)
LEMMA StreamStep ==
  /\ TypeOK /\ PlaceInv /\ CountInv /\ DriverInv /\ StreamInv
  /\ [Next]_vars
  => StreamInv'
<1> SUFFICES ASSUME TypeOK, PlaceInv, CountInv, DriverInv, StreamInv, [Next]_vars
             PROVE  StreamInv'
  OBVIOUS
<1>1. /\ plc_frames \in Nat /\ i2s_errors \in Nat /\ i2s_underruns \in Nat
      /\ i2s_blocks \in Nat /\ decoded \in Nat /\ run \in Nat /\ expected \in Nat
      /\ slab \in Seq(Block) /\ heard \in Seq(Block)
  BY DEF TypeOK, DataTypes
<1>2. CASE NetStep \/ UNCHANGED vars
  BY <1>2, NetKeeps DEF vars, StreamInv, Clean
<1>3. CASE BlockPlayed \/ DrainPeriod
  <2>1. held > 0 /\ slab # <<>> /\ BlockDone /\ driver # "ERROR" /\ driver' # "ERROR"
    BY <1>1, <1>3 DEF BlockPlayed, DrainPeriod, Draining, held
  <2>2. Len(heard') = Len(heard) + 1
    <3>1. Head(slab) \in Block
      BY <1>1, <2>1, HeadTailProperties
    <3> QED
      BY <1>1, <2>1, <3>1, AppendProperties DEF BlockDone
  <2>3. heard' \o slab' = heard \o slab
    BY <1>1, <2>1, PlayedMoves DEF BlockDone
  <2>4. /\ Clean' <=> Clean
        /\ UNCHANGED <<active, i2s_blocks, i2s_started, pc, run>>
        /\ dma_released' = dma_released + 1
        /\ driver' \in {driver, "READY"}
    BY <1>3 DEF BlockPlayed, DrainPeriod, BlockDone, OthersUnchanged, Clean
  <2> QED
    BY <1>1, <2>1, <2>2, <2>3, <2>4 DEF StreamInv
<1>4. CASE Underrun
  BY <1>4 DEF Underrun, OthersUnchanged, StreamInv, Clean
<1>5. CASE TakeStart
  <2>1. slab' \in Seq(Block) /\ heard' \in Seq(Block) /\ Len(heard') = 0
    BY <1>1, <1>5, EmptySeq DEF TakeStart, ResetRun
  <2>2. heard' \o slab' \in Seq(Block) /\ EndsWith(heard' \o slab', run', 0)
    BY <2>1, ConcatProperties, EndsWithNone
  <2>3. i2s_blocks' = 0 /\ dma_released' = 0 /\ pc' # "sleep" /\ ~(0 >= Prefill)
    BY <1>5, PlaybackAssumption DEF TakeStart, ResetRun, Takes
  <2> QED
    BY <2>1, <2>2, <2>3 DEF StreamInv
<1>6. CASE TakeFrame \/ TakeEnd
  BY <1>6 DEF TakeFrame, TakeEnd, Takes, StreamInv, Clean
<1>7. CASE ConcealGap \/ ConcealTail
  <2>1. plc_frames' = plc_frames + 1
    BY <1>7 DEF ConcealGap, ConcealTail, Output, One
  <2>2. ~Clean'
    BY <1>1, <2>1 DEF Clean
  <2> QED
    BY <2>2 DEF StreamInv
<1>8. CASE PlayFrame
  <2>1. /\ active /\ pc = "frame" /\ msg.run = run /\ msg.seq = next_sequence
        /\ Output(msg.seq, FALSE) /\ pc' = "idle"
    BY <1>8 DEF PlayFrame, FrameDue, PlaceInv
  <2> QED
    BY <2>1, CleanOutput DEF TypeOK, StreamInv
<1>9. CASE Stop
  <2> SUFFICES ASSUME Clean' PROVE StreamInv'
    BY DEF StreamInv
  <2>1. next_sequence = expected /\ active /\ pc # "sleep" /\ pc' = "sleep"
    BY <1>1, <1>9 DEF Stop, TailMissing, CountInv, PlaceInv, TypeOK, DataTypes
  <2>2. /\ UNCHANGED <<plc_frames, i2s_underruns, i2s_blocks, run, heard>>
        /\ dma_released' = dma_released
    BY <1>9 DEF Stop
  <2>3. i2s_started
    <3> SUFFICES ASSUME ~i2s_started PROVE FALSE
      OBVIOUS
    <3>1. Clean
      BY <1>9, <2>2 DEF Stop, Clean
    <3>2. i2s_blocks = expected
      BY <1>1, <2>1, <3>1 DEF CountInv, Clean
    <3> QED
      BY <2>1, <3>1, <3>2, Totals DEF PlaceInv, StreamInv
  <2>4. driver = "RUNNING" /\ i2s_errors' = i2s_errors
    BY <1>1, <1>9, <2>3 DEF Stop, One, Clean
  <2>5. driver' = "STOPPING" /\ slab' = slab
    BY <1>9, <2>3, <2>4 DEF Stop, DrainOrPrepare
  <2>6. Clean
    BY <2>2, <2>4 DEF Clean
  <2> QED
    BY <2>1, <2>2, <2>4, <2>5, <2>6 DEF StreamInv
<1>10. CASE Report
  BY <1>10 DEF Report, StreamInv, Clean
<1>11. CASE SleepPeriod
  BY <1>11 DEF SleepPeriod, OthersUnchanged, StreamInv, Clean
<1> QED
  BY <1>2, <1>3, <1>4, <1>5, <1>6, <1>7, <1>8, <1>9, <1>10, <1>11
     DEF Next, DmaStep, MainStep

(* Only Report changes the status and what was played for it. *)
LEMMA ReportedSteps == [Next]_vars => Report \/ UNCHANGED reported
BY NetKeeps, DmaKeeps DEF Next, OthersUnchanged, MainStep, TakeStart, TakeFrame,
   TakeEnd, ConcealGap, PlayFrame, ConcealTail, Output, Stop, vars

(* The status that is sent accounts for every frame. *)
LEMMA StatusStep ==
  PlaceInv /\ CountInv /\ StatusComplete /\ [Next]_vars => StatusComplete'
<1> SUFFICES ASSUME PlaceInv, CountInv, StatusComplete, [Next]_vars
             PROVE  StatusComplete'
  OBVIOUS
<1>1. CASE Report
  BY <1>1 DEF Report, SleepOver, PlaceInv, CountInv, StatusComplete
<1>2. CASE UNCHANGED reported
  BY <1>2 DEF StatusComplete
<1> QED
  BY <1>1, <1>2, ReportedSteps

(* A status that passes is sent when the run is clean and drained: what was*)
(* heard is then all that was written.                                     *)
LEMMA PassedStep ==
  /\ TypeOK /\ PlaceInv /\ CountInv /\ StreamInv /\ PassedRunWasPlayed
  /\ [Next]_vars
  => PassedRunWasPlayed'
<1> SUFFICES ASSUME TypeOK, PlaceInv, CountInv, StreamInv, PassedRunWasPlayed,
                    [Next]_vars
             PROVE  PassedRunWasPlayed'
  OBVIOUS
<1>1. CASE Report
  <2> SUFFICES ASSUME Passed'
               PROVE  played' = [i \in 1 .. status'.expected |->
                         [run |-> status'.run, seq |-> i - 1, concealed |-> FALSE]]
    BY DEF PassedRunWasPlayed
  <2>1. /\ status'.run = run /\ status'.expected = expected
        /\ status'.decoded = decoded /\ status'.plc = plc_frames
        /\ status'.blocks = i2s_blocks /\ status'.errors = i2s_errors
        /\ status'.underruns = i2s_underruns
        /\ status'.released = dma_released /\ status'.remaining = held
        /\ played' = heard
    BY <1>1 DEF Report
  <2>2. Clean /\ i2s_blocks = expected /\ dma_released = expected /\ held = 0
    BY <2>1 DEF Passed, NoErrors, Clean
  <2>3. pc = "sleep"
    BY <1>1 DEF Report, SleepOver
  <2>4. driver # "ERROR"
    BY <2>2, <2>3 DEF StreamInv
  <2>5. dma_released = Len(heard) /\ EndsWith(heard \o slab, run, i2s_blocks)
    BY <2>2, <2>4 DEF StreamInv
  <2>6. slab \in Seq(Block) /\ heard \in Seq(Block) /\ run \in Nat /\ expected \in Nat
    BY DEF TypeOK, DataTypes
  <2>7. heard \o slab = heard
    BY <2>2, <2>6, EmptySeq, ConcatEmptySeq DEF held
  <2>8. heard = [i \in 1 .. expected |->
                   [run |-> run, seq |-> i - 1, concealed |-> FALSE]]
    BY <2>2, <2>5, <2>6, <2>7, PlayedInFull
  <2> QED
    BY <2>1, <2>8
<1>2. CASE UNCHANGED reported
  BY <1>2 DEF PassedRunWasPlayed, Passed, NoErrors
<1> QED
  BY <1>1, <1>2, ReportedSteps

-----------------------------------------------------------------------------
(* Before the first message nothing was heard and nothing is reported. *)
LEMMA AppInit == Init => AppInv
<1> SUFFICES ASSUME Init PROVE AppInv
  OBVIOUS
<1>1. TypeOK
  BY TypeInit
<1>2. SentInv
  BY DEF Init, SentInv, MailInv
<1>3. PlaceInv /\ CountInv /\ DriverInv
  BY DEF Init, PlaceInv, CountInv, DriverInv
<1>3a. DrainInv
  <2>1. Len(<<>>) = 0 /\ SlabBlocks \in Nat
    BY EmptySeq, PlaybackAssumption
  <2> QED
    BY <2>1 DEF Init, DrainInv, held
<1>4. StreamInv
  <2>1. <<>> \in Seq(Block) /\ <<>> \o <<>> = <<>> /\ Len(<<>>) = 0
    BY EmptySeq, ConcatEmptySeq
  <2> QED
    BY <2>1, EndsWithNone DEF Init, StreamInv
<1>5. StatusComplete
  BY DEF Init, StatusComplete, ZeroStatus
<1>6. PassedRunWasPlayed
  BY DEF Init, PassedRunWasPlayed, ZeroStatus
<1> QED
  BY <1>1, <1>2, <1>3, <1>3a, <1>4, <1>5, <1>6 DEF AppInv

(* Callback, main and DMA keep the invariant together. *)
LEMMA AppStep == AppInv /\ [Next]_vars => AppInv'
BY TypeStep, SentStep, PlaceStep, CountStep, DrainStep, DriverStep, StreamStep,
   StatusStep, PassedStep DEF AppInv, TypeOK

(* What the theorems below rest on. *)
LEMMA AppInvariant == Spec => []AppInv
BY AppInit, AppStep, PTL DEF Spec

(* The sequence numbers of a run are output in order and once each, however*)
(* messages are dropped by the radio and by the mailbox of the callback.   *)
THEOREM AppOncePerSequence == Spec => []OncePerSequence
<1>1. AppInv => OncePerSequence
  BY DEF AppInv, CountInv, OncePerSequence
<1> QED
  BY <1>1, AppInvariant, PTL

(* The status main sends accounts for every frame of the run.              *)
THEOREM AppStatusComplete == Spec => []StatusComplete
<1>1. AppInv => StatusComplete
  BY DEF AppInv
<1> QED
  BY <1>1, AppInvariant, PTL

(* A run whose status passes tools/summarize-rx-playback.py was heard: its *)
(* frames and nothing else, in order and none concealed, also when the run *)
(* before it was never reported and left blocks in the slab.               *)
THEOREM AppPassedRunWasPlayed == Spec => []PassedRunWasPlayed
<1>1. AppInv => PassedRunWasPlayed
  BY DEF AppInv
<1> QED
  BY <1>1, AppInvariant, PTL

(* i2s_stop leaves the stream ready for the next run, whatever underruns   *)
(* the run had.                                                            *)
THEOREM AppStreamRecovers == Spec => []StreamRecovers
<1>1. AppInv => StreamRecovers
  BY DEF AppInv, DriverInv, StreamRecovers
<1> QED
  BY <1>1, AppInvariant, PTL
=============================================================================
