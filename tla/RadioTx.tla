------------------------------- MODULE RadioTx ------------------------------
(***************************************************************************)
(* The radio side of the transmitter: the queue and the worker thread of   *)
(* radio_async.c, radio_send and the ESB event handler of radio.c, and the *)
(* calls main_usb.c's run_case makes of them, in the build that passes     *)
(* packets by pointer (OPT_TRANSPORT).                                     *)
(*                                                                         *)
(* The worker's priority is cooperative and above main's: main steps only  *)
(* while the worker cannot.  The ESB handler runs in interrupt context and *)
(* may come between any two steps.  Time passes in ticks; the processors'  *)
(* own work takes none, only ESB and the two waits do.                     *)
(***************************************************************************)
EXTENDS Integers, Sequences, FiniteSets

CONSTANTS
  Packets,      \* the blocks of tx_pool
  NoPacket,     \* the NULL packet pointer
  QueueSize,    \* capacity of tx_queue
  SendTimeout,  \* ticks radio_send waits for the acknowledgement
  AirTime,      \* ticks in which ESB, with its retries, reports an outcome
  DrainBudget,  \* ticks radio_async_drain waits
  MaxTries,     \* control packets are tried this often
  MaxCommits    \* bound: packets committed in a run

ASSUME PacketAssumption ==
  /\ QueueSize \in Nat
  /\ IsFiniteSet(Packets)
  /\ Cardinality(Packets) = QueueSize + 1
  /\ NoPacket \notin Packets

ASSUME TimeAssumption ==
  /\ SendTimeout \in Nat \ {0}
  /\ AirTime \in 0 .. SendTimeout - 1
  /\ DrainBudget \in Nat
  /\ (QueueSize + 1) * SendTimeout <= DrainBudget
  /\ MaxTries \in Nat \ {0}
  /\ MaxCommits \in Nat

VARIABLES
  free,         \* free blocks of tx_pool
  queue,        \* tx_queue
  owned,        \* the packet the worker is sending, or NoPacket
  pending,      \* packets committed and not yet completed
  completed,    \* stats.completed
  air,          \* whose payload ESB has: "none", "worker" or "main"
  age,          \* ticks since each sender's radio_send began
  tx_done,      \* the semaphore the event handler gives
  tx_ok,        \* the outcome it left in tx_result
  mpc,          \* where main is
  packet,       \* the packet main fills, or NoPacket
  control,      \* the control packet main is about: "START" or "END"
  tries,        \* attempts at it
  drain_clock,  \* ticks since radio_async_drain began
  begun,        \* START was sent (processing_start is set)
  drained,      \* outcome of the last drain: "none", "ok" or "timeout"
  accepted      \* history: commits of this run that queued a packet

queueVars == <<free, queue, owned, pending, completed, accepted>>
sendVars  == <<air, age, tx_done, tx_ok>>
mainVars  == <<mpc, packet, control, tries, begun, drained>>
vars == <<queueVars, sendVars, mainVars, drain_clock>>

Senders == {"worker", "main"}
MainPlaces == {"idle", "reset", "control", "wait", "frames", "fill", "put", "drain"}

Init ==
  /\ free = Packets /\ queue = <<>> /\ owned = NoPacket
  /\ pending = 0 /\ completed = 0 /\ accepted = 0
  /\ air = "none" /\ age = [s \in Senders |-> 0]
  /\ tx_done = FALSE /\ tx_ok = FALSE
  /\ mpc = "idle" /\ packet = NoPacket /\ control = "START" /\ tries = 0
  /\ begun = FALSE /\ drained = "none" /\ drain_clock = 0

-----------------------------------------------------------------------------
(* radio_send, by the worker or by main. *)

(* The semaphore is cleared and the payload written.  One that ESB refuses *)
(* is a failed send at once, which the model shows as an outcome that is   *)
(* there already.                                                          *)
BeginSend(s) ==
  /\ age' = [age EXCEPT ![s] = 0]
  /\ \/ air' = s /\ tx_done' = FALSE /\ tx_ok' = tx_ok
     \/ air' = "none" /\ tx_done' = TRUE /\ tx_ok' = FALSE

\* Mutant: radio_send waits for the outcome without a time limit.
NoTimeoutMutant(s) == tx_done
SendDone(s) == tx_done \/ age[s] = SendTimeout

(* radio_send's wait ends with an outcome, or without one after            *)
(* SendTimeout.  The TX FIFO is flushed unless the payload was acknowledged*)
EndSend(s) ==
  /\ SendDone(s)
  /\ tx_done' = FALSE
  /\ air' = IF tx_done /\ tx_ok THEN air ELSE "none"
  /\ UNCHANGED <<age, tx_ok>>

(* ESB reports success or failure of the payload it has (radio.c event). *)
Event ==
  /\ air # "none" /\ age[air] <= AirTime
  /\ air' = "none" /\ tx_done' = TRUE /\ tx_ok' \in BOOLEAN
  /\ UNCHANGED <<age, queueVars, mainVars, drain_clock>>

-----------------------------------------------------------------------------
(* tx_worker. *)

WorkerReady ==
  \/ owned = NoPacket /\ queue # <<>>
  \/ owned # NoPacket /\ SendDone("worker")

KeepBlock == free' = free

WorkerTakes ==
  /\ owned = NoPacket /\ queue # <<>>
  /\ owned' = Head(queue) /\ queue' = Tail(queue) /\ KeepBlock
  /\ BeginSend("worker")
  /\ UNCHANGED <<pending, completed, accepted, mainVars, drain_clock>>

\* Mutants: a failed send keeps its block; it stays pending.
LeakFailedMutant ==
  /\ completed' = completed + 1
  /\ free' = (IF tx_done /\ tx_ok THEN free \cup {owned} ELSE free)
  /\ owned' = NoPacket /\ pending' = pending - 1
StaysPendingMutant ==
  /\ completed' = completed + 1
  /\ free' = free \cup {owned} /\ owned' = NoPacket
  /\ pending' = (IF tx_done THEN pending - 1 ELSE pending)
Complete ==
  /\ completed' = completed + 1
  /\ free' = free \cup {owned} /\ owned' = NoPacket
  /\ pending' = pending - 1

WorkerCompletes ==
  /\ owned # NoPacket /\ EndSend("worker") /\ Complete
  /\ UNCHANGED <<queue, accepted, mainVars, drain_clock>>

-----------------------------------------------------------------------------
(* main, in run_case. *)

MainMay(place) == mpc = place /\ ~WorkerReady

StartDrain == mpc' = "drain" /\ drain_clock' = 0

(* A run gets through its warm-up, or ends there for lack of frames. *)
BeginRun ==
  /\ MainMay("idle") /\ mpc' \in {"reset", "drain"}
  /\ begun' = FALSE /\ drained' = "none" /\ drain_clock' = 0
  /\ UNCHANGED <<queueVars, sendVars, packet, control, tries>>

(* radio_async_reset, and on to the START packet or, when busy, to the end.*)
Reset ==
  /\ MainMay("reset")
  /\ IF pending # 0
       THEN /\ StartDrain
            /\ UNCHANGED <<completed, accepted, control, tries>>
       ELSE /\ mpc' = "control" /\ control' = "START" /\ tries' = 0
            /\ completed' = 0 /\ accepted' = 0
            /\ UNCHANGED drain_clock
  /\ UNCHANGED <<free, queue, owned, pending, sendVars, packet, begun, drained>>

ControlSends ==
  /\ MainMay("control") /\ mpc' = "wait"
  /\ BeginSend("main")
  /\ UNCHANGED <<queueVars, packet, control, tries, begun, drained, drain_clock>>

AfterControl == IF control = "START" THEN "frames" ELSE "idle"

LastTry == tries + 1 = MaxTries

(* Tried again unless acknowledged, MaxTries times in all. *)
ControlReturns ==
  /\ MainMay("wait") /\ EndSend("main")
  /\ tries' = tries + 1
  /\ mpc' = IF (tx_done /\ tx_ok) \/ LastTry THEN AfterControl ELSE "control"
  /\ begun' = (begun \/ mpc' = "frames")
  /\ UNCHANGED <<queueVars, packet, control, drained, drain_clock>>

Acquire ==
  /\ MainMay("frames") /\ accepted < MaxCommits
  /\ \E p \in free : packet' = p /\ free' = free \ {p}
  /\ mpc' = "fill"
  /\ UNCHANGED <<queue, owned, pending, completed, accepted, sendVars, control,
                 tries, begun, drained, drain_clock>>

(* No packet for an audio frame: the run ends.  (Without one for a volume  *)
(* command the loop goes on: no state changes.)                            *)
AcquireFails ==
  /\ MainMay("frames") /\ free = {}
  /\ StartDrain
  /\ UNCHANGED <<queueVars, sendVars, packet, control, tries, begun, drained>>

(* The encoder failed: radio_async_cancel, and the run ends. *)
Cancel ==
  /\ MainMay("fill")
  /\ free' = free \cup {packet} /\ packet' = NoPacket
  /\ StartDrain
  /\ UNCHANGED <<queue, owned, pending, completed, accepted, sendVars, control,
                 tries, begun, drained>>

(* radio_async_commit counts the packet before it puts it, for the worker  *)
(* runs as soon as it is put.                                              *)
CommitCounts ==
  /\ MainMay("fill") /\ mpc' = "put"
  /\ pending' = pending + 1
  /\ UNCHANGED <<free, queue, owned, completed, accepted, sendVars, packet,
                 control, tries, begun, drained, drain_clock>>

Room == Len(queue) < QueueSize

CommitPuts ==
  /\ MainMay("put") /\ mpc' = "frames" /\ packet' = NoPacket
  /\ IF Room
       THEN /\ queue' = Append(queue, packet) /\ accepted' = accepted + 1
            /\ UNCHANGED <<free, pending>>
       ELSE /\ pending' = pending - 1 /\ free' = free \cup {packet}
            /\ UNCHANGED <<queue, accepted>>
  /\ UNCHANGED <<owned, completed, sendVars, control, tries, begun, drained,
                 drain_clock>>

(* The last frame was sent, or no further frame came. *)
EndFrames ==
  /\ MainMay("frames") /\ StartDrain
  /\ UNCHANGED <<queueVars, sendVars, packet, control, tries, begun, drained>>

\* Mutant: an empty queue is taken for no packet pending.
QueueEmptyMutant == queue = <<>>
NonePending == pending = 0

(* A turn of radio_async_drain's loop that leaves it.  END follows if START*)
(* was sent; a run that ended before that is over.                         *)
DrainReturns ==
  /\ MainMay("drain")
  /\ NonePending \/ drain_clock > DrainBudget
  /\ drained' = IF NonePending THEN "ok" ELSE "timeout"
  /\ mpc' = IF begun THEN "control" ELSE "idle"
  /\ control' = "END" /\ tries' = 0
  /\ UNCHANGED <<queueVars, sendVars, packet, begun, drain_clock>>

-----------------------------------------------------------------------------
(* A tick passes when neither the worker nor main in radio_send can go on. *)
Tick ==
  /\ ~WorkerReady /\ ~(mpc = "wait" /\ SendDone("main"))
  /\ \/ mpc = "drain" \/ mpc = "wait" \/ owned # NoPacket
  /\ age' = [s \in Senders |-> IF age[s] < SendTimeout THEN age[s] + 1
                                                       ELSE SendTimeout]
  /\ drain_clock' = IF mpc = "drain" /\ drain_clock <= DrainBudget
                      THEN drain_clock + 1 ELSE drain_clock
  /\ UNCHANGED <<queueVars, air, tx_done, tx_ok, mainVars>>

WorkerStep == WorkerTakes \/ WorkerCompletes

MainStep ==
  \/ BeginRun \/ Reset \/ ControlSends \/ ControlReturns \/ Acquire
  \/ AcquireFails \/ Cancel \/ CommitCounts \/ CommitPuts \/ EndFrames
  \/ DrainReturns

Next == Event \/ WorkerStep \/ MainStep \/ Tick

Spec == Init /\ [][Next]_vars

(* The scheduler runs a ready thread, and time goes on.  Nothing is assumed*)
(* of ESB: it may never report.                                            *)
FairSpec == Spec /\ WF_vars(WorkerStep) /\ WF_vars(MainStep) /\ WF_vars(Tick)

-----------------------------------------------------------------------------
One(condition) == IF condition THEN 1 ELSE 0
Sending == One(owned # NoPacket)

(* pending counts exactly the packets queued, being sent or about to be    *)
(* put: it is never decremented below zero, and zero means the radio has   *)
(* nothing of the run left.                                                *)
PendingExact == pending = Len(queue) + Sending + One(mpc = "put")

Queued == {queue[i] : i \in DOMAIN queue}

(* Each packet block is free, queued, with the worker or with main, and    *)
(* with one of them only: none is overwritten while ESB reads it, none is  *)
(* lost by a failed or a timed out send.                                   *)
PacketOwnership ==
  /\ free \cup Queued \cup ({owned, packet} \ {NoPacket}) = Packets
  /\ Cardinality(free) + Len(queue) + Sending + One(packet # NoPacket)
       = Cardinality(Packets)

(* radio_async_drain never gives up: the queue is emptied within its       *)
(* deadline even if ESB never answers.                                     *)
DrainInTime == drained # "timeout" /\ (drain_clock > DrainBudget => pending = 0)

(* A run that drained got an outcome for every packet it queued, and the   *)
(* next one finds the radio free.                                          *)
DrainedIsComplete ==
  /\ mpc = "reset" => pending = 0
  /\ drained = "ok" => completed = accepted

(* A run ends, even if the radio never gets an answer. *)
RunEnds == mpc # "idle" ~> mpc = "idle"
=============================================================================
