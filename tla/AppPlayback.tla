----------------------------- MODULE AppPlayback ----------------------------
(***************************************************************************)
(* The playback application of the receiver (app_core/src/main.c): the IPC *)
(* callback that queues messages of the network core, the loop that takes  *)
(* and processes them, and the I2S stream they feed.                       *)
(*                                                                         *)
(* The callback runs in the IPC work queue, above main, and the I2S driver *)
(* in interrupt context: both come between any two frames main outputs.    *)
(* The network core and Zephyr's I2S driver are external, modelled by what *)
(* the application calls and observes.                                     *)
(***************************************************************************)
EXTENDS Integers, Sequences

CONSTANTS
  MailboxSize,   \* capacity of message_q
  SlabBlocks,    \* blocks of i2s_slab
  Prefill,       \* APP_I2S_PREFILL
  SleepPeriods,  \* blocks the DMA plays in the 20 ms of finish_run
  FrameTotals,   \* lengths a run may have
  MaxRuns        \* bound: runs the network core starts

ASSUME PlaybackAssumption ==
  /\ MailboxSize \in Nat \ {0}
  /\ SlabBlocks \in Nat /\ Prefill \in 1 .. SlabBlocks
  /\ FrameTotals \subseteq Nat /\ \A n \in FrameTotals : n >= Prefill
  /\ MaxRuns \in Nat

(* 20 ms are as long as the eight blocks of the slab, at 2.5 ms each.      *)
ASSUME SleepAssumption == SleepPeriods \in Nat /\ SlabBlocks <= SleepPeriods

VARIABLES
  net,           \* the network core: its run, length, next frame, open or not
  mailbox,       \* message_q
  pc,            \* where main is: "idle", "frame", "finish" or "sleep"
  msg,           \* message_q_buf
  active, run, expected,
  next_sequence,
  decoded, plc_frames,      \* app_status counters
  i2s_started, i2s_blocks, i2s_errors, i2s_underruns,
  dma_released,
  driver,        \* state of the I2S driver
  slab,          \* slab blocks the driver has: what is in them, in order
  sleep,         \* block periods left of the sleep in finish_run
  status,        \* the status sent last
  restarted,     \* history: a run began before the one before was reported
  heard, played  \* history: blocks played since the run began, and those
                 \* played when its status was sent

runVars == <<active, run, expected>>
outVars == <<next_sequence, decoded, plc_frames, i2s_started, i2s_blocks,
             i2s_errors, i2s_underruns, dma_released, driver, slab, sleep, heard>>
reported == <<status, played>>
vars == <<net, mailbox, pc, msg, runVars, outVars, reported, restarted>>

held == Len(slab)

Message == [type : {"START", "FRAME", "END"}, run : Nat, seq : Nat]
NoMessage == [type |-> "END", run |-> 0, seq |-> 0]
ZeroStatus == [run |-> 0, expected |-> 0, decoded |-> 0, plc |-> 0,
               blocks |-> 0, errors |-> 0, underruns |-> 0, released |-> 0,
               remaining |-> 0]

One(condition) == IF condition THEN 1 ELSE 0

Init ==
  /\ net = [run |-> 0, total |-> 0, next |-> 0, open |-> FALSE]
  /\ mailbox = <<>> /\ pc = "idle" /\ msg = NoMessage
  /\ active = FALSE /\ run = 0 /\ expected = 0
  /\ next_sequence = 0 /\ decoded = 0 /\ plc_frames = 0
  /\ i2s_started = FALSE /\ i2s_blocks = 0 /\ i2s_errors = 0
  /\ i2s_underruns = 0 /\ dma_released = 0
  /\ driver = "READY" /\ slab = <<>> /\ sleep = 0 /\ status = ZeroStatus
  /\ restarted = FALSE /\ heard = <<>> /\ played = <<>>

-----------------------------------------------------------------------------
(* The network core and the IPC callback. *)

(* k_msgq_put without waiting: a message that finds no room is dropped. *)
Deliver(m) ==
  mailbox' = IF Len(mailbox) < MailboxSize THEN Append(mailbox, m) ELSE mailbox

Sends(m) ==
  /\ Deliver(m)
  /\ UNCHANGED <<pc, msg, runVars, outVars, reported, restarted>>

(* A run starts, also when the END of the one before never came; sending   *)
(* to this core may fail.                                                  *)
NetStart(total) ==
  /\ net.run < MaxRuns
  /\ net' = [run |-> net.run + 1, total |-> total, next |-> 0, open |-> TRUE]
  /\ \/ Sends([type |-> "START", run |-> net.run + 1, seq |-> total])
     \/ UNCHANGED <<mailbox, pc, msg, runVars, outVars, reported, restarted>>

(* Any later frame, for those before it may be lost on the radio. *)
NetFrame(seq) ==
  /\ net.open /\ seq >= net.next /\ seq < net.total
  /\ net' = [net EXCEPT !.next = seq + 1]
  /\ Sends([type |-> "FRAME", run |-> net.run, seq |-> seq])

NetEnd ==
  /\ net.open
  /\ net' = [net EXCEPT !.open = FALSE]
  /\ Sends([type |-> "END", run |-> net.run, seq |-> net.total])

-----------------------------------------------------------------------------
(* The I2S driver. *)

BlockDone ==
  /\ slab' = Tail(slab) /\ heard' = Append(heard, Head(slab))
  /\ dma_released' = dma_released + 1

OthersUnchanged ==
  UNCHANGED <<net, mailbox, pc, msg, runVars, next_sequence, decoded,
              plc_frames, i2s_started, i2s_blocks, i2s_errors, i2s_underruns,
              reported, restarted>>

(* A block of the running stream was played and goes back to the slab. *)
BlockPlayed ==
  /\ driver = "RUNNING" /\ held > 1
  /\ BlockDone
  /\ UNCHANGED <<driver, sleep>> /\ OthersUnchanged

(* No block is queued behind the one or two the DMA has: the driver gives  *)
(* up and frees them.                                                      *)
Underrun ==
  /\ driver = "RUNNING" /\ held \in 1 .. 2
  /\ slab' = <<>> /\ dma_released' = dma_released + held
  /\ driver' = "ERROR" /\ UNCHANGED <<heard, sleep>>
  /\ OthersUnchanged

(* While the driver drains it plays a block in every period, until it is   *)
(* empty and READY again; main's sleep, where it is in it, goes on as well.*)
Draining == driver = "STOPPING" /\ held > 0

DrainPeriod ==
  /\ Draining /\ BlockDone
  /\ driver' = IF held = 1 THEN "READY" ELSE driver
  /\ sleep' = IF sleep > 0 THEN sleep - 1 ELSE 0
  /\ OthersUnchanged

(* A period of the sleep with nothing to drain. *)
SleepPeriod ==
  /\ sleep > 0 /\ ~Draining
  /\ sleep' = sleep - 1
  /\ UNCHANGED <<driver, slab, heard, dma_released>> /\ OthersUnchanged

-----------------------------------------------------------------------------
(* main: one output frame. *)

Written == driver \in {"READY", "RUNNING"} /\ held < SlabBlocks

(* i2s_write_block: needs a slab block and a driver that takes it. *)
WriteBlock(block) ==
  /\ i2s_blocks' = i2s_blocks + One(Written)
  /\ slab' = IF Written THEN Append(slab, block) ELSE slab
  /\ i2s_underruns' = i2s_underruns + One(~Written)

Prefilled == ~i2s_started /\ i2s_blocks' = Prefill

(* i2s_prefill_and_start, tried when the count of blocks is the prefill:   *)
(* the driver starts only from READY.                                      *)
StartStream ==
  /\ driver' = IF Prefilled /\ driver = "READY" THEN "RUNNING" ELSE driver
  /\ i2s_started' = (i2s_started \/ (Prefilled /\ driver = "READY"))
  /\ i2s_errors' = i2s_errors + One(~Written)
                              + One(Prefilled /\ driver # "READY")

(* output_one_frame, decoded or concealed. *)
Output(sequence, concealed) ==
  /\ WriteBlock([run |-> msg.run, seq |-> sequence, concealed |-> concealed])
  /\ StartStream
  /\ decoded' = decoded + 1
  /\ plc_frames' = plc_frames + One(concealed)
  /\ next_sequence' = sequence + 1
  /\ UNCHANGED <<net, mailbox, runVars, dma_released, sleep, heard, reported,
                 restarted>>

-----------------------------------------------------------------------------
(* main: messages. *)

Takes(type) ==
  /\ pc = "idle" /\ mailbox # <<>> /\ Head(mailbox).type = type
  /\ msg' = Head(mailbox) /\ mailbox' = Tail(mailbox)

\* Mutant: frames of any run are played.
AnyRunMutant == active
OfThisRun == active /\ Head(mailbox).run = run

(* reset_run: counters and flags, without a look at the stream. *)
ResetRun ==
  /\ next_sequence' = 0 /\ decoded' = 0 /\ plc_frames' = 0
  /\ i2s_started' = FALSE
  /\ i2s_blocks' = 0 /\ i2s_errors' = 0 /\ i2s_underruns' = 0
  /\ dma_released' = 0 /\ heard' = <<>>

TakeStart ==
  /\ Takes("START") /\ ResetRun
  /\ active' = TRUE /\ run' = msg'.run /\ expected' = msg'.seq
  /\ restarted' = (restarted \/ active)
  /\ UNCHANGED <<net, pc, driver, slab, sleep, reported>>

TakeFrame ==
  /\ Takes("FRAME")
  /\ pc' = IF OfThisRun /\ msg'.seq >= next_sequence THEN "frame" ELSE "idle"
  /\ UNCHANGED <<net, runVars, outVars, reported, restarted>>

TakeEnd ==
  /\ Takes("END")
  /\ pc' = IF OfThisRun THEN "finish" ELSE "idle"
  /\ UNCHANGED <<net, runVars, outVars, reported, restarted>>

\* Mutant: a frame is played although frames before it are missing.
FrameDueMutant == msg.seq >= next_sequence
FrameDue == msg.seq = next_sequence

ConcealGap ==
  /\ pc = "frame" /\ next_sequence < msg.seq
  /\ Output(next_sequence, TRUE)
  /\ UNCHANGED <<pc, msg>>

PlayFrame ==
  /\ pc = "frame" /\ FrameDue /\ Output(msg.seq, FALSE)
  /\ pc' = "idle" /\ UNCHANGED msg

\* Mutant: the tail of a run is concealed one frame too far.
LongTailMutant == next_sequence <= expected
TailMissing == next_sequence < expected

ConcealTail ==
  /\ pc = "finish" /\ TailMissing /\ Output(next_sequence, TRUE)
  /\ UNCHANGED <<pc, msg>>

\* Mutant: a stream that cannot be drained is left as it is.
NoPrepareMutant ==
  /\ driver' = IF driver = "RUNNING" THEN "STOPPING" ELSE driver
  /\ slab' = slab
(* DRAIN; a driver in error is prepared again instead, which empties it. *)
DrainOrPrepare ==
  /\ driver' = CASE driver = "RUNNING" -> "STOPPING"
                 [] driver = "ERROR"   -> "READY"
                 [] OTHER              -> driver
  /\ slab' = IF driver = "ERROR" THEN <<>> ELSE slab

\* Mutant: the sleep ends before the last block of a full slab is played.
ShortSleepMutant == SleepPeriods - 1
SleepLength == SleepPeriods

(* i2s_stop, which does nothing unless the stream was started by this run, *)
(* and k_msleep.                                                           *)
Stop ==
  /\ pc = "finish" /\ ~TailMissing
  /\ pc' = "sleep"
  /\ IF i2s_started
       THEN /\ DrainOrPrepare
            /\ i2s_errors' = i2s_errors + One(driver # "RUNNING")
       ELSE UNCHANGED <<driver, slab, i2s_errors>>
  /\ i2s_started' = FALSE
  /\ sleep' = SleepLength
  /\ UNCHANGED <<net, mailbox, msg, runVars, next_sequence, decoded, plc_frames,
                 i2s_blocks, i2s_underruns, dma_released, heard, reported,
                 restarted>>

(* main goes on after the 20 ms, whatever the driver does. *)
SleepOver == pc = "sleep" /\ sleep = 0

(* The status of the run is sent and the run is over. *)
Report ==
  /\ SleepOver
  /\ status' = [run |-> run, expected |-> expected, decoded |-> decoded,
                plc |-> plc_frames,
                blocks |-> i2s_blocks, errors |-> i2s_errors,
                underruns |-> i2s_underruns, released |-> dma_released,
                remaining |-> held]
  /\ played' = heard /\ active' = FALSE /\ pc' = "idle"
  /\ UNCHANGED <<net, mailbox, msg, run, expected, outVars, restarted>>

-----------------------------------------------------------------------------
(* The verdict of tools/summarize-rx-playback.py on the status. *)
NoErrors == {status.plc, status.errors, status.underruns} = {0}

Passed ==
  /\ {status.decoded, status.blocks, status.released} = {status.expected}
  /\ status.remaining = 0
  /\ NoErrors

-----------------------------------------------------------------------------
NetStep ==
  \/ \E total \in FrameTotals : NetStart(total)
  \/ \E seq \in 0 .. net.total : NetFrame(seq)
  \/ NetEnd

DmaStep == BlockPlayed \/ Underrun \/ DrainPeriod \/ SleepPeriod

MainStep ==
  \/ TakeStart \/ TakeFrame \/ TakeEnd \/ ConcealGap \/ PlayFrame
  \/ ConcealTail \/ Stop \/ Report

Next == NetStep \/ DmaStep \/ MainStep

Spec == Init /\ [][Next]_vars

-----------------------------------------------------------------------------
(* The sequence numbers of a run are output in order and once each, decoded*)
(* or concealed: no gap and no overtaken frame shifts the audio.           *)
OncePerSequence == active => decoded = next_sequence /\ decoded <= expected

(* The status of a run accounts for every frame of it: all were decoded or *)
(* concealed, and each went to the driver or is counted as an underrun.    *)
StatusComplete ==
  /\ status.decoded = status.expected
  /\ status.blocks + status.underruns = status.decoded

(* A run the bench's validator passes was heard: the blocks the DMA had    *)
(* played when its status was sent are the frames of the run and no others,*)
(* in order and none concealed (summarize-rx-playback.py:3 takes releases  *)
(* for played blocks when the error counters are zero).                    *)
PassedRunWasPlayed ==
  Passed /\ status.run # 0 =>
    played = [i \in 1 .. status.expected |->
                [run |-> status.run, seq |-> i - 1, concealed |-> FALSE]]

(* After a run was reported the stream is ready for the next one, whatever *)
(* underruns it had and however full the slab was when finish_run began to *)
(* drain it, unless a run began before the one before was reported.        *)
StreamRecovers ==
  ~restarted /\ ~active /\ pc = "idle" => driver = "READY"

(* "Start after three decoded PCM blocks have been queued" (the README of  *)
(* app_core): once a run has them, its stream is started.                  *)
StartsAfterPrefill ==
  active /\ pc # "sleep" /\ i2s_blocks >= Prefill => i2s_started
=============================================================================
