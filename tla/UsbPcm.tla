------------------------------- MODULE UsbPcm -------------------------------
(***************************************************************************)
(* The USB input of the transmitter: the callbacks of usb_pcm.c that cut   *)
(* the host's byte stream into PCM frames, and the frame loop of main_usb.c*)
(* that consumes them.                                                     *)
(*                                                                         *)
(* The callbacks run in the USB thread, whose priority is cooperative and  *)
(* above main's: each is one step, and may fall between any two steps of   *)
(* main.  usb_pcm_finish runs under irq_lock: one step of main.            *)
(*                                                                         *)
(* A byte count is abstracted to units: a frame is FrameUnits of them and a*)
(* packet brings fewer than a frame, as 304 bytes at most against 720 do,  *)
(* so that a callback completes at most one frame.                         *)
(***************************************************************************)
EXTENDS Integers, Sequences, FiniteSets

CONSTANTS
  Buffers,       \* the blocks of frame_pool
  NoBuf,         \* the NULL block pointer
  QueueSize,     \* capacity of pcm_frames
  FrameUnits,    \* units in one frame (USB_PCM_BYTES)
  PacketUnits,   \* units a packet may bring
  Warmup,        \* USB_WARMUP_FRAMES
  FrameCounts,   \* frame counts a host asks for
  MaxRuns        \* bound: commands accepted in one behaviour

ASSUME PoolAssumption ==
  /\ QueueSize \in Nat
  /\ IsFiniteSet(Buffers)
  /\ Cardinality(Buffers) = QueueSize + 2
  /\ NoBuf \notin Buffers

ASSUME SizeAssumption ==
  /\ FrameUnits \in Nat \ {0}
  /\ PacketUnits \subseteq 1 .. (FrameUnits - 1)
  /\ Warmup \in Nat
  /\ FrameCounts \subseteq Nat \ {0}
  /\ MaxRuns \in Nat

VARIABLES
  pool,          \* free blocks of frame_pool
  queue,         \* pcm_frames: frames completed and not yet taken
  partial,       \* the block being filled
  partial_have,  \* units already in it
  produced,      \* frames completed since the command
  active,        \* bytes are PCM, not command bytes
  run,           \* the command accepted last
  run_owned,     \* main has not finished with it
  run_ready,     \* semaphore: a run waits for main
  stats,         \* overflow and disconnect counters of the run
  enabled,       \* the host streams: the terminal is enabled
  received,      \* history: units of PCM since the command
  generation,    \* history: commands accepted so far
  pc,            \* where main is
  cur,           \* main's copy of the run
  input,         \* the frame main works on
  index,         \* frames main has consumed in this run
  sequence_errors,
  timeout,
  out            \* the statistics usb_pcm_finish returned

usbVars  == <<partial, partial_have, produced, active, received>>
runVars  == <<run, run_owned, run_ready, generation>>
mainVars == <<cur, index, sequence_errors, timeout, out>>
vars == <<pool, queue, stats, enabled, pc, input, usbVars, runVars, mainVars>>

Frame == [buf : Buffers, sequence : Nat, generation : Nat]
NoFrame == [buf |-> NoBuf, sequence |-> 0, generation |-> 0]
Stats == [overflows : Nat, queued_frames : Nat, disconnects : Nat]
ZeroStats == [overflows |-> 0, queued_frames |-> 0, disconnects |-> 0]
Run == [frames : FrameCounts \cup {0}]
NoRun == [frames |-> 0]

Target(r) == r.frames + Warmup

(* The places of main: waiting for a command, about to take a frame,       *)
(* blocked on an empty queue, working on a frame, resetting and draining   *)
(* the radio, about to finish the run and about to report it.              *)
Places == {"wait", "get", "blocked", "work", "reset", "drain", "finish", "end"}
InRun == pc \notin {"wait", "end"}

Init ==
  /\ pool = Buffers /\ queue = <<>> /\ partial = NoBuf /\ partial_have = 0
  /\ produced = 0 /\ active = FALSE /\ received = 0
  /\ run = NoRun /\ run_owned = FALSE /\ run_ready = FALSE /\ generation = 0
  /\ stats = ZeroStats /\ enabled = FALSE
  /\ pc = "wait" /\ cur = NoRun /\ input = NoFrame /\ index = 0
  /\ sequence_errors = 0 /\ timeout = FALSE /\ out = ZeroStats

-----------------------------------------------------------------------------
(* The USB thread. *)

(* What k_mem_slab_alloc with K_NO_WAIT may return from the free blocks. *)
Allocated(free) == IF free = {} THEN {NoBuf} ELSE free

(* Bytes go on into the block being filled, which is allocated first when  *)
(* the frame starts; free is the pool at that moment.                      *)
StartPartial(free) ==
  \E b \in Allocated(free) : partial' = b /\ pool' = free \ {b}

\* Mutant: assembly is not reset.
KeepAssemblyMutant(k) == partial_have' = partial_have + k
EndpointFree == ~run_owned
ResetAssembly(k) == partial_have' = k

(* A complete and valid command: accepted only when main is done with the  *)
(* run before.  The rest of its packet, k units, is already PCM.           *)
ReceiveCommand(frames, k) ==
  /\ enabled /\ ~active /\ EndpointFree
  /\ generation < MaxRuns
  /\ run' = [frames |-> frames]
  /\ stats' = ZeroStats
  /\ produced' = 0 /\ ResetAssembly(k) /\ received' = k
  /\ run_owned' = TRUE /\ active' = TRUE /\ run_ready' = TRUE
  /\ generation' = generation + 1
  /\ IF k > 0 /\ partial = NoBuf
       THEN StartPartial(pool)
       ELSE UNCHANGED <<pool, partial>>
  /\ UNCHANGED <<queue, enabled, pc, input, mainVars>>

FrameNotFull(k) == partial_have + k < FrameUnits

(* A packet of k units that does not complete the frame. *)
ReceivePart(k) ==
  /\ enabled /\ active
  /\ FrameNotFull(k)
  /\ IF partial_have = 0 /\ partial = NoBuf
       THEN StartPartial(pool)
       ELSE UNCHANGED <<pool, partial>>
  /\ partial_have' = partial_have + k /\ received' = received + k
  /\ UNCHANGED <<queue, stats, enabled, pc, input, produced, active, runVars,
                 mainVars>>

Completed == [buf |-> partial, sequence |-> produced, generation |-> generation]

(* k_msgq_put hands the frame to main when main is blocked in k_msgq_get,  *)
(* and queues it otherwise.                                                *)
PutFrame ==
  /\ stats' = [stats EXCEPT !.queued_frames = @ + 1]
  /\ IF pc = "blocked"
       THEN input' = Completed /\ pc' = "work" /\ queue' = queue
       ELSE queue' = Append(queue, Completed) /\ UNCHANGED <<input, pc>>

\* Mutants: the queue's capacity is off by one, either way.
LargerQueueMutant == pc # "blocked" /\ Len(queue) > QueueSize
SmallerQueueMutant == pc # "blocked" /\ Len(queue) + 1 >= QueueSize
QueueFull == pc # "blocked" /\ Len(queue) = QueueSize

DropFrame ==
  /\ stats' = [stats EXCEPT !.overflows = @ + 1]
  /\ UNCHANGED <<queue, input, pc>>

\* Mutant: the endpoint takes one frame too many.
LateLastFrameMutant == produced = Target(run)
LastFrame == produced + 1 = Target(run)

(* A packet of k units that completes the frame: the frame is queued, or   *)
(* dropped when there is no block or no room.  Bytes beyond it begin the   *)
(* next frame, unless this was the last one of the run: then the endpoint  *)
(* looks for a command again.                                              *)
ReceiveLast(k) ==
  LET rest == partial_have + k - FrameUnits
      lost == partial = NoBuf \/ QueueFull
      free == IF lost THEN pool \cup ({partial} \ {NoBuf}) ELSE pool
  IN /\ enabled /\ active
     /\ rest >= 0
     /\ IF lost THEN DropFrame ELSE PutFrame
     /\ produced' = produced + 1
     /\ active' = ~LastFrame
     /\ IF LastFrame \/ rest = 0
          THEN /\ pool' = free /\ partial' = NoBuf /\ partial_have' = 0
               /\ received' = received + k - rest
          ELSE /\ StartPartial(free) /\ partial_have' = rest
               /\ received' = received + k
     /\ UNCHANGED <<enabled, runVars, mainVars>>

\* Mutant: the block being filled is forgotten and not freed.
LeakPartialMutant == partial' = NoBuf /\ UNCHANGED pool
GiveUpPartial ==
  pool' = pool \cup ({partial} \ {NoBuf}) /\ partial' = NoBuf

(* The host stops streaming: the frame being filled is given up and the    *)
(* run gets no more of them.                                               *)
TerminalDisabled ==
  /\ enabled /\ enabled' = FALSE
  /\ stats' = IF active THEN [stats EXCEPT !.disconnects = @ + 1] ELSE stats
  /\ active' = FALSE /\ partial_have' = 0
  /\ GiveUpPartial
  /\ UNCHANGED <<queue, pc, input, produced, received, runVars, mainVars>>

TerminalEnabled ==
  /\ ~enabled /\ enabled' = TRUE
  /\ UNCHANGED <<pool, queue, stats, pc, input, usbVars, runVars, mainVars>>

-----------------------------------------------------------------------------
(* main. *)

(* usb_pcm_wait_run returns a copy of the run, and run_case starts on it. *)
WaitRun ==
  /\ pc = "wait" /\ run_ready
  /\ run_ready' = FALSE /\ cur' = run
  /\ index' = 0 /\ sequence_errors' = 0 /\ timeout' = FALSE
  /\ pc' = IF Warmup = 0 THEN "reset" ELSE "get"
  /\ UNCHANGED <<pool, queue, stats, enabled, input, usbVars, run, run_owned,
                 generation, out>>

Get ==
  /\ pc = "get" /\ queue # <<>>
  /\ input' = Head(queue) /\ queue' = Tail(queue) /\ pc' = "work"
  /\ UNCHANGED <<pool, stats, enabled, usbVars, runVars, mainVars>>

Block ==
  /\ pc = "get" /\ queue = <<>>
  /\ pc' = "blocked"
  /\ UNCHANGED <<pool, queue, stats, enabled, input, usbVars, runVars, mainVars>>

\* Mutant: the wait for a frame has no time limit.
WaitForeverMutant == pc = "blocked" /\ FALSE

(* No frame came for two seconds. *)
GetTimeout ==
  /\ pc = "blocked"
  /\ timeout' = TRUE /\ pc' = "drain"
  /\ UNCHANGED <<pool, queue, stats, enabled, input, usbVars, runVars, cur,
                 index, sequence_errors, out>>

Release ==
  /\ pool' = pool \cup {input.buf} /\ input' = NoFrame

CheckSequence ==
  sequence_errors' = sequence_errors + (IF input.sequence # index THEN 1 ELSE 0)

(* A frame is checked, encoded, submitted and released. *)
Work ==
  /\ pc = "work"
  /\ CheckSequence /\ Release
  /\ index' = index + 1
  /\ pc' = CASE index + 1 = Warmup -> "reset"
             [] index + 1 = Target(cur) -> "drain"
             [] OTHER -> "get"
  /\ UNCHANGED <<queue, stats, enabled, usbVars, runVars, cur, timeout, out>>

(* No packet buffer, or the encoder returned an impossible size: the frame *)
(* is released and the run ends.  Only audio frames are sent.              *)
WorkFails ==
  /\ pc = "work" /\ index >= Warmup
  /\ CheckSequence /\ Release
  /\ pc' = "drain"
  /\ UNCHANGED <<queue, stats, enabled, usbVars, runVars, cur, index, timeout,
                 out>>

(* radio_async_reset after the warm-up: fails while packets are pending. *)
Reset ==
  /\ pc = "reset"
  /\ pc' \in {"get", "drain"}
  /\ UNCHANGED <<pool, queue, stats, enabled, input, usbVars, runVars, mainVars>>

(* radio_async_drain, which returns within its deadline either way. *)
Drain ==
  /\ pc = "drain" /\ pc' = "finish"
  /\ UNCHANGED <<pool, queue, stats, enabled, input, usbVars, runVars, mainVars>>

QueuedBlocks == {queue[i].buf : i \in DOMAIN queue}

EmptyQueue ==
  /\ pool' = pool \cup QueuedBlocks \cup ({partial} \ {NoBuf})
  /\ queue' = <<>>

(* usb_pcm_finish: takes the statistics, empties the queue and gives the   *)
(* endpoint back to the next command.  partial_have keeps its value.       *)
Finish ==
  /\ pc = "finish"
  /\ active' = FALSE /\ out' = stats
  /\ EmptyQueue /\ partial' = NoBuf
  /\ run_owned' = FALSE /\ pc' = "end"
  /\ UNCHANGED <<stats, enabled, input, partial_have, produced, received, run,
                 run_ready, generation, cur, index, sequence_errors, timeout>>

(* The END packets and the report; then main waits for the next run. *)
SendEnd ==
  /\ pc = "end" /\ pc' = "wait"
  /\ UNCHANGED <<pool, queue, stats, enabled, input, usbVars, runVars, mainVars>>

-----------------------------------------------------------------------------
UsbStep ==
  \/ \E frames \in FrameCounts, k \in {0} \cup PacketUnits :
        ReceiveCommand(frames, k)
  \/ \E k \in PacketUnits : ReceivePart(k) \/ ReceiveLast(k)
  \/ TerminalDisabled
  \/ TerminalEnabled

MainStep ==
  \/ WaitRun \/ Get \/ Block \/ GetTimeout \/ Work \/ WorkFails
  \/ Reset \/ Drain \/ Finish \/ SendEnd

Next == UsbStep \/ MainStep

Spec == Init /\ [][Next]_vars

(* main is runnable whenever it is not blocked, and the two-second timeout *)
(* bounds the only wait inside a run; the host owes nothing.               *)
FairSpec == Spec /\ WF_vars(MainStep)

-----------------------------------------------------------------------------
(* Every variable keeps its type (UsbPcmProofs). *)
TypeOK ==
  /\ pool \subseteq Buffers /\ queue \in Seq(Frame)
  /\ partial \in Buffers \cup {NoBuf}
  /\ partial_have \in 0 .. (FrameUnits - 1) /\ produced \in Nat
  /\ active \in BOOLEAN /\ received \in Nat
  /\ run \in Run /\ run_owned \in BOOLEAN /\ run_ready \in BOOLEAN
  /\ generation \in Nat /\ stats \in Stats /\ enabled \in BOOLEAN
  /\ pc \in Places /\ cur \in Run /\ input \in Frame \cup {NoFrame}
  /\ index \in Nat /\ sequence_errors \in Nat /\ timeout \in BOOLEAN
  /\ out \in Stats

HeldBlocks == ({partial} \cup {input.buf}) \ {NoBuf}

(* Each block of the pool has one owner: the free list, the queue, the     *)
(* frame being filled or main.  No block is shared, freed twice or leaked  *)
(* by an overflow, a disconnect, a failed frame or the end of a run.       *)
ExclusiveOwnership ==
  /\ pool \cup QueuedBlocks \cup HeldBlocks = Buffers
  /\ pool \cap QueuedBlocks = {}
  /\ (pool \cup QueuedBlocks) \cap HeldBlocks = {}
  /\ \A i, j \in DOMAIN queue : queue[i].buf = queue[j].buf => i = j
  /\ partial = input.buf => partial = NoBuf

(* The allocation the callback ignores the result of (line 94) never fails *)
(* while a frame must start, and a frame under way always has a block: the *)
(* pool of QueueSize + 2 is exactly enough.                                *)
PoolSuffices ==
  active => /\ partial_have = 0 => pool # {}
            /\ partial_have > 0 => partial # NoBuf

(* Frames start at multiples of a frame in the stream that follows the     *)
(* command, whatever a run before it left half filled.                     *)
ByteAlignment ==
  active => received = produced * FrameUnits + partial_have

(* A run whose report says every frame was sent lost none: no overflow, no *)
(* gap, no disconnect and no timeout, as the bench's acceptance of a run   *)
(* needs.                                                                  *)
CompleteRunIsClean ==
  pc = "end" /\ index = Target(cur) =>
     /\ out.overflows = 0 /\ out.disconnects = 0
     /\ sequence_errors = 0 /\ ~timeout

RunTarget == IF generation = 0 THEN 0 ELSE Target(run)

Waiting ==
  (IF pc = "work" THEN <<input.sequence>> ELSE <<>>)
    \o [i \in DOMAIN queue |-> queue[i].sequence]

Feed == INSTANCE PcmFeed WITH
  Depth   <- QueueSize,
  Targets <- {f + Warmup : f \in FrameCounts},
  open    <- run_owned,
  target  <- RunTarget,
  made    <- produced,
  lost    <- stats.overflows,
  stream  <- Waiting

(* The endpoint, its queue and the loop implement the abstract feed: frames*)
(* come in order, once, and none is lost while the queue has room.         *)
ImplementsFeed == Feed!FeedSpec

(* An endpoint taken by a run is given back, whatever the host does: the   *)
(* next command can be accepted.                                           *)
EndpointReturns == run_owned ~> ~run_owned
=============================================================================
