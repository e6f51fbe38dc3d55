----------------------------- MODULE RateControl ----------------------------
(***************************************************************************)
(* The variable bit rate of the custom codec: how codec_encode_usb splits  *)
(* the bit rate into byte targets, and how custom_spec_analyze turns a     *)
(* target into the length and the gain index of a channel's payload, with a*)
(* reservoir of bytes that earlier frames left unused.                     *)
(*                                                                         *)
(* What the spectrum of a frame asks for, in bytes and in gain, is any     *)
(* value: the properties hold for every signal.                            *)
(***************************************************************************)
EXTENDS Integers

CONSTANTS
  Bitrate,       \* custom_bitrate: a command asks for 320000 to 400000
  BlockRate,     \* blocks per second times eight bits: 6400
  MinPayload,    \* 20
  MaxPayload,    \* 100
  Header,        \* bytes lc3_custom_encode puts before a payload: 2
  Burst,         \* bytes a payload may borrow: 8
  TopIndex,      \* greatest gain index: 255
  GainOffset,    \* resolve_gain_offset at 48 kHz, by payload length
  Demands,       \* lengths a spectrum may ask for
  Gains,         \* gains the search may return
  Corrections,   \* gain steps the correction of a capped frame may ask for
  MaxFrames      \* bound: frames encoded

Channels == {0, 1}

(* The bytes of the blocks before block b, at the bit rate. *)
BytesBefore(b) == (b * Bitrate) \div BlockRate
Target(block) == BytesBefore(block + 1) - BytesBefore(block)

ASSUME LengthAssumption ==
  /\ Bitrate \in Nat /\ BlockRate \in Nat \ {0}
  /\ MinPayload \in Nat /\ MaxPayload \in Nat /\ MinPayload <= MaxPayload
  /\ Header \in Nat /\ Burst \in Nat /\ MaxFrames \in Nat
  /\ (MinPayload + Header) * BlockRate <= Bitrate
  /\ Bitrate < (MaxPayload + Header) * BlockRate

ASSUME GainAssumption ==
  /\ TopIndex \in Nat
  /\ GainOffset \in [MinPayload .. MaxPayload -> Int]
  /\ \A m, n \in MinPayload .. MaxPayload :
        m <= n => GainOffset[m] <= GainOffset[n]
  /\ GainOffset[MaxPayload] - GainOffset[MinPayload] <= TopIndex

ASSUME SignalAssumption ==
  Demands \subseteq Nat /\ Gains \subseteq Int /\ Corrections \subseteq Nat

VARIABLES
  sequence,   \* the frame encoded next
  channel,    \* and the channel of it
  spare,      \* nbits_spare of each channel's encoder
  granted,    \* history: payload bytes the targets granted each channel
  spent,      \* history: payload bytes each channel used
  length,     \* payload lengths of the frame, 0 for one not encoded yet
  gain_index  \* g_idx of the last payload

vars == <<sequence, channel, spare, granted, spent, length, gain_index>>

Init ==
  /\ sequence = 0 /\ channel = 0
  /\ spare = [c \in Channels |-> 0]
  /\ granted = [c \in Channels |-> 0] /\ spent = [c \in Channels |-> 0]
  /\ length = [c \in Channels |-> 0] /\ gain_index = 0

(* LC3_CLIP, LC3_MIN and LC3_MAX. *)
Lesser(x, y) == IF x <= y THEN x ELSE y
Greater(x, y) == IF x >= y THEN x ELSE y
Clip(x, low, high) == Lesser(Greater(x, low), high)

\* Mutant: the burst is not bounded by what the reservoir has.
UnboundedBurstMutant(nbytes, saved) ==
  Clip(nbytes + Burst, MinPayload, MaxPayload)
Cap(nbytes, saved) ==
  Clip(nbytes + Lesser(saved, Burst), MinPayload, MaxPayload)

Actual(wanted, cap) == Clip(wanted, MinPayload, cap)

Refill(saved, nbytes, actual) == Clip(saved + nbytes - actual, 0, 2 * nbytes)

(* The gain is held to what every payload length can signal. *)
HeldGain(g) ==
  Clip(g, -GainOffset[MinPayload], TopIndex - GainOffset[MaxPayload])

\* Mutant: the correction is limited for another length than the coded one.
WrongLimitMutant(delta, g, actual) ==
  Lesser(Greater(1, delta), TopIndex - GainOffset[MinPayload] - g)
(* The one correction of a capped frame coarsens the gain by at least a    *)
(* step, as far as the index allows.                                       *)
Correction(delta, g, actual) ==
  Lesser(Greater(1, delta), TopIndex - GainOffset[actual] - g)

CorrectedGain(g, delta, capped, actual) ==
  IF capped THEN g + Greater(0, Correction(delta, g, actual)) ELSE g

Block == sequence + channel

(* lc3_custom_encode refuses any other target with an error.               *)
Accepted(target) == target \in MinPayload + Header .. MaxPayload + Header

(* One channel of a frame is encoded: custom_spec_analyze, called through  *)
(* lc3_custom_encode from codec_encode_usb.                                *)
EncodeChannel(wanted, searched, delta) ==
  LET nbytes == Target(Block) - Header
      saved  == spare[channel]
      cap    == Cap(nbytes, saved)
      actual == Actual(wanted, cap)
      g      == CorrectedGain(HeldGain(searched), delta, wanted > cap, actual)
  IN /\ sequence < MaxFrames
     /\ Accepted(Target(Block))
     /\ spare' = [spare EXCEPT ![channel] = Refill(saved, nbytes, actual)]
     /\ granted' = [granted EXCEPT ![channel] = @ + nbytes]
     /\ spent' = [spent EXCEPT ![channel] = @ + actual]
     /\ length' = [c \in Channels |-> IF c = channel THEN actual
                                      ELSE IF channel = 1 THEN length[c] ELSE 0]
     /\ gain_index' = g + GainOffset[actual]
     /\ channel' = 1 - channel
     /\ sequence' = sequence + channel

Next ==
  \E wanted \in Demands, searched \in Gains, delta \in Corrections :
     EncodeChannel(wanted, searched, delta)

Spec == Init /\ [][Next]_vars
-----------------------------------------------------------------------------
(* Every variable keeps its type (CodecProofs). *)
TypeOK ==
  /\ sequence \in Nat /\ channel \in Channels
  /\ spare \in [Channels -> Nat]
  /\ granted \in [Channels -> Nat] /\ spent \in [Channels -> Nat]
  /\ length \in [Channels -> 0 .. MaxPayload] /\ gain_index \in Int

(* Frames a channel has encoded. *)
Encoded(c) == IF c < channel THEN sequence + 1 ELSE sequence

(* The bytes granted to a channel are those of the blocks it encoded at the*)
(* bit rate, less the headers, however the division rounds: the targets add*)
(* up.                                                                     *)
TargetsAddUp ==
  \A c \in Channels :
     granted[c] + Header * Encoded(c) = BytesBefore(c + Encoded(c)) - BytesBefore(c)

(* A channel never uses more bytes than its targets granted it so far, and *)
(* the reservoir never promises more than what is left: bursts only spend  *)
(* what earlier frames saved.  (The tests of the codec assert a bit rate   *)
(* below the target for the streams they encode.)                          *)
RateNeverExceeded == \A c \in Channels : spent[c] + spare[c] <= granted[c]

(* The search held the gain before the length of the payload was known.    *)
GainIndexInRange == gain_index \in 0 .. TopIndex

(* Every payload has a length the decoder accepts and, whatever it is, a   *)
(* gain index that fits its eight bits; and however the division rounds, no*)
(* target of a stream is refused halfway through a frame.                  *)
PayloadInRange ==
  /\ \A c \in Channels : length[c] # 0 => length[c] \in MinPayload .. MaxPayload
  /\ Accepted(Target(Block))
  /\ GainIndexInRange

(* The reservoir is at most two frames of the bit rate: no quiet passage,  *)
(* however long, lets a channel save up for more than that.  A consequence *)
(* of Refill and Target, proved as one.                                    *)
ReservoirBounded ==
  \A c \in Channels : spare[c] <= 2 * (Bitrate \div BlockRate + 1 - Header)
=============================================================================
