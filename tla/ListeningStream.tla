--------------------------- MODULE ListeningStream --------------------------
(***************************************************************************)
(* One excerpt of the listening set at one bitrate: how                    *)
(* tools/make-lc3-listening-set.py cuts it out of its source, with music   *)
(* before and silence behind it for the codec, encodes, archives and       *)
(* decodes it frame by frame and cuts the excerpt out again, and how       *)
(* tools/verify-lc3-listening-set.py reads the archive, arrives at the same*)
(* samples and looks for the lag at which they fit the reference best.     *)
(*                                                                         *)
(* A sample is its place in the source and its channel; the codec is a     *)
(* delay.  A packet is the bytes the verifier looks at: the identifier, the*)
(* length that follows it, and content that names its frame and channel.   *)
(***************************************************************************)
EXTENDS Integers, Sequences, SequencesExt

CONSTANTS
  N,         \* samples of a frame
  Delay,     \* of encoder and decoder, in samples
  Second,    \* FS: samples of a second, the most of music before an excerpt
  MaxLag,    \* samples by which the verifier shifts the WAV either way
  Excerpts,  \* sources: [samples, start, duration]
  Sizes      \* patterns of packet lengths, repeated over the packets

(* A packet has 22 to 102 bytes.  A second is of whole frames, and a frame *)
(* is longer than the largest lag by two samples: a slice of the WAV never *)
(* has just one sample, which numpy would stretch to any length.           *)
ASSUME StreamAssumption ==
  /\ {N, Second} \subseteq Nat \ {0} /\ Delay \in Nat
  /\ MaxLag \in Nat /\ MaxLag + 2 <= N /\ Second % N = 0
  /\ \A t \in Excerpts : {t.samples, t.start, t.duration} \subseteq Nat
  /\ \A s \in Sizes : s \in Seq(22 .. 102) /\ s # <<>>

Channels == 0 .. 1
Identifier == 209

VARIABLES
  phase,     \* "cut", "encode", "saved", "parse", "checked", or "refused" and
             \* "mismatch" when an assertion of the maker or verifier fails,
             \* "raised" when the verifier does for slices that do not match
  track, size,
  seq,       \* the next frame
  y,         \* decoded samples of each channel
  packets,   \* the archive
  lengths,   \* bytes of each stereo frame
  offset,    \* where the verifier reads
  decoded    \* what the verifier decoded

streamVars == <<phase, track, size, seq, y, packets, lengths, offset, decoded>>

Least(a, b) == IF a < b THEN a ELSE b
Ceiling(a) == ((a + N - 1) \div N) * N

-----------------------------------------------------------------------------
(* The excerpt. *)

Length == (Least(track.duration, track.samples - track.start) \div N) * N
HistoryStart == IF track.start > Second THEN track.start - Second ELSE 0
PreRoll == track.start - HistoryStart
End == track.start + Length
InputEnd == Least(track.samples, End + Delay + 2 * N)

\* Mutant: nothing is encoded behind the excerpt.
NoFlushMutant == Ceiling(PreRoll + Length)
PaddedLength == Ceiling(PreRoll + Length + Delay + 2 * N)

Silence == -1
(* What is encoded: the source from HistoryStart on, then silence. *)
Stream(p) == IF p \in 0 .. InputEnd - HistoryStart - 1 THEN HistoryStart + p ELSE Silence

StreamInit ==
  /\ phase = "cut" /\ track \in Excerpts /\ size \in Sizes
  /\ seq = 0 /\ y = [ch \in Channels |-> <<>>] /\ packets = <<>>
  /\ lengths = <<>> /\ offset = 0 /\ decoded = [ch \in Channels |-> <<>>]

Cut ==
  /\ phase = "cut"
  /\ phase' = IF Length > Second THEN "encode" ELSE "refused"
  /\ UNCHANGED <<track, size, seq, y, packets, lengths, offset, decoded>>

-----------------------------------------------------------------------------
(* roundtrip *)

PacketSize(n, ch) == size[((2 * n + ch) % Len(size)) + 1]
Packet(n, ch) == <<Identifier, PacketSize(n, ch) - 2>>
                 \o [k \in 1 .. PacketSize(n, ch) - 2 |-> 1000 + 2 * n + ch]

(* The samples a decoder of channel ch gives for packet p of frame n. *)
Decoded(p, ch) ==
  LET n == (p[3] - 1000) \div 2 IN
  [k \in 1 .. N |-> <<(p[3] - 1000) % 2, Stream(n * N + k - 1 - Delay)>>]

\* Mutant: the two lengths stand in front of the other channel's packet.
SwappedMutant(left, right) == <<Len(right), Len(left)>> \o left \o right
Framed(left, right) == <<Len(left), Len(right)>> \o left \o right

EncodeFrame ==
  /\ phase = "encode" /\ seq * N < PaddedLength
  /\ LET left == Packet(seq, 0)
         right == Packet(seq, 1)
     IN  /\ y' = [ch \in Channels |->
                    y[ch] \o Decoded(IF ch = 0 THEN left ELSE right, ch)]
         /\ lengths' = Append(lengths, Len(left) + Len(right))
         /\ packets' = packets \o Framed(left, right)
  /\ seq' = seq + 1
  /\ UNCHANGED <<phase, track, size, offset, decoded>>

(* The excerpt is cut out of what was decoded, and saved. *)
Save ==
  /\ phase = "encode" /\ seq * N = PaddedLength
  /\ phase' = "saved"
  /\ UNCHANGED <<track, size, seq, y, packets, lengths, offset, decoded>>

-----------------------------------------------------------------------------
(* The verifier. *)

StartVerify ==
  /\ phase = "saved" /\ phase' = "parse" /\ seq' = 0 /\ offset' = 0
  /\ UNCHANGED <<track, size, y, packets, lengths, decoded>>

(* Part of the archive, as a slice gives it: what is there of it. *)
Slice(from, len) == SubSeq(packets, from + 1, Least(from + len, Len(packets)))

Valid(p, len) ==
  len \in 22 .. 102 /\ Len(p) = len /\ p[1] = Identifier /\ p[2] = len - 2

ParseFrame ==
  /\ phase = "parse" /\ seq < Len(lengths)
  /\ LET two == Slice(offset, 2)
         left == Slice(offset + 2, two[1])
         right == Slice(offset + 2 + two[1], two[2])
     IN  IF Len(two) = 2 /\ Valid(left, two[1]) /\ Valid(right, two[2])
           THEN /\ decoded' = [ch \in Channels |->
                     decoded[ch] \o Decoded(IF ch = 0 THEN left ELSE right, ch)]
                /\ offset' = offset + 2 + two[1] + two[2]
                /\ seq' = seq + 1 /\ UNCHANGED phase
           ELSE phase' = "mismatch" /\ UNCHANGED <<decoded, offset, seq>>
  /\ UNCHANGED <<track, size, y, packets, lengths>>

\* Mutant: the delay of the codec is not removed.
KeepDelayMutant == PreRoll
Begin == PreRoll + Delay

Excerpt(samples) ==
  [ch \in Channels |->
     SubSeq(samples[ch], Begin + 1, Least(Begin + Length, Len(samples[ch])))]

(* The reference WAV is the excerpt of the source. *)
Reference(ch) == [i \in 1 .. Length |-> <<ch, track.start + i - 1>>]

(* A second of samples from there on, as a slice gives it: what is there of*)
(* it.                                                                     *)
SecondFrom(samples, from) ==
  SubSeq(samples, from + 1, Least(from + Second, Len(samples)))

(* The second second of the reference beside that of the WAV, shifted: only*)
(* slices of one length can be subtracted, and one channel after the other *)
(* must fit without a shift and with no other.                             *)
Lags == -MaxLag .. MaxLag
Beside(ch) == SecondFrom(Reference(ch), Second)
Shifted(ch, lag) == SecondFrom(Excerpt(y)[ch], Second + lag)
Comparable == \A ch \in Channels : \A lag \in Lags : Len(Shifted(ch, lag)) = Len(Beside(ch))
Aligned == \A ch \in Channels : {lag \in Lags : Shifted(ch, lag) = Beside(ch)} = {0}

Verdict ==
  IF offset # Len(packets) \/ Excerpt(decoded) # Excerpt(y) THEN "mismatch"
  ELSE IF ~Comparable THEN "raised"
  ELSE IF Aligned THEN "checked" ELSE "mismatch"

(* The archive ends where its last record does, decodes to what is saved,  *)
(* and what is saved is aligned.                                           *)
Compare ==
  /\ phase = "parse" /\ seq = Len(lengths)
  /\ phase' = Verdict
  /\ UNCHANGED <<track, size, seq, y, packets, lengths, offset, decoded>>

StreamNext ==
  Cut \/ EncodeFrame \/ Save \/ StartVerify \/ ParseFrame \/ Compare

StreamSpec == StreamInit /\ [][StreamNext]_streamVars

-----------------------------------------------------------------------------
Saved == phase \in {"saved", "parse", "checked", "raised", "mismatch"}

(* The frames whose bytes count as the excerpt's. *)
Measured == PreRoll \div N .. (PreRoll + Length + N - 1) \div N - 1

(* What is saved is the excerpt itself, sample for sample and channel for  *)
(* channel, with the delay of the codec and the music before it removed and*)
(* none of its end lost in the codec, wherever in its source it lies; and  *)
(* the bytes measured are those of the frames that hold it                 *)
(* (make-lc3-listening-set.py:111-112,176-202).                            *)
ExcerptAligned ==
  Saved =>
    /\ \A ch \in Channels : Excerpt(y)[ch] = Reference(ch)
    /\ \A i \in 0 .. Length - 1 :
         \E n \in Measured \cap (0 .. Len(lengths) - 1) :
            n = (PreRoll + i) \div N

(* No assertion of the verifier fails for an archive that is written and   *)
(* its WAV, whatever the lengths of its packets: each packet is found, the *)
(* samples are the same and no lag but none fits.  It raises only for an   *)
(* excerpt of less than two seconds and the largest lag, the slices of     *)
(* which differ in length; the maker takes any of more than one second     *)
(* (verify-lc3-listening-set.py:45-83, make-lc3-listening-set.py:179).     *)
ArchiveVerifies ==
  /\ phase # "mismatch"
  /\ phase = "raised" => Length < 2 * Second + MaxLag
=============================================================================
