---------------------------- MODULE CodecProofs -----------------------------
(***************************************************************************)
(* Theorems of the codecs' sources and of CUSTOM: of RateControl, for every*)
(* rate and length the assumptions allow, of ShapeTables, for every sixteen*)
(* factors, and of SourceTrees, for any number of runs of a script and any *)
(* files of an archive.                                                    *)
(***************************************************************************)
EXTENDS RateControl, ShapeTables, SourceTrees, SequenceTheorems, TLAPS

-----------------------------------------------------------------------------
(* The variable bit rate.  The inductive argument is linear: the only      *)
(* product is in BytesBefore, which TargetBounds settles once.             *)

(* One block more is one bit rate more, before the division. *)
LEMMA Products ==
  ASSUME NEW b \in Nat
  PROVE  b * Bitrate \in Nat /\ (b + 1) * Bitrate = b * Bitrate + Bitrate
BY LengthAssumption

(* Division by the block rate: the quotient and what remains. *)
LEMMA Quotient ==
  ASSUME NEW x \in Nat
  PROVE  /\ x \div BlockRate \in Nat
         /\ BlockRate * (x \div BlockRate) <= x
         /\ x < BlockRate * (x \div BlockRate) + BlockRate
BY LengthAssumption

(* Two rounded quotients differ by the quotient of the step, or one more. *)
LEMMA QuotientGap ==
  ASSUME NEW x \in Nat, NEW gap \in Nat, NEW low \in Nat, NEW high \in Nat,
         low * BlockRate <= gap, gap < high * BlockRate + BlockRate
  PROVE  /\ (x + gap) \div BlockRate - x \div BlockRate >= low
         /\ (x + gap) \div BlockRate - x \div BlockRate <= high + 1
<1> DEFINE p == x \div BlockRate
           q == (x + gap) \div BlockRate
<1>1. p \in Nat /\ BlockRate * p <= x /\ x < BlockRate * p + BlockRate
  BY Quotient
<1>2. /\ q \in Nat /\ BlockRate * q <= x + gap
      /\ x + gap < BlockRate * q + BlockRate
  BY Quotient, x + gap \in Nat
<1> HIDE DEF p, q
<1>3. BlockRate \in Nat /\ BlockRate > 0
  BY LengthAssumption
<1>4. q - p >= low
  <2> SUFFICES ASSUME q + 1 <= p + low PROVE FALSE
    BY <1>1, <1>2
  <2>1. BlockRate * (q + 1) <= BlockRate * (p + low)
    BY <1>1, <1>2, <1>3
  <2>2. BlockRate * (q + 1) = BlockRate * q + BlockRate
    BY <1>2, <1>3
  <2>3. BlockRate * (p + low) = BlockRate * p + low * BlockRate
    BY <1>1, <1>3
  <2> QED BY <1>1, <1>2, <1>3, <2>1, <2>2, <2>3
<1>5. q - p <= high + 1
  <2> SUFFICES ASSUME p + high + 2 <= q PROVE FALSE
    BY <1>1, <1>2
  <2>1. BlockRate * (p + high + 2) <= BlockRate * q
    BY <1>1, <1>2, <1>3
  <2>2. BlockRate * (p + high + 2)
          = BlockRate * p + high * BlockRate + BlockRate + BlockRate
    BY <1>1, <1>3
  <2> QED BY <1>1, <1>2, <1>3, <2>1, <2>2
<1> QED BY <1>4, <1>5 DEF p, q

(* No block's target is refused: the rounding of the division never makes  *)
(* it leave the range lc3_custom_encode takes.                             *)
THEOREM TargetBounds ==
  ASSUME NEW b \in Nat
  PROVE  Accepted(Target(b))
<1> DEFINE low  == MinPayload + Header
           high == MaxPayload + Header - 1
<1>1. b * Bitrate \in Nat /\ (b + 1) * Bitrate = b * Bitrate + Bitrate
  BY Products
<1>2. /\ low \in Nat /\ low * BlockRate <= Bitrate /\ Bitrate \in Nat
  BY LengthAssumption
<1>3. CASE high \in Nat
  <2>1. /\ (b * Bitrate + Bitrate) \div BlockRate - (b * Bitrate) \div BlockRate >= low
        /\ (b * Bitrate + Bitrate) \div BlockRate - (b * Bitrate) \div BlockRate <= high + 1
    <3>1. Bitrate < high * BlockRate + BlockRate
      BY LengthAssumption
    <3> HIDE DEF low, high
    <3> QED BY <1>1, <1>2, <1>3, <3>1, QuotientGap
  <2>2. /\ (b * Bitrate) \div BlockRate \in Nat
        /\ (b * Bitrate + Bitrate) \div BlockRate \in Nat
    BY <1>1, <1>2, Quotient
  <2> QED BY <1>1, <2>1, <2>2, LengthAssumption DEF Accepted, Target, BytesBefore
<1>4. CASE MaxPayload + Header = 0
  <2>1. Bitrate < 0 * BlockRate
    BY <1>4, LengthAssumption
  <2> QED BY <2>1, LengthAssumption
<1> QED BY <1>3, <1>4, LengthAssumption

(* No target exceeds the quotient of the bit rate by more than a byte. *)
LEMMA TargetCeiling ==
  ASSUME NEW b \in Nat
  PROVE  Target(b) <= Bitrate \div BlockRate + 1
<1> DEFINE high == Bitrate \div BlockRate
<1>1. b * Bitrate \in Nat /\ (b + 1) * Bitrate = b * Bitrate + Bitrate
  BY Products
<1>2. Bitrate \in Nat /\ 0 * BlockRate <= Bitrate
  BY LengthAssumption
<1>3. high \in Nat /\ Bitrate < BlockRate * high + BlockRate
  BY <1>2, Quotient
<1>4. Bitrate < high * BlockRate + BlockRate
  <2> HIDE DEF high
  <2> QED BY <1>3, LengthAssumption
<1>5. (b * Bitrate + Bitrate) \div BlockRate - (b * Bitrate) \div BlockRate <= high + 1
  <2> HIDE DEF high
  <2> QED BY <1>1, <1>2, <1>3, <1>4, QuotientGap
<1> QED BY <1>1, <1>5 DEF Target, BytesBefore

-----------------------------------------------------------------------------
(* What one channel does, as a step that only mentions integers. *)

(* The cap is a payload length, and never more than target and reservoir. *)
LEMMA CapBounds ==
  ASSUME NEW nbytes \in MinPayload .. MaxPayload, NEW saved \in Nat
  PROVE  /\ Cap(nbytes, saved) \in MinPayload .. MaxPayload
         /\ Cap(nbytes, saved) <= nbytes + saved
BY LengthAssumption DEF Cap, Clip, Lesser, Greater

(* What is used of the cap is a payload length too. *)
LEMMA ActualBounds ==
  ASSUME NEW cap \in MinPayload .. MaxPayload, NEW wanted \in Nat
  PROVE  Actual(wanted, cap) \in MinPayload .. cap
BY LengthAssumption DEF Actual, Clip, Lesser, Greater

(* The reservoir gets what is left over, up to two targets, and no debt. *)
LEMMA RefillBounds ==
  ASSUME NEW nbytes \in MinPayload .. MaxPayload, NEW saved \in Nat,
         NEW actual \in Nat, actual <= nbytes + saved
  PROVE  /\ Refill(saved, nbytes, actual) \in 0 .. 2 * nbytes
         /\ Refill(saved, nbytes, actual) <= saved + nbytes - actual
BY LengthAssumption DEF Refill, Clip, Lesser, Greater

(* The gain held and corrected for the actual length has an index. *)
LEMMA GainBounds ==
  ASSUME NEW g \in Int, NEW delta \in Nat, NEW capped \in BOOLEAN,
         NEW actual \in MinPayload .. MaxPayload
  PROVE  CorrectedGain(HeldGain(g), delta, capped, actual) + GainOffset[actual]
           \in 0 .. TopIndex
<1> DEFINE held == HeldGain(g)
           off  == GainOffset[actual]
           least == GainOffset[MinPayload]
           most  == GainOffset[MaxPayload]
<1>1. off \in Int /\ least \in Int /\ most \in Int /\ TopIndex \in Nat
  BY LengthAssumption, GainAssumption
<1>2. least <= off /\ off <= most /\ most - least <= TopIndex
  BY LengthAssumption, GainAssumption
<1>3. held \in -least .. (TopIndex - most)
  <2> HIDE DEF least, most
  <2> QED BY <1>1, <1>2 DEF HeldGain, Clip, Lesser, Greater, least, most
<1>4. CorrectedGain(held, delta, capped, actual)
        \in held .. (TopIndex - off)
  <2> HIDE DEF held
  <2> QED BY <1>1, <1>2, <1>3 DEF CorrectedGain, Correction, Lesser, Greater
<1> HIDE DEF held, off, least, most
<1> QED BY <1>1, <1>2, <1>3, <1>4 DEF held, off

(* The variables of one channel after a step, in the terms of the lemmas.  *)
LEMMA EncodeStep ==
  ASSUME TypeOK, NEW wanted \in Demands, NEW searched \in Gains,
         NEW delta \in Corrections, EncodeChannel(wanted, searched, delta)
  PROVE  \E nbytes \in MinPayload .. MaxPayload, actual \in MinPayload .. MaxPayload :
           /\ nbytes = Target(Block) - Header
           /\ actual <= nbytes + spare[channel]
           /\ spare' = [spare EXCEPT ![channel] = Refill(spare[channel], nbytes, actual)]
           /\ granted' = [granted EXCEPT ![channel] = @ + nbytes]
           /\ spent' = [spent EXCEPT ![channel] = @ + actual]
           /\ length' = [c \in Channels |-> IF c = channel THEN actual
                                            ELSE IF channel = 1 THEN length[c] ELSE 0]
           /\ gain_index' \in 0 .. TopIndex
<1> DEFINE nbytes == Target(Block) - Header
           saved  == spare[channel]
           cap    == Cap(nbytes, saved)
           actual == Actual(wanted, cap)
<1>1. nbytes \in MinPayload .. MaxPayload
  BY LengthAssumption DEF EncodeChannel, Accepted
<1>2. saved \in Nat
  BY DEF TypeOK
<1>3. wanted \in Nat /\ searched \in Int /\ delta \in Nat
  BY SignalAssumption
<1>4. cap \in MinPayload .. MaxPayload /\ cap <= nbytes + saved
  <2> HIDE DEF nbytes, saved
  <2> QED BY <1>1, <1>2, CapBounds
<1>5. actual \in MinPayload .. cap
  <2> HIDE DEF cap
  <2> QED BY <1>3, <1>4, ActualBounds
<1>6. actual \in MinPayload .. MaxPayload /\ actual <= nbytes + saved
  <2> HIDE DEF actual, cap, nbytes, saved
  <2> QED BY <1>1, <1>2, <1>4, <1>5, LengthAssumption
<1>7. gain_index' = CorrectedGain(HeldGain(searched), delta, wanted > cap, actual)
                      + GainOffset[actual]
  BY DEF EncodeChannel
<1>8. gain_index' \in 0 .. TopIndex
  <2> HIDE DEF actual, cap
  <2>1. (wanted > cap) \in BOOLEAN
    OBVIOUS
  <2> QED BY <1>3, <1>6, <1>7, <2>1, GainBounds
<1>9. /\ spare' = [spare EXCEPT ![channel] = Refill(spare[channel], nbytes, actual)]
      /\ granted' = [granted EXCEPT ![channel] = @ + nbytes]
      /\ spent' = [spent EXCEPT ![channel] = @ + actual]
      /\ length' = [c \in Channels |-> IF c = channel THEN actual
                                       ELSE IF channel = 1 THEN length[c] ELSE 0]
  BY DEF EncodeChannel
<1> QED BY <1>1, <1>6, <1>8, <1>9

-----------------------------------------------------------------------------
(* The inductive invariant: what the runs check is inductive as it stands  *)
(* once every variable has its type.                                       *)
RateInv ==
  /\ TypeOK /\ TargetsAddUp /\ RateNeverExceeded
  /\ PayloadInRange /\ ReservoirBounded

(* The number of the block that a channel belongs to. *)
LEMMA BlockIsNat == TypeOK => Block \in Nat
BY DEF TypeOK, Block, Channels

(* Nothing is granted, spent or saved at first. *)
LEMMA RateInit == Init => RateInv
<1> SUFFICES ASSUME Init PROVE RateInv
  OBVIOUS
<1> USE DEF Init, Channels
<1>1. TypeOK
  BY LengthAssumption DEF TypeOK
<1>2. TargetsAddUp
  <2>1. BytesBefore(0) \in Nat /\ BytesBefore(1) \in Nat
    BY Quotient, Products, LengthAssumption DEF BytesBefore
  <2> QED BY <2>1, LengthAssumption DEF TargetsAddUp, Encoded
<1>3. RateNeverExceeded
  BY DEF RateNeverExceeded
<1>4. GainIndexInRange
  BY GainAssumption DEF GainIndexInRange
<1>5. PayloadInRange
  BY <1>1, <1>4, BlockIsNat, TargetBounds DEF PayloadInRange
<1>6. ReservoirBounded
  <2>1. Target(0) <= Bitrate \div BlockRate + 1 /\ Accepted(Target(0))
    BY TargetCeiling, TargetBounds
  <2>2. Bitrate \div BlockRate \in Nat
    BY LengthAssumption, Quotient
  <2> QED BY <2>1, <2>2, LengthAssumption DEF ReservoirBounded, Accepted
<1> QED BY <1>1, <1>2, <1>3, <1>4, <1>5, <1>6 DEF RateInv

(* The invariant is inductive: a channel spends from its own grant. *)
LEMMA RateStep == RateInv /\ [Next]_vars => RateInv'
<1> SUFFICES ASSUME RateInv, [Next]_vars PROVE RateInv'
  OBVIOUS
<1> USE DEF Channels
<1>t. TypeOK
  BY DEF RateInv
<1>1. CASE Next
  <2>1. PICK wanted \in Demands, searched \in Gains, delta \in Corrections :
          EncodeChannel(wanted, searched, delta)
    BY <1>1 DEF Next
  <2>2. PICK nbytes \in MinPayload .. MaxPayload, actual \in MinPayload .. MaxPayload :
           /\ nbytes = Target(Block) - Header
           /\ actual <= nbytes + spare[channel]
           /\ spare' = [spare EXCEPT ![channel] = Refill(spare[channel], nbytes, actual)]
           /\ granted' = [granted EXCEPT ![channel] = @ + nbytes]
           /\ spent' = [spent EXCEPT ![channel] = @ + actual]
           /\ length' = [c \in Channels |-> IF c = channel THEN actual
                                            ELSE IF channel = 1 THEN length[c] ELSE 0]
           /\ gain_index' \in 0 .. TopIndex
    BY <1>t, <2>1, EncodeStep
  <2>3. channel' = 1 - channel /\ sequence' = sequence + channel
    BY <2>1 DEF EncodeChannel
  <2>4. /\ Refill(spare[channel], nbytes, actual) \in 0 .. 2 * nbytes
        /\ Refill(spare[channel], nbytes, actual) <= spare[channel] + nbytes - actual
    <3>1. spare[channel] \in Nat /\ actual \in Nat
      BY <1>t, LengthAssumption DEF TypeOK
    <3> QED BY <2>2, <3>1, RefillBounds
  <2>5. TypeOK'
    <3>1. sequence' \in Nat /\ channel' \in Channels
      BY <1>t, <2>3 DEF TypeOK
    <3>2. spare' \in [Channels -> Nat]
      <4>1. Refill(spare[channel], nbytes, actual) \in Nat
        BY <2>4, LengthAssumption
      <4> QED BY <1>t, <2>2, <4>1 DEF TypeOK
    <3>3. granted' \in [Channels -> Nat] /\ spent' \in [Channels -> Nat]
      <4>1. nbytes \in Nat /\ actual \in Nat
        BY LengthAssumption
      <4>2. granted[channel] + nbytes \in Nat /\ spent[channel] + actual \in Nat
        BY <1>t, <4>1 DEF TypeOK
      <4> QED BY <1>t, <2>2, <4>2 DEF TypeOK
    <3>4. length' \in [Channels -> 0 .. MaxPayload]
      <4>1. actual \in 0 .. MaxPayload /\ 0 \in 0 .. MaxPayload
        BY LengthAssumption
      <4>2. \A c \in Channels : length[c] \in 0 .. MaxPayload
        BY <1>t DEF TypeOK
      <4> QED BY <2>2, <4>1, <4>2
    <3>5. gain_index' \in Int
      BY <2>2, GainAssumption
    <3> QED BY <3>1, <3>2, <3>3, <3>4, <3>5 DEF TypeOK
  <2>6. TargetsAddUp'
    <3>1. /\ Block \in Nat
          /\ nbytes = BytesBefore(Block + 1) - BytesBefore(Block) - Header
      BY <1>t, <2>2, BlockIsNat DEF Target
    <3>2. \A b \in Nat : BytesBefore(b) \in Nat
      BY Products, Quotient DEF BytesBefore
    <3> SUFFICES ASSUME NEW c \in Channels
                 PROVE  granted'[c] + Header * Encoded(c)'
                          = BytesBefore(c + Encoded(c)') - BytesBefore(c)
      BY DEF TargetsAddUp
    <3>3. granted[c] + Header * Encoded(c)
            = BytesBefore(c + Encoded(c)) - BytesBefore(c)
      BY DEF RateInv, TargetsAddUp
    <3>4. CASE c # channel
      <4>1. granted'[c] = granted[c]
        BY <1>t, <2>2, <3>4 DEF TypeOK
      <4>2. Encoded(c)' = Encoded(c)
        BY <1>t, <2>3, <3>4 DEF TypeOK, Encoded
      <4> QED BY <3>3, <4>1, <4>2
    <3>5. CASE c = channel
      <4>1. granted'[c] = granted[c] + nbytes /\ granted[c] \in Nat
        BY <1>t, <2>2, <3>5 DEF TypeOK
      <4>2. /\ Encoded(c)' = Encoded(c) + 1 /\ Encoded(c) \in Nat
            /\ c + Encoded(c) = Block /\ c \in Nat
        BY <1>t, <2>3, <3>5 DEF TypeOK, Encoded, Block
      <4>3. Header * (Encoded(c) + 1) = Header * Encoded(c) + Header
            /\ Header \in Nat /\ Header * Encoded(c) \in Nat
        BY <4>2, LengthAssumption
      <4>4. c + (Encoded(c) + 1) = Block + 1
        BY <4>2, <3>1
      <4> QED
        <5>1. BytesBefore(c) \in Nat /\ BytesBefore(Block) \in Nat
              /\ BytesBefore(Block + 1) \in Nat
          BY <3>1, <3>2, <4>2
        <5>2. granted[c] + Header * Encoded(c) = BytesBefore(Block) - BytesBefore(c)
          BY <3>3, <4>2
        <5>3. granted[c] + nbytes + (Header * Encoded(c) + Header)
                = BytesBefore(Block + 1) - BytesBefore(c)
          <6> HIDE DEF Channels
          <6> QED BY <3>1, <4>1, <4>3, <5>1, <5>2
        <5> QED BY <4>1, <4>2, <4>3, <4>4, <5>3
    <3> QED BY <3>4, <3>5
  <2>7. RateNeverExceeded'
    BY <1>t, <2>2, <2>4, LengthAssumption DEF RateInv, RateNeverExceeded, TypeOK
  <2>8. GainIndexInRange'
    BY <2>2 DEF GainIndexInRange
  <2>9. PayloadInRange'
    <3>1. \A c \in Channels : length'[c] # 0 => length'[c] \in MinPayload .. MaxPayload
      BY <2>2 DEF RateInv, PayloadInRange
    <3>2. Block' \in Nat
      <4>1. sequence' + channel' \in Nat
        BY <1>t, <2>3 DEF TypeOK
      <4> QED BY <4>1 DEF Block
    <3> QED BY <2>8, <3>1, <3>2, TargetBounds DEF PayloadInRange
  <2>10. ReservoirBounded'
    <3>1. nbytes <= Bitrate \div BlockRate + 1 - Header
      <4>1. Bitrate \div BlockRate \in Nat
        BY LengthAssumption, Quotient
      <4>2. Target(Block) <= Bitrate \div BlockRate + 1 /\ Accepted(Target(Block))
        BY <1>t, BlockIsNat, TargetCeiling, TargetBounds
      <4> QED BY <2>2, <4>1, <4>2, LengthAssumption DEF Accepted
    <3>2. Bitrate \div BlockRate \in Nat
      BY LengthAssumption, Quotient
    <3> QED BY <1>t, <2>2, <2>4, <3>1, <3>2, LengthAssumption
            DEF RateInv, ReservoirBounded, TypeOK
  <2> QED BY <2>5, <2>6, <2>7, <2>8, <2>9, <2>10 DEF RateInv
<1>2. CASE UNCHANGED vars
  <2>1. TypeOK'
    BY <1>2, <1>t DEF TypeOK, vars
  <2> QED BY <1>2, <2>1 DEF RateInv, vars, TargetsAddUp, RateNeverExceeded,
             PayloadInRange, GainIndexInRange, ReservoirBounded, Encoded, Block
<1> QED BY <1>1, <1>2

(* Every reachable state satisfies the invariant. *)
THEOREM RateInvariant == Spec => []RateInv
BY RateInit, RateStep, PTL DEF Spec

(* The targets of a stream add up to its bit rate, for every bit rate, and *)
(* no channel uses more than they granted it.                              *)
THEOREM RateIsKept == Spec => [](TargetsAddUp /\ RateNeverExceeded)
<1>1. RateInv => TargetsAddUp /\ RateNeverExceeded
  BY DEF RateInv
<1> QED BY <1>1, RateInvariant, PTL

(* No stretch of quiet frames, of any length, fills the reservoir beyond   *)
(* two frames.                                                             *)
THEOREM ReservoirIsBounded == Spec => []ReservoirBounded
<1>1. RateInv => ReservoirBounded
  BY DEF RateInv
<1> QED BY <1>1, RateInvariant, PTL

(* Every payload and every gain index is one the decoder reads back.       *)
THEOREM PayloadIsDecodable == Spec => []PayloadInRange
<1>1. RateInv => PayloadInRange
  BY DEF RateInv
<1> QED BY <1>1, RateInvariant, PTL

-----------------------------------------------------------------------------
(* The tables: the generated ones are upstream's interpolation and merging,*)
(* and no band reads beyond the gain table.                                *)
(*                                                                         *)
(* Both rest on RowIsUpstream, an identity of linear forms with one case   *)
(* for each place of a position in its segment; the invariant carries it   *)
(* through the generation of the rows to the band that reads them.         *)

(* A position inside the segments: its key and weight are those of the line*)
(* through the two factors of its segment (prepare-lc3-custom.py:36-37).   *)
LEMMA InnerPosition ==
  ASSUME NEW p \in 2 .. 61
  PROVE  /\ Key(p) \in 0 .. 14 /\ Segment(p) = Key(p)
         /\ SecondWeight(p) = 4 * p - 16 * Key(p) - 6
         /\ SecondWeight(p) \in 2 .. 14
<1>1. (p - 2) \div 4 \in 0 .. 14 /\ p - 2 = 4 * ((p - 2) \div 4) + ((p - 2) % 4)
      /\ (p - 2) % 4 \in 0 .. 3
  OBVIOUS
<1>2. Key(p) = (p - 2) \div 4
  BY DEF Key
<1>3. Segment(p) = (p - 2) \div 4
  BY <1>1 DEF Segment
<1>4. SecondWeight(p) = 2 + 4 * ((p - 2) % 4)
  BY DEF SecondWeight
<1> QED
  BY <1>1, <1>2, <1>3, <1>4

(* The ends: the first two positions are flat, the last two extrapolate    *)
(* (prepare-lc3-custom.py:34-35).                                          *)
LEMMA AnyPosition ==
  ASSUME NEW p \in Positions
  PROVE  /\ Key(p) \in 0 .. 14
         /\ SecondWeight(p) \in 0 .. 22
         /\ p \in 2 .. 63 => /\ Segment(p) = Key(p)
                             /\ SecondWeight(p) = 4 * p - 16 * Key(p) - 6
         /\ p < 2 => Key(p) = 0 /\ SecondWeight(p) = 0
         /\ p < 62 => SecondWeight(p) \in 0 .. 14
<1>1. CASE p < 2
  BY <1>1 DEF Key, SecondWeight, Positions
<1>2. CASE p \in 2 .. 61
  BY <1>2, InnerPosition
<1>3. CASE p \in {62, 63}
  BY <1>3 DEF Key, SecondWeight, Segment
<1> QED
  BY <1>1, <1>2, <1>3 DEF Positions

(* One position: two weights that add up to sixteen are the interpolation. *)
LEMMA PositionIsUpstream ==
  ASSUME NEW p \in Positions, NEW x \in [Coarse -> Int]
  PROVE  Interpolated(x, p)
           = (16 - SecondWeight(p)) * x[Key(p)] + SecondWeight(p) * x[Key(p) + 1]
<1>1. /\ Key(p) \in 0 .. 14 /\ SecondWeight(p) \in Int
      /\ x[Key(p)] \in Int /\ x[Key(p) + 1] \in Int /\ x[0] \in Int
  BY AnyPosition DEF Coarse
<1>2. CASE p < 2
  <2>1. Interpolated(x, p) = 16 * x[0] /\ Key(p) = 0 /\ SecondWeight(p) = 0
    BY <1>2, AnyPosition DEF Interpolated
  <2> QED
    BY <1>1, <2>1
<1>3. CASE p \in 2 .. 63
  <2> DEFINE w == SecondWeight(p)
             u == x[Key(p)]
             v == x[Key(p) + 1]
  <2>1. Interpolated(x, p) = 16 * u + (v - u) * w
    BY <1>3, AnyPosition DEF Interpolated
  <2>2. w \in Int /\ u \in Int /\ v \in Int
    BY <1>1
  <2>3. (v - u) * w = w * v - w * u /\ (16 - w) * u = 16 * u - w * u
    <3> HIDE DEF w, u, v
    <3> QED
      BY <2>2
  <2>4. w * v \in Int /\ w * u \in Int
    <3> HIDE DEF w, u, v
    <3> QED
      BY <2>2
  <2>5. 16 * u + (v - u) * w = (16 - w) * u + w * v
    <3> HIDE DEF w, u, v
    <3> QED
      BY <2>2, <2>3, <2>4
  <2> QED
    BY <2>1, <2>5
<1> QED
  BY <1>2, <1>3 DEF Positions

(* Two weights that add up to sixteen, as a line from the first factor.    *)
LEMMA Mix ==
  ASSUME NEW a \in Int, NEW c \in Int, NEW w \in Int
  PROVE  (16 - w) * a + w * c = 16 * a + w * (c - a) /\ w * (c - a) \in Int
<1>1. (16 - w) * a = 16 * a - w * a /\ w * (c - a) = w * c - w * a
  OBVIOUS
<1>2. w * a \in Int /\ w * c \in Int
  OBVIOUS
<1> QED
  BY <1>1, <1>2

(* The two positions of a merged band have one of three pairs of weights.  *)
LEMMA MergedPairs ==
  ASSUME NEW b \in 0 .. 19
  PROVE  /\ Key(2 * b) = Key(2 * b + 1)
         /\ <<SecondWeight(2 * b), SecondWeight(2 * b + 1)>> \in
              {<<0, 0>>, <<2, 6>>, <<10, 14>>}
<1>1. CASE b = 0
  BY <1>1 DEF Key, SecondWeight
<1>2. CASE b # 0
  <2>1. 2 * b \in 2 .. 61 /\ 2 * b + 1 \in 2 .. 61
    BY <1>2
  <2>2. /\ SecondWeight(2 * b) = 8 * b - 16 * Key(2 * b) - 6
        /\ SecondWeight(2 * b + 1) = 8 * b + 4 - 16 * Key(2 * b + 1) - 6
        /\ Key(2 * b) \in 0 .. 14
        /\ SecondWeight(2 * b) \in 2 .. 14 /\ SecondWeight(2 * b + 1) \in 2 .. 14
    BY <2>1, InnerPosition
  <2>3. Key(2 * b) = Key(2 * b + 1)
    BY <2>1 DEF Key
  <2> QED
    BY <2>2, <2>3
<1> QED
  BY <1>1, <1>2

(* For every sixteen factors, a generated row is upstream's interpolation  *)
(* to 64 positions and merging to 44 bands, exactly                        *)
(* (prepare-lc3-custom.py:31-48).                                          *)
THEOREM RowIsUpstream ==
  ASSUME NEW x \in [Coarse -> Int], NEW b \in Bands
  PROVE  2 * Applied(Row(b), x) = Upstream(x, b)
<1> DEFINE k == MergedKey(b)
           w == MergedWeight(b)
<1>1. Applied(Row(b), x) = (16 - w) * x[k] + w * x[k + 1]
  BY DEF Applied, Row
<1>2. CASE b < 20
  <2> DEFINE v == SecondWeight(2 * b)
             u == SecondWeight(2 * b + 1)
  <2>1. 2 * b \in Positions /\ 2 * b + 1 \in Positions /\ b \in 0 .. 19
    BY <1>2 DEF Bands, Positions
  <2>2. k = Key(2 * b) /\ k = Key(2 * b + 1)
    BY <1>2, <2>1, MergedPairs DEF MergedKey
  <2>3. \/ v = 0 /\ u = 0 /\ w = 0
        \/ v = 2 /\ u = 6 /\ w = 4
        \/ v = 10 /\ u = 14 /\ w = 12
    BY <1>2, <2>1, MergedPairs DEF MergedWeight
  <2>4. x[k] \in Int /\ x[k + 1] \in Int
    BY <2>1, <2>2, AnyPosition DEF Coarse
  <2>5. Upstream(x, b) = ((16 - v) * x[k] + v * x[k + 1])
                         + ((16 - u) * x[k] + u * x[k + 1])
    BY <1>2, <2>1, <2>2, PositionIsUpstream DEF Upstream
  <2> HIDE DEF v, u, w, k
  <2> QED
    BY <1>1, <2>3, <2>4, <2>5
<1>3. CASE ~(b < 20)
  <2>1. b + 20 \in Positions /\ k = Key(b + 20) /\ w = SecondWeight(b + 20)
    BY <1>3 DEF Bands, Positions, MergedKey, MergedWeight
  <2>2. Upstream(x, b) = 2 * ((16 - w) * x[k] + w * x[k + 1])
    BY <1>3, <2>1, PositionIsUpstream DEF Upstream
  <2> QED
    BY <1>1, <2>2
<1> QED
  BY <1>2, <1>3

-----------------------------------------------------------------------------
(* No assertion of the generator fails: both positions of a merged band lie*)
(* in one segment, and the sum of their weights is even                    *)
(* (prepare-lc3-custom.py:44-45).                                          *)
LEMMA EveryBandCollapses ==
  ASSUME NEW b \in Bands
  PROVE  Collapses(b)
  BY MergedPairs DEF Collapses, Bands

(* The last two weights: never more than 22 sixteenths, and no more than   *)
(* fourteen but for the last two bands.                                    *)
LEMMA MergedInRange ==
  ASSUME NEW b \in Bands
  PROVE  MergedKey(b) \in 0 .. 14 /\ MergedWeight(b) \in 0 .. 22
<1>1. CASE b < 20
  <2>1. /\ 2 * b \in Positions /\ 2 * b + 1 \in Positions
    BY <1>1 DEF Bands, Positions
  <2>2. /\ SecondWeight(2 * b) \in 0 .. 22 /\ SecondWeight(2 * b + 1) \in 0 .. 22
        /\ Key(2 * b) \in 0 .. 14
    BY <2>1, AnyPosition
  <2> QED
    BY <1>1, <2>2 DEF MergedKey, MergedWeight
<1>2. CASE ~(b < 20)
  <2>1. b + 20 \in Positions
    BY <1>2 DEF Bands, Positions
  <2> QED
    BY <1>2, <2>1, AnyPosition DEF MergedKey, MergedWeight
<1> QED
  BY <1>1, <1>2

(* The index that a band reads: with weights of sixteenths between -6 and  *)
(* 22 and codes between -8 and 7 it stays within 218 of the middle.        *)
LEMMA GridBounded ==
  ASSUME NEW w \in 0 .. 22, NEW c \in Codes, NEW d \in Codes
  PROVE  (16 - w) * (c - 8) + w * (d - 8) \in -224 .. 224
<1> DEFINE u == c - 8
           v == d - 8
<1>1. u \in -8 .. 7 /\ v \in -8 .. 7
  BY DEF Codes
<1>2. (16 - w) * u + w * v = 16 * u + w * (v - u) /\ w * (v - u) \in Int
  <2>1. u \in Int /\ v \in Int /\ w \in Int
    BY <1>1
  <2> HIDE DEF u, v
  <2> QED
    BY <2>1, Mix
<1> HIDE DEF u, v
<1>3. 16 * u + w * (v - u) \in -224 .. 224
  BY <1>1
<1> QED
  BY <1>2, <1>3 DEF u, v

-----------------------------------------------------------------------------
(* The rows made so far are those of their bands, and the band shaped last *)
(* was read with its row.                                                  *)
RowsMade ==
  /\ rows \in [Bands -> Int \X Int \X Int \X Int] /\ made \in 0 .. 44
  /\ \A b \in 0 .. made - 1 : rows[b] = Row(b)
  /\ pc \in {"generate", "gather", "apply"}
  /\ pc # "generate" => made = 44

BandShaped ==
  /\ band \in 0 .. 44 /\ (band > 0 => made = 44)
  /\ read \in Codes \X Codes /\ inv \in BOOLEAN
  /\ index \in 0 .. 448
  /\ band > 0 =>
       LET grid == Grid(rows[band - 1], read[1], read[2]) IN
         index = (IF inv THEN grid ELSE -grid) + 224

ShapeInv == RowsMade /\ BandShaped

(* Before the first row nothing is claimed of rows or of a shaped band.    *)
LEMMA InitShapeInv == ShapeInit => ShapeInv
<1> SUFFICES ASSUME ShapeInit
             PROVE  ShapeInv
  OBVIOUS
<1>1. rows \in [Bands -> Int \X Int \X Int \X Int] /\ made = 0 /\ pc = "generate"
  BY DEF ShapeInit
<1>2. RowsMade
  BY <1>1 DEF RowsMade
<1>3. BandShaped
  <2>1. band = 0 /\ read = <<0, 0>> /\ index = 224
    BY DEF ShapeInit
  <2>2. inv \in BOOLEAN
    BY DEF ShapeInit
  <2> QED
    BY <2>1, <2>2 DEF BandShaped, Codes
<1> QED
  BY <1>2, <1>3 DEF ShapeInv

(* Only GenerateRow changes the rows, and only the one that is next.       *)
LEMMA NextRowsMade == RowsMade /\ [ShapeNext]_shapeVars => RowsMade'
<1> SUFFICES ASSUME RowsMade, [ShapeNext]_shapeVars
             PROVE  RowsMade'
  OBVIOUS
<1> USE DEF RowsMade
<1>1. CASE GenerateRow
  <2>1. made \in Bands
    BY <1>1 DEF GenerateRow, Bands
  <2>2. /\ rows' = [rows EXCEPT ![made] = Row(made)] /\ made' = made + 1
        /\ pc' = "generate"
    BY <1>1, <2>1, EveryBandCollapses DEF GenerateRow
  <2>3. Row(made) \in Int \X Int \X Int \X Int
    BY <2>1, MergedInRange DEF Row
  <2>4. \A b \in 0 .. made' - 1 : rows'[b] = Row(b)
    BY <2>1, <2>2 DEF Bands
  <2> QED
    BY <2>1, <2>2, <2>3, <2>4 DEF Bands
<1>2. CASE Generated
  BY <1>2 DEF Generated
<1>3. CASE Gather
  BY <1>3 DEF Gather
<1>4. CASE StartShape
  BY <1>4 DEF StartShape
<1>5. CASE NextFrame
  BY <1>5 DEF NextFrame
<1>6. ASSUME NEW c \in Codes, NEW d \in Codes, ShapeBand(c, d)
      PROVE  RowsMade'
  BY <1>6 DEF ShapeBand
<1>7. CASE UNCHANGED shapeVars
  BY <1>7 DEF shapeVars
<1> QED
  BY <1>1, <1>2, <1>3, <1>4, <1>5, <1>6, <1>7 DEF ShapeNext

(* Only ShapeBand changes the index; it reads one of the finished rows.    *)
LEMMA NextBandShaped == ShapeInv /\ [ShapeNext]_shapeVars => BandShaped'
<1> SUFFICES ASSUME ShapeInv, [ShapeNext]_shapeVars
             PROVE  BandShaped'
  OBVIOUS
<1> USE DEF ShapeInv, BandShaped
<1>1. CASE GenerateRow
  <2>1. band = 0
    BY <1>1 DEF GenerateRow
  <2> QED
    BY <1>1, <2>1 DEF GenerateRow
<1>2. CASE Generated
  BY <1>2 DEF Generated
<1>3. CASE Gather
  BY <1>3 DEF Gather
<1>4. CASE StartShape
  BY <1>4 DEF StartShape
<1>5. CASE NextFrame
  BY <1>5 DEF NextFrame
<1>6. ASSUME NEW c \in Codes, NEW d \in Codes, ShapeBand(c, d)
      PROVE  BandShaped'
  <2>1. /\ band \in Bands /\ band' = band + 1 /\ rows' = rows /\ made' = made
        /\ read' = <<c, d>> /\ inv' = inv /\ made = 44
        /\ rows[band] = Row(band)
    BY <1>6 DEF ShapeBand, RowsMade, Bands
  <2>2. index' = (IF inv THEN Grid(Row(band), c, d) ELSE -Grid(Row(band), c, d)) + 224
    BY <1>6, <2>1 DEF ShapeBand
  <2>3. Grid(Row(band), c, d) \in -224 .. 224
    <3>1. MergedWeight(band) \in 0 .. 22
      BY <2>1, MergedInRange
    <3> QED
      BY <3>1, GridBounded DEF Grid, Row
  <2> QED
    BY <2>1, <2>2, <2>3 DEF Bands
<1>7. CASE UNCHANGED shapeVars
  BY <1>7 DEF shapeVars
<1> QED
  BY <1>1, <1>2, <1>3, <1>4, <1>5, <1>6, <1>7 DEF ShapeNext

(* The inductive invariant of generator and codec.                         *)
LEMMA InvariantHolds == ShapeSpec => []ShapeInv
<1>1. ShapeInv /\ [ShapeNext]_shapeVars => ShapeInv'
  BY NextRowsMade, NextBandShaped DEF ShapeInv
<1> QED
  BY InitShapeInv, <1>1, PTL DEF ShapeSpec

(* Every generated row is upstream's, and no assertion stops the generator *)
(* (prepare-lc3-custom.py:38-49).                                          *)
THEOREM CollapseIsExact == ShapeSpec => []CollapseExact
<1>1. ShapeInv => CollapseExact
  <2> SUFFICES ASSUME ShapeInv, NEW b \in 0 .. made - 1, NEW k \in Coarse
               PROVE  2 * Applied(rows[b], Unit(k)) = Upstream(Unit(k), b)
    BY DEF ShapeInv, RowsMade, CollapseExact
  <2>1. rows[b] = Row(b) /\ b \in Bands
    BY DEF ShapeInv, RowsMade, Bands
  <2>2. Unit(k) \in [Coarse -> Int]
    BY DEF Unit
  <2> QED
    BY <2>1, <2>2, RowIsUpstream
<1> QED
  BY InvariantHolds, <1>1, PTL

(* Shaping never reads outside the gain table, and reads there what        *)
(* upstream's interpolation of the codes asks for (custom_sns.inc:8-11).   *)
THEOREM GridStaysInTable == ShapeSpec => []GridInTable
<1>1. ShapeInv => GridInTable
  <2> SUFFICES ASSUME ShapeInv
               PROVE  GridInTable
    OBVIOUS
  <2>1. index \in 0 .. TableLength - 1
    BY DEF ShapeInv, BandShaped, TableLength, FirstExponent, LastExponent
  <2>2. ASSUME band > 0,
               NEW x, x = [k \in Coarse |->
                   IF k = rows[band - 1][1] THEN read[1] - 8
                   ELSE IF k = rows[band - 1][2] THEN read[2] - 8 ELSE 0]
        PROVE  2 * (index + FirstExponent) = (IF inv THEN 1 ELSE -1) * Upstream(x, band - 1)
    <3> DEFINE b == band - 1
               grid == Grid(rows[band - 1], read[1], read[2])
    <3>1. b \in Bands /\ rows[b] = Row(b) /\ read \in Codes \X Codes
      BY <2>2 DEF ShapeInv, RowsMade, BandShaped, Bands
    <3>2. /\ x \in [Coarse -> Int]
          /\ x[Row(b)[1]] = read[1] - 8 /\ x[Row(b)[2]] = read[2] - 8
      BY <2>2, <3>1, MergedInRange DEF Row, Coarse, Codes
    <3>3. grid = Applied(Row(b), x)
      BY <3>1, <3>2 DEF Grid, Applied
    <3>4. 2 * grid = Upstream(x, b)
      BY <3>1, <3>2, <3>3, RowIsUpstream
    <3>5. index = (IF inv THEN grid ELSE -grid) + 224 /\ inv \in BOOLEAN
      BY <2>2 DEF ShapeInv, BandShaped
    <3>6. grid \in Int
      BY <3>1, MergedInRange DEF Grid, Row, Codes
    <3> HIDE DEF grid
    <3> QED
      BY <3>4, <3>5, <3>6 DEF FirstExponent
  <2> QED
    BY <2>1, <2>2 DEF GridInTable
<1> QED
  BY InvariantHolds, <1>1, PTL

(* The direct gathering of the energies adds the same bands in the same    *)
(* order as the padded one (custom_sns.inc:31-42 against 49-59).           *)
GroupGathered ==
  energies \in 0 .. 16 /\ (energies > 0 => group = Gathered(energies - 1))

(* Every energy of the direct path adds what the padded one does           *)
(* (custom_sns.inc:31-42 against 49-59).                                   *)
THEOREM GroupsAreExact == ShapeSpec => []GroupsExact
<1>1. ShapeInit => GroupGathered
  BY DEF ShapeInit, GroupGathered
<1>2. GroupGathered /\ [ShapeNext]_shapeVars => GroupGathered'
  <2> SUFFICES ASSUME GroupGathered, [ShapeNext]_shapeVars
               PROVE  GroupGathered'
    OBVIOUS
  <2> USE DEF GroupGathered
  <2>1. CASE Gather
    BY <2>1 DEF Gather
  <2>2. CASE NextFrame
    BY <2>2 DEF NextFrame
  <2>3. CASE UNCHANGED <<group, energies>>
    BY <2>3
  <2> QED
    BY <2>1, <2>2, <2>3 DEF ShapeNext, shapeVars, GenerateRow, Generated, StartShape, ShapeBand
<1>3. GroupGathered => GroupsExact
  <2> SUFFICES ASSUME GroupGathered, energies > 0
               PROVE  Gathered(energies - 1)
                        = [n \in 1 .. 4 |-> Padded(4 * (energies - 1) + n - 1)]
    BY DEF GroupGathered, GroupsExact
  <2> DEFINE i == energies - 1
  <2>1. i \in 0 .. 15
    BY DEF GroupGathered
  <2> HIDE DEF i
  <2>2. CASE i < 10
    <3>1. Gathered(i) = <<2 * i, 2 * i, 2 * i + 1, 2 * i + 1>>
      BY <2>1, <2>2 DEF Gathered, FirstBand
    <3>2. /\ Padded(4 * i) = 2 * i /\ Padded(4 * i + 1) = 2 * i
          /\ Padded(4 * i + 2) = 2 * i + 1 /\ Padded(4 * i + 3) = 2 * i + 1
      BY <2>1, <2>2 DEF Padded
    <3>3. Gathered(i) = [n \in 1 .. 4 |-> Padded(4 * i + n - 1)]
      BY <2>1, <3>1, <3>2
    <3> QED
      BY <3>3 DEF i
  <2>3. CASE ~(i < 10)
    <3>1. Gathered(i) = <<4 * i - 20, 4 * i - 19, 4 * i - 18, 4 * i - 17>>
      BY <2>1, <2>3 DEF Gathered, FirstBand
    <3>2. /\ Padded(4 * i) = 4 * i - 20 /\ Padded(4 * i + 1) = 4 * i - 19
          /\ Padded(4 * i + 2) = 4 * i - 18 /\ Padded(4 * i + 3) = 4 * i - 17
      BY <2>1, <2>3 DEF Padded
    <3>3. Gathered(i) = [n \in 1 .. 4 |-> Padded(4 * i + n - 1)]
      BY <2>1, <3>1, <3>2
    <3> QED
      BY <3>3 DEF i
  <2> QED
    BY <2>2, <2>3
<1> QED
  BY <1>1, <1>2, <1>3, PTL DEF ShapeSpec

-----------------------------------------------------------------------------
(* The source trees.  Each script runs through its kinds of steps in one   *)
(* order and patches a file in at most two steps (ScriptShape, a case per  *)
(* script), so what is on the disk and in memory is a beginning of the     *)
(* file's patches whose length the step and the place give (PatchInv).     *)

PatchOps == {"source", "tree"}
Hashed == {"etsi", "opus", "sbc", "wavpack"}
LiteOf(f) == IF script = "custom" THEN LitePatches(f) ELSE <<>>
LateOf(f) ==
  IF script = "custom" THEN CustomPatches(f)
  ELSE IF script = "etsi" /\ f = EtsiHeader THEN <<"wmops">> ELSE <<>>

(* What the steps before a place in the script have done to a file. *)
Earlier(f, u, op) == \E v \in 1 .. u - 1 : Steps[v].op = op /\ Steps[v].file = f
AppliedBy(f, u) ==
  IF Earlier(f, u, "tree") THEN Len(Patches(f))
  ELSE IF Earlier(f, u, "source") THEN Len(LiteOf(f)) ELSE 0
(* The patches a file has when a step begins to patch it. *)
Offset(u) == IF Steps[u].op = "source" THEN 0 ELSE Len(LiteOf(Steps[u].file))
First(f, n) == SubSeq(Patches(f), 1, n)

Follows(a, b) ==
  /\ a = "cache" => b = "check"
  /\ a \in {"download", "check", "copy"} => b = "extract"
  /\ a \in {"extract"} \cup PatchOps => b \in PatchOps

(* How the scripts are built: in the order of their kinds of steps, and    *)
(* with one step for the patches of each generator to a file.              *)
Shape ==
  /\ Len(Steps) \in Nat \ {0}
  /\ Steps[1].op \in {"cache", "download", "copy"}
  /\ Steps[Len(Steps)].op \in {"extract"} \cup PatchOps
  /\ \A u \in 1 .. Len(Steps) :
       /\ Steps[u].op \in {"cache", "download", "copy", "check", "extract"} \cup PatchOps
       /\ u < Len(Steps) => Follows(Steps[u].op, Steps[u + 1].op)
       /\ Steps[u].op \in {"cache", "check"} => script \in Hashed
       /\ Steps[u].op = "download" => script = "google"
       /\ Steps[u].op = "extract" => \A v \in 1 .. u : Steps[v].op \notin PatchOps
PatchShape ==
  /\ \A u \in 1 .. Len(Steps) :
       LET f == Steps[u].file IN
         /\ Steps[u].op \in PatchOps => f \in Files(script)
         /\ Steps[u].op = "source" =>
              /\ Steps[u].patches = LiteOf(f)
              /\ ~Earlier(f, u, "source") /\ ~Earlier(f, u, "tree")
         /\ Steps[u].op = "tree" =>
              /\ Steps[u].patches = LateOf(f)
              /\ Earlier(f, u, "source") \/ LiteOf(f) = <<>>
              /\ ~Earlier(f, u, "tree")
  /\ \A f \in Files(script) :
       \/ Earlier(f, Len(Steps) + 1, "tree")
       \/ /\ LateOf(f) = <<>>
          /\ Earlier(f, Len(Steps) + 1, "source") \/ LiteOf(f) = <<>>

LEMMA ScriptNames ==
  Scripts = {"etsi", "google", "opus", "sbc", "wavpack", "custom"}
BY DEF Scripts, Program

(* A script that only fetches has no step that patches. *)
LEMMA NoPatchSteps ==
  ASSUME script # "custom", script # "etsi", Shape,
         \A u \in 1 .. Len(Steps) : Steps[u].op \notin PatchOps
  PROVE  PatchShape
<1>1. \A f : LateOf(f) = <<>> /\ LiteOf(f) = <<>>
  BY DEF LateOf, LiteOf
<1> QED
  BY <1>1 DEF PatchShape, PatchOps

LEMMA PinnedShape ==
  ASSUME script \in {"opus", "sbc", "wavpack"}
  PROVE  Shape /\ PatchShape
<1> DEFINE v == Steps
<1>1. v = <<Do("cache"), Do("check"), Do("extract")>>
  BY DEF Steps, Program, FetchOpus, FetchSbc, FetchWavPack
<1> HIDE DEF v
<1>2. /\ Len(v) = 3 /\ v[1].op = "cache" /\ v[2].op = "check" /\ v[3].op = "extract"
  BY <1>1 DEF Do
<1>3. \A u \in 1 .. Len(v) : u = 1 \/ u = 2 \/ u = 3
  BY <1>2
<1>4. \A u \in 1 .. Len(v) : v[u].op \notin PatchOps
  BY <1>2, <1>3 DEF PatchOps
<1>5. \A u \in 1 .. Len(v) : u < Len(v) => Follows(v[u].op, v[u + 1].op)
  <2>1. \A u \in 1 .. Len(v) : u < Len(v) => u = 1 \/ u = 2
    BY <1>2
  <2>2. Follows("cache", "check") /\ Follows("check", "extract")
    BY DEF Follows, PatchOps
  <2> QED
    BY <1>2, <2>1, <2>2
<1>6. Shape
  <2>1. \A u \in 1 .. Len(v) :
          v[u].op = "extract" => \A w \in 1 .. u : v[w].op \notin PatchOps
    BY <1>2, <1>3, <1>4
  <2> QED
    BY <1>2, <1>3, <1>5, <2>1 DEF Shape, v, Hashed
<1> QED
  BY <1>4, <1>6, NoPatchSteps DEF v

LEMMA GoogleShape ==
  ASSUME script = "google"
  PROVE  Shape /\ PatchShape
<1> DEFINE v == Steps
<1>1. v = <<Do("download"), Do("extract")>>
  BY DEF Steps, Program, FetchGoogle
<1> HIDE DEF v
<1>2. /\ Len(v) = 2 /\ v[1].op = "download" /\ v[2].op = "extract"
  BY <1>1 DEF Do
<1>3. \A u \in 1 .. Len(v) : u = 1 \/ u = 2
  BY <1>2
<1>4. \A u \in 1 .. Len(v) : v[u].op \notin PatchOps
  BY <1>2, <1>3 DEF PatchOps
<1>5. \A u \in 1 .. Len(v) : u < Len(v) => Follows(v[u].op, v[u + 1].op)
  <2>1. \A u \in 1 .. Len(v) : u < Len(v) => u = 1
    BY <1>2
  <2>2. Follows("download", "extract")
    BY DEF Follows, PatchOps
  <2> QED
    BY <1>2, <2>1, <2>2
<1>6. Shape
  <2>1. \A u \in 1 .. Len(v) :
          v[u].op = "extract" => \A w \in 1 .. u : v[w].op \notin PatchOps
    BY <1>2, <1>3, <1>4
  <2> QED
    BY <1>2, <1>3, <1>5, <2>1 DEF Shape, v
<1> QED
  BY <1>4, <1>6, NoPatchSteps DEF v

LEMMA EtsiShape ==
  ASSUME script = "etsi"
  PROVE  Shape /\ PatchShape
<1> DEFINE v == Steps
<1>1. v = <<Do("cache"), Do("check"), Do("extract"), FromTree(EtsiHeader, <<"wmops">>)>>
  BY DEF Steps, Program, FetchEtsi
<1> HIDE DEF v
<1>2. /\ Len(v) = 4 /\ v[1].op = "cache" /\ v[2].op = "check" /\ v[3].op = "extract"
      /\ v[4].op = "tree" /\ v[4].file = EtsiHeader /\ v[4].patches = <<"wmops">>
  BY <1>1 DEF Do, FromTree
<1>3. \A u \in 1 .. Len(v) : u = 1 \/ u = 2 \/ u = 3 \/ u = 4
  BY <1>2
<1>4. \A u \in 1 .. Len(v) : v[u].op \in PatchOps => u = 4
  BY <1>2, <1>3 DEF PatchOps
<1>5. \A u \in 1 .. Len(v) : u < Len(v) => Follows(v[u].op, v[u + 1].op)
  <2>1. \A u \in 1 .. Len(v) : u < Len(v) => u = 1 \/ u = 2 \/ u = 3
    BY <1>2
  <2>2. Follows("cache", "check") /\ Follows("check", "extract") /\ Follows("extract", "tree")
    BY DEF Follows, PatchOps
  <2> QED
    BY <1>2, <2>1, <2>2
<1>6. Shape
  <2>1. \A u \in 1 .. Len(v) : v[u].op = "extract" => u = 3
    BY <1>2, <1>3
  <2>2. \A u \in 1 .. Len(v) :
          v[u].op = "extract" => \A w \in 1 .. u : v[w].op \notin PatchOps
    BY <1>2, <1>4, <2>1
  <2>3. v[4].op \in {"extract"} \cup PatchOps
    BY <1>2 DEF PatchOps
  <2>4. \A u \in 1 .. Len(v) :
          /\ v[u].op \in {"cache", "download", "copy", "check", "extract"} \cup PatchOps
          /\ v[u].op # "download"
    BY <1>2, <1>3 DEF PatchOps
  <2> QED
    BY <1>2, <1>5, <2>2, <2>3, <2>4 DEF Shape, v, Hashed
<1>7. \A f : LiteOf(f) = <<>> /\ (f # EtsiHeader => LateOf(f) = <<>>)
  BY DEF LiteOf, LateOf
<1>8. LateOf(EtsiHeader) = <<"wmops">> /\ EtsiHeader \in Files(script)
  BY TreeAssumption DEF LateOf, Files
<1>9. Earlier(EtsiHeader, 4 + 1, "tree") /\ \A f : ~Earlier(f, 4, "tree")
  <2>1. 4 \in 1 .. (4 + 1) - 1
    OBVIOUS
  <2>2. \A u \in 1 .. 4 - 1 : v[u].op # "tree"
    BY <1>2, <1>4 DEF PatchOps
  <2> QED
    BY <1>2, <2>1, <2>2 DEF Earlier, v
<1>10. PatchShape
  <2>1. \A u \in 1 .. Len(v) : v[u].op # "source" /\ (v[u].op = "tree" => u = 4)
    BY <1>2, <1>3
  <2> QED
    BY <1>2, <1>4, <1>7, <1>8, <1>9, <2>1 DEF PatchShape, v, PatchOps
<1> QED
  BY <1>6, <1>10

CustomFiles == {"lc3.c", "tns.c", "spec.c", "sns.h", "sns.c", "mdct.c"}

LEMMA CustomShape ==
  ASSUME script = "custom"
  PROVE  Shape /\ PatchShape
<1> DEFINE v == Steps
<1>1. v = << Do("copy"), Do("extract"), Lite("lc3.c"), Lite("tns.c"), Lite("spec.c"),
             Custom("sns.h"), Custom("sns.c"), Custom("lc3.c"), Custom("spec.c"),
             Custom("mdct.c") >>
  BY DEF Steps, Program, PrepareCustom
<1> HIDE DEF v
<1>2. /\ Len(v) = 10 /\ v[1] = Do("copy") /\ v[2] = Do("extract") /\ v[3] = Lite("lc3.c")
      /\ v[4] = Lite("tns.c") /\ v[5] = Lite("spec.c") /\ v[6] = Custom("sns.h")
      /\ v[7] = Custom("sns.c") /\ v[8] = Custom("lc3.c") /\ v[9] = Custom("spec.c")
      /\ v[10] = Custom("mdct.c")
  BY <1>1
<1>3. \A f : /\ Lite(f).op = "source" /\ Lite(f).file = f /\ Lite(f).patches = LitePatches(f)
             /\ Custom(f).op = "tree" /\ Custom(f).file = f
             /\ Custom(f).patches = CustomPatches(f)
  BY DEF Lite, Custom, FromSource, FromTree
<1>4. /\ v[1].op = "copy" /\ v[2].op = "extract"
      /\ v[1].file = "none" /\ v[2].file = "none"
  BY <1>2 DEF Do
<1>5. /\ v[3].op = "source" /\ v[4].op = "source" /\ v[5].op = "source"
      /\ v[6].op = "tree" /\ v[7].op = "tree" /\ v[8].op = "tree" /\ v[9].op = "tree"
      /\ v[10].op = "tree"
  BY <1>2, <1>3
<1>6. /\ v[3].file = "lc3.c" /\ v[4].file = "tns.c" /\ v[5].file = "spec.c"
      /\ v[6].file = "sns.h" /\ v[7].file = "sns.c" /\ v[8].file = "lc3.c"
      /\ v[9].file = "spec.c" /\ v[10].file = "mdct.c"
  BY <1>2, <1>3
<1>7. \A u \in 1 .. Len(v) : \/ u = 1 \/ u = 2 \/ u = 3 \/ u = 4 \/ u = 5
                             \/ u = 6 \/ u = 7 \/ u = 8 \/ u = 9 \/ u = 10
  BY <1>2
<1>8. \A u \in 1 .. Len(v) :
        /\ u \in 3 .. 5 => v[u].op = "source" /\ v[u].patches = LitePatches(v[u].file)
        /\ u \in 6 .. 10 => v[u].op = "tree" /\ v[u].patches = CustomPatches(v[u].file)
  BY <1>2, <1>3, <1>5, <1>6, <1>7
<1>9. \A u \in 1 .. Len(v) : u \in 1 .. 2 \/ u \in 3 .. 5 \/ u \in 6 .. 10
  BY <1>2
<1>10. \A u \in 1 .. Len(v) :
         /\ v[u].op \in PatchOps <=> u \in 3 .. 10
         /\ v[u].op = "source" <=> u \in 3 .. 5
         /\ v[u].op = "tree" <=> u \in 6 .. 10
  BY <1>4, <1>7, <1>8, <1>9 DEF PatchOps
<1>11. Shape
  <2>1. Follows("copy", "extract") /\ \A op \in PatchOps : Follows("extract", op)
    BY DEF Follows, PatchOps
  <2>2. \A a, b \in PatchOps : Follows(a, b)
    BY DEF Follows, PatchOps
  <2>3. \A u \in 1 .. Len(v) : u < Len(v) => Follows(v[u].op, v[u + 1].op)
    <3> SUFFICES ASSUME NEW u \in 1 .. Len(v), u < Len(v)
                 PROVE  Follows(v[u].op, v[u + 1].op)
      OBVIOUS
    <3>1. u + 1 \in 1 .. Len(v) /\ (u = 1 \/ u = 2 \/ u \in 3 .. 10)
      BY <1>2
    <3>2. CASE u = 1
      BY <1>4, <2>1, <3>2
    <3>3. CASE u # 1
      <4>1. u + 1 \in 3 .. 10
        BY <1>2, <3>1, <3>3
      <4>2. v[u + 1].op \in PatchOps
        BY <1>10, <3>1, <4>1
      <4> QED
        BY <1>4, <1>10, <2>1, <2>2, <3>1, <3>3, <4>2
    <3> QED
      BY <3>2, <3>3
  <2>4. \A u \in 1 .. Len(v) : v[u].op = "extract" => u = 2
    BY <1>4, <1>5, <1>7
  <2>5. v[1].op \notin PatchOps /\ v[2].op \notin PatchOps
    BY <1>4 DEF PatchOps
  <2>6. \A u \in 1 .. Len(v) : v[u].op = "extract" =>
          \A w \in 1 .. u : v[w].op \notin PatchOps
    BY <2>4, <2>5
  <2>7. \A u \in 1 .. Len(v) :
          /\ v[u].op \in {"copy", "extract"} \cup PatchOps
          /\ v[u].op \notin {"cache", "download", "check"}
    BY <1>4, <1>5, <1>7 DEF PatchOps
  <2>8. v[10].op \in {"extract"} \cup PatchOps
    BY <1>5 DEF PatchOps
  <2> QED
    BY <1>2, <1>4, <2>3, <2>6, <2>7, <2>8 DEF Shape, v
<1>12. \A f : LiteOf(f) = LitePatches(f) /\ LateOf(f) = CustomPatches(f)
  BY DEF LiteOf, LateOf
<1>13. /\ LitePatches("sns.h") = <<>> /\ LitePatches("sns.c") = <<>>
       /\ LitePatches("mdct.c") = <<>> /\ CustomPatches("tns.c") = <<>>
  BY DEF LitePatches, CustomPatches
<1>14. Files(script) = CustomFiles
  BY DEF Files, CustomFiles
<1>15. ASSUME NEW f, NEW u \in 1 .. 11
       PROVE  /\ Earlier(f, u, "source") <=> \E w \in 3 .. 5 : w < u /\ v[w].file = f
              /\ Earlier(f, u, "tree") <=> \E w \in 6 .. 10 : w < u /\ v[w].file = f
  <2>1. \A w : w \in 1 .. u - 1 <=> w \in 1 .. Len(v) /\ w < u
    BY <1>2
  <2> QED
    BY <1>2, <1>10, <2>1 DEF Earlier, v
<1>16. ASSUME NEW u \in 3 .. 5
       PROVE  ~Earlier(v[u].file, u, "source") /\ ~Earlier(v[u].file, u, "tree")
  <2>1. \A w \in 3 .. 5 : w < u => v[w].file # v[u].file
    BY <1>6
  <2>2. \A w \in 6 .. 10 : ~(w < u)
    OBVIOUS
  <2> QED
    BY <1>15, <2>1, <2>2
<1>17. ASSUME NEW u \in 6 .. 10
       PROVE  /\ ~Earlier(v[u].file, u, "tree")
              /\ Earlier(v[u].file, u, "source") \/ LitePatches(v[u].file) = <<>>
  <2>1. \A w \in 6 .. 10 : w < u => v[w].file # v[u].file
    BY <1>6
  <2>2. u = 6 \/ u = 7 \/ u = 8 \/ u = 9 \/ u = 10
    OBVIOUS
  <2>3. \/ LitePatches(v[u].file) = <<>>
        \/ \E w \in 3 .. 5 : w < u /\ v[w].file = v[u].file
    BY <1>6, <1>13, <2>2
  <2> QED
    BY <1>15, <2>1, <2>3
<1>18. \A u \in 1 .. Len(v) : v[u].op \in PatchOps => v[u].file \in CustomFiles
  BY <1>6, <1>7, <1>10 DEF CustomFiles
<1>19. ASSUME NEW f \in CustomFiles
       PROVE  \/ Earlier(f, 11, "tree")
              \/ CustomPatches(f) = <<>> /\ Earlier(f, 11, "source")
  <2>1. \/ \E w \in 6 .. 10 : w < 11 /\ v[w].file = f
        \/ f = "tns.c" /\ \E w \in 3 .. 5 : w < 11 /\ v[w].file = f
    BY <1>6 DEF CustomFiles
  <2> QED
    BY <1>13, <1>15, <2>1
<1>20. PatchShape
  <2> SUFFICES ASSUME NEW u \in 1 .. Len(v)
               PROVE  /\ v[u].op \in PatchOps => v[u].file \in CustomFiles
                      /\ v[u].op = "source" =>
                           /\ v[u].patches = LitePatches(v[u].file)
                           /\ ~Earlier(v[u].file, u, "source")
                           /\ ~Earlier(v[u].file, u, "tree")
                      /\ v[u].op = "tree" =>
                           /\ v[u].patches = CustomPatches(v[u].file)
                           /\ Earlier(v[u].file, u, "source") \/ LitePatches(v[u].file) = <<>>
                           /\ ~Earlier(v[u].file, u, "tree")
    BY <1>2, <1>12, <1>14, <1>19 DEF PatchShape, v
  <2> QED
    BY <1>8, <1>10, <1>16, <1>17, <1>18
<1> QED
  BY <1>11, <1>20

LEMMA ScriptShape ==
  ASSUME script \in Scripts
  PROVE  Shape /\ PatchShape
BY ScriptNames, PinnedShape, GoogleShape, EtsiShape, CustomShape

-----------------------------------------------------------------------------
(* The patches of a file: each is another, and the generator of CUSTOM     *)
(* finds what the one of LITE left.                                        *)

PatchNames ==
  {"attack", "ltpf", "mdct", "bw", "sns", "tns", "spec", "bits", "energy", "no_tns",
   "gain", "no_refine", "coarse", "table", "weights", "helper", "analyze", "synthesize",
   "nbits", "put", "get", "custom_bits", "ram", "rate_helper", "rate", "fft60", "wmops"}

LEMMA Tables ==
  ASSUME NEW f
  PROVE  LitePatches(f) \in Seq(PatchNames) /\ CustomPatches(f) \in Seq(PatchNames)
<1> DEFINE S == PatchNames
<1>1. /\ "attack" \in S /\ "ltpf" \in S /\ "mdct" \in S /\ "bw" \in S /\ "sns" \in S
      /\ "tns" \in S /\ "spec" \in S /\ "bits" \in S /\ "energy" \in S /\ "no_tns" \in S
      /\ "gain" \in S /\ "no_refine" \in S
  BY DEF PatchNames
<1>2. /\ "coarse" \in S /\ "table" \in S /\ "weights" \in S /\ "helper" \in S
      /\ "analyze" \in S /\ "synthesize" \in S /\ "nbits" \in S /\ "put" \in S
      /\ "get" \in S /\ "custom_bits" \in S /\ "ram" \in S /\ "rate_helper" \in S
      /\ "rate" \in S /\ "fft60" \in S
  BY DEF PatchNames
<1> HIDE DEF S
<1>3. /\ <<"attack", "ltpf", "mdct", "bw", "sns", "tns", "spec", "bits", "energy">> \in Seq(S)
      /\ <<"no_tns">> \in Seq(S) /\ <<"gain", "no_refine">> \in Seq(S) /\ <<>> \in Seq(S)
  BY <1>1
<1>4. /\ <<"coarse">> \in Seq(S) /\ <<"custom_bits", "ram">> \in Seq(S)
      /\ <<"rate_helper", "rate">> \in Seq(S) /\ <<"fft60", "ram">> \in Seq(S)
      /\ <<"table", "weights", "helper", "analyze", "synthesize", "nbits", "put", "get">>
           \in Seq(S)
  BY <1>2
<1>5. LitePatches(f) \in Seq(S)
  BY <1>3 DEF LitePatches
<1>6. CustomPatches(f) \in Seq(S)
  BY <1>3, <1>4 DEF CustomPatches
<1> QED
  BY <1>5, <1>6 DEF S

LEMMA PatchTypes ==
  ASSUME NEW f
  PROVE  /\ LiteOf(f) \in Seq(PatchNames) /\ LateOf(f) \in Seq(PatchNames)
         /\ Patches(f) = LiteOf(f) \o LateOf(f) /\ Patches(f) \in Seq(PatchNames)
         /\ Len(LiteOf(f)) \in Nat /\ Len(LateOf(f)) \in Nat
         /\ Len(Patches(f)) = Len(LiteOf(f)) + Len(LateOf(f))
         /\ \A i \in 1 .. Len(LiteOf(f)) : Patches(f)[i] = LiteOf(f)[i]
         /\ \A i \in 1 .. Len(LateOf(f)) : Patches(f)[Len(LiteOf(f)) + i] = LateOf(f)[i]
<1> DEFINE a == LiteOf(f)
<1> DEFINE b == LateOf(f)
<1> DEFINE p == Patches(f)
<1>0. <<"wmops">> \in Seq(PatchNames) /\ <<>> \in Seq(PatchNames)
  <2>1. "wmops" \in PatchNames
    BY DEF PatchNames
  <2> QED
    BY <2>1
<1>1. a \in Seq(PatchNames)
  BY <1>0, Tables DEF LiteOf
<1>2. b \in Seq(PatchNames)
  BY <1>0, Tables DEF LateOf
<1>3. p = a \o b
  <2>1. CASE script = "custom"
    BY <2>1 DEF Patches, LiteOf, LateOf
  <2>2. CASE script # "custom"
    <3>1. a = <<>> /\ p = b
      BY <2>2 DEF Patches, LiteOf, LateOf
    <3>2. <<>> \o b = b
      BY <1>2, ConcatEmptySeq
    <3> QED
      BY <3>1, <3>2
  <2> QED
    BY <2>1, <2>2
<1> HIDE DEF a, b, p
<1>4. Len(a) \in Nat /\ Len(b) \in Nat
  BY <1>1, <1>2, LenProperties
<1>5. /\ a \o b \in Seq(PatchNames) /\ Len(a \o b) = Len(a) + Len(b)
      /\ \A i \in 1 .. Len(a) + Len(b) :
           (a \o b)[i] = IF i <= Len(a) THEN a[i] ELSE b[i - Len(a)]
  BY <1>1, <1>2, ConcatProperties
<1>6. \A i \in 1 .. Len(a) : p[i] = a[i]
  BY <1>3, <1>4, <1>5
<1>7. ASSUME NEW i \in 1 .. Len(b) PROVE p[Len(a) + i] = b[i]
  <2>1. /\ Len(a) + i \in 1 .. Len(a) + Len(b) /\ ~(Len(a) + i <= Len(a))
        /\ (Len(a) + i) - Len(a) = i
    BY <1>4
  <2> QED
    BY <1>3, <1>5, <2>1
<1> QED
  BY <1>1, <1>2, <1>3, <1>4, <1>5, <1>6, <1>7 DEF a, b, p

Distinct(s) == \A i, k \in 1 .. Len(s) : s[i] = s[k] => i = k
LiteFirst(s) ==
  \A i \in 1 .. Len(s) :
    /\ s[i] # "none"
    /\ s[i] = "custom_bits" => \E k \in 1 .. i - 1 : s[k] = "bits"

LEMMA CustomOrderly ==
  ASSUME script = "custom", NEW f \in CustomFiles
  PROVE  Distinct(Patches(f)) /\ LiteFirst(Patches(f))
<1> DEFINE a == LiteOf(f)
<1> DEFINE b == LateOf(f)
<1> DEFINE p == Patches(f)
<1>1. a = LitePatches(f) /\ b = CustomPatches(f)
  BY DEF LiteOf, LateOf
<1>2. /\ Len(p) = Len(a) + Len(b)
      /\ \A i \in 1 .. Len(a) : p[i] = a[i]
      /\ \A i \in 1 .. Len(b) : p[Len(a) + i] = b[i]
  BY PatchTypes
<1> HIDE DEF a, b, p
<1>3. CASE f = "lc3.c"
  <2>1. /\ a = <<"attack", "ltpf", "mdct", "bw", "sns", "tns", "spec", "bits", "energy">>
        /\ b = <<"custom_bits", "ram">>
    BY <1>1, <1>3 DEF LitePatches, CustomPatches
  <2>2. /\ Len(a) = 9 /\ a[1] = "attack" /\ a[2] = "ltpf" /\ a[3] = "mdct" /\ a[4] = "bw"
        /\ a[5] = "sns" /\ a[6] = "tns" /\ a[7] = "spec" /\ a[8] = "bits" /\ a[9] = "energy"
        /\ Len(b) = 2 /\ b[1] = "custom_bits" /\ b[2] = "ram"
    BY <2>1
  <2>3. /\ Len(p) = 11 /\ p[1] = "attack" /\ p[2] = "ltpf" /\ p[3] = "mdct" /\ p[4] = "bw"
        /\ p[5] = "sns" /\ p[6] = "tns" /\ p[7] = "spec" /\ p[8] = "bits" /\ p[9] = "energy"
        /\ p[10] = "custom_bits" /\ p[11] = "ram"
    BY <1>2, <2>2
  <2>4. \A i \in 1 .. Len(p) : \/ i = 1 \/ i = 2 \/ i = 3 \/ i = 4 \/ i = 5 \/ i = 6
                               \/ i = 7 \/ i = 8 \/ i = 9 \/ i = 10 \/ i = 11
    BY <2>3
  <2>5. Distinct(p)
    BY <2>3, <2>4 DEF Distinct
  <2>6. LiteFirst(p)
    <3>1. \A i \in 1 .. Len(p) : p[i] # "none" /\ (p[i] = "custom_bits" => i = 10)
      BY <2>3, <2>4
    <3>2. 8 \in 1 .. 10 - 1
      OBVIOUS
    <3> QED
      BY <2>3, <3>1, <3>2 DEF LiteFirst
  <2> QED
    BY <2>5, <2>6 DEF p
<1>4. CASE f = "sns.c"
  <2>1. /\ a = <<>>
        /\ b = <<"table", "weights", "helper", "analyze", "synthesize",
                 "nbits", "put", "get">>
    BY <1>1, <1>4 DEF LitePatches, CustomPatches
  <2>2. /\ Len(a) = 0 /\ Len(b) = 8 /\ b[1] = "table" /\ b[2] = "weights" /\ b[3] = "helper"
        /\ b[4] = "analyze" /\ b[5] = "synthesize" /\ b[6] = "nbits" /\ b[7] = "put"
        /\ b[8] = "get"
    BY <2>1
  <2>3. /\ Len(p) = 8 /\ p[1] = "table" /\ p[2] = "weights" /\ p[3] = "helper"
        /\ p[4] = "analyze" /\ p[5] = "synthesize" /\ p[6] = "nbits" /\ p[7] = "put"
        /\ p[8] = "get"
    BY <1>2, <2>2
  <2>4. \A i \in 1 .. Len(p) : \/ i = 1 \/ i = 2 \/ i = 3 \/ i = 4 \/ i = 5 \/ i = 6
                               \/ i = 7 \/ i = 8
    BY <2>3
  <2>5. Distinct(p)
    BY <2>3, <2>4 DEF Distinct
  <2>6. \A i \in 1 .. Len(p) : p[i] # "custom_bits" /\ p[i] # "none"
    BY <2>3, <2>4
  <2> QED
    BY <2>5, <2>6 DEF LiteFirst, p
<1>5. CASE f = "spec.c"
  <2>1. a = <<"gain", "no_refine">> /\ b = <<"rate_helper", "rate">>
    BY <1>1, <1>5 DEF LitePatches, CustomPatches
  <2>2. /\ Len(a) = 2 /\ a[1] = "gain" /\ a[2] = "no_refine"
        /\ Len(b) = 2 /\ b[1] = "rate_helper" /\ b[2] = "rate"
    BY <2>1
  <2>3. /\ Len(p) = 4 /\ p[1] = "gain" /\ p[2] = "no_refine"
        /\ p[3] = "rate_helper" /\ p[4] = "rate"
    BY <1>2, <2>2
  <2>4. \A i \in 1 .. Len(p) : i = 1 \/ i = 2 \/ i = 3 \/ i = 4
    BY <2>3
  <2>5. Distinct(p)
    BY <2>3, <2>4 DEF Distinct
  <2>6. \A i \in 1 .. Len(p) : p[i] # "custom_bits" /\ p[i] # "none"
    BY <2>3, <2>4
  <2> QED
    BY <2>5, <2>6 DEF LiteFirst, p
<1>6. CASE f = "mdct.c"
  <2>1. a = <<>> /\ b = <<"fft60", "ram">>
    BY <1>1, <1>6 DEF LitePatches, CustomPatches
  <2>2. Len(a) = 0 /\ Len(b) = 2 /\ b[1] = "fft60" /\ b[2] = "ram"
    BY <2>1
  <2>3. Len(p) = 2 /\ p[1] = "fft60" /\ p[2] = "ram"
    BY <1>2, <2>2
  <2>4. \A i \in 1 .. Len(p) : i = 1 \/ i = 2
    BY <2>3
  <2> QED
    BY <2>3, <2>4 DEF Distinct, LiteFirst, p
<1>7. CASE f \in {"tns.c", "sns.h"}
  <2>1. \/ a = <<>> /\ b = <<"coarse">>
        \/ a = <<"no_tns">> /\ b = <<>>
    BY <1>1, <1>7 DEF LitePatches, CustomPatches
  <2>2. \/ Len(a) = 0 /\ Len(b) = 1 /\ b[1] = "coarse"
        \/ Len(a) = 1 /\ Len(b) = 0 /\ a[1] = "no_tns"
    BY <2>1
  <2>3. Len(p) = 1 /\ p[1] \in {"coarse", "no_tns"}
    BY <1>2, <2>2
  <2>4. \A i \in 1 .. Len(p) : i = 1
    BY <2>3
  <2> QED
    BY <2>3, <2>4 DEF Distinct, LiteFirst, p
<1> QED
  BY <1>3, <1>4, <1>5, <1>6, <1>7 DEF CustomFiles

LEMMA Orderly ==
  ASSUME script \in Scripts, NEW f \in Files(script)
  PROVE  Distinct(Patches(f)) /\ LiteFirst(Patches(f))
<1>1. CASE script = "custom"
  BY <1>1, CustomOrderly DEF Files, CustomFiles
<1>2. CASE script # "custom"
  <2> DEFINE p == Patches(f)
  <2>1. p = <<"wmops">> \/ p = <<>>
    BY <1>2 DEF Patches
  <2> HIDE DEF p
  <2>2. Len(p) = 0 \/ (Len(p) = 1 /\ p[1] = "wmops")
    BY <2>1
  <2>3. \A i \in 1 .. Len(p) : i = 1 /\ p[i] = "wmops"
    <3>1. CASE Len(p) = 0
      BY <3>1
    <3>2. CASE Len(p) = 1 /\ p[1] = "wmops"
      BY <3>2
    <3> QED
      BY <2>2, <3>1, <3>2
  <2>4. \A i \in 1 .. Len(p) : p[i] # "custom_bits" /\ p[i] # "none"
    BY <2>3
  <2> QED
    BY <2>3, <2>4 DEF Distinct, LiteFirst, p
<1> QED
  BY <1>1, <1>2

-----------------------------------------------------------------------------
(* What a step that patches adds to its file, and to no other. *)

LEMMA Adds ==
  ASSUME Shape, PatchShape, NEW u \in 1 .. Len(Steps), Steps[u].op \in PatchOps,
         NEW f, f = Steps[u].file
  PROVE  /\ Steps[u].op = "tree" => AppliedBy(f, u) = Offset(u)
         /\ Offset(u) \in Nat /\ Len(Steps[u].patches) \in Nat
         /\ Offset(u) + Len(Steps[u].patches) = AppliedBy(f, u + 1)
         /\ AppliedBy(f, u + 1) <= Len(Patches(f))
         /\ \A i \in 1 .. Len(Steps[u].patches) :
              Steps[u].patches[i] = Patches(f)[Offset(u) + i]
<1> DEFINE a == LiteOf(f)
<1> DEFINE b == LateOf(f)
<1> DEFINE p == Patches(f)
<1> DEFINE q == Steps[u].patches
<1> DEFINE o == Offset(u)
<1>1. /\ Len(a) \in Nat /\ Len(b) \in Nat /\ Len(p) = Len(a) + Len(b)
      /\ \A i \in 1 .. Len(a) : p[i] = a[i]
      /\ \A i \in 1 .. Len(b) : p[Len(a) + i] = b[i]
  BY PatchTypes
<1>2. u \in Nat /\ u \in 1 .. (u + 1) - 1 /\ u < u + 1
  BY DEF Shape
<1>3. /\ Steps[u].op = "source" =>
           q = a /\ ~Earlier(f, u, "source") /\ ~Earlier(f, u, "tree")
      /\ Steps[u].op = "tree" =>
           q = b /\ (Earlier(f, u, "source") \/ a = <<>>) /\ ~Earlier(f, u, "tree")
  BY DEF PatchShape
<1>4. Earlier(f, u + 1, "source") <=> Earlier(f, u, "source") \/ Steps[u].op = "source"
  <2>1. \A v : v \in 1 .. (u + 1) - 1 <=> v \in 1 .. u - 1 \/ v = u
    BY <1>2
  <2> QED
    BY <2>1 DEF Earlier
<1>5. Earlier(f, u + 1, "tree") <=> Earlier(f, u, "tree") \/ Steps[u].op = "tree"
  <2>1. \A v : v \in 1 .. (u + 1) - 1 <=> v \in 1 .. u - 1 \/ v = u
    BY <1>2
  <2> QED
    BY <2>1 DEF Earlier
<1>6. /\ Steps[u].op = "source" => o = 0
      /\ Steps[u].op # "source" => o = Len(a)
  BY DEF Offset
<1>7. Len(<<>>) = 0
  OBVIOUS
<1>8. AppliedBy(f, u) = IF Earlier(f, u, "tree") THEN Len(p)
                      ELSE IF Earlier(f, u, "source") THEN Len(a) ELSE 0
  BY DEF AppliedBy
<1>9. AppliedBy(f, u + 1) = IF Earlier(f, u + 1, "tree") THEN Len(p)
                          ELSE IF Earlier(f, u + 1, "source") THEN Len(a) ELSE 0
  BY DEF AppliedBy
<1>10. Steps[u].op = "source" \/ Steps[u].op = "tree"
  BY DEF PatchOps
<1> HIDE DEF a, b, p, q, o
<1>11. CASE Steps[u].op = "source"
  <2>1. AppliedBy(f, u + 1) = Len(a) /\ o = 0 /\ q = a
    BY <1>3, <1>4, <1>5, <1>6, <1>9, <1>11
  <2>2. /\ o \in Nat /\ Len(q) \in Nat /\ o + Len(q) = AppliedBy(f, u + 1)
        /\ AppliedBy(f, u + 1) <= Len(p)
    BY <1>1, <2>1
  <2>3. \A i \in 1 .. Len(q) : q[i] = p[o + i]
    BY <1>1, <2>1
  <2> QED
    BY <1>11, <2>2, <2>3 DEF p, q, o
<1>12. CASE Steps[u].op = "tree"
  <2>1. AppliedBy(f, u + 1) = Len(p) /\ o = Len(a) /\ q = b
    BY <1>3, <1>4, <1>5, <1>6, <1>9, <1>12
  <2>2. AppliedBy(f, u) = Len(a)
    BY <1>3, <1>7, <1>8, <1>12
  <2>3. /\ AppliedBy(f, u) = o /\ o \in Nat /\ Len(q) \in Nat
        /\ o + Len(q) = AppliedBy(f, u + 1)
    BY <1>1, <2>1, <2>2
  <2>4. AppliedBy(f, u + 1) <= Len(p)
    BY <1>1, <2>1
  <2>5. \A i \in 1 .. Len(q) : q[i] = p[o + i]
    BY <1>1, <2>1
  <2> QED
    BY <2>3, <2>4, <2>5 DEF p, q, o
<1> QED
  BY <1>10, <1>11, <1>12

LEMMA AddsNoOther ==
  ASSUME Shape, NEW u \in 1 .. Len(Steps), NEW f,
         Steps[u].op \in PatchOps => f # Steps[u].file
  PROVE  AppliedBy(f, u + 1) = AppliedBy(f, u)
<1>1. \A v : v \in 1 .. (u + 1) - 1 <=> v \in 1 .. u - 1 \/ v = u
  BY DEF Shape
<1>2. \A op \in PatchOps : ~(Steps[u].op = op /\ Steps[u].file = f)
  OBVIOUS
<1>3. \A op \in PatchOps : Earlier(f, u + 1, op) <=> Earlier(f, u, op)
  BY <1>1, <1>2 DEF Earlier
<1>4. "source" \in PatchOps /\ "tree" \in PatchOps
  BY DEF PatchOps
<1> QED
  BY <1>3, <1>4 DEF AppliedBy

(* Nothing is patched before the tree is extracted, and everything in the  *)
(* end.                                                                    *)
LEMMA AddsNothing ==
  ASSUME Shape, NEW u \in 1 .. Len(Steps), Steps[u].op = "extract", NEW f
  PROVE  AppliedBy(f, u + 1) = 0
<1>1. \A v \in 1 .. (u + 1) - 1 : v \in 1 .. u
  BY DEF Shape
<1>2. \A v \in 1 .. u : Steps[v].op \notin PatchOps
  BY DEF Shape
<1>3. ~Earlier(f, u + 1, "source") /\ ~Earlier(f, u + 1, "tree")
  BY <1>1, <1>2 DEF Earlier, PatchOps
<1> QED
  BY <1>3 DEF AppliedBy

LEMMA AddsAll ==
  ASSUME PatchShape, NEW f \in Files(script)
  PROVE  First(f, AppliedBy(f, Len(Steps) + 1)) = Patches(f)
<1>1. /\ Len(LiteOf(f)) \in Nat /\ Len(Patches(f)) = Len(LiteOf(f)) + Len(LateOf(f))
      /\ Patches(f) \in Seq(PatchNames)
  BY PatchTypes
<1>2. Len(<<>>) = 0
  OBVIOUS
<1>3. \/ Earlier(f, Len(Steps) + 1, "tree")
      \/ /\ LateOf(f) = <<>>
         /\ Earlier(f, Len(Steps) + 1, "source") \/ LiteOf(f) = <<>>
  BY DEF PatchShape
<1>4. AppliedBy(f, Len(Steps) + 1) = Len(Patches(f))
  BY <1>1, <1>2, <1>3 DEF AppliedBy
<1>5. SubSeq(Patches(f), 1, Len(Patches(f))) = Patches(f)
  BY <1>1, SubSeqFull
<1> QED
  BY <1>4, <1>5 DEF First

LEMMA FirstNone ==
  ASSUME NEW f PROVE First(f, 0) = <<>>
<1>1. Patches(f) \in Seq(PatchNames)
  BY PatchTypes
<1> QED
  BY <1>1 DEF First

LEMMA FirstNext ==
  ASSUME NEW f, NEW n \in Nat, n < Len(Patches(f))
  PROVE  First(f, n + 1) = Append(First(f, n), Patches(f)[n + 1])
<1> DEFINE p == Patches(f)
<1>1. p \in Seq(PatchNames)
  BY PatchTypes
<1> HIDE DEF p
<1>2. 1 \in 1 .. Len(p) + 1 /\ n \in 1 - 1 .. Len(p) - 1
  BY <1>1 DEF p
<1>3. SubSeq(p, 1, n + 1) = Append(SubSeq(p, 1, n), p[n + 1])
  BY <1>1, <1>2
<1> QED
  BY <1>3 DEF First, p

LEMMA FirstHas ==
  ASSUME NEW f, NEW n \in Nat, n <= Len(Patches(f)), NEW x
  PROVE  x \in Range(First(f, n)) <=> \E k \in 1 .. n : Patches(f)[k] = x
<1> DEFINE p == Patches(f)
<1>1. p \in Seq(PatchNames)
  BY PatchTypes
<1> HIDE DEF p
<1>2. /\ Len(SubSeq(p, 1, n)) = n
      /\ DOMAIN SubSeq(p, 1, n) = 1 .. n
      /\ \A k \in 1 .. n : SubSeq(p, 1, n)[k] = p[k]
  BY <1>1 DEF p
<1> QED
  BY <1>2 DEF First, Range, p

-----------------------------------------------------------------------------
(* The invariant. *)

TreeTypes ==
  /\ script \in Scripts /\ step \in 1 .. Len(Steps)
  /\ status \in {"idle", "running", "failed", "offline", "done"}
  /\ tree = [f \in Files(script) |-> tree[f]]
ArchiveInv ==
  /\ archive \in {Absent, Partial, Pinned, Other}
  /\ script \notin Hashed => archive = Absent
  /\ At("check") => archive # Absent
(* What is half written is what the step writes. *)
HalfInv ==
  /\ Running /\ half # "none" => Now.op \in {"cache", "extract"} \cup PatchOps
  /\ At("cache") /\ half # "none" => payload \in Served
  /\ Patching /\ half # "none" => half = Now.file /\ place = Len(Now.patches) + 1
(* While the archive is extracted the files that are not left are pinned. *)
ExtractInv ==
  At("extract") =>
    /\ payload = Pinned /\ left \subseteq Files(script)
    /\ half # "none" => half \in left
    /\ \A f \in Files(script) \ left : tree[f] = Pinned
(* While the tree is patched each file, and the text of the file that is   *)
(* being patched, has the patches of the steps and places before.          *)
PatchInv ==
  /\ Running /\ ~Patching => place = 0
  /\ Patching =>
       /\ place \in 0 .. Len(Now.patches) + 1
       /\ \A f \in Files(script) :
            /\ f = Now.file /\ place > 0 =>
                 \A u \in {step} : text = SubSeq(Patches(f), 1, Offset(u) + place - 1)
            /\ f # half => \A u \in {step} : tree[f] = SubSeq(Patches(f), 1, AppliedBy(f, u))
TreeInv ==
  TreeTypes /\ ArchiveInv /\ HalfInv /\ ExtractInv /\ PatchInv
    /\ FinishedTreeIsWhole /\ OnlyInputsFail

LEMMA SameScript ==
  ASSUME script' = script
  PROVE  /\ Steps' = Steps /\ Served' = Served
         /\ \A f : Patches(f)' = Patches(f)
         /\ \A u : Offset(u)' = Offset(u)
         /\ \A f, u : AppliedBy(f, u)' = AppliedBy(f, u)
<1>1. Steps' = Steps /\ Served' = Served
  BY DEF Steps, Served
<1>2. \A f : Patches(f)' = Patches(f) /\ LiteOf(f)' = LiteOf(f)
  BY DEF Patches, LiteOf
<1>3. \A u : Offset(u)' = Offset(u)
  <2> SUFFICES ASSUME NEW u PROVE Offset(u)' = Offset(u)
    OBVIOUS
  <2>1. LiteOf(Steps[u].file)' = LiteOf(Steps[u].file)
    BY <1>1 DEF LiteOf
  <2> QED
    BY <1>1, <2>1 DEF Offset
<1>4. \A f, u : AppliedBy(f, u)' = AppliedBy(f, u)
  <2> SUFFICES ASSUME NEW f, NEW u PROVE AppliedBy(f, u)' = AppliedBy(f, u)
    OBVIOUS
  <2>1. \A op : Earlier(f, u, op)' <=> Earlier(f, u, op)
    BY <1>1 DEF Earlier
  <2> QED
    BY <1>2, <2>1 DEF AppliedBy
<1> QED
  BY <1>1, <1>2, <1>3, <1>4

LEMMA TreeInitially == TreeInit => TreeInv
<1> SUFFICES ASSUME TreeInit PROVE TreeInv
  OBVIOUS
<1>1. Shape
  BY ScriptShape DEF TreeInit
<1>2. 1 \in 1 .. Len(Steps)
  BY <1>1 DEF Shape
<1>3. TreeTypes
  BY <1>2 DEF TreeInit, TreeTypes
<1> QED
  BY <1>3 DEF TreeInit, TreeInv, ArchiveInv, HalfInv, ExtractInv, PatchInv, Running, At,
       Patching, FinishedTreeIsWhole, OnlyInputsFail

(* A step that does not run the script, or one of the archive, keeps what  *)
(* is said of the tree.                                                    *)
LEMMA TreeStops ==
  ASSUME TreeInv, UNCHANGED <<script, step, tree>>, archive' = archive,
         status' \in {"idle", "offline"} 
  PROVE  TreeInv'
<1>1. TreeTypes'
  BY SameScript DEF TreeInv, TreeTypes, Files
<1>2. ArchiveInv'
  BY DEF TreeInv, ArchiveInv, At, Running
<1> QED
  BY <1>1, <1>2 DEF TreeInv, HalfInv, ExtractInv, PatchInv, Running, At, Patching,
       FinishedTreeIsWhole, OnlyInputsFail

LEMMA TreeStarts ==
  ASSUME TreeInv, Start
  PROVE  TreeInv'
<1>1. Shape /\ Steps' = Steps
  BY ScriptShape, SameScript DEF TreeInv, TreeTypes, Start
<1>2. TreeTypes'
  BY <1>1 DEF Start, disk, TreeInv, TreeTypes, Files, Shape
<1>3. Now'.op \in {"cache", "download", "copy"}
  BY <1>1 DEF Start, Now, Shape
<1>4. ArchiveInv'
  BY <1>3 DEF Start, disk, TreeInv, ArchiveInv, At
<1>5. ~At("extract")' /\ ~Patching'
  BY <1>3 DEF At, Patching
<1> QED
  BY <1>2, <1>4, <1>5 DEF Start, TreeInv, HalfInv, ExtractInv, PatchInv,
       FinishedTreeIsWhole, OnlyInputsFail

ArchiveOps == {"cache", "download", "check", "copy"}

(* The step after one of the archive. *)
LEMMA Advances ==
  ASSUME TreeInv, Running, Now.op \in ArchiveOps, StepDone, script' = script
  PROVE  /\ status' = "running" /\ step' \in 1 .. Len(Steps) /\ Steps' = Steps
         /\ Now'.op \in {"check", "extract"}
         /\ Now.op = "cache" => Now'.op = "check"
         /\ Now.op # "cache" => Now'.op = "extract"
<1>1. Shape /\ step \in 1 .. Len(Steps) /\ Steps' = Steps
  BY ScriptShape, SameScript DEF TreeInv, TreeTypes
<1>2. step # Len(Steps)
  <2>1. Steps[Len(Steps)].op \in {"extract"} \cup PatchOps
    BY <1>1 DEF Shape
  <2> QED
    BY <2>1 DEF Now, ArchiveOps, PatchOps
<1>3. status' = "running" /\ step' = step + 1
  BY <1>2 DEF StepDone, Running
<1>4. step + 1 \in 1 .. Len(Steps) /\ Follows(Steps[step].op, Steps[step + 1].op)
  BY <1>1, <1>2 DEF Shape
<1> QED
  BY <1>1, <1>3, <1>4 DEF Follows, Now, ArchiveOps

LEMMA ArchiveAdvances ==
  ASSUME TreeInv, Running, Now.op \in ArchiveOps, StepDone,
         UNCHANGED <<script, tree, place>>, half' = "none", ArchiveInv',
         Now'.op = "extract" => payload' = Pinned /\ left' = Files(script)
  PROVE  TreeInv'
<1>1. /\ status' = "running" /\ step' \in 1 .. Len(Steps) /\ Steps' = Steps
      /\ Now'.op \in {"check", "extract"}
  BY Advances
<1>2. TreeTypes'
  BY <1>1 DEF TreeInv, TreeTypes, Files
<1>3. ~Patching /\ ~Patching'
  BY <1>1 DEF Patching, At, ArchiveOps
<1>4. HalfInv'
  BY <1>3 DEF HalfInv
<1>5. ExtractInv'
  <2>1. Files(script)' = Files(script)
    BY DEF Files
  <2> QED
    BY <2>1 DEF ExtractInv, At
<1>6. PatchInv'
  BY <1>3 DEF TreeInv, PatchInv, Running
<1>7. FinishedTreeIsWhole' /\ OnlyInputsFail'
  BY <1>1 DEF FinishedTreeIsWhole, OnlyInputsFail
<1> QED
  BY <1>2, <1>4, <1>5, <1>6, <1>7, <1>1 DEF TreeInv

(* One that fails at the archive. *)
LEMMA ArchiveFails ==
  ASSUME TreeInv, Running, Now.op \in ArchiveOps, status' = "failed",
         UNCHANGED <<script, step, tree, archive, drift>>, archive # Pinned, archive # Absent
  PROVE  TreeInv'
<1>1. TreeTypes'
  BY SameScript DEF TreeInv, TreeTypes, Files
<1>2. ArchiveInv'
  BY DEF TreeInv, ArchiveInv, At, Running
<1>3. OnlyInputsFail'
  BY DEF OnlyInputsFail, TreeInv, ArchiveInv, Hashed
<1> QED
  BY <1>1, <1>2, <1>3 DEF TreeInv, HalfInv, ExtractInv, PatchInv, Running, At, Patching,
       FinishedTreeIsWhole

(* One that is in the middle of a write of the archive. *)
LEMMA ArchiveStays ==
  ASSUME TreeInv, Running, Now.op = "cache", half' = "archive", ArchiveInv',
         UNCHANGED <<script, step, status, tree, place>>,
         payload' \in Served
  PROVE  TreeInv'
<1>1. Steps' = Steps /\ Now' = Now /\ Served' = Served
  BY SameScript DEF Now
<1>2. TreeTypes'
  BY <1>1 DEF TreeInv, TreeTypes, Files
<1>3. ~Patching /\ ~Patching' /\ ~At("extract")'
  BY <1>1 DEF Patching, At
<1>4. HalfInv'
  BY <1>1, <1>3 DEF HalfInv, At, Patching
<1>5. PatchInv'
  BY <1>3 DEF TreeInv, PatchInv, Running
<1>6. ExtractInv'
  BY <1>3 DEF ExtractInv
<1>7. FinishedTreeIsWhole' /\ OnlyInputsFail'
  BY DEF FinishedTreeIsWhole, OnlyInputsFail, Running
<1> QED
  BY <1>2, <1>4, <1>5, <1>6, <1>7 DEF TreeInv

LEMMA OfScript ==
  ASSUME TreeInv, Running
  PROVE  /\ Now.op \in {"cache", "check"} => script \in Hashed
         /\ Now.op = "download" => script = "google"
         /\ Now.op = "extract" => ~(Now.op \in PatchOps)
BY ScriptShape DEF TreeInv, TreeTypes, Shape, Now, PatchOps

LEMMA ServedTypes ==
  /\ Served \subseteq {Pinned, Other} /\ Absent \notin Served
  /\ script = "google" => Served = {Pinned}
<1>1. Pinned # Absent /\ Other # Absent
  BY DEF Pinned, Absent, Other
<1> QED
  BY <1>1 DEF Served

LEMMA ArchiveSteps ==
  ASSUME TreeInv,
         CacheHit \/ BeginCache \/ EndCache \/ Download \/ Check \/ Copy
  PROVE  TreeInv'
<1>1. CASE CacheHit
  <2>1. Running /\ Now.op = "cache" /\ half' = "none" /\ StepDone
    BY <1>1 DEF CacheHit, At
  <2>2. Now'.op = "check"
    BY <1>1, <2>1, Advances DEF CacheHit, ArchiveOps
  <2>3. ArchiveInv'
    BY <1>1 DEF CacheHit, disk, TreeInv, ArchiveInv, At
  <2> QED
    BY <1>1, <2>1, <2>2, <2>3, ArchiveAdvances DEF CacheHit, disk, memory, ArchiveOps
<1>2. CASE BeginCache
  <2>1. Running /\ Now.op = "cache" /\ script \in Hashed /\ Now' = Now
    BY <1>2, OfScript, SameScript DEF BeginCache, At, Now
  <2>2. ArchiveInv'
    BY <1>2, <2>1 DEF BeginCache, TreeInv, ArchiveInv, At
  <2> QED
    BY <1>2, <2>1, <2>2, ArchiveStays DEF BeginCache
<1>3. CASE EndCache
  <2>1. Running /\ Now.op = "cache" /\ script \in Hashed
    BY <1>3, OfScript DEF EndCache, At
  <2>2. payload \in Served
    BY <1>3 DEF EndCache, TreeInv, HalfInv
  <2>3. ArchiveInv'
    BY <1>3, <2>1, <2>2, ServedTypes DEF EndCache, TreeInv, ArchiveInv, At
  <2>4. Now'.op = "check"
    BY <1>3, <2>1, Advances DEF EndCache, ArchiveOps
  <2> QED
    BY <1>3, <2>1, <2>3, <2>4, ArchiveAdvances DEF EndCache, memory, ArchiveOps
<1>4. CASE Download
  <2>1. Running /\ Now.op = "download" /\ script = "google" /\ half = "none"
    BY <1>4, OfScript DEF Download, At, TreeInv, HalfInv, PatchOps
  <2>2. Now'.op = "extract"
    BY <1>4, <2>1, Advances DEF Download, ArchiveOps
  <2>3. ArchiveInv'
    BY <1>4, <2>2 DEF Download, disk, TreeInv, ArchiveInv, At
  <2>4. payload' = Pinned
    BY <1>4, <2>1, ServedTypes DEF Download
  <2> QED
    BY <1>4, <2>1, <2>3, <2>4, ArchiveAdvances DEF Download, disk, ArchiveOps
<1>5. CASE Check
  <2>1. Running /\ Now.op = "check" /\ script \in Hashed /\ half = "none" /\ archive # Absent
    BY <1>5, OfScript DEF Check, At, TreeInv, HalfInv, ArchiveInv, PatchOps
  <2>2. CASE HashMatches
    <3>1. StepDone
      BY <1>5, <2>2 DEF Check
    <3>2. Now'.op = "extract"
      BY <1>5, <2>1, <3>1, Advances DEF Check, ArchiveOps
    <3>3. ArchiveInv'
      BY <1>5, <3>2 DEF Check, disk, TreeInv, ArchiveInv, At
    <3> QED
      BY <1>5, <2>1, <2>2, <3>1, <3>3, ArchiveAdvances
         DEF Check, HashMatches, ToWrite, disk, ArchiveOps
  <2>3. CASE ~HashMatches
    BY <1>5, <2>1, <2>3, ArchiveFails DEF Check, HashMatches, disk, bounds, ArchiveOps
  <2> QED
    BY <2>2, <2>3
<1>6. CASE Copy
  <2>1. Running /\ Now.op = "copy" /\ half = "none"
    BY <1>6 DEF Copy, At, TreeInv, HalfInv, PatchOps
  <2>2. Now'.op = "extract"
    BY <1>6, <2>1, Advances DEF Copy, ArchiveOps
  <2>3. ArchiveInv'
    BY <1>6, <2>2 DEF Copy, disk, TreeInv, ArchiveInv, At
  <2> QED
    BY <1>6, <2>1, <2>3, ArchiveAdvances DEF Copy, ToWrite, disk, ArchiveOps
<1> QED
  BY <1>1, <1>2, <1>3, <1>4, <1>5, <1>6

-----------------------------------------------------------------------------
(* The tree. *)

LEMMA NoneIsNoFile ==
  ASSUME script \in Scripts PROVE "none" \notin Files(script)
BY TreeAssumption DEF Files

LEMMA ExtractSteps ==
  ASSUME TreeInv, (\E f \in Files(script) : BeginFile(f)) \/ EndFile
  PROVE  TreeInv'
<1>1. /\ At("extract") /\ script \in Scripts /\ script' = script /\ step' = step
      /\ status' = status /\ archive' = archive /\ payload' = payload /\ place' = place
  BY DEF BeginFile, EndFile, TreeInv, TreeTypes, memory
<1>2. Now' = Now /\ Steps' = Steps /\ Files(script)' = Files(script)
  BY <1>1, SameScript DEF Now, Files
<1>3. /\ payload = Pinned /\ left \subseteq Files(script)
      /\ half # "none" => half \in left
      /\ \A f \in Files(script) \ left : tree[f] = Pinned
      /\ tree = [f \in Files(script) |-> tree[f]]
  BY <1>1 DEF TreeInv, ExtractInv, TreeTypes
<1>4. At("extract")' /\ ~Patching' /\ ~At("cache")' /\ ~Patching /\ Running'
  BY <1>1, <1>2 DEF At, Patching, Running
<1>5. ArchiveInv'
  BY <1>1, <1>2 DEF TreeInv, ArchiveInv, At, Running
<1>6. HalfInv'
  BY <1>4 DEF HalfInv, At
<1>7. PatchInv'
  BY <1>1, <1>4 DEF TreeInv, PatchInv, At
<1>8. FinishedTreeIsWhole' /\ OnlyInputsFail'
  BY <1>4 DEF FinishedTreeIsWhole, OnlyInputsFail, Running
<1>9. TreeTypes'
  BY <1>1, <1>2, <1>3 DEF TreeInv, TreeTypes, BeginFile, EndFile
<1>10. ExtractInv'
  <2>1. CASE \E f \in Files(script) : BeginFile(f)
    <3>1. PICK g \in Files(script) : BeginFile(g)
      BY <2>1
    <3>2. /\ tree' = [tree EXCEPT ![g] = Partial] /\ half' = g /\ g \in left /\ left' = left
      BY <3>1 DEF BeginFile, memory
    <3>3. \A f \in Files(script) \ left : f # g
      BY <3>2
    <3>4. \A f \in Files(script) \ left : tree'[f] = Pinned
      BY <1>3, <3>2, <3>3
    <3> QED
      BY <1>1, <1>2, <1>3, <3>2, <3>4 DEF ExtractInv
  <2>2. CASE EndFile
    <3>1. /\ tree' = [tree EXCEPT ![half] = payload] /\ half' = "none" /\ half \in left
          /\ left' = left \ {half}
      BY <1>3, <2>2 DEF EndFile
    <3>2. \A f \in Files(script) \ left' : f = half \/ f \in Files(script) \ left
      BY <3>1
    <3>3. \A f \in Files(script) \ left' : tree'[f] = Pinned
      BY <1>3, <3>1, <3>2
    <3>4. left' \subseteq Files(script)
      BY <1>3, <3>1
    <3> QED
      BY <1>1, <1>2, <1>3, <3>1, <3>3, <3>4 DEF ExtractInv
  <2> QED
    BY <2>1, <2>2
<1> QED
  BY <1>5, <1>6, <1>7, <1>8, <1>9, <1>10 DEF TreeInv

(* A step that ends with each file having the patches of the steps up to   *)
(* it leads to the next one that patches, or to the end of the script.     *)
LEMMA TreeAdvances ==
  ASSUME TreeInv, Running, Now.op \in {"extract"} \cup PatchOps, StepDone,
         UNCHANGED <<script, archive>>, half' = "none", place' = 0,
         tree' = [f \in Files(script) |-> tree'[f]],
         \A f \in Files(script) : tree'[f] = First(f, AppliedBy(f, step + 1))
  PROVE  TreeInv'
<1>1. /\ Shape /\ PatchShape /\ step \in 1 .. Len(Steps) /\ Steps' = Steps
      /\ Files(script)' = Files(script) /\ script \in Scripts
  BY ScriptShape, SameScript DEF TreeInv, TreeTypes, Files
<1>2. CASE step = Len(Steps)
  <2>1. status' = "done" /\ step' = step
    BY <1>2 DEF StepDone
  <2>2. \A f \in Files(script) : tree'[f] = Patches(f)
    BY <1>1, <1>2, AddsAll
  <2>3. FinishedTreeIsWhole'
    BY <1>1, <2>2, SameScript DEF FinishedTreeIsWhole
  <2>4. TreeTypes'
    BY <1>1, <2>1 DEF TreeTypes
  <2> QED
    BY <2>1, <2>3, <2>4 DEF TreeInv, ArchiveInv, HalfInv, ExtractInv, PatchInv, Running, At,
         Patching, OnlyInputsFail
<1>3. CASE step # Len(Steps)
  <2>1. status' = "running" /\ step' = step + 1 /\ step + 1 \in 1 .. Len(Steps)
    BY <1>1, <1>3 DEF StepDone, Running, Shape
  <2>2. Now'.op \in PatchOps
    <3>1. Follows(Steps[step].op, Steps[step + 1].op)
      BY <1>1, <1>3 DEF Shape
    <3> QED
      BY <1>1, <2>1, <3>1 DEF Follows, Now
  <2>3. ~At("extract")' /\ ~At("check")' /\ ~At("cache")'
    BY <2>2 DEF At, PatchOps
  <2>4. TreeTypes'
    BY <1>1, <2>1 DEF TreeTypes
  <2>5. Len(Steps[step + 1].patches) \in Nat
    BY <1>1, <2>1, <2>2, Adds DEF Now
  <2>6. PatchInv'
    <3>1. 0 \in 0 .. Len(Now'.patches) + 1
      BY <1>1, <2>1, <2>5 DEF Now
    <3>2. ASSUME NEW f \in Files(script), NEW u, u = step'
          PROVE  tree'[f] = SubSeq(Patches(f)', 1, AppliedBy(f, u)')
      <4>1. tree'[f] = SubSeq(Patches(f), 1, AppliedBy(f, u))
        BY <2>1, <3>2 DEF First
      <4>2. Patches(f)' = Patches(f) /\ AppliedBy(f, u)' = AppliedBy(f, u)
        BY SameScript
      <4> QED
        BY <4>1, <4>2
    <3>4. Running' /\ ~Patching' => place' = 0
      OBVIOUS
    <3> QED
      BY <1>1, <3>1, <3>2, <3>4 DEF PatchInv
  <2> QED
    BY <2>1, <2>3, <2>4, <2>6 DEF TreeInv, ArchiveInv, HalfInv, ExtractInv,
         FinishedTreeIsWhole, OnlyInputsFail
<1> QED
  BY <1>2, <1>3

LEMMA ExtractedStep ==
  ASSUME TreeInv, Extracted
  PROVE  TreeInv'
<1>1. /\ Running /\ Now.op = "extract" /\ left = {} /\ StepDone
      /\ UNCHANGED <<script, half, archive, tree, place>>
  BY DEF Extracted, At, disk, memory
<1>2. half = "none" /\ \A f \in Files(script) : tree[f] = Pinned
  BY <1>1 DEF TreeInv, ExtractInv, At
<1>3. place = 0
  BY <1>1 DEF TreeInv, PatchInv, Patching, At
<1>4. Shape /\ step \in 1 .. Len(Steps)
  BY ScriptShape DEF TreeInv, TreeTypes
<1>5. \A f \in Files(script) : tree[f] = First(f, AppliedBy(f, step + 1))
  <2> SUFFICES ASSUME NEW f \in Files(script) PROVE tree[f] = First(f, AppliedBy(f, step + 1))
    OBVIOUS
  <2>1. AppliedBy(f, step + 1) = 0
    BY <1>1, <1>4, AddsNothing DEF Now
  <2> QED
    BY <1>2, <2>1, FirstNone DEF Pinned
<1>6. tree = [f \in Files(script) |-> tree[f]]
  BY DEF TreeInv, TreeTypes
<1> QED
  BY <1>1, <1>2, <1>3, <1>5, <1>6, TreeAdvances

(* What holds of a step that patches. *)
LEMMA AtPatch ==
  ASSUME TreeInv, Patching, NEW f, f = Now.file
  PROVE  /\ Shape /\ PatchShape /\ step \in 1 .. Len(Steps)
         /\ Running /\ Now.op \in PatchOps /\ f \in Files(script) /\ f # "none"
         /\ Now.op = "tree" => AppliedBy(f, step) = Offset(step)
         /\ Offset(step) \in Nat /\ Len(Now.patches) \in Nat
         /\ Offset(step) + Len(Now.patches) = AppliedBy(f, step + 1)
         /\ AppliedBy(f, step + 1) <= Len(Patches(f))
         /\ \A i \in 1 .. Len(Now.patches) : Now.patches[i] = Patches(f)[Offset(step) + i]
         /\ Now.op = "source" => Offset(step) = 0
<1>1. Shape /\ PatchShape /\ step \in 1 .. Len(Steps) /\ script \in Scripts
  BY ScriptShape DEF TreeInv, TreeTypes
<1>2. Running /\ Now.op \in PatchOps
  BY DEF Patching, At, PatchOps
<1>3. f \in Files(script)
  BY <1>1, <1>2 DEF PatchShape, Now
<1>4. f # "none"
  BY <1>1, <1>3, NoneIsNoFile
<1>5. Now.op = "source" => Offset(step) = 0
  BY DEF Offset, Now
<1> QED
  BY <1>1, <1>2, <1>3, <1>4, <1>5, Adds DEF Now

(* A step within the patching of a file. *)
LEMMA PatchStays ==
  ASSUME TreeInv, Patching, UNCHANGED <<script, step, status, archive>>,
         tree' = [f \in Files(script) |-> tree'[f]],
         half' # "none" => half' = Now.file /\ place' = Len(Now.patches) + 1,
         place' \in 0 .. Len(Now.patches) + 1,
         \A f \in Files(script) : f = Now.file /\ place' > 0 =>
           text' = SubSeq(Patches(f), 1, Offset(step) + place' - 1),
         \A f \in Files(script) : f # half' => tree'[f] = tree[f] /\ f # half
  PROVE  TreeInv'
<1>1. /\ Now' = Now /\ Steps' = Steps /\ Files(script)' = Files(script)
      /\ Running /\ Running' /\ Patching'
  BY SameScript DEF Now, Files, Patching, At, Running
<1>2. ~At("extract")' /\ ~At("cache")'
  BY <1>1 DEF Patching, At
<1>3. TreeTypes'
  BY <1>1 DEF TreeInv, TreeTypes
<1>4. ArchiveInv'
  BY <1>1 DEF TreeInv, ArchiveInv, At
<1>5. HalfInv'
  <2>1. Now'.op \in {"cache", "extract"} \cup PatchOps
    BY <1>1 DEF Patching, At, PatchOps
  <2> QED
    BY <1>1, <1>2, <2>1 DEF HalfInv
<1>6. PatchInv'
  <2>1. ASSUME NEW f \in Files(script), f = Now.file, place' > 0, NEW u, u = step
        PROVE  text' = SubSeq(Patches(f)', 1, Offset(u)' + place' - 1)
    <3>1. Patches(f)' = Patches(f) /\ Offset(u)' = Offset(u)
      BY SameScript
    <3>2. text' = SubSeq(Patches(f), 1, Offset(step) + place' - 1)
      BY <2>1
    <3> QED
      BY <2>1, <3>1, <3>2
  <2>2. ASSUME NEW f \in Files(script), f # half', NEW u, u = step
        PROVE  tree'[f] = SubSeq(Patches(f)', 1, AppliedBy(f, u)')
    <3>1. Patches(f)' = Patches(f) /\ AppliedBy(f, u)' = AppliedBy(f, u)
      BY SameScript
    <3>2. tree[f] = SubSeq(Patches(f), 1, AppliedBy(f, u))
      BY <2>2 DEF TreeInv, PatchInv
    <3> QED
      BY <2>2, <3>1, <3>2
  <2> QED
    BY <1>1, <2>1, <2>2 DEF PatchInv
<1>7. FinishedTreeIsWhole' /\ OnlyInputsFail'
  BY <1>1 DEF FinishedTreeIsWhole, OnlyInputsFail, Running
<1> QED
  BY <1>2, <1>3, <1>4, <1>5, <1>6, <1>7 DEF TreeInv, ExtractInv

LEMMA ReadTextStep ==
  ASSUME TreeInv, ReadText
  PROVE  TreeInv'
<1> DEFINE f == Now.file
<1>1. /\ Patching /\ place = 0 /\ place' = 1
      /\ UNCHANGED <<script, step, status, archive, tree, half>>
      /\ text' = (IF Now.op = "source" THEN Pinned ELSE tree[f])
  BY DEF ReadText, disk
<1>2. /\ Now.op \in PatchOps /\ f \in Files(script)
      /\ Now.op = "tree" => AppliedBy(f, step) = Offset(step)
      /\ Offset(step) \in Nat /\ Len(Now.patches) \in Nat
      /\ Now.op = "source" => Offset(step) = 0
  BY <1>1, AtPatch
<1>3. half = "none"
  BY <1>1, <1>2 DEF TreeInv, HalfInv
<1>4. f # half
  BY <1>1, <1>3, AtPatch
<1> HIDE DEF f
<1>5. text' = First(f, Offset(step))
  <2>1. CASE Now.op = "source"
    BY <1>1, <1>2, <2>1, FirstNone DEF Pinned
  <2>2. CASE Now.op = "tree"
    <3>1. tree[f] = SubSeq(Patches(f), 1, AppliedBy(f, step))
      BY <1>1, <1>2, <1>4 DEF TreeInv, PatchInv
    <3>2. Now.op # "source"
      BY <2>2
    <3> QED
      BY <1>1, <1>2, <2>2, <3>1, <3>2 DEF First
  <2> QED
    BY <1>2, <2>1, <2>2 DEF PatchOps
<1>6. Offset(step) + 1 - 1 = Offset(step)
  BY <1>2
<1>7. \A g \in Files(script) : g = Now.file /\ place' > 0 =>
        text' = SubSeq(Patches(g), 1, Offset(step) + place' - 1)
  BY <1>1, <1>5, <1>6 DEF First, f
<1>8. \A g \in Files(script) : g # half' => tree'[g] = tree[g] /\ g # half
  BY <1>1
<1>9. place' \in 0 .. Len(Now.patches) + 1
  BY <1>1, <1>2
<1>10. tree' = [g \in Files(script) |-> tree'[g]]
  BY <1>1 DEF TreeInv, TreeTypes
<1> QED
  BY <1>1, <1>3, <1>7, <1>8, <1>9, <1>10, PatchStays

(* What the generator finds of a place: it is there as it should, unless   *)
(* upstream has drifted just there.                                        *)
LEMMA PlaceIsThere ==
  ASSUME TreeInv, Patching, place \in 1 .. Len(Now.patches),
         ~OccursOnce(Now.patches[place], text)
  PROVE  drift # "none"
<1> DEFINE f == Now.file
<1> DEFINE p == Patches(f)
<1> DEFINE n == Offset(step) + place
<1>1. /\ Offset(step) \in Nat /\ Len(Now.patches) \in Nat /\ f \in Files(script)
      /\ Offset(step) + Len(Now.patches) <= Len(p)
      /\ \A i \in 1 .. Len(Now.patches) : Now.patches[i] = p[Offset(step) + i]
      /\ script \in Scripts
  BY AtPatch DEF TreeInv, TreeTypes
<1>2. Distinct(p) /\ LiteFirst(p)
  BY <1>1, Orderly
<1>3. text = SubSeq(p, 1, Offset(step) + place - 1)
  BY <1>1 DEF TreeInv, PatchInv
<1>4. Len(p) \in Nat
  BY PatchTypes, LenProperties
<1>5. /\ n \in 1 .. Len(p) /\ n - 1 \in Nat /\ n - 1 <= Len(p)
      /\ Now.patches[place] = p[n] /\ n - 1 = Offset(step) + place - 1
  BY <1>1, <1>4
<1>6. \A x : x \in Range(text) <=> \E k \in 1 .. n - 1 : p[k] = x
  <2>1. text = First(f, n - 1)
    BY <1>3, <1>5 DEF First
  <2>2. ASSUME NEW x PROVE x \in Range(First(f, n - 1)) <=> \E k \in 1 .. n - 1 : p[k] = x
    BY <1>5, FirstHas
  <2> QED
    BY <2>1, <2>2
<1> HIDE DEF p, n, f
<1>7. \A k \in 1 .. n - 1 : k \in 1 .. Len(p) /\ k # n
  BY <1>4, <1>5
<1>8. p[n] \notin Range(text)
  BY <1>2, <1>5, <1>6, <1>7 DEF Distinct
<1>9. p[n] = "custom_bits" => "bits" \in Range(text)
  BY <1>2, <1>5, <1>6 DEF LiteFirst
<1>10. p[n] # "none"
  BY <1>2, <1>5 DEF LiteFirst
<1> QED
  BY <1>5, <1>8, <1>9, <1>10 DEF OccursOnce

LEMMA ReplaceStep ==
  ASSUME TreeInv, Replace
  PROVE  TreeInv'
<1> DEFINE f == Now.file
<1> DEFINE p == Now.patches[place]
<1>1. /\ Patching /\ place \in DOMAIN Now.patches
      /\ UNCHANGED <<script, step, archive, tree, half, drift>>
  BY DEF Replace, disk, bounds
<1>2. /\ Offset(step) \in Nat /\ Len(Now.patches) \in Nat /\ f \in Files(script)
      /\ Offset(step) + Len(Now.patches) <= Len(Patches(f))
      /\ \A i \in 1 .. Len(Now.patches) : Now.patches[i] = Patches(f)[Offset(step) + i]
      /\ Shape /\ PatchShape /\ step \in 1 .. Len(Steps) /\ Now.op \in PatchOps
  BY <1>1, AtPatch
<1>3. Now.patches \in Seq(PatchNames)
  BY <1>2, PatchTypes DEF PatchShape, PatchOps, Now
<1>4. place \in 1 .. Len(Now.patches)
  BY <1>1, <1>3
<1>5. CASE OccursOnce(p, text)
  <2>1. text' = Append(text, p) /\ place' = place + 1 /\ status' = status
    BY <1>5 DEF Replace, Checked
  <2>2. half = "none"
    <3>1. place # Len(Now.patches) + 1
      BY <1>2, <1>4
    <3> QED
      BY <1>1, <3>1 DEF TreeInv, HalfInv
  <2>3. text = First(f, Offset(step) + place - 1)
    BY <1>1, <1>2, <1>4 DEF TreeInv, PatchInv, First
  <2> DEFINE n == Offset(step) + place - 1
  <2>4. /\ n \in Nat /\ n < Len(Patches(f)) /\ n + 1 = Offset(step) + place
        /\ Offset(step) + (place + 1) - 1 = n + 1
    <3>1. Len(Patches(f)) \in Nat
      BY PatchTypes, LenProperties
    <3> QED
      BY <1>2, <1>4, <3>1
  <2>5. First(f, n + 1) = Append(First(f, n), Patches(f)[n + 1])
    BY <2>4, FirstNext
  <2>6. p = Patches(f)[n + 1]
    BY <1>2, <1>4, <2>4
  <2>7. text' = First(f, n + 1)
    BY <2>1, <2>3, <2>5, <2>6
  <2>8. \A g \in Files(script) : g = Now.file /\ place' > 0 =>
          text' = SubSeq(Patches(g), 1, Offset(step) + place' - 1)
    BY <2>1, <2>4, <2>7 DEF First
  <2>9. place' \in 0 .. Len(Now.patches) + 1
    BY <1>2, <1>4, <2>1
  <2>10. tree' = [g \in Files(script) |-> tree'[g]]
    BY <1>1 DEF TreeInv, TreeTypes
  <2>11. \A g \in Files(script) : g # half' => tree'[g] = tree[g] /\ g # half
    BY <1>1
  <2> QED
    BY <1>1, <2>1, <2>2, <2>8, <2>9, <2>10, <2>11, PatchStays
<1>6. CASE ~OccursOnce(p, text)
  <2>1. status' = "failed"
    BY <1>6 DEF Replace, Checked
  <2>2. drift # "none"
    BY <1>1, <1>4, <1>6, PlaceIsThere
  <2>3. TreeTypes'
    BY <1>1, <2>1, SameScript DEF TreeInv, TreeTypes, Files
  <2>4. ArchiveInv'
    BY <1>1, <2>1 DEF TreeInv, ArchiveInv, At, Running
  <2>5. OnlyInputsFail'
    BY <1>1, <2>2 DEF OnlyInputsFail
  <2> QED
    BY <2>1, <2>3, <2>4, <2>5 DEF TreeInv, HalfInv, ExtractInv, PatchInv, Running, At,
         Patching, FinishedTreeIsWhole
<1> QED
  BY <1>5, <1>6

LEMMA BeginWriteStep ==
  ASSUME TreeInv, BeginWrite
  PROVE  TreeInv'
<1>1. /\ Patching /\ place > Len(Now.patches) /\ half = "none" /\ half' = Now.file
      /\ UNCHANGED <<script, step, status, archive, place, text>>
      /\ tree' = [tree EXCEPT ![Now.file] = Partial]
  BY DEF BeginWrite, memory
<1>2. /\ Len(Now.patches) \in Nat /\ Now.file \in Files(script) /\ Offset(step) \in Nat
      /\ script \in Scripts
  BY <1>1, AtPatch DEF TreeInv, TreeTypes
<1>3. place \in 0 .. Len(Now.patches) + 1 /\ place = Len(Now.patches) + 1
  BY <1>1, <1>2 DEF TreeInv, PatchInv
<1>4. tree = [g \in Files(script) |-> tree[g]]
  BY DEF TreeInv, TreeTypes
<1>5. tree' = [g \in Files(script) |-> tree'[g]]
  BY <1>1, <1>4
<1>6. \A g \in Files(script) : g # half' => tree'[g] = tree[g] /\ g # half
  BY <1>1, <1>2, <1>4, NoneIsNoFile
<1>7. \A g \in Files(script) : g = Now.file /\ place' > 0 =>
        text' = SubSeq(Patches(g), 1, Offset(step) + place' - 1)
  BY <1>1 DEF TreeInv, PatchInv
<1> QED
  BY <1>1, <1>3, <1>5, <1>6, <1>7, PatchStays

LEMMA EndWriteStep ==
  ASSUME TreeInv, EndWrite
  PROVE  TreeInv'
<1> DEFINE f == Now.file
<1>1. /\ Patching /\ half # "none" /\ half' = "none" /\ place' = 0 /\ StepDone
      /\ UNCHANGED <<script, archive>>
      /\ tree' = [tree EXCEPT ![half] = text]
  BY DEF EndWrite
<1>2. half = f /\ place = Len(Now.patches) + 1
  BY <1>1 DEF TreeInv, HalfInv
<1>3. /\ Shape /\ PatchShape /\ step \in 1 .. Len(Steps)
      /\ Running /\ Now.op \in PatchOps /\ f \in Files(script)
      /\ Offset(step) \in Nat /\ Len(Now.patches) \in Nat
      /\ Offset(step) + Len(Now.patches) = AppliedBy(f, step + 1)
  BY <1>1, AtPatch
<1>4. text = First(f, AppliedBy(f, step + 1))
  <2>1. place > 0 /\ Offset(step) + place - 1 = AppliedBy(f, step + 1)
    BY <1>2, <1>3
  <2>2. text = SubSeq(Patches(f), 1, Offset(step) + place - 1)
    BY <1>1, <1>3, <2>1 DEF TreeInv, PatchInv
  <2> QED
    BY <2>1, <2>2 DEF First
<1>5. tree = [g \in Files(script) |-> tree[g]]
  BY DEF TreeInv, TreeTypes
<1>6. tree' = [g \in Files(script) |-> tree'[g]] /\ tree'[f] = text
  BY <1>1, <1>2, <1>3, <1>5
<1>7. ASSUME NEW g \in Files(script) PROVE tree'[g] = First(g, AppliedBy(g, step + 1))
  <2>1. CASE g = f
    BY <1>4, <1>6, <2>1
  <2>2. CASE g # f
    <3>1. tree'[g] = tree[g]
      BY <1>1, <1>2, <1>5, <2>2
    <3>2. tree[g] = First(g, AppliedBy(g, step))
      BY <1>1, <1>2, <2>2 DEF TreeInv, PatchInv, First
    <3>3. AppliedBy(g, step + 1) = AppliedBy(g, step)
      BY <1>3, <2>2, AddsNoOther DEF Now
    <3> QED
      BY <3>1, <3>2, <3>3
  <2> QED
    BY <2>1, <2>2
<1> HIDE DEF f
<1> QED
  BY <1>1, <1>3, <1>6, <1>7, TreeAdvances

LEMMA TreeStep == TreeInv /\ [TreeNext]_treeVars => TreeInv'
<1> SUFFICES ASSUME TreeInv, [TreeNext]_treeVars PROVE TreeInv'
  OBVIOUS
<1>1. CASE Start
  BY <1>1, TreeStarts
<1>2. CASE Kill \/ Offline \/ \E p \in AllPatches \cup {"none"} : Drift(p)
  BY <1>2, TreeStops DEF Kill, Offline, Drift, disk
<1>3. CASE CacheHit \/ BeginCache \/ EndCache \/ Download \/ Check \/ Copy
  BY <1>3, ArchiveSteps
<1>4. CASE (\E f \in Files(script) : BeginFile(f)) \/ EndFile
  BY <1>4, ExtractSteps
<1>5. CASE Extracted
  BY <1>5, ExtractedStep
<1>6. CASE ReadText
  BY <1>6, ReadTextStep
<1>7. CASE Replace
  BY <1>7, ReplaceStep
<1>8. CASE BeginWrite
  BY <1>8, BeginWriteStep
<1>9. CASE EndWrite
  BY <1>9, EndWriteStep
<1>10. CASE UNCHANGED treeVars
  <2>1. UNCHANGED <<script, status, step, half, place, text, payload, left, archive, tree, drift>>
    BY <1>10 DEF treeVars, disk, memory, bounds
  <2>2. Now' = Now /\ Steps' = Steps /\ Served' = Served /\ Files(script)' = Files(script)
    BY <2>1, SameScript DEF Now, Files
  <2>3. TreeTypes' /\ ArchiveInv' /\ HalfInv' /\ ExtractInv'
    BY <2>1, <2>2 DEF TreeInv, TreeTypes, ArchiveInv, HalfInv, ExtractInv, At, Running, Patching
  <2>4. FinishedTreeIsWhole' /\ OnlyInputsFail'
    BY <2>1, <2>2, SameScript DEF TreeInv, FinishedTreeIsWhole, OnlyInputsFail
  <2>5. CASE Patching
    BY <2>1, <2>5, PatchStays DEF TreeInv, TreeTypes, HalfInv, PatchInv
  <2>6. CASE ~Patching
    <3>1. PatchInv'
      BY <2>1, <2>2, <2>6 DEF TreeInv, PatchInv, At, Running, Patching
    <3> QED
      BY <2>3, <2>4, <3>1 DEF TreeInv
  <2> QED
    BY <2>5, <2>6
<1> QED
  BY <1>1, <1>2, <1>3, <1>4, <1>5, <1>6, <1>7, <1>8, <1>9, <1>10 DEF TreeNext

THEOREM TreeInvariant == TreeSpec => []TreeInv
<1> QED
  BY TreeInitially, TreeStep, PTL DEF TreeSpec

(* A tree whose script has come to its end is whole, whatever was killed,  *)
(* served for an archive with a hash or drifted before (fetch-codecs.py,   *)
(* -opus.py, -sbc.py, -wavpack-stream.py, prepare-lc3-custom.py,           *)
(* prepare-lc3-lite.py).                                                   *)
THEOREM FinishedTrees == TreeSpec => []FinishedTreeIsWhole
<1>1. TreeInv => FinishedTreeIsWhole
  BY DEF TreeInv
<1> QED
  BY <1>1, TreeInvariant, PTL

(* A script fails only for its inputs, never for what an earlier run left  *)
(* (fetch-codecs.py:17-21,39, prepare-lc3-custom.py:13-19).                *)
THEOREM InputsFail == TreeSpec => []OnlyInputsFail
<1>1. TreeInv => OnlyInputsFail
  BY DEF TreeInv
<1> QED
  BY <1>1, TreeInvariant, PTL
=============================================================================
