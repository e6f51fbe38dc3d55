----------------------------- MODULE ShapeTables ----------------------------
(***************************************************************************)
(* The spectral shape of the CUSTOM codec.  tools/prepare-lc3-custom.py    *)
(* collapses upstream's interpolation of 16 scale factors to 64 positions  *)
(* and the merging of these to 44 bands into one table of two weights for  *)
(* each band, and the gains into one table of powers of two;               *)
(* custom_sns.inc gathers the 16 energies and shapes the 44 bands with the *)
(* tables.                                                                 *)
(*                                                                         *)
(* Weights are sixteenths, gains are their index into the gain table.  A   *)
(* band reads two of the sixteen codes, whose values are any.              *)
(***************************************************************************)
EXTENDS Integers

Coarse == 0 .. 15
Positions == 0 .. 63
Bands == 0 .. 43
Codes == 0 .. 15

VARIABLES
  pc,      \* what runs: "generate", "refused" by an assertion of the
           \* generator, "gather" or "apply"
  rows,    \* custom_band_weights
  made,    \* rows of it generated
  group,   \* the bands of the last coarse energy, in the order of adding
  energies, \* coarse energies gathered
  band,    \* the next band to shape
  read,    \* the two codes the last band read
  inv,     \* the decoder shapes: gains are multiplied, not divided by
  index    \* where the last band read custom_shape_gain

shapeVars == <<pc, rows, made, group, energies, band, read, inv, index>>

-----------------------------------------------------------------------------
(* The generator. *)

(* The gains are generated in lines of eight for exponents First to Last.  *)
FirstExponent == -224
LastExponent == 224
TableLength == LastExponent - FirstExponent + 1

\* Mutant: the first four positions belong to the first factor, as if the
\* factors were interpolated from the ends of their groups.
EarlyKeyMutant(p) == IF p >= 62 THEN 14 ELSE p \div 4
(* The two factors that position p mixes are Key(p) and the one after it.  *)
Key(p) == IF p < 2 THEN 0 ELSE IF p >= 62 THEN 14 ELSE (p - 2) \div 4

(* weights: the second one, where the first is what lacks to sixteen. *)
SecondWeight(p) ==
  IF p < 2 THEN 0
  ELSE IF p = 62 THEN 18
  ELSE IF p = 63 THEN 22
  ELSE 2 + 4 * ((p - 2) % 4)

(* The first 20 bands merge two positions, the others have their own. *)
MergedWeight(b) ==
  IF b < 20 THEN (SecondWeight(2 * b) + SecondWeight(2 * b + 1)) \div 2
            ELSE SecondWeight(b + 20)

MergedKey(b) == IF b < 20 THEN Key(2 * b) ELSE Key(b + 20)

(* The merged weights are whole and are those of two factors. *)
Collapses(b) ==
  b < 20 => /\ Key(2 * b) = Key(2 * b + 1)
            /\ (SecondWeight(2 * b) + SecondWeight(2 * b + 1)) % 2 = 0

Row(b) == <<MergedKey(b), MergedKey(b) + 1, 16 - MergedWeight(b), MergedWeight(b)>>

ShapeInit ==
  /\ pc = "generate" /\ rows = [b \in Bands |-> <<0, 0, 0, 0>>] /\ made = 0
  /\ group = <<>> /\ energies = 0
  /\ band = 0 /\ read = <<0, 0>> /\ inv = FALSE /\ index = 224

GenerateRow ==
  /\ pc = "generate" /\ made < 44
  /\ IF Collapses(made)
       THEN rows' = [rows EXCEPT ![made] = Row(made)] /\ made' = made + 1 /\ UNCHANGED pc
       ELSE pc' = "refused" /\ UNCHANGED <<rows, made>>
  /\ UNCHANGED <<group, energies, band, read, inv, index>>

Generated ==
  /\ pc = "generate" /\ made = 44 /\ pc' = "gather"
  /\ UNCHANGED <<rows, made, group, energies, band, read, inv, index>>

-----------------------------------------------------------------------------
(* The codec. *)

\* Mutant: the first position is taken for the first band.
FirstBandMutant(i) == IF i < 10 THEN 2 * i ELSE 4 * i
(* Bands 0 to 19 count twice in an energy, the others once. *)
FirstBand(i) == IF i < 10 THEN 2 * i ELSE 20 + 4 * (i - 10)
Gathered(i) ==
  LET j == FirstBand(i) IN
  IF i < 10 THEN <<j, j, j + 1, j + 1>> ELSE <<j, j + 1, j + 2, j + 3>>

Gather ==
  /\ pc = "gather" /\ energies < 16
  /\ group' = Gathered(energies) /\ energies' = energies + 1
  /\ UNCHANGED <<pc, rows, made, band, read, inv, index>>

(* The shape is applied by the encoder and by the decoder. *)
StartShape ==
  /\ pc = "gather" /\ energies = 16
  /\ pc' = "apply" /\ band' = 0 /\ inv' \in BOOLEAN
  /\ UNCHANGED <<rows, made, group, energies, read, index>>

\* Mutant: the codes are not centred.
UncentredMutant(row, c, d) == row[3] * c + row[4] * d
Grid(row, c, d) == row[3] * (c - 8) + row[4] * (d - 8)

ShapeBand(c, d) ==
  /\ pc = "apply" /\ band < 44
  /\ LET grid == Grid(rows[band], c, d) IN
       index' = (IF inv THEN grid ELSE -grid) + 224
  /\ read' = <<c, d>> /\ band' = band + 1
  /\ UNCHANGED <<pc, rows, made, group, energies, inv>>

(* The next frame. *)
NextFrame ==
  /\ pc = "apply" /\ band = 44
  /\ pc' = "gather" /\ energies' = 0
  /\ UNCHANGED <<rows, made, group, band, read, inv, index>>

ShapeNext ==
  \/ GenerateRow \/ Generated \/ Gather \/ StartShape \/ NextFrame
  \/ \E c, d \in Codes : ShapeBand(c, d)

ShapeSpec == ShapeInit /\ [][ShapeNext]_shapeVars

-----------------------------------------------------------------------------
(* Upstream: the value at position p lies on the line through the factors  *)
(* of its segment, where factor k stands in the middle of positions 4k to  *)
(* 4k + 3; the first two positions have the first factor, the last two     *)
(* continue the last segment.  Sixteenths, for the factors x.              *)
Segment(p) == IF p < 6 THEN 0 ELSE IF p > 57 THEN 14 ELSE (p - 2) \div 4
Interpolated(x, p) ==
  IF p < 2 THEN 16 * x[0]
  ELSE LET k == Segment(p) IN
       16 * x[k] + (x[k + 1] - x[k]) * (4 * p - 16 * k - 6)

(* Twice the value of band b, to stay with whole numbers. *)
Upstream(x, b) ==
  IF b < 20 THEN Interpolated(x, 2 * b) + Interpolated(x, 2 * b + 1)
            ELSE 2 * Interpolated(x, b + 20)

Applied(row, x) == row[3] * x[row[1]] + row[4] * x[row[2]]

Unit(k) == [c \in Coarse |-> IF c = k THEN 1 ELSE 0]

(* The generated row of a band is upstream's interpolation and merging: the*)
(* same factor for each of the sixteen inputs alone, and so for any (both  *)
(* are linear); no row is refused.                                         *)
CollapseExact ==
  /\ pc # "refused"
  /\ \A b \in 0 .. made - 1 :
       \A k \in Coarse : 2 * Applied(rows[b], Unit(k)) = Upstream(Unit(k), b)

(* Shaping reads the gain table inside, for every band, every two codes and*)
(* in both directions, where the last two bands reach beyond their factors,*)
(* and the decoder's gain is the reciprocal of the encoder's.              *)
GridInTable ==
  /\ index \in 0 .. TableLength - 1
  /\ band > 0 =>
       LET x == [k \in Coarse |->
                   IF k = rows[band - 1][1] THEN read[1] - 8
                   ELSE IF k = rows[band - 1][2] THEN read[2] - 8 ELSE 0]
       IN  2 * (index + FirstExponent) = (IF inv THEN 1 ELSE -1) * Upstream(x, band - 1)

(* The 64 positions upstream pads the 44 bands to. *)
Padded(p) == IF p < 40 THEN p \div 2 ELSE p - 20

(* An energy of the direct path adds the bands that the padded one adds, in*)
(* the same order: the optimisation may not change a bit.                  *)
GroupsExact ==
  energies > 0 => group = [n \in 1 .. 4 |-> Padded(4 * (energies - 1) + n - 1)]
=============================================================================
