-------------------------- MODULE ClockServoProofs --------------------------
(* Proofs about the audio clock servo, for every gain, limit and lead.     *)
EXTENDS ClockServo, TLAPS

(* Observe leaves the window alone at the start of a run and the next frame*)
(* is always later, so a window that is not empty began after SkipFrames.  *)
Skipped ==
  runs > 0 /\ ~ahead =>
    /\ prev_seq < arriving
    /\ prev_seq < SkipFrames => observations = 0

ServoInv == TypeOK /\ RegisterInBand /\ WindowUnbroken /\ Skipped

-----------------------------------------------------------------------------
(* The arithmetic of the controller. *)

(* Division of naturals: the quotient and what remains. *)
LEMMA DivBounds ==
  ASSUME NEW x \in Nat, NEW d \in Nat \ {0}
  PROVE  x \div d \in Nat /\ d * (x \div d) <= x /\ x < d * (x \div d) + d
OBVIOUS

(* A mean of values up to m is at most m. *)
LEMMA MeanBound ==
  ASSUME NEW x \in Nat, NEW d \in Nat \ {0}, NEW m \in Nat, x <= m * d
  PROVE  x \div d \in 0 .. m
<1> DEFINE q == x \div d
<1>1. q \in Nat /\ d * q <= x
  BY DivBounds
<1> HIDE DEF q
<1>2. q <= m
  <2> SUFFICES ASSUME m + 1 <= q PROVE FALSE
    BY <1>1
  <2>1. d * (m + 1) <= d * q
    BY <1>1
  <2>2. d * (m + 1) = m * d + d
    OBVIOUS
  <2> QED BY <1>1, <2>1, <2>2
<1> QED BY <1>1, <1>2 DEF q

(* A smaller dividend has no greater quotient. *)
LEMMA DivMonotone ==
  ASSUME NEW x \in Nat, NEW y \in Nat, NEW d \in Nat \ {0}, x <= y
  PROVE  x \div d \in 0 .. y \div d
<1> DEFINE p == x \div d
           q == y \div d
<1>1. p \in Nat /\ d * p <= x
  BY DivBounds
<1>2. q \in Nat /\ y < d * q + d
  BY DivBounds
<1> HIDE DEF p, q
<1>3. p <= q
  <2> SUFFICES ASSUME q + 1 <= p PROVE FALSE
    BY <1>1, <1>2
  <2>1. d * (q + 1) <= d * p
    BY <1>1, <1>2
  <2>2. d * (q + 1) = d * q + d
    BY <1>2
  <2> QED BY <1>1, <1>2, <2>1, <2>2
<1> QED BY <1>1, <1>2, <1>3 DEF p, q

(* C's division gives an integer on both sides of zero. *)
LEMMA QuotientIsInt ==
  ASSUME NEW x \in Int, NEW d \in Nat \ {0}
  PROVE  Quotient(x, d) \in Int
<1>1. CASE x >= 0
  BY <1>1, DivBounds DEF Quotient
<1>2. CASE ~(x >= 0)
  BY <1>2, DivBounds, -x \in Nat DEF Quotient
<1> QED BY <1>1, <1>2

(* The limits of the controller, in steps. *)
LEMMA ReachIsNat == Half \in Nat /\ Reach \in Nat
<1>1. StepSize \in Nat \ {0} /\ 2 \in Nat \ {0} /\ OutputLimit \in Nat
  BY ServoAssumption
<1>2. Half \in Nat
  BY <1>1, DivBounds DEF Half
<1>3. OutputLimit + Half \in Nat
  BY <1>1, <1>2
<1> QED BY <1>1, <1>2, <1>3, DivBounds DEF Reach

(* No integral and no error ask for more than Reach steps. *)
LEMMA WantedBound ==
  ASSUME NEW mppm \in Int
  PROVE  Wanted(Output(mppm)) \in -Reach .. Reach
<1> DEFINE out == Output(mppm)
<1>1. out \in Int /\ -OutputLimit <= out /\ out <= OutputLimit
  BY ServoAssumption DEF Output, Clamp
<1>2. StepSize \in Nat \ {0} /\ OutputLimit \in Nat /\ Half \in Nat
  BY ServoAssumption, ReachIsNat
<1> HIDE DEF out
<1>3. CASE out >= 0
  <2>1. out + Half \in Nat /\ OutputLimit + Half \in Nat
        /\ out + Half <= OutputLimit + Half /\ out + Half >= 0
    BY <1>1, <1>2, <1>3
  <2>2. (out + Half) \div StepSize \in 0 .. Reach
    BY <1>2, <2>1, DivMonotone DEF Reach
  <2>3. Wanted(out) = (out + Half) \div StepSize
    BY <1>3, <2>1 DEF Wanted, Quotient
  <2> QED BY <2>2, <2>3, ReachIsNat DEF out
<1>4. CASE ~(out >= 0)
  <2>1. Half > 0
    BY DivBounds, ServoAssumption DEF Half
  <2>2. /\ out + -Half \in Int /\ ~(out + -Half >= 0)
        /\ -(out + -Half) \in Nat /\ OutputLimit + Half \in Nat
        /\ -(out + -Half) <= OutputLimit + Half
    BY <1>1, <1>2, <1>4, <2>1
  <2>3. (-(out + -Half)) \div StepSize \in 0 .. Reach
    BY <1>2, <2>2, DivMonotone DEF Reach
  <2>4. Wanted(out) = -((-(out + -Half)) \div StepSize)
    BY <1>4, <2>2 DEF Wanted, Quotient
  <2> QED BY <2>3, <2>4, ReachIsNat DEF out
<1> QED BY <1>3, <1>4

(* A step goes towards what is wanted, by Slew at most. *)
LEMMA StepBound ==
  ASSUME steps \in -Reach .. Reach, NEW wanted \in -Reach .. Reach
  PROVE  /\ Step(wanted) \in -Reach .. Reach
         /\ Magnitude(Step(wanted) - steps) <= Slew
BY ReachIsNat, ServoAssumption DEF Step, Clamp, Magnitude

(* The integral is clamped, whatever is added to it. *)
LEMMA IntegralBound ==
  ASSUME NEW e \in Int, observations \in Nat, integral \in Int
  PROVE  Integral(e) \in -IntegralLimit .. IntegralLimit
<1>1. e * observations \in Int
  OBVIOUS
<1>2. Quotient(e * observations, IntegralDivisor) \in Int
  BY <1>1, QuotientIsInt, ServoAssumption
<1> QED BY <1>2, ServoAssumption DEF Integral, Clamp

-----------------------------------------------------------------------------
(* The inductive invariant. *)

(* The mean of a window is one of the leads it accepts. *)
LEMMA MeanIsLead ==
  ASSUME TypeOK, WindowFull
  PROVE  Mean \in 0 .. MaxLead
<1>1. /\ lead_sum \in Nat /\ observations \in Nat \ {0} /\ MaxLead \in Nat
      /\ lead_sum <= MaxLead * observations
  BY ServoAssumption DEF TypeOK, WindowFull
<1> QED BY <1>1, MeanBound DEF Mean

(* Steps within reach, with any bias, stay in the register. *)
LEMMA BandOfSteps ==
  ASSUME NEW s \in -Reach .. Reach, NEW b \in {-TestBias, 0, TestBias}
  PROVE  Nominal + s + b \in 0 .. RegisterTop
BY ReachIsNat, ServoAssumption, BandAssumption

(* Everything that starts or is reset at its neutral value is in range. *)
LEMMA NominalInBand ==
  /\ Nominal \in 0 .. RegisterTop /\ 0 \in -Reach .. Reach
  /\ 0 \in 0 .. MaxLead * 0 /\ 0 \in 0 .. MaxLead /\ 0 \in 0 .. Calibrations
  /\ MaxLead \in 0 .. MaxLead /\ MaxLead \in Nat /\ 0 \in Nat
  /\ 0 \in -IntegralLimit .. IntegralLimit
  /\ Nominal \in Int /\ Nominal = Nominal + 0 + 0
BY ReachIsNat, ServoAssumption, BandAssumption

(* A window that holds nothing is unbroken. *)
LEMMA EmptyWindow ==
  ASSUME NEW l \in Nat, NEW g \in Nat, NEW n, NEW s, n = 0, s = 0
  PROVE  l * n <= s /\ s <= g * n
<1>1. l * 0 = 0 /\ g * 0 = 0
  OBVIOUS
<1> QED BY <1>1

(* The servo begins with an empty window and the nominal frequency. *)
LEMMA ServoInit == Init => ServoInv
<1> SUFFICES ASSUME Init PROVE ServoInv
  OBVIOUS
<1>1. TypeOK
  <2>1. 0 \in Nat /\ 0 \in Int
    OBVIOUS
  <2> QED BY <2>1, NominalInBand, Zenon DEF Init, TypeOK
<1>2. RegisterInBand
  BY NominalInBand DEF Init, RegisterInBand
<1>3. WindowUnbroken
  BY NominalInBand, EmptyWindow DEF Init, WindowUnbroken
<1> QED BY <1>1, <1>2, <1>3 DEF Init, ServoInv, Skipped

(* Sums of n values between l and g, when the bounds widen and when a value*)
(* within them is added.                                                   *)
LEMMA SumStaysBetween ==
  ASSUME NEW l \in Nat, NEW g \in Nat, NEW n \in Nat, NEW s \in Nat,
         l * n <= s, s <= g * n, NEW a \in 0 .. l, NEW b \in Nat, g <= b
  PROVE  /\ a * n <= s /\ s <= b * n
         /\ \A x \in a .. b : a * (n + 1) <= s + x /\ s + x <= b * (n + 1)
<1>1. a \in Nat /\ a * n \in Nat /\ b * n \in Nat /\ l * n \in Nat /\ g * n \in Nat
  OBVIOUS
<1>2. a * n <= l * n
  BY <1>1
<1>3. g * n <= b * n
  BY <1>1
<1>4. a * (n + 1) = a * n + a /\ b * (n + 1) = b * n + b
  BY <1>1
<1> QED BY <1>1, <1>2, <1>3, <1>4

(* What is remembered keeps its type and widens while nothing breaks.      *)
LEMMA RememberWidens ==
  ASSUME TypeOK, NEW continuous \in BOOLEAN, NEW fresh \in BOOLEAN,
         NEW lead \in Int, Remember(continuous, fresh, lead)
  PROVE  /\ streak' \in Nat /\ least' \in 0 .. MaxLead /\ greatest' \in 0 .. MaxLead
         /\ ~Broken(continuous, fresh) =>
              /\ streak' = streak + 1
              /\ least' \in 0 .. least /\ greatest <= greatest'
              /\ Plausible(lead) => lead \in least' .. greatest'
<1>1. /\ MaxLead \in Nat /\ streak \in Nat /\ least \in 0 .. MaxLead
      /\ greatest \in 0 .. MaxLead
  BY ServoAssumption DEF TypeOK
<1> QED BY <1>1 DEF Remember, Forget, Broken, Plausible

(* A frame adds at most one observation, only with one to the streak and   *)
(* only with a lead that is remembered.                                    *)
LEMMA ObserveStep ==
  ASSUME ServoInv, NEW seq \in 0 .. MaxFrames - 1, NEW prompt \in BOOLEAN,
         NEW fresh \in BOOLEAN, NEW lead \in Leads, Observe(seq, prompt, fresh, lead)
  PROVE  ServoInv'
<1> DEFINE continuous == seq = prev_seq + 1 /\ prompt
           broken == Broken(continuous, fresh)
<1>t. /\ TypeOK /\ RegisterInBand /\ WindowUnbroken /\ Skipped /\ lead \in Int
      /\ SkipFrames \in Nat /\ MaxLead \in Nat /\ seq \in Nat
  BY ServoAssumption DEF ServoInv
<1>1. /\ arriving' = seq + 1 /\ prev_seq' = seq /\ arriving <= seq /\ runs > 0
      /\ UNCHANGED <<runs, ahead, active, controlVars>>
      /\ Remember(continuous, fresh, lead) /\ continuous \in BOOLEAN
  BY DEF Observe
<1>2. \/ seq < SkipFrames /\ UNCHANGED <<lead_sum, observations>>
      \/ /\ seq >= SkipFrames /\ ~broken /\ Plausible(lead)
         /\ lead_sum' = lead_sum + lead /\ observations' = observations + 1
      \/ seq >= SkipFrames /\ ~broken /\ UNCHANGED <<lead_sum, observations>>
      \/ seq >= SkipFrames /\ lead_sum' = 0 /\ observations' = 0
  BY DEF Observe, AddToWindow, DiscardWindow
<1>r. /\ streak' \in Nat /\ least' \in 0 .. MaxLead /\ greatest' \in 0 .. MaxLead
      /\ ~broken => /\ streak' = streak + 1
                    /\ least' \in 0 .. least /\ greatest <= greatest'
                    /\ Plausible(lead) => lead \in least' .. greatest'
  BY <1>1, <1>t, RememberWidens
<1> HIDE DEF continuous, broken
<1>3. observations' \in Nat /\ lead_sum' \in 0 .. MaxLead * observations'
  <2>1. observations \in Nat /\ lead_sum \in 0 .. MaxLead * observations
    BY <1>t DEF TypeOK
  <2>2. MaxLead * (observations + 1) = MaxLead * observations + MaxLead
        /\ MaxLead * 0 = 0 /\ MaxLead * observations \in Nat
    BY <1>t, <2>1
  <2>3. CASE UNCHANGED <<lead_sum, observations>>
    BY <2>1, <2>3
  <2>4. CASE /\ Plausible(lead)
             /\ lead_sum' = lead_sum + lead /\ observations' = observations + 1
    <3>1. lead_sum + lead \in 0 .. MaxLead * observations + MaxLead
      BY <1>t, <2>1, <2>2, <2>4 DEF Plausible
    <3> QED BY <2>1, <2>2, <2>4, <3>1
  <2>5. CASE lead_sum' = 0 /\ observations' = 0
    BY <2>2, <2>5
  <2> QED BY <1>2, <2>3, <2>4, <2>5
<1>4. TypeOK'
  <2>1. arriving' \in Nat /\ prev_seq' \in Nat \cup {NoSeq}
    BY <1>t, <1>1 DEF TypeOK
  <2> QED BY <1>t, <1>1, <1>r, <1>3, <2>1 DEF TypeOK, controlVars
<1>5. RegisterInBand'
  BY <1>t, <1>1 DEF RegisterInBand, controlVars
<1>6. WindowUnbroken' /\ Skipped'
  <2> SUFFICES ASSUME ~ahead' PROVE WindowUnbroken' /\ Skipped'
    BY DEF WindowUnbroken, Skipped
  <2>1. /\ ~ahead /\ observations \in Nat /\ lead_sum \in Nat
        /\ streak \in Nat /\ observations <= streak
        /\ least \in Nat /\ greatest \in Nat
        /\ least * observations <= lead_sum /\ lead_sum <= greatest * observations
        /\ prev_seq < SkipFrames => observations = 0 /\ lead_sum = 0
        /\ prev_seq < arriving /\ prev_seq \in Int /\ arriving \in Nat
    BY <1>t, <1>1 DEF WindowUnbroken, Skipped, TypeOK, NoSeq
  <2>2. prev_seq < seq
    BY <1>1, <1>t, <2>1
  <2>3. least' \in Nat /\ greatest' \in Nat
    BY <1>t, <1>r
  <2>4. CASE seq < SkipFrames /\ UNCHANGED <<lead_sum, observations>>
    <3>1. observations' = 0 /\ lead_sum' = 0
      BY <1>t, <2>1, <2>2, <2>4
    <3>2. WindowUnbroken'
      <4>1. least' * observations' <= lead_sum' /\ lead_sum' <= greatest' * observations'
        BY <2>3, <3>1, EmptyWindow
      <4>2. observations' <= streak'
        BY <1>r, <3>1
      <4> QED BY <4>1, <4>2, Zenon DEF WindowUnbroken
    <3>3. Skipped'
      BY <1>1, <1>t, <3>1 DEF Skipped
    <3> QED BY <3>2, <3>3
  <2>5. CASE seq >= SkipFrames
    <3>1. Skipped'
      BY <1>1, <1>t, <2>5 DEF Skipped
    <3>2. CASE lead_sum' = 0 /\ observations' = 0
      <4>1. least' * observations' <= lead_sum' /\ lead_sum' <= greatest' * observations'
        BY <2>3, <3>2, EmptyWindow
      <4>2. observations' <= streak'
        BY <1>r, <3>2
      <4> QED BY <3>1, <4>1, <4>2, Zenon DEF WindowUnbroken
    <3>3. CASE ~broken /\ UNCHANGED <<lead_sum, observations>>
      <4> DEFINE a == least'
                 b == greatest'
      <4>0. a \in 0 .. least /\ b \in Nat /\ greatest <= b
        BY <1>r, <2>3, <3>3
      <4> HIDE DEF a, b
      <4>1. a * observations <= lead_sum /\ lead_sum <= b * observations
        BY <2>1, <4>0, SumStaysBetween
      <4>2. observations <= streak'
        BY <1>r, <2>1, <3>3
      <4> QED BY <3>1, <3>3, <4>1, <4>2 DEF WindowUnbroken, a, b
    <3>4. CASE /\ ~broken /\ Plausible(lead)
               /\ lead_sum' = lead_sum + lead /\ observations' = observations + 1
      <4> DEFINE a == least'
                 b == greatest'
      <4>1. a \in 0 .. least /\ b \in Nat /\ greatest <= b /\ lead \in a .. b
        BY <1>r, <2>3, <3>4
      <4> HIDE DEF a, b
      <4>2. /\ a * (observations + 1) <= lead_sum + lead
            /\ lead_sum + lead <= b * (observations + 1)
        BY <2>1, <4>1, SumStaysBetween
      <4>3. observations + 1 <= streak'
        BY <1>r, <2>1, <3>4
      <4> QED BY <3>1, <3>4, <4>2, <4>3 DEF WindowUnbroken, a, b
    <3> QED BY <1>2, <1>t, <2>5, <3>2, <3>3, <3>4
  <2> QED BY <1>2, <2>4, <2>5
<1> QED BY <1>4, <1>5, <1>6 DEF ServoInv

(* main's reset of a run empties the window of the run before it. *)
LEMMA ResetStep ==
  ASSUME ServoInv, ResetRun
  PROVE  ServoInv'
<1>t. TypeOK /\ SkipFrames \in Nat
  BY ServoAssumption DEF ServoInv
<1>1. /\ prev_seq' = NoSeq /\ lead_sum' = 0 /\ observations' = 0 /\ streak' = 0
      /\ least' = MaxLead /\ greatest' = 0
      /\ calibration' = 0 /\ target_sum' = 0 /\ target' = 0 /\ integral' = 0
      /\ steps' = 0 /\ updates' = 0 /\ test_bias' = 0 /\ register' = Nominal
      /\ ahead' = FALSE /\ active' = TRUE /\ runs' = runs /\ arriving' = arriving
  BY DEF ResetRun, DiscardWindow, Forget
<1>2. TypeOK'
  <2>1. 0 \in Nat /\ 0 \in Int
    OBVIOUS
  <2> QED BY <1>t, <1>1, <2>1, NominalInBand, Zenon DEF TypeOK
<1>3. RegisterInBand'
  BY <1>1, NominalInBand DEF RegisterInBand
<1>4. WindowUnbroken' /\ Skipped'
  <2>1. least' \in Nat /\ greatest' \in Nat
    BY <1>1, NominalInBand
  <2>2. WindowUnbroken'
    BY <1>1, <2>1, EmptyWindow DEF WindowUnbroken
  <2>3. Skipped'
    BY <1>t, <1>1 DEF Skipped, TypeOK, NoSeq
  <2> QED BY <2>2, <2>3
<1> QED BY <1>2, <1>3, <1>4 DEF ServoInv

(* A calibration empties the window and leaves the frequency alone. *)
LEMMA CalibrateStep ==
  ASSUME ServoInv, Calibrate
  PROVE  ServoInv'
<1>t. /\ TypeOK /\ RegisterInBand /\ WindowUnbroken /\ Skipped
      /\ MaxLead \in Nat /\ Calibrations \in Nat \ {0}
  BY ServoAssumption DEF ServoInv
<1>1. /\ lead_sum' = 0 /\ observations' = 0 /\ calibration < Calibrations
      /\ target_sum' = target_sum + Mean /\ calibration' = calibration + 1
      /\ target' = IF calibration + 1 = Calibrations
                     THEN target_sum' \div Calibrations ELSE target
      /\ UNCHANGED <<sourceVars, active, prev_seq, historyVars, integral, steps,
                     updates, test_bias, register>>
      /\ WindowFull
  BY DEF Calibrate, DiscardWindow
<1>2. Mean \in 0 .. MaxLead
  BY <1>t, <1>1, MeanIsLead
<1>3. calibration' \in 0 .. Calibrations /\ target_sum' \in 0 .. MaxLead * calibration'
  <2>1. calibration \in Nat /\ target_sum \in 0 .. MaxLead * calibration
    BY <1>t DEF TypeOK
  <2>2. /\ MaxLead * (calibration + 1) = MaxLead * calibration + MaxLead
        /\ MaxLead * calibration \in Nat
    BY <1>t, <2>1
  <2>3. target_sum + Mean \in 0 .. MaxLead * calibration + MaxLead
    BY <1>t, <1>2, <2>1, <2>2
  <2> QED BY <1>t, <1>1, <2>1, <2>2, <2>3
<1>4. target' \in 0 .. MaxLead
  <2>1. CASE calibration + 1 = Calibrations
    <3>1. target_sum' \in Nat /\ target_sum' <= MaxLead * Calibrations
      BY <1>t, <1>1, <1>3, <2>1
    <3>2. target_sum' \div Calibrations \in 0 .. MaxLead
      <4> DEFINE s == target_sum'
      <4>1. s \in Nat /\ s <= MaxLead * Calibrations
        BY <3>1
      <4> HIDE DEF s
      <4>2. s \div Calibrations \in 0 .. MaxLead
        BY <1>t, <4>1, MeanBound
      <4> QED BY <4>2 DEF s
    <3> QED BY <1>1, <2>1, <3>2
  <2> QED BY <1>t, <1>1, <2>1 DEF TypeOK
<1>5. TypeOK'
  BY <1>t, <1>1, <1>3, <1>4 DEF TypeOK, sourceVars, historyVars
<1>6. RegisterInBand'
  BY <1>t, <1>1 DEF RegisterInBand
<1>7. WindowUnbroken' /\ Skipped'
  BY <1>t, <1>1 DEF WindowUnbroken, Skipped, TypeOK, sourceVars,
                   historyVars
<1> QED BY <1>5, <1>6, <1>7 DEF ServoInv

(* What an update does to the frequency. *)
LEMMA Correction ==
  ASSUME ServoInv, Update
  PROVE  /\ integral' \in -IntegralLimit .. IntegralLimit
         /\ steps' \in -Reach .. Reach
         /\ Magnitude(steps' - steps) <= Slew
<1>t. TypeOK /\ steps \in -Reach .. Reach
  BY DEF ServoInv, RegisterInBand
<1> DEFINE e == Beyond(Mean - target)
<1>1. /\ integral' = Integral(e)
      /\ steps' = Step(Wanted(Output(integral' + Proportion * e)))
      /\ WindowFull
  BY DEF Update
<1>2. e \in Int
  <2>1. Mean \in 0 .. MaxLead /\ target \in 0 .. MaxLead
    BY <1>t, <1>1, MeanIsLead DEF TypeOK
  <2> QED BY <2>1, ServoAssumption DEF Beyond
<1> HIDE DEF e
<1>3. integral' \in -IntegralLimit .. IntegralLimit
  BY <1>t, <1>1, <1>2, IntegralBound, ServoAssumption DEF TypeOK
<1>4. integral' + Proportion * e \in Int
  <2>1. integral' \in Int /\ Proportion * e \in Int
    BY <1>2, <1>3, ServoAssumption
  <2> QED BY <2>1
<1>5. Wanted(Output(integral' + Proportion * e)) \in -Reach .. Reach
  <2> DEFINE mppm == integral' + Proportion * e
  <2>1. mppm \in Int
    BY <1>4
  <2> HIDE DEF mppm
  <2>2. Wanted(Output(mppm)) \in -Reach .. Reach
    BY <2>1, WantedBound
  <2> QED BY <2>2 DEF mppm
<1> QED BY <1>t, <1>1, <1>3, <1>5, StepBound

(* An update empties the window and moves the frequency within its limits. *)
LEMMA UpdateStep ==
  ASSUME ServoInv, Update
  PROVE  ServoInv'
<1>t. TypeOK /\ RegisterInBand /\ WindowUnbroken /\ Skipped
  BY DEF ServoInv
<1>1. /\ lead_sum' = 0 /\ observations' = 0 /\ updates' = updates + 1
      /\ register' = Nominal + steps' + test_bias'
      /\ UNCHANGED <<sourceVars, active, prev_seq, historyVars, calibration,
                     target_sum, target>>
  BY DEF Update, DiscardWindow
<1>2. test_bias' \in {-TestBias, 0, TestBias}
  BY <1>t DEF Update, Bias, TypeOK
<1>3. /\ integral' \in -IntegralLimit .. IntegralLimit
      /\ steps' \in -Reach .. Reach /\ Reach \in Nat
  BY Correction, ReachIsNat
<1>4. register' \in 0 .. RegisterTop
  <2> DEFINE s == steps'
             b == test_bias'
  <2>1. s \in -Reach .. Reach /\ b \in {-TestBias, 0, TestBias}
    BY <1>2, <1>3
  <2> HIDE DEF s, b
  <2>2. Nominal + s + b \in 0 .. RegisterTop
    BY <2>1, BandOfSteps
  <2> QED BY <1>1, <2>2 DEF s, b
<1>5. TypeOK'
  <2>1. steps' \in Int /\ register' \in Int /\ updates' \in Nat
    BY <1>t, <1>1, <1>3, <1>4, ServoAssumption DEF TypeOK
  <2> QED BY <1>t, <1>1, <1>2, <1>3, <2>1, NominalInBand, ServoAssumption
          DEF TypeOK, sourceVars, historyVars
<1>6. RegisterInBand'
  BY <1>1, <1>3, <1>4 DEF RegisterInBand
<1>7. WindowUnbroken' /\ Skipped'
  BY <1>t, <1>1 DEF WindowUnbroken, Skipped, TypeOK, sourceVars,
                   historyVars
<1> QED BY <1>5, <1>6, <1>7 DEF ServoInv

(* The invariant is inductive. *)
LEMMA ServoStep == ServoInv /\ [Next]_vars => ServoInv'
<1> SUFFICES ASSUME ServoInv, [Next]_vars PROVE ServoInv'
  OBVIOUS
<1>t. TypeOK /\ RegisterInBand /\ WindowUnbroken /\ Skipped
  BY DEF ServoInv
<1>1. CASE StartArrives
  BY <1>t, <1>1 DEF StartArrives, windowVars, historyVars, controlVars, ServoInv, TypeOK,
                    RegisterInBand, WindowUnbroken, Skipped
<1>2. CASE \E seq \in 0 .. MaxFrames - 1, prompt, fresh \in BOOLEAN, lead \in Leads :
              Observe(seq, prompt, fresh, lead)
  BY <1>2, ObserveStep
<1>3. CASE ResetRun
  BY <1>3, ResetStep
<1>4. CASE FinishRun
  BY <1>t, <1>4 DEF FinishRun, sourceVars, windowVars, historyVars, controlVars, ServoInv,
                    TypeOK, RegisterInBand, WindowUnbroken, Skipped
<1>5. CASE Calibrate
  BY <1>5, CalibrateStep
<1>6. CASE Update
  BY <1>6, UpdateStep
<1>7. CASE UNCHANGED vars
  BY <1>t, <1>7 DEF vars, sourceVars, windowVars, historyVars, controlVars, ServoInv,
                    TypeOK, RegisterInBand, WindowUnbroken, Skipped
<1> QED BY <1>1, <1>2, <1>3, <1>4, <1>5, <1>6, <1>7 DEF Next

(* Every reachable state of the servo satisfies the invariant. *)
THEOREM ServoInvariant == Spec => []ServoInv
BY ServoInit, ServoStep, PTL DEF Spec

(* Whatever is measured, the PLL register keeps its range and the integral *)
(* its limits.                                                             *)
THEOREM RegisterIsKept == Spec => [](TypeOK /\ RegisterInBand)
<1>1. ServoInv => TypeOK /\ RegisterInBand
  BY DEF ServoInv
<1> QED BY <1>1, ServoInvariant, PTL

(* A window never joins observations from both sides of a break of the run.*)
THEOREM WindowIsUnbroken == Spec => []WindowUnbroken
<1>1. ServoInv => WindowUnbroken
  BY DEF ServoInv
<1> QED BY <1>1, ServoInvariant, PTL

(* No step of the system moves the frequency by more than Slew steps.      *)
THEOREM SlewIsLimited == Spec => SlewLimited
<1> DEFINE A == ~Reset => /\ Magnitude(steps' - steps) <= Slew
                          /\ steps' # steps =>
                               observations >= Window /\ calibration = Calibrations
<1>1. ServoInv /\ [Next]_vars => [A]_vars
  <2> SUFFICES ASSUME ServoInv, Next PROVE A
    OBVIOUS
  <2>1. CASE Update
    BY <2>1, Correction DEF Update, WindowFull
  <2>2. CASE ResetRun
    BY <2>2 DEF ResetRun, Reset
  <2>3. CASE steps' = steps
    <3>1. steps \in Int /\ Slew \in Nat
      BY ServoAssumption DEF ServoInv, TypeOK
    <3> QED BY <2>3, <3>1 DEF Magnitude
  <2>4. Update \/ ResetRun \/ steps' = steps
    BY DEF Next, StartArrives, Observe, FinishRun, Calibrate, controlVars
  <2> QED BY <2>1, <2>2, <2>3, <2>4
<1> QED BY <1>1, ServoInvariant, PTL DEF Spec, SlewLimited
=============================================================================
