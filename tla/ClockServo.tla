----------------------------- MODULE ClockServo ----------------------------
(***************************************************************************)
(* The audio clock servo of the application core.  The IPC callback        *)
(* measures at every frame that arrives how far the source is ahead of the *)
(* DMA (clock_observe); main turns full windows of measurements into a     *)
(* correction of the audio PLL (clock_update) each time it has output a    *)
(* frame, and resets the controller when it takes a START (reset_run).     *)
(*                                                                         *)
(* The callback is ahead of main: it may see frames of the next run while  *)
(* main still plays or conceals the last one.  What is measured is any     *)
(* value: the properties hold for every drift and jitter.                  *)
(***************************************************************************)
EXTENDS Integers

CONSTANTS
  SkipFrames,     \* frames ignored at the start of a run: 400
  Window,         \* least number of observations in a mean: 400
  Calibrations,   \* means that make the target: 5
  MaxLead,        \* greatest lead that is accepted, in microseconds: 20000
  Deadband,       \* errors up to this one are taken for jitter: 50
  IntegralDivisor,  \* 160
  IntegralLimit,  \* greatest integral, in thousandths of a ppm: 150000
  OutputLimit,    \* and greatest correction: 200000
  Proportion,     \* proportional gain, in the same per microsecond: 100
  StepSize,       \* a step of the PLL register, in the same: 3311
  Slew,           \* register steps of one update: 4
  Nominal,        \* clock_nominal: 39845
  Stress,         \* AUDIO_CLOCK_STRESS
  BiasUp, BiasDown,  \* updates after which the stress test moves the clock
  TestBias,       \* by so many steps: 30
  RegisterTop,    \* greatest value of the PLL register: 65535
  Leads,          \* leads that may be measured
  MaxFrames,      \* bound: frames of a run
  MaxRuns         \* bound: runs

Half == StepSize \div 2 + 1
Reach == (OutputLimit + Half) \div StepSize

ASSUME ServoAssumption ==
  /\ {SkipFrames, Calibrations, MaxLead, Deadband, IntegralLimit, OutputLimit,
      Proportion, Slew, Nominal, BiasUp, BiasDown, TestBias, RegisterTop,
      MaxFrames, MaxRuns} \subseteq Nat
  /\ Window \in Nat \ {0} /\ IntegralDivisor \in Nat \ {0}
  /\ StepSize \in Nat \ {0} /\ Calibrations > 0
  /\ Stress \in BOOLEAN /\ Leads \subseteq Int

(* The register takes every correction with every bias. *)
ASSUME BandAssumption ==
  /\ Reach + TestBias <= Nominal
  /\ Nominal + Reach + TestBias <= RegisterTop

VARIABLES
  runs,               \* STARTs that came
  arriving,           \* sequence number of the source's next frame
  ahead,              \* main has not taken the last of those STARTs
  active,             \* main is in a run
  prev_seq,           \* clock_prev_seq; NoSeq after a reset
  lead_sum, observations,        \* the window
  streak,             \* history: frames since the last break or stale DMA,
  least, greatest,    \* and the least and greatest lead measured in them
  calibration, target_sum, target,
  integral, steps, updates, test_bias,
  register            \* HFCLKAUDIO.FREQUENCY

sourceVars == <<runs, arriving, ahead>>
historyVars == <<streak, least, greatest>>
windowVars == <<prev_seq, lead_sum, observations, historyVars>>
controlVars == <<calibration, target_sum, target, integral, steps, updates,
                 test_bias, register>>
vars == <<sourceVars, active, windowVars, controlVars>>

NoSeq == -1

Init ==
  /\ runs = 0 /\ arriving = 0 /\ ahead = FALSE /\ active = FALSE
  /\ prev_seq = 0 /\ lead_sum = 0 /\ observations = 0
  /\ streak = 0 /\ least = MaxLead /\ greatest = 0
  /\ calibration = 0 /\ target_sum = 0 /\ target = 0
  /\ integral = 0 /\ steps = 0
  /\ updates = 0 /\ test_bias = 0 /\ register = Nominal

-----------------------------------------------------------------------------
(* The IPC callback. *)

(* A START comes; whether it finds room in the mailbox, and when main takes*)
(* it, is open.                                                            *)
StartArrives ==
  /\ runs < MaxRuns /\ runs' = runs + 1
  /\ arriving' = 0 /\ ahead' = TRUE
  /\ UNCHANGED <<active, windowVars, controlVars>>

\* Mutant: the window survives a break.
KeepWindowMutant == UNCHANGED <<lead_sum, observations>>
DiscardWindow == lead_sum' = 0 /\ observations' = 0

AddToWindow(lead) ==
  /\ lead_sum' = lead_sum + lead /\ observations' = observations + 1

Plausible(lead) == 0 <= lead /\ lead <= MaxLead

\* Mutant: a stalled DMA is not looked for.
StaleMutant(continuous, fresh) == ~continuous
Broken(continuous, fresh) == ~(continuous /\ fresh)

Forget == streak' = 0 /\ least' = MaxLead /\ greatest' = 0

(* What was measured without a break, whatever the code makes of it. *)
Remember(continuous, fresh, lead) ==
  IF continuous /\ fresh
    THEN /\ streak' = streak + 1
         /\ least' = IF lead \in 0 .. least THEN lead ELSE least
         /\ greatest' = IF lead \in greatest .. MaxLead THEN lead ELSE greatest
    ELSE Forget

(* clock_observe: frame seq, within 100 ms of the one before or not, with a*)
(* DMA position that is fresh or not.                                      *)
Observe(seq, prompt, fresh, lead) ==
  LET continuous == seq = prev_seq + 1 /\ prompt
      broken == Broken(continuous, fresh)
  IN /\ runs > 0 /\ arriving <= seq /\ seq < MaxFrames
     /\ arriving' = seq + 1 /\ prev_seq' = seq
     /\ Remember(continuous, fresh, lead)
     /\ \/ seq < SkipFrames /\ UNCHANGED <<lead_sum, observations>>
        \/ seq >= SkipFrames /\ ~broken /\ Plausible(lead) /\ AddToWindow(lead)
        \/ seq >= SkipFrames /\ ~broken /\ ~Plausible(lead)
             /\ UNCHANGED <<lead_sum, observations>>
        \/ seq >= SkipFrames /\ broken /\ DiscardWindow
     /\ UNCHANGED <<runs, ahead, active, controlVars>>

-----------------------------------------------------------------------------
(* main *)

(* reset_run *)
ResetRun ==
  /\ ahead /\ ahead' = FALSE /\ active' = TRUE
  /\ prev_seq' = NoSeq /\ DiscardWindow /\ Forget
  /\ calibration' = 0 /\ target_sum' = 0 /\ target' = 0
  /\ integral' = 0 /\ steps' = 0
  /\ updates' = 0 /\ test_bias' = 0 /\ register' = Nominal
  /\ UNCHANGED <<runs, arriving>>

(* finish_run leaves the clock as it is. *)
FinishRun ==
  /\ active /\ active' = FALSE
  /\ UNCHANGED <<sourceVars, windowVars, controlVars>>

Clamp(x, low, high) == IF x < low THEN low ELSE IF x > high THEN high ELSE x
Magnitude(x) == IF x < 0 THEN -x ELSE x
(* C's division, which truncates. *)
Quotient(x, d) == IF x >= 0 THEN x \div d ELSE -((-x) \div d)

WindowFull == observations >= Window
Mean == lead_sum \div observations

(* The lead a run starts with becomes the target. *)
Calibrate ==
  /\ active /\ WindowFull /\ DiscardWindow /\ calibration < Calibrations
  /\ target_sum' = target_sum + Mean /\ calibration' = calibration + 1
  /\ target' = IF calibration + 1 = Calibrations
                 THEN target_sum' \div Calibrations ELSE target
  /\ UNCHANGED <<sourceVars, active, prev_seq, historyVars, integral, steps,
                 updates, test_bias, register>>

Beyond(e) ==
  IF e > Deadband THEN e - Deadband ELSE IF e < -Deadband THEN e + Deadband ELSE 0

Integral(e) ==
  Clamp(integral + Quotient(e * observations, IntegralDivisor),
        -IntegralLimit, IntegralLimit)

\* Mutant: the correction is not limited.
UnlimitedMutant(mppm) == mppm
Output(mppm) == Clamp(mppm, -OutputLimit, OutputLimit)
Wanted(mppm) == Quotient(mppm + (IF mppm >= 0 THEN Half ELSE -Half), StepSize)

\* Mutant: the correction is made at once.
AtOnceMutant(wanted) == wanted
Step(wanted) == steps + Clamp(wanted - steps, -Slew, Slew)

Bias(n) ==
  IF Stress /\ n = BiasDown THEN -TestBias
  ELSE IF Stress /\ n = BiasUp THEN TestBias ELSE test_bias

(* The rest of clock_update: PI controller, slew limit and register. *)
Update ==
  /\ active /\ WindowFull /\ DiscardWindow /\ calibration = Calibrations
  /\ LET e == Beyond(Mean - target)
     IN /\ integral' = Integral(e)
        /\ steps' = Step(Wanted(Output(integral' + Proportion * e)))
  /\ updates' = updates + 1 /\ test_bias' = Bias(updates + 1)
  /\ register' = Nominal + steps' + test_bias'
  /\ UNCHANGED <<sourceVars, active, prev_seq, historyVars, calibration,
                 target_sum, target>>

-----------------------------------------------------------------------------
Next ==
  \/ StartArrives
  \/ \E seq \in 0 .. MaxFrames - 1, prompt, fresh \in BOOLEAN, lead \in Leads :
        Observe(seq, prompt, fresh, lead)
  \/ ResetRun \/ FinishRun \/ Calibrate \/ Update

Spec == Init /\ [][Next]_vars

-----------------------------------------------------------------------------
(* Every variable keeps its type; sums and means stay in the range of the  *)
(* accepted leads they are made of, and the integral in its limits.        *)
TypeOK ==
  /\ runs \in Nat /\ arriving \in Nat /\ ahead \in BOOLEAN /\ active \in BOOLEAN
  /\ prev_seq \in Nat \cup {NoSeq} /\ streak \in Nat
  /\ least \in 0 .. MaxLead /\ greatest \in 0 .. MaxLead
  /\ observations \in Nat /\ lead_sum \in 0 .. MaxLead * observations
  /\ calibration \in 0 .. Calibrations
  /\ target_sum \in 0 .. MaxLead * calibration /\ target \in 0 .. MaxLead
  /\ integral \in -IntegralLimit .. IntegralLimit
  /\ updates \in Nat /\ test_bias \in {-TestBias, 0, TestBias}
  /\ steps \in Int /\ register \in Int

(* The PLL runs at the nominal frequency plus the correction and the test's*)
(* bias, and a long run of errors to one side cannot carry it further than *)
(* OutputLimit allows: the register never leaves its range.                *)
RegisterInBand ==
  /\ register = Nominal + steps + test_bias
  /\ steps \in -Reach .. Reach
  /\ register \in 0 .. RegisterTop

(* While the frames that arrive are those of main's run, a window holds    *)
(* observations of consecutive frames with a moving DMA only: lost frames, *)
(* gaps of 100 ms, a stalled DMA and the run before have left nothing in   *)
(* it, neither in the count nor in the sum, so that its mean is between the*)
(* least and the greatest lead measured since.                             *)
WindowUnbroken ==
  ~ahead => /\ observations <= streak
            /\ least * observations <= lead_sum
            /\ lead_sum <= greatest * observations

(* From one update to the next the frequency moves by Slew steps, apart    *)
(* from the test's bias, and it is held when there is no full window.      *)
Reset == ahead /\ ~ahead'
SlewLimited ==
  [][~Reset => /\ Magnitude(steps' - steps) <= Slew
               /\ steps' # steps =>
                    observations >= Window /\ calibration = Calibrations]_vars
=============================================================================
