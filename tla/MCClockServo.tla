---------------------------- MODULE MCClockServo ---------------------------
(* The clock servo with the real gains, short windows and tighter limits,  *)
(* so that few updates reach them.                                         *)
EXTENDS ClockServo

MCSkipFrames == 1
MCWindow == 2
MCCalibrations == 1
MCMaxLead == 20000
MCDeadband == 50
MCIntegralDivisor == 1
MCIntegralLimit == 15000
MCOutputLimit == 20000
MCProportion == 100
MCStepSize == 3311
MCSlew == 4
MCNominal == 39845
MCStress == TRUE
MCBiasUp == 1
MCBiasDown == 2
MCTestBias == 30
MCRegisterTop == 65535
MCLeads == {-1, 0, 80, 20000}
MCMaxFrames == 7
MCMaxRuns == 2
=============================================================================
