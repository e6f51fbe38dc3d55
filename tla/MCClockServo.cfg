SPECIFICATION Spec
CHECK_DEADLOCK FALSE
CONSTANTS
  SkipFrames <- MCSkipFrames
  Window <- MCWindow
  Calibrations <- MCCalibrations
  MaxLead <- MCMaxLead
  Deadband <- MCDeadband
  IntegralDivisor <- MCIntegralDivisor
  IntegralLimit <- MCIntegralLimit
  OutputLimit <- MCOutputLimit
  Proportion <- MCProportion
  StepSize <- MCStepSize
  Slew <- MCSlew
  Nominal <- MCNominal
  Stress <- MCStress
  BiasUp <- MCBiasUp
  BiasDown <- MCBiasDown
  TestBias <- MCTestBias
  RegisterTop <- MCRegisterTop
  Leads <- MCLeads
  MaxFrames <- MCMaxFrames
  MaxRuns <- MCMaxRuns
INVARIANTS RegisterInBand WindowUnbroken
PROPERTIES SlewLimited
