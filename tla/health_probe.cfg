SPECIFICATION HealthFairSpec
CONSTANTS
  StaleAfter = 12
  ProbePeriod = 3
  FailureThreshold = 3
  ClockStep = 13
  MaxClockSteps = 1
PROPERTIES
  RestartNeedsSilence
  SilenceEnds
