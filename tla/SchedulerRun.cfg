SPECIFICATION FairSpec
CONSTANTS
  Path <- MCPath
  Drv <- MCDrv
  Inputs <- MCInputs
  Srcs <- MCSrcs
  Refs <- MCRefs
  Unsubstituted = {"a", "c"}
  Top <- MCTop
  NrSubstituters = 1
  Answers <- MCAnswers
  MaxBuildJobs = 1
  MaxSubstitutionJobs = 0
  MaxDelays = 1
  Free = Free
  Other = Other
INVARIANTS TypeOK OneWakeSource NoIdleSlot InputsReady ExitClean
PROPERTIES Finishes
CHECK_DEADLOCK FALSE
