\* A path is built and copied at once, and the copy is cancelled.
SPECIFICATION FairSpec
CONSTANTS
  Path <- HangPath
  Drv <- HangDrv
  Inputs <- HangNone
  Srcs <- HangNone
  Refs <- HangRefs
  Unsubstituted = {"b"}
  Top <- HangTop
  NrSubstituters = 1
  Answers <- HangAnswers
  MaxBuildJobs = 1
  MaxSubstitutionJobs = 2
  MaxDelays = 0
  Free = Free
  Other = Other
PROPERTIES FallsBack
CHECK_DEADLOCK FALSE
