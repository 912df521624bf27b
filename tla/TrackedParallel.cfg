\* Three targets in parallel; a shared value throws, nobody catches it.
SPECIFICATION FairSpec
CONSTANTS
  Task <- SharedTask
  NoTask = NoTask
  Value <- SharedValue
  Path <- MCPath
  Script <- SharedScript
  Ends <- SharedEnds
  Untracked = {}
  Parallel = TRUE
  Deps <- MCDeps
  Out <- MCOut
INVARIANTS TypeOK ExactClosures LabelsExact SameOutcome NoContamination
PROPERTIES Termination
