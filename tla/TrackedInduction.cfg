\* The inductive invariant of sequential evaluation, on the instance of TrackedSequential.
SPECIFICATION Spec
CONSTANTS
  Task <- TryTask
  NoTask = NoTask
  Value <- TryValue
  Path <- MCPath
  Script <- TryScript
  Ends <- TryEnds
  Untracked = {}
  Parallel = FALSE
  Deps <- MCDeps
  Out <- MCOut
INVARIANTS TypeOK ChainInv ProgressInv SoundInv CompleteInv SoloInv FailedInv ExactClosures LabelsExact FailedLabelsExact
