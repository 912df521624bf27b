\* tecnix-parallel-dependencies off; failures are caught by tryEval.
SPECIFICATION Spec
CONSTANTS
  Task <- TryTask
  NoTask = NoTask
  Value <- TryValue
  Path <- MCPath
  Script <- TryScript
  Ends <- TryEnds
  Untracked = {}
  Parallel = FALSE
  Deps <- MCDeps
  Out <- MCOut
INVARIANTS ExactClosures FailedLabelsExact
