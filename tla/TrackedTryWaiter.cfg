\* Parallel targets that catch the failure of a shared value.
SPECIFICATION Spec
CONSTANTS
  Task <- TryTask
  NoTask = NoTask
  Value <- TryValue
  Path <- MCPath
  Script <- TryScript
  Ends <- TryEnds
  Untracked = {}
  Parallel = TRUE
  Deps <- MCDeps
  Out <- MCOut
INVARIANTS ExactClosures
