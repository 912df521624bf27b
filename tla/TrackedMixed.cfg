\* Parallel targets, tryEval and an untracked force of the same values.
SPECIFICATION Spec
CONSTANTS
  Task <- TryTask
  NoTask = NoTask
  Value <- TryValue
  Path <- MCPath
  Script <- TryScript
  Ends <- TryEnds
  Untracked <- TryUntracked
  Parallel = TRUE
  Deps <- MCDeps
  Out <- MCOut
INVARIANTS NoContamination SameOutcome
