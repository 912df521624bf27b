\* A value of the graph is forced untracked between two tracked calls.
SPECIFICATION Spec
CONSTANTS
  Task <- TwiceTask
  NoTask = NoTask
  Value <- TwiceValue
  Path <- MCPath
  Script <- TwiceScript
  Ends <- TwiceEnds
  Untracked <- TwiceUntracked
  Parallel = FALSE
  Deps <- MCDeps
  Out <- MCOut
INVARIANTS ExactClosures
