SPECIFICATION Spec
CONSTANTS
  e1 = e1
  e2 = e2
  Evaluator = {e1, e2}
  Target <- MCTarget
  Path <- MCPath
  Content <- MCContent
  Recipe <- MCRecipe
  Absent = Absent
  Clean = Clean
  Failure = Failure
  Plain = Plain
  NoFp = NoFp
  NoRow = NoRow
  Unreadable = Unreadable
  NoTxn = NoTxn
  Shard = {"s1", "s2"}
  ShardOf <- MCShardOf
  DepsOf <- MCDepsOf
  PayloadOf <- MCPayloadOf
  Initial <- MCInitial
  Calls <- MCCalls
  History = 2
  MaxTargets = 2
  EditsRace = TRUE
  MaxEdits = 2
  MaxCalls = 1
  MaxFaults = 0
SYMMETRY EvaluatorSymmetry
INVARIANT
  CandidatesSound
CHECK_DEADLOCK FALSE
