\* The inductive invariant, on the instance of ExecutorShutdown.
SPECIFICATION Spec
CONSTANTS
  w1 = w1
  w2 = w2
  Worker <- MCWorker
  Main = "main"
  Signal = "signal"
  Value <- SharedValue
  Domain <- MCDomain
  Item <- SharedItem
  DomainOf <- LimitDomainOf
  Needs <- SharedNeeds
  Raises = {}
  Batches <- SharedBatches
  MaxFibers = 2
  MaxInterrupts = 1
  Drops = TRUE
  Clears = TRUE
SYMMETRY WorkerSymmetry
INVARIANTS TypeOK StackInv ForceInv QueueInv PlaceInv SwitchInv FlushInv SlotInv PromiseInv
  FiberAccounting OnePlace NoLostWakeup NotStranded ExitClean AllAnswered SomeoneRuns SharedChained
