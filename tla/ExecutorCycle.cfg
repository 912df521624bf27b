\* Two values force each other, entered from two fibers.
SPECIFICATION Spec
CONSTANTS
  w1 = w1
  w2 = w2
  Worker <- MCWorker
  Main = "main"
  Signal = "signal"
  Value <- SharedValue
  Domain <- MCDomain
  Item <- SharedItem
  DomainOf <- LimitDomainOf
  Needs <- CycleNeeds
  Raises = {}
  Batches <- SharedBatches
  MaxFibers = 1
  MaxInterrupts = 0
  Drops = FALSE
  Clears = FALSE
INVARIANTS SomeoneRuns
