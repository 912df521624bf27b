\* One fiber per worker, three items in two batches, futures awaited.
SPECIFICATION FairSpec
CONSTANTS
  w1 = w1
  w2 = w2
  Worker <- MCWorker
  Main = "main"
  Signal = "signal"
  Value <- SharedValue
  Domain <- MCDomain
  Item <- LimitItem
  DomainOf <- LimitDomainOf
  Needs <- LimitNeeds
  Raises = {"zone"}
  Batches <- LimitBatches
  MaxFibers = 1
  MaxInterrupts = 0
  Drops = FALSE
  Clears = FALSE
INVARIANTS SomeoneRuns
PROPERTIES FinishedImmutable Fulfilled
