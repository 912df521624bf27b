\* An interrupt while items are parked; the destructor may run before they are
\* answered.
SPECIFICATION FairSpec
CONSTANTS
  w1 = w1
  w2 = w2
  Worker <- MCWorker
  Main = "main"
  Signal = "signal"
  Value <- SharedValue
  Domain <- OneDomain
  Item <- SharedItem
  DomainOf <- OneDomainOf
  Needs <- InterruptNeeds
  Raises = {"zone"}
  Batches <- SharedBatches
  MaxFibers = 1
  MaxInterrupts = 1
  Drops = TRUE
  Clears = FALSE
INVARIANTS WakeupFinished SomeoneRuns
PROPERTIES Fulfilled ShutdownEnds
