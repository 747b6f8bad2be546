CONSTANTS
  Delivery = {d1, d2}
  Worker = {desktop, gateway}
  NoWorker = NoWorker
  NoDelivery = NoDelivery
  MaxAttempts = 2
  MaxCrashes = 1
  MaxStalls = 0
SPECIFICATION FairSpec
INVARIANTS Truthful
PROPERTIES SettledForGood Settles ImplementsLedger
CHECK_DEADLOCK FALSE
