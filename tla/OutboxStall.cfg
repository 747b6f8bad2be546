CONSTANTS
  Delivery = {d1}
  Worker = {desktop, gateway}
  NoWorker = NoWorker
  NoDelivery = NoDelivery
  MaxAttempts = 2
  MaxCrashes = 1
  MaxStalls = 1
SPECIFICATION Spec
INVARIANT RetryIsSafe
CHECK_DEADLOCK FALSE
