CONSTANT Devices = {0, 1, 4, 8, 12}
SPECIFICATION FairSpec
INVARIANTS
  HandledAcknowledged
  HandlersNotNested
PROPERTY TimerServed
