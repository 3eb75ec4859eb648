CONSTANTS
    Pairs = {p1}
    MaxPolls = 2
    MaxRaises = 1
    MaxQueue = 3
    BatchSize = 2
    MaxEvents = 5
SPECIFICATION WorkerSpec
INVARIANTS
  LifecycleSound
  SinkSound
PROPERTIES
  SignalEndsTheProcess
  SinkDrains
CHECK_DEADLOCK FALSE
