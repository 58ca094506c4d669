SPECIFICATION Spec
CONSTANTS
  Node <- WeakNode
  Gate <- WeakGate
  Out <- WeakOut
  Drivers <- WeakDrivers
  ExclHi <- None
  ExclLo <- None
  Stimuli <- WeakStimuli
  RandomChoice = FALSE
  MaxQueue = 1
INVARIANTS Settled
