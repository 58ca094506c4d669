SPECIFICATION Spec
CONSTANTS
  Node <- WildNode
  Gate <- WildGate
  Out <- WildOut
  Drivers <- WildDrivers
  ExclHi <- WildHi
  ExclLo <- None
  Stimuli <- WildStimuli
  RandomChoice = FALSE
  MaxQueue = 1
INVARIANTS XIsCleared NotSilentlyWrong
