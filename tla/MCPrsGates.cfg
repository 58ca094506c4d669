SPECIFICATION Spec
CONSTANTS
  Node <- FreeNode
  Gate <- FreeGate
  Out <- FreeOut
  Drivers <- FreeDrivers
  ExclHi <- FreeHi
  ExclLo <- FreeLo
  Stimuli <- FreeStimuli
  RandomChoice = TRUE
  MaxQueue = 1
INVARIANTS TypeOK Exclusive OneEvent NoFalseAlarm NoStaleRemoval Settled
PROPERTIES ImplementsProductionRules
