\* Two threads of a process and a circuit between them.
CONSTANTS
  Wire <- MCWire
  Forward <- MCForward
  Text <- MCText
  Method <- MCMethod
  RecvProbe <- Valid
  MaxComms = 3
SPECIFICATION Spec
INVARIANTS
  OneWakeEach
  ProbeMeansData
PROPERTIES
  FourPhase
  ImplementsRendezvous
CHECK_DEADLOCK FALSE
