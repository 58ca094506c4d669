SPECIFICATION Spec
CONSTANTS
  t1 = t1
  t2 = t2
  t3 = t3
  c1 = c1
  c2 = c2
  c3 = c3
  v1 = v1
  Thread <- MCThread
  Chan <- MCChan
  Var = {v1}
  Probes <- MCProbes
  Reads <- MCReads
  None = None
  MaxWrites = 3
CHECK_DEADLOCK FALSE
INVARIANTS
  NoFailure
  NothingLeftBehind
  WriteReachesAll
  EveryStallCounts
PROPERTIES
  GuardServed
