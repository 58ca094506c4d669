SPECIFICATION Spec
CONSTANTS
  Values = {a, b}
  Bidir = TRUE
  p = p
  q = q
  Proc <- OneProc
  Pc <- TwoSlots
  Probers = {"rcv"}
  Dropped = Dropped
  MaxComms = 3
  Commands = {}
  MaxCmds = 0
CHECK_DEADLOCK FALSE
INVARIANTS
  TypeOK
  Fifo
  SlackZero
  NoFailure
  WakeOnce
  ProbeHonest
PROPERTIES
  CommsComplete
  ProbeWakes
  ImplementsRendezvous
