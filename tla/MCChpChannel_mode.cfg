SPECIFICATION ConsoleSpec
CONSTANTS
  Values = {a, b}
  Bidir = FALSE
  p = p
  q = q
  Proc <- TwoProcs
  Pc <- SlotZero
  Probers = {"rcv"}
  Dropped = Dropped
  MaxComms = 2
  Commands = {"mode"}
  MaxCmds = 2
CHECK_DEADLOCK FALSE
INVARIANT
  ModeIsTransparent
