SPECIFICATION ConsoleSpec
CONSTANTS
  Values = {a, b}
  Bidir = FALSE
  p = p
  q = q
  Proc <- TwoProcs
  Pc <- SlotZero
  Probers = {}
  Dropped = Dropped
  MaxComms = 2
  Commands = {"skip-snd"}
  MaxCmds = 1
CHECK_DEADLOCK FALSE
INVARIANT
  SkipIsLocal
