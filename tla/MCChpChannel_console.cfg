SPECIFICATION ConsoleSpec
CONSTANTS
  Values = {a, b}
  Bidir = FALSE
  p = p
  q = q
  Proc <- TwoProcs
  Pc <- SlotZero
  Probers = {"snd"}
  Dropped = Dropped
  MaxComms = 2
  Commands = {"mode","skip-rcv","skip-snd"}
  MaxCmds = 2
CHECK_DEADLOCK FALSE
INVARIANTS
  NeverForgotten
