SPECIFICATION DataSpec
CONSTANTS
  Node <- MCNode
  Graph <- MCGraph
  Roots <- MCRoots
  Npc <- MCNpc
  Counters <- MCCounters
  Stmts <- MCStmts
  Order <- NoOrder
  Must <- NoOrder
  MaxTurns = 0
  Fun <- MCFun
  Assign <- MCAssign
  Guard <- MCGuard
  ProcessText <- MCProcessText
  Code <- MCCode
  Input <- MCInput
CHECK_DEADLOCK FALSE
INVARIANTS
  WidthsKept
  SameAsProcess
