SPECIFICATION Spec
CONSTANTS
  Node <- MCNode
  Graph <- MCGraph
  Roots <- MCRoots
  Npc <- MCNpc
  Counters <- MCCounters
  Stmts <- MCStmts
  Order <- MCOrder
  Must <- MCMust
  MaxTurns = 3
CHECK_DEADLOCK FALSE
INVARIANTS
  TypeOK
  SlotsExclusive
  NoOverflow
  ForkJoin
  Ordered
  NothingStranded
