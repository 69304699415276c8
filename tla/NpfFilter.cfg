SPECIFICATION FilterSpec
CONSTANTS
  Bits = 2
  Words = 2
  JUMP_MAGIC = 18
  Table <- MCTable
  Heads <- MCHeads
  Names = {"a"}
  Subsets <- MCSubsets
  MAX_RULE_NESTING = 3
  NPF_MAX_RULES = 4
  MaxItems = 5
  M = 32
  DataLen = 3
  Mss = 2
  Win = 1
  Wscale = 1
  MaxAckWin = 2
  Isses <- MCIsses
  LossBehind = {"back"}
  Protos = {"TCP", "UDP", "GRE"}
INVARIANTS FilterSound ProgramValid RulesetSound ShownAsRun  
 
CHECK_DEADLOCK FALSE
