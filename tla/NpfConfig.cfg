SPECIFICATION Spec
CONSTANTS
  Rules = {r1, r2}
  Tables = {t1, t2, t3, t4}
  Sets = {s1, s2}
  Configs <- MCConfigs
  First <- MCFirst
  Keys = {k1}
  Prios <- MCPrios
  Cidrs <- MCCidrs
  Bits = 1
  Readers = {x1}
  NULL = NULL
  MaxId = 3
  Overlap = FALSE
SYMMETRY MCSymmetry
INVARIANTS
  
  WalkSound
  RulesOwned
  
PROPERTIES
  ReloadKeeps
