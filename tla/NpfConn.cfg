SPECIFICATION Spec
CONSTANTS
  Threads = {t1, t2}
  Worker = worker
  Ctl = {}
  Conns = {c1, c2}
  ab = ab
  ba = ba
  xy = xy
  Keys <- MCKeys
  PktKeys <- MCPktKeys
  NatKeys <- MCNatKeys
  Rev <- MCRev
  DBs = {db}
  db0 = db
  None = None
SYMMETRY Symmetry
INVARIANTS
  IInv
  NoUseAfterFree
  RefcntExact
  RemoveFindsConn
PROPERTIES
  ImplementsLifecycle
