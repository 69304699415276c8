SPECIFICATION Spec
CONSTANTS
  Threads = {t1, t2}
  Conns = {c1}
  Rprocs = {r1, r2}
  Sites <- NatProcSites
  None = None
SYMMETRY Symmetry
INVARIANTS
  RprocRefcntExact
