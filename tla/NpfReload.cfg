SPECIFICATION ReloadSpec
CONSTANTS
  Threads = {t1, t2}
  Conns = {c0}
  Rprocs = {p1, p2}
  Sites <- HandlerSites
  None = None
  Worker = worker
  Ctl = {loader}
  Loader = loader
  DbConns = {c1, c2}
  ab = ab
  ba = ba
  xy = xy
  PktKeys = {ab}
  NatKeys = {xy}
  DBs = {odb, ndb}
  db0 = odb
SYMMETRY ReloadSymmetry
INVARIANTS
  
  RprocRefcntExact
  NoFreedUse
