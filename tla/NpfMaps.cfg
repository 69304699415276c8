SPECIFICATION MapsSpec
CONSTANTS
  Threads = {t1, t2}
  min_port = 4
  max_port = 7
  L0Size = 4
  L1Size = 2
  Slots = 1
  MaxHeld = 6
  Conns = {c1, c2, c3}
  Steps = {2}
  None = None
INVARIANTS
  NoSharedPort
  BitmapExact
  MarkerOnList
PROPERTIES
  GivesUpOnlyWhenAllTried
  NoLivelock
  PassComplete
  ExpiredIsDestroyed
