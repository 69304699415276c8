SPECIFICATION Spec
SYMMETRY Symmetry
CONSTANTS
  Policies = {q1, q2, q3}
  Nats = {n1, n2}
  Conns = {c1, c2}
  Ports = {1}
  Specs = {"rr", "static"}
  MaxRules = 2
  Packets = {p1}
  NULL = NULL
  Quiet = TRUE
INVARIANTS
  PolicyRefs
  PortsOwned
  
  DroppedDrains
