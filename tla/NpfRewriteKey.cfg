SPECIFICATION Spec
CONSTANTS
  B = 3
  Maps <- MCMaps
  Packets <- MCPackets
  Routers <- MCRouters
  NatPorts = {9, 55}
  Confs <- MCConfs
  RandomIds = {63}
  IfId = 2
  MaxFlows = 2
  MaxSteps = 3
INVARIANT KeysImported
CHECK_DEADLOCK FALSE
