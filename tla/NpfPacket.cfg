SPECIFICATION PacketSpec
CONSTANTS
  B = 3
  Maps <- MCMaps
  Packets <- MCPackets
  Routers <- MCRouters
  NatPorts = {9, 55}
  Confs <- MCConfs
  RandomIds = {63}
  IfId = 2
  MaxFlows = 2
  MaxSteps = 3
  Frames <- MCFrames
  Cuts = {0, 1}
  MaxBlocks = 3
  MaxUses = 2
INVARIANTS
  ValidOut
  ReplyReturns
  FlowKept
  Normalised
  
CHECK_DEADLOCK FALSE
