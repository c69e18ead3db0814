CONSTANTS
  Nodes   <- MCNodes
  Plugged <- MCPlugged
  Faults  <- MCFaults
  MaxFD   = 9
  Bauds   = 2
  MaxTags = 3
SPECIFICATION Spec
INVARIANTS TypeOK ClosesOwn FreedOnce DiscoveryRight BrokerGets
PROPERTY BridgeEnds
CHECK_DEADLOCK FALSE
