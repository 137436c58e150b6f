\* Three sockets of one tab.
SPECIFICATION FairSpec
CONSTANTS
  Sockets = {w1, w2, w3}
  None = None
INVARIANTS TypeOK RetryOrReason FlagHasOwner SocketsBounded
PROPERTIES GatewayDownRetries
CHECK_DEADLOCK FALSE
