CONSTANTS
  PingLimit <- MCPingLimit
SPECIFICATION Spec
PROPERTY DeadTargetAccused
PROPERTY ServeReturns
