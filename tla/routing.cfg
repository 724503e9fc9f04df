SPECIFICATION Spec
CONSTANTS
  c1 = c1
  c2 = c2
  r1 = r1
  r2 = r2
  g1 = g1
  g2 = g2
  Channels = {c1, c2}
  OldChannels = {c1}
  Routes = {r1, r2}
  GroupOf <- MCGroupOf
  TypeOf <- MCTypeOf
  Bodies <- MCBodies
  Replies <- MCReplies
  Handlers = {h1, h2}
  AutomaticDisableChannelEnabled = TRUE
  AutomaticEnableChannelEnabled = TRUE
  MaxCalls = 3
  MaxFaults = 1
  MetricChannels = {1}
  MetricQueueSize = 2
  MetricSuccessRateThreshold = 50
  MaxOutcomes = 6
SYMMETRY Interchangeable
CHECK_DEADLOCK FALSE
INVARIANTS
  RoutingTypeOK
  AbilitiesFollowChannels
  
  
  RateIsMeasured
