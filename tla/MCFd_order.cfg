CONSTANTS
  Proc = {shell, child}
  Root = shell
  MaxFd = 3
  Pipes = {pipe}
  Controls = {control}
  Capacity = 2
  PipeBuf = 1
  None = None
  Workload <- OrderWorkload
SPECIFICATION Spec
PROPERTIES
  RightsAreNotLost
  ChannelsKeepContract
CHECK_DEADLOCK FALSE
