CONSTANTS
  Proc = {shell, child}
  Root = shell
  MaxFd = 2
  Pipes = {pipe}
  Controls = {}
  Capacity = 2
  PipeBuf = 1
  None = None
  Workload <- LiveWorkload
SPECIFICATION FairSpec
PROPERTY OrphansAreReleased
CHECK_DEADLOCK FALSE
