CONSTANTS
  Proc = {shell, child}
  Root = shell
  MaxFd = 3
  Pipes = {pipe}
  Controls = {control}
  Capacity = 1
  PipeBuf = 1
  None = None
  Workload <- PassingWorkload
SPECIFICATION Spec
PROPERTY SuccessStoresDescriptor
CHECK_DEADLOCK FALSE
