CONSTANTS
  Proc = {shell, child}
  Root = shell
  MaxFd = 2
  Pipes = {pipe}
  Controls = {}
  Capacity = 1
  PipeBuf = 1
  None = None
  Workload <- PipeWorkload
SPECIFICATION Spec
INVARIANT NullMeansEof
CHECK_DEADLOCK FALSE
