CONSTANTS
  Proc = {shell, child}
  Root = shell
  MaxFd = 3
  Pipes = {pipe}
  Controls = {control}
  Capacity = 2
  PipeBuf = 1
  None = None
  Workload <- PassingWorkload
SPECIFICATION Spec
INVARIANTS
  EofIsFinal
  Consistent
PROPERTIES
  ClosedStaysClosed
CHECK_DEADLOCK FALSE
