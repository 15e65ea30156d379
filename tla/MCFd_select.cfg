CONSTANTS
  Proc = {shell, child}
  Root = shell
  MaxFd = 1
  Pipes = {pipe}
  Controls = {}
  Capacity = 1
  PipeBuf = 1
  None = None
  Workload <- SelectWorkload
SPECIFICATION Spec
INVARIANTS
  SelectErrorIsFinal
PROPERTIES
  TellsOfClosedPipes
  TellsOfInput
  ReadinessIsTakenByOthers
CHECK_DEADLOCK FALSE
