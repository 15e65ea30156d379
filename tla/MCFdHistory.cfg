CONSTANTS
  Proc = {shell, child}
  Root = shell
  MaxFd = 2
  Pipes = {pipe}
  Controls = {}
  Capacity = 3
  PipeBuf = 2
  None = None
  Workload <- BooksWorkload
SPECIFICATION HistorySpec
INVARIANTS
  TypeOK
  EofIsFinal
  BrokenPipeIsFinal
  BooksBalance
CHECK_DEADLOCK FALSE
