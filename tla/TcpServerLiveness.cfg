CONSTANTS
  Conns = {c1, c2}
  Fds = {f1, f2}
  NoFd = NoFd
  BigFds = {}
  Callers = {w1}
  Ops = {"Start", "Stop", "Destroy"}
  Nobody = Nobody
  StopSignal = StopSignal
  PipeCapacity = 3
  MaxStarts = 1
  MaxSelectErrors = 1
  MaxListFailures = 0
SPECIFICATION FairSpec
CHECK_DEADLOCK FALSE
PROPERTIES
  CallsReturn
  AcceptedIsServed
  NobodyStarves
