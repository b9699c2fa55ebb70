CONSTANTS
  Conns = {c1, c2}
  Fds = {f1, f2, f3}
  BigFds = {f3}
  NoFd = NoFd
  Callers = {w1, w2}
  Ops = {"Start", "Stop", "SetCallbacks", "Destroy"}
  Nobody = Nobody
  StopSignal = StopSignal
  PipeCapacity = 5
  MaxStarts = 2
  MaxSelectErrors = 1
  MaxListFailures = 1
SPECIFICATION Spec
SYMMETRY Symmetry
CHECK_DEADLOCK FALSE
INVARIANTS
  TypeOK
  OneOwner
  NeverBlocksInRecv
  DestroyReleasesServed
  NobodyWaitsInVain
PROPERTIES
  CallbacksFrozen
  CloseAfterJoin
