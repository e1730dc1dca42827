\* Two goroutines call WorkerClose; one frame of the server, one reconnection.
SPECIFICATION FairLifeSpec
CONSTANTS
  Closers = {c1, c2}
  MaxDials = 2
  MaxFrames = 1
  QUEUE_SIZE = 1
INVARIANTS ClosedForGood
PROPERTIES WindsDown
\* A worker that was closed has stopped.
CHECK_DEADLOCK FALSE
