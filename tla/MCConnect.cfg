\* Three frames of different lengths written at once to a queue of one entry.
SPECIFICATION FairSpec
CONSTANTS
  f1 = f1  f2 = f2  f3 = f3
  Frames = {f1, f2, f3}
  FLen <- MixedLen
  MaxBytes = 2
  QueueCap = 1
  NoFrame = NoFrame
INVARIANTS PendingExact WireInOrder
PROPERTIES AcceptedIsWritten ClosedGoesDown
\* The connection ends.
CHECK_DEADLOCK FALSE
