\* Two workers, one function, one caller: announcements that are repeated, calls one after the
\* other, and in the end up to three at once.
SPECIFICATION MCSpec
CONSTANTS
  Workers = {w1, w2}
  Callers = {c1}
  Names = {f1}
  MaxObjs = 3
  MaxListed = 3
  MaxBusy = 3
  MaxMet = 2
  None = None
INVARIANTS CountersAgreeAlone RegistryExactAlone
PROPERTIES PickIsServedAlone SelectionEnds
\* Connections end and are not opened again.
CHECK_DEADLOCK FALSE
