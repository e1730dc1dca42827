\* Two calls for one service; every request may be given up and applied late, leases
\* expire, Build panics, the process is started twice.
SPECIFICATION FairSpec
CONSTANTS
  s1 = s1
  Services = {s1}
  Calls = {1, 2}
  Ins <- TwoIns
  CanBuild = TRUE
  MaxRuns = 2
INVARIANTS OneRenewer OffUnlessLate
PROPERTIES Stops Rejoins
\* The calls are finitely many.
CHECK_DEADLOCK FALSE
