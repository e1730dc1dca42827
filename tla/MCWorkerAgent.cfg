\* Two jobs, a heartbeat, a function added late, a connection lost or silent.
SPECIFICATION MCSpec
CONSTANTS
  Jobs = {j1, j2}
  Funcs = {f1}
  Late = {f3}
  MaxRunning = 2
  MaxBeats = 1
  MaxConns = 2
  NoJob = NoJob
INVARIANTS ResultOnce OwnHeaderAlone AnnouncedUnlessOverwritten
\* Jobs, heartbeats and connections are finitely many.
CHECK_DEADLOCK FALSE
