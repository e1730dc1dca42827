\* An application with three calls, or a handler with one; timeouts, late responses,
\* lost connections and Close.
SPECIFICATION GatewayFairSpec
CONSTANTS
  Funcs <- TwoFuncs
  Fn <- TwoFn
  Args <- ThreeArgs
  PType = 5
  HType = 10
  JobId <- OneJobId
  Work <- EchoWork
  MaxConns = 2
  Breaks = {"eof", "reset"}
  CanClose = TRUE
INVARIANTS CallbackOnce IntactAnswer OwnResponse NoPanic
PROPERTIES DoReturns OneShotEnds
\* The calls are finitely many.
CHECK_DEADLOCK FALSE
