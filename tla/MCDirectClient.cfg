\* Two callers on one Client, a service that fails and one that is registered late.
SPECIFICATION MCSpec
CONSTANTS
  x1 = x1  x2 = x2
  Callers = {x1, x2}
  MaxCalls = 2
  MaxConns = 2
  Service <- FourServices
  Input <- FourInputs
  Handler <- EchoHandler
  Services <- ThreeServices
  Late <- OneLate
INVARIANT OwnReplyAlone
PROPERTY CallReturns
\* The calls are finitely many.
CHECK_DEADLOCK FALSE
