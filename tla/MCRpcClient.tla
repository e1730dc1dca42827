---------------------------- MODULE MCRpcClient -----------------------------
(* An instance of RpcClient with its users for TLC. *)
EXTENDS Gateway

\* Two functions; the name of one is the beginning of the other's.
f == <<31>>
g == <<31, 32>>
TwoFuncs == {f, g}

\* Two calls of one function, then one of another, with parameters of different
\* lengths; one starts like a name and its length.
TwoFn == <<f, f, g>>
ThreeArgs == <<<<41>>, <<41, 42>>, <<1, 31>>>>

\* A uuid.
OneJobId == <<51, 52>>

\* A function whose result shows all it was given.
EchoWork(job) ==
  <<job.ParamsType, job.ParamsHandleType>> \o job.JobId \o job.Params \o job.Handle
=============================================================================
