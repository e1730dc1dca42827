---------------------------- MODULE DirectClient ----------------------------
(***************************************************************************)
(* A direct.Client, src/pkg/direct/client.go, and the direct.Server behind *)
(* it, src/pkg/direct/server.go.  Call takes the mutex to look conn up and *)
(* lets it go; the request, the header and the content of the reply are    *)
(* then written and read on a connection that every caller of this Client  *)
(* shares.  A reply does not say which request it answers.  The frames are *)
(* those of DirectCodec, on a stream of cells in either direction.         *)
(***************************************************************************)
EXTENDS DirectCodec, FiniteSets

CONSTANTS
  Callers,       \* goroutines that use the Client
  MaxCalls,      \* bound: calls of each caller
  MaxConns,      \* bound: connections dialled
  Service,       \* the service each call names, a sequence of bytes
  Input,         \* and what it is given
  Handler(_, _), \* what the handler of a service makes of a payload: [err, data]
  Services,      \* the services that have a handler ...
  Late           \* ... and those of them that are registered while the server runs

\* What the server itself has to say.
BadRequest == <<91>>
NoSuchService == <<92>>
Unsupported == <<93>>
Healthy == <<94>>

Conns == 1..MaxConns
CallIds == Callers \X (1..MaxCalls)

\* No handler fails in the words in which the server says that there is none.
ASSUME DirectClientAssumption ==
  /\ MaxCalls \in Nat /\ MaxConns \in Nat /\ Late \subseteq Services
  /\ DOMAIN Service = CallIds /\ DOMAIN Input = CallIds
  /\ \A k \in CallIds :
       LET r == Handler(Service[k], Input[k]) IN
       /\ Service[k] \in Seq(Nat) /\ Input[k] \in Seq(Nat)
       /\ r.err \in BOOLEAN /\ r.data \in Seq(Nat)
       /\ r.err => r.data # NoSuchService

VARIABLES
  conn,      \* Client.conn, 0 for nil
  dialled,   \* connections made so far
  open,      \* the connections that are open
  requests,  \* the cells on their way to the server, by connection
  stream,    \* the cells on their way to the client, by connection
  handlers,  \* the names in Server.handlers
  pc, mine,  \* where a caller stands, and the conn it looked up
  want,      \* the content length in the header a caller has read
  nth,       \* the call a caller is in
  outcome    \* how each call ended, and the data or the error it returned

directVars == <<conn, dialled, open, requests, stream, handlers, pc, mine, want, nth, outcome>>

DirectInit ==
  /\ conn = 0 /\ dialled = 0 /\ open = {}
  /\ requests = [n \in Conns |-> <<>>] /\ stream = [n \in Conns |-> <<>>]
  /\ handlers = Services \ Late
  /\ pc = [x \in Callers |-> "idle"] /\ mine = [x \in Callers |-> 0]
  /\ want = [x \in Callers |-> 0] /\ nth = [x \in Callers |-> 0]
  /\ outcome = [k \in CallIds |-> [how |-> "none", text |-> <<>>]]

Id(x) == <<x, nth[x]>>
Goto(x, place) == pc' = [pc EXCEPT ![x] = place]
End(x, how, text) ==
  Goto(x, "idle") /\ outcome' = [outcome EXCEPT ![Id(x)] = [how |-> how, text |-> text]]
Fails(x) == End(x, "failed", <<>>)
netVars == <<requests, stream, handlers>>

getHandler(name) == name \in handlers

\* The reply content handleConn writes for a frame of the type and content.
ReplyTo(type, content) ==
  LET call == UnpackCall(content)
      r == Handler(call.Service, call.Payload)
  IN CASE type = DTHealth -> PackReply(0, Healthy)
       [] type \notin {DTCall, DTHealth} -> PackReply(1, Unsupported)
       [] type = DTCall /\ ~call.ok -> PackReply(1, BadRequest)
       [] type = DTCall /\ call.ok /\ ~getHandler(call.Service) -> PackReply(2, NoSuchService)
       [] OTHER -> PackReply(IF r.err THEN 3 ELSE 0, r.data)

-----------------------------------------------------------------------------
(* Call *)

Call(x) ==
  /\ pc[x] = "idle" /\ nth[x] < MaxCalls
  /\ nth' = [nth EXCEPT ![x] = @ + 1] /\ Goto(x, "connect")
  /\ UNCHANGED <<conn, dialled, open, netVars, mine, want, outcome>>

\* Connect, under the mutex: the conn there is, a new one, or a dial error.
Connect(x) ==
  /\ pc[x] = "connect"
  /\ \/ conn # 0 /\ Goto(x, "lookup") /\ UNCHANGED <<conn, dialled, open, outcome>>
     \/ /\ conn = 0 /\ dialled < MaxConns /\ Goto(x, "lookup")
        /\ dialled' = dialled + 1 /\ conn' = dialled' /\ open' = open \cup {dialled'}
        /\ UNCHANGED outcome
     \/ conn = 0 /\ Fails(x) /\ UNCHANGED <<conn, dialled, open>>
  /\ UNCHANGED <<netVars, mine, want, nth>>

\* conn := c.conn; another caller may have closed it meanwhile.
LookUp(x) ==
  /\ pc[x] = "lookup"
  /\ \/ conn # 0 /\ mine' = [mine EXCEPT ![x] = conn] /\ Goto(x, "write") /\ UNCHANGED outcome
     \/ conn = 0 /\ Fails(x) /\ UNCHANGED mine
  /\ UNCHANGED <<conn, dialled, open, netVars, want, nth>>

\* writeAll of the packed call.
Write(x) ==
  LET req == PackFrame(ConnTypeDirectClient, DTCall, PackCall(Service[Id(x)], Input[Id(x)])) IN
  /\ pc[x] = "write"
  /\ \/ /\ mine[x] \in open /\ Goto(x, "head")
        /\ requests' = [requests EXCEPT ![mine[x]] = @ \o req]
     \/ mine[x] \notin open /\ Goto(x, "fail") /\ UNCHANGED requests
  /\ UNCHANGED <<conn, dialled, open, stream, handlers, mine, want, nth, outcome>>

\* ReadFull of a header: whatever comes next, which must be the header of a reply.
ReadHead(x) ==
  LET s == stream[mine[x]] IN
  /\ pc[x] = "head" /\ HasHeader(s)
  /\ stream' = [stream EXCEPT ![mine[x]] = AfterHeader(@)]
  /\ \/ /\ ConnTypeOf(s) = ConnTypeDirectServer /\ DataTypeOf(s) = DTReply
        /\ want' = [want EXCEPT ![x] = ContentLenOf(s)] /\ Goto(x, "body")
     \/ /\ ~(ConnTypeOf(s) = ConnTypeDirectServer /\ DataTypeOf(s) = DTReply)
        /\ Goto(x, "fail") /\ UNCHANGED want
  /\ UNCHANGED <<conn, dialled, open, requests, handlers, mine, nth, outcome>>

\* ReadFull of the content and UnpackReply; a status other than 0 is an error of
\* the call that leaves the connection as it is.
ReadBody(x) ==
  LET s == stream[mine[x]]
      reply == UnpackReply(Taken(s, want[x]))
  IN
  /\ pc[x] = "body" /\ Len(s) >= want[x]
  /\ stream' = [stream EXCEPT ![mine[x]] = Rest(@, want[x])]
  /\ want' = [want EXCEPT ![x] = 0]
  /\ \/ ~reply.ok /\ Goto(x, "fail") /\ UNCHANGED outcome
     \/ reply.ok /\ End(x, IF reply.Status = 0 THEN "data" ELSE "error", reply.Data)
  /\ UNCHANGED <<conn, dialled, open, requests, handlers, mine, nth>>

\* Mutant of ReadFails: no deadline is set on the connection.
ReadFailsNoDeadline(x) ==
  /\ pc[x] \in {"head", "body"} /\ mine[x] \notin open /\ Goto(x, "fail")
  /\ UNCHANGED <<conn, dialled, open, netVars, mine, want, nth, outcome>>

\* A read fails: the connection is closed, or the deadline passes.
ReadFails(x) ==
  /\ pc[x] \in {"head", "body"} /\ Goto(x, "fail")
  /\ UNCHANGED <<conn, dialled, open, netVars, mine, want, nth, outcome>>

\* Mutant of CloseConn: a failed call leaves the connection as it is.
CloseConnNot(x) ==
  /\ pc[x] = "fail" /\ Fails(x)
  /\ UNCHANGED <<conn, dialled, open, netVars, mine, want, nth>>

\* c.Close() after any error: it closes what conn is by now.
CloseConn(x) ==
  /\ pc[x] = "fail" /\ Fails(x)
  /\ conn' = 0 /\ open' = open \ {conn}
  /\ stream' = [n \in Conns |-> IF n = conn THEN <<>> ELSE stream[n]]
  /\ UNCHANGED <<dialled, requests, handlers, mine, want, nth>>

-----------------------------------------------------------------------------
(* direct.Server *)

\* handleConn reads a frame and writes its reply before it reads the next.
Serve(n) ==
  LET s == requests[n]
      content == Taken(AfterHeader(s), ContentLenOf(s))
      reply == ReplyTo(DataTypeOf(s), content)
  IN
  /\ n \in open /\ HasHeader(s) /\ ConnTypeOf(s) = ConnTypeDirectClient
  /\ requests' = [requests EXCEPT ![n] = Rest(AfterHeader(@), ContentLenOf(@))]
  /\ stream' = [stream EXCEPT ![n] =
                  @ \o PackFrame(ConnTypeDirectServer, DTReply, reply)]
  /\ UNCHANGED <<conn, dialled, open, handlers, pc, mine, want, nth, outcome>>

\* Server.Register, while connections are served.
ServerRegister(name) ==
  /\ name \in Late \ handlers /\ handlers' = handlers \cup {name}
  /\ UNCHANGED <<conn, dialled, open, requests, stream, pc, mine, want, nth, outcome>>

\* handleConn returns and closes the connection; what it has written can be read.
ServerCloses(n) ==
  /\ n \in open /\ open' = open \ {n}
  /\ UNCHANGED <<conn, dialled, netVars, pc, mine, want, nth, outcome>>

-----------------------------------------------------------------------------
CallStep(x) ==
  \/ Connect(x) \/ LookUp(x) \/ Write(x) \/ ReadHead(x) \/ ReadBody(x) \/ ReadFails(x)
  \/ CloseConn(x)

DirectNext ==
  \/ \E x \in Callers : Call(x) \/ CallStep(x)
  \/ \E n \in Conns : Serve(n) \/ ServerCloses(n)
  \/ \E name \in Late : ServerRegister(name)

DirectSpec == DirectInit /\ [][DirectNext]_directVars

-----------------------------------------------------------------------------
(* Properties *)

\* A call that is answered gets what the handler of its service makes of its own
\* payload, as data or as the handler's error; or it is told that its service is
\* missing, and then that service is one that was registered late or never.
OwnReply ==
  \A k \in CallIds :
    LET r == Handler(Service[k], Input[k])
        missing == outcome[k] = [how |-> "error", text |-> NoSuchService]
    IN /\ missing => Service[k] \notin Services \ Late
       /\ outcome[k].how \in {"data", "error"} /\ ~missing =>
            /\ Service[k] \in handlers
            /\ outcome[k] = [how |-> IF r.err THEN "error" ELSE "data", text |-> r.data]

\* Every call returns, also when several callers share the connection, read
\* each other's bytes and close it under each other.
CallReturns == \A x \in Callers : pc[x] # "idle" ~> pc[x] = "idle"
=============================================================================
