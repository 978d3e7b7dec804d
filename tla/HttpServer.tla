----------------------------- MODULE HttpServer -----------------------------
(***************************************************************************)
(* The HTTP application server (walastack-app): HttpService::start binds   *)
(* and spawns the accept loop; every accepted connection is a task of its  *)
(* own that the loop neither awaits nor aborts, serves the requests of its *)
(* connection one after the other, and outlives the loop until the process *)
(* ends.  A request is read whole, then dispatched; the steps between two  *)
(* awaits of its handler are the actions of the module that extends this.  *)
(* A client may hang up at any moment, which drops the handler.            *)
(***************************************************************************)
EXTENDS Routing

CONSTANTS
    Conn,          \* client connections
    NoRequest,
    NoHandler,     \* Router::dispatch returned None
    MaxRequests    \* bound: requests, of all connections

VARIABLES
    listener,   \* "down", "accepting", "starved" (of descriptors), "failed",
                \* "closed" or "exited"
    conn,       \* per connection: "idle", "queued", "open" or "closed"
    request,    \* per connection: the request being served
    handler,    \* per connection: the handler the router found
    at,         \* per connection: the await the task stands at
    reply,      \* per connection: the response to its last request
    sent        \* how many requests have been sent

httpVars == <<listener, conn, request, handler, at, reply, sent>>
taskVars == <<request, handler, at, reply>>

NoReply == [status |-> 0]
Reply(status) == [status |-> status]

HttpInit ==
    /\ listener = "down"
    /\ conn = [c \in Conn |-> "idle"]
    /\ request = [c \in Conn |-> NoRequest]
    /\ handler = [c \in Conn |-> NoHandler]
    /\ at = [c \in Conn |-> "none"]
    /\ reply = [c \in Conn |-> NoReply]
    /\ sent = 0

Goto(c, step) == at' = [at EXCEPT ![c] = step]

\* What a request held goes with it.
Release(cs) ==
    /\ request' = [c \in Conn |-> IF c \in cs THEN NoRequest ELSE request[c]]
    /\ handler' = [c \in Conn |-> IF c \in cs THEN NoHandler ELSE handler[c]]
    /\ reply' = [c \in Conn |-> IF c \in cs THEN NoReply ELSE reply[c]]
    /\ at' = [c \in Conn |-> IF c \in cs THEN "none" ELSE at[c]]

-----------------------------------------------------------------------------
(* HttpService::start and accept_loop.                                     *)

Bind ==
    /\ listener = "down"
    /\ listener' \in {"accepting", "failed"}
    /\ UNCHANGED <<conn, taskVars, sent>>

Looping == listener \in {"accepting", "starved"}

\* Mutant: the loop serves the connection before it accepts the next one.
AcceptInline(c) ==
    /\ listener = "accepting" /\ conn[c] = "queued"
    /\ \A d \in Conn : conn[d] # "open"
    /\ conn' = [conn EXCEPT ![c] = "open"]
    /\ UNCHANGED <<listener, taskVars, sent>>

\* Either branch of the select may be taken while both are ready.
Accept(c) ==
    /\ listener = "accepting" /\ conn[c] = "queued"
    /\ conn' = [conn EXCEPT ![c] = "open"]
    /\ UNCHANGED <<listener, taskVars, sent>>

\* accept fails and the loop, having warned, goes on: there is no descriptor for
\* the connection, which stays in the backlog, or the connection was reset there.
AcceptError(c) ==
    /\ listener = "accepting" /\ conn[c] = "queued"
    /\ \/ listener' = "starved" /\ UNCHANGED conn
       \/ conn' = [conn EXCEPT ![c] = "closed"] /\ UNCHANGED listener
    /\ UNCHANGED <<taskVars, sent>>

\* accept keeps failing until a descriptor is given back; the connections of the
\* process, which nothing limits or times out, may hold them for ever.
DescriptorBack ==
    /\ listener = "starved"
    /\ listener' = "accepting"
    /\ UNCHANGED <<conn, taskVars, sent>>

\* The shutdown signal may fire at any moment; the loop sees it, the listener
\* is dropped and what waits in its backlog is reset.
SeeSignal ==
    /\ Looping
    /\ listener' = "closed"
    /\ conn' = [c \in Conn |-> IF conn[c] = "queued" THEN "closed" ELSE conn[c]]
    /\ UNCHANGED <<taskVars, sent>>

\* Runtime::run returns once the services have drained, whatever the
\* connection tasks are at; main returns, and the process ends with them.
Exit ==
    /\ listener \in {"closed", "failed"}
    /\ listener' = "exited"
    /\ conn' = [c \in Conn |-> "closed"]
    /\ Release(Conn)
    /\ UNCHANGED sent

-----------------------------------------------------------------------------
(* Clients.                                                                *)

Connect(c) ==
    /\ Looping /\ conn[c] = "idle"
    /\ conn' = [conn EXCEPT ![c] = "queued"]
    /\ UNCHANGED <<listener, taskVars, sent>>

SendHead(c, r) ==
    /\ conn[c] = "open" /\ at[c] = "none" /\ sent < MaxRequests
    /\ request' = [request EXCEPT ![c] = r]
    /\ sent' = sent + 1
    /\ Goto(c, "body")
    /\ UNCHANGED <<listener, conn, handler, reply>>

Lost(c) ==
    /\ conn' = [conn EXCEPT ![c] = "closed"]
    /\ Release({c})
    /\ UNCHANGED <<listener, sent>>

HangUp(c) == conn[c] = "open" /\ Lost(c)

-----------------------------------------------------------------------------
(* serve_request and dispatch_request.                                     *)

\* The handler's future, or the server itself, has a response.
Finish(c, response) ==
    /\ reply' = [reply EXCEPT ![c] = response]
    /\ Goto(c, "respond")
    /\ UNCHANGED <<listener, conn, request, sent>>

ReadBodyFails(c) == at[c] = "body" /\ Finish(c, Reply(400)) /\ UNCHANGED handler

\* The body is there: the context is injected and the router asked.
ReadBody(c, router) ==
    /\ at[c] = "body"
    /\ LET found == Dispatch(router, request[c].method, request[c].path, NoHandler)
       IN  /\ handler' = [handler EXCEPT ![c] = found]
           /\ IF found = NoHandler THEN Finish(c, Reply(404))
              ELSE /\ Goto(c, "extract")
                   /\ UNCHANGED <<listener, conn, request, reply,
                                  sent>>

\* The response is written; the connection is kept alive.
Respond(c) ==
    /\ at[c] = "respond"
    /\ Release({c})
    /\ UNCHANGED <<listener, conn, sent>>

Await(c, step) ==
    /\ Goto(c, step)
    /\ UNCHANGED <<listener, conn, request, reply, sent>>

ServerStep(router) ==
    \/ Bind \/ DescriptorBack \/ SeeSignal \/ Exit
    \/ \E c \in Conn :
          \/ Accept(c) \/ AcceptError(c) \/ Connect(c) \/ HangUp(c)
          \/ ReadBody(c, router) \/ ReadBodyFails(c) \/ Respond(c)
=============================================================================
