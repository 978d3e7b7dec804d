----------------------------- MODULE McpService -----------------------------
(***************************************************************************)
(* McpServerService (service.rs) under the SupervisionTree: Service::start *)
(* spawns the subprocess and makes the handshake; the root task pings the  *)
(* server until a ping fails or the kernel shuts down, and cleans up; the  *)
(* watcher aborts the root task at shutdown.                               *)
(***************************************************************************)
EXTENDS Supervision, McpConnection

CONSTANTS
  Server,  \* the registration of the one server
  Task     \* Service::start, then the root task, as a maker of requests

ASSUME McpAssumption ==
  /\ Service = {Server}
  /\ Policy[Server] = [kind |-> "OnFailure", max_attempts |-> U32Max]
  /\ Task \in Caller

VARIABLES
  root,     \* where Service::start, or the root task, is
  mcpEvent  \* the last event published about the server

treeVars == vars
mvars == <<vars, connVars, root, mcpEvent>>

MInit ==
  /\ Init
  /\ ConnInit
  /\ root = "none"
  /\ mcpEvent = "none"

Client == Caller \ {Task}

-----------------------------------------------------------------------------
(* McpServerService::start *)

StartService ==
  /\ StartCall(Server)
  /\ root' = "resolve"
  /\ UNCHANGED <<connVars, mcpEvent>>

(* resolve_env and the spawn of the subprocess; then the initialize request.*)
Spawn ==
  /\ root = "resolve"
  /\ child' = "alive"
  /\ root' = "spawned"
  /\ UNCHANGED <<treeVars, callerVars, pipe, stdout, working, registered, mcpEvent>>

(* A secret is missing, or the command cannot be run. *)
SpawnFails ==
  /\ root = "resolve"
  /\ StartErr(Server)
  /\ root' = "none"
  /\ UNCHANGED <<connVars, mcpEvent>>

Initialize ==
  /\ root = "spawned"
  /\ Begin(Task)
  /\ root' = "handshake"
  /\ UNCHANGED <<treeVars, mcpEvent>>

Succeeded == ~Busy(Task) /\ outcome[Task].how = "ok"
RequestFailed == ~Busy(Task) /\ outcome[Task].how # "ok"

(* The initialized notification. *)
Initialized ==
  /\ root = "handshake"
  /\ Succeeded
  /\ stdin = Nobody
  /\ Written(NoLine)
  /\ root' = "opened"
  /\ UNCHANGED <<treeVars, nextId, request, pending, inbox, outcome, stdin, stdout, serverVars,
                 registered, mcpEvent>>

(* The handshake failed: the connection is dropped, and the subprocess     *)
(* killed with it.                                                         *)
OpenFails ==
  /\ root = "handshake"
  /\ RequestFailed \/ (Succeeded /\ child = "dead")
  /\ Killed
  /\ StartErr(Server)
  /\ root' = "none"
  /\ UNCHANGED <<callerVars, stdout, registered, mcpEvent>>

(* Insert into the map, publish McpServerConnected, spawn the root task.   *)
Connected ==
  /\ root = "opened"
  /\ StartOk(Server)
  /\ registered' = TRUE
  /\ mcpEvent' = "McpServerConnected"
  /\ root' = "running"
  /\ UNCHANGED <<callerVars, pipe, stdout, serverVars>>

-----------------------------------------------------------------------------
(* The root task *)

(* A ping of a dead subprocess fails and is the last one, so only pings of *)
(* a live one need a bound.                                                *)
Ping ==
  /\ root = "running"
  /\ nextId <= MaxRequests \/ child = "dead"
  /\ Begin(Task)
  /\ root' = "pinging"
  /\ UNCHANGED <<treeVars, mcpEvent>>

PingOk ==
  /\ root = "pinging"
  /\ Succeeded
  /\ root' = "running"
  /\ UNCHANGED <<treeVars, connVars, mcpEvent>>

\* Mutant: the task returns without cleaning up.
PingFailsReturn ==
  /\ root = "pinging"
  /\ RequestFailed
  /\ mcpEvent' = "McpServerUnhealthy"
  /\ root' = "ended"
  /\ handle' = [handle EXCEPT ![Server] = "ok"]
  /\ UNCHANGED <<shutdown, call, watcher, attempt, last, children, aborts, drainVars>>
  /\ UNCHANGED connVars

(* Any error, a JSON-RPC error response included, ends the loop.           *)
PingFails ==
  /\ root = "pinging"
  /\ RequestFailed
  /\ mcpEvent' = "McpServerUnhealthy"
  /\ root' = "closing"
  /\ UNCHANGED <<treeVars, connVars>>

SeeSignal ==
  /\ root = "running"
  /\ shutdown
  /\ root' = "closing"
  /\ UNCHANGED <<treeVars, connVars, mcpEvent>>

(* close: kill the subprocess. *)
Close ==
  /\ root = "closing"
  /\ Killed
  /\ root' = "removing"
  /\ UNCHANGED <<treeVars, callerVars, stdout, registered, mcpEvent>>

\* Mutant: the connection stays in the map.
DisconnectRegistered ==
  /\ root = "removing"
  /\ mcpEvent' = "McpServerDisconnected"
  /\ root' = "ended"
  /\ handle' = [handle EXCEPT ![Server] = "ok"]
  /\ UNCHANGED <<shutdown, call, watcher, attempt, last, children, aborts, drainVars>>
  /\ UNCHANGED connVars

(* Leave the map, publish McpServerDisconnected, return.                   *)
Disconnect ==
  /\ root = "removing"
  /\ registered' = FALSE
  /\ mcpEvent' = "McpServerDisconnected"
  /\ root' = "ended"
  /\ handle' = [handle EXCEPT ![Server] = "ok"]
  /\ UNCHANGED <<shutdown, call, watcher, attempt, last, children, aborts, drainVars>>
  /\ UNCHANGED <<callerVars, pipe, stdout, serverVars>>

(* The abort by the watcher takes effect at an await point of the task; a  *)
(* ping in progress is dropped.                                            *)
RootAborted ==
  /\ handle[Server] = "aborting"
  /\ root \in {"running", "pinging", "closing", "removing"}
  /\ IF Busy(Task) THEN Cancel(Task) ELSE UNCHANGED connVars
  /\ root' = "aborted"
  /\ handle' = [handle EXCEPT ![Server] = "cancelled"]
  /\ UNCHANGED <<shutdown, call, watcher, attempt, last, children, aborts, drainVars>>
  /\ UNCHANGED mcpEvent

-----------------------------------------------------------------------------
RootStep ==
  \/ Spawn \/ Initialize \/ Initialized \/ OpenFails \/ Connected
  \/ Ping \/ PingOk \/ PingFails \/ SeeSignal \/ Close \/ Disconnect

TreeStep ==
  /\ \/ Register(Server)
     \/ SeeCleanExit(Server) \/ SeeCancelled(Server) \/ SeeShutdown(Server)
  /\ UNCHANGED <<connVars, root, mcpEvent>>

KernelShutdown == Shutdown /\ UNCHANGED <<connVars, root, mcpEvent>>

MNext ==
  \/ StartService \/ SpawnFails \/ RootStep \/ RootAborted
  \/ TreeStep \/ KernelShutdown
  \/ /\ \/ \E c \in Caller : RequestStep(c)
        \/ \E c \in Client : Call(c) \/ CallUnknown(c) \/ Cancel(c)
        \/ Deliver
        \/ ServerStep
     /\ UNCHANGED <<treeVars, root, mcpEvent>>

MSpec == MInit /\ [][MNext]_mvars

(* Tasks run, clocks advance, stdin's mutex is fair, and a subprocess that *)
(* died closes its pipes.  Nothing makes the subprocess read or answer,    *)
(* anybody call, or the kernel shut down.                                  *)
MFairness ==
  /\ WF_mvars(RootStep)
  /\ WF_mvars(RootAborted)
  /\ WF_mvars(TreeStep)
  /\ WF_mvars(Deliver /\ UNCHANGED <<treeVars, root, mcpEvent>>)
  /\ \A c \in Caller :
       /\ SF_mvars(LockStdin(c) /\ UNCHANGED <<treeVars, root, mcpEvent>>)
       /\ WF_mvars(RequestStep(c) /\ UNCHANGED <<treeVars, root, mcpEvent>>)

MFairSpec == MSpec /\ MFairness

-----------------------------------------------------------------------------
(* Every variable has its type. *)
MTypeOK ==
  /\ TypeOK
  /\ ConnTypeOK
  /\ root \in {"none", "resolve", "spawned", "handshake", "opened", "running", "pinging",
               "closing", "removing", "ended", "aborted"}
  /\ mcpEvent \in {"none", "McpServerConnected", "McpServerUnhealthy",
                   "McpServerDisconnected"}

Sound == MTypeOK /\ PendingAccounted

(* Events tell the truth about the subprocess and the map: a server that   *)
(* was announced disconnected is dead and cannot be called, and a          *)
(* connection is in the map only after it was announced.                   *)
DisconnectedIsGone ==
  /\ mcpEvent = "McpServerDisconnected" => ~registered /\ child = "dead"
  /\ registered => mcpEvent \in {"McpServerConnected", "McpServerUnhealthy"}
  /\ child = "alive" => root \notin {"none", "ended"}

(* A subprocess that died is found out, though the reader tells nobody of  *)
(* it: McpServerDisconnected follows, unless the kernel shuts down.        *)
DeathNoticed ==
  child = "dead" /\ registered ~> mcpEvent = "McpServerDisconnected" \/ shutdown

=============================================================================
