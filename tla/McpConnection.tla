---------------------------- MODULE McpConnection ----------------------------
(***************************************************************************)
(* StdioConnection and StdioMcp of walastack-mcp (stdio.rs): requests of   *)
(* many callers to one subprocess, written to its stdin line by line and   *)
(* matched with the responses by id, in a map that a reader task empties.  *)
(*                                                                         *)
(* A request is named by its caller and the caller's count of requests; a  *)
(* line is a record of the JSON-RPC id and the request it stands for.      *)
(* Notifications from the subprocess and lines the reader cannot parse are *)
(* only logged and are left out.                                           *)
(***************************************************************************)
EXTENDS Naturals, Sequences, FiniteSets

CONSTANTS
  Caller,      \* tasks that make requests
  Nobody,      \* no caller
  PipeSize,    \* lines the pipe to the subprocess holds
  MaxRequests  \* bound on the requests made of a live subprocess

ASSUME ConnectionAssumption ==
  /\ Nobody \notin Caller
  /\ PipeSize \in Nat \ {0}
  /\ MaxRequests \in Nat

VARIABLES
  nextId,     \* next_id
  request,    \* caller -> where its request is, its id, how many it made
  pending,    \* ids in the pending map
  inbox,      \* responses in the oneshot channels of requests
  outcome,    \* caller -> how its last request ended, and the response it got
  stdin,      \* the holder of the stdin mutex
  torn,       \* was the last line left unfinished?
  pipe,       \* lines written and not read by the subprocess
  child,      \* the subprocess: "none", "alive", "dead"
  working,    \* requests the subprocess has read and not answered
  stdout,     \* responses the reader has not read
  registered  \* is the connection in StdioMcp's map?

callerVars == <<nextId, request, pending, inbox, outcome, stdin, torn>>
serverVars == <<child, working>>
connVars == <<callerVars, pipe, stdout, serverVars, registered>>

NoLine == [id |-> 0, of |-> <<Nobody, 0>>]  \* a line that asks for no answer

ConnInit ==
  /\ nextId = 1
  /\ request = [c \in Caller |-> [at |-> "idle", id |-> 0, no |-> 0]]
  /\ pending = {}
  /\ inbox = {}
  /\ outcome = [c \in Caller |-> [how |-> "none", got |-> <<Nobody, 0>>]]
  /\ stdin = Nobody
  /\ torn = FALSE
  /\ pipe = <<>>
  /\ child = "none"
  /\ working = {}
  /\ stdout = <<>>
  /\ registered = FALSE

At(c, place) == request[c].at = place
Busy(c) == ~At(c, "idle")
Goto(c, place) == request' = [request EXCEPT ![c].at = place]
Identity(c) == <<c, request[c].no>>
Line(c) == [id |-> request[c].id, of |-> Identity(c)]
Blocked == stdin # Nobody /\ child = "alive" /\ Len(pipe) = PipeSize

Return(c, how, got) ==
  /\ Goto(c, "idle")
  /\ outcome' = [outcome EXCEPT ![c] = [how |-> how, got |-> got]]

-----------------------------------------------------------------------------
(* StdioConnection::request *)

\* Mutant: the id is the number of outstanding requests.
BeginReusing(c) ==
  /\ At(c, "idle")
  /\ LET id == Cardinality(pending) + 1
     IN  /\ nextId' = nextId + 1
         /\ pending' = pending \cup {id}
         /\ request' = [request EXCEPT ![c] = [at |-> "queued", id |-> id, no |-> @.no + 1]]
  /\ UNCHANGED <<inbox, outcome, stdin, torn, pipe, stdout, serverVars, registered>>

(* Take an id and enter the pending map. *)
Begin(c) ==
  /\ At(c, "idle")
  /\ nextId' = nextId + 1
  /\ pending' = pending \cup {nextId}
  /\ request' = [request EXCEPT ![c] = [at |-> "queued", id |-> nextId, no |-> @.no + 1]]
  /\ UNCHANGED <<inbox, outcome, stdin, torn, pipe, stdout, serverVars, registered>>

LockStdin(c) ==
  /\ At(c, "queued")
  /\ stdin = Nobody
  /\ stdin' = c
  /\ Goto(c, "writing")
  /\ UNCHANGED <<nextId, pending, inbox, outcome, torn, pipe, stdout, serverVars, registered>>

(* write_all and flush, which wait for room in the pipe.  A line written   *)
(* after an unfinished one makes one line with it, which is no request.    *)
Written(line) ==
  /\ child = "alive"
  /\ Len(pipe) < PipeSize
  /\ pipe' = Append(pipe, IF torn THEN NoLine ELSE line)
  /\ torn' = FALSE

Write(c) ==
  /\ At(c, "writing")
  /\ Written(Line(c))
  /\ stdin' = Nobody
  /\ Goto(c, "waiting")
  /\ UNCHANGED <<nextId, pending, inbox, outcome, stdout, serverVars, registered>>

(* The subprocess is gone: Transport.  The pending entry stays.            *)
WriteFails(c) ==
  /\ At(c, "writing")
  /\ child = "dead"
  /\ stdin' = Nobody
  /\ Return(c, "transport", <<Nobody, 0>>)
  /\ UNCHANGED <<nextId, pending, inbox, torn, pipe, stdout, serverVars, registered>>

Answers(c) == {r \in inbox : r.id = request[c].id}

(* The response came in time: its result, or the error it carries.         *)
Answered(c) ==
  /\ At(c, "waiting")
  /\ \E r \in Answers(c), how \in {"ok", "remote_error"} : Return(c, how, r.of)
  /\ inbox' = inbox \ Answers(c)
  /\ UNCHANGED <<nextId, pending, stdin, torn, pipe, stdout, serverVars, registered>>

\* Mutant: a request whose subprocess died is left to the reader.
ExpireWhileAlive(c) ==
  /\ At(c, "waiting")
  /\ child = "alive"
  /\ Answers(c) = {}
  /\ Goto(c, "expired")
  /\ UNCHANGED <<nextId, pending, inbox, outcome, stdin, torn, pipe, stdout, serverVars,
                 registered>>

(* The timeout elapsed; the lock of the pending map is awaited next.       *)
Expire(c) ==
  /\ At(c, "waiting")
  /\ Answers(c) = {}
  /\ Goto(c, "expired")
  /\ UNCHANGED <<nextId, pending, inbox, outcome, stdin, torn, pipe, stdout, serverVars,
                 registered>>

\* Mutant: the entry of a request that timed out stays.
ForgetNothing(c) ==
  /\ At(c, "expired")
  /\ Return(c, "timeout", <<Nobody, 0>>)
  /\ UNCHANGED <<nextId, pending, inbox, stdin, torn, pipe, stdout, serverVars, registered>>

(* Leave the pending map.  A response that came meanwhile is lost with its *)
(* channel.                                                                *)
Forget(c) ==
  /\ At(c, "expired")
  /\ pending' = pending \ {request[c].id}
  /\ inbox' = inbox \ Answers(c)
  /\ Return(c, "timeout", <<Nobody, 0>>)
  /\ UNCHANGED <<nextId, stdin, torn, pipe, stdout, serverVars, registered>>

(* The caller's future is dropped: by its own timeout, or by an abort.  In *)
(* the middle of a write that leaves a part of the line in the pipe.       *)
Cancel(c) ==
  /\ Busy(c)
  /\ Return(c, "cancelled", <<Nobody, 0>>)
  /\ stdin' = IF stdin = c THEN Nobody ELSE stdin
  /\ torn' \in IF At(c, "writing") THEN {torn, TRUE} ELSE {torn}
  /\ inbox' = inbox \ Answers(c)
  /\ UNCHANGED <<nextId, pending, pipe, stdout, serverVars, registered>>

-----------------------------------------------------------------------------
(* The reader task of open *)

(* A response goes to the request of its id, or nowhere.                   *)
Deliver ==
  /\ stdout # <<>>
  /\ LET r == Head(stdout)
         waits == \E c \in Caller : Busy(c) /\ request[c].id = r.id
     IN  /\ pending' = pending \ {r.id}
         /\ inbox' = IF r.id \in pending /\ waits THEN inbox \cup {r} ELSE inbox
  /\ stdout' = Tail(stdout)
  /\ UNCHANGED <<nextId, request, outcome, stdin, torn, pipe, serverVars, registered>>

-----------------------------------------------------------------------------
(* The subprocess *)

ServerReads ==
  /\ child = "alive"
  /\ pipe # <<>>
  /\ pipe' = Tail(pipe)
  /\ working' = IF Head(pipe) = NoLine THEN working ELSE working \cup {Head(pipe)}
  /\ UNCHANGED <<callerVars, child, stdout, registered>>

\* Responses come in any order.
ServerAnswers ==
  /\ child = "alive"
  /\ \E r \in working :
       /\ stdout' = Append(stdout, r)
       /\ working' = working \ {r}
  /\ UNCHANGED <<callerVars, pipe, child, registered>>

Killed == \* the effect of the subprocess's end on the pipes
  /\ child' = "dead"
  /\ pipe' = <<>>
  /\ working' = {}

ServerDies ==
  /\ child = "alive"
  /\ Killed
  /\ UNCHANGED <<callerVars, stdout, registered>>

-----------------------------------------------------------------------------
(* list_tools, list_resources, invoke_tool, read_resource: find the        *)
(* connection in the map and make a request of it.                         *)
Call(c) ==
  /\ registered
  /\ nextId <= MaxRequests
  /\ Begin(c)

(* The server is not in the map: UnknownServer. *)
CallUnknown(c) ==
  /\ At(c, "idle")
  /\ ~registered
  /\ outcome' = [outcome EXCEPT ![c] = [how |-> "unknown_server", got |-> <<Nobody, 0>>]]
  /\ UNCHANGED <<nextId, request, pending, inbox, stdin, torn, pipe, stdout, serverVars,
                 registered>>

RequestStep(c) ==
  \/ LockStdin(c) \/ Write(c) \/ WriteFails(c)
  \/ Answered(c)  \/ Expire(c) \/ Forget(c)

ServerStep == ServerReads \/ ServerAnswers \/ ServerDies

-----------------------------------------------------------------------------
Lines == [id : Nat, of : (Caller \cup {Nobody}) \X Nat]

ConnTypeOK ==
  /\ nextId \in Nat \ {0}
  /\ request \in [Caller -> [at : {"idle", "queued", "writing", "waiting", "expired"},
                             id : Nat, no : Nat]]
  /\ pending \subseteq 1 .. nextId - 1
  /\ inbox \subseteq Lines
  /\ outcome \in [Caller -> [how : {"none", "ok", "remote_error", "timeout", "transport",
                                    "cancelled", "unknown_server"},
                             got : (Caller \cup {Nobody}) \X Nat]]
  /\ stdin \in Caller \cup {Nobody}
  /\ torn \in BOOLEAN
  /\ pipe \in Seq(Lines) /\ Len(pipe) <= PipeSize
  /\ child \in {"none", "alive", "dead"}
  /\ working \subseteq Lines
  /\ stdout \in Seq(Lines)
  /\ registered \in BOOLEAN

(* However late, early or out of order the responses come, and whatever    *)
(* was cancelled, a request is only ever answered with its own response.   *)
AnswerIsOwn ==
  \A c \in Caller : outcome[c].how \in {"ok", "remote_error"} /\ ~Busy(c)
    => outcome[c].got = Identity(c)

(* A request that waits can still be answered: it is in the pending map or *)
(* its response is there.  And what is in the map without a request in     *)
(* progress was cancelled or could not be written: an answer, or a timeout,*)
(* leaves nothing behind.                                                  *)
PendingAccounted ==
  /\ \A c \in Caller : At(c, "waiting") => request[c].id \in pending \/ Answers(c) # {}
  /\ \A c \in Caller : ~Busy(c) /\ outcome[c].how \in {"ok", "remote_error", "timeout"}
       => request[c].id \notin pending
  /\ \A c \in Caller : Answers(c) # {} => Busy(c)

(* Every request ends, answered or not, unless a writer is stuck for ever  *)
(* before a full pipe that the subprocess does not read.                   *)
RequestsEnd == <>[]Blocked \/ \A c \in Caller : Busy(c) ~> ~Busy(c)

=============================================================================
