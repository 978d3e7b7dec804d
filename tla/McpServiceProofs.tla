--------------------------- MODULE McpServiceProofs ---------------------------
(***************************************************************************)
(* Proofs about the MCP server service and its connection, for any number  *)
(* of callers and any size of the pipe: a request is only ever answered    *)
(* with its own response, the pending map is accounted for, the events     *)
(* tell the truth, and the service keeps the rules of the supervision tree.*)
(*                                                                         *)
(* What AnswerIsOwn rests on is where the lines are: whatever line is on   *)
(* its way - in a pipe, read by the subprocess, or in the channel of a     *)
(* request - its id was handed out before, and if a request in progress    *)
(* has that id the line is that request's.                                 *)
(***************************************************************************)
EXTENDS McpService, TLAPS

Flying == \* the lines on their way
  working \cup inbox \cup {pipe[i] : i \in 1 .. Len(pipe)}
          \cup {stdout[i] : i \in 1 .. Len(stdout)}

Fits(r) ==
  /\ r.id < nextId
  /\ \A c \in Caller : Busy(c) /\ request[c].id = r.id => r.of = Identity(c)

LinesFit == \A r \in Flying : Fits(r)

IdsApart ==
  /\ \A c \in Caller : Busy(c) => request[c].id \in 1 .. nextId - 1
  /\ \A c, d \in Caller : Busy(c) /\ Busy(d) /\ request[c].id = request[d].id => c = d

IInv == ConnTypeOK /\ IdsApart /\ LinesFit /\ AnswerIsOwn

-----------------------------------------------------------------------------
(* Three ways a step may treat the requests. *)

\* No request is begun; some may end.
Quiet ==
  /\ nextId' = nextId
  /\ \A c \in Caller : /\ request'[c].id = request[c].id
                       /\ request'[c].no = request[c].no
                       /\ Busy(c)' => Busy(c)

\* No line appears but a fresh one, or one of a request in progress.
NoForeignLine ==
  \A r \in Flying' : \/ r \in Flying
                     \/ r = NoLine
                     \/ \E c \in Caller : Busy(c) /\ r = Line(c)

\* A line that stands for no request, or for its own, fits.
LEMMA OwnLineFits ==
  ASSUME IInv
  PROVE  /\ Fits(NoLine)
         /\ \A c \in Caller : Busy(c) => Fits(Line(c))
<1>1. nextId \in Nat /\ nextId > 0
  BY DEF IInv, ConnTypeOK
<1>2. Fits(NoLine)
  BY <1>1 DEF Fits, NoLine, IInv, IdsApart
<1>3. ASSUME NEW c \in Caller, Busy(c) PROVE Fits(Line(c))
  <2>1. Line(c).id = request[c].id /\ Line(c).of = Identity(c)
    BY DEF Line
  <2>2. request[c].id \in 1 .. nextId - 1
    BY <1>3 DEF IInv, IdsApart
  <2>3. \A d \in Caller : Busy(d) /\ request[d].id = request[c].id => d = c
    BY <1>3 DEF IInv, IdsApart
  <2>. QED
    BY <1>1, <2>1, <2>2, <2>3 DEF Fits
<1>. QED
  BY <1>2, <1>3

\* A step that begins no request and invents no line keeps lines and ids.
LEMMA QuietFrame ==
  ASSUME IInv, Quiet, NoForeignLine
  PROVE  IdsApart' /\ LinesFit'
<1>1. IdsApart'
  BY DEF IInv, IdsApart, Quiet
<1>2. ASSUME NEW r, Fits(r) PROVE Fits(r)'
  BY <1>2 DEF Fits, Quiet, Identity
<1>3. \A r \in Flying' : Fits(r)
  BY OwnLineFits DEF NoForeignLine, IInv, LinesFit
<1>. QED
  BY <1>1, <1>2, <1>3 DEF LinesFit

\* What is on its way are lines, and they fit.
LEMMA FlyingLines ==
  ASSUME IInv PROVE \A r \in Flying : r \in Lines /\ Fits(r)
<1>1. working \subseteq Lines /\ inbox \subseteq Lines
  BY DEF IInv, ConnTypeOK
<1>2. pipe \in Seq(Lines) /\ stdout \in Seq(Lines)
  BY DEF IInv, ConnTypeOK
<1>3. \A i \in 1 .. Len(pipe) : pipe[i] \in Lines
  BY <1>2
<1>4. \A i \in 1 .. Len(stdout) : stdout[i] \in Lines
  BY <1>2
<1>5. Flying \subseteq Lines
  BY <1>1, <1>3, <1>4 DEF Flying
<1>. QED
  BY <1>5 DEF IInv, LinesFit

\* A request that begins has an id no line has.
LEMMA BeginKeeps ==
  ASSUME IInv, NEW c \in Caller, Begin(c)
  PROVE  IInv'
<1>1. /\ nextId \in Nat /\ nextId > 0 /\ nextId' = nextId + 1
      /\ request' = [request EXCEPT ![c] = [at |-> "queued", id |-> nextId,
                                            no |-> request[c].no + 1]]
      /\ ~Busy(c)
      /\ pending' = pending \cup {nextId}
  BY DEF Begin, IInv, ConnTypeOK, Busy
<1>2. /\ UNCHANGED <<inbox, outcome, stdin, torn, pipe, stdout, child, working, registered>>
  BY DEF Begin, serverVars
<1>3. /\ request'[c] = [at |-> "queued", id |-> nextId, no |-> request[c].no + 1]
      /\ \A d \in Caller \ {c} : request'[d] = request[d]
  BY <1>1 DEF IInv, ConnTypeOK
<1>4. \A d \in Caller \ {c} : Busy(d)' <=> Busy(d)
  BY <1>3 DEF Busy, At
<1>5. ConnTypeOK'
  <2>1. request[c].no \in Nat
    BY DEF IInv, ConnTypeOK
  <2>2. request' \in [Caller -> [at : {"idle", "queued", "writing", "waiting", "expired"},
                                 id : Nat, no : Nat]]
    BY <1>1, <2>1 DEF IInv, ConnTypeOK
  <2>3. pending' \subseteq 1 .. nextId' - 1
    BY <1>1 DEF IInv, ConnTypeOK
  <2>. QED
    BY <1>1, <1>2, <2>2, <2>3, SMTT(30) DEF IInv, ConnTypeOK
<1>6. IdsApart'
  BY <1>1, <1>3, <1>4 DEF IInv, IdsApart
<1>7. LinesFit'
  <2>1. Flying' = Flying
    BY <1>2 DEF Flying
  <2>2. ASSUME NEW r \in Flying PROVE Fits(r)'
    <3>1. Fits(r) /\ r.id < nextId' /\ r.id # nextId
      <4>1. Fits(r) /\ r \in Lines
        BY FlyingLines
      <4>. QED
        BY <1>1, <4>1 DEF Fits, Lines
    <3>2. ASSUME NEW d \in Caller, Busy(d)', request'[d].id = r.id
          PROVE  r.of = Identity(d)'
      <4>1. d # c
        BY <1>3, <3>1, <3>2
      <4>2. Busy(d) /\ request'[d] = request[d]
        BY <1>3, <1>4, <3>2, <4>1
      <4>. QED
        BY <3>1, <3>2, <4>2 DEF Fits, Identity
    <3>. QED
      BY <3>1, <3>2 DEF Fits
  <2>. QED
    BY <2>1, <2>2 DEF LinesFit
<1>8. AnswerIsOwn'
  <2>1. Busy(c)'
    BY <1>3 DEF Busy, At
  <2>2. ASSUME NEW d \in Caller \ {c} PROVE Identity(d)' = Identity(d)
    BY <1>3 DEF Identity
  <2>. QED
    BY <1>2, <1>4, <2>1, <2>2 DEF IInv, AnswerIsOwn
<1>. QED
  BY <1>5, <1>6, <1>7, <1>8 DEF IInv

-----------------------------------------------------------------------------
(* Steps that leave the requests and their outcomes alone. *)

LEMMA CalmFrame ==
  ASSUME IInv, UNCHANGED <<nextId, request, outcome>>, ConnTypeOK', NoForeignLine
  PROVE  IInv'
<1>1. Quiet
  BY DEF Quiet, Busy, At
<1>2. AnswerIsOwn'
  BY DEF IInv, AnswerIsOwn, Busy, At, Identity
<1>. QED
  BY <1>1, <1>2, QuietFrame DEF IInv

\* A line in a queue is on its way, whether it is at its head or behind it.
LEMMA QueueLines ==
  ASSUME NEW q \in Seq(Lines)
  PROVE  /\ q # << >> => /\ Head(q) \in {q[i] : i \in 1 .. Len(q)}
                         /\ {Tail(q)[i] : i \in 1 .. Len(Tail(q))} \subseteq
                            {q[i] : i \in 1 .. Len(q)}
         /\ \A r \in Lines : {Append(q, r)[i] : i \in 1 .. Len(Append(q, r))}
                             \subseteq {q[i] : i \in 1 .. Len(q)} \cup {r}
  OBVIOUS

\* The subprocess's end empties its pipe and what it worked on.
LEMMA KilledKeeps ==
  ASSUME IInv, Killed, UNCHANGED <<callerVars, stdout>>, registered' \in BOOLEAN
  PROVE  IInv'
<1>1. /\ UNCHANGED <<nextId, request, pending, inbox, outcome, stdin, torn, stdout>>
      /\ child' = "dead" /\ pipe' = << >> /\ working' = {}
  BY DEF Killed, callerVars
<1>2. ConnTypeOK'
  <2>1. pipe' \in Seq(Lines) /\ Len(pipe') = 0
    BY <1>1
  <2>2. PipeSize \in Nat
    BY ConnectionAssumption
  <2>. QED
    BY <1>1, <2>1, <2>2 DEF IInv, ConnTypeOK, Lines
<1>3. NoForeignLine
  BY <1>1 DEF NoForeignLine, Flying
<1>. QED
  BY <1>1, <1>2, <1>3, CalmFrame

\* The reader takes a response off stdout and hands it over, or drops it.
LEMMA DeliverKeeps ==
  ASSUME IInv, Deliver
  PROVE  IInv'
<1>1. /\ stdout # << >> /\ stdout' = Tail(stdout) /\ stdout \in Seq(Lines)
      /\ UNCHANGED <<nextId, request, outcome, stdin, torn, pipe, child, working, registered>>
      /\ pending' \subseteq pending /\ inbox' \subseteq inbox \cup {Head(stdout)}
  BY DEF Deliver, serverVars, IInv, ConnTypeOK
<1>2. /\ Head(stdout) \in {stdout[i] : i \in 1 .. Len(stdout)}
      /\ {Tail(stdout)[i] : i \in 1 .. Len(Tail(stdout))} \subseteq
         {stdout[i] : i \in 1 .. Len(stdout)}
  BY <1>1, QueueLines
<1>3. ConnTypeOK'
  <2>1. Head(stdout) \in Lines /\ stdout' \in Seq(Lines)
    BY <1>1
  <2>. QED
    BY <1>1, <2>1 DEF IInv, ConnTypeOK, Lines
<1>4. NoForeignLine
  BY <1>1, <1>2 DEF NoForeignLine, Flying
<1>. QED
  BY <1>1, <1>3, <1>4, CalmFrame

LEMMA ServerKeeps ==
  ASSUME IInv, ServerStep
  PROVE  IInv'
<1>1. CASE ServerReads
  <2>1. /\ pipe # << >> /\ pipe' = Tail(pipe) /\ pipe \in Seq(Lines)
        /\ working' \subseteq working \cup {Head(pipe)}
        /\ UNCHANGED <<nextId, request, pending, inbox, outcome, stdin, torn, child, stdout,
                       registered>>
    BY <1>1 DEF ServerReads, callerVars, IInv, ConnTypeOK
  <2>2. /\ Head(pipe) \in {pipe[i] : i \in 1 .. Len(pipe)}
        /\ {Tail(pipe)[i] : i \in 1 .. Len(Tail(pipe))} \subseteq {pipe[i] : i \in 1 .. Len(pipe)}
    BY <2>1, QueueLines
  <2>3. pipe' \in Seq(Lines) /\ Len(pipe') <= PipeSize /\ Head(pipe) \in Lines
    BY <2>1, ConnectionAssumption DEF IInv, ConnTypeOK
  <2>4. ConnTypeOK'
    BY <2>1, <2>3 DEF IInv, ConnTypeOK, Lines
  <2>5. NoForeignLine
    BY <2>1, <2>2 DEF NoForeignLine, Flying
  <2>. QED
    BY <2>1, <2>4, <2>5, CalmFrame
<1>2. CASE ServerAnswers
  <2>1. PICK r \in working : /\ stdout' = Append(stdout, r)
                             /\ working' = working \ {r}
    BY <1>2 DEF ServerAnswers
  <2>2. /\ stdout \in Seq(Lines) /\ r \in Lines
        /\ UNCHANGED <<nextId, request, pending, inbox, outcome, stdin, torn, pipe, child,
                       registered>>
    BY <1>2 DEF ServerAnswers, callerVars, IInv, ConnTypeOK
  <2>3. {stdout'[i] : i \in 1 .. Len(stdout')} \subseteq
          {stdout[i] : i \in 1 .. Len(stdout)} \cup {r}
    BY <2>1, <2>2, QueueLines
  <2>4. stdout' \in Seq(Lines)
    BY <2>1, <2>2
  <2>5. ConnTypeOK'
    BY <2>1, <2>2, <2>4 DEF IInv, ConnTypeOK, Lines
  <2>6. NoForeignLine
    BY <2>1, <2>2, <2>3 DEF NoForeignLine, Flying
  <2>. QED
    BY <2>2, <2>5, <2>6, CalmFrame
<1>3. CASE ServerDies
  <2>1. Killed /\ UNCHANGED <<callerVars, stdout>> /\ registered' \in BOOLEAN
    BY <1>3 DEF ServerDies, IInv, ConnTypeOK
  <2>. QED
    BY <2>1, KilledKeeps
<1>. QED
  BY <1>1, <1>2, <1>3 DEF ServerStep

-----------------------------------------------------------------------------
(* The steps of a request. *)

\* One that moves on, without an outcome yet.
LEMMA MovesOn ==
  ASSUME IInv, NEW c \in Caller, NEW place \in {"writing", "waiting", "expired"},
         Busy(c), Goto(c, place), nextId' = nextId, outcome' = outcome
  PROVE  /\ Quiet /\ AnswerIsOwn'
         /\ request' \in [Caller -> [at : {"idle", "queued", "writing", "waiting", "expired"},
                                     id : Nat, no : Nat]]
<1>1. /\ request'[c].at = place /\ request'[c].id = request[c].id
      /\ request'[c].no = request[c].no
      /\ \A d \in Caller \ {c} : request'[d] = request[d]
      /\ request' \in [Caller -> [at : {"idle", "queued", "writing", "waiting", "expired"},
                                  id : Nat, no : Nat]]
  BY ZenonT(60) DEF Goto, IInv, ConnTypeOK
<1>2. \A d \in Caller : Busy(d)' <=> Busy(d)
  BY <1>1 DEF Busy, At
<1>3. \A d \in Caller : Identity(d)' = Identity(d)
  BY <1>1 DEF Identity
<1>. QED
  BY <1>1, <1>2, <1>3 DEF Quiet, IInv, AnswerIsOwn

\* One that ends, with its own response if with any.
LEMMA Ends ==
  ASSUME IInv, NEW c \in Caller, Busy(c), nextId' = nextId,
         NEW how \in {"ok", "remote_error", "timeout", "transport", "cancelled"},
         NEW got \in (Caller \cup {Nobody}) \X Nat,
         Return(c, how, got), how \in {"ok", "remote_error"} => got = Identity(c)
  PROVE  /\ Quiet /\ AnswerIsOwn'
         /\ request' \in [Caller -> [at : {"idle", "queued", "writing", "waiting", "expired"},
                                     id : Nat, no : Nat]]
         /\ outcome' \in [Caller -> [how : {"none", "ok", "remote_error", "timeout",
                                            "transport", "cancelled", "unknown_server"},
                                     got : (Caller \cup {Nobody}) \X Nat]]
<1>1. /\ request'[c].at = "idle" /\ request'[c].id = request[c].id
      /\ request'[c].no = request[c].no
      /\ \A d \in Caller \ {c} : request'[d] = request[d]
      /\ request' \in [Caller -> [at : {"idle", "queued", "writing", "waiting", "expired"},
                                  id : Nat, no : Nat]]
  BY ZenonT(60) DEF Return, Goto, IInv, ConnTypeOK
<1>2. /\ outcome'[c] = [how |-> how, got |-> got]
      /\ \A d \in Caller \ {c} : outcome'[d] = outcome[d]
      /\ outcome' \in [Caller -> [how : {"none", "ok", "remote_error", "timeout",
                                         "transport", "cancelled", "unknown_server"},
                                  got : (Caller \cup {Nobody}) \X Nat]]
  BY DEF Return, IInv, ConnTypeOK
<1>3. \A d \in Caller \ {c} : Busy(d)' <=> Busy(d)
  BY <1>1 DEF Busy, At
<1>4. \A d \in Caller : Identity(d)' = Identity(d)
  BY <1>1 DEF Identity
<1>. QED
  BY <1>1, <1>2, <1>3, <1>4 DEF Quiet, IInv, AnswerIsOwn

LEMMA RequestKeeps ==
  ASSUME IInv, NEW c \in Caller, RequestStep(c)
  PROVE  IInv'
<1>. DEFINE RequestType == [Caller -> [at : {"idle", "queued", "writing", "waiting", "expired"},
                                       id : Nat, no : Nat]]
<1>1. CASE LockStdin(c)
  <2>1. /\ Busy(c) /\ Goto(c, "writing") /\ stdin' = c
        /\ UNCHANGED <<nextId, pending, inbox, outcome, torn, pipe, child, working, stdout,
                       registered>>
    BY <1>1 DEF LockStdin, Busy, At, serverVars
  <2>2. Quiet /\ AnswerIsOwn' /\ request' \in RequestType
    BY <2>1, MovesOn
  <2>3. ConnTypeOK'
    BY <2>1, <2>2 DEF IInv, ConnTypeOK, Lines
  <2>4. NoForeignLine
    BY <2>1 DEF NoForeignLine, Flying
  <2>. QED
    BY <2>2, <2>3, <2>4, QuietFrame DEF IInv
<1>2. CASE Write(c)
  <2>1. /\ Busy(c) /\ Goto(c, "waiting") /\ stdin' = Nobody /\ torn' = FALSE
        /\ Len(pipe) < PipeSize
        /\ UNCHANGED <<nextId, pending, inbox, outcome, child, working, stdout, registered>>
    BY <1>2 DEF Write, Written, Busy, At, serverVars
  <2>2. PICK r \in {NoLine, Line(c)} : pipe' = Append(pipe, r)
    BY <1>2 DEF Write, Written
  <2>3. Quiet /\ AnswerIsOwn' /\ request' \in RequestType
    BY <2>1, MovesOn
  <2>4. pipe \in Seq(Lines) /\ r \in Lines
    BY ConnectionAssumption DEF IInv, ConnTypeOK, Lines, NoLine, Line, Identity
  <2>5. pipe' \in Seq(Lines) /\ Len(pipe') <= PipeSize
    BY <2>1, <2>2, <2>4, ConnectionAssumption
  <2>6. ConnTypeOK'
    BY <2>1, <2>3, <2>5 DEF IInv, ConnTypeOK, Lines
  <2>7. {pipe'[i] : i \in 1 .. Len(pipe')} \subseteq {pipe[i] : i \in 1 .. Len(pipe)} \cup {r}
    BY <2>2, <2>4, QueueLines
  <2>8. NoForeignLine
    BY <2>1, <2>2, <2>7 DEF NoForeignLine, Flying
  <2>. QED
    BY <2>3, <2>6, <2>8, QuietFrame DEF IInv
<1>3. CASE WriteFails(c)
  <2>1. /\ Busy(c) /\ Return(c, "transport", <<Nobody, 0>>) /\ stdin' = Nobody
        /\ UNCHANGED <<nextId, pending, inbox, torn, pipe, child, working, stdout, registered>>
    BY <1>3 DEF WriteFails, Busy, At, serverVars
  <2>2. Quiet /\ AnswerIsOwn' /\ request' \in RequestType /\ ConnTypeOK'
    BY <2>1, Ends DEF IInv, ConnTypeOK, Lines
  <2>3. NoForeignLine
    BY <2>1 DEF NoForeignLine, Flying
  <2>. QED
    BY <2>2, <2>3, QuietFrame DEF IInv
<1>4. CASE Answered(c)
  <2>1. PICK r \in Answers(c), how \in {"ok", "remote_error"} : Return(c, how, r.of)
    BY <1>4 DEF Answered
  <2>2. /\ Busy(c) /\ inbox' \subseteq inbox
        /\ UNCHANGED <<nextId, pending, stdin, torn, pipe, child, working, stdout, registered>>
    BY <1>4 DEF Answered, Busy, At, serverVars
  <2>3. r \in inbox /\ r.id = request[c].id
    BY DEF Answers
  <2>4. r \in Lines /\ Fits(r)
    BY <2>3 DEF IInv, ConnTypeOK, LinesFit, Flying
  <2>5. r.of = Identity(c) /\ r.of \in (Caller \cup {Nobody}) \X Nat
    BY <2>2, <2>3, <2>4 DEF Fits, Lines
  <2>6. /\ Quiet /\ AnswerIsOwn' /\ request' \in RequestType
        /\ outcome' \in [Caller -> [how : {"none", "ok", "remote_error", "timeout",
                                           "transport", "cancelled", "unknown_server"},
                                    got : (Caller \cup {Nobody}) \X Nat]]
    BY <2>1, <2>2, <2>5, Ends
  <2>7. ConnTypeOK'
    BY <2>2, <2>6 DEF IInv, ConnTypeOK, Lines
  <2>8. NoForeignLine
    BY <2>2 DEF NoForeignLine, Flying
  <2>. QED
    BY <2>6, <2>7, <2>8, QuietFrame DEF IInv
<1>5. CASE Expire(c)
  <2>1. /\ Busy(c) /\ Goto(c, "expired")
        /\ UNCHANGED <<nextId, pending, inbox, outcome, stdin, torn, pipe, child, working,
                       stdout, registered>>
    BY <1>5 DEF Expire, Busy, At, serverVars
  <2>2. Quiet /\ AnswerIsOwn' /\ request' \in RequestType
    BY <2>1, MovesOn
  <2>3. ConnTypeOK'
    BY <2>1, <2>2 DEF IInv, ConnTypeOK, Lines
  <2>4. NoForeignLine
    BY <2>1 DEF NoForeignLine, Flying
  <2>. QED
    BY <2>2, <2>3, <2>4, QuietFrame DEF IInv
<1>6. CASE Forget(c)
  <2>1. /\ Busy(c) /\ Return(c, "timeout", <<Nobody, 0>>)
        /\ pending' \subseteq pending /\ inbox' \subseteq inbox
        /\ UNCHANGED <<nextId, stdin, torn, pipe, child, working, stdout, registered>>
    BY <1>6 DEF Forget, Busy, At, serverVars
  <2>2. Quiet /\ AnswerIsOwn' /\ request' \in RequestType /\ ConnTypeOK'
    BY <2>1, Ends DEF IInv, ConnTypeOK, Lines
  <2>3. NoForeignLine
    BY <2>1 DEF NoForeignLine, Flying
  <2>. QED
    BY <2>2, <2>3, QuietFrame DEF IInv
<1>. QED
  BY <1>1, <1>2, <1>3, <1>4, <1>5, <1>6 DEF RequestStep

\* A caller that goes away takes its channel along, and may tear its line.
LEMMA CancelKeeps ==
  ASSUME IInv, NEW c \in Caller, Cancel(c)
  PROVE  IInv'
<1>1. /\ Busy(c) /\ Return(c, "cancelled", <<Nobody, 0>>)
      /\ stdin' \in {Nobody, stdin} /\ torn' \in {torn, TRUE} /\ inbox' \subseteq inbox
      /\ UNCHANGED <<nextId, pending, pipe, child, working, stdout, registered>>
  BY DEF Cancel, serverVars
<1>2. /\ Quiet /\ AnswerIsOwn'
      /\ request' \in [Caller -> [at : {"idle", "queued", "writing", "waiting", "expired"},
                                  id : Nat, no : Nat]]
      /\ outcome' \in [Caller -> [how : {"none", "ok", "remote_error", "timeout",
                                         "transport", "cancelled", "unknown_server"},
                                  got : (Caller \cup {Nobody}) \X Nat]]
  BY <1>1, Ends
<1>3. ConnTypeOK'
  BY <1>1, <1>2 DEF IInv, ConnTypeOK, Lines
<1>4. NoForeignLine
  BY <1>1 DEF NoForeignLine, Flying
<1>. QED
  BY <1>2, <1>3, <1>4, QuietFrame DEF IInv

LEMMA CallUnknownKeeps ==
  ASSUME IInv, NEW c \in Caller, CallUnknown(c)
  PROVE  IInv'
<1>1. /\ outcome' = [outcome EXCEPT ![c] = [how |-> "unknown_server", got |-> <<Nobody, 0>>]]
      /\ UNCHANGED <<nextId, request, pending, inbox, stdin, torn, pipe, child, working,
                     stdout, registered>>
  BY DEF CallUnknown, serverVars
<1>2. /\ outcome'[c].how = "unknown_server"
      /\ \A d \in Caller \ {c} : outcome'[d] = outcome[d]
  BY <1>1 DEF IInv, ConnTypeOK
<1>3. Quiet /\ AnswerIsOwn'
  BY <1>1, <1>2 DEF Quiet, IInv, AnswerIsOwn, Busy, At, Identity
<1>4. ConnTypeOK'
  BY <1>1 DEF IInv, ConnTypeOK, Lines
<1>5. NoForeignLine
  BY <1>1 DEF NoForeignLine, Flying
<1>. QED
  BY <1>3, <1>4, <1>5, QuietFrame DEF IInv

-----------------------------------------------------------------------------
(* The service: what its steps do to the connection. *)

LEMMA Initially == MInit => IInv
<1>. SUFFICES ASSUME MInit PROVE IInv
  OBVIOUS
<1>. USE DEF MInit, ConnInit
<1>1. ConnTypeOK
  <2>1. request \in [Caller -> [at : {"idle", "queued", "writing", "waiting", "expired"},
                                id : Nat, no : Nat]]
    OBVIOUS
  <2>2. outcome \in [Caller -> [how : {"none", "ok", "remote_error", "timeout",
                                       "transport", "cancelled", "unknown_server"},
                                got : (Caller \cup {Nobody}) \X Nat]]
    OBVIOUS
  <2>3. /\ pipe \in Seq(Lines) /\ stdout \in Seq(Lines) /\ Len(pipe) <= PipeSize
        /\ pending \subseteq 1 .. nextId - 1 /\ nextId \in Nat \ {0}
    BY ConnectionAssumption
  <2>. QED
    BY <2>1, <2>2, <2>3 DEF ConnTypeOK
<1>2. IdsApart
  BY DEF IdsApart, Busy, At
<1>3. LinesFit
  BY DEF LinesFit, Flying
<1>4. AnswerIsOwn
  BY DEF AnswerIsOwn
<1>. QED
  BY <1>1, <1>2, <1>3, <1>4 DEF IInv

LEMMA Untouched ==
  ASSUME IInv, UNCHANGED <<callerVars, pipe, stdout, working>>,
         child' \in {child, "alive"}, registered' \in BOOLEAN
  PROVE  IInv'
<1>1. UNCHANGED <<nextId, request, pending, inbox, outcome, stdin, torn, pipe, stdout, working>>
  BY DEF callerVars
<1>2. ConnTypeOK'
  BY <1>1 DEF IInv, ConnTypeOK, Lines
<1>3. NoForeignLine
  BY <1>1 DEF NoForeignLine, Flying
<1>. QED
  BY <1>1, <1>2, <1>3, CalmFrame

\* The notification that ends the handshake asks for no answer.
LEMMA InitializedKeeps ==
  ASSUME IInv, Initialized
  PROVE  IInv'
<1>1. /\ pipe' = Append(pipe, NoLine) /\ Len(pipe) < PipeSize /\ torn' = FALSE
      /\ UNCHANGED <<nextId, request, pending, inbox, outcome, stdin, stdout, child, working,
                     registered>>
  BY DEF Initialized, Written, serverVars
<1>2. pipe \in Seq(Lines) /\ NoLine \in Lines
  BY ConnectionAssumption DEF IInv, ConnTypeOK, Lines, NoLine
<1>3. pipe' \in Seq(Lines) /\ Len(pipe') <= PipeSize
  BY <1>1, <1>2, ConnectionAssumption
<1>4. {pipe'[i] : i \in 1 .. Len(pipe')} \subseteq {pipe[i] : i \in 1 .. Len(pipe)} \cup {NoLine}
  BY <1>1, <1>2, QueueLines
<1>5. ConnTypeOK'
  BY <1>1, <1>3 DEF IInv, ConnTypeOK, Lines
<1>6. NoForeignLine
  BY <1>1, <1>4 DEF NoForeignLine, Flying
<1>. QED
  BY <1>1, <1>5, <1>6, CalmFrame

LEMMA RootKeeps ==
  ASSUME IInv, RootStep
  PROVE  IInv'
<1>. USE McpAssumption
<1>1. CASE Spawn
  BY <1>1, Untouched DEF Spawn, IInv, ConnTypeOK
<1>2. CASE Initialize \/ Ping
  BY <1>2, BeginKeeps DEF Initialize, Ping
<1>3. CASE Initialized
  BY <1>3, InitializedKeeps
<1>4. CASE OpenFails \/ Close
  BY <1>4, KilledKeeps DEF OpenFails, Close, IInv, ConnTypeOK
<1>5. CASE Connected \/ Disconnect
  BY <1>5, Untouched DEF Connected, Disconnect, serverVars
<1>6. CASE PingOk \/ PingFails \/ SeeSignal
  BY <1>6, Untouched DEF PingOk, PingFails, SeeSignal, connVars, serverVars, IInv, ConnTypeOK
<1>. QED
  BY <1>1, <1>2, <1>3, <1>4, <1>5, <1>6 DEF RootStep

LEMMA Invariance == MSpec => []IInv
<1>1. IInv /\ [MNext]_mvars => IInv'
  <2>. SUFFICES ASSUME IInv, [MNext]_mvars PROVE IInv'
    OBVIOUS
  <2>. USE McpAssumption
  <2>1. CASE UNCHANGED connVars
    BY <2>1, Untouched DEF connVars, serverVars, IInv, ConnTypeOK
  <2>2. CASE StartService \/ SpawnFails \/ TreeStep \/ KernelShutdown \/ UNCHANGED mvars
    BY <2>1, <2>2 DEF StartService, SpawnFails, TreeStep, KernelShutdown, mvars
  <2>3. CASE RootStep
    BY <2>3, RootKeeps
  <2>4. CASE RootAborted
    BY <2>1, <2>4, CancelKeeps DEF RootAborted
  <2>5. ASSUME NEW c \in Caller, RequestStep(c) PROVE IInv'
    BY <2>5, RequestKeeps
  <2>6. ASSUME NEW c \in Client, Call(c) \/ CallUnknown(c) \/ Cancel(c) PROVE IInv'
    BY <2>6, BeginKeeps, CallUnknownKeeps, CancelKeeps DEF Call, Client
  <2>7. CASE Deliver \/ ServerStep
    BY <2>7, DeliverKeeps, ServerKeeps
  <2>. QED
    BY <2>2, <2>3, <2>4, <2>5, <2>6, <2>7 DEF MNext
<1>. QED
  BY <1>1, Initially, PTL DEF MSpec

-----------------------------------------------------------------------------
(* However late, early or out of order responses come, whatever was        *)
(* cancelled and however often the subprocess dies, a request is only ever *)
(* answered with its own response (StdioConnection::request, the reader).  *)
THEOREM AnswersAreOwn == MSpec => []AnswerIsOwn
<1>1. IInv => AnswerIsOwn
  BY DEF IInv
<1>. QED
  BY <1>1, Invariance, PTL

-----------------------------------------------------------------------------
(***************************************************************************)
(* The books of the pending map.  An id is one caller's for good, a line   *)
(* exists only after it was written, and a response in the channel of a    *)
(* request has left the map: so a request in progress is either in the map *)
(* or answered, and never both.                                            *)
(***************************************************************************)

Unwritten(c) == At(c, "queued") \/ At(c, "writing")

Owned ==
  /\ \A c \in Caller : request[c].id < nextId
  /\ \A c, d \in Caller : request[c].id = request[d].id /\ request[c].id # 0 => c = d

Unsent == \A c \in Caller : Unwritten(c) => \A r \in Flying : r.id # request[c].id

Received ==
  \A r \in inbox : /\ r.id \notin pending
                   /\ \E c \in Caller : Busy(c) /\ request[c].id = r.id

Awaited == \A c \in Caller : Busy(c) => request[c].id \in pending \/ Answers(c) # {}

Settled ==
  \A c \in Caller : ~Busy(c) /\ outcome[c].how \in {"ok", "remote_error", "timeout"}
                      => request[c].id \notin pending

PInv == Owned /\ Unsent /\ Received /\ Awaited /\ Settled

LEMMA PInvAccounts == IInv /\ PInv => PendingAccounted
<1>. SUFFICES ASSUME IInv, PInv PROVE PendingAccounted
  OBVIOUS
<1>1. ASSUME NEW c \in Caller, At(c, "waiting")
      PROVE  request[c].id \in pending \/ Answers(c) # {}
  BY <1>1 DEF PInv, Awaited, Busy, At
<1>2. ASSUME NEW c \in Caller, Answers(c) # {} PROVE Busy(c)
  <2>1. PICK r \in inbox : r.id = request[c].id
    BY <1>2 DEF Answers
  <2>2. PICK d \in Caller : Busy(d) /\ request[d].id = r.id
    BY DEF PInv, Received
  <2>3. request[d].id # 0
    BY <2>2 DEF IInv, IdsApart
  <2>. QED
    BY <2>1, <2>2, <2>3 DEF PInv, Owned
<1>. QED
  BY <1>1, <1>2 DEF PendingAccounted, PInv, Settled

\* What a step that begins no request and takes no response must keep.
LEMMA AccountFrame ==
  ASSUME IInv, PInv, Quiet,
         \A c \in Caller : Unwritten(c)' => Unwritten(c),
         \A r \in Flying' : \/ r \in Flying
                            \/ r = NoLine
                            \/ \E c \in Caller : Busy(c) /\ ~Unwritten(c)' /\ r = Line(c),
         pending' \subseteq pending, inbox' \subseteq inbox,
         \A c \in Caller : Busy(c) /\ ~Busy(c)' => Answers(c)' = {},
         Awaited', Settled'
  PROVE  PInv'
<1>1. /\ nextId' = nextId
      /\ \A c \in Caller : request'[c].id = request[c].id /\ (Busy(c)' => Busy(c))
  BY DEF Quiet
<1>2. Owned'
  BY <1>1 DEF PInv, Owned
<1>3. Unsent'
  <2>. SUFFICES ASSUME NEW c \in Caller, Unwritten(c)', NEW r \in Flying'
                PROVE  r.id # request[c].id
    BY <1>1 DEF Unsent
  <2>1. Unwritten(c) /\ Busy(c) /\ request[c].id # 0
    <3>1. Unwritten(c)
      OBVIOUS
    <3>2. Busy(c)
      BY <3>1 DEF Unwritten, Busy, At
    <3>. QED
      BY <3>1, <3>2 DEF IInv, IdsApart
  <2>2. CASE r \in Flying
    BY <2>1, <2>2 DEF PInv, Unsent
  <2>3. CASE r = NoLine
    BY <2>1, <2>3 DEF NoLine
  <2>4. ASSUME NEW d \in Caller, Busy(d), ~Unwritten(d)', r = Line(d)
        PROVE  r.id # request[c].id
    BY <2>1, <2>4 DEF IInv, IdsApart, Line
  <2>. QED
    BY <2>2, <2>3, <2>4
<1>4. Received'
  <2>. SUFFICES ASSUME NEW r \in inbox'
                PROVE  /\ r.id \notin pending'
                       /\ \E c \in Caller : Busy(c)' /\ request'[c].id = r.id
    BY DEF Received
  <2>1. r \in inbox /\ r.id \notin pending
    BY DEF PInv, Received
  <2>2. PICK c \in Caller : Busy(c) /\ request[c].id = r.id
    BY <2>1 DEF PInv, Received
  <2>3. Busy(c)'
    BY <1>1, <2>2 DEF Answers
  <2>. QED
    BY <1>1, <2>1, <2>2, <2>3
<1>. QED
  BY <1>2, <1>3, <1>4 DEF PInv

\* Steps that leave the requests, the map and the channels alone.
LEMMA AccountCalm ==
  ASSUME IInv, PInv, UNCHANGED <<nextId, request, pending, inbox, outcome>>,
         \A r \in Flying' : r \in Flying \/ r = NoLine
  PROVE  PInv'
<1>1. Quiet /\ Awaited' /\ Settled'
  BY DEF Quiet, PInv, Awaited, Settled, Busy, At, Answers
<1>2. /\ \A c \in Caller : Unwritten(c)' => Unwritten(c)
      /\ pending' \subseteq pending /\ inbox' \subseteq inbox
  BY DEF Unwritten, At
<1>3. \A c \in Caller : Busy(c) /\ ~Busy(c)' => Answers(c)' = {}
  BY DEF Busy, At
<1>. QED
  BY <1>1, <1>2, <1>3, AccountFrame

LEMMA BeginAccounts ==
  ASSUME IInv, PInv, NEW c \in Caller, Begin(c)
  PROVE  PInv'
<1>1. /\ nextId \in Nat /\ nextId > 0 /\ nextId' = nextId + 1
      /\ ~Busy(c) /\ pending' = pending \cup {nextId}
      /\ UNCHANGED <<inbox, outcome, pipe, stdout, working>>
  BY DEF Begin, IInv, ConnTypeOK, Busy, serverVars
<1>2. /\ request'[c] = [at |-> "queued", id |-> nextId, no |-> request[c].no + 1]
      /\ \A d \in Caller \ {c} : request'[d] = request[d]
  BY DEF Begin, IInv, ConnTypeOK
<1>3. /\ Busy(c)'
      /\ \A d \in Caller \ {c} : /\ Busy(d)' <=> Busy(d)
                                 /\ Unwritten(d)' <=> Unwritten(d)
                                 /\ Answers(d)' = Answers(d)
  BY <1>1, <1>2 DEF Busy, Unwritten, At, Answers
<1>4. Flying' = Flying /\ \A r \in Flying : r.id \in Nat /\ r.id < nextId
  <2>1. Flying' = Flying
    BY <1>1 DEF Flying
  <2>2. \A r \in Flying : r \in Lines /\ Fits(r)
    BY FlyingLines
  <2>. QED
    BY <2>1, <2>2 DEF Fits, Lines
<1>5. \A d \in Caller : request[d].id \in Nat /\ request[d].id < nextId
  BY DEF PInv, Owned, IInv, ConnTypeOK
<1>6. Owned'
  BY <1>1, <1>2, <1>5 DEF PInv, Owned
<1>7. Unsent'
  <2>1. ASSUME NEW d \in Caller, Unwritten(d)', NEW r \in Flying
        PROVE  r.id # request'[d].id
    <3>1. CASE d = c
      BY <1>1, <1>2, <1>4, <3>1
    <3>2. CASE d # c
      BY <1>2, <1>3, <2>1, <3>2 DEF PInv, Unsent
    <3>. QED
      BY <3>1, <3>2
  <2>. QED
    BY <1>4, <2>1 DEF Unsent
<1>8. Received'
  <2>1. ASSUME NEW r \in inbox
        PROVE  /\ r.id \notin pending'
               /\ \E d \in Caller : Busy(d)' /\ request'[d].id = r.id
    <3>1. r.id \notin pending /\ r.id # nextId
      BY <1>1, <1>4 DEF PInv, Received, Flying
    <3>2. PICK d \in Caller : Busy(d) /\ request[d].id = r.id
      BY DEF PInv, Received
    <3>3. d # c
      BY <1>1, <3>2
    <3>. QED
      BY <1>1, <1>2, <1>3, <3>1, <3>2, <3>3
  <2>. QED
    BY <1>1, <2>1 DEF Received
<1>9. Awaited' /\ Settled'
  <2>1. ASSUME NEW d \in Caller \ {c}
        PROVE  /\ Busy(d)' => request'[d].id \in pending' \/ Answers(d)' # {}
               /\ ~Busy(d)' /\ outcome'[d].how \in {"ok", "remote_error", "timeout"}
                    => request'[d].id \notin pending'
    <3>1. request[d].id # nextId
      BY <1>1, <1>5
    <3>. QED
      BY <1>1, <1>2, <1>3, <3>1 DEF PInv, Awaited, Settled
  <2>2. request'[c].id \in pending' /\ Busy(c)'
    BY <1>1, <1>2, <1>3
  <2>. QED
    BY <2>1, <2>2 DEF Awaited, Settled
<1>. QED
  BY <1>6, <1>7, <1>8, <1>9 DEF PInv

\* A response leaves the map and enters the channel of the request it is for.
LEMMA DeliverAccounts ==
  ASSUME IInv, PInv, Deliver
  PROVE  PInv'
<1>. DEFINE r == Head(stdout)
            waits == \E c \in Caller : Busy(c) /\ request[c].id = r.id
<1>1. /\ stdout # << >> /\ stdout' = Tail(stdout)
      /\ pending' = pending \ {r.id}
      /\ inbox' = IF r.id \in pending /\ waits THEN inbox \cup {r} ELSE inbox
      /\ UNCHANGED <<nextId, request, outcome, pipe, working>>
  BY DEF Deliver, serverVars
<1>2. /\ r \in {stdout[i] : i \in 1 .. Len(stdout)}
      /\ {stdout'[i] : i \in 1 .. Len(stdout')} \subseteq {stdout[i] : i \in 1 .. Len(stdout)}
  BY <1>1, QueueLines DEF IInv, ConnTypeOK
<1>3. \A x \in Flying' : x \in Flying
  BY <1>1, <1>2 DEF Flying
<1>4. ASSUME NEW c \in Caller
      PROVE  /\ Busy(c)' <=> Busy(c)
             /\ Unwritten(c)' <=> Unwritten(c)
             /\ Answers(c) \subseteq Answers(c)'
  BY <1>1 DEF Busy, Unwritten, At, Answers
<1>5. Owned' /\ Unsent' /\ Settled'
  BY <1>1, <1>3 DEF PInv, Owned, Unsent, Settled, Unwritten, Busy, At
<1>6. Received'
  <2>1. ASSUME NEW x \in inbox'
        PROVE  x.id \notin pending' /\ \E c \in Caller : Busy(c) /\ request[c].id = x.id
    <3>1. CASE x \in inbox
      BY <1>1, <3>1 DEF PInv, Received
    <3>2. CASE x \notin inbox
      BY <1>1, <3>2
    <3>. QED
      BY <3>1, <3>2
  <2>. QED
    BY <1>1, <2>1 DEF Received, Busy, At
<1>7. Awaited'
  <2>1. ASSUME NEW c \in Caller, Busy(c)
        PROVE  request[c].id \in pending' \/ Answers(c)' # {}
    <3>1. CASE Answers(c) # {}
      BY <1>4, <3>1
    <3>2. CASE request[c].id \in pending /\ request[c].id # r.id
      BY <1>1, <3>2
    <3>3. CASE request[c].id \in pending /\ request[c].id = r.id
      <4>1. r \in inbox'
        BY <1>1, <2>1, <3>3
      <4>2. r \in Answers(c)'
        BY <1>1, <3>3, <4>1 DEF Answers
      <4>. QED
        BY <4>2
    <3>. QED
      BY <2>1, <3>1, <3>2, <3>3 DEF PInv, Awaited
  <2>2. ASSUME NEW c \in Caller, Busy(c)'
        PROVE  request'[c].id \in pending' \/ Answers(c)' # {}
    BY <1>1, <1>4, <2>1, <2>2
  <2>. QED
    BY <2>2 DEF Awaited
<1>. QED
  BY <1>5, <1>6, <1>7 DEF PInv

\* A request that moves on; its line appears when it is written.
LEMMA MovesOnAccounts ==
  ASSUME IInv, PInv, NEW c \in Caller, NEW place \in {"writing", "waiting", "expired"},
         Busy(c), Goto(c, place), place = "writing" => Unwritten(c),
         nextId' = nextId, pending' = pending, inbox' = inbox, outcome' = outcome,
         \A r \in Flying' : r \in Flying \/ r = NoLine \/ r = Line(c),
         Flying' = Flying \/ place = "waiting"
  PROVE  PInv'
<1>1. /\ request'[c].at = place /\ request'[c].id = request[c].id
      /\ request'[c].no = request[c].no
      /\ \A d \in Caller \ {c} : request'[d] = request[d]
  BY ZenonT(60) DEF Goto, IInv, ConnTypeOK
<1>2. ASSUME NEW d \in Caller
      PROVE  /\ request'[d].id = request[d].id /\ request'[d].no = request[d].no
             /\ Busy(d)' <=> Busy(d)
             /\ Unwritten(d)' => Unwritten(d)
             /\ Answers(d)' = Answers(d)
  BY <1>1 DEF Busy, Unwritten, At, Answers
<1>3. Quiet
  BY <1>2 DEF Quiet
<1>4. \A d \in Caller : Unwritten(d)' => Unwritten(d)
  BY <1>2
<1>5. \A d \in Caller : Busy(d) /\ ~Busy(d)' => Answers(d)' = {}
  BY <1>2
<1>6. Awaited' /\ Settled'
  BY <1>2 DEF PInv, Awaited, Settled
<1>7. \A r \in Flying' : \/ r \in Flying
                         \/ r = NoLine
                         \/ \E d \in Caller : Busy(d) /\ ~Unwritten(d)' /\ r = Line(d)
  <2>1. place = "waiting" => ~Unwritten(c)'
    BY <1>1 DEF Unwritten, At
  <2>2. CASE place = "waiting"
    BY <2>1, <2>2
  <2>3. CASE Flying' = Flying
    BY <2>3
  <2>. QED
    BY <2>2, <2>3
<1>. QED
  BY <1>3, <1>4, <1>5, <1>6, <1>7, AccountFrame

\* A request that ends takes its channel along.
LEMMA EndsAccounts ==
  ASSUME IInv, PInv, NEW c \in Caller, Busy(c), NEW how, NEW got, Return(c, how, got),
         nextId' = nextId, inbox' = inbox \ Answers(c), Flying' \subseteq Flying,
         pending' \in {pending, pending \ {request[c].id}},
         how \in {"ok", "remote_error", "timeout"} => request[c].id \notin pending'
  PROVE  PInv'
<1>1. /\ request'[c].at = "idle" /\ request'[c].id = request[c].id
      /\ request'[c].no = request[c].no
      /\ \A d \in Caller \ {c} : request'[d] = request[d]
      /\ outcome'[c] = [how |-> how, got |-> got]
      /\ \A d \in Caller \ {c} : outcome'[d] = outcome[d]
  BY ZenonT(60) DEF Return, Goto, IInv, ConnTypeOK
<1>2. ~Busy(c)' /\ ~Unwritten(c)' /\ Answers(c)' = {}
  BY <1>1 DEF Busy, Unwritten, At, Answers
<1>3. ASSUME NEW d \in Caller \ {c}
      PROVE  /\ Busy(d)' <=> Busy(d)
             /\ Unwritten(d)' <=> Unwritten(d)
  BY <1>1 DEF Busy, Unwritten, At
<1>4. ASSUME NEW d \in Caller \ {c}, Busy(d)
      PROVE  /\ Answers(d)' = Answers(d)
             /\ request[d].id \in pending => request[d].id \in pending'
  <2>1. request[d].id # request[c].id
    BY <1>4 DEF IInv, IdsApart
  <2>. QED
    BY <1>1, <2>1 DEF Answers
<1>5. Quiet
  BY <1>1, <1>2, <1>3 DEF Quiet
<1>6. \A d \in Caller : Unwritten(d)' => Unwritten(d)
  BY <1>2, <1>3
<1>7. \A d \in Caller : Busy(d) /\ ~Busy(d)' => Answers(d)' = {}
  BY <1>2, <1>3
<1>8. Awaited'
  <2>1. ASSUME NEW d \in Caller, Busy(d)'
        PROVE  request'[d].id \in pending' \/ Answers(d)' # {}
    BY <1>1, <1>2, <1>3, <1>4, <2>1 DEF PInv, Awaited
  <2>. QED
    BY <2>1 DEF Awaited
<1>9. Settled'
  <2>1. ASSUME NEW d \in Caller, ~Busy(d)',
               outcome'[d].how \in {"ok", "remote_error", "timeout"}
        PROVE  request'[d].id \notin pending'
    BY <1>1, <1>3, <2>1 DEF PInv, Settled
  <2>. QED
    BY <2>1 DEF Settled
<1>10. pending' \subseteq pending /\ inbox' \subseteq inbox
  OBVIOUS
<1>11. \A r \in Flying' : r \in Flying
  OBVIOUS
<1>. QED
  BY <1>5, <1>6, <1>7, <1>8, <1>9, <1>10, <1>11, AccountFrame

LEMMA RequestAccounts ==
  ASSUME IInv, PInv, NEW c \in Caller, RequestStep(c)
  PROVE  PInv'
<1>1. CASE LockStdin(c)
  <2>1. /\ Busy(c) /\ Unwritten(c) /\ Goto(c, "writing")
        /\ UNCHANGED <<nextId, pending, inbox, outcome, pipe, working, stdout>>
    BY <1>1 DEF LockStdin, Busy, Unwritten, At, serverVars
  <2>2. Flying' = Flying
    BY <2>1 DEF Flying
  <2>3. \A r \in Flying' : r \in Flying \/ r = NoLine \/ r = Line(c)
    BY <2>2
  <2>. QED
    BY <2>1, <2>2, <2>3, MovesOnAccounts
<1>2. CASE Write(c)
  <2>1. /\ Busy(c) /\ Goto(c, "waiting")
        /\ UNCHANGED <<nextId, pending, inbox, outcome, working, stdout>>
    BY <1>2 DEF Write, Busy, At, serverVars
  <2>2. PICK r \in {NoLine, Line(c)} : pipe' = Append(pipe, r)
    BY <1>2 DEF Write, Written
  <2>3. pipe \in Seq(Lines) /\ r \in Lines
    BY ConnectionAssumption DEF IInv, ConnTypeOK, Lines, NoLine, Line, Identity
  <2>4. {pipe'[i] : i \in 1 .. Len(pipe')} \subseteq {pipe[i] : i \in 1 .. Len(pipe)} \cup {r}
    BY <2>2, <2>3, QueueLines
  <2>5. \A x \in Flying' : x \in Flying \/ x = NoLine \/ x = Line(c)
    BY <2>1, <2>4 DEF Flying
  <2>. QED
    BY <2>1, <2>5, MovesOnAccounts
<1>3. CASE WriteFails(c)
  <2>1. /\ Busy(c) /\ Unwritten(c) /\ Return(c, "transport", <<Nobody, 0>>)
        /\ UNCHANGED <<nextId, pending, inbox, pipe, working, stdout>>
    BY <1>3 DEF WriteFails, Busy, Unwritten, At, serverVars
  <2>2. Answers(c) = {}
    BY <2>1 DEF PInv, Unsent, Flying, Answers
  <2>3. Flying' = Flying /\ inbox' = inbox \ Answers(c)
    BY <2>1, <2>2 DEF Flying
  <2>. QED
    BY <2>1, <2>3, EndsAccounts
<1>4. CASE Answered(c)
  <2>1. PICK r \in Answers(c), how \in {"ok", "remote_error"} : Return(c, how, r.of)
    BY <1>4 DEF Answered
  <2>2. /\ Busy(c) /\ inbox' = inbox \ Answers(c)
        /\ UNCHANGED <<nextId, pending, pipe, working, stdout>>
    BY <1>4 DEF Answered, Busy, At, serverVars
  <2>3. request[c].id \notin pending
    BY DEF Answers, PInv, Received
  <2>4. Flying' \subseteq Flying
    BY <2>2 DEF Flying
  <2>. QED
    BY <2>1, <2>2, <2>3, <2>4, EndsAccounts
<1>5. CASE Expire(c)
  <2>1. /\ Busy(c) /\ Goto(c, "expired")
        /\ UNCHANGED <<nextId, pending, inbox, outcome, pipe, working, stdout>>
    BY <1>5 DEF Expire, Busy, At, serverVars
  <2>2. Flying' = Flying
    BY <2>1 DEF Flying
  <2>3. \A r \in Flying' : r \in Flying \/ r = NoLine \/ r = Line(c)
    BY <2>2
  <2>. QED
    BY <2>1, <2>2, <2>3, MovesOnAccounts
<1>6. CASE Forget(c)
  <2>1. /\ Busy(c) /\ Return(c, "timeout", <<Nobody, 0>>)
        /\ pending' = pending \ {request[c].id} /\ inbox' = inbox \ Answers(c)
        /\ UNCHANGED <<nextId, pipe, working, stdout>>
    BY <1>6 DEF Forget, Busy, At, serverVars
  <2>2. Flying' \subseteq Flying
    BY <2>1 DEF Flying
  <2>. QED
    BY <2>1, <2>2, EndsAccounts
<1>. QED
  BY <1>1, <1>2, <1>3, <1>4, <1>5, <1>6 DEF RequestStep

LEMMA CancelAccounts ==
  ASSUME IInv, PInv, NEW c \in Caller, Cancel(c)
  PROVE  PInv'
<1>1. /\ Busy(c) /\ Return(c, "cancelled", <<Nobody, 0>>) /\ inbox' = inbox \ Answers(c)
      /\ UNCHANGED <<nextId, pending, pipe, working, stdout>>
  BY DEF Cancel, serverVars
<1>2. Flying' \subseteq Flying
  BY <1>1 DEF Flying
<1>. QED
  BY <1>1, <1>2, EndsAccounts

LEMMA CallUnknownAccounts ==
  ASSUME IInv, PInv, NEW c \in Caller, CallUnknown(c)
  PROVE  PInv'
<1>1. /\ outcome' = [outcome EXCEPT ![c] = [how |-> "unknown_server", got |-> <<Nobody, 0>>]]
      /\ UNCHANGED <<nextId, request, pending, inbox, pipe, working, stdout>>
  BY DEF CallUnknown, serverVars
<1>2. /\ outcome'[c].how = "unknown_server"
      /\ \A d \in Caller \ {c} : outcome'[d] = outcome[d]
  BY <1>1 DEF IInv, ConnTypeOK
<1>3. Flying' = Flying
  BY <1>1 DEF Flying
<1>4. Owned' /\ Unsent' /\ Received' /\ Awaited'
  BY <1>1, <1>3 DEF PInv, Owned, Unsent, Received, Awaited, Unwritten, Busy, At, Answers
<1>5. Settled'
  BY <1>1, <1>2 DEF PInv, Settled, Busy, At
<1>. QED
  BY <1>4, <1>5 DEF PInv

\* The subprocess moves lines from one place to the next, or loses them.
LEMMA ServerAccounts ==
  ASSUME IInv, PInv, ServerStep
  PROVE  PInv'
<1>1. UNCHANGED <<nextId, request, pending, inbox, outcome>>
  BY DEF ServerStep, ServerReads, ServerAnswers, ServerDies, callerVars
<1>2. Flying' \subseteq Flying
  <2>1. CASE ServerReads
    <3>1. /\ pipe # << >> /\ pipe' = Tail(pipe) /\ working' \subseteq working \cup {Head(pipe)}
          /\ UNCHANGED <<inbox, stdout>> /\ pipe \in Seq(Lines)
      BY <2>1 DEF ServerReads, callerVars, IInv, ConnTypeOK
    <3>. QED
      BY <3>1, QueueLines DEF Flying
  <2>2. CASE ServerAnswers
    <3>1. PICK r \in working : /\ stdout' = Append(stdout, r)
                               /\ working' = working \ {r}
      BY <2>2 DEF ServerAnswers
    <3>2. stdout \in Seq(Lines) /\ r \in Lines /\ UNCHANGED <<inbox, pipe>>
      BY <2>2 DEF ServerAnswers, callerVars, IInv, ConnTypeOK
    <3>3. {stdout'[i] : i \in 1 .. Len(stdout')} \subseteq
            {stdout[i] : i \in 1 .. Len(stdout)} \cup {r}
      BY <3>1, <3>2, QueueLines
    <3>. QED
      BY <3>1, <3>2, <3>3 DEF Flying
  <2>3. CASE ServerDies
    BY <2>3 DEF ServerDies, Killed, callerVars, Flying
  <2>. QED
    BY <2>1, <2>2, <2>3 DEF ServerStep
<1>. QED
  BY <1>1, <1>2, AccountCalm

\* What the service does to the connection besides: begin a request, tell the
\* subprocess that the handshake is over, or kill it.
LEMMA RootAccounts ==
  ASSUME IInv, PInv, RootStep
  PROVE  PInv'
<1>. USE McpAssumption
<1>1. CASE Initialize \/ Ping
  BY <1>1, BeginAccounts DEF Initialize, Ping
<1>2. CASE Initialized
  <2>1. /\ pipe' = Append(pipe, NoLine)
        /\ UNCHANGED <<nextId, request, pending, inbox, outcome, stdout, working>>
    BY <1>2 DEF Initialized, Written, serverVars
  <2>2. pipe \in Seq(Lines) /\ NoLine \in Lines
    BY ConnectionAssumption DEF IInv, ConnTypeOK, Lines, NoLine
  <2>3. {pipe'[i] : i \in 1 .. Len(pipe')} \subseteq
          {pipe[i] : i \in 1 .. Len(pipe)} \cup {NoLine}
    BY <2>1, <2>2, QueueLines
  <2>4. \A r \in Flying' : r \in Flying \/ r = NoLine
    BY <2>1, <2>3 DEF Flying
  <2>. QED
    BY <2>1, <2>4, AccountCalm
<1>3. CASE OpenFails \/ Close
  <2>1. /\ UNCHANGED <<nextId, request, pending, inbox, outcome, stdout>>
        /\ pipe' = << >> /\ working' = {}
    BY <1>3 DEF OpenFails, Close, Killed, callerVars
  <2>2. Flying' \subseteq Flying
    BY <2>1 DEF Flying
  <2>. QED
    BY <2>1, <2>2, AccountCalm
<1>4. CASE Spawn \/ Connected \/ PingOk \/ PingFails \/ SeeSignal \/ Disconnect
  <2>1. UNCHANGED <<nextId, request, pending, inbox, outcome, stdout, pipe, working>>
    BY <1>4 DEF Spawn, Connected, PingOk, PingFails, SeeSignal, Disconnect, connVars,
                callerVars, serverVars
  <2>2. Flying' = Flying
    BY <2>1 DEF Flying
  <2>. QED
    BY <2>1, <2>2, AccountCalm
<1>. QED
  BY <1>1, <1>2, <1>3, <1>4 DEF RootStep

-----------------------------------------------------------------------------
(***************************************************************************)
(* The service in the supervision tree: what the start call, the root task *)
(* the watcher, the map of connections, the last event and the subprocess  *)
(* say of each other at every place of McpServerService.                   *)
(***************************************************************************)

Starting == {"resolve", "spawned", "handshake", "opened"}
Looping == {"running", "pinging", "closing", "removing"}

\* Where the service is, as the tree sees it.
Placed ==
  /\ root = "none" <=> call[Server] \in {"idle", "failed"}
  /\ root \in Starting <=> call[Server] = "starting"
  /\ root \in Looping <=> handle[Server] \in {"live", "aborting"}
  /\ handle[Server] \in {"none", "live", "aborting", "ok", "cancelled"}
  /\ watcher[Server] \in {"absent", "watching", "exited"}

\* What was announced is what the map says.
Announced ==
  /\ root \in {"none"} \cup Starting => mcpEvent = "none" /\ ~registered
  /\ root \in {"running", "pinging"} => mcpEvent = "McpServerConnected" /\ registered
  /\ root \in {"closing", "removing", "aborted"}
       => mcpEvent \in {"McpServerConnected", "McpServerUnhealthy"} /\ registered
  /\ root = "ended" => mcpEvent = "McpServerDisconnected" /\ ~registered

\* Nobody has the subprocess of a service that is not there.
ChildHeld ==
  /\ root \in {"none", "resolve"} => child # "alive"
  /\ root \in {"removing", "ended"} => child = "dead"

Rooted ==
  /\ root \in {"none", "ended", "aborted"} \cup Starting \cup Looping
  /\ mcpEvent \in {"none", "McpServerConnected", "McpServerUnhealthy",
                   "McpServerDisconnected"}

SInv == TypeOK /\ Rooted /\ Placed /\ Announced /\ ChildHeld

LEMMA ServiceInit == MInit => SInv
<1>. SUFFICES ASSUME MInit PROVE SInv
  OBVIOUS
<1>. USE McpAssumption DEF MInit, Init, ConnInit
<1>1. U32Max \in Nat \ {0} /\ NoEvent \in Event
  BY SupervisionAssumption DEF NoEvent, Event
<1>2. last \in [Service -> Event] /\ attempt \in [Service -> 1 .. U32Max]
  BY <1>1
<1>3. /\ call \in [Service -> {"idle", "starting", "registering", "started", "failed"}]
      /\ handle \in [Service -> {"none", "live", "aborting", "placeholder",
                                 "ok", "panic", "cancelled"}]
      /\ watcher \in [Service -> {"absent", "watching", "backoff", "restarting",
                                  "exited", "panicked", "aborted"}]
      /\ children \in [Name -> Service \cup {NoService}]
  OBVIOUS
<1>4. TypeOK
  BY <1>2, <1>3 DEF TypeOK
<1>. QED
  BY <1>3, <1>4 DEF SInv, Rooted, Placed, Announced, ChildHeld, Starting, Looping

\* The connection's own steps leave the service where it is.
LEMMA ServiceFrame ==
  ASSUME SInv, UNCHANGED <<treeVars, root, mcpEvent, registered>>,
         child' \in {child, "dead"}
  PROVE  SInv'
<1>1. TypeOK'
  BY DEF SInv, TypeOK, treeVars, vars
<1>2. Rooted' /\ Placed' /\ Announced' /\ ChildHeld'
  BY DEF SInv, Rooted, Placed, Announced, ChildHeld, treeVars, vars
<1>. QED
  BY <1>1, <1>2 DEF SInv

LEMMA TreeKeeps ==
  ASSUME SInv, StartService \/ SpawnFails \/ TreeStep \/ KernelShutdown
  PROVE  SInv'
<1>. USE McpAssumption DEF SInv, TypeOK, drainVars
<1>1. CASE StartService
  <2>1. /\ call[Server] = "idle" /\ call' = [call EXCEPT ![Server] = "starting"]
        /\ root' = "resolve"
        /\ UNCHANGED <<shutdown, handle, watcher, attempt, last, children, aborts, drain,
                       draining, graceful, late, mcpEvent, child, registered>>
    BY <1>1 DEF StartService, StartCall, connVars, serverVars
  <2>2. TypeOK' /\ call'[Server] = "starting"
    BY <2>1
  <2>. QED
    BY <2>1, <2>2 DEF Rooted, Placed, Announced, ChildHeld, Starting, Looping
<1>2. CASE SpawnFails
  <2>1. /\ root = "resolve" /\ root' = "none"
        /\ call' = [call EXCEPT ![Server] = "failed"]
        /\ UNCHANGED <<shutdown, handle, watcher, attempt, last, children, aborts, drain,
                       draining, graceful, late, mcpEvent, child, registered>>
    BY <1>2 DEF SpawnFails, StartErr, connVars, serverVars
  <2>2. TypeOK' /\ call'[Server] = "failed"
    BY <2>1
  <2>. QED
    BY <2>1, <2>2 DEF Rooted, Placed, Announced, ChildHeld, Starting, Looping
<1>3. CASE KernelShutdown
  <2>1. /\ shutdown' = TRUE
        /\ UNCHANGED <<call, handle, watcher, attempt, last, children, aborts, drain,
                       draining, graceful, late, root, mcpEvent, child, registered>>
    BY <1>3 DEF KernelShutdown, Shutdown, connVars, serverVars
  <2>2. TypeOK'
    BY <2>1
  <2>. QED
    BY <2>1, <2>2 DEF Rooted, Placed, Announced, ChildHeld
<1>4. CASE TreeStep
  <2>1. UNCHANGED <<root, mcpEvent, child, registered>>
    BY <1>4 DEF TreeStep, connVars, serverVars
  <2>2. CASE Register(Server)
    <3>1. /\ call[Server] = "registering" /\ call' = [call EXCEPT ![Server] = "started"]
          /\ children' = [children EXCEPT ![NameOf[Server]] = Server]
          /\ UNCHANGED <<shutdown, handle, watcher, attempt, last, aborts, drain, draining,
                         graceful, late>>
      BY <2>2 DEF Register
    <3>2. TypeOK' /\ call'[Server] = "started"
      BY <3>1
    <3>. QED
      BY <2>1, <3>1, <3>2 DEF Rooted, Placed, Announced, ChildHeld
  <2>3. CASE SeeCleanExit(Server)
    <3>1. /\ watcher' = [watcher EXCEPT ![Server] = "exited"]
          /\ last' = [last EXCEPT ![Server] = ServiceStopped(attempt[Server])]
          /\ UNCHANGED <<shutdown, call, handle, attempt, children, aborts, drain, draining,
                         graceful, late>>
      BY <2>3 DEF SeeCleanExit, PermitsRestartAfter
    <3>2. ServiceStopped(attempt[Server]) \in Event
      BY SupervisionAssumption DEF ServiceStopped, Event
    <3>3. TypeOK' /\ watcher'[Server] = "exited"
      BY <3>1, <3>2
    <3>. QED
      BY <2>1, <3>1, <3>3 DEF Rooted, Placed, Announced, ChildHeld
  <2>4. CASE SeeCancelled(Server)
    <3>1. /\ watcher' = [watcher EXCEPT ![Server] = "exited"]
          /\ UNCHANGED <<shutdown, call, handle, attempt, last, children, aborts, drain,
                         draining, graceful, late>>
      BY <2>4 DEF SeeCancelled
    <3>2. TypeOK' /\ watcher'[Server] = "exited"
      BY <3>1
    <3>. QED
      BY <2>1, <3>1, <3>2 DEF Rooted, Placed, Announced, ChildHeld
  <2>5. CASE SeeShutdown(Server)
    <3>1. /\ watcher[Server] = "watching"
          /\ watcher' = [watcher EXCEPT ![Server] = "exited"]
          /\ handle' = [handle EXCEPT ![Server] = IF @ = "live" THEN "aborting" ELSE @]
          /\ UNCHANGED <<shutdown, call, attempt, last, children, aborts, drain, draining,
                         graceful, late>>
      BY <2>5 DEF SeeShutdown, Placed
    <3>2. TypeOK' /\ watcher'[Server] = "exited"
      BY <3>1
    <3>3. handle'[Server] = IF handle[Server] = "live" THEN "aborting" ELSE handle[Server]
      BY <3>1
    <3>. QED
      BY <2>1, <3>1, <3>2, <3>3 DEF Rooted, Placed, Announced, ChildHeld
  <2>. QED
    BY <1>4, <2>2, <2>3, <2>4, <2>5 DEF TreeStep
<1>. QED
  BY <1>1, <1>2, <1>3, <1>4

\* The start and the loop of the service.
LEMMA RootMoves ==
  ASSUME SInv, RootStep
  PROVE  SInv'
<1>. USE McpAssumption DEF SInv
<1>1. CASE Spawn \/ Initialize \/ Initialized \/ Ping \/ PingOk \/ PingFails \/ SeeSignal \/ Close
  <2>1. UNCHANGED treeVars
    BY <1>1 DEF Spawn, Initialize, Initialized, Ping, PingOk, PingFails, SeeSignal, Close
  <2>2. TypeOK'
    BY <2>1 DEF TypeOK, treeVars, vars
  <2>3. call' = call /\ handle' = handle /\ watcher' = watcher
    BY <2>1 DEF treeVars, vars
  <2>4. /\ root' \in Starting <=> root \in Starting
        /\ root' \in Looping <=> root \in Looping
        /\ root' = "none" <=> root = "none"
    BY <1>1 DEF Spawn, Initialize, Initialized, Ping, PingOk, PingFails, SeeSignal, Close,
                Starting, Looping
  <2>5. Placed'
    BY <2>3, <2>4 DEF Placed
  <2>6. Rooted' /\ Announced' /\ ChildHeld'
    BY <1>1 DEF Spawn, Initialize, Initialized, Ping, PingOk, PingFails, SeeSignal, Close,
                Begin, Killed, connVars, serverVars, Rooted, Announced, ChildHeld, Starting,
                Looping
  <2>. QED
    BY <2>2, <2>5, <2>6
<1>2. CASE OpenFails
  <2>1. /\ root = "handshake" /\ root' = "none"
        /\ call' = [call EXCEPT ![Server] = "failed"] /\ child' = "dead"
        /\ UNCHANGED <<shutdown, handle, watcher, attempt, last, children, aborts, drain,
                       draining, graceful, late, mcpEvent, registered>>
    BY <1>2 DEF OpenFails, StartErr, Killed, drainVars
  <2>2. TypeOK' /\ call'[Server] = "failed"
    BY <2>1 DEF TypeOK
  <2>. QED
    BY <2>1, <2>2 DEF Rooted, Placed, Announced, ChildHeld, Starting, Looping
<1>3. CASE Connected
  <2>1. /\ root = "opened" /\ root' = "running" /\ child' = child
        /\ call' = [call EXCEPT ![Server] = "registering"]
        /\ handle' = [handle EXCEPT ![Server] = "live"]
        /\ watcher' = [watcher EXCEPT ![Server] = "watching"]
        /\ last' = [last EXCEPT ![Server] = ServiceStarted(1)]
        /\ registered' = TRUE /\ mcpEvent' = "McpServerConnected"
        /\ UNCHANGED <<shutdown, attempt, children, aborts, drain, draining, graceful, late>>
    BY <1>3 DEF Connected, StartOk, drainVars, serverVars
  <2>2. ServiceStarted(1) \in Event
    BY SupervisionAssumption DEF ServiceStarted, Event
  <2>3. /\ TypeOK' /\ call'[Server] = "registering" /\ handle'[Server] = "live"
        /\ watcher'[Server] = "watching"
    BY <2>1, <2>2 DEF TypeOK
  <2>. QED
    BY <2>1, <2>3 DEF Rooted, Placed, Announced, ChildHeld, Starting, Looping
<1>4. CASE Disconnect
  <2>1. /\ root = "removing" /\ root' = "ended" /\ child' = child
        /\ handle' = [handle EXCEPT ![Server] = "ok"]
        /\ registered' = FALSE /\ mcpEvent' = "McpServerDisconnected"
        /\ UNCHANGED <<shutdown, call, watcher, attempt, last, children, aborts, drain,
                       draining, graceful, late>>
    BY <1>4 DEF Disconnect, drainVars, serverVars
  <2>2. TypeOK' /\ handle'[Server] = "ok"
    BY <2>1 DEF TypeOK
  <2>. QED
    BY <2>1, <2>2 DEF Rooted, Placed, Announced, ChildHeld, Starting, Looping
<1>. QED
  BY <1>1, <1>2, <1>3, <1>4 DEF RootStep

LEMMA AbortedMoves ==
  ASSUME SInv, RootAborted
  PROVE  SInv'
<1>. USE McpAssumption DEF SInv
<1>1. /\ root \in Looping /\ root' = "aborted"
      /\ handle' = [handle EXCEPT ![Server] = "cancelled"]
      /\ UNCHANGED <<shutdown, call, watcher, attempt, last, children, aborts, drain,
                     draining, graceful, late, mcpEvent, registered, child>>
  BY DEF RootAborted, Cancel, drainVars, connVars, serverVars, Looping
<1>2. TypeOK' /\ handle'[Server] = "cancelled"
  BY <1>1 DEF TypeOK
<1>. QED
  BY <1>1, <1>2 DEF Rooted, Placed, Announced, ChildHeld, Starting, Looping

LEMMA ServiceInvariance == MSpec => []SInv
<1>1. SInv /\ [MNext]_mvars => SInv'
  <2>. SUFFICES ASSUME SInv, [MNext]_mvars PROVE SInv'
    OBVIOUS
  <2>1. CASE StartService \/ SpawnFails \/ TreeStep \/ KernelShutdown
    BY <2>1, TreeKeeps
  <2>2. CASE RootStep
    BY <2>2, RootMoves
  <2>3. CASE RootAborted
    BY <2>3, AbortedMoves
  <2>4. ASSUME \/ \E c \in Caller : RequestStep(c)
               \/ \E c \in Client : Call(c) \/ CallUnknown(c) \/ Cancel(c)
               \/ Deliver \/ ServerStep,
               UNCHANGED <<treeVars, root, mcpEvent>>
        PROVE  SInv'
    <3>1. registered' = registered /\ child' \in {child, "dead"}
      BY <2>4 DEF RequestStep, LockStdin, Write, WriteFails, Answered, Expire, Forget, Call,
                  Begin, CallUnknown, Cancel, Deliver, ServerStep, ServerReads,
                  ServerAnswers, ServerDies, Killed, serverVars
    <3>. QED
      BY <2>4, <3>1, ServiceFrame
  <2>5. CASE UNCHANGED mvars
    <3>1. UNCHANGED <<treeVars, root, mcpEvent>> /\ registered' = registered /\ child' = child
      BY <2>5 DEF mvars, connVars, serverVars, treeVars
    <3>. QED
      BY <3>1, ServiceFrame
  <2>. QED
    BY <2>1, <2>2, <2>3, <2>4, <2>5 DEF MNext
<1>. QED
  BY <1>1, ServiceInit, PTL DEF MSpec

LEMMA AccountsInvariance == MSpec => []PInv
<1>1. MInit => PInv
  <2>. SUFFICES ASSUME MInit PROVE PInv
    OBVIOUS
  <2>1. /\ nextId = 1 /\ inbox = {} /\ pending = {}
        /\ \A c \in Caller : request[c] = [at |-> "idle", id |-> 0, no |-> 0]
    BY DEF MInit, ConnInit
  <2>2. \A c \in Caller : request[c].id = 0 /\ ~Busy(c) /\ ~Unwritten(c)
    BY <2>1 DEF Busy, Unwritten, At
  <2>. QED
    BY <2>1, <2>2 DEF PInv, Owned, Unsent, Received, Awaited, Settled
<1>2. IInv /\ PInv /\ [MNext]_mvars => PInv'
  <2>. SUFFICES ASSUME IInv, PInv, [MNext]_mvars PROVE PInv'
    OBVIOUS
  <2>. USE McpAssumption
  <2>1. CASE UNCHANGED connVars
    <3>1. UNCHANGED <<nextId, request, pending, inbox, outcome, stdout, pipe, working>>
      BY <2>1 DEF connVars, callerVars, serverVars
    <3>2. \A r \in Flying' : r \in Flying \/ r = NoLine
      BY <3>1 DEF Flying
    <3>. QED
      BY <3>1, <3>2, AccountCalm
  <2>2. CASE StartService \/ SpawnFails \/ TreeStep \/ KernelShutdown \/ UNCHANGED mvars
    BY <2>1, <2>2 DEF StartService, SpawnFails, TreeStep, KernelShutdown, mvars
  <2>3. CASE RootStep
    BY <2>3, RootAccounts
  <2>4. CASE RootAborted
    BY <2>1, <2>4, CancelAccounts DEF RootAborted
  <2>5. ASSUME NEW c \in Caller, RequestStep(c) PROVE PInv'
    BY <2>5, RequestAccounts
  <2>6. ASSUME NEW c \in Client, Call(c) \/ CallUnknown(c) \/ Cancel(c) PROVE PInv'
    BY <2>6, BeginAccounts, CallUnknownAccounts, CancelAccounts DEF Call, Client
  <2>7. CASE Deliver \/ ServerStep
    BY <2>7, DeliverAccounts, ServerAccounts
  <2>. QED
    BY <2>2, <2>3, <2>4, <2>5, <2>6, <2>7 DEF MNext
<1>. QED
  BY <1>1, <1>2, Invariance, PTL DEF MSpec

-----------------------------------------------------------------------------
(* Every variable has its type, and the pending map is accounted for: a    *)
(* request that waits can still be answered, and an answer or a timeout    *)
(* leaves nothing behind (StdioConnection::request, the reader task).      *)
THEOREM ConnectionIsSound == MSpec => []Sound
<1>1. IInv /\ PInv /\ SInv => Sound
  BY PInvAccounts DEF Sound, MTypeOK, IInv, SInv, Rooted, Starting, Looping
<1>. QED
  BY <1>1, Invariance, AccountsInvariance, ServiceInvariance, PTL

(* A server announced as disconnected is dead and out of the map, one in   *)
(* the map was announced, and a subprocess never outlives a service that   *)
(* failed to start or ended (McpServerService::start, its root task).      *)
THEOREM EventsTellTheTruth == MSpec => []DisconnectedIsGone
<1>1. SInv => DisconnectedIsGone
  BY DEF SInv, DisconnectedIsGone, TypeOK, Rooted, Announced, ChildHeld, Starting, Looping
<1>. QED
  BY <1>1, ServiceInvariance, PTL

(* The service is supervised by the rules of the tree: every step of it    *)
(* is a step of Supervision or none, so what holds of Supervision's        *)
(* services holds of this one.                                             *)
THEOREM UnderSupervision == MSpec => Spec
<1>1. MInit => Init
  BY DEF MInit
<1>2. SInv /\ [MNext]_mvars => [Next]_vars
  <2>. SUFFICES ASSUME SInv, [MNext]_mvars PROVE [Next]_vars
    OBVIOUS
  <2>. USE McpAssumption
  <2>1. CASE StartService \/ SpawnFails \/ OpenFails \/ Connected
    BY <2>1 DEF StartService, SpawnFails, OpenFails, Connected, Next
  <2>2. CASE TreeStep \/ KernelShutdown
    BY <2>2 DEF TreeStep, KernelShutdown, Next, Supervise
  <2>3. CASE Disconnect \/ RootAborted
    <3>1. RootExit(Server)
      <4>1. handle[Server] \in {"live", "aborting"}
        BY <2>3 DEF Disconnect, RootAborted, SInv, Placed, Looping
      <4>. QED
        BY <2>3, <4>1 DEF Disconnect, RootAborted, RootExit, drainVars
    <3>. QED
      BY <3>1 DEF Next
  <2>4. CASE \/ Spawn \/ Initialize \/ Initialized \/ Ping \/ PingOk \/ PingFails
             \/ SeeSignal \/ Close
    BY <2>4 DEF Spawn, Initialize, Initialized, Ping, PingOk, PingFails, SeeSignal, Close,
                treeVars
  <2>5. CASE UNCHANGED treeVars
    BY <2>5 DEF treeVars
  <2>. QED
    BY <2>1, <2>2, <2>3, <2>4, <2>5 DEF MNext, RootStep, mvars, treeVars
<1>. QED
  BY <1>1, <1>2, ServiceInvariance, PTL DEF MSpec, Spec

=============================================================================
