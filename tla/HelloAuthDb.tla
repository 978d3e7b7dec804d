---------------------------- MODULE HelloAuthDb ----------------------------
(***************************************************************************)
(* An application on the whole stack (examples/hello-auth-db and           *)
(* examples/hello-auth-db-openapi): accounts in an SQLite database, a JWT  *)
(* for who signs up or logs in, a route only a token opens, a document.    *)
(* The handlers are the composition of HttpServer, Extractors and JwtAuth; *)
(* their queries are awaits, so handlers of several connections interleave *)
(* between a SELECT and an INSERT, and a client that hangs up drops one    *)
(* between any two of them.                                                *)
(***************************************************************************)
EXTENDS HttpServer, Extractors

CONSTANTS
    PlainRequest,    \* requests without a token
    Empty,           \* the empty string
    Forged,          \* tokens this application never signed
    Worker,          \* threads the connection tasks run on
    ContextThread,   \* threads whose RUNTIME_CTX has been set
    MaxDbErrors      \* bound: queries that fail

ASSUME RequestAssumption ==
    /\ \A r \in PlainRequest : r.token = NoToken
    /\ \A token \in Forged : token.key # secret

VARIABLES
    users,      \* the table: set of [id, email, password]
    nextId,     \* AUTOINCREMENT
    dbErrors,
    subject,    \* per connection: the id its handler holds
    minted,     \* reference: [token, id, email] for every token issued
    since       \* reference: per connection, the time of its request

dbVars == <<users, nextId, dbErrors>>
refVars == <<minted, since>>
appVars == <<dbVars, subject, refVars>>
vars == <<httpVars, authVars, appVars>>

NoId == 0

Init ==
    /\ HttpInit /\ AuthInit
    /\ users = {}
    /\ nextId = 1
    /\ dbErrors = 0
    /\ subject = [c \in Conn |-> NoId]
    /\ minted = {}
    /\ since = [c \in Conn |-> 0]

-----------------------------------------------------------------------------
(* build_app, and the requests clients make of it.                         *)

Health == <<Lit("health")>>
Signup == <<Lit("signup")>>
Login == <<Lit("login")>>
Me == <<Lit("me")>>
Document == <<Lit("openapi.json")>>

App ==
    LET route(table, r) == Route(table, r[1], r[2], r[3])
    IN  FoldLeft(route, << >>,
            <<<<"GET", Health, "health">>, <<"POST", Signup, "signup">>,
              <<"POST", Login, "login">>, <<"GET", Me, "me">>,
              <<"GET", Document, "document">>>>)

Ask(method, path, body, token) ==
    [method |-> method, path |-> path, body |-> body, token |-> token]

Requests ==
    PlainRequest \cup
    {Ask("GET", <<"me">>, Garbage, token) :
        token \in {m.token : m \in minted} \cup Forged \cup {NoToken, Malformed}}

Send(c) ==
    /\ \E r \in Requests : SendHead(c, r)
    /\ since' = [since EXCEPT ![c] = clock]
    /\ UNCHANGED <<authVars, dbVars, subject, minted>>

-----------------------------------------------------------------------------
(* A handler up to its first await.                                        *)

Parameters ==
    [health   |-> << >>,
     signup   |-> <<CapOf("SqlitePool"), Json>>,
     login    |-> <<CapOf("SqlitePool"), Json>>,
     me       |-> <<CapOf("SqlitePool"), Auth>>,
     document |-> << >>]

Enter(c) ==
    \/ /\ handler[c] \in {"health", "document"} /\ UNCHANGED subject
       /\ Finish(c, Reply(IF handler[c] = "document" /\ "OpenApiConfig" \notin Configured
                          THEN 500 ELSE 200))
    \/ /\ handler[c] = "signup" /\ UNCHANGED subject
       /\ IF Empty \in {request[c].body.email, request[c].body.password}
          THEN Finish(c, Reply(400)) ELSE Await(c, "select")
    \/ /\ handler[c] = "login"
       /\ Await(c, "select") /\ UNCHANGED subject
    \/ /\ handler[c] = "me"
       /\ Await(c, "select")
       /\ subject' = [subject EXCEPT ![c] = request[c].token.claims.sub]

Extract(c) ==
    /\ at[c] = "extract"
    /\ LET rejection == FirstRejection(Parameters[handler[c]], request[c])
       IN  IF rejection = 0 THEN Enter(c)
           ELSE Finish(c, Reply(rejection)) /\ UNCHANGED subject
    /\ UNCHANGED <<authVars, dbVars, refVars>>

-----------------------------------------------------------------------------
(* The handlers, one action per query.                                     *)

Row(email) == {u \in users : u.email = email}

QueryFails(c) ==
    /\ at[c] \in {"select", "insert"} /\ dbErrors < MaxDbErrors
    /\ dbErrors' = dbErrors + 1
    /\ Finish(c, Reply(500))
    /\ UNCHANGED <<authVars, users, nextId, subject, refVars>>

SignupSelect(c) ==
    /\ at[c] = "select" /\ handler[c] = "signup"
    /\ IF Row(request[c].body.email) # {} THEN Finish(c, Reply(409))
       ELSE Await(c, "insert")
    /\ UNCHANGED <<authVars, appVars>>

\* Mutant: the column is not UNIQUE.
SignupInsertAny(c) ==
    /\ at[c] = "insert"
    /\ users' = users \cup {[id |-> nextId, email |-> request[c].body.email,
                             password |-> request[c].body.password]}
    /\ nextId' = nextId + 1
    /\ subject' = [subject EXCEPT ![c] = nextId]
    /\ Await(c, "issue")
    /\ UNCHANGED <<authVars, dbErrors, refVars>>

\* The UNIQUE constraint answers for a signup that came in between.
SignupInsert(c) ==
    /\ at[c] = "insert"
    /\ IF Row(request[c].body.email) # {}
       THEN Finish(c, Reply(500)) /\ UNCHANGED <<users, nextId, subject>>
       ELSE /\ users' = users \cup
                    {[id |-> nextId, email |-> request[c].body.email,
                      password |-> request[c].body.password]}
            /\ nextId' = nextId + 1
            /\ subject' = [subject EXCEPT ![c] = nextId]
            /\ Await(c, "issue")
    /\ UNCHANGED <<authVars, dbErrors, refVars>>

LoginSelect(c) ==
    /\ at[c] = "select" /\ handler[c] = "login"
    /\ LET row == Row(request[c].body.email)
       IN  IF \E u \in row : u.password = request[c].body.password
           THEN /\ subject' = [subject EXCEPT ![c] = (CHOOSE u \in row : TRUE).id]
                /\ Await(c, "issue")
           ELSE Finish(c, Reply(401)) /\ UNCHANGED subject
    /\ UNCHANGED <<authVars, dbVars, refVars>>

\* issue_token on the thread the task runs on: a thread without a context
\* panics, and the connection goes with its task.
IssueToken(c) ==
    /\ at[c] = "issue"
    /\ \E w \in Worker :
          IF w \notin ContextThread
          THEN Lost(c) /\ UNCHANGED minted
          ELSE LET token == Encode(Issue(subject[c]))
               IN  /\ Finish(c, [status |-> 200, token |-> token])
                   /\ UNCHANGED handler
                   /\ minted' = minted \cup
                        {[token |-> token, id |-> subject[c],
                          email |-> request[c].body.email]}
    /\ subject' = [subject EXCEPT ![c] = IF at'[c] = "none" THEN NoId ELSE @]
    /\ since' = [since EXCEPT ![c] = IF at'[c] = "none" THEN 0 ELSE @]
    /\ UNCHANGED <<authVars, dbVars>>

MeSelect(c) ==
    /\ at[c] = "select" /\ handler[c] = "me"
    /\ LET row == {u \in users : u.id = subject[c]}
       IN  IF row = {} THEN Finish(c, Reply(401))
           ELSE Finish(c, [status |-> 200, user |-> CHOOSE u \in row : TRUE])
    /\ UNCHANGED <<authVars, appVars>>

Handle(c) ==
    \/ IssueToken(c)
    \/ /\ UNCHANGED handler
       /\ \/ Extract(c) \/ QueryFails(c)
          \/ SignupSelect(c) \/ SignupInsert(c) \/ LoginSelect(c) \/ MeSelect(c)

\* What a handler held goes with its request.
Others ==
    /\ UNCHANGED <<authVars, dbVars, minted>>
    /\ subject' = [c \in Conn |-> IF at'[c] = "none" THEN NoId ELSE subject[c]]
    /\ since' = [c \in Conn |-> IF at'[c] = "none" THEN 0 ELSE since[c]]
Serve == ServerStep(App) /\ Others
Environment == Tick /\ UNCHANGED <<httpVars, appVars>>

Next == Serve \/ Environment \/ \E c \in Conn : Send(c) \/ Handle(c)

Spec == Init /\ [][Next]_vars

\* The accept loop and the connection tasks are scheduled; a client need not
\* finish its body, nobody is obliged to shut the server down, and descriptors
\* that ran out need not come back.
Task(c) == ((Accept(c) \/ Respond(c)) /\ Others) \/ Handle(c)
Fairness == \A c \in Conn : WF_vars(Task(c))

FairSpec == Spec /\ Fairness

-----------------------------------------------------------------------------
(* Properties.                                                             *)

\* Whoever /me answers has presented, at a signup or a login, the credentials
\* of the account it is told of, and the token had not expired when the
\* request was sent (Auth::from_request_parts, decode_custom, issue_token, me).
AcceptedIsOwn ==
    \A c \in Conn :
        (at[c] = "respond" /\ handler[c] = "me" /\ reply[c].status = 200) =>
            /\ \E m \in minted : /\ m.token = request[c].token
                                 /\ m.id = reply[c].user.id
                                 /\ m.email = reply[c].user.email
            /\ request[c].token.claims.exp + Leeway >= since[c]

\* Signups that race for an email leave one account, and every token is for
\* the account of the email it was asked for (signup, login, migrate).
OneAccount ==
    /\ \A u, v \in users : u.email = v.email => u = v
    /\ \A m \in minted : \E u \in users : u.id = m.id /\ u.email = m.email

\* A connection does not stay in the backlog while accept can succeed, however
\* many connections are open: it is taken out unless the loop ends or the process
\* is out of descriptors.  A request whose body has been read is answered
\* unless its connection or the process ends (accept_loop, serve_request).
Waiting(c) ==
    \/ conn[c] = "queued" /\ listener = "accepting"
    \/ at[c] \notin {"none", "body"}
Served == \A c \in Conn : Waiting(c) ~> ~Waiting(c)
=============================================================================
