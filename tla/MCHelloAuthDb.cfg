SPECIFICATION FairSpec
CONSTANTS
    Conn = {c1, c2}
    NoRequest = NoRequest
    NoHandler = NoHandler
    MaxRequests = 3
    NoToken = NoToken
    Malformed = Malformed
    NoSecret = NoSecret
    OurIssuer = "ours"
    NoAudience = NoAudience
    OurAudience = NoAudience
    Ttl = 0
    Leeway = 0
    secret = "s"
    MaxClock = 1
    PlainRequest <- MCPlainRequest
    Empty = Empty
    Garbage = Garbage
    Provided = {"SqlitePool", "Database", "SecretsProvider"}
    Configured = {"JwtSettings", "OpenApiConfig"}
    Forged <- MCForged
    Worker = {main, w1}
    ContextThread = {main}
    MaxDbErrors = 1
INVARIANTS
  AcceptedIsOwn
  OneAccount
PROPERTIES
  Served
CHECK_DEADLOCK FALSE
