--------------------------- MODULE MCHelloAuthDb ---------------------------
EXTENDS HelloAuthDb

Creds(email, password) == [email |-> email, password |-> password]
Post(path, body) == Ask("POST", <<path>>, body, NoToken)
Get(path) == Ask("GET", <<path>>, Garbage, NoToken)

MCPlainRequest ==
    {Post("signup", Creds("ann", "a")), Post("signup", Creds("bob", "b")),
     Post("login", Creds("ann", "a")), Post("login", Garbage), Get("openapi.json")}
MCForged == {[claims |-> [sub |-> 1, iss |-> "other", aud |-> NoAudience,
                          exp |-> MaxClock], key |-> "theirs"]}
=============================================================================
