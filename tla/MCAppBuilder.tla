---------------------------- MODULE MCAppBuilder ----------------------------
EXTENDS AppBuilder

B == INSTANCE BundledPlugins WITH Default <- DefaultName, None <- None

MCContract == {"JobStore", "SecretsProvider", "McpRegistry", "McpClient",
               "HealthRegistry", "Llm", "SqlitePool", "PgPool", "Database",
               "SessionStore"}

\* Two plugins of an application: one spreads its calls over two models, one
\* prefers a local model and has a service that uses whichever there is.
Balancer ==
    [resources |-> << >>, capabilities |-> << >>,
     strategies |-> <<<<"Llm", WeightedRoundRobin(
                          <<<<"openai", 2>>, <<"default", 0>>, <<"ollama", 1>>>>)>>>>,
     services |-> << >>,
     requires |-> <<B!Named("Llm", "openai"), B!Named("Llm", "ollama")>>]
Assistant ==
    [resources |-> << >>, capabilities |-> << >>,
     strategies |-> <<<<"Llm", Fallback(<<"ollama", "openai">>)>>>>,
     services |-> <<[uses |-> {"Llm"}, reads |-> {}]>>,
     requires |-> <<B!Any("Llm")>>]

MCPlugin == {B!Jobs(2), B!InMemoryJobStore, B!SqliteJobStore(TRUE),
             B!InMemorySecrets, B!InMemorySessionStore, B!Auth(TRUE),
             B!Mcp(<<B!McpServer(TRUE)>>), B!InMemoryMcp, B!Observability,
             B!OpenAi, B!Ollama, B!OpenApi, B!Sqlite, B!Postgres,
             Balancer, Assistant}
\* What the application brings itself need not be what a plugin looks for: a
\* service that looks something up, providers under a name of its own.
MCOwnService == {[uses |-> {"SecretsProvider"}, reads |-> {}]}
MCOwnCapability == {<<"JobStore", "default">>, <<"JobStore", "own">>, <<"Llm", "own">>}
MCOwnResource == {"JobsConfig"}

MCPath == {<<Lit("users"), Colon("id")>>, <<Lit("users"), Brace("name")>>,
           <<Lit("users"), Lit("me")>>}
\* Each described route declares the parameters of its path, as its author reads
\* it, and one of the query; those that change something declare a body, what
\* they answer with and what they answer a bad one with.
Described(method, path) ==
    LET params == SelectSeq(path, LAMBDA s : s.kind # "lit")
        spec   == FoldLeft(LAMBDA rest, s : PathParam(rest, s.name),
                           QueryParam(NewSpec(method, path), "q", FALSE), params)
    IN  IF method = "get" THEN spec
        ELSE EmptyResponse(Response(JsonBody(spec), "200"), "404")
MCRouteSpec == {Described(m, p) : m \in {"get", "patch"}, p \in MCPath}
MCDocPath == <<Lit("openapi.json")>>
=============================================================================
