--------------------------- MODULE BundledPlugins ---------------------------
(***************************************************************************)
(* The plugins the repository ships, as what their hooks register, plan    *)
(* and require, and their services as what Service::start looks up.        *)
(***************************************************************************)
EXTENDS Naturals, Sequences

CONSTANTS Default, None

Plug(resources, capabilities, services, requires) ==
    [resources |-> resources, capabilities |-> capabilities,
     strategies |-> << >>, services |-> services, requires |-> requires]

\* CapabilityRequirement::any and ::named.
Any(contract) == <<contract, None>>
Named(contract, name) == <<contract, name>>

-----------------------------------------------------------------------------
(* walastack-jobs.                                                         *)

Worker == [uses |-> {"JobStore"}, reads |-> {"JobsConfig", "JobsDispatcher"}]

Jobs(workers) ==
    Plug(<<"JobsConfig", "JobsDispatcher">>, << >>,
         [i \in 1 .. workers |-> Worker], <<Any("JobStore")>>)

InMemoryJobStore ==
    Plug(<< >>, <<<<"JobStore", Default>>>>, << >>, << >>)

Migration == [uses |-> {}, reads |-> {"SqliteJobStoreSettings"}]

\* The migration is planned by the store's own flag.
SqliteJobStore(autoMigrate) ==
    Plug(<<"SqliteJobStoreSettings">>, <<<<"JobStore", Default>>>>,
         IF autoMigrate THEN <<Migration>> ELSE << >>, << >>)

-----------------------------------------------------------------------------
(* walastack-auth.                                                         *)

InMemorySecrets ==
    Plug(<< >>, <<<<"SecretsProvider", Default>>>>, << >>, << >>)

InMemorySessionStore ==
    Plug(<< >>, <<<<"SessionStore", Default>>>>, << >>, << >>)

Auth(withJwt) ==
    Plug(IF withJwt THEN <<"JwtSettings">> ELSE << >>, << >>, << >>,
         <<Any("SecretsProvider")>>)

-----------------------------------------------------------------------------
(* walastack-mcp: a service per configured server; one that is given an    *)
(* environment looks the secrets provider up.                              *)

McpServer(hasEnv) ==
    [uses |-> IF hasEnv THEN {"SecretsProvider"} ELSE {}, reads |-> {}]

Mcp(servers) ==
    Plug(<<"McpConfig">>,
         <<<<"McpRegistry", Default>>, <<"McpClient", Default>>>>,
         servers, <<Any("SecretsProvider")>>)

InMemoryMcp ==
    Plug(<< >>, <<<<"McpRegistry", Default>>, <<"McpClient", Default>>>>,
         << >>, << >>)

-----------------------------------------------------------------------------
(* walastack-db, walastack-llm, walastack-openapi, walastack-observability. *)

Sqlite == Plug(<< >>, <<<<"SqlitePool", Default>>, <<"Database", Default>>>>,
               << >>, << >>)

Postgres == Plug(<< >>, <<<<"PgPool", Default>>, <<"Database", Default>>>>,
                 << >>, << >>)

OpenAi == Plug(<< >>, <<<<"Llm", "openai">>>>, << >>, << >>)
Ollama == Plug(<< >>, <<<<"Llm", "ollama">>>>, << >>, << >>)

OpenApi == Plug(<<"OpenApiConfig">>, << >>, << >>, << >>)

Recorder == [uses |-> {}, reads |-> {}]
Observability ==
    Plug(<< >>, <<<<"HealthRegistry", Default>>>>, <<Recorder>>, << >>)
=============================================================================
