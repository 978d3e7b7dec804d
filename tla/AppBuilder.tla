----------------------------- MODULE AppBuilder -----------------------------
(***************************************************************************)
(* walastack_app::App: routes, some of them described for OpenAPI, and     *)
(* plugins, collected by a chain of calls; App::run hands the plugins to a *)
(* RuntimeBuilder behind an HTTP service.  Documents are fixed when        *)
(* openapi_serve_at is called and rendered, with the OpenApiConfig of the  *)
(* frozen resources, when they are requested.                              *)
(***************************************************************************)
EXTENDS RuntimeBuilder, OpenApi

CONSTANTS
    AppMethod,    \* methods of the plain route calls (get, post, put, delete)
    RouteSpec,    \* the specs described routes are given
    Path,         \* the paths of plain routes
    DocPath,      \* the path of the document
    MaxCalls      \* bound: calls on the builder, with_plugin included

\* The path parameters a description declares.
Declared(operation) ==
    {p.name : p \in {q \in ToSet(operation.parameters) : q.in = "path"}}

\* Every path is written in the syntax of Routing, "value" is no literal of one,
\* and the author of a description declares the parameters of its path: nothing
\* in openapi_route checks it.
Written == Path \cup {DocPath} \cup {spec.path : spec \in RouteSpec}

ASSUME RoutesAssumption ==
    /\ \A path \in Written :
          /\ path \in Seq(ToSet(path))
          /\ \A i \in DOMAIN path : IsSegment(path[i]) /\ path[i] # Lit("value")
    /\ \A spec \in RouteSpec :
          /\ spec.method \in OpenapiMethod
          /\ Declared(spec) =
                {spec.path[i].name : i \in {k \in DOMAIN spec.path :
                                             spec.path[k].kind # "lit"}}

VARIABLES
    router,         \* App.router
    openapiRoutes,  \* App.openapi_routes: specs not yet in a document, each
                    \* with the number of its handler
    documents,      \* per document handler: the specs it was given
    calls,          \* route calls so far; the handler of one is its number
    panicked        \* a route call met a conflicting pattern

avars == <<router, openapiRoutes, documents, calls, panicked>>

AInit ==
    /\ RInit
    /\ router = << >>
    /\ openapiRoutes = << >>
    /\ documents = << >>
    /\ calls = 0
    /\ panicked = FALSE

-----------------------------------------------------------------------------
(* The calls of the chain.                                                 *)

MethodFromOpenapi(method) ==
    [get |-> "GET", post |-> "POST", put |-> "PUT", delete |-> "DELETE",
     patch |-> "PATCH", options |-> "OPTIONS", head |-> "HEAD",
     trace |-> "TRACE"][method]

MayCall ==
    phase = "configure" /\ ~panicked
    /\ calls + Len(plugins) + Len(own) < MaxCalls

\* App::add_route: the router panics on a conflict, or has one route more.
AddRoute(method, path) ==
    IF Conflict(router, method, path)
    THEN panicked' = TRUE /\ UNCHANGED router
    ELSE /\ router' = Route(router, method, path, calls + 1)
         /\ UNCHANGED panicked

\* App::get, post, put, delete and, through them, App::route.
PlainRoute(method, path) ==
    /\ MayCall
    /\ AddRoute(method, path)
    /\ calls' = calls + 1
    /\ UNCHANGED <<openapiRoutes, documents, rvars>>

\* Mutant: the handler is added with the default method.
OpenapiRouteGet(spec) ==
    /\ MayCall
    /\ openapiRoutes' = Append(openapiRoutes, [spec |-> spec, handler |-> calls + 1])
    /\ AddRoute("GET", spec.path)
    /\ calls' = calls + 1
    /\ UNCHANGED <<documents, rvars>>

OpenapiRoute(spec) ==
    /\ MayCall
    /\ openapiRoutes' = Append(openapiRoutes, [spec |-> spec, handler |-> calls + 1])
    /\ AddRoute(MethodFromOpenapi(spec.method), spec.path)
    /\ calls' = calls + 1
    /\ UNCHANGED <<documents, rvars>>

OpenapiServeAt(path) ==
    /\ MayCall
    /\ AddRoute("GET", path)
    /\ documents' = Put(documents, calls + 1, openapiRoutes)
    /\ openapiRoutes' = << >>
    /\ calls' = calls + 1
    /\ UNCHANGED rvars

\* App::with_plugin: App::run hands the plugins to the builder in order.
AppPlugin(p) == MayCall /\ WithPlugin(p) /\ UNCHANGED avars
AppOwn ==
    /\ MayCall
    /\ \/ \E r \in OwnResource : WithResource(r)
       \/ \E c \in OwnCapability : WithCapability(c[1], c[2])
       \/ \E s \in OwnService : WithSupervised(s)
    /\ UNCHANGED avars

\* RuntimeBuilder::run.
Run ==
    /\ ~panicked
    /\ ApplyPlugin \/ Freeze \/ Validate \/ StartService
    /\ UNCHANGED avars

Lookup ==
    /\ \E t \in Caller :
          ResolvePick(t) \/ \E c \in Contract : FetchAdd(t, c)
    /\ UNCHANGED avars

ANext ==
    \/ \E m \in AppMethod, p \in Path : PlainRoute(m, p)
    \/ \E spec \in RouteSpec : OpenapiRoute(spec)
    \/ OpenapiServeAt(DocPath)
    \/ \E p \in Plugin : AppPlugin(p)
    \/ AppOwn \/ Run \/ Lookup

ASpec == AInit /\ [][ANext]_<<rvars, avars>>

-----------------------------------------------------------------------------
(* Properties.                                                             *)

\* The document and the router read the same calls alike: every described
\* route is an operation of its document, and a request for an operation, with
\* any value for its parameters that is no literal of a sibling route, reaches
\* the handler it was described with, which is given the path parameters the
\* operation declares and whose body and answers the operation describes
\* (openapi_route, render_document, Router::dispatch).
Instance(path) ==
    [i \in DOMAIN path |-> IF IsParam(path[i]) THEN "value" ELSE path[i].name]
DocumentedIsRouted ==
    ~panicked =>
        \A d \in DOMAIN documents :
            LET document == RenderDocument([i \in DOMAIN documents[d] |->
                                               documents[d][i].spec])
            IN  \A route \in ToSet(documents[d]) :
                    LET spec   == route.spec
                        key    == OperationKey(spec)
                        method == MethodFromOpenapi(spec.method)
                        path   == Instance(key.path)
                    IN  /\ key \in DOMAIN document
                        /\ Dispatch(router, method, path, None) = route.handler
                        /\ document[key].request_body = spec.request_body
                        /\ DOMAIN document[key].responses # {}
                        /\ \A status \in DOMAIN spec.responses :
                              document[key].responses[status] = spec.responses[status]
                        /\ Declared(document[key]) =
                             {p[1] : p \in PathParams(Found(router, method, path).path, path)}
=============================================================================
