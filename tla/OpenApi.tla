------------------------------ MODULE OpenApi ------------------------------
(***************************************************************************)
(* walastack-openapi: a RouteSpec describes a route by a chain of builder  *)
(* calls; render_document assembles the paths of a document from the specs *)
(* it is given.  Titles, descriptions and schemas are carried over as they *)
(* are and left out: a body or a response is the set of its content types. *)
(***************************************************************************)
EXTENDS Routing

-----------------------------------------------------------------------------
(* RouteSpec.                                                              *)

\* Method.
OpenapiMethod ==
    {"get", "post", "put", "delete", "patch", "options", "head", "trace"}

NewSpec(method, path) ==
    [method |-> method, path |-> path, parameters |-> << >>,
     request_body |-> {}, responses |-> << >>]

\* A path parameter is required, whatever its schema says.
PathParam(spec, name) ==
    [spec EXCEPT !.parameters =
        Append(@, [name |-> name, in |-> "path", required |-> TRUE])]

QueryParam(spec, name, required) ==
    [spec EXCEPT !.parameters =
        Append(@, [name |-> name, in |-> "query", required |-> required])]

JsonContent == {"application/json"}
JsonBody(spec) == [spec EXCEPT !.request_body = JsonContent]

\* Of two responses for a status the later one replaces the earlier.
Response(spec, status) == [spec EXCEPT !.responses = Put(@, status, JsonContent)]
EmptyResponse(spec, status) == [spec EXCEPT !.responses = Put(@, status, {})]

-----------------------------------------------------------------------------
(* normalize_path.                                                         *)

NormalizeSegment(s) == IF s.kind = "colon" THEN Brace(s.name) ELSE s
NormalizePath(path) == [i \in DOMAIN path |-> NormalizeSegment(path[i])]

-----------------------------------------------------------------------------
(* render_document: [path, method] -> operation; of two specs for the same *)
(* operation the later one replaces the earlier.                           *)

\* A document needs a response: there is a default where none was declared.
RenderOperation(spec) ==
    [parameters   |-> spec.parameters,
     request_body |-> spec.request_body,
     responses    |-> IF DOMAIN spec.responses = {}
                      THEN Put(<< >>, "default", {}) ELSE spec.responses]

OperationKey(spec) == [path |-> NormalizePath(spec.path), method |-> spec.method]

RenderDocument(specs) ==
    LET of(key) == {i \in DOMAIN specs : OperationKey(specs[i]) = key}
        last(key) == CHOOSE i \in of(key) : \A j \in of(key) : j <= i
    IN  [key \in {OperationKey(specs[i]) : i \in DOMAIN specs} |->
            RenderOperation(specs[last(key)])]
=============================================================================
