------------------------------ MODULE Routing ------------------------------
(***************************************************************************)
(* Paths and the router (walastack-router): routes are written in the      *)
(* `:name` syntax, or in matchit's, and translated when they are added.    *)
(*                                                                         *)
(* A path is a sequence of segments, a segment a kind and a name:          *)
(*   lit    literal text           colon  :name, WalaStack's syntax        *)
(*   brace  {name}, the syntax of matchit and of OpenAPI                   *)
(* A ':' inside a segment is left out: the two translators differ on it.   *)
(***************************************************************************)
EXTENDS Naturals, Sequences, FiniteSets, SequencesExt, Tables

Lit(name) == [kind |-> "lit", name |-> name]
Colon(name) == [kind |-> "colon", name |-> name]
Brace(name) == [kind |-> "brace", name |-> name]
IsSegment(s) == s \in {Lit(s.name), Colon(s.name), Brace(s.name)}

-----------------------------------------------------------------------------
(* translate_path and normalize_path, on these paths.                      *)

TranslateSegment(s) == IF s.kind = "colon" THEN Brace(s.name) ELSE s
TranslatePath(path) == [i \in DOMAIN path |-> TranslateSegment(path[i])]

-----------------------------------------------------------------------------
(* matchit: a table of routes per method; [method, path] -> handler.       *)

IsParam(s) == s.kind = "brace"

SameShape(p, q) ==
    /\ Len(p) = Len(q)
    /\ \A i \in DOMAIN p : (IsParam(p[i]) /\ IsParam(q[i])) \/ p[i] = q[i]

Matches(pattern, path) ==
    /\ Len(pattern) = Len(path)
    /\ \A i \in DOMAIN pattern :
          IsParam(pattern[i]) \/ pattern[i] = Lit(path[i])

\* Of two patterns that match, the one whose segment is literal where they
\* first differ is tried first.
Before(p, q) ==
    \E i \in DOMAIN p :
        /\ ~IsParam(p[i]) /\ IsParam(q[i])
        /\ \A j \in 1 .. i - 1 : IsParam(p[j]) = IsParam(q[j])

-----------------------------------------------------------------------------
(* Router::route and Router::dispatch.                                     *)

\* insert fails, and route panics, on a pattern of the same shape.
Conflict(router, method, path) ==
    \E r \in DOMAIN router :
        r.method = method /\ SameShape(r.path, TranslatePath(path))

Route(router, method, path, handler) ==
    Put(router, [method |-> method, path |-> TranslatePath(path)], handler)

Candidates(router, method, path) ==
    {r \in DOMAIN router : r.method = method /\ Matches(r.path, path)}

\* The route that is tried first.
Found(router, method, path) ==
    LET found == Candidates(router, method, path)
    IN  CHOOSE r \in found : \A q \in found \ {r} : Before(r.path, q.path)

\* The handler, or none: a path or a method that is not routed is a 404.
Dispatch(router, method, path, none) ==
    IF Candidates(router, method, path) = {} THEN none
    ELSE router[Found(router, method, path)]

\* PathParams: what the handler is given of a path that matches.
PathParams(pattern, path) ==
    {<<pattern[i].name, path[i]>> :
        i \in {k \in DOMAIN pattern : IsParam(pattern[k])}}

=============================================================================
