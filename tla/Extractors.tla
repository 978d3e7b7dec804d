----------------------------- MODULE Extractors -----------------------------
(***************************************************************************)
(* Extractors (walastack-http, Cap of walastack-app, Auth of               *)
(* walastack-auth): a handler's parameters are taken from the request from *)
(* left to right, each from its head, the last one from its body too; the  *)
(* first that cannot be taken answers in the handler's place.              *)
(***************************************************************************)
EXTENDS JwtAuth, Sequences, FiniteSetsExt

CONSTANTS
    Provided,   \* capabilities the runtime context resolves
    Configured, \* resources it holds
    Garbage     \* a body that is not the JSON its handler expects

CapOf(contract) == [of |-> "Cap", contract |-> contract]
Auth == [of |-> "Auth"]
Json == [of |-> "Json"]

-----------------------------------------------------------------------------
(* Rejections, by the status they answer with; 0 is none.  The context is  *)
(* in every request the server dispatches.                                 *)

CapRejection(contract) == IF contract \in Provided THEN 0 ELSE 500

\* from_request_parts: settings, codec, header and token are looked at in this
\* order, so a misconfigured server answers 500 to any header.
AuthRejection(token) ==
    LET checks ==
          <<<<"JwtSettings" \in Configured, "MissingJwtSettings">>,
            <<"SecretsProvider" \in Provided, "SecretsProviderMissing">>,
            <<CodecConstructible, "SecretNotFound">>,
            <<token # NoToken, "MissingAuthorizationHeader">>,
            <<token # Malformed, "MalformedAuthorizationHeader">>,
            <<token \notin {NoToken, Malformed} => Accepts(token), "InvalidToken">>>>
        failed == {i \in DOMAIN checks : ~checks[i][1]}
    IN  IF failed = {} THEN 0 ELSE AuthStatus(checks[Min(failed)][2])

JsonRejection(body) == IF body = Garbage THEN 400 ELSE 0

Rejection(extractor, request) ==
    CASE extractor.of = "Cap"  -> CapRejection(extractor.contract)
      [] extractor.of = "Auth" -> AuthRejection(request.token)
      [] extractor.of = "Json" -> JsonRejection(request.body)

\* Handler::call, before it calls the function.
FirstRejection(extractors, request) ==
    LET rejected == {i \in DOMAIN extractors : Rejection(extractors[i], request) # 0}
    IN  IF rejected = {} THEN 0 ELSE Rejection(extractors[Min(rejected)], request)
=============================================================================
