------------------------------ MODULE JwtAuth ------------------------------
(***************************************************************************)
(* walastack-auth: the codec that is built for every request from the      *)
(* secret an in-memory SecretsProvider holds, and the Auth extractor.  A   *)
(* token is its claims and the secret it was signed with.                  *)
(***************************************************************************)
EXTENDS Naturals

CONSTANTS
    NoToken,       \* no Authorization header
    Malformed,     \* a header that is not `Bearer <token>`
    NoSecret,      \* the provider has no secret under key_name
    OurIssuer,     \* JwtConfig.issuer
    NoAudience,    \* JwtConfig.audience or Claims.aud is None
    OurAudience,   \* JwtConfig.audience
    Ttl,           \* JwtConfig.default_ttl
    Leeway,        \* jsonwebtoken's default leeway on exp
    secret,        \* what SecretsProvider::get(key_name) returns
    MaxClock       \* bound: time

ASSUME JwtAssumption == {Ttl, Leeway, MaxClock} \subseteq Nat

VARIABLES
    clock          \* Utc::now

authVars == clock

AuthInit == clock = 0

-----------------------------------------------------------------------------
Tick == clock < MaxClock /\ clock' = clock + 1

-----------------------------------------------------------------------------
(* JwtCodec.                                                               *)

\* from_runtime: the secret is looked up, and not kept.
CodecConstructible == secret # NoSecret

\* issue, issue_with_ttl.
Issue(subject) ==
    [sub |-> subject, iss |-> OurIssuer, aud |-> OurAudience,
     exp |-> clock + Ttl]

\* encode: the secret is looked up again.
Encode(claims) == [claims |-> claims, key |-> secret]

\* Mutant: exp is not validated.
AcceptsExpired(token) ==
    /\ token.key = secret
    /\ token.claims.iss = OurIssuer
    /\ OurAudience # NoAudience => token.claims.aud = OurAudience

\* decode_custom, with the Validation it sets up.
Accepts(token) ==
    /\ token.key = secret
    /\ token.claims.iss = OurIssuer
    /\ OurAudience # NoAudience => token.claims.aud = OurAudience
    /\ token.claims.exp + Leeway >= clock

-----------------------------------------------------------------------------
(* AuthRejection: the status of each failure of the extractor.             *)

AuthStatus(rejection) ==
    IF rejection \in {"MissingAuthorizationHeader",
                      "MalformedAuthorizationHeader", "InvalidToken"}
    THEN 401 ELSE 500
=============================================================================
