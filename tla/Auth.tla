--------------------------------- MODULE Auth ---------------------------------
(***************************************************************************)
(* Who may read: the Bearer token of a request, routed by its type to one  *)
(* of the two parsers of the identity library (external), and what the     *)
(* service-token policy says of its claims.                                *)
(*                                                                         *)
(* A token is a record: its JOSE typ (Nil if it cannot be read), whether   *)
(* the issuer signed it so (genuine), whether it is current, and its       *)
(* claims.  The policy's values are texts, sequences of words and spaces.  *)
(***************************************************************************)
EXTENDS Origin

ASSUME AuthConstants == Lower["Bearer"] = "bearer" /\ Nil \notin {"JWT", "at+jwt"}

\* bearerToken, of a header [scheme, spaced, token]; Nil is no header.
BearerToken(header) ==
    IF header = Nil THEN Nil
    ELSE IF Lower[header.scheme] = "bearer" /\ header.spaced THEN header.token ELSE Nil

IsServiceToken(token) == token.typ = "at+jwt"

\* The library's answers: each parser refuses the other's tokens; without keys
\* a token that is not even well-formed may still be refused as such.
Parse(token, typ, keys) ==
    IF ~keys THEN {"keys"} \union (IF token.typ = Nil THEN {"invalid"} ELSE {})
    ELSE {IF ~token.genuine \/ token.typ # typ THEN "invalid"
          ELSE IF ~token.current THEN "expired" ELSE "ok"}

AudienceOK(service, token) == service.audience = <<>> \/ service.audience \in token.aud
ClientAllowed(service, client) ==
    service.clients = <<>> \/ client \in {service.clients[i] : i \in DOMAIN service.clients}
ScopeOK(service, token) == service.scope = <<>> \/ service.scope \in token.scopes

\* Mutant: every token that the parser refuses is challenged.
RejectAsInvalid(error) == 401

RejectParseError(error) == IF error = "keys" THEN 503 ELSE 401

\* The status of a request that is turned away, 200 if the handler gets it.
ServeUser(token, keys) ==
    {IF error # "ok" THEN RejectParseError(error)
     ELSE IF ~token.active THEN 401 ELSE 200 : error \in Parse(token, "JWT", keys)}

\* Mutant: the client allowlist is consulted before the audience.
ServeServiceClientFirst(service, token, keys) ==
    IF ~service.enabled THEN {401}
    ELSE {IF error # "ok" THEN RejectParseError(error)
          ELSE IF ~ClientAllowed(service, token.client) THEN 403
          ELSE IF ~AudienceOK(service, token) THEN 401
          ELSE IF ~ScopeOK(service, token) THEN 403
          ELSE 200 : error \in Parse(token, "at+jwt", keys)}

\* The credential first, then the principal.
ServeService(service, token, keys) ==
    IF ~service.enabled THEN {401}
    ELSE {IF error # "ok" THEN RejectParseError(error)
          ELSE IF ~AudienceOK(service, token) THEN 401
          ELSE IF ~ClientAllowed(service, token.client) THEN 403
          ELSE IF ~ScopeOK(service, token) THEN 403
          ELSE 200 : error \in Parse(token, "at+jwt", keys)}

RequireAuth(service, header, keys) ==
    LET token == BearerToken(header)
    IN  IF token = Nil THEN {401}
        ELSE IF IsServiceToken(token) THEN ServeService(service, token, keys)
        ELSE ServeUser(token, keys)

-----------------------------------------------------------------------------
(* Validate: the site is named, the allowlist compiles, and no setting of   *)
(* the service tokens is one that no token can match.                       *)

SeveralWords(text) ==
    \E i, j, k \in DOMAIN text : i < j /\ j < k /\ text[i] # " " /\ text[j] = " " /\ text[k] # " "

\* Mutant: a client that is left blank is let pass.
ValidateServiceTokensBlank(service) ==
    /\ \A value \in {service.audience, service.scope} : ~Padded(value) /\ ~SeveralWords(value)
    /\ \A i \in DOMAIN service.clients : ~Padded(service.clients[i])

ValidateServiceTokens(service) ==
    /\ \A value \in {service.audience, service.scope} : ~Padded(value) /\ ~SeveralWords(value)
    /\ \A i \in DOMAIN service.clients : ~Blank(service.clients[i]) /\ ~Padded(service.clients[i])

Validate(config) ==
    /\ config.named
    /\ Compile(config.origins) # Nil
    /\ ValidateServiceTokens(config.service)
=============================================================================
