-------------------------------- MODULE Access --------------------------------
(***************************************************************************)
(* The HTTP API under one configuration: browser pages of several origins  *)
(* and other clients send requests, the CORS layer above the mux and the   *)
(* authentication under it answer, and a shared cache in front of the      *)
(* service (external) keeps answers according to Vary.  The identity keys  *)
(* come and go.                                                            *)
(***************************************************************************)
EXTENDS Auth

CONSTANTS
    Configs,     \* [named, identity : BOOLEAN, origins : entries, service]
    Pages,       \* the pages' origins: [scheme, labels, port], as browsers have them
    Tokens,      \* the tokens that exist
    Headers,     \* the Authorization headers of clients that are no browsers
    Entries,     \* what an entry can mean: [scheme, wild, labels, port]
    PublicRoutes, Routes, Paths,
    MaxRequests  \* bound: requests in a behaviour

ASSUME AccessConstants ==
    /\ PublicRoutes \intersect Routes = {}
    /\ PublicRoutes \union Routes \subseteq Paths
    /\ Nil \notin [scheme : {"Bearer"}, spaced : BOOLEAN, token : Tokens]
    /\ MaxRequests \in Nat

VARIABLES
    config,  \* the configuration file
    policy,  \* the compiled allowlist, Nil if the service refused to start
    keys,    \* whether tokens can be verified
    edge,    \* the answers the shared cache holds
    page,    \* each page's token and whether a preflight cleared it
    last,    \* the last exchange: [page, req, res]
    asked    \* requests so far

vars == <<config, policy, keys, edge, page, last, asked>>

-----------------------------------------------------------------------------
(* withCORS over the mux over requireAuth.                                 *)

\* Mutant: the answer for a named origin is not marked as depending on it.
DecideWithoutVary(path, origin) ==
    IF path \in PublicRoutes THEN [value |-> <<"*">>, vary |-> FALSE]
    ELSE [value |-> Allow(policy, origin), vary |-> FALSE]

DecideCORS(path, origin) ==
    IF path \in PublicRoutes THEN [value |-> <<"*">>, vary |-> FALSE]
    ELSE [value |-> Allow(policy, origin), vary |-> Enabled(policy)]

\* newMux: the public routes, the guarded ones, and the mux's own 404.
Dispatch(req) ==
    IF req.path \in PublicRoutes THEN {200}
    ELSE IF req.path \notin Routes THEN {404}
    ELSE IF config.identity THEN RequireAuth(config.service, req.auth, keys)
    ELSE {200}

\* Every answer carries the headers; an OPTIONS is answered here if there is
\* an allowlist, and left to the mux if there is none.
Answers(req) ==
    LET d == DecideCORS(req.path, req.origin)
        answer(status, approved) == [status |-> status, acao |-> d.value, vary |-> d.vary,
                                     approved |-> approved]
    IN  IF req.method = "OPTIONS" /\ Enabled(policy)
        THEN {answer(204, d.value # Nil)}
        ELSE {answer(status, FALSE) : status \in Dispatch(req)}

-----------------------------------------------------------------------------
(* The shared cache: it keeps answers to GETs that carry no credentials,    *)
(* under the path, and under the origin too where the answer varies.        *)

Key(req, res) == [path |-> req.path, origin |-> IF res.vary THEN req.origin ELSE Nil, res |-> res]
Storable(req, res) == req.method = "GET" /\ req.auth = Nil /\ res.status \in {200, 404}
Hits(req) == {e \in edge : req.method = "GET" /\ e.path = req.path /\ e.origin \in {req.origin, Nil}}

-----------------------------------------------------------------------------
(* Pages.                                                                  *)

Dotted(labels) ==
    LET upto[n \in 1..Len(labels)] ==
          IF n = 1 THEN labels[1] ELSE upto[n - 1] \o <<".">> \o labels[n]
    IN  upto[Len(labels)]
Text(o) == Serialise(<<o.scheme>>, Dotted(o.labels), o.port)

\* A host is a sequence of labels, or one IPv6 address in brackets.
Plain == Lexemes \ (Marks \ {"-"})
IsAddress(l) ==
    /\ l \in Seq(Lexemes) /\ Len(l) >= 2 /\ l[1] = "[" /\ l[Len(l)] = "]"
    /\ Lowered(SubSeq(l, 2, Len(l) - 1)) \in DOMAIN IPv6
IsHost(labels) ==
    \/ labels \in Seq(Seq(Plain)) /\ labels # <<>>
    \/ \E l \in {labels[1]} : labels = <<l>> /\ IsAddress(l)

DefaultPort(scheme) == IF scheme = "https" THEN "443" ELSE "80"

\* Browsers serialise origins in canonical form and leave a default port out.
ASSUME PageConstants == \A p \in Pages :
    /\ p = [scheme |-> p.scheme, labels |-> p.labels, port |-> p.port]
    /\ p.scheme \in {"http", "https"} \intersect Lexemes /\ Lower[p.scheme] = p.scheme
    /\ IsHost(p.labels)
    /\ Lowered(Dotted(p.labels)) = Dotted(p.labels)
    /\ ValidateHost(Dotted(p.labels)) = Dotted(p.labels)
    /\ p.port = <<>> \/ \E port \in Ports \ {DefaultPort(p.scheme)} : p.port = <<port>>

IsEntry(e) ==
    /\ e = [scheme |-> e.scheme, wild |-> e.wild, labels |-> e.labels, port |-> e.port]
    /\ e.scheme \in Lexemes \ Marks /\ e.wild \in BOOLEAN
    /\ IsHost(e.labels)
    /\ e.port \in {<<>>, <<"*">>} \/ \E port \in Ports : e.port = <<port>>

IsList(s) == s \in Seq({s[i] : i \in DOMAIN s})

ASSUME EntryConstants ==
    /\ \A e \in Entries : IsEntry(e)
    /\ \A c \in Configs :
          /\ c.origins \in Seq(Seq(Lexemes))
          /\ IsList(c.service.audience) /\ IsList(c.service.scope) /\ IsList(c.service.clients)

ASSUME NilIsNoText ==
    Nil \notin Seq(Lexemes) \union [scheme : Seq(Lexemes), host : Seq(Lexemes), port : Seq(Lexemes)]

Readable(p, res) == res.acao \in {Text(p), <<"*">>}

Header(token) == IF token = Nil THEN Nil ELSE [scheme |-> "Bearer", spaced |-> TRUE, token |-> token]
NoPage == [token |-> Nil, cleared |-> FALSE]

Init ==
    /\ config \in Configs
    /\ policy = IF Validate(config) THEN Compile(config.origins) ELSE Nil
    /\ keys = TRUE
    /\ edge = {}
    /\ page = [p \in Pages |-> NoPage]
    /\ last = Nil
    /\ asked = 0

KeysChange ==
    /\ config.identity
    /\ keys' = ~keys
    /\ UNCHANGED <<config, policy, edge, page, last, asked>>

\* One page at a time has a session.
Login(p, token) ==
    /\ \A q \in Pages : page[q].token = Nil
    /\ page' = [page EXCEPT ![p].token = token]
    /\ UNCHANGED <<config, policy, keys, edge, last, asked>>

\* A request is answered by the service, and then perhaps kept, or by the cache.
Exchange(who, req) ==
    /\ asked < MaxRequests
    /\ \/ \E res \in Answers(req) :
             /\ last' = [page |-> who, req |-> req, res |-> res]
             /\ \/ edge' = edge
                \/ Storable(req, res) /\ edge' = edge \union {Key(req, res)}
       \/ \E e \in Hits(req) :
             /\ last' = [page |-> who, req |-> req, res |-> e.res]
             /\ edge' = edge
    /\ asked' = asked + 1
    /\ UNCHANGED <<config, policy, keys>>

Request(method, path, origin, auth) ==
    [method |-> method, path |-> path, origin |-> origin, auth |-> auth]

\* The browser asks before it sends a token across origins.
Preflight(p, path) ==
    /\ page[p].token # Nil /\ ~page[p].cleared
    /\ Exchange(p, Request("OPTIONS", path, Text(p), Nil))
    /\ page' = [page EXCEPT ![p].cleared = Readable(p, last'.res) /\ last'.res.approved]

\* A page that can read a 401 discards its token; it may also ask without one.
Fetch(p, path, token) ==
    /\ token = Nil \/ page[p].cleared
    /\ Exchange(p, Request("GET", path, Text(p), Header(token)))
    /\ page' = IF token # Nil /\ last'.res.status = 401 /\ Readable(p, last'.res)
               THEN [page EXCEPT ![p] = NoPage] ELSE page

\* A client that is no browser, with any header.
Call(path, header) ==
    /\ Exchange(Nil, Request("GET", path, <<>>, header))
    /\ UNCHANGED page

Next ==
    /\ policy # Nil
    /\ \/ KeysChange
       \/ \E p \in Pages, token \in Tokens : Login(p, token)
       \/ \E p \in Pages, path \in Routes : Preflight(p, path)
       \/ \E p \in Pages, path \in Paths : \E token \in {Nil, page[p].token} : Fetch(p, path, token)
       \/ \E path \in Paths, header \in Headers : Call(path, header)

Spec == Init /\ [][Next]_vars

-----------------------------------------------------------------------------
(* What the entries mean, label by label.                                  *)

\* Case does not matter, and neither does the spelling of an address.
Canonical(l) ==
    IF IsAddress(l) THEN <<"[">> \o IPv6[Lowered(SubSeq(l, 2, Len(l) - 1))] \o <<"]">> ELSE Lowered(l)
Small(labels) == [i \in DOMAIN labels |-> Canonical(labels[i])]
TextOf(e) == (IF e.wild THEN <<e.scheme, "://", "*", ".">> ELSE <<e.scheme, "://">>)
             \o Dotted(e.labels) \o (IF e.port = <<>> THEN <<>> ELSE <<":">> \o e.port)

Admits(e, p) ==
    /\ Lower[e.scheme] = p.scheme
    /\ e.port = <<"*">> \/ e.port = p.port
    /\ IF e.wild THEN Len(p.labels) > Len(e.labels) /\ IsSuffix(Small(e.labels), p.labels)
                 ELSE p.labels = Small(e.labels)

Meant == [c \in Configs |->
            {e \in Entries : \E i \in DOMAIN c.origins : TextOf(e) = TrimSpace(c.origins[i])}]

NamedBy(c, p) == \/ \E i \in DOMAIN c.origins : TrimSpace(c.origins[i]) = <<"*">>
                 \/ \E e \in Meant[c] : Admits(e, p)

Named(p) == NamedBy(config, p)

\* An allowlist that Validate accepts allows just the pages it names.
AllowlistMeant ==
    \A c \in Configs, p \in Pages : Validate(c) =>
        (Allow(Compile(c.origins), Text(p)) \in {Text(p), <<"*">>} <=> NamedBy(c, p))

\* The origin a browser sends for an entry's host, or for one below a wildcard.
BrowserHost(e) ==
    LET h == Dotted(Small(e.labels)) IN IF e.wild THEN <<h[1], ".">> \o h ELSE h
NamesDefaultPort(e) == e.port = <<DefaultPort(Lower[e.scheme])>>
BrowserOrigin(e) ==
    Serialise(<<Lower[e.scheme]>>, BrowserHost(e),
              IF e.port = <<"*">> \/ NamesDefaultPort(e) THEN <<>> ELSE e.port)

\* What one entry lets in by itself.
Alone(entry) == [Nobody EXCEPT !.rules = {CompileRule(entry)}]
LetsIn(e) == Allow(Alone(TextOf(e)), BrowserOrigin(e)) = BrowserOrigin(e)

\* The identity service puts words into aud and scope and names its clients, so
\* of what a policy can ask for it issues just the words and the names.
Word(text) == \A i \in DOMAIN text : text[i] # " "
IsName(text) == text # <<>> /\ " " \notin {text[1], text[Len(text)]}
Issued(t) == t.typ = "at+jwt" /\ t.genuine /\ t.current

ASSUME TokenConstants == \A t \in Tokens : Issued(t) =>
    IsName(t.client) /\ \A value \in t.aud \union t.scopes : Word(value)

Claims(t, service) == /\ service.audience = <<>> \/ service.audience \in t.aud
                      /\ service.scope = <<>> \/ service.scope \in t.scopes
EveryClaim ==
    \A c \in Configs : Word(c.service.audience) /\ Word(c.service.scope) =>
        /\ \E t \in Tokens : Issued(t) /\ Claims(t, c.service)
        /\ \A i \in DOMAIN c.service.clients : IsName(c.service.clients[i]) =>
              \E t \in Tokens : Issued(t) /\ Claims(t, c.service) /\ t.client = c.service.clients[i]

-----------------------------------------------------------------------------
(* Properties.                                                             *)

\* A page can read an answer of a route that is not public - errors, and what
\* the shared cache kept for others, included - exactly if an entry of the
\* allowlist names its origin, label by label; anyone reads a public route.  A
\* named page's preflight is approved, with no token (withCORS, Allow, Vary).
ReadableIffNamed ==
    last # Nil => (last.page # Nil =>
        /\ Readable(last.page, last.res)
              <=> Named(last.page) \/ last.req.path \in PublicRoutes
        /\ last.req.method = "OPTIONS" /\ Named(last.page) => last.res.approved)

\* A credential that the service would take if it could check it.
Good(token) ==
    /\ token.genuine /\ token.current
    /\ \/ token.typ = "JWT" /\ token.active
       \/ token.typ = "at+jwt" /\ config.service.enabled /\ AudienceOK(config.service, token)

\* No page is ever told to discard a good token: what a server without keys
\* answers is 503 (rejectParseError), and what a good token lacks is 403.
GoodTokensKept ==
    [][\A p \in Pages : page[p].token # Nil /\ page'[p].token = Nil => ~Good(page[p].token)]_vars

\* What else the policy asks of a service token before it may read.
Entitled(token) ==
    token.typ = "at+jwt" =>
        /\ config.service.clients # <<>> => \E i \in DOMAIN config.service.clients :
                                               token.client = config.service.clients[i]
        /\ config.service.scope # <<>> => config.service.scope \in token.scopes

\* A 403 on a guarded route is said only of a credential that is good, and data
\* goes only to one that is entitled too, through any cache (serveService: the
\* credential before the principal).
AuthenticFirst ==
    last # Nil /\ config.identity =>
        (last.req.path \in Routes /\ last.req.method = "GET" /\ last.res.status \in {200, 403}
            => LET token == BearerToken(last.req.auth)
               IN  token # Nil /\ Good(token) /\ (last.res.status = 200 => Entitled(token)))

\* No setting of a configuration that passes Validate is idle, but one.  Each
\* entry of the allowlist lets in the origin that browsers send for its host,
\* unless it spells out the default port of its scheme: then it does not.  For
\* each client the service policy names, or for some if it names none, a token
\* that the identity service issues is served.
NothingMatchesNothing ==
    policy # Nil =>
        /\ \A i \in DOMAIN config.origins :
              \/ TrimSpace(config.origins[i]) = <<"*">>
              \/ \E e \in Meant[config] : /\ TextOf(e) = TrimSpace(config.origins[i])
                                          /\ LetsIn(e) <=> ~NamesDefaultPort(e)
        /\ config.service.enabled =>
              LET served == {t \in Tokens : Issued(t) /\ 200 \in ServeService(config.service, t, TRUE)}
              IN  /\ served # {}
                  /\ \A i \in DOMAIN config.service.clients :
                        \E t \in served : t.client = config.service.clients[i]
=============================================================================
