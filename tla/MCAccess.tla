------------------------------- MODULE MCAccess -------------------------------
(***************************************************************************)
(* Pages on a domain, below it, on a name that only ends like it, on a     *)
(* local host and on an address; well-formed allowlists, alone and         *)
(* combined, and malformed ones; service policies from open to narrow, and *)
(* misspelt.                                                               *)
(***************************************************************************)
EXTENDS Access

Words == {"bearer", "basic", "http", "https", "app", "shop", "home", "net", "localhost", "10.0.0.1"}
Others == Marks \union {"::1", "3000", "443", "0"}
MCLower == [w \in Words \union Others \union {"Bearer", "HTTPS", "Home"} |->
               IF w = "Bearer" THEN "bearer" ELSE IF w = "HTTPS" THEN "https"
               ELSE IF w = "Home" THEN "home" ELSE w]
MCNames == Words \ {"bearer", "basic"}
MCIPv4 == {<<"10.0.0.1">>}
MCIPv6 == <<"::1">> :> <<"::1">> @@ <<"0", "::1">> :> <<"::1">>

PageOf(scheme, labels, port) == [scheme |-> scheme, labels |-> labels, port |-> port]
Apex == PageOf("https", <<<<"home">>, <<"net">>>>, <<>>)
App == PageOf("https", <<<<"app">>, <<"home">>, <<"net">>>>, <<>>)
Lookalike == PageOf("https", <<<<"app", "-", "home">>, <<"net">>>>, <<>>)
Local == PageOf("http", <<<<"localhost">>>>, <<"3000">>)
Loopback == PageOf("http", <<<<"[", "::1", "]">>>>, <<"3000">>)
MCPages == {Apex, App, Lookalike, Local, Loopback}

MCEntries ==
    {[scheme |-> s, wild |-> w, labels |-> l, port |-> p] :
        s \in {"http", "https", "HTTPS"}, w \in BOOLEAN, p \in {<<>>, <<"*">>, <<"3000">>, <<"443">>},
        l \in {<<<<"home">>, <<"net">>>>, <<<<"Home">>, <<"net">>>>,
               <<<<"app">>, <<"home">>, <<"net">>>>}}
    \union {[scheme |-> "http", wild |-> FALSE, labels |-> <<l>>, port |-> p] :
               l \in {<<"localhost">>, <<"10.0.0.1">>, <<"[", "::1", "]">>, <<"[", "0", "::1", "]">>},
               p \in {<<>>, <<"*">>, <<"3000">>}}

Exact == <<"HTTPS", "://", "Home", ".", "net">>
Wild == <<" ", "https", "://", "*", ".", "home", ".", "net">>
AnyPort == <<"http", "://", "localhost", ":", "*">>
Address == <<"http", "://", "[", "0", "::1", "]", ":", "3000">>

DefaultNamed == <<"https", "://", "home", ".", "net", ":", "443">>

WellFormed == {<<>>, <<<<"*">>>>, <<Exact>>, <<Wild>>, <<Exact, AnyPort>>, <<AnyPort, Address, Wild>>, <<DefaultNamed>>}

Malformed == {<<Exact, t>> : t \in {
    <<>>, <<" ">>,
    <<"home", ".", "net">>,
    <<"app", "://", "home", ".", "net">>,
    <<"https", "://">>,
    <<"https", "://", "home", ".", "net", "/">>,
    <<"https", "://", "app", "@", "home", ".", "net">>,
    <<"https", "://", "home", ".", ".", "net">>,
    <<"https", "://", "-", "home", ".", "net">>,
    <<"https", "://", "app", "-", ".", "net">>,
    <<"https", "://", "home", ".", "net", ":">>,
    <<"https", "://", "home", ".", "net", ":", "0">>,
    <<"https", "://", "*">>,
    <<"https", "://", "*", ".", "localhost">>,
    <<"https", "://", "app", "*", ".", "home", ".", "net">>,
    <<"https", "://", "*", ".", "*", ".", "net">>,
    <<"http", "://", "*", ".", "10.0.0.1">>,
    <<"http", "://", "*", ".", "[", "::1", "]">>,
    <<"http", "://", "[", "::1">>,
    <<"http", "://", "[", "::1", "]", "3000">>,
    <<"http", "://", "[", "10.0.0.1", "]">>}}

Service(enabled, audience, scope, clients) ==
    [enabled |-> enabled, audience |-> audience, scope |-> scope, clients |-> clients]
Open == Service(TRUE, <<>>, <<>>, <<>>)
Closed == Service(FALSE, <<>>, <<>>, <<>>)
Narrow == Service(TRUE, <<"house">>, <<"read">>, <<<<"meter">>>>)
Several == Service(TRUE, <<>>, <<"read">>, <<<<"meter">>, <<"clock">>>>)
Misspelt == {Service(TRUE, <<"house", " ">>, <<>>, <<>>), Service(TRUE, <<>>, <<" ", "read">>, <<>>),
             Service(TRUE, <<>>, <<"read", " ", "list">>, <<>>), Service(TRUE, <<"a", " ", "b">>, <<>>, <<>>),
             Service(TRUE, <<>>, <<>>, <<<<"meter">>, <<>>>>), Service(TRUE, <<>>, <<>>, <<<<"meter", " ">>>>)}

Config(named, identity, origins, service) ==
    [named |-> named, identity |-> identity, origins |-> origins, service |-> service]
MCConfigs ==
    {Config(TRUE, TRUE, o, Open) : o \in WellFormed}
    \union {Config(TRUE, FALSE, o, Open) : o \in {<<Exact>>, <<Wild>>}}
    \union {Config(TRUE, TRUE, o, s) : o \in {<<Wild>>}, s \in {Closed, Narrow, Several}}
    \union {Config(TRUE, TRUE, o, Open) : o \in Malformed}
    \union {Config(TRUE, TRUE, <<Exact>>, s) : s \in Misspelt}
    \union {Config(FALSE, TRUE, <<Exact>>, Open)}

Token(typ, genuine, current, active, aud, client, scopes) ==
    [typ |-> typ, genuine |-> genuine, current |-> current, active |-> active,
     aud |-> aud, client |-> client, scopes |-> scopes]
User(genuine, current, active) == Token("JWT", genuine, current, active, {}, <<>>, {})
MCTokens ==
    {User(TRUE, TRUE, TRUE), User(TRUE, TRUE, FALSE), User(TRUE, FALSE, TRUE),
     Token(Nil, FALSE, TRUE, TRUE, {}, <<>>, {}),
     Token("at+jwt", TRUE, TRUE, TRUE, {<<"house">>}, <<"meter">>, {<<"read">>}),
     Token("at+jwt", TRUE, TRUE, TRUE, {<<"house">>}, <<"meter">>, {}),
     Token("at+jwt", TRUE, TRUE, TRUE, {<<"other">>}, <<"clock">>, {<<"read">>}),
     Token("at+jwt", TRUE, FALSE, TRUE, {<<"house">>}, <<"meter">>, {<<"read">>})}
MCHeaders == {[scheme |-> "bearer", spaced |-> TRUE, token |-> t] : t \in {u \in MCTokens : u.typ # "JWT"}}
             \union {[scheme |-> "bearer", spaced |-> FALSE, token |-> User(TRUE, TRUE, TRUE)],
                     [scheme |-> "basic", spaced |-> TRUE, token |-> User(TRUE, TRUE, TRUE)],
                     [scheme |-> "bearer", spaced |-> TRUE, token |-> Nil], Nil}

\* The allowlist alone, each configuration against each page, and the tokens.
ASSUME AllowlistChecked == AllowlistMeant
ASSUME TokensChecked == EveryClaim
=============================================================================
