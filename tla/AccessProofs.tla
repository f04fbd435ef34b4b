----------------------------- MODULE AccessProofs -----------------------------
(***************************************************************************)
(* Authentication, and who can read an answer, for any configurations,     *)
(* tokens, headers, routes, pages and any cache in front that keeps what   *)
(* it may.                                                                 *)
(***************************************************************************)
EXTENDS Access, NaturalsInduction, WellFoundedInduction, SequenceTheorems, TLAPS

(* The cache holds nothing of a guarded route and no refusal.              *)
EdgeHarmless ==
    \A e \in edge :
        /\ e.res.status \in {200, 404}
        /\ config.identity => e.path \notin Routes

PagesShaped ==
    /\ page = [p \in Pages |-> [token |-> page[p].token, cleared |-> page[p].cleared]]
    /\ \A p \in Pages : page[p].token \in Tokens \union {Nil}

IInv == EdgeHarmless /\ PagesShaped /\ AuthenticFirst

-----------------------------------------------------------------------------
(* What the service says of a token.                                       *)

(* Without keys no token is approved, and a well-formed one is not refused *)
(* either; with keys the parser approves just the genuine and current ones *)
(* of its type.                                                            *)
LEMMA ParseSays ==
    ASSUME NEW token, NEW typ, NEW k, NEW error \in Parse(token, typ, k)
    PROVE  /\ error = "ok" => token.genuine /\ token.current /\ token.typ = typ
           /\ k /\ token.genuine /\ token.current /\ token.typ = typ => error = "ok"
           /\ ~k /\ token.typ # Nil => error = "keys"
BY DEF Parse

LEMMA Refusals == ASSUME NEW error
    PROVE  /\ RejectParseError(error) \in {401, 503}
           /\ error = "keys" => RejectParseError(error) = 503
BY DEF RejectParseError

(* Only a good credential is served or told what it may not do.            *)
LEMMA OnlyGood ==
    ASSUME NEW header, NEW status \in RequireAuth(config.service, header, keys), status \in {200, 403}
    PROVE  /\ BearerToken(header) # Nil /\ Good(BearerToken(header))
           /\ status = 200 => Entitled(BearerToken(header))
<1> DEFINE token == BearerToken(header)
<1>1. token # Nil
  BY DEF RequireAuth
<1>2. CASE IsServiceToken(token)
  <2>1. status \in ServeService(config.service, token, keys)
    BY <1>1, <1>2 DEF RequireAuth
  <2>2. config.service.enabled
    BY <2>1 DEF ServeService
  <2>3. PICK error \in Parse(token, "at+jwt", keys) :
           status = IF error # "ok" THEN RejectParseError(error)
                    ELSE IF ~AudienceOK(config.service, token) THEN 401
                    ELSE IF ~ClientAllowed(config.service, token.client) THEN 403
                    ELSE IF ~ScopeOK(config.service, token) THEN 403
                    ELSE 200
    BY <2>1, <2>2 DEF ServeService
  <2>4. error = "ok" /\ AudienceOK(config.service, token)
    BY <2>3, Refusals
  <2>5. status = 200 => ClientAllowed(config.service, token.client) /\ ScopeOK(config.service, token)
    BY <2>3, <2>4
  <2>6. status = 200 => Entitled(token)
    BY <2>5 DEF Entitled, ClientAllowed, ScopeOK
  <2> QED
    BY <1>1, <2>2, <2>4, <2>6, ParseSays DEF Good
<1>3. CASE ~IsServiceToken(token)
  <2>1. status \in ServeUser(token, keys)
    BY <1>1, <1>3 DEF RequireAuth
  <2>2. PICK error \in Parse(token, "JWT", keys) :
           status = IF error # "ok" THEN RejectParseError(error)
                    ELSE IF ~token.active THEN 401 ELSE 200
    BY <2>1 DEF ServeUser
  <2>3. error = "ok" /\ token.active
    BY <2>2, Refusals
  <2>4. Entitled(token)
    BY <1>3 DEF Entitled, IsServiceToken
  <2> QED
    BY <1>1, <2>3, <2>4, ParseSays DEF Good
<1> QED
  BY <1>2, <1>3

(* A good credential is never challenged.                                  *)
LEMMA GoodNotChallenged ==
    ASSUME NEW header, BearerToken(header) # Nil, Good(BearerToken(header)),
           NEW status \in RequireAuth(config.service, header, keys)
    PROVE  status # 401
<1> DEFINE token == BearerToken(header)
<1>1. CASE IsServiceToken(token)
  <2>1. status \in ServeService(config.service, token, keys)
    BY <1>1 DEF RequireAuth
  <2>2. /\ token.typ = "at+jwt" /\ token.genuine /\ token.current
        /\ config.service.enabled /\ AudienceOK(config.service, token)
    BY <1>1 DEF Good, IsServiceToken
  <2>3. PICK error \in Parse(token, "at+jwt", keys) :
           status = IF error # "ok" THEN RejectParseError(error)
                    ELSE IF ~AudienceOK(config.service, token) THEN 401
                    ELSE IF ~ClientAllowed(config.service, token.client) THEN 403
                    ELSE IF ~ScopeOK(config.service, token) THEN 403
                    ELSE 200
    BY <2>1, <2>2 DEF ServeService
  <2>4. error = "ok" \/ error = "keys"
    BY <2>2, ParseSays, AuthConstants
  <2> QED
    BY <2>2, <2>3, <2>4, Refusals
<1>2. CASE ~IsServiceToken(token)
  <2>1. status \in ServeUser(token, keys)
    BY <1>2 DEF RequireAuth
  <2>2. token.typ = "JWT" /\ token.genuine /\ token.current /\ token.active
    BY <1>2 DEF Good, IsServiceToken
  <2>3. PICK error \in Parse(token, "JWT", keys) :
           status = IF error # "ok" THEN RejectParseError(error)
                    ELSE IF ~token.active THEN 401 ELSE 200
    BY <2>1 DEF ServeUser
  <2>4. error = "ok" \/ error = "keys"
    BY <2>2, ParseSays, AuthConstants
  <2> QED
    BY <2>2, <2>3, <2>4, Refusals
<1> QED
  BY <1>1, <1>2

(* A GET reaches the mux: the CORS layer only adds headers.                *)
LEMMA GetIsDispatched ==
    ASSUME NEW req, req.method = "GET", NEW res \in Answers(req)
    PROVE  res.status \in Dispatch(req)
BY DEF Answers

-----------------------------------------------------------------------------
LEMMA InitOK == Init => IInv
<1> SUFFICES ASSUME Init PROVE IInv
  OBVIOUS
<1>1. page = [p \in Pages |-> NoPage] /\ NoPage.token = Nil /\ edge = {} /\ last = Nil
  BY DEF Init, NoPage
<1>2. EdgeHarmless /\ AuthenticFirst
  BY <1>1 DEF EdgeHarmless, AuthenticFirst
<1>3. PagesShaped
  <2>1. \A p \in Pages : page[p] = NoPage
    BY <1>1
  <2>2. NoPage = [token |-> NoPage.token, cleared |-> NoPage.cleared]
    BY DEF NoPage
  <2> QED
    BY <1>1, <2>1, <2>2, Zenon DEF PagesShaped
<1> QED
  BY <1>2, <1>3 DEF IInv

(* On a guarded route a GET that reaches the mux is judged.                *)
LEMMA GuardedIsJudged ==
    ASSUME config.identity, NEW req, req.method = "GET", req.path \in Routes,
           NEW res \in Answers(req)
    PROVE  res.status \in RequireAuth(config.service, req.auth, keys)
<1>1. res.status \in Dispatch(req)
  BY GetIsDispatched
<1>2. req.path \notin PublicRoutes
  BY AccessConstants
<1> QED
  BY <1>1, <1>2 DEF Dispatch

(* What the cache may keep was asked without credentials.                  *)
LEMMA StoredHarmless ==
    ASSUME NEW req, NEW res \in Answers(req), Storable(req, res)
    PROVE  /\ Key(req, res).res.status \in {200, 404}
           /\ config.identity => Key(req, res).path \notin Routes
<1>1. req.method = "GET" /\ req.auth = Nil /\ res.status \in {200, 404}
  BY DEF Storable
<1>2. Key(req, res).res = res /\ Key(req, res).path = req.path
  BY DEF Key
<1>3. ASSUME config.identity, req.path \in Routes PROVE FALSE
  <2>1. res.status \in RequireAuth(config.service, Nil, keys)
    BY <1>1, <1>3, GuardedIsJudged
  <2>2. res.status = 401
    BY <2>1 DEF RequireAuth, BearerToken
  <2> QED
    BY <1>1, <2>2
<1> QED
  BY <1>1, <1>2, <1>3

(* An exchange: what is answered, and what the cache keeps of it.          *)
LEMMA ExchangeSafe ==
    ASSUME IInv, NEW who, NEW req, Exchange(who, req)
    PROVE  EdgeHarmless' /\ AuthenticFirst'
<1>1. config' = config
  BY DEF Exchange
<1>2. CASE \E res \in Answers(req) :
             /\ last' = [page |-> who, req |-> req, res |-> res]
             /\ \/ edge' = edge
                \/ Storable(req, res) /\ edge' = edge \union {Key(req, res)}
  <2>1. PICK res \in Answers(req) :
             /\ last' = [page |-> who, req |-> req, res |-> res]
             /\ \/ edge' = edge
                \/ Storable(req, res) /\ edge' = edge \union {Key(req, res)}
    BY <1>2
  <2>2. EdgeHarmless'
    BY <1>1, <2>1, StoredHarmless DEF IInv, EdgeHarmless
  <2>3. last'.req = req /\ last'.res = res
    BY <2>1
  <2>4. ASSUME config.identity, req.path \in Routes, req.method = "GET", res.status \in {200, 403}
        PROVE  /\ BearerToken(req.auth) # Nil /\ Good(BearerToken(req.auth))
               /\ res.status = 200 => Entitled(BearerToken(req.auth))
    BY <2>4, GuardedIsJudged, OnlyGood
  <2>5. AuthenticFirst'
    BY <1>1, <2>3, <2>4 DEF AuthenticFirst, Good, Entitled
  <2> QED
    BY <2>2, <2>5
<1>3. CASE \E e \in Hits(req) :
             /\ last' = [page |-> who, req |-> req, res |-> e.res]
             /\ edge' = edge
  <2>1. PICK e \in edge : e.path = req.path /\ last' = [page |-> who, req |-> req, res |-> e.res]
                          /\ edge' = edge
    BY <1>3 DEF Hits
  <2>2. last'.req = req /\ (config.identity => req.path \notin Routes)
    BY <2>1 DEF IInv, EdgeHarmless
  <2> QED
    BY <1>1, <2>1, <2>2 DEF AuthenticFirst, IInv, EdgeHarmless
<1> QED
  BY <1>2, <1>3 DEF Exchange

(* A page keeps its token through everything but a 401 it can read.        *)
LEMMA PagesKept ==
    ASSUME IInv, Next
    PROVE  /\ PagesShaped'
           /\ \A p \in Pages : page[p].token # Nil /\ page'[p].token = Nil =>
                 \E path \in Paths :
                    /\ Exchange(p, Request("GET", path, Text(p), Header(page[p].token)))
                    /\ last'.res.status = 401
<1>0. PagesShaped
  BY DEF IInv
<1>1. CASE KeysChange
  BY <1>0, <1>1 DEF KeysChange, PagesShaped
<1>2. ASSUME NEW p \in Pages, NEW token \in Tokens, Login(p, token)
      PROVE  PagesShaped' /\ \A q \in Pages : page[q].token = Nil
  BY <1>0, <1>2 DEF Login, PagesShaped
<1>3. ASSUME NEW p \in Pages, NEW path \in Routes, Preflight(p, path)
      PROVE  PagesShaped' /\ \A q \in Pages : page'[q].token = page[q].token
  BY <1>0, <1>3 DEF Preflight, PagesShaped
<1>4. ASSUME NEW path \in Paths, NEW header \in Headers, Call(path, header)
      PROVE  PagesShaped' /\ page' = page
  BY <1>0, <1>4 DEF Call, PagesShaped
<1>5. ASSUME NEW p \in Pages, NEW path \in Paths, NEW token \in {Nil, page[p].token},
             Fetch(p, path, token)
      PROVE  /\ PagesShaped'
             /\ \A q \in Pages : page[q].token # Nil /\ page'[q].token = Nil =>
                   /\ q = p /\ token = page[q].token
                   /\ Exchange(p, Request("GET", path, Text(p), Header(token)))
                   /\ last'.res.status = 401
  <2>1. Exchange(p, Request("GET", path, Text(p), Header(token)))
    BY <1>5 DEF Fetch
  <2>2. \/ page' = page
        \/ token # Nil /\ last'.res.status = 401 /\ page' = [page EXCEPT ![p] = NoPage]
    BY <1>5 DEF Fetch
  <2>3. CASE page' = page
    BY <1>0, <2>3 DEF PagesShaped
  <2>4. CASE token # Nil /\ last'.res.status = 401 /\ page' = [page EXCEPT ![p] = NoPage]
    <3>1. page' = [q \in Pages |-> IF q = p THEN NoPage ELSE page[q]]
      BY <1>0, <2>4 DEF PagesShaped
    <3>2. /\ page' = [q \in Pages |-> page'[q]] /\ page'[p] = NoPage
          /\ \A q \in Pages : q # p => page'[q] = page[q]
      BY <3>1
    <3>3. NoPage = [token |-> NoPage.token, cleared |-> NoPage.cleared] /\ NoPage.token = Nil
      BY DEF NoPage
    <3>4. \A q \in Pages : page[q] = [token |-> page[q].token, cleared |-> page[q].cleared]
      BY <1>0, Zenon DEF PagesShaped
    <3>5. \A q \in Pages : page'[q] = [token |-> page'[q].token, cleared |-> page'[q].cleared]
      BY <3>2, <3>3, <3>4, Zenon
    <3>6. PagesShaped'
      <4>1. page' = [q \in Pages |-> [token |-> page'[q].token, cleared |-> page'[q].cleared]]
        BY <3>2, <3>5
      <4> QED
        BY <1>0, <3>2, <3>3, <4>1, Zenon DEF PagesShaped
    <3>7. token = page[p].token
      BY <2>4
    <3> QED
      BY <2>1, <2>4, <3>2, <3>6, <3>7
  <2> QED
    BY <2>1, <2>2, <2>3, <2>4
<1> QED
  BY <1>1, <1>2, <1>3, <1>4, <1>5 DEF Next

LEMMA NextOK == IInv /\ [Next]_vars => IInv'
<1> SUFFICES ASSUME IInv, [Next]_vars PROVE IInv'
  OBVIOUS
<1>1. CASE Next
  <2>1. PagesShaped'
    BY <1>1, PagesKept
  <2>2. (\E who, req : Exchange(who, req)) \/ UNCHANGED <<config, edge, last>>
    <3>1. KeysChange => UNCHANGED <<config, edge, last>>
      BY DEF KeysChange
    <3>2. \A p \in Pages, token \in Tokens : Login(p, token) => UNCHANGED <<config, edge, last>>
      BY DEF Login
    <3>3. \A p, path : Preflight(p, path) => \E who, req : Exchange(who, req)
      BY Zenon DEF Preflight
    <3>4. \A p, path, token : Fetch(p, path, token) => \E who, req : Exchange(who, req)
      BY Zenon DEF Fetch
    <3>5. \A path, header : Call(path, header) => \E who, req : Exchange(who, req)
      BY Zenon DEF Call
    <3> QED
      BY <1>1, <3>1, <3>2, <3>3, <3>4, <3>5, Zenon DEF Next
  <2>3. CASE UNCHANGED <<config, edge, last>>
    <3>1. EdgeHarmless'
      BY <2>3 DEF IInv, EdgeHarmless
    <3>2. AuthenticFirst'
      BY <2>3 DEF IInv, AuthenticFirst, Good, Entitled
    <3> QED
      BY <2>1, <3>1, <3>2, Zenon DEF IInv
  <2>4. CASE \E who, req : Exchange(who, req)
    <3>1. PICK who, req : Exchange(who, req)
      BY <2>4
    <3>2. EdgeHarmless' /\ AuthenticFirst'
      BY <3>1, ExchangeSafe
    <3> QED
      BY <2>1, <3>2, Zenon DEF IInv
  <2> QED
    BY <2>2, <2>3, <2>4
<1>2. CASE UNCHANGED vars
  BY <1>2 DEF vars, IInv, EdgeHarmless, PagesShaped, AuthenticFirst, Good, Entitled
<1> QED
  BY <1>1, <1>2

(* Whatever a cache in front keeps, an answer that lets a GET of a guarded *)
(* route through, or says what it may not do, goes to a good credential.   *)
THEOREM OnlyGoodServed == Spec => []AuthenticFirst
<1>1. IInv => AuthenticFirst
  BY DEF IInv
<1> QED
  BY <1>1, InitOK, NextOK, PTL DEF Spec

(* A good token is never challenged, by the service or from a cache, with  *)
(* or without keys: no page discards one.                                  *)
THEOREM GoodNeverDiscarded == Spec => GoodTokensKept
<1>1. ASSUME IInv, Next, NEW p \in Pages, page[p].token # Nil, page'[p].token = Nil,
             Good(page[p].token)
      PROVE  FALSE
  <2> DEFINE token == page[p].token
  <2>1. PICK path \in Paths :
           /\ Exchange(p, Request("GET", path, Text(p), Header(token)))
           /\ last'.res.status = 401
    BY <1>1, PagesKept
  <2> DEFINE req == Request("GET", path, Text(p), Header(token))
  <2>2. req.method = "GET" /\ req.path = path /\ req.auth = Header(token)
    BY DEF Request
  <2>3. BearerToken(req.auth) = token
    <3>1. Header(token) = [scheme |-> "Bearer", spaced |-> TRUE, token |-> token]
      BY <1>1 DEF Header
    <3>2. /\ Header(token).scheme = "Bearer" /\ Header(token).spaced = TRUE
          /\ Header(token).token = token
      BY <3>1
    <3>3. Header(token) # Nil
      <4>1. token \in Tokens
        BY <1>1 DEF IInv, PagesShaped
      <4>2. Header(token) \in [scheme : {"Bearer"}, spaced : BOOLEAN, token : Tokens]
        BY <3>1, <4>1
      <4> QED
        BY <4>2, AccessConstants
    <3> QED
      BY <2>2, <3>2, <3>3, AuthConstants, Zenon DEF BearerToken
  <2> HIDE DEF req
  <2>4. CASE \E res \in Answers(req) : last' = [page |-> p, req |-> req, res |-> res]
    <3>1. PICK res \in Answers(req) : last' = [page |-> p, req |-> req, res |-> res]
      BY <2>4
    <3>2. res.status = 401 /\ res.status \in Dispatch(req)
      BY <2>1, <2>2, <3>1, GetIsDispatched
    <3>3. res.status \in RequireAuth(config.service, req.auth, keys)
      BY <3>2 DEF Dispatch
    <3> QED
      BY <1>1, <2>3, <3>2, <3>3, GoodNotChallenged
  <2>5. CASE \E e \in Hits(req) : last' = [page |-> p, req |-> req, res |-> e.res]
    <3>1. \E e \in edge : e.res.status = 401
      BY <2>1, <2>5 DEF Hits
    <3> QED
      BY <1>1, <3>1 DEF IInv, EdgeHarmless
  <2>6. Exchange(p, req)
    BY <2>1 DEF req
  <2> QED
    BY <2>4, <2>5, <2>6 DEF Exchange
<1>2. IInv /\ [Next]_vars =>
        [\A p \in Pages : page[p].token # Nil /\ page'[p].token = Nil => ~Good(page[p].token)]_vars
  BY <1>1
<1> QED
  BY <1>2, InitOK, NextOK, PTL DEF Spec, GoodTokensKept

-----------------------------------------------------------------------------
(* Texts: least and greatest places, parts, joins, induction, and Dotted.  *)

LEMMA LeastOf ==
    ASSUME NEW T \in SUBSET Nat, T # {}
    PROVE  Min(T) \in T /\ \A k \in T : Min(T) <= k
<1> DEFINE Less == OpToRel(<, Nat)
<1>1. IsWellFoundedOn(Less, Nat)
  BY NatLessThanWellFounded
<1>2. Less = {ss \in Nat \X Nat : ss[1] < ss[2]}
  BY DEF OpToRel
<1> HIDE DEF Less
<1>3. PICK m \in T : \A k \in T : ~ (<<k, m>> \in Less)
  BY <1>1, WFMin
<1>4. ASSUME NEW k \in T PROVE m <= k
  <2>1. ~ (<<k, m>> \in Less) /\ k \in Nat /\ m \in Nat
    BY <1>3
  <2>2. ~ (k < m)
    BY <1>2, <2>1
  <2> QED
    BY <2>1, <2>2
<1>5. \E x \in T : \A k \in T : x <= k
  BY <1>4
<1> QED
  BY <1>5 DEF Min

LEMMA SetInduction ==
    ASSUME NEW T \in SUBSET Nat, 0 \in T, \A n \in T : n + 1 \in T
    PROVE  T = Nat
<1>1. SUFFICES ASSUME Nat \ T # {} PROVE FALSE
  OBVIOUS
<1>2. Min(Nat \ T) \in Nat \ T /\ \A k \in Nat \ T : Min(Nat \ T) <= k
  BY <1>1, LeastOf
<1>3. Min(Nat \ T) # 0 /\ Min(Nat \ T) - 1 \in Nat \ T
  BY <1>2
<1> QED
  BY <1>2, <1>3

LEMMA GreatestOf ==
    ASSUME NEW T \in SUBSET Nat, T # {}, NEW n \in Nat, \A k \in T : k <= n
    PROVE  Max(T) \in T /\ \A k \in T : k <= Max(T)
<1> DEFINE U == {j \in Nat : n - j \in T}
<1>1. U \in SUBSET Nat /\ U # {}
  <2>1. PICK k \in T : TRUE
    OBVIOUS
  <2>2. n - k \in Nat /\ n - (n - k) = k
    BY <2>1
  <2> QED
    BY <2>2
<1>2. Min(U) \in U /\ \A j \in U : Min(U) <= j
  BY <1>1, LeastOf
<1>3. ASSUME NEW k \in T PROVE k <= n - Min(U)
  <2>1. n - k \in U
    <3>1. k \in Nat /\ k <= n /\ n - k \in Nat /\ n - (n - k) = k
      OBVIOUS
    <3> QED
      BY <3>1
  <2>2. Min(U) <= n - k /\ Min(U) \in Nat /\ k \in Nat
    BY <1>2, <2>1
  <2> QED
    BY <2>2
<1>4. \E x \in T : \A k \in T : x >= k
  BY <1>2, <1>3
<1> QED
  BY <1>4 DEF Max

LEMMA Part ==
    ASSUME NEW S, NEW s \in Seq(S), NEW a \in 1..Len(s) + 1, NEW b \in a - 1..Len(s)
    PROVE  /\ SubSeq(s, a, b) \in Seq(S)
           /\ Len(SubSeq(s, a, b)) = b - a + 1
           /\ DOMAIN SubSeq(s, a, b) = 1..b - a + 1
           /\ \A i \in 1..b - a + 1 : SubSeq(s, a, b)[i] = s[a + i - 1]
<1>1. SubSeq(s, a, b) \in Seq(S)
  OBVIOUS
<1>2. Len(SubSeq(s, a, b)) = b - a + 1
  OBVIOUS
<1> QED
  BY <1>1, <1>2

LEMMA Joined ==
    ASSUME NEW S, NEW s \in Seq(S), NEW t \in Seq(S)
    PROVE  /\ s \o t \in Seq(S)
           /\ Len(s \o t) = Len(s) + Len(t)
           /\ DOMAIN (s \o t) = 1..Len(s) + Len(t)
           /\ \A i \in 1..Len(s) : (s \o t)[i] = s[i]
           /\ \A i \in 1..Len(t) : (s \o t)[Len(s) + i] = t[i]
OBVIOUS

LEMMA Same ==
    ASSUME NEW S, NEW s \in Seq(S), NEW t \in Seq(S), Len(s) = Len(t), \A i \in 1..Len(s) : s[i] = t[i]
    PROVE  s = t
BY SeqEqual

(* A text, cut at any place, is its two parts.                             *)
LEMMA Apart ==
    ASSUME NEW S, NEW s \in Seq(S), NEW n \in 0..Len(s)
    PROVE  /\ Upto(s, n) \in Seq(S) /\ Len(Upto(s, n)) = n
           /\ From(s, n + 1) \in Seq(S) /\ Len(From(s, n + 1)) = Len(s) - n
           /\ \A i \in 1..n : Upto(s, n)[i] = s[i]
           /\ \A i \in 1..Len(s) - n : From(s, n + 1)[i] = s[n + i]
           /\ s = Upto(s, n) \o From(s, n + 1)
<1> DEFINE a == Upto(s, n)
           b == From(s, n + 1)
<1>1. Len(s) \in Nat /\ n \in Nat /\ n <= Len(s) /\ Len(s) - n \in Nat
  OBVIOUS
<1>2. a \in Seq(S) /\ Len(a) = n /\ \A i \in 1..n : a[i] = s[i]
  BY <1>1 DEF Upto
<1>3. b \in Seq(S) /\ Len(b) = Len(s) - n
  BY <1>1 DEF From
<1>4. \A i \in 1..Len(s) - n : b[i] = s[n + i]
  BY <1>1 DEF From
<1> HIDE DEF a, b
<1>5. a \o b \in Seq(S) /\ Len(a \o b) = Len(s)
  BY <1>1, <1>2, <1>3
<1>6. ASSUME NEW i \in 1..Len(s) PROVE (a \o b)[i] = s[i]
  <2>1. CASE i <= n
    <3>1. (a \o b)[i] = a[i]
      BY <1>1, <1>2, <1>3, <2>1
    <3> QED
      BY <1>1, <1>2, <2>1, <3>1
  <2>2. CASE i > n
    <3>1. i - n \in 1..Len(s) - n /\ n + (i - n) = i
      BY <1>1, <2>2
    <3>2. (a \o b)[i] = b[i - n]
      BY <1>1, <1>2, <1>3, <2>2
    <3>3. b[i - n] = s[n + (i - n)]
      BY <1>4, <3>1
    <3> QED
      BY <3>1, <3>2, <3>3
  <2>3. i <= n \/ i > n
    BY <1>1
  <2> QED
    BY <2>1, <2>2, <2>3
<1>7. s = a \o b
  BY <1>5, <1>6, Same
<1> QED
  BY <1>2, <1>3, <1>4, <1>7 DEF a, b

LEMMA Halves ==
    ASSUME NEW S, NEW s \in Seq(S), NEW t \in Seq(S)
    PROVE  Upto(s \o t, Len(s)) = s /\ From(s \o t, Len(s) + 1) = t
<1> DEFINE u == s \o t
           a == Upto(u, Len(s))
           b == From(u, Len(s) + 1)
<1>1. /\ u \in Seq(S) /\ Len(u) = Len(s) + Len(t) /\ Len(s) \in Nat /\ Len(t) \in Nat
      /\ \A i \in 1..Len(s) : u[i] = s[i]
      /\ \A i \in 1..Len(t) : u[Len(s) + i] = t[i]
  BY Joined
<1> HIDE DEF u
<1>2. Len(s) \in 0..Len(u) /\ Len(u) - Len(s) = Len(t)
  BY <1>1
<1>3. /\ a \in Seq(S) /\ Len(a) = Len(s) /\ \A i \in 1..Len(s) : a[i] = u[i]
      /\ b \in Seq(S) /\ Len(b) = Len(t) /\ \A i \in 1..Len(t) : b[i] = u[Len(s) + i]
  BY <1>1, <1>2, Apart
<1> HIDE DEF a, b
<1>4. a = s
  BY <1>1, <1>3, Same
<1>5. b = t
  BY <1>1, <1>3, Same
<1> QED
  BY <1>4, <1>5 DEF a, b, u

-----------------------------------------------------------------------------
(* Dotted, from its recursive function to an equation on the last label.   *)
Grown(L, f, n) == IF n = 1 THEN L[1] ELSE f[n - 1] \o <<".">> \o L[n]
Texts(L, m, f) == f = [n \in 1..m |-> Grown(L, f, n)]

LEMMA GrownIs ==
    ASSUME NEW L, NEW f, NEW n, n # 1 PROVE Grown(L, f, n) = f[n - 1] \o <<".">> \o L[n]
BY DEF Grown

LEMMA TextsExist == ASSUME NEW L, NEW m \in Nat PROVE \E f : Texts(L, m, f)
<1> DEFINE T == {k \in Nat : \E f : f = [n \in 1..k |-> Grown(L, f, n)]}
<1>1. 0 \in T
  <2> DEFINE f == [n \in 1..0 |-> 0]
  <2>1. f = [n \in 1..0 |-> Grown(L, f, n)]
    OBVIOUS
  <2> QED
    BY <2>1
<1>2. ASSUME NEW k \in T PROVE k + 1 \in T
  <2>1. k \in Nat
    OBVIOUS
  <2>2. PICK f : f = [n \in 1..k |-> Grown(L, f, n)]
    OBVIOUS
  <2> DEFINE g == [n \in 1..k + 1 |-> Grown(L, f, n)]
  <2>3. ASSUME NEW n \in 1..k PROVE g[n] = f[n]
    <3>1. g[n] = Grown(L, f, n)
      BY <2>1
    <3>2. f[n] = Grown(L, f, n)
      BY <2>2
    <3> QED
      BY <3>1, <3>2
  <2>4. ASSUME NEW n \in 1..k + 1 PROVE Grown(L, g, n) = Grown(L, f, n)
    <3>1. CASE n = 1
      BY <3>1 DEF Grown
    <3>2. CASE n # 1
      <4>1. n - 1 \in 1..k
        BY <2>1, <3>2
      <4>2. g[n - 1] = f[n - 1]
        BY <2>3, <4>1
      <4> HIDE DEF g
      <4> QED
        BY <4>2 DEF Grown
    <3> QED
      BY <3>1, <3>2
  <2>5. g = [n \in 1..k + 1 |-> Grown(L, g, n)]
    BY <2>4
  <2> HIDE DEF g
  <2> QED
    BY <2>1, <2>5
<1>3. T = Nat
  <2> HIDE DEF T
  <2>1. T \in SUBSET Nat
    BY DEF T
  <2> QED
    BY <1>1, <1>2, <2>1, SetInduction
<1> QED
  BY <1>3 DEF Texts

LEMMA TextsAgree ==
    ASSUME NEW L, NEW M, NEW m \in Nat, NEW k \in Nat, k <= m, NEW f, NEW g,
           Texts(L, m, f), Texts(M, k, g), \A i \in 1..k : L[i] = M[i]
    PROVE  \A i \in 1..k : f[i] = g[i]
<1> DEFINE T == {j \in Nat : j + 1 <= k => f[j + 1] = g[j + 1]}
<1>1. ASSUME NEW i \in 1..k PROVE f[i] = Grown(L, f, i) /\ g[i] = Grown(M, g, i) /\ L[i] = M[i]
  BY DEF Texts
<1>2. 0 \in T
  <2>1. ASSUME 1 <= k PROVE f[1] = g[1]
    <3>1. 1 \in 1..k
      BY <2>1
    <3> QED
      BY <1>1, <3>1 DEF Grown
  <2> QED
    BY <2>1
<1>3. ASSUME NEW i \in 1..k, i # 1, f[i - 1] = g[i - 1] PROVE f[i] = g[i]
  <2>1. Grown(L, f, i) = Grown(M, g, i)
    BY <1>1, <1>3 DEF Grown
  <2> QED
    BY <1>1, <2>1
<1>6. ASSUME NEW j \in T PROVE j + 1 \in T
  <2>1. j \in Nat /\ j + 1 + 1 # 1 /\ j + 1 + 1 - 1 = j + 1
    OBVIOUS
  <2>2. SUFFICES ASSUME j + 1 + 1 <= k PROVE f[j + 1 + 1] = g[j + 1 + 1]
    BY <2>1
  <2>3. f[j + 1] = g[j + 1] /\ j + 1 + 1 \in 1..k
    BY <2>1, <2>2
  <2> HIDE DEF T
  <2>4. f[j + 1 + 1 - 1] = g[j + 1 + 1 - 1]
    BY <2>1, <2>3
  <2> QED
    BY <1>3, <2>1, <2>3, <2>4
<1>4. T = Nat
  <2> HIDE DEF T
  <2>1. T \in SUBSET Nat
    BY DEF T
  <2> QED
    BY <1>2, <1>6, <2>1, SetInduction
<1>5. ASSUME NEW i \in 1..k PROVE f[i] = g[i]
  <2>1. i - 1 \in Nat /\ i - 1 + 1 = i /\ i <= k
    OBVIOUS
  <2>2. i - 1 \in T
    BY <1>4, <2>1
  <2> QED
    BY <2>1, <2>2
<1> QED
  BY <1>5

LEMMA DottedIs ==
    ASSUME NEW L, Len(L) \in Nat
    PROVE  \E f : Texts(L, Len(L), f) /\ Dotted(L) = f[Len(L)]
<1>1. \E f : Texts(L, Len(L), f)
  BY TextsExist
<1>2. Dotted(L) = (CHOOSE f : Texts(L, Len(L), f))[Len(L)]
  BY DEF Dotted, Texts, Grown
<1> QED
  BY <1>1, <1>2

(* All but the last label, and the last.                                   *)
LEMMA DottedLast ==
    ASSUME NEW S, NEW L \in Seq(S), NEW l \in S
    PROVE  Dotted(Append(L, l)) = IF L = <<>> THEN l ELSE Dotted(L) \o <<".">> \o l
<1> DEFINE M == Append(L, l)
           n == Len(L)
<1>1. /\ n \in Nat /\ Len(M) = n + 1 /\ M[n + 1] = l /\ \A i \in 1..n : M[i] = L[i]
      /\ L = <<>> <=> n = 0
  OBVIOUS
<1> HIDE DEF M, n
<1>2. PICK f : Texts(M, n + 1, f) /\ Dotted(M) = f[n + 1]
  BY <1>1, DottedIs
<1>3. f[n + 1] = Grown(M, f, n + 1)
  BY <1>1, <1>2 DEF Texts
<1>4. CASE n = 0
  BY <1>1, <1>2, <1>3, <1>4 DEF Grown, M
<1>5. CASE n # 0
  <2>1. PICK g : Texts(L, n, g) /\ Dotted(L) = g[n]
    BY <1>1, DottedIs DEF n
  <2>2. \A i \in 1..n : f[i] = g[i]
    BY <1>1, <1>2, <2>1, TextsAgree
  <2>3. f[n] = g[n] /\ n + 1 # 1 /\ n + 1 - 1 = n
    BY <1>1, <1>5, <2>2
  <2>4. PICK i : i = n + 1
    OBVIOUS
  <2>5. i # 1 /\ i - 1 = n
    BY <1>1, <2>3, <2>4
  <2>6. Grown(M, f, i) = f[i - 1] \o <<".">> \o M[i]
    BY <2>5, GrownIs
  <2>7. f[i] = f[n] \o <<".">> \o l
    BY <1>1, <1>3, <2>4, <2>5, <2>6
  <2> QED
    BY <1>1, <1>2, <1>5, <2>1, <2>3, <2>4, <2>7 DEF M
<1> QED
  BY <1>4, <1>5

LEMMA DottedOne == ASSUME NEW l PROVE Dotted(<<l>>) = l
<1>1. <<l>> = Append(<<>>, l) /\ <<>> \in Seq({l}) /\ l \in {l}
  OBVIOUS
<1> QED
  BY <1>1, DottedLast

LEMMA LastElement ==
    ASSUME NEW X, NEW s \in Seq(X), s # <<>>
    PROVE  \E f \in Seq(X), x \in X : s = Append(f, x) /\ Len(s) = Len(f) + 1
<1> DEFINE f == Upto(s, Len(s) - 1)
           x == s[Len(s)]
<1>1. Len(s) \in Nat /\ Len(s) # 0 /\ Len(s) \in 1..Len(s)
  OBVIOUS
<1>2. x \in X /\ Len(s) - 1 \in 0..Len(s)
  BY <1>1
<1>3. f \in Seq(X) /\ Len(f) = Len(s) - 1 /\ \A i \in 1..Len(s) - 1 : f[i] = s[i]
  BY <1>2, Apart
<1> HIDE DEF f
<1>4. Append(f, x) \in Seq(X) /\ Len(Append(f, x)) = Len(s)
  BY <1>1, <1>2, <1>3
<1>5. ASSUME NEW i \in 1..Len(s) PROVE Append(f, x)[i] = s[i]
  <2>1. CASE i = Len(s)
    BY <1>1, <1>2, <1>3, <2>1
  <2>2. CASE i # Len(s)
    <3>1. i \in 1..Len(s) - 1
      BY <1>1, <2>2
    <3>2. Append(f, x)[i] = f[i]
      BY <1>2, <1>3, <3>1
    <3> QED
      BY <1>3, <3>1, <3>2
  <2> QED
    BY <2>1, <2>2
<1>6. s = Append(f, x)
  BY <1>4, <1>5, Same
<1>7. Len(s) = Len(f) + 1
  BY <1>1, <1>3
<1> QED
  BY <1>2, <1>3, <1>6, <1>7

(* Induction on sequences, about a set of them.                            *)
LEMMA SequenceInduction ==
    ASSUME NEW X, NEW P \in SUBSET Seq(X), <<>> \in P,
           \A s \in P : \A x \in X : Append(s, x) \in P
    PROVE  P = Seq(X)
<1> DEFINE T == {n \in Nat : \A s \in Seq(X) : Len(s) = n => s \in P}
<1>1. 0 \in T
  OBVIOUS
<1>2. ASSUME NEW n \in T PROVE n + 1 \in T
  <2>1. SUFFICES ASSUME NEW s \in Seq(X), Len(s) = n + 1 PROVE s \in P
    OBVIOUS
  <2>2. n \in Nat /\ s # <<>>
    BY <2>1
  <2>3. PICK f \in Seq(X), x \in X : s = Append(f, x) /\ Len(s) = Len(f) + 1
    BY <2>2, LastElement
  <2>4. Len(f) = n
    BY <2>1, <2>2, <2>3
  <2>5. f \in P
    BY <2>4
  <2> QED
    BY <2>3, <2>5
<1>3. T = Nat
  <2> HIDE DEF T
  <2>1. T \in SUBSET Nat
    BY DEF T
  <2> QED
    BY <1>1, <1>2, <2>1, SetInduction
<1>4. ASSUME NEW s \in Seq(X) PROVE s \in P
  <2>1. Len(s) \in T
    BY <1>3
  <2> QED
    BY <2>1
<1> QED
  BY <1>4

-----------------------------------------------------------------------------
LEMMA DottedType ==
    ASSUME NEW S, NEW L \in Seq(Seq(S)), L # <<>>
    PROVE  Dotted(L) \in Seq(S \union {"."})
<1> DEFINE P == {M \in Seq(Seq(S)) : M # <<>> => Dotted(M) \in Seq(S \union {"."})}
<1>1. ASSUME NEW M \in P, NEW l \in Seq(S) PROVE Append(M, l) \in P
  <2>1. l \in Seq(S \union {"."}) /\ <<".">> \in Seq(S \union {"."}) /\ M \in Seq(Seq(S))
    OBVIOUS
  <2>2. CASE M = <<>>
    <3>1. Dotted(Append(M, l)) = l
      BY <2>1, <2>2, DottedLast
    <3> QED
      BY <2>1, <3>1
  <2>3. CASE M # <<>>
    <3>1. Dotted(Append(M, l)) = Dotted(M) \o <<".">> \o l
      BY <2>1, <2>3, DottedLast
    <3>2. Dotted(M) \in Seq(S \union {"."})
      BY <2>3
    <3>3. Dotted(M) \o <<".">> \o l \in Seq(S \union {"."})
      BY <2>1, <3>2
    <3>4. Append(M, l) \in Seq(Seq(S))
      BY <2>1
    <3> HIDE DEF P
    <3> QED
      BY <3>1, <3>3, <3>4 DEF P
  <2> QED
    BY <2>2, <2>3
<1>2. P = Seq(Seq(S))
  <2>1. P \in SUBSET Seq(Seq(S)) /\ <<>> \in P
    OBVIOUS
  <2> HIDE DEF P
  <2> QED
    BY <1>1, <2>1, SequenceInduction
<1> QED
  BY <1>2

(* The last dot divides a text in one way only.                            *)
LEMMA Cancel ==
    ASSUME NEW S, "." \notin S, NEW a \in Seq(S), NEW b \in Seq(S),
           NEW x \in Seq(S \union {"."}), NEW y \in Seq(S \union {"."}),
           x \o <<".">> \o a = y \o <<".">> \o b
    PROVE  x = y /\ a = b
<1> DEFINE C == S \union {"."}
           s == x \o <<".">> \o a
           t == y \o <<".">> \o b
<1>1. /\ Len(s) = Len(x) + 1 + Len(a) /\ s[Len(x) + 1] = "."
      /\ \A i \in 1..Len(x) : s[i] = x[i]
      /\ \A i \in 1..Len(a) : s[Len(x) + 1 + i] = a[i]
  OBVIOUS
<1>2. /\ Len(t) = Len(y) + 1 + Len(b) /\ t[Len(y) + 1] = "."
      /\ \A i \in 1..Len(y) : t[i] = y[i]
      /\ \A i \in 1..Len(b) : t[Len(y) + 1 + i] = b[i]
  OBVIOUS
<1>3. s = t /\ Len(x) \in Nat /\ Len(y) \in Nat /\ Len(a) \in Nat /\ Len(b) \in Nat
  <2>1. Len(x) \in Nat /\ Len(y) \in Nat /\ Len(a) \in Nat /\ Len(b) \in Nat
    OBVIOUS
  <2>2. s = t
    BY Zenon
  <2> QED
    BY <2>1, <2>2
<1>4. (\A i \in 1..Len(a) : a[i] \in S) /\ (\A i \in 1..Len(b) : b[i] \in S)
  OBVIOUS
<1> HIDE DEF s, t
<1>5. Len(x) = Len(y)
  <2>1. ~ (Len(x) < Len(y))
    <3>1. SUFFICES ASSUME Len(x) < Len(y) PROVE FALSE
      OBVIOUS
    <3>2. Len(y) - Len(x) \in 1..Len(a) /\ Len(x) + 1 + (Len(y) - Len(x)) = Len(y) + 1
      BY <1>1, <1>2, <1>3, <3>1
    <3>3. s[Len(y) + 1] = a[Len(y) - Len(x)]
      BY <1>1, <3>2
    <3> QED
      BY <1>2, <1>3, <1>4, <3>2, <3>3
  <2>2. ~ (Len(y) < Len(x))
    <3>1. SUFFICES ASSUME Len(y) < Len(x) PROVE FALSE
      OBVIOUS
    <3>2. Len(x) - Len(y) \in 1..Len(b) /\ Len(y) + 1 + (Len(x) - Len(y)) = Len(x) + 1
      BY <1>1, <1>2, <1>3, <3>1
    <3>3. t[Len(x) + 1] = b[Len(x) - Len(y)]
      BY <1>2, <3>2
    <3> QED
      BY <1>1, <1>3, <1>4, <3>2, <3>3
  <2> QED
    BY <1>3, <2>1, <2>2
<1>6. Len(a) = Len(b)
  BY <1>1, <1>2, <1>3, <1>5
<1>7. \A i \in 1..Len(x) : x[i] = y[i]
  BY <1>1, <1>2, <1>3, <1>5
<1>8. \A i \in 1..Len(a) : a[i] = b[i]
  BY <1>1, <1>2, <1>3, <1>5, <1>6
<1>9. x = y
  BY <1>5, <1>7, SeqEqual
<1>10. a = b
  BY <1>6, <1>8, SeqEqual
<1> QED
  BY <1>9, <1>10

LEMMA NoDot ==
    ASSUME NEW S, "." \notin S, NEW a \in Seq(S), NEW b \in Seq(S), NEW y \in Seq(S \union {"."})
    PROVE  a # y \o <<".">> \o b
<1> DEFINE t == y \o <<".">> \o b
<1>1. Len(y) + 1 \in 1..Len(t) /\ t[Len(y) + 1] = "."
  OBVIOUS
<1> HIDE DEF t
<1>2. \A i \in 1..Len(a) : a[i] \in S
  OBVIOUS
<1>3. a # t
  BY <1>1, <1>2
<1> QED
  BY <1>3 DEF t

LEMMA DottedInjective ==
    ASSUME NEW S, "." \notin S, NEW A \in Seq(Seq(S)), A # <<>>, NEW B \in Seq(Seq(S)), B # <<>>,
           Dotted(A) = Dotted(B)
    PROVE  A = B
<1> DEFINE X == Seq(S)
           P == {M \in Seq(X) : \A N \in Seq(X) : M # <<>> /\ N # <<>> /\ Dotted(M) = Dotted(N) => M = N}
<1>1. ASSUME NEW M \in P, NEW l \in X PROVE Append(M, l) \in P
  <2>1. SUFFICES ASSUME NEW N \in Seq(X), N # <<>>, Dotted(Append(M, l)) = Dotted(N) PROVE Append(M, l) = N
    OBVIOUS
  <2>2. M \in Seq(X)
    OBVIOUS
  <2>3. PICK K \in Seq(X), k \in X : N = Append(K, k)
    <3> HIDE DEF X
    <3> QED
      BY <2>1, LastElement
  <2>4. Dotted(Append(M, l)) = IF M = <<>> THEN l ELSE Dotted(M) \o <<".">> \o l
    BY <2>2, DottedLast
  <2>5. Dotted(N) = IF K = <<>> THEN k ELSE Dotted(K) \o <<".">> \o k
    BY <2>3, DottedLast
  <2>6. (M # <<>> => Dotted(M) \in Seq(S \union {"."})) /\ (K # <<>> => Dotted(K) \in Seq(S \union {"."}))
    BY <2>2, DottedType
  <2>7. M # <<>> /\ K # <<>> /\ Dotted(M) = Dotted(K) => M = K
    OBVIOUS
  <2> HIDE DEF P
  <2>8. CASE M = <<>> /\ K = <<>>
    BY <2>1, <2>3, <2>4, <2>5, <2>8
  <2>9. CASE M # <<>> /\ K = <<>>
    BY <2>1, <2>4, <2>5, <2>6, <2>9, NoDot
  <2>10. CASE M = <<>> /\ K # <<>>
    BY <2>1, <2>4, <2>5, <2>6, <2>10, NoDot
  <2>11. CASE M # <<>> /\ K # <<>>
    <3>1. Dotted(M) \o <<".">> \o l = Dotted(K) \o <<".">> \o k
      BY <2>1, <2>4, <2>5, <2>11
    <3>2. Dotted(M) = Dotted(K) /\ l = k
      BY <2>6, <2>11, <3>1, Cancel
    <3> QED
      BY <2>3, <2>7, <2>11, <3>2
  <2> QED
    BY <2>8, <2>9, <2>10, <2>11
<1>2. P = Seq(X)
  <2>1. P \in SUBSET Seq(X) /\ <<>> \in P
    OBVIOUS
  <2> HIDE DEF P, X
  <2> QED
    BY <1>1, <2>1, SequenceInduction
<1> QED
  BY <1>2

-----------------------------------------------------------------------------
LEMMA PrefixIs ==
    ASSUME NEW X, NEW s \in Seq(X), NEW t \in Seq(X)
    PROVE  IsPrefix(s, t) <=> Len(s) <= Len(t) /\ \A i \in 1..Len(s) : s[i] = t[i]
<1>1. Len(s) \in Nat /\ Len(t) \in Nat
  OBVIOUS
<1>2. CASE Len(s) <= Len(t)
  <2>1. Len(s) \in 0..Len(s) /\ Len(s) \in 0..Len(t)
    BY <1>1, <1>2
  <2>2. /\ Upto(s, Len(s)) \in Seq(X) /\ Len(Upto(s, Len(s))) = Len(s)
        /\ \A i \in 1..Len(s) : Upto(s, Len(s))[i] = s[i]
    BY <2>1, Apart
  <2>3. /\ Upto(t, Len(s)) \in Seq(X) /\ Len(Upto(t, Len(s))) = Len(s)
        /\ \A i \in 1..Len(s) : Upto(t, Len(s))[i] = t[i]
    BY <2>1, Apart
  <2>4. IsPrefix(s, t) <=> Upto(s, Len(s)) = Upto(t, Len(s))
    BY <1>2 DEF IsPrefix, Upto
  <2>5. (\A i \in 1..Len(s) : s[i] = t[i]) => Upto(s, Len(s)) = Upto(t, Len(s))
    <3>1. HAVE \A i \in 1..Len(s) : s[i] = t[i]
    <3>2. \A i \in 1..Len(s) : Upto(s, Len(s))[i] = Upto(t, Len(s))[i]
      BY <2>2, <2>3, <3>1
    <3> QED
      BY <2>2, <2>3, <3>2, Same
  <2>6. Upto(s, Len(s)) = Upto(t, Len(s)) => \A i \in 1..Len(s) : s[i] = t[i]
    BY <2>2, <2>3
  <2> QED
    BY <1>2, <2>4, <2>5, <2>6
<1>3. CASE ~ (Len(s) <= Len(t))
  BY <1>3 DEF IsPrefix
<1> QED
  BY <1>2, <1>3

LEMMA SuffixIs ==
    ASSUME NEW X, NEW s \in Seq(X), NEW t \in Seq(X)
    PROVE  IsSuffix(s, t) <=>
              Len(s) <= Len(t) /\ \A i \in 1..Len(s) : s[i] = t[Len(t) - Len(s) + i]
<1> DEFINE r == Reverse(s)
           q == Reverse(t)
<1>1. Len(s) \in Nat /\ Len(t) \in Nat
  OBVIOUS
<1>2. /\ r \in Seq(X) /\ Len(r) = Len(s) /\ \A i \in 1..Len(s) : r[i] = s[Len(s) - i + 1]
      /\ q \in Seq(X) /\ Len(q) = Len(t) /\ \A i \in 1..Len(t) : q[i] = t[Len(t) - i + 1]
  BY <1>1 DEF Reverse
<1>3. IsSuffix(s, t) <=> IsPrefix(r, q)
  BY DEF IsSuffix
<1> HIDE DEF r, q
<1>4. IsPrefix(r, q) <=> Len(s) <= Len(t) /\ \A i \in 1..Len(s) : r[i] = q[i]
  BY <1>2, PrefixIs
<1>5. ASSUME Len(s) <= Len(t), \A i \in 1..Len(s) : r[i] = q[i], NEW i \in 1..Len(s)
      PROVE  s[i] = t[Len(t) - Len(s) + i]
  <2>0. Len(s) - i + 1 \in 1..Len(s)
    BY <1>1
  <2>1. PICK j \in 1..Len(s) : j = Len(s) - i + 1
    BY <2>0
  <2>2. Len(s) - j + 1 = i /\ Len(t) - j + 1 = Len(t) - Len(s) + i /\ j \in 1..Len(t)
    BY <1>1, <1>5, <2>1
  <2>3. r[j] = s[Len(s) - j + 1] /\ q[j] = t[Len(t) - j + 1]
    BY <1>2, <2>1, <2>2
  <2> QED
    BY <1>5, <2>2, <2>3
<1>6. ASSUME Len(s) <= Len(t), \A i \in 1..Len(s) : s[i] = t[Len(t) - Len(s) + i], NEW j \in 1..Len(s)
      PROVE  r[j] = q[j]
  <2>0. Len(s) - j + 1 \in 1..Len(s)
    BY <1>1
  <2>1. PICK i \in 1..Len(s) : i = Len(s) - j + 1
    BY <2>0
  <2>2. Len(t) - j + 1 = Len(t) - Len(s) + i /\ j \in 1..Len(t)
    BY <1>1, <1>6, <2>1
  <2>3. r[j] = s[Len(s) - j + 1] /\ q[j] = t[Len(t) - j + 1]
    BY <1>2, <2>1, <2>2
  <2> QED
    BY <1>6, <2>1, <2>2, <2>3
<1> QED
  BY <1>3, <1>4, <1>5, <1>6

LEMMA SuffixRest ==
    ASSUME NEW X, NEW s \in Seq(X), NEW t \in Seq(X)
    PROVE  IsSuffix(s, t) <=> \E u \in Seq(X) : t = u \o s
<1>1. Len(s) \in Nat /\ Len(t) \in Nat
  OBVIOUS
<1>2. ASSUME IsSuffix(s, t) PROVE \E u \in Seq(X) : t = u \o s
  <2>0. Len(s) <= Len(t) /\ \A i \in 1..Len(s) : s[i] = t[Len(t) - Len(s) + i]
    BY <1>2, SuffixIs
  <2>4. Len(t) - Len(s) \in 0..Len(t)
    BY <1>1, <2>0
  <2>1. PICK n \in 0..Len(t) : n = Len(t) - Len(s) /\ \A i \in 1..Len(s) : s[i] = t[n + i]
    BY <2>0, <2>4
  <2>2. /\ Upto(t, n) \in Seq(X) /\ From(t, n + 1) \in Seq(X) /\ Len(From(t, n + 1)) = Len(s)
        /\ \A i \in 1..Len(s) : From(t, n + 1)[i] = t[n + i]
        /\ t = Upto(t, n) \o From(t, n + 1)
    <3>1. Len(t) - n = Len(s)
      BY <1>1, <2>1
    <3>2. /\ Upto(t, n) \in Seq(X) /\ From(t, n + 1) \in Seq(X) /\ Len(From(t, n + 1)) = Len(t) - n
          /\ \A i \in 1..Len(t) - n : From(t, n + 1)[i] = t[n + i]
          /\ t = Upto(t, n) \o From(t, n + 1)
      BY Apart
    <3> QED
      BY <3>1, <3>2
  <2>3. From(t, n + 1) = s
    BY <2>1, <2>2, Same
  <2> QED
    BY <2>2, <2>3
<1>3. ASSUME NEW u \in Seq(X), t = u \o s PROVE IsSuffix(s, t)
  <2>1. /\ Len(u) \in Nat /\ Len(t) = Len(u) + Len(s)
        /\ \A i \in 1..Len(s) : t[Len(u) + i] = s[i]
    BY <1>3
  <2>2. Len(t) - Len(s) = Len(u) /\ Len(s) <= Len(t)
    BY <1>1, <2>1
  <2> QED
    BY <2>1, <2>2, SuffixIs
<1> QED
  BY <1>2, <1>3

LEMMA SuffixLast ==
    ASSUME NEW X, NEW K \in Seq(X), NEW k \in X, NEW M \in Seq(X), NEW l \in X
    PROVE  IsSuffix(Append(K, k), Append(M, l)) <=> k = l /\ IsSuffix(K, M)
<1> DEFINE s == Append(K, k)
           t == Append(M, l)
<1>1. /\ s \in Seq(X) /\ Len(s) = Len(K) + 1 /\ s[Len(K) + 1] = k /\ \A i \in 1..Len(K) : s[i] = K[i]
      /\ t \in Seq(X) /\ Len(t) = Len(M) + 1 /\ t[Len(M) + 1] = l /\ \A i \in 1..Len(M) : t[i] = M[i]
      /\ Len(K) \in Nat /\ Len(M) \in Nat
  OBVIOUS
<1> HIDE DEF s, t
<1>2. ASSUME IsSuffix(s, t) PROVE k = l /\ IsSuffix(K, M)
  <2>1. Len(K) <= Len(M) /\ \A i \in 1..Len(K) + 1 : s[i] = t[Len(M) - Len(K) + i]
    <3>1. Len(s) <= Len(t) /\ \A i \in 1..Len(s) : s[i] = t[Len(t) - Len(s) + i]
      BY <1>1, <1>2, SuffixIs
    <3>2. Len(t) - Len(s) = Len(M) - Len(K)
      BY <1>1
    <3> QED
      BY <1>1, <3>1, <3>2
  <2>2. k = l
    <3>1. Len(K) + 1 \in 1..Len(K) + 1 /\ Len(M) - Len(K) + (Len(K) + 1) = Len(M) + 1
      BY <1>1
    <3>2. s[Len(K) + 1] = t[Len(M) - Len(K) + (Len(K) + 1)]
      BY <2>1, <3>1
    <3> QED
      BY <1>1, <3>1, <3>2
  <2>3. ASSUME NEW i \in 1..Len(K) PROVE K[i] = M[Len(M) - Len(K) + i]
    <3>1. i \in 1..Len(K) + 1 /\ Len(M) - Len(K) + i \in 1..Len(M)
      BY <1>1, <2>1
    <3>2. s[i] = t[Len(M) - Len(K) + i]
      BY <2>1, <3>1
    <3> QED
      BY <1>1, <3>1, <3>2
  <2> QED
    BY <2>1, <2>2, <2>3, SuffixIs
<1>3. ASSUME k = l, IsSuffix(K, M) PROVE IsSuffix(s, t)
  <2>1. Len(K) <= Len(M) /\ \A i \in 1..Len(K) : K[i] = M[Len(M) - Len(K) + i]
    BY <1>3, SuffixIs
  <2>2. ASSUME NEW i \in 1..Len(s) PROVE s[i] = t[Len(t) - Len(s) + i]
    <3>1. Len(t) - Len(s) + i = Len(M) - Len(K) + i
      BY <1>1
    <3>2. CASE i \in 1..Len(K)
      <4>1. Len(M) - Len(K) + i \in 1..Len(M)
        BY <1>1, <2>1, <3>2
      <4> QED
        BY <1>1, <2>1, <3>1, <3>2, <4>1
    <3>3. CASE i = Len(K) + 1
      <4>1. Len(t) - Len(s) + i = Len(M) + 1
        BY <1>1, <3>3
      <4> QED
        BY <1>1, <1>3, <3>3, <4>1
    <3> QED
      BY <1>1, <3>2, <3>3
  <2>3. Len(s) <= Len(t)
    BY <1>1, <2>1
  <2> QED
    BY <1>1, <2>2, <2>3, SuffixIs
<1> QED
  BY <1>2, <1>3 DEF s, t

LEMMA EmptySuffix == ASSUME NEW X, NEW M \in Seq(X) PROVE IsSuffix(<<>>, M)
<1>1. <<>> \in Seq(X) /\ M = M \o <<>>
  OBVIOUS
<1> QED
  BY <1>1, SuffixRest

LEMMA Regroup ==
    ASSUME NEW C, NEW u \in Seq(C), NEW k \in Seq(C), NEW x \in Seq(C), <<".">> \in Seq(C)
    PROVE  u \o <<".">> \o (x \o <<".">> \o k) = (u \o <<".">> \o x) \o <<".">> \o k
OBVIOUS

LEMMA BelowLast ==
    ASSUME NEW S, NEW K \in Seq(Seq(S)), K # <<>>, NEW k \in Seq(S), NEW u \in Seq(S \union {"."})
    PROVE  u \o <<".">> \o Dotted(Append(K, k)) = (u \o <<".">> \o Dotted(K)) \o <<".">> \o k
<1>1. PICK x : x = Dotted(K)
  OBVIOUS
<1>2. Dotted(Append(K, k)) = x \o <<".">> \o k
  BY <1>1, DottedLast
<1>3. x \in Seq(S \union {"."}) /\ k \in Seq(S \union {"."}) /\ <<".">> \in Seq(S \union {"."})
  <2>1. x \in Seq(S \union {"."})
    BY <1>1, DottedType
  <2>2. k \in Seq(S \union {"."}) /\ <<".">> \in Seq(S \union {"."})
    OBVIOUS
  <2> QED
    BY <2>1, <2>2
<1>4. u \o <<".">> \o (x \o <<".">> \o k) = (u \o <<".">> \o x) \o <<".">> \o k
  BY <1>3, Regroup
<1> QED
  BY <1>1, <1>2, <1>4

LEMMA AppendIs ==
    ASSUME NEW X, NEW s \in Seq(X), NEW x \in X
    PROVE  Append(s, x) \in Seq(X) /\ Append(s, x) # <<>> /\ Len(Append(s, x)) = Len(s) + 1
<1>1. Append(s, x) \in Seq(X) /\ Len(Append(s, x)) = Len(s) + 1 /\ Len(s) \in Nat /\ Len(<<>>) = 0
  OBVIOUS
<1>2. Len(s) + 1 # 0
  BY <1>1
<1> QED
  BY <1>1, <1>2

(* Below a name is what has more labels and ends in its labels.            *)
LEMMA BelowIs ==
    ASSUME NEW S, "." \notin S, NEW A \in Seq(Seq(S)), A # <<>>, NEW B \in Seq(Seq(S)), B # <<>>
    PROVE  (\E u \in Seq(S \union {"."}) : Dotted(A) = u \o <<".">> \o Dotted(B))
              <=> Len(A) > Len(B) /\ IsSuffix(B, A)
<1> DEFINE X == Seq(S)
           C == S \union {"."}
           Below(M, N) == \E u \in Seq(C) : Dotted(M) = u \o <<".">> \o Dotted(N)
           P == {N \in Seq(X) : \A M \in Seq(X) : M # <<>> /\ N # <<>> =>
                    (Below(M, N) <=> Len(M) > Len(N) /\ IsSuffix(N, M))}
<1>1. ASSUME NEW K \in P, NEW k \in X PROVE Append(K, k) \in P
  <2>1. /\ K \in Seq(X) /\ Append(K, k) \in Seq(X) /\ Append(K, k) # <<>>
        /\ Len(Append(K, k)) = Len(K) + 1
    <3>1. K \in Seq(X)
      OBVIOUS
    <3> HIDE DEF X, P
    <3> QED
      BY <3>1, AppendIs
  <2>2. SUFFICES ASSUME NEW N \in Seq(X), N # <<>>
                 PROVE  Below(N, Append(K, k)) <=> Len(N) > Len(K) + 1 /\ IsSuffix(Append(K, k), N)
    <3> HIDE DEF X, Below
    <3> QED
      BY <2>1
  <2>3. PICK M \in Seq(X), l \in X : N = Append(M, l) /\ Len(N) = Len(M) + 1
    <3> HIDE DEF X
    <3> QED
      BY <2>2, LastElement
  <2>4. Dotted(N) = IF M = <<>> THEN l ELSE Dotted(M) \o <<".">> \o l
    BY <2>3, DottedLast
  <2>5. Dotted(Append(K, k)) = IF K = <<>> THEN k ELSE Dotted(K) \o <<".">> \o k
    BY <2>1, DottedLast
  <2>6. /\ M # <<>> => Dotted(M) \in Seq(C)
        /\ K # <<>> => Dotted(K) \in Seq(C)
        /\ Dotted(Append(K, k)) \in Seq(C)
        /\ k \in Seq(C) /\ l \in Seq(C) /\ <<".">> \in Seq(C)
    <3>1. k \in Seq(C) /\ l \in Seq(C) /\ <<".">> \in Seq(C)
      OBVIOUS
    <3> QED
      BY <2>1, <3>1, DottedType
  <2>7. K # <<>> /\ M # <<>> => (Below(M, K) <=> Len(M) > Len(K) /\ IsSuffix(K, M))
    OBVIOUS
  <2>8. IsSuffix(Append(K, k), N) <=> k = l /\ IsSuffix(K, M)
    <3> HIDE DEF X
    <3> QED
      BY <2>1, <2>3, SuffixLast
  <2>9. /\ Len(N) > Len(K) + 1 <=> Len(M) > Len(K)
        /\ Len(M) = 0 <=> M = <<>>
        /\ Len(K) = 0 <=> K = <<>>
        /\ Len(M) \in Nat /\ Len(K) \in Nat
    BY <2>1, <2>3
  <2> HIDE DEF P
  <2>10. CASE M = <<>>
    <3>1. ~ Below(N, Append(K, k))
      <4>1. SUFFICES ASSUME NEW u \in Seq(C), l = u \o <<".">> \o Dotted(Append(K, k)) PROVE FALSE
        BY <2>4, <2>10
      <4>2. CASE K = <<>>
        BY <2>5, <4>1, <4>2, NoDot
      <4>3. CASE K # <<>>
        <5>1. l = (u \o <<".">> \o Dotted(K)) \o <<".">> \o k
          BY <2>5, <2>6, <4>1, <4>3
        <5>2. u \o <<".">> \o Dotted(K) \in Seq(C)
          BY <2>6, <4>3
        <5> QED
          BY <5>1, <5>2, NoDot
      <4> QED
        BY <4>2, <4>3
    <3> HIDE DEF Below, X
    <3> QED
      BY <2>9, <2>10, <3>1
  <2>11. CASE M # <<>> /\ K = <<>>
    <3>1. Below(N, Append(K, k)) <=> k = l
      <4>1. ASSUME k = l PROVE Below(N, Append(K, k))
        BY <2>4, <2>5, <2>6, <2>11, <4>1
      <4>2. ASSUME NEW u \in Seq(C), Dotted(N) = u \o <<".">> \o Dotted(Append(K, k)) PROVE k = l
        <5>1. Dotted(M) \o <<".">> \o l = u \o <<".">> \o k
          BY <2>4, <2>5, <2>11, <4>2
        <5> QED
          BY <2>6, <2>11, <5>1, Cancel
      <4> QED
        BY <4>1, <4>2
    <3>2. IsSuffix(K, M)
      <4> HIDE DEF X
      <4> QED
        BY <2>3, <2>11, EmptySuffix
    <3>3. Len(M) > Len(K)
      BY <2>9, <2>11
    <3> HIDE DEF Below, X
    <3> QED
      BY <2>8, <2>9, <3>1, <3>2, <3>3
  <2>12. CASE M # <<>> /\ K # <<>>
    <3>1. Below(N, Append(K, k)) <=> Below(M, K) /\ k = l
      <4>1. ASSUME NEW u \in Seq(C) PROVE u \o <<".">> \o Dotted(Append(K, k)) = (u \o <<".">> \o Dotted(K)) \o <<".">> \o k
        BY <2>1, <2>12, BelowLast
      <4>2. ASSUME k = l, NEW u \in Seq(C), Dotted(M) = u \o <<".">> \o Dotted(K)
            PROVE  Dotted(N) = u \o <<".">> \o Dotted(Append(K, k))
        BY <2>4, <2>12, <4>1, <4>2
      <4>3. ASSUME NEW u \in Seq(C), Dotted(N) = u \o <<".">> \o Dotted(Append(K, k))
            PROVE  k = l /\ Dotted(M) = u \o <<".">> \o Dotted(K)
        <5>1. Dotted(M) \o <<".">> \o l = (u \o <<".">> \o Dotted(K)) \o <<".">> \o k
          BY <2>4, <2>12, <4>1, <4>3
        <5>2. u \o <<".">> \o Dotted(K) \in Seq(C) /\ Dotted(M) \in Seq(C)
          BY <2>6, <2>12
        <5>3. "." \notin S /\ l \in Seq(S) /\ k \in Seq(S)
          OBVIOUS
        <5> DEFINE x == Dotted(M)
                   y == u \o <<".">> \o Dotted(K)
        <5> HIDE DEF x, y
        <5>4. x \in Seq(S \union {"."}) /\ y \in Seq(S \union {"."}) /\ x \o <<".">> \o l = y \o <<".">> \o k
          BY <5>1, <5>2 DEF x, y
        <5>5. x = y /\ l = k
          BY <5>3, <5>4, Cancel
        <5> QED
          BY <5>5 DEF x, y
      <4> QED
        BY <4>2, <4>3
    <3> HIDE DEF Below
    <3> QED
      BY <2>7, <2>8, <2>9, <2>12, <3>1
  <2> QED
    BY <2>10, <2>11, <2>12
<1>2. P = Seq(X)
  <2>1. P \in SUBSET Seq(X) /\ <<>> \in P
    OBVIOUS
  <2> HIDE DEF P, X
  <2> QED
    BY <1>1, <2>1, SequenceInduction
<1> QED
  BY <1>2

-----------------------------------------------------------------------------
LEMMA LoweredIs ==
    ASSUME NEW t \in Seq(Lexemes)
    PROVE  /\ Lowered(t) \in Seq(Lexemes) /\ Len(Lowered(t)) = Len(t)
           /\ \A i \in 1..Len(t) : Lowered(t)[i] = Lower[t[i]]
<1>1. DOMAIN t = 1..Len(t) /\ Len(t) \in Nat /\ \A i \in 1..Len(t) : t[i] \in Lexemes
  OBVIOUS
<1>2. Lowered(t) = [i \in 1..Len(t) |-> Lower[t[i]]]
  BY <1>1 DEF Lowered
<1>3. \A i \in 1..Len(t) : Lower[t[i]] \in Lexemes
  BY <1>1, OriginConstants
<1> QED
  BY <1>1, <1>2, <1>3

LEMMA LoweredJoin ==
    ASSUME NEW s \in Seq(Lexemes), NEW t \in Seq(Lexemes)
    PROVE  Lowered(s \o t) = Lowered(s) \o Lowered(t)
<1> DEFINE a == Lowered(s)
           b == Lowered(t)
           c == Lowered(s \o t)
           u == s \o t
<1>1. /\ u \in Seq(Lexemes) /\ Len(u) = Len(s) + Len(t) /\ Len(s) \in Nat /\ Len(t) \in Nat
      /\ \A i \in 1..Len(s) : u[i] = s[i]
      /\ \A i \in 1..Len(t) : u[Len(s) + i] = t[i]
  BY Joined
<1> HIDE DEF u
<1>2. c \in Seq(Lexemes) /\ Len(c) = Len(u) /\ \A i \in 1..Len(u) : c[i] = Lower[u[i]]
  BY <1>1, LoweredIs DEF u
<1>3. /\ a \in Seq(Lexemes) /\ Len(a) = Len(s) /\ \A i \in 1..Len(s) : a[i] = Lower[s[i]]
      /\ b \in Seq(Lexemes) /\ Len(b) = Len(t) /\ \A i \in 1..Len(t) : b[i] = Lower[t[i]]
  BY LoweredIs
<1> HIDE DEF a, b, c
<1>4. /\ a \o b \in Seq(Lexemes) /\ Len(a \o b) = Len(u)
      /\ \A i \in 1..Len(s) : (a \o b)[i] = a[i]
      /\ \A i \in 1..Len(t) : (a \o b)[Len(s) + i] = b[i]
  BY <1>1, <1>3, Joined
<1>5. ASSUME NEW i \in 1..Len(u) PROVE c[i] = (a \o b)[i]
  <2>1. CASE i \in 1..Len(s)
    <3>1. c[i] = Lower[s[i]]
      BY <1>1, <1>2, <2>1
    <3>2. (a \o b)[i] = Lower[s[i]]
      BY <1>3, <1>4, <2>1
    <3> QED
      BY <3>1, <3>2
  <2>2. CASE i \notin 1..Len(s)
    <3>1. PICK j \in 1..Len(t) : i = Len(s) + j
      <4>1. i - Len(s) \in 1..Len(t) /\ i = Len(s) + (i - Len(s))
        BY <1>1, <2>2
      <4> QED
        BY <4>1
    <3>2. c[i] = Lower[t[j]]
      BY <1>1, <1>2, <3>1
    <3>3. (a \o b)[i] = Lower[t[j]]
      BY <1>3, <1>4, <3>1
    <3> QED
      BY <3>2, <3>3
  <2> QED
    BY <2>1, <2>2
<1>6. c = a \o b
  BY <1>2, <1>4, <1>5, Same
<1> QED
  BY <1>6 DEF a, b, c, u

LEMMA PlainIs ==
    /\ Plain \subseteq Lexemes /\ "." \notin Plain /\ "[" \notin Plain /\ ":" \notin Plain /\ "*" \notin Plain
    /\ "." \in Lexemes /\ Lower["."] = "."
    /\ \A x \in Plain : Lower[x] \in Plain
BY OriginConstants DEF Plain, Marks

LEMMA PlainLabel ==
    ASSUME NEW l \in Seq(Plain)
    PROVE  Lowered(l) \in Seq(Plain) /\ Canonical(l) = Lowered(l) /\ l \in Seq(Lexemes)
<1>1. l \in Seq(Lexemes)
  BY PlainIs
<1>2. Len(l) \in Nat /\ \A i \in 1..Len(l) : l[i] \in Plain
  OBVIOUS
<1>3. Lowered(l) \in Seq(Plain)
  <2>1. Lowered(l) \in Seq(Lexemes) /\ Len(Lowered(l)) = Len(l) /\ \A i \in 1..Len(l) : Lowered(l)[i] \in Plain
    BY <1>1, <1>2, LoweredIs, PlainIs
  <2> QED
    BY <2>1
<1>4. ~ IsAddress(l)
  BY <1>2, PlainIs DEF IsAddress
<1> QED
  BY <1>1, <1>3, <1>4 DEF Canonical

LEMMA SmallLast ==
    ASSUME NEW X, NEW L \in Seq(X), NEW l \in X
    PROVE  Small(Append(L, l)) = Append(Small(L), Canonical(l))
<1> DEFINE Y == {Canonical(x) : x \in X}
           M == Append(L, l)
<1>1. /\ M \in Seq(X) /\ Len(M) = Len(L) + 1 /\ M[Len(L) + 1] = l /\ \A i \in 1..Len(L) : M[i] = L[i]
      /\ Len(L) \in Nat /\ DOMAIN M = 1..Len(L) + 1 /\ DOMAIN L = 1..Len(L)
      /\ \A i \in 1..Len(L) : L[i] \in X
  OBVIOUS
<1> HIDE DEF M
<1>2. Small(L) \in Seq(Y) /\ Len(Small(L)) = Len(L) /\ \A i \in 1..Len(L) : Small(L)[i] = Canonical(L[i])
  BY <1>1 DEF Small
<1>3. Small(M) = [i \in 1..Len(L) + 1 |-> Canonical(M[i])]
  BY <1>1 DEF Small
<1>4. Small(M) \in Seq(Y) /\ Len(Small(M)) = Len(L) + 1 /\ \A i \in 1..Len(L) + 1 : Small(M)[i] = Canonical(M[i])
  <2>1. \A i \in 1..Len(L) + 1 : M[i] \in X
    BY <1>1
  <2> QED
    BY <1>1, <1>3, <2>1
<1>5. Canonical(l) \in Y
  OBVIOUS
<1> HIDE DEF Y
<1>6. LET K == Append(Small(L), Canonical(l)) IN
        /\ K \in Seq(Y) /\ Len(K) = Len(L) + 1 /\ K[Len(L) + 1] = Canonical(l)
        /\ \A i \in 1..Len(L) : K[i] = Small(L)[i]
  BY <1>1, <1>2, <1>5
<1>7. \A i \in 1..Len(L) + 1 : Small(M)[i] = Append(Small(L), Canonical(l))[i]
  <2>1. TAKE i \in 1..Len(L) + 1
  <2>2. CASE i = Len(L) + 1
    BY <1>1, <1>4, <1>6, <2>2
  <2>3. CASE i \in 1..Len(L)
    <3>1. Small(M)[i] = Canonical(M[i]) /\ M[i] = L[i]
      BY <1>1, <1>4, <2>3
    <3>2. Append(Small(L), Canonical(l))[i] = Small(L)[i]
      BY <1>6, <2>3
    <3>3. Small(L)[i] = Canonical(L[i])
      BY <1>2, <2>3
    <3> QED
      BY <3>1, <3>2, <3>3
  <2>4. i = Len(L) + 1 \/ i \in 1..Len(L)
    BY <1>1
  <2> QED
    BY <2>2, <2>3, <2>4
<1>8. Small(M) = Append(Small(L), Canonical(l))
  BY <1>4, <1>6, <1>7, Same
<1> QED
  BY <1>8 DEF M

(* Lower case, label by label.                                             *)
LEMMA SmallPlain ==
    ASSUME NEW L \in Seq(Seq(Plain)), L # <<>>
    PROVE  /\ Small(L) \in Seq(Seq(Plain)) /\ Small(L) # <<>> /\ Len(Small(L)) = Len(L)
           /\ Dotted(L) \in Seq(Lexemes)
           /\ Dotted(Small(L)) = Lowered(Dotted(L))
<1> DEFINE X == Seq(Plain)
           P == {M \in Seq(X) : Small(M) \in Seq(X) /\ (M # <<>> => Small(M) # <<>>)
                                /\ (M # <<>> => Dotted(Small(M)) = Lowered(Dotted(M)))}
<1>0. ASSUME NEW M \in Seq(X), M # <<>> PROVE Dotted(M) \in Seq(Lexemes)
  <2>1. Dotted(M) \in Seq(Plain \union {"."})
    BY <1>0, DottedType
  <2>2. Plain \union {"."} \subseteq Lexemes
    BY PlainIs
  <2> QED
    BY <2>1, <2>2, SeqMonotonic
<1>1. ASSUME NEW M \in P, NEW l \in X PROVE Append(M, l) \in P
  <2>1. /\ M \in Seq(X) /\ Small(M) \in Seq(X) /\ (M # <<>> => Small(M) # <<>>)
        /\ (M # <<>> => Dotted(Small(M)) = Lowered(Dotted(M)))
    OBVIOUS
  <2> HIDE DEF P
  <2>2. Canonical(l) = Lowered(l) /\ Lowered(l) \in X /\ l \in Seq(Lexemes)
    BY PlainLabel
  <2> HIDE DEF X
  <2>3. Small(Append(M, l)) = Append(Small(M), Lowered(l))
    BY <2>1, <2>2, SmallLast
  <2>4. /\ Append(M, l) \in Seq(X) /\ Small(Append(M, l)) \in Seq(X) /\ Small(Append(M, l)) # <<>>
    BY <2>1, <2>2, <2>3, AppendIs
  <2>5. Dotted(Append(M, l)) = IF M = <<>> THEN l ELSE Dotted(M) \o <<".">> \o l
    BY <2>1, DottedLast
  <2>6. Dotted(Small(Append(M, l))) = IF Small(M) = <<>> THEN Lowered(l) ELSE Dotted(Small(M)) \o <<".">> \o Lowered(l)
    BY <2>1, <2>2, <2>3, DottedLast
  <2>7. CASE M = <<>>
    <3>1. Small(M) = <<>>
      BY <2>7 DEF Small
    <3>2. Dotted(Small(Append(M, l))) = Lowered(Dotted(Append(M, l)))
      BY <2>5, <2>6, <2>7, <3>1
    <3> QED
      BY <2>4, <3>2 DEF P
  <2>8. CASE M # <<>>
    <3>1. Dotted(M) \in Seq(Lexemes) /\ <<".">> \in Seq(Lexemes)
      BY <1>0, <2>1, <2>8, PlainIs
    <3>2. Lowered(<<".">>) = <<".">>
      BY PlainIs DEF Lowered
    <3>3. Dotted(M) \o <<".">> \in Seq(Lexemes)
      BY <3>1
    <3>4. Lowered(Dotted(M) \o <<".">>) = Lowered(Dotted(M)) \o <<".">>
      BY <3>1, <3>2, LoweredJoin
    <3>5. Lowered((Dotted(M) \o <<".">>) \o l) = Lowered(Dotted(M) \o <<".">>) \o Lowered(l)
      BY <2>2, <3>3, LoweredJoin
    <3>6. Dotted(Small(Append(M, l))) = Lowered(Dotted(Append(M, l)))
      BY <2>1, <2>5, <2>6, <2>8, <3>4, <3>5
    <3> QED
      BY <2>4, <3>6 DEF P
  <2> QED
    BY <2>7, <2>8
<1>2. P = Seq(X)
  <2>1. <<>> \in P
    BY DEF Small
  <2>2. P \in SUBSET Seq(X)
    OBVIOUS
  <2> HIDE DEF P, X
  <2> QED
    BY <1>1, <2>1, <2>2, SequenceInduction
<1>3. Len(Small(L)) = Len(L)
  BY DEF Small
<1> QED
  BY <1>0, <1>2, <1>3

(* Any text of plain lexemes and dots is some labels' text.                *)
LEMMA LabelsOf ==
    ASSUME NEW S, NEW h \in Seq(S \union {"."})
    PROVE  \E L \in Seq(Seq(S)) : L # <<>> /\ Dotted(L) = h
<1> DEFINE X == Seq(S)
           P == {t \in Seq(S \union {"."}) : \E L \in Seq(X) : L # <<>> /\ Dotted(L) = t}
<1>1. <<>> \in P
  <2>1. Dotted(<<<<>>>>) = <<>>
    BY DottedOne
  <2>2. <<<<>>>> \in Seq(X) /\ <<<<>>>> # <<>>
    OBVIOUS
  <2>3. <<>> \in Seq(S \union {"."})
    OBVIOUS
  <2>4. \E L \in Seq(X) : L # <<>> /\ Dotted(L) = <<>>
    <3> HIDE DEF X
    <3> QED
      BY <2>1, <2>2
  <2> HIDE DEF X
  <2> QED
    BY <2>3, <2>4
<1>2. ASSUME NEW t \in P, NEW x \in S \union {"."} PROVE Append(t, x) \in P
  <2>1. t \in Seq(S \union {"."}) /\ Append(t, x) \in Seq(S \union {"."})
    OBVIOUS
  <2>2. PICK L \in Seq(X) : L # <<>> /\ Dotted(L) = t
    OBVIOUS
  <2>3. SUFFICES \E M \in Seq(X) : M # <<>> /\ Dotted(M) = Append(t, x)
    BY <2>1
  <2> HIDE DEF P
  <2>4. CASE x = "."
    <3>1. <<>> \in X
      OBVIOUS
    <3>2. Append(L, <<>>) \in Seq(X) /\ Append(L, <<>>) # <<>>
      BY <3>1, AppendIs
    <3>3. Dotted(Append(L, <<>>)) = t \o <<".">> \o <<>>
      BY <2>2, <3>1, DottedLast
    <3>4. t \o <<".">> \o <<>> = Append(t, x)
      BY <2>1, <2>4
    <3> QED
      BY <3>2, <3>3, <3>4
  <2>5. CASE x \in S
    <3>1. PICK K \in Seq(X), k \in X : L = Append(K, k)
      <4> HIDE DEF X
      <4> QED
        BY <2>2, LastElement
    <3>2. Append(k, x) \in X
      BY <2>5
    <3>3. Append(K, Append(k, x)) \in Seq(X) /\ Append(K, Append(k, x)) # <<>>
      BY <3>2, AppendIs
    <3>4. Dotted(Append(K, Append(k, x))) = IF K = <<>> THEN Append(k, x) ELSE Dotted(K) \o <<".">> \o Append(k, x)
      BY <3>2, DottedLast
    <3>5. t = IF K = <<>> THEN k ELSE Dotted(K) \o <<".">> \o k
      BY <2>2, <3>1, DottedLast
    <3>6. Dotted(Append(K, Append(k, x))) = Append(t, x)
      <4>1. CASE K = <<>>
        BY <3>4, <3>5, <4>1
      <4>2. CASE K # <<>>
        <5>1. PICK y : y = Dotted(K)
          OBVIOUS
        <5>2. y \in Seq(S \union {"."})
          BY <4>2, <5>1, DottedType
        <5>3. k \in Seq(S \union {"."}) /\ <<".">> \in Seq(S \union {"."})
          OBVIOUS
        <5>4. y \o <<".">> \o Append(k, x) = Append(y \o <<".">> \o k, x)
          BY <5>2, <5>3
        <5> QED
          BY <3>4, <3>5, <4>2, <5>1, <5>4
      <4> QED
        BY <4>1, <4>2
    <3> QED
      BY <3>3, <3>6
  <2> QED
    BY <2>4, <2>5
<1>3. P = Seq(S \union {"."})
  <2>1. P \in SUBSET Seq(S \union {"."})
    OBVIOUS
  <2> HIDE DEF P
  <2> QED
    BY <1>1, <1>2, <2>1, SequenceInduction
<1> QED
  BY <1>3

-----------------------------------------------------------------------------
(* A text divided: the scheme, the host and the port.                      *)

Terminators == {"/", "?", "#", "@", "\\", "://"}
HostTexts == Seq(Plain \union {"."}) \union {l \in Seq(Lexemes) : IsAddress(l)}
Tails == {<<>>} \union {<<":", q>> : q \in (Lexemes \ Marks) \union {"*"}}

LEMMA AddressIs ==
    ASSUME NEW l, IsAddress(l)
    PROVE  /\ l \in Seq(Lexemes) /\ Len(l) \in Nat /\ Len(l) >= 2 /\ l[1] = "[" /\ l[Len(l)] = "]"
           /\ \A i \in 2..Len(l) - 1 : l[i] # "]"
           /\ \A i \in 1..Len(l) : l[i] \notin Terminators
<1> DEFINE inner == SubSeq(l, 2, Len(l) - 1)
<1>1. /\ l \in Seq(Lexemes) /\ Len(l) \in Nat /\ Len(l) >= 2 /\ l[1] = "[" /\ l[Len(l)] = "]"
      /\ Lowered(inner) \in DOMAIN IPv6
  BY DEF IsAddress
<1>2. /\ inner \in Seq(Lexemes) /\ Len(inner) = Len(l) - 2
      /\ \A i \in 1..Len(l) - 2 : inner[i] = l[i + 1]
  <2>1. 2 \in 1..Len(l) + 1 /\ Len(l) - 1 \in 2 - 1..Len(l)
    BY <1>1
  <2>2. /\ inner \in Seq(Lexemes) /\ Len(inner) = (Len(l) - 1) - 2 + 1
        /\ \A i \in 1..(Len(l) - 1) - 2 + 1 : inner[i] = l[2 + i - 1]
    <3> DEFINE b == Len(l) - 1
    <3>1. b \in 2 - 1..Len(l)
      BY <2>1
    <3> HIDE DEF b
    <3>2. /\ SubSeq(l, 2, b) \in Seq(Lexemes) /\ Len(SubSeq(l, 2, b)) = b - 2 + 1
          /\ \A i \in 1..b - 2 + 1 : SubSeq(l, 2, b)[i] = l[2 + i - 1]
      BY <1>1, <2>1, <3>1, Part
    <3> QED
      BY <3>2 DEF b
  <2>3. (Len(l) - 1) - 2 + 1 = Len(l) - 2 /\ \A i \in Nat : 2 + i - 1 = i + 1
    BY <1>1
  <2> HIDE DEF inner
  <2> QED
    BY <1>1, <2>2, <2>3
<1>3. \A i \in 1..Len(inner) : Lowered(inner)[i] \notin Terminators \union {"]"}
  <2> HIDE DEF inner
  <2>1. DOMAIN Lowered(inner) = 1..Len(inner)
    BY <1>2 DEF Lowered
  <2> QED
    BY <1>1, <2>1, OriginConstants DEF Terminators
<1> HIDE DEF inner
<1>4. ASSUME NEW i \in 2..Len(l) - 1 PROVE l[i] \notin Terminators \union {"]"}
  <2>1. i - 1 \in 1..Len(inner) /\ i - 1 \in 1..Len(l) - 2 /\ i - 1 + 1 = i /\ i \in 1..Len(l)
    BY <1>1, <1>2
  <2>2. inner[i - 1] = l[i]
    BY <1>2, <2>1
  <2>3. Lowered(inner)[i - 1] = Lower[inner[i - 1]]
    BY <1>2, <2>1, LoweredIs
  <2>4. Lower[l[i]] \notin Terminators \union {"]"}
    BY <1>3, <2>1, <2>2, <2>3
  <2>5. l[i] \in Lexemes
    BY <1>1, <2>1
  <2>6. Terminators \union {"]"} \subseteq Marks
    BY DEF Terminators, Marks
  <2> QED
    BY <2>4, <2>5, <2>6, OriginConstants
<1>5. ASSUME NEW i \in 1..Len(l) PROVE l[i] \notin Terminators
  <2>1. i = 1 \/ i = Len(l) \/ i \in 2..Len(l) - 1
    BY <1>1
  <2>2. "[" \notin Terminators /\ "]" \notin Terminators
    BY DEF Terminators
  <2> QED
    BY <1>1, <1>4, <2>1, <2>2
<1> QED
  BY <1>1, <1>4, <1>5

LEMMA HostIs ==
    ASSUME NEW h \in HostTexts
    PROVE  /\ h \in Seq(Lexemes) /\ Len(h) \in Nat /\ DOMAIN h = 1..Len(h)
           /\ \A i \in 1..Len(h) : h[i] \notin Terminators
           /\ ~ IsAddress(h) => \A i \in 1..Len(h) : h[i] \in Plain \union {"."}
           /\ h # <<>> => h[1] # "*" /\ (h[1] = "[" <=> IsAddress(h))
<1>1. CASE IsAddress(h)
  <2>1. "[" # "*"
    OBVIOUS
  <2> QED
    BY <1>1, <2>1, AddressIs
<1>2. CASE ~ IsAddress(h)
  <2>1. h \in Seq(Plain \union {"."})
    BY <1>2 DEF HostTexts
  <2>2. Len(h) \in Nat /\ DOMAIN h = 1..Len(h) /\ \A i \in 1..Len(h) : h[i] \in Plain \union {"."}
    BY <2>1
  <2>3. Plain \union {"."} \subseteq Lexemes
    BY PlainIs
  <2>4. h \in Seq(Lexemes)
    BY <2>1, <2>3, SeqMonotonic
  <2>5. \A x \in Plain \union {"."} : x \notin Terminators \union {"*", "["}
    BY DEF Plain, Marks, Terminators
  <2>6. h # <<>> => 1 \in 1..Len(h)
    BY <2>1
  <2> QED
    BY <1>2, <2>2, <2>4, <2>5, <2>6
<1> QED
  BY <1>1, <1>2

LEMMA TailIs ==
    ASSUME NEW pp \in Tails
    PROVE  /\ pp \in Seq(Lexemes) /\ pp # <<":">>
           /\ pp # <<>> => Len(pp) = 2 /\ pp[1] = ":" /\ pp[2] # ":" /\ pp[2] # "]"
           /\ \A i \in 1..Len(pp) : pp[i] \notin Terminators
<1>1. ":" \in Lexemes /\ "*" \in Lexemes
  BY OriginConstants DEF Marks
<1>2. CASE pp = <<>>
  BY <1>2
<1>3. ASSUME NEW q \in (Lexemes \ Marks) \union {"*"}, pp = <<":", q>>
      PROVE  /\ pp \in Seq(Lexemes) /\ Len(pp) = 2 /\ pp[1] = ":" /\ pp[2] # ":" /\ pp[2] # "]"
             /\ \A i \in 1..Len(pp) : pp[i] \notin Terminators
  <2>1. pp \in Seq(Lexemes) /\ Len(pp) = 2 /\ pp[1] = ":" /\ pp[2] = q
    BY <1>1, <1>3
  <2>2. q # ":" /\ q # "]" /\ q \notin Terminators /\ ":" \notin Terminators
    BY DEF Marks, Terminators
  <2>3. ASSUME NEW i \in 1..2 PROVE pp[i] \notin Terminators
    <3>1. i = 1 \/ i = 2
      OBVIOUS
    <3> QED
      BY <2>1, <2>2, <3>1
  <2> QED
    BY <2>1, <2>2, <2>3
<1>4. <<>> \in Seq(Lexemes) /\ <<>> # <<":">> /\ Len(<<":">>) = 1
  OBVIOUS
<1>5. pp = <<>> \/ \E q \in (Lexemes \ Marks) \union {"*"} : pp = <<":", q>>
  BY DEF Tails
<1>6. CASE \E q \in (Lexemes \ Marks) \union {"*"} : pp = <<":", q>>
  BY <1>3, <1>4, <1>6
<1> QED
  BY <1>2, <1>4, <1>5, <1>6

LEMMA SplitRestIs ==
    ASSUME NEW scheme, NEW wild, NEW h \in HostTexts, NEW pp \in Tails
    PROVE  SplitRest(scheme, wild, h \o pp) =
              [scheme |-> scheme, host |-> wild \o Lowered(h), port |-> From(pp, 2)]
<1> DEFINE rest == h \o pp
<1>1. /\ h \in Seq(Lexemes) /\ Len(h) \in Nat
      /\ pp \in Seq(Lexemes) /\ pp # <<":">> /\ Len(pp) \in Nat
      /\ pp # <<>> => Len(pp) = 2 /\ pp[1] = ":" /\ pp[2] # ":" /\ pp[2] # "]"
  BY HostIs, TailIs
<1>2. /\ rest \in Seq(Lexemes) /\ Len(rest) = Len(h) + Len(pp) /\ DOMAIN rest = 1..Len(h) + Len(pp)
      /\ \A i \in 1..Len(h) : rest[i] = h[i]
      /\ \A i \in 1..Len(pp) : rest[Len(h) + i] = pp[i]
  BY <1>1, Joined
<1>3. Upto(rest, Len(h)) = h /\ From(rest, Len(h) + 1) = pp
  BY <1>1, Halves
<1> HIDE DEF rest
<1>4. WithPort(scheme, wild, Upto(rest, Len(h)), From(rest, Len(h) + 1)) =
         [scheme |-> scheme, host |-> wild \o Lowered(h), port |-> From(pp, 2)]
  BY <1>1, <1>3 DEF WithPort
<1>5. ASSUME NEW i \in DOMAIN rest
      PROVE  \/ i \in 1..Len(h) /\ rest[i] = h[i]
             \/ pp # <<>> /\ i = Len(h) + 1 /\ rest[i] = ":"
             \/ pp # <<>> /\ i = Len(h) + 2 /\ rest[i] = pp[2]
  <2>1. CASE i \in 1..Len(h)
    BY <1>2, <2>1
  <2>2. CASE i \notin 1..Len(h)
    <3>1. pp # <<>> /\ Len(pp) = 2
      <4>1. ASSUME pp = <<>> PROVE Len(pp) = 0
        BY <4>1
      <4> QED
        BY <1>1, <1>2, <2>2, <4>1
    <3>2. i = Len(h) + 1 \/ i = Len(h) + 2
      BY <1>1, <1>2, <2>2, <3>1
    <3>3. 1 \in 1..Len(pp) /\ 2 \in 1..Len(pp)
      BY <3>1
    <3> QED
      BY <1>1, <1>2, <3>1, <3>2, <3>3
  <2> QED
    BY <2>1, <2>2
<1>6. pp # <<>> => Len(h) + 1 \in DOMAIN rest /\ rest[Len(h) + 1] = ":" /\ Len(rest) = Len(h) + 2
  <2>1. SUFFICES ASSUME pp # <<>> PROVE Len(h) + 1 \in DOMAIN rest /\ rest[Len(h) + 1] = ":" /\ Len(rest) = Len(h) + 2
    OBVIOUS
  <2>2. Len(pp) = 2 /\ 1 \in 1..Len(pp)
    BY <1>1, <2>1
  <2> QED
    BY <1>1, <1>2, <2>1, <2>2
<1>7. CASE IsAddress(h)
  <2>1. /\ Len(h) >= 2 /\ h[1] = "[" /\ h[Len(h)] = "]"
        /\ \A i \in 2..Len(h) - 1 : h[i] # "]"
    BY <1>7, AddressIs
  <2>2. rest # <<>> /\ rest[1] = "["
    <3>1. 1 \in 1..Len(h)
      BY <1>1, <2>1
    <3> QED
      BY <1>1, <1>2, <2>1, <3>1
  <2>3. At("]", rest) = {Len(h)}
    <3>1. Len(h) \in DOMAIN rest /\ rest[Len(h)] = "]"
      <4>1. Len(h) \in 1..Len(h)
        BY <1>1, <2>1
      <4> QED
        BY <1>1, <1>2, <2>1, <4>1
    <3>2. ASSUME NEW i \in DOMAIN rest, rest[i] = "]" PROVE i = Len(h)
      <4>1. i \in 1..Len(h) /\ h[i] = "]"
        BY <1>1, <1>5, <3>2
      <4>2. i # 1
        BY <2>1, <4>1
      <4> QED
        BY <1>1, <2>1, <4>1, <4>2
    <3> QED
      BY <3>1, <3>2 DEF At
  <2>4. Min({Len(h)}) = Len(h)
    <3>1. {Len(h)} \in SUBSET Nat /\ {Len(h)} # {}
      BY <1>1
    <3> QED
      BY <3>1, LeastOf
  <2>5. ~ (Len(rest) > Len(h) /\ rest[Len(h) + 1] # ":")
    <3>1. CASE pp = <<>>
      BY <1>1, <1>2, <3>1
    <3> QED
      BY <1>6, <3>1
  <2> QED
    BY <1>4, <2>2, <2>3, <2>4, <2>5 DEF SplitRest, rest
<1>8. CASE ~ IsAddress(h)
  <2>1. /\ \A i \in 1..Len(h) : h[i] \in Plain \union {"."}
        /\ h # <<>> => h[1] # "["
    BY <1>8, HostIs
  <2>2. ~ (rest # <<>> /\ rest[1] = "[")
    <3>1. SUFFICES ASSUME rest # <<>>, rest[1] = "[" PROVE FALSE
      OBVIOUS
    <3>2. 1 \in DOMAIN rest
      BY <1>1, <1>2, <3>1
    <3>3. 1 \in 1..Len(h) => h # <<>>
      OBVIOUS
    <3> QED
      BY <1>1, <1>5, <2>1, <3>1, <3>2, <3>3
  <2>3. ":" \notin Plain \union {"."}
    BY PlainIs
  <2>4. CASE pp = <<>>
    <3>1. At(":", rest) = {}
      BY <1>5, <2>1, <2>3, <2>4 DEF At
    <3>2. Len(rest) = Len(h)
      BY <1>1, <1>2, <2>4
    <3> QED
      BY <1>4, <2>2, <3>1, <3>2 DEF SplitRest, rest
  <2>5. CASE pp # <<>>
    <3>1. At(":", rest) = {Len(h) + 1}
      <4>1. ASSUME NEW i \in DOMAIN rest, rest[i] = ":" PROVE i = Len(h) + 1
        BY <1>1, <1>5, <2>1, <2>3, <4>1
      <4> QED
        BY <1>6, <2>5, <4>1 DEF At
    <3>2. Max({Len(h) + 1}) - 1 = Len(h)
      <4>1. {Len(h) + 1} \in SUBSET Nat /\ Len(h) + 1 \in Nat /\ {Len(h) + 1} # {} /\ \A k \in {Len(h) + 1} : k <= Len(h) + 1
        BY <1>1
      <4>2. Max({Len(h) + 1}) \in {Len(h) + 1}
        BY <4>1, GreatestOf
      <4> QED
        BY <1>1, <4>2
    <3>3. At(":", rest) # {} /\ Max(At(":", rest)) - 1 = Len(h)
      BY <3>1, <3>2
    <3> QED
      BY <1>4, <2>2, <3>3 DEF SplitRest, rest
  <2> QED
    BY <2>4, <2>5
<1> QED
  BY <1>7, <1>8

Stars(wild) == IF wild THEN <<"*", ".">> ELSE <<>>
TailOf(port) == IF port = <<>> THEN <<>> ELSE <<":">> \o port

LEMMA StarIs ==
    /\ <<"*", ".">> \in Seq(Lexemes) /\ Len(<<"*", ".">>) = 2
    /\ <<"*", ".">>[1] = "*" /\ <<"*", ".">>[2] = "."
<1>1. "*" \in Lexemes /\ "." \in Lexemes
  BY OriginConstants DEF Marks
<1> QED
  BY <1>1

LEMMA WildIs ==
    ASSUME NEW t \in Seq(Lexemes)
    PROVE  IsWild(t) <=> Len(t) >= 2 /\ t[1] = "*" /\ t[2] = "."
<1> DEFINE st == <<"*", ".">>
<1>1. st \in Seq(Lexemes) /\ Len(st) = 2 /\ st[1] = "*" /\ st[2] = "."
  BY StarIs
<1> HIDE DEF st
<1>2. IsPrefix(st, t) <=> Len(st) <= Len(t) /\ \A i \in 1..Len(st) : st[i] = t[i]
  <2>1. st \in Seq(Lexemes)
    BY <1>1
  <2> QED
    BY ONLY <2>1, t \in Seq(Lexemes), PrefixIs
<1>3. (\A i \in 1..2 : st[i] = t[i]) <=> t[1] = "*" /\ t[2] = "."
  <2>1. \A i \in 1..2 : i = 1 \/ i = 2
    OBVIOUS
  <2>2. 1 \in 1..2 /\ 2 \in 1..2
    OBVIOUS
  <2> QED
    BY <1>1, <2>1, <2>2
<1>4. Len(st) <= Len(t) <=> Len(t) >= 2
  BY <1>1
<1> QED
  BY <1>1, <1>2, <1>3, <1>4 DEF IsWild, st

LEMMA SplitHead ==
    ASSUME NEW s \in Lexemes \ Marks, NEW rest \in Seq(Lexemes),
           \A i \in 1..Len(rest) : rest[i] \notin Terminators
    PROVE  Split(<<s, "://">> \o rest) =
              IF <<Lower[s]>> \notin {<<"http">>, <<"https">>} \/ rest = <<>> THEN Nil
              ELSE IF IsWild(rest) THEN SplitRest(<<Lower[s]>>, <<"*", ".">>, Parent(rest))
              ELSE SplitRest(<<Lower[s]>>, <<>>, rest)
<1> DEFINE head == <<s, "://">>
           raw == head \o rest
<1>1. s # "://" /\ "://" \in Lexemes
  BY OriginConstants DEF Marks
<1>2. head \in Seq(Lexemes) /\ Len(head) = 2 /\ head[1] = s /\ head[2] = "://"
  BY <1>1
<1> HIDE DEF head
<1>3. /\ raw \in Seq(Lexemes) /\ Len(raw) = 2 + Len(rest) /\ DOMAIN raw = 1..2 + Len(rest)
      /\ \A i \in 1..2 : raw[i] = head[i]
      /\ \A i \in 1..Len(rest) : raw[2 + i] = rest[i]
      /\ Upto(raw, 2) = head /\ From(raw, 2 + 1) = rest
      /\ Len(rest) \in Nat /\ DOMAIN rest = 1..Len(rest)
  <2>1. /\ raw \in Seq(Lexemes) /\ Len(raw) = 2 + Len(rest) /\ DOMAIN raw = 1..2 + Len(rest)
        /\ \A i \in 1..2 : raw[i] = head[i]
        /\ \A i \in 1..Len(rest) : raw[2 + i] = rest[i]
    <3> HIDE DEF raw
    <3>1. /\ raw \in Seq(Lexemes) /\ Len(raw) = Len(head) + Len(rest) /\ DOMAIN raw = 1..Len(head) + Len(rest)
          /\ \A i \in 1..Len(head) : raw[i] = head[i]
          /\ \A i \in 1..Len(rest) : raw[Len(head) + i] = rest[i]
      <4>1. head \in Seq(Lexemes) /\ rest \in Seq(Lexemes)
        BY <1>2
      <4> QED
        BY ONLY <4>1, Joined DEF raw
    <3> QED
      BY <1>2, <3>1
  <2>2. Upto(raw, Len(head)) = head /\ From(raw, Len(head) + 1) = rest
    BY <1>2, Halves
  <2>3. Len(rest) \in Nat /\ DOMAIN rest = 1..Len(rest)
    OBVIOUS
  <2> HIDE DEF raw
  <2> QED
    BY <1>2, <2>1, <2>2, <2>3
<1> HIDE DEF raw
<1>4. At("://", raw) = {2}
  <2>1. ASSUME NEW i \in DOMAIN raw, raw[i] = "://" PROVE i = 2
    <3>1. CASE i \in 1..2
      BY <1>1, <1>2, <1>3, <2>1, <3>1
    <3>2. CASE i \notin 1..2
      <4>1. i - 2 \in 1..Len(rest) /\ 2 + (i - 2) = i
        BY <1>3, <3>2
      <4>2. rest[i - 2] = "://"
        BY <1>3, <2>1, <4>1
      <4> QED
        BY <4>1, <4>2 DEF Terminators
    <3> QED
      BY <3>1, <3>2
  <2>2. 2 \in DOMAIN raw /\ raw[2] = "://"
    BY <1>2, <1>3
  <2> QED
    BY <2>1, <2>2 DEF At
<1>5. Min(At("://", raw)) = 2
  <2>1. {2} \in SUBSET Nat /\ {2} # {}
    OBVIOUS
  <2> QED
    BY <1>4, <2>1, LeastOf
<1>6. Lowered(Upto(raw, 2 - 1)) = <<Lower[s]>>
  <2>1. Upto(raw, 1) = <<s>>
    <3>1. 1 \in 0..Len(raw)
      BY <1>3
    <3>2. Upto(raw, 1) \in Seq(Lexemes) /\ Len(Upto(raw, 1)) = 1 /\ Upto(raw, 1)[1] = raw[1]
      <4>1. /\ Upto(raw, 1) \in Seq(Lexemes) /\ Len(Upto(raw, 1)) = 1
            /\ \A i \in 1..1 : Upto(raw, 1)[i] = raw[i]
        <5>1. raw \in Seq(Lexemes)
          BY <1>3
        <5> QED
          BY ONLY <3>1, <5>1, Apart
      <4> QED
        BY <4>1
    <3>3. raw[1] = s
      BY <1>2, <1>3
    <3> QED
      BY <3>2, <3>3
  <2>2. Lowered(<<s>>) = <<Lower[s]>>
    BY DEF Lowered
  <2> QED
    BY <2>1, <2>2
<1>7. From(raw, 2 + 1) = rest
  BY <1>3
<1>8. ~ \E j \in DOMAIN rest : rest[j] \in {"/", "?", "#", "@", "\\", "://"}
  BY <1>3 DEF Terminators
<1>9. Split(raw) = IF <<Lower[s]>> \notin {<<"http">>, <<"https">>} \/ rest = <<>> THEN Nil
              ELSE IF IsWild(rest) THEN SplitRest(<<Lower[s]>>, <<"*", ".">>, Parent(rest))
              ELSE SplitRest(<<Lower[s]>>, <<>>, rest)
  <2>1. At("://", raw) # {}
    BY <1>4
  <2> QED
    BY <1>5, <1>6, <1>7, <1>8, <2>1 DEF Split
<1> QED
  BY <1>9 DEF raw, head

LEMMA BodyIs ==
    ASSUME NEW h \in HostTexts, NEW pp \in Tails
    PROVE  /\ h \o pp \in Seq(Lexemes) /\ ~ IsWild(h \o pp)
           /\ \A i \in 1..Len(h \o pp) : (h \o pp)[i] \notin Terminators
           /\ h # <<>> => h \o pp # <<>>
<1> DEFINE body == h \o pp
<1>1. /\ h \in Seq(Lexemes) /\ Len(h) \in Nat /\ \A i \in 1..Len(h) : h[i] \notin Terminators
      /\ h # <<>> => h[1] # "*"
  BY HostIs
<1>2. /\ pp \in Seq(Lexemes) /\ Len(pp) \in Nat /\ \A i \in 1..Len(pp) : pp[i] \notin Terminators
      /\ pp # <<>> => pp[1] = ":"
  BY TailIs
<1>3. /\ body \in Seq(Lexemes) /\ Len(body) = Len(h) + Len(pp)
      /\ \A i \in 1..Len(h) : body[i] = h[i]
      /\ \A i \in 1..Len(pp) : body[Len(h) + i] = pp[i]
  BY <1>1, <1>2, Joined
<1>4. h = <<>> => body = pp
  BY <1>2
<1> HIDE DEF body
<1>5. ASSUME NEW i \in 1..Len(body) PROVE body[i] \notin Terminators
  <2>1. CASE i \in 1..Len(h)
    BY <1>1, <1>3, <2>1
  <2>2. CASE i \notin 1..Len(h)
    <3>1. i - Len(h) \in 1..Len(pp) /\ Len(h) + (i - Len(h)) = i
      BY <1>1, <1>2, <1>3, <2>2
    <3>2. body[i] = pp[i - Len(h)]
      BY <1>3, <3>1
    <3> QED
      BY <1>2, <3>1, <3>2
  <2> QED
    BY <2>1, <2>2
<1>6. ~ IsWild(body)
  <2>1. SUFFICES ASSUME IsWild(body) PROVE FALSE
    OBVIOUS
  <2>3. Len(body) >= 2 /\ body[1] = "*"
    BY <1>3, <2>1, WildIs
  <2>4. CASE h = <<>>
    <3>1. pp # <<>>
      <4>1. pp = <<>> => Len(pp) = 0
        OBVIOUS
      <4> QED
        BY <1>4, <2>3, <2>4, <4>1
    <3> QED
      BY <1>2, <1>4, <2>3, <2>4, <3>1
  <2>5. CASE h # <<>>
    <3>1. 1 \in 1..Len(h)
      BY <1>1, <2>5
    <3> QED
      BY <1>1, <1>3, <2>3, <2>5, <3>1
  <2> QED
    BY <2>4, <2>5
<1>7. h # <<>> => body # <<>>
  <2>1. h # <<>> => Len(h) > 0
    BY <1>1
  <2>2. body = <<>> => Len(body) = 0
    OBVIOUS
  <2> QED
    BY <1>1, <1>2, <1>3, <2>1, <2>2
<1> QED
  BY <1>3, <1>5, <1>6, <1>7 DEF body

LEMMA SplitIs ==
    ASSUME NEW s \in Lexemes \ Marks, NEW wild \in BOOLEAN, NEW h \in HostTexts, NEW pp \in Tails
    PROVE  LET parts == Split(<<s, "://">> \o (Stars(wild) \o (h \o pp)))
               found == [scheme |-> <<Lower[s]>>, host |-> Stars(wild) \o Lowered(h), port |-> From(pp, 2)]
           IN  /\ parts \in {Nil, found}
               /\ Lower[s] \in {"http", "https"} /\ h # <<>> => parts = found
               /\ parts # Nil => Lower[s] \in {"http", "https"}
<1> DEFINE body == h \o pp
           rest == Stars(wild) \o body
           found == [scheme |-> <<Lower[s]>>, host |-> Stars(wild) \o Lowered(h), port |-> From(pp, 2)]
<1>1. /\ body \in Seq(Lexemes) /\ ~ IsWild(body)
      /\ \A i \in 1..Len(body) : body[i] \notin Terminators
      /\ h # <<>> => body # <<>>
  BY BodyIs
<1>2. /\ SplitRest(<<Lower[s]>>, <<>>, body) =
              [scheme |-> <<Lower[s]>>, host |-> <<>> \o Lowered(h), port |-> From(pp, 2)]
      /\ SplitRest(<<Lower[s]>>, <<"*", ".">>, body) =
              [scheme |-> <<Lower[s]>>, host |-> <<"*", ".">> \o Lowered(h), port |-> From(pp, 2)]
  BY SplitRestIs
<1> HIDE DEF body
<1>3. CASE wild
  <2> DEFINE st == <<"*", ".">>
  <2>1. st \in Seq(Lexemes) /\ Len(st) = 2 /\ st[1] = "*" /\ st[2] = "."
    BY StarIs
  <2>2. rest = st \o body
    BY <1>3 DEF Stars
  <2> HIDE DEF st
  <2>3. /\ rest \in Seq(Lexemes) /\ Len(rest) = 2 + Len(body) /\ Len(body) \in Nat
        /\ \A i \in 1..2 : rest[i] = st[i]
        /\ \A i \in 1..Len(body) : rest[2 + i] = body[i]
        /\ From(rest, 2 + 1) = body
    BY <1>1, <2>1, <2>2, Joined, Halves
  <2> HIDE DEF rest
  <2>4. IsWild(rest) /\ Parent(rest) = body
    <3>1. rest[1] = "*" /\ rest[2] = "."
      BY <2>1, <2>3
    <3>2. Len(rest) >= 2
      BY <2>3
    <3> QED
      BY <2>3, <3>1, <3>2, WildIs DEF Parent
  <2>5. ASSUME NEW i \in 1..Len(rest) PROVE rest[i] \notin Terminators
    <3>1. CASE i \in 1..2
      <4>1. "*" \notin Terminators /\ "." \notin Terminators
        BY DEF Terminators
      <4>2. i = 1 \/ i = 2
        BY <3>1
      <4> QED
        BY <2>1, <2>3, <4>1, <4>2
    <3>2. CASE i \notin 1..2
      <4>1. i - 2 \in 1..Len(body) /\ 2 + (i - 2) = i
        BY <2>3, <3>2
      <4>2. rest[i] = body[i - 2]
        BY <2>3, <4>1
      <4> QED
        BY <1>1, <4>1, <4>2
    <3> QED
      BY <3>1, <3>2
  <2>6. Len(rest) > 0 /\ rest # <<>>
    <3>1. Len(rest) > 0
      BY <2>3
    <3> QED
      BY <3>1
  <2>7. Split(<<s, "://">> \o rest) =
           IF Lower[s] \notin {"http", "https"} THEN Nil ELSE SplitRest(<<Lower[s]>>, <<"*", ".">>, body)
    <3>1. <<Lower[s]>> \in {<<"http">>, <<"https">>} <=> Lower[s] \in {"http", "https"}
      OBVIOUS
    <3> QED
      BY <2>3, <2>4, <2>5, <2>6, <3>1, SplitHead
  <2>8. SplitRest(<<Lower[s]>>, <<"*", ".">>, body) = found
    BY <1>2, <1>3 DEF Stars
  <2> QED
    BY <2>7, <2>8 DEF rest, body
<1>4. CASE ~ wild
  <2>1. rest = body
    BY <1>1, <1>4 DEF Stars
  <2>2. Split(<<s, "://">> \o body) =
           IF Lower[s] \notin {"http", "https"} \/ body = <<>> THEN Nil
           ELSE SplitRest(<<Lower[s]>>, <<>>, body)
    <3>1. <<Lower[s]>> \in {<<"http">>, <<"https">>} <=> Lower[s] \in {"http", "https"}
      OBVIOUS
    <3> QED
      BY <1>1, <3>1, SplitHead
  <2>3. SplitRest(<<Lower[s]>>, <<>>, body) = found
    BY <1>2, <1>4 DEF Stars
  <2>4. Split(<<s, "://">> \o rest) =
           IF Lower[s] \notin {"http", "https"} \/ body = <<>> THEN Nil ELSE found
    <3> HIDE DEF rest, found
    <3> QED
      BY <2>1, <2>2, <2>3
  <2> HIDE DEF found
  <2>5. /\ Split(<<s, "://">> \o rest) \in {Nil, found}
        /\ Lower[s] \in {"http", "https"} /\ h # <<>> => Split(<<s, "://">> \o rest) = found
        /\ Split(<<s, "://">> \o rest) # Nil => Lower[s] \in {"http", "https"}
    <3> HIDE DEF rest
    <3> QED
      BY <1>1, <2>4
  <2> QED
    BY <2>5 DEF rest, body, found
<1> QED
  BY <1>3, <1>4

-----------------------------------------------------------------------------
(* What pages' origins and entries say.                                    *)

LEMMA HostOf ==
    ASSUME NEW L, IsHost(L)
    PROVE  /\ Dotted(L) \in HostTexts
           /\ \/ L \in Seq(Seq(Plain)) /\ L # <<>> /\ ~ IsAddress(Dotted(L))
                    /\ Dotted(L) \in Seq(Plain \union {"."})
              \/ IsAddress(Dotted(L)) /\ L = <<Dotted(L)>>
<1>1. CASE L \in Seq(Seq(Plain)) /\ L # <<>>
  <2>1. Dotted(L) \in Seq(Plain \union {"."})
    BY <1>1, DottedType
  <2>2. ~ IsAddress(Dotted(L))
    <3>1. SUFFICES ASSUME IsAddress(Dotted(L)) PROVE FALSE
      OBVIOUS
    <3>2. Len(Dotted(L)) >= 2 /\ Dotted(L)[1] = "["
      BY <3>1, AddressIs
    <3>3. Dotted(L)[1] \in Plain \union {"."}
      BY <2>1, <3>2
    <3> QED
      BY <3>2, <3>3, PlainIs
  <2> QED
    BY <1>1, <2>1, <2>2 DEF HostTexts
<1>2. CASE ~ (L \in Seq(Seq(Plain)) /\ L # <<>>)
  <2>1. L = <<L[1]>> /\ IsAddress(L[1])
    BY <1>2 DEF IsHost
  <2>2. Dotted(L) = L[1]
    BY <2>1, DottedOne
  <2>3. L[1] \in Seq(Lexemes)
    BY <2>1, AddressIs
  <2> QED
    BY <2>1, <2>2, <2>3 DEF HostTexts
<1> QED
  BY <1>1, <1>2

LEMMA Pairs ==
    ASSUME NEW a, NEW b
    PROVE  <<a>> \o <<b>> = <<a, b>> /\ From(<<a, b>>, 2) = <<b>>
<1> DEFINE S == {a, b}
           x == <<a>>
           y == <<b>>
           z == <<a, b>>
<1>1. /\ x \in Seq(S) /\ y \in Seq(S) /\ z \in Seq(S) /\ Len(x) = 1 /\ Len(y) = 1 /\ Len(z) = 2
      /\ x[1] = a /\ y[1] = b /\ z[1] = a /\ z[2] = b
  OBVIOUS
<1> HIDE DEF S, x, y, z
<1>2. x \o y = z
  <2>1. x \o y \in Seq(S) /\ Len(x \o y) = 2 /\ (x \o y)[1] = a /\ (x \o y)[2] = b
    <3>1. x \in Seq(S) /\ y \in Seq(S)
      BY <1>1
    <3>2. /\ x \o y \in Seq(S) /\ Len(x \o y) = Len(x) + Len(y)
          /\ \A i \in 1..Len(x) : (x \o y)[i] = x[i]
          /\ \A i \in 1..Len(y) : (x \o y)[Len(x) + i] = y[i]
      BY ONLY <3>1, Joined
    <3>3. 1 \in 1..Len(x) /\ 1 \in 1..Len(y) /\ Len(x) + 1 = 2 /\ Len(x) + Len(y) = 2
      BY <1>1
    <3> QED
      BY <1>1, <3>2, <3>3
  <2>2. \A i \in 1..2 : i = 1 \/ i = 2
    OBVIOUS
  <2>3. \A i \in 1..2 : (x \o y)[i] = z[i]
    BY <1>1, <2>1, <2>2
  <2>4. x \o y \in Seq(S) /\ z \in Seq(S) /\ Len(x \o y) = Len(z) /\ \A i \in 1..Len(x \o y) : (x \o y)[i] = z[i]
    BY <1>1, <2>1, <2>3
  <2> QED
    BY ONLY <2>4, Same
<1>3. From(z, 2) = y
  <2>1. From(x \o y, Len(x) + 1) = y
    BY <1>1, Halves
  <2>2. Len(x) + 1 = 2
    BY <1>1
  <2> QED
    BY <1>2, <2>1, <2>2
<1> QED
  BY <1>2, <1>3 DEF x, y, z

LEMMA Fours ==
    ASSUME NEW a, NEW b, NEW c, NEW d
    PROVE  <<a, b>> \o <<c, d>> = <<a, b, c, d>>
<1> DEFINE S == {a, b, c, d}
           x == <<a, b>>
           y == <<c, d>>
           z == <<a, b, c, d>>
<1>1. /\ x \in Seq(S) /\ y \in Seq(S) /\ z \in Seq(S) /\ Len(x) = 2 /\ Len(y) = 2 /\ Len(z) = 4
      /\ x[1] = a /\ x[2] = b /\ y[1] = c /\ y[2] = d /\ z[1] = a /\ z[2] = b /\ z[3] = c /\ z[4] = d
  OBVIOUS
<1> HIDE DEF S, x, y, z
<1>2. x \in Seq(S) /\ y \in Seq(S)
  BY <1>1
<1>3. /\ x \o y \in Seq(S) /\ Len(x \o y) = Len(x) + Len(y)
      /\ \A i \in 1..Len(x) : (x \o y)[i] = x[i]
      /\ \A i \in 1..Len(y) : (x \o y)[Len(x) + i] = y[i]
  BY ONLY <1>2, Joined
<1>8. /\ 1 \in 1..Len(x) /\ 2 \in 1..Len(x) /\ 1 \in 1..Len(y) /\ 2 \in 1..Len(y)
      /\ Len(x) + 1 = 3 /\ Len(x) + 2 = 4 /\ Len(x) + Len(y) = 4
  BY <1>1
<1>9. (x \o y)[1] = a /\ (x \o y)[2] = b /\ (x \o y)[3] = c /\ (x \o y)[4] = d
  BY <1>1, <1>3, <1>8
<1>4. \A i \in 1..4 : i = 1 \/ i = 2 \/ i = 3 \/ i = 4
  OBVIOUS
<1>5. \A i \in 1..4 : (x \o y)[i] = z[i]
  BY <1>1, <1>9, <1>4
<1>6. x \o y \in Seq(S) /\ z \in Seq(S) /\ Len(x \o y) = Len(z) /\ \A i \in 1..Len(x \o y) : (x \o y)[i] = z[i]
  BY <1>1, <1>3, <1>5, <1>8
<1>7. x \o y = z
  BY ONLY <1>6, Same
<1> QED
  BY <1>7 DEF x, y, z

LEMMA TailOfIs ==
    ASSUME NEW port, port = <<>> \/ \E q \in (Lexemes \ Marks) \union {"*"} : port = <<q>>
    PROVE  TailOf(port) \in Tails /\ From(TailOf(port), 2) = port /\ port \in Seq(Lexemes)
<1>1. CASE port = <<>>
  <2>1. TailOf(port) = <<>>
    BY <1>1 DEF TailOf
  <2>2. From(<<>>, 2) = <<>>
    BY DEF From
  <2> QED
    BY <1>1, <2>1, <2>2 DEF Tails
<1>2. ASSUME NEW q \in (Lexemes \ Marks) \union {"*"}, port = <<q>>
      PROVE  TailOf(port) \in Tails /\ From(TailOf(port), 2) = port /\ port \in Seq(Lexemes)
  <2>1. TailOf(port) = <<":", q>>
    <3>1. port # <<>>
      BY <1>2
    <3> QED
      BY <1>2, <3>1, Pairs DEF TailOf
  <2>2. From(<<":", q>>, 2) = <<q>>
    BY Pairs
  <2>3. q \in Lexemes
    BY OriginConstants DEF Marks
  <2> QED
    BY <1>2, <2>1, <2>2, <2>3 DEF Tails
<1> QED
  BY <1>1, <1>2

LEMMA PageIs ==
    ASSUME NEW p \in Pages
    PROVE  LET h == Dotted(p.labels) IN
           /\ IsHost(p.labels) /\ Lowered(h) = h /\ ValidateHost(h) = h /\ h # <<>> /\ h # Nil
           /\ p.port = <<>> \/ ValidatePort(p.port)
           /\ Text(p) \in Seq(Lexemes) /\ Text(p) # <<>> /\ Text(p) = Serialise(<<p.scheme>>, h, p.port)
           /\ Split(Text(p)) = [scheme |-> <<p.scheme>>, host |-> h, port |-> p.port]
           /\ Split(Text(p)) # Nil
<1> DEFINE h == Dotted(p.labels)
           head == <<p.scheme, "://">>
           pp == TailOf(p.port)
<1>1. /\ p.scheme \in {"http", "https"} \intersect Lexemes /\ Lower[p.scheme] = p.scheme
      /\ IsHost(p.labels) /\ Lowered(h) = h /\ ValidateHost(h) = h
      /\ p.port = <<>> \/ \E port \in Ports : p.port = <<port>>
  BY PageConstants
<1>2. h \in HostTexts /\ h \in Seq(Lexemes)
  BY <1>1, HostOf, HostIs
<1>3. /\ pp \in Tails /\ From(pp, 2) = p.port /\ p.port \in Seq(Lexemes)
      /\ pp \in Seq(Lexemes)
  <2>1. p.port = <<>> \/ \E q \in (Lexemes \ Marks) \union {"*"} : p.port = <<q>>
    BY <1>1, OriginConstants
  <2> QED
    BY <2>1, TailOfIs, TailIs
<1>4. p.scheme \in Lexemes \ Marks /\ head \in Seq(Lexemes)
  <2>1. p.scheme \in Lexemes \ Marks /\ "://" \in Lexemes
    BY <1>1, OriginConstants DEF Marks
  <2> QED
    BY <2>1
<1>5. h # Nil
  BY <1>2, NilIsNoText
<1>6. h # <<>>
  <2>1. ValidateHost(<<>>) = Nil
    BY DEF ValidateHost
  <2> QED
    BY <1>1, <1>5, <2>1
<1>7. p.port = <<>> \/ ValidatePort(p.port)
  <2>1. ASSUME NEW port \in Ports PROVE ValidatePort(<<port>>)
    BY DEF ValidatePort
  <2> QED
    BY <1>1, <2>1
<1>8. Text(p) = Serialise(<<p.scheme>>, h, p.port)
  BY DEF Text
<1>9. Text(p) = head \o (<<>> \o (h \o pp)) /\ Text(p) \in Seq(Lexemes)
  <2>1. <<p.scheme>> \o <<"://">> = head
    BY Pairs
  <2>2. Text(p) = (head \o h) \o pp
    BY <1>8, <2>1 DEF Serialise, TailOf
  <2> HIDE DEF head, h, pp
  <2>3. (head \o h) \o pp = head \o (<<>> \o (h \o pp)) /\ (head \o h) \o pp \in Seq(Lexemes)
    <3>1. head \in Seq(Lexemes) /\ h \in Seq(Lexemes) /\ pp \in Seq(Lexemes)
      BY <1>2, <1>3, <1>4
    <3> QED
      BY ONLY <3>1
  <2> QED
    BY <2>2, <2>3
<1>10. Text(p) # <<>>
  <2> HIDE DEF head, h, pp
  <2>1. Len(head) = 2
    BY DEF head
  <2>2. Len(head \o (<<>> \o (h \o pp))) >= 2
    <3>1. head \in Seq(Lexemes) /\ h \in Seq(Lexemes) /\ pp \in Seq(Lexemes)
      BY <1>2, <1>3, <1>4
    <3> QED
      BY ONLY <2>1, <3>1
  <2>3. Len(<<>>) = 0
    OBVIOUS
  <2> QED
    BY <1>9, <2>2, <2>3
<1>11. Split(Text(p)) = [scheme |-> <<p.scheme>>, host |-> h, port |-> p.port]
  <2>1. Stars(FALSE) = <<>> /\ <<>> \o Lowered(h) = h
    BY <1>1, <1>2 DEF Stars
  <2> HIDE DEF h, pp
  <2>2. Split(head \o (Stars(FALSE) \o (h \o pp))) =
           [scheme |-> <<Lower[p.scheme]>>, host |-> Stars(FALSE) \o Lowered(h), port |-> From(pp, 2)]
    BY <1>1, <1>2, <1>3, <1>4, <1>6, SplitIs
  <2> QED
    BY <1>1, <1>3, <1>9, <2>1, <2>2
<1>12. Split(Text(p)) # Nil
  <2>1. <<p.scheme>> \in Seq(Lexemes)
    BY <1>4
  <2> HIDE DEF h
  <2>2. Split(Text(p)) \in [scheme : Seq(Lexemes), host : Seq(Lexemes), port : Seq(Lexemes)]
    BY <1>2, <1>3, <1>11, <2>1
  <2> QED
    BY <2>2, NilIsNoText
<1> HIDE DEF h
<1> QED
  BY <1>1, <1>5, <1>6, <1>7, <1>8, <1>9, <1>10, <1>11, <1>12 DEF h

LEMMA EntryIs ==
    ASSUME NEW e, IsEntry(e)
    PROVE  LET h == Dotted(e.labels)
               pp == TailOf(e.port)
           IN  /\ e.scheme \in Lexemes \ Marks /\ e.wild \in BOOLEAN /\ IsHost(e.labels)
               /\ h \in HostTexts /\ pp \in Tails /\ From(pp, 2) = e.port
               /\ TextOf(e) = <<e.scheme, "://">> \o (Stars(e.wild) \o (h \o pp))
<1> DEFINE h == Dotted(e.labels)
           pp == TailOf(e.port)
           head == <<e.scheme, "://">>
           st == Stars(e.wild)
<1>1. /\ e.scheme \in Lexemes \ Marks /\ e.wild \in BOOLEAN /\ IsHost(e.labels)
      /\ e.port \in {<<>>, <<"*">>} \/ \E port \in Ports : e.port = <<port>>
  BY DEF IsEntry
<1>2. h \in HostTexts /\ h \in Seq(Lexemes)
  BY <1>1, HostOf, HostIs
<1>3. pp \in Tails /\ From(pp, 2) = e.port /\ pp \in Seq(Lexemes)
  <2>1. e.port = <<>> \/ \E q \in (Lexemes \ Marks) \union {"*"} : e.port = <<q>>
    BY <1>1, OriginConstants
  <2> QED
    BY <2>1, TailOfIs, TailIs
<1>4. head \in Seq(Lexemes) /\ st \in Seq(Lexemes)
  <2>1. "://" \in Lexemes
    BY OriginConstants DEF Marks
  <2> QED
    BY <1>1, <2>1, StarIs DEF Stars
<1>5. TextOf(e) = head \o (st \o (h \o pp))
  <2>1. (IF e.wild THEN <<e.scheme, "://", "*", ".">> ELSE <<e.scheme, "://">>) = head \o st
    <3>1. CASE e.wild
      <4>1. <<e.scheme, "://", "*", ".">> = <<e.scheme, "://">> \o <<"*", ".">>
        BY Fours
      <4> QED
        BY <3>1, <4>1 DEF Stars
    <3>2. CASE ~ e.wild
      <4>1. head \o <<>> = head
        <5> HIDE DEF head
        <5> QED
          BY ONLY <1>4
      <4> QED
        BY <3>2, <4>1 DEF Stars
    <3> QED
      BY <3>1, <3>2
  <2>2. TextOf(e) = ((head \o st) \o h) \o pp
    BY <2>1 DEF TextOf, TailOf
  <2> HIDE DEF head, h, pp, st
  <2>3. h \in Seq(Lexemes) /\ pp \in Seq(Lexemes)
    BY <1>2, <1>3
  <2>4. ((head \o st) \o h) \o pp = head \o (st \o (h \o pp))
    <3>1. head \in Seq(Lexemes) /\ st \in Seq(Lexemes) /\ h \in Seq(Lexemes) /\ pp \in Seq(Lexemes)
      BY <1>4, <2>3
    <3> QED
      BY ONLY <3>1
  <2> QED
    BY <2>2, <2>4
<1> QED
  BY <1>1, <1>2, <1>3, <1>5

LEMMA LoweredPart ==
    ASSUME NEW t \in Seq(Lexemes), NEW a \in 1..Len(t) + 1, NEW b \in a - 1..Len(t)
    PROVE  SubSeq(Lowered(t), a, b) = Lowered(SubSeq(t, a, b))
<1> DEFINE u == Lowered(t)
           x == SubSeq(u, a, b)
           y == SubSeq(t, a, b)
           z == Lowered(y)
<1>1. u \in Seq(Lexemes) /\ Len(u) = Len(t) /\ \A i \in 1..Len(t) : u[i] = Lower[t[i]]
  BY LoweredIs
<1> HIDE DEF u
<1>2. a \in 1..Len(u) + 1 /\ b \in a - 1..Len(u) /\ Len(t) \in Nat
  BY <1>1
<1>3. u \in Seq(Lexemes)
  BY <1>1
<1>4. x \in Seq(Lexemes) /\ Len(x) = b - a + 1 /\ \A i \in 1..b - a + 1 : x[i] = u[a + i - 1]
  BY ONLY <1>2, <1>3, Part
<1>5. y \in Seq(Lexemes) /\ Len(y) = b - a + 1 /\ \A i \in 1..b - a + 1 : y[i] = t[a + i - 1]
  BY ONLY t \in Seq(Lexemes), a \in 1..Len(t) + 1, b \in a - 1..Len(t), Part
<1> HIDE DEF x, y
<1>6. z \in Seq(Lexemes) /\ Len(z) = Len(y) /\ \A i \in 1..Len(y) : z[i] = Lower[y[i]]
  BY <1>5, LoweredIs
<1> HIDE DEF z
<1>7. ASSUME NEW i \in 1..Len(x) PROVE x[i] = z[i]
  <2>1. i \in 1..b - a + 1 /\ i \in 1..Len(y) /\ a + i - 1 \in 1..Len(t)
    BY <1>2, <1>4, <1>5
  <2>2. x[i] = u[a + i - 1] /\ y[i] = t[a + i - 1] /\ z[i] = Lower[y[i]]
    BY <1>4, <1>5, <1>6, <2>1
  <2>3. u[a + i - 1] = Lower[t[a + i - 1]]
    BY <1>1, <2>1
  <2> QED
    BY <2>2, <2>3
<1>8. x \in Seq(Lexemes) /\ z \in Seq(Lexemes) /\ Len(x) = Len(z) /\ \A i \in 1..Len(x) : x[i] = z[i]
  BY <1>4, <1>5, <1>6, <1>7
<1>9. x = z
  BY ONLY <1>8, Same
<1> QED
  BY <1>9 DEF x, y, z, u

LEMMA CanonicalIs ==
    ASSUME NEW l, IsAddress(l)
    PROVE  /\ ValidateHost(Lowered(l)) = Canonical(l)
           /\ Lowered(l) # <<>> /\ Lowered(l)[1] = "["
           /\ Canonical(l)[1] = "["
<1> DEFINE inner == SubSeq(l, 2, Len(l) - 1)
           x == Lowered(l)
<1>1. l \in Seq(Lexemes) /\ Len(l) \in Nat /\ Len(l) >= 2 /\ l[1] = "["
  BY AddressIs
<1>2. Lowered(inner) \in DOMAIN IPv6
  BY DEF IsAddress
<1>3. x \in Seq(Lexemes) /\ Len(x) = Len(l) /\ x[1] = "["
  <2>1. Lower["["] = "["
    BY OriginConstants DEF Marks
  <2>2. x \in Seq(Lexemes) /\ Len(x) = Len(l) /\ \A i \in 1..Len(l) : x[i] = Lower[l[i]]
    BY <1>1, LoweredIs
  <2> QED
    BY <1>1, <2>1, <2>2
<1>4. SubSeq(x, 2, Len(x) - 1) = Lowered(inner)
  <2> DEFINE b == Len(l) - 1
  <2>1. 2 \in 1..Len(l) + 1 /\ b \in 2 - 1..Len(l)
    BY <1>1
  <2> HIDE DEF b
  <2>2. SubSeq(Lowered(l), 2, b) = Lowered(SubSeq(l, 2, b))
    BY <1>1, <2>1, LoweredPart
  <2> QED
    BY <1>3, <2>2 DEF b
<1>5. Canonical(l) = <<"[">> \o IPv6[Lowered(inner)] \o <<"]">>
  BY DEF Canonical
<1>6. x # <<>>
  <2>1. x = <<>> => Len(x) = 0
    OBVIOUS
  <2> QED
    BY <1>1, <1>3, <2>1
<1> HIDE DEF inner, x
<1>7. ValidateHost(x) = Canonical(l)
  BY <1>2, <1>3, <1>4, <1>5, <1>6 DEF ValidateHost
<1>8. Canonical(l)[1] = "["
  <2> DEFINE v == IPv6[Lowered(inner)]
  <2>1. v \in Seq(Lexemes) /\ "[" \in Lexemes /\ "]" \in Lexemes
    BY <1>2, OriginConstants DEF Marks
  <2> HIDE DEF v
  <2>2. (<<"[">> \o v \o <<"]">>)[1] = "["
    BY <2>1
  <2> QED
    BY <1>5, <2>2 DEF v
<1> QED
  BY <1>3, <1>6, <1>7, <1>8 DEF x

LEMMA ValidIs ==
    ASSUME NEW h \in HostTexts, ~ IsAddress(h)
    PROVE  ValidateHost(Lowered(h)) \in {Nil, Lowered(h)}
<1> DEFINE x == Lowered(h)
<1>1. /\ h \in Seq(Lexemes) /\ Len(h) \in Nat
      /\ \A i \in 1..Len(h) : h[i] \in Plain \union {"."}
  BY HostIs
<1>2. x \in Seq(Lexemes) /\ Len(x) = Len(h) /\ \A i \in 1..Len(h) : x[i] = Lower[h[i]]
  BY <1>1, LoweredIs
<1>3. ~ (x # <<>> /\ x[1] = "[")
  <2>1. SUFFICES ASSUME x # <<>>, x[1] = "[" PROVE FALSE
    OBVIOUS
  <2>2. 1 \in 1..Len(h)
    BY <1>1, <1>2, <2>1
  <2>3. x[1] \in Plain \union {"."}
    BY <1>1, <1>2, <2>2, PlainIs
  <2> QED
    BY <2>1, <2>3, PlainIs
<1> HIDE DEF x
<1>4. ValidateHost(x) \in {Nil, x}
  BY <1>3 DEF ValidateHost
<1> QED
  BY <1>4 DEF x

(* The canonical host of an entry is its labels' in canonical form.        *)
LEMMA SmallHost ==
    ASSUME NEW L, IsHost(L), ValidateHost(Lowered(Dotted(L))) # Nil
    PROVE  /\ ValidateHost(Lowered(Dotted(L))) = Dotted(Small(L))
           /\ ~ IsAddress(Dotted(L)) =>
                 /\ L \in Seq(Seq(Plain)) /\ L # <<>> /\ Len(Small(L)) = Len(L)
                 /\ Small(L) \in Seq(Seq(Plain)) /\ Small(L) # <<>>
                 /\ Dotted(Small(L)) = Lowered(Dotted(L)) /\ Dotted(Small(L)) # <<>>
           /\ IsAddress(Dotted(L)) =>
                 /\ Len(L) = 1
                 /\ Small(L) = <<Dotted(Small(L))>> /\ Dotted(Small(L))[1] = "["
<1>1. CASE IsAddress(Dotted(L))
  <2>1. PICK l : l = Dotted(L)
    OBVIOUS
  <2>2. IsAddress(l) /\ L = <<l>>
    BY <1>1, <2>1, HostOf
  <2>3. Small(L) = <<Canonical(l)>>
    BY <2>2 DEF Small
  <2>4. Dotted(Small(L)) = Canonical(l)
    BY <2>3, DottedOne
  <2>5. Len(L) = 1
    BY <2>2
  <2> QED
    BY <1>1, <2>1, <2>2, <2>3, <2>4, <2>5, CanonicalIs
<1>2. CASE ~ IsAddress(Dotted(L))
  <2>1. L \in Seq(Seq(Plain)) /\ L # <<>> /\ Dotted(L) \in HostTexts
    BY <1>2, HostOf
  <2>2. /\ Small(L) \in Seq(Seq(Plain)) /\ Small(L) # <<>> /\ Len(Small(L)) = Len(L)
        /\ Dotted(Small(L)) = Lowered(Dotted(L))
    BY <2>1, SmallPlain
  <2>3. ValidateHost(Lowered(Dotted(L))) = Lowered(Dotted(L))
    BY <1>2, <2>1, ValidIs
  <2>4. ValidateHost(<<>>) = Nil
    BY DEF ValidateHost
  <2>5. Lowered(Dotted(L)) # <<>>
    BY <2>3, <2>4
  <2> QED
    BY <1>2, <2>1, <2>2, <2>3, <2>5
<1> QED
  BY <1>1, <1>2

LEMMA NoBracket ==
    ASSUME NEW t \in Seq(Plain \union {"."}), t # <<>>
    PROVE  t[1] # "[" /\ Len(t) \in Nat /\ Len(t) >= 1 /\ t[Len(t)] # "]"
<1>1. Len(t) \in Nat /\ Len(t) >= 1 /\ \A i \in 1..Len(t) : t[i] \in Plain \union {"."}
  OBVIOUS
<1>2. 1 \in 1..Len(t) /\ Len(t) \in 1..Len(t)
  BY <1>1
<1>3. "[" \notin Plain \union {"."} /\ "]" \notin Plain \union {"."}
  BY DEF Plain, Marks
<1> QED
  BY <1>1, <1>2, <1>3

LEMMA SameHost ==
    ASSUME NEW L, IsHost(L), ValidateHost(Lowered(Dotted(L))) # Nil,
           NEW K, IsHost(K), Dotted(K) # <<>>
    PROVE  Dotted(Small(L)) = Dotted(K) <=> K = Small(L)
<1>1. SUFFICES ASSUME Dotted(Small(L)) = Dotted(K) PROVE K = Small(L)
  OBVIOUS
<1>2. CASE IsAddress(Dotted(L)) /\ IsAddress(Dotted(K))
  BY <1>1, <1>2, SmallHost, HostOf
<1>3. CASE ~ IsAddress(Dotted(L)) /\ ~ IsAddress(Dotted(K))
  <2>1. /\ K \in Seq(Seq(Plain)) /\ K # <<>>
        /\ Small(L) \in Seq(Seq(Plain)) /\ Small(L) # <<>>
    BY <1>3, SmallHost, HostOf
  <2>2. "." \notin Plain
    BY PlainIs
  <2> QED
    BY ONLY <1>1, <2>1, <2>2, DottedInjective
<1>4. CASE IsAddress(Dotted(L)) /\ ~ IsAddress(Dotted(K))
  <2>1. Dotted(K) \in Seq(Plain \union {"."}) /\ Dotted(K)[1] = "["
    BY <1>1, <1>4, SmallHost, HostOf
  <2> QED
    BY <2>1, NoBracket
<1>5. CASE ~ IsAddress(Dotted(L)) /\ IsAddress(Dotted(K))
  <2>1. Small(L) \in Seq(Seq(Plain)) /\ Small(L) # <<>> /\ Dotted(K)[1] = "["
    BY <1>5, SmallHost, AddressIs
  <2>2. Dotted(Small(L)) \in Seq(Plain \union {"."})
    BY <2>1, DottedType
  <2> QED
    BY <1>1, <2>1, <2>2, NoBracket
<1> QED
  BY <1>2, <1>3, <1>4, <1>5

(* What an entry that compiles is compiled to.                             *)
LEMMA CompiledIs ==
    ASSUME NEW e, IsEntry(e), CompileRule(TextOf(e)) # Nil
    PROVE  LET r == CompileRule(TextOf(e))
               h == Dotted(e.labels)
           IN  /\ r.scheme = <<Lower[e.scheme]>> /\ Lower[e.scheme] \in {"http", "https"}
               /\ r.anyPort <=> e.port = <<"*">>
               /\ r.port = IF e.port = <<"*">> THEN <<>> ELSE e.port
               /\ IsHost(e.labels) /\ ValidateHost(Lowered(h)) # Nil
               /\ ~ e.wild => r.suffix = <<>> /\ r.host = ValidateHost(Lowered(h))
               /\ e.wild => ~ IsAddress(h) /\ r.suffix = <<".">> \o ValidateHost(Lowered(h))
<1> DEFINE h == Dotted(e.labels)
           parts == Split(TextOf(e))
           r == CompileRule(TextOf(e))
           host == Stars(e.wild) \o Lowered(h)
<1>1. /\ e.scheme \in Lexemes \ Marks /\ e.wild \in BOOLEAN /\ IsHost(e.labels) /\ h \in HostTexts
      /\ parts \in {Nil, [scheme |-> <<Lower[e.scheme]>>, host |-> host, port |-> e.port]}
      /\ parts # Nil => Lower[e.scheme] \in {"http", "https"}
  <2>1. PICK pp : pp = TailOf(e.port)
    OBVIOUS
  <2>2. /\ e.scheme \in Lexemes \ Marks /\ e.wild \in BOOLEAN /\ IsHost(e.labels)
        /\ h \in HostTexts /\ pp \in Tails /\ From(pp, 2) = e.port
        /\ TextOf(e) = <<e.scheme, "://">> \o (Stars(e.wild) \o (h \o pp))
    BY <2>1, EntryIs
  <2> HIDE DEF h
  <2>3. /\ parts \in {Nil, [scheme |-> <<Lower[e.scheme]>>, host |-> host, port |-> e.port]}
        /\ parts # Nil => Lower[e.scheme] \in {"http", "https"}
    <3>1. e.scheme \in Lexemes \ Marks /\ e.wild \in BOOLEAN /\ h \in HostTexts /\ pp \in Tails
      BY <2>2
    <3> DEFINE split == Split(<<e.scheme, "://">> \o (Stars(e.wild) \o (h \o pp)))
    <3>2. /\ split \in {Nil, [scheme |-> <<Lower[e.scheme]>>, host |-> Stars(e.wild) \o Lowered(h), port |-> From(pp, 2)]}
          /\ split # Nil => Lower[e.scheme] \in {"http", "https"}
      BY ONLY <3>1, SplitIs
    <3> QED
      BY <2>2, <3>2
  <2> QED
    BY <2>2, <2>3
<1> HIDE DEF parts
<1>2. /\ parts # Nil /\ parts = [scheme |-> <<Lower[e.scheme]>>, host |-> host, port |-> e.port]
      /\ Lower[e.scheme] \in {"http", "https"}
  BY <1>1 DEF CompileRule, parts
<1>3. parts.scheme = <<Lower[e.scheme]>> /\ parts.host = host /\ parts.port = e.port
  BY <1>2
<1>4. r = IF IsWild(host) THEN WildRule(parts, Parent(host))
          ELSE IF At("*", host) # {} \/ ValidateHost(host) = Nil THEN Nil
          ELSE Rule(parts, ValidateHost(host), <<>>)
  BY <1>2, <1>3 DEF CompileRule, parts
<1>5. /\ h \in Seq(Lexemes) /\ Len(h) \in Nat
      /\ h # <<>> => h[1] # "*" /\ (h[1] = "[" <=> IsAddress(h))
  BY <1>1, HostIs
<1>6. Lowered(h) \in Seq(Lexemes) /\ Len(Lowered(h)) = Len(h) /\ \A i \in 1..Len(h) : Lowered(h)[i] = Lower[h[i]]
  BY <1>5, LoweredIs
<1> HIDE DEF h, r
<1>7. CASE ~ e.wild
  <2>1. host = Lowered(h)
    BY <1>6, <1>7 DEF Stars
  <2> HIDE DEF host
  <2>2. ~ IsWild(host)
    <3>1. SUFFICES ASSUME IsWild(host) PROVE FALSE
      OBVIOUS
    <3>2. Len(host) >= 2 /\ host[1] = "*"
      BY <1>6, <2>1, <3>1, WildIs
    <3>3. 1 \in 1..Len(h) /\ h # <<>> /\ h[1] \in Lexemes
      <4>1. Len(h) >= 2
        BY <1>6, <2>1, <3>2
      <4>2. h = <<>> => Len(h) = 0
        OBVIOUS
      <4> QED
        BY <1>5, <4>1, <4>2
    <3>4. Lower[h[1]] = "*" /\ "*" \in Marks
      BY <1>6, <2>1, <3>2, <3>3 DEF Marks
    <3>5. Lower[h[1]] = h[1]
      BY <3>3, <3>4, OriginConstants
    <3> QED
      BY <1>5, <3>3, <3>4, <3>5
  <2>3. r # Nil
    BY DEF r
  <2>4. ValidateHost(host) # Nil /\ r = Rule(parts, ValidateHost(host), <<>>)
    BY <1>4, <2>2, <2>3
  <2>5. /\ r.scheme = parts.scheme /\ r.anyPort = (parts.port = <<"*">>)
        /\ r.port = IF parts.port = <<"*">> THEN <<>> ELSE parts.port
        /\ r.suffix = <<>> /\ r.host = ValidateHost(host)
    BY <2>4 DEF Rule
  <2>6. /\ r.scheme = <<Lower[e.scheme]>> /\ (r.anyPort <=> e.port = <<"*">>)
        /\ r.port = IF e.port = <<"*">> THEN <<>> ELSE e.port
        /\ ValidateHost(Lowered(h)) # Nil
        /\ r.suffix = <<>> /\ r.host = ValidateHost(Lowered(h))
    BY <1>3, <2>1, <2>4, <2>5
  <2> QED
    BY <1>1, <1>2, <1>7, <2>6 DEF h, r
<1>8. CASE e.wild
  <2>1. IsWild(host) /\ Parent(host) = Lowered(h)
    <3> DEFINE st == <<"*", ".">>
    <3>1. st \in Seq(Lexemes) /\ Len(st) = 2 /\ st[1] = "*" /\ st[2] = "."
      BY StarIs
    <3>2. host = st \o Lowered(h)
      BY <1>8 DEF Stars
    <3> HIDE DEF st, host
    <3>3. st \in Seq(Lexemes) /\ Lowered(h) \in Seq(Lexemes)
      BY <1>6, <3>1
    <3>4. /\ st \o Lowered(h) \in Seq(Lexemes) /\ Len(st \o Lowered(h)) = Len(st) + Len(Lowered(h))
          /\ \A i \in 1..Len(st) : (st \o Lowered(h))[i] = st[i]
      BY ONLY <3>3, Joined
    <3>5. From(st \o Lowered(h), Len(st) + 1) = Lowered(h)
      BY ONLY <3>3, Halves
    <3>6. Len(st) + 1 = 3
      BY <3>1
    <3>7. Parent(host) = Lowered(h)
      BY <3>2, <3>5, <3>6 DEF Parent
    <3>8. host[1] = "*" /\ host[2] = "." /\ Len(host) >= 2 /\ host \in Seq(Lexemes)
      <4>1. 1 \in 1..Len(st) /\ 2 \in 1..Len(st)
        BY <3>1
      <4> QED
        BY <1>5, <1>6, <3>1, <3>2, <3>4, <4>1
    <3> QED
      BY <3>7, <3>8, WildIs
  <2>2. r # Nil
    BY DEF r
  <2>3. /\ ~ (Lowered(h) # <<>> /\ Lowered(h)[1] = "[")
        /\ ValidateHost(Lowered(h)) # Nil
        /\ r = Rule(parts, <<>>, <<".">> \o ValidateHost(Lowered(h)))
    BY <1>4, <2>1, <2>2 DEF WildRule
  <2>4. ~ IsAddress(h)
    BY <2>3, CanonicalIs
  <2>5. /\ r.scheme = parts.scheme /\ r.anyPort = (parts.port = <<"*">>)
        /\ r.port = IF parts.port = <<"*">> THEN <<>> ELSE parts.port
        /\ r.suffix = <<".">> \o ValidateHost(Lowered(h))
    BY <2>3 DEF Rule
  <2>6. /\ r.scheme = <<Lower[e.scheme]>> /\ (r.anyPort <=> e.port = <<"*">>)
        /\ r.port = IF e.port = <<"*">> THEN <<>> ELSE e.port
    BY <1>3, <2>5
  <2> QED
    BY <1>1, <1>2, <1>8, <2>3, <2>4, <2>5, <2>6 DEF h, r
<1> QED
  BY <1>1, <1>7, <1>8

LEMMA WildHost ==
    ASSUME NEW B \in Seq(Seq(Plain)), B # <<>>, Dotted(B) # <<>>,
           NEW K, IsHost(K), ValidateHost(Dotted(K)) # Nil
    PROVE  LET suffix == <<".">> \o Dotted(B) IN
           Len(Dotted(K)) > Len(suffix) /\ IsSuffix(suffix, Dotted(K))
              <=> Len(K) > Len(B) /\ IsSuffix(B, K)
<1> DEFINE C == Plain \union {"."}
           host == Dotted(K)
           b == Dotted(B)
           suffix == <<".">> \o b
<1>1. b \in Seq(C) /\ b # <<>>
  BY DottedType
<1>2. "." \in C /\ C \subseteq Lexemes
  BY PlainIs
<1> HIDE DEF C, host, b
<1>3. suffix \in Seq(C) /\ Len(suffix) = Len(b) + 1 /\ Len(b) \in Nat /\ Len(b) >= 1
      /\ suffix[Len(suffix)] = b[Len(b)] /\ suffix[1] = "."
  BY <1>1, <1>2
<1> HIDE DEF suffix
<1>4. CASE ~ IsAddress(host)
  <2>1. K \in Seq(Seq(Plain)) /\ K # <<>> /\ host \in Seq(C)
    BY <1>4, HostOf DEF host, C
  <2>2. Len(host) > Len(suffix) /\ IsSuffix(suffix, host) <=> \E u \in Seq(C) : host = u \o suffix /\ u # <<>>
    <3>1. IsSuffix(suffix, host) <=> \E u \in Seq(C) : host = u \o suffix
      BY <1>3, <2>1, SuffixRest
    <3>2. ASSUME NEW u \in Seq(C), host = u \o suffix
          PROVE  Len(host) > Len(suffix) <=> u # <<>>
      <4>1. Len(u \o suffix) = Len(u) + Len(suffix) /\ Len(u) \in Nat /\ Len(suffix) \in Nat /\ (u = <<>> <=> Len(u) = 0)
        <5>1. suffix \in Seq(C) /\ u \in Seq(C)
          BY <1>3
        <5> QED
          BY ONLY <5>1
      <4> QED
        BY <3>2, <4>1
    <3> QED
      BY <3>1, <3>2
  <2>3. host # <<>> /\ host[1] # "."
    <3>1. host # <<>> /\ host[1] # "["
      <4>1. ValidateHost(<<>>) = Nil
        BY DEF ValidateHost
      <4>2. host # <<>>
        BY <4>1 DEF host
      <4> QED
        BY <2>1, <4>2, NoBracket DEF C
    <3> QED
      BY <3>1 DEF ValidateHost, host
  <2>4. ASSUME NEW u \in Seq(C), host = u \o suffix PROVE u # <<>>
    <3>1. SUFFICES ASSUME u = <<>> PROVE FALSE
      OBVIOUS
    <3>2. u \o suffix = suffix
      BY <1>3, <3>1
    <3> QED
      BY <1>3, <2>3, <2>4, <3>2
  <2>5. ASSUME NEW u \in Seq(C) PROVE u \o suffix = u \o <<".">> \o b
    <3>1. <<".">> \in Seq(C)
      BY <1>2
    <3>2. u \o (<<".">> \o b) = u \o <<".">> \o b
      BY ONLY u \in Seq(C), <3>1, <1>1
    <3> QED
      BY <3>2 DEF suffix
  <2>6. (\E u \in Seq(C) : host = u \o <<".">> \o b) <=> Len(K) > Len(B) /\ IsSuffix(B, K)
    <3>1. "." \notin Plain
      BY PlainIs
    <3>2. K \in Seq(Seq(Plain)) /\ K # <<>> /\ B \in Seq(Seq(Plain)) /\ B # <<>>
      BY <2>1
    <3> QED
      BY ONLY <3>1, <3>2, BelowIs DEF C, host, b
  <2>7. Len(host) > Len(suffix) /\ IsSuffix(suffix, host) <=> Len(K) > Len(B) /\ IsSuffix(B, K)
    BY <2>2, <2>4, <2>5, <2>6
  <2> QED
    BY <2>7 DEF host, suffix, b
<1>5. CASE IsAddress(host)
  <2>1. K = <<host>> /\ host \in Seq(Lexemes) /\ Len(host) \in Nat /\ host[Len(host)] = "]"
    BY <1>5, HostOf, AddressIs DEF host
  <2>2. ~ (Len(host) > Len(suffix) /\ IsSuffix(suffix, host))
    <3>1. SUFFICES ASSUME Len(host) > Len(suffix), IsSuffix(suffix, host) PROVE FALSE
      OBVIOUS
    <3>2. suffix \in Seq(Lexemes)
      BY <1>2, <1>3, SeqMonotonic
    <3>3. \A i \in 1..Len(suffix) : suffix[i] = host[Len(host) - Len(suffix) + i]
      BY <2>1, <3>1, <3>2, SuffixIs
    <3>4. Len(suffix) \in 1..Len(suffix) /\ Len(host) - Len(suffix) + Len(suffix) = Len(host)
      BY <1>3, <2>1
    <3>5. b[Len(b)] = "]"
      BY <1>3, <2>1, <3>3, <3>4
    <3>6. b[Len(b)] # "]"
      BY <1>1, NoBracket DEF C
    <3> QED
      BY <3>5, <3>6
  <2>3. ~ (Len(K) > Len(B))
    <3>1. Len(K) = 1
      BY <2>1
    <3>2. Len(B) \in Nat /\ Len(B) # 0
      OBVIOUS
    <3> QED
      BY <3>1, <3>2
  <2> QED
    BY <2>2, <2>3 DEF host, suffix, b
<1> QED
  BY <1>4, <1>5

(* A rule matches a page's origin exactly if its entry means the page.     *)
LEMMA MatchIs ==
    ASSUME NEW e, IsEntry(e), CompileRule(TextOf(e)) # Nil, NEW p \in Pages
    PROVE  Match(CompileRule(TextOf(e)), <<p.scheme>>, Dotted(p.labels), p.port) <=> Admits(e, p)
<1> DEFINE r == CompileRule(TextOf(e))
           h == Dotted(e.labels)
           v == ValidateHost(Lowered(h))
<1>1. /\ r.scheme = <<Lower[e.scheme]>>
      /\ r.anyPort <=> e.port = <<"*">>
      /\ r.port = IF e.port = <<"*">> THEN <<>> ELSE e.port
      /\ IsHost(e.labels) /\ v # Nil
      /\ ~ e.wild => r.suffix = <<>> /\ r.host = v
      /\ e.wild => ~ IsAddress(h) /\ r.suffix = <<".">> \o v
  BY CompiledIs
<1>2. IsHost(p.labels) /\ ValidateHost(Dotted(p.labels)) # Nil /\ Dotted(p.labels) # <<>>
  BY PageIs
<1>3. v = Dotted(Small(e.labels))
  BY <1>1, SmallHost
<1> HIDE DEF r
<1>4. r.scheme = <<p.scheme>> <=> Lower[e.scheme] = p.scheme
  BY <1>1
<1>5. (r.anyPort \/ r.port = p.port) <=> (e.port = <<"*">> \/ e.port = p.port)
  BY <1>1
<1>6. CASE ~ e.wild
  <2>1. r.host = Dotted(p.labels) <=> p.labels = Small(e.labels)
    BY <1>1, <1>2, <1>3, <1>6, SameHost
  <2> QED
    BY <1>1, <1>4, <1>5, <1>6, <2>1 DEF Match, Admits, r
<1>7. CASE e.wild
  <2>1. ~ IsAddress(h) /\ r.suffix = <<".">> \o Dotted(Small(e.labels))
    BY <1>1, <1>3, <1>7
  <2>2. /\ Small(e.labels) \in Seq(Seq(Plain)) /\ Small(e.labels) # <<>>
        /\ Dotted(Small(e.labels)) # <<>> /\ Len(Small(e.labels)) = Len(e.labels)
    BY <1>1, <2>1, SmallHost
  <2>3. Len(Dotted(p.labels)) > Len(r.suffix) /\ IsSuffix(r.suffix, Dotted(p.labels))
           <=> Len(p.labels) > Len(e.labels) /\ IsSuffix(Small(e.labels), p.labels)
    BY <1>2, <2>1, <2>2, WildHost
  <2>4. r.suffix # <<>>
    <3>1. Dotted(Small(e.labels)) \in Seq(Plain \union {"."})
      BY <2>2, DottedType
    <3> HIDE DEF h, v
    <3>2. PICK d : d = Dotted(Small(e.labels))
      OBVIOUS
    <3>3. d \in Seq(Plain \union {"."})
      BY <3>1, <3>2
    <3>4. <<".">> \o d # <<>>
      BY ONLY <3>3
    <3> QED
      BY <2>1, <3>2, <3>4
  <2> QED
    BY <1>4, <1>5, <1>7, <2>3, <2>4 DEF Match, Admits, r
<1> QED
  BY <1>6, <1>7

-----------------------------------------------------------------------------
(* Every text that compiles is an entry's.                                 *)

LEMMA MarkIs ==
    ASSUME NEW x \in Lexemes, Lower[x] \in Marks
    PROVE  x = Lower[x]
BY OriginConstants

LEMMA HostFound ==
    ASSUME NEW h \in Seq(Lexemes), ValidateHost(Lowered(h)) # Nil,
           h # <<>> /\ h[1] = "[" => h[Len(h)] = "]"
    PROVE  \E L : IsHost(L) /\ Dotted(L) = h
<1> DEFINE x == Lowered(h)
<1>1. /\ x \in Seq(Lexemes) /\ Len(x) = Len(h) /\ Len(h) \in Nat
      /\ \A i \in 1..Len(h) : x[i] = Lower[h[i]] /\ h[i] \in Lexemes
  BY LoweredIs
<1>2. DOMAIN x = 1..Len(h)
  BY <1>1
<1> HIDE DEF x
<1>3. "[" \in Marks /\ "[" \in Lexemes /\ Lower["["] = "["
  BY OriginConstants DEF Marks
<1>4. h # <<>> <=> 1 \in 1..Len(h)
  OBVIOUS
<1>5. x # <<>> <=> h # <<>>
  BY <1>1
<1>6. h # <<>> => (x[1] = "[" <=> h[1] = "[")
  BY <1>1, <1>3, <1>4, MarkIs
<1>7. CASE h # <<>> /\ h[1] = "["
  <2>1. Len(h) >= 2 /\ h[Len(h)] = "]"
    <3>1. Len(h) # 1
      BY <1>7
    <3> QED
      BY <1>1, <1>4, <1>7, <3>1
  <2>2. SubSeq(x, 2, Len(x) - 1) \in DOMAIN IPv6
    BY <1>5, <1>6, <1>7 DEF ValidateHost, x
  <2>3. SubSeq(x, 2, Len(x) - 1) = Lowered(SubSeq(h, 2, Len(h) - 1))
    <3> DEFINE b == Len(h) - 1
    <3>1. 2 \in 1..Len(h) + 1 /\ b \in 2 - 1..Len(h)
      BY <1>1, <2>1
    <3> HIDE DEF b
    <3>2. SubSeq(Lowered(h), 2, b) = Lowered(SubSeq(h, 2, b))
      BY <3>1, LoweredPart
    <3> QED
      BY <1>1, <3>2 DEF b, x
  <2>4. IsAddress(h)
    BY <1>7, <2>1, <2>2, <2>3 DEF IsAddress
  <2>5. IsHost(<<h>>)
    <3>1. <<h>>[1] = h
      OBVIOUS
    <3> QED
      BY <2>4, <3>1 DEF IsHost
  <2>6. Dotted(<<h>>) = h
    BY DottedOne
  <2> QED
    BY <2>5, <2>6
<1>8. CASE ~ (h # <<>> /\ h[1] = "[")
  <2>1. \A i \in 1..Len(h) : x[i] \in Names \union {"-", "."}
    BY <1>2, <1>5, <1>6, <1>8 DEF ValidateHost, x
  <2>2. ASSUME NEW i \in 1..Len(h) PROVE h[i] \in Plain \union {"."}
    <3>1. h[i] \in Lexemes /\ Lower[h[i]] \in Names \union {"-", "."}
      BY <1>1, <2>1
    <3>2. ASSUME h[i] \in Marks PROVE h[i] \in {"-", "."}
      <4>1. Lower[h[i]] = h[i] /\ h[i] \notin Names
        BY <3>1, <3>2, OriginConstants
      <4> QED
        BY <3>1, <4>1
    <3>3. "-" \in Lexemes
      BY OriginConstants DEF Marks
    <3> QED
      BY <3>1, <3>2, <3>3 DEF Plain
  <2>3. h \in Seq(Plain \union {"."})
    BY <1>1, <2>2
  <2>4. PICK L \in Seq(Seq(Plain)) : L # <<>> /\ Dotted(L) = h
    BY <2>3, LabelsOf
  <2> QED
    BY <2>4 DEF IsHost
<1> QED
  BY <1>7, <1>8

(* A text divided into a host and what follows it.                         *)
Divided(scheme, wild, body, h, tail) ==
    /\ body = h \o tail
    /\ SplitRest(scheme, wild, body) =
          [scheme |-> scheme, host |-> wild \o Lowered(h), port |-> From(tail, 2)]
    /\ tail # <<>> => Len(tail) >= 2 /\ tail[1] = ":"
    /\ h # <<>> /\ h[1] = "[" => h[Len(h)] = "]"

LEMMA SplitRestFound ==
    ASSUME NEW scheme, NEW wild, NEW body \in Seq(Lexemes), SplitRest(scheme, wild, body) # Nil
    PROVE  \E h \in Seq(Lexemes), tail \in Seq(Lexemes) : Divided(scheme, wild, body, h, tail)
<1> DEFINE Cut(n) == WithPort(scheme, wild, Upto(body, n), From(body, n + 1))
<1>1. Len(body) \in Nat /\ DOMAIN body = 1..Len(body) /\ (body # <<>> <=> 1 \in 1..Len(body))
  OBVIOUS
<1>2. ASSUME NEW n \in 0..Len(body), SplitRest(scheme, wild, body) = Cut(n),
             Len(body) > n => body[n + 1] = ":",
             n > 0 /\ body[1] = "[" => body[n] = "]"
      PROVE  \E h \in Seq(Lexemes), tail \in Seq(Lexemes) : Divided(scheme, wild, body, h, tail)
  <2> DEFINE h == Upto(body, n)
             tail == From(body, n + 1)
  <2>1. /\ h \in Seq(Lexemes) /\ Len(h) = n /\ tail \in Seq(Lexemes) /\ Len(tail) = Len(body) - n
        /\ \A i \in 1..n : h[i] = body[i]
        /\ \A i \in 1..Len(body) - n : tail[i] = body[n + i]
        /\ body = h \o tail
    BY ONLY body \in Seq(Lexemes), n \in 0..Len(body), Apart
  <2>2. Cut(n) = IF tail = <<":">> THEN Nil
                 ELSE [scheme |-> scheme, host |-> wild \o Lowered(h), port |-> From(tail, 2)]
    BY DEF WithPort
  <2> HIDE DEF h, tail, Cut
  <2>3. tail # <<":">> /\ SplitRest(scheme, wild, body) =
                 [scheme |-> scheme, host |-> wild \o Lowered(h), port |-> From(tail, 2)]
    BY <1>2, <2>2
  <2>4. tail # <<>> => Len(tail) >= 2 /\ tail[1] = ":"
    <3>1. SUFFICES ASSUME tail # <<>> PROVE Len(tail) >= 2 /\ tail[1] = ":"
      OBVIOUS
    <3>2. Len(tail) \in Nat /\ Len(tail) # 0 /\ n \in Nat
      BY <2>1, <3>1
    <3>3. tail[1] = ":"
      <4>1. 1 \in 1..Len(body) - n /\ Len(body) > n
        BY <1>1, <2>1, <3>2
      <4> QED
        BY <1>2, <2>1, <4>1
    <3>4. Len(tail) # 1
      <4>1. SUFFICES ASSUME Len(tail) = 1 PROVE FALSE
        OBVIOUS
      <4>2. <<":">> \in Seq(Lexemes) /\ Len(<<":">>) = 1 /\ <<":">>[1] = ":"
        <5>1. ":" \in Lexemes
          BY OriginConstants DEF Marks
        <5> QED
          BY <5>1
      <4>3. \A i \in 1..1 : i = 1
        OBVIOUS
      <4>4. \A i \in 1..Len(tail) : tail[i] = <<":">>[i]
        BY <3>3, <4>1, <4>2, <4>3
      <4>5. tail \in Seq(Lexemes) /\ <<":">> \in Seq(Lexemes) /\ Len(tail) = Len(<<":">>)
        BY <2>1, <4>1, <4>2
      <4>6. tail = <<":">>
        BY ONLY <4>4, <4>5, Same
      <4> QED
        BY <2>3, <4>6
    <3>5. Len(tail) >= 2
      <4>1. \A k \in Nat : k # 0 /\ k # 1 => k >= 2
        OBVIOUS
      <4>2. Len(tail) \in Nat /\ Len(tail) # 0 /\ Len(tail) # 1
        BY <3>2, <3>4
      <4> HIDE DEF tail
      <4> QED
        BY ONLY <4>1, <4>2
    <3> QED
      BY <3>3, <3>5
  <2>5. h # <<>> /\ h[1] = "[" => h[Len(h)] = "]"
    <3>1. SUFFICES ASSUME h # <<>>, h[1] = "[" PROVE h[Len(h)] = "]"
      OBVIOUS
    <3>2. n > 0 /\ 1 \in 1..n /\ n \in 1..n
      <4>1. Len(h) # 0
        BY <2>1, <3>1
      <4> QED
        BY <2>1, <4>1
    <3> QED
      BY <1>2, <2>1, <3>1, <3>2
  <2> QED
    BY <2>1, <2>3, <2>4, <2>5 DEF Divided
<1>3. CASE body # <<>> /\ body[1] = "["
  <2> DEFINE T == At("]", body)
             n == Min(T)
  <2>1. T # {} /\ ~ (Len(body) > n /\ body[n + 1] # ":") /\ SplitRest(scheme, wild, body) = Cut(n)
    BY <1>3 DEF SplitRest
  <2>2. T \in SUBSET Nat /\ T \subseteq 1..Len(body) /\ \A i \in T : body[i] = "]"
    BY <1>1 DEF At
  <2> HIDE DEF T, Cut
  <2>3. n \in T
    BY <2>1, <2>2, LeastOf
  <2>4. n \in 0..Len(body) /\ body[n] = "]" /\ (Len(body) > n => body[n + 1] = ":")
    <3>1. n \in 1..Len(body) /\ body[n] = "]"
      BY <2>2, <2>3
    <3> HIDE DEF n
    <3> QED
      BY <1>1, <2>1, <3>1
  <2> HIDE DEF n
  <2> QED
    BY <1>2, <2>1, <2>4 DEF Cut
<1>4. CASE ~ (body # <<>> /\ body[1] = "[")
  <2> DEFINE T == At(":", body)
             n == IF T = {} THEN Len(body) ELSE Max(T) - 1
  <2>1. SplitRest(scheme, wild, body) = Cut(n)
    BY <1>4 DEF SplitRest
  <2>2. T \in SUBSET Nat /\ T \subseteq 1..Len(body) /\ \A i \in T : body[i] = ":"
    BY <1>1 DEF At
  <2> HIDE DEF T, Cut
  <2>3. T # {} => Max(T) \in T
    <3>1. \A k \in T : k <= Len(body)
      BY <1>1, <2>2
    <3> QED
      BY ONLY <1>1, <2>2, <3>1, GreatestOf
  <2>4. n \in 0..Len(body) /\ (Len(body) > n => body[n + 1] = ":")
    <3>1. CASE T = {}
      BY <1>1, <3>1
    <3>2. CASE T # {}
      <4>1. Max(T) \in 1..Len(body) /\ body[Max(T)] = ":" /\ n = Max(T) - 1
        BY <2>2, <2>3, <3>2
      <4>2. n \in 0..Len(body) /\ n + 1 = Max(T)
        BY <1>1, <4>1
      <4> QED
        BY <4>1, <4>2
    <3> QED
      BY <3>1, <3>2
  <2>5. ~ (n > 0 /\ body[1] = "[")
    <3>1. n > 0 => body # <<>>
      BY <1>1, <2>4
    <3> QED
      BY <1>4, <3>1
  <2> HIDE DEF n
  <2> QED
    BY <1>2, <2>1, <2>4, <2>5 DEF Cut
<1> QED
  BY <1>3, <1>4

(* A text begins with the scheme's lexeme and "://".                       *)
LEMMA SplitFound ==
    ASSUME NEW t \in Seq(Lexemes), Split(t) # Nil
    PROVE  \E s \in Lexemes \ Marks, rest \in Seq(Lexemes) :
              /\ t = <<s, "://">> \o rest
              /\ Split(t) = IF IsWild(rest) THEN SplitRest(<<Lower[s]>>, <<"*", ".">>, Parent(rest))
                            ELSE SplitRest(<<Lower[s]>>, <<>>, rest)
<1> DEFINE T == At("://", t)
           i == Min(T)
           s == t[1]
           rest == From(t, 3)
<1>1. Len(t) \in Nat /\ DOMAIN t = 1..Len(t) /\ \A j \in 1..Len(t) : t[j] \in Lexemes
  OBVIOUS
<1>2. T # {} /\ Lowered(Upto(t, i - 1)) \in {<<"http">>, <<"https">>}
  BY DEF Split
<1>3. T \subseteq 1..Len(t) /\ T \in SUBSET Nat /\ \A j \in T : t[j] = "://"
  BY <1>1 DEF At
<1> HIDE DEF T
<1>4. i \in 1..Len(t) /\ t[i] = "://"
  BY <1>2, <1>3, LeastOf
<1> HIDE DEF i
<1>5. i = 2 /\ Lower[s] \in {"http", "https"} /\ Lowered(Upto(t, i - 1)) = <<Lower[s]>>
  <2> DEFINE u == Upto(t, i - 1)
             v == Lowered(u)
  <2>1. i - 1 \in 0..Len(t)
    BY <1>1, <1>4
  <2>2. u \in Seq(Lexemes) /\ Len(u) = i - 1 /\ \A j \in 1..i - 1 : u[j] = t[j]
    BY ONLY <2>1, t \in Seq(Lexemes), Apart
  <2> HIDE DEF u
  <2>3. v \in Seq(Lexemes) /\ Len(v) = Len(u) /\ \A j \in 1..Len(u) : v[j] = Lower[u[j]]
    BY <2>2, LoweredIs
  <2>4. v = <<"http">> \/ v = <<"https">>
    BY <1>2 DEF u
  <2> HIDE DEF v
  <2>5. Len(v) = 1 /\ v[1] \in {"http", "https"} /\ v = <<v[1]>>
    BY <2>4
  <2>6. i = 2 /\ 1 \in 1..i - 1 /\ 1 \in 1..Len(u)
    <3>1. Len(u) = 1
      BY <2>3, <2>5
    <3>2. Len(u) = i - 1
      BY <2>2
    <3>3. i \in Int
      BY <1>1, <1>4
    <3>4. PICK k : k = i
      OBVIOUS
    <3>5. k - 1 = 1 /\ k \in Int
      BY <3>1, <3>2, <3>3, <3>4
    <3>6. k = 2 /\ 1 \in 1..k - 1
      BY ONLY <3>5
    <3>7. 1 \in 1..Len(u)
      BY <3>1
    <3> QED
      BY ONLY <3>4, <3>6, <3>7
  <2>7. v[1] = Lower[s]
    BY <2>2, <2>3, <2>6
  <2> QED
    BY <2>5, <2>6, <2>7 DEF u, v
<1>6. s \in Lexemes \ Marks
  <2>1. s \in Lexemes
    BY <1>1, <1>4, <1>5
  <2>2. {"http", "https"} \intersect Marks = {}
    BY DEF Marks
  <2> QED
    BY <1>5, <2>1, <2>2, OriginConstants
<1>7. rest \in Seq(Lexemes) /\ t = <<s, "://">> \o rest
  <2>1. 2 \in 0..Len(t) /\ 2 + 1 = 3
    BY <1>1, <1>4, <1>5
  <2>2. /\ Upto(t, 2) \in Seq(Lexemes) /\ Len(Upto(t, 2)) = 2
        /\ From(t, 2 + 1) \in Seq(Lexemes)
        /\ \A j \in 1..2 : Upto(t, 2)[j] = t[j]
        /\ t = Upto(t, 2) \o From(t, 2 + 1)
    BY ONLY <2>1, t \in Seq(Lexemes), Apart
  <2>3. Upto(t, 2) = <<s, "://">>
    <3>1. PICK y : y = Upto(t, 2)
      OBVIOUS
    <3>2. y \in Seq(Lexemes) /\ Len(y) = 2 /\ y[1] = s /\ y[2] = "://"
      BY <1>4, <1>5, <2>2, <3>1
    <3>3. y = <<s, "://">>
      <4> HIDE DEF s
      <4>1. \A j \in 1..2 : y[j] = <<s, "://">>[j]
        <5>1. \A j \in 1..2 : j = 1 \/ j = 2
          OBVIOUS
        <5> QED
          BY <3>2, <5>1
      <4>2. <<s, "://">> \in Seq(Lexemes) /\ Len(<<s, "://">>) = 2
        <5>1. "://" \in Lexemes
          BY <1>1, <1>4
        <5> QED
          BY <1>6, <5>1
      <4> QED
        BY <3>2, <4>1, <4>2, Same
    <3> QED
      BY <3>1, <3>3
  <2> QED
    BY <2>1, <2>2, <2>3
<1>8. Split(t) = IF IsWild(rest) THEN SplitRest(<<Lower[s]>>, <<"*", ".">>, Parent(rest))
                 ELSE SplitRest(<<Lower[s]>>, <<>>, rest)
  <2>1. i + 1 = 3
    BY <1>5
  <2> HIDE DEF s
  <2>2. Split(t) = IF IsWild(rest) THEN SplitRest(Lowered(Upto(t, i - 1)), <<"*", ".">>, Parent(rest))
                   ELSE SplitRest(Lowered(Upto(t, i - 1)), <<>>, rest)
    <3>1. Split(t) \in {Nil, IF IsWild(From(t, i + 1)) THEN SplitRest(Lowered(Upto(t, i - 1)), <<"*", ".">>, Parent(From(t, i + 1)))
                   ELSE SplitRest(Lowered(Upto(t, i - 1)), <<>>, From(t, i + 1))}
      BY Zenon DEF Split, i, T
    <3> QED
      BY <2>1, <3>1
  <2> QED
    BY <1>5, <2>2
<1> HIDE DEF s, rest
<1> QED
  BY <1>6, <1>7, <1>8

LEMMA WildParent ==
    ASSUME NEW x \in Seq(Lexemes)
    PROVE  IsWild(<<"*", ".">> \o x) /\ Parent(<<"*", ".">> \o x) = x
<1> DEFINE st == <<"*", ".">>
           y == st \o x
<1>1. st \in Seq(Lexemes) /\ Len(st) = 2 /\ st[1] = "*" /\ st[2] = "."
  BY StarIs
<1> HIDE DEF st
<1>2. st \in Seq(Lexemes)
  BY <1>1
<1>3. /\ y \in Seq(Lexemes) /\ Len(y) = Len(st) + Len(x)
      /\ \A i \in 1..Len(st) : y[i] = st[i]
  BY ONLY <1>2, x \in Seq(Lexemes), Joined
<1>4. From(y, Len(st) + 1) = x
  BY ONLY <1>2, x \in Seq(Lexemes), Halves
<1>5. Len(st) + 1 = 3 /\ 1 \in 1..Len(st) /\ 2 \in 1..Len(st) /\ Len(x) \in Nat
  BY <1>1
<1> HIDE DEF y
<1>6. y[1] = "*" /\ y[2] = "." /\ Len(y) >= 2
  BY <1>1, <1>3, <1>5
<1>7. IsWild(y) /\ Parent(y) = x
  BY <1>3, <1>4, <1>5, <1>6, WildIs DEF Parent
<1> QED
  BY <1>7 DEF y, st

LEMMA WildFound ==
    ASSUME NEW rest \in Seq(Lexemes), IsWild(rest)
    PROVE  Parent(rest) \in Seq(Lexemes) /\ rest = <<"*", ".">> \o Parent(rest)
<1>1. Len(rest) \in Nat /\ Len(rest) >= 2 /\ rest[1] = "*" /\ rest[2] = "."
  BY WildIs
<1>2. 2 \in 0..Len(rest) /\ 2 + 1 = 3
  BY <1>1
<1>3. /\ Upto(rest, 2) \in Seq(Lexemes) /\ Len(Upto(rest, 2)) = 2
      /\ From(rest, 2 + 1) \in Seq(Lexemes)
      /\ \A j \in 1..2 : Upto(rest, 2)[j] = rest[j]
      /\ rest = Upto(rest, 2) \o From(rest, 2 + 1)
  BY ONLY <1>2, rest \in Seq(Lexemes), Apart
<1>4. Upto(rest, 2) = <<"*", ".">>
  <2>1. \A j \in 1..2 : j = 1 \/ j = 2
    OBVIOUS
  <2>2. PICK y : y = Upto(rest, 2)
    OBVIOUS
  <2>3. \A j \in 1..2 : y[j] = <<"*", ".">>[j]
    BY <1>1, <1>3, <2>1, <2>2
  <2>4. y \in Seq(Lexemes) /\ Len(y) = 2
    BY <1>3, <2>2
  <2>5. <<"*", ".">> \in Seq(Lexemes) /\ Len(<<"*", ".">>) = 2
    BY StarIs
  <2>6. y = <<"*", ".">>
    BY <2>3, <2>4, <2>5, Same
  <2> QED
    BY <2>2, <2>6
<1> QED
  BY <1>2, <1>3, <1>4 DEF Parent

LEMMA PortFound ==
    ASSUME NEW tail \in Seq(Lexemes), tail # <<>> => Len(tail) >= 2 /\ tail[1] = ":"
    PROVE  tail = TailOf(From(tail, 2))
<1>1. CASE tail = <<>>
  BY <1>1 DEF TailOf, From
<1>2. CASE tail # <<>>
  <2>1. Len(tail) \in Nat /\ Len(tail) >= 2 /\ tail[1] = ":"
    BY <1>2
  <2>2. 1 \in 0..Len(tail) /\ 1 + 1 = 2
    BY <2>1
  <2>3. /\ Upto(tail, 1) \in Seq(Lexemes) /\ Len(Upto(tail, 1)) = 1
        /\ From(tail, 1 + 1) \in Seq(Lexemes) /\ Len(From(tail, 1 + 1)) = Len(tail) - 1
        /\ \A j \in 1..1 : Upto(tail, 1)[j] = tail[j]
        /\ tail = Upto(tail, 1) \o From(tail, 1 + 1)
    BY ONLY <2>2, tail \in Seq(Lexemes), Apart
  <2>4. Upto(tail, 1) = <<":">>
    <3>1. PICK y : y = Upto(tail, 1)
      OBVIOUS
    <3>2. y \in Seq(Lexemes) /\ Len(y) = 1 /\ y[1] = ":"
      BY <2>1, <2>3, <3>1
    <3>3. y = <<":">>
      BY <3>2
    <3> QED
      BY <3>1, <3>3
  <2>5. From(tail, 2) # <<>>
    <3>1. <<>> \in Seq(Lexemes) /\ Len(<<>>) = 0
      OBVIOUS
    <3>2. Len(From(tail, 2)) >= 1
      BY <2>1, <2>2, <2>3
    <3> QED
      BY <3>1, <3>2
  <2> QED
    BY <2>2, <2>3, <2>4, <2>5 DEF TailOf
<1> QED
  BY <1>1, <1>2

LEMMA EntryFound ==
    ASSUME NEW t \in Seq(Lexemes), CompileRule(t) # Nil
    PROVE  \E e : IsEntry(e) /\ TextOf(e) = t
<1>1. Split(t) # Nil
  BY DEF CompileRule
<1>2. PICK s \in Lexemes \ Marks, rest \in Seq(Lexemes) :
         /\ t = <<s, "://">> \o rest
         /\ Split(t) = IF IsWild(rest) THEN SplitRest(<<Lower[s]>>, <<"*", ".">>, Parent(rest))
                       ELSE SplitRest(<<Lower[s]>>, <<>>, rest)
  BY <1>1, SplitFound
<1> DEFINE wild == IsWild(rest)
           body == IF wild THEN Parent(rest) ELSE rest
<1>3. wild \in BOOLEAN /\ body \in Seq(Lexemes) /\ rest = Stars(wild) \o body
  <2>0. wild \in BOOLEAN
    <3>1. (wild = TRUE) \/ (wild = FALSE)
      BY Zenon DEF IsWild, IsPrefix
    <3> QED
      BY <3>1
  <2>1. CASE wild
    BY <2>0, <2>1, WildFound DEF Stars
  <2>2. CASE ~ wild
    <3>1. <<>> \o rest = rest
      OBVIOUS
    <3>2. body = rest /\ Stars(wild) = <<>>
      BY <2>2 DEF Stars
    <3> QED
      BY <2>0, <3>1, <3>2
  <2> QED
    BY <2>1, <2>2
<1>4. Split(t) = SplitRest(<<Lower[s]>>, Stars(wild), body)
  BY <1>2 DEF Stars
<1> HIDE DEF body
<1>5. PICK h \in Seq(Lexemes), tail \in Seq(Lexemes) : Divided(<<Lower[s]>>, Stars(wild), body, h, tail)
  <2>1. SplitRest(<<Lower[s]>>, Stars(wild), body) # Nil /\ body \in Seq(Lexemes)
    BY <1>1, <1>3, <1>4
  <2> QED
    BY ONLY <2>1, SplitRestFound
<1> DEFINE parts == Split(t)
           port == From(tail, 2)
<1>6. parts.host = Stars(wild) \o Lowered(h) /\ parts.port = port
  <2> HIDE DEF port, wild
  <2>1. parts = [scheme |-> <<Lower[s]>>, host |-> Stars(wild) \o Lowered(h), port |-> port]
    BY <1>4, <1>5 DEF port, Divided
  <2> HIDE DEF parts
  <2> QED
    BY <2>1
<1>7. /\ port \in {<<>>, <<"*">>} \/ ValidatePort(port)
      /\ IF IsWild(parts.host) THEN WildRule(parts, Parent(parts.host)) # Nil
         ELSE ValidateHost(parts.host) # Nil
  <2> HIDE DEF port
  <2> QED
    BY <1>1, <1>6 DEF CompileRule
<1>8. tail = TailOf(port)
  <2>1. tail # <<>> => Len(tail) >= 2 /\ tail[1] = ":"
    BY <1>5 DEF Divided
  <2> QED
    BY <2>1, PortFound
<1>9. port \in {<<>>, <<"*">>} \/ \E q \in Ports : port = <<q>>
  <2>1. ASSUME ValidatePort(port) PROVE \E q \in Ports : port = <<q>>
    <3>1. port \in Seq(Lexemes)
      <4>1. CASE tail = <<>>
        BY <4>1 DEF From
      <4>2. CASE tail # <<>>
        <5>1. 1 \in 0..Len(tail) /\ 1 + 1 = 2
          BY <1>5, <4>2 DEF Divided
        <5>2. From(tail, 1 + 1) \in Seq(Lexemes)
          BY ONLY <5>1, tail \in Seq(Lexemes), Apart
        <5> QED
          BY <5>1, <5>2
      <4> QED
        BY <4>1, <4>2
    <3> HIDE DEF port
    <3>2. Len(port) = 1 /\ port[1] \in Ports
      BY <2>1 DEF ValidatePort
    <3>3. port = <<port[1]>>
      BY <3>1, <3>2
    <3> QED
      BY <3>2, <3>3
  <2> QED
    BY <1>7, <2>1
<1> HIDE DEF parts, port
<1>10. Lowered(h) \in Seq(Lexemes) /\ Len(Lowered(h)) = Len(h) /\ Len(h) \in Nat
       /\ \A i \in 1..Len(h) : Lowered(h)[i] = Lower[h[i]] /\ h[i] \in Lexemes
  BY LoweredIs
<1>11. ValidateHost(Lowered(h)) # Nil
  <2>1. CASE wild
    <3>1. IsWild(parts.host) /\ Parent(parts.host) = Lowered(h)
      BY <1>6, <1>10, <2>1, WildParent DEF Stars
    <3> QED
      BY <1>7, <3>1 DEF WildRule
  <2>2. CASE ~ wild
    <3>1. parts.host = Lowered(h) /\ rest = h \o tail
      <4>1. parts.host = <<>> \o Lowered(h) /\ rest = <<>> \o body
        BY <1>3, <1>6, <2>2 DEF Stars
      <4>2. <<>> \o Lowered(h) = Lowered(h)
        BY ONLY <1>10
      <4>3. <<>> \o body = body
        BY ONLY <1>3
      <4> QED
        BY <1>5, <4>1, <4>2, <4>3 DEF Divided
    <3>2. ~ IsWild(parts.host)
      <4>1. SUFFICES ASSUME IsWild(Lowered(h)) PROVE FALSE
        BY <3>1
      <4>2. Len(h) >= 2 /\ Lowered(h)[1] = "*" /\ Lowered(h)[2] = "."
        BY <1>10, <4>1, WildIs
      <4>3. 1 \in 1..Len(h) /\ 2 \in 1..Len(h)
        BY <1>10, <4>2
      <4>4. Lower[h[1]] = "*" /\ Lower[h[2]] = "." /\ h[1] \in Lexemes /\ h[2] \in Lexemes
        BY <1>10, <4>2, <4>3
      <4>5. h[1] = "*" /\ h[2] = "."
        BY <4>4, MarkIs DEF Marks
      <4>6. /\ Len(rest) = Len(h) + Len(tail) /\ Len(tail) \in Nat
            /\ \A i \in 1..Len(h) : rest[i] = h[i]
        BY <3>1, Joined
      <4>7. Len(rest) >= 2 /\ rest[1] = "*" /\ rest[2] = "."
        BY <1>10, <4>2, <4>3, <4>5, <4>6
      <4> QED
        BY <2>2, <4>7, WildIs
    <3> QED
      BY <1>7, <3>1, <3>2
  <2> QED
    BY <2>1, <2>2
<1>12. PICK L : IsHost(L) /\ Dotted(L) = h
  BY <1>5, <1>11, HostFound DEF Divided
<1> DEFINE e == [scheme |-> s, wild |-> wild, labels |-> L, port |-> port]
<1>13. e.scheme = s /\ e.wild = wild /\ e.labels = L /\ e.port = port
  OBVIOUS
<1>14. IsEntry(e)
  <2>1. e = [scheme |-> e.scheme, wild |-> e.wild, labels |-> e.labels, port |-> e.port]
    OBVIOUS
  <2> HIDE DEF e
  <2> QED
    BY <1>3, <1>9, <1>12, <1>13, <2>1 DEF IsEntry
<1> HIDE DEF e, wild
<1>15. TextOf(e) = <<s, "://">> \o (Stars(wild) \o (h \o TailOf(port)))
  BY <1>12, <1>13, <1>14, EntryIs
<1>16. TextOf(e) = t
  BY <1>2, <1>3, <1>5, <1>8, <1>15 DEF Divided
<1> QED
  BY <1>14, <1>16

LEMMA TrimmedIs ==
    ASSUME NEW t \in Seq(Lexemes)
    PROVE  TrimSpace(t) \in Seq(Lexemes)
<1> DEFINE solid == {i \in DOMAIN t : t[i] # " "}
<1>2. Len(t) \in Nat /\ DOMAIN t = 1..Len(t)
  OBVIOUS
<1>1. solid \in SUBSET Nat /\ \A k \in solid : k \in 1..Len(t) /\ k <= Len(t)
  <2>1. ASSUME NEW k \in solid PROVE k \in 1..Len(t) /\ k <= Len(t)
    <3>1. k \in DOMAIN t
      OBVIOUS
    <3> HIDE DEF solid
    <3> QED
      BY <1>2, <3>1
  <2> HIDE DEF solid
  <2>2. \A k \in solid : k \in Nat
    BY <1>2, <2>1
  <2> QED
    BY <2>1, <2>2
<1>3. CASE solid = {}
  <2>1. TrimSpace(t) = <<>>
    BY <1>3 DEF TrimSpace
  <2>2. <<>> \in Seq(Lexemes)
    OBVIOUS
  <2> QED
    BY <2>1, <2>2
<1>4. CASE solid # {}
  <2>1. TrimSpace(t) = SubSeq(t, Min(solid), Max(solid))
    BY <1>4 DEF TrimSpace
  <2> HIDE DEF solid
  <2>2. Min(solid) \in solid /\ \A k \in solid : Min(solid) <= k
    BY <1>1, <1>4, LeastOf
  <2>3. Max(solid) \in solid
    BY ONLY <1>1, <1>2, <1>4, GreatestOf
  <2>4. PICK a, b : a = Min(solid) /\ b = Max(solid)
    OBVIOUS
  <2>5. a \in 1..Len(t) + 1 /\ b \in a - 1..Len(t)
    <3>1. a \in 1..Len(t) /\ b \in 1..Len(t) /\ a <= b
      BY <1>1, <2>2, <2>3, <2>4
    <3> QED
      BY ONLY <1>2, <3>1
  <2>6. SubSeq(t, a, b) \in Seq(Lexemes)
    BY ONLY <2>5, t \in Seq(Lexemes), Part
  <2> QED
    BY <2>1, <2>4, <2>6
<1> QED
  BY <1>3, <1>4

-----------------------------------------------------------------------------
(* The allowlist, whatever its entries and the pages are.                  *)

LEMMA AllowIs ==
    ASSUME NEW pol, NEW p \in Pages
    PROVE  Allow(pol, Text(p)) \in {Text(p), <<"*">>}
              <=> \/ pol.allowAll
                  \/ \E rule \in pol.rules : Match(rule, <<p.scheme>>, Dotted(p.labels), p.port)
<1> DEFINE h == Dotted(p.labels)
           t == Text(p)
           parts == Split(t)
           matched == \E rule \in pol.rules : Match(rule, <<p.scheme>>, h, p.port)
<1>1. /\ ValidateHost(h) = h /\ h # Nil
      /\ p.port = <<>> \/ ValidatePort(p.port)
      /\ t \in Seq(Lexemes) /\ t # <<>> /\ t = Serialise(<<p.scheme>>, h, p.port)
      /\ parts = [scheme |-> <<p.scheme>>, host |-> h, port |-> p.port] /\ parts # Nil
  BY PageIs
<1> HIDE DEF h, t, parts, matched
<1>2. parts.scheme = <<p.scheme>> /\ parts.host = h /\ parts.port = p.port
  BY <1>1
<1>3. Nil # t /\ Nil # <<"*">>
  <2>1. <<"*">> \in Seq(Lexemes)
    <3>1. "*" \in Lexemes
      BY OriginConstants DEF Marks
    <3> QED
      BY <3>1
  <2> QED
    BY <1>1, <2>1, NilIsNoText
<1>4. Allow(pol, t) = IF pol.allowAll THEN <<"*">> ELSE IF matched THEN t ELSE Nil
  BY <1>1, <1>2 DEF Allow, parts, matched
<1>5. Allow(pol, t) \in {t, <<"*">>} <=> pol.allowAll \/ matched
  BY <1>3, <1>4
<1> QED
  BY <1>5 DEF matched, t, h

(* Every entry of a list that compiles is "*" or some entry's text.        *)
LEMMA ConfigIs ==
    ASSUME NEW c \in Configs, Validate(c)
    PROVE  LET pol == Compile(c.origins) IN
           /\ pol.allowAll <=> \E i \in DOMAIN c.origins : TrimSpace(c.origins[i]) = <<"*">>
           /\ \A i \in DOMAIN c.origins : TrimSpace(c.origins[i]) # <<"*">> =>
                 /\ CompileRule(TrimSpace(c.origins[i])) # Nil
                 /\ CompileRule(TrimSpace(c.origins[i])) \in pol.rules
                 /\ \E e : IsEntry(e) /\ TextOf(e) = TrimSpace(c.origins[i])
           /\ \A rule \in pol.rules : \E i \in DOMAIN c.origins :
                 TrimSpace(c.origins[i]) # <<"*">> /\ rule = CompileRule(TrimSpace(c.origins[i]))
<1> DEFINE entries == {TrimSpace(c.origins[i]) : i \in DOMAIN c.origins}
           rules == {CompileRule(e) : e \in entries \ {<<"*">>}}
           pol == Compile(c.origins)
<1>1. pol # Nil
  BY DEF Validate
<1>2. pol = [allowAll |-> <<"*">> \in entries, rules |-> rules] /\ Nil \notin rules
  BY <1>1 DEF Compile
<1> HIDE DEF pol
<1>3. pol.allowAll = (<<"*">> \in entries) /\ pol.rules = rules
  BY <1>2
<1>4. ASSUME NEW i \in DOMAIN c.origins, TrimSpace(c.origins[i]) # <<"*">>
      PROVE  /\ CompileRule(TrimSpace(c.origins[i])) # Nil
             /\ CompileRule(TrimSpace(c.origins[i])) \in pol.rules
             /\ \E e : IsEntry(e) /\ TextOf(e) = TrimSpace(c.origins[i])
  <2>1. CompileRule(TrimSpace(c.origins[i])) \in rules
    BY <1>4
  <2>2. CompileRule(TrimSpace(c.origins[i])) # Nil
    BY <1>2, <2>1
  <2>3. TrimSpace(c.origins[i]) \in Seq(Lexemes)
    <3>1. c.origins \in Seq(Seq(Lexemes))
      BY EntryConstants
    <3>2. c.origins[i] \in Seq(Lexemes)
      BY <3>1
    <3> QED
      BY <3>2, TrimmedIs
  <2> QED
    BY <1>3, <2>1, <2>2, <2>3, EntryFound
<1>5. \A rule \in pol.rules : \E i \in DOMAIN c.origins :
         TrimSpace(c.origins[i]) # <<"*">> /\ rule = CompileRule(TrimSpace(c.origins[i]))
  BY <1>3
<1>6. pol.allowAll <=> \E i \in DOMAIN c.origins : TrimSpace(c.origins[i]) = <<"*">>
  BY <1>3
<1> QED
  BY <1>4, <1>5, <1>6 DEF pol

(* A configuration's list says e: one of its entries, trimmed, is e's text. *)
Says(c, e) == IsEntry(e) /\ \E i \in DOMAIN c.origins : TextOf(e) = TrimSpace(c.origins[i])

(* An allowlist that Validate accepts allows a page exactly if it holds "*" *)
(* or the text of an entry that means the page, label by label: whatever    *)
(* the lexemes, the entries' spelling, case and padding, and the pages are  *)
(* (split, validateHost, compileRule, matches, Allow).                      *)
THEOREM AllowlistExact ==
    \A c \in Configs, p \in Pages : Validate(c) =>
        (Allow(Compile(c.origins), Text(p)) \in {Text(p), <<"*">>}
            <=> \/ \E i \in DOMAIN c.origins : TrimSpace(c.origins[i]) = <<"*">>
                \/ \E e : Says(c, e) /\ Admits(e, p))
<1> SUFFICES ASSUME NEW c \in Configs, NEW p \in Pages, Validate(c)
             PROVE  Allow(Compile(c.origins), Text(p)) \in {Text(p), <<"*">>}
                       <=> \/ \E i \in DOMAIN c.origins : TrimSpace(c.origins[i]) = <<"*">>
                           \/ \E e : Says(c, e) /\ Admits(e, p)
  OBVIOUS
<1> DEFINE pol == Compile(c.origins)
           any == \E i \in DOMAIN c.origins : TrimSpace(c.origins[i]) = <<"*">>
           matches(rule) == Match(rule, <<p.scheme>>, Dotted(p.labels), p.port)
<1>1. Allow(pol, Text(p)) \in {Text(p), <<"*">>} <=> any \/ \E rule \in pol.rules : matches(rule)
  <2>1. pol.allowAll <=> any
    BY ConfigIs
  <2> QED
    BY <2>1, AllowIs
<1>2. ASSUME NEW rule \in pol.rules, matches(rule) PROVE \E e : Says(c, e) /\ Admits(e, p)
  <2>1. PICK i \in DOMAIN c.origins :
           TrimSpace(c.origins[i]) # <<"*">> /\ rule = CompileRule(TrimSpace(c.origins[i]))
    BY ConfigIs
  <2>2. PICK e : IsEntry(e) /\ TextOf(e) = TrimSpace(c.origins[i])
    BY <2>1, ConfigIs
  <2>3. CompileRule(TextOf(e)) # Nil /\ rule = CompileRule(TextOf(e))
    BY <2>1, <2>2, ConfigIs
  <2>4. Admits(e, p)
    BY <1>2, <2>2, <2>3, MatchIs
  <2> QED
    BY <2>2, <2>4 DEF Says
<1>3. ASSUME NEW e, Says(c, e), Admits(e, p) PROVE any \/ \E rule \in pol.rules : matches(rule)
  <2>1. PICK i \in DOMAIN c.origins : TextOf(e) = TrimSpace(c.origins[i])
    BY <1>3 DEF Says
  <2>2. CASE TrimSpace(c.origins[i]) = <<"*">>
    BY <2>2
  <2>3. CASE TrimSpace(c.origins[i]) # <<"*">>
    <3>1. CompileRule(TextOf(e)) # Nil /\ CompileRule(TextOf(e)) \in pol.rules
      BY <2>1, <2>3, ConfigIs
    <3>2. matches(CompileRule(TextOf(e)))
      BY <1>3, <3>1, MatchIs DEF Says
    <3> HIDE DEF pol, matches
    <3> QED
      BY <3>1, <3>2
  <2> QED
    BY <2>2, <2>3
<1> HIDE DEF pol, any, matches
<1>4. Allow(pol, Text(p)) \in {Text(p), <<"*">>} <=> any \/ \E e : Says(c, e) /\ Admits(e, p)
  BY <1>1, <1>2, <1>3
<1> QED
  BY <1>4 DEF pol, any

(* Entries holds whatever an accepted list says.                           *)
EveryMeaning == \A c \in Configs : Validate(c) => \A e : Says(c, e) => e \in Entries

LEMMA MeaningExact == EveryMeaning => AllowlistMeant
<1> SUFFICES ASSUME EveryMeaning, NEW c \in Configs, NEW p \in Pages, Validate(c)
             PROVE  Allow(Compile(c.origins), Text(p)) \in {Text(p), <<"*">>} <=> NamedBy(c, p)
  BY DEF AllowlistMeant
<1>1. \A e : e \in Meant[c] <=> Says(c, e)
  <2>1. \A e \in Entries : IsEntry(e)
    BY EntryConstants
  <2> QED
    BY <2>1 DEF EveryMeaning, Meant, Says
<1>2. NamedBy(c, p) <=> \/ \E i \in DOMAIN c.origins : TrimSpace(c.origins[i]) = <<"*">>
                        \/ \E e : Says(c, e) /\ Admits(e, p)
  BY <1>1 DEF NamedBy
<1> QED
  BY <1>2, AllowlistExact

(* A value that Validate accepts is a word.                                *)
LEMMA WordIs ==
    ASSUME NEW text, IsList(text), ~ Padded(text), ~ SeveralWords(text)
    PROVE  Word(text)
<1>1. Len(text) \in Nat /\ DOMAIN text = 1..Len(text)
  BY DEF IsList
<1>2. SUFFICES ASSUME NEW j \in DOMAIN text, text[j] = " " PROVE FALSE
  BY DEF Word
<1>3. text # <<>>
  <2>1. j \in 1..Len(text) /\ Len(<<>>) = 0
    BY <1>1, <1>2
  <2> QED
    BY <2>1
<1>4. text[1] # " " /\ text[Len(text)] # " "
  BY <1>3 DEF Padded
<1>5. 1 < j /\ j < Len(text) /\ 1 \in DOMAIN text /\ Len(text) \in DOMAIN text
  <2>1. j \in 1..Len(text) /\ j # 1 /\ j # Len(text)
    BY <1>1, <1>2, <1>4
  <2>2. 1 \in 1..Len(text) /\ Len(text) \in 1..Len(text) /\ 1 < j /\ j < Len(text)
    BY ONLY <1>1, <2>1
  <2> QED
    BY <1>1, <2>2
<1> QED
  BY <1>2, <1>4, <1>5 DEF SeveralWords

LEMMA NameIs ==
    ASSUME NEW text, ~ Blank(text), ~ Padded(text)
    PROVE  IsName(text)
<1>1. text # <<>>
  <2>1. Blank(<<>>)
    <3>1. DOMAIN <<>> = {}
      <4>1. <<>> \in Seq({}) /\ Len(<<>>) = 0
        OBVIOUS
      <4>2. DOMAIN <<>> = 1..0
        BY <4>1
      <4> QED
        BY <4>2
    <3> QED
      BY <3>1 DEF Blank
  <2> QED
    BY <2>1
<1> QED
  BY <1>1 DEF Padded, IsName

(* An accepted policy serves a token that can be issued, for each client.  *)
LEMMA ServiceServes ==
    ASSUME EveryClaim, NEW c \in Configs, Validate(c), c.service.enabled
    PROVE  LET served == {t \in Tokens : Issued(t) /\ 200 \in ServeService(c.service, t, TRUE)}
           IN  /\ served # {}
               /\ \A i \in DOMAIN c.service.clients : \E t \in served : t.client = c.service.clients[i]
<1> DEFINE s == c.service
           served == {t \in Tokens : Issued(t) /\ 200 \in ServeService(s, t, TRUE)}
<1>1. IsList(s.audience) /\ IsList(s.scope) /\ IsList(s.clients)
  BY EntryConstants
<1>2. /\ \A value \in {s.audience, s.scope} : ~ Padded(value) /\ ~ SeveralWords(value)
      /\ \A i \in DOMAIN s.clients : ~ Blank(s.clients[i]) /\ ~ Padded(s.clients[i])
  BY DEF Validate, ValidateServiceTokens
<1>3. Word(s.audience) /\ Word(s.scope)
  BY <1>1, <1>2, WordIs
<1>4. ASSUME NEW t \in Tokens, Issued(t), Claims(t, s), ClientAllowed(s, t.client)
      PROVE  t \in served
  <2>1. Parse(t, "at+jwt", TRUE) = {"ok"}
    BY <1>4 DEF Parse, Issued
  <2>2. AudienceOK(s, t) /\ ScopeOK(s, t)
    BY <1>4 DEF Claims, AudienceOK, ScopeOK
  <2>3. 200 \in ServeService(s, t, TRUE)
    BY <1>4, <2>1, <2>2 DEF ServeService
  <2> QED
    BY <1>4, <2>3
<1>5. ASSUME NEW i \in DOMAIN s.clients PROVE \E t \in served : t.client = s.clients[i]
  <2>1. IsName(s.clients[i])
    BY <1>2, <1>5, NameIs
  <2>2. PICK t \in Tokens : Issued(t) /\ Claims(t, s) /\ t.client = s.clients[i]
    BY <1>3, <1>5, <2>1 DEF EveryClaim
  <2>3. ClientAllowed(s, t.client)
    BY <1>5, <2>2 DEF ClientAllowed
  <2> QED
    BY <1>4, <2>2, <2>3
<1>6. served # {}
  <2>1. CASE s.clients = <<>>
    <3>1. PICK t \in Tokens : Issued(t) /\ Claims(t, s)
      BY <1>3 DEF EveryClaim
    <3>2. ClientAllowed(s, t.client)
      BY <2>1 DEF ClientAllowed
    <3> QED
      BY <1>4, <3>1, <3>2
  <2>2. CASE s.clients # <<>>
    <3>1. 1 \in DOMAIN s.clients
      <4> DEFINE l == s.clients
      <4>1. l \in Seq({l[i] : i \in DOMAIN l}) /\ l # <<>>
        BY <1>1, <2>2 DEF IsList
      <4> HIDE DEF l
      <4>2. 1 \in DOMAIN l
        BY <4>1
      <4> QED
        BY <4>2 DEF l
    <3> QED
      BY <1>5, <3>1
  <2> QED
    BY <2>1, <2>2
<1> QED
  BY <1>5, <1>6

(* Nil is none of the texts the code compares it with.                     *)
LEMMA NilTexts == Nil # <<>> /\ Nil # <<"*">> /\ \A p \in Pages : Nil # Text(p)
<1>1. <<>> \in Seq(Lexemes)
  OBVIOUS
<1>2. <<"*">> \in Seq(Lexemes)
  <2>1. "*" \in Lexemes
    BY OriginConstants DEF Marks
  <2> QED
    BY <2>1
<1> QED
  BY <1>1, <1>2, PageIs, NilIsNoText

-----------------------------------------------------------------------------
(* Who can read an answer.  Every kept answer was decided for the origin it *)
(* is kept under, and so every answer a page gets was decided for the page. *)

(* The value of Access-Control-Allow-Origin for an origin on a path.       *)
Decided(path, origin) == IF path \in PublicRoutes THEN <<"*">> ELSE Allow(policy, origin)

EdgeDecided ==
    \A e \in edge :
        IF e.path \in PublicRoutes THEN e.res.acao = <<"*">>
        ELSE IF Enabled(policy) THEN e.origin # Nil /\ e.res.acao = Allow(policy, e.origin)
        ELSE e.res.acao = Nil

(* A page's exchange was answered as decided for the page's own origin; a   *)
(* preflight, of a guarded route only, is approved unless that is a refusal. *)
LastDecided ==
    last # Nil =>
        /\ policy # Nil
        /\ last.page # Nil =>
              /\ last.page \in Pages
              /\ last.res.acao = Decided(last.req.path, Text(last.page))
              /\ last.req.method = "OPTIONS" =>
                    /\ last.req.path \notin PublicRoutes
                    /\ Enabled(policy) /\ last.res.acao # Nil => last.res.approved

Compiled ==
    /\ config \in Configs
    /\ policy # Nil => Validate(config) /\ policy = Compile(config.origins)

CorsInv == Compiled /\ EdgeDecided /\ LastDecided

(* Without entries nobody is allowed.                                      *)
LEMMA NobodyAllowed ==
    ASSUME NEW pol, ~Enabled(pol), NEW origin
    PROVE  Allow(pol, origin) = Nil
BY DEF Allow, Enabled

LEMMA AnswersDecided ==
    ASSUME NEW req, NEW res \in Answers(req)
    PROVE  /\ res.acao = Decided(req.path, req.origin)
           /\ req.path \notin PublicRoutes => res.vary = Enabled(policy)
           /\ req.method = "OPTIONS" /\ Enabled(policy) => res.approved = (res.acao # Nil)
<1> DEFINE d == DecideCORS(req.path, req.origin)
<1>1. /\ res.acao = d.value /\ res.vary = d.vary
      /\ req.method = "OPTIONS" /\ Enabled(policy) => res.approved = (d.value # Nil)
  <2> HIDE DEF d
  <2>1. CASE req.method = "OPTIONS" /\ Enabled(policy)
    BY <2>1 DEF Answers, d
  <2>2. CASE ~(req.method = "OPTIONS" /\ Enabled(policy))
    BY <2>2 DEF Answers, d
  <2> QED
    BY <2>1, <2>2
<1>2. d.value = Decided(req.path, req.origin)
  BY DEF DecideCORS, Decided
<1>3. req.path \notin PublicRoutes => d.vary = Enabled(policy)
  BY DEF DecideCORS
<1> HIDE DEF d
<1> QED
  BY <1>1, <1>2, <1>3

(* What is kept is kept under the origin it was decided for.               *)
LEMMA KeptDecided ==
    ASSUME EdgeDecided, NEW req, req.origin # Nil, NEW res \in Answers(req),
           policy' = policy, edge' \in {edge, edge \union {Key(req, res)}}
    PROVE  EdgeDecided'
<1> DEFINE k == Key(req, res)
<1>1. /\ k.path = req.path /\ k.res = res
      /\ k.origin = IF res.vary THEN req.origin ELSE Nil
  BY DEF Key
<1>2. IF k.path \in PublicRoutes THEN k.res.acao = <<"*">>
      ELSE IF Enabled(policy) THEN k.origin # Nil /\ k.res.acao = Allow(policy, k.origin)
      ELSE k.res.acao = Nil
  BY <1>1, AnswersDecided, NobodyAllowed DEF Decided
<1> HIDE DEF k
<1>3. \A e \in edge' :
        IF e.path \in PublicRoutes THEN e.res.acao = <<"*">>
        ELSE IF Enabled(policy) THEN e.origin # Nil /\ e.res.acao = Allow(policy, e.origin)
        ELSE e.res.acao = Nil
  BY <1>2 DEF EdgeDecided, k
<1> QED
  BY <1>3 DEF EdgeDecided

(* An answer from the cache is what the service would have decided.        *)
LEMMA HitsDecided ==
    ASSUME EdgeDecided, NEW req, NEW e \in Hits(req)
    PROVE  e.res.acao = Decided(req.path, req.origin) /\ req.method = "GET"
<1>1. e \in edge /\ e.path = req.path /\ e.origin \in {req.origin, Nil} /\ req.method = "GET"
  BY DEF Hits
<1> QED
  BY <1>1, NobodyAllowed DEF EdgeDecided, Decided

LEMMA ExchangeDecided ==
    ASSUME CorsInv, policy # Nil, NEW who, NEW req, Exchange(who, req), req.origin # Nil,
           who # Nil => who \in Pages /\ req.origin = Text(who),
           req.method = "OPTIONS" => req.path \notin PublicRoutes
    PROVE  CorsInv'
<1>1. config' = config /\ policy' = policy
  BY DEF Exchange
<1>2. Compiled'
  BY <1>1 DEF CorsInv, Compiled
<1>3. ASSUME NEW res, last' = [page |-> who, req |-> req, res |-> res],
             res.acao = Decided(req.path, req.origin),
             req.method = "OPTIONS" /\ res.acao # Nil /\ Enabled(policy) => res.approved
      PROVE  LastDecided'
  <2>1. last'.page = who /\ last'.req = req /\ last'.res = res
    BY <1>3
  <2>2. Decided(req.path, req.origin)' = Decided(req.path, req.origin)
    BY <1>1 DEF Decided
  <2> QED
    BY <1>1, <1>3, <2>1, <2>2 DEF LastDecided, Decided
<1>4. CASE \E res \in Answers(req) :
             /\ last' = [page |-> who, req |-> req, res |-> res]
             /\ \/ edge' = edge
                \/ Storable(req, res) /\ edge' = edge \union {Key(req, res)}
  <2>1. PICK res \in Answers(req) :
             /\ last' = [page |-> who, req |-> req, res |-> res]
             /\ edge' \in {edge, edge \union {Key(req, res)}}
    BY <1>4
  <2>2. EdgeDecided'
    BY <1>1, <2>1, KeptDecided DEF CorsInv
  <2>3. LastDecided'
    BY <1>3, <2>1, AnswersDecided
  <2> QED
    BY <1>2, <2>2, <2>3 DEF CorsInv
<1>5. CASE \E e \in Hits(req) :
             /\ last' = [page |-> who, req |-> req, res |-> e.res]
             /\ edge' = edge
  <2>1. PICK e \in Hits(req) :
             /\ last' = [page |-> who, req |-> req, res |-> e.res]
             /\ edge' = edge
    BY <1>5
  <2>2. EdgeDecided'
    BY <1>1, <2>1 DEF CorsInv, EdgeDecided
  <2>3. LastDecided'
    BY <1>3, <2>1, HitsDecided DEF CorsInv
  <2> QED
    BY <1>2, <2>2, <2>3 DEF CorsInv
<1> QED
  BY <1>4, <1>5 DEF Exchange

LEMMA CorsInit == Init => CorsInv
<1> SUFFICES ASSUME Init PROVE CorsInv
  OBVIOUS
<1>1. Compiled
  BY DEF Init, Compiled
<1>2. EdgeDecided /\ LastDecided
  BY DEF Init, EdgeDecided, LastDecided
<1> QED
  BY <1>1, <1>2 DEF CorsInv

(* Requests carry the origin of the page that makes them.                  *)
LEMMA CorsNext == CorsInv /\ [Next]_vars => CorsInv'
<1> SUFFICES ASSUME CorsInv, [Next]_vars PROVE CorsInv'
  OBVIOUS
<1>1. CASE UNCHANGED <<config, policy, edge, last>>
  BY <1>1 DEF CorsInv, Compiled, EdgeDecided, LastDecided, Decided
<1>2. ASSUME policy # Nil, NEW p \in Pages, NEW method, NEW path, NEW auth,
             method = "OPTIONS" => path \in Routes,
             Exchange(p, Request(method, path, Text(p), auth))
      PROVE  CorsInv'
  <2> DEFINE req == Request(method, path, Text(p), auth)
  <2>1. req.origin = Text(p) /\ (req.method = "OPTIONS" => req.path \notin PublicRoutes)
    BY <1>2, AccessConstants DEF Request
  <2>2. Exchange(p, req) /\ Text(p) # Nil
    BY <1>2, NilTexts
  <2> HIDE DEF req
  <2> QED
    BY <1>2, <2>1, <2>2, ExchangeDecided
<1>3. ASSUME policy # Nil, NEW path, NEW header, Call(path, header)
      PROVE  CorsInv'
  <2> DEFINE req == Request("GET", path, <<>>, header)
  <2>1. req.origin = <<>> /\ Nil # <<>> /\ req.method = "GET"
    BY NilTexts DEF Request
  <2>2. Exchange(Nil, req)
    BY <1>3 DEF Call
  <2> HIDE DEF req
  <2> QED
    BY <1>3, <2>1, <2>2, ExchangeDecided
<1>4. ASSUME policy # Nil, NEW p \in Pages, NEW path \in Routes, Preflight(p, path)
      PROVE  CorsInv'
  BY <1>2, <1>4, Zenon DEF Preflight
<1>5. ASSUME policy # Nil, NEW p \in Pages, NEW path, NEW token, Fetch(p, path, token)
      PROVE  CorsInv'
  <2>1. Exchange(p, Request("GET", path, Text(p), Header(token)))
    BY <1>5 DEF Fetch
  <2>2. "GET" # "OPTIONS"
    OBVIOUS
  <2> QED
    BY <1>2, <1>5, <2>1, <2>2, Zenon
<1>6. KeysChange \/ (\E p \in Pages, token \in Tokens : Login(p, token)) \/ UNCHANGED vars
        => UNCHANGED <<config, policy, edge, last>>
  BY DEF KeysChange, Login, vars
<1>7. CASE Next
  <2>1. policy # Nil
    BY <1>7 DEF Next
  <2>2. \/ UNCHANGED <<config, policy, edge, last>>
        \/ \E p \in Pages, path \in Routes : Preflight(p, path)
        \/ \E p \in Pages : \E path, token : Fetch(p, path, token)
        \/ \E path, header : Call(path, header)
    BY <1>6, <1>7, Zenon DEF Next
  <2> QED
    BY <1>1, <1>3, <1>4, <1>5, <2>1, <2>2
<1> QED
  BY <1>1, <1>6, <1>7

(* A page can read an answer, the service's or a cache's, exactly if the    *)
(* route is public or the compiled allowlist allows the page's own origin,  *)
(* whoever else's answers the cache kept (withCORS, Allow, Vary: Origin).   *)
ReadableIffAllowed ==
    last # Nil => (last.page # Nil =>
        (Readable(last.page, last.res)
            <=> \/ last.req.path \in PublicRoutes
                \/ Allow(policy, Text(last.page)) \in {Text(last.page), <<"*">>}))

(* Every page reads just that, for any configuration, cache and keys: no    *)
(* step of withCORS, newMux or the cache answers one origin for another.    *)
THEOREM ReadableAsAllowed == Spec => []ReadableIffAllowed
<1>1. CorsInv => ReadableIffAllowed
  BY DEF CorsInv, LastDecided, Decided, ReadableIffAllowed, Readable
<1> QED
  BY <1>1, CorsInit, CorsNext, PTL DEF Spec

(* If Entries holds whatever the accepted lists say, a page can read an     *)
(* answer of a guarded route exactly if an entry names it, through any      *)
(* cache and at any status, and its preflights are approved (withCORS,      *)
(* newMux, Compile, Allow).                                                 *)
THEOREM ReadableAsNamed ==
    ASSUME EveryMeaning
    PROVE  Spec => []ReadableIffNamed
<1>1. CorsInv => ReadableIffNamed
  <2> SUFFICES ASSUME CorsInv, last # Nil, last.page # Nil
               PROVE  /\ Readable(last.page, last.res)
                           <=> Named(last.page) \/ last.req.path \in PublicRoutes
                      /\ last.req.method = "OPTIONS" /\ Named(last.page) => last.res.approved
    BY DEF ReadableIffNamed
  <2> DEFINE p       == last.page
             allowed == Allow(policy, Text(p))
  <2>1. /\ p \in Pages
        /\ config \in Configs /\ Validate(config) /\ policy = Compile(config.origins)
        /\ last.res.acao = Decided(last.req.path, Text(p))
        /\ last.req.method = "OPTIONS" =>
              /\ last.req.path \notin PublicRoutes
              /\ Enabled(policy) /\ last.res.acao # Nil => last.res.approved
    BY DEF CorsInv, Compiled, LastDecided
  <2>2. allowed \in {Text(p), <<"*">>} <=> Named(p)
    BY <2>1, MeaningExact DEF AllowlistMeant, Named
  <2>3. Readable(p, last.res) <=> Named(p) \/ last.req.path \in PublicRoutes
    BY <2>1, <2>2 DEF Readable, Decided
  <2>4. ASSUME last.req.method = "OPTIONS", Named(p) PROVE last.res.approved
    <3>1. allowed # Nil
      BY <2>1, <2>2, <2>4, NilTexts
    <3>2. Enabled(policy)
      BY <3>1, NobodyAllowed
    <3> QED
      BY <2>1, <2>4, <3>1, <3>2 DEF Decided
  <2> QED
    BY <2>3, <2>4
<1> QED
  BY <1>1, CorsInit, CorsNext, PTL DEF Spec

-----------------------------------------------------------------------------
(* The origin that browsers send for an entry's host, and what it meets.    *)

(* A canonical address is its own canonical form.                          *)
LEMMA AddressStays ==
    ASSUME NEW l, IsAddress(l)
    PROVE  LET c == Canonical(l) IN
           IsAddress(c) /\ Lowered(c) = c /\ ValidateHost(c) = c
<1> DEFINE inner == Lowered(SubSeq(l, 2, Len(l) - 1))
           v == IPv6[inner]
           left == <<"[">>
           right == <<"]">>
           c == left \o v \o right
<1>1. /\ v \in DOMAIN IPv6 /\ v \in Seq(Lexemes) /\ IPv6[v] = v
      /\ \A i \in DOMAIN v : Lower[v[i]] = v[i]
  <2>1. inner \in DOMAIN IPv6
    BY DEF IsAddress
  <2> QED
    BY <2>1, OriginConstants
<1>2. /\ left \in Seq(Lexemes) /\ right \in Seq(Lexemes) /\ Len(left) = 1 /\ Len(right) = 1
      /\ left[1] = "[" /\ right[1] = "]" /\ Lower["["] = "[" /\ Lower["]"] = "]"
  <2>1. "[" \in Lexemes /\ "]" \in Lexemes /\ Lower["["] = "[" /\ Lower["]"] = "]"
    BY OriginConstants DEF Marks
  <2> QED
    BY <2>1
<1>3. Canonical(l) = c
  BY DEF Canonical
<1> HIDE DEF v, left, right
<1>4. Len(v) \in Nat /\ DOMAIN v = 1..Len(v)
  BY <1>1
<1>5. PICK m \in Nat : m = Len(v)
  BY <1>4
<1>6. /\ left \o v \in Seq(Lexemes) /\ Len(left \o v) = 1 + m
      /\ (left \o v)[1] = "[" /\ \A i \in 1..m : (left \o v)[1 + i] = v[i]
  <2>1. v \in Seq(Lexemes) /\ left \in Seq(Lexemes)
    BY <1>1, <1>2
  <2>2. /\ left \o v \in Seq(Lexemes) /\ Len(left \o v) = Len(left) + Len(v)
        /\ \A i \in 1..Len(left) : (left \o v)[i] = left[i]
        /\ \A i \in 1..Len(v) : (left \o v)[Len(left) + i] = v[i]
    BY ONLY <2>1, Joined
  <2>3. 1 \in 1..Len(left)
    BY <1>2
  <2> QED
    BY <1>2, <1>5, <2>2, <2>3
<1>7. /\ c \in Seq(Lexemes) /\ Len(c) = m + 2
      /\ c[1] = "[" /\ c[m + 2] = "]" /\ \A i \in 1..m : c[1 + i] = v[i]
  <2> DEFINE a == left \o v
  <2>1. a \in Seq(Lexemes) /\ Len(a) = 1 + m /\ a[1] = "[" /\ \A i \in 1..m : a[1 + i] = v[i]
    BY <1>6
  <2> HIDE DEF a
  <2>2. /\ a \o right \in Seq(Lexemes) /\ Len(a \o right) = Len(a) + Len(right)
        /\ \A i \in 1..Len(a) : (a \o right)[i] = a[i]
        /\ \A i \in 1..Len(right) : (a \o right)[Len(a) + i] = right[i]
    BY ONLY <1>2, <2>1, Joined
  <2>3. c = a \o right
    BY DEF a
  <2> HIDE DEF c
  <2>4. 1 \in 1..Len(a) /\ 1 \in 1..Len(right) /\ Len(a) + 1 = m + 2 /\ Len(a) + Len(right) = m + 2
        /\ \A i \in 1..m : 1 + i \in 1..Len(a)
    BY <1>2, <2>1
  <2> QED
    BY <1>2, <2>1, <2>2, <2>3, <2>4
<1> HIDE DEF c
<1>8. SubSeq(c, 2, Len(c) - 1) = v
  <2> DEFINE b == m + 1
             u == SubSeq(c, 2, b)
  <2>1. b \in 2 - 1..Len(c) /\ 2 \in 1..Len(c) + 1 /\ b - 2 + 1 = m /\ Len(c) - 1 = b
    BY <1>7
  <2> HIDE DEF b
  <2>2. u \in Seq(Lexemes) /\ Len(u) = b - 2 + 1 /\ \A i \in 1..b - 2 + 1 : u[i] = c[2 + i - 1]
    BY <1>7, <2>1, Part
  <2> HIDE DEF u
  <2>3. u \in Seq(Lexemes) /\ v \in Seq(Lexemes) /\ Len(u) = Len(v)
    BY <1>1, <1>5, <2>1, <2>2
  <2>4. ASSUME NEW i \in 1..Len(u) PROVE u[i] = v[i]
    <3>1. i \in 1..m /\ 2 + i - 1 = 1 + i
      BY <1>5, <2>3, <2>4
    <3> QED
      BY <1>7, <2>1, <2>2, <3>1
  <2>5. u = v
    BY ONLY <2>3, <2>4, Same
  <2> QED
    BY <2>1, <2>5 DEF u
<1>9. Lowered(c) = c
  <2>1. Lowered(c) \in Seq(Lexemes) /\ Len(Lowered(c)) = Len(c) /\ \A i \in 1..Len(c) : Lowered(c)[i] = Lower[c[i]]
    BY <1>7, LoweredIs
  <2>2. ASSUME NEW i \in 1..Len(c) PROVE Lower[c[i]] = c[i]
    <3>1. i = 1 \/ i = m + 2 \/ (i - 1 \in 1..m /\ 1 + (i - 1) = i)
      BY <1>7
    <3>2. CASE i - 1 \in 1..m /\ 1 + (i - 1) = i
      <4>1. c[i] = v[i - 1]
        BY <1>7, <3>2
      <4> QED
        BY <1>1, <1>4, <1>5, <3>2, <4>1
    <3> QED
      BY <1>2, <1>7, <3>1, <3>2
  <2> DEFINE x == Lowered(c)
  <2>3. x \in Seq(Lexemes) /\ c \in Seq(Lexemes) /\ Len(x) = Len(c) /\ \A i \in 1..Len(x) : x[i] = c[i]
    BY <1>7, <2>1, <2>2
  <2> HIDE DEF x
  <2>4. x = c
    BY ONLY <2>3, Same
  <2> QED
    BY <2>4 DEF x
<1>10. Lowered(v) = v
  <2>1. v = [i \in DOMAIN v |-> v[i]]
    BY <1>1
  <2> QED
    BY <1>1, <2>1 DEF Lowered
<1>11. IsAddress(c)
  <2>1. Len(c) >= 2 /\ c[Len(c)] = "]"
    BY <1>7
  <2> QED
    BY <1>1, <1>7, <1>8, <1>10, <2>1 DEF IsAddress
<1>12. ValidateHost(c) = c
  <2>1. c # <<>>
    <3>1. Len(<<>>) = 0
      OBVIOUS
    <3> QED
      BY <1>7, <3>1
  <2>2. ValidateHost(c) = <<"[">> \o IPv6[v] \o <<"]">>
    BY <1>1, <1>7, <1>8, <2>1 DEF ValidateHost
  <2> QED
    BY <1>1, <2>2 DEF c, left, right
<1> QED
  BY <1>3, <1>9, <1>11, <1>12

(* The lexemes of a valid name.                                            *)
Letters == Names \union {"-", "."}

LEMMA NameHost ==
    ASSUME NEW h \in Seq(Plain \union {"."})
    PROVE  /\ Len(h) \in Nat
           /\ ValidateHost(h) = h /\ h # Nil <=>
                 /\ h # Nil
                 /\ Len(h) >= 1 /\ \A i \in 1..Len(h) : h[i] \in Letters
                 /\ h[1] \notin {"-", "."} /\ h[Len(h)] \notin {"-", "."}
                 /\ \A i \in 1..Len(h) - 1 :
                       ~ \/ h[i] = "." /\ h[i + 1] \in {".", "-"}
                         \/ h[i] = "-" /\ h[i + 1] = "."
<1>1. Len(h) \in Nat /\ DOMAIN h = 1..Len(h) /\ (h = <<>> <=> Len(h) = 0)
  OBVIOUS
<1>2. h # <<>> => h[1] # "["
  BY NoBracket
<1>3. ({h[1], h[Len(h)]} \intersect {"-", "."} = {})
         <=> h[1] \notin {"-", "."} /\ h[Len(h)] \notin {"-", "."}
  OBVIOUS
<1>4. h # <<>> <=> Len(h) >= 1
  BY <1>1
<1> QED
  BY <1>1, <1>2, <1>3, <1>4 DEF ValidateHost, Letters

LEMMA LettersStay ==
    ASSUME NEW h \in Seq(Lexemes), \A i \in 1..Len(h) : h[i] \in Letters
    PROVE  Lowered(h) = h
<1>1. DOMAIN h = 1..Len(h) /\ h = [i \in DOMAIN h |-> h[i]]
  OBVIOUS
<1>2. \A x \in Letters : Lower[x] = x
  BY OriginConstants DEF Letters, Marks
<1> QED
  BY <1>1, <1>2 DEF Lowered

(* A browser's host: valid and in canonical form.                          *)
BrowserForm(h) == h \in HostTexts /\ h # <<>> /\ h # Nil /\ Lowered(h) = h /\ ValidateHost(h) = h

(* A valid name stays valid with its first word as a label before it.      *)
LEMMA BelowValid ==
    ASSUME NEW h \in Seq(Plain \union {"."}), ValidateHost(h) = h, h # Nil
    PROVE  /\ BrowserForm(h) /\ BrowserForm(<<h[1], ".">> \o h)
           /\ Len(<<h[1], ".">> \o h) > Len(<<".">> \o h)
           /\ IsSuffix(<<".">> \o h, <<h[1], ".">> \o h)
<1> DEFINE C == Plain \union {"."}
           head == <<h[1], ".">>
           b == head \o h
<1>1. /\ Len(h) \in Nat /\ Len(h) >= 1 /\ \A i \in 1..Len(h) : h[i] \in Letters
      /\ h[1] \notin {"-", "."} /\ h[Len(h)] \notin {"-", "."}
      /\ \A i \in 1..Len(h) - 1 :
            ~ \/ h[i] = "." /\ h[i + 1] \in {".", "-"}
              \/ h[i] = "-" /\ h[i + 1] = "."
  BY NameHost
<1>2. C \subseteq Lexemes /\ "." \in C
  BY PlainIs
<1>3. h[1] \in C /\ h \in Seq(C)
  BY <1>1
<1>4. head \in Seq(C) /\ Len(head) = 2 /\ head[1] = h[1] /\ head[2] = "."
  BY <1>2, <1>3
<1> HIDE DEF head, C
<1>5. /\ b \in Seq(C) /\ Len(b) = 2 + Len(h)
      /\ b[1] = h[1] /\ b[2] = "." /\ \A i \in 1..Len(h) : b[2 + i] = h[i]
  <2>0. head \in Seq(C) /\ h \in Seq(C)
    BY <1>3, <1>4
  <2>1. /\ head \o h \in Seq(C) /\ Len(head \o h) = Len(head) + Len(h)
        /\ \A i \in 1..Len(head) : (head \o h)[i] = head[i]
        /\ \A i \in 1..Len(h) : (head \o h)[Len(head) + i] = h[i]
    BY ONLY <2>0, Joined
  <2>2. 1 \in 1..Len(head) /\ 2 \in 1..Len(head)
    BY <1>4
  <2> QED
    BY <1>4, <2>1, <2>2
<1> HIDE DEF b
<1>6. PICK m \in Nat : m = Len(h) /\ m >= 1
  BY <1>1
<1>7. "." \in Letters /\ h[1] \in Letters
  BY <1>1 DEF Letters
<1>8. ASSUME NEW i \in 1..Len(b) PROVE b[i] \in Letters
  <2>1. i = 1 \/ i = 2 \/ (i - 2 \in 1..m /\ 2 + (i - 2) = i)
    BY <1>5, <1>6
  <2>2. CASE i - 2 \in 1..m /\ 2 + (i - 2) = i
    BY <1>1, <1>5, <1>6, <2>2
  <2> QED
    BY <1>5, <1>7, <2>1, <2>2
<1>9. ASSUME NEW i \in 1..Len(b) - 1
      PROVE  ~ \/ b[i] = "." /\ b[i + 1] \in {".", "-"}
               \/ b[i] = "-" /\ b[i + 1] = "."
  <2>1. i = 1 \/ i = 2 \/ (i - 2 \in 1..m - 1 /\ 2 + (i - 2) = i /\ 2 + ((i - 2) + 1) = i + 1)
    BY <1>5, <1>6
  <2>2. CASE i = 1
    BY <1>1, <1>5, <2>2
  <2>3. CASE i = 2
    <3>1. 1 \in 1..Len(h) /\ b[2 + 1] = h[1]
      BY <1>5, <1>6
    <3>2. b[3] = h[1]
      BY <3>1
    <3> QED
      BY <1>1, <1>5, <2>3, <3>2
  <2>4. CASE i - 2 \in 1..m - 1 /\ 2 + (i - 2) = i /\ 2 + ((i - 2) + 1) = i + 1
    <3>1. i - 2 \in 1..m /\ (i - 2) + 1 \in 1..m
      BY <1>6, <2>4
    <3>2. b[i] = h[i - 2] /\ b[i + 1] = h[(i - 2) + 1]
      BY <1>5, <1>6, <2>4, <3>1
    <3> QED
      BY <1>1, <1>6, <2>4, <3>2
  <2> QED
    BY <2>1, <2>2, <2>3, <2>4
<1>10. Len(b) >= 1 /\ b[1] \notin {"-", "."} /\ b[Len(b)] \notin {"-", "."}
  <2>1. Len(h) \in 1..Len(h) /\ b[2 + Len(h)] = h[Len(h)]
    BY <1>5, <1>6
  <2> QED
    BY <1>1, <1>5, <2>1
<1>11. ASSUME NEW t \in Seq(C), t # <<>>, ValidateHost(t) = t, t # Nil PROVE BrowserForm(t)
  <2>1. t \in HostTexts
    BY <1>11 DEF HostTexts, C
  <2>2. t \in Seq(Lexemes) /\ \A i \in 1..Len(t) : t[i] \in Letters
    <3>1. t \in Seq(Plain \union {"."})
      BY <1>11 DEF C
    <3> QED
      BY <1>2, <1>11, <3>1, NameHost, SeqMonotonic
  <2> QED
    BY <1>11, <2>1, <2>2, LettersStay DEF BrowserForm
<1>12. b # Nil /\ b # <<>>
  <2>1. b \in Seq(Lexemes)
    BY <1>2, <1>5, SeqMonotonic
  <2>2. b # <<>>
    <3>1. Len(<<>>) = 0
      OBVIOUS
    <3> QED
      BY <1>10, <3>1
  <2> QED
    BY <2>1, <2>2, NilIsNoText
<1>13. BrowserForm(b)
  <2>1. b \in Seq(Plain \union {"."})
    BY <1>5 DEF C
  <2>2. ValidateHost(b) = b
    BY <1>8, <1>9, <1>10, <1>12, <2>1, NameHost
  <2> QED
    BY <1>5, <1>11, <1>12, <2>2
<1>14. BrowserForm(h)
  <2>1. h # <<>>
    <3>1. Len(<<>>) = 0
      OBVIOUS
    <3> QED
      BY <1>1, <3>1
  <2> QED
    BY <1>3, <1>11, <2>1
<1> DEFINE suffix == <<".">> \o h
<1>15. suffix \in Seq(C) /\ Len(suffix) = 1 + Len(h)
  <2> DEFINE dot == <<".">>
  <2>1. dot \in Seq(C) /\ Len(dot) = 1
    BY <1>2
  <2> HIDE DEF dot
  <2>2. dot \in Seq(C) /\ h \in Seq(C)
    BY <1>3, <2>1
  <2>3. dot \o h \in Seq(C) /\ Len(dot \o h) = Len(dot) + Len(h)
    BY ONLY <2>2, Joined
  <2>4. dot \o h \in Seq(C) /\ Len(dot \o h) = 1 + Len(h)
    BY <2>1, <2>3
  <2>5. suffix = dot \o h
    BY DEF dot
  <2> HIDE DEF suffix
  <2> QED
    BY <2>4, <2>5
<1>16. b = <<h[1]>> \o suffix
  <2>1. <<h[1]>> \in Seq(C) /\ <<".">> \in Seq(C) /\ <<h[1]>> \o <<".">> = <<h[1], ".">>
    <3>1. <<h[1]>> \o <<".">> = <<h[1], ".">>
      BY Pairs
    <3>2. <<h[1]>> \in Seq(C) /\ <<".">> \in Seq(C)
      BY <1>2, <1>3
    <3> QED
      BY <3>1, <3>2
  <2> DEFINE x == <<h[1]>>
             y == <<".">>
  <2>2. x \in Seq(C) /\ y \in Seq(C)
    BY <2>1
  <2> HIDE DEF x, y
  <2>3. x \o (y \o h) = (x \o y) \o h
    BY ONLY <1>3, <2>2
  <2> QED
    BY <2>1, <2>3 DEF b, head, x, y
<1>17. IsSuffix(suffix, b)
  <2>1. <<h[1]>> \in Seq(C)
    BY <1>3
  <2> HIDE DEF suffix
  <2> QED
    BY <1>5, <1>15, <1>16, <2>1, SuffixRest
<1>18. Len(b) > Len(suffix)
  BY <1>5, <1>6, <1>15
<1> QED
  BY <1>13, <1>14, <1>17, <1>18 DEF b, head

(* The host of an entry that compiles, as browsers send it.                *)
LEMMA BrowserHostIs ==
    ASSUME NEW e, IsEntry(e), CompileRule(TextOf(e)) # Nil
    PROVE  LET r == CompileRule(TextOf(e))
               host == BrowserHost(e)
           IN  /\ BrowserForm(host)
               /\ IF r.suffix = <<>> THEN r.host = host
                  ELSE Len(host) > Len(r.suffix) /\ IsSuffix(r.suffix, host)
<1> DEFINE r == CompileRule(TextOf(e))
           L == e.labels
           h == Dotted(Small(L))
           v == ValidateHost(Lowered(Dotted(L)))
<1>1. /\ IsHost(L) /\ v # Nil /\ e.wild \in BOOLEAN
      /\ ~ e.wild => r.suffix = <<>> /\ r.host = v
      /\ e.wild => ~ IsAddress(Dotted(L)) /\ r.suffix = <<".">> \o v
  BY CompiledIs DEF IsEntry
<1>2. v = h
  BY <1>1, SmallHost
<1> HIDE DEF r
<1>3. ASSUME ~ IsAddress(Dotted(L))
      PROVE  h \in Seq(Plain \union {"."}) /\ ValidateHost(h) = h /\ h # Nil
  <2>1. /\ Small(L) \in Seq(Seq(Plain)) /\ Small(L) # <<>>
        /\ h = Lowered(Dotted(L))
    BY <1>1, <1>3, SmallHost
  <2>2. h \in Seq(Plain \union {"."})
    BY <2>1, DottedType
  <2> QED
    BY <1>1, <1>2, <2>1, <2>2
<1>4. CASE e.wild
  <2>1. BrowserHost(e) = <<h[1], ".">> \o h
    BY <1>4 DEF BrowserHost
  <2>2. r.suffix = <<".">> \o h /\ ~ IsAddress(Dotted(L))
    BY <1>1, <1>2, <1>4
  <2>3. r.suffix # <<>>
    <3>1. h \in Seq(Plain \union {"."})
      BY <1>3, <2>2
    <3> HIDE DEF h
    <3>2. <<".">> \o h # <<>>
      BY ONLY <3>1
    <3> QED
      BY <2>2, <3>2
  <2> HIDE DEF h
  <2> QED
    BY <1>3, <2>1, <2>2, <2>3, BelowValid DEF r
<1>5. CASE ~ e.wild
  <2>1. BrowserHost(e) = h
    BY <1>5 DEF BrowserHost
  <2>2. BrowserForm(h)
    <3>1. CASE ~ IsAddress(Dotted(L))
      <4> HIDE DEF h
      <4> QED
        BY <1>3, <3>1, BelowValid
    <3>2. CASE IsAddress(Dotted(L))
      <4>1. PICK l : l = Dotted(L)
        OBVIOUS
      <4>2. IsAddress(l) /\ L = <<l>>
        BY <1>1, <3>2, <4>1, HostOf
      <4>3. Small(L) = <<Canonical(l)>>
        BY <4>2 DEF Small
      <4>4. h = Canonical(l)
        BY <4>3, DottedOne
      <4> HIDE DEF h
      <4>5. IsAddress(h) /\ Lowered(h) = h /\ ValidateHost(h) = h
        BY <4>2, <4>4, AddressStays
      <4>6. h \in Seq(Lexemes) /\ Len(h) >= 2
        BY <4>5, AddressIs
      <4>7. h # <<>>
        <5>1. Len(<<>>) = 0
          OBVIOUS
        <5> QED
          BY <4>6, <5>1
      <4>8. h # Nil
        BY <4>6, NilIsNoText
      <4> QED
        BY <4>5, <4>6, <4>7, <4>8 DEF BrowserForm, HostTexts
    <3> QED
      BY <3>1, <3>2
  <2> QED
    BY <1>1, <1>2, <1>5, <2>1, <2>2 DEF r
<1> QED
  BY <1>1, <1>4, <1>5

(* The browser's origin, divided.                                          *)
LEMMA BrowserOriginIs ==
    ASSUME NEW s \in {"http", "https"}, Lower[s] = s, NEW host, BrowserForm(host),
           NEW port, port = <<>> \/ \E q \in Ports : port = <<q>>
    PROVE  LET o == Serialise(<<s>>, host, port) IN
           /\ o \in Seq(Lexemes) /\ o # <<>>
           /\ Split(o) = [scheme |-> <<s>>, host |-> host, port |-> port]
           /\ Split(o) # Nil
<1> DEFINE head == <<s, "://">>
           pp == TailOf(port)
           o == Serialise(<<s>>, host, port)
<1>1. /\ host \in HostTexts /\ host \in Seq(Lexemes) /\ host # <<>> /\ Lowered(host) = host
  BY HostIs DEF BrowserForm
<1>2. pp \in Tails /\ From(pp, 2) = port /\ port \in Seq(Lexemes) /\ pp \in Seq(Lexemes)
  <2>1. port = <<>> \/ \E q \in (Lexemes \ Marks) \union {"*"} : port = <<q>>
    BY OriginConstants
  <2> QED
    BY <2>1, TailOfIs, TailIs
<1>3. s \in Lexemes \ Marks /\ head \in Seq(Lexemes) /\ Len(head) = 2
  <2>1. s \in Lexemes \ Marks /\ "://" \in Lexemes
    BY OriginConstants DEF Marks
  <2> QED
    BY <2>1
<1>4. o = head \o (<<>> \o (host \o pp)) /\ o \in Seq(Lexemes) /\ Len(o) >= 2
  <2>1. <<s>> \o <<"://">> = head
    BY Pairs
  <2>2. o = (head \o host) \o pp
    BY <2>1 DEF Serialise, TailOf
  <2> HIDE DEF head, pp, o
  <2>3. head \in Seq(Lexemes) /\ host \in Seq(Lexemes) /\ pp \in Seq(Lexemes) /\ Len(head) = 2
    BY <1>1, <1>2, <1>3
  <2>4. (head \o host) \o pp = head \o (<<>> \o (host \o pp)) /\ (head \o host) \o pp \in Seq(Lexemes)
    <3>1. head \in Seq(Lexemes) /\ host \in Seq(Lexemes) /\ pp \in Seq(Lexemes)
      BY <2>3
    <3> QED
      BY ONLY <3>1
  <2>5. Len((head \o host) \o pp) >= 2
    <3>1. Len(head \o (<<>> \o (host \o pp))) >= 2
      <4>1. head \in Seq(Lexemes) /\ host \in Seq(Lexemes) /\ pp \in Seq(Lexemes)
        BY <2>3
      <4> QED
        BY ONLY <2>3, <4>1
    <3> QED
      BY <2>4, <3>1
  <2> QED
    BY <2>2, <2>4, <2>5
<1>5. o # <<>>
  <2> HIDE DEF o
  <2>1. Len(<<>>) = 0
    OBVIOUS
  <2> QED
    BY <1>4, <2>1
<1>6. Split(o) = [scheme |-> <<s>>, host |-> host, port |-> port]
  <2>1. Stars(FALSE) = <<>> /\ <<>> \o Lowered(host) = host
    BY <1>1 DEF Stars
  <2> HIDE DEF pp, o
  <2>2. Split(head \o (Stars(FALSE) \o (host \o pp))) =
           [scheme |-> <<Lower[s]>>, host |-> Stars(FALSE) \o Lowered(host), port |-> From(pp, 2)]
    <3>1. s \in Lexemes \ Marks /\ FALSE \in BOOLEAN /\ host \in HostTexts /\ pp \in Tails
      BY <1>1, <1>2, <1>3
    <3>2. Lower[s] \in {"http", "https"} /\ host # <<>> =>
             Split(<<s, "://">> \o (Stars(FALSE) \o (host \o pp))) =
                [scheme |-> <<Lower[s]>>, host |-> Stars(FALSE) \o Lowered(host), port |-> From(pp, 2)]
      BY ONLY <3>1, SplitIs
    <3> QED
      BY <1>1, <3>2
  <2> QED
    BY <1>2, <1>3, <1>4, <2>1, <2>2
<1>7. Split(o) # Nil
  <2>1. <<s>> \in Seq(Lexemes)
    BY <1>3
  <2> HIDE DEF o
  <2>2. Split(o) \in [scheme : Seq(Lexemes), host : Seq(Lexemes), port : Seq(Lexemes)]
    BY <1>1, <1>2, <1>6, <2>1
  <2> QED
    BY <2>2, NilIsNoText
<1> QED
  BY <1>4, <1>5, <1>6, <1>7

(* An entry that compiles, by itself, lets in the browser's origin, unless  *)
(* it spells out the default port.                                         *)
LEMMA EntryLetsIn ==
    ASSUME NEW e, IsEntry(e), CompileRule(TextOf(e)) # Nil
    PROVE  LetsIn(e) <=> ~ NamesDefaultPort(e)
<1> DEFINE r == CompileRule(TextOf(e))
           s == Lower[e.scheme]
           host == BrowserHost(e)
           port == IF e.port = <<"*">> \/ NamesDefaultPort(e) THEN <<>> ELSE e.port
           o == BrowserOrigin(e)
           pol == Alone(TextOf(e))
           parts == Split(o)
<1>1. /\ r.scheme = <<s>> /\ s \in {"http", "https"}
      /\ r.anyPort <=> e.port = <<"*">>
      /\ r.port = IF e.port = <<"*">> THEN <<>> ELSE e.port
  BY CompiledIs
<1>2. /\ BrowserForm(host)
      /\ IF r.suffix = <<>> THEN r.host = host
         ELSE Len(host) > Len(r.suffix) /\ IsSuffix(r.suffix, host)
  BY BrowserHostIs
<1>3. Lower[s] = s
  <2>1. e.scheme \in Lexemes
    BY DEF IsEntry
  <2> QED
    BY <2>1, OriginConstants
<1>4. port = <<>> \/ \E q \in Ports : port = <<q>>
  BY DEF IsEntry
<1>5. o = Serialise(<<s>>, host, port)
  BY DEF BrowserOrigin
<1>6. NamesDefaultPort(e) => e.port # <<"*">> /\ e.port # <<>>
  <2>1. DefaultPort(s) # "*" /\ <<DefaultPort(s)>> # <<>>
    BY DEF DefaultPort
  <2>2. <<DefaultPort(s)>> # <<"*">>
    BY <2>1
  <2> QED
    BY <2>1, <2>2 DEF NamesDefaultPort
<1>7. ValidatePort(port) \/ port = <<>>
  <2>1. \A q \in Ports : ValidatePort(<<q>>)
    BY DEF ValidatePort
  <2> QED
    BY <1>4, <2>1
<1> HIDE DEF r, s, host, port, o
<1>8. o \in Seq(Lexemes) /\ o # <<>> /\ parts # Nil
      /\ parts.scheme = <<s>> /\ parts.host = host /\ parts.port = port
  <2>1. o \in Seq(Lexemes) /\ o # <<>> /\ parts # Nil
        /\ parts = [scheme |-> <<s>>, host |-> host, port |-> port]
    BY <1>1, <1>2, <1>3, <1>4, <1>5, BrowserOriginIs
  <2> HIDE DEF parts
  <2> QED
    BY <2>1
<1>9. pol.allowAll = FALSE /\ pol.rules = {r}
  BY DEF Alone, Nobody, r
<1> HIDE DEF pol, parts
<1>10. Nil # o
  BY <1>8, NilIsNoText
<1>11. Match(r, <<s>>, host, port) <=> ~ NamesDefaultPort(e)
  <2>1. Match(r, <<s>>, host, port) <=> r.anyPort \/ r.port = port
    BY <1>1, <1>2 DEF Match
  <2>2. (r.anyPort \/ r.port = port) <=> ~ NamesDefaultPort(e)
    BY <1>1, <1>6 DEF port
  <2> QED
    BY <2>1, <2>2
<1>12. Allow(pol, o) = IF Match(r, <<s>>, host, port) THEN o ELSE Nil
  <2>1. ValidateHost(host) = host /\ host # Nil
    BY <1>2 DEF BrowserForm
  <2>2. Allow(pol, o) =
           IF /\ ValidateHost(parts.host) # Nil
              /\ parts.port = <<>> \/ ValidatePort(parts.port)
              /\ \E rule \in pol.rules : Match(rule, parts.scheme, ValidateHost(parts.host), parts.port)
           THEN Serialise(parts.scheme, ValidateHost(parts.host), parts.port)
           ELSE Nil
    BY <1>8, <1>9 DEF Allow, parts
  <2>3. (\E rule \in pol.rules : Match(rule, <<s>>, host, port)) <=> Match(r, <<s>>, host, port)
    BY <1>9
  <2> QED
    BY <1>5, <1>7, <1>8, <2>1, <2>2, <2>3
<1>13. Allow(pol, o) = o <=> ~ NamesDefaultPort(e)
  BY <1>10, <1>11, <1>12
<1> QED
  BY <1>13 DEF LetsIn, pol, o

(* Every text of an allowlist that compiles, whatever its scheme, case,     *)
(* wildcard and spelling of an address, is an entry's, and lets in the      *)
(* origin that browsers send for its host or one below it, except if it     *)
(* spells out the default port of its scheme: then it is accepted and does  *)
(* not (compileRule, validateHost, matches, Allow).                         *)
THEOREM EveryEntryLetsIn ==
    \A t \in Seq(Lexemes) : CompileRule(t) # Nil =>
        \E e : IsEntry(e) /\ TextOf(e) = t /\ (LetsIn(e) <=> ~ NamesDefaultPort(e))
<1> SUFFICES ASSUME NEW t \in Seq(Lexemes), CompileRule(t) # Nil
             PROVE  \E e : IsEntry(e) /\ TextOf(e) = t /\ (LetsIn(e) <=> ~ NamesDefaultPort(e))
  OBVIOUS
<1>1. PICK e : IsEntry(e) /\ TextOf(e) = t
  BY EntryFound
<1> QED
  BY <1>1, EntryLetsIn

(* Nothing that Validate accepts is idle, but an entry that spells out a    *)
(* default port: every other lets in the origin browsers send for its host, *)
(* and if the identity service issues tokens for whatever words and names   *)
(* a policy asks for, one is served for every client that an accepted       *)
(* policy names (compileRule, validateServiceTokens, serveService).         *)
THEOREM NothingIdle ==
    ASSUME EveryMeaning, EveryClaim
    PROVE  Spec => []NothingMatchesNothing
<1>1. ASSUME CorsInv PROVE NothingMatchesNothing
  <2> SUFFICES ASSUME policy # Nil PROVE NothingMatchesNothing
    BY DEF NothingMatchesNothing
  <2> DEFINE entry(i) == TrimSpace(config.origins[i])
  <2>1. config \in Configs /\ Validate(config)
    BY <1>1 DEF CorsInv, Compiled
  <2>2. ASSUME NEW i \in DOMAIN config.origins, entry(i) # <<"*">>
        PROVE  \E e \in Meant[config] : TextOf(e) = entry(i) /\ (LetsIn(e) <=> ~ NamesDefaultPort(e))
    <3>1. PICK e : IsEntry(e) /\ TextOf(e) = entry(i) /\ CompileRule(TextOf(e)) # Nil
      BY <2>1, <2>2, ConfigIs
    <3>2. e \in Entries
      BY <2>1, <3>1 DEF EveryMeaning, Says
    <3>3. e \in Meant[config]
      BY <2>1, <3>1, <3>2 DEF Meant
    <3> QED
      BY <3>1, <3>3, EntryLetsIn
  <2> QED
    BY <2>1, <2>2, ServiceServes DEF NothingMatchesNothing
<1> QED
  BY <1>1, CorsInit, CorsNext, PTL DEF Spec
=============================================================================
