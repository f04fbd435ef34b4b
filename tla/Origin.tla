-------------------------------- MODULE Origin --------------------------------
(***************************************************************************)
(* The allowlist of browser origins: its entries compiled to rules, and    *)
(* the Origin header of a request matched against them.                    *)
(*                                                                         *)
(* A text is a sequence of lexemes: the words in Names, "-", ".", ":",     *)
(* "://", "*", brackets, ports and characters an origin cannot hold.  A    *)
(* label or port outside DNS's or TCP's limits is a lexeme outside Names   *)
(* or Ports.  An empty text is <<>>, an error Nil.                         *)
(***************************************************************************)
EXTENDS Integers, Sequences, SequencesExt, FiniteSetsExt

CONSTANTS
    Nil,
    Lower,      \* strings.ToLower on the lexemes
    Names,      \* the words that may be part of a host's label, lower case
    Ports,      \* the decimal ports 1-65535
    IPv4,       \* the IPv4 addresses among the hosts
    IPv6        \* each IPv6 address in use, by its spellings, in canonical form

Lexemes == DOMAIN Lower
Marks == {".", ":", "://", "*", "[", "]", "-", " ", "/", "?", "#", "@", "\\"}

\* Punctuation has no case; an address has none of what ends a host, and its
\* canonical form is one of its spellings, in lower case.
ASSUME OriginConstants ==
    /\ Marks \subseteq Lexemes /\ {"http", "https"} \subseteq Lexemes \ Marks
    /\ \A l \in Lexemes : /\ Lower[l] \in Lexemes /\ Lower[Lower[l]] = Lower[l]
                          /\ l \in Marks \/ Lower[l] \in Marks => Lower[l] = l
    /\ Names \subseteq Lexemes \ Marks /\ \A n \in Names : Lower[n] = n
    /\ Ports \subseteq Lexemes \ Marks
    /\ DOMAIN IPv6 \subseteq Seq(Lexemes)
    /\ \A spelling \in DOMAIN IPv6 :
          /\ IPv6[spelling] \in DOMAIN IPv6 /\ IPv6[IPv6[spelling]] = IPv6[spelling]
          /\ \A i \in DOMAIN IPv6[spelling] : Lower[IPv6[spelling][i]] = IPv6[spelling][i]
          /\ \A i \in DOMAIN spelling : spelling[i] \notin {"]", "/", "?", "#", "@", "\\", "://"}

Lowered(text) == [i \in DOMAIN text |-> Lower[text[i]]]
Upto(text, n) == SubSeq(text, 1, n)
From(text, n) == SubSeq(text, n, Len(text))
At(lexeme, text) == {i \in DOMAIN text : text[i] = lexeme}
Blank(text) == \A i \in DOMAIN text : text[i] = " "
Padded(text) == text # <<>> /\ " " \in {text[1], text[Len(text)]}

TrimSpace(text) ==
    LET solid == {i \in DOMAIN text : text[i] # " "}
    IN  IF solid = {} THEN <<>> ELSE SubSeq(text, Min(solid), Max(solid))

-----------------------------------------------------------------------------
(* split, validateHost, validatePort, serialise.                           *)

IsWild(host) == IsPrefix(<<"*", ".">>, host)
Parent(host) == From(host, 3)

\* A port that is not there is <<>>, one that is there and empty an error.
WithPort(scheme, wild, host, tail) ==
    IF tail = <<":">> THEN Nil
    ELSE [scheme |-> scheme, host |-> wild \o Lowered(host), port |-> From(tail, 2)]

\* The last colon divides host and port, except in a bracketed literal.
SplitRest(scheme, wild, rest) ==
    IF rest # <<>> /\ rest[1] = "["
    THEN IF At("]", rest) = {} THEN Nil
         ELSE LET end == Min(At("]", rest)) IN
              IF Len(rest) > end /\ rest[end + 1] # ":" THEN Nil
              ELSE WithPort(scheme, wild, Upto(rest, end), From(rest, end + 1))
    ELSE LET end == IF At(":", rest) = {} THEN Len(rest) ELSE Max(At(":", rest)) - 1
         IN  WithPort(scheme, wild, Upto(rest, end), From(rest, end + 1))

Split(raw) ==
    IF At("://", raw) = {} THEN Nil
    ELSE LET i      == Min(At("://", raw))
             scheme == Lowered(Upto(raw, i - 1))
             rest   == From(raw, i + 1)
         IN  IF \/ scheme \notin {<<"http">>, <<"https">>}
                \/ rest = <<>>
                \/ \E j \in DOMAIN rest : rest[j] \in {"/", "?", "#", "@", "\\", "://"}
             THEN Nil
             ELSE IF IsWild(rest) THEN SplitRest(scheme, <<"*", ".">>, Parent(rest))
             ELSE SplitRest(scheme, <<>>, rest)

\* The canonical host, or Nil: labels between dots, none empty, no "-" at an end.
ValidateHost(host) ==
    IF host # <<>> /\ host[1] = "["
    THEN LET inner == SubSeq(host, 2, Len(host) - 1)
         IN  IF inner \in DOMAIN IPv6 THEN <<"[">> \o IPv6[inner] \o <<"]">> ELSE Nil
    ELSE IF /\ host # <<>>
            /\ \A i \in DOMAIN host : host[i] \in Names \union {"-", "."}
            /\ {host[1], host[Len(host)]} \intersect {"-", "."} = {}
            /\ \A i \in 1..Len(host) - 1 :
                  ~ \/ host[i] = "." /\ host[i + 1] \in {".", "-"}
                    \/ host[i] = "-" /\ host[i + 1] = "."
    THEN host ELSE Nil

ValidatePort(port) == Len(port) = 1 /\ port[1] \in Ports

Serialise(scheme, host, port) ==
    scheme \o <<"://">> \o host \o (IF port = <<>> THEN <<>> ELSE <<":">> \o port)

-----------------------------------------------------------------------------
(* Compile.  A rule names a host, or the suffix ".parent" of a wildcard.    *)

Rule(parts, host, suffix) ==
    [scheme |-> parts.scheme, host |-> host, suffix |-> suffix,
     anyPort |-> parts.port = <<"*">>, port |-> IF parts.port = <<"*">> THEN <<>> ELSE parts.port]

WildRule(parts, parent) ==
    IF \/ At("*", parent) # {}
       \/ parent # <<>> /\ parent[1] = "["
       \/ parent \in IPv4
       \/ ValidateHost(parent) = Nil
       \/ At(".", parent) = {}
    THEN Nil
    ELSE Rule(parts, <<>>, <<".">> \o ValidateHost(parent))

CompileRule(raw) ==
    LET parts == Split(raw)
    IN  IF parts = Nil THEN Nil
        ELSE IF parts.port \notin {<<>>, <<"*">>} /\ ~ValidatePort(parts.port) THEN Nil
        ELSE IF IsWild(parts.host) THEN WildRule(parts, Parent(parts.host))
        ELSE IF At("*", parts.host) # {} \/ ValidateHost(parts.host) = Nil THEN Nil
        ELSE Rule(parts, ValidateHost(parts.host), <<>>)

Nobody == [allowAll |-> FALSE, rules |-> {}]

\* One bad entry, or an empty one, refuses the whole list.
Compile(patterns) ==
    LET entries == {TrimSpace(patterns[i]) : i \in DOMAIN patterns}
        rules   == {CompileRule(e) : e \in entries \ {<<"*">>}}
    IN  IF Nil \in rules THEN Nil
        ELSE [allowAll |-> <<"*">> \in entries, rules |-> rules]

Enabled(policy) == policy.allowAll \/ policy.rules # {}

-----------------------------------------------------------------------------
(* Allow.                                                                  *)

Match(rule, scheme, host, port) ==
    /\ rule.scheme = scheme
    /\ rule.anyPort \/ rule.port = port
    /\ IF rule.suffix = <<>> THEN rule.host = host
       ELSE Len(host) > Len(rule.suffix) /\ IsSuffix(rule.suffix, host)

\* The value of Access-Control-Allow-Origin, or Nil.
Allow(policy, origin) ==
    LET parts == Split(origin)
        host  == ValidateHost(parts.host)
    IN  IF origin = <<>> THEN Nil
        ELSE IF policy.allowAll THEN <<"*">>
        ELSE IF parts = Nil THEN Nil
        ELSE IF /\ host # Nil
                /\ parts.port = <<>> \/ ValidatePort(parts.port)
                /\ \E rule \in policy.rules : Match(rule, parts.scheme, host, parts.port)
        THEN Serialise(parts.scheme, host, parts.port)
        ELSE Nil
=============================================================================
