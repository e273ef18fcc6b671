------------------------------- MODULE Locator -------------------------------
(***************************************************************************)
(* Node locators and sturdyrefs (locator.rs): how one is printed as a URI, *)
(* how a URI is read back, and the socket address a locator names.         *)
(*                                                                         *)
(* A text is a sequence of tokens: a token is a character that some part   *)
(* of a URI treats specially, or a run of characters that none does        *)
(* ("port", "127").  The escape of a token ("%2F" for "/") is a token too. *)
(* A URI is the record of its components, as fluent_uri builds and parses  *)
(* them.                                                                   *)
(***************************************************************************)
EXTENDS SequencesExt, FiniteSetsExt, FiniteSets, Naturals

CONSTANTS
    Tokens,        \* what designators, hints and swiss numbers are made of
    Escape,        \* the escape of each token
    RegNameSafe,   \* tokens that are not escaped in a host,
    UserinfoSafe,  \* in the userinfo,
    QuerySafe,     \* in a query,
    PathSafe,      \* in a path
    NonUtf8,       \* bytes of a swiss number that are no text
    DigitRuns,     \* tokens made of digits: all that a port of a URI may hold
    OcapnSchemes,  \* "ocapn" in upper and in lower case
    IpTexts,       \* texts that IpAddr::from_str accepts
    PortTexts,     \* texts that u16::from_str accepts
    Locators,      \* locators to print
    SwissNums,
    ForeignUris,   \* URIs from elsewhere
    None

PortKey == <<"port">>
UserinfoKey == <<"userinfo">>
SwissPrefix == <<"/", "s", "/">>

Text == Seq(Tokens)
Escapes == {Escape[a] : a \in DOMAIN Escape}
Chars == Tokens \cup Escapes
UriText == Seq(Chars)

(* Escapes can be told from characters that stand as they are, and from     *)
(* each other, and what a component does not take as it is has an escape.   *)
ASSUME EscapeAssumption ==
    /\ DOMAIN Escape \subseteq Tokens
    /\ \A a \in DOMAIN Escape : Escape[a] # a
    /\ \A a, b \in DOMAIN Escape : Escape[a] = Escape[b] => a = b
    /\ \A safe \in {RegNameSafe, UserinfoSafe, QuerySafe, PathSafe} :
           /\ safe \subseteq Tokens
           /\ Tokens \ safe \subseteq DOMAIN Escape
           /\ \A a \in DOMAIN Escape : Escape[a] \notin safe

(* The separators locator.rs pushes are plain characters of their           *)
(* component, as is what it compares keys, schemes and ports with.          *)
ASSUME SafeAssumption ==
    /\ "." \in RegNameSafe
    /\ {"&", "="} \subseteq QuerySafe
    /\ {"/", "s"} \subseteq PathSafe
    /\ DigitRuns \cup {"&", "=", "port", "userinfo"} \subseteq Tokens \ NonUtf8
    /\ "ocapn" \in OcapnSchemes

VARIABLES
    loc,     \* the locator that is printed, None for a URI from elsewhere
    swiss,   \* the swiss number printed with it, None for a node locator
    origin,  \* history: the URI the locator was read from, if it was
    uri,     \* the URI, None before it is there
    node,    \* what NodeLocator::try_from makes of it
    ref      \* what SturdyRefLocator::try_from makes of it

lvars == <<loc, swiss, origin, uri, node, ref>>

Ok(value) == [ok |-> TRUE, val |-> value]
Err(e) == [ok |-> FALSE, err |-> e]

-----------------------------------------------------------------------------
(* Percent-encoding.                                                        *)

Encode(safe, t) ==
    [i \in DOMAIN t |-> IF t[i] \in safe THEN t[i] ELSE Escape[t[i]]]

Unescape(c) ==
    IF \E a \in DOMAIN Escape : Escape[a] = c
    THEN CHOOSE a \in DOMAIN Escape : Escape[a] = c
    ELSE c

Decode(t) == [i \in DOMAIN t |-> Unescape(t[i])]

IsUtf8(t) == \A i \in DOMAIN t : t[i] \notin NonUtf8

(* A NodeLocator holds Rust strings, and finitely many hints.               *)
IsLocator(l) ==
    /\ l = [designator |-> l.designator, transport |-> l.transport, hints |-> l.hints]
    /\ l.designator \in Text /\ l.transport \in Text
    /\ IsFiniteSet(DOMAIN l.hints) /\ DOMAIN l.hints \subseteq Text
    /\ l.hints \in [DOMAIN l.hints -> Text]
    /\ \A k \in DOMAIN l.hints : IsUtf8(k) /\ IsUtf8(l.hints[k])

ASSUME LocatorsAssumption ==
    /\ \A l \in Locators : IsLocator(l)
    /\ SwissNums \subseteq Text

(* What fluent_uri parses: a port is made of digits, and a host, which      *)
(* nothing decodes, is a text for what prints it again.                     *)
ASSUME ForeignUrisAssumption ==
    \A u \in ForeignUris :
        /\ u.authority # None =>
               /\ u.authority.host \in Text
               /\ u.authority.userinfo \in UriText \cup {None}
               /\ u.authority.port \in Seq(DigitRuns) \cup {None}
        /\ u.path \in UriText
        /\ u.query \in UriText \cup {None}

(* str::split_once and rsplit_once, at index i.                             *)
Before(t, i) == SubSeq(t, 1, i - 1)
After(t, i) == SubSeq(t, i + 1, Len(t))

-----------------------------------------------------------------------------
(* Printing.                                                                *)

Hint(l, k) == IF k \in DOMAIN l.hints THEN l.hints[k] ELSE None

EncodedHost(l) ==
    Encode(RegNameSafe, l.designator) \o <<".">> \o Encode(RegNameSafe, l.transport)

EncodedUserinfo(l) ==
    IF Hint(l, UserinfoKey) = None THEN None
                                   ELSE Encode(UserinfoSafe, Hint(l, UserinfoKey))

(* The hints that go into the query, in an order the hash map may have.     *)
QueryOrders(l) == SetToSeqs(DOMAIN l.hints \ {PortKey, UserinfoKey})

EncodedPair(k, v) == Encode(QuerySafe, k) \o <<"=">> \o Encode(QuerySafe, v)

PushPair(query, pair) == IF query = <<>> THEN pair ELSE Append(query, "&") \o pair

(* The query once i hints are in it.                                        *)
EncodedQuery(l, order) ==
    LET query[i \in 0 .. Len(order)] ==
            IF i = 0 THEN <<>>
                     ELSE PushPair(query[i - 1], EncodedPair(order[i], l.hints[order[i]]))
        all == query[Len(order)]
    IN  IF all = <<>> THEN None ELSE all

(* Mutant: the swiss number is pushed as it is.                             *)
EncodedPathRaw(s) == SwissPrefix \o s

EncodedPath(s) == SwissPrefix \o Encode(PathSafe, s)

(* fluent_uri takes only digits for a port; Display unwraps the error.      *)
PortOk(l) ==
    Hint(l, PortKey) # None => ToSet(Hint(l, PortKey)) \subseteq DigitRuns

(* Mutant: the port stays out of the authority.                             *)
BuildUriWithoutPort(l, order, path) ==
    Ok([scheme |-> "ocapn",
        authority |-> [userinfo |-> EncodedUserinfo(l), host |-> EncodedHost(l), port |-> None],
        path |-> path,
        query |-> EncodedQuery(l, order)])

BuildUri(l, order, path) ==
    IF PortOk(l)
    THEN Ok([scheme |-> "ocapn",
             authority |-> [userinfo |-> EncodedUserinfo(l), host |-> EncodedHost(l),
                            port |-> Hint(l, PortKey)],
             path |-> path,
             query |-> EncodedQuery(l, order)])
    ELSE Err("BuildError")

-----------------------------------------------------------------------------
(* Reading.                                                                 *)

(* Where the segments of a query begin, less one, and the segment there.    *)
Cuts(query) == {0} \cup {i \in DOMAIN query : query[i] = "&"}

Segment(query, a) ==
    LET ends == {b \in DOMAIN query : b > a /\ query[b] = "&"}
    IN  SubSeq(query, a + 1, IF ends = {} THEN Len(query) ELSE Min(ends) - 1)

(* Segments without "=" are passed over.                                    *)
Pairs(query) == {a \in Cuts(query) : "=" \in ToSet(Segment(query, a))}

EqIndex(seg) == Min({i \in DOMAIN seg : seg[i] = "="})
Key(query, a) == Decode(Before(Segment(query, a), EqIndex(Segment(query, a))))
Value(query, a) == Decode(After(Segment(query, a), EqIndex(Segment(query, a))))

(* A later pair replaces an earlier one with the same key.                  *)
QueryHints(query) ==
    [k \in {Key(query, a) : a \in Pairs(query)} |->
        Value(query, Max({a \in Pairs(query) : Key(query, a) = k}))]

(* Mutant: the userinfo is stored as the port.                              *)
AuthorityHintsMixed(auth) ==
    [k \in {j \in {PortKey} : auth.userinfo # None} |-> Decode(auth.userinfo)]

AuthorityHints(auth) ==
    [k \in {j \in {UserinfoKey, PortKey} :
               IF j = PortKey THEN auth.port # None ELSE auth.userinfo # None} |->
        IF k = PortKey THEN auth.port ELSE Decode(auth.userinfo)]

(* The query's hints are inserted last: they replace the authority's.       *)
HintsOf(u) ==
    LET auth == AuthorityHints(u.authority)
        query == QueryHints(u.query)
    IN  IF u.query = None THEN auth
        ELSE [k \in DOMAIN auth \cup DOMAIN query |->
                 IF k \in DOMAIN query THEN query[k] ELSE auth[k]]

HintsDecode(u) ==
    /\ u.authority.userinfo # None => IsUtf8(Decode(u.authority.userinfo))
    /\ u.query # None =>
           \A a \in Pairs(u.query) :
               IsUtf8(Key(u.query, a)) /\ IsUtf8(Value(u.query, a))

(* Mutant: the host is split at its first dot.                              *)
ParseNodeFirstDot(u) ==
    LET host == u.authority.host
        dot == Min({i \in DOMAIN host : host[i] = "."})
    IN  IF u.authority = None THEN Err("MissingAuthority")
        ELSE IF "." \notin ToSet(host) THEN Err("MissingTransport")
        ELSE Ok([designator |-> Before(host, dot), transport |-> After(host, dot),
                 hints |-> HintsOf(u)])

(* The host is split where it stands: nothing decodes it.                   *)
ParseNode(u) ==
    LET host == u.authority.host
        dot == Max({i \in DOMAIN host : host[i] = "."})
    IN  IF u.scheme # None /\ u.scheme \notin OcapnSchemes THEN Err("UnrecognizedScheme")
        ELSE IF u.authority = None THEN Err("MissingAuthority")
        ELSE IF "." \notin ToSet(host) THEN Err("MissingTransport")
        ELSE IF ~HintsDecode(u) THEN Err("DecodeHint")
        ELSE Ok([designator |-> Before(host, dot), transport |-> After(host, dot),
                 hints |-> HintsOf(u)])

ParseSturdyRef(u) ==
    LET path == Decode(u.path)
    IN  IF ~ParseNode(u).ok THEN ParseNode(u)
        ELSE IF path = <<>> THEN Err("MissingPath")
        ELSE IF ~IsPrefix(SwissPrefix, path) THEN Err("InvalidPath")
        ELSE Ok([node_locator |-> ParseNode(u).val,
                 swiss_num |-> After(path, Len(SwissPrefix))])

(* None is no text, no authority, no locator and no result.                 *)
ASSUME NoneAssumption ==
    /\ None \notin UriText
    /\ None \notin [userinfo : UriText \cup {None}, host : UriText, port : UriText \cup {None}]
    /\ None \notin Locators
    /\ \A u \in ForeignUris :
           Ok(u) # None /\ (ParseNode(u).ok => ParseNode(u).val # None)

AsSocketAddr(l) ==
    IF l.designator \notin IpTexts THEN Err("ParseAddr")
    ELSE IF Hint(l, PortKey) = None THEN Err("MissingPort")
    ELSE IF Hint(l, PortKey) \notin PortTexts THEN Err("ParsePort")
    ELSE Ok(<<l.designator, Hint(l, PortKey)>>)

-----------------------------------------------------------------------------
(* A locator is printed, or a URI arrives; the URI is read; a locator that  *)
(* was read is printed again.                                               *)

LInit ==
    /\ \/ loc \in Locators /\ swiss \in SwissNums \cup {None} /\ uri = None
       \/ loc = None /\ swiss = None /\ uri \in {Ok(u) : u \in ForeignUris}
    /\ origin = None /\ node = None /\ ref = None

Display ==
    /\ uri = None
    /\ \E order \in QueryOrders(loc) :
           uri' = BuildUri(loc, order, IF swiss = None THEN <<>> ELSE EncodedPath(swiss))
    /\ UNCHANGED <<loc, swiss, origin, node, ref>>

Read ==
    /\ uri # None /\ uri.ok
    /\ node = None
    /\ node' = ParseNode(uri.val)
    /\ ref' = ParseSturdyRef(uri.val)
    /\ UNCHANGED <<loc, swiss, origin, uri>>

Adopt ==
    /\ loc = None
    /\ node # None /\ node.ok
    /\ loc' = node.val
    /\ swiss' = IF ref.ok THEN ref.val.swiss_num ELSE None
    /\ origin' = uri.val
    /\ uri' = None /\ node' = None /\ ref' = None

LNext == Display \/ Read \/ Adopt

LSpec == LInit /\ [][LNext]_lvars

-----------------------------------------------------------------------------
(* Properties.                                                              *)

Plain(t) == ToSet(t) \subseteq RegNameSafe

(* No address holds an escape, and none that a host takes as it is, an      *)
(* IPv4 address, goes on after a dot.                                       *)
ASSUME IpAssumption ==
    \A t \in IpTexts :
        /\ t \in Text
        /\ ToSet(t) \cap Escapes = {}
        /\ Plain(t) => \A longer \in IpTexts : ~IsPrefix(Append(t, "."), longer)

QueryKeys(l) == DOMAIN l.hints \ {PortKey, UserinfoKey}

(* Hints that a query can hold.                                             *)
HintsSeparate(l) ==
    \A k \in QueryKeys(l) :
        ToSet(k) \cap {"&", "="} = {} /\ "&" \notin ToSet(l.hints[k])

HostSplits(l) == Plain(l.designator) /\ "." \notin ToSet(l.transport)

(* Printed and read back, a locator is the same one exactly if its host     *)
(* needs no escape (try_from does not decode the host), its transport has   *)
(* no dot (rsplit_once takes the last one), and no hint holds a separator   *)
(* of the query (encoded_query escapes neither "&" nor "=").                *)
RoundTrips ==
    loc # None /\ node # None =>
        (node = Ok(loc) <=>
            HostSplits(loc) /\ Plain(loc.transport) /\ HintsSeparate(loc))

(* A sturdyref's URI gives back its swiss number whatever bytes it has, and *)
(* a node's URI is never taken for a sturdyref's.                           *)
SwissKept ==
    loc # None /\ ref # None =>
        ref = IF swiss = None THEN Err("MissingPath")
              ELSE Ok([node_locator |-> node.val, swiss_num |-> swiss])

(* A locator with a socket address names the same address once it was       *)
(* printed and read back, or none: IPv6 addresses are lost, as ":" is       *)
(* escaped in the host.  Only a hint that holds a separator of the query    *)
(* can change the port.                                                     *)
AddressKept ==
    (/\ loc # None /\ node # None
     /\ AsSocketAddr(loc).ok
     /\ HintsSeparate(loc)) =>
        AsSocketAddr(node.val) =
            IF HostSplits(loc) THEN AsSocketAddr(loc) ELSE Err("ParseAddr")

(* A locator that was read from a URI can be printed again (Display unwraps *)
(* what the builder returns), unless the URI's query named a port.          *)
PanicsByQueryPort ==
    origin # None /\ uri # None /\ ~uri.ok =>
        /\ origin.query # None
        /\ \E a \in Pairs(origin.query) : Key(origin.query, a) = PortKey
=============================================================================
