-------------------------------- MODULE MCPure --------------------------------
(* Locators and the expansion of impl_object: two sequential algorithms     *)
(* that share no state, each run on many inputs.  A behaviour is about one  *)
(* of them, the other does not start.                                       *)
EXTENDS Locator, ImplObject

CONSTANT expr     \* an expression given as the value of an option

VARIABLE subject

-----------------------------------------------------------------------------
(* Locators.                                                                *)

MCUnreserved == {"a", ".", "s", "port", "userinfo", "0", "1", "127", "80", "99999", "tcpip"}
MCSubDelims == {"&", "="}
MCRegNameSafe == MCUnreserved \cup MCSubDelims
MCUserinfoSafe == MCRegNameSafe \cup {":"}
MCQuerySafe == MCUserinfoSafe \cup {"/"}
MCTokens == MCQuerySafe \cup {"xFF", "%2F"}
MCEscape == (":" :> "%3A") @@ ("/" :> "%2F") @@ ("xFF" :> "%FF") @@ ("%2F" :> "%252F")

IPv4 == <<"127", ".", "0", ".", "0", ".", "1">>
IPv6 == <<":", ":", "1">>
MCIpTexts == {IPv4, IPv6}
MCPortTexts == {<<"0">>, <<"1">>, <<"80">>}

(* Hints under up to two keys.                                              *)
HintKeys == {PortKey, UserinfoKey, <<"a">>, <<"a", "=">>, <<"s", "&", "a">>, <<>>}
HintValues(k) ==
    IF k = PortKey THEN {<<"80">>, <<"99999">>, <<"a">>}
    ELSE IF k = UserinfoKey THEN {<<>>, <<"a", ":", "/">>}
    ELSE {<<>>, <<":">>, <<"a", "=", "a">>, <<"a", "&", "port", "=", "1">>}

MCHints ==
    UNION {{h \in [K -> UNION {HintValues(k) : k \in K}] :
               \A k \in K : h[k] \in HintValues(k)} :
           K \in {S \in SUBSET HintKeys : Cardinality(S) <= 2}}

MCLocators ==
    [designator : {<<"a">>, IPv4, IPv6, <<"/", "a">>},
     transport : {<<"tcpip">>, <<"a", ".", "a">>, <<":">>},
     hints : MCHints]

MCSwissNums == {<<>>, <<"a", "/", "xFF">>, <<"%2F">>}

Authorities ==
    [userinfo : {None, <<"a", "%FF">>, <<"%3A">>},
     host : {<<"a">>, IPv4 \o <<".", "tcpip">>, <<"%2F", "a", ".", "a">>},
     port : {None, <<>>, <<"80">>}]

MCForeignUris ==
    [scheme : {None, "OCAPN", "http"},
     authority : Authorities \cup {None},
     path : {<<>>, <<"/", "a">>, <<"/", "s", "%2F", "a">>},
     query : {None, <<>>, <<"a">>, <<"a", "=", "%FF">>, <<"port", "=", "a">>,
              <<"port", "=", "1", "&", "userinfo", "=", "a", "&", "port", "=", "0">>,
              <<"a", "=", "a", "&", "&", "a", "=", ":", "=", "%3A">>}]

-----------------------------------------------------------------------------
(* Impl blocks.                                                             *)

Option(key) == [key |-> key, val |-> NoValue]
OptionIs(key, val) == [key |-> key, val |-> val]
Attr(path, opts) == [path |-> path, opts |-> opts]
Self == [self |-> TRUE, attrs |-> <<>>]
Param(attrs) == [self |-> FALSE, attrs |-> attrs]
Arg(opts) == Attr("arg", opts)

MCPropertyLists ==
    {<<>>,
     <<OptionIs("rexa", "crate"), OptionIs("tracing", "tracing"), OptionIs("rexa", "rexa")>>,
     <<OptionIs("tokio", "tokio")>>}

ParamLists ==
    {<<Self, Param(<<>>)>>,
     <<Self, Param(<<Arg(<<Option("args")>>)>>), Param(<<Arg(<<Option("resolver")>>)>>)>>,
     <<Self, Param(<<Arg(<<Option("resolver"), Option("session")>>)>>)>>,
     <<Self, Param(<<Arg(<<OptionIs("syrup", expr)>>), Arg(<<Option("resolver")>>)>>)>>,
     <<Self, Param(<<Arg(<<Option("map")>>)>>)>>}

DeliverLists ==
    {<<>>, <<OptionIs("symbol", "g")>>, <<Option("always_fulfill")>>,
     <<OptionIs("always_fulfill", expr), Option("always_break")>>,
     <<OptionIs("ok", expr)>>, <<Option("fallback")>>,
     <<Option("fallback"), Option("verbatim")>>}

DeliverOnlyLists ==
    {<<>>, <<OptionIs("symbol", "g")>>, <<Option("always_break")>>,
     <<OptionIs("fallback", FALSE)>>, <<OptionIs("fallback", TRUE)>>, <<Option("verbatim")>>}

AttrLists ==
    {<<>>, <<Attr("exported", NoValue)>>, <<Attr("deliver", NoValue)>>,
     <<Attr("exported", NoValue), Attr("deliver", <<>>)>>,
     <<Attr("deliver_only", <<>>), Attr("exported", NoValue)>>,
     <<Attr("exported", NoValue), Attr("exported", NoValue)>>}
    \cup {<<Attr("deliver", opts)>> : opts \in DeliverLists}
    \cup {<<Attr("inline", NoValue), Attr("deliver_only", opts)>> : opts \in DeliverOnlyLists}

(* Two functions with every list of attributes, the second one with the     *)
(* plainest parameters only.                                                *)
MCFns ==
    [ident : {"f"}, async : BOOLEAN, attrs : AttrLists, params : ParamLists]
    \cup [ident : {"g"}, async : {FALSE}, attrs : AttrLists,
          params : {<<Self, Param(<<>>)>>}]

-----------------------------------------------------------------------------

Init ==
    /\ IInit
    /\ \/ subject = "locator" /\ LInit
       \/ /\ subject = "block"
          /\ loc = None /\ swiss = None /\ origin = None /\ uri = None
          /\ node = None /\ ref = None

Next ==
    \/ subject = "locator" /\ LNext /\ UNCHANGED <<ivars, subject>>
    \/ subject = "block" /\ INext /\ UNCHANGED <<lvars, subject>>

Spec == Init /\ [][Next]_<<lvars, ivars, subject>>
=============================================================================
