------------------------------ MODULE ImplObject ------------------------------
(***************************************************************************)
(* The attribute macro impl_object (rexa-proc): which functions of an impl *)
(* block become methods of the object, under which symbols, and who        *)
(* resolves the promise of a delivery.                                     *)
(*                                                                         *)
(* The block arrives one item at a time.  A function has a name, may be    *)
(* async, and has attributes and parameters; an attribute has a path and   *)
(* options, NoValue in their place if it has no parentheses; an option has *)
(* a key and a value, NoValue if it has none.  Types, spans and the        *)
(* expressions given as values are left out.                               *)
(***************************************************************************)
EXTENDS SequencesExt, FiniteSetsExt, FiniteSets, Naturals

CONSTANTS
    PropertyLists,  \* arguments of #[impl_object(...)] that may be given
    Fns,            \* functions the block may hold
    MaxItems,       \* bound: items of the block
    NoValue

ASSUME MaxItemsAssumption == MaxItems \in Nat

IsSeq(s) == s \in Seq(ToSet(s))

(* A function is a record, and attributes and options are lists.            *)
ASSUME FnsAssumption ==
    \A f \in Fns :
        /\ f = [ident |-> f.ident, async |-> f.async, attrs |-> f.attrs, params |-> f.params]
        /\ IsSeq(f.attrs)
        /\ \A i \in DOMAIN f.attrs : f.attrs[i].opts # NoValue => IsSeq(f.attrs[i].opts)

ASSUME NoValueAssumption ==
    NoValue \notin {"always_fulfill", "always_break", "normal", "internal"}

VARIABLES
    status,         \* "attr", "items", "error" or "expanded"
    metadata,       \* paths of the crates the expansion names
    base,           \* the functions as the macro leaves them
    deliver_fns, deliver_fallback, deliver_verbatim,
    deliver_only_fns, deliver_only_fallback, deliver_only_verbatim,
    export_fn,
    output,         \* the methods of the impl of Object
    block           \* history: the functions as they were written

deliver_def == <<deliver_fns, deliver_fallback, deliver_verbatim>>
deliver_only_def == <<deliver_only_fns, deliver_only_fallback, deliver_only_verbatim>>
ivars == <<status, metadata, base, deliver_def, deliver_only_def, export_fn, output, block>>

ObjectPaths == {"deliver", "deliver_only", "exported"}

(* parse_nested_meta fails if the attribute has no parentheses.             *)
NestedMeta(attr) == attr.opts # NoValue

(* The first and the last of some positions, 0 if there is none.            *)
FirstOf(S) == IF S = {} THEN 0 ELSE Min(S)
LastOf(S) == IF S = {} THEN 0 ELSE Max(S)

(* The last option with one of these keys, NoValue if there is none.        *)
LastOption(opts, keys) ==
    LET i == LastOf({j \in DOMAIN opts : opts[j].key \in keys})
    IN  IF i = 0 THEN NoValue ELSE opts[i]

(* Mutant: who has the symbol keeps it (entry(..).or_insert(..)).           *)
InsertNew(fns, symbol, del) ==
    [s \in DOMAIN fns \cup {symbol} |-> IF s \in DOMAIN fns THEN fns[s] ELSE del]

(* HashMap::insert: who had the symbol before is gone.                      *)
Insert(fns, symbol, del) ==
    [s \in DOMAIN fns \cup {symbol} |-> IF s = symbol THEN del ELSE fns[s]]

-----------------------------------------------------------------------------
(* Metadata.                                                                *)

Crates == {"rexa", "syrup", "futures", "tracing"}

MetadataOk(props) == \A i \in DOMAIN props : props[i].key \in Crates

Metadata(props) ==
    [c \in Crates |-> LET p == LastOption(props, {c})
                      IN  IF p # NoValue THEN p.val
                          ELSE IF c = "tracing" THEN NoValue ELSE c]

-----------------------------------------------------------------------------
(* Parameters.                                                              *)

(* What an option of #[arg(...)] must have for a value.                     *)
ArgOption(o) ==
    \/ o.key \in {"session", "args", "resolver"} /\ o.val = NoValue
    \/ o.key \in {"map", "syrup_from"} /\ o.val # NoValue
    \/ o.key = "syrup"

(* Only the first arg attribute of a parameter is looked at.                *)
ArgIndex(p) == FirstOf({i \in DOMAIN p.attrs : p.attrs[i].path = "arg"})

InputOk(p) ==
    ~p.self /\ ArgIndex(p) # 0 =>
        LET attr == p.attrs[ArgIndex(p)]
        IN  NestedMeta(attr) /\ \A i \in DOMAIN attr.opts : ArgOption(attr.opts[i])

(* Each option replaces what the ones before it said.                       *)
Input(p) ==
    LET opts == p.attrs[ArgIndex(p)].opts
    IN  IF p.self THEN "receiver"
        ELSE IF ArgIndex(p) = 0 \/ opts = <<>> THEN "syrup"
        ELSE opts[Len(opts)].key

InputsOk(f) == \A i \in DOMAIN f.params : InputOk(f.params[i])
Inputs(f) == [i \in DOMAIN f.params |-> Input(f.params[i])]
TakesResolver(f) == "resolver" \in ToSet(Inputs(f))

StripParam(p) ==
    IF p.self \/ ArgIndex(p) = 0 THEN p
    ELSE [p EXCEPT !.attrs = RemoveAt(@, ArgIndex(p))]

-----------------------------------------------------------------------------
(* Methods.                                                                 *)

(* Mutant: always_fulfill and always_break are taken whoever resolves.      *)
DeliverOptionAlways(o, resolver) ==
    \/ o.key \in {"verbatim", "fallback", "always_fulfill", "always_break"}
    \/ o.key \in {"ok", "err"} /\ ~resolver
    \/ o.key = "symbol" /\ o.val # NoValue

(* RESOLVER_CONFLICT: who takes the resolver resolves.                      *)
DeliverOption(o, resolver) ==
    \/ o.key \in {"verbatim", "fallback"} /\ o.val = NoValue
    \/ o.key \in {"ok", "err"} /\ ~resolver /\ o.val # NoValue
    \/ o.key \in {"always_fulfill", "always_break"} /\ ~resolver
    \/ o.key = "symbol" /\ o.val # NoValue

DeliverOk(f, attr) ==
    /\ InputsOk(f)
    /\ NestedMeta(attr)
    /\ \A i \in DOMAIN attr.opts : DeliverOption(attr.opts[i], TakesResolver(f))

DeliverOnlyOption(o) ==
    \/ o.key = "verbatim" /\ o.val = NoValue
    \/ o.key = "fallback" /\ o.val \in {NoValue, TRUE, FALSE}
    \/ o.key = "symbol" /\ o.val # NoValue

DeliverOnlyOk(f, attr) ==
    /\ InputsOk(f)
    /\ ~TakesResolver(f)
    /\ NestedMeta(attr)
    /\ \A i \in DOMAIN attr.opts : DeliverOnlyOption(attr.opts[i])
    /\ ~f.async

Symbol(f, attr) ==
    LET o == LastOption(attr.opts, {"symbol"}) IN IF o = NoValue THEN f.ident ELSE o.val

IsVerbatim(attr) == LastOption(attr.opts, {"verbatim"}) # NoValue

(* fallback = false says no; only deliver_only takes a value.               *)
IsFallback(attr) ==
    LET o == LastOption(attr.opts, {"fallback"}) IN o # NoValue /\ o.val # FALSE

Resolution(f, attr) ==
    LET always == LastOption(attr.opts, {"always_fulfill", "always_break"})
    IN  IF always # NoValue THEN always.key
        ELSE IF TakesResolver(f) THEN "internal" ELSE "normal"

DeliverFn(f, attr) ==
    [ident |-> f.ident, async |-> f.async, inputs |-> Inputs(f),
     resolution |-> IF IsVerbatim(attr) THEN NoValue ELSE Resolution(f, attr)]

DeliverOnlyFn(f) == [ident |-> f.ident, inputs |-> Inputs(f)]

(* What the generated arm does to the resolver once the method returned.    *)
Arm(del, result) ==
    IF del.resolution \in {NoValue, "internal"} THEN {}
    ELSE IF del.resolution = "always_fulfill" THEN {"fulfill"}
    ELSE IF del.resolution = "always_break" THEN {"break"}
    ELSE IF result = "ok" THEN {"fulfill"} ELSE {"break"}

(* deliver and deliver_only end the search for attributes, exported does    *)
(* not; the attribute that was found last is taken off.                     *)
WithPath(f, paths) == {i \in DOMAIN f.attrs : f.attrs[i].path \in paths}

FnIndex(f) ==
    LET methods == WithPath(f, {"deliver", "deliver_only"})
    IN  IF methods # {} THEN FirstOf(methods) ELSE LastOf(WithPath(f, {"exported"}))

Role(f) == IF FnIndex(f) = 0 THEN "plain" ELSE f.attrs[FnIndex(f)].path

(* Mutant: all of the macro's attributes are taken off.                     *)
StripAll(f) == [f EXCEPT !.attrs = SelectSeq(@, LAMBDA a : a.path \notin ObjectPaths)]

Strip(f) ==
    LET off == [f EXCEPT !.attrs = RemoveAt(@, FnIndex(f))]
    IN  IF Role(f) = "plain" THEN f
        ELSE IF Role(f) = "exported" THEN off
        ELSE [off EXCEPT !.params = [i \in DOMAIN @ |-> StripParam(@[i])]]

-----------------------------------------------------------------------------

IInit ==
    /\ status = "attr"
    /\ metadata = NoValue /\ base = <<>> /\ output = NoValue /\ block = <<>>
    /\ deliver_fns = <<>> /\ deliver_fallback = NoValue /\ deliver_verbatim = NoValue
    /\ deliver_only_fns = <<>> /\ deliver_only_fallback = NoValue
    /\ deliver_only_verbatim = NoValue
    /\ export_fn = NoValue

ParseMetadata ==
    /\ status = "attr"
    /\ \E props \in PropertyLists :
           \/ MetadataOk(props) /\ status' = "items" /\ metadata' = Metadata(props)
           \/ ~MetadataOk(props) /\ status' = "error" /\ UNCHANGED metadata
    /\ UNCHANGED <<base, deliver_def, deliver_only_def, export_fn, output, block>>

Item == status = "items" /\ Len(block) < MaxItems

Keep(f) ==
    /\ base' = Append(base, Strip(f))
    /\ block' = Append(block, f)
    /\ UNCHANGED <<status, metadata, output>>

Plainly(f) ==
    /\ Item /\ Role(f) = "plain"
    /\ Keep(f)
    /\ UNCHANGED <<deliver_def, deliver_only_def, export_fn>>

Export(f) ==
    /\ Item /\ Role(f) = "exported"
    /\ Keep(f)
    /\ export_fn' = f.ident
    /\ UNCHANGED <<deliver_def, deliver_only_def>>

Deliver(f) ==
    LET attr == f.attrs[FnIndex(f)]
        del == DeliverFn(f, attr)
    IN  /\ Item /\ Role(f) = "deliver" /\ DeliverOk(f, attr)
        /\ Keep(f)
        /\ \/ /\ IsVerbatim(attr)
              /\ deliver_verbatim' = del
              /\ UNCHANGED <<deliver_fns, deliver_fallback>>
           \/ /\ ~IsVerbatim(attr) /\ IsFallback(attr)
              /\ deliver_fallback' = del
              /\ UNCHANGED <<deliver_fns, deliver_verbatim>>
           \/ /\ ~IsVerbatim(attr) /\ ~IsFallback(attr)
              /\ deliver_fns' = Insert(deliver_fns, Symbol(f, attr), del)
              /\ UNCHANGED <<deliver_fallback, deliver_verbatim>>
        /\ UNCHANGED <<deliver_only_def, export_fn>>

DeliverOnly(f) ==
    LET attr == f.attrs[FnIndex(f)]
        del == DeliverOnlyFn(f)
    IN  /\ Item /\ Role(f) = "deliver_only" /\ DeliverOnlyOk(f, attr)
        /\ Keep(f)
        /\ \/ /\ IsVerbatim(attr)
              /\ deliver_only_verbatim' = del
              /\ UNCHANGED <<deliver_only_fns, deliver_only_fallback>>
           \/ /\ ~IsVerbatim(attr) /\ IsFallback(attr)
              /\ deliver_only_fallback' = del
              /\ UNCHANGED <<deliver_only_fns, deliver_only_verbatim>>
           \/ /\ ~IsVerbatim(attr) /\ ~IsFallback(attr)
              /\ deliver_only_fns' = Insert(deliver_only_fns, Symbol(f, attr), del)
              /\ UNCHANGED <<deliver_only_fallback, deliver_only_verbatim>>
        /\ UNCHANGED <<deliver_def, export_fn>>

(* The first error ends the expansion: of an attribute, ...                 *)
RejectFn(f) ==
    LET attr == f.attrs[FnIndex(f)]
    IN  /\ Item
        /\ \/ Role(f) = "deliver" /\ ~DeliverOk(f, attr)
           \/ Role(f) = "deliver_only" /\ ~DeliverOnlyOk(f, attr)
        /\ status' = "error"
        /\ block' = Append(block, f)
        /\ UNCHANGED <<metadata, base, deliver_def, deliver_only_def, export_fn, output>>

(* ... or a macro or an item syn does not know.  Constants and types are    *)
(* passed over.                                                             *)
RejectItem ==
    /\ Item
    /\ status' = "error"
    /\ UNCHANGED <<metadata, base, deliver_def, deliver_only_def, export_fn, output, block>>

(* The arms are commented out: deliver and deliver_only are todo!().        *)
Expand ==
    /\ status = "items"
    /\ status' = "expanded"
    /\ output' = [deliver |-> "todo", deliver_only |-> "todo", exported |-> export_fn]
    /\ UNCHANGED <<metadata, base, deliver_def, deliver_only_def, export_fn, block>>

INext ==
    \/ ParseMetadata
    \/ \E f \in Fns : Plainly(f) \/ Export(f) \/ Deliver(f) \/ DeliverOnly(f) \/ RejectFn(f)
    \/ RejectItem
    \/ Expand

ISpec == IInit /\ [][INext]_ivars

-----------------------------------------------------------------------------
(* Properties.                                                              *)

(* rustc knows none of the macro's attributes: one that is left over is an  *)
(* error.                                                                   *)
Compiles ==
    /\ status = "expanded"
    /\ \A i \in DOMAIN base :
           /\ WithPath(base[i], ObjectPaths) = {}
           /\ \A j \in DOMAIN base[i].params : ArgIndex(base[i].params[j]) = 0

(* The methods of a delivery that are kept, but for the verbatim one.       *)
Delivers ==
    {deliver_fns[s] : s \in DOMAIN deliver_fns} \cup ({deliver_fallback} \ {NoValue})

(* The promise of a delivery is resolved by one party: by the method if it  *)
(* takes the resolver, else by the generated arm, whatever the method       *)
(* returns (DeliverAttr::process, RESOLVER_CONFLICT).                       *)
ResolvedOnce ==
    \A del \in Delivers : \A result \in {"ok", "err"} :
        IF "resolver" \in ToSet(del.inputs) THEN Arm(del, result) = {}
                                            ELSE Cardinality(Arm(del, result)) = 1

(* A function with several of the macro's attributes serves only one of     *)
(* them (ObjectFn::process): then one is left over, and the block does not  *)
(* compile.                                                                 *)
NoRoleDropped ==
    Compiles =>
        \A i \in DOMAIN block :
            WithPath(block[i], ObjectPaths) \subseteq {FnIndex(block[i])}

(* Functions of the block with this attribute, and those of them that claim *)
(* this symbol.                                                             *)
WithRole(path) == {i \in DOMAIN block : Role(block[i]) = path}

Claimants(path, symbol) ==
    {i \in WithRole(path) :
        LET attr == block[i].attrs[FnIndex(block[i])]
        IN  ~IsVerbatim(attr) /\ ~IsFallback(attr) /\ Symbol(block[i], attr) = symbol}

(* Under each symbol stands the last function that claims it, and no        *)
(* symbol that is claimed is lost.                                          *)
LastServes(path, fns) ==
    \A i \in WithRole(path) :
        LET symbol == Symbol(block[i], block[i].attrs[FnIndex(block[i])])
            claimants == Claimants(path, symbol)
        IN  claimants # {} =>
                /\ symbol \in DOMAIN fns
                /\ fns[symbol].ident = block[Max(claimants)].ident

(* A function that is meant to be a method is one, unless a later one       *)
(* claims its symbol: the later one replaces it without a word              *)
(* (ObjectDefParser::parse2).  The same holds of the exported callback.     *)
LastClaimServes ==
    status = "expanded" =>
        /\ LastServes("deliver", deliver_fns)
        /\ LastServes("deliver_only", deliver_only_fns)
        /\ output.exported = IF WithRole("exported") = {} THEN NoValue
                             ELSE block[Max(WithRole("exported"))].ident
=============================================================================
