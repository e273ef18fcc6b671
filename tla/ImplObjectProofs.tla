--------------------------- MODULE ImplObjectProofs ---------------------------
(***************************************************************************)
(* Proofs about the expansion of impl_object, for any functions, lists of  *)
(* attributes and number of items.                                         *)
(***************************************************************************)
EXTENDS ImplObject, FiniteSetTheorems, TLAPS, WellFoundedInduction

(* Who resolves is settled when the method is kept.                         *)
Good(del) ==
    IF "resolver" \in ToSet(del.inputs)
    THEN del.resolution = "internal"
    ELSE del.resolution \in {"always_fulfill", "always_break", "normal"}

(* Positions of a block b that hold one of the functions T, and the last of *)
(* those functions.                                                         *)
At(b, T) == {i \in DOMAIN b : b[i] \in T}
LastAt(b, T) == b[Max(At(b, T))]

(* The functions that claim a symbol, and those that are the callback.      *)
Claiming(path, symbol) ==
    {f \in Fns : LET attr == f.attrs[FnIndex(f)]
                 IN  /\ Role(f) = path
                     /\ ~IsVerbatim(attr) /\ ~IsFallback(attr)
                     /\ Symbol(f, attr) = symbol}

Exporting == {f \in Fns : Role(f) = "exported"}

(* The strengthening of LastClaimServes: of any block b, whole or not, and  *)
(* of every symbol, whether a function of the block uses it or not.         *)
ServedIn(b, path, fns) ==
    \A s : At(b, Claiming(path, s)) # {} =>
        s \in DOMAIN fns /\ fns[s].ident = LastAt(b, Claiming(path, s)).ident

ExportedIn(b, e) ==
    e = IF At(b, Exporting) = {} THEN NoValue ELSE LastAt(b, Exporting).ident

Inv ==
    /\ block \in Seq(Fns)
    /\ \A s \in DOMAIN deliver_fns : Good(deliver_fns[s])
    /\ deliver_fallback # NoValue => Good(deliver_fallback)
    /\ status # "error" =>
           /\ base = [i \in 1 .. Len(block) |-> Strip(block[i])]
           /\ ServedIn(block, "deliver", deliver_fns)
           /\ ServedIn(block, "deliver_only", deliver_only_fns)
           /\ ExportedIn(block, export_fn)
    /\ status = "expanded" => output.exported = export_fn

-----------------------------------------------------------------------------
(* A set of positions that is not empty has a least and a greatest one.     *)
LEMMA LessThan ==
  ASSUME NEW x \in Nat, NEW y \in Nat, y < x
  PROVE  <<y, x>> \in {ss \in Nat \X Nat : ss[1] < ss[2]}
  <1>1. <<y, x>> \in Nat \X Nat
    OBVIOUS
  <1>2. <<y, x>>[1] = y /\ <<y, x>>[2] = x
    OBVIOUS
  <1> QED
    BY <1>1, <1>2

(* The least element of a set of naturals is in it.                         *)
LEMMA MinIn ==
  ASSUME NEW S \in SUBSET Nat, S # {}
  PROVE  Min(S) \in S /\ \A y \in S : Min(S) <= y
  <1> DEFINE R == {ss \in Nat \X Nat : ss[1] < ss[2]}
  <1>1. OpToRel(<, Nat) = R
    BY DEF OpToRel
  <1>2. IsWellFoundedOn(R, Nat)
    BY <1>1, NatLessThanWellFounded
  <1>3. ASSUME NEW x \in Nat, NEW y \in Nat, ~ (<<y, x>> \in R)
        PROVE  x <= y
    <2>1. ~ (y < x)
      BY <1>3, LessThan
    <2> QED
      BY <2>1
  <1> HIDE DEF R
  <1>4. PICK x \in S : \A y \in S : ~ (<<y, x>> \in R)
    BY <1>2, WFMin
  <1>5. \A y \in S : x <= y
    BY <1>3, <1>4
  <1> QED
    BY <1>5 DEF Min

(* The greatest element of a bounded set of naturals is in it.              *)
LEMMA MaxIn ==
  ASSUME NEW n \in Nat, NEW S \in SUBSET (1 .. n), S # {}
  PROVE  Max(S) \in S /\ \A y \in S : Max(S) >= y
  <1> DEFINE T == {n - y : y \in S}
  <1>1. T \in SUBSET Nat /\ T # {}
    <2>1. \A y \in S : n - y \in Nat
      OBVIOUS
    <2>2. PICK y \in S : TRUE
      OBVIOUS
    <2>3. n - y \in T
      OBVIOUS
    <2> QED
      BY <2>1, <2>3
  <1>2. Min(T) \in T /\ \A z \in T : Min(T) <= z
    BY <1>1, MinIn
  <1>3. PICK x \in S : Min(T) = n - x
    BY <1>2
  <1>4. \A y \in S : x >= y
    <2> TAKE y \in S
    <2>1. n - x <= n - y
      BY <1>2, <1>3
    <2> QED
      BY <2>1
  <1> QED
    BY <1>4 DEF Max

(* The first position of some is one of them.                               *)
LEMMA FirstOfIn ==
  ASSUME NEW n \in Nat, NEW S \in SUBSET (1 .. n), S # {}
  PROVE  FirstOf(S) \in S
  <1>1. S \in SUBSET Nat
    OBVIOUS
  <1> QED
    BY <1>1, MinIn DEF FirstOf

(* The last position of some is one of them.                                *)
LEMMA LastOfIn ==
  ASSUME NEW n \in Nat, NEW S \in SUBSET (1 .. n), S # {}
  PROVE  LastOf(S) \in S
  BY MaxIn DEF LastOf

(* The option that counts is one of the attribute's, if there is one.       *)
LEMMA LastOptionIs ==
  ASSUME NEW opts, IsSeq(opts), NEW keys
  PROVE  \/ LastOption(opts, keys) = NoValue
         \/ \E i \in DOMAIN opts : LastOption(opts, keys) = opts[i] /\ opts[i].key \in keys
  <1> DEFINE S == {j \in DOMAIN opts : opts[j].key \in keys}
  <1>1. Len(opts) \in Nat /\ DOMAIN opts = 1 .. Len(opts)
    BY DEF IsSeq
  <1>2. S \in SUBSET (1 .. Len(opts))
    BY <1>1
  <1>3. CASE S = {}
    BY <1>3 DEF LastOption, LastOf
  <1>4. CASE S # {}
    <2>1. LastOf(S) \in S
      BY <1>1, <1>2, <1>4, LastOfIn
    <2>2. LastOf(S) # 0
      BY <1>1, <2>1
    <2> QED
      BY <2>1, <2>2 DEF LastOption
  <1> QED
    BY <1>3, <1>4

(* The attribute that gives a function its role is one of the object's.     *)
LEMMA FnIndexIn ==
  ASSUME NEW f \in Fns
  PROVE  \/ FnIndex(f) = 0
         \/ FnIndex(f) \in WithPath(f, ObjectPaths)
  <1> DEFINE M == WithPath(f, {"deliver", "deliver_only"})
             E == WithPath(f, {"exported"})
  <1>1. Len(f.attrs) \in Nat /\ DOMAIN f.attrs = 1 .. Len(f.attrs)
    BY FnsAssumption DEF IsSeq
  <1>2. M \in SUBSET (1 .. Len(f.attrs)) /\ E \in SUBSET (1 .. Len(f.attrs))
    BY <1>1 DEF WithPath
  <1>3. M \subseteq WithPath(f, ObjectPaths) /\ E \subseteq WithPath(f, ObjectPaths)
    BY DEF WithPath, ObjectPaths
  <1>4. CASE M # {}
    <2>1. FirstOf(M) \in M
      BY <1>1, <1>2, <1>4, FirstOfIn
    <2> QED
      BY <1>3, <1>4, <2>1 DEF FnIndex
  <1>5. CASE M = {} /\ E # {}
    <2>1. LastOf(E) \in E
      BY <1>1, <1>2, <1>5, LastOfIn
    <2> QED
      BY <1>3, <1>5, <2>1 DEF FnIndex
  <1>6. CASE M = {} /\ E = {}
    BY <1>6 DEF FnIndex, LastOf
  <1> QED
    BY <1>4, <1>5, <1>6

-----------------------------------------------------------------------------
(* Who resolves.                                                            *)

(* A method that is kept as a deliver method has settled who resolves.      *)
LEMMA DeliverGood ==
  ASSUME NEW f, NEW attr, attr.opts # NoValue => IsSeq(attr.opts),
         DeliverOk(f, attr), ~IsVerbatim(attr)
  PROVE  Good(DeliverFn(f, attr))
  <1> DEFINE always == LastOption(attr.opts, {"always_fulfill", "always_break"})
             del == DeliverFn(f, attr)
  <1>1. IsSeq(attr.opts) /\ \A i \in DOMAIN attr.opts : DeliverOption(attr.opts[i], TakesResolver(f))
    BY DEF DeliverOk, NestedMeta
  <1>2. del.inputs = Inputs(f) /\ del.resolution = Resolution(f, attr)
    BY DEF DeliverFn
  <1>3. \/ always = NoValue
        \/ ~TakesResolver(f) /\ always.key \in {"always_fulfill", "always_break"}
    <2>1. \/ always = NoValue
          \/ \E i \in DOMAIN attr.opts :
                /\ always = attr.opts[i]
                /\ attr.opts[i].key \in {"always_fulfill", "always_break"}
      BY <1>1, LastOptionIs
    <2>2. ASSUME NEW o, DeliverOption(o, TakesResolver(f)),
                 o.key \in {"always_fulfill", "always_break"}
          PROVE  ~TakesResolver(f)
      BY <2>2 DEF DeliverOption
    <2> QED
      BY <1>1, <2>1, <2>2
  <1> QED
    BY <1>2, <1>3 DEF Good, Resolution, TakesResolver

-----------------------------------------------------------------------------
(* Functions of a block that grows at its end.                              *)

(* The last function of a kind, once a function is added to the block.      *)
LEMMA AtAppend ==
  ASSUME NEW b \in Seq(Fns), NEW f \in Fns, NEW T
  PROVE  LET c == Append(b, f)
         IN  /\ f \in T => At(c, T) # {} /\ LastAt(c, T) = f
             /\ f \notin T => At(c, T) = At(b, T)
             /\ f \notin T /\ At(b, T) # {} => LastAt(c, T) = LastAt(b, T)
  <1> DEFINE c == Append(b, f)
             n == Len(b)
  <1>1. n \in Nat /\ DOMAIN b = 1 .. n /\ DOMAIN c = 1 .. (n + 1) /\ c[n + 1] = f
    OBVIOUS
  <1>2. \A i \in 1 .. n : c[i] = b[i]
    OBVIOUS
  <1> HIDE DEF c, n
  <1>3. ASSUME f \in T PROVE At(c, T) # {} /\ LastAt(c, T) = f
    <2>1. n + 1 \in At(c, T) /\ At(c, T) \in SUBSET (1 .. (n + 1))
      BY <1>1, <1>3 DEF At
    <2>2. Max(At(c, T)) \in At(c, T) /\ Max(At(c, T)) >= n + 1
      <3>1. n + 1 \in Nat /\ At(c, T) # {}
        BY <1>1, <2>1
      <3>2. Max(At(c, T)) \in At(c, T) /\ \A y \in At(c, T) : Max(At(c, T)) >= y
        BY <2>1, <3>1, MaxIn
      <3> QED
        BY <2>1, <3>2
    <2>3. Max(At(c, T)) = n + 1
      BY <1>1, <2>1, <2>2
    <2> QED
      BY <1>1, <2>1, <2>3 DEF LastAt
  <1>4. ASSUME f \notin T PROVE At(c, T) = At(b, T)
    <2>1. \A i \in 1 .. (n + 1) : c[i] \in T <=> i \in 1 .. n /\ b[i] \in T
      BY <1>1, <1>2, <1>4
    <2>2. 1 .. n \subseteq 1 .. (n + 1)
      BY <1>1
    <2> QED
      BY <1>1, <2>1, <2>2 DEF At
  <1>5. ASSUME f \notin T, At(b, T) # {} PROVE LastAt(c, T) = LastAt(b, T)
    <2>1. At(b, T) \in SUBSET (1 .. n)
      BY <1>1 DEF At
    <2>2. Max(At(b, T)) \in 1 .. n
      BY <1>1, <1>5, <2>1, MaxIn
    <2> QED
      BY <1>2, <1>4, <1>5, <2>2 DEF LastAt
  <1> QED
    BY <1>3, <1>4, <1>5 DEF c

(* A function that claims no symbol changes nobody's service.               *)
LEMMA UnclaimedServed ==
  ASSUME NEW b \in Seq(Fns), NEW f \in Fns, NEW path, NEW fns,
         ServedIn(b, path, fns), \A s : f \notin Claiming(path, s)
  PROVE  ServedIn(Append(b, f), path, fns)
  <1> SUFFICES ASSUME NEW s, At(Append(b, f), Claiming(path, s)) # {}
               PROVE  /\ s \in DOMAIN fns
                      /\ fns[s].ident = LastAt(Append(b, f), Claiming(path, s)).ident
    BY DEF ServedIn
  <1>1. f \notin Claiming(path, s)
    OBVIOUS
  <1>2. At(b, Claiming(path, s)) # {}
    BY <1>1, AtAppend
  <1>3. LastAt(Append(b, f), Claiming(path, s)) = LastAt(b, Claiming(path, s))
    BY <1>1, <1>2, AtAppend
  <1> QED
    BY <1>2, <1>3 DEF ServedIn

(* A function that claims a symbol serves it from then on.                  *)
LEMMA ClaimServed ==
  ASSUME NEW b \in Seq(Fns), NEW f \in Fns, NEW path, NEW fns, NEW symbol, NEW del,
         ServedIn(b, path, fns), f \in Claiming(path, symbol), del.ident = f.ident
  PROVE  ServedIn(Append(b, f), path, Insert(fns, symbol, del))
  <1> DEFINE new == Insert(fns, symbol, del)
  <1> SUFFICES ASSUME NEW s, At(Append(b, f), Claiming(path, s)) # {}
               PROVE  /\ s \in DOMAIN new
                      /\ new[s].ident = LastAt(Append(b, f), Claiming(path, s)).ident
    BY DEF ServedIn
  <1>1. DOMAIN new = DOMAIN fns \cup {symbol} /\ new[symbol] = del
    BY DEF Insert
  <1>2. \A t \in DOMAIN fns : t # symbol => new[t] = fns[t]
    BY DEF Insert
  <1> HIDE DEF new
  <1>3. CASE f \in Claiming(path, s)
    <2>1. s = symbol
      BY <1>3 DEF Claiming
    <2>2. LastAt(Append(b, f), Claiming(path, s)) = f
      BY <1>3, AtAppend
    <2> QED
      BY <1>1, <2>1, <2>2
  <1>4. CASE f \notin Claiming(path, s)
    <2>1. s # symbol
      BY <1>4
    <2>2. At(b, Claiming(path, s)) # {}
      BY <1>4, AtAppend
    <2>3. LastAt(Append(b, f), Claiming(path, s)) = LastAt(b, Claiming(path, s))
      BY <1>4, <2>2, AtAppend
    <2>4. s \in DOMAIN fns /\ fns[s].ident = LastAt(b, Claiming(path, s)).ident
      BY <2>2 DEF ServedIn
    <2> QED
      BY <1>1, <1>2, <2>1, <2>3, <2>4
  <1> QED
    BY <1>3, <1>4

(* A function of another role leaves the export callback as it is.          *)
LEMMA ExportKept ==
  ASSUME NEW b \in Seq(Fns), NEW f \in Fns, NEW e, ExportedIn(b, e), Role(f) # "exported"
  PROVE  ExportedIn(Append(b, f), e)
  <1>1. f \notin Exporting
    BY DEF Exporting
  <1> QED
    BY <1>1, AtAppend DEF ExportedIn

(* An exported function is the callback from then on.                       *)
LEMMA ExportSet ==
  ASSUME NEW b \in Seq(Fns), NEW f \in Fns, Role(f) = "exported"
  PROVE  ExportedIn(Append(b, f), f.ident)
  <1>1. f \in Exporting
    BY DEF Exporting
  <1> QED
    BY <1>1, AtAppend DEF ExportedIn

(* Stripping goes function by function.                                     *)
LEMMA StripAppend ==
  ASSUME NEW b \in Seq(Fns), NEW f \in Fns
  PROVE  /\ Append(b, f) \in Seq(Fns)
         /\ Append([i \in 1 .. Len(b) |-> Strip(b[i])], Strip(f))
                = [i \in 1 .. Len(Append(b, f)) |-> Strip(Append(b, f)[i])]
  <1> DEFINE S == {Strip(g) : g \in Fns}
             base0 == [i \in 1 .. Len(b) |-> Strip(b[i])]
             c == Append(b, f)
             base1 == [i \in 1 .. Len(c) |-> Strip(c[i])]
  <1>1. c \in Seq(Fns) /\ Len(c) = Len(b) + 1 /\ c[Len(b) + 1] = f
    OBVIOUS
  <1>2. \A i \in 1 .. Len(b) : c[i] = b[i]
    OBVIOUS
  <1>3. base0 \in Seq(S) /\ Len(base0) = Len(b)
    OBVIOUS
  <1>4. base1 \in Seq(S) /\ Len(base1) = Len(b) + 1
    BY <1>1
  <1>5. Append(base0, Strip(f)) \in Seq(S) /\ Len(Append(base0, Strip(f))) = Len(b) + 1
    BY <1>3
  <1>6. \A i \in 1 .. (Len(b) + 1) : Append(base0, Strip(f))[i] = base1[i]
    BY <1>1, <1>2, <1>3
  <1> HIDE DEF base0, base1, S
  <1> QED
    BY <1>1, <1>4, <1>5, <1>6 DEF base0, base1, c

-----------------------------------------------------------------------------
(* Attributes that are left over.                                           *)

(* Taking one attribute off leaves every other one.                         *)
LEMMA Removed ==
  ASSUME NEW S, NEW s \in Seq(S), NEW k \in 1 .. Len(s), NEW j \in 1 .. Len(s), j # k
  PROVE  \E i \in DOMAIN RemoveAt(s, k) : RemoveAt(s, k)[i] = s[j]
  <1> DEFINE left == SubSeq(s, 1, k - 1)
             right == SubSeq(s, k + 1, Len(s))
  <1>1. left \in Seq(S) /\ Len(left) = k - 1 /\ \A i \in 1 .. (k - 1) : left[i] = s[i]
    OBVIOUS
  <1>2. /\ right \in Seq(S) /\ Len(right) = Len(s) - k
        /\ \A i \in 1 .. (Len(s) - k) : right[i] = s[k + i]
    OBVIOUS
  <1>3. RemoveAt(s, k) = left \o right
    BY DEF RemoveAt
  <1> HIDE DEF left, right
  <1>4. DOMAIN (left \o right) = 1 .. (Len(s) - 1)
    BY <1>1, <1>2
  <1>5. CASE j < k
    <2>1. j \in 1 .. (k - 1) /\ j \in 1 .. (Len(s) - 1)
      BY <1>5
    <2>2. (left \o right)[j] = s[j]
      BY <1>1, <1>2, <2>1
    <2> QED
      BY <1>3, <1>4, <2>1, <2>2
  <1>6. CASE j > k
    <2>1. j - 1 \in 1 .. (Len(s) - 1) /\ j - k \in 1 .. (Len(s) - k) /\ k + (j - k) = j
      BY <1>6
    <2>2. (left \o right)[j - 1] = right[j - k]
      BY <1>1, <1>2, <1>6
    <2>3. right[j - k] = s[j]
      BY <1>2, <2>1
    <2> QED
      BY <1>3, <1>4, <2>1, <2>2, <2>3
  <1> QED
    BY <1>5, <1>6

(* If no attribute of the object is left, the one taken off was the only    *)
(* one.                                                                     *)
LEMMA StripLeaves ==
  ASSUME NEW f \in Fns, WithPath(Strip(f), ObjectPaths) = {}
  PROVE  WithPath(f, ObjectPaths) \subseteq {FnIndex(f)}
  <1>1. CASE FnIndex(f) = 0
    BY <1>1 DEF Strip, Role
  <1>2. CASE FnIndex(f) \in WithPath(f, ObjectPaths)
    <2> DEFINE k == FnIndex(f)
               A == ToSet(f.attrs)
    <2>1. f.attrs \in Seq(A) /\ k \in 1 .. Len(f.attrs)
      BY <1>2, FnsAssumption DEF IsSeq, WithPath
    <2>2. Role(f) \in ObjectPaths /\ k # 0
      BY <1>2, <2>1 DEF Role, WithPath
    <2>3. Strip(f).attrs = RemoveAt(f.attrs, k)
      <3>1. f = [ident |-> f.ident, async |-> f.async, attrs |-> f.attrs, params |-> f.params]
        BY FnsAssumption
      <3>2. Role(f) # "plain"
        BY <2>2 DEF ObjectPaths
      <3>3. [f EXCEPT !.attrs = RemoveAt(@, k)]
              = [ident |-> f.ident, async |-> f.async,
                 attrs |-> RemoveAt(f.attrs, k), params |-> f.params]
        BY <3>1
      <3> QED
        BY <3>2, <3>3 DEF Strip
    <2>4. ASSUME NEW j \in WithPath(f, ObjectPaths), j # k PROVE FALSE
      <3>1. j \in 1 .. Len(f.attrs) /\ f.attrs[j].path \in ObjectPaths
        BY <2>1, <2>4 DEF WithPath
      <3>2. PICK i \in DOMAIN RemoveAt(f.attrs, k) : RemoveAt(f.attrs, k)[i] = f.attrs[j]
        BY <2>1, <2>4, <3>1, Removed
      <3>3. i \in WithPath(Strip(f), ObjectPaths)
        BY <2>3, <3>1, <3>2 DEF WithPath
      <3> QED
        BY <3>3
    <2> QED
      BY <2>4
  <1> QED
    BY <1>1, <1>2, FnIndexIn

-----------------------------------------------------------------------------
(* The invariant.                                                           *)

(* The empty block has nothing to serve.                                    *)
LEMMA InitInv == IInit => Inv
  <1> SUFFICES ASSUME IInit PROVE Inv
    OBVIOUS
  <1>1. block = <<>> /\ base = <<>> /\ deliver_fns = <<>> /\ deliver_only_fns = <<>>
        /\ deliver_fallback = NoValue /\ export_fn = NoValue /\ status = "attr"
    BY DEF IInit
  <1>2. \A T : At(block, T) = {}
    BY <1>1 DEF At
  <1>3. base = [i \in 1 .. Len(block) |-> Strip(block[i])]
    BY <1>1
  <1> QED
    BY <1>1, <1>2, <1>3 DEF Inv, ServedIn, ExportedIn

(* A function that is kept: the lists grow together.                        *)
LEMMA KeepGrows ==
  ASSUME Inv, NEW f \in Fns, Item, Keep(f)
  PROVE  /\ block' = Append(block, f) /\ block' \in Seq(Fns)
         /\ base' = [i \in 1 .. Len(block') |-> Strip(block'[i])]
         /\ status = "items" /\ status' = "items"
  <1>1. status = "items" /\ status' = "items" /\ block' = Append(block, f)
        /\ base' = Append(base, Strip(f))
    BY DEF Item, Keep
  <1>2. block \in Seq(Fns) /\ base = [i \in 1 .. Len(block) |-> Strip(block[i])]
    BY <1>1 DEF Inv
  <1> QED
    BY <1>1, <1>2, StripAppend

(* A function claims no symbol in the table of another role.                *)
LEMMA OtherPath ==
  ASSUME NEW f, NEW path, Role(f) # path
  PROVE  \A s : f \notin Claiming(path, s)
  BY DEF Claiming

(* A function without a role is kept as it is.                              *)
LEMMA PlainlyInv ==
  ASSUME Inv, NEW f \in Fns, Plainly(f) PROVE Inv'
  <1>1. Item /\ Keep(f) /\ Role(f) = "plain"
        /\ UNCHANGED <<deliver_fns, deliver_fallback, deliver_only_fns, export_fn>>
    BY DEF Plainly, deliver_def, deliver_only_def
  <1>2. /\ block' = Append(block, f) /\ block' \in Seq(Fns)
        /\ base' = [i \in 1 .. Len(block') |-> Strip(block'[i])]
        /\ status = "items" /\ status' = "items"
    BY <1>1, KeepGrows
  <1>3. ServedIn(block', "deliver", deliver_fns) /\ ServedIn(block', "deliver_only", deliver_only_fns)
    BY <1>1, <1>2, OtherPath, UnclaimedServed DEF Inv
  <1>4. ExportedIn(block', export_fn)
    BY <1>1, <1>2, ExportKept DEF Inv
  <1> QED
    BY <1>1, <1>2, <1>3, <1>4 DEF Inv, ServedIn, ExportedIn

(* An exported function becomes the callback.                               *)
LEMMA ExportInv ==
  ASSUME Inv, NEW f \in Fns, Export(f) PROVE Inv'
  <1>1. Item /\ Keep(f) /\ Role(f) = "exported" /\ export_fn' = f.ident
        /\ UNCHANGED <<deliver_fns, deliver_fallback, deliver_only_fns>>
    BY DEF Export, deliver_def, deliver_only_def
  <1>2. /\ block' = Append(block, f) /\ block' \in Seq(Fns)
        /\ base' = [i \in 1 .. Len(block') |-> Strip(block'[i])]
        /\ status = "items" /\ status' = "items"
    BY <1>1, KeepGrows
  <1>3. ServedIn(block', "deliver", deliver_fns) /\ ServedIn(block', "deliver_only", deliver_only_fns)
    BY <1>1, <1>2, OtherPath, UnclaimedServed DEF Inv
  <1>4. ExportedIn(block', export_fn')
    BY <1>1, <1>2, ExportSet DEF Inv
  <1> QED
    BY <1>1, <1>2, <1>3, <1>4 DEF Inv, ServedIn, ExportedIn

(* A deliver function goes into the table, or is the fallback.              *)
LEMMA DeliverInv ==
  ASSUME Inv, NEW f \in Fns, Deliver(f) PROVE Inv'
  <1> DEFINE attr == f.attrs[FnIndex(f)]
             del == DeliverFn(f, attr)
             symbol == Symbol(f, attr)
  <1>1. Item /\ Keep(f) /\ Role(f) = "deliver" /\ DeliverOk(f, attr)
        /\ UNCHANGED <<deliver_only_fns, export_fn>>
    BY DEF Deliver, deliver_only_def
  <1>2. /\ block' = Append(block, f) /\ block' \in Seq(Fns)
        /\ base' = [i \in 1 .. Len(block') |-> Strip(block'[i])]
        /\ status = "items" /\ status' = "items"
    BY <1>1, KeepGrows
  <1>3. ServedIn(block', "deliver_only", deliver_only_fns) /\ ExportedIn(block', export_fn)
    BY <1>1, <1>2, OtherPath, UnclaimedServed, ExportKept DEF Inv
  <1>4. ASSUME ~IsVerbatim(attr) PROVE Good(del)
    <2>1. FnIndex(f) \in DOMAIN f.attrs
      BY <1>1, FnIndexIn DEF Role, WithPath
    <2>2. attr.opts # NoValue => IsSeq(attr.opts)
      BY <2>1, FnsAssumption
    <2> QED
      BY <1>1, <1>4, <2>2, DeliverGood
  <1>5. del.ident = f.ident
    BY DEF DeliverFn
  <1>6. \/ /\ f \in Claiming("deliver", symbol) /\ ~IsVerbatim(attr)
           /\ deliver_fns' = Insert(deliver_fns, symbol, del)
           /\ deliver_fallback' = deliver_fallback
        \/ /\ \A s : f \notin Claiming("deliver", s)
           /\ deliver_fns' = deliver_fns
           /\ \/ deliver_fallback' = deliver_fallback
              \/ deliver_fallback' = del /\ ~IsVerbatim(attr)
    BY <1>1 DEF Deliver, Claiming
  <1> HIDE DEF attr, del, symbol
  <1>7. ServedIn(block', "deliver", deliver_fns')
    BY <1>2, <1>5, <1>6, ClaimServed, UnclaimedServed DEF Inv
  <1>8. \A s \in DOMAIN deliver_fns' : Good(deliver_fns'[s])
    <2>1. \A s \in DOMAIN Insert(deliver_fns, symbol, del) :
             \/ Insert(deliver_fns, symbol, del)[s] = del
             \/ s \in DOMAIN deliver_fns /\ Insert(deliver_fns, symbol, del)[s] = deliver_fns[s]
      BY DEF Insert
    <2> QED
      BY <1>4, <1>6, <2>1 DEF Inv
  <1>9. deliver_fallback' # NoValue => Good(deliver_fallback')
    BY <1>4, <1>6 DEF Inv
  <1> QED
    BY <1>1, <1>2, <1>3, <1>7, <1>8, <1>9 DEF Inv, ServedIn, ExportedIn, Good

(* A deliver_only function goes into its table.                             *)
LEMMA DeliverOnlyInv ==
  ASSUME Inv, NEW f \in Fns, DeliverOnly(f) PROVE Inv'
  <1> DEFINE attr == f.attrs[FnIndex(f)]
             del == DeliverOnlyFn(f)
             symbol == Symbol(f, attr)
  <1>1. Item /\ Keep(f) /\ Role(f) = "deliver_only"
        /\ UNCHANGED <<deliver_fns, deliver_fallback, export_fn>>
    BY DEF DeliverOnly, deliver_def
  <1>2. /\ block' = Append(block, f) /\ block' \in Seq(Fns)
        /\ base' = [i \in 1 .. Len(block') |-> Strip(block'[i])]
        /\ status = "items" /\ status' = "items"
    BY <1>1, KeepGrows
  <1>3. ServedIn(block', "deliver", deliver_fns) /\ ExportedIn(block', export_fn)
    BY <1>1, <1>2, OtherPath, UnclaimedServed, ExportKept DEF Inv
  <1>4. del.ident = f.ident
    BY DEF DeliverOnlyFn
  <1>5. \/ /\ f \in Claiming("deliver_only", symbol)
           /\ deliver_only_fns' = Insert(deliver_only_fns, symbol, del)
        \/ /\ \A s : f \notin Claiming("deliver_only", s)
           /\ deliver_only_fns' = deliver_only_fns
    BY <1>1 DEF DeliverOnly, Claiming
  <1> HIDE DEF attr, del, symbol
  <1>6. ServedIn(block', "deliver_only", deliver_only_fns')
    BY <1>2, <1>4, <1>5, ClaimServed, UnclaimedServed DEF Inv
  <1> QED
    BY <1>1, <1>2, <1>3, <1>6 DEF Inv, ServedIn, ExportedIn

(* Every item, and the end of the block, keeps the invariant.               *)
LEMMA StepInv == Inv /\ [INext]_ivars => Inv'
  <1> SUFFICES ASSUME Inv, [INext]_ivars PROVE Inv'
    OBVIOUS
  <1>1. CASE ParseMetadata
    BY <1>1 DEF ParseMetadata, Inv, ServedIn, ExportedIn, deliver_def, deliver_only_def
  <1>2. ASSUME NEW f \in Fns,
               Plainly(f) \/ Export(f) \/ Deliver(f) \/ DeliverOnly(f)
        PROVE  Inv'
    BY <1>2, PlainlyInv, ExportInv, DeliverInv, DeliverOnlyInv
  <1>3. ASSUME NEW f \in Fns, RejectFn(f) PROVE Inv'
    <2>1. block' = Append(block, f) /\ status' = "error"
          /\ UNCHANGED <<deliver_fns, deliver_fallback>>
      BY <1>3 DEF RejectFn, deliver_def
    <2>2. block' \in Seq(Fns)
      BY <2>1 DEF Inv
    <2> QED
      BY <2>1, <2>2 DEF Inv
  <1>4. CASE RejectItem
    BY <1>4 DEF RejectItem, Inv, deliver_def
  <1>5. CASE Expand
    BY <1>5 DEF Expand, Inv, ServedIn, ExportedIn, deliver_def, deliver_only_def
  <1>6. CASE UNCHANGED ivars
    BY <1>6 DEF ivars, Inv, ServedIn, ExportedIn, deliver_def, deliver_only_def
  <1> QED
    BY <1>1, <1>2, <1>3, <1>4, <1>5, <1>6 DEF INext

(* The invariant holds of every expansion.                                  *)
THEOREM Invariance == ISpec => []Inv
  BY InitInv, StepInv, PTL DEF ISpec

(* Whatever attributes and parameters a block's methods have, if the macro  *)
(* accepts them one party resolves the promise of a delivery                *)
(* (DeliverAttr::process).                                                  *)
THEOREM OneResolves == ISpec => []ResolvedOnce
  <1>1. ASSUME NEW del, Good(del), NEW result
        PROVE  IF "resolver" \in ToSet(del.inputs) THEN Arm(del, result) = {}
               ELSE Cardinality(Arm(del, result)) = 1
    <2>1. CASE "resolver" \in ToSet(del.inputs)
      BY <1>1, <2>1 DEF Good, Arm
    <2>2. CASE "resolver" \notin ToSet(del.inputs)
      <3>1. Arm(del, result) = {"fulfill"} \/ Arm(del, result) = {"break"}
        BY <1>1, <2>2, NoValueAssumption DEF Good, Arm
      <3> QED
        BY <2>2, <3>1, FS_Singleton
    <2> QED
      BY <2>1, <2>2
  <1>2. Inv => ResolvedOnce
    <2> SUFFICES ASSUME Inv, NEW del \in Delivers, NEW result \in {"ok", "err"}
                 PROVE  IF "resolver" \in ToSet(del.inputs) THEN Arm(del, result) = {}
                        ELSE Cardinality(Arm(del, result)) = 1
      BY DEF ResolvedOnce
    <2>1. Good(del)
      BY DEF Inv, Delivers
    <2> QED
      BY <1>1, <2>1
  <1> QED
    BY <1>2, Invariance, PTL

(* A block that compiles has no function with two of the macro's            *)
(* attributes, of which only one is served (ObjectFn::process).             *)
THEOREM RolesServed == ISpec => []NoRoleDropped
  <1>1. Inv => NoRoleDropped
    <2> SUFFICES ASSUME Inv, Compiles, NEW i \in DOMAIN block
                 PROVE  WithPath(block[i], ObjectPaths) \subseteq {FnIndex(block[i])}
      BY DEF NoRoleDropped
    <2>1. block[i] \in Fns /\ i \in 1 .. Len(block)
      BY DEF Inv
    <2>2. base = [j \in 1 .. Len(block) |-> Strip(block[j])]
      BY DEF Inv, Compiles
    <2>3. WithPath(base[i], ObjectPaths) = {}
      BY <2>1, <2>2 DEF Compiles
    <2> QED
      BY <2>1, <2>2, <2>3, StripLeaves
  <1> QED
    BY <1>1, Invariance, PTL

(* Under every symbol stands the last function that claims it               *)
(* (ObjectDefParser::parse2).                                               *)
THEOREM LastServed == ISpec => []LastClaimServes
  <1>1. ASSUME Inv, NEW path PROVE \A s : Claimants(path, s) = At(block, Claiming(path, s))
    <2>1. \A i \in DOMAIN block : block[i] \in Fns
      BY <1>1 DEF Inv
    <2> QED
      BY <2>1 DEF Claimants, WithRole, At, Claiming
  <1>2. ASSUME Inv, NEW path, NEW fns, ServedIn(block, path, fns)
        PROVE  LastServes(path, fns)
    BY <1>1, <1>2 DEF LastServes, ServedIn, LastAt
  <1>3. ASSUME Inv PROVE WithRole("exported") = At(block, Exporting)
    <2>1. \A i \in DOMAIN block : block[i] \in Fns
      BY <1>3 DEF Inv
    <2> QED
      BY <2>1 DEF WithRole, At, Exporting
  <1>4. Inv => LastClaimServes
    <2> SUFFICES ASSUME Inv, status = "expanded"
                 PROVE  /\ LastServes("deliver", deliver_fns)
                        /\ LastServes("deliver_only", deliver_only_fns)
                        /\ output.exported = IF WithRole("exported") = {} THEN NoValue
                                             ELSE block[Max(WithRole("exported"))].ident
      BY DEF LastClaimServes
    <2>1. /\ ServedIn(block, "deliver", deliver_fns)
          /\ ServedIn(block, "deliver_only", deliver_only_fns)
          /\ ExportedIn(block, export_fn) /\ output.exported = export_fn
      BY DEF Inv
    <2>2. LastServes("deliver", deliver_fns) /\ LastServes("deliver_only", deliver_only_fns)
      BY <1>2, <2>1
    <2> QED
      BY <1>3, <2>1, <2>2 DEF ExportedIn, LastAt
  <1> QED
    BY <1>4, Invariance, PTL
=============================================================================
