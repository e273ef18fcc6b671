----------------------------- MODULE LocatorProofs -----------------------------
(***************************************************************************)
(* Proofs about locators, for texts of any length over any tokens, any     *)
(* number of hints and any order in which the hash map gives them.         *)
(*                                                                         *)
(* What the loop of encoded_query computes is shown by induction, as the   *)
(* absence of a least length at which it fails (MinIn).                    *)
(***************************************************************************)
EXTENDS Locator, FiniteSetTheorems, TLAPS, WellFoundedInduction

Safes == {RegNameSafe, UserinfoSafe, QuerySafe, PathSafe}

-----------------------------------------------------------------------------
(* Numbers: a set of positions that is not empty has a least and a          *)
(* greatest one.                                                            *)

(* A pair of the order by which MinIn reasons.                              *)
LEMMA LessThan ==
  ASSUME NEW x \in Nat, NEW y \in Nat, y < x
  PROVE  <<y, x>> \in {ss \in Nat \X Nat : ss[1] < ss[2]}
  <1>1. <<y, x>> \in Nat \X Nat
    OBVIOUS
  <1>2. <<y, x>>[1] = y /\ <<y, x>>[2] = x
    OBVIOUS
  <1> QED
    BY <1>1, <1>2

(* The least element of a set of naturals is in it.                         *)
LEMMA MinIn ==
  ASSUME NEW S \in SUBSET Nat, S # {}
  PROVE  Min(S) \in S /\ \A y \in S : Min(S) <= y
  <1> DEFINE R == {ss \in Nat \X Nat : ss[1] < ss[2]}
  <1>1. OpToRel(<, Nat) = R
    BY DEF OpToRel
  <1>2. IsWellFoundedOn(R, Nat)
    BY <1>1, NatLessThanWellFounded
  <1>3. ASSUME NEW x \in Nat, NEW y \in Nat, ~ (<<y, x>> \in R)
        PROVE  x <= y
    <2>1. ~ (y < x)
      BY <1>3, LessThan
    <2> QED
      BY <2>1
  <1> HIDE DEF R
  <1>4. PICK x \in S : \A y \in S : ~ (<<y, x>> \in R)
    BY <1>2, WFMin
  <1>5. \A y \in S : x <= y
    BY <1>3, <1>4
  <1> QED
    BY <1>5 DEF Min

(* The greatest element of a bounded set of naturals is in it.              *)
LEMMA MaxIn ==
  ASSUME NEW n \in Nat, NEW S \in SUBSET (0 .. n), S # {}
  PROVE  Max(S) \in S /\ \A y \in S : Max(S) >= y
  <1> DEFINE T == {n - y : y \in S}
  <1>1. T \in SUBSET Nat /\ T # {}
    <2>1. \A y \in S : n - y \in Nat
      OBVIOUS
    <2>2. PICK y \in S : TRUE
      OBVIOUS
    <2>3. n - y \in T
      OBVIOUS
    <2> QED
      BY <2>1, <2>3
  <1>2. Min(T) \in T /\ \A z \in T : Min(T) <= z
    BY <1>1, MinIn
  <1>3. PICK x \in S : Min(T) = n - x
    BY <1>2
  <1>4. \A y \in S : x >= y
    <2> TAKE y \in S
    <2>1. n - x <= n - y
      BY <1>2, <1>3
    <2> QED
      BY <2>1
  <1> QED
    BY <1>4 DEF Max

(* The greatest element is known once it is found.                          *)
LEMMA MaxIs ==
  ASSUME NEW S \in SUBSET Nat, NEW m \in S, \A y \in S : y <= m
  PROVE  Max(S) = m
  <1>1. \A x \in S : (\A y \in S : x >= y) => x = m
    OBVIOUS
  <1> QED
    BY <1>1 DEF Max

(* The least element is known once it is found.                             *)
LEMMA MinIs ==
  ASSUME NEW S \in SUBSET Nat, NEW m \in S, \A y \in S : m <= y
  PROVE  Min(S) = m
  <1>1. \A x \in S : (\A y \in S : x <= y) => x = m
    OBVIOUS
  <1> QED
    BY <1>1 DEF Min

-----------------------------------------------------------------------------
(* Texts.                                                                   *)

(* Texts that agree at every position are equal.                            *)
LEMMA SeqEqual ==
  ASSUME NEW S, NEW s \in Seq(S), NEW t \in Seq(S), Len(s) = Len(t),
         \A i \in 1 .. Len(s) : s[i] = t[i]
  PROVE  s = t
  OBVIOUS

(* A text is the whole of itself.                                           *)
LEMMA SubSeqAll ==
  ASSUME NEW S, NEW s \in Seq(S)
  PROVE  SubSeq(s, 1, Len(s)) = s
  OBVIOUS

(* What is at which position of a concatenation.                            *)
LEMMA Concat ==
  ASSUME NEW S, NEW s \in Seq(S), NEW t \in Seq(S), NEW all, all = s \o t
  PROVE  /\ all \in Seq(S) /\ Len(all) = Len(s) + Len(t)
         /\ \A i \in 1 .. Len(s) : all[i] = s[i]
         /\ \A i \in 1 .. Len(t) : all[Len(s) + i] = t[i]
  OBVIOUS

(* What split_once and rsplit_once return, given the position.              *)
LEMMA CutText ==
  ASSUME NEW S, NEW s \in Seq(S), NEW i \in 1 .. Len(s)
  PROVE  /\ Before(s, i) \in Seq(S) /\ Len(Before(s, i)) = i - 1
         /\ \A j \in 1 .. (i - 1) : Before(s, i)[j] = s[j]
         /\ After(s, i) \in Seq(S) /\ Len(After(s, i)) = Len(s) - i
         /\ \A j \in 1 .. (Len(s) - i) : After(s, i)[j] = s[i + j]
  BY DEF Before, After

(* What is at which position of a part of a text.                           *)
LEMMA PartText ==
  ASSUME NEW S, NEW s \in Seq(S), NEW a \in 0 .. Len(s), NEW b \in a .. Len(s)
  PROVE  /\ SubSeq(s, a + 1, b) \in Seq(S) /\ Len(SubSeq(s, a + 1, b)) = b - a
         /\ \A i \in 1 .. (b - a) : SubSeq(s, a + 1, b)[i] = s[a + i]
  OBVIOUS

(* A text that is cut where it was joined.                                  *)
LEMMA CutJoined ==
  ASSUME NEW S, NEW s \in Seq(S), NEW t \in Seq(S), NEW all \in Seq(S),
         Len(all) = Len(s) + 1 + Len(t),
         \A i \in 1 .. Len(s) : all[i] = s[i],
         \A i \in 1 .. Len(t) : all[Len(s) + 1 + i] = t[i]
  PROVE  Before(all, Len(s) + 1) = s /\ After(all, Len(s) + 1) = t
  <1> DEFINE n == Len(s) + 1
  <1>1. Len(s) \in Nat /\ Len(t) \in Nat
    OBVIOUS
  <1>2. n \in 1 .. Len(all) /\ n - 1 = Len(s) /\ Len(all) - n = Len(t)
    BY <1>1
  <1>3. /\ Before(all, n) \in Seq(S) /\ Len(Before(all, n)) = Len(s)
        /\ \A j \in 1 .. Len(s) : Before(all, n)[j] = all[j]
    BY <1>2, CutText
  <1>4. /\ After(all, n) \in Seq(S) /\ Len(After(all, n)) = Len(t)
        /\ \A j \in 1 .. Len(t) : After(all, n)[j] = all[n + j]
    <2>1. /\ After(all, n) \in Seq(S) /\ Len(After(all, n)) = Len(all) - n
          /\ \A j \in 1 .. (Len(all) - n) : After(all, n)[j] = all[n + j]
      BY <1>2, CutText
    <2> QED
      BY <1>2, <2>1
  <1>5. Before(all, n) = s
    BY <1>3, SeqEqual
  <1>6. After(all, n) = t
    BY <1>4, SeqEqual
  <1> QED
    BY <1>5, <1>6

Joined(s, c, t) == s \o <<c>> \o t

(* What is at which position of two texts joined at a separator, and that   *)
(* they are cut apart again there.                                          *)
LEMMA SplitText ==
  ASSUME NEW S, NEW s \in Seq(S), NEW c \in S, NEW t \in Seq(S)
  PROVE  /\ Joined(s, c, t) \in Seq(S) /\ Len(Joined(s, c, t)) = Len(s) + 1 + Len(t)
         /\ \A i \in 1 .. Len(s) : Joined(s, c, t)[i] = s[i]
         /\ Joined(s, c, t)[Len(s) + 1] = c
         /\ \A i \in 1 .. Len(t) : Joined(s, c, t)[Len(s) + 1 + i] = t[i]
         /\ Before(Joined(s, c, t), Len(s) + 1) = s /\ After(Joined(s, c, t), Len(s) + 1) = t
  <1> DEFINE all == Joined(s, c, t)
  <1>1. all \in Seq(S) /\ Len(all) = Len(s) + 1 + Len(t)
    BY DEF Joined
  <1>2. \A i \in 1 .. Len(s) : all[i] = s[i]
    BY DEF Joined
  <1>3. all[Len(s) + 1] = c
    BY DEF Joined
  <1>4. \A i \in 1 .. Len(t) : all[Len(s) + 1 + i] = t[i]
    BY DEF Joined
  <1> QED
    BY <1>1, <1>2, <1>3, <1>4, CutJoined

-----------------------------------------------------------------------------
(* Percent-encoding.                                                        *)

(* A token as it stands in a component of a URI.                            *)
Coded(safe, c) == IF c \in safe THEN c ELSE Escape[c]

(* A token that was encoded is decoded to itself, and only a token that     *)
(* stands for itself is left as it is.                                      *)
LEMMA CodedIs ==
  ASSUME NEW safe \in Safes, NEW c \in Tokens
  PROVE  /\ Coded(safe, c) \in Chars
         /\ Unescape(Coded(safe, c)) = c
         /\ Coded(safe, c) = c <=> c \in safe
         /\ \A d \in safe : Coded(safe, c) = d <=> c = d
         /\ c \notin safe => Coded(safe, c) \in Escapes
  <1>1. CASE c \in safe
    <2>1. \A a \in DOMAIN Escape : Escape[a] # c
      BY <1>1, EscapeAssumption DEF Safes
    <2> QED
      BY <1>1, <2>1 DEF Coded, Unescape, Chars
  <1>2. CASE c \notin safe
    <2>1. c \in DOMAIN Escape /\ Coded(safe, c) = Escape[c]
      BY <1>2, EscapeAssumption DEF Safes, Coded
    <2>2. Unescape(Escape[c]) = c
      BY <2>1, EscapeAssumption DEF Unescape
    <2>3. Escape[c] # c /\ Escape[c] \notin safe /\ Escape[c] \in Escapes
      BY <2>1, EscapeAssumption DEF Safes, Escapes
    <2> QED
      BY <1>2, <2>1, <2>2, <2>3 DEF Chars
  <1> QED
    BY <1>1, <1>2

(* Encoding goes token by token.                                            *)
LEMMA EncodeIs ==
  ASSUME NEW safe \in Safes, NEW t \in Text
  PROVE  /\ Encode(safe, t) \in UriText /\ Len(Encode(safe, t)) = Len(t)
         /\ \A i \in 1 .. Len(t) : t[i] \in Tokens /\ Encode(safe, t)[i] = Coded(safe, t[i])
  <1>1. t \in Seq(Tokens) /\ DOMAIN t = 1 .. Len(t) /\ Len(t) \in Nat
    BY DEF Text
  <1>2. \A i \in 1 .. Len(t) : t[i] \in Tokens
    BY <1>1
  <1>3. Encode(safe, t) = [i \in 1 .. Len(t) |-> Coded(safe, t[i])]
    BY <1>1 DEF Encode, Coded
  <1>4. \A i \in 1 .. Len(t) : Coded(safe, t[i]) \in Chars
    BY <1>2, CodedIs
  <1> QED
    BY <1>1, <1>2, <1>3, <1>4 DEF UriText

(* Decoding goes character by character, and gives a text.                  *)
LEMMA DecodeIs ==
  ASSUME NEW t \in UriText
  PROVE  /\ Decode(t) \in Text /\ Len(Decode(t)) = Len(t)
         /\ \A i \in 1 .. Len(t) : Decode(t)[i] = Unescape(t[i])
  <1>1. DOMAIN t = 1 .. Len(t) /\ Len(t) \in Nat /\ \A i \in 1 .. Len(t) : t[i] \in Chars
    BY DEF UriText
  <1>2. \A c \in Chars : Unescape(c) \in Tokens
    BY EscapeAssumption DEF Unescape, Escapes, Chars
  <1>3. Decode(t) = [i \in 1 .. Len(t) |-> Unescape(t[i])]
    BY <1>1 DEF Decode
  <1> QED
    BY <1>1, <1>2, <1>3 DEF Text

(* What was encoded, for any component, is decoded to itself.               *)
LEMMA DecodeEncode ==
  ASSUME NEW safe \in Safes, NEW t \in Text
  PROVE  Decode(Encode(safe, t)) = t
  <1>1. Encode(safe, t) \in UriText /\ Len(Encode(safe, t)) = Len(t)
    BY EncodeIs
  <1>2. Decode(Encode(safe, t)) \in Text /\ Len(Decode(Encode(safe, t))) = Len(t)
    BY <1>1, DecodeIs
  <1>3. \A i \in 1 .. Len(t) : Decode(Encode(safe, t))[i] = t[i]
    <2> TAKE i \in 1 .. Len(t)
    <2>1. Decode(Encode(safe, t))[i] = Unescape(Encode(safe, t)[i])
      BY <1>1, DecodeIs
    <2>2. t[i] \in Tokens /\ Encode(safe, t)[i] = Coded(safe, t[i])
      BY EncodeIs
    <2> QED
      BY <2>1, <2>2, CodedIs
  <1> QED
    BY <1>2, <1>3, SeqEqual DEF Text

(* A text stays as it is exactly if it needs no escape.                     *)
LEMMA EncodePlain ==
  ASSUME NEW safe \in Safes, NEW t \in Text
  PROVE  Encode(safe, t) = t <=> ToSet(t) \subseteq safe
  <1>1. t \in UriText /\ DOMAIN t = 1 .. Len(t)
    BY DEF Text, UriText, Chars
  <1>2. Encode(safe, t) \in UriText /\ Len(Encode(safe, t)) = Len(t)
    BY EncodeIs
  <1>3. \A i \in 1 .. Len(t) : Encode(safe, t)[i] = t[i] <=> t[i] \in safe
    BY EncodeIs, CodedIs
  <1>4. ToSet(t) \subseteq safe <=> \A i \in 1 .. Len(t) : t[i] \in safe
    BY <1>1 DEF ToSet
  <1> QED
    BY <1>1, <1>2, <1>3, <1>4, SeqEqual DEF UriText

-----------------------------------------------------------------------------
(* The path of a sturdyref.                                                 *)

(* A character that is safe in some component is not decoded to another.    *)
LEMMA SafeStays ==
  ASSUME NEW safe \in Safes, NEW c \in safe
  PROVE  c \in Tokens /\ Unescape(c) = c
  <1>1. c \in Tokens
    BY EscapeAssumption DEF Safes
  <1> QED
    BY <1>1, CodedIs

(* What try_from cuts off the path after "/s/" is the swiss number.         *)
LEMMA SwissRead ==
  ASSUME NEW s \in Text
  PROVE  LET path == Decode(EncodedPath(s))
         IN  /\ EncodedPath(s) \in UriText
             /\ path # <<>> /\ IsPrefix(SwissPrefix, path)
             /\ After(path, Len(SwissPrefix)) = s
  <1> DEFINE tail == Encode(PathSafe, s)
             coded == EncodedPath(s)
             path == Decode(coded)
  <1>1. PathSafe \in Safes
    BY DEF Safes
  <1>2. tail \in UriText /\ Len(tail) = Len(s) /\ \A i \in 1 .. Len(s) : Unescape(tail[i]) = s[i]
    BY <1>1, EncodeIs, CodedIs
  <1>3. /\ "/" \in Tokens /\ "s" \in Tokens
        /\ Unescape("/") = "/" /\ Unescape("s") = "s"
    BY <1>1, SafeAssumption, SafeStays
  <1>4. SwissPrefix \in UriText /\ Len(SwissPrefix) = 3
    BY <1>3 DEF SwissPrefix, UriText, Chars
  <1>5. coded = SwissPrefix \o tail
    BY DEF EncodedPath
  <1> HIDE DEF tail, coded
  <1>6. /\ coded \in UriText /\ Len(coded) = Len(s) + 3
        /\ \A i \in 1 .. 3 : coded[i] = SwissPrefix[i]
        /\ \A i \in 1 .. Len(s) : coded[3 + i] = tail[i]
    <2>1. /\ coded \in UriText /\ Len(coded) = Len(SwissPrefix) + Len(tail)
          /\ \A i \in 1 .. Len(SwissPrefix) : coded[i] = SwissPrefix[i]
          /\ \A i \in 1 .. Len(tail) : coded[Len(SwissPrefix) + i] = tail[i]
      <3>1. SwissPrefix \in Seq(Chars) /\ tail \in Seq(Chars)
        BY <1>2, <1>4 DEF UriText
      <3>2. /\ coded \in Seq(Chars) /\ Len(coded) = Len(SwissPrefix) + Len(tail)
            /\ \A i \in 1 .. Len(SwissPrefix) : coded[i] = SwissPrefix[i]
            /\ \A i \in 1 .. Len(tail) : coded[Len(SwissPrefix) + i] = tail[i]
        BY <1>5, <3>1, Concat
      <3> QED
        BY <3>2 DEF UriText
    <2>2. Len(tail) \in Nat
      BY <1>2 DEF UriText
    <2> QED
      BY <1>2, <1>4, <2>1, <2>2
  <1>7. Len(s) \in Nat
    BY DEF Text
  <1>8. path \in Text /\ Len(path) = Len(s) + 3 /\ \A i \in 1 .. (Len(s) + 3) : path[i] = Unescape(coded[i])
    BY <1>6, DecodeIs
  <1>9. path[1] = "/" /\ path[2] = "s" /\ path[3] = "/"
    <2>1. coded[1] = "/" /\ coded[2] = "s" /\ coded[3] = "/"
      BY <1>6 DEF SwissPrefix
    <2> QED
      BY <1>3, <1>7, <1>8, <2>1
  <1>10. \A i \in 1 .. Len(s) : path[3 + i] = s[i]
    <2> TAKE i \in 1 .. Len(s)
    <2>1. 3 + i \in 1 .. (Len(s) + 3)
      BY <1>7
    <2> QED
      BY <1>2, <1>6, <1>8, <2>1
  <1> HIDE DEF path
  <1>11. path # <<>>
    BY <1>7, <1>8
  <1>12. IsPrefix(SwissPrefix, path)
    <2>1. SubSeq(path, 1, 3) \in Seq(Tokens) /\ Len(SubSeq(path, 1, 3)) = 3
          /\ \A i \in 1 .. 3 : SubSeq(path, 1, 3)[i] = path[i]
      BY <1>7, <1>8 DEF Text
    <2>2. SwissPrefix \in Seq(Tokens)
      BY <1>3 DEF SwissPrefix
    <2>5. SubSeq(SwissPrefix, 1, 3) = SwissPrefix
      BY <1>4, <2>2, SubSeqAll
    <2>3. \A i \in 1 .. 3 : SwissPrefix[i] = path[i]
      BY <1>9 DEF SwissPrefix
    <2>4. SubSeq(path, 1, 3) = SwissPrefix
      BY <1>4, <2>1, <2>2, <2>3, SeqEqual
    <2> QED
      BY <1>4, <1>7, <1>8, <2>5, <2>4 DEF IsPrefix
  <1>13. After(path, 3) = s
    <2>1. After(path, 3) \in Seq(Tokens) /\ Len(After(path, 3)) = Len(s)
          /\ \A i \in 1 .. Len(s) : After(path, 3)[i] = path[3 + i]
      <3>1. path \in Seq(Tokens) /\ 3 \in 1 .. Len(path) /\ Len(path) - 3 = Len(s)
        BY <1>7, <1>8 DEF Text
      <3>2. /\ After(path, 3) \in Seq(Tokens) /\ Len(After(path, 3)) = Len(path) - 3
            /\ \A j \in 1 .. (Len(path) - 3) : After(path, 3)[j] = path[3 + j]
        BY <3>1, CutText
      <3> QED
        BY <3>1, <3>2
    <2> QED
      BY <1>10, <2>1, SeqEqual DEF Text
  <1> QED
    BY <1>4, <1>6, <1>11, <1>12, <1>13 DEF path, coded

-----------------------------------------------------------------------------
(* The host.                                                                *)

LastDot(host) == Max({i \in DOMAIN host : host[i] = "."})

(* rsplit_once finds a dot after which there is none.                       *)
LEMMA LastDotIs ==
  ASSUME NEW host \in UriText, "." \in ToSet(host)
  PROVE  /\ LastDot(host) \in 1 .. Len(host) /\ host[LastDot(host)] = "."
         /\ \A i \in 1 .. Len(host) : host[i] = "." => i <= LastDot(host)
  <1> DEFINE D == {i \in DOMAIN host : host[i] = "."}
  <1>1. DOMAIN host = 1 .. Len(host) /\ Len(host) \in Nat
    BY DEF UriText
  <1>2. D \in SUBSET (0 .. Len(host)) /\ D # {}
    BY <1>1 DEF ToSet
  <1>3. Max(D) \in D /\ \A i \in D : Max(D) >= i
    BY <1>1, <1>2, MaxIn
  <1>4. \A i \in 1 .. Len(host) : host[i] = "." => i \in D
    BY <1>1
  <1>5. LastDot(host) = Max(D)
    BY DEF LastDot
  <1> HIDE DEF D
  <1>6. Max(D) \in 1 .. Len(host) /\ host[Max(D)] = "."
    BY <1>1, <1>3 DEF D
  <1>7. \A i \in 1 .. Len(host) : host[i] = "." => i <= Max(D)
    BY <1>3, <1>4, <1>6
  <1> QED
    BY <1>5, <1>6, <1>7

(* The host of a designator d and a transport t.                            *)
HostOf(d, t) == Encode(RegNameSafe, d) \o <<".">> \o Encode(RegNameSafe, t)

(* encoded_host: the parts of a host, and where its dots are.               *)
LEMMA HostIs ==
  ASSUME NEW d \in Text, NEW t \in Text
  PROVE  LET host == HostOf(d, t)
             n == Len(d) + 1
         IN  /\ host \in UriText /\ Len(host) = n + Len(t)
             /\ n \in 1 .. Len(host) /\ host[n] = "."
             /\ Before(host, n) = Encode(RegNameSafe, d)
             /\ After(host, n) = Encode(RegNameSafe, t)
             /\ \A i \in 1 .. Len(d) : host[i] = Encode(RegNameSafe, d)[i]
             /\ \A i \in 1 .. Len(t) : host[n + i] = "." <=> t[i] = "."
             /\ "." \in ToSet(host)
             /\ Len(d) \in Nat /\ Len(t) \in Nat
  <1> DEFINE host == HostOf(d, t)
             e == Encode(RegNameSafe, d)
             f == Encode(RegNameSafe, t)
             n == Len(d) + 1
  <1>1. RegNameSafe \in Safes /\ "." \in RegNameSafe
    BY SafeAssumption DEF Safes
  <1>2. Len(d) \in Nat /\ Len(t) \in Nat
    BY DEF Text
  <1>3. e \in Seq(Chars) /\ Len(e) = Len(d)
    BY <1>1, EncodeIs DEF UriText
  <1>4. f \in Seq(Chars) /\ Len(f) = Len(t)
    BY <1>1, EncodeIs DEF UriText
  <1>5. \A i \in 1 .. Len(t) : f[i] = "." <=> t[i] = "."
    BY <1>1, EncodeIs, CodedIs
  <1>6. "." \in Chars
    BY <1>1, SafeStays DEF Chars
  <1>7. host = Joined(e, ".", f)
    BY DEF HostOf, Joined
  <1> HIDE DEF host, e, f
  <1>8. /\ host \in Seq(Chars) /\ Len(host) = Len(e) + 1 + Len(f)
        /\ \A i \in 1 .. Len(e) : host[i] = e[i]
        /\ host[Len(e) + 1] = "."
        /\ \A i \in 1 .. Len(f) : host[Len(e) + 1 + i] = f[i]
        /\ Before(host, Len(e) + 1) = e /\ After(host, Len(e) + 1) = f
    <2>1. e \in Seq(Chars) /\ f \in Seq(Chars)
      BY <1>3, <1>4
    <2> DEFINE all == Joined(e, ".", f)
    <2>2. all \in Seq(Chars) /\ Len(all) = Len(e) + 1 + Len(f)
      BY ONLY <1>6, <2>1, SplitText
    <2>3. \A i \in 1 .. Len(e) : all[i] = e[i]
      BY ONLY <1>6, <2>1, SplitText
    <2>4. \A i \in 1 .. Len(f) : all[Len(e) + 1 + i] = f[i]
      BY ONLY <1>6, <2>1, SplitText
    <2>5. Before(all, Len(e) + 1) = e /\ After(all, Len(e) + 1) = f
      BY ONLY <1>6, <2>1, SplitText
    <2>6. all[Len(e) + 1] = "."
      BY ONLY <1>6, <2>1, SplitText
    <2> QED
      BY <1>7, <2>2, <2>3, <2>4, <2>5, <2>6
  <1>9. Len(host) = n + Len(t) /\ n \in 1 .. Len(host)
    <2>1. Len(host) = Len(d) + 1 + Len(t)
      BY <1>3, <1>4, <1>8
    <2> QED
      BY <1>2, <2>1
  <1>10. "." \in ToSet(host)
    BY <1>3, <1>8, <1>9 DEF ToSet
  <1>11. host \in UriText
    BY <1>8 DEF UriText
  <1> QED
    BY <1>2, <1>3, <1>4, <1>5, <1>8, <1>9, <1>10, <1>11 DEF host, e, f

(* The host is split where it was joined unless the transport has a dot.    *)
LEMMA HostSplit ==
  ASSUME NEW d \in Text, NEW t \in Text, "." \notin ToSet(t)
  PROVE  LastDot(HostOf(d, t)) = Len(d) + 1
  <1> DEFINE host == HostOf(d, t)
             n == Len(d) + 1
             m == LastDot(host)
  <1>1. /\ host \in UriText /\ "." \in ToSet(host)
        /\ n \in 1 .. Len(host) /\ host[n] = "."
    BY HostIs
  <1>2. Len(t) \in Nat /\ Len(d) \in Nat /\ Len(host) = n + Len(t)
    BY HostIs
  <1>3. \A i \in 1 .. Len(t) : t[i] # "."
    BY DEF ToSet, Text
  <1>4. \A i \in 1 .. Len(t) : host[n + i] # "."
    BY <1>3, HostIs
  <1> HIDE DEF host
  <1>5. m \in 1 .. Len(host) /\ host[m] = "." /\ n <= m
    BY <1>1, LastDotIs
  <1> HIDE DEF m
  <1>6. ASSUME m > n PROVE FALSE
    <2>1. m - n \in 1 .. Len(t) /\ n + (m - n) = m
      BY <1>2, <1>5, <1>6
    <2> QED
      BY <1>4, <1>5, <2>1
  <1> QED
    BY <1>2, <1>5, <1>6 DEF host, m

(* What follows the last dot has none.                                      *)
LEMMA NoDotAfter ==
  ASSUME NEW host \in UriText, "." \in ToSet(host)
  PROVE  "." \notin ToSet(After(host, LastDot(host)))
  <1> DEFINE m == LastDot(host)
             after == After(host, m)
  <1>1. m \in 1 .. Len(host) /\ \A i \in 1 .. Len(host) : host[i] = "." => i <= m
    BY LastDotIs
  <1>2. Len(host) \in Nat
    BY DEF UriText
  <1> HIDE DEF m
  <1>3. after \in UriText /\ Len(after) = Len(host) - m
        /\ \A j \in 1 .. (Len(host) - m) : after[j] = host[m + j]
    BY <1>1, CutText DEF UriText
  <1> HIDE DEF after
  <1>4. DOMAIN after = 1 .. (Len(host) - m)
    BY <1>3 DEF UriText
  <1>5. ASSUME NEW j \in 1 .. (Len(host) - m) PROVE after[j] # "."
    <2>1. m + j \in 1 .. Len(host) /\ ~ (m + j <= m)
      BY <1>1, <1>2
    <2> QED
      BY <1>1, <1>3, <2>1
  <1>6. "." \notin ToSet(after)
    BY <1>4, <1>5 DEF ToSet
  <1> QED
    BY <1>6 DEF after, m

(* The host is read back as it was exactly if it needs no escape and the    *)
(* transport has no dot.                                                    *)
LEMMA HostReturns ==
  ASSUME NEW d \in Text, NEW t \in Text
  PROVE  LET host == HostOf(d, t)
         IN  Before(host, LastDot(host)) = d /\ After(host, LastDot(host)) = t
             <=> Plain(d) /\ "." \notin ToSet(t) /\ Plain(t)
  <1> DEFINE host == HostOf(d, t)
             n == Len(d) + 1
  <1>1. RegNameSafe \in Safes
    BY DEF Safes
  <1>2. /\ host \in UriText /\ "." \in ToSet(host)
        /\ Before(host, n) = Encode(RegNameSafe, d)
        /\ After(host, n) = Encode(RegNameSafe, t)
    BY HostIs
  <1>3. Encode(RegNameSafe, d) = d <=> Plain(d)
    BY <1>1, EncodePlain DEF Plain
  <1>4. Encode(RegNameSafe, t) = t <=> Plain(t)
    BY <1>1, EncodePlain DEF Plain
  <1>5. CASE "." \notin ToSet(t)
    <2>1. LastDot(host) = n
      BY <1>5, HostSplit
    <2> QED
      BY <1>2, <1>3, <1>4, <1>5, <2>1
  <1>6. CASE "." \in ToSet(t)
    <2>1. "." \notin ToSet(After(host, LastDot(host)))
      BY <1>2, NoDotAfter
    <2> QED
      BY <1>6, <2>1
  <1> QED
    BY <1>5, <1>6

(* The designator read back is the address if the host splits, and no       *)
(* address if it does not.                                                  *)
LEMMA HostAddress ==
  ASSUME NEW d \in Text, NEW t \in Text, d \in IpTexts
  PROVE  LET read == Before(HostOf(d, t), LastDot(HostOf(d, t)))
         IN  IF Plain(d) /\ "." \notin ToSet(t) THEN read = d ELSE read \notin IpTexts
  <1> DEFINE host == HostOf(d, t)
             e == Encode(RegNameSafe, d)
             n == Len(d) + 1
             m == LastDot(host)
             read == Before(host, m)
  <1>1. RegNameSafe \in Safes
    BY DEF Safes
  <1>2. /\ host \in UriText /\ "." \in ToSet(host)
        /\ n \in 1 .. Len(host) /\ host[n] = "."
        /\ Before(host, n) = e
    BY HostIs
  <1>3. Len(d) \in Nat /\ Len(t) \in Nat /\ Len(host) = n + Len(t)
    BY HostIs
  <1>4. \A i \in 1 .. Len(d) : host[i] = e[i]
    BY HostIs
  <1>5. e = d <=> Plain(d)
    BY <1>1, EncodePlain DEF Plain
  <1>6. m \in 1 .. Len(host) /\ \A i \in 1 .. Len(host) : host[i] = "." => i <= m
    BY <1>2, LastDotIs
  <1>7. \A i \in 1 .. Len(t) : t[i] = "." => host[n + i] = "."
    BY HostIs
  <1> HIDE DEF host, m
  <1>8. read \in UriText /\ Len(read) = m - 1 /\ \A i \in 1 .. (m - 1) : read[i] = host[i]
    BY <1>2, <1>6, CutText DEF UriText
  <1>9. n <= m /\ m \in Nat
    BY <1>2, <1>3, <1>6
  <1> HIDE DEF read
  <1>10. CASE ~Plain(d)
    <2>1. PICK i \in 1 .. Len(d) : d[i] \notin RegNameSafe
      BY <1>10 DEF Plain, ToSet, Text
    <2>2. e[i] \in Escapes
      BY <1>1, <2>1, EncodeIs, CodedIs
    <2>3. i \in 1 .. (m - 1)
      BY <1>3, <1>9, <2>1
    <2>4. read[i] \in Escapes /\ i \in DOMAIN read
      <3>1. DOMAIN read = 1 .. (m - 1)
        BY <1>8 DEF UriText
      <3>2. read[i] = e[i]
        BY <1>4, <1>8, <2>1, <2>3
      <3> QED
        BY <2>2, <2>3, <3>1, <3>2
    <2>5. read \notin IpTexts
      BY <2>4, IpAssumption DEF ToSet
    <2> QED
      BY <1>10, <2>5 DEF read, m, host
  <1>11. CASE Plain(d) /\ "." \notin ToSet(t)
    <2>1. m = n
      BY <1>11, HostSplit DEF m, host
    <2> QED
      BY <1>2, <1>5, <1>11, <2>1 DEF read, m, host
  <1>12. CASE Plain(d) /\ "." \in ToSet(t)
    <2>1. PICK j \in 1 .. Len(t) : t[j] = "."
      BY <1>12 DEF ToSet, Text
    <2>2. n + j <= m
      <3>1. n + j \in 1 .. Len(host)
        BY <1>3, <2>1
      <3> QED
        BY <1>6, <1>7, <2>1, <3>1
    <2>3. n \in 1 .. (m - 1)
      BY <1>3, <1>9, <2>1, <2>2
    <2> DEFINE long == Append(d, ".")
    <2>4. /\ long \in Seq(Chars) /\ Len(long) = n /\ long[n] = "."
          /\ \A i \in 1 .. Len(d) : long[i] = d[i]
      <3>1. "." \in Chars
        BY <1>1, SafeAssumption, SafeStays DEF Chars
      <3>2. d \in Seq(Chars)
        BY DEF Text, Chars
      <3> QED
        BY <3>1, <3>2
    <2> HIDE DEF long
    <2>5. \A i \in 1 .. n : long[i] = read[i]
      <3> TAKE i \in 1 .. n
      <3>1. i \in 1 .. (m - 1) /\ (i = n \/ i \in 1 .. Len(d))
        BY <1>3, <1>9, <2>3
      <3>2. read[i] = host[i]
        BY <1>8, <3>1
      <3>3. i \in 1 .. Len(d) => host[i] = d[i]
        BY <1>4, <1>5, <1>12
      <3> QED
        BY <1>2, <2>4, <3>1, <3>2, <3>3
    <2>6. SubSeq(long, 1, n) = long
      BY <2>4, SubSeqAll
    <2>7. /\ SubSeq(read, 1, n) \in Seq(Chars) /\ Len(SubSeq(read, 1, n)) = n
          /\ \A i \in 1 .. n : SubSeq(read, 1, n)[i] = read[i]
      BY <1>3, <1>8, <1>9, <2>3 DEF UriText
    <2>8. SubSeq(read, 1, n) = long
      BY <2>4, <2>5, <2>7, SeqEqual
    <2>9. IsPrefix(long, read)
      BY <1>3, <1>8, <1>9, <2>3, <2>4, <2>6, <2>8 DEF IsPrefix
    <2>10. read \notin IpTexts
      BY <1>12, <2>9, IpAssumption DEF long
    <2> QED
      BY <1>12, <2>10 DEF read, m, host
  <1> QED
    BY <1>10, <1>11, <1>12

-----------------------------------------------------------------------------
(* The query: what its characters are.                                      *)

QueryChars == {Coded(QuerySafe, a) : a \in Tokens \ NonUtf8}

(* A character of a query is decoded to UTF-8, and to a separator only if   *)
(* it is one.                                                               *)
LEMMA QueryCharIs ==
  ASSUME NEW c \in QueryChars
  PROVE  /\ c \in Chars /\ Unescape(c) \in Tokens \ NonUtf8
         /\ Unescape(c) = "&" <=> c = "&"
         /\ Unescape(c) = "=" <=> c = "="
  <1>1. QuerySafe \in Safes /\ "&" \in QuerySafe /\ "=" \in QuerySafe
    BY SafeAssumption DEF Safes
  <1>2. PICK a \in Tokens \ NonUtf8 : c = Coded(QuerySafe, a)
    BY DEF QueryChars
  <1>3. /\ c \in Chars /\ Unescape(c) = a
        /\ \A d \in QuerySafe : c = d <=> a = d
    BY <1>1, <1>2, CodedIs
  <1> QED
    BY <1>1, <1>2, <1>3

(* The separators are characters of the query.                              *)
LEMMA Separators == "&" \in QueryChars /\ "=" \in QueryChars
  <1>1. QuerySafe \in Safes /\ "&" \in QuerySafe /\ "=" \in QuerySafe
        /\ "&" \in Tokens \ NonUtf8 /\ "=" \in Tokens \ NonUtf8
    BY SafeAssumption DEF Safes
  <1>2. Coded(QuerySafe, "&") = "&" /\ Coded(QuerySafe, "=") = "="
    BY <1>1 DEF Coded
  <1> QED
    BY <1>1, <1>2 DEF QueryChars

(* What is encoded for a query keeps its separators where they are.         *)
LEMMA EncodeQueryText ==
  ASSUME NEW t \in Text, IsUtf8(t)
  PROVE  /\ Encode(QuerySafe, t) \in Seq(QueryChars) /\ Len(Encode(QuerySafe, t)) = Len(t)
         /\ \A i \in 1 .. Len(t) : Encode(QuerySafe, t)[i] = "&" <=> t[i] = "&"
         /\ \A i \in 1 .. Len(t) : Encode(QuerySafe, t)[i] = "=" <=> t[i] = "="
  <1> DEFINE e == Encode(QuerySafe, t)
  <1>1. QuerySafe \in Safes /\ "&" \in QuerySafe /\ "=" \in QuerySafe
    BY SafeAssumption DEF Safes
  <1>2. /\ e \in UriText /\ Len(e) = Len(t)
        /\ \A i \in 1 .. Len(t) : t[i] \in Tokens /\ e[i] = Coded(QuerySafe, t[i])
    BY <1>1, EncodeIs
  <1>3. \A i \in 1 .. Len(t) : t[i] \in Tokens \ NonUtf8
    BY <1>2 DEF IsUtf8, Text
  <1>4. \A i \in 1 .. Len(t) : e[i] \in QueryChars
    BY <1>2, <1>3 DEF QueryChars
  <1>5. e \in Seq(QueryChars)
    BY <1>2, <1>4 DEF UriText
  <1>6. \A i \in 1 .. Len(t) : (e[i] = "&" <=> t[i] = "&") /\ (e[i] = "=" <=> t[i] = "=")
    BY <1>1, <1>2, CodedIs
  <1> QED
    BY <1>2, <1>5, <1>6

(* A part of a query is decoded to UTF-8, and has a separator where the     *)
(* query has it.                                                            *)
LEMMA DecodeQueryText ==
  ASSUME NEW t \in Seq(QueryChars)
  PROVE  /\ Decode(t) \in Text /\ IsUtf8(Decode(t)) /\ Len(Decode(t)) = Len(t)
         /\ \A i \in 1 .. Len(t) : Decode(t)[i] = "&" <=> t[i] = "&"
         /\ \A i \in 1 .. Len(t) : Decode(t)[i] = "=" <=> t[i] = "="
  <1>1. \A i \in 1 .. Len(t) : t[i] \in QueryChars
    OBVIOUS
  <1>2. t \in UriText
    <2>1. \A c \in QueryChars : c \in Chars
      BY QueryCharIs
    <2> QED
      BY <2>1 DEF UriText
  <1>3. /\ Decode(t) \in Text /\ Len(Decode(t)) = Len(t)
        /\ \A i \in 1 .. Len(t) : Decode(t)[i] = Unescape(t[i])
    BY <1>2, DecodeIs
  <1>4. DOMAIN Decode(t) = 1 .. Len(t)
    BY <1>3 DEF Text
  <1> QED
    BY <1>1, <1>3, <1>4, QueryCharIs DEF IsUtf8

-----------------------------------------------------------------------------
(* The query: its segments.                                                 *)

SegEnd(query, a) ==
    LET ends == {b \in DOMAIN query : b > a /\ query[b] = "&"}
    IN  IF ends = {} THEN Len(query) ELSE Min(ends) - 1

Segs(query) == {Segment(query, a) : a \in Cuts(query)}

(* A segment ends before the next "&".                                      *)
LEMMA SegEndIs ==
  ASSUME NEW S, NEW query \in Seq(S), NEW a \in Cuts(query)
  PROVE  /\ Segment(query, a) = SubSeq(query, a + 1, SegEnd(query, a))
         /\ a \in 0 .. Len(query) /\ SegEnd(query, a) \in a .. Len(query)
         /\ \A i \in (a + 1) .. SegEnd(query, a) : query[i] # "&"
         /\ SegEnd(query, a) = Len(query) \/ query[SegEnd(query, a) + 1] = "&"
  <1> DEFINE ends == {b \in DOMAIN query : b > a /\ query[b] = "&"}
  <1>1. DOMAIN query = 1 .. Len(query) /\ Len(query) \in Nat
    OBVIOUS
  <1>2. a \in 0 .. Len(query)
    BY <1>1 DEF Cuts
  <1>3. Segment(query, a) = SubSeq(query, a + 1, SegEnd(query, a))
    BY DEF Segment, SegEnd
  <1>4. \A i \in 1 .. Len(query) : i > a /\ query[i] = "&" => i \in ends
    BY <1>1
  <1>5. CASE ends = {}
    <2>1. SegEnd(query, a) = Len(query)
      BY <1>5 DEF SegEnd
    <2>2. \A i \in (a + 1) .. Len(query) : i \in 1 .. Len(query) /\ i > a
      BY <1>1, <1>2
    <2> QED
      BY <1>1, <1>2, <1>3, <1>4, <1>5, <2>1, <2>2
  <1>6. CASE ends # {}
    <2> DEFINE m == Min(ends)
    <2>1. ends \in SUBSET Nat
      BY <1>1
    <2>2. m \in ends /\ \A y \in ends : m <= y
      BY <1>6, <2>1, MinIn
    <2>3. SegEnd(query, a) = m - 1
      BY <1>6 DEF SegEnd
    <2> HIDE DEF m
    <2>4. m \in 1 .. Len(query) /\ m > a /\ query[m] = "&"
      BY <1>1, <2>2
    <2>5. m - 1 \in a .. Len(query) /\ (m - 1) + 1 = m
      BY <1>1, <1>2, <2>4
    <2> HIDE DEF ends
    <2>6. ASSUME NEW i \in (a + 1) .. (m - 1) PROVE query[i] # "&"
      <3>1. i \in 1 .. Len(query) /\ i > a /\ ~ (m <= i)
        BY <1>1, <1>2, <2>4
      <3> QED
        BY <1>4, <2>2, <3>1
    <2> QED
      BY <1>2, <1>3, <2>3, <2>4, <2>5, <2>6
  <1> QED
    BY <1>5, <1>6

(* The end of a segment is known once it is found.                          *)
LEMMA SegEndIsAt ==
  ASSUME NEW S, NEW query \in Seq(S), NEW a \in Cuts(query), NEW b \in a .. Len(query),
         \A i \in (a + 1) .. b : query[i] # "&",
         b = Len(query) \/ query[b + 1] = "&"
  PROVE  SegEnd(query, a) = b
  <1> DEFINE e == SegEnd(query, a)
  <1>1. /\ a \in 0 .. Len(query) /\ e \in a .. Len(query)
        /\ \A i \in (a + 1) .. e : query[i] # "&"
        /\ e = Len(query) \/ query[e + 1] = "&"
    BY SegEndIs
  <1>2. Len(query) \in Nat
    OBVIOUS
  <1> HIDE DEF e
  <1>3. ASSUME e < b PROVE FALSE
    <2>1. e + 1 \in (a + 1) .. b /\ e # Len(query)
      BY <1>1, <1>2, <1>3
    <2> QED
      BY <1>1, <2>1
  <1>4. ASSUME b < e PROVE FALSE
    <2>1. b + 1 \in (a + 1) .. e /\ b # Len(query)
      BY <1>1, <1>2, <1>4
    <2> QED
      BY <1>1, <2>1
  <1>5. e \in Nat /\ b \in Nat
    BY <1>1, <1>2
  <1>6. e = b
    BY <1>3, <1>4, <1>5
  <1> QED
    BY <1>6 DEF e

(* A segment has no "&".                                                    *)
LEMMA SegmentIs ==
  ASSUME NEW S, NEW query \in Seq(S), NEW a \in Cuts(query)
  PROVE  /\ Segment(query, a) \in Seq(S)
         /\ \A i \in 1 .. Len(Segment(query, a)) : Segment(query, a)[i] # "&"
  <1> DEFINE b == SegEnd(query, a)
             seg == Segment(query, a)
  <1>1. /\ seg = SubSeq(query, a + 1, b)
        /\ a \in 0 .. Len(query) /\ b \in a .. Len(query)
        /\ \A i \in (a + 1) .. b : query[i] # "&"
    BY SegEndIs
  <1>2. Len(query) \in Nat
    OBVIOUS
  <1> HIDE DEF b, seg
  <1>3. /\ SubSeq(query, a + 1, b) \in Seq(S) /\ Len(SubSeq(query, a + 1, b)) = b - a
        /\ \A i \in 1 .. (b - a) : SubSeq(query, a + 1, b)[i] = query[a + i]
    BY <1>1, <1>2
  <1>4. ASSUME NEW i \in 1 .. (b - a) PROVE seg[i] # "&"
    <2>1. a + i \in (a + 1) .. b
      BY <1>1, <1>2
    <2> QED
      BY <1>1, <1>3, <2>1
  <1> QED
    BY <1>1, <1>3, <1>4 DEF seg

(* A query without "&" is its only segment.                                 *)
LEMMA SegOne ==
  ASSUME NEW S, NEW query \in Seq(S), \A i \in 1 .. Len(query) : query[i] # "&"
  PROVE  Segs(query) = {query}
  <1>1. DOMAIN query = 1 .. Len(query) /\ Len(query) \in Nat
    OBVIOUS
  <1>2. Cuts(query) = {0}
    BY <1>1 DEF Cuts
  <1>3. 0 \in Cuts(query)
    BY <1>2
  <1>4. SegEnd(query, 0) = Len(query)
    <2>1. Len(query) \in 0 .. Len(query) /\ \A i \in (0 + 1) .. Len(query) : query[i] # "&"
      BY <1>1
    <2> QED
      BY <1>3, <2>1, SegEndIsAt
  <1>5. Segment(query, 0) = SubSeq(query, 0 + 1, Len(query))
    BY <1>3, <1>4, SegEndIs
  <1>6. Segment(query, 0) = query
    BY <1>5, SubSeqAll
  <1> QED
    BY <1>2, <1>6 DEF Segs

(* A segment without "&" that is pushed after an "&" is one more segment.   *)
LEMMA SegPush ==
  ASSUME NEW S, "&" \in S, NEW query \in Seq(S), NEW seg \in Seq(S),
         \A i \in 1 .. Len(seg) : seg[i] # "&"
  PROVE  Segs(Joined(query, "&", seg)) = Segs(query) \cup {seg}
  <1> DEFINE all == Joined(query, "&", seg)
             n == Len(query) + 1
  <1>1. all \in Seq(S) /\ Len(all) = Len(query) + 1 + Len(seg)
    BY SplitText
  <1>2. \A i \in 1 .. Len(query) : all[i] = query[i]
    BY SplitText
  <1>3. all[n] = "&"
    BY SplitText
  <1>4. \A i \in 1 .. Len(seg) : all[n + i] = seg[i]
    BY SplitText
  <1>5. After(all, n) = seg
    BY SplitText
  <1> HIDE DEF all
  <1>6. /\ Len(query) \in Nat /\ Len(seg) \in Nat
        /\ DOMAIN query = 1 .. Len(query) /\ DOMAIN all = 1 .. Len(all)
    BY <1>1
  <1>7. Len(all) = n + Len(seg) /\ n \in Nat /\ n \in 1 .. Len(all)
    BY <1>1, <1>6
  <1>8. ASSUME NEW i \in 1 .. Len(seg) PROVE all[n + i] # "&"
    BY <1>4
  <1>9. ASSUME NEW i \in (n + 1) .. Len(all) PROVE all[i] # "&"
    <2>1. i - n \in 1 .. Len(seg) /\ n + (i - n) = i
      BY <1>6, <1>7
    <2> QED
      BY <1>8, <2>1
  <1>10. Cuts(all) = Cuts(query) \cup {n}
    <2>1. ASSUME NEW i \in 1 .. Len(all), all[i] = "&"
          PROVE  i = n \/ (i \in 1 .. Len(query) /\ query[i] = "&")
      <3>1. i \in 1 .. Len(query) \/ i = n \/ i \in (n + 1) .. Len(all)
        BY <1>6, <1>7
      <3> QED
        BY <1>2, <1>9, <2>1, <3>1
    <2>2. ASSUME NEW i \in 1 .. Len(query), query[i] = "&"
          PROVE  i \in 1 .. Len(all) /\ all[i] = "&"
      <3>1. i \in 1 .. Len(all)
        BY <1>6, <1>7
      <3> QED
        BY <1>2, <2>2, <3>1
    <2> HIDE DEF n
    <2> QED
      BY <1>3, <1>6, <1>7, <2>1, <2>2 DEF Cuts
  <1>11. Segment(all, n) = seg
    <2>1. n \in Cuts(all)
      BY <1>10
    <2>2. SegEnd(all, n) = Len(all)
      <3>1. Len(all) \in n .. Len(all)
        BY <1>6, <1>7
      <3> QED
        BY <1>1, <1>9, <2>1, <3>1, SegEndIsAt
    <2>3. Segment(all, n) = SubSeq(all, n + 1, Len(all))
      BY <1>1, <2>1, <2>2, SegEndIs
    <2> QED
      BY <1>5, <2>3 DEF After
  <1>12. ASSUME NEW a \in Cuts(query) PROVE Segment(all, a) = Segment(query, a)
    <2> DEFINE b == SegEnd(query, a)
    <2>1. /\ Segment(query, a) = SubSeq(query, a + 1, b)
          /\ a \in 0 .. Len(query) /\ b \in a .. Len(query)
          /\ \A i \in (a + 1) .. b : query[i] # "&"
          /\ b = Len(query) \/ query[b + 1] = "&"
      BY SegEndIs
    <2> HIDE DEF b
    <2>11. a \in 0 .. Len(query) /\ b \in a .. Len(query)
      BY <2>1
    <2>2. a \in 0 .. Len(all) /\ b \in a .. Len(all) /\ a \in Cuts(all)
      <3>1. Len(query) <= Len(all) /\ Len(all) \in Nat
        BY <1>6, <1>7
      <3>2. a \in 0 .. Len(all) /\ b \in a .. Len(all)
        BY <1>6, <2>11, <3>1
      <3> QED
        BY <1>10, <3>2
    <2>3. ASSUME NEW i \in (a + 1) .. b PROVE all[i] # "&"
      <3>1. i \in 1 .. Len(query)
        BY <1>6, <2>11
      <3> QED
        BY <1>2, <2>1, <3>1
    <2>4. all[b + 1] = "&"
      <3>1. CASE b = Len(query)
        BY <1>3, <3>1
      <3>2. CASE b # Len(query)
        <4>1. b + 1 \in 1 .. Len(query)
          <5>1. b \in 0 .. Len(query)
            BY <1>6, <2>11
          <5>2. Len(query) \in Nat
            BY <1>6
          <5> QED
            BY ONLY <3>2, <5>1, <5>2
        <4> QED
          BY <1>2, <2>1, <3>2, <4>1
      <3> QED
        BY <3>1, <3>2
    <2>5. SegEnd(all, a) = b
      BY <1>1, <2>2, <2>3, <2>4, SegEndIsAt
    <2>6. Segment(all, a) = SubSeq(all, a + 1, b)
      BY <1>1, <2>2, <2>5, SegEndIs
    <2>7. /\ SubSeq(query, a + 1, b) \in Seq(S) /\ Len(SubSeq(query, a + 1, b)) = b - a
          /\ \A i \in 1 .. (b - a) : SubSeq(query, a + 1, b)[i] = query[a + i]
      BY <2>11, PartText
    <2>8. /\ SubSeq(all, a + 1, b) \in Seq(S) /\ Len(SubSeq(all, a + 1, b)) = b - a
          /\ \A i \in 1 .. (b - a) : SubSeq(all, a + 1, b)[i] = all[a + i]
      BY <1>1, <2>2, PartText
    <2>9. ASSUME NEW i \in 1 .. (b - a) PROVE all[a + i] = query[a + i]
      <3>1. a + i \in 1 .. Len(query)
        BY <1>6, <2>11
      <3> QED
        BY <1>2, <3>1
    <2>10. SubSeq(all, a + 1, b) = SubSeq(query, a + 1, b)
      BY <2>7, <2>8, <2>9, SeqEqual
    <2> QED
      BY <2>1, <2>6, <2>10
  <1>13. Segs(all) = Segs(query) \cup {seg}
    <2> HIDE DEF n
    <2> QED
      BY <1>10, <1>11, <1>12 DEF Segs
  <1> QED
    BY <1>13 DEF all

(* What is pushed after an "&".                                             *)
LEMMA PushIs ==
  ASSUME NEW S, NEW query \in Seq(S), NEW pair \in Seq(S), "&" \in S
  PROVE  PushPair(query, pair) = IF query = <<>> THEN pair ELSE Joined(query, "&", pair)
  <1>1. \A c \in S : Append(query, c) = query \o <<c>>
    OBVIOUS
  <1> QED
    BY <1>1 DEF PushPair, Joined

(* The query once i of n pairs of characters in S are in it.                *)
Pushed(S, n, query, pair) ==
    /\ query[0] = <<>>
    /\ \A i \in 1 .. n : /\ query[i] = PushPair(query[i - 1], pair[i])
                         /\ pair[i] \in Seq(S) /\ pair[i] # <<>>

(* It is empty only before the first pair.                                  *)
LEMMA QueryIs ==
  ASSUME NEW S, "&" \in S, NEW n \in Nat, NEW query, NEW pair, Pushed(S, n, query, pair)
  PROVE  \A i \in 0 .. n : query[i] \in Seq(S) /\ (i # 0 => query[i] # <<>>)
  <1> USE DEF Pushed
  <1> DEFINE Bad == {i \in 0 .. n : ~ (query[i] \in Seq(S) /\ (i # 0 => query[i] # <<>>))}
             m == Min(Bad)
  <1>1. SUFFICES ASSUME Bad # {} PROVE FALSE
    OBVIOUS
  <1>2. Bad \in SUBSET Nat
    OBVIOUS
  <1>3. m \in Bad /\ \A i \in Bad : m <= i
    BY <1>1, <1>2, MinIn
  <1> HIDE DEF m
  <1>4. m \in 1 .. n
    <2>1. query[0] \in Seq(S)
      <3>1. <<>> \in Seq(S)
        OBVIOUS
      <3> QED
        BY <3>1
    <2>2. m # 0
      BY <1>3, <2>1
    <2> QED
      BY <1>3, <2>2
  <1>5. query[m - 1] \in Seq(S)
    <2>1. m - 1 \in 0 .. n /\ ~ (m <= m - 1)
      BY <1>4
    <2>2. m - 1 \notin Bad
      BY <1>3, <2>1
    <2> QED
      BY <2>1, <2>2
  <1>6. query[m] = IF query[m - 1] = <<>> THEN pair[m] ELSE Joined(query[m - 1], "&", pair[m])
    <2>1. query[m] = PushPair(query[m - 1], pair[m]) /\ pair[m] \in Seq(S)
      BY <1>4
    <2> QED
      BY <1>5, <2>1, PushIs
  <1>7. query[m] \in Seq(S) /\ query[m] # <<>>
    <2>1. pair[m] \in Seq(S) /\ pair[m] # <<>>
      BY <1>4
    <2> DEFINE q == query[m - 1]
               new == pair[m]
    <2> HIDE DEF q, new
    <2>2. q \in Seq(S) /\ new \in Seq(S)
      BY <1>5, <2>1 DEF q, new
    <2>3. Joined(q, "&", new) \in Seq(S) /\ Joined(q, "&", new) # <<>>
      <3>1. Joined(q, "&", new) \in Seq(S) /\ Len(Joined(q, "&", new)) = Len(q) + 1 + Len(new)
        BY ONLY "&" \in S, <2>2, SplitText
      <3>2. Len(q) \in Nat /\ Len(new) \in Nat
        BY <2>2
      <3>3. Len(Joined(q, "&", new)) # 0
        BY <3>1, <3>2
      <3> QED
        BY <3>1, <3>3
    <2> QED
      BY <1>6, <2>1, <2>3 DEF q, new
  <1> QED
    BY <1>3, <1>7

UpTo(pair, i) == {pair[j] : j \in 1 .. i}

(* Its segments are the pairs that are in it.                               *)
LEMMA SegsAre ==
  ASSUME NEW S, "&" \in S, NEW n \in Nat, NEW query, NEW pair, Pushed(S, n, query, pair),
         \A i \in 1 .. n : \A j \in 1 .. Len(pair[i]) : pair[i][j] # "&"
  PROVE  \A i \in 1 .. n : Segs(query[i]) = UpTo(pair, i)
  <1> DEFINE Bad == {i \in 1 .. n : Segs(query[i]) # UpTo(pair, i)}
             m == Min(Bad)
  <1>1. SUFFICES ASSUME Bad # {} PROVE FALSE
    OBVIOUS
  <1>2. Bad \in SUBSET Nat
    OBVIOUS
  <1>3. m \in Bad /\ \A i \in Bad : m <= i
    BY <1>1, <1>2, MinIn
  <1>4. \A i \in 0 .. n : query[i] \in Seq(S) /\ (i # 0 => query[i] # <<>>)
    BY QueryIs
  <1> HIDE DEF m
  <1>5. m \in 1 .. n /\ Segs(query[m]) # UpTo(pair, m)
    BY <1>3
  <1>6. m - 1 \in 0 .. n /\ m \in Nat
    BY <1>5
  <1> DEFINE q == query[m - 1]
             new == pair[m]
  <1> HIDE DEF q, new
  <1>7. /\ query[m] = PushPair(q, new) /\ new \in Seq(S)
        /\ \A j \in 1 .. Len(new) : new[j] # "&"
    BY <1>5 DEF q, new, Pushed
  <1>8. q \in Seq(S) /\ (m - 1 # 0 => q # <<>>)
    BY <1>4, <1>6 DEF q
  <1>9. query[m] = IF q = <<>> THEN new ELSE Joined(q, "&", new)
    BY <1>7, <1>8, PushIs
  <1>10. CASE m = 1
    <2>1. q = <<>>
      BY <1>10 DEF q, Pushed
    <2>2. Segs(query[m]) = {new}
      BY <1>7, <1>9, <2>1, SegOne
    <2>3. 1 .. m = {1}
      BY <1>10
    <2>4. UpTo(pair, m) = {new}
      BY <1>10, <2>3 DEF UpTo, new
    <2> QED
      BY <1>5, <2>2, <2>4
  <1>11. CASE m # 1
    <2>1. m - 1 \in 1 .. n /\ m - 1 # 0 /\ ~ (m <= m - 1)
      BY <1>5, <1>11
    <2>2. Segs(q) = UpTo(pair, m - 1)
      BY <1>3, <2>1 DEF q
    <2>3. Segs(query[m]) = Segs(q) \cup {new}
      <3>1. query[m] = Joined(q, "&", new)
        BY <1>8, <1>9, <2>1
      <3>2. Segs(Joined(q, "&", new)) = Segs(q) \cup {new}
        BY <1>7, <1>8, SegPush
      <3> QED
        BY <3>1, <3>2
    <2>4. UpTo(pair, m) = UpTo(pair, m - 1) \cup {new}
      <3>1. \A j : j \in 1 .. m <=> j \in 1 .. (m - 1) \/ j = m
        BY <1>5
      <3>2. 1 .. m = (1 .. (m - 1)) \cup {m}
        BY <3>1
      <3> QED
        BY <3>2 DEF UpTo, new
    <2> QED
      BY <1>5, <2>2, <2>3, <2>4
  <1> QED
    BY <1>10, <1>11

-----------------------------------------------------------------------------
(* The query: the loop of encoded_query.                                    *)

QueryOf(l, order) ==
    CHOOSE query :
        query = [i \in 0 .. Len(order) |->
                    IF i = 0 THEN <<>>
                             ELSE PushPair(query[i - 1],
                                           EncodedPair(order[i], l.hints[order[i]]))]

IsQuery(query, l, order, n) ==
    query = [i \in 0 .. n |->
                IF i = 0 THEN <<>>
                         ELSE PushPair(query[i - 1],
                                       EncodedPair(order[i], l.hints[order[i]]))]

(* The recursion that stands for the loop has a solution.                   *)
LEMMA QueryExists ==
  ASSUME NEW l, NEW order, NEW n \in Nat
  PROVE  \E query : IsQuery(query, l, order, n)
  <1> DEFINE Bad == {i \in Nat : ~ \E query : IsQuery(query, l, order, i)}
             m == Min(Bad)
             Step(q, i) == PushPair(q, EncodedPair(order[i], l.hints[order[i]]))
  <1>1. SUFFICES ASSUME Bad # {} PROVE FALSE
    OBVIOUS
  <1>2. m \in Bad /\ \A i \in Bad : m <= i
    <2>1. Bad \in SUBSET Nat
      OBVIOUS
    <2> QED
      BY <1>1, <2>1, MinIn
  <1>3. m \in Nat /\ ~ \E query : IsQuery(query, l, order, m)
    BY <1>2
  <1> HIDE DEF m
  <1>4. \A i : \A query : IsQuery(query, l, order, i) <=>
            query = [j \in 0 .. i |-> IF j = 0 THEN <<>> ELSE Step(query[j - 1], j)]
    BY DEF IsQuery
  <1> HIDE DEF Step
  <1>5. CASE m = 0
    <2> DEFINE f == [j \in 0 .. 0 |-> <<>>]
    <2>1. \A j \in 0 .. 0 : j = 0
      OBVIOUS
    <2>2. f = [j \in 0 .. 0 |-> IF j = 0 THEN <<>> ELSE Step(f[j - 1], j)]
      BY <2>1
    <2> QED
      BY <1>3, <1>4, <1>5, <2>2
  <1>6. CASE m # 0
    <2>1. m - 1 \in Nat /\ ~ (m <= m - 1)
      BY <1>3, <1>6
    <2>2. PICK g : IsQuery(g, l, order, m - 1)
      BY <1>2, <2>1
    <2>3. g = [j \in 0 .. (m - 1) |-> IF j = 0 THEN <<>> ELSE Step(g[j - 1], j)]
      BY <1>4, <2>2
    <2> DEFINE f == [j \in 0 .. m |-> IF j = m THEN Step(g[m - 1], m) ELSE g[j]]
    <2>4. ASSUME NEW j \in 0 .. m
          PROVE  f[j] = IF j = 0 THEN <<>> ELSE Step(f[j - 1], j)
      <3>1. CASE j = 0
        <4>1. 0 \in 0 .. (m - 1) /\ 0 # m
          BY <1>6, <2>1
        <4>2. g[0] = <<>>
          BY <2>3, <4>1
        <4> QED
          BY <3>1, <4>1, <4>2
      <3>2. CASE j # 0
        <4>1. j - 1 \in 0 .. (m - 1) /\ j - 1 \in 0 .. m /\ j - 1 # m
          BY <1>3, <3>2
        <4>2. f[j - 1] = g[j - 1]
          BY <4>1
        <4>3. CASE j = m
          BY <3>2, <4>2, <4>3
        <4>4. CASE j # m
          <5>1. j \in 0 .. (m - 1)
            BY <1>3, <4>4
          <5>2. g[j] = Step(g[j - 1], j)
            BY <2>3, <3>2, <5>1
          <5> QED
            BY <3>2, <4>2, <4>4, <5>2
        <4> QED
          BY <4>3, <4>4
      <3> QED
        BY <3>1, <3>2
    <2>5. f = [j \in 0 .. m |-> f[j]]
      OBVIOUS
    <2> HIDE DEF f
    <2>6. f = [j \in 0 .. m |-> IF j = 0 THEN <<>> ELSE Step(f[j - 1], j)]
      BY <2>4, <2>5
    <2> QED
      BY <1>3, <1>4, <2>6
  <1> QED
    BY <1>5, <1>6

(* The steps of the loop, and what encoded_query returns after it.          *)
LEMMA QuerySteps ==
  ASSUME NEW l, NEW order, Len(order) \in Nat
  PROVE  /\ QueryOf(l, order)[0] = <<>>
         /\ \A i \in 1 .. Len(order) :
                QueryOf(l, order)[i] =
                    PushPair(QueryOf(l, order)[i - 1],
                             EncodedPair(order[i], l.hints[order[i]]))
         /\ EncodedQuery(l, order) =
                IF QueryOf(l, order)[Len(order)] = <<>> THEN None
                ELSE QueryOf(l, order)[Len(order)]
  <1> DEFINE n == Len(order)
             q == QueryOf(l, order)
  <1>1. EncodedQuery(l, order) = IF q[n] = <<>> THEN None ELSE q[n]
    BY DEF EncodedQuery, QueryOf
  <1>2. \E query : IsQuery(query, l, order, n)
    BY QueryExists
  <1>3. IsQuery(q, l, order, n)
    BY <1>2 DEF QueryOf, IsQuery
  <1> HIDE DEF q
  <1>4. q[0] = <<>>
    <2>1. 0 \in 0 .. n
      OBVIOUS
    <2> QED
      BY <1>3, <2>1 DEF IsQuery
  <1>5. ASSUME NEW i \in 1 .. n
        PROVE  q[i] = PushPair(q[i - 1], EncodedPair(order[i], l.hints[order[i]]))
    <2>1. i \in 0 .. n /\ i # 0
      OBVIOUS
    <2> QED
      BY <1>3, <2>1 DEF IsQuery
  <1> QED
    BY <1>1, <1>4, <1>5 DEF q

-----------------------------------------------------------------------------
(* The query: its pairs.                                                    *)

(* split_once finds the first "=".                                          *)
LEMMA EqIndexIs ==
  ASSUME NEW S, NEW seg \in Seq(S), "=" \in ToSet(seg)
  PROVE  /\ EqIndex(seg) \in 1 .. Len(seg)
         /\ \A i \in 1 .. Len(seg) : seg[i] = "=" => EqIndex(seg) <= i
  <1> DEFINE E == {i \in DOMAIN seg : seg[i] = "="}
  <1>1. DOMAIN seg = 1 .. Len(seg) /\ Len(seg) \in Nat
    OBVIOUS
  <1>2. E \in SUBSET Nat /\ E # {}
    BY <1>1 DEF ToSet
  <1>3. Min(E) \in E /\ \A i \in E : Min(E) <= i
    BY <1>2, MinIn
  <1>4. EqIndex(seg) = Min(E)
    BY DEF EqIndex
  <1>5. \A i \in 1 .. Len(seg) : seg[i] = "=" => i \in E
    BY <1>1
  <1> HIDE DEF E
  <1>6. Min(E) \in 1 .. Len(seg)
    BY <1>1, <1>3 DEF E
  <1> QED
    BY <1>3, <1>4, <1>5, <1>6

(* What is read from a query is UTF-8; a key has no separator, and a value  *)
(* no "&".                                                                  *)
LEMMA PairRead ==
  ASSUME NEW query \in Seq(QueryChars), NEW a \in Pairs(query)
  PROVE  /\ Key(query, a) \in Text /\ IsUtf8(Key(query, a))
         /\ ToSet(Key(query, a)) \cap {"&", "="} = {}
         /\ Value(query, a) \in Text /\ IsUtf8(Value(query, a))
         /\ "&" \notin ToSet(Value(query, a))
  <1> DEFINE seg == Segment(query, a)
             e == EqIndex(seg)
             k == Before(seg, e)
             v == After(seg, e)
  <1>1. a \in Cuts(query) /\ "=" \in ToSet(seg)
    BY DEF Pairs
  <1>2. seg \in Seq(QueryChars) /\ \A i \in 1 .. Len(seg) : seg[i] # "&"
    BY <1>1, SegmentIs
  <1>3. Key(query, a) = Decode(k) /\ Value(query, a) = Decode(v)
    BY DEF Key, Value
  <1> HIDE DEF seg
  <1>4. e \in 1 .. Len(seg) /\ \A i \in 1 .. Len(seg) : seg[i] = "=" => e <= i
    BY <1>1, <1>2, EqIndexIs
  <1>5. Len(seg) \in Nat
    BY <1>2
  <1> HIDE DEF e
  <1>6. /\ k \in Seq(QueryChars) /\ Len(k) = e - 1
        /\ \A j \in 1 .. (e - 1) : k[j] = seg[j]
    BY <1>2, <1>4, CutText
  <1>7. /\ v \in Seq(QueryChars) /\ Len(v) = Len(seg) - e
        /\ \A j \in 1 .. (Len(seg) - e) : v[j] = seg[e + j]
    BY <1>2, <1>4, CutText
  <1> HIDE DEF k, v
  <1>8. ASSUME NEW j \in 1 .. Len(k) PROVE k[j] # "&" /\ k[j] # "="
    <2>1. e \in 1 .. Len(seg)
      BY <1>4
    <2>2. j \in 1 .. (e - 1)
      BY <1>6
    <2>3. j \in 1 .. Len(seg) /\ ~ (e <= j)
      BY <1>5, <2>1, <2>2
    <2> QED
      BY <1>2, <1>4, <1>6, <2>2, <2>3
  <1>9. ASSUME NEW j \in 1 .. Len(v) PROVE v[j] # "&"
    <2>1. e \in 1 .. Len(seg)
      BY <1>4
    <2>2. j \in 1 .. (Len(seg) - e)
      BY <1>7
    <2>3. e + j \in 1 .. Len(seg)
      BY <1>5, <2>1, <2>2
    <2> QED
      BY <1>2, <1>7, <2>2, <2>3
  <1>10. /\ Decode(k) \in Text /\ IsUtf8(Decode(k)) /\ Len(Decode(k)) = Len(k)
         /\ \A i \in 1 .. Len(k) : Decode(k)[i] # "&" /\ Decode(k)[i] # "="
    BY <1>6, <1>8, DecodeQueryText
  <1>11. /\ Decode(v) \in Text /\ IsUtf8(Decode(v)) /\ Len(Decode(v)) = Len(v)
         /\ \A i \in 1 .. Len(v) : Decode(v)[i] # "&"
    BY <1>7, <1>9, DecodeQueryText
  <1>12. DOMAIN Decode(k) = 1 .. Len(k) /\ DOMAIN Decode(v) = 1 .. Len(v)
    BY <1>10, <1>11 DEF Text
  <1> QED
    BY <1>3, <1>10, <1>11, <1>12 DEF ToSet

(* A pair that was pushed has an "="; it has an "&" only if the key or the  *)
(* value has one; and it is split where it was joined if the key has no     *)
(* "=".                                                                     *)
LEMMA PairIs ==
  ASSUME NEW k \in Text, NEW v \in Text, IsUtf8(k), IsUtf8(v)
  PROVE  /\ EncodedPair(k, v) \in Seq(QueryChars) /\ EncodedPair(k, v) # <<>>
         /\ "=" \in ToSet(EncodedPair(k, v))
         /\ "&" \notin ToSet(k) \cup ToSet(v) =>
                \A i \in 1 .. Len(EncodedPair(k, v)) : EncodedPair(k, v)[i] # "&"
         /\ "=" \notin ToSet(k) =>
                LET e == EqIndex(EncodedPair(k, v))
                IN  Decode(Before(EncodedPair(k, v), e)) = k /\ Decode(After(EncodedPair(k, v), e)) = v
  <1> DEFINE d == Encode(QuerySafe, k)
             f == Encode(QuerySafe, v)
             pair == EncodedPair(k, v)
             n == Len(d) + 1
  <1>1. /\ d \in Seq(QueryChars) /\ Len(d) = Len(k)
        /\ \A i \in 1 .. Len(k) : d[i] = "&" <=> k[i] = "&"
        /\ \A i \in 1 .. Len(k) : d[i] = "=" <=> k[i] = "="
    BY EncodeQueryText
  <1>2. /\ f \in Seq(QueryChars) /\ Len(f) = Len(v)
        /\ \A i \in 1 .. Len(v) : f[i] = "&" <=> v[i] = "&"
    BY EncodeQueryText
  <1>3. Decode(d) = k /\ Decode(f) = v
    BY DecodeEncode DEF Safes
  <1>4. pair = Joined(d, "=", f)
    BY DEF EncodedPair, Joined
  <1> HIDE DEF d, f, pair
  <1>5. d \in Seq(QueryChars) /\ f \in Seq(QueryChars) /\ "=" \in QueryChars
    BY <1>1, <1>2, Separators
  <1> DEFINE all == Joined(d, "=", f)
  <1>6. all \in Seq(QueryChars) /\ Len(all) = Len(d) + 1 + Len(f)
    BY ONLY <1>5, SplitText
  <1>7. \A i \in 1 .. Len(d) : all[i] = d[i]
    BY ONLY <1>5, SplitText
  <1>8. \A i \in 1 .. Len(f) : all[Len(d) + 1 + i] = f[i]
    BY ONLY <1>5, SplitText
  <1>9. all[Len(d) + 1] = "="
    BY ONLY <1>5, SplitText
  <1>10. Before(all, Len(d) + 1) = d /\ After(all, Len(d) + 1) = f
    BY ONLY <1>5, SplitText
  <1>11. pair = all
    BY <1>4
  <1> HIDE DEF all
  <1>12. /\ Len(d) \in Nat /\ Len(f) \in Nat /\ DOMAIN all = 1 .. Len(all)
         /\ DOMAIN k = 1 .. Len(k) /\ DOMAIN v = 1 .. Len(v)
    BY <1>5, <1>6 DEF Text
  <1>13. n \in 1 .. Len(all) /\ Len(all) = n + Len(f)
    BY <1>6, <1>12
  <1>14. all # <<>> /\ "=" \in ToSet(all)
    <2>1. Len(all) # 0
      BY <1>12, <1>13
    <2> QED
      BY <1>6, <1>9, <1>12, <1>13, <2>1 DEF ToSet
  <1>15. ASSUME "&" \notin ToSet(k) \cup ToSet(v), NEW i \in 1 .. Len(all) PROVE all[i] # "&"
    <2>1. (\A j \in 1 .. Len(k) : k[j] # "&") /\ (\A j \in 1 .. Len(v) : v[j] # "&")
      BY <1>12, <1>15 DEF ToSet
    <2>2. (\A j \in 1 .. Len(d) : d[j] # "&") /\ (\A j \in 1 .. Len(f) : f[j] # "&")
      BY <1>1, <1>2, <2>1
    <2>3. i \in 1 .. Len(d) \/ i = n \/ (i - n \in 1 .. Len(f) /\ n + (i - n) = i)
      BY <1>12, <1>13
    <2> QED
      BY <1>7, <1>8, <1>9, <2>2, <2>3
  <1>16. ASSUME "=" \notin ToSet(k) PROVE EqIndex(all) = n
    <2>1. \A j \in 1 .. Len(d) : d[j] # "="
      BY <1>1, <1>12, <1>16 DEF ToSet
    <2> DEFINE E == {i \in DOMAIN all : all[i] = "="}
    <2>2. ASSUME NEW i \in E PROVE n <= i
      <3>1. i \in 1 .. Len(all) /\ all[i] = "="
        BY <1>12
      <3>2. i \notin 1 .. Len(d)
        BY <1>7, <2>1, <3>1
      <3> QED
        BY <1>12, <3>1, <3>2
    <2>3. n \in E /\ E \in SUBSET Nat
      BY <1>9, <1>12, <1>13
    <2>4. Min(E) = n
      BY <2>2, <2>3, MinIs
    <2> QED
      BY <2>4 DEF EqIndex
  <1> QED
    BY <1>3, <1>6, <1>10, <1>11, <1>14, <1>15, <1>16 DEF pair

-----------------------------------------------------------------------------
(* The query: the order of the hints.                                       *)

(* An order of the hash map has every key.                                  *)
LEMMA OrderIs ==
  ASSUME NEW S, IsFiniteSet(S), NEW order \in SetToSeqs(S)
  PROVE  /\ Len(order) \in Nat
         /\ \A i \in 1 .. Len(order) : order[i] \in S
         /\ \A k \in S : \E i \in 1 .. Len(order) : order[i] = k
  <1> DEFINE n == Cardinality(S)
  <1>1. n \in Nat
    BY FS_CardinalityType
  <1>2. order \in [1 .. n -> S] /\ \A i, j \in 1 .. n : i # j => order[i] # order[j]
    BY DEF SetToSeqs
  <1>3. order \in Injection(1 .. n, S)
    BY <1>2 DEF Injection, IsInjective
  <1>4. Cardinality(1 .. n) = n
    BY <1>1, FS_Interval
  <1>5. order \in Surjection(1 .. n, S)
    BY <1>3, <1>4, FS_Injection
  <1> HIDE DEF n
  <1>6. Len(order) = n
    BY <1>1, <1>2
  <1> QED
    BY <1>1, <1>2, <1>5, <1>6 DEF Surjection

-----------------------------------------------------------------------------
(* The hints.                                                               *)

(* The two hints that are part of the authority are told apart.             *)
LEMMA KeysDiffer == PortKey # UserinfoKey /\ PortKey \in Text /\ UserinfoKey \in Text
  <1>1. PortKey[1] # UserinfoKey[1]
    BY DEF PortKey, UserinfoKey
  <1>2. PortKey \in Text /\ UserinfoKey \in Text
    BY SafeAssumption DEF PortKey, UserinfoKey, Text
  <1> QED
    BY <1>1, <1>2

(* None is no text of any kind.                                             *)
LEMMA NoneNoText ==
  /\ None \notin Text /\ None \notin UriText /\ None \notin Seq(QueryChars)
  <1>1. Text \subseteq UriText
    BY DEF Text, UriText, Chars
  <1>2. Seq(QueryChars) \subseteq UriText
    <2>1. QueryChars \subseteq Chars
      BY QueryCharIs
    <2> QED
      BY <2>1 DEF UriText
  <1> QED
    BY <1>1, <1>2, NoneAssumption

PairsOf(K, hints) == {EncodedPair(k, hints[k]) : k \in K}

(* The query of a locator that is printed.                                  *)
LEMMA QueryOfLocator ==
  ASSUME NEW l, IsLocator(l), NEW order \in QueryOrders(l)
  PROVE  /\ EncodedQuery(l, order) \in Seq(QueryChars) \cup {None}
         /\ EncodedQuery(l, order) = None => QueryKeys(l) = {}
         /\ EncodedQuery(l, order) # None /\ HintsSeparate(l) =>
                Segs(EncodedQuery(l, order)) = PairsOf(QueryKeys(l), l.hints)
  <1> DEFINE K == QueryKeys(l)
             n == Len(order)
             q == QueryOf(l, order)
             all == EncodedQuery(l, order)
             pair == [i \in 1 .. n |-> EncodedPair(order[i], l.hints[order[i]])]
  <1>1. \A k \in K : k \in Text /\ l.hints[k] \in Text /\ IsUtf8(k) /\ IsUtf8(l.hints[k])
    BY DEF IsLocator, QueryKeys
  <1>2. IsFiniteSet(K)
    BY FS_Subset DEF IsLocator, QueryKeys
  <1>3. order \in SetToSeqs(K)
    BY DEF QueryOrders, QueryKeys
  <1>4. /\ n \in Nat
        /\ \A i \in 1 .. n : order[i] \in K
        /\ \A k \in K : \E i \in 1 .. n : order[i] = k
    BY <1>2, <1>3, OrderIs
  <1>5. /\ q[0] = <<>>
        /\ \A i \in 1 .. n : q[i] = PushPair(q[i - 1], EncodedPair(order[i], l.hints[order[i]]))
        /\ all = IF q[n] = <<>> THEN None ELSE q[n]
    BY <1>4, QuerySteps
  <1> HIDE DEF K, n, q, all
  <1>6. \A i \in 1 .. n : /\ pair[i] = EncodedPair(order[i], l.hints[order[i]])
                          /\ pair[i] \in Seq(QueryChars) /\ pair[i] # <<>>
    BY <1>1, <1>4, PairIs
  <1>7. \A i \in 1 .. n : q[i] = PushPair(q[i - 1], pair[i])
    BY <1>5
  <1> HIDE DEF pair
  <1>8. Pushed(QueryChars, n, q, pair)
    BY <1>5, <1>6, <1>7 DEF Pushed
  <1>9. q[n] \in Seq(QueryChars) /\ (n # 0 => q[n] # <<>>)
    <2>1. \A i \in 0 .. n : q[i] \in Seq(QueryChars) /\ (i # 0 => q[i] # <<>>)
      BY <1>4, <1>8, Separators, QueryIs
    <2>2. n \in 0 .. n
      BY <1>4
    <2> QED
      BY <2>1, <2>2
  <1>10. all \in Seq(QueryChars) \cup {None}
    BY <1>5, <1>9
  <1>11. ASSUME all = None PROVE K = {}
    <2>1. n = 0
      BY <1>5, <1>9, <1>11, NoneNoText
    <2>2. 1 .. n = {}
      BY <2>1
    <2> QED
      BY <1>4, <2>2
  <1>12. ASSUME all # None, HintsSeparate(l)
         PROVE  Segs(all) = PairsOf(K, l.hints)
    <2>1. \A k \in K : "&" \notin ToSet(k) /\ "&" \notin ToSet(l.hints[k])
      BY <1>12 DEF HintsSeparate, K
    <2>2. \A i \in 1 .. n : \A j \in 1 .. Len(pair[i]) : pair[i][j] # "&"
      <3> TAKE i \in 1 .. n
      <3>1. pair[i] = EncodedPair(order[i], l.hints[order[i]]) /\ order[i] \in K
        BY <1>4, <1>6
      <3> QED
        BY <1>1, <2>1, <3>1, PairIs
    <2>3. n # 0 /\ n \in 1 .. n
      BY <1>4, <1>5, <1>12
    <2>4. Segs(q[n]) = {pair[j] : j \in 1 .. n}
      <3>1. \A i \in 1 .. n : Segs(q[i]) = UpTo(pair, i)
        <4>1. n \in Nat /\ "&" \in QueryChars
          BY <1>4, Separators
        <4> QED
          BY ONLY <1>8, <2>2, <4>1, SegsAre
      <3> QED
        BY <2>3, <3>1 DEF UpTo
    <2>5. {pair[j] : j \in 1 .. n} = PairsOf(K, l.hints)
      BY <1>4, <1>6 DEF PairsOf
    <2> QED
      BY <1>5, <1>12, <2>4, <2>5
  <1> QED
    BY <1>10, <1>11, <1>12 DEF K, all

(* Segments begin within the query.                                         *)
LEMMA CutsIn ==
  ASSUME NEW S, NEW query \in Seq(S)
  PROVE  Cuts(query) \subseteq 0 .. Len(query) /\ Len(query) \in Nat
  BY DEF Cuts

(* The hints of a query whose segments are the pairs of the keys K.         *)
LEMMA QueryReturns ==
  ASSUME NEW query \in Seq(QueryChars), NEW K, NEW hints,
         \A k \in K : /\ k \in Text /\ hints[k] \in Text
                      /\ IsUtf8(k) /\ IsUtf8(hints[k]) /\ "=" \notin ToSet(k),
         Segs(query) = PairsOf(K, hints)
  PROVE  QueryHints(query) = [k \in K |-> hints[k]]
  <1>1. ASSUME NEW a \in Cuts(query), NEW k \in K, Segment(query, a) = EncodedPair(k, hints[k])
        PROVE  a \in Pairs(query) /\ Key(query, a) = k /\ Value(query, a) = hints[k]
    <2> DEFINE seg == EncodedPair(k, hints[k])
    <2>1. /\ "=" \in ToSet(seg)
          /\ Decode(Before(seg, EqIndex(seg))) = k /\ Decode(After(seg, EqIndex(seg))) = hints[k]
      BY PairIs
    <2> QED
      BY <1>1, <2>1 DEF Pairs, Key, Value
  <1>2. ASSUME NEW a \in Pairs(query)
        PROVE  Key(query, a) \in K /\ Value(query, a) = hints[Key(query, a)]
    <2>1. a \in Cuts(query)
      BY DEF Pairs
    <2>2. PICK k \in K : Segment(query, a) = EncodedPair(k, hints[k])
      BY <2>1 DEF Segs, PairsOf
    <2> QED
      BY <1>1, <2>1, <2>2
  <1>3. ASSUME NEW k \in K PROVE \E a \in Pairs(query) : Key(query, a) = k
    <2>1. PICK a \in Cuts(query) : Segment(query, a) = EncodedPair(k, hints[k])
      BY DEF Segs, PairsOf
    <2> QED
      BY <1>1, <2>1
  <1>4. {Key(query, a) : a \in Pairs(query)} = K
    BY <1>2, <1>3
  <1>5. ASSUME NEW k \in K
        PROVE  Value(query, Max({a \in Pairs(query) : Key(query, a) = k})) = hints[k]
    <2> DEFINE A == {a \in Pairs(query) : Key(query, a) = k}
    <2>1. A # {}
      BY <1>3
    <2>2. A \in SUBSET (0 .. Len(query)) /\ Len(query) \in Nat
      BY CutsIn DEF Pairs
    <2>3. Max(A) \in A
      BY <2>1, <2>2, MaxIn
    <2> QED
      BY <1>2, <2>3
  <1> QED
    BY <1>4, <1>5 DEF QueryHints

(* The port and the userinfo go through the authority.                      *)
LEMMA AuthorityReturns ==
  ASSUME NEW l, IsLocator(l), NEW auth,
         auth.port = Hint(l, PortKey), auth.userinfo = EncodedUserinfo(l)
  PROVE  /\ DOMAIN AuthorityHints(auth) = DOMAIN l.hints \cap {PortKey, UserinfoKey}
         /\ \A k \in DOMAIN l.hints \cap {PortKey, UserinfoKey} :
                AuthorityHints(auth)[k] = l.hints[k]
         /\ auth.userinfo # None => Decode(auth.userinfo) = l.hints[UserinfoKey]
         /\ auth.userinfo # None => UserinfoKey \in DOMAIN l.hints
  <1>1. \A k \in DOMAIN l.hints : l.hints[k] \in Text
    BY DEF IsLocator
  <1>2. auth.port # None <=> PortKey \in DOMAIN l.hints
    BY <1>1, NoneNoText DEF Hint
  <1>3. UserinfoKey \in DOMAIN l.hints =>
            auth.userinfo = Encode(UserinfoSafe, l.hints[UserinfoKey])
    BY <1>1, NoneNoText DEF Hint, EncodedUserinfo
  <1>4. UserinfoKey \notin DOMAIN l.hints => auth.userinfo = None
    BY DEF Hint, EncodedUserinfo
  <1>5. ASSUME UserinfoKey \in DOMAIN l.hints
        PROVE  auth.userinfo # None /\ Decode(auth.userinfo) = l.hints[UserinfoKey]
    <2>1. UserinfoSafe \in Safes
      BY DEF Safes
    <2>2. auth.userinfo \in UriText
      BY <1>1, <1>3, <1>5, <2>1, EncodeIs
    <2> QED
      BY <1>1, <1>3, <1>5, <2>1, <2>2, DecodeEncode, NoneNoText
  <1>6. PortKey \in DOMAIN l.hints => auth.port = l.hints[PortKey]
    BY DEF Hint
  <1> DEFINE D == {j \in {UserinfoKey, PortKey} :
                       IF j = PortKey THEN auth.port # None ELSE auth.userinfo # None}
  <1>7. D = DOMAIN l.hints \cap {PortKey, UserinfoKey}
    BY <1>2, <1>4, <1>5, KeysDiffer
  <1>8. AuthorityHints(auth) =
            [k \in D |-> IF k = PortKey THEN auth.port ELSE Decode(auth.userinfo)]
    BY DEF AuthorityHints
  <1> HIDE DEF D
  <1>9. ASSUME NEW k \in DOMAIN l.hints \cap {PortKey, UserinfoKey}
        PROVE  AuthorityHints(auth)[k] = l.hints[k]
    BY <1>5, <1>6, <1>7, <1>8, KeysDiffer
  <1> QED
    BY <1>4, <1>5, <1>7, <1>8, <1>9

(* The hints are read back as they were if the query can hold them.         *)
LEMMA HintsReturn ==
  ASSUME NEW l, IsLocator(l), NEW order \in QueryOrders(l), NEW u,
         u.authority.port = Hint(l, PortKey), u.authority.userinfo = EncodedUserinfo(l),
         u.query = EncodedQuery(l, order),
         HintsSeparate(l)
  PROVE  HintsOf(u) = l.hints
  <1> DEFINE auth == u.authority
             A == AuthorityHints(auth)
             Q == QueryHints(u.query)
             K == QueryKeys(l)
             D == DOMAIN l.hints
  <1>1. DOMAIN A = D \cap {PortKey, UserinfoKey} /\ \A k \in DOMAIN A : A[k] = l.hints[k]
    <2>1. auth.port = Hint(l, PortKey) /\ auth.userinfo = EncodedUserinfo(l)
      OBVIOUS
    <2> HIDE DEF auth
    <2>2. /\ DOMAIN A = D \cap {PortKey, UserinfoKey}
          /\ \A k \in D \cap {PortKey, UserinfoKey} : A[k] = l.hints[k]
      BY <2>1, AuthorityReturns
    <2> QED
      BY <2>2
  <1>2. HintsOf(u) = IF u.query = None THEN A
                     ELSE [k \in DOMAIN A \cup DOMAIN Q |-> IF k \in DOMAIN Q THEN Q[k] ELSE A[k]]
    BY DEF HintsOf
  <1>3. A = [k \in DOMAIN A |-> A[k]]
    BY DEF AuthorityHints
  <1>4. l.hints = [k \in D |-> l.hints[k]]
    BY DEF IsLocator
  <1>5. K = D \ {PortKey, UserinfoKey}
    BY DEF QueryKeys
  <1>6. CASE u.query = None
    <2>1. K = {}
      BY <1>6, QueryOfLocator
    <2> HIDE DEF A, K
    <2>2. DOMAIN A = D
      BY <1>1, <1>5, <2>1
    <2> QED
      BY <1>1, <1>2, <1>3, <1>4, <1>6, <2>2
  <1>7. CASE u.query # None
    <2>1. /\ u.query \in Seq(QueryChars)
          /\ Segs(u.query) = PairsOf(K, l.hints)
      BY <1>7, QueryOfLocator
    <2>2. \A k \in K : /\ k \in Text /\ l.hints[k] \in Text
                       /\ IsUtf8(k) /\ IsUtf8(l.hints[k]) /\ "=" \notin ToSet(k)
      BY DEF IsLocator, QueryKeys, HintsSeparate
    <2>3. Q = [k \in K |-> l.hints[k]]
      <3> DEFINE query == u.query
                 hints == l.hints
      <3>1. /\ query \in Seq(QueryChars) /\ Segs(query) = PairsOf(K, hints)
            /\ \A k \in K : /\ k \in Text /\ hints[k] \in Text
                            /\ IsUtf8(k) /\ IsUtf8(hints[k]) /\ "=" \notin ToSet(k)
        BY <2>1, <2>2
      <3> HIDE DEF query, hints, K
      <3>2. QueryHints(query) = [k \in K |-> hints[k]]
        BY ONLY <3>1, QueryReturns
      <3> QED
        BY <3>2 DEF query, hints
    <2> HIDE DEF A, K, Q
    <2>4. DOMAIN A \cup DOMAIN Q = D
      BY <1>1, <1>5, <2>3
    <2>5. \A k \in D : (IF k \in DOMAIN Q THEN Q[k] ELSE A[k]) = l.hints[k]
      BY <1>1, <2>3, <2>4
    <2>6. HintsOf(u) = [k \in D |-> IF k \in DOMAIN Q THEN Q[k] ELSE A[k]]
      BY <1>2, <1>7, <2>4
    <2> QED
      BY <1>4, <2>5, <2>6
  <1> QED
    BY <1>6, <1>7

(* What is read from a printed URI is UTF-8, and can be printed.            *)
LEMMA HintsRead ==
  ASSUME NEW l, IsLocator(l), NEW order \in QueryOrders(l), NEW u,
         u.authority.port = Hint(l, PortKey), u.authority.userinfo = EncodedUserinfo(l),
         u.query = EncodedQuery(l, order)
  PROVE  HintsDecode(u) /\ (HintsOf(u) = l.hints => HintsSeparate(l))
  <1> DEFINE auth == u.authority
  <1>1. /\ DOMAIN AuthorityHints(auth) \subseteq {PortKey, UserinfoKey}
        /\ auth.userinfo # None => Decode(auth.userinfo) = l.hints[UserinfoKey]
        /\ auth.userinfo # None => UserinfoKey \in DOMAIN l.hints
    <2>1. auth.port = Hint(l, PortKey) /\ auth.userinfo = EncodedUserinfo(l)
      OBVIOUS
    <2> HIDE DEF auth
    <2> QED
      BY <2>1, AuthorityReturns
  <1>2. u.query # None => u.query \in Seq(QueryChars)
    BY QueryOfLocator
  <1>3. HintsDecode(u)
    <2>1. auth.userinfo # None => IsUtf8(Decode(auth.userinfo))
      BY <1>1 DEF IsLocator
    <2>2. u.query # None =>
              \A a \in Pairs(u.query) : IsUtf8(Key(u.query, a)) /\ IsUtf8(Value(u.query, a))
      BY <1>2, PairRead
    <2> QED
      BY <2>1, <2>2 DEF HintsDecode
  <1>4. ASSUME HintsOf(u) = l.hints PROVE HintsSeparate(l)
    <2> SUFFICES ASSUME NEW k \in QueryKeys(l)
                 PROVE  ToSet(k) \cap {"&", "="} = {} /\ "&" \notin ToSet(l.hints[k])
      BY DEF HintsSeparate
    <2> DEFINE A == AuthorityHints(auth)
               Q == QueryHints(u.query)
    <2>1. HintsOf(u) = IF u.query = None THEN A
                       ELSE [j \in DOMAIN A \cup DOMAIN Q |->
                                IF j \in DOMAIN Q THEN Q[j] ELSE A[j]]
      BY DEF HintsOf
    <2>2. k \in DOMAIN l.hints /\ k \notin DOMAIN A
      BY <1>1 DEF QueryKeys
    <2> HIDE DEF A, Q
    <2>3. u.query # None /\ k \in DOMAIN Q /\ l.hints[k] = Q[k]
      BY <1>4, <2>1, <2>2
    <2>4. u.query \in Seq(QueryChars)
      BY <1>2, <2>3
    <2> DEFINE P == {a \in Pairs(u.query) : Key(u.query, a) = k}
    <2>5. Q[k] = Value(u.query, Max(P)) /\ \E a \in Pairs(u.query) : Key(u.query, a) = k
      BY <2>3 DEF Q, QueryHints
    <2>6. P # {}
      BY <2>5
    <2>7. P \in SUBSET (0 .. Len(u.query)) /\ Len(u.query) \in Nat
      BY <2>4, CutsIn DEF Pairs
    <2>8. Max(P) \in P
      BY <2>6, <2>7, MaxIn
    <2>9. Max(P) \in Pairs(u.query) /\ Key(u.query, Max(P)) = k
      BY <2>8
    <2> QED
      BY <2>3, <2>4, <2>5, <2>9, PairRead
  <1> QED
    BY <1>3, <1>4

-----------------------------------------------------------------------------
(* The URI of a locator.                                                    *)

(* The components of a URI that build_uri returns.                          *)
LEMMA PrintedUri ==
  ASSUME NEW l, IsLocator(l), PortOk(l), NEW order, NEW path
  PROVE  LET u == BuildUri(l, order, path).val
         IN  /\ BuildUri(l, order, path).ok
             /\ u.scheme \in OcapnSchemes /\ u.authority # None
             /\ u.authority.host = HostOf(l.designator, l.transport)
             /\ u.authority.port = Hint(l, PortKey)
             /\ u.authority.userinfo = EncodedUserinfo(l)
             /\ u.path = path
             /\ u.query = EncodedQuery(l, order)
  <1> DEFINE auth == [userinfo |-> EncodedUserinfo(l), host |-> EncodedHost(l),
                      port |-> Hint(l, PortKey)]
  <1>1. BuildUri(l, order, path) =
            Ok([scheme |-> "ocapn", authority |-> auth, path |-> path,
                query |-> EncodedQuery(l, order)])
    BY DEF BuildUri
  <1>2. EncodedHost(l) = HostOf(l.designator, l.transport)
    BY DEF EncodedHost, HostOf
  <1>3. \A k : Hint(l, k) \in Text \cup {None}
    BY DEF Hint, IsLocator
  <1>4. auth # None
    <2>1. EncodedHost(l) \in UriText
      BY <1>2, HostIs DEF IsLocator
    <2>2. EncodedUserinfo(l) \in UriText \cup {None}
      BY <1>3, EncodeIs DEF EncodedUserinfo, Safes
    <2>3. Hint(l, PortKey) \in UriText \cup {None}
      BY <1>3 DEF Text, UriText, Chars
    <2>4. auth \in [userinfo : UriText \cup {None}, host : UriText, port : UriText \cup {None}]
      BY <2>1, <2>2, <2>3
    <2> QED
      BY <2>4, NoneAssumption
  <1> HIDE DEF auth
  <1>5. auth.host = EncodedHost(l) /\ auth.port = Hint(l, PortKey) /\ auth.userinfo = EncodedUserinfo(l)
    BY DEF auth
  <1> QED
    BY <1>1, <1>2, <1>4, <1>5, SafeAssumption DEF Ok

(* A URI that was printed is read: its host is split at the last dot.       *)
LEMMA NodeRead ==
  ASSUME NEW l, IsLocator(l), PortOk(l), NEW order \in QueryOrders(l), NEW path,
         NEW u, u = BuildUri(l, order, path).val
  PROVE  LET host == HostOf(l.designator, l.transport)
         IN  /\ ParseNode(u) = Ok([designator |-> Before(host, LastDot(host)),
                                   transport |-> After(host, LastDot(host)),
                                   hints |-> HintsOf(u)])
             /\ HintsOf(u) = l.hints <=> HintsSeparate(l)
             /\ u.path = path
  <1> DEFINE host == HostOf(l.designator, l.transport)
  <1>1. /\ u.scheme \in OcapnSchemes /\ u.authority # None
        /\ u.authority.host = host
        /\ u.authority.port = Hint(l, PortKey)
        /\ u.authority.userinfo = EncodedUserinfo(l)
        /\ u.path = path
        /\ u.query = EncodedQuery(l, order)
    BY PrintedUri
  <1>2. "." \in ToSet(host)
    BY HostIs DEF IsLocator
  <1>3. HintsDecode(u) /\ (HintsOf(u) = l.hints => HintsSeparate(l))
    BY <1>1, HintsRead
  <1>4. HintsSeparate(l) => HintsOf(u) = l.hints
    BY <1>1, HintsReturn
  <1> HIDE DEF host
  <1>5. ParseNode(u) = Ok([designator |-> Before(host, LastDot(host)),
                           transport |-> After(host, LastDot(host)),
                           hints |-> HintsOf(u)])
    BY <1>1, <1>2, <1>3 DEF ParseNode, LastDot
  <1> QED
    BY <1>1, <1>3, <1>4, <1>5 DEF host

(* When what was printed is read back as itself.                            *)
LEMMA NodeReturns ==
  ASSUME NEW l, IsLocator(l), PortOk(l), NEW order \in QueryOrders(l), NEW path,
         NEW u, u = BuildUri(l, order, path).val
  PROVE  ParseNode(u) = Ok(l) <=> HostSplits(l) /\ Plain(l.transport) /\ HintsSeparate(l)
  <1> DEFINE d == l.designator
             t == l.transport
             host == HostOf(d, t)
             before == Before(host, LastDot(host))
             after == After(host, LastDot(host))
             read == [designator |-> before, transport |-> after, hints |-> HintsOf(u)]
  <1>1. ParseNode(u) = Ok(read) /\ (HintsOf(u) = l.hints <=> HintsSeparate(l))
    BY NodeRead
  <1>2. before = d /\ after = t <=> Plain(d) /\ "." \notin ToSet(t) /\ Plain(t)
    <2>1. d \in Text /\ t \in Text
      BY DEF IsLocator
    <2> HIDE DEF d, t
    <2> QED
      BY <2>1, HostReturns
  <1>3. HostSplits(l) <=> Plain(d) /\ "." \notin ToSet(t)
    BY DEF HostSplits
  <1>4. l = [designator |-> d, transport |-> t, hints |-> l.hints]
    BY DEF IsLocator
  <1> HIDE DEF before, after
  <1>5. read = l <=> before = d /\ after = t /\ HintsOf(u) = l.hints
    BY <1>4
  <1>6. Ok(read) = Ok(l) <=> read = l
    <2>1. Ok(read).val = read /\ Ok(l).val = l
      BY DEF Ok
    <2> HIDE DEF read
    <2> QED
      BY <2>1
  <1> HIDE DEF read
  <1> QED
    BY <1>1, <1>2, <1>3, <1>5, <1>6

(* Which address the locator that was read names.                           *)
LEMMA AddressReturns ==
  ASSUME NEW l, IsLocator(l), PortOk(l), NEW order \in QueryOrders(l), NEW path,
         NEW u, u = BuildUri(l, order, path).val,
         AsSocketAddr(l).ok, HintsSeparate(l)
  PROVE  AsSocketAddr(ParseNode(u).val) =
             IF HostSplits(l) THEN AsSocketAddr(l) ELSE Err("ParseAddr")
  <1> DEFINE d == l.designator
             t == l.transport
             host == HostOf(d, t)
             before == Before(host, LastDot(host))
             after == After(host, LastDot(host))
             read == [designator |-> before, transport |-> after, hints |-> HintsOf(u)]
  <1>1. ParseNode(u) = Ok(read) /\ HintsOf(u) = l.hints
    BY NodeRead
  <1>2. d \in IpTexts
    BY DEF AsSocketAddr, Err
  <1>3. IF Plain(d) /\ "." \notin ToSet(t) THEN before = d ELSE before \notin IpTexts
    <2>1. d \in Text /\ t \in Text
      BY DEF IsLocator
    <2> HIDE DEF d, t
    <2> QED
      BY <1>2, <2>1, HostAddress
  <1>4. HostSplits(l) <=> Plain(d) /\ "." \notin ToSet(t)
    BY DEF HostSplits
  <1> HIDE DEF before, after
  <1>5. read.designator = before /\ Hint(read, PortKey) = Hint(l, PortKey)
    BY <1>1 DEF Hint
  <1>6. ParseNode(u).val = read
    BY <1>1 DEF Ok
  <1> HIDE DEF read
  <1> QED
    BY <1>2, <1>3, <1>4, <1>5, <1>6 DEF AsSocketAddr

(* What the URI is read as by SturdyRefLocator::try_from.                   *)
LEMMA SwissReturns ==
  ASSUME NEW l, IsLocator(l), PortOk(l), NEW order \in QueryOrders(l), NEW s \in Text \cup {None},
         NEW u, u = BuildUri(l, order, IF s = None THEN <<>> ELSE EncodedPath(s)).val
  PROVE  ParseSturdyRef(u) = IF s = None THEN Err("MissingPath")
                             ELSE Ok([node_locator |-> ParseNode(u).val, swiss_num |-> s])
  <1> DEFINE path == IF s = None THEN <<>> ELSE EncodedPath(s)
  <1>1. ParseNode(u).ok /\ u.path = path
    <2> HIDE DEF path
    <2>1. u = BuildUri(l, order, path).val
      BY DEF path
    <2> QED
      BY <2>1, NodeRead DEF Ok
  <1>2. CASE s = None
    <2>1. Decode(u.path) = <<>>
      BY <1>1, <1>2 DEF Decode
    <2> QED
      BY <1>1, <1>2, <2>1 DEF ParseSturdyRef
  <1>3. CASE s # None
    <2> DEFINE read == Decode(EncodedPath(s))
    <2>1. read # <<>> /\ IsPrefix(SwissPrefix, read) /\ After(read, Len(SwissPrefix)) = s
      BY <1>3, SwissRead
    <2>2. Decode(u.path) = read
      BY <1>1, <1>3
    <2> HIDE DEF read
    <2> QED
      BY <1>1, <1>3, <2>1, <2>2 DEF ParseSturdyRef
  <1> QED
    BY <1>2, <1>3

-----------------------------------------------------------------------------
(* A URI from elsewhere.                                                    *)

(* The keys and values of any query are texts.                              *)
LEMMA PairText ==
  ASSUME NEW query \in UriText, NEW a \in Pairs(query)
  PROVE  Key(query, a) \in Text /\ Value(query, a) \in Text
  <1> DEFINE seg == Segment(query, a)
             e == EqIndex(seg)
  <1>1. a \in Cuts(query) /\ "=" \in ToSet(seg)
    BY DEF Pairs
  <1>2. seg \in Seq(Chars)
    BY <1>1, SegmentIs DEF UriText
  <1>3. Key(query, a) = Decode(Before(seg, e)) /\ Value(query, a) = Decode(After(seg, e))
    BY DEF Key, Value
  <1> HIDE DEF seg
  <1>4. e \in 1 .. Len(seg)
    BY <1>1, <1>2, EqIndexIs
  <1>5. Before(seg, e) \in Seq(Chars) /\ After(seg, e) \in Seq(Chars)
    BY <1>2, <1>4, CutText
  <1> QED
    BY <1>3, <1>5, DecodeIs DEF UriText

(* The hints of a query: finitely many.                                     *)
LEMMA QueryHintsAre ==
  ASSUME NEW query \in UriText,
         \A a \in Pairs(query) : IsUtf8(Key(query, a)) /\ IsUtf8(Value(query, a))
  PROVE  LET Q == QueryHints(query)
         IN  /\ IsFiniteSet(DOMAIN Q)
             /\ \A k \in DOMAIN Q : /\ k \in Text /\ IsUtf8(k)
                                    /\ Q[k] \in Text /\ IsUtf8(Q[k])
                                    /\ \E a \in Pairs(query) : Key(query, a) = k
  <1> DEFINE Q == QueryHints(query)
             P == Pairs(query)
             D == {Key(query, a) : a \in P}
             f == [a \in P |-> Key(query, a)]
  <1>1. Len(query) \in Nat /\ P \in SUBSET (0 .. Len(query))
    BY CutsIn DEF Pairs, UriText
  <1>2. IsFiniteSet(P)
    <2>1. IsFiniteSet(0 .. Len(query))
      BY <1>1, FS_Interval
    <2> QED
      BY <1>1, <2>1, FS_Subset
  <1>3. f \in Surjection(P, D)
    BY DEF Surjection
  <1>4. IsFiniteSet(D)
    BY <1>2, <1>3, FS_Surjection
  <1>5. DOMAIN Q = D
    BY DEF QueryHints
  <1>6. ASSUME NEW k \in D
        PROVE  /\ k \in Text /\ IsUtf8(k)
               /\ Q[k] \in Text /\ IsUtf8(Q[k])
               /\ \E a \in P : Key(query, a) = k
    <2> DEFINE A == {a \in P : Key(query, a) = k}
    <2>1. PICK a \in P : Key(query, a) = k
      OBVIOUS
    <2>2. A # {} /\ A \in SUBSET (0 .. Len(query))
      BY <1>1, <2>1
    <2>3. Max(A) \in P
      BY <1>1, <2>2, MaxIn
    <2>4. Q[k] = Value(query, Max(A))
      BY DEF QueryHints
    <2> HIDE DEF A
    <2> QED
      BY <2>1, <2>3, <2>4, PairText
  <1> HIDE DEF D
  <1> QED
    BY <1>4, <1>5, <1>6

(* A port is made of digits.                                                *)
LEMMA PortText ==
  ASSUME NEW t \in Seq(DigitRuns)
  PROVE  t \in Text /\ IsUtf8(t) /\ ToSet(t) \subseteq DigitRuns
  <1>1. DigitRuns \subseteq Tokens /\ \A c \in DigitRuns : c \notin NonUtf8
    BY SafeAssumption
  <1>2. \A i \in DOMAIN t : t[i] \in DigitRuns
    OBVIOUS
  <1>3. t \in Text
    BY <1>1 DEF Text
  <1> QED
    BY <1>1, <1>2, <1>3 DEF IsUtf8, ToSet

(* The keys that try_from inserts are UTF-8.                                *)
LEMMA KeysUtf8 == IsUtf8(PortKey) /\ IsUtf8(UserinfoKey)
  BY SafeAssumption DEF IsUtf8, PortKey, UserinfoKey

(* The hints of an authority: texts, with a port made of digits.            *)
LEMMA AuthorityHintsAre ==
  ASSUME NEW auth,
         auth.userinfo \in UriText \cup {None}, auth.port \in Seq(DigitRuns) \cup {None},
         auth.userinfo # None => IsUtf8(Decode(auth.userinfo))
  PROVE  LET A == AuthorityHints(auth)
         IN  /\ IsFiniteSet(DOMAIN A)
             /\ \A k \in DOMAIN A : /\ k \in Text /\ IsUtf8(k)
                                    /\ A[k] \in Text /\ IsUtf8(A[k])
             /\ PortKey \in DOMAIN A => ToSet(A[PortKey]) \subseteq DigitRuns
  <1> DEFINE A == AuthorityHints(auth)
             D == {j \in {UserinfoKey, PortKey} :
                       IF j = PortKey THEN auth.port # None ELSE auth.userinfo # None}
  <1>1. A = [k \in D |-> IF k = PortKey THEN auth.port ELSE Decode(auth.userinfo)]
    BY DEF AuthorityHints
  <1>2. IsFiniteSet(D)
    <2>1. IsFiniteSet({} \cup {PortKey})
      BY FS_EmptySet, FS_AddElement
    <2>2. IsFiniteSet(({} \cup {PortKey}) \cup {UserinfoKey})
      BY <2>1, FS_AddElement
    <2>3. D \in SUBSET (({} \cup {PortKey}) \cup {UserinfoKey})
      OBVIOUS
    <2> QED
      BY <2>2, <2>3, FS_Subset
  <1>3. PortKey \in D => auth.port \in Seq(DigitRuns)
    OBVIOUS
  <1>4. UserinfoKey \in D => Decode(auth.userinfo) \in Text /\ IsUtf8(Decode(auth.userinfo))
    BY KeysDiffer, DecodeIs
  <1>5. \A k \in D : k = PortKey \/ k = UserinfoKey
    OBVIOUS
  <1> HIDE DEF D
  <1>6. PortKey \in D => A[PortKey] = auth.port
    BY <1>1
  <1>7. UserinfoKey \in D => A[UserinfoKey] = Decode(auth.userinfo)
    BY <1>1, KeysDiffer
  <1>8. DOMAIN A = D
    BY <1>1
  <1> HIDE DEF A
  <1>9. PortKey \in D => /\ A[PortKey] \in Text /\ IsUtf8(A[PortKey])
                         /\ ToSet(A[PortKey]) \subseteq DigitRuns
    BY <1>3, <1>6, PortText
  <1>10. \A k \in D : k \in Text /\ IsUtf8(k) /\ A[k] \in Text /\ IsUtf8(A[k])
    BY <1>4, <1>5, <1>7, <1>9, KeysDiffer, KeysUtf8
  <1> QED
    BY <1>2, <1>8, <1>9, <1>10 DEF A

(* What a URI from elsewhere is read as is a locator, with a port made of   *)
(* digits unless the query has one.                                         *)
LEMMA ForeignRead ==
  ASSUME NEW u \in ForeignUris, ParseNode(u).ok
  PROVE  LET l == ParseNode(u).val
         IN  /\ IsLocator(l)
             /\ PortOk(l) \/ (u.query # None /\ \E a \in Pairs(u.query) : Key(u.query, a) = PortKey)
  <1> DEFINE auth == u.authority
             host == auth.host
             l == ParseNode(u).val
             A == AuthorityHints(auth)
             Q == QueryHints(u.query)
             H == HintsOf(u)
  <1>1. /\ auth # None /\ "." \in ToSet(host) /\ HintsDecode(u)
        /\ ParseNode(u) = Ok([designator |-> Before(host, LastDot(host)),
                              transport |-> After(host, LastDot(host)),
                              hints |-> H])
    BY DEF ParseNode, LastDot, Err
  <1>2. l = [designator |-> Before(host, LastDot(host)),
             transport |-> After(host, LastDot(host)), hints |-> H]
    BY <1>1 DEF Ok
  <1>3. /\ host \in Text /\ auth.userinfo \in UriText \cup {None}
        /\ auth.port \in Seq(DigitRuns) \cup {None}
        /\ u.query \in UriText \cup {None}
    BY <1>1, ForeignUrisAssumption
  <1>4. Before(host, LastDot(host)) \in Text /\ After(host, LastDot(host)) \in Text
    <2> HIDE DEF host
    <2>1. host \in Seq(Tokens) /\ host \in UriText
      BY <1>3 DEF Text, UriText, Chars
    <2>2. LastDot(host) \in 1 .. Len(host)
      BY <1>1, <2>1, LastDotIs
    <2> QED
      BY <2>1, <2>2, CutText DEF Text
  <1>5. /\ IsFiniteSet(DOMAIN A)
        /\ \A k \in DOMAIN A : k \in Text /\ IsUtf8(k) /\ A[k] \in Text /\ IsUtf8(A[k])
        /\ PortKey \in DOMAIN A => ToSet(A[PortKey]) \subseteq DigitRuns
    <2>1. auth.userinfo # None => IsUtf8(Decode(auth.userinfo))
      BY <1>1 DEF HintsDecode
    <2> HIDE DEF auth
    <2> QED
      BY <1>3, <2>1, AuthorityHintsAre
  <1>6. ASSUME u.query # None
        PROVE  /\ IsFiniteSet(DOMAIN Q)
               /\ \A k \in DOMAIN Q : /\ k \in Text /\ IsUtf8(k)
                                      /\ Q[k] \in Text /\ IsUtf8(Q[k])
                                      /\ \E a \in Pairs(u.query) : Key(u.query, a) = k
    <2> DEFINE query == u.query
    <2>1. /\ query \in UriText
          /\ \A a \in Pairs(query) : IsUtf8(Key(query, a)) /\ IsUtf8(Value(query, a))
      BY <1>1, <1>3, <1>6 DEF HintsDecode
    <2> HIDE DEF query
    <2>2. LET R == QueryHints(query)
          IN  /\ IsFiniteSet(DOMAIN R)
              /\ \A k \in DOMAIN R : /\ k \in Text /\ IsUtf8(k)
                                     /\ R[k] \in Text /\ IsUtf8(R[k])
                                     /\ \E a \in Pairs(query) : Key(query, a) = k
      BY <2>1, QueryHintsAre
    <2> QED
      BY <2>2 DEF query
  <1>7. H = IF u.query = None THEN A
            ELSE [k \in DOMAIN A \cup DOMAIN Q |-> IF k \in DOMAIN Q THEN Q[k] ELSE A[k]]
    BY DEF HintsOf
  <1>8. A = [k \in DOMAIN A |-> A[k]]
    BY DEF AuthorityHints
  <1> HIDE DEF A, Q, H, host, auth
  <1>9. /\ IsFiniteSet(DOMAIN H)
        /\ \A k \in DOMAIN H : k \in Text /\ IsUtf8(k) /\ H[k] \in Text /\ IsUtf8(H[k])
        /\ H = [k \in DOMAIN H |-> H[k]]
    <2>1. CASE u.query = None
      BY <1>5, <1>7, <1>8, <2>1
    <2>2. CASE u.query # None
      <3>1. /\ DOMAIN H = DOMAIN A \cup DOMAIN Q
            /\ H = [k \in DOMAIN H |-> H[k]]
            /\ \A k \in DOMAIN H : H[k] = IF k \in DOMAIN Q THEN Q[k] ELSE A[k]
        BY <1>7, <2>2
      <3>2. IsFiniteSet(DOMAIN H)
        <4>1. IsFiniteSet(DOMAIN A) /\ IsFiniteSet(DOMAIN Q)
          BY <1>5, <1>6, <2>2
        <4>2. IsFiniteSet(DOMAIN A \cup DOMAIN Q)
          BY ONLY <4>1, FS_Union
        <4> QED
          BY <3>1, <4>2
      <3> QED
        BY <1>5, <1>6, <2>2, <3>1, <3>2
    <2> QED
      BY <2>1, <2>2
  <1>10. l.hints = H /\ l = [designator |-> l.designator, transport |-> l.transport, hints |-> l.hints]
         /\ l.designator \in Text /\ l.transport \in Text
    BY <1>2, <1>4
  <1> HIDE DEF l
  <1>11. IsLocator(l)
    <2>1. H \in [DOMAIN H -> Text]
      BY <1>9
    <2> QED
      BY <1>9, <1>10, <2>1 DEF IsLocator
  <1>12. ASSUME ~ (u.query # None /\ \E a \in Pairs(u.query) : Key(u.query, a) = PortKey)
         PROVE  PortOk(l)
    <2>1. PortKey \in DOMAIN H => PortKey \in DOMAIN A /\ H[PortKey] = A[PortKey]
      BY <1>6, <1>7, <1>12
    <2> QED
      BY <1>5, <1>10, <2>1 DEF PortOk, Hint
  <1> QED
    BY <1>11, <1>12 DEF l

(* The swiss number it is read with.                                        *)
LEMMA ForeignSwiss ==
  ASSUME NEW u \in ForeignUris, ParseSturdyRef(u).ok
  PROVE  ParseSturdyRef(u).val.swiss_num \in Text
  <1> DEFINE path == Decode(u.path)
  <1>1. path \in Seq(Tokens)
    BY ForeignUrisAssumption, DecodeIs DEF Text
  <1>2. /\ IsPrefix(SwissPrefix, path)
        /\ ParseSturdyRef(u) = Ok([node_locator |-> ParseNode(u).val,
                                   swiss_num |-> After(path, Len(SwissPrefix))])
    BY DEF ParseSturdyRef, Err
  <1>3. Len(SwissPrefix) = 3
    BY DEF SwissPrefix
  <1> HIDE DEF path
  <1>4. 3 \in 1 .. Len(path)
    BY <1>1, <1>2, <1>3 DEF IsPrefix
  <1>5. After(path, 3) \in Seq(Tokens)
    BY <1>1, <1>4, CutText
  <1> QED
    BY <1>2, <1>3, <1>5 DEF Ok, Text

-----------------------------------------------------------------------------
(* The invariant.                                                           *)

(* What is printed is the locator with its swiss number, and what is read   *)
(* is the URI that is there.                                                *)
Printed ==
    \E order \in QueryOrders(loc) :
        uri = BuildUri(loc, order, IF swiss = None THEN <<>> ELSE EncodedPath(swiss))

LInv ==
    /\ swiss \in Text \cup {None}
    /\ loc = None => origin = None /\ \E u \in ForeignUris : uri = Ok(u)
    /\ loc # None => IsLocator(loc) /\ (uri # None => Printed)
    /\ node # None \/ ref # None =>
           /\ uri # None /\ uri.ok
           /\ node = ParseNode(uri.val) /\ ref = ParseSturdyRef(uri.val)
    /\ origin # None =>
           /\ origin \in ForeignUris
           /\ ParseNode(origin).ok /\ loc = ParseNode(origin).val

(* Nothing was read at the start.                                           *)
LEMMA InitInv == LInit => LInv
  <1> SUFFICES ASSUME LInit PROVE LInv
    OBVIOUS
  <1>1. origin = None /\ node = None /\ ref = None
    BY DEF LInit
  <1>2. CASE loc \in Locators /\ swiss \in SwissNums \cup {None} /\ uri = None
    BY <1>1, <1>2, LocatorsAssumption, NoneAssumption DEF LInv
  <1>3. CASE loc = None /\ swiss = None /\ uri \in {Ok(u) : u \in ForeignUris}
    BY <1>1, <1>3 DEF LInv
  <1> QED
    BY <1>2, <1>3 DEF LInit

(* Every step keeps it.                                                     *)
LEMMA NextInv == LInv /\ [LNext]_lvars => LInv'
  <1> SUFFICES ASSUME LInv, [LNext]_lvars PROVE LInv'
    OBVIOUS
  <1>1. CASE Display
    <2>1. loc # None
      BY <1>1, NoneAssumption DEF Display, LInv
    <2>2. Printed'
      BY <1>1 DEF Display, Printed
    <2>3. node = None /\ ref = None
      BY <1>1 DEF Display, LInv
    <2> QED
      BY <1>1, <2>1, <2>2, <2>3 DEF Display, LInv
  <1>2. CASE Read
    <2>1. UNCHANGED <<loc, swiss, origin, uri>> /\ uri # None /\ uri.ok
      BY <1>2 DEF Read
    <2>2. Printed' <=> Printed
      BY <2>1 DEF Printed
    <2>3. node' = ParseNode(uri.val) /\ ref' = ParseSturdyRef(uri.val)
      BY <1>2 DEF Read
    <2> QED
      BY <2>1, <2>2, <2>3 DEF LInv
  <1>3. CASE Adopt
    <2>1. PICK u \in ForeignUris : uri = Ok(u)
      BY <1>3 DEF Adopt, LInv
    <2>2. uri.val = u
      BY <2>1 DEF Ok
    <2>3. node = ParseNode(u) /\ node.ok /\ ref = ParseSturdyRef(u)
      BY <1>3, <2>2 DEF Adopt, LInv
    <2>4. /\ loc' = ParseNode(u).val /\ origin' = u
          /\ uri' = None /\ node' = None /\ ref' = None
      BY <1>3, <2>2, <2>3 DEF Adopt
    <2>5. swiss' \in Text \cup {None}
      BY <1>3, <2>3, ForeignSwiss DEF Adopt
    <2>6. loc' # None
      BY <2>3, <2>4, NoneAssumption
    <2>7. IsLocator(ParseNode(u).val)
      BY <2>3, ForeignRead
    <2> HIDE <1>3
    <2> QED
      BY <2>3, <2>4, <2>5, <2>6, <2>7 DEF LInv
  <1>4. CASE UNCHANGED lvars
    BY <1>4 DEF lvars, LInv, Printed
  <1> QED
    BY <1>1, <1>2, <1>3, <1>4 DEF LNext

(* The invariant, of every run: what is read is what was printed.           *)
THEOREM Invariance == LSpec => []LInv
  BY InitInv, NextInv, PTL DEF LSpec

(* The locator a URI was printed from, and the order it was printed in.     *)
LEMMA ReadPrinted ==
  ASSUME LInv, loc # None, node # None \/ ref # None
  PROVE  /\ IsLocator(loc) /\ PortOk(loc)
         /\ \E order \in QueryOrders(loc) :
                uri.val = BuildUri(loc, order, IF swiss = None THEN <<>> ELSE EncodedPath(swiss)).val
         /\ node = ParseNode(uri.val) /\ ref = ParseSturdyRef(uri.val)
  <1>1. /\ IsLocator(loc) /\ Printed /\ uri.ok
        /\ node = ParseNode(uri.val) /\ ref = ParseSturdyRef(uri.val)
    BY DEF LInv
  <1>2. PICK order \in QueryOrders(loc) :
            uri = BuildUri(loc, order, IF swiss = None THEN <<>> ELSE EncodedPath(swiss))
    BY <1>1 DEF Printed
  <1>3. PortOk(loc)
    BY <1>1, <1>2 DEF BuildUri, Err
  <1> QED
    BY <1>1, <1>2, <1>3

-----------------------------------------------------------------------------
(* The theorems.                                                            *)

(* NodeLocator::try_from gives back the locator that build_uri printed      *)
(* exactly if the host needs no escape, the transport has no dot, and no    *)
(* hint holds "&" or "=" where the query splits.                            *)
THEOREM RoundTripsHolds == LSpec => []RoundTrips
  <1>1. LInv => RoundTrips
    <2> SUFFICES ASSUME LInv, loc # None, node # None
                 PROVE  node = Ok(loc) <=>
                            HostSplits(loc) /\ Plain(loc.transport) /\ HintsSeparate(loc)
      BY DEF RoundTrips
    <2>1. /\ IsLocator(loc) /\ PortOk(loc) /\ node = ParseNode(uri.val)
          /\ \E order \in QueryOrders(loc) :
                 uri.val = BuildUri(loc, order, IF swiss = None THEN <<>> ELSE EncodedPath(swiss)).val
      BY ReadPrinted
    <2> QED
      BY <2>1, NodeReturns
  <1> QED
    BY <1>1, Invariance, PTL

(* SturdyRefLocator::try_from gives back the swiss number encoded_path      *)
(* printed, whatever its bytes, and takes no node locator for a sturdyref.  *)
THEOREM SwissKeptHolds == LSpec => []SwissKept
  <1>1. LInv => SwissKept
    <2> SUFFICES ASSUME LInv, loc # None, ref # None
                 PROVE  ref = IF swiss = None THEN Err("MissingPath")
                              ELSE Ok([node_locator |-> node.val, swiss_num |-> swiss])
      BY DEF SwissKept
    <2>1. /\ IsLocator(loc) /\ PortOk(loc)
          /\ node = ParseNode(uri.val) /\ ref = ParseSturdyRef(uri.val)
      BY ReadPrinted
    <2>2. PICK order \in QueryOrders(loc) :
              uri.val = BuildUri(loc, order, IF swiss = None THEN <<>> ELSE EncodedPath(swiss)).val
      BY ReadPrinted
    <2>3. swiss \in Text \cup {None}
      BY DEF LInv
    <2> QED
      BY <2>1, <2>2, <2>3, SwissReturns
  <1> QED
    BY <1>1, Invariance, PTL

(* as_socket_addr names the address it named before the locator was printed *)
(* and read, or none.                                                       *)
THEOREM AddressKeptHolds == LSpec => []AddressKept
  <1>1. LInv => AddressKept
    <2> SUFFICES ASSUME LInv, loc # None, node # None, AsSocketAddr(loc).ok, HintsSeparate(loc)
                 PROVE  AsSocketAddr(node.val) =
                            IF HostSplits(loc) THEN AsSocketAddr(loc) ELSE Err("ParseAddr")
      BY DEF AddressKept
    <2>1. IsLocator(loc) /\ PortOk(loc) /\ node = ParseNode(uri.val)
      BY ReadPrinted
    <2>2. PICK order \in QueryOrders(loc) :
              uri.val = BuildUri(loc, order, IF swiss = None THEN <<>> ELSE EncodedPath(swiss)).val
      BY ReadPrinted
    <2> QED
      BY <2>1, <2>2, AddressReturns
  <1> QED
    BY <1>1, Invariance, PTL

(* Display panics on a locator that was read from a URI only if the URI's   *)
(* query named a port: the authority's is made of digits.                   *)
THEOREM PanicsByQueryPortHolds == LSpec => []PanicsByQueryPort
  <1>1. LInv => PanicsByQueryPort
    <2> SUFFICES ASSUME LInv, origin # None, uri # None, ~uri.ok
                 PROVE  /\ origin.query # None
                        /\ \E a \in Pairs(origin.query) : Key(origin.query, a) = PortKey
      BY DEF PanicsByQueryPort
    <2>1. origin \in ForeignUris /\ ParseNode(origin).ok /\ loc = ParseNode(origin).val
      BY DEF LInv
    <2>2. loc # None
      BY DEF LInv
    <2>3. PICK order \in QueryOrders(loc) :
              uri = BuildUri(loc, order, IF swiss = None THEN <<>> ELSE EncodedPath(swiss))
      BY <2>2 DEF LInv, Printed
    <2>4. ~PortOk(loc)
      BY <2>3 DEF BuildUri, Ok
    <2> QED
      BY <2>1, <2>4, ForeignRead
  <1> QED
    BY <1>1, Invariance, PTL
=============================================================================
