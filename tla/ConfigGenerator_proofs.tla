----------------------- MODULE ConfigGenerator_proofs -----------------------
(***************************************************************************)
(* Proofs about the configurations that are generated, for any profiles,   *)
(* chains, routing profiles and settings: what Xray sends does not come    *)
(* back to it, and a configuration names nothing that it does not define.  *)
(***************************************************************************)
EXTENDS ConfigGenerator, SequenceTheorems, FiniteSetTheorems, WellFoundedInduction, TLAPS

Ids == DOMAIN Profile \cup {"warp"}
Texts ==
  {"proxy", "warp-bypass", "direct", "xray-direct", "user", "block", "config", "route", "inbound", "bridge",
   "bridge-loopback", "freelink-bridge", "dns-in", "mixed-in", "tun-in", "hijack-dns", "process"}
Letters == Nat \cup Texts
Devices == STRING \cup {Empty}
Words == Seq(Letters)

SingHop == [tag : Words, hop : Ids \cup {"bridge"}, port : Nat, detour : Words]
XrayHop == [tag : Words, hop : Ids \cup {"bridge"}, port : Nat, via : Words, bind : Devices]
Gate == [port : Nat, outbound : Words]
Group == [watch : Words, profiles : SUBSET DOMAIN Profile]
UserConfig == {NoXray} \cup {UserXray(n) : n \in Nat}

Context ==
  [ports : Nat, sing : Seq(SingHop), xray : Seq(XrayHop), toXray : Seq(Gate), toSing : Seq(Gate),
   user : UserConfig, groups : Seq(Group), error : BOOLEAN, tun : BOOLEAN, interface : Devices]

ChainOf ==
  [ids : Seq(Ids), prefix : {<<"config">>, <<"route">>}, start : Nat,
   main : BOOLEAN, link : BOOLEAN, warp : BOOLEAN]

-----------------------------------------------------------------------------
(* Numbers, sequences and what is defined by recursion.                    *)

(* A set of numbers that is not empty has a least one.                     *)
LEMMA LeastOf ==
  ASSUME NEW S \in SUBSET Nat, S # {}
  PROVE  Min(S) \in S /\ \A i \in S : Min(S) <= i
<1> DEFINE R == OpToRel(<, Nat)
<1>1. IsWellFoundedOn(R, Nat) BY NatLessThanWellFounded
<1>2. \A a, b \in Nat : a < b => <<a, b>> \in R BY DEF OpToRel
<1> HIDE DEF R
<1>3. PICK n \in S : \A m \in S : <<m, n>> \notin R BY <1>1, WFMin, Zenon
<1>4. ASSUME NEW m \in S PROVE n <= m
  <2>1. m \in Nat /\ n \in Nat /\ <<m, n>> \notin R BY <1>3
  <2>2. ~(m < n) BY <1>2, <2>1
  <2> QED BY <2>1, <2>2
<1> QED BY <1>4 DEF Min

(* One that has a bound has a greatest one.                                *)
LEMMA GreatestOf ==
  ASSUME NEW n \in Nat, NEW S \in SUBSET (1 .. n), S # {}
  PROVE  Max(S) \in S /\ \A i \in S : i <= Max(S)
<1> DEFINE D == {n - i : i \in S}
<1>1. D \in SUBSET Nat /\ D # {}
  <2>1. \A i \in S : i \in Nat /\ n - i \in Nat OBVIOUS
  <2>2. \A d \in D : \E i \in S : d = n - i OBVIOUS
  <2>3. PICK i \in S : TRUE OBVIOUS
  <2>4. n - i \in D OBVIOUS
  <2> HIDE DEF D
  <2> QED BY <2>1, <2>2, <2>4
<1> HIDE DEF D
<1>2. PICK d \in D : \A e \in D : d <= e BY <1>1, LeastOf
<1>3. PICK m \in S : d = n - m BY DEF D
<1>4. ASSUME NEW i \in S PROVE m >= i
  <2>1. n - i \in D BY DEF D
  <2> QED BY <1>2, <1>3, <2>1
<1>5. \A m1 \in S : (\A i \in S : m1 >= i) => \A i \in S : i <= m1 OBVIOUS
<1> QED BY <1>4, <1>5 DEF Max

LEMMA NatSetInduction ==
  ASSUME NEW T, 0 \in T, \A n \in Nat : n \in T => n + 1 \in T
  PROVE  Nat \subseteq T
<1> SUFFICES ASSUME Nat \ T # {} PROVE FALSE OBVIOUS
<1>1. Min(Nat \ T) \in Nat \ T /\ \A i \in Nat \ T : Min(Nat \ T) <= i BY LeastOf
<1>2. PICK n \in Nat \ T : \A i \in Nat \ T : n <= i BY <1>1
<1>3. n # 0 /\ n - 1 \in Nat /\ n - 1 < n OBVIOUS
<1>4. n - 1 \in T BY <1>2, <1>3
<1> QED BY <1>3, <1>4

LEMMA SeqTyped ==
  ASSUME NEW S, NEW n \in Nat, NEW f \in [1 .. n -> S]
  PROVE  f \in Seq(S) /\ Len(f) = n /\ DOMAIN f = 1 .. n
OBVIOUS

(* What stands in a concatenation stands in one of its parts.              *)
LEMMA ConcatFacts ==
  ASSUME NEW S, NEW p \in Seq(S), NEW q \in Seq(S)
  PROVE  /\ p \o q \in Seq(S) /\ Len(p \o q) = Len(p) + Len(q) /\ DOMAIN (p \o q) = 1 .. Len(p) + Len(q)
         /\ \A i \in DOMAIN p : i \in DOMAIN (p \o q) /\ (p \o q)[i] = p[i]
         /\ \A i \in DOMAIN q : Len(p) + i \in DOMAIN (p \o q) /\ (p \o q)[Len(p) + i] = q[i]
         /\ \A i \in DOMAIN (p \o q) : \/ i \in DOMAIN p /\ (p \o q)[i] = p[i]
                                       \/ i - Len(p) \in DOMAIN q /\ (p \o q)[i] = q[i - Len(p)]
<1>1. /\ p \o q \in Seq(S) /\ Len(p \o q) = Len(p) + Len(q)
      /\ \A i \in 1 .. Len(p) + Len(q) : (p \o q)[i] = IF i <= Len(p) THEN p[i] ELSE q[i - Len(p)]
      BY ConcatProperties
<1>2. /\ Len(p) \in Nat /\ Len(q) \in Nat /\ DOMAIN p = 1 .. Len(p) /\ DOMAIN q = 1 .. Len(q)
      /\ DOMAIN (p \o q) = 1 .. Len(p) + Len(q)
      BY <1>1, LenProperties
<1> DEFINE c == p \o q
<1> HIDE DEF c
<1>3. /\ \A i \in DOMAIN p : i \in DOMAIN c /\ c[i] = p[i]
      /\ \A i \in DOMAIN q : Len(p) + i \in DOMAIN c /\ c[Len(p) + i] = q[i]
      BY <1>1, <1>2 DEF c
<1>4. ASSUME NEW i \in DOMAIN c
      PROVE  \/ i \in DOMAIN p /\ c[i] = p[i]
             \/ i - Len(p) \in DOMAIN q /\ c[i] = q[i - Len(p)]
      BY <1>1, <1>2 DEF c
<1> QED BY <1>1, <1>2, <1>3, <1>4 DEF c

(* What a recursion over 0 .. n is defined by has a solution: each value   *)
(* comes from the one before it.                                           *)
Iterates(h, n, w0, F) == h[0] = w0 /\ \A i \in 1 .. n : h[i] = F[<<i, h[i - 1]>>]

LEMMA Recursion ==
  ASSUME NEW n \in Nat, NEW W, NEW w0 \in W, NEW F \in [(0 .. n) \X W -> W]
  PROVE  \E h \in [0 .. n -> W] : Iterates(h, n, w0, F)
<1> DEFINE Upto(k) == {h \in [0 .. k -> W] : h[0] = w0 /\ \A i \in 1 .. k : h[i] = F[<<i, h[i - 1]>>]}
           T == {k \in Nat : k <= n => Upto(k) # {}}
<1>1. 0 \in T
  <2> DEFINE h == [i \in 0 .. 0 |-> w0]
  <2>1. h \in [0 .. 0 -> W] /\ h[0] = w0 /\ \A i \in 1 .. 0 : h[i] = F[<<i, h[i - 1]>>] OBVIOUS
  <2> HIDE DEF h
  <2>2. Upto(0) # {} BY <2>1
  <2> QED BY <2>2
<1>2. ASSUME NEW k \in Nat, k \in T PROVE k + 1 \in T
  <2> SUFFICES ASSUME k + 1 <= n PROVE Upto(k + 1) # {}
    <3> HIDE DEF Upto
    <3> QED OBVIOUS
  <2>1. Upto(k) # {}
    <3> HIDE DEF Upto
    <3> QED BY <1>2
  <2>2. PICK h \in [0 .. k -> W] : h[0] = w0 /\ \A i \in 1 .. k : h[i] = F[<<i, h[i - 1]>>] BY <2>1
  <2> DEFINE v == F[<<k + 1, h[k]>>]
             g == [i \in 0 .. k + 1 |-> IF i = k + 1 THEN v ELSE h[i]]
  <2>3. v \in W
    <3>1. h[k] \in W /\ k + 1 \in 0 .. n OBVIOUS
    <3>2. <<k + 1, h[k]>> \in (0 .. n) \X W BY <3>1
    <3> QED BY <3>2
  <2>4. g \in [0 .. k + 1 -> W] /\ g[k + 1] = v /\ \A i \in 0 .. k : g[i] = h[i]
    <3> HIDE DEF v
    <3> QED BY <2>3
  <2>5. ASSUME NEW i \in 1 .. k + 1 PROVE g[i] = F[<<i, g[i - 1]>>]
    <3>1. CASE i = k + 1
      <4>1. i - 1 = k /\ k \in 0 .. k BY <3>1
      <4>2. g[i - 1] = h[k] /\ g[i] = v BY <2>4, <3>1, <4>1
      <4> HIDE DEF g
      <4> QED BY <3>1, <4>2
    <3>2. CASE i # k + 1
      <4>1. i \in 1 .. k /\ i \in 0 .. k /\ i - 1 \in 0 .. k BY <3>2
      <4>2. g[i] = h[i] /\ g[i - 1] = h[i - 1] BY <2>4, <4>1
      <4> HIDE DEF g
      <4> QED BY <2>2, <4>1, <4>2
    <3> QED BY <3>1, <3>2
  <2>6. g[0] = w0
    <3>1. 0 \in 0 .. k OBVIOUS
    <3> HIDE DEF g
    <3> QED BY <2>2, <2>4, <3>1
  <2> HIDE DEF g
  <2> QED BY <2>4, <2>5, <2>6
<1>3. n \in T
  <2> HIDE DEF T
  <2> QED BY <1>1, <1>2, NatSetInduction
<1>4. Upto(n) # {}
  <2> HIDE DEF Upto
  <2> QED BY <1>3
<1>5. PICK h \in Upto(n) : TRUE BY <1>4
<1> QED BY <1>5 DEF Iterates

-----------------------------------------------------------------------------
(* Tags.                                                                   *)

LEMMA TagFacts ==
  ASSUME NEW p \in Words, NEW n \in Nat
  PROVE  /\ Tag(p, n) \in Words /\ Len(Tag(p, n)) = Len(p) + 1 /\ Len(p) \in Nat
         /\ Tag(p, n)[Len(p) + 1] = n /\ \A i \in 1 .. Len(p) : Tag(p, n)[i] = p[i]
<1>1. p \in Seq(Letters) /\ n \in Letters BY DEF Words, Letters
<1> QED BY <1>1, AppendProperties, LenProperties DEF Tag, Words

Lines == {<<x>> : x \in {"config", "route"}}
Singles == {<<x>> : x \in {"proxy", "warp-bypass", "direct", "xray-direct", "user"}}

LEMMA OneLong ==
  ASSUME NEW S, NEW x \in S
  PROVE  <<x>> \in Seq(S) /\ Len(<<x>>) = 1 /\ <<x>> # << >> /\ <<x>>[1] = x
OBVIOUS

LEMMA Plainly ==
  /\ NoTag \in Words /\ Singles \subseteq Words /\ Lines \subseteq Words /\ NoTag \notin Singles
  /\ \A t \in Singles \cup Lines : Len(t) = 1
<1>1. NoTag \in Words BY EmptySeq DEF NoTag, Words
<1>2. \A x \in Texts : <<x>> \in Words /\ Len(<<x>>) = 1 /\ <<x>> # NoTag
  <2> SUFFICES ASSUME NEW x \in Texts PROVE <<x>> \in Words /\ Len(<<x>>) = 1 /\ <<x>> # NoTag OBVIOUS
  <2>1. x \in Letters BY DEF Letters
  <2> QED BY <2>1, OneLong, Zenon DEF Words, NoTag
<1>3. \A t \in Singles \cup Lines : \E x \in Texts : t = <<x>>
  <2>1. {"proxy", "warp-bypass", "direct", "xray-direct", "user", "config", "route"} \subseteq Texts BY DEF Texts
  <2>2. \A t \in Singles \cup Lines :
          \E x \in {"proxy", "warp-bypass", "direct", "xray-direct", "user", "config", "route"} : t = <<x>>
        BY Zenon DEF Singles, Lines
  <2> QED BY <2>1, <2>2, Zenon
<1> QED BY <1>1, <1>2, <1>3

(* Numbered tags are no single words, and tell their prefix and number.    *)
LEMMA Numbered ==
  ASSUME NEW p \in Lines, NEW n \in Nat
  PROVE  /\ Tag(p, n) \in Words /\ Tag(p, n) \notin Singles /\ Tag(p, n) # NoTag
         /\ Len(Tag(p, n)) = 2 /\ Tag(p, n)[1] = p[1] /\ Tag(p, n)[2] = n
         /\ \A q \in Lines : \A m \in Nat : Tag(p, n) = Tag(q, m) => p = q /\ n = m
<1>1. \A q \in Lines : q \in Words /\ Len(q) = 1 BY Plainly
<1>2. \A q \in Lines : \A m \in Nat :
        Tag(q, m) \in Words /\ Len(Tag(q, m)) = 2 /\ Tag(q, m)[1] = q[1] /\ Tag(q, m)[2] = m
  <2> SUFFICES ASSUME NEW q \in Lines, NEW m \in Nat
               PROVE  Tag(q, m) \in Words /\ Len(Tag(q, m)) = 2 /\ Tag(q, m)[1] = q[1] /\ Tag(q, m)[2] = m
    OBVIOUS
  <2>1. q \in Words /\ Len(q) = 1 BY <1>1
  <2>2. 1 \in 1 .. Len(q) /\ Len(q) + 1 = 2 BY <2>1
  <2>3. /\ Tag(q, m) \in Words /\ Len(Tag(q, m)) = Len(q) + 1
        /\ Tag(q, m)[Len(q) + 1] = m /\ \A i \in 1 .. Len(q) : Tag(q, m)[i] = q[i]
        BY <2>1, TagFacts
  <2> QED BY <2>2, <2>3
<1>3. \A q \in Lines : q[1] = p[1] => q = p BY DEF Lines
<1>4. \A t \in Singles : Len(t) # 2 BY Plainly
<1>5. Len(NoTag) = 0 BY DEF NoTag
<1> QED BY <1>2, <1>3, <1>4, <1>5

(* The parts of a list: what comes before, in and behind Xray.             *)
LEMMA Parts ==
  ASSUME NEW ids \in Seq(Ids)
  PROVE  /\ xrayAt(ids) \in SUBSET (1 .. Len(ids)) /\ Len(ids) \in Nat
         /\ initialSingEnts(ids) \in Seq(Ids) /\ xrayEnts(ids) \in Seq(Ids) /\ tailingSingEnts(ids) \in Seq(Ids)
         /\ xrayAt(ids) = {} =>
              initialSingEnts(ids) = ids /\ xrayEnts(ids) = << >> /\ tailingSingEnts(ids) = << >>
         /\ xrayAt(ids) # {} =>
              \E a, b \in 1 .. Len(ids) :
                /\ a <= b /\ Len(initialSingEnts(ids)) = a - 1 /\ Len(xrayEnts(ids)) = b - a + 1
                /\ Len(tailingSingEnts(ids)) = Len(ids) - b
                /\ \A i \in 1 .. a - 1 : initialSingEnts(ids)[i] = ids[i]
                /\ \A i \in 1 .. b - a + 1 : xrayEnts(ids)[i] = ids[a + i - 1]
                /\ \A i \in 1 .. Len(ids) - b : tailingSingEnts(ids)[i] = ids[b + i]
                /\ a \in xrayAt(ids) /\ b \in xrayAt(ids) /\ \A i \in xrayAt(ids) : a <= i /\ i <= b
<1>1. Len(ids) \in Nat /\ DOMAIN ids = 1 .. Len(ids) /\ \A i \in 1 .. Len(ids) : ids[i] \in Ids BY LenProperties
<1>2. xrayAt(ids) \in SUBSET (1 .. Len(ids)) BY <1>1 DEF xrayAt, Where
<1>3. CASE xrayAt(ids) = {}
  <2>1. << >> \in Seq(Ids) BY EmptySeq
  <2> QED BY <1>1, <1>2, <1>3, <2>1 DEF initialSingEnts, xrayEnts, tailingSingEnts
<1>4. CASE xrayAt(ids) # {}
  <2> DEFINE at == xrayAt(ids)
             a == Min(at)
             b == Max(at)
  <2>1. a \in at /\ (\A i \in at : a <= i) /\ b \in at /\ \A i \in at : i <= b
    <3> HIDE DEF at
    <3>1. at \in SUBSET Nat /\ at \in SUBSET (1 .. Len(ids)) /\ at # {} /\ Len(ids) \in Nat BY <1>1, <1>2, <1>4 DEF at
    <3> QED BY <3>1, LeastOf, GreatestOf
  <2>2. a \in 1 .. Len(ids) /\ b \in 1 .. Len(ids) /\ a <= b BY <1>2, <2>1
  <2>3. /\ initialSingEnts(ids) = SubSeq(ids, 1, a - 1) /\ xrayEnts(ids) = SubSeq(ids, a, b)
        /\ tailingSingEnts(ids) = SubSeq(ids, b + 1, Len(ids))
        BY <1>4 DEF initialSingEnts, xrayEnts, tailingSingEnts
  <2> HIDE DEF a, b
  <2>4. /\ SubSeq(ids, 1, a - 1) \in Seq(Ids) /\ Len(SubSeq(ids, 1, a - 1)) = a - 1
        /\ \A i \in 1 .. a - 1 : SubSeq(ids, 1, a - 1)[i] = ids[i]
    <3>1. 1 \in Int /\ a - 1 \in Int /\ \A i \in 1 .. a - 1 : ids[i] \in Ids BY <1>1, <2>2
    <3>2. /\ SubSeq(ids, 1, a - 1) \in Seq(Ids)
          /\ Len(SubSeq(ids, 1, a - 1)) = IF 1 <= a - 1 THEN a - 1 - 1 + 1 ELSE 0
          /\ \A i \in 1 .. a - 1 - 1 + 1 : SubSeq(ids, 1, a - 1)[i] = ids[1 + i - 1]
          BY <3>1, SubSeqProperties
    <3> QED BY <2>2, <3>2
  <2>5. /\ SubSeq(ids, a, b) \in Seq(Ids) /\ Len(SubSeq(ids, a, b)) = b - a + 1
        /\ \A i \in 1 .. b - a + 1 : SubSeq(ids, a, b)[i] = ids[a + i - 1]
    <3>1. a \in Int /\ b \in Int /\ \A i \in a .. b : ids[i] \in Ids BY <1>1, <2>2
    <3> QED BY <2>2, <3>1, SubSeqProperties
  <2>6. /\ SubSeq(ids, b + 1, Len(ids)) \in Seq(Ids) /\ Len(SubSeq(ids, b + 1, Len(ids))) = Len(ids) - b
        /\ \A i \in 1 .. Len(ids) - b : SubSeq(ids, b + 1, Len(ids))[i] = ids[b + i]
    <3> DEFINE m == b + 1
               n == Len(ids)
    <3>1. m \in Int /\ n \in Int /\ \A i \in m .. n : ids[i] \in Ids BY <1>1, <2>2
    <3>2. n - m + 1 = n - b /\ (m <= n \/ n - b = 0) /\ \A i \in Nat : m + i - 1 = b + i
      <4>1. n \in Nat /\ b \in Nat /\ b <= n BY <1>1, <2>2
      <4> HIDE DEF n
      <4> QED BY <4>1
    <3> HIDE DEF m
    <3>3. /\ SubSeq(ids, m, n) \in Seq(Ids) /\ Len(SubSeq(ids, m, n)) = IF m <= n THEN n - m + 1 ELSE 0
          /\ \A i \in 1 .. n - m + 1 : SubSeq(ids, m, n)[i] = ids[m + i - 1]
          BY <3>1, SubSeqProperties
    <3>4. n \in Nat /\ b \in Nat BY <1>1, <2>2
    <3>5. Len(SubSeq(ids, m, n)) = n - b /\ \A i \in 1 .. n - b : SubSeq(ids, m, n)[i] = ids[b + i]
      <4> HIDE DEF n
      <4> QED BY <3>2, <3>3, <3>4 DEF m
    <3> QED BY <3>3, <3>5 DEF m
  <2> QED BY <1>1, <1>2, <1>4, <2>1, <2>2, <2>3, <2>4, <2>5, <2>6
<1> QED BY <1>3, <1>4

-----------------------------------------------------------------------------
(* One chain.                                                              *)

Hop == [hop : Ids \cup {"bridge"}, port : Nat]
Exit == [by : {"bridge", "loopback", "interface", "none"}, port : Nat]

LEMMA ChainTags ==
  ASSUME NEW c \in ChainOf, NEW n \in Nat
  PROVE  /\ Tag(c.prefix, n) \in Words /\ Tag(c.prefix, n) # NoTag /\ Tag(c.prefix, n) \notin Singles
         /\ c.prefix \in Lines
<1>1. c.prefix \in Lines BY DEF ChainOf, Lines
<1> QED BY <1>1, Numbered

(* The outbounds of sing-box for a list of hops.                           *)
LEMMA SingChain ==
  ASSUME NEW c \in ChainOf, NEW hops \in Seq(Hop), NEW start \in Nat, NEW first \in BOOLEAN
  PROVE  LET q == buildSingboxChain(c, hops, start, first)
         IN  /\ q \in Seq(SingHop) /\ Len(q) = Len(hops) /\ DOMAIN q = 1 .. Len(hops)
             /\ \A i \in 1 .. Len(hops) :
                  /\ q[i].tag = IF first /\ c.warp /\ i = 2 THEN <<"warp-bypass">>
                                ELSE IF first /\ c.main /\ i = 1 THEN <<"proxy">>
                                ELSE Tag(c.prefix, start + i - 1)
                  /\ q[i].hop = hops[i].hop /\ q[i].port = hops[i].port
                  /\ q[i].detour = IF first /\ c.warp /\ i = 1 THEN <<"warp-bypass">>
                                   ELSE IF i < Len(hops) /\ c.link THEN Tag(c.prefix, start + i) ELSE NoTag
<1> DEFINE q == buildSingboxChain(c, hops, start, first)
           tag(i) == IF first /\ c.warp /\ i = 2 THEN <<"warp-bypass">>
                     ELSE IF first /\ c.main /\ i = 1 THEN <<"proxy">>
                     ELSE Tag(c.prefix, start + i - 1)
           detour(i) == IF first /\ c.warp /\ i = 1 THEN <<"warp-bypass">>
                        ELSE IF i < Len(hops) /\ c.link THEN Tag(c.prefix, start + i) ELSE NoTag
           e(i) == [tag |-> tag(i), hop |-> hops[i].hop, port |-> hops[i].port, detour |-> detour(i)]
<1>1. /\ Len(hops) \in Nat /\ DOMAIN hops = 1 .. Len(hops)
      /\ \A i \in 1 .. Len(hops) : hops[i].hop \in Ids \cup {"bridge"} /\ hops[i].port \in Nat
  <2>1. Len(hops) \in Nat /\ DOMAIN hops = 1 .. Len(hops) /\ \A i \in 1 .. Len(hops) : hops[i] \in Hop
        BY LenProperties
  <2>2. \A h \in Hop : h.hop \in Ids \cup {"bridge"} /\ h.port \in Nat BY DEF Hop
  <2> QED BY <2>1, <2>2
<1>2. \A i \in 1 .. Len(hops) : tag(i) \in Words /\ detour(i) \in Words
  <2> SUFFICES ASSUME NEW i \in 1 .. Len(hops) PROVE tag(i) \in Words /\ detour(i) \in Words OBVIOUS
  <2>1. <<"warp-bypass">> \in Words /\ <<"proxy">> \in Words /\ NoTag \in Words BY Plainly DEF Singles
  <2>2. start + i - 1 \in Nat /\ start + i \in Nat BY <1>1
  <2>3. Tag(c.prefix, start + i - 1) \in Words /\ Tag(c.prefix, start + i) \in Words BY <2>2, ChainTags
  <2> QED BY <2>1, <2>3
<1>3. q = [i \in 1 .. Len(hops) |-> e(i)]
  <2>1. ASSUME NEW i \in 1 .. Len(hops)
        PROVE  (CASE first /\ c.warp /\ i = 2 -> <<"warp-bypass">>
                  [] first /\ c.main /\ i = 1 -> <<"proxy">>
                  [] OTHER -> Tag(c.prefix, start + i - 1)) = tag(i)
    <3>1. ~(i = 2 /\ i = 1) OBVIOUS
    <3> QED BY <3>1
  <2> QED BY <1>1, <2>1 DEF buildSingboxChain
<1>4. \A i \in 1 .. Len(hops) : e(i) \in SingHop
  <2> HIDE DEF tag, detour
  <2> QED BY <1>1, <1>2 DEF SingHop
<1> HIDE DEF q
<1>5. \A i \in 1 .. Len(hops) : q[i] = e(i)
  <2> HIDE DEF e
  <2> QED BY <1>3
<1>6. q \in Seq(SingHop) /\ Len(q) = Len(hops) /\ DOMAIN q = 1 .. Len(hops)
  <2> HIDE DEF e
  <2>1. q \in [1 .. Len(hops) -> SingHop] BY <1>3, <1>4
  <2>2. Len(hops) \in Nat BY <1>1
  <2> QED BY <2>1, <2>2, SeqTyped
<1>7. \A i \in 1 .. Len(hops) : /\ q[i].tag = tag(i) /\ q[i].detour = detour(i)
                                /\ q[i].hop = hops[i].hop /\ q[i].port = hops[i].port
  <2> SUFFICES ASSUME NEW i \in 1 .. Len(hops)
               PROVE  /\ q[i].tag = tag(i) /\ q[i].detour = detour(i)
                      /\ q[i].hop = hops[i].hop /\ q[i].port = hops[i].port
    OBVIOUS
  <2>1. q[i] = e(i) BY <1>5
  <2> DEFINE t == tag(i)
             d == detour(i)
  <2>2. q[i] = [tag |-> t, hop |-> hops[i].hop, port |-> hops[i].port, detour |-> d] BY <2>1
  <2> HIDE DEF t, d
  <2>3. q[i].tag = t /\ q[i].detour = d /\ q[i].hop = hops[i].hop /\ q[i].port = hops[i].port BY <2>2
  <2> QED BY <2>3 DEF t, d
<1> QED BY <1>6, <1>7 DEF q

(* The outbounds of Xray, the last one to the bridge if there is one.      *)
IsXrayHop(o, c, xs, leave, interface, i) ==
  /\ o.tag = IF c.main /\ i = 1 THEN <<"proxy">> ELSE Tag(c.prefix, c.start + i - 1)
  /\ o.hop = xs[i] /\ o.port = 0
  /\ o.via = IF (i < Len(xs) /\ c.link) \/ leave.by \in {"bridge", "loopback"}
             THEN Tag(c.prefix, c.start + i) ELSE NoTag
  /\ o.bind = IF leave.by = "interface" /\ i = Len(xs) THEN interface ELSE Empty

LEMMA XrayChain ==
  ASSUME NEW c \in ChainOf, NEW xs \in Seq(Ids), NEW leave \in Exit, NEW interface \in Devices
  PROVE  LET q == buildXrayChain(c, xs, leave, interface)
             bridge == leave.by \in {"bridge", "loopback"}
         IN  /\ q \in Seq(XrayHop) /\ Len(q) = Len(xs) + (IF bridge THEN 1 ELSE 0) /\ DOMAIN q = 1 .. Len(q)
             /\ \A i \in 1 .. Len(xs) : IsXrayHop(q[i], c, xs, leave, interface, i)
             /\ bridge => /\ q[Len(xs) + 1].tag = Tag(c.prefix, c.start + Len(xs))
                          /\ q[Len(xs) + 1].hop = "bridge" /\ q[Len(xs) + 1].port = leave.port
                          /\ q[Len(xs) + 1].via = NoTag
<1> DEFINE q == buildXrayChain(c, xs, leave, interface)
           bridge == leave.by \in {"bridge", "loopback"}
           tag(i) == IF c.main /\ i = 1 THEN <<"proxy">> ELSE Tag(c.prefix, c.start + i - 1)
           via(i) == IF (i < Len(xs) /\ c.link) \/ bridge THEN Tag(c.prefix, c.start + i) ELSE NoTag
           bind(i) == IF leave.by = "interface" /\ i = Len(xs) THEN interface ELSE Empty
           e(i) == [tag |-> tag(i), hop |-> xs[i], port |-> 0, via |-> via(i), bind |-> bind(i)]
           hops == [i \in 1 .. Len(xs) |-> e(i)]
           socks == [tag |-> Tag(c.prefix, c.start + Len(xs)), hop |-> "bridge", port |-> leave.port,
                     via |-> NoTag, bind |-> Empty]
           rest == IF bridge THEN <<socks>> ELSE << >>
<1>1. Len(xs) \in Nat /\ DOMAIN xs = 1 .. Len(xs) /\ \A i \in 1 .. Len(xs) : xs[i] \in Ids BY LenProperties
<1>2. NoTag \in Words /\ <<"proxy">> \in Words BY Plainly DEF Singles
<1>2a. c.start \in Nat /\ Empty \in Devices /\ interface \in Devices BY DEF ChainOf, Devices
<1>2b. \A a, b \in Nat : a + b \in Nat /\ (b > 0 => a + b - 1 \in Nat) OBVIOUS
<1>2c. \A i \in 1 .. Len(xs) : i \in Nat /\ i > 0 BY <1>1
<1>3. \A i \in 1 .. Len(xs) : tag(i) \in Words /\ via(i) \in Words /\ bind(i) \in Devices
  <2> SUFFICES ASSUME NEW i \in 1 .. Len(xs)
               PROVE  tag(i) \in Words /\ via(i) \in Words /\ bind(i) \in Devices
    OBVIOUS
  <2>1. c.start + i - 1 \in Nat /\ c.start + i \in Nat BY <1>2a, <1>2b, <1>2c
  <2>2. Tag(c.prefix, c.start + i - 1) \in Words /\ Tag(c.prefix, c.start + i) \in Words BY <2>1, ChainTags
  <2> QED BY <1>2, <1>2a, <2>2
<1>4. socks \in XrayHop
  <2>1. c.start + Len(xs) \in Nat BY <1>1, <1>2a, <1>2b
  <2>2. Tag(c.prefix, c.start + Len(xs)) \in Words BY <2>1, ChainTags
  <2>3. leave.port \in Nat BY DEF Exit
  <2> QED BY <1>2, <1>2a, <2>2, <2>3 DEF XrayHop
<1>5. \A i \in 1 .. Len(xs) : e(i) \in XrayHop
  <2> HIDE DEF tag, via, bind
  <2> QED BY <1>1, <1>3 DEF XrayHop
<1>6. hops \in Seq(XrayHop) /\ Len(hops) = Len(xs) /\ \A i \in 1 .. Len(xs) : hops[i] = e(i)
  <2> HIDE DEF e
  <2>1. \A i \in 1 .. Len(xs) : hops[i] = e(i) OBVIOUS
  <2>2. hops \in [1 .. Len(xs) -> XrayHop] BY <1>5
  <2>3. Len(xs) \in Nat BY <1>1
  <2> HIDE DEF hops
  <2>4. hops \in Seq(XrayHop) /\ Len(hops) = Len(xs) BY <2>2, <2>3, SeqTyped
  <2> QED BY <2>1, <2>4
<1>7. q = hops \o rest
  <2>1. hops = [i \in DOMAIN xs |-> e(i)] BY <1>1
  <2> QED BY <2>1 DEF buildXrayChain, BindsHop
<1>8. rest \in Seq(XrayHop) /\ Len(rest) = (IF bridge THEN 1 ELSE 0) /\ (bridge => rest[1] = socks)
  <2> HIDE DEF socks
  <2>1. <<socks>> \in Seq(XrayHop) /\ Len(<<socks>>) = 1 /\ <<socks>>[1] = socks BY <1>4, OneLong
  <2> QED BY <2>1, EmptySeq
<1> HIDE DEF q, hops, rest, bridge
<1>9. /\ q \in Seq(XrayHop) /\ Len(q) = Len(xs) + (IF bridge THEN 1 ELSE 0) /\ DOMAIN q = 1 .. Len(q)
      /\ \A i \in 1 .. Len(xs) : q[i] = e(i)
      /\ bridge => q[Len(xs) + 1] = socks
  <2> HIDE DEF e, socks
  <2>1. /\ hops \o rest \in Seq(XrayHop) /\ Len(hops \o rest) = Len(hops) + Len(rest)
        /\ \A i \in 1 .. Len(hops) + Len(rest) :
             (hops \o rest)[i] = IF i <= Len(hops) THEN hops[i] ELSE rest[i - Len(hops)]
        BY <1>6, <1>8, ConcatProperties
  <2>2. DOMAIN q = 1 .. Len(q) BY <1>7, <2>1, LenProperties
  <2> DEFINE n == Len(xs)
             m == Len(rest)
  <2>3. n \in Nat /\ Len(hops) = n /\ m \in {0, 1} /\ (bridge <=> m = 1) BY <1>1, <1>6, <1>8
  <2>3a. \A i \in 1 .. n : hops[i] = e(i) BY <1>6
  <2>3b. bridge => rest[1] = socks BY <1>8
  <2> HIDE DEF n, m
  <2>4. \A i \in 1 .. n + m : (hops \o rest)[i] = IF i <= n THEN hops[i] ELSE rest[i - n]
    <3> HIDE DEF n, m
    <3> QED BY <2>1, <2>3 DEF m
  <2>5. \A i \in 1 .. n : q[i] = e(i)
    <3>1. \A i \in 1 .. n : i \in 1 .. n + m /\ i <= n BY <2>3
    <3> QED BY <1>7, <2>3a, <2>4, <3>1
  <2>6. bridge => q[n + 1] = socks
    <3> SUFFICES ASSUME bridge PROVE q[n + 1] = socks OBVIOUS
    <3> DEFINE k == n + 1
    <3>0. k = n + 1 OBVIOUS
    <3> HIDE DEF k
    <3>1. k \in 1 .. n + m /\ ~(k <= n) /\ k - n = 1 BY <2>3, <3>0
    <3>2. (hops \o rest)[k] = rest[k - n] BY <2>4, <3>1
    <3>3. (hops \o rest)[k] = rest[1] BY <3>1, <3>2
    <3> QED BY <1>7, <2>3b, <3>3 DEF k
  <2>7. Len(q) = n + (IF bridge THEN 1 ELSE 0) BY <1>7, <2>1, <2>3 DEF m
  <2> QED BY <1>7, <2>1, <2>2, <2>5, <2>6, <2>7 DEF n
<1>10. \A i \in 1 .. Len(xs) : IsXrayHop(q[i], c, xs, leave, interface, i)
  <2> SUFFICES ASSUME NEW i \in 1 .. Len(xs) PROVE IsXrayHop(q[i], c, xs, leave, interface, i)
    OBVIOUS
  <2> DEFINE t == tag(i)
             v == via(i)
             d == bind(i)
  <2>1. q[i] = [tag |-> t, hop |-> xs[i], port |-> 0, via |-> v, bind |-> d]
    <3> HIDE DEF socks
    <3> QED BY <1>9
  <2> HIDE DEF t, v, d
  <2>2. q[i].tag = t /\ q[i].hop = xs[i] /\ q[i].port = 0 /\ q[i].via = v /\ q[i].bind = d BY <2>1
  <2> QED BY <2>2 DEF t, v, d, IsXrayHop, bridge
<1>11. bridge => /\ q[Len(xs) + 1].tag = Tag(c.prefix, c.start + Len(xs))
                 /\ q[Len(xs) + 1].hop = "bridge" /\ q[Len(xs) + 1].port = leave.port
                 /\ q[Len(xs) + 1].via = NoTag
  <2> SUFFICES ASSUME bridge
               PROVE  /\ q[Len(xs) + 1].tag = Tag(c.prefix, c.start + Len(xs))
                      /\ q[Len(xs) + 1].hop = "bridge" /\ q[Len(xs) + 1].port = leave.port
                      /\ q[Len(xs) + 1].via = NoTag
    OBVIOUS
  <2> DEFINE t == Tag(c.prefix, c.start + Len(xs))
             last == q[Len(xs) + 1]
  <2>1. last = [tag |-> t, hop |-> "bridge", port |-> leave.port, via |-> NoTag, bind |-> Empty]
    <3>1. last = socks
      <4> HIDE DEF e, socks
      <4> QED BY <1>9
    <3> QED BY <3>1
  <2> HIDE DEF t, last
  <2>2. last.tag = t /\ last.hop = "bridge" /\ last.port = leave.port /\ last.via = NoTag BY <2>1
  <2> QED BY <2>2 DEF t, last
<1> QED BY <1>9, <1>10, <1>11 DEF q, bridge

(* The fields of a context and of a chain.                                 *)
LEMMA Fields ==
  /\ \A g \in Context :
       /\ g.ports \in Nat /\ g.sing \in Seq(SingHop) /\ g.xray \in Seq(XrayHop) /\ g.toXray \in Seq(Gate)
       /\ g.toSing \in Seq(Gate) /\ g.user \in UserConfig /\ g.groups \in Seq(Group) /\ g.error \in BOOLEAN
       /\ g.tun \in BOOLEAN /\ g.interface \in Devices
       /\ singToXrayPort(g) = g.ports + 1 /\ xrayToSingPort(g) = g.ports + 2 /\ userPort(g) = g.ports + 3
       /\ singToXrayPort(g) \in Nat \ {0} /\ xrayToSingPort(g) \in Nat \ {0} /\ userPort(g) \in Nat \ {0}
  /\ \A c \in ChainOf : /\ c.ids \in Seq(Ids) /\ c.prefix \in Lines /\ c.start \in Nat
                        /\ c.main \in BOOLEAN /\ c.link \in BOOLEAN /\ c.warp \in BOOLEAN
<1>1. \A g \in Context :
       /\ g.ports \in Nat /\ g.sing \in Seq(SingHop) /\ g.xray \in Seq(XrayHop) /\ g.toXray \in Seq(Gate)
       /\ g.toSing \in Seq(Gate) /\ g.user \in UserConfig /\ g.groups \in Seq(Group) /\ g.error \in BOOLEAN
       /\ g.tun \in BOOLEAN /\ g.interface \in Devices
       BY DEF Context
<1>2. \A g \in Context :
       /\ singToXrayPort(g) = g.ports + 1 /\ xrayToSingPort(g) = g.ports + 2 /\ userPort(g) = g.ports + 3
       BY DEF singToXrayPort, xrayToSingPort, userPort
<1>3. \A g \in Context :
       singToXrayPort(g) \in Nat \ {0} /\ xrayToSingPort(g) \in Nat \ {0} /\ userPort(g) \in Nat \ {0}
       BY <1>1, <1>2
<1>4. \A c \in ChainOf : /\ c.ids \in Seq(Ids) /\ c.prefix \in Lines /\ c.start \in Nat
                         /\ c.main \in BOOLEAN /\ c.link \in BOOLEAN /\ c.warp \in BOOLEAN
      BY DEF ChainOf, Lines
<1> QED BY <1>1, <1>2, <1>3, <1>4

LEMMA DialledFacts ==
  ASSUME NEW g \in Context, NEW ids \in Seq(Ids)
  PROVE  /\ Dialled(g, ids) \in Seq(Hop) /\ Len(Dialled(g, ids)) = Len(ids)
         /\ \A i \in 1 .. Len(ids) : Dialled(g, ids)[i].hop = ids[i]
<1> DEFINE port(i) == IF Kind(ids[i]) = "xrayfull" THEN userPort(g) ELSE 0
           d == Dialled(g, ids)
<1>1. Len(ids) \in Nat /\ DOMAIN ids = 1 .. Len(ids) /\ \A i \in 1 .. Len(ids) : ids[i] \in Ids BY LenProperties
<1>2. \A i \in 1 .. Len(ids) : port(i) \in Nat BY Fields
<1>3. d = [i \in 1 .. Len(ids) |-> [hop |-> ids[i], port |-> port(i)]] BY <1>1 DEF Dialled
<1> HIDE DEF port, d
<1>4. d \in [1 .. Len(ids) -> Hop] BY <1>1, <1>2, <1>3 DEF Hop
<1>5. d \in Seq(Hop) /\ Len(d) = Len(ids) BY <1>1, <1>4, SeqTyped
<1>6. \A i \in 1 .. Len(ids) : d[i].hop = ids[i] BY <1>3
<1> QED BY <1>5, <1>6 DEF d

(* What the hops before Xray and the bridge into it are.                   *)
LEMMA EntryFacts ==
  ASSUME NEW g \in Context, NEW ids \in Seq(Ids)
  PROVE  /\ entryHops(g, ids) \in Seq(Hop)
         /\ Len(entryHops(g, ids)) = Len(initialSingEnts(ids)) + (IF xrayAt(ids) = {} THEN 0 ELSE 1)
         /\ \A i \in 1 .. Len(initialSingEnts(ids)) : entryHops(g, ids)[i].hop = initialSingEnts(ids)[i]
<1> DEFINE p == Dialled(g, initialSingEnts(ids))
           bridge == [hop |-> "bridge", port |-> singToXrayPort(g)]
           q == IF xrayAt(ids) = {} THEN << >> ELSE <<bridge>>
<1>1. initialSingEnts(ids) \in Seq(Ids) BY Parts
<1>2. /\ p \in Seq(Hop) /\ Len(p) = Len(initialSingEnts(ids))
      /\ \A i \in 1 .. Len(p) : p[i].hop = initialSingEnts(ids)[i]
      BY <1>1, DialledFacts
<1>3. bridge \in Hop BY Fields DEF Hop
<1>4. q \in Seq(Hop) /\ Len(q) = IF xrayAt(ids) = {} THEN 0 ELSE 1
  <2> HIDE DEF bridge
  <2>1. <<bridge>> \in Seq(Hop) /\ Len(<<bridge>>) = 1 BY <1>3, OneLong
  <2> QED BY <2>1, EmptySeq
<1>5. entryHops(g, ids) = p \o q BY DEF entryHops
<1> HIDE DEF p, q
<1>6. p \o q \in Seq(Hop) /\ Len(p \o q) = Len(p) + Len(q) /\ \A i \in DOMAIN p : (p \o q)[i] = p[i]
  <2>1. p \in Seq(Hop) /\ q \in Seq(Hop) BY <1>2, <1>4
  <2> QED BY ONLY <2>1, ConcatFacts
<1>7. DOMAIN p = 1 .. Len(p) BY <1>2, LenProperties
<1> QED BY <1>2, <1>4, <1>5, <1>6, <1>7

LEMMA ExitFacts ==
  ASSUME NEW g \in Context, NEW ids \in Seq(Ids)
  PROVE  LET leave == xrayToSingBridge(g, ids)
         IN  /\ leave \in Exit
             /\ leave.by \in {"bridge", "loopback"} => leave.port = xrayToSingPort(g)
             /\ leave.by = "bridge" <=> xrayAt(ids) # {} /\ tailingSingEnts(ids) # << >>
             /\ leave.by = "loopback" <=>
                  xrayAt(ids) # {} /\ tailingSingEnts(ids) = << >> /\ g.interface = Empty /\ g.tun
             /\ leave.by = "interface" <=> xrayAt(ids) # {} /\ tailingSingEnts(ids) = << >> /\ g.interface # Empty
<1> DEFINE leave == xrayToSingBridge(g, ids)
           port == xrayToSingPort(g)
           Through == xrayAt(ids) # {}
           Back == tailingSingEnts(ids) # << >>
           Bound == g.interface # Empty
<1>1. port \in Nat BY Fields
<1>2. leave = CASE Through /\ Back -> [by |-> "bridge", port |-> port]
                [] Through /\ ~Back /\ Bound -> [by |-> "interface", port |-> 0]
                [] Through /\ ~Back /\ ~Bound /\ g.tun -> [by |-> "loopback", port |-> port]
                [] OTHER -> [by |-> "none", port |-> 0]
      BY DEF xrayToSingBridge
<1> HIDE DEF leave, port, Through, Back, Bound
<1>3. /\ leave.by \in {"bridge", "loopback", "interface", "none"} /\ leave.port \in {0, port}
      /\ leave = [by |-> leave.by, port |-> leave.port]
      /\ leave.by \in {"bridge", "loopback"} => leave.port = port
      /\ leave.by = "bridge" <=> Through /\ Back
      /\ leave.by = "loopback" <=> Through /\ ~Back /\ ~Bound /\ g.tun
      /\ leave.by = "interface" <=> Through /\ ~Back /\ Bound
  <2>1. CASE Through /\ Back
    <3>1. leave = [by |-> "bridge", port |-> port] BY <1>2, <2>1
    <3> QED BY <2>1, <3>1
  <2>2. CASE Through /\ ~Back /\ Bound
    <3>1. leave = [by |-> "interface", port |-> 0] BY <1>2, <2>2
    <3> QED BY <2>2, <3>1
  <2>3. CASE Through /\ ~Back /\ ~Bound /\ g.tun
    <3>1. leave = [by |-> "loopback", port |-> port] BY <1>2, <2>3
    <3> QED BY <2>3, <3>1
  <2>4. CASE ~Through \/ (~Back /\ ~Bound /\ ~g.tun)
    <3>1. leave = [by |-> "none", port |-> 0] BY <1>2, <2>4
    <3> QED BY <2>4, <3>1
  <2> QED BY <2>1, <2>2, <2>3, <2>4
<1>4. leave \in Exit BY <1>1, <1>3 DEF Exit
<1> QED BY <1>3, <1>4 DEF leave, port, Through, Back, Bound

(* What stands in the list of a concatenation, its tags and its values.    *)
LEMMA ConcatSets ==
  ASSUME NEW S, NEW p \in Seq(S), NEW q \in Seq(S)
  PROVE  /\ p \o q \in Seq(S) /\ ToSet(p \o q) = ToSet(p) \cup ToSet(q) /\ Tags(p \o q) = Tags(p) \cup Tags(q)
         /\ Unique(p) /\ Unique(q) /\ Tags(p) \cap Tags(q) = {} => Unique(p \o q)
<1> DEFINE c == p \o q
           n == Len(p)
<1>1. /\ \A i \in DOMAIN p : i \in DOMAIN c /\ c[i] = p[i]
      /\ \A i \in DOMAIN q : n + i \in DOMAIN c /\ c[n + i] = q[i]
      /\ \A i \in DOMAIN c : \/ i \in DOMAIN p /\ c[i] = p[i]
                             \/ i - n \in DOMAIN q /\ c[i] = q[i - n]
      BY ConcatFacts
<1>2. DOMAIN c \subseteq Int /\ n \in Int
  <2>1. DOMAIN c = 1 .. Len(p) + Len(q) /\ n \in Nat BY ConcatFacts, LenProperties
  <2> QED BY <2>1
<1> HIDE DEF c, n
<1>3. ToSet(c) = ToSet(p) \cup ToSet(q) BY <1>1 DEF ToSet
<1>4. Tags(c) = Tags(p) \cup Tags(q) BY <1>1 DEF Tags
<1>5. ASSUME Unique(p), Unique(q), Tags(p) \cap Tags(q) = {}, NEW i \in DOMAIN c, NEW j \in DOMAIN c,
             c[i].tag = c[j].tag
      PROVE  i = j
  <2>1. CASE i \in DOMAIN p /\ c[i] = p[i] /\ j \in DOMAIN p /\ c[j] = p[j] BY <1>5, <2>1 DEF Unique
  <2>2. CASE i - n \in DOMAIN q /\ c[i] = q[i - n] /\ j - n \in DOMAIN q /\ c[j] = q[j - n]
    <3>1. i - n = j - n BY <1>5, <2>2 DEF Unique
    <3> QED BY <1>2, <3>1
  <2>3. CASE i \in DOMAIN p /\ c[i] = p[i] /\ j - n \in DOMAIN q /\ c[j] = q[j - n]
    <3>1. c[i].tag \in Tags(p) /\ c[j].tag \in Tags(q) BY <2>3 DEF Tags
    <3> QED BY <1>5, <3>1
  <2>4. CASE i - n \in DOMAIN q /\ c[i] = q[i - n] /\ j \in DOMAIN p /\ c[j] = p[j]
    <3>1. c[i].tag \in Tags(q) /\ c[j].tag \in Tags(p) BY <2>4 DEF Tags
    <3> QED BY <1>5, <3>1
  <2> QED BY <1>1, <2>1, <2>2, <2>3, <2>4
<1>6. Unique(p) /\ Unique(q) /\ Tags(p) \cap Tags(q) = {} => Unique(c) BY <1>5 DEF Unique
<1>7. c \in Seq(S) BY ConcatFacts DEF c
<1> QED BY <1>3, <1>4, <1>6, <1>7 DEF c

Numbers(prefix) == {Tag(prefix, n) : n \in Nat}

(* The pieces of a chain are lists of outbounds.                           *)
LEMMA Pieces ==
  ASSUME NEW g \in Context, NEW c \in ChainOf
  PROVE  /\ firstSing(g, c) \in Seq(SingHop) /\ Len(firstSing(g, c)) = Len(entryHops(g, c.ids))
         /\ lastSing(g, c) \in Seq(SingHop) /\ Len(lastSing(g, c)) = Len(tailingSingEnts(c.ids))
         /\ xrayHops(g, c) \in Seq(XrayHop)
         /\ xrayAt(c.ids) # {} => xrayHops(g, c) # << >>
         /\ xrayAt(c.ids) = {} => xrayHops(g, c) = << >>
<1>1. c.ids \in Seq(Ids) /\ c.start \in Nat /\ g.interface \in Devices BY Fields
<1>2. entryHops(g, c.ids) \in Seq(Hop) BY <1>1, EntryFacts
<1>3. firstSing(g, c) \in Seq(SingHop) /\ Len(firstSing(g, c)) = Len(entryHops(g, c.ids))
      BY <1>1, <1>2, SingChain DEF firstSing
<1>4. Dialled(g, tailingSingEnts(c.ids)) \in Seq(Hop)
      /\ Len(Dialled(g, tailingSingEnts(c.ids))) = Len(tailingSingEnts(c.ids))
  <2>1. tailingSingEnts(c.ids) \in Seq(Ids) BY <1>1, Parts
  <2> QED BY <2>1, DialledFacts
<1>5. TailStart(c, entryHops(g, c.ids)) \in Nat
  <2>1. Len(entryHops(g, c.ids)) \in Nat BY <1>2, LenProperties
  <2> QED BY <1>1, <2>1 DEF TailStart
<1>6. lastSing(g, c) \in Seq(SingHop) /\ Len(lastSing(g, c)) = Len(tailingSingEnts(c.ids))
      BY <1>4, <1>5, SingChain DEF lastSing
<1>7. xrayEnts(c.ids) \in Seq(Ids) /\ xrayToSingBridge(g, c.ids) \in Exit BY <1>1, Parts, ExitFacts
<1> DEFINE q == buildXrayChain(c, xrayEnts(c.ids), xrayToSingBridge(g, c.ids), g.interface)
<1>8. q \in Seq(XrayHop) /\ Len(q) >= Len(xrayEnts(c.ids))
  <2>1. Len(xrayEnts(c.ids)) \in Nat BY <1>7, LenProperties
  <2>2. \/ Len(q) = Len(xrayEnts(c.ids)) + 1
        \/ Len(q) = Len(xrayEnts(c.ids)) + 0
        BY <1>1, <1>7, XrayChain
  <2>3. q \in Seq(XrayHop) BY <1>1, <1>7, XrayChain
  <2> HIDE DEF q
  <2> QED BY <2>1, <2>2, <2>3
<1> HIDE DEF q
<1>9. xrayHops(g, c) = IF xrayAt(c.ids) = {} THEN << >> ELSE q BY DEF xrayHops, q
<1>10. ASSUME xrayAt(c.ids) # {} PROVE q # << >>
  <2>1. PICK a, b \in 1 .. Len(c.ids) : a <= b /\ Len(xrayEnts(c.ids)) = b - a + 1 BY <1>1, <1>10, Parts
  <2>2. Len(xrayEnts(c.ids)) > 0 BY <2>1
  <2> QED BY <1>8, <2>2
<1> QED BY <1>3, <1>6, <1>8, <1>9, <1>10, EmptySeq

(* Xray's outbounds for a chain: named, dialled and left as they should be. *)
XraySound(o, tun) ==
  /\ o.tag # <<"direct">> /\ o.via # <<"direct">>
  /\ tun => o.via # NoTag \/ o.port # 0 \/ o.bind # Empty

LEMMA XrayPieces ==
  ASSUME NEW g \in Context, NEW c \in ChainOf, c.link \/ Len(c.ids) <= 1
  PROVE  \A o \in ToSet(xrayHops(g, c)) : XraySound(o, g.tun) /\ o.hop \in ToSet(c.ids) \cup {"bridge"}
<1>1. CASE xrayAt(c.ids) = {}
  <2>1. ToSet(xrayHops(g, c)) = {} BY <1>1 DEF xrayHops, ToSet
  <2> QED BY <2>1
<1>2. CASE xrayAt(c.ids) # {}
  <2> DEFINE ids == c.ids
             xs == xrayEnts(ids)
             leave == xrayToSingBridge(g, ids)
             q == buildXrayChain(c, xs, leave, g.interface)
             bridge == leave.by \in {"bridge", "loopback"}
  <2>1. ids \in Seq(Ids) /\ c.start \in Nat /\ c.prefix \in Lines /\ g.interface \in Devices
        /\ g.tun \in BOOLEAN /\ xrayToSingPort(g) # 0
        BY Fields
  <2>2. /\ leave \in Exit /\ (bridge => leave.port # 0)
        /\ bridge \/ leave.by = "interface" \/ (g.interface = Empty /\ ~g.tun)
        /\ leave.by = "interface" => g.interface # Empty
    <3> HIDE DEF ids
    <3> QED BY <1>2, <2>1, ExitFacts DEF ids
  <2>3. PICK a, b \in 1 .. Len(ids) :
          /\ a <= b /\ Len(xs) = b - a + 1 /\ \A i \in 1 .. b - a + 1 : xs[i] = ids[a + i - 1]
    <3> HIDE DEF ids
    <3> QED BY <1>2, <2>1, Parts DEF ids
  <2>4. Len(ids) \in Nat /\ DOMAIN ids = 1 .. Len(ids) BY <2>1, LenProperties
  <2>5. xs \in Seq(Ids) BY <2>1, Parts
  <2>6. /\ q \in Seq(XrayHop) /\ Len(q) = Len(xs) + (IF bridge THEN 1 ELSE 0) /\ DOMAIN q = 1 .. Len(q)
        /\ \A i \in 1 .. Len(xs) : IsXrayHop(q[i], c, xs, leave, g.interface, i)
        /\ bridge => /\ q[Len(xs) + 1].tag = Tag(c.prefix, c.start + Len(xs))
                     /\ q[Len(xs) + 1].hop = "bridge" /\ q[Len(xs) + 1].port = leave.port
                     /\ q[Len(xs) + 1].via = NoTag
    <3> HIDE DEF ids, xs, leave
    <3> QED BY <2>1, <2>2, <2>5, XrayChain
  <2>7. xrayHops(g, c) = q BY <1>2 DEF xrayHops
  <2>8. <<"direct">> \in Singles /\ <<"proxy">> # <<"direct">> /\ NoTag # <<"direct">>
        BY Plainly DEF Singles, NoTag
  <2> HIDE DEF ids, xs, leave, q, bridge
  <2>9. \A n \in Nat : Tag(c.prefix, n) # <<"direct">> /\ Tag(c.prefix, n) # NoTag BY <2>1, <2>8, Numbered
  <2>10. ASSUME NEW i \in 1 .. Len(xs)
         PROVE  XraySound(q[i], g.tun) /\ q[i].hop \in ToSet(ids) \cup {"bridge"}
    <3>1. i \in 1 .. b - a + 1 /\ a + i - 1 \in 1 .. Len(ids) /\ c.start + i - 1 \in Nat /\ c.start + i \in Nat
          BY <2>1, <2>3, <2>4
    <3>0. /\ q[i].tag = IF c.main /\ i = 1 THEN <<"proxy">> ELSE Tag(c.prefix, c.start + i - 1)
          /\ q[i].via = IF (i < Len(xs) /\ c.link) \/ bridge THEN Tag(c.prefix, c.start + i) ELSE NoTag
          /\ q[i].bind = IF leave.by = "interface" /\ i = Len(xs) THEN g.interface ELSE Empty
          /\ q[i].hop = xs[i]
          BY <2>6 DEF IsXrayHop, bridge
    <3>2. q[i].hop \in ToSet(ids)
      <4>1. q[i].hop = xs[i] BY <3>0
      <4>2. xs[i] = ids[a + i - 1] /\ a + i - 1 \in DOMAIN ids BY <2>3, <2>4, <3>1
      <4> QED BY <4>1, <4>2, Zenon DEF ToSet
    <3>3. q[i].tag # <<"direct">> /\ q[i].via # <<"direct">>
      <4> QED BY <2>8, <2>9, <3>0, <3>1
    <3>4. bridge => q[i].via # NoTag BY <2>9, <3>0, <3>1
    <3>5. ASSUME leave.by = "interface" PROVE q[i].via # NoTag \/ q[i].bind # Empty
      <4>1. CASE i = Len(xs) BY <2>2, <3>0, <3>5, <4>1
      <4>2. CASE i # Len(xs)
        <5>1. i < Len(xs) /\ Len(ids) > 1 BY <2>3, <2>4, <4>2
        <5>2. c.link BY <2>4, <5>1 DEF ids
        <5> QED BY <2>9, <3>0, <3>1, <5>1, <5>2
      <4> QED BY <4>1, <4>2
    <3> QED BY <2>2, <3>2, <3>3, <3>4, <3>5 DEF XraySound
  <2>11. bridge => XraySound(q[Len(xs) + 1], g.tun) /\ q[Len(xs) + 1].hop = "bridge"
    <3>1. c.start + Len(xs) \in Nat BY <2>1, <2>5, LenProperties
    <3> QED BY <2>2, <2>6, <2>8, <2>9, <3>1 DEF XraySound
  <2>12. ASSUME NEW i \in DOMAIN q
         PROVE  XraySound(q[i], g.tun) /\ q[i].hop \in ToSet(ids) \cup {"bridge"}
    <3>1. Len(xs) \in Nat BY <2>5, LenProperties
    <3>2. i \in 1 .. Len(xs) \/ (bridge /\ i = Len(xs) + 1) BY <2>6, <3>1
    <3> QED BY <2>10, <2>11, <3>2
  <2> QED BY <2>7, <2>12 DEF ids, ToSet
<1> QED BY <1>1, <1>2

LEMMA BackFacts ==
  ASSUME NEW g \in Context, NEW c \in ChainOf
  PROVE  /\ backFromXray(g, c) \in Seq(Gate)
         /\ watchTag(c, lastSing(g, c)) \in Words
         /\ lastSing(g, c) # << >> => lastSing(g, c)[1].tag \in Words
<1>1. c.ids \in Seq(Ids) /\ c.start \in Nat /\ xrayToSingPort(g) \in Nat BY Fields
<1>2. lastSing(g, c) \in Seq(SingHop) /\ Len(lastSing(g, c)) = Len(tailingSingEnts(c.ids)) BY Pieces
<1>3. lastSing(g, c) # << >> => lastSing(g, c)[1].tag \in Words
  <2> SUFFICES ASSUME lastSing(g, c) # << >> PROVE lastSing(g, c)[1].tag \in Words OBVIOUS
  <2>1. lastSing(g, c)[1] \in SingHop BY <1>2
  <2> QED BY <2>1 DEF SingHop
<1>4. <<"xray-direct">> \in Words /\ <<"proxy">> \in Words BY Plainly DEF Singles
<1>5. watchTag(c, lastSing(g, c)) \in Words
  <2>1. Tag(c.prefix, c.start) \in Words BY <1>1, ChainTags
  <2> QED BY <1>3, <1>4, <2>1 DEF watchTag
<1> DEFINE leave == xrayToSingBridge(g, c.ids)
           tag == lastSing(g, c)[1].tag
           port == xrayToSingPort(g)
           back == [port |-> port, outbound |-> tag]
           loop == [port |-> port, outbound |-> <<"xray-direct">>]
<1>6. /\ leave.by = "bridge" => backFromXray(g, c) = <<back>>
      /\ leave.by = "loopback" => backFromXray(g, c) = <<loop>>
      /\ leave.by \notin {"bridge", "loopback"} => backFromXray(g, c) = << >>
      BY DEF backFromXray
<1>7. leave.by = "bridge" => back \in Gate
  <2> SUFFICES ASSUME leave.by = "bridge" PROVE back \in Gate OBVIOUS
  <2>1. tailingSingEnts(c.ids) # << >> /\ tailingSingEnts(c.ids) \in Seq(Ids) BY <1>1, ExitFacts, Parts
  <2>2. lastSing(g, c) # << >> BY <1>2, <2>1
  <2>3. tag \in Words BY <1>3, <2>2
  <2> HIDE DEF tag, port
  <2> QED BY <1>1, <2>3 DEF Gate, port
<1>8. loop \in Gate BY <1>1, <1>4 DEF Gate
<1> HIDE DEF leave, back, loop
<1>9. backFromXray(g, c) \in Seq(Gate)
  <2>1. CASE leave.by = "bridge" BY <1>6, <1>7, <2>1, OneLong
  <2>2. CASE leave.by = "loopback" BY <1>6, <1>8, <2>2, OneLong
  <2>3. CASE leave.by \notin {"bridge", "loopback"} BY <1>6, <2>3, EmptySeq
  <2> QED BY <2>1, <2>2, <2>3
<1> QED BY <1>3, <1>5, <1>9

(* What a chain adds to a context.                                         *)
toXrayOf(g, c) ==
  IF xrayAt(c.ids) = {} THEN << >> ELSE <<[port |-> singToXrayPort(g), outbound |-> xrayHops(g, c)[1].tag]>>
groupOf(g, c) ==
  IF c.ids = << >> THEN << >>
  ELSE <<[watch |-> watchTag(c, lastSing(g, c)), profiles |-> ToSet(c.ids) \ {"warp"}]>>

LEMMA AddedFacts ==
  ASSUME NEW g \in Context, NEW c \in ChainOf
  PROVE  toXrayOf(g, c) \in Seq(Gate) /\ groupOf(g, c) \in Seq(Group)
<1>1. c.ids \in Seq(Ids) /\ singToXrayPort(g) \in Nat BY Fields
<1>2. xrayHops(g, c) \in Seq(XrayHop) /\ (xrayAt(c.ids) # {} => xrayHops(g, c) # << >>) BY Pieces
<1>3. toXrayOf(g, c) \in Seq(Gate)
  <2>1. CASE xrayAt(c.ids) = {} BY <2>1, EmptySeq DEF toXrayOf
  <2>2. CASE xrayAt(c.ids) # {}
    <3> DEFINE tag == xrayHops(g, c)[1].tag
               gate == [port |-> singToXrayPort(g), outbound |-> tag]
    <3>1. xrayHops(g, c)[1] \in XrayHop BY <1>2, <2>2
    <3>2. tag \in Words BY <3>1 DEF XrayHop
    <3>3. gate \in Gate
      <4> HIDE DEF tag
      <4> QED BY <1>1, <3>2 DEF Gate
    <3>4. toXrayOf(g, c) = <<gate>> BY <2>2 DEF toXrayOf
    <3> HIDE DEF gate
    <3> QED BY <3>3, <3>4, OneLong
  <2> QED BY <2>1, <2>2
<1>4. groupOf(g, c) \in Seq(Group)
  <2>1. CASE c.ids = << >> BY <2>1, EmptySeq DEF groupOf
  <2>2. CASE c.ids # << >>
    <3> DEFINE tag == watchTag(c, lastSing(g, c))
               of == ToSet(c.ids) \ {"warp"}
               group == [watch |-> tag, profiles |-> of]
    <3>1. tag \in Words BY BackFacts
    <3>2. of \in SUBSET DOMAIN Profile
      <4>1. \A i \in DOMAIN c.ids : c.ids[i] \in Ids BY <1>1
      <4> QED BY <4>1 DEF ToSet, Ids
    <3>3. group \in Group
      <4> HIDE DEF tag, of
      <4> QED BY <3>1, <3>2 DEF Group
    <3>4. groupOf(g, c) = <<group>> BY <2>2 DEF groupOf
    <3> HIDE DEF group
    <3> QED BY <3>3, <3>4, OneLong
  <2> QED BY <2>1, <2>2
<1> QED BY <1>3, <1>4

LEMMA ChainBuilt ==
  ASSUME NEW live, NEW g \in Context, NEW c \in ChainOf, ~g.error, entIDListtoEntList(live, c.ids)
  PROVE  LET h == buildOutboundChain(live, g, c)
         IN  /\ h \in Context /\ ~h.error /\ h.ports = g.ports + 3
             /\ h.tun = g.tun /\ h.interface = g.interface
             /\ h.sing = g.sing \o firstSing(g, c) \o lastSing(g, c)
             /\ h.xray = g.xray \o xrayHops(g, c)
             /\ h.toXray = g.toXray \o toXrayOf(g, c)
             /\ h.toSing = g.toSing \o backFromXray(g, c)
             /\ h.groups = g.groups \o groupOf(g, c)
<1> DEFINE h == buildOutboundChain(live, g, c)
           ports == userPort(g)
           sing == g.sing \o firstSing(g, c) \o lastSing(g, c)
           xray == g.xray \o xrayHops(g, c)
           toXray == g.toXray \o toXrayOf(g, c)
           toSing == g.toSing \o backFromXray(g, c)
           user == IF c.ids # << >> /\ Kind(Last(c.ids)) = "xrayfull" THEN UserXray(userPort(g)) ELSE g.user
           groups == g.groups \o groupOf(g, c)
<1>1. h = [g EXCEPT !.ports = ports, !.sing = sing, !.xray = xray, !.toXray = toXray, !.toSing = toSing,
                    !.user = user, !.groups = groups]
      BY Zenon DEF buildOutboundChain, toXrayOf, groupOf
<1>2. ports = g.ports + 3 /\ ports \in Nat BY Fields
<1>3. sing \in Seq(SingHop)
  <2>1. g.sing \in Seq(SingHop) /\ firstSing(g, c) \in Seq(SingHop) /\ lastSing(g, c) \in Seq(SingHop)
        BY Fields, Pieces
  <2>2. g.sing \o firstSing(g, c) \in Seq(SingHop) BY <2>1, ConcatProperties
  <2> QED BY <2>1, <2>2, ConcatProperties
<1>4. xray \in Seq(XrayHop)
  <2>1. g.xray \in Seq(XrayHop) /\ xrayHops(g, c) \in Seq(XrayHop) BY Fields, Pieces
  <2> QED BY <2>1, ConcatProperties
<1>5. toXray \in Seq(Gate) /\ toSing \in Seq(Gate)
  <2>1. /\ g.toXray \in Seq(Gate) /\ g.toSing \in Seq(Gate) /\ toXrayOf(g, c) \in Seq(Gate)
        /\ backFromXray(g, c) \in Seq(Gate)
        BY Fields, BackFacts, AddedFacts
  <2> QED BY <2>1, ConcatProperties
<1>6. groups \in Seq(Group)
  <2>1. g.groups \in Seq(Group) /\ groupOf(g, c) \in Seq(Group) BY Fields, AddedFacts
  <2> QED BY <2>1, ConcatProperties
<1>7. user \in UserConfig
  <2>1. g.user \in UserConfig /\ userPort(g) \in Nat BY Fields
  <2>2. UserXray(userPort(g)) \in UserConfig BY <2>1, Zenon DEF UserConfig
  <2> HIDE DEF user
  <2>3. user = UserXray(userPort(g)) \/ user = g.user BY DEF user
  <2> QED BY <2>1, <2>2, <2>3
<1> HIDE DEF h, ports, sing, xray, toXray, toSing, user, groups
<1>8. h \in Context BY <1>1, <1>2, <1>3, <1>4, <1>5, <1>6, <1>7 DEF Context
<1>9. g = [ports |-> g.ports, sing |-> g.sing, xray |-> g.xray, toXray |-> g.toXray, toSing |-> g.toSing,
           user |-> g.user, groups |-> g.groups, error |-> g.error, tun |-> g.tun, interface |-> g.interface]
      BY DEF Context
<1>10. /\ h.error = g.error /\ h.ports = ports /\ h.tun = g.tun /\ h.interface = g.interface /\ h.sing = sing
       /\ h.xray = xray /\ h.toXray = toXray /\ h.toSing = toSing /\ h.groups = groups
       BY <1>1, <1>9
<1> QED BY <1>2, <1>8, <1>10 DEF h, sing, xray, toXray, toSing, groups

(* A chain that is refused, and a context that was, give only an error.    *)
LEMMA ChainRefused ==
  ASSUME NEW live, NEW g \in Context, NEW c \in ChainOf, g.error \/ ~entIDListtoEntList(live, c.ids)
  PROVE  LET h == buildOutboundChain(live, g, c) IN h \in Context /\ h.error
<1>1. buildOutboundChain(live, g, c) = [g EXCEPT !.error = TRUE] BY DEF buildOutboundChain, Refuse
<1> QED BY <1>1 DEF Context

LEMMA WrappedFacts ==
  ASSUME NEW g \in Context, NEW id \in DOMAIN Profile
  PROVE  LET h == Wrapped(g, id)
         IN  /\ h \in Context /\ h.error = g.error /\ h.ports = g.ports /\ h.sing = g.sing /\ h.xray = g.xray
             /\ h.toXray = g.toXray /\ h.toSing = g.toSing /\ h.user = g.user /\ h.tun = g.tun
             /\ h.interface = g.interface
<1>1. CASE g.error \/ g.groups = << >> \/ Kind(id) # "chain" BY <1>1 DEF Wrapped
<1>2. CASE ~(g.error \/ g.groups = << >> \/ Kind(id) # "chain")
  <2> DEFINE n == Len(g.groups)
             last == [g.groups[n] EXCEPT !.profiles = @ \cup {id}]
             groups == [g.groups EXCEPT ![n] = last]
             h == Wrapped(g, id)
  <2>1. h = [g EXCEPT !.groups = groups] BY <1>2, Zenon DEF Wrapped
  <2>2. groups \in Seq(Group)
    <3>1. g.groups \in Seq(Group) /\ g.groups # << >> BY <1>2, Fields
    <3>2. n \in 1 .. Len(g.groups) /\ g.groups[n] \in Group BY <3>1
    <3>3. last \in Group BY <3>2 DEF Group
    <3> HIDE DEF last, n
    <3> QED BY <3>1, <3>2, <3>3
  <2> HIDE DEF groups, h
  <2>3. h \in Context BY <2>1, <2>2 DEF Context
  <2>4. g = [ports |-> g.ports, sing |-> g.sing, xray |-> g.xray, toXray |-> g.toXray, toSing |-> g.toSing,
             user |-> g.user, groups |-> g.groups, error |-> g.error, tun |-> g.tun, interface |-> g.interface]
        BY DEF Context
  <2>5. /\ h.error = g.error /\ h.ports = g.ports /\ h.sing = g.sing /\ h.xray = g.xray
        /\ h.toXray = g.toXray /\ h.toSing = g.toSing /\ h.user = g.user /\ h.tun = g.tun
        /\ h.interface = g.interface
        BY <2>1, <2>4
  <2> QED BY <2>3, <2>5 DEF h
<1> QED BY <1>1, <1>2

-----------------------------------------------------------------------------
(* The chains of a start: that of the profile and those of the rules.      *)

Profiles == DOMAIN Profile

LEMMA ReverseFacts ==
  ASSUME NEW S, NEW list \in Seq(S)
  PROVE  Reverse(list) \in Seq(S) /\ Len(Reverse(list)) = Len(list) /\ ToSet(Reverse(list)) = ToSet(list)
<1> DEFINE n == Len(list)
           back == Reverse(list)
<1>1. n \in Nat /\ DOMAIN list = 1 .. n /\ \A i \in 1 .. n : list[i] \in S BY LenProperties
<1>2. back = [i \in 1 .. n |-> list[(n - i) + 1]] BY DEF Reverse
<1> HIDE DEF n, back
<1>3. \A i \in 1 .. n : (n - i) + 1 \in 1 .. n /\ (n - ((n - i) + 1)) + 1 = i BY <1>1
<1>4. back \in [1 .. n -> S] BY <1>1, <1>2, <1>3
<1>5. back \in Seq(S) /\ Len(back) = n /\ DOMAIN back = 1 .. n BY <1>1, <1>4, SeqTyped
<1>6. \A i \in 1 .. n : back[i] = list[(n - i) + 1] BY <1>2
<1>7. ASSUME NEW x PROVE x \in ToSet(back) <=> x \in ToSet(list)
  <2>1. ASSUME NEW i \in 1 .. n PROVE back[i] \in ToSet(list) BY <1>1, <1>3, <1>6 DEF ToSet
  <2>2. ASSUME NEW i \in 1 .. n PROVE list[i] \in ToSet(back)
    <3> DEFINE j == (n - i) + 1
    <3>1. j \in 1 .. n /\ (n - j) + 1 = i BY <1>3
    <3> HIDE DEF j
    <3>2. back[j] = list[i] BY <1>6, <3>1
    <3> QED BY <1>5, <3>1, <3>2 DEF ToSet
  <2>3. ToSet(back) = {back[i] : i \in 1 .. n} /\ ToSet(list) = {list[i] : i \in 1 .. n} BY <1>1, <1>5 DEF ToSet
  <2>4. x \in ToSet(back) => \E i \in 1 .. n : x = back[i] BY <2>3
  <2>5. x \in ToSet(list) => \E i \in 1 .. n : x = list[i] BY <2>3
  <2> QED BY <2>1, <2>2, <2>4, <2>5
<1>8. ToSet(back) = ToSet(list) BY <1>7
<1> QED BY <1>5, <1>8 DEF n, back

LEMMA ProfileFacts ==
  /\ \A p \in Profiles : /\ Profile[p].kind \in Kinds /\ Profile[p].domain \in STRING /\ Profile[p].list \in Seq(Profiles)
                         /\ p \in Ids /\ p # "warp" /\ p # "bridge" /\ p # None /\ p # Empty /\ p \notin Predefined
                         /\ Kind(p) = Profile[p].kind
  /\ Main \cup Helpers \cup Deletable \subseteq Profiles
<1>1. \A p \in Profiles : Profile[p] \in [kind : Kinds, domain : STRING, list : Seq(Profiles)]
      BY ProfileAssumption DEF Profiles
<1>2. \A x \in [kind : Kinds, domain : STRING, list : Seq(Profiles)] :
        x.kind \in Kinds /\ x.domain \in STRING /\ x.list \in Seq(Profiles)
      OBVIOUS
<1>3. \A p \in Profiles : p \in Ids /\ p # "warp" /\ p # "bridge" /\ p # None /\ p # Empty /\ p \notin Predefined
      BY ProfileAssumption, Zenon DEF Profiles, Ids
<1>4. \A p \in Profiles : Kind(p) = Profile[p].kind BY <1>3 DEF Kind
<1>5. Main \cup Helpers \cup Deletable \subseteq Profiles BY ProfileAssumption DEF Profiles
<1> QED BY <1>1, <1>2, <1>3, <1>4, <1>5

LEMMA HopsFacts ==
  ASSUME NEW id \in Profiles
  PROVE  /\ Hops(id) \in Seq(Profiles)
         /\ Kind(id) = "chain" => Len(Hops(id)) = Len(Profile[id].list) /\ ToSet(Hops(id)) = ToSet(Profile[id].list)
         /\ Kind(id) # "chain" => Hops(id) = <<id>> /\ ToSet(Hops(id)) = {id}
<1>1. CASE Kind(id) = "chain"
  <2>1. Profile[id].list \in Seq(Profiles) BY ProfileFacts
  <2> QED BY <1>1, <2>1, ReverseFacts DEF Hops
<1>2. CASE Kind(id) # "chain"
  <2>1. Hops(id) = <<id>> BY <1>2 DEF Hops
  <2>2. <<id>> \in Seq(Profiles) /\ ToSet(<<id>>) = {id} BY OneLong DEF ToSet
  <2> QED BY <1>2, <2>1, <2>2
<1> QED BY <1>1, <1>2

LEMMA OptFacts ==
  ASSUME NEW p \in Profiles \cup {None}
  PROVE  Opt(p) \in Seq(Profiles) /\ ToSet(Opt(p)) = {p} \ {None}
<1>1. CASE p = None BY <1>1, EmptySeq DEF Opt, ToSet
<1>2. CASE p # None
  <2>1. Opt(p) = <<p>> BY <1>2 DEF Opt
  <2>2. p \in Profiles BY <1>2
  <2>3. <<p>> \in Seq(Profiles) /\ ToSet(<<p>>) = {p} BY <2>2, OneLong DEF ToSet
  <2> QED BY <1>2, <2>1, <2>3
<1> QED BY <1>1, <1>2

SettingsFacts(s) ==
  /\ s.tun \in BOOLEAN /\ s.interface \in STRING /\ s.warp \in BOOLEAN /\ s.fake \in BOOLEAN /\ s.direct \in BOOLEAN
  /\ s.hijack \subseteq STRING /\ "*" \notin s.hijack /\ s.routing \in BOOLEAN /\ s.adblock \in BOOLEAN
LEMMA SettingsType == \A s \in Settings : SettingsFacts(s)
BY SettingsAssumption DEF SettingsFacts

RouteFacts(r) ==
  /\ r.rules \in Seq(RoutingRule) /\ r.final \in Outbounds /\ r.raw \in BOOLEAN /\ r.prevent \in BOOLEAN
  /\ r.own \subseteq STRING
  /\ ~r.raw => r.final \in Predefined
  /\ \A i \in DOMAIN r.rules : r.rules[i].action = "route" => r.rules[i].outbound # Empty
LEMMA RoutesType == \A r \in Routes : RouteFacts(r)
BY RoutesAssumption DEF RouteFacts

Groups == front \in Profiles \cup {None} /\ landing \in Profiles \cup {None}

(* The chain of the profile that is started.                               *)
LEMMA MainFacts ==
  ASSUME NEW s \in Settings, NEW id \in Profiles, Groups
  PROVE  /\ MainChain(s, id) \in ChainOf /\ MainChain(s, id).link
         /\ ToSet(MainChain(s, id).ids) \subseteq {"warp", front, landing} \cup ToSet(Hops(id))
         /\ ToSet(Hops(id)) \subseteq ToSet(MainChain(s, id).ids)
<1> DEFINE w == Whenever(s.warp, <<"warp">>)
           l == Opt(landing)
           h == Hops(id)
           f == Opt(front)
           ids == w \o l \o h \o f
           c == MainChain(s, id)
<1>1. s.warp \in BOOLEAN BY SettingsType DEF SettingsFacts
<1>2. Profiles \subseteq Ids /\ "warp" \in Ids BY DEF Profiles, Ids
<1>3. w \in Seq(Ids) /\ ToSet(w) \subseteq {"warp"}
  <2>1. <<"warp">> \in Seq(Ids) /\ ToSet(<<"warp">>) = {"warp"} BY <1>2, OneLong DEF ToSet
  <2>2. << >> \in Seq(Ids) /\ ToSet(<< >>) = {} BY EmptySeq DEF ToSet
  <2> QED BY <2>1, <2>2 DEF Whenever
<1>4. l \in Seq(Profiles) /\ ToSet(l) \subseteq {landing} /\ f \in Seq(Profiles) /\ ToSet(f) \subseteq {front}
      BY OptFacts DEF Groups
<1>5. h \in Seq(Profiles) BY HopsFacts
<1> HIDE DEF w, l, h, f
<1>6. l \in Seq(Ids) /\ h \in Seq(Ids) /\ f \in Seq(Ids) BY <1>2, <1>4, <1>5
<1>7. w \o l \in Seq(Ids) /\ ToSet(w \o l) = ToSet(w) \cup ToSet(l) BY <1>3, <1>6, ConcatSets
<1> DEFINE wl == w \o l
           wlh == wl \o h
<1>7a. wl \in Seq(Ids) /\ wl = w \o l /\ wlh = wl \o h BY <1>7
<1> HIDE DEF wl, wlh
<1>8. wlh \in Seq(Ids) /\ ToSet(wlh) = ToSet(wl) \cup ToSet(h)  <2>1. wl \in Seq(Ids) /\ h \in Seq(Ids) BY <1>6, <1>7a
  <2>2. wl \o h \in Seq(Ids) /\ ToSet(wl \o h) = ToSet(wl) \cup ToSet(h) BY ONLY <2>1, ConcatSets
  <2>3. wlh = wl \o h BY <1>7a
  <2> QED BY ONLY <2>2, <2>3
<1>8a. ids = wlh \o f BY <1>7a DEF wlh, wl
<1> HIDE DEF ids
<1>9. ids \in Seq(Ids) /\ ToSet(ids) = ToSet(wlh) \cup ToSet(f) BY <1>6, <1>8, <1>8a, ConcatSets
<1>10. c = [ids |-> ids, prefix |-> <<"config">>, start |-> 0, main |-> TRUE, link |-> TRUE, warp |-> s.warp]
       BY DEF MainChain, w, l, h, f, ids
<1> HIDE DEF c
<1>11. c \in ChainOf /\ c.link /\ c.ids = ids BY <1>1, <1>9, <1>10 DEF ChainOf
<1> QED BY <1>3, <1>4, <1>7, <1>7a, <1>8, <1>9, <1>11 DEF c, h

LEMMA AppendSet ==
  ASSUME NEW S, NEW list \in Seq(S), NEW x \in S
  PROVE  Append(list, x) \in Seq(S) /\ ToSet(Append(list, x)) = ToSet(list) \cup {x}
<1>1. /\ Append(list, x) \in Seq(S) /\ Len(Append(list, x)) = Len(list) + 1 /\ Append(list, x)[Len(list) + 1] = x
      /\ \A i \in 1 .. Len(list) : Append(list, x)[i] = list[i]
      BY AppendProperties
<1> DEFINE more == Append(list, x)
           n == Len(list)
<1>2. n \in Nat /\ DOMAIN list = 1 .. n /\ DOMAIN more = 1 .. n + 1 BY <1>1, LenProperties
<1>3. more \in Seq(S) /\ more[n + 1] = x /\ \A i \in 1 .. n : more[i] = list[i] BY <1>1
<1> HIDE DEF more, n
<1>4. ToSet(more) = {more[i] : i \in 1 .. n + 1} /\ ToSet(list) = {list[i] : i \in 1 .. n} BY <1>2 DEF ToSet
<1>5. 1 .. n + 1 = (1 .. n) \cup {n + 1} BY <1>2
<1>6. ToSet(more) = ToSet(list) \cup {x} BY <1>3, <1>4, <1>5
<1> QED BY <1>3, <1>6 DEF more

(* The outbounds the rules of a routing profile use are profiles, and      *)
(* each outbound a rule names is one of them or has a name of its own.     *)
OwnName == Predefined \cup {Empty}

LEMMA UsedFacts ==
  ASSUME NEW r \in Routes
  PROVE  LET used == UsedOutbounds(r)
         IN  /\ used \in Seq(Profiles)
             /\ \A i \in DOMAIN r.rules : r.rules[i].outbound \in OwnName \cup ToSet(used)
             /\ r.raw => r.final \in OwnName \cup ToSet(used)
<1> DEFINE W == Seq(Profiles)
           of == [i \in DOMAIN r.rules |-> r.rules[i].outbound]
           raws == Whenever(r.raw, <<r.final>>)
           named == raws \o of
           n == Len(named)
           Add(i, w) == IF named[i] \in OwnName \/ (r.raw /\ Contains(w, named[i])) THEN w ELSE Append(w, named[i])
           Step(g) == [i \in 0 .. n |-> IF i = 0 THEN << >> ELSE Add(i, g[i - 1])]
           f == CHOOSE g : g = Step(g)
<1>1. r.rules \in Seq(RoutingRule) /\ r.final \in Outbounds /\ r.raw \in BOOLEAN BY RoutesType DEF RouteFacts
<1>2. of \in Seq(Outbounds) /\ Len(of) = Len(r.rules) /\ DOMAIN of = DOMAIN r.rules
  <2>1. Len(r.rules) \in Nat /\ DOMAIN r.rules = 1 .. Len(r.rules) /\ \A i \in 1 .. Len(r.rules) : r.rules[i] \in RoutingRule
        BY <1>1, LenProperties
  <2>2. \A x \in RoutingRule : x.outbound \in Outbounds BY DEF RoutingRule
  <2>3. of \in [1 .. Len(r.rules) -> Outbounds] BY <2>1, <2>2
  <2> HIDE DEF of
  <2> QED BY <2>1, <2>3, SeqTyped
<1>3. raws \in Seq(Outbounds) /\ (r.raw => Len(raws) = 1 /\ raws[1] = r.final)
  <2>1. <<r.final>> \in Seq(Outbounds) /\ Len(<<r.final>>) = 1 /\ <<r.final>>[1] = r.final BY <1>1, OneLong
  <2>2. raws = <<r.final>> \/ (~r.raw /\ raws = << >>) BY DEF Whenever
  <2> QED BY <2>1, <2>2, EmptySeq
<1>4. \A i \in DOMAIN r.rules : of[i] = r.rules[i].outbound OBVIOUS
<1> HIDE DEF of, raws
<1>5. /\ named \in Seq(Outbounds) /\ n \in Nat /\ DOMAIN named = 1 .. n
      /\ \A i \in DOMAIN raws : i \in DOMAIN named /\ named[i] = raws[i]
      /\ \A i \in DOMAIN of : Len(raws) + i \in DOMAIN named /\ named[Len(raws) + i] = of[i]
  <2>1. named \in Seq(Outbounds) BY <1>2, <1>3, ConcatFacts
  <2>2. /\ \A i \in DOMAIN raws : i \in DOMAIN named /\ named[i] = raws[i]
        /\ \A i \in DOMAIN of : Len(raws) + i \in DOMAIN named /\ named[Len(raws) + i] = of[i]
        BY <1>2, <1>3, ConcatFacts
  <2> HIDE DEF named
  <2> QED BY <2>1, <2>2, LenProperties
<1> HIDE DEF named, n
<1>6. \A i \in 1 .. n : named[i] \in OwnName \/ named[i] \in Profiles
  <2>1. \A x \in Outbounds : x \in OwnName \/ x \in Profiles BY Zenon DEF Outbounds, OwnName, Profiles
  <2> QED BY <1>5, <2>1
<1>7. \A i \in 1 .. n, w \in W : Add(i, w) \in W /\ ToSet(w) \subseteq ToSet(Add(i, w))
                                 /\ named[i] \in OwnName \cup ToSet(Add(i, w))
  <2> SUFFICES ASSUME NEW i \in 1 .. n, NEW w \in W
               PROVE  Add(i, w) \in W /\ ToSet(w) \subseteq ToSet(Add(i, w))
                      /\ named[i] \in OwnName \cup ToSet(Add(i, w))
    OBVIOUS
  <2>1. CASE named[i] \in OwnName BY <2>1
  <2>2. CASE r.raw /\ Contains(w, named[i])
    <3>1. named[i] \in ToSet(w) BY <2>2, LenProperties DEF Contains, ToSet
    <3> QED BY <2>2, <3>1
  <2>3. CASE ~(named[i] \in OwnName \/ (r.raw /\ Contains(w, named[i])))
    <3>1. Add(i, w) = Append(w, named[i]) BY <2>3
    <3>2. named[i] \in Profiles BY <1>6, <2>3
    <3> HIDE DEF Add
    <3> QED BY <3>1, <3>2, AppendSet
  <2> QED BY <2>1, <2>2, <2>3
<1>8. << >> \in W BY EmptySeq
<1> HIDE DEF W, Add
<1>9. f = Step(f)
  <2> DEFINE F == [x \in (0 .. n) \X W |-> IF x[1] = 0 THEN << >> ELSE Add(x[1], x[2])]
  <2>1. F \in [(0 .. n) \X W -> W]
    <3>1. \A x \in (0 .. n) \X W : x[1] \in 0 .. n /\ x[2] \in W OBVIOUS
    <3>2. \A i \in 0 .. n : i = 0 \/ i \in 1 .. n BY <1>5
    <3> QED BY <1>7, <1>8, <3>1, <3>2
  <2>2. \A i \in 1 .. n, w \in W : F[<<i, w>>] = Add(i, w) BY <1>5
  <2> HIDE DEF F
  <2>3. PICK h \in [0 .. n -> W] : h[0] = << >> /\ \A i \in 1 .. n : h[i] = F[<<i, h[i - 1]>>]
    <3>1. n \in Nat /\ << >> \in W BY <1>5, <1>8
    <3>2. \E h \in [0 .. n -> W] : Iterates(h, n, << >>, F) BY ONLY <2>1, <3>1, Recursion
    <3> QED BY <3>2 DEF Iterates
  <2>4. \A i \in 1 .. n : h[i] = Add(i, h[i - 1])
    <3>1. \A i \in 1 .. n : i - 1 \in 0 .. n BY <1>5
    <3> QED BY <2>2, <3>1, <2>3
  <2>5. h = Step(h)
    <3>1. \A i \in 0 .. n : i = 0 \/ i \in 1 .. n BY <1>5
    <3>2. \A i \in 0 .. n : h[i] = IF i = 0 THEN << >> ELSE Add(i, h[i - 1]) BY <2>3, <2>4, <3>1
    <3> QED BY <3>2
  <2> HIDE DEF Step
  <2> QED BY <2>5
<1>10. UsedOutbounds(r) = f[n] BY DEF UsedOutbounds, OwnName, Add, named, n, raws, of
<1>11. f[0] = << >> /\ \A i \in 1 .. n : f[i] = Add(i, f[i - 1])
  <2> HIDE DEF f
  <2>1. 0 \in 0 .. n /\ \A i \in 1 .. n : i \in 0 .. n /\ i # 0 BY <1>5
  <2> QED BY <1>9, <2>1
<1> HIDE DEF f
<1> DEFINE T == {k \in Nat : k <= n => f[k] \in W /\ \A i \in 1 .. k : named[i] \in OwnName \cup ToSet(f[k])}
<1>12. 0 \in T BY <1>8, <1>11
<1>13. ASSUME NEW k \in Nat, k \in T PROVE k + 1 \in T
  <2> SUFFICES ASSUME k + 1 <= n
               PROVE  f[k + 1] \in W /\ \A i \in 1 .. k + 1 : named[i] \in OwnName \cup ToSet(f[k + 1])
    OBVIOUS
  <2>1. f[k] \in W /\ \A i \in 1 .. k : named[i] \in OwnName \cup ToSet(f[k]) BY <1>5, <1>13
  <2>2. k + 1 \in 1 .. n /\ f[k + 1] = Add(k + 1, f[k]) BY <1>5, <1>11
  <2>3. f[k + 1] \in W /\ ToSet(f[k]) \subseteq ToSet(f[k + 1]) /\ named[k + 1] \in OwnName \cup ToSet(f[k + 1])
        BY <1>7, <2>1, <2>2
  <2> QED BY <2>1, <2>3
<1>14. n \in T
  <2> HIDE DEF T
  <2> QED BY <1>5, <1>12, <1>13, NatSetInduction
<1>15. f[n] \in W /\ \A i \in 1 .. n : named[i] \in OwnName \cup ToSet(f[n]) BY <1>5, <1>14
<1>16. ASSUME NEW i \in DOMAIN r.rules PROVE r.rules[i].outbound \in OwnName \cup ToSet(f[n])
  <2>1. r.rules[i].outbound = named[Len(raws) + i] /\ Len(raws) + i \in 1 .. n BY <1>2, <1>4, <1>5
  <2> QED BY <1>15, <2>1
<1>17. ASSUME r.raw PROVE r.final \in OwnName \cup ToSet(f[n])
  <2>1. 1 \in DOMAIN raws BY <1>3, <1>17
  <2>2. r.final = named[1] /\ 1 \in 1 .. n BY <1>3, <1>5, <1>17, <2>1
  <2> QED BY <1>15, <2>2
<1> QED BY <1>10, <1>15, <1>16, <1>17 DEF W

(* The groups of the rules are numbered one after the other.               *)
LEMMA StartFacts ==
  ASSUME NEW r \in Routes
  PROVE  LET used == UsedOutbounds(r)
         IN  /\ RouteStart(r, 1) = 0 /\ Len(used) \in Nat /\ DOMAIN used = 1 .. Len(used)
             /\ \A i \in 1 .. Len(used) + 1 : RouteStart(r, i) \in Nat
             /\ \A i \in 1 .. Len(used) : /\ used[i] \in Profiles
                                          /\ RouteStart(r, i + 1) = RouteStart(r, i) + Len(Hops(used[i]))
<1> DEFINE used == UsedOutbounds(r)
           n == Len(used)
           Add(i, k) == k + Len(Hops(used[i]))
           Step(g) == [i \in 0 .. n |-> IF i = 0 THEN 0 ELSE Add(i, g[i - 1])]
           f == CHOOSE g : g = Step(g)
<1>1. n \in Nat /\ DOMAIN used = 1 .. n /\ \A i \in 1 .. n : used[i] \in Profiles BY UsedFacts, LenProperties
<1>2. \A i \in 1 .. n, k \in Nat : Add(i, k) \in Nat /\ Add(i, k) = k + Len(Hops(used[i]))
  <2> SUFFICES ASSUME NEW i \in 1 .. n, NEW k \in Nat PROVE Add(i, k) \in Nat OBVIOUS
  <2>1. Len(Hops(used[i])) \in Nat BY <1>1, HopsFacts, LenProperties
  <2> QED BY <2>1
<1>3. \A i : RouteStart(r, i) = f[i - 1] BY DEF RouteStart
<1> HIDE DEF used, n, Add
<1>4. f = Step(f)
  <2> DEFINE F == [x \in (0 .. n) \X Nat |-> IF x[1] = 0 THEN 0 ELSE Add(x[1], x[2])]
  <2>1. F \in [(0 .. n) \X Nat -> Nat]
    <3>1. \A x \in (0 .. n) \X Nat : x[1] \in 0 .. n /\ x[2] \in Nat OBVIOUS
    <3>2. \A i \in 0 .. n : i = 0 \/ i \in 1 .. n BY <1>1
    <3> QED BY <1>2, <3>1, <3>2
  <2>2. \A i \in 1 .. n, w \in Nat : F[<<i, w>>] = Add(i, w) BY <1>1
  <2> HIDE DEF F
  <2>3. PICK h \in [0 .. n -> Nat] : Iterates(h, n, 0, F)
    <3>1. n \in Nat /\ 0 \in Nat BY <1>1
    <3> QED BY ONLY <2>1, <3>1, Recursion
  <2>4. h[0] = 0 /\ \A i \in 1 .. n : h[i] = Add(i, h[i - 1])
    <3>1. \A i \in 1 .. n : i - 1 \in 0 .. n BY <1>1
    <3> QED BY <2>2, <3>1, <2>3 DEF Iterates
  <2>5. h = Step(h)
    <3>1. \A i \in 0 .. n : i = 0 \/ i \in 1 .. n BY <1>1
    <3>2. \A i \in 0 .. n : h[i] = IF i = 0 THEN 0 ELSE Add(i, h[i - 1]) BY <2>4, <3>1
    <3> QED BY <3>2
  <2> HIDE DEF Step
  <2> QED BY <2>5
<1>5. f[0] = 0 /\ \A i \in 1 .. n : f[i] = Add(i, f[i - 1])
  <2> HIDE DEF f
  <2>1. 0 \in 0 .. n /\ \A i \in 1 .. n : i \in 0 .. n /\ i # 0 BY <1>1
  <2> QED BY <1>4, <2>1
<1> HIDE DEF f
<1> DEFINE T == {k \in Nat : k <= n => f[k] \in Nat}
<1>6. 0 \in T BY <1>5
<1>7. ASSUME NEW k \in Nat, k \in T PROVE k + 1 \in T
  <2> SUFFICES ASSUME k + 1 <= n PROVE f[k + 1] \in Nat OBVIOUS
  <2>1. f[k] \in Nat BY <1>1, <1>7
  <2>2. k + 1 \in 1 .. n /\ f[k + 1] = Add(k + 1, f[k]) BY <1>1, <1>5
  <2> QED BY <1>2, <2>1, <2>2
<1>8. \A k \in 0 .. n : f[k] \in Nat
  <2>1. Nat \subseteq T
    <3> HIDE DEF T
    <3> QED BY <1>6, <1>7, NatSetInduction
  <2> QED BY <1>1, <2>1
<1>9. RouteStart(r, 1) = 0 BY <1>3, <1>5
<1>10. \A i \in 1 .. n + 1 : RouteStart(r, i) \in Nat
  <2>1. \A i \in 1 .. n + 1 : i - 1 \in 0 .. n BY <1>1
  <2> QED BY <1>3, <1>8, <2>1
<1>11. ASSUME NEW i \in 1 .. n PROVE RouteStart(r, i + 1) = RouteStart(r, i) + Len(Hops(used[i]))
  <2>1. i - 1 \in 0 .. n /\ (i + 1) - 1 = i BY <1>1
  <2>2. f[i - 1] \in Nat /\ f[i] = Add(i, f[i - 1]) BY <1>5, <1>8, <2>1
  <2>3. RouteStart(r, i + 1) = f[i] /\ RouteStart(r, i) = f[i - 1] BY <1>3, <2>1
  <2> QED BY <1>2, <2>2, <2>3
<1> QED BY <1>1, <1>9, <1>10, <1>11 DEF n, used

LEMMA RouteChainFacts ==
  ASSUME NEW r \in Routes, NEW i \in 1 .. Len(UsedOutbounds(r))
  PROVE  LET c == RouteChain(r, i)
             id == UsedOutbounds(r)[i]
         IN  /\ id \in Profiles /\ c \in ChainOf /\ (c.link \/ Len(c.ids) <= 1) /\ c.ids = Hops(id)
             /\ c.start = RouteStart(r, i) /\ c.prefix = <<"route">> /\ ~c.main /\ ~c.warp
<1> DEFINE id == UsedOutbounds(r)[i]
           hops == Hops(id)
           n == Len(hops)
           start == RouteStart(r, i)
           c == RouteChain(r, i)
<1>1. id \in Profiles /\ start \in Nat
  <2>1. Len(UsedOutbounds(r)) \in Nat BY StartFacts
  <2>2. i \in 1 .. Len(UsedOutbounds(r)) + 1 BY <2>1
  <2> QED BY <2>2, StartFacts
<1>2. hops \in Seq(Profiles) /\ n \in Nat BY <1>1, HopsFacts, LenProperties
<1>3. hops \in Seq(Ids) BY <1>2 DEF Ids, Profiles
<1>4. c = [ids |-> hops, prefix |-> <<"route">>, start |-> start, main |-> FALSE, link |-> n > 1, warp |-> FALSE]
      BY DEF RouteChain
<1> HIDE DEF c, start, n, hops
<1>5. c \in ChainOf BY <1>1, <1>3, <1>4 DEF ChainOf
<1>6. /\ c.ids = hops /\ c.start = start /\ c.prefix = <<"route">> /\ ~c.main /\ ~c.warp /\ (c.link <=> n > 1) BY <1>4
<1>7. c.link \/ Len(c.ids) <= 1 BY <1>2, <1>6 DEF n
<1> QED BY <1>1, <1>5, <1>6, <1>7 DEF c, hops, start

LEMMA FreshContext ==
  ASSUME NEW s \in Settings
  PROVE  LET g == NewContext(s.tun, IF s.tun THEN s.interface ELSE Empty)
         IN  g \in Context /\ g.tun = s.tun /\ g.interface = (IF s.tun THEN s.interface ELSE Empty) /\ ~g.error
             /\ g.sing = << >> /\ g.xray = << >> /\ g.toXray = << >> /\ g.toSing = << >> /\ g.groups = << >>
             /\ g.ports = 0 /\ g.user = NoXray
<1> DEFINE interface == IF s.tun THEN s.interface ELSE Empty
           g == NewContext(s.tun, interface)
<1>1. s.tun \in BOOLEAN /\ interface \in Devices BY SettingsType DEF SettingsFacts, Devices
<1>2. g = [ports |-> 0, sing |-> << >>, xray |-> << >>, toXray |-> << >>, toSing |-> << >>, user |-> NoXray,
           groups |-> << >>, error |-> FALSE, tun |-> s.tun, interface |-> interface]
      BY DEF NewContext
<1>3. << >> \in Seq(SingHop) /\ << >> \in Seq(XrayHop) /\ << >> \in Seq(Gate) /\ << >> \in Seq(Group) BY EmptySeq
<1>4. NoXray \in UserConfig BY DEF UserConfig
<1> HIDE DEF g, interface
<1>5. g \in Context BY <1>1, <1>2, <1>3, <1>4 DEF Context
<1> QED BY <1>2, <1>5 DEF g, interface

LEMMA BuiltIsContext ==
  ASSUME NEW live, NEW g \in Context, NEW c \in ChainOf, NEW id \in Profiles
  PROVE  Wrapped(buildOutboundChain(live, g, c), id) \in Context
<1>1. buildOutboundChain(live, g, c) \in Context BY ChainBuilt, ChainRefused
<1> QED BY <1>1, WrappedFacts DEF Profiles

(* The outbounds are built one chain after the other.                      *)
IsSection(f, live, s, r, id) ==
  /\ f \in [0 .. Len(UsedOutbounds(r)) -> Context] /\ f[0] = MainBuilt(live, s, id)
  /\ \A i \in 1 .. Len(UsedOutbounds(r)) : f[i] = RouteBuilt(live, r, f[i - 1], i)
  /\ buildOutboundsSection(live, s, r, id) = f[Len(UsedOutbounds(r))]

LEMMA SectionFacts ==
  ASSUME NEW live, NEW s \in Settings, NEW r \in Routes, NEW id \in Profiles, Groups
  PROVE  \E f : IsSection(f, live, s, r, id)
<1> DEFINE n == Len(UsedOutbounds(r))
           main == MainBuilt(live, s, id)
           Add(i, g) == RouteBuilt(live, r, g, i)
           Step(g) == [i \in 0 .. n |-> IF i = 0 THEN main ELSE Add(i, g[i - 1])]
           f == CHOOSE g : g = Step(g)
<1>1. n \in Nat BY StartFacts
<1>2. main \in Context BY FreshContext, MainFacts, BuiltIsContext DEF MainBuilt
<1>3. \A i \in 1 .. n, g \in Context : Add(i, g) \in Context
      BY RouteChainFacts, BuiltIsContext DEF RouteBuilt
<1>4. buildOutboundsSection(live, s, r, id) = f[n] BY DEF buildOutboundsSection
<1> HIDE DEF main, n, Add
<1>5. f = Step(f)
  <2> DEFINE F == [x \in (0 .. n) \X Context |-> IF x[1] = 0 THEN main ELSE Add(x[1], x[2])]
  <2>1. F \in [(0 .. n) \X Context -> Context]
    <3>1. \A x \in (0 .. n) \X Context : x[1] \in 0 .. n /\ x[2] \in Context OBVIOUS
    <3>2. \A i \in 0 .. n : i = 0 \/ i \in 1 .. n BY <1>1
    <3> QED BY <1>2, <1>3, <3>1, <3>2
  <2>2. \A i \in 1 .. n, w \in Context : F[<<i, w>>] = Add(i, w) BY <1>1
  <2> HIDE DEF F
  <2>3. PICK h \in [0 .. n -> Context] : Iterates(h, n, main, F)
    <3>1. n \in Nat /\ main \in Context BY <1>1, <1>2
    <3> QED BY ONLY <2>1, <3>1, Recursion
  <2>4. h[0] = main /\ \A i \in 1 .. n : h[i] = Add(i, h[i - 1])
    <3>1. \A i \in 1 .. n : i - 1 \in 0 .. n BY <1>1
    <3> QED BY <2>2, <3>1, <2>3 DEF Iterates
  <2>5. h = Step(h)
    <3>1. \A i \in 0 .. n : i = 0 \/ i \in 1 .. n BY <1>1
    <3>2. \A i \in 0 .. n : h[i] = IF i = 0 THEN main ELSE Add(i, h[i - 1]) BY <2>4, <3>1
    <3> QED BY <3>2
  <2> HIDE DEF Step
  <2> QED BY <2>5
<1>6. f[0] = main /\ \A i \in 1 .. n : f[i] = Add(i, f[i - 1])
  <2> HIDE DEF f
  <2>1. 0 \in 0 .. n /\ \A i \in 1 .. n : i \in 0 .. n /\ i # 0 BY <1>1
  <2> QED BY <1>5, <2>1
<1>7. f = [i \in 0 .. n |-> f[i]]
  <2> DEFINE e == Step(f)
  <2>1. e = [i \in 0 .. n |-> e[i]]
    <3> HIDE DEF f
    <3> QED OBVIOUS
  <2> HIDE DEF e
  <2>2. f = e BY <1>5 DEF e
  <2> HIDE DEF f
  <2> QED BY <2>1, <2>2
<1> HIDE DEF f
<1> DEFINE T == {k \in Nat : k <= n => f[k] \in Context}
<1>8. 0 \in T BY <1>2, <1>6
<1>9. ASSUME NEW k \in Nat, k \in T PROVE k + 1 \in T
  <2> SUFFICES ASSUME k + 1 <= n PROVE f[k + 1] \in Context OBVIOUS
  <2>1. f[k] \in Context BY <1>1, <1>9
  <2>2. k + 1 \in 1 .. n /\ f[k + 1] = Add(k + 1, f[k]) BY <1>1, <1>6
  <2> QED BY <1>3, <2>1, <2>2
<1>10. \A k \in 0 .. n : f[k] \in Context
  <2>1. Nat \subseteq T
    <3> HIDE DEF T
    <3> QED BY <1>8, <1>9, NatSetInduction
  <2> QED BY <1>1, <2>1
<1>11. f \in [0 .. n -> Context] BY <1>7, <1>10
<1>12. IsSection(f, live, s, r, id) BY <1>4, <1>6, <1>11 DEF n, main, Add, IsSection
<1> QED BY <1>12

-----------------------------------------------------------------------------
(* What Xray is given: outbounds that leave as they should, for hops of    *)
(* the chains in question.                                                 *)

Sound(g, tun, S) ==
  g \in Context /\
  (~g.error =>
     /\ g.tun = tun
     /\ \A o \in ToSet(g.xray) : XraySound(o, tun) /\ o.hop \in S
     /\ \A x \in ToSet(g.toXray) : x.outbound # <<"direct">>)

LEMMA ChainSound ==
  ASSUME NEW live, NEW tun, NEW S, NEW g, Sound(g, tun, S), NEW c \in ChainOf, c.link \/ Len(c.ids) <= 1,
         NEW id \in Profiles, "bridge" \in S, ToSet(c.ids) \cap (live \cup {"warp"}) \subseteq S
  PROVE  Sound(Wrapped(buildOutboundChain(live, g, c), id), tun, S)
<1> DEFINE h == buildOutboundChain(live, g, c)
           w == Wrapped(h, id)
<1>1. g \in Context BY DEF Sound
<1>2. h \in Context BY <1>1, ChainBuilt, ChainRefused
<1>3. w \in Context /\ w.error = h.error /\ w.tun = h.tun /\ w.xray = h.xray /\ w.toXray = h.toXray
      BY <1>2, WrappedFacts DEF Profiles
<1>4. CASE g.error \/ ~entIDListtoEntList(live, c.ids)
  <2>1. h.error BY <1>1, <1>4, ChainRefused
  <2> HIDE DEF w, h
  <2> QED BY <1>3, <2>1 DEF Sound, w, h
<1>5. CASE ~g.error /\ entIDListtoEntList(live, c.ids)
  <2>1. h.tun = g.tun /\ h.xray = g.xray \o xrayHops(g, c) /\ h.toXray = g.toXray \o toXrayOf(g, c)
        BY <1>1, <1>5, ChainBuilt
  <2> HIDE DEF h, w
  <2>2. /\ g.tun = tun /\ \A o \in ToSet(g.xray) : XraySound(o, tun) /\ o.hop \in S
        /\ \A x \in ToSet(g.toXray) : x.outbound # <<"direct">>
        BY <1>5 DEF Sound
  <2>3. ToSet(c.ids) \subseteq live \cup {"warp"}
    <3>1. \A i \in DOMAIN c.ids : c.ids[i] \in live \cup {"warp"} BY <1>5, Zenon DEF entIDListtoEntList
    <3> QED BY <3>1 DEF ToSet
  <2>4. \A o \in ToSet(xrayHops(g, c)) : XraySound(o, tun) /\ o.hop \in S
    <3>1. \A o \in ToSet(xrayHops(g, c)) : XraySound(o, g.tun) /\ o.hop \in ToSet(c.ids) \cup {"bridge"}
          BY <1>1, XrayPieces
    <3> QED BY <2>2, <2>3, <3>1
  <2>5. \A x \in ToSet(toXrayOf(g, c)) : x.outbound # <<"direct">>
    <3>1. CASE xrayAt(c.ids) = {} BY <3>1 DEF toXrayOf, ToSet
    <3>2. CASE xrayAt(c.ids) # {}
      <4> DEFINE tag == xrayHops(g, c)[1].tag
                 x == [port |-> singToXrayPort(g), outbound |-> tag]
      <4>1. xrayHops(g, c) \in Seq(XrayHop) /\ xrayHops(g, c) # << >> BY <1>1, <3>2, Pieces
      <4>2. xrayHops(g, c)[1] \in ToSet(xrayHops(g, c)) BY <4>1 DEF ToSet
      <4>3. tag # <<"direct">> BY <2>4, <4>2 DEF XraySound
      <4>4. toXrayOf(g, c) = <<x>> BY <3>2 DEF toXrayOf
      <4> HIDE DEF tag
      <4>5. x.outbound # <<"direct">> BY <4>3
      <4> HIDE DEF x
      <4>6. ToSet(<<x>>) = {x} BY DEF ToSet
      <4> QED BY <4>4, <4>5, <4>6
    <3> QED BY <3>1, <3>2
  <2>6. ToSet(h.xray) = ToSet(g.xray) \cup ToSet(xrayHops(g, c))
    <3>1. g.xray \in Seq(XrayHop) /\ xrayHops(g, c) \in Seq(XrayHop) BY <1>1, Fields, Pieces
    <3> QED BY <2>1, <3>1, ConcatSets
  <2>7. ToSet(h.toXray) = ToSet(g.toXray) \cup ToSet(toXrayOf(g, c))
    <3>1. g.toXray \in Seq(Gate) /\ toXrayOf(g, c) \in Seq(Gate) BY <1>1, Fields, AddedFacts
    <3> QED BY <2>1, <3>1, ConcatSets
  <2>8. /\ \A o \in ToSet(h.xray) : XraySound(o, tun) /\ o.hop \in S
        /\ \A x \in ToSet(h.toXray) : x.outbound # <<"direct">>
        BY <2>2, <2>4, <2>5, <2>6, <2>7
  <2>9. Sound(w, tun, S) BY <1>3, <2>1, <2>2, <2>8 DEF Sound
  <2> QED BY <2>9 DEF w, h
<1> QED BY <1>4, <1>5

XrayHopsOf(live, r, id) ==
  {"bridge"} \cup
  ((live \cup {"warp"}) \cap
    ({"warp", front, landing} \cup ToSet(Hops(id))
       \cup UNION {ToSet(Hops(UsedOutbounds(r)[i])) : i \in 1 .. Len(UsedOutbounds(r))}))

LEMMA SectionSound ==
  ASSUME NEW live, NEW s \in Settings, NEW r \in Routes, NEW id \in Profiles, Groups
  PROVE  Sound(buildOutboundsSection(live, s, r, id), s.tun, XrayHopsOf(live, r, id))
<1> DEFINE used == UsedOutbounds(r)
           n == Len(used)
           S == XrayHopsOf(live, r, id)
           fresh == NewContext(s.tun, IF s.tun THEN s.interface ELSE Empty)
<1>1. n \in Nat BY StartFacts
<1>2. "bridge" \in S BY DEF XrayHopsOf
<1>3. Sound(fresh, s.tun, S)
  <2>1. fresh \in Context /\ fresh.tun = s.tun /\ fresh.xray = << >> /\ fresh.toXray = << >> BY FreshContext
  <2> HIDE DEF fresh, S
  <2>2. ToSet(fresh.xray) = {} /\ ToSet(fresh.toXray) = {} BY <2>1 DEF ToSet
  <2> QED BY <2>1, <2>2 DEF Sound
<1>4. Sound(MainBuilt(live, s, id), s.tun, S)
  <2> DEFINE c == MainChain(s, id)
  <2>1. c \in ChainOf /\ c.link /\ ToSet(c.ids) \subseteq {"warp", front, landing} \cup ToSet(Hops(id)) BY MainFacts
  <2>2. ToSet(c.ids) \cap (live \cup {"warp"}) \subseteq S
    <3> HIDE DEF c
    <3> QED BY <2>1 DEF XrayHopsOf
  <2>3. MainBuilt(live, s, id) = Wrapped(buildOutboundChain(live, fresh, c), id) BY DEF MainBuilt
  <2> HIDE DEF c, fresh, S
  <2> QED BY <1>2, <1>3, <2>1, <2>2, <2>3, ChainSound
<1>5. ASSUME NEW i \in 1 .. n, NEW g, Sound(g, s.tun, S) PROVE Sound(RouteBuilt(live, r, g, i), s.tun, S)
  <2> DEFINE c == RouteChain(r, i)
             p == used[i]
  <2>1. c \in ChainOf /\ (c.link \/ Len(c.ids) <= 1) /\ c.ids = Hops(p) /\ p \in Profiles BY RouteChainFacts
  <2>2. ToSet(c.ids) \cap (live \cup {"warp"}) \subseteq S
    <3>1. ToSet(Hops(p)) \subseteq UNION {ToSet(Hops(used[j])) : j \in 1 .. n} OBVIOUS
    <3> HIDE DEF c, p
    <3> QED BY <2>1, <3>1 DEF XrayHopsOf
  <2>3. RouteBuilt(live, r, g, i) = Wrapped(buildOutboundChain(live, g, c), p) BY DEF RouteBuilt
  <2> HIDE DEF c, S, p
  <2> QED BY <1>2, <1>5, <2>1, <2>2, <2>3, ChainSound
<1>5a. PICK f : IsSection(f, live, s, r, id) BY SectionFacts
<1>6. /\ f[0] = MainBuilt(live, s, id)
      /\ \A i \in 1 .. n : f[i] = RouteBuilt(live, r, f[i - 1], i)
      /\ buildOutboundsSection(live, s, r, id) = f[n]
      BY <1>5a DEF IsSection
<1> HIDE DEF n, S
<1> DEFINE T == {k \in Nat : k <= n => Sound(f[k], s.tun, S)}
<1>7. 0 \in T BY <1>4, <1>6
<1>8. ASSUME NEW k \in Nat, k \in T PROVE k + 1 \in T
  <2> SUFFICES ASSUME k + 1 <= n PROVE Sound(f[k + 1], s.tun, S) OBVIOUS
  <2>1. Sound(f[k], s.tun, S) BY <1>1, <1>8
  <2>2. k + 1 \in 1 .. n /\ (k + 1) - 1 = k BY <1>1
  <2>3. f[k + 1] = RouteBuilt(live, r, f[k], k + 1) BY <1>6, <2>2
  <2> QED BY <1>5, <2>1, <2>2, <2>3
<1>9. n \in T
  <2>1. Nat \subseteq T
    <3> HIDE DEF T
    <3> QED BY <1>7, <1>8, NatSetInduction
  <2> QED BY <1>1, <2>1
<1>10. Sound(f[n], s.tun, S) BY <1>1, <1>9
<1> QED BY <1>6, <1>10 DEF n, S

-----------------------------------------------------------------------------
(* The way of a connection: none that passes Xray ends at the system's     *)
(* default route.                                                          *)

XrayGuarded(x) ==
  /\ DOMAIN x.outbounds \subseteq Nat /\ DOMAIN x.rules \subseteq Nat
  /\ \A i \in DOMAIN x.outbounds :
       /\ x.outbounds[i].via # <<"direct">>
       /\ x.outbounds[i].tag \in {<<"direct">>, <<"user">>} \/ x.outbounds[i].via # NoTag
            \/ x.outbounds[i].port # 0 \/ x.outbounds[i].bind # Empty
  /\ x.outbounds = << >> \/ x.outbounds[1].tag # <<"direct">>
  /\ \A i \in DOMAIN x.rules : x.rules[i].outbound # <<"direct">>

IsPlace(at, x) ==
  /\ at.core \in {"sing", "xray", "end"} /\ at # End("os")
  /\ at.core = "xray" => at.tag # <<"direct">> \/ x.outbounds = << >>

LEMMA Places ==
  ASSUME NEW x, NEW tag
  PROVE  /\ IsPlace(To("sing", tag), x)
         /\ IsPlace(End("lost"), x) /\ IsPlace(End("refused"), x) /\ IsPlace(End("direct"), x)
         /\ IsPlace(End("user"), x) /\ IsPlace(End("bound"), x)
         /\ tag # <<"direct">> \/ x.outbounds = << >> => IsPlace(To("xray", tag), x)
<1>1. \A how \in {"lost", "refused", "direct", "user", "bound"} : IsPlace(End(how), x)
  <2> SUFFICES ASSUME NEW how \in {"lost", "refused", "direct", "user", "bound"} PROVE IsPlace(End(how), x)
    OBVIOUS
  <2>1. <<how>> # <<"os">> OBVIOUS
  <2>2. End(how).core = "end" /\ End(how).tag = <<how>> /\ End("os").tag = <<"os">> BY DEF End
  <2>3. End(how) # End("os") BY <2>1, <2>2
  <2> QED BY <2>2, <2>3 DEF IsPlace
<1>2. To("sing", tag).core = "sing" /\ To("xray", tag).core = "xray" /\ To("xray", tag).tag = tag BY DEF To
<1>3. End("os").core = "end" BY DEF End
<1> QED BY <1>1, <1>2, <1>3 DEF IsPlace

LEMMA PastPlaces ==
  ASSUME NEW x, NEW inbounds, NEW port, NEW rules, NEW default
  PROVE  /\ IsPlace(Past("sing", inbounds, port, rules, default), x)
         /\ /\ DOMAIN rules \subseteq Nat /\ \A i \in DOMAIN rules : rules[i].outbound # <<"direct">>
            /\ default # <<"direct">> \/ x.outbounds = << >>
            => IsPlace(Past("xray", inbounds, port, rules, default), x)
<1> DEFINE tags == {inbounds[i].tag : i \in {i \in DOMAIN inbounds : inbounds[i].port = port}}
           ruled == {i \in DOMAIN rules : rules[i].inbound \in tags}
<1>1. \A core : Past(core, inbounds, port, rules, default) =
        CASE tags = {} -> End("refused")
          [] ruled # {} -> To(core, rules[Min(ruled)].outbound)
          [] OTHER -> To(core, default)
      BY DEF Past
<1>2. tags = {} => ruled = {} OBVIOUS
<1>3. ruled \subseteq DOMAIN rules OBVIOUS
<1> HIDE DEF tags, ruled
<1>4. \A core : \/ Past(core, inbounds, port, rules, default) = End("refused")
                \/ ruled # {} /\ Past(core, inbounds, port, rules, default) = To(core, rules[Min(ruled)].outbound)
                \/ Past(core, inbounds, port, rules, default) = To(core, default)
  <2> SUFFICES ASSUME NEW core
               PROVE  \/ Past(core, inbounds, port, rules, default) = End("refused")
                      \/ ruled # {} /\ Past(core, inbounds, port, rules, default) = To(core, rules[Min(ruled)].outbound)
                      \/ Past(core, inbounds, port, rules, default) = To(core, default)
    OBVIOUS
  <2>1. CASE tags = {} BY <1>1, <1>2, <2>1
  <2>2. CASE tags # {} /\ ruled # {} BY <1>1, <2>2
  <2>3. CASE tags # {} /\ ruled = {} BY <1>1, <2>3
  <2> QED BY <2>1, <2>2, <2>3
<1>5. IsPlace(Past("sing", inbounds, port, rules, default), x) BY <1>4, Places
<1>6. ASSUME DOMAIN rules \subseteq Nat, \A i \in DOMAIN rules : rules[i].outbound # <<"direct">>,
             default # <<"direct">> \/ x.outbounds = << >>
      PROVE  IsPlace(Past("xray", inbounds, port, rules, default), x)
  <2>1. ruled # {} => rules[Min(ruled)].outbound # <<"direct">>
    <3> SUFFICES ASSUME ruled # {} PROVE rules[Min(ruled)].outbound # <<"direct">> OBVIOUS
    <3>1. Min(ruled) \in ruled BY <1>3, <1>6, LeastOf
    <3> QED BY <1>3, <1>6, <3>1
  <2> QED BY <1>4, <1>6, <2>1, Places
<1> QED BY <1>5, <1>6

LEMMA LeavingPlaces ==
  ASSUME NEW b, XrayGuarded(b.xray), NEW core \in {"sing", "xray"}, NEW o,
         core = "xray" => /\ \E i \in DOMAIN b.xray.outbounds : o = b.xray.outbounds[i]
                          /\ o.tag # <<"direct">>
  PROVE  IsPlace(Leaving(b, core, o), b.xray)
<1> DEFINE x == b.xray
<1>1. \A port : IsPlace(IntoXray(b, port), x)
  <2>1. /\ DOMAIN x.rules \subseteq Nat /\ \A i \in DOMAIN x.rules : x.rules[i].outbound # <<"direct">>
        /\ x.outbounds[1].tag # <<"direct">> \/ x.outbounds = << >>
        BY DEF XrayGuarded
  <2> QED BY <2>1, PastPlaces DEF IntoXray
<1>2. \A port : IsPlace(IntoSing(b, port), x) BY PastPlaces DEF IntoSing
<1>3. CASE core = "sing"
  <2>1. CASE o.detour # NoTag
    <3>1. Leaving(b, core, o) = To("sing", o.detour) BY <1>3, <2>1 DEF Leaving
    <3> QED BY <3>1, Places
  <2>2. CASE o.detour = NoTag /\ o.port # 0
    <3>1. Leaving(b, core, o) = IntoXray(b, o.port) BY <1>3, <2>2 DEF Leaving
    <3> QED BY <1>1, <3>1
  <2>3. CASE o.detour = NoTag /\ o.port = 0
    <3>1. Leaving(b, core, o) = End("refused") \/ Leaving(b, core, o) = End("direct") BY <1>3, <2>3 DEF Leaving
    <3> QED BY <3>1, Places
  <2> QED BY <2>1, <2>2, <2>3
<1>4. CASE core = "xray"
  <2>1. /\ o.via # <<"direct">> /\ o.tag # <<"direct">>
        /\ o.tag = <<"user">> \/ o.via # NoTag \/ o.port # 0 \/ o.bind # Empty
    <3>1. PICK i \in DOMAIN b.xray.outbounds : o = b.xray.outbounds[i] BY <1>4
    <3> QED BY <1>4, <3>1 DEF XrayGuarded
  <2>2. CASE o.via # NoTag
    <3>1. Leaving(b, core, o) = To("xray", o.via) BY <1>4, <2>2 DEF Leaving
    <3> QED BY <2>1, <3>1, Places
  <2>3. CASE o.via = NoTag /\ o.port # 0
    <3>1. Leaving(b, core, o) = IntoSing(b, o.port) BY <1>4, <2>3 DEF Leaving
    <3> QED BY <1>2, <3>1
  <2>4. CASE o.via = NoTag /\ o.port = 0
    <3>1. Leaving(b, core, o) = End("user") \/ Leaving(b, core, o) = End("bound") BY <1>4, <2>1, <2>4 DEF Leaving
    <3> QED BY <3>1, Places
  <2> QED BY <2>2, <2>3, <2>4
<1> QED BY <1>3, <1>4

IsWay(w, x) == /\ \E a, h, t : w = [at |-> a, hops |-> h, tags |-> t]
               /\ IsPlace(w.at, x)

LEMMA WayOf ==
  ASSUME NEW a, NEW h, NEW t, NEW x, IsPlace(a, x)
  PROVE  IsWay([at |-> a, hops |-> h, tags |-> t], x)
<1> DEFINE w == [at |-> a, hops |-> h, tags |-> t]
<1>1. w = [at |-> a, hops |-> h, tags |-> t] /\ w.at = a OBVIOUS
<1> HIDE DEF w
<1>2. IsWay(w, x) BY <1>1 DEF IsWay
<1> QED BY <1>1, <1>2

LEMMA PassPlaces ==
  ASSUME NEW b, XrayGuarded(b.xray), NEW w, IsWay(w, b.xray)
  PROVE  IsWay(Pass(b, w), b.xray)
<1> DEFINE outbounds == IF w.at.core = "sing" THEN b.outbounds ELSE b.xray.outbounds
           hits == Tagged(outbounds, w.at.tag)
           o == outbounds[Min(hits)]
           to == Leaving(b, w.at.core, o)
           hops == IF o.hop \in {"bridge", "direct"} THEN w.hops ELSE Append(w.hops, o.hop)
           tags == IF w.at.core = "sing" THEN w.tags \cup {o.tag} ELSE w.tags
<1>1. Pass(b, w) = CASE w.at.core = "end" -> w
                     [] w.at.core # "end" /\ Cardinality(hits) # 1 -> [w EXCEPT !.at = End("lost")]
                     [] OTHER -> [at |-> to, hops |-> hops, tags |-> tags]
      BY DEF Pass
<1>2. PICK a, h, t : w = [at |-> a, hops |-> h, tags |-> t] BY DEF IsWay
<1>3. w.at.core \in {"sing", "xray", "end"} /\ (w.at.core = "xray" => w.at.tag # <<"direct">> \/ b.xray.outbounds = << >>)
      BY DEF IsWay, IsPlace
<1>4. CASE w.at.core = "end"
  <2> HIDE DEF hits, to, hops, tags
  <2> QED BY <1>1, <1>4
<1>5. CASE w.at.core # "end" /\ Cardinality(hits) # 1
  <2> HIDE DEF hits, to, hops, tags
  <2>1. Pass(b, w) = [w EXCEPT !.at = End("lost")] BY <1>1, <1>5
  <2>2. Pass(b, w) = [at |-> End("lost"), hops |-> h, tags |-> t] BY <1>2, <2>1
  <2>3. IsPlace(End("lost"), b.xray) BY Places
  <2> QED BY <2>2, <2>3, WayOf
<1>6. CASE w.at.core # "end" /\ Cardinality(hits) = 1
  <2>1. Pass(b, w) = [at |-> to, hops |-> hops, tags |-> tags]
    <3> HIDE DEF hits, to, hops, tags
    <3> QED BY <1>1, <1>6
  <2>2. hits # {} BY <1>6, FS_EmptySet
  <2>3. ASSUME w.at.core = "xray"
        PROVE  (\E i \in DOMAIN b.xray.outbounds : o = b.xray.outbounds[i]) /\ o.tag # <<"direct">>
    <3>1. outbounds = b.xray.outbounds /\ DOMAIN outbounds \subseteq Nat BY <2>3 DEF XrayGuarded
    <3> HIDE DEF outbounds
    <3>2. hits \in SUBSET Nat BY <3>1 DEF Tagged
    <3>3. Min(hits) \in hits
      <4> HIDE DEF hits
      <4> QED BY <2>2, <3>2, LeastOf
    <3>4. Min(hits) \in DOMAIN outbounds /\ o.tag = w.at.tag BY <3>3 DEF Tagged
    <3>5. b.xray.outbounds # << >> BY <3>1, <3>4
    <3> HIDE DEF hits
    <3> QED BY <1>3, <2>3, <3>1, <3>4, <3>5
  <2> HIDE DEF o
  <2>4. w.at.core \in {"sing", "xray"} BY <1>3, <1>6
  <2>5. IsPlace(to, b.xray) BY <2>3, <2>4, LeavingPlaces
  <2> HIDE DEF to, hops, tags
  <2> QED BY <2>1, <2>5, WayOf
<1> QED BY <1>4, <1>5, <1>6

LEMMA WalkPlaces ==
  ASSUME NEW b, XrayGuarded(b.xray), NEW tag
  PROVE  Walk(b, tag).at # End("os")
<1> DEFINE begin == [at |-> To("sing", tag), hops |-> << >>, tags |-> {}]
           Step(g, k) == [n \in 0 .. k |-> IF n = 0 THEN begin ELSE Pass(b, g[n - 1])]
           f == CHOOSE g : g = Step(g, WalkLimit)
           E == {k \in Nat : \E g : g = Step(g, k)}
<1>1. WalkLimit \in Nat BY SettingsAssumption
<1>2. Walk(b, tag) = f[WalkLimit] BY DEF Walk
<1>3. IsWay(begin, b.xray)
  <2>1. begin.at = To("sing", tag) OBVIOUS
  <2>2. IsPlace(begin.at, b.xray) BY <2>1, Places
  <2>3. \E a, h, t : begin = [at |-> a, hops |-> h, tags |-> t] OBVIOUS
  <2> HIDE DEF begin
  <2> QED BY <2>2, <2>3 DEF IsWay
<1> HIDE DEF begin
<1>4. 0 \in E
  <2> DEFINE g == [n \in 0 .. 0 |-> begin]
  <2>1. g = Step(g, 0)
    <3>1. \A n \in 0 .. 0 : n = 0 OBVIOUS
    <3> QED BY <3>1
  <2> HIDE DEF Step, g
  <2> QED BY <2>1
<1>5. ASSUME NEW k \in Nat, k \in E PROVE k + 1 \in E
  <2>1. PICK g : g = Step(g, k) BY <1>5
  <2>2. \A n \in 0 .. k : g[n] = IF n = 0 THEN begin ELSE Pass(b, g[n - 1]) BY <2>1
  <2> DEFINE m == [n \in 0 .. k + 1 |-> IF n = k + 1 THEN Pass(b, g[k]) ELSE g[n]]
  <2>3. m[k + 1] = Pass(b, g[k]) /\ \A n \in 0 .. k : m[n] = g[n]
    <3>1. k + 1 \in 0 .. k + 1 /\ \A n \in 0 .. k : n \in 0 .. k + 1 /\ n # k + 1 OBVIOUS
    <3> QED BY <3>1
  <2>4. \A n \in 0 .. k + 1 : m[n] = IF n = 0 THEN begin ELSE Pass(b, m[n - 1])
    <3> SUFFICES ASSUME NEW n \in 0 .. k + 1 PROVE m[n] = IF n = 0 THEN begin ELSE Pass(b, m[n - 1]) OBVIOUS
    <3> HIDE DEF m
    <3>1. CASE n = k + 1
      <4>1. n # 0 /\ n - 1 = k /\ k \in 0 .. k BY <3>1
      <4>2. m[n - 1] = g[k] BY <2>3, <4>1
      <4> QED BY <2>3, <3>1, <4>1, <4>2
    <3>2. CASE n # k + 1
      <4>1. n \in 0 .. k /\ (n # 0 => n - 1 \in 0 .. k) BY <3>2
      <4>2. m[n] = g[n] /\ (n # 0 => m[n - 1] = g[n - 1]) BY <2>3, <4>1
      <4> QED BY <2>2, <4>1, <4>2
    <3> QED BY <3>1, <3>2
  <2>5. m = [n \in 0 .. k + 1 |-> m[n]] OBVIOUS
  <2> HIDE DEF m
  <2>6. m = Step(m, k + 1) BY <2>4, <2>5
  <2> HIDE DEF Step
  <2> QED BY <2>6
<1>6. f = Step(f, WalkLimit)
  <2>1. WalkLimit \in E
    <3> HIDE DEF E
    <3> QED BY <1>1, <1>4, <1>5, NatSetInduction
  <2> HIDE DEF Step
  <2> QED BY <2>1
<1>7. \A n \in 0 .. WalkLimit : f[n] = IF n = 0 THEN begin ELSE Pass(b, f[n - 1])
  <2> HIDE DEF f
  <2> QED BY <1>6
<1> HIDE DEF f
<1> DEFINE T == {k \in Nat : k <= WalkLimit => IsWay(f[k], b.xray)}
<1>8. 0 \in T
  <2>1. 0 \in 0 .. WalkLimit BY <1>1
  <2> QED BY <1>3, <1>7, <2>1
<1>9. ASSUME NEW k \in Nat, k \in T PROVE k + 1 \in T
  <2> SUFFICES ASSUME k + 1 <= WalkLimit PROVE IsWay(f[k + 1], b.xray) OBVIOUS
  <2>1. IsWay(f[k], b.xray) BY <1>1, <1>9
  <2>2. k + 1 \in 0 .. WalkLimit /\ k + 1 # 0 /\ (k + 1) - 1 = k BY <1>1
  <2>3. f[k + 1] = Pass(b, f[k]) BY <1>7, <2>2
  <2> QED BY <2>1, <2>3, PassPlaces
<1>10. IsWay(f[WalkLimit], b.xray)
  <2>1. Nat \subseteq T
    <3> HIDE DEF T
    <3> QED BY <1>8, <1>9, NatSetInduction
  <2> QED BY <1>1, <2>1
<1> QED BY <1>2, <1>10 DEF IsWay, IsPlace

LEMMA OneSet ==
  ASSUME NEW x
  PROVE  <<x>> \in Seq({x}) /\ Len(<<x>>) = 1 /\ DOMAIN <<x>> = {1} /\ <<x>>[1] = x /\ ToSet(<<x>>) = {x}
<1>1. DOMAIN <<x>> = {1} /\ <<x>>[1] = x OBVIOUS
<1> QED BY <1>1 DEF ToSet

LEMMA NoneSet ==
  ASSUME NEW S PROVE << >> \in Seq(S) /\ Len(<< >>) = 0 /\ DOMAIN << >> = {} /\ ToSet(<< >>) = {}
BY DEF ToSet

(* The configuration of Xray that sound outbounds become.                  *)
LEMMA XrayBuilt ==
  ASSUME NEW g, NEW tun, NEW S, Sound(g, tun, S), ~g.error
  PROVE  LET x == buildXrayConfig(g, TRUE)
         IN  /\ tun => XrayGuarded(x)
             /\ \A i \in DOMAIN x.outbounds : x.outbounds[i].hop \in S \cup {"bridge", "direct"}
<1> DEFINE x == buildXrayConfig(g, TRUE)
<1>1. g \in Context /\ g.xray \in Seq(XrayHop) /\ g.toXray \in Seq(Gate) /\ g.user \in UserConfig
      BY Fields DEF Sound
<1>2. /\ \A o \in ToSet(g.xray) : XraySound(o, tun) /\ o.hop \in S
      /\ \A t \in ToSet(g.toXray) : t.outbound # <<"direct">>
      BY DEF Sound
<1>3. CASE g.xray = << >>
  <2>1. x = g.user BY <1>3 DEF buildXrayConfig
  <2>2. CASE g.user = NoXray
    <3>1. x.outbounds = << >> /\ x.rules = << >>
      <4> HIDE DEF x
      <4> QED BY <2>1, <2>2 DEF NoXray
    <3> HIDE DEF x
    <3>2. DOMAIN x.outbounds = {} /\ DOMAIN x.rules = {} BY <3>1
    <3> QED BY <3>1, <3>2 DEF XrayGuarded, x
  <2>3. ASSUME NEW n \in Nat, g.user = UserXray(n)
        PROVE  (tun => XrayGuarded(x)) /\ \A i \in DOMAIN x.outbounds : x.outbounds[i].hop \in S \cup {"bridge", "direct"}
    <3> DEFINE o == [tag |-> <<"user">>, hop |-> "bridge", port |-> 0, via |-> NoTag, bind |-> Empty]
    <3> HIDE DEF x
    <3>1. x.outbounds = <<o>> /\ x.rules = << >>
      <4> HIDE DEF o
      <4>1. x.outbounds = UserXray(n).outbounds /\ x.rules = UserXray(n).rules BY <2>1, <2>3 DEF x
      <4>2. UserXray(n) = [inbounds |-> UserXray(n).inbounds, outbounds |-> <<o>>, rules |-> << >>]
            BY DEF UserXray, o
      <4> QED BY <4>1, <4>2
    <3>2. o.tag = <<"user">> /\ o.hop = "bridge" /\ o.via = NoTag OBVIOUS
    <3>3. NoTag # <<"direct">> BY DEF NoTag
    <3> HIDE DEF o
    <3>4. DOMAIN x.outbounds = {1} /\ x.outbounds[1] = o /\ DOMAIN x.rules = {} BY <3>1, OneSet
    <3>5. o.tag # <<"direct">> BY <3>2
    <3>6. \A i \in DOMAIN x.outbounds : x.outbounds[i] = o BY <3>4
    <3>7. 1 \in Nat /\ DOMAIN x.outbounds \subseteq Nat BY <3>4
    <3>8. DOMAIN x.rules \subseteq Nat /\ \A i \in DOMAIN x.rules : x.rules[i].outbound # <<"direct">> BY <3>4
    <3>9. XrayGuarded(x) BY <3>2, <3>3, <3>4, <3>5, <3>6, <3>7, <3>8, Zenon DEF XrayGuarded
    <3> QED BY <3>2, <3>6, <3>9
  <2> QED BY <1>1, <2>2, <2>3 DEF UserConfig
<1>4. CASE g.xray # << >>
  <2> DEFINE inbound(b) == [tag |-> Append(b.outbound, "inbound"), port |-> b.port]
             direct == [tag |-> <<"direct">>, hop |-> "direct", port |-> 0, via |-> NoTag, bind |-> Empty]
             rule(i) == [inbound |-> inbound(g.toXray[i]).tag, outbound |-> g.toXray[i].outbound]
             outbounds == g.xray \o <<direct>>
             rules == [i \in DOMAIN g.toXray |-> rule(i)]
  <2>1. x.outbounds = outbounds /\ x.rules = rules
    <3>1. x = [inbounds |-> [i \in DOMAIN g.toXray |-> inbound(g.toXray[i])],
               outbounds |-> outbounds, rules |-> rules]
          BY <1>4 DEF buildXrayConfig, Whenever
    <3> HIDE DEF x, outbounds, rules, inbound
    <3> QED BY <3>1
  <2>2. ASSUME NEW i \in DOMAIN rules PROVE rules[i].outbound # <<"direct">>
    <3>1. i \in DOMAIN g.toXray /\ rules[i] = rule(i) OBVIOUS
    <3>2. rule(i).outbound = g.toXray[i].outbound
      <4> HIDE DEF inbound
      <4> QED OBVIOUS
    <3>3. g.toXray[i] \in ToSet(g.toXray) BY <3>1 DEF ToSet
    <3> HIDE DEF rules, rule
    <3> QED BY <1>2, <3>1, <3>2, <3>3
  <2>3. DOMAIN rules \subseteq Nat
    <3>1. DOMAIN rules = DOMAIN g.toXray OBVIOUS
    <3>2. DOMAIN g.toXray = 1 .. Len(g.toXray) /\ Len(g.toXray) \in Nat BY <1>1, LenProperties
    <3> HIDE DEF rules
    <3> QED BY <3>1, <3>2
  <2> HIDE DEF rules
  <2>4. direct.tag = <<"direct">> /\ direct.hop = "direct" /\ direct.via = NoTag OBVIOUS
  <2>5. NoTag # <<"direct">> BY DEF NoTag
  <2> HIDE DEF direct
  <2>6. /\ DOMAIN outbounds \subseteq Nat
        /\ \A i \in DOMAIN outbounds : outbounds[i] \in ToSet(g.xray) \cup {direct}
        /\ outbounds[1] = g.xray[1] /\ g.xray[1] \in ToSet(g.xray)
    <3> DEFINE A == XrayHop \cup {direct}
               q == <<direct>>
    <3>1. g.xray \in Seq(A) /\ q \in Seq(A)
      <4>1. XrayHop \subseteq A OBVIOUS
      <4>2. direct \in A OBVIOUS
      <4> HIDE DEF A
      <4>3. g.xray \in Seq(A) BY <1>1, <4>1
      <4> QED BY <4>2, <4>3, OneLong
    <3>1a. ToSet(q) = {direct} BY OneSet
    <3> HIDE DEF A, q
    <3>2. ToSet(outbounds) = ToSet(g.xray) \cup {direct}
      <4>1. ToSet(g.xray \o q) = ToSet(g.xray) \cup ToSet(q) BY <3>1, ConcatSets
      <4>2. outbounds = g.xray \o q BY DEF q
      <4> HIDE DEF outbounds
      <4> QED BY <3>1a, <4>1, <4>2
    <3>3. \A i \in DOMAIN outbounds : outbounds[i] \in ToSet(outbounds)
      <4> HIDE DEF outbounds
      <4> QED BY DEF ToSet
    <3>4. 1 \in DOMAIN g.xray BY <1>1, <1>4
    <3>5. outbounds[1] = g.xray[1] BY <3>1, <3>4, ConcatFacts DEF q
    <3>6. g.xray[1] \in ToSet(g.xray) BY <3>4 DEF ToSet
    <3>7. DOMAIN outbounds \subseteq Nat
      <4>1. outbounds \in Seq(A) BY <3>1, ConcatFacts DEF q
      <4> HIDE DEF outbounds
      <4>2. DOMAIN outbounds = 1 .. Len(outbounds) /\ Len(outbounds) \in Nat BY <4>1, LenProperties
      <4> QED BY <4>2
    <3> QED BY <3>2, <3>3, <3>5, <3>6, <3>7
  <2> HIDE DEF outbounds, x
  <2>7. \A i \in DOMAIN outbounds : outbounds[i].hop \in S \cup {"bridge", "direct"} BY <1>2, <2>4, <2>6
  <2>8. ASSUME tun PROVE XrayGuarded(x)
    <3>1. ASSUME NEW i \in DOMAIN outbounds
          PROVE  /\ outbounds[i].via # <<"direct">>
                 /\ outbounds[i].tag \in {<<"direct">>, <<"user">>} \/ outbounds[i].via # NoTag
                      \/ outbounds[i].port # 0 \/ outbounds[i].bind # Empty
      <4>1. CASE outbounds[i] = direct BY <2>4, <2>5, <4>1
      <4>2. CASE outbounds[i] \in ToSet(g.xray) BY <1>2, <2>8, <4>2 DEF XraySound
      <4> QED BY <2>6, <4>1, <4>2
    <3>2. outbounds[1].tag # <<"direct">> BY <1>2, <2>6 DEF XraySound
    <3> QED BY <2>1, <2>2, <2>3, <2>6, <3>1, <3>2 DEF XrayGuarded
  <2> QED BY <2>1, <2>7, <2>8 DEF x
<1> QED BY <1>3, <1>4

-----------------------------------------------------------------------------
(* The names sing-box is asked for.                                        *)

LEMMA DnsDirect ==
  ASSUME NEW s \in Settings, ~s.fake, NEW r, NEW id, NEW direct, NEW name \in direct, name # "ts.net",
         name \notin s.hijack
  PROVE  ServerFor(buildDNSSection(s, r, id, direct), name) = "dns-direct"
<1> DEFINE final == IF s.direct THEN "dns-direct" ELSE "dns-remote"
           tailscale == id # None /\ Kind(id) = "tailscale"
           proxySites == SitesOf(s, r, "proxy")
           a1 == DnsRule({"tailscale.com"}, "dns-direct")
           a2 == DnsRule({"ts.net"}, "dns-tailscale")
           h == DnsRule(s.hijack, "predefined")
           d == DnsRule(direct, "dns-direct")
           p == DnsRule(proxySites, "dns-remote")
           l == DnsRule({"*"}, final)
           A == Whenever(tailscale, <<a1, a2>>)
           H == Whenever(s.hijack # {} /\ id # None, <<h>>)
           P == Whenever(proxySites # {} /\ s.direct, <<p>>)
           S == {a1, a2, h, d, p, l}
           first == A \o H
           most == first \o <<d>>
           more == most \o P
           rules == more \o <<l>>
           dns == buildDNSSection(s, r, id, direct)
           F == Whenever(s.fake, <<DnsRule({"*"}, "dns-fake")>>)
<1>1. dns.rules = rules
  <2>1. direct # {} OBVIOUS
  <2>2. F = << >> BY DEF Whenever
  <2>3. Whenever(direct # {}, <<d>>) = <<d>> BY <2>1 DEF Whenever
  <2>4. dns.rules = A \o H \o F \o Whenever(direct # {}, <<d>>) \o P \o <<l>> BY DEF buildDNSSection
  <2>5. A \o H \o << >> = A \o H
    <3>1. A \in Seq({a1, a2}) /\ H \in Seq({h})
      <4> HIDE DEF a1, a2, h
      <4>1. <<a1, a2>> \in Seq({a1, a2}) /\ <<h>> \in Seq({h}) OBVIOUS
      <4> QED BY <4>1, EmptySeq DEF Whenever
    <3> HIDE DEF A, H
    <3>2. A \in Seq({a1, a2, h}) /\ H \in Seq({a1, a2, h})
      <4> HIDE DEF a1, a2, h
      <4> QED BY <3>1
    <3>3. A \o H \in Seq({a1, a2, h}) BY <3>2, ConcatProperties
    <3> QED BY <3>3, ConcatEmptySeq
  <2> HIDE DEF A, H, F, P, l, d, dns
  <2> QED BY <2>2, <2>3, <2>4, <2>5
<1>2. /\ a1.server = "dns-direct" /\ d.server = "dns-direct" /\ d.names = direct /\ a2.names = {"ts.net"}
      /\ h.names = s.hijack
      BY DEF DnsRule
<1> HIDE DEF a1, a2, h, d, p, l
<1>3. /\ A \in Seq(S) /\ ToSet(A) \subseteq {a1, a2} /\ H \in Seq(S) /\ ToSet(H) \subseteq {h}
      /\ <<d>> \in Seq(S) /\ P \in Seq(S) /\ <<l>> \in Seq(S)
  <2>1. <<a1, a2>> \in Seq(S) /\ ToSet(<<a1, a2>>) \subseteq {a1, a2} BY DEF ToSet
  <2>2. \A x \in S : <<x>> \in Seq(S) /\ ToSet(<<x>>) = {x} BY OneLong, OneSet
  <2>3. << >> \in Seq(S) /\ ToSet(<< >>) = {} BY NoneSet
  <2>4. h \in S /\ d \in S /\ p \in S /\ l \in S OBVIOUS
  <2> HIDE DEF S
  <2> QED BY <2>1, <2>2, <2>3, <2>4 DEF Whenever
<1>4. /\ a2.names \cap {name, "*"} = {} /\ h.names \cap {name, "*"} = {} /\ name \in d.names
  <2>1. "*" \notin s.hijack BY SettingsType DEF SettingsFacts
  <2> QED BY <1>2, <2>1
<1> HIDE DEF A, H, P, S
<1>5. first \in Seq(S) /\ \A i \in DOMAIN first : first[i] \in {a1, a2, h}
  <2>1. A \o H \in Seq(S) /\ ToSet(A \o H) = ToSet(A) \cup ToSet(H) BY <1>3, ConcatSets
  <2> HIDE DEF first
  <2>2. first \in Seq(S) /\ ToSet(first) \subseteq {a1, a2, h} BY <1>3, <2>1 DEF first
  <2>3. \A i \in DOMAIN first : first[i] \in ToSet(first) BY DEF ToSet
  <2> QED BY <2>2, <2>3
<1> DEFINE n == Len(first)
<1> HIDE DEF first
<1>6. /\ most \in Seq(S) /\ n + 1 \in DOMAIN most /\ most[n + 1] = d
      /\ \A i \in DOMAIN first : i \in DOMAIN most /\ most[i] = first[i]
      /\ n \in Nat /\ DOMAIN first = 1 .. n
  <2>1. <<d>> \in Seq(S) /\ DOMAIN <<d>> = {1} /\ <<d>>[1] = d BY <1>3, OneSet
  <2> DEFINE q == <<d>>
  <2> HIDE DEF q
  <2>2. q \in Seq(S) /\ 1 \in DOMAIN q /\ q[1] = d BY <2>1 DEF q
  <2>3. /\ first \o q \in Seq(S) /\ \A i \in DOMAIN first : i \in DOMAIN (first \o q) /\ (first \o q)[i] = first[i]
        /\ \A i \in DOMAIN q : Len(first) + i \in DOMAIN (first \o q) /\ (first \o q)[Len(first) + i] = q[i]
        BY <1>5, <2>2, ConcatFacts
  <2> HIDE DEF most
  <2>4. most = first \o q BY DEF most, q
  <2> QED BY <1>5, <2>2, <2>3, <2>4, LenProperties
<1> HIDE DEF most, n
<1>7. more \in Seq(S) /\ \A i \in DOMAIN most : i \in DOMAIN more /\ more[i] = most[i]
      BY <1>3, <1>6, ConcatFacts
<1> HIDE DEF more
<1>8. rules \in Seq(S) /\ \A i \in DOMAIN more : i \in DOMAIN rules /\ rules[i] = more[i]
  <2> DEFINE q == <<l>>
  <2>1. q \in Seq(S) BY <1>3
  <2> HIDE DEF q
  <2>2. more \o q \in Seq(S) /\ \A i \in DOMAIN more : i \in DOMAIN (more \o q) /\ (more \o q)[i] = more[i]
        BY <1>7, <2>1, ConcatFacts
  <2> QED BY <2>2 DEF q
<1> HIDE DEF rules
<1> DEFINE matching == {i \in DOMAIN rules : Answers(rules[i], name)}
           m == Min(matching)
<1>9. n + 1 \in matching BY <1>4, <1>6, <1>7, <1>8 DEF Answers
<1>10. matching \in SUBSET Nat
  <2>1. DOMAIN rules = 1 .. Len(rules) /\ Len(rules) \in Nat BY <1>8, LenProperties
  <2> QED BY <2>1
<1>11. m \in matching /\ m <= n + 1
  <2> HIDE DEF matching
  <2> QED BY <1>9, <1>10, LeastOf
<1>12. m \in 1 .. n + 1
  <2>1. DOMAIN rules = 1 .. Len(rules) /\ Len(rules) \in Nat BY <1>8, LenProperties
  <2>2. m \in DOMAIN rules BY <1>11
  <2> HIDE DEF m
  <2> QED BY <1>6, <1>11, <2>1, <2>2
<1>13. ServerFor(dns, name) = rules[m].server BY <1>1 DEF ServerFor, Where
<1>14. Answers(rules[m], name) BY <1>11
<1> HIDE DEF m, dns
<1>15. rules[m].server = "dns-direct"
  <2>1. CASE m = n + 1 BY <1>2, <1>6, <1>7, <1>8, <2>1
  <2>2. CASE m # n + 1
    <3>1. m \in DOMAIN first BY <1>6, <1>12, <2>2
    <3>2. rules[m] = first[m] BY <1>6, <1>7, <1>8, <3>1
    <3>3. rules[m] \in {a1, a2, h} BY <1>5, <3>1, <3>2
    <3>4. ~Answers(a2, name) /\ ~Answers(h, name) BY <1>4 DEF Answers
    <3> QED BY <1>2, <1>14, <3>3, <3>4
  <2> QED BY <2>1, <2>2
<1> QED BY <1>13, <1>15 DEF dns

-----------------------------------------------------------------------------
(* The rules of sing-box.                                                  *)

RuleOf(s, r, i) ==
  Rule(r.rules[i].action, NoTag,
       IF r.rules[i].action = "route" THEN OutboundTag(s, r, r.rules[i].outbound) ELSE NoTag, r.rules[i].sets)
RulesOf(s, r) == {RuleOf(s, r, i) : i \in DOMAIN r.rules} \cup {Adblock}

(* What a routing profile gives is a list of its rules and the adblock one. *)
LEMMA RulesFacts ==
  ASSUME NEW s \in Settings, NEW r \in Routes
  PROVE  get_route_rules(s, r) \in Seq(RulesOf(s, r))
<1> DEFINE all == [i \in DOMAIN r.rules |-> RuleOf(s, r, i)]
           routing == {i \in DOMAIN r.rules : r.rules[i].action = "route"}
           at == IF routing = {} THEN Len(r.rules) ELSE Min(routing) - 1
           S == RulesOf(s, r)
           n == Len(r.rules)
<1>1. n \in Nat /\ DOMAIN r.rules = 1 .. n BY RoutesType, LenProperties DEF RouteFacts
<1>2. \A i \in 1 .. n : RuleOf(s, r, i) \in S BY <1>1 DEF RulesOf
<1>3. Adblock \in S BY DEF RulesOf
<1>4. get_route_rules(s, r) =
        IF s.adblock /\ ~r.raw THEN SubSeq(all, 1, at) \o <<Adblock>> \o SubSeq(all, at + 1, Len(all)) ELSE all
      BY DEF get_route_rules, RuleOf
<1>5. at \in 0 .. n
  <2>1. CASE routing = {} BY <1>1, <2>1
  <2>2. CASE routing # {}
    <3>1. routing \in SUBSET Nat BY <1>1
    <3>2. Min(routing) \in routing
      <4> HIDE DEF routing
      <4> QED BY <2>2, <3>1, LeastOf
    <3>3. Min(routing) \in 1 .. n BY <1>1, <3>2
    <3> HIDE DEF routing, n
    <3> QED BY <1>1, <2>2, <3>3
  <2> QED BY <2>1, <2>2
<1> HIDE DEF S, at, n
<1>6. all \in Seq(S) /\ Len(all) = n
  <2>1. all \in [1 .. n -> S] BY <1>1, <1>2
  <2> HIDE DEF all
  <2> QED BY <1>1, <2>1, SeqTyped
<1> HIDE DEF all
<1>7. SubSeq(all, 1, at) \in Seq(S) /\ SubSeq(all, at + 1, Len(all)) \in Seq(S)
  <2>1. \A i \in 1 .. n : all[i] \in S BY <1>6
  <2>2. 1 \in Int /\ at \in Int /\ at + 1 \in Int /\ n \in Int /\ \A i \in 1 .. at : all[i] \in S BY <1>1, <1>5, <2>1
  <2>3. SubSeq(all, 1, at) \in Seq(S) BY <2>2, SubSeqProperties
  <2>4. \A i \in at + 1 .. n : all[i] \in S BY <1>1, <1>5, <2>1
  <2> DEFINE a == at + 1
  <2> HIDE DEF a
  <2>5. SubSeq(all, a, n) \in Seq(S) BY <2>2, <2>4, SubSeqProperties DEF a
  <2> QED BY <1>6, <2>3, <2>5 DEF a
<1>8. SubSeq(all, 1, at) \o <<Adblock>> \o SubSeq(all, at + 1, Len(all)) \in Seq(S)
  <2> DEFINE p == SubSeq(all, 1, at)
             q == SubSeq(all, at + 1, Len(all))
             b == <<Adblock>>
  <2>1. p \in Seq(S) /\ q \in Seq(S) /\ b \in Seq(S) BY <1>3, <1>7, OneLong
  <2> HIDE DEF p, q, b
  <2>2. p \o b \in Seq(S) BY <2>1, ConcatProperties
  <2>3. p \o b \o q \in Seq(S) BY <2>1, <2>2, ConcatProperties
  <2> QED BY <2>3 DEF p, q, b
<1> QED BY <1>4, <1>6, <1>8 DEF S

LEMMA BridgeTags ==
  ASSUME NEW b \in Gate
  PROVE  /\ BridgeTag(b) \in Words /\ BridgeTag(b) # NoTag /\ BridgeTag(b)[1] \in {"bridge", "bridge-loopback"}
         /\ b.outbound = <<"xray-direct">> => BridgeTag(b) = Tag(<<"bridge-loopback">>, b.port)
         /\ b.outbound # <<"xray-direct">> => BridgeTag(b) = <<"bridge">> \o b.outbound
<1>1. b.outbound \in Words /\ b.port \in Nat BY DEF Gate
<1>2. <<"bridge">> \in Words /\ <<"bridge-loopback">> \in Words
  <2>1. "bridge" \in Letters /\ "bridge-loopback" \in Letters BY DEF Letters, Texts
  <2> QED BY <2>1, OneLong DEF Words
<1>3. CASE b.outbound = <<"xray-direct">>
  <2>1. BridgeTag(b) = Tag(<<"bridge-loopback">>, b.port) BY <1>3 DEF BridgeTag
  <2> DEFINE p == <<"bridge-loopback">>
  <2>2. p \in Words /\ Len(p) = 1 /\ p[1] = "bridge-loopback" BY <1>2
  <2> HIDE DEF p
  <2>3. /\ Tag(p, b.port) \in Words /\ Len(Tag(p, b.port)) = Len(p) + 1
        /\ \A i \in 1 .. Len(p) : Tag(p, b.port)[i] = p[i]
        BY <1>1, <2>2, TagFacts
  <2>4. Tag(p, b.port)[1] = "bridge-loopback" /\ Len(Tag(p, b.port)) = 2 BY <2>2, <2>3
  <2>5. Tag(p, b.port) # NoTag BY <2>4 DEF NoTag
  <2> QED BY <1>3, <2>1, <2>3, <2>4, <2>5 DEF p
<1>4. CASE b.outbound # <<"xray-direct">>
  <2>1. BridgeTag(b) = <<"bridge">> \o b.outbound BY <1>4 DEF BridgeTag
  <2> DEFINE p == <<"bridge">>
             o == b.outbound
  <2>2. p \in Seq(Letters) /\ o \in Seq(Letters) /\ 1 \in DOMAIN p /\ p[1] = "bridge" BY <1>1, <1>2 DEF Words
  <2> HIDE DEF p, o
  <2>3. p \o o \in Seq(Letters) /\ 1 \in DOMAIN (p \o o) /\ (p \o o)[1] = "bridge" BY <2>2, ConcatFacts
  <2>4. p \o o # NoTag BY <2>3, OneSet DEF NoTag
  <2> QED BY <1>4, <2>1, <2>3, <2>4 DEF p, o, Words
<1> QED BY <1>3, <1>4

(* The parts of the route section, when it is not taken verbatim.          *)
Toward(g) == [i \in DOMAIN g.toSing |-> Rule("route", BridgeTag(g.toSing[i]), g.toSing[i].outbound, {})]
OfProcess(extra) == Whenever(extra # None, <<Rule("route", <<"process">>, <<"direct">>, {})>>)
Sniffs == <<Rule("sniff", NoTag, NoTag, {}), Rule("hijack-dns", NoTag, NoTag, {})>>
Rejects == <<Rule("reject", <<"dns-in">>, NoTag, {})>>
CatchAll(r) == Whenever(~r.raw /\ r.final = "block", <<Rule("reject", NoTag, NoTag, {})>>)

(* A question of Xray is taken from its inbound before it is rejected.     *)
LEMMA HijackFirst ==
  ASSUME NEW s \in Settings, NEW r \in Routes, ~r.raw, NEW g \in Context, NEW extra
  PROVE  HijacksFirst(buildRouteSection(s, r, g, extra).rules)
<1> DEFINE rules == buildRouteSection(s, r, g, extra).rules
           sniff == Rule("sniff", NoTag, NoTag, {})
           hij == Rule("hijack-dns", NoTag, NoTag, {})
           rej == Rule("reject", <<"dns-in">>, NoTag, {})
           proc == Rule("route", <<"process">>, <<"direct">>, {})
           catch == Rule("reject", NoTag, NoTag, {})
           bridge(i) == Rule("route", BridgeTag(g.toSing[i]), g.toSing[i].outbound, {})
           B == {bridge(i) : i \in DOMAIN g.toSing}
           S == B \cup {sniff, hij, rej, proc, catch} \cup RulesOf(s, r)
           T == Toward(g)
           P == OfProcess(extra)
           G == get_route_rules(s, r)
           C == CatchAll(r)
           q1 == T \o P
           q2 == q1 \o Sniffs
           q3 == q2 \o Rejects
           q4 == q3 \o G
<1>1. rules = q4 \o C
      BY DEF buildRouteSection, Toward, OfProcess, Sniffs, Rejects, CatchAll, Whenever
<1>2. /\ sniff.inbound = NoTag /\ hij.inbound = NoTag /\ hij.does = "hijack-dns" /\ rej.inbound = <<"dns-in">>
      /\ proc.inbound = <<"process">> /\ NoTag # <<"dns-in">> /\ <<"process">> # <<"dns-in">>
      BY DEF Rule, NoTag
<1>3. \A b \in B : b.inbound # <<"dns-in">>
  <2> SUFFICES ASSUME NEW i \in DOMAIN g.toSing PROVE bridge(i).inbound # <<"dns-in">> OBVIOUS
  <2>1. g.toSing[i] \in Gate BY Fields, ElementOfSeq
  <2>2. BridgeTag(g.toSing[i])[1] # "dns-in" BY <2>1, BridgeTags
  <2> DEFINE t == BridgeTag(g.toSing[i])
  <2>3. t # <<"dns-in">> BY <2>2
  <2> HIDE DEF t
  <2>4. bridge(i).inbound = t BY DEF Rule, t
  <2> QED BY <2>3, <2>4
<1>4. T \in Seq(S) /\ \A i \in DOMAIN T : T[i] \in B
  <2>1. g.toSing \in Seq(Gate) BY Fields
  <2>2. Len(g.toSing) \in Nat /\ DOMAIN g.toSing = 1 .. Len(g.toSing) BY <2>1, LenProperties
  <2>3. T = [i \in DOMAIN g.toSing |-> bridge(i)] BY DEF Toward
  <2>4. T \in [1 .. Len(g.toSing) -> S] /\ \A i \in DOMAIN T : T[i] \in B
    <3> HIDE DEF sniff, hij, rej, proc, catch, bridge, T
    <3> QED BY <2>2, <2>3
  <2> HIDE DEF T, S, B
  <2> QED BY <2>2, <2>4, SeqTyped
<1> HIDE DEF sniff, hij, rej, proc, catch, bridge, B
<1>5. P \in Seq(S) /\ \A i \in DOMAIN P : P[i] = proc
  <2>1. P = <<proc>> \/ P = << >> BY DEF OfProcess, Whenever, proc
  <2>2. proc \in S OBVIOUS
  <2> HIDE DEF S, P
  <2>3. CASE P = <<proc>> BY <2>2, <2>3, OneLong, OneSet
  <2>4. CASE P = << >>
    <3>1. P \in Seq(S) /\ DOMAIN P = {} BY <2>4, NoneSet
    <3> QED BY <3>1
  <2> QED BY <2>1, <2>3, <2>4
<1>6. Sniffs = <<sniff, hij>> /\ Rejects = <<rej>> BY DEF Sniffs, Rejects, sniff, hij, rej
<1>7. Sniffs \in Seq(S) /\ DOMAIN Sniffs = {1, 2} /\ Sniffs[1] = sniff /\ Sniffs[2] = hij /\ Len(Sniffs) = 2
  <2>1. sniff \in S /\ hij \in S OBVIOUS
  <2> HIDE DEF S
  <2> QED BY <1>6, <2>1
<1>8. Rejects \in Seq(S) /\ DOMAIN Rejects = {1} /\ Rejects[1] = rej
  <2>1. rej \in S OBVIOUS
  <2> HIDE DEF S
  <2> QED BY <1>6, <2>1, OneLong, OneSet
<1>9. G \in Seq(S) /\ C \in Seq(S)
  <2>1. G \in Seq(RulesOf(s, r)) BY RulesFacts
  <2>2. RulesOf(s, r) \subseteq S OBVIOUS
  <2>3. C = <<catch>> \/ C = << >> BY DEF CatchAll, Whenever, catch
  <2>4. catch \in S OBVIOUS
  <2> HIDE DEF S, G, C
  <2>5. G \in Seq(S) BY <2>1, <2>2
  <2> QED BY <2>3, <2>4, <2>5, OneLong, NoneSet
<1> HIDE DEF S, T, P, G, C
<1>10. q1 \in Seq(S) /\ \A i \in DOMAIN q1 : q1[i] \in B \cup {proc} BY <1>4, <1>5, ConcatFacts
<1> HIDE DEF q1
<1> DEFINE n == Len(q1)
<1>11. n \in Nat /\ DOMAIN q1 = 1 .. n BY <1>10, LenProperties
<1>12. /\ q2 \in Seq(S) /\ DOMAIN q2 = 1 .. n + 2 /\ n + 2 \in DOMAIN q2 /\ q2[n + 2] = hij /\ Len(q2) = n + 2
       /\ \A i \in DOMAIN q2 : q2[i] \in B \cup {proc, sniff, hij}
  <2> DEFINE q == q1 \o Sniffs
  <2>1. /\ q \in Seq(S) /\ Len(q) = n + 2 /\ DOMAIN q = 1 .. n + 2
        /\ \A i \in DOMAIN Sniffs : n + i \in DOMAIN q /\ q[n + i] = Sniffs[i]
        /\ \A i \in DOMAIN q : \/ i \in DOMAIN q1 /\ q[i] = q1[i]
                               \/ i - n \in DOMAIN Sniffs /\ q[i] = Sniffs[i - n]
        BY <1>7, <1>10, ConcatFacts
  <2> HIDE DEF q, n
  <2>2. n + 2 \in DOMAIN q /\ q[n + 2] = hij BY <1>7, <2>1
  <2>3. \A i \in DOMAIN q : q[i] \in B \cup {proc, sniff, hij} BY <1>7, <1>10, <2>1
  <2> QED BY <2>1, <2>2, <2>3 DEF q
<1> HIDE DEF q2, n
<1>13. /\ q3 \in Seq(S) /\ n + 3 \in DOMAIN q3 /\ q3[n + 3] = rej
       /\ \A i \in DOMAIN q2 : i \in DOMAIN q3 /\ q3[i] = q2[i]
  <2>1. /\ q3 \in Seq(S) /\ \A i \in DOMAIN q2 : i \in DOMAIN q3 /\ q3[i] = q2[i]
        /\ \A i \in DOMAIN Rejects : Len(q2) + i \in DOMAIN q3 /\ q3[Len(q2) + i] = Rejects[i]
        BY <1>8, <1>12, ConcatFacts
  <2> HIDE DEF q3
  <2>2. Len(q2) + 1 = n + 3 BY <1>11, <1>12
  <2> QED BY <1>8, <2>1, <2>2
<1> HIDE DEF q3
<1>14. q4 \in Seq(S) /\ \A i \in DOMAIN q3 : i \in DOMAIN q4 /\ q4[i] = q3[i] BY <1>9, <1>13, ConcatFacts
<1> HIDE DEF q4
<1>15. q4 \o C \in Seq(S) /\ \A i \in DOMAIN q4 : i \in DOMAIN (q4 \o C) /\ (q4 \o C)[i] = q4[i]
       BY <1>9, <1>14, ConcatFacts
<1> HIDE DEF rules
<1>16. /\ rules \in Seq(S) /\ n + 3 \in DOMAIN rules /\ rules[n + 3] = rej /\ n + 2 \in DOMAIN rules /\ rules[n + 2] = hij
       /\ \A i \in 1 .. n + 2 : rules[i] \in B \cup {proc, sniff, hij}
       BY <1>1, <1>12, <1>13, <1>14, <1>15
<1> DEFINE hijack == {i \in DOMAIN rules : rules[i].does = "hijack-dns"}
           reject == {i \in DOMAIN rules : rules[i].inbound = <<"dns-in">>}
<1>17. DOMAIN rules = 1 .. Len(rules) /\ Len(rules) \in Nat BY <1>16, LenProperties
<1>18. n + 2 \in hijack /\ n + 3 \in reject /\ hijack \in SUBSET Nat /\ reject \in SUBSET Nat BY <1>2, <1>16, <1>17
<1>19. ASSUME NEW i \in reject PROVE i > n + 2
  <2>1. i \in DOMAIN rules /\ rules[i].inbound = <<"dns-in">> /\ i \in Nat /\ i > 0 BY <1>17
  <2>2. \A x \in B \cup {proc, sniff, hij} : x.inbound # <<"dns-in">> BY <1>2, <1>3
  <2>3. i \notin 1 .. n + 2 BY <1>16, <2>1, <2>2
  <2> QED BY <1>11, <2>1, <2>3
<1> HIDE DEF hijack, reject
<1>20. Min(hijack) <= n + 2 /\ Min(hijack) \in Nat /\ Min(reject) \in reject /\ Min(reject) \in Nat BY <1>18, LeastOf
<1>21. Min(hijack) < Min(reject) BY <1>11, <1>19, <1>20
<1>22. HijacksFirst(rules) BY <1>18, <1>21, Zenon DEF hijack, reject, HijacksFirst
<1> QED BY <1>22, Zenon DEF rules

-----------------------------------------------------------------------------
(* The configuration of a start.                                           *)

IsStarted(b) == ~b.error /\ {"tags", "full"} \cap DOMAIN b = {}

StartParts(b, g, live, s, r, id) ==
  LET loopback == \E i \in DOMAIN g.toSing : g.toSing[i].outbound = <<"xray-direct">>
  IN  /\ Kind(id) # "full" /\ RouteOutboundsAllowed(live, r) /\ ~g.error
      /\ b.outbounds = g.sing \o Whenever(loopback, <<Plain(<<"xray-direct">>)>>) \o <<Plain(<<"direct">>)>>
      /\ b.inbounds = buildInboundSection(s) \o Bridges(g)
      /\ b.route = buildRouteSection(s, r, g, ExtraCore(live, id))
      /\ b.dns = buildDNSSection(s, r, id, DirectDomains(live, s, r, id))
      /\ b.xray = buildXrayConfig(g, TRUE)

LEMMA StartedFacts ==
  ASSUME NEW live, NEW s \in Settings, NEW r \in Routes, NEW id \in Profiles, NEW b,
         b = BuildSingBoxConfig(live, s, r, id), IsStarted(b)
  PROVE  StartParts(b, buildOutboundsSection(live, s, r, id), live, s, r, id)
<1> DEFINE g == buildOutboundsSection(live, s, r, id)
           loopback == \E i \in DOMAIN g.toSing : g.toSing[i].outbound = <<"xray-direct">>
           extra == ExtraCore(live, id)
           outbounds == g.sing \o Whenever(loopback, <<Plain(<<"xray-direct">>)>>) \o <<Plain(<<"direct">>)>>
           inbounds == buildInboundSection(s) \o Bridges(g)
           ways == buildRouteSection(s, r, g, extra)
           dns == buildDNSSection(s, r, id, DirectDomains(live, s, r, id))
           xray == buildXrayConfig(g, TRUE)
           Allowed == RouteOutboundsAllowed(live, r)
           done == [error |-> FALSE, outbounds |-> outbounds, inbounds |-> inbounds, route |-> ways, dns |-> dns,
                    xray |-> xray, extraCore |-> extra, chainGroups |-> g.groups]
<1>1. b = CASE Kind(id) = "full" -> [error |-> FALSE, full |-> id]
            [] Kind(id) # "full" /\ (~Allowed \/ g.error) -> Error
            [] OTHER -> done
      BY Zenon DEF BuildSingBoxConfig
<1> HIDE DEF Allowed, g, outbounds, inbounds, ways, dns, xray, extra
<1>2. Kind(id) # "full"
  <2> SUFFICES ASSUME Kind(id) = "full" PROVE FALSE OBVIOUS
  <2>1. b = [error |-> FALSE, full |-> id] BY <1>1
  <2>2. "full" \in DOMAIN b BY <2>1
  <2> QED BY <2>2 DEF IsStarted
<1>3. Allowed /\ ~g.error
  <2> SUFFICES ASSUME ~Allowed \/ g.error PROVE FALSE OBVIOUS
  <2>1. b = Error BY <1>1, <1>2
  <2> QED BY <2>1 DEF Error, IsStarted
<1>4. b = done
  <2> HIDE DEF done
  <2> QED BY <1>1, <1>2, <1>3
<1>5. /\ b.outbounds = outbounds /\ b.inbounds = inbounds /\ b.route = ways /\ b.dns = dns /\ b.xray = xray
      BY <1>4
<1>6. StartParts(b, g, live, s, r, id)
      BY <1>2, <1>3, <1>5, Zenon DEF Allowed, outbounds, inbounds, ways, dns, xray, extra, StartParts
<1> QED BY <1>6, Zenon DEF g

(* No connection of Xray leaves by the system's default route.             *)
LEMMA StartAvoidsTun ==
  ASSUME NEW live, NEW s \in Settings, NEW r \in Routes, NEW id \in Profiles, NEW b,
         b = BuildSingBoxConfig(live, s, r, id), IsStarted(b), Groups, s.tun, NEW tag
  PROVE  Walk(b, tag).at # End("os")
<1> DEFINE g == buildOutboundsSection(live, s, r, id)
           S == XrayHopsOf(live, r, id)
<1>0. StartParts(b, g, live, s, r, id) BY StartedFacts
<1>2. Sound(g, s.tun, S) BY SectionSound
<1> HIDE DEF g, S
<1>1. ~g.error /\ b.xray = buildXrayConfig(g, TRUE) BY <1>0, Zenon DEF StartParts
<1>3. XrayGuarded(b.xray) BY <1>1, <1>2, XrayBuilt
<1> QED BY <1>3, WalkPlaces

LEMMA DomainsOf ==
  ASSUME NEW live, NEW ids \in SUBSET Profiles, NEW p \in ids \cap live, NEW h \in ToSet(Hops(p)), h \in live,
         Kind(h) = "xray", Profile[h].domain # Empty
  PROVE  Profile[h].domain \in getEntDomains(live, ids)
<1> DEFINE all == UNION {IF Kind(i) = "chain" THEN ToSet(Profile[i].list) ELSE {i} : i \in ids \cap live}
<1>1. h \in IF Kind(p) = "chain" THEN ToSet(Profile[p].list) ELSE {p} BY HopsFacts
<1> DEFINE W == IF Kind(p) = "chain" THEN ToSet(Profile[p].list) ELSE {p}
<1>2. W \in {IF Kind(i) = "chain" THEN ToSet(Profile[i].list) ELSE {i} : i \in ids \cap live} OBVIOUS
<1>a. h \in W BY <1>1
<1> HIDE DEF W
<1>b. h \in all BY <1>2, <1>a
<1>c. getEntDomains(live, ids) = Domains(all \cap live) BY DEF getEntDomains
<1> HIDE DEF all
<1>3. h \in all \cap live /\ Kind(h) # "extracore" BY <1>b
<1>4. Profile[h].domain \in Domains(all \cap live) BY <1>3, Zenon DEF Domains
<1> QED BY <1>4, <1>c

(* The names of the hops of Xray are asked of the direct DNS server.       *)
LEMMA StartNamesDirect ==
  ASSUME NEW live, NEW s \in Settings, NEW r \in Routes, NEW id \in Profiles, id \in live, live \subseteq Profiles, NEW b,
         b = BuildSingBoxConfig(live, s, r, id), IsStarted(b), Groups, ~s.fake, ~r.raw,
         NEW i \in DOMAIN b.xray.outbounds, NEW h \in Profiles, h = b.xray.outbounds[i].hop,
         Kind(h) = "xray", Profile[h].domain \notin {Empty, "ts.net"} \cup s.hijack,
         \/ h \notin {front, landing}
         \/ h \in ToSet(Hops(id)) \cup
              UNION {ToSet(Hops(UsedOutbounds(r)[j])) : j \in 1 .. Len(UsedOutbounds(r))}
  PROVE  Resolved(b, Profile[h].domain)
<1> DEFINE g == buildOutboundsSection(live, s, r, id)
           S == XrayHopsOf(live, r, id)
           used == UsedOutbounds(r)
           direct == DirectDomains(live, s, r, id)
           asked == getEntDomains(live, ToSet(used) \cup {id})
           name == Profile[h].domain
<1>1. /\ ~g.error /\ RouteOutboundsAllowed(live, r) /\ b.xray = buildXrayConfig(g, TRUE)
      /\ b.route = buildRouteSection(s, r, g, ExtraCore(live, id))
      /\ b.dns = buildDNSSection(s, r, id, direct)
  <2>1. StartParts(b, g, live, s, r, id) BY StartedFacts
  <2> HIDE DEF g
  <2> QED BY <2>1, Zenon DEF StartParts
<1>2. Sound(g, s.tun, S) BY SectionSound
<1>3. g \in Context BY <1>2 DEF Sound
<1>4. HijacksFirst(b.route.rules)
  <2> DEFINE extra == ExtraCore(live, id)
             R == buildRouteSection(s, r, g, extra)
  <2>1. b.route = R BY <1>1
  <2> HIDE DEF g, extra
  <2>2. HijacksFirst(R.rules) BY <1>3, HijackFirst
  <2> HIDE DEF R
  <2> QED BY <2>1, <2>2, Zenon
<1>5. h \in S
  <2> HIDE DEF g, S
  <2>1. h \in S \cup {"bridge", "direct"} BY <1>1, <1>2, XrayBuilt
  <2>2. h # "bridge" /\ h # "direct" BY ProfileFacts DEF Predefined
  <2> QED BY <2>1, <2>2
<1>6. /\ h \in live
      /\ h \in ToSet(Hops(id)) \cup UNION {ToSet(Hops(used[j])) : j \in 1 .. Len(used)}
  <2>1. h # "warp" /\ h # "bridge" BY ProfileFacts
  <2> QED BY <1>5, <2>1 DEF XrayHopsOf
<1>7. PICK p \in (ToSet(used) \cup {id}) \cap live : h \in ToSet(Hops(p))
  <2>1. CASE h \in ToSet(Hops(id)) BY <2>1
  <2>2. CASE h \in UNION {ToSet(Hops(used[j])) : j \in 1 .. Len(used)}
    <3>1. PICK j \in 1 .. Len(used) : h \in ToSet(Hops(used[j])) BY <2>2
    <3>2. DOMAIN used = 1 .. Len(used) BY StartFacts
    <3>3. used[j] \in live BY <1>1, <3>2, Zenon DEF RouteOutboundsAllowed
    <3>4. used[j] \in ToSet(used) BY <3>2 DEF ToSet
    <3> QED BY <3>1, <3>3, <3>4
  <2> QED BY <1>6, <2>1, <2>2
<1>8. ToSet(used) \cup {id} \subseteq Profiles
  <2>1. used \in Seq(Profiles) BY UsedFacts
  <2> HIDE DEF used
  <2>2. \A j \in DOMAIN used : used[j] \in Profiles BY <2>1
  <2> QED BY <2>2 DEF ToSet
<1>9. name \in asked
  <2> DEFINE ids == ToSet(used) \cup {id}
  <2>1. ids \in SUBSET Profiles /\ p \in ids \cap live BY <1>7, <1>8
  <2> HIDE DEF ids, used
  <2> QED BY <1>6, <1>7, <2>1, DomainsOf DEF ids
<1>10. name \in direct
  <2> HIDE DEF asked
  <2> QED BY <1>9 DEF DirectDomains, asked
<1>11. ServerFor(b.dns, name) = "dns-direct"
  <2>1. b.dns = buildDNSSection(s, r, id, direct) BY <1>1
  <2>2. name \in direct /\ name # "ts.net" /\ name \notin s.hijack BY <1>10
  <2> HIDE DEF direct, name
  <2>3. ServerFor(buildDNSSection(s, r, id, direct), name) = "dns-direct" BY <2>2, DnsDirect, Zenon
  <2> QED BY <2>1, <2>3
<1> QED BY <1>4, <1>11 DEF Resolved

-----------------------------------------------------------------------------
(* The tags of a chain: no two of its outbounds share one, and the detours *)
(* name outbounds of the chain.                                            *)

\* A chain as it is built: Warp stands first, and in front of something.
WellLinked(c) ==
  /\ c.link \/ Len(c.ids) <= 1
  /\ c.warp => c.main /\ Len(c.ids) >= 2 /\ c.ids[1] = "warp"

SingTag(c, i) ==
  IF c.warp /\ i = 2 THEN <<"warp-bypass">>
  ELSE IF c.main /\ i = 1 THEN <<"proxy">> ELSE Tag(c.prefix, c.start + i - 1)
XrayTag(c, i) == IF c.main /\ i = 1 THEN <<"proxy">> ELSE Tag(c.prefix, c.start + i - 1)

LEMMA TagsDiffer ==
  ASSUME NEW c \in ChainOf, NEW i \in Nat \ {0}, NEW j \in Nat \ {0}
  PROVE  /\ SingTag(c, i) = SingTag(c, j) => i = j
         /\ XrayTag(c, i) = XrayTag(c, j) => i = j
         /\ SingTag(c, i) \in Words \ {NoTag, <<"xray-direct">>, <<"direct">>}
         /\ XrayTag(c, i) \in Words \ {NoTag, <<"xray-direct">>, <<"direct">>}
<1>1. c.prefix \in Lines /\ c.start \in Nat BY Fields
<1>2. ASSUME NEW n \in Nat, NEW m \in Nat, Tag(c.prefix, n) = Tag(c.prefix, m) PROVE n = m BY <1>1, <1>2, Numbered
<1>3. c.start + i - 1 \in Nat /\ c.start + j - 1 \in Nat BY <1>1
<1>4. /\ Tag(c.prefix, c.start + i - 1) \in Words \ Singles /\ Tag(c.prefix, c.start + j - 1) \in Words \ Singles
      /\ Tag(c.prefix, c.start + i - 1) # NoTag
      BY <1>1, <1>3, Numbered
<1>5. {<<"proxy">>, <<"warp-bypass">>, <<"xray-direct">>, <<"direct">>} \subseteq Singles /\ Singles \subseteq Words
      /\ NoTag \notin Singles
      BY Plainly DEF Singles
<1>6. <<"proxy">> # <<"warp-bypass">> /\ <<"proxy">> \notin {<<"xray-direct">>, <<"direct">>}
      /\ <<"warp-bypass">> \notin {<<"xray-direct">>, <<"direct">>}
  <2>1. \A x, y : <<x>> = <<y>> => x = y OBVIOUS
  <2> QED BY <2>1
<1>7. Tag(c.prefix, c.start + i - 1) = Tag(c.prefix, c.start + j - 1) => i = j
  <2> HAVE Tag(c.prefix, c.start + i - 1) = Tag(c.prefix, c.start + j - 1)
  <2>1. c.start + i - 1 = c.start + j - 1 BY <1>2, <1>3
  <2> QED BY <1>1, <2>1
<1> DEFINE t == Tag(c.prefix, c.start + i - 1)
           u == Tag(c.prefix, c.start + j - 1)
<1>8. SingTag(c, i) = SingTag(c, j) => i = j
  <2> HIDE DEF t, u
  <2> QED BY <1>4, <1>5, <1>6, <1>7 DEF SingTag, t, u
<1>9. XrayTag(c, i) = XrayTag(c, j) => i = j BY <1>4, <1>5, <1>6, <1>7 DEF XrayTag
<1> QED BY <1>4, <1>5, <1>6, <1>8, <1>9 DEF SingTag, XrayTag

(* How long the parts are.                                                 *)
LEMMA PartLengths ==
  ASSUME NEW g \in Context, NEW c \in ChainOf, WellLinked(c)
  PROVE  LET n == Len(c.ids)
             e == Len(entryHops(g, c.ids))
             l == Len(tailingSingEnts(c.ids))
             x == Len(xrayEnts(c.ids))
             by == xrayToSingBridge(g, c.ids).by
         IN  /\ n \in Nat /\ e \in Nat /\ l \in Nat /\ x \in Nat /\ e + l <= n /\ x <= n
             /\ n > 0 => e > 0
             /\ c.warp => e >= 2
             /\ xrayAt(c.ids) # {} => x > 0 /\ e > 0 /\ n > 0
             /\ by = "bridge" => x + 1 <= n /\ l > 0
             /\ l > 0 => by = "bridge"
             /\ by = "bridge" => c.link
<1> DEFINE ids == c.ids
           n == Len(ids)
           e == Len(entryHops(g, ids))
           l == Len(tailingSingEnts(ids))
           x == Len(xrayEnts(ids))
           by == xrayToSingBridge(g, ids).by
<1>1. ids \in Seq(Ids) BY Fields
<1>2. n \in Nat BY <1>1, LenProperties
<1>3. e = Len(initialSingEnts(ids)) + (IF xrayAt(ids) = {} THEN 0 ELSE 1) BY <1>1, EntryFacts
<1>4. by = "bridge" <=> xrayAt(ids) # {} /\ tailingSingEnts(ids) # << >> BY <1>1, ExitFacts
<1>5. tailingSingEnts(ids) \in Seq(Ids) BY <1>1, Parts
<1>6. tailingSingEnts(ids) # << >> <=> l > 0
  <2> HIDE DEF ids
  <2> QED BY <1>5
<1>7. CASE xrayAt(ids) = {}
  <2>1. initialSingEnts(ids) = ids /\ xrayEnts(ids) = << >> /\ tailingSingEnts(ids) = << >> BY <1>1, <1>7, Parts
  <2>2. e = n /\ l = 0 /\ x = 0 BY <1>2, <1>3, <1>7, <2>1
  <2>3. by # "bridge" BY <1>4, <1>7
  <2>4. c.warp => n >= 2 BY DEF WellLinked
  <2> HIDE DEF n, e, l, x, by
  <2>5. /\ n \in Nat /\ e \in Nat /\ l \in Nat /\ x \in Nat /\ e + l <= n /\ x <= n
        /\ n > 0 => e > 0
        /\ c.warp => e >= 2
        /\ by = "bridge" => x + 1 <= n /\ l > 0
        /\ l > 0 => by = "bridge"
        BY <1>2, <2>2, <2>3, <2>4
  <2> QED BY <1>7, <2>3, <2>5 DEF n, e, l, x, by
<1>8. CASE xrayAt(ids) # {}
  <2>1. PICK a, b \in 1 .. n :
          /\ a <= b /\ Len(initialSingEnts(ids)) = a - 1 /\ x = b - a + 1 /\ l = n - b /\ a \in xrayAt(ids)
        BY <1>1, <1>8, Parts
  <2>2. e = a BY <1>3, <1>8, <2>1
  <2>3. c.warp => n >= 2 BY DEF WellLinked
  <2>4. c.warp => a # 1
    <3> SUFFICES ASSUME c.warp, a = 1 PROVE FALSE OBVIOUS
    <3>1. ids[1] = "warp" /\ IsXray(ids[1]) BY <2>1 DEF WellLinked, xrayAt, Where
    <3>2. Kind("warp") = "endpoint" BY DEF Kind
    <3> QED BY <3>1, <3>2 DEF IsXray
  <2>5. c.link \/ n <= 1 BY DEF WellLinked
  <2>6. by = "bridge" <=> l > 0 BY <1>4, <1>6, <1>8
  <2> HIDE DEF n, e, l, x, by
  <2>7. /\ n \in Nat /\ e \in Nat /\ l \in Nat /\ x \in Nat /\ e + l <= n /\ x <= n
        /\ n > 0 /\ e > 0 /\ x > 0
        /\ c.warp => e >= 2
        /\ l > 0 => x + 1 <= n /\ c.link
        BY <1>2, <2>1, <2>2, <2>3, <2>4, <2>5
  <2> QED BY <2>6, <2>7 DEF n, e, l, x, by
<1> QED BY <1>7, <1>8

IsSingLine(q, c, hops, start, first) ==
  /\ q \in Seq(SingHop) /\ Len(q) = Len(hops) /\ DOMAIN q = 1 .. Len(hops)
  /\ \A i \in 1 .. Len(hops) :
       /\ q[i].tag = IF first /\ c.warp /\ i = 2 THEN <<"warp-bypass">>
                     ELSE IF first /\ c.main /\ i = 1 THEN <<"proxy">> ELSE Tag(c.prefix, start + i - 1)
       /\ q[i].detour = IF first /\ c.warp /\ i = 1 THEN <<"warp-bypass">>
                        ELSE IF i < Len(hops) /\ c.link THEN Tag(c.prefix, start + i) ELSE NoTag
LEMMA SingIsLine ==
  ASSUME NEW c \in ChainOf, NEW hops \in Seq(Hop), NEW start \in Nat, NEW first \in BOOLEAN
  PROVE  IsSingLine(buildSingboxChain(c, hops, start, first), c, hops, start, first)
BY SingChain DEF IsSingLine

(* The outbounds of sing-box for a chain, one after the other.             *)
LEMMA SingLine ==
  ASSUME NEW g \in Context, NEW c \in ChainOf, WellLinked(c)
  PROVE  LET q == firstSing(g, c) \o lastSing(g, c)
             e == Len(entryHops(g, c.ids))
             l == Len(tailingSingEnts(c.ids))
         IN  /\ q \in Seq(SingHop) /\ Len(q) = e + l /\ DOMAIN q = 1 .. e + l
             /\ \A i \in 1 .. e + l :
                  /\ q[i].tag = SingTag(c, i)
                  /\ q[i].detour = NoTag \/ (i + 1 \in 1 .. e + l /\ q[i].detour = SingTag(c, i + 1))
             /\ l > 0 => lastSing(g, c) # << >> /\ lastSing(g, c)[1].tag = SingTag(c, e + 1)
<1> DEFINE ids == c.ids
           e == Len(entryHops(g, ids))
           l == Len(tailingSingEnts(ids))
           p == firstSing(g, c)
           t == lastSing(g, c)
           q == p \o t
<1>1. e \in Nat /\ l \in Nat /\ (c.warp => e >= 2) /\ (l > 0 => e > 0 /\ c.link) BY PartLengths
<1>2. /\ ids \in Seq(Ids) /\ c.start \in Nat /\ c.prefix \in Lines
      /\ c.main \in BOOLEAN /\ c.link \in BOOLEAN /\ c.warp \in BOOLEAN
      BY Fields
<1>3. entryHops(g, ids) \in Seq(Hop) BY <1>2, EntryFacts
<1>4. Dialled(g, tailingSingEnts(ids)) \in Seq(Hop) /\ Len(Dialled(g, tailingSingEnts(ids))) = l
  <2>1. tailingSingEnts(ids) \in Seq(Ids) BY <1>2, Parts
  <2> QED BY <2>1, DialledFacts
<1>5. TailStart(c, entryHops(g, ids)) = c.start + e BY DEF TailStart
<1> HIDE DEF ids
<1>6. /\ p \in Seq(SingHop) /\ Len(p) = e /\ DOMAIN p = 1 .. e
      /\ \A i \in 1 .. e :
           /\ p[i].tag = IF c.warp /\ i = 2 THEN <<"warp-bypass">>
                         ELSE IF c.main /\ i = 1 THEN <<"proxy">> ELSE Tag(c.prefix, c.start + i - 1)
           /\ p[i].detour = IF c.warp /\ i = 1 THEN <<"warp-bypass">>
                            ELSE IF i < e /\ c.link THEN Tag(c.prefix, c.start + i) ELSE NoTag
  <2> DEFINE hops == entryHops(g, ids)
             m == c.start
  <2>1. p = buildSingboxChain(c, hops, m, TRUE) BY DEF firstSing, ids
  <2>2. hops \in Seq(Hop) /\ Len(hops) = e /\ m \in Nat BY <1>2, <1>3 DEF ids
  <2> HIDE DEF p, hops, m, e
  <2>3. IsSingLine(p, c, hops, m, TRUE) BY <2>1, <2>2, SingIsLine
  <2>4. /\ p \in Seq(SingHop) /\ Len(p) = e /\ DOMAIN p = 1 .. e
        /\ \A i \in 1 .. e :
             /\ p[i].tag = IF c.warp /\ i = 2 THEN <<"warp-bypass">>
                           ELSE IF c.main /\ i = 1 THEN <<"proxy">> ELSE Tag(c.prefix, m + i - 1)
             /\ p[i].detour = IF c.warp /\ i = 1 THEN <<"warp-bypass">>
                              ELSE IF i < e /\ c.link THEN Tag(c.prefix, m + i) ELSE NoTag
        BY <2>2, <2>3 DEF IsSingLine
  <2> QED BY <2>4 DEF m
<1>7. /\ t \in Seq(SingHop) /\ Len(t) = l /\ DOMAIN t = 1 .. l
      /\ \A i \in 1 .. l :
           /\ t[i].tag = Tag(c.prefix, c.start + e + i - 1)
           /\ t[i].detour = IF i < l /\ c.link THEN Tag(c.prefix, c.start + e + i) ELSE NoTag
  <2> DEFINE hops == Dialled(g, tailingSingEnts(ids))
             m == c.start + e
  <2>1. t = buildSingboxChain(c, hops, m, FALSE) BY <1>5 DEF lastSing, ids
  <2>2. hops \in Seq(Hop) /\ Len(hops) = l /\ m \in Nat BY <1>1, <1>2, <1>4
  <2> HIDE DEF t, hops, m
  <2>3. IsSingLine(t, c, hops, m, FALSE) BY <2>1, <2>2, SingIsLine
  <2>4. /\ t \in Seq(SingHop) /\ Len(t) = l /\ DOMAIN t = 1 .. l
        /\ \A i \in 1 .. l :
             /\ t[i].tag = Tag(c.prefix, m + i - 1)
             /\ t[i].detour = IF i < l /\ c.link THEN Tag(c.prefix, m + i) ELSE NoTag
        BY <2>2, <2>3 DEF IsSingLine
  <2> QED BY <2>4 DEF m
<1> HIDE DEF p, t, e, l
<1>8. /\ q \in Seq(SingHop) /\ Len(q) = e + l /\ DOMAIN q = 1 .. e + l
      /\ \A i \in 1 .. e : q[i] = p[i]
      /\ \A i \in DOMAIN q : \/ i \in 1 .. e /\ q[i] = p[i]
                             \/ i - e \in 1 .. l /\ q[i] = t[i - e]
  <2>1. p \in Seq(SingHop) /\ t \in Seq(SingHop) BY <1>6, <1>7
  <2>2. /\ q \in Seq(SingHop) /\ Len(q) = Len(p) + Len(t) /\ DOMAIN q = 1 .. Len(p) + Len(t)
        /\ \A i \in DOMAIN p : i \in DOMAIN q /\ q[i] = p[i]
        /\ \A i \in DOMAIN q : \/ i \in DOMAIN p /\ q[i] = p[i]
                               \/ i - Len(p) \in DOMAIN t /\ q[i] = t[i - Len(p)]
        BY ONLY <2>1, ConcatFacts
  <2> HIDE DEF q
  <2> QED BY <1>6, <1>7, <2>2
<1> HIDE DEF q
<1>9. ASSUME NEW i \in 1 .. e + l
      PROVE  /\ q[i].tag = SingTag(c, i)
             /\ q[i].detour = NoTag \/ (i + 1 \in 1 .. e + l /\ q[i].detour = SingTag(c, i + 1))
  <2>0. i \in Nat /\ i > 0 /\ i + 1 # 1 BY <1>1
  <2>1. i + 1 # 2 => SingTag(c, i + 1) = Tag(c.prefix, c.start + i)
    <3>1. c.start + (i + 1) - 1 = c.start + i BY <1>2, <2>0
    <3> QED BY <2>0, <3>1 DEF SingTag
  <2>2. CASE i \in 1 .. e /\ q[i] = p[i]
    <3>1. q[i].tag = SingTag(c, i) BY <1>6, <2>2 DEF SingTag
    <3>2. CASE c.warp /\ i = 1
      <4>1. q[i].detour = <<"warp-bypass">> BY <1>6, <2>2, <3>2
      <4>2. SingTag(c, i + 1) = <<"warp-bypass">> BY <3>2 DEF SingTag
      <4>3. i + 1 \in 1 .. e + l BY <1>1, <3>2
      <4> QED BY <3>1, <4>1, <4>2, <4>3
    <3>3. CASE ~(c.warp /\ i = 1) /\ i < e /\ c.link
      <4>1. q[i].detour = Tag(c.prefix, c.start + i) BY <1>6, <2>2, <3>3
      <4>2. SingTag(c, i + 1) = Tag(c.prefix, c.start + i)
        <5>1. CASE i + 1 # 2 BY <2>1, <5>1
        <5>2. CASE i + 1 = 2
          <6>1. i = 1 /\ c.start + (i + 1) - 1 = c.start + i BY <1>2, <2>0, <5>2
          <6>2. ~c.warp BY <3>3, <6>1
          <6> QED BY <2>0, <6>1, <6>2 DEF SingTag
        <5> QED BY <5>1, <5>2
      <4>3. i + 1 \in 1 .. e + l BY <1>1, <3>3
      <4> QED BY <3>1, <4>1, <4>2, <4>3
    <3>4. CASE ~(c.warp /\ i = 1) /\ ~(i < e /\ c.link)
      <4>1. q[i].detour = NoTag BY <1>6, <2>2, <3>4
      <4> QED BY <3>1, <4>1
    <3> QED BY <3>2, <3>3, <3>4
  <2>3. CASE i - e \in 1 .. l /\ q[i] = t[i - e]
    <3>1. /\ l > 0 /\ e > 0 /\ c.start + e + (i - e) - 1 = c.start + i - 1
          /\ c.start + e + (i - e) = c.start + i /\ i # 1 /\ (c.warp => i # 2) /\ i + 1 # 2
      <4>1. e \in Nat /\ l \in Nat /\ e > 0 /\ i \in Nat /\ i - e >= 1 /\ i - e <= l BY <1>1, <1>2, <2>0, <2>3
      <4>2. l > 0 /\ i # 1 /\ i + 1 # 2 BY <4>1
      <4>3. c.warp => i # 2 BY <1>1, <1>2, <4>1
      <4>4. c.start + e + (i - e) - 1 = c.start + i - 1 /\ c.start + e + (i - e) = c.start + i BY <1>2, <4>1
      <4> QED BY <4>1, <4>2, <4>3, <4>4
    <3>2. q[i].tag = Tag(c.prefix, c.start + i - 1) BY <1>7, <2>3, <3>1
    <3>3. q[i].tag = SingTag(c, i) BY <3>1, <3>2 DEF SingTag
    <3>4. q[i].detour = IF i - e < l /\ c.link THEN Tag(c.prefix, c.start + i) ELSE NoTag BY <1>7, <2>3, <3>1
    <3>5. i - e < l => i + 1 \in 1 .. e + l BY <1>1, <2>0
    <3> QED BY <2>1, <3>1, <3>3, <3>4, <3>5
  <2> QED BY <1>8, <2>2, <2>3
<1>10. ASSUME l > 0 PROVE t # << >> /\ t[1].tag = SingTag(c, e + 1)
  <2>1. /\ 1 \in 1 .. l /\ e > 0 /\ c.start + e + 1 - 1 = c.start + (e + 1) - 1 /\ e + 1 # 1 /\ (c.warp => e + 1 # 2)
        BY <1>1, <1>2, <1>10
  <2>2. t[1].tag = Tag(c.prefix, c.start + (e + 1) - 1) BY <1>7, <2>1
  <2>3. t # << >> BY <1>7, <1>10
  <2> QED BY <2>1, <2>2, <2>3 DEF SingTag
<1> QED BY <1>8, <1>9, <1>10 DEF q, p, t, e, l, ids

(* The outbounds of Xray for a chain, one after the other.                 *)
LEMMA XrayLine ==
  ASSUME NEW g \in Context, NEW c \in ChainOf, WellLinked(c)
  PROVE  LET q == xrayHops(g, c)
             x == Len(xrayEnts(c.ids))
             k == IF xrayToSingBridge(g, c.ids).by \in {"bridge", "loopback"} THEN x + 1 ELSE x
         IN  /\ q \in Seq(XrayHop)
             /\ xrayAt(c.ids) = {} => q = << >>
             /\ xrayAt(c.ids) # {} =>
                  /\ Len(q) = k /\ DOMAIN q = 1 .. k /\ k > 0 /\ k \in Nat
                  /\ \A i \in 1 .. k :
                       /\ q[i].tag = XrayTag(c, i)
                       /\ q[i].via = NoTag \/ (i + 1 \in 1 .. k /\ q[i].via = XrayTag(c, i + 1))
<1> DEFINE ids == c.ids
           xs == xrayEnts(ids)
           x == Len(xs)
           leave == xrayToSingBridge(g, ids)
           bridge == leave.by \in {"bridge", "loopback"}
           k == IF bridge THEN x + 1 ELSE x
           q == xrayHops(g, c)
<1>1. q \in Seq(XrayHop) /\ (xrayAt(ids) = {} => q = << >>) BY Pieces
<1> SUFFICES ASSUME xrayAt(ids) # {}
             PROVE  /\ Len(q) = k /\ DOMAIN q = 1 .. k /\ k > 0 /\ k \in Nat
                    /\ \A i \in 1 .. k :
                         /\ q[i].tag = XrayTag(c, i)
                         /\ q[i].via = NoTag \/ (i + 1 \in 1 .. k /\ q[i].via = XrayTag(c, i + 1))
    BY <1>1
<1>2. x \in Nat /\ x > 0 BY PartLengths
<1>3. /\ ids \in Seq(Ids) /\ c.start \in Nat /\ c.prefix \in Lines /\ g.interface \in Devices
      BY Fields
<1>4. xs \in Seq(Ids) /\ leave \in Exit BY <1>3, Parts, ExitFacts
<1>5. q = buildXrayChain(c, xs, leave, g.interface) BY DEF xrayHops
<1> HIDE DEF ids, xs, leave, q
<1>6. /\ Len(q) = x + (IF bridge THEN 1 ELSE 0) /\ DOMAIN q = 1 .. Len(q)
      /\ \A i \in 1 .. x : IsXrayHop(q[i], c, xs, leave, g.interface, i)
      /\ bridge => q[x + 1].tag = Tag(c.prefix, c.start + x) /\ q[x + 1].via = NoTag
      BY <1>3, <1>4, <1>5, XrayChain
<1> HIDE DEF bridge, x
<1>7. Len(q) = k /\ k \in Nat /\ k > 0 /\ x <= k /\ (bridge => x + 1 <= k) BY <1>2, <1>6
<1>8. ASSUME NEW i \in 1 .. x
      PROVE  /\ q[i].tag = XrayTag(c, i)
             /\ q[i].via = NoTag \/ (i + 1 \in 1 .. k /\ q[i].via = XrayTag(c, i + 1))
  <2>1. /\ q[i].tag = IF c.main /\ i = 1 THEN <<"proxy">> ELSE Tag(c.prefix, c.start + i - 1)
        /\ q[i].via = IF (i < x /\ c.link) \/ bridge THEN Tag(c.prefix, c.start + i) ELSE NoTag
        BY <1>6 DEF IsXrayHop, bridge, x
  <2>2. i \in Nat /\ i + 1 # 1 /\ c.start + (i + 1) - 1 = c.start + i BY <1>2, <1>3
  <2>3. XrayTag(c, i + 1) = Tag(c.prefix, c.start + i) BY <2>2 DEF XrayTag
  <2>4. i < x \/ bridge => i + 1 \in 1 .. k BY <1>2, <1>7
  <2>5. q[i].tag = XrayTag(c, i) BY <2>1 DEF XrayTag
  <2> QED BY <2>1, <2>3, <2>4, <2>5
<1>9. ASSUME bridge PROVE q[x + 1].tag = XrayTag(c, x + 1) /\ q[x + 1].via = NoTag
  <2>1. x + 1 # 1 /\ c.start + (x + 1) - 1 = c.start + x BY <1>2, <1>3
  <2> QED BY <1>6, <1>9, <2>1 DEF XrayTag
<1>10. \A i \in 1 .. k : i \in 1 .. x \/ (bridge /\ i = x + 1) BY <1>2
<1> HIDE DEF k
<1> QED BY <1>6, <1>7, <1>8, <1>9, <1>10

\* A list of outbounds whose fields name outbounds of the same list.
Linked(seq, f) == Unique(seq) /\ Named(seq, f) \subseteq Tags(seq)
Forbidden == {NoTag, <<"xray-direct">>, <<"direct">>}
SingTags(g, c) == {SingTag(c, i) : i \in 1 .. Len(entryHops(g, c.ids)) + Len(tailingSingEnts(c.ids))}
XrayLength(g, c) ==
  IF xrayAt(c.ids) = {} THEN 0
  ELSE IF xrayToSingBridge(g, c.ids).by \in {"bridge", "loopback"}
  THEN Len(xrayEnts(c.ids)) + 1 ELSE Len(xrayEnts(c.ids))
XrayTags(g, c) == {XrayTag(c, i) : i \in 1 .. XrayLength(g, c)}
SingOf(g, c) == firstSing(g, c) \o lastSing(g, c)

LEMMA SingLinked ==
  ASSUME NEW g \in Context, NEW c \in ChainOf, WellLinked(c)
  PROVE  /\ SingOf(g, c) \in Seq(SingHop) /\ Linked(SingOf(g, c), "detour")
         /\ Tags(SingOf(g, c)) = SingTags(g, c)
         /\ SingTags(g, c) \subseteq Words \ Forbidden
<1> DEFINE q == SingOf(g, c)
           n == Len(entryHops(g, c.ids)) + Len(tailingSingEnts(c.ids))
<1>1. n \in Nat BY PartLengths
<1>2. q \in Seq(SingHop) /\ DOMAIN q = 1 .. n
      /\ \A i \in 1 .. n : /\ q[i].tag = SingTag(c, i)
                           /\ q[i].detour = NoTag \/ (i + 1 \in 1 .. n /\ q[i].detour = SingTag(c, i + 1))
      BY SingLine DEF SingOf
<1>3. SingTags(g, c) = {SingTag(c, i) : i \in 1 .. n} BY DEF SingTags
<1> HIDE DEF q, n
<1>4. Tags(q) = SingTags(g, c) BY <1>2, <1>3 DEF Tags
<1>5. \A i \in 1 .. n : i \in Nat \ {0} BY <1>1
<1>6. Unique(q) BY <1>2, <1>5, TagsDiffer DEF Unique
<1>7. Named(q, "detour") \subseteq SingTags(g, c)
  <2> SUFFICES ASSUME NEW t \in Named(q, "detour") PROVE t \in SingTags(g, c) OBVIOUS
  <2>1. PICK i \in 1 .. n : t = q[i].detour /\ t # NoTag BY <1>2 DEF Named, Values
  <2> QED BY <1>2, <1>3, <2>1
<1>8. SingTags(g, c) \subseteq Words \ Forbidden BY <1>3, <1>5, TagsDiffer DEF Forbidden
<1> QED BY <1>2, <1>4, <1>6, <1>7, <1>8 DEF q, Linked

LEMMA XrayLinked ==
  ASSUME NEW g \in Context, NEW c \in ChainOf, WellLinked(c)
  PROVE  /\ xrayHops(g, c) \in Seq(XrayHop) /\ Linked(xrayHops(g, c), "via")
         /\ Tags(xrayHops(g, c)) = XrayTags(g, c)
         /\ XrayTags(g, c) \subseteq Words \ Forbidden
         /\ xrayAt(c.ids) # {} => xrayHops(g, c)[1].tag \in XrayTags(g, c)
         /\ xrayAt(c.ids) = {} => XrayTags(g, c) = {}
<1> DEFINE q == xrayHops(g, c)
           k == XrayLength(g, c)
<1>1. /\ q \in Seq(XrayHop) /\ k \in Nat /\ DOMAIN q = 1 .. k
      /\ xrayAt(c.ids) = {} => k = 0
      /\ xrayAt(c.ids) # {} => k > 0
      /\ \A i \in 1 .. k : /\ q[i].tag = XrayTag(c, i)
                           /\ q[i].via = NoTag \/ (i + 1 \in 1 .. k /\ q[i].via = XrayTag(c, i + 1))
  <2>1. CASE xrayAt(c.ids) = {}
    <3>1. q \in Seq(XrayHop) /\ q = << >> /\ k = 0 BY <2>1, Pieces DEF XrayLength
    <3> HIDE DEF q, k
    <3> QED BY <2>1, <3>1
  <2>2. CASE xrayAt(c.ids) # {}
    <3>1. k = IF xrayToSingBridge(g, c.ids).by \in {"bridge", "loopback"}
              THEN Len(xrayEnts(c.ids)) + 1 ELSE Len(xrayEnts(c.ids))
          BY <2>2 DEF XrayLength
    <3> HIDE DEF k
    <3> QED BY <2>2, <3>1, XrayLine
  <2> QED BY <2>1, <2>2
<1>3. XrayTags(g, c) = {XrayTag(c, i) : i \in 1 .. k} BY DEF XrayTags
<1> HIDE DEF q, k
<1>4. Tags(q) = XrayTags(g, c) BY <1>1, <1>3 DEF Tags
<1>5. \A i \in 1 .. k : i \in Nat \ {0} BY <1>1
<1>6. Unique(q) BY <1>1, <1>5, TagsDiffer DEF Unique
<1>7. Named(q, "via") \subseteq XrayTags(g, c)
  <2> SUFFICES ASSUME NEW t \in Named(q, "via") PROVE t \in XrayTags(g, c) OBVIOUS
  <2>1. PICK i \in 1 .. k : t = q[i].via /\ t # NoTag BY <1>1 DEF Named, Values
  <2> QED BY <1>1, <1>3, <2>1
<1>8. XrayTags(g, c) \subseteq Words \ Forbidden BY <1>3, <1>5, TagsDiffer DEF Forbidden
<1>9. xrayAt(c.ids) # {} => q[1].tag \in XrayTags(g, c)
  <2> HAVE xrayAt(c.ids) # {}
  <2>1. 1 \in 1 .. k BY <1>1
  <2> QED BY <1>1, <1>3, <2>1
<1>10. xrayAt(c.ids) = {} => XrayTags(g, c) = {} BY <1>1, <1>3
<1> QED BY <1>1, <1>4, <1>6, <1>7, <1>8, <1>9, <1>10 DEF q, Linked

LEMMA NamedConcat ==
  ASSUME NEW S, NEW p \in Seq(S), NEW q \in Seq(S), NEW f
  PROVE  Named(p \o q, f) \subseteq Named(p, f) \cup Named(q, f)
<1> SUFFICES ASSUME NEW t \in Named(p \o q, f) PROVE t \in Named(p, f) \cup Named(q, f) OBVIOUS
<1>1. PICK i \in DOMAIN (p \o q) : t = (p \o q)[i][f] /\ t # NoTag BY DEF Named, Values
<1>2. \/ i \in DOMAIN p /\ (p \o q)[i] = p[i]
      \/ i - Len(p) \in DOMAIN q /\ (p \o q)[i] = q[i - Len(p)]
      BY ConcatFacts
<1> QED BY <1>1, <1>2 DEF Named, Values

LEMMA LinkedConcat ==
  ASSUME NEW S, NEW p \in Seq(S), NEW q \in Seq(S), NEW f, Linked(p, f), Linked(q, f), Tags(p) \cap Tags(q) = {}
  PROVE  Linked(p \o q, f) /\ Tags(p \o q) = Tags(p) \cup Tags(q)
BY ConcatSets, NamedConcat DEF Linked

(* Bridges: each leads somewhere, and no two are alike.                    *)
GatesClosed(q, tags, ports) ==
  /\ \A i \in DOMAIN q : q[i].outbound \in tags /\ q[i].port \in 1 .. ports
  /\ \A i, j \in DOMAIN q :
       \/ i = j
       \/ q[i].port # q[j].port /\ (q[i].outbound # q[j].outbound \/ q[i].outbound = <<"xray-direct">>)

LEMMA GatesJoin ==
  ASSUME NEW p \in Seq(Gate), NEW x \in Gate, NEW n \in Nat, NEW m \in Nat, NEW old, NEW new,
         GatesClosed(p, old, n), old \subseteq new, x.outbound \in new,
         x.outbound \notin old \/ x.outbound = <<"xray-direct">>, n < x.port, x.port <= m
  PROVE  GatesClosed(p \o <<x>>, new, m)
<1> DEFINE q == <<x>>
           c == p \o q
           k == Len(p)
<1>1. q \in Seq(Gate) /\ DOMAIN q = {1} /\ q[1] = x BY OneLong, OneSet
<1> HIDE DEF q
<1>2. /\ \A i \in DOMAIN c : \/ i \in DOMAIN p /\ c[i] = p[i]
                             \/ i - k \in DOMAIN q /\ c[i] = q[i - k]
      /\ DOMAIN c = 1 .. k + Len(q) /\ k \in Nat /\ Len(q) \in Nat
      BY <1>1, ConcatFacts, LenProperties
<1> HIDE DEF c, k
<1>3. \A i \in DOMAIN c : \/ i \in DOMAIN p /\ c[i] = p[i]
                          \/ i = k + 1 /\ c[i] = x
  <2> SUFFICES ASSUME NEW i \in DOMAIN c, i - k \in DOMAIN q, c[i] = q[i - k] PROVE i = k + 1 /\ c[i] = x
      BY <1>2
  <2>1. i - k = 1 BY <1>1
  <2>2. i = k + 1 BY <1>2, <2>1
  <2> QED BY <1>1, <2>1, <2>2
<1>4. x.port \in 1 .. m /\ x.port \in Nat BY DEF Gate
<1>5. \A i \in DOMAIN p : /\ p[i].outbound \in new /\ p[i].port \in 1 .. m /\ p[i].port # x.port
                          /\ p[i].outbound # x.outbound \/ x.outbound = <<"xray-direct">>
  <2> SUFFICES ASSUME NEW i \in DOMAIN p
               PROVE  /\ p[i].outbound \in new /\ p[i].port \in 1 .. m /\ p[i].port # x.port
                      /\ p[i].outbound # x.outbound \/ x.outbound = <<"xray-direct">>
    OBVIOUS
  <2>1. p[i].outbound \in old /\ p[i].port \in 1 .. n BY DEF GatesClosed
  <2> QED BY <1>4, <2>1
<1>6. \A i \in DOMAIN c : c[i].outbound \in new /\ c[i].port \in 1 .. m BY <1>3, <1>4, <1>5
<1>7. ASSUME NEW i \in DOMAIN c, NEW j \in DOMAIN c, i # j
      PROVE  c[i].port # c[j].port /\ (c[i].outbound # c[j].outbound \/ c[i].outbound = <<"xray-direct">>)
  <2>1. CASE i \in DOMAIN p /\ c[i] = p[i] /\ j \in DOMAIN p /\ c[j] = p[j] BY <1>7, <2>1 DEF GatesClosed
  <2>2. CASE i \in DOMAIN p /\ c[i] = p[i] /\ c[j] = x BY <1>5, <2>2
  <2>3. CASE j \in DOMAIN p /\ c[j] = p[j] /\ c[i] = x BY <1>5, <2>3
  <2> QED BY <1>3, <1>7, <2>1, <2>2, <2>3
<1>8. GatesClosed(c, new, m) BY <1>6, <1>7 DEF GatesClosed
<1> QED BY <1>8 DEF c, q

LEMMA GatesKept ==
  ASSUME NEW p, NEW n \in Nat, NEW m \in Nat, NEW old, NEW new, GatesClosed(p, old, n), old \subseteq new, n <= m
  PROVE  GatesClosed(p, new, m)
<1>1. \A k \in 1 .. n : k \in 1 .. m OBVIOUS
<1> QED BY <1>1 DEF GatesClosed

(* What a chain leaves behind: tags that lead somewhere, once each.        *)
Closed(g) ==
  /\ Linked(g.sing, "detour") /\ Linked(g.xray, "via")
  /\ (Tags(g.sing) \cup Tags(g.xray)) \cap Forbidden = {}
  /\ GatesClosed(g.toXray, Tags(g.xray), g.ports)
  /\ GatesClosed(g.toSing, Tags(g.sing) \cup {<<"xray-direct">>}, g.ports)

LEMMA IntoGate ==
  ASSUME NEW g \in Context, NEW c \in ChainOf, WellLinked(c), xrayAt(c.ids) # {}
  PROVE  \E x \in Gate : /\ toXrayOf(g, c) = <<x>> /\ x.port = g.ports + 1 /\ x.outbound \in XrayTags(g, c)
<1> DEFINE tag == xrayHops(g, c)[1].tag
           port == singToXrayPort(g)
           x == [port |-> port, outbound |-> tag]
<1>1. toXrayOf(g, c) = <<x>> BY DEF toXrayOf
<1>2. tag \in XrayTags(g, c) /\ tag \in Words BY XrayLinked
<1>3. port = g.ports + 1 /\ port \in Nat BY Fields
<1> HIDE DEF tag, port
<1>4. x \in Gate /\ x.port = port /\ x.outbound = tag BY <1>2, <1>3 DEF Gate
<1> QED BY <1>1, <1>2, <1>3, <1>4

LEMMA BackGate ==
  ASSUME NEW g \in Context, NEW c \in ChainOf, WellLinked(c)
  PROVE  \/ backFromXray(g, c) = << >>
         \/ \E x \in Gate : /\ backFromXray(g, c) = <<x>> /\ x.port = g.ports + 2
                            /\ x.outbound \in SingTags(g, c) \cup {<<"xray-direct">>}
<1> DEFINE leave == xrayToSingBridge(g, c.ids)
           tag == lastSing(g, c)[1].tag
           port == xrayToSingPort(g)
           back == [port |-> port, outbound |-> tag]
           loop == [port |-> port, outbound |-> <<"xray-direct">>]
           e == Len(entryHops(g, c.ids))
           l == Len(tailingSingEnts(c.ids))
<1>1. /\ leave.by = "bridge" => backFromXray(g, c) = <<back>>
      /\ leave.by = "loopback" => backFromXray(g, c) = <<loop>>
      /\ leave.by \notin {"bridge", "loopback"} => backFromXray(g, c) = << >>
      BY DEF backFromXray
<1>2. port = g.ports + 2 /\ port \in Nat BY Fields
<1>3. <<"xray-direct">> \in Words BY Plainly DEF Singles
<1>4. leave.by = "bridge" => tag \in SingTags(g, c) /\ tag \in Words
  <2> HAVE leave.by = "bridge"
  <2>1. l > 0 /\ e \in Nat /\ l \in Nat BY PartLengths
  <2>2. tag = SingTag(c, e + 1) BY <2>1, SingLine
  <2>3. e + 1 \in 1 .. e + l BY <2>1
  <2> HIDE DEF e, l
  <2>4. SingTags(g, c) = {SingTag(c, i) : i \in 1 .. e + l} BY DEF SingTags, e, l
  <2>5. tag \in SingTags(g, c) BY <2>2, <2>3, <2>4
  <2> QED BY <2>5, SingLinked
<1> HIDE DEF tag, port
<1>5. CASE leave.by = "bridge"
  <2>1. back \in Gate /\ back.port = port /\ back.outbound = tag BY <1>2, <1>4, <1>5 DEF Gate
  <2> QED BY <1>1, <1>2, <1>4, <1>5, <2>1
<1>6. CASE leave.by = "loopback"
  <2>1. loop \in Gate /\ loop.port = port /\ loop.outbound = <<"xray-direct">> BY <1>2, <1>3 DEF Gate
  <2> QED BY <1>1, <1>2, <1>6, <2>1
<1>7. CASE leave.by \notin {"bridge", "loopback"} BY <1>1, <1>7
<1> QED BY <1>5, <1>6, <1>7

LEMMA ChainCloses ==
  ASSUME NEW live, NEW g \in Context, NEW c \in ChainOf, WellLinked(c), ~g.error, entIDListtoEntList(live, c.ids),
         Closed(g), Tags(g.sing) \cap SingTags(g, c) = {}, Tags(g.xray) \cap XrayTags(g, c) = {}
  PROVE  LET h == buildOutboundChain(live, g, c)
         IN  /\ Closed(h) /\ Tags(h.sing) = Tags(g.sing) \cup SingTags(g, c)
             /\ Tags(h.xray) = Tags(g.xray) \cup XrayTags(g, c)
<1> DEFINE h == buildOutboundChain(live, g, c)
           s == SingOf(g, c)
           x == xrayHops(g, c)
<1>1. /\ h.sing = g.sing \o firstSing(g, c) \o lastSing(g, c) /\ h.xray = g.xray \o x
      /\ h.toXray = g.toXray \o toXrayOf(g, c) /\ h.toSing = g.toSing \o backFromXray(g, c)
      /\ h.ports = g.ports + 3
  <2> HIDE DEF x
  <2>1. h.sing = g.sing \o firstSing(g, c) \o lastSing(g, c) /\ h.ports = g.ports + 3 BY ChainBuilt
  <2>2. h.xray = g.xray \o xrayHops(g, c) /\ h.toXray = g.toXray \o toXrayOf(g, c) BY ChainBuilt
  <2>3. h.toSing = g.toSing \o backFromXray(g, c) BY ChainBuilt
  <2> QED BY <2>1, <2>2, <2>3 DEF x
<1>2. /\ g.ports \in Nat /\ g.sing \in Seq(SingHop) /\ g.xray \in Seq(XrayHop)
      /\ g.toXray \in Seq(Gate) /\ g.toSing \in Seq(Gate)
      BY Fields
<1>3. /\ firstSing(g, c) \in Seq(SingHop) /\ lastSing(g, c) \in Seq(SingHop) BY Pieces
<1>4. h.sing = g.sing \o s
  <2> DEFINE u == g.sing
             v == firstSing(g, c)
             w == lastSing(g, c)
  <2>1. u \in Seq(SingHop) /\ v \in Seq(SingHop) /\ w \in Seq(SingHop) BY <1>2, <1>3
  <2>2. h.sing = (u \o v) \o w BY <1>1
  <2>3. s = v \o w BY DEF SingOf
  <2> HIDE DEF h, s, u, v, w
  <2>4. (u \o v) \o w = u \o (v \o w) BY ONLY <2>1, ConcatAssociative
  <2> QED BY <2>2, <2>3, <2>4 DEF u
<1>5. s \in Seq(SingHop) /\ Linked(s, "detour") /\ Tags(s) = SingTags(g, c) /\ SingTags(g, c) \cap Forbidden = {}
      BY SingLinked
<1>6. x \in Seq(XrayHop) /\ Linked(x, "via") /\ Tags(x) = XrayTags(g, c) /\ XrayTags(g, c) \cap Forbidden = {}
      BY XrayLinked
<1> HIDE DEF h, s, x
<1>7. Linked(h.sing, "detour") /\ Tags(h.sing) = Tags(g.sing) \cup SingTags(g, c)
  <2>1. Linked(g.sing, "detour") /\ Tags(g.sing) \cap Tags(s) = {} BY <1>5 DEF Closed
  <2>2. Linked(g.sing \o s, "detour") /\ Tags(g.sing \o s) = Tags(g.sing) \cup Tags(s)
        BY ONLY <1>2, <1>5, <2>1, LinkedConcat
  <2> QED BY <1>4, <1>5, <2>2
<1>8. Linked(h.xray, "via") /\ Tags(h.xray) = Tags(g.xray) \cup XrayTags(g, c)
  <2>1. Linked(g.xray, "via") /\ Tags(g.xray) \cap Tags(x) = {} BY <1>6 DEF Closed
  <2>2. Linked(g.xray \o x, "via") /\ Tags(g.xray \o x) = Tags(g.xray) \cup Tags(x)
        BY ONLY <1>2, <1>6, <2>1, LinkedConcat
  <2> QED BY <1>1, <1>6, <2>2
<1>9. (Tags(h.sing) \cup Tags(h.xray)) \cap Forbidden = {} BY <1>5, <1>6, <1>7, <1>8 DEF Closed
<1>10. g.ports + 3 \in Nat /\ g.ports <= g.ports + 3 BY <1>2
<1>11. GatesClosed(h.toXray, Tags(h.xray), h.ports)
  <2> DEFINE n == g.ports
             m == g.ports + 3
             old == Tags(g.xray)
             new == Tags(h.xray)
             p == g.toXray
  <2>1. GatesClosed(p, old, n) /\ old \subseteq new /\ n <= m /\ n \in Nat /\ m \in Nat /\ p \in Seq(Gate)
        BY <1>2, <1>8, <1>10 DEF Closed
  <2>2. CASE xrayAt(c.ids) = {}
    <3>1. toXrayOf(g, c) = << >> BY <2>2 DEF toXrayOf
    <3>2. h.toXray = p BY <1>1, <1>2, <3>1
    <3> HIDE DEF n, m, old, new, p
    <3>3. GatesClosed(p, new, m) BY ONLY <2>1, GatesKept
    <3> QED BY <1>1, <3>2, <3>3 DEF m, new
  <2>3. CASE xrayAt(c.ids) # {}
    <3>1. PICK y \in Gate : toXrayOf(g, c) = <<y>> /\ y.port = g.ports + 1 /\ y.outbound \in XrayTags(g, c)
          BY <2>3, IntoGate
    <3>2. y.outbound \in new /\ y.outbound \notin old BY <1>8, <3>1
    <3>3. n < y.port /\ y.port <= m BY <1>2, <3>1
    <3> HIDE DEF n, m, old, new, p
    <3>4. GatesClosed(p \o <<y>>, new, m) BY <2>1, <3>2, <3>3, GatesJoin
    <3> QED BY <1>1, <3>1, <3>4 DEF m, new, p
  <2> QED BY <2>2, <2>3
<1>12. GatesClosed(h.toSing, Tags(h.sing) \cup {<<"xray-direct">>}, h.ports)
  <2> DEFINE n == g.ports
             m == g.ports + 3
             old == Tags(g.sing) \cup {<<"xray-direct">>}
             new == Tags(h.sing) \cup {<<"xray-direct">>}
             p == g.toSing
  <2>1. GatesClosed(p, old, n) /\ old \subseteq new /\ n <= m /\ n \in Nat /\ m \in Nat /\ p \in Seq(Gate)
        BY <1>2, <1>7, <1>10 DEF Closed
  <2>2. CASE backFromXray(g, c) = << >>
    <3>2. h.toSing = p BY <1>1, <1>2, <2>2
    <3> HIDE DEF n, m, old, new, p
    <3>3. GatesClosed(p, new, m) BY ONLY <2>1, GatesKept
    <3> QED BY <1>1, <3>2, <3>3 DEF m, new
  <2>3. ASSUME NEW y \in Gate, backFromXray(g, c) = <<y>>, y.port = g.ports + 2,
               y.outbound \in SingTags(g, c) \cup {<<"xray-direct">>}
        PROVE  GatesClosed(h.toSing, Tags(h.sing) \cup {<<"xray-direct">>}, h.ports)
    <3>2. y.outbound \in new /\ (y.outbound \notin old \/ y.outbound = <<"xray-direct">>) BY <1>7, <2>3
    <3>3. n < y.port /\ y.port <= m BY <1>2, <2>3
    <3> HIDE DEF n, m, old, new, p
    <3>4. GatesClosed(p \o <<y>>, new, m) BY <2>1, <3>2, <3>3, GatesJoin
    <3> QED BY <1>1, <2>3, <3>4 DEF m, new, p
  <2> QED BY <2>2, <2>3, BackGate
<1>13. Closed(h) BY <1>7, <1>8, <1>9, <1>11, <1>12 DEF Closed
<1> QED BY <1>7, <1>8, <1>13 DEF h

(* A list of hops that is Xray's at both ends is Xray's throughout, since  *)
(* it enters Xray only once.                                               *)
LEMMA XrayThroughout ==
  ASSUME NEW live, NEW ids \in Seq(Ids), entIDListtoEntList(live, ids),
         1 \in xrayAt(ids), Len(ids) \in xrayAt(ids)
  PROVE  \A i \in DOMAIN ids : IsXray(ids[i])
<1> DEFINE n == Len(ids)
           X(i) == IsXray(ids[i])
           T == Transitions(ids)
<1>1. n \in Nat /\ DOMAIN ids = 1 .. n BY LenProperties
<1>2. T = {i \in 1 .. n : X(i) # (i > 1 /\ X(i - 1))} BY <1>1 DEF Transitions
<1>3. Cardinality(T) <= 2 BY Zenon DEF entIDListtoEntList
<1>4. xrayAt(ids) = {i \in 1 .. n : X(i)} BY <1>1 DEF xrayAt, Where
<1>5. 1 \in 1 .. n /\ X(1) /\ X(n) /\ n \in 1 .. n BY <1>4
<1> HIDE DEF n, X, T
<1> SUFFICES ASSUME NEW k \in 1 .. n, ~X(k) PROVE FALSE BY <1>1 DEF X
<1> DEFINE plain == {i \in 1 .. n : ~X(i)}
           u == Min(plain)
<1>6. plain \in SUBSET Nat /\ k \in plain BY <1>1
<1>7. u \in plain /\ \A i \in plain : u <= i
  <2> HIDE DEF plain
  <2> QED BY <1>6, LeastOf
<1> HIDE DEF u
<1> DEFINE after == {i \in 1 .. n : i > u /\ X(i)}
           v == Min(after)
<1>8. u \in 1 .. n /\ ~X(u) /\ u # 1 /\ u # n BY <1>5, <1>7
<1>9. after \in SUBSET Nat /\ n \in after BY <1>1, <1>5, <1>8
<1>10. v \in after /\ \A i \in after : v <= i
  <2> HIDE DEF after
  <2> QED BY <1>9, LeastOf
<1> HIDE DEF v
<1>11. u > 1 /\ u - 1 \in 1 .. n /\ X(u - 1)
  <2>1. u > 1 /\ u - 1 \in 1 .. n BY <1>1, <1>8
  <2>2. u - 1 \notin plain BY <1>1, <1>7, <1>8
  <2> QED BY <2>1, <2>2
<1>12. v \in 1 .. n /\ v > u /\ X(v) /\ v - 1 \in 1 .. n /\ ~X(v - 1)
  <2>1. v \in 1 .. n /\ v > u /\ X(v) BY <1>10
  <2>2. v - 1 \in 1 .. n /\ v - 1 >= u BY <1>1, <1>8, <2>1
  <2>3. v - 1 \notin after BY <1>1, <1>10, <2>1
  <2>4. v - 1 = u \/ v - 1 > u BY <1>1, <1>8, <2>1, <2>2
  <2> QED BY <1>8, <2>1, <2>2, <2>3, <2>4
<1>13. 1 \in T /\ u \in T /\ v \in T /\ 1 # u /\ 1 # v /\ u # v
  <2>1. X(1) # (1 > 1 /\ X(1 - 1))
    <3>1. ~(1 > 1) OBVIOUS
    <3>2. ~(1 > 1 /\ X(1 - 1)) BY <3>1, Zenon
    <3> QED BY <1>5, <3>2, Zenon
  <2>2. X(u) # (u > 1 /\ X(u - 1)) BY <1>8, <1>11
  <2>3. X(v) # (v > 1 /\ X(v - 1)) BY <1>12
  <2>4. v # u /\ v # 1 BY <1>1, <1>8, <1>12
  <2> QED BY <1>2, <1>5, <1>8, <1>12, <2>1, <2>2, <2>3, <2>4
<1>14. IsFiniteSet(T)
  <2>1. IsFiniteSet(1 .. n) BY <1>1, FS_Interval
  <2> QED BY <1>2, <2>1, FS_Subset
<1>15. Cardinality({1, u, v}) <= Cardinality(T)
  <2>1. {1, u, v} \subseteq T BY <1>13
  <2> QED BY <1>14, <2>1, FS_Subset
<1>16. Cardinality({1, u, v}) = 3
  <2>1. IsFiniteSet({1, u}) /\ Cardinality({1, u}) = 2
    <3>1. IsFiniteSet({1}) /\ Cardinality({1}) = 1 BY FS_Singleton
    <3>a. u \notin {1} BY <1>13
    <3>b. /\ IsFiniteSet({1} \cup {u})
          /\ Cardinality({1} \cup {u}) = IF u \in {1} THEN Cardinality({1}) ELSE Cardinality({1}) + 1
          BY <3>1, FS_AddElement, Zenon
    <3>2. IsFiniteSet({1} \cup {u}) /\ Cardinality({1} \cup {u}) = 2 BY <3>a, <3>b, <3>1
    <3>3. {1} \cup {u} = {1, u} OBVIOUS
    <3> QED BY <3>2, <3>3
  <2>2. Cardinality({1, u} \cup {v}) = 3
    <3>a. v \notin {1, u} BY <1>13
    <3>b. Cardinality({1, u} \cup {v}) = IF v \in {1, u} THEN Cardinality({1, u}) ELSE Cardinality({1, u}) + 1
          BY <2>1, FS_AddElement, Zenon
    <3> QED BY <3>a, <3>b, <2>1
  <2>3. {1, u} \cup {v} = {1, u, v} OBVIOUS
  <2> QED BY <2>2, <2>3
<1>17. Cardinality(T) \in Nat BY <1>14, FS_CardinalityType
<1> QED BY <1>3, <1>15, <1>16, <1>17

(* Xray has at most one outbound more than the chain has hops: the bridge  *)
(* behind a chain that is Xray's throughout.                               *)
LEMMA XrayRoom ==
  ASSUME NEW live, NEW g \in Context, NEW c \in ChainOf, WellLinked(c), entIDListtoEntList(live, c.ids)
  PROVE  /\ XrayLength(g, c) \in Nat /\ Len(c.ids) \in Nat
         /\ \/ XrayLength(g, c) <= Len(c.ids)
            \/ /\ XrayLength(g, c) = Len(c.ids) + 1 /\ g.tun /\ g.interface = Empty
               /\ \A i \in DOMAIN c.ids : IsXray(c.ids[i])
<1> DEFINE ids == c.ids
           n == Len(ids)
           x == Len(xrayEnts(ids))
           by == xrayToSingBridge(g, ids).by
           k == XrayLength(g, c)
<1>1. n \in Nat /\ x \in Nat /\ x <= n /\ (by = "bridge" => x + 1 <= n) BY PartLengths
<1>2. ids \in Seq(Ids) BY Fields
<1>3. CASE xrayAt(ids) = {}
  <2>1. k = 0 BY <1>3 DEF XrayLength
  <2> HIDE DEF k, n
  <2> QED BY <1>1, <2>1 DEF k, n
<1>4. CASE xrayAt(ids) # {}
  <2>1. k = IF by \in {"bridge", "loopback"} THEN x + 1 ELSE x BY <1>4 DEF XrayLength
  <2>2. PICK a, b \in 1 .. n : a <= b /\ x = b - a + 1 /\ a \in xrayAt(ids) /\ b \in xrayAt(ids)
        BY <1>2, <1>4, Parts
  <2>3. by = "loopback" => g.tun /\ g.interface = Empty BY <1>2, ExitFacts
  <2>4. x = n => \A i \in DOMAIN ids : IsXray(ids[i])
    <3> HAVE x = n
    <3>1. a = 1 /\ b = n
      <4> HIDE DEF x, n
      <4> QED BY <1>1, <2>2
    <3>2. 1 \in xrayAt(ids) /\ Len(ids) \in xrayAt(ids) BY <2>2, <3>1
    <3> HIDE DEF ids
    <3> QED BY <1>2, <3>2, XrayThroughout DEF ids
  <2> HIDE DEF k, n, x, by, ids
  <2>5. k \in Nat /\ (k <= n \/ (k = n + 1 /\ by = "loopback" /\ x = n)) BY <1>1, <2>1
  <2> QED BY <1>1, <2>3, <2>4, <2>5 DEF k, n, ids
<1> QED BY <1>3, <1>4

-----------------------------------------------------------------------------
(* The tags the chains of a start have to themselves.                      *)

MainSpace == {<<"proxy">>, <<"warp-bypass">>} \cup Numbers(<<"config">>)
Span(a, b) == {Tag(<<"route">>, n) : n \in a .. b - 1}

LEMMA SpanFacts ==
  ASSUME NEW a \in Nat, NEW b \in Nat, NEW d \in Nat, b <= d
  PROVE  /\ Span(a, d) \cap MainSpace = {} /\ Span(0, a) \cap Span(a, b) = {}
         /\ Span(a, b) \subseteq Span(0, d)
<1>1. <<"route">> \in Lines /\ <<"config">> \in Lines /\ <<"route">> # <<"config">>
  <2>1. \A x, y : <<x>> = <<y>> => x = y OBVIOUS
  <2> QED BY <2>1 DEF Lines
<1>2. \A n \in Nat : /\ Tag(<<"route">>, n) \notin Singles
                     /\ \A m \in Nat : /\ Tag(<<"route">>, n) = Tag(<<"route">>, m) => n = m
                                       /\ Tag(<<"route">>, n) # Tag(<<"config">>, m)
      BY <1>1, Numbered
<1>3. {<<"proxy">>, <<"warp-bypass">>} \subseteq Singles BY DEF Singles
<1>4. \A n \in Nat : Tag(<<"route">>, n) \notin MainSpace BY <1>2, <1>3 DEF MainSpace, Numbers
<1>5. \A n \in a .. d - 1 : n \in Nat OBVIOUS
<1>6. Span(a, d) \cap MainSpace = {} BY <1>4, <1>5, Zenon DEF Span
<1>7. Span(0, a) \cap Span(a, b) = {}
  <2> SUFFICES ASSUME NEW t \in Span(0, a), t \in Span(a, b) PROVE FALSE OBVIOUS
  <2>1. PICK n \in 0 .. a - 1 : t = Tag(<<"route">>, n) BY DEF Span
  <2>2. PICK m \in a .. b - 1 : t = Tag(<<"route">>, m) BY DEF Span
  <2>3. n = m
    <3>1. n \in Nat /\ m \in Nat OBVIOUS
    <3> QED BY <1>2, <2>1, <2>2, <3>1
  <2> QED BY <2>3
<1>8. \A n \in a .. b - 1 : n \in 0 .. d - 1 OBVIOUS
<1>9. Span(a, b) \subseteq Span(0, d) BY <1>8 DEF Span
<1> QED BY <1>6, <1>7, <1>9

\* The tags of a chain are its own: "proxy", "warp-bypass" and numbers, or
\* numbers from its start on.
LEMMA MainTags ==
  ASSUME NEW c \in ChainOf, c.prefix = <<"config">>
  PROVE  \A i \in Nat \ {0} : SingTag(c, i) \in MainSpace /\ XrayTag(c, i) \in MainSpace
<1> SUFFICES ASSUME NEW i \in Nat \ {0} PROVE SingTag(c, i) \in MainSpace /\ XrayTag(c, i) \in MainSpace OBVIOUS
<1>1. c.start + i - 1 \in Nat BY Fields
<1>2. Tag(c.prefix, c.start + i - 1) \in Numbers(<<"config">>) BY <1>1 DEF Numbers
<1> QED BY <1>2, Zenon DEF SingTag, XrayTag, MainSpace

LEMMA RouteTags ==
  ASSUME NEW c \in ChainOf, c.prefix = <<"route">>, ~c.main, ~c.warp, NEW k \in Nat
  PROVE  \A i \in 1 .. k : SingTag(c, i) \in Span(c.start, c.start + k)
                           /\ XrayTag(c, i) \in Span(c.start, c.start + k)
<1> SUFFICES ASSUME NEW i \in 1 .. k
             PROVE  SingTag(c, i) \in Span(c.start, c.start + k) /\ XrayTag(c, i) \in Span(c.start, c.start + k)
    OBVIOUS
<1>0. c.start \in Nat BY Fields
<1>1. c.start + i - 1 \in c.start .. (c.start + k) - 1 BY <1>0
<1>2. Tag(c.prefix, c.start + i - 1) \in Span(c.start, c.start + k) BY <1>1 DEF Span
<1> QED BY <1>2, Zenon DEF SingTag, XrayTag

LEMMA MainShape ==
  ASSUME NEW s \in Settings, NEW id \in Profiles, Groups, Hops(id) # << >>
  PROVE  LET c == MainChain(s, id)
         IN  /\ c \in ChainOf /\ WellLinked(c) /\ Len(c.ids) > 0 /\ Len(c.ids) \in Nat /\ c.main /\ c.warp = s.warp
             /\ c.prefix = <<"config">>
<1> DEFINE w == Whenever(s.warp, <<"warp">>)
           l == Opt(landing)
           h == Hops(id)
           f == Opt(front)
           lh == l \o h
           lhf == lh \o f
           ids == w \o l \o h \o f
           c == MainChain(s, id)
<1>1. c \in ChainOf /\ c.link BY MainFacts
<1>2. s.warp \in BOOLEAN BY SettingsType DEF SettingsFacts
<1>3. c.main /\ c.warp = s.warp /\ c.prefix = <<"config">> /\ c.ids = ids BY DEF MainChain
<1>4. Profiles \subseteq Ids /\ "warp" \in Ids BY DEF Profiles, Ids
<1>5. l \in Seq(Ids) /\ h \in Seq(Ids) /\ f \in Seq(Ids) /\ h # << >>
  <2>1. l \in Seq(Profiles) /\ f \in Seq(Profiles) BY OptFacts DEF Groups
  <2>2. h \in Seq(Profiles) BY HopsFacts
  <2> HIDE DEF l, h, f
  <2> QED BY <1>4, <2>1, <2>2 DEF h
<1>6. /\ s.warp => w \in Seq(Ids) /\ Len(w) = 1 /\ DOMAIN w = {1} /\ w[1] = "warp"
      /\ ~s.warp => w \in Seq(Ids) /\ Len(w) = 0
  <2>1. CASE s.warp
    <3>1. w = <<"warp">> BY <2>1 DEF Whenever
    <3> HIDE DEF w
    <3> QED BY <1>4, <2>1, <3>1, OneLong, OneSet
  <2>2. CASE ~s.warp
    <3>1. w = << >> BY <2>2 DEF Whenever
    <3> HIDE DEF w
    <3> QED BY <2>2, <3>1, EmptySeq
  <2> QED BY <2>1, <2>2
<1> HIDE DEF w, l, h, f, c
<1>7. lh \in Seq(Ids) /\ Len(lh) = Len(l) + Len(h) BY <1>5, ConcatFacts
<1> HIDE DEF lh
<1>8. lhf \in Seq(Ids) /\ Len(lhf) = Len(lh) + Len(f) BY <1>5, <1>7, ConcatFacts
<1>9. Len(l) \in Nat /\ Len(h) \in Nat /\ Len(f) \in Nat /\ Len(h) > 0 BY <1>5, LenProperties
<1> HIDE DEF lhf
<1>10. Len(lhf) > 0 /\ Len(lhf) \in Nat BY <1>7, <1>8, <1>9
<1>11. w \in Seq(Ids) BY <1>2, <1>6
<1>12. ids = w \o lhf
  <2>1. w \o l \o h = w \o lh BY <1>5, <1>11, ConcatAssociative DEF lh
  <2>2. lhf = lh \o f BY DEF lhf
  <2>3. (w \o lh) \o f = w \o (lh \o f)
    <3>1. \A x \in Seq(Ids), y \in Seq(Ids), z \in Seq(Ids) : (x \o y) \o z = x \o (y \o z)
          BY ONLY ConcatAssociative
    <3> QED BY <1>5, <1>7, <1>11, <3>1, Zenon
  <2> QED BY <2>1, <2>2, <2>3
<1> HIDE DEF ids
<1>13. Len(ids) = Len(w) + Len(lhf) /\ \A i \in DOMAIN w : ids[i] = w[i] BY <1>8, <1>11, <1>12, ConcatFacts
<1>14. Len(ids) > 0 /\ Len(ids) \in Nat /\ (s.warp => Len(ids) >= 2 /\ ids[1] = "warp")
       BY <1>2, <1>6, <1>10, <1>13
<1>15. WellLinked(c) BY <1>1, <1>3, <1>14 DEF WellLinked
<1> QED BY <1>1, <1>3, <1>14, <1>15 DEF c

LEMMA RouteShape ==
  ASSUME NEW live, NEW r \in Routes, NEW i \in 1 .. Len(UsedOutbounds(r)), RouteOutboundsAllowed(live, r)
  PROVE  LET c == RouteChain(r, i)
         IN  /\ c \in ChainOf /\ WellLinked(c) /\ Len(c.ids) > 0 /\ Len(c.ids) \in Nat /\ ~c.main /\ ~c.warp
             /\ c.prefix = <<"route">> /\ c.ids = Hops(UsedOutbounds(r)[i]) /\ c.start = RouteStart(r, i)
             /\ RouteStart(r, i + 1) = c.start + Len(c.ids)
<1> DEFINE c == RouteChain(r, i)
           id == UsedOutbounds(r)[i]
<1>1. /\ id \in Profiles /\ c \in ChainOf /\ (c.link \/ Len(c.ids) <= 1) /\ c.ids = Hops(id)
      /\ c.start = RouteStart(r, i) /\ c.prefix = <<"route">> /\ ~c.main /\ ~c.warp
      BY RouteChainFacts
<1>2. i \in DOMAIN UsedOutbounds(r) /\ RouteStart(r, i + 1) = RouteStart(r, i) + Len(Hops(id)) BY StartFacts
<1>3. Kind(id) = "chain" => Profile[id].list # << >> BY <1>2, Zenon DEF RouteOutboundsAllowed
<1> HIDE DEF c
<1>4. Hops(id) \in Seq(Profiles) /\ Len(Hops(id)) > 0
  <2>1. Hops(id) \in Seq(Profiles) BY <1>1, HopsFacts
  <2>2. CASE Kind(id) = "chain"
    <3>1. Len(Hops(id)) = Len(Profile[id].list) BY <1>1, <2>2, HopsFacts
    <3>2. Profile[id].list \in Seq(Profiles) /\ Profile[id].list # << >> BY <1>1, <1>3, <2>2, ProfileFacts
    <3>3. Len(Profile[id].list) > 0 BY <3>2
    <3> QED BY <2>1, <3>1, <3>3
  <2>3. CASE Kind(id) # "chain"
    <3>1. Hops(id) = <<id>> BY <1>1, <2>3, HopsFacts
    <3>2. Len(<<id>>) = 1 BY OneLong
    <3> QED BY <2>1, <3>1, <3>2
  <2> QED BY <2>2, <2>3
<1>5. Len(c.ids) > 0 /\ Len(c.ids) \in Nat BY <1>1, <1>4, LenProperties
<1>6. WellLinked(c) BY <1>1 DEF WellLinked
<1> QED BY <1>1, <1>2, <1>5, <1>6 DEF c

\* The bridge behind a group that is Xray's throughout takes the next number;
\* no group with Xray follows it.
Crowded(s, r, i) ==
  s.tun /\ s.interface = Empty /\ \A h \in ToSet(Hops(UsedOutbounds(r)[i])) : IsXray(h)
Apart(s, r) ==
  \A i \in DOMAIN UsedOutbounds(r) :
    i + 1 \in DOMAIN UsedOutbounds(r) /\ Crowded(s, r, i) => ~Has(Hops(UsedOutbounds(r)[i + 1]), "xray")
Beyond(s, r, i) == IF i > 0 /\ Crowded(s, r, i) THEN 1 ELSE 0
Device(s) == IF s.tun THEN s.interface ELSE Empty
Entrances(s, r, i) ==
  {<<"proxy">>} \cup (IF s.warp THEN {<<"warp-bypass">>} ELSE {})
    \cup {Tag(<<"route">>, RouteStart(r, j)) : j \in 1 .. i}

(* After the i-th group: all leads somewhere, and the next numbers are free. *)
Settled(g, s, r, i) ==
  ~g.error =>
    /\ Closed(g) /\ g.tun = s.tun /\ g.interface = Device(s)
    /\ Tags(g.sing) \subseteq MainSpace \cup Span(0, RouteStart(r, i + 1))
    /\ Tags(g.xray) \subseteq MainSpace \cup Span(0, RouteStart(r, i + 1) + Beyond(s, r, i))
    /\ Entrances(s, r, i) \subseteq Tags(g.sing)

LEMMA FreshClosed ==
  ASSUME NEW g \in Context, g.sing = << >>, g.xray = << >>, g.toXray = << >>, g.toSing = << >>
  PROVE  Closed(g) /\ Tags(g.sing) = {} /\ Tags(g.xray) = {}
<1>1. DOMAIN g.sing = {} /\ DOMAIN g.xray = {} /\ DOMAIN g.toXray = {} /\ DOMAIN g.toSing = {} BY NoneSet
<1>2. Tags(g.sing) = {} /\ Tags(g.xray) = {} BY <1>1 DEF Tags
<1>3. Linked(g.sing, "detour") /\ Linked(g.xray, "via") BY <1>1 DEF Linked, Unique, Named, Values
<1>4. GatesClosed(g.toXray, Tags(g.xray), g.ports) /\ GatesClosed(g.toSing, Tags(g.sing) \cup {<<"xray-direct">>}, g.ports)
      BY <1>1 DEF GatesClosed
<1> QED BY <1>2, <1>3, <1>4 DEF Closed

LEMMA MainSettled ==
  ASSUME NEW live, NEW s \in Settings, NEW r \in Routes, NEW id \in Profiles, Groups, Hops(id) # << >>
  PROVE  Settled(MainBuilt(live, s, id), s, r, 0)
<1> DEFINE fresh == NewContext(s.tun, IF s.tun THEN s.interface ELSE Empty)
           c == MainChain(s, id)
           h == buildOutboundChain(live, fresh, c)
           w == Wrapped(h, id)
           e == Len(entryHops(fresh, c.ids))
           l == Len(tailingSingEnts(c.ids))
           new == SingTags(fresh, c)
<1>1. /\ fresh \in Context /\ fresh.tun = s.tun /\ fresh.interface = Device(s) /\ ~fresh.error /\ fresh.sing = << >>
      /\ fresh.xray = << >> /\ fresh.toXray = << >> /\ fresh.toSing = << >>
      BY FreshContext DEF Device
<1>2. MainBuilt(live, s, id) = w BY DEF MainBuilt
<1>3. /\ c \in ChainOf /\ WellLinked(c) /\ Len(c.ids) > 0 /\ Len(c.ids) \in Nat /\ c.main /\ c.warp = s.warp
      /\ c.prefix = <<"config">>
      BY MainShape
<1> HIDE DEF fresh, c
<1>4. h \in Context BY <1>1, <1>3, ChainBuilt, ChainRefused
<1>5. /\ w.error = h.error /\ w.sing = h.sing /\ w.xray = h.xray /\ w.toXray = h.toXray
      /\ w.toSing = h.toSing /\ w.ports = h.ports /\ w.tun = h.tun /\ w.interface = h.interface
      BY <1>4, WrappedFacts DEF Profiles
<1> SUFFICES ASSUME ~w.error PROVE Settled(w, s, r, 0) BY <1>2 DEF Settled
<1>6. entIDListtoEntList(live, c.ids)
  <2>1. ~h.error BY <1>5
  <2> QED BY <1>1, <1>3, <2>1, ChainRefused
<1>7. Closed(fresh) /\ Tags(fresh.sing) = {} /\ Tags(fresh.xray) = {} BY <1>1, FreshClosed
<1>8. Closed(h) /\ Tags(h.sing) = new /\ Tags(h.xray) = XrayTags(fresh, c)
  <2>1. Tags(fresh.sing) \cap SingTags(fresh, c) = {} /\ Tags(fresh.xray) \cap XrayTags(fresh, c) = {} BY <1>7
  <2>a. WellLinked(c) /\ Len(c.ids) > 0 /\ ~fresh.error /\ entIDListtoEntList(live, c.ids) BY <1>1, <1>3, <1>6
  <2>b. fresh \in Context /\ c \in ChainOf /\ Closed(fresh) BY <1>1, <1>3, <1>7
  <2>2. /\ Closed(h) /\ Tags(h.sing) = Tags(fresh.sing) \cup new
        /\ Tags(h.xray) = Tags(fresh.xray) \cup XrayTags(fresh, c)
        BY ONLY <2>1, <2>a, <2>b, ChainCloses
  <2> QED BY <1>7, <2>2
<1>9. h.tun = s.tun /\ h.interface = Device(s)
  <2>a. Len(c.ids) > 0 /\ ~fresh.error /\ entIDListtoEntList(live, c.ids) BY <1>1, <1>3, <1>6
  <2>b. fresh \in Context /\ c \in ChainOf BY <1>1, <1>3
  <2>1. h.tun = fresh.tun /\ h.interface = fresh.interface BY ONLY <2>a, <2>b, ChainBuilt
  <2> QED BY <1>1, <2>1
<1>10. e \in Nat /\ l \in Nat /\ e > 0 /\ (s.warp => e >= 2) BY <1>1, <1>3, PartLengths
<1>11. new \subseteq MainSpace /\ XrayTags(fresh, c) \subseteq MainSpace
  <2>1. \A i \in Nat \ {0} : SingTag(c, i) \in MainSpace /\ XrayTag(c, i) \in MainSpace BY <1>3, MainTags
  <2>2. \A i \in 1 .. e + l : i \in Nat \ {0} BY <1>10
  <2>3. XrayLength(fresh, c) \in Nat BY <1>1, <1>3, <1>6, XrayRoom
  <2>4. \A i \in 1 .. XrayLength(fresh, c) : i \in Nat \ {0} BY <2>3
  <2> QED BY <2>1, <2>2, <2>4 DEF SingTags, XrayTags
<1>12. Entrances(s, r, 0) \subseteq new
  <2>1. new = {SingTag(c, i) : i \in 1 .. e + l} BY DEF SingTags
  <2>2. 1 \in 1 .. e + l /\ (s.warp => 2 \in 1 .. e + l) BY <1>10
  <2>3. SingTag(c, 1) = <<"proxy">> /\ (s.warp => SingTag(c, 2) = <<"warp-bypass">>) BY <1>3 DEF SingTag
  <2> HIDE DEF new
  <2>4. <<"proxy">> \in new /\ (s.warp => <<"warp-bypass">> \in new) BY <2>1, <2>2, <2>3
  <2>5. {Tag(<<"route">>, RouteStart(r, j)) : j \in 1 .. 0} = {} OBVIOUS
  <2> QED BY <2>4, <2>5 DEF Entrances
<1> HIDE DEF w, h, new
<1>13. Closed(w) BY <1>5, <1>8 DEF Closed
<1> QED BY <1>5, <1>8, <1>9, <1>11, <1>12, <1>13 DEF Settled

LEMMA RouteSettled ==
  ASSUME NEW live, NEW s \in Settings, NEW r \in Routes, RouteOutboundsAllowed(live, r), Apart(s, r),
         NEW i \in 1 .. Len(UsedOutbounds(r)), NEW g \in Context, Settled(g, s, r, i - 1)
  PROVE  Settled(RouteBuilt(live, r, g, i), s, r, i)
<1> DEFINE c == RouteChain(r, i)
           id == UsedOutbounds(r)[i]
           h == buildOutboundChain(live, g, c)
           w == Wrapped(h, id)
           e == Len(entryHops(g, c.ids))
           l == Len(tailingSingEnts(c.ids))
           n == Len(c.ids)
           a == c.start
           k == XrayLength(g, c)
           new == SingTags(g, c)
           newX == XrayTags(g, c)
<1>1. RouteBuilt(live, r, g, i) = w BY DEF RouteBuilt
<1>2. /\ c \in ChainOf /\ WellLinked(c) /\ n > 0 /\ n \in Nat /\ ~c.main /\ ~c.warp
      /\ c.prefix = <<"route">> /\ c.ids = Hops(id) /\ a = RouteStart(r, i) /\ RouteStart(r, i + 1) = a + n
      BY RouteShape
<1>3. a \in Nat BY <1>2, Fields
<1>4. /\ i \in DOMAIN UsedOutbounds(r) /\ i \in Nat /\ i > 0 /\ id \in Profiles
      /\ i - 1 > 0 => i - 1 \in DOMAIN UsedOutbounds(r) /\ (i - 1) + 1 = i
      /\ (i - 1) + 1 = i
      BY StartFacts
<1> HIDE DEF c, id
<1>5. h \in Context BY <1>2, ChainBuilt, ChainRefused
<1>6. /\ w.error = h.error /\ w.sing = h.sing /\ w.xray = h.xray /\ w.toXray = h.toXray
      /\ w.toSing = h.toSing /\ w.ports = h.ports /\ w.tun = h.tun /\ w.interface = h.interface
      BY <1>4, <1>5, WrappedFacts DEF Profiles
<1> SUFFICES ASSUME ~w.error PROVE Settled(w, s, r, i) BY <1>1 DEF Settled
<1>7. ~g.error /\ entIDListtoEntList(live, c.ids)
  <2>1. ~h.error BY <1>6
  <2> QED BY <1>2, <2>1, ChainRefused
<1>8. /\ Closed(g) /\ g.tun = s.tun /\ g.interface = Device(s)
      /\ Tags(g.sing) \subseteq MainSpace \cup Span(0, a)
      /\ Tags(g.xray) \subseteq MainSpace \cup Span(0, a + Beyond(s, r, i - 1))
      /\ Entrances(s, r, i - 1) \subseteq Tags(g.sing)
      BY <1>2, <1>4, <1>7 DEF Settled
<1>9. e \in Nat /\ l \in Nat /\ e > 0 /\ e + l <= n BY <1>2, PartLengths
<1>10. new \subseteq Span(a, a + n) /\ Tag(<<"route">>, a) \in new
  <2>1. \A j \in 1 .. n : SingTag(c, j) \in Span(a, a + n) BY <1>2, RouteTags
  <2>2. \A j \in 1 .. e + l : j \in 1 .. n BY <1>2, <1>9
  <2>3. new = {SingTag(c, j) : j \in 1 .. e + l} BY DEF SingTags
  <2>4. 1 \in 1 .. e + l /\ a + 1 - 1 = a BY <1>3, <1>9
  <2>5. SingTag(c, 1) = Tag(<<"route">>, a) BY <1>2, <2>4 DEF SingTag
  <2> HIDE DEF new, a, n
  <2> QED BY <2>1, <2>2, <2>3, <2>4, <2>5
<1>11. /\ k \in Nat
       /\ k <= n \/ (k = n + 1 /\ Crowded(s, r, i))
  <2>1. /\ k \in Nat
        /\ \/ k <= n
           \/ k = n + 1 /\ g.tun /\ g.interface = Empty /\ \A j \in DOMAIN c.ids : IsXray(c.ids[j])
        BY <1>2, <1>7, XrayRoom
  <2>2. g.tun /\ g.interface = Empty => s.tun /\ s.interface = Empty BY <1>8 DEF Device
  <2>3. (\A j \in DOMAIN c.ids : IsXray(c.ids[j])) => \A x \in ToSet(Hops(id)) : IsXray(x) BY <1>2 DEF ToSet
  <2> QED BY <2>1, <2>2, <2>3 DEF Crowded, id
<1>12. newX \subseteq Span(a, a + k)
  <2>1. \A j \in 1 .. k : XrayTag(c, j) \in Span(a, a + k) BY <1>2, <1>11, RouteTags
  <2> QED BY <2>1 DEF XrayTags
<1>13. newX = {} \/ Beyond(s, r, i - 1) = 0
  <2> SUFFICES ASSUME i - 1 > 0, Crowded(s, r, i - 1) PROVE newX = {} BY DEF Beyond
  <2>1. ~Has(Hops(id), "xray") BY <1>4 DEF Apart, id
  <2>2. xrayAt(c.ids) = {} BY <1>2, <2>1 DEF Has, xrayAt, Where, IsXray
  <2> QED BY <1>2, <2>2, XrayLinked
<1>14. Span(a, a + n) \cap MainSpace = {} /\ Span(0, a) \cap Span(a, a + n) = {} /\ Span(a, a + n) \subseteq Span(0, a + n)
       /\ Span(0, a) \subseteq Span(0, a + n)
  <2>1. a + n \in Nat /\ a <= a + n /\ 0 \in Nat BY <1>2, <1>3
  <2> QED BY <1>3, <2>1, SpanFacts
<1>15. Tags(g.sing) \cap new = {} BY <1>8, <1>10, <1>14
<1>16. Span(a, a + k) \cap MainSpace = {} /\ Span(0, a) \cap Span(a, a + k) = {}
  <2>1. a + k \in Nat /\ a <= a + k BY <1>3, <1>11
  <2> QED BY <1>3, <2>1, SpanFacts
<1>17. Tags(g.xray) \cap newX = {}
  <2> SUFFICES ASSUME Beyond(s, r, i - 1) = 0 PROVE Tags(g.xray) \cap newX = {} BY <1>13
  <2>1. a + Beyond(s, r, i - 1) = a BY <1>3
  <2> QED BY <1>8, <1>12, <1>16, <2>1
<1>18. Closed(h) /\ Tags(h.sing) = Tags(g.sing) \cup new /\ Tags(h.xray) = Tags(g.xray) \cup newX
       BY <1>2, <1>7, <1>8, <1>15, <1>17, ChainCloses
<1>19. h.tun = s.tun /\ h.interface = Device(s)
  <2>1. h.tun = g.tun /\ h.interface = g.interface BY <1>2, <1>7, ChainBuilt
  <2> QED BY <1>8, <2>1
<1> HIDE DEF h, w, new, newX, k, n, a
<1>20. Tags(h.sing) \subseteq MainSpace \cup Span(0, a + n) BY <1>8, <1>10, <1>14, <1>18
<1> DEFINE m == a + n + Beyond(s, r, i)
<1>21. Span(0, a + Beyond(s, r, i - 1)) \subseteq Span(0, m) /\ Span(a, a + k) \subseteq Span(0, m)
  <2>1. Beyond(s, r, i - 1) \in {0, 1} /\ Beyond(s, r, i) \in {0, 1} BY DEF Beyond
  <2>2. Crowded(s, r, i) => Beyond(s, r, i) = 1 BY <1>4 DEF Beyond
  <2>3. m \in Nat /\ a + Beyond(s, r, i - 1) \in Nat /\ a + Beyond(s, r, i - 1) <= m BY <1>2, <1>3, <2>1 DEF n
  <2>4. a + k \in Nat /\ a + k <= m BY <1>2, <1>3, <1>11, <2>1, <2>2 DEF n
  <2> HIDE DEF m
  <2> QED BY <1>3, <2>3, <2>4, SpanFacts
<1>22. Tags(h.xray) \subseteq MainSpace \cup Span(0, m)
  <2> HIDE DEF m
  <2> QED BY <1>8, <1>12, <1>18, <1>21
<1>23. Entrances(s, r, i) \subseteq Tags(h.sing)
  <2>1. \A j \in 1 .. i : j \in 1 .. i - 1 \/ j = i BY <1>4
  <2>2. Tag(<<"route">>, RouteStart(r, i)) \in Tags(h.sing) BY <1>2, <1>10, <1>18
  <2>3. Entrances(s, r, i) \subseteq Entrances(s, r, i - 1) \cup {Tag(<<"route">>, RouteStart(r, i))}
        BY <2>1 DEF Entrances
  <2> QED BY <1>8, <1>18, <2>2, <2>3
<1>24. Closed(w) BY <1>6, <1>18 DEF Closed
<1>25. RouteStart(r, i + 1) = a + n /\ RouteStart(r, i + 1) + Beyond(s, r, i) = m BY <1>2 DEF a, n
<1> QED BY <1>6, <1>18, <1>19, <1>20, <1>22, <1>23, <1>24, <1>25 DEF Settled

LEMMA SectionSettled ==
  ASSUME NEW live, NEW s \in Settings, NEW r \in Routes, NEW id \in Profiles, Groups, Hops(id) # << >>,
         RouteOutboundsAllowed(live, r), Apart(s, r)
  PROVE  LET g == buildOutboundsSection(live, s, r, id)
         IN  g \in Context /\ Settled(g, s, r, Len(UsedOutbounds(r)))
<1> DEFINE n == Len(UsedOutbounds(r))
<1>1. n \in Nat BY StartFacts
<1>2. PICK f : IsSection(f, live, s, r, id) BY SectionFacts
<1>3. /\ f[0] = MainBuilt(live, s, id)
      /\ \A i \in 1 .. n : f[i] = RouteBuilt(live, r, f[i - 1], i)
      /\ buildOutboundsSection(live, s, r, id) = f[n]
      BY <1>2 DEF IsSection
<1>4. \A i \in 0 .. n : f[i] \in Context BY <1>2 DEF IsSection
<1>5. Settled(f[0], s, r, 0) BY <1>3, MainSettled
<1>6. ASSUME NEW i \in 1 .. n, Settled(f[i - 1], s, r, i - 1) PROVE Settled(f[i], s, r, i)
  <2>1. i - 1 \in 0 .. n BY <1>1
  <2>2. f[i - 1] \in Context BY <1>4, <2>1
  <2>3. Settled(RouteBuilt(live, r, f[i - 1], i), s, r, i) BY <1>6, <2>2, RouteSettled
  <2> QED BY <1>3, <2>3
<1> HIDE DEF n
<1> DEFINE T == {k \in Nat : k <= n => Settled(f[k], s, r, k)}
<1>7. 0 \in T BY <1>5
<1>8. ASSUME NEW k \in Nat, k \in T PROVE k + 1 \in T
  <2> SUFFICES ASSUME k + 1 <= n PROVE Settled(f[k + 1], s, r, k + 1) OBVIOUS
  <2>1. Settled(f[k], s, r, k) BY <1>1, <1>8
  <2>2. k + 1 \in 1 .. n /\ (k + 1) - 1 = k BY <1>1
  <2> QED BY <1>6, <2>1, <2>2
<1>9. n \in T
  <2>1. Nat \subseteq T
    <3> HIDE DEF T
    <3> QED BY <1>7, <1>8, NatSetInduction
  <2> QED BY <1>1, <2>1
<1>10. Settled(f[n], s, r, n) /\ f[n] \in Context BY <1>1, <1>4, <1>9
<1> QED BY <1>3, <1>10 DEF n

-----------------------------------------------------------------------------
(* What a start hands to the cores, list by list.                          *)

(* Where a rule leads: to a chain that was built, or past all of them.     *)
LEMMA OutboundFacts ==
  ASSUME NEW s \in Settings, NEW r \in Routes, NEW o, o \in Predefined \cup ToSet(UsedOutbounds(r)),
         o = "block" => r.raw
  PROVE  OutboundTag(s, r, o) \in Entrances(s, r, Len(UsedOutbounds(r))) \cup {<<"direct">>}
<1> DEFINE used == UsedOutbounds(r)
           n == Len(used)
           E == Entrances(s, r, n)
           uses == Where(used, LAMBDA u : u = o)
<1>1. n \in Nat /\ DOMAIN used = 1 .. n /\ \A i \in 1 .. n : used[i] \in Profiles BY StartFacts
<1>2. <<"proxy">> \in E /\ (s.warp => <<"warp-bypass">> \in E)
      /\ \A j \in 1 .. n : Tag(<<"route">>, RouteStart(r, j)) \in E
      BY DEF Entrances
<1>3. s.warp \in BOOLEAN /\ r.raw \in BOOLEAN BY SettingsType, RoutesType DEF SettingsFacts, RouteFacts
<1> SUFFICES OutboundTag(s, r, o) \in E \cup {<<"direct">>} OBVIOUS
<1> HIDE DEF E
<1>4. CASE o \in Predefined
  <2>1. \/ o = "warp-bypass" /\ OutboundTag(s, r, o) \in {<<"warp-bypass">>, <<"proxy">>}
           /\ (~s.warp => OutboundTag(s, r, o) = <<"proxy">>)
        \/ o = "block" /\ OutboundTag(s, r, o) = <<"proxy">>
        \/ o \in {"proxy", "direct"} /\ OutboundTag(s, r, o) = <<o>>
        BY <1>4, Zenon DEF Predefined, OutboundTag
  <2> QED BY <1>2, <1>3, <2>1
<1>5. CASE o \notin Predefined
  <2>1. PICK k \in 1 .. n : used[k] = o BY <1>1, <1>5 DEF ToSet
  <2>2. uses \in SUBSET (1 .. n) /\ k \in uses BY <1>1, <2>1 DEF Where
  <2>3. Max(uses) \in 1 .. n
    <3> HIDE DEF uses, n
    <3> QED BY <1>1, <2>2, GreatestOf
  <2>4. OutboundTag(s, r, o) = Tag(<<"route">>, RouteStart(r, Max(uses)))
        BY <1>5, Zenon DEF OutboundTag, Predefined
  <2> QED BY <1>2, <2>3, <2>4
<1> QED BY <1>4, <1>5

(* The parts of a context in which all leads somewhere.                    *)
Ready(g, s, r) ==
  /\ g \in Context /\ Closed(g) /\ Entrances(s, r, Len(UsedOutbounds(r))) \subseteq Tags(g.sing)

\* "xray-direct" is defined when a bridge leads there.
Loops(g) == \E i \in DOMAIN g.toSing : g.toSing[i].outbound = <<"xray-direct">>
Loopback(g) == Whenever(Loops(g), <<Plain(<<"xray-direct">>)>>)
Defined(g) == Tags(g.sing) \cup (IF Loops(g) THEN {<<"xray-direct">>} ELSE {}) \cup {<<"direct">>}

LEMMA PlainLinked ==
  ASSUME NEW tag
  PROVE  Linked(<<Plain(tag)>>, "detour") /\ Tags(<<Plain(tag)>>) = {tag}
<1> DEFINE p == Plain(tag)
           q == <<p>>
<1>1. p.tag = tag /\ p.detour = NoTag BY DEF Plain
<1>2. DOMAIN q = {1} /\ q[1] = p BY OneSet
<1> HIDE DEF p, q
<1>3. Tags(q) = {tag} BY <1>1, <1>2 DEF Tags
<1>4. Unique(q) BY <1>2 DEF Unique
<1>5. p["detour"] = NoTag BY <1>1
<1>6. Named(q, "detour") = {} BY <1>2, <1>5 DEF Named, Values
<1>7. Linked(q, "detour") BY <1>4, <1>6 DEF Linked
<1> QED BY <1>3, <1>7 DEF q, p

LEMMA OutboundsClosed ==
  ASSUME NEW g \in Context, Closed(g)
  PROVE  LET q == g.sing \o Loopback(g) \o <<Plain(<<"direct">>)>>
         IN  Linked(q, "detour") /\ Tags(q) = Defined(g)
<1> DEFINE d == <<Plain(<<"direct">>)>>
           x == <<Plain(<<"xray-direct">>)>>
           m == Loopback(g)
           S == SingHop \cup {Plain(<<"direct">>), Plain(<<"xray-direct">>)}
           t == IF Loops(g) THEN {<<"xray-direct">>} ELSE {}
<1>1. d \in Seq(S) /\ x \in Seq(S) BY OneLong
<1>2. g.sing \in Seq(S)
  <2>1. g.sing \in Seq(SingHop) /\ SingHop \subseteq S BY Fields
  <2> HIDE DEF S
  <2> QED BY <2>1
<1>3. Linked(d, "detour") /\ Tags(d) = {<<"direct">>} /\ Linked(x, "detour") /\ Tags(x) = {<<"xray-direct">>}
      BY PlainLinked
<1> HIDE DEF S, d, x
<1>4. Linked(<< >>, "detour") /\ Tags(<< >>) = {} BY NoneSet DEF Linked, Unique, Named, Values, Tags
<1>5. m \in Seq(S) /\ Linked(m, "detour") /\ Tags(m) = t
  <2>1. \/ Loops(g) /\ m = x
        \/ ~Loops(g) /\ m = << >>
        BY DEF Loopback, Whenever, x
  <2> QED BY <1>1, <1>3, <1>4, <2>1, EmptySeq
<1>6. Linked(g.sing, "detour") /\ Tags(g.sing) \cap Forbidden = {} BY DEF Closed
<1>7. <<"xray-direct">> \in Forbidden /\ <<"direct">> \in Forbidden /\ <<"direct">> # <<"xray-direct">>
  <2>1. \A y, z : <<y>> = <<z>> => y = z OBVIOUS
  <2> QED BY <2>1 DEF Forbidden
<1> HIDE DEF m
<1> DEFINE q == g.sing \o m
<1>8. Tags(g.sing) \cap Tags(m) = {} BY <1>5, <1>6, <1>7
<1>9. Linked(q, "detour") /\ Tags(q) = Tags(g.sing) \cup t /\ q \in Seq(S)
      BY <1>2, <1>5, <1>6, <1>8, LinkedConcat, ConcatSets
<1> HIDE DEF q
<1>10. Tags(q) \cap Tags(d) = {} BY <1>3, <1>6, <1>7, <1>9
<1>11. Linked(q \o d, "detour") /\ Tags(q \o d) = Tags(q) \cup Tags(d) BY <1>1, <1>3, <1>9, <1>10, LinkedConcat
<1>12. q \o d = g.sing \o Loopback(g) \o <<Plain(<<"direct">>)>> BY DEF q, d, m
<1> QED BY <1>3, <1>9, <1>11, <1>12 DEF Defined

(* The inbounds: fixed ones, and one for each bridge.                      *)
Inbound == [tag : Words, port : Nat]
Fixed == {<<"dns-in">>, <<"mixed-in">>, <<"tun-in">>, <<"hijack-dns">>}
BridgeTagsOf(g) == {BridgeTag(g.toSing[i]) : i \in DOMAIN g.toSing}

LEMMA OneInbound ==
  ASSUME NEW x \in Inbound
  PROVE  <<x>> \in Seq(Inbound) /\ Unique(<<x>>) /\ Tags(<<x>>) = {x.tag}
<1> DEFINE q == <<x>>
<1>1. q \in Seq(Inbound) /\ DOMAIN q = {1} /\ q[1] = x BY OneLong, OneSet
<1> HIDE DEF q
<1>2. Unique(q) /\ Tags(q) = {x.tag} BY <1>1 DEF Unique, Tags
<1> QED BY <1>1, <1>2 DEF q

LEMMA WheneverInbound ==
  ASSUME NEW x \in Inbound, NEW guard \in BOOLEAN
  PROVE  LET q == Whenever(guard, <<x>>)
         IN  q \in Seq(Inbound) /\ Unique(q) /\ Tags(q) = (IF guard THEN {x.tag} ELSE {})
<1>1. CASE guard
  <2>1. Whenever(guard, <<x>>) = <<x>> BY <1>1 DEF Whenever
  <2> QED BY <1>1, <2>1, OneInbound
<1>2. CASE ~guard
  <2>1. Whenever(guard, <<x>>) = << >> BY <1>2 DEF Whenever
  <2>2. << >> \in Seq(Inbound) /\ Unique(<< >>) /\ Tags(<< >>) = {} BY NoneSet, EmptySeq DEF Unique, Tags
  <2> QED BY <1>2, <2>1, <2>2
<1> QED BY <1>1, <1>2

LEMMA FixedInbounds ==
  ASSUME NEW s \in Settings
  PROVE  LET q == buildInboundSection(s)
         IN  q \in Seq(Inbound) /\ Unique(q) /\ Tags(q) \subseteq Fixed /\ <<"dns-in">> \in Tags(q)
<1> DEFINE x1 == [tag |-> <<"dns-in">>, port |-> 0]
           x2 == [tag |-> <<"mixed-in">>, port |-> 0]
           x3 == [tag |-> <<"tun-in">>, port |-> 0]
           x4 == [tag |-> <<"hijack-dns">>, port |-> 0]
           hijacks == s.hijack # {}
           w3 == Whenever(s.tun, <<x3>>)
           w4 == Whenever(hijacks, <<x4>>)
           q2 == <<x1, x2>>
           q3 == q2 \o w3
<1>1. Fixed \subseteq Words
  <2>1. {"dns-in", "mixed-in", "tun-in", "hijack-dns"} \subseteq Letters BY DEF Letters, Texts
  <2>2. \A y \in Letters : <<y>> \in Words BY OneLong DEF Words
  <2>3. \A t \in Fixed : \E y \in {"dns-in", "mixed-in", "tun-in", "hijack-dns"} : t = <<y>> BY Zenon DEF Fixed
  <2> QED BY <2>1, <2>2, <2>3
<1>2. /\ <<"dns-in">> # <<"mixed-in">> /\ <<"tun-in">> \notin {<<"dns-in">>, <<"mixed-in">>}
      /\ <<"hijack-dns">> \notin {<<"dns-in">>, <<"mixed-in">>, <<"tun-in">>}
  <2>1. \A y, z : <<y>> = <<z>> => y = z OBVIOUS
  <2> QED BY <2>1
<1>3. /\ <<"dns-in">> \in Words /\ <<"mixed-in">> \in Words /\ <<"tun-in">> \in Words /\ <<"hijack-dns">> \in Words
  <2>1. {<<"dns-in">>, <<"mixed-in">>, <<"tun-in">>, <<"hijack-dns">>} \subseteq Words BY <1>1 DEF Fixed
  <2> QED BY <2>1
<1>4. /\ x1 \in Inbound /\ x2 \in Inbound /\ x3 \in Inbound /\ x4 \in Inbound
      /\ x1.tag = <<"dns-in">> /\ x2.tag = <<"mixed-in">> /\ x3.tag = <<"tun-in">> /\ x4.tag = <<"hijack-dns">>
      BY <1>3 DEF Inbound
<1>5. buildInboundSection(s) = q3 \o w4 BY DEF buildInboundSection
<1> HIDE DEF x1, x2, x3, x4, hijacks
<1>6. s.tun \in BOOLEAN /\ hijacks \in BOOLEAN BY SettingsType DEF SettingsFacts, hijacks
<1>7. q2 \in Seq(Inbound) /\ DOMAIN q2 = {1, 2} /\ q2[1] = x1 /\ q2[2] = x2 BY <1>4
<1> HIDE DEF q2
<1>8. Unique(q2) /\ Tags(q2) = {<<"dns-in">>, <<"mixed-in">>} BY <1>2, <1>4, <1>7 DEF Unique, Tags
<1>9. w3 \in Seq(Inbound) /\ Unique(w3) /\ Tags(w3) \subseteq {<<"tun-in">>} BY <1>4, <1>6, WheneverInbound
<1>10. w4 \in Seq(Inbound) /\ Unique(w4) /\ Tags(w4) \subseteq {<<"hijack-dns">>} BY <1>4, <1>6, WheneverInbound
<1> HIDE DEF w3, w4
<1>11. Tags(q2) \cap Tags(w3) = {} BY <1>2, <1>8, <1>9
<1>12. q3 \in Seq(Inbound) /\ Unique(q3) /\ Tags(q3) = Tags(q2) \cup Tags(w3) BY <1>7, <1>8, <1>9, <1>11, ConcatSets
<1> HIDE DEF q3
<1>13. Tags(q3) \cap Tags(w4) = {} BY <1>2, <1>8, <1>9, <1>10, <1>12
<1>14. q3 \o w4 \in Seq(Inbound) /\ Unique(q3 \o w4) /\ Tags(q3 \o w4) = Tags(q3) \cup Tags(w4)
       BY <1>10, <1>12, <1>13, ConcatSets
<1> DEFINE q == q3 \o w4
<1>15. <<"dns-in">> \in Tags(q) /\ Tags(q) \subseteq {<<"dns-in">>, <<"mixed-in">>, <<"tun-in">>, <<"hijack-dns">>}
  <2> HIDE DEF q
  <2> QED BY <1>8, <1>9, <1>10, <1>12, <1>14 DEF q
<1> QED BY <1>5, <1>14, <1>15 DEF Fixed

(* The bridges of sing-box have tags of their own.                         *)
LEMMA BridgeInbounds ==
  ASSUME NEW g \in Context, Closed(g)
  PROVE  LET q == Bridges(g)
         IN  q \in Seq(Inbound) /\ Unique(q) /\ Tags(q) = BridgeTagsOf(g) /\ Tags(q) \cap Fixed = {}
<1> DEFINE q == Bridges(g)
           p == g.toSing
           n == Len(p)
           tag(i) == BridgeTag(p[i])
<1>1. p \in Seq(Gate) /\ n \in Nat /\ DOMAIN p = 1 .. n /\ \A i \in 1 .. n : p[i] \in Gate BY Fields, LenProperties
<1>2. \A i \in 1 .. n : /\ tag(i) \in Words /\ tag(i) # NoTag /\ tag(i)[1] \in {"bridge", "bridge-loopback"}
                        /\ p[i].outbound = <<"xray-direct">> => tag(i) = Tag(<<"bridge-loopback">>, p[i].port)
                        /\ p[i].outbound # <<"xray-direct">> => tag(i) = <<"bridge">> \o p[i].outbound
      BY <1>1, BridgeTags
<1>3. q = [i \in 1 .. n |-> [tag |-> tag(i), port |-> p[i].port]] BY <1>1 DEF Bridges
<1>4. \A i \in 1 .. n : p[i].port \in Nat /\ p[i].outbound \in Words BY <1>1 DEF Gate
<1>5. \A i, j \in 1 .. n :
        \/ i = j
        \/ p[i].port # p[j].port /\ (p[i].outbound # p[j].outbound \/ p[i].outbound = <<"xray-direct">>)
      BY <1>1 DEF Closed, GatesClosed
<1> HIDE DEF p, n
<1>6. ASSUME NEW i \in 1 .. n, NEW j \in 1 .. n, tag(i) = tag(j) PROVE i = j
  <2>1. CASE p[i].outbound = <<"xray-direct">> /\ p[j].outbound = <<"xray-direct">>
    <3> DEFINE w == <<"bridge-loopback">>
    <3>1. "bridge-loopback" \in Letters BY DEF Letters, Texts
    <3>2. w \in Words BY <3>1, OneLong DEF Words
    <3> HIDE DEF w
    <3>3. Tag(w, p[i].port) = Tag(w, p[j].port) BY <1>2, <1>6, <2>1 DEF w
    <3>4. /\ Tag(w, p[i].port)[Len(w) + 1] = p[i].port
          /\ Tag(w, p[j].port)[Len(w) + 1] = p[j].port
          BY <1>4, <3>2, TagFacts
    <3>5. p[i].port = p[j].port BY <3>3, <3>4
    <3> QED BY <1>5, <3>5
  <2>2. CASE p[i].outbound # <<"xray-direct">> /\ p[j].outbound # <<"xray-direct">>
    <3> DEFINE w == <<"bridge">>
               a == p[i].outbound
               b == p[j].outbound
    <3>1. "bridge" \in Letters BY DEF Letters, Texts
    <3>2. w \in Seq(Letters) BY <3>1, OneLong
    <3>3. a \in Seq(Letters) /\ b \in Seq(Letters) BY <1>4 DEF Words
    <3>4. w \o a = w \o b BY <1>2, <1>6, <2>2
    <3> HIDE DEF w, a, b
    <3>5. a = b
      <4>1. \A u \in Seq(Letters), v \in Seq(Letters), x \in Seq(Letters) : u \o v = u \o x => v = x
            BY ConcatSimplifications
      <4> QED BY <3>2, <3>3, <3>4, <4>1, Zenon
    <3> QED BY <1>5, <2>2, <3>5 DEF a, b
  <2>3. ASSUME NEW k \in 1 .. n, NEW l \in 1 .. n, p[k].outbound = <<"xray-direct">>, p[l].outbound # <<"xray-direct">>
        PROVE  tag(k) # tag(l)
    <3>1. tag(k) = Tag(<<"bridge-loopback">>, p[k].port) /\ tag(l) = <<"bridge">> \o p[l].outbound BY <1>2, <2>3
    <3> DEFINE w == <<"bridge-loopback">>
               v == <<"bridge">>
    <3>2. "bridge-loopback" \in Letters /\ "bridge" \in Letters BY DEF Letters, Texts
    <3>3. /\ w \in Words /\ Len(w) = 1 /\ w[1] = "bridge-loopback"
          /\ v \in Seq(Letters) /\ 1 \in DOMAIN v /\ v[1] = "bridge"
          BY <3>2, OneLong, OneSet DEF Words
    <3> HIDE DEF w, v
    <3>4. Tag(w, p[k].port)[1] = "bridge-loopback"
      <4>1. 1 \in 1 .. Len(w) BY <3>3
      <4> QED BY <1>4, <3>3, <4>1, TagFacts
    <3>5. (v \o p[l].outbound)[1] = "bridge"
      <4>1. p[l].outbound \in Seq(Letters) BY <1>4 DEF Words
      <4> QED BY <3>3, <4>1, ConcatFacts
    <3> QED BY <3>1, <3>4, <3>5 DEF w, v
  <2> QED BY <1>6, <2>1, <2>2, <2>3
<1> DEFINE gate(i) == [tag |-> tag(i), port |-> p[i].port]
<1>7. \A i \in 1 .. n : gate(i) \in Inbound /\ gate(i).tag = tag(i)
  <2> SUFFICES ASSUME NEW i \in 1 .. n PROVE gate(i) \in Inbound /\ gate(i).tag = tag(i) OBVIOUS
  <2>1. tag(i) \in Words /\ p[i].port \in Nat BY <1>2, <1>4
  <2> HIDE DEF tag
  <2> QED BY <2>1 DEF Inbound
<1>8. q = [i \in 1 .. n |-> gate(i)] BY <1>3
<1>9. BridgeTagsOf(g) = {tag(i) : i \in 1 .. n} BY <1>1 DEF BridgeTagsOf, p
<1> HIDE DEF q, gate
<1>10. q \in [1 .. n -> Inbound] /\ \A i \in 1 .. n : q[i].tag = tag(i) BY <1>7, <1>8
<1>11. q \in Seq(Inbound) /\ DOMAIN q = 1 .. n BY <1>1, <1>10, SeqTyped
<1>12. ASSUME NEW i \in 1 .. n PROVE tag(i) \notin Fixed
  <2>1. \A t \in Fixed : t[1] \in {"dns-in", "mixed-in", "tun-in", "hijack-dns"} BY DEF Fixed
  <2>2. tag(i)[1] \in {"bridge", "bridge-loopback"} BY <1>2
  <2> HIDE DEF tag
  <2> QED BY <2>1, <2>2
<1> HIDE DEF tag
<1>13. Tags(q) = {tag(i) : i \in 1 .. n} BY <1>10, <1>11 DEF Tags
<1>14. Unique(q) BY <1>6, <1>10, <1>11 DEF Unique
<1> QED BY <1>9, <1>11, <1>12, <1>13, <1>14 DEF q

LEMMA InboundsClosed ==
  ASSUME NEW s \in Settings, NEW g \in Context, Closed(g)
  PROVE  LET q == buildInboundSection(s) \o Bridges(g)
         IN  Unique(q) /\ <<"dns-in">> \in Tags(q) /\ BridgeTagsOf(g) \subseteq Tags(q)
<1>1. /\ buildInboundSection(s) \in Seq(Inbound) /\ Unique(buildInboundSection(s))
      /\ Tags(buildInboundSection(s)) \subseteq Fixed /\ <<"dns-in">> \in Tags(buildInboundSection(s))
      BY FixedInbounds
<1>2. Bridges(g) \in Seq(Inbound) /\ Unique(Bridges(g)) /\ Tags(Bridges(g)) = BridgeTagsOf(g)
      /\ Tags(Bridges(g)) \cap Fixed = {}
      BY BridgeInbounds
<1> DEFINE a == buildInboundSection(s)
           b == Bridges(g)
<1> HIDE DEF a, b
<1>3. Tags(a) \cap Tags(b) = {} BY <1>1, <1>2 DEF a, b
<1>4. Unique(a \o b) /\ Tags(a \o b) = Tags(a) \cup Tags(b) BY <1>1, <1>2, <1>3, ConcatSets DEF a, b
<1> QED BY <1>1, <1>2, <1>4 DEF a, b

(* The rules of sing-box: those of the bridges, those every configuration  *)
(* has, and those of the routing profile.                                  *)
Plumbing ==
  {Rule("route", <<"process">>, <<"direct">>, {}), Rule("sniff", NoTag, NoTag, {}),
   Rule("hijack-dns", NoTag, NoTag, {}), Rule("reject", <<"dns-in">>, NoTag, {}), Rule("reject", NoTag, NoTag, {})}
BridgeRules(g) == {Rule("route", BridgeTag(g.toSing[i]), g.toSing[i].outbound, {}) : i \in DOMAIN g.toSing}

LEMMA ListOver ==
  ASSUME NEW S, NEW q \in Seq(S)
  PROVE  ToSet(q) \subseteq S
<1>1. DOMAIN q = 1 .. Len(q) /\ \A i \in 1 .. Len(q) : q[i] \in S BY LenProperties
<1> QED BY <1>1 DEF ToSet

LEMMA RulesWithin ==
  ASSUME NEW s \in Settings, NEW r \in Routes, NEW g \in Context, NEW extra
  PROVE  /\ ToSet(buildRouteSection(s, r, g, extra).rules)
              \subseteq BridgeRules(g) \cup Plumbing \cup ToSet(get_route_rules(s, r))
         /\ \E S : buildRouteSection(s, r, g, extra).rules \in Seq(S)
<1> DEFINE rules == buildRouteSection(s, r, g, extra).rules
           B == BridgeRules(g)
           T == Toward(g)
           P == OfProcess(extra)
           W == Whenever(~r.raw, Sniffs)
           G == get_route_rules(s, r)
           C == CatchAll(r)
           S == B \cup Plumbing
           Z == S \cup RulesOf(s, r)
           q1 == T \o P
           q2 == q1 \o W
           q3 == q2 \o Rejects
           A == IF r.raw /\ r.prevent THEN << >> ELSE q3
           AG == A \o G
<1>1. rules = AG \o C
      BY DEF buildRouteSection, Toward, OfProcess, Sniffs, Rejects, CatchAll, Whenever
<1>2. T \in Seq(S)
  <2>1. g.toSing \in Seq(Gate) BY Fields
  <2>2. Len(g.toSing) \in Nat /\ DOMAIN g.toSing = 1 .. Len(g.toSing) BY <2>1, LenProperties
  <2> DEFINE rule(i) == Rule("route", BridgeTag(g.toSing[i]), g.toSing[i].outbound, {})
  <2>3. T = [i \in 1 .. Len(g.toSing) |-> rule(i)] BY <2>2 DEF Toward
  <2>4. B = {rule(i) : i \in 1 .. Len(g.toSing)} BY <2>2 DEF BridgeRules
  <2> HIDE DEF rule, T, B
  <2>5. T \in [1 .. Len(g.toSing) -> S] BY <2>3, <2>4
  <2> HIDE DEF S
  <2> QED BY <2>2, <2>5, SeqTyped
<1>3. P \in Seq(S) /\ W \in Seq(S) /\ Rejects \in Seq(S) /\ C \in Seq(S)
  <2> DEFINE sniff == Rule("sniff", NoTag, NoTag, {})
             hij == Rule("hijack-dns", NoTag, NoTag, {})
             rej == Rule("reject", <<"dns-in">>, NoTag, {})
             proc == Rule("route", <<"process">>, <<"direct">>, {})
             catch == Rule("reject", NoTag, NoTag, {})
  <2>1. sniff \in S /\ hij \in S /\ rej \in S /\ proc \in S /\ catch \in S BY DEF Plumbing
  <2>2. (P = <<proc>> \/ P = << >>) /\ (W = <<sniff, hij>> \/ W = << >>) /\ Rejects = <<rej>>
        /\ (C = <<catch>> \/ C = << >>)
        BY DEF OfProcess, Sniffs, Rejects, CatchAll, Whenever
  <2> HIDE DEF sniff, hij, rej, proc, catch, P, W, C, S
  <2>3. <<sniff, hij>> \in Seq(S) BY <2>1
  <2> QED BY <2>1, <2>2, <2>3, OneLong, EmptySeq
<1> HIDE DEF rules, T, P, W, C, B
<1>4. q1 \in Seq(S) BY <1>2, <1>3, ConcatFacts
<1> HIDE DEF q1
<1>5. q2 \in Seq(S) BY <1>3, <1>4, ConcatFacts
<1> HIDE DEF q2
<1>6. q3 \in Seq(S) BY <1>3, <1>5, ConcatFacts
<1> HIDE DEF q3
<1>7. A \in Seq(S) BY <1>6, EmptySeq
<1>8. G \in Seq(RulesOf(s, r)) BY RulesFacts
<1> HIDE DEF A, G
<1>9. S \subseteq Z /\ RulesOf(s, r) \subseteq Z OBVIOUS
<1> HIDE DEF Z
<1>10. A \in Seq(Z) /\ C \in Seq(Z) /\ G \in Seq(Z) BY <1>3, <1>7, <1>8, <1>9
<1>11. AG \in Seq(Z) /\ ToSet(AG) = ToSet(A) \cup ToSet(G) BY <1>10, ConcatSets
<1> HIDE DEF AG
<1>12. AG \o C \in Seq(Z) /\ ToSet(AG \o C) = ToSet(AG) \cup ToSet(C) BY <1>10, <1>11, ConcatSets
<1>13. ToSet(A) \subseteq S /\ ToSet(C) \subseteq S BY <1>3, <1>7, ListOver
<1>14. ToSet(rules) \subseteq S \cup ToSet(G) BY <1>1, <1>11, <1>12, <1>13
<1>15. rules \in Seq(Z) BY <1>1, <1>12
<1> QED BY <1>14, <1>15 DEF rules, B, G

(* The adblock rule is among them only when it is asked for.               *)
LEMMA AdblockAsked ==
  ASSUME NEW s \in Settings, NEW r \in Routes
  PROVE  ToSet(get_route_rules(s, r)) \subseteq
           {RuleOf(s, r, i) : i \in DOMAIN r.rules} \cup (IF s.adblock /\ ~r.raw THEN {Adblock} ELSE {})
<1>1. CASE s.adblock /\ ~r.raw
  <2>1. get_route_rules(s, r) \in Seq(RulesOf(s, r)) BY RulesFacts
  <2> QED BY <1>1, <2>1, ListOver DEF RulesOf
<1>2. CASE ~(s.adblock /\ ~r.raw)
  <2>1. get_route_rules(s, r) = [i \in DOMAIN r.rules |-> RuleOf(s, r, i)] BY <1>2 DEF get_route_rules, RuleOf
  <2> DEFINE rule(i) == RuleOf(s, r, i)
  <2> HIDE DEF rule
  <2>2. ToSet([i \in DOMAIN r.rules |-> rule(i)]) = {rule(i) : i \in DOMAIN r.rules} BY DEF ToSet
  <2> QED BY <2>1, <2>2 DEF rule
<1> QED BY <1>1, <1>2

RuleFields(x, inbound, outbound, sets) == x.inbound = inbound /\ x.outbound = outbound /\ x.sets = sets

LEMMA RuleHas ==
  ASSUME NEW does, NEW inbound, NEW outbound, NEW sets
  PROVE  RuleFields(Rule(does, inbound, outbound, sets), inbound, outbound, sets)
BY DEF Rule, RuleFields

LEMMA FieldsOf ==
  ASSUME NEW x
  PROVE  x["inbound"] = x.inbound /\ x["outbound"] = x.outbound /\ x["sets"] = x.sets
OBVIOUS

LEMMA OverList ==
  ASSUME NEW q, NEW f
  PROVE  Values(q, f) = {x[f] : x \in ToSet(q)}
BY DEF Values, ToSet

\* A routing profile as the exceptions leave it.
NoBlock(r) == r.raw \/ \A i \in DOMAIN r.rules : r.rules[i].action = "route" => r.rules[i].outbound # "block"
SetsKnown(r) == \A i \in DOMAIN r.rules : r.rules[i].sets \subseteq IF r.raw THEN r.own ELSE KnownSets

LEMMA ReadyTags ==
  ASSUME NEW s \in Settings, NEW r \in Routes, NEW g, Ready(g, s, r)
  PROVE  /\ Entrances(s, r, Len(UsedOutbounds(r))) \cup {<<"direct">>} \subseteq Defined(g)
         /\ <<"proxy">> \in Defined(g) /\ <<"direct">> \in Defined(g)
         /\ \A i \in DOMAIN g.toSing : g.toSing[i].outbound \in Defined(g)
<1>1. Entrances(s, r, Len(UsedOutbounds(r))) \subseteq Tags(g.sing) BY DEF Ready
<1>2. <<"proxy">> \in Entrances(s, r, Len(UsedOutbounds(r))) BY DEF Entrances
<1>3. \A i \in DOMAIN g.toSing : g.toSing[i].outbound \in Tags(g.sing) \cup {<<"xray-direct">>}
      BY DEF Ready, Closed, GatesClosed
<1>4. \A i \in DOMAIN g.toSing : g.toSing[i].outbound = <<"xray-direct">> => Loops(g) BY DEF Loops
<1> QED BY <1>1, <1>2, <1>3, <1>4 DEF Defined

LEMMA RuleLeads ==
  ASSUME NEW s \in Settings, NEW r \in Routes, NEW g, Ready(g, s, r), NEW extra, NoBlock(r),
         NEW x \in ToSet(buildRouteSection(s, r, g, extra).rules)
  PROVE  /\ x.outbound \in Defined(g) \cup {NoTag}
         /\ x.inbound \in BridgeTagsOf(g) \cup {<<"dns-in">>, <<"process">>, NoTag}
<1>1. g \in Context BY DEF Ready
<1>2. x \in BridgeRules(g) \cup Plumbing \cup ToSet(get_route_rules(s, r)) BY <1>1, RulesWithin
<1>3. <<"direct">> \in Defined(g) /\ \A i \in DOMAIN g.toSing : g.toSing[i].outbound \in Defined(g) BY ReadyTags
<1>4. CASE x \in BridgeRules(g)
  <2>1. PICK i \in DOMAIN g.toSing : x = Rule("route", BridgeTag(g.toSing[i]), g.toSing[i].outbound, {})
        BY <1>4 DEF BridgeRules
  <2>2. x.outbound = g.toSing[i].outbound /\ x.inbound = BridgeTag(g.toSing[i]) BY <2>1, RuleHas DEF RuleFields
  <2> QED BY <1>3, <2>2 DEF BridgeTagsOf
<1>5. CASE x \in Plumbing
  <2>1. x.outbound \in {<<"direct">>, NoTag} /\ x.inbound \in {<<"process">>, <<"dns-in">>, NoTag}
        BY <1>5 DEF Plumbing, Rule
  <2> QED BY <1>3, <2>1
<1>6. CASE x \in ToSet(get_route_rules(s, r))
  <2>1. x = Adblock \/ \E i \in DOMAIN r.rules : x = RuleOf(s, r, i) BY <1>6, AdblockAsked
  <2>2. CASE x = Adblock
    <3>1. x.outbound = NoTag /\ x.inbound = NoTag BY <2>2, RuleHas DEF Adblock, RuleFields
    <3> QED BY <3>1
  <2>3. ASSUME NEW i \in DOMAIN r.rules, x = RuleOf(s, r, i)
        PROVE  x.outbound \in Defined(g) \cup {NoTag} /\ x.inbound = NoTag
    <3> DEFINE o == r.rules[i].outbound
               t == IF r.rules[i].action = "route" THEN OutboundTag(s, r, o) ELSE NoTag
    <3>1. x.outbound = t /\ x.inbound = NoTag BY <2>3, RuleHas DEF RuleOf, RuleFields
    <3>2. CASE r.rules[i].action = "route"
      <4>1. o \in OwnName \cup ToSet(UsedOutbounds(r)) BY UsedFacts
      <4>2. o # Empty BY <3>2, RoutesType DEF RouteFacts
      <4>3. o = "block" => r.raw BY <3>2 DEF NoBlock
      <4> HIDE DEF o
      <4>4. o \in Predefined \cup ToSet(UsedOutbounds(r)) BY <4>1, <4>2 DEF OwnName
      <4>5. OutboundTag(s, r, o) \in Entrances(s, r, Len(UsedOutbounds(r))) \cup {<<"direct">>}
            BY <4>3, <4>4, OutboundFacts
      <4>6. OutboundTag(s, r, o) \in Defined(g) BY <4>5, ReadyTags
      <4> QED BY <3>1, <3>2, <4>6
    <3>3. CASE r.rules[i].action # "route" BY <3>1, <3>3
    <3> QED BY <3>1, <3>2, <3>3
  <2> QED BY <2>1, <2>2, <2>3
<1> QED BY <1>2, <1>4, <1>5, <1>6

LEMMA RulesLead ==
  ASSUME NEW s \in Settings, NEW r \in Routes, NEW g, Ready(g, s, r), NEW extra, NoBlock(r)
  PROVE  LET q == buildRouteSection(s, r, g, extra).rules
         IN  /\ Named(q, "outbound") \subseteq Defined(g)
             /\ Named(q, "inbound") \ {<<"process">>} \subseteq {<<"dns-in">>} \cup BridgeTagsOf(g)
<1> DEFINE q == buildRouteSection(s, r, g, extra).rules
<1>1. \A x \in ToSet(q) : /\ x.outbound \in Defined(g) \cup {NoTag}
                          /\ x.inbound \in BridgeTagsOf(g) \cup {<<"dns-in">>, <<"process">>, NoTag}
      BY RuleLeads
<1> HIDE DEF q
<1>2. Values(q, "outbound") \subseteq Defined(g) \cup {NoTag}
      /\ Values(q, "inbound") \subseteq BridgeTagsOf(g) \cup {<<"dns-in">>, <<"process">>, NoTag}
      BY <1>1, FieldsOf, OverList
<1>3. /\ Named(q, "outbound") \subseteq Defined(g)
      /\ Named(q, "inbound") \ {<<"process">>} \subseteq {<<"dns-in">>} \cup BridgeTagsOf(g)
      BY <1>2 DEF Named
<1> QED BY <1>3 DEF q

LEMMA FinalLeads ==
  ASSUME NEW s \in Settings, NEW r \in Routes, NEW g, Ready(g, s, r), NEW extra
  PROVE  buildRouteSection(s, r, g, extra).final \in Defined(g) \cup {NoTag}
<1> DEFINE t == buildRouteSection(s, r, g, extra).final
           verbatim == r.raw /\ r.prevent
           o == r.final
<1>1. t = CASE o = "block" /\ ~r.raw -> <<"direct">>
            [] o = Empty -> IF verbatim THEN NoTag ELSE <<"proxy">>
            [] OTHER -> OutboundTag(s, r, o)
      BY Zenon DEF buildRouteSection
<1>2. o \in OwnName \cup ToSet(UsedOutbounds(r))
  <2>1. r.raw => o \in OwnName \cup ToSet(UsedOutbounds(r)) BY UsedFacts
  <2>2. ~r.raw => o \in OwnName BY RoutesType DEF RouteFacts, OwnName
  <2> QED BY <2>1, <2>2
<1>3. <<"proxy">> \in Defined(g) /\ <<"direct">> \in Defined(g) BY ReadyTags
<1> SUFFICES t \in Defined(g) \cup {NoTag} OBVIOUS
<1> HIDE DEF t, o
<1>4. CASE o = "block" /\ ~r.raw
  <2>1. "block" # Empty BY Zenon DEF Empty
  <2>2. o # Empty BY <1>4, <2>1
  <2>3. t = <<"direct">> BY <1>1, <1>4, <2>2
  <2> QED BY <1>3, <2>3
<1>5. CASE ~(o = "block" /\ ~r.raw) /\ o = Empty
  <2>1. t = NoTag \/ t = <<"proxy">> BY <1>1, <1>5
  <2> QED BY <1>3, <2>1
<1>6. CASE ~(o = "block" /\ ~r.raw) /\ o # Empty
  <2>1. t = OutboundTag(s, r, o) BY <1>1, <1>6
  <2>2. o \in Predefined \cup ToSet(UsedOutbounds(r)) BY <1>2, <1>6 DEF OwnName
  <2>3. t \in Entrances(s, r, Len(UsedOutbounds(r))) \cup {<<"direct">>} BY <1>6, <2>1, <2>2, OutboundFacts
  <2> QED BY <2>3, ReadyTags
<1> QED BY <1>4, <1>5, <1>6

(* Every rule set a rule names is defined.                                 *)
LEMMA SetsDefined ==
  ASSUME NEW s \in Settings, NEW r \in Routes, NEW g \in Context, NEW extra, SetsKnown(r)
  PROVE  LET w == buildRouteSection(s, r, g, extra)
         IN  UNION {w.rules[i].sets : i \in DOMAIN w.rules} \subseteq w.sets
<1> DEFINE w == buildRouteSection(s, r, g, extra)
           used == IF r.raw THEN {} ELSE UNION {r.rules[i].sets : i \in DOMAIN r.rules}
<1>1. w.sets = IF r.raw /\ r.prevent THEN r.own ELSE NeededSets(s, r) BY DEF buildRouteSection
<1>2. NeededSets(s, r) = {set \in used : set \in KnownSets}
        \cup (IF s.adblock THEN {"freelink-adblocksingbox"} ELSE {}) \cup (IF r.raw THEN r.own ELSE {})
      BY DEF NeededSets
<1>3. ToSet(w.rules) \subseteq BridgeRules(g) \cup Plumbing \cup ToSet(get_route_rules(s, r)) BY RulesWithin
<1> HIDE DEF w
<1>4. ASSUME NEW i \in DOMAIN r.rules PROVE r.rules[i].sets \subseteq w.sets
  <2>1. CASE r.raw
    <3>1. r.rules[i].sets \subseteq r.own BY <2>1 DEF SetsKnown
    <3> QED BY <1>1, <1>2, <2>1, <3>1
  <2>2. CASE ~r.raw
    <3>1. r.rules[i].sets \subseteq KnownSets BY <2>2 DEF SetsKnown
    <3>2. r.rules[i].sets \subseteq used BY <2>2
    <3> HIDE DEF used
    <3> QED BY <1>1, <1>2, <2>2, <3>1, <3>2
  <2> QED BY <2>1, <2>2
<1>5. ASSUME NEW x \in ToSet(w.rules) PROVE x.sets \subseteq w.sets
  <2>1. CASE x \in BridgeRules(g)
    <3>1. PICK j \in DOMAIN g.toSing : x = Rule("route", BridgeTag(g.toSing[j]), g.toSing[j].outbound, {})
          BY <2>1 DEF BridgeRules
    <3>2. x.sets = {} BY <3>1, RuleHas DEF RuleFields
    <3> QED BY <3>2
  <2>2. CASE x \in Plumbing
    <3>1. x.sets = {} BY <2>2 DEF Plumbing, Rule
    <3> QED BY <3>1
  <2>3. CASE x \in ToSet(get_route_rules(s, r))
    <3>1. (x = Adblock /\ s.adblock /\ ~r.raw) \/ \E i \in DOMAIN r.rules : x = RuleOf(s, r, i) BY <2>3, AdblockAsked
    <3>2. CASE x = Adblock /\ s.adblock /\ ~r.raw
      <4>1. x.sets = {"freelink-adblocksingbox"} BY <3>2, RuleHas DEF Adblock, RuleFields
      <4> QED BY <1>1, <1>2, <3>2, <4>1
    <3>3. ASSUME NEW i \in DOMAIN r.rules, x = RuleOf(s, r, i) PROVE x.sets \subseteq w.sets
      <4>1. x.sets = r.rules[i].sets BY <3>3, RuleHas DEF RuleOf, RuleFields
      <4> QED BY <1>4, <4>1
    <3> QED BY <3>1, <3>2, <3>3
  <2> QED BY <1>3, <2>1, <2>2, <2>3
<1>6. \A i \in DOMAIN w.rules : w.rules[i] \in ToSet(w.rules) BY DEF ToSet
<1>7. UNION {w.rules[i].sets : i \in DOMAIN w.rules} \subseteq w.sets BY <1>5, <1>6
<1> QED BY <1>7 DEF w

(* The DNS servers are asked through "proxy", and the rules name them.     *)
LEMMA FiveSets ==
  ASSUME NEW S, NEW a \in Seq(S), NEW b \in Seq(S), NEW c \in Seq(S), NEW d \in Seq(S), NEW e \in Seq(S)
  PROVE  /\ a \o b \o c \o d \o e \in Seq(S)
         /\ ToSet(a \o b \o c \o d \o e) = ToSet(a) \cup ToSet(b) \cup ToSet(c) \cup ToSet(d) \cup ToSet(e)
<1> DEFINE p == a \o b
           q == p \o c
           r == q \o d
<1>1. p \in Seq(S) /\ ToSet(p) = ToSet(a) \cup ToSet(b) BY ConcatSets
<1> HIDE DEF p
<1>2. q \in Seq(S) /\ ToSet(q) = ToSet(p) \cup ToSet(c) BY <1>1, ConcatSets
<1> HIDE DEF q
<1>3. r \in Seq(S) /\ ToSet(r) = ToSet(q) \cup ToSet(d) BY <1>2, ConcatSets
<1> HIDE DEF r
<1>4. r \o e \in Seq(S) /\ ToSet(r \o e) = ToSet(r) \cup ToSet(e) BY <1>3, ConcatSets
<1>5. r \o e = a \o b \o c \o d \o e BY DEF p, q, r
<1> QED BY <1>1, <1>2, <1>3, <1>4, <1>5

LEMMA WheneverSet ==
  ASSUME NEW S, NEW q \in Seq(S), NEW guard
  PROVE  /\ Whenever(guard, q) \in Seq(S)
         /\ guard => ToSet(Whenever(guard, q)) = ToSet(q)
         /\ ~guard => ToSet(Whenever(guard, q)) = {}
<1>1. << >> \in Seq(S) /\ ToSet(<< >>) = {} BY NoneSet
<1> QED BY <1>1 DEF Whenever

LEMMA OneOver == ASSUME NEW S, NEW x \in S PROVE <<x>> \in Seq(S) /\ ToSet(<<x>>) = {x}
BY OneLong, OneSet

LEMMA TagsOver == ASSUME NEW q PROVE Tags(q) = {x.tag : x \in ToSet(q)}
BY DEF Tags, ToSet

LEMMA DnsServers ==
  ASSUME NEW s \in Settings, NEW r, NEW id, id # None, NEW direct
  PROVE  LET q == buildDNSSection(s, r, id, direct).servers
         IN  /\ Named(q, "via") \subseteq {<<"proxy">>} /\ {"dns-remote", "dns-direct"} \subseteq Tags(q)
             /\ Kind(id) = "tailscale" => "dns-tailscale" \in Tags(q)
             /\ s.fake => "dns-fake" \in Tags(q)
<1> DEFINE tailscale == id # None /\ Kind(id) = "tailscale"
           x1 == [tag |-> "dns-remote", via |-> <<"proxy">>]
           x2 == [tag |-> "dns-tailscale", via |-> <<"proxy">>]
           x3 == [tag |-> "dns-direct", via |-> NoTag]
           x4 == [tag |-> "dns-fake", via |-> NoTag]
           x5 == [tag |-> "dns-local", via |-> NoTag]
           S == {x1, x2, x3, x4, x5}
           a == Whenever(id # None, <<x1>>)
           b == Whenever(tailscale, <<x2>>)
           c == <<x3>>
           d == Whenever(s.fake, <<x4>>)
           e == <<x5>>
           q == buildDNSSection(s, r, id, direct).servers
<1>1. q = a \o b \o c \o d \o e BY DEF buildDNSSection
<1>2. /\ \A x \in S : x.via = NoTag \/ x.via = <<"proxy">>
      /\ x1.tag = "dns-remote" /\ x2.tag = "dns-tailscale" /\ x3.tag = "dns-direct" /\ x4.tag = "dns-fake"
      OBVIOUS
<1>3. x1 \in S /\ x2 \in S /\ x3 \in S /\ x4 \in S /\ x5 \in S OBVIOUS
<1> HIDE DEF x1, x2, x3, x4, x5, S, q
<1>4. /\ <<x1>> \in Seq(S) /\ ToSet(<<x1>>) = {x1} /\ <<x2>> \in Seq(S) /\ ToSet(<<x2>>) = {x2}
      /\ c \in Seq(S) /\ ToSet(c) = {x3} /\ <<x4>> \in Seq(S) /\ ToSet(<<x4>>) = {x4} /\ e \in Seq(S)
      BY <1>3, OneOver
<1>5. a \in Seq(S) /\ ToSet(a) = {x1} BY <1>4, WheneverSet
<1>6. b \in Seq(S) /\ (Kind(id) = "tailscale" => ToSet(b) = {x2}) BY <1>4, WheneverSet
<1>7. d \in Seq(S) /\ (s.fake => ToSet(d) = {x4}) BY <1>4, WheneverSet
<1> HIDE DEF a, b, c, d, e
<1>8. q \in Seq(S) /\ ToSet(q) = ToSet(a) \cup ToSet(b) \cup ToSet(c) \cup ToSet(d) \cup ToSet(e)
  <2>1. a \in Seq(S) /\ b \in Seq(S) /\ c \in Seq(S) /\ d \in Seq(S) /\ e \in Seq(S) BY <1>4, <1>5, <1>6, <1>7
  <2>2. /\ a \o b \o c \o d \o e \in Seq(S)
        /\ ToSet(a \o b \o c \o d \o e) = ToSet(a) \cup ToSet(b) \cup ToSet(c) \cup ToSet(d) \cup ToSet(e)
        BY ONLY <2>1, FiveSets
  <2> QED BY ONLY <1>1, <2>2
<1>9. ToSet(q) \subseteq S BY <1>8, ListOver
<1>10. Named(q, "via") \subseteq {<<"proxy">>}
  <2>1. Values(q, "via") = {x["via"] : x \in ToSet(q)} BY OverList
  <2>2. \A x \in ToSet(q) : x["via"] \in {NoTag, <<"proxy">>} BY <1>2, <1>9
  <2> QED BY <2>1, <2>2 DEF Named
<1>11. \A x \in ToSet(q) : x.tag \in Tags(q) BY TagsOver
<1>12. /\ {"dns-remote", "dns-direct"} \subseteq Tags(q)
       /\ Kind(id) = "tailscale" => "dns-tailscale" \in Tags(q)
       /\ s.fake => "dns-fake" \in Tags(q)
  <2>1. x1 \in ToSet(q) /\ x3 \in ToSet(q) BY <1>4, <1>5, <1>8
  <2>2. Kind(id) = "tailscale" => x2 \in ToSet(q) BY <1>6, <1>8
  <2>3. s.fake => x4 \in ToSet(q) BY <1>7, <1>8
  <2> QED BY <1>2, <1>11, <2>1, <2>2, <2>3
<1> QED BY <1>10, <1>12 DEF q

LEMMA DnsRules ==
  ASSUME NEW s \in Settings, NEW r \in Routes, NEW id, id # None, NEW direct, NEW tags,
         {"dns-remote", "dns-direct", "predefined"} \subseteq tags,
         Kind(id) = "tailscale" => "dns-tailscale" \in tags, s.fake => "dns-fake" \in tags
  PROVE  Values(buildDNSSection(s, r, id, direct).rules, "server") \subseteq tags
<1> DEFINE final == IF s.direct THEN "dns-direct" ELSE "dns-remote"
           tailscale == id # None /\ Kind(id) = "tailscale"
           proxySites == SitesOf(s, r, "proxy")
           x1 == DnsRule({"tailscale.com"}, "dns-direct")
           x2 == DnsRule({"ts.net"}, "dns-tailscale")
           x3 == DnsRule(s.hijack, "predefined")
           x4 == DnsRule({"*"}, "dns-fake")
           x5 == DnsRule(direct, "dns-direct")
           x6 == DnsRule(proxySites, "dns-remote")
           x7 == DnsRule({"*"}, final)
           S == {x1, x2, x3, x4, x5, x6, x7}
           a == Whenever(tailscale, <<x1, x2>>)
           b == Whenever(s.hijack # {} /\ id # None, <<x3>>)
           c == Whenever(s.fake, <<x4>>)
           d == Whenever(direct # {}, <<x5>>)
           e == Whenever(proxySites # {} /\ s.direct, <<x6>>)
           f == <<x7>>
           q == buildDNSSection(s, r, id, direct).rules
           t == a \o b \o c \o d \o e
<1>1. q = t \o f BY DEF buildDNSSection
<1>2. /\ x1.server = "dns-direct" /\ x2.server = "dns-tailscale" /\ x3.server = "predefined" /\ x4.server = "dns-fake"
      /\ x5.server = "dns-direct" /\ x6.server = "dns-remote" /\ x7.server \in {"dns-direct", "dns-remote"}
      BY DEF DnsRule
<1>3. x1 \in S /\ x2 \in S /\ x3 \in S /\ x4 \in S /\ x5 \in S /\ x6 \in S /\ x7 \in S OBVIOUS
<1> HIDE DEF x1, x2, x3, x4, x5, x6, x7, S, q, t
<1>4. /\ <<x3>> \in Seq(S) /\ ToSet(<<x3>>) = {x3} /\ <<x4>> \in Seq(S) /\ ToSet(<<x4>>) = {x4}
      /\ <<x5>> \in Seq(S) /\ ToSet(<<x5>>) = {x5} /\ <<x6>> \in Seq(S) /\ ToSet(<<x6>>) = {x6}
      /\ f \in Seq(S) /\ ToSet(f) = {x7}
      BY <1>3, OneOver
<1>5. <<x1, x2>> \in Seq(S) /\ ToSet(<<x1, x2>>) \subseteq {x1, x2} BY <1>3 DEF ToSet
<1>6. a \in Seq(S) /\ \A x \in ToSet(a) : x.server \in tags
  <2>1. a \in Seq(S) /\ (tailscale => ToSet(a) \subseteq {x1, x2}) /\ (~tailscale => ToSet(a) = {})
        BY <1>5, WheneverSet
  <2> HIDE DEF a
  <2> QED BY <1>2, <2>1
<1>7. b \in Seq(S) /\ \A x \in ToSet(b) : x.server \in tags
  <2>1. b \in Seq(S) /\ ToSet(b) \subseteq {x3} BY <1>4, WheneverSet
  <2> HIDE DEF b
  <2> QED BY <1>2, <2>1
<1>8. c \in Seq(S) /\ \A x \in ToSet(c) : x.server \in tags
  <2>1. c \in Seq(S) /\ (s.fake => ToSet(c) \subseteq {x4}) /\ (~s.fake => ToSet(c) = {}) BY <1>4, WheneverSet
  <2> HIDE DEF c
  <2> QED BY <1>2, <2>1
<1>9. d \in Seq(S) /\ \A x \in ToSet(d) : x.server \in tags
  <2>1. d \in Seq(S) /\ ToSet(d) \subseteq {x5} BY <1>4, WheneverSet
  <2> HIDE DEF d
  <2> QED BY <1>2, <2>1
<1>10. e \in Seq(S) /\ \A x \in ToSet(e) : x.server \in tags
  <2>1. e \in Seq(S) /\ ToSet(e) \subseteq {x6} BY <1>4, WheneverSet
  <2> HIDE DEF e
  <2> QED BY <1>2, <2>1
<1>11. \A x \in ToSet(f) : x.server \in tags BY <1>2, <1>4
<1> HIDE DEF a, b, c, d, e, f
<1>12. t \in Seq(S) /\ ToSet(t) = ToSet(a) \cup ToSet(b) \cup ToSet(c) \cup ToSet(d) \cup ToSet(e)
  <2>1. a \in Seq(S) /\ b \in Seq(S) /\ c \in Seq(S) /\ d \in Seq(S) /\ e \in Seq(S)
        BY <1>6, <1>7, <1>8, <1>9, <1>10
  <2>2. /\ a \o b \o c \o d \o e \in Seq(S)
        /\ ToSet(a \o b \o c \o d \o e) = ToSet(a) \cup ToSet(b) \cup ToSet(c) \cup ToSet(d) \cup ToSet(e)
        BY ONLY <2>1, FiveSets
  <2> QED BY ONLY <2>2 DEF t
<1>13. ToSet(q) = ToSet(t) \cup ToSet(f) BY <1>1, <1>4, <1>12, ConcatSets
<1>14. \A x \in ToSet(q) : x.server \in tags BY <1>6, <1>7, <1>8, <1>9, <1>10, <1>11, <1>12, <1>13
<1>15. \A x \in ToSet(q) : x["server"] \in tags BY <1>14
<1>16. Values(q, "server") \subseteq tags BY <1>15, OverList
<1> QED BY <1>16 DEF q

(* The configuration of Xray: that of the hops, or the user's own.         *)
XrayClosed(x) ==
  /\ Unique(x.outbounds) /\ Unique(x.inbounds)
  /\ Named(x.outbounds, "via") \cup Named(x.rules, "outbound") \subseteq Tags(x.outbounds)
  /\ Named(x.rules, "inbound") \subseteq Tags(x.inbounds)

LEMMA NothingListed ==
  Unique(<< >>) /\ Tags(<< >>) = {} /\ \A f : Named(<< >>, f) = {}
BY NoneSet DEF Unique, Tags, Named, Values

LEMMA UserXrayClosed == ASSUME NEW u \in UserConfig PROVE XrayClosed(u)
<1>1. CASE u = NoXray
  <2>1. u.inbounds = << >> /\ u.outbounds = << >> /\ u.rules = << >> BY <1>1 DEF NoXray
  <2> QED BY <2>1, NothingListed, Zenon DEF XrayClosed
<1>2. ASSUME NEW n \in Nat, u = UserXray(n) PROVE XrayClosed(u)
  <2> DEFINE o == [tag |-> <<"user">>, hop |-> "bridge", port |-> 0, via |-> NoTag, bind |-> Empty]
             i == [tag |-> <<"freelink-bridge">>, port |-> n]
  <2>1. u = [inbounds |-> <<i>>, outbounds |-> <<o>>, rules |-> << >>] BY <1>2 DEF UserXray
  <2>2. o.via = NoTag OBVIOUS
  <2> HIDE DEF o, i
  <2>3. u.inbounds = <<i>> /\ u.outbounds = <<o>> /\ u.rules = << >> BY <2>1
  <2>4. DOMAIN <<i>> = {1} /\ DOMAIN <<o>> = {1} /\ <<o>>[1] = o BY OneSet
  <2>5. Unique(<<i>>) /\ Unique(<<o>>) BY <2>4 DEF Unique
  <2>6. o["via"] = NoTag BY <2>2
  <2> DEFINE p == <<o>>
  <2>7. DOMAIN p = {1} /\ p[1] = o BY <2>4
  <2> HIDE DEF p
  <2>8. Named(p, "via") = {} BY <2>6, <2>7 DEF Named, Values
  <2> QED BY <2>3, <2>5, <2>8, NothingListed DEF XrayClosed, p
<1> QED BY <1>1, <1>2 DEF UserConfig

LEMMA BuiltXrayClosed ==
  ASSUME NEW g \in Context, Closed(g)
  PROVE  XrayClosed(buildXrayConfig(g, TRUE))
<1> DEFINE x == buildXrayConfig(g, TRUE)
           p == g.toXray
           n == Len(p)
           direct == [tag |-> <<"direct">>, hop |-> "direct", port |-> 0, via |-> NoTag, bind |-> Empty]
           S == XrayHop \cup {direct}
           d == <<direct>>
           out == g.xray \o d
           entry(b) == [tag |-> Append(b.outbound, "inbound"), port |-> b.port]
           rule(b) == [inbound |-> Append(b.outbound, "inbound"), outbound |-> b.outbound]
           in == [i \in 1 .. n |-> entry(p[i])]
           rules == [i \in 1 .. n |-> rule(p[i])]
<1>1. /\ p \in Seq(Gate) /\ n \in Nat /\ DOMAIN p = 1 .. n /\ \A i \in 1 .. n : p[i] \in Gate
      /\ g.xray \in Seq(XrayHop) /\ g.user \in UserConfig
      BY Fields, LenProperties
<1>2. CASE g.xray = << >>
  <2>1. x = g.user BY <1>2 DEF buildXrayConfig
  <2> QED BY <1>1, <2>1, UserXrayClosed
<1>3. CASE g.xray # << >>
  <2>1. /\ Linked(g.xray, "via") /\ Tags(g.xray) \cap Forbidden = {}
        /\ \A i \in 1 .. n : p[i].outbound \in Tags(g.xray)
        /\ \A i, j \in 1 .. n : i = j \/ p[i].outbound # p[j].outbound \/ p[i].outbound = <<"xray-direct">>
    <3>1. GatesClosed(g.toXray, Tags(g.xray), g.ports) /\ Linked(g.xray, "via") /\ Tags(g.xray) \cap Forbidden = {}
          BY DEF Closed
    <3> QED BY <1>1, <3>1 DEF GatesClosed
  <2>2. <<"xray-direct">> \in Forbidden /\ <<"direct">> \in Forbidden BY DEF Forbidden
  <2>3. \A i, j \in 1 .. n : i = j \/ p[i].outbound # p[j].outbound BY <2>1, <2>2
  <2>4. x.outbounds = out /\ x.inbounds = in /\ x.rules = rules
    <3>1. x = [inbounds |-> [i \in DOMAIN p |-> entry(p[i])], outbounds |-> out,
               rules |-> [i \in DOMAIN p |-> [inbound |-> entry(p[i]).tag, outbound |-> p[i].outbound]]]
          BY <1>3 DEF buildXrayConfig, Whenever
    <3>2. [i \in DOMAIN p |-> entry(p[i])] = in BY <1>1
    <3>3. [i \in DOMAIN p |-> [inbound |-> entry(p[i]).tag, outbound |-> p[i].outbound]] = rules
      <4>1. \A i \in DOMAIN p : [inbound |-> entry(p[i]).tag, outbound |-> p[i].outbound] = rule(p[i]) OBVIOUS
      <4> HIDE DEF entry, rule, p, n
      <4> QED BY <1>1, <4>1
    <3> HIDE DEF x, in, out, rules, entry
    <3> QED BY <3>1, <3>2, <3>3
  <2>5. direct.tag = <<"direct">> /\ direct.via = NoTag /\ direct \in S OBVIOUS
  <2>6. XrayHop \subseteq S OBVIOUS
  <2> HIDE DEF x, direct, S, p, n, in, rules, entry, rule
  <2>7. g.xray \in Seq(S) BY <1>1, <2>6
  <2>8. d \in Seq(S) /\ DOMAIN d = {1} /\ d[1] = direct BY <2>5, OneLong, OneSet
  <2> HIDE DEF d
  <2>9. Tags(d) = {<<"direct">>} /\ Linked(d, "via")
    <3>1. Tags(d) = {<<"direct">>} /\ Unique(d) BY <2>5, <2>8 DEF Tags, Unique
    <3>2. direct["via"] = NoTag BY <2>5
    <3>3. Named(d, "via") = {} BY <2>8, <3>2 DEF Named, Values
    <3> QED BY <3>1, <3>3 DEF Linked
  <2>10. Tags(g.xray) \cap Tags(d) = {} BY <2>1, <2>2, <2>9
  <2>11. Linked(out, "via") /\ Tags(out) = Tags(g.xray) \cup Tags(d) BY <2>1, <2>7, <2>8, <2>9, <2>10, LinkedConcat
  <2>12. \A i \in 1 .. n : p[i].outbound \in Words /\ p[i].port \in Nat BY <1>1 DEF Gate
  <2> HIDE DEF out
  <2>13. \A i, j \in 1 .. n : Append(p[i].outbound, "inbound") = Append(p[j].outbound, "inbound") => i = j
    <3> SUFFICES ASSUME NEW i \in 1 .. n, NEW j \in 1 .. n,
                        Append(p[i].outbound, "inbound") = Append(p[j].outbound, "inbound")
                 PROVE  i = j
      OBVIOUS
    <3> DEFINE a == p[i].outbound
               b == p[j].outbound
    <3>1. a \in Seq(Letters) /\ b \in Seq(Letters) BY <2>12 DEF Words
    <3>2. "inbound" \in Letters BY DEF Letters, Texts
    <3>3. Append(a, "inbound") = Append(b, "inbound") OBVIOUS
    <3> HIDE DEF a, b
    <3>4. a = b BY <3>1, <3>2, <3>3, AppendInjective
    <3> QED BY <2>3, <3>4 DEF a, b
  <2>14. DOMAIN in = 1 .. n /\ DOMAIN rules = 1 .. n /\ \A i \in 1 .. n : in[i] = entry(p[i]) /\ rules[i] = rule(p[i])
         BY DEF in, rules
  <2>15. \A b : /\ entry(b).tag = Append(b.outbound, "inbound")
                /\ rule(b)["inbound"] = Append(b.outbound, "inbound") /\ rule(b)["outbound"] = b.outbound
         BY DEF entry, rule
  <2> DEFINE name(i) == Append(p[i].outbound, "inbound")
  <2>15a. \A i \in 1 .. n : in[i].tag = name(i) BY <2>14, <2>15
  <2>15b. \A i \in 1 .. n : rules[i]["inbound"] = name(i) BY <2>14, <2>15
  <2>15c. \A i \in 1 .. n : rules[i]["outbound"] = p[i].outbound BY <2>14, <2>15
  <2>15d. \A i, j \in 1 .. n : name(i) = name(j) => i = j BY <2>13
  <2> HIDE DEF name
  <2>16. Unique(in) BY <2>14, <2>15a, <2>15d DEF Unique
  <2>17. Tags(in) = {name(i) : i \in 1 .. n} BY <2>14, <2>15a DEF Tags
  <2>18. Values(rules, "inbound") = {name(i) : i \in 1 .. n}
         /\ Values(rules, "outbound") = {p[i].outbound : i \in 1 .. n}
         BY <2>14, <2>15b, <2>15c DEF Values
  <2>19. Named(rules, "inbound") \subseteq Tags(in) BY <2>17, <2>18 DEF Named
  <2>20. Named(rules, "outbound") \subseteq Tags(out) BY <2>1, <2>11, <2>18 DEF Named
  <2>21. XrayClosed(x) BY <2>4, <2>11, <2>16, <2>19, <2>20 DEF XrayClosed, Linked
  <2> QED BY <2>21 DEF x
<1> QED BY <1>2, <1>3

(* All of a configuration that is started, put together.                   *)
LEMMA StartClosed ==
  ASSUME NEW live, NEW s \in Settings, NEW r \in Routes, NEW id \in Profiles, NEW b,
         b = BuildSingBoxConfig(live, s, r, id), IsStarted(b), Groups,
         Hops(id) # << >>, Apart(s, r), NoBlock(r), SetsKnown(r)
  PROVE  IsClosed(b)
<1> DEFINE g == buildOutboundsSection(live, s, r, id)
           extra == ExtraCore(live, id)
           direct == DirectDomains(live, s, r, id)
           ways == buildRouteSection(s, r, g, extra)
           dns == buildDNSSection(s, r, id, direct)
<1>1. StartParts(b, g, live, s, r, id) BY StartedFacts
<1>2. RouteOutboundsAllowed(live, r) BY <1>1 DEF StartParts
<1>3. g \in Context /\ Settled(g, s, r, Len(UsedOutbounds(r))) BY <1>2, SectionSettled
<1> HIDE DEF g
<1>4. ~g.error BY <1>1, Zenon DEF StartParts
<1>5. Ready(g, s, r) BY <1>3, <1>4 DEF Settled, Ready
<1>6. Closed(g) BY <1>5 DEF Ready
<1>7. /\ b.outbounds = g.sing \o Loopback(g) \o <<Plain(<<"direct">>)>>
      /\ b.inbounds = buildInboundSection(s) \o Bridges(g)
      /\ b.route = ways /\ b.dns = dns /\ b.xray = buildXrayConfig(g, TRUE)
      BY <1>1, Zenon DEF StartParts, Loopback, Loops
<1>8. Linked(b.outbounds, "detour") /\ Tags(b.outbounds) = Defined(g) BY <1>3, <1>6, <1>7, OutboundsClosed
<1>9. /\ Unique(b.inbounds) /\ <<"dns-in">> \in Tags(b.inbounds) /\ BridgeTagsOf(g) \subseteq Tags(b.inbounds)
      BY <1>3, <1>6, <1>7, InboundsClosed
<1>10. /\ Named(ways.rules, "outbound") \subseteq Defined(g)
       /\ Named(ways.rules, "inbound") \ {<<"process">>} \subseteq {<<"dns-in">>} \cup BridgeTagsOf(g)
       BY <1>5, RulesLead
<1>11. ways.final \in Defined(g) \cup {NoTag} BY <1>5, FinalLeads
<1>12. UNION {ways.rules[i].sets : i \in DOMAIN ways.rules} \subseteq ways.sets BY <1>3, SetsDefined
<1>13. id # None BY ProfileAssumption DEF Profiles
<1>14. /\ Named(dns.servers, "via") \subseteq {<<"proxy">>} /\ {"dns-remote", "dns-direct"} \subseteq Tags(dns.servers)
       /\ Kind(id) = "tailscale" => "dns-tailscale" \in Tags(dns.servers)
       /\ s.fake => "dns-fake" \in Tags(dns.servers)
       BY <1>13, DnsServers
<1>15. Values(dns.rules, "server") \subseteq Tags(dns.servers) \cup {"predefined"}
  <2> DEFINE tags == Tags(dns.servers) \cup {"predefined"}
  <2>1. {"dns-remote", "dns-direct", "predefined"} \subseteq tags
        /\ (Kind(id) = "tailscale" => "dns-tailscale" \in tags) /\ (s.fake => "dns-fake" \in tags)
        BY <1>14
  <2> HIDE DEF tags
  <2>2. Values(dns.rules, "server") \subseteq tags BY <1>13, <2>1, DnsRules
  <2> QED BY <2>2 DEF tags
<1>16. <<"proxy">> \in Defined(g) BY <1>5, ReadyTags
<1>17. XrayClosed(b.xray) BY <1>3, <1>6, <1>7, BuiltXrayClosed
<1> HIDE DEF ways, dns
<1>18. /\ Unique(b.outbounds) /\ Named(b.outbounds, "detour") \subseteq Tags(b.outbounds) BY <1>8 DEF Linked
<1>19. Named(b.outbounds, "detour") \cup Named(b.route.rules, "outbound")
         \cup Named(b.dns.servers, "via") \cup ({b.route.final} \ {NoTag}) \subseteq Tags(b.outbounds)
  <2>1. Named(b.route.rules, "outbound") \subseteq Tags(b.outbounds) BY <1>7, <1>8, <1>10
  <2>2. Named(b.dns.servers, "via") \subseteq Tags(b.outbounds) BY <1>7, <1>8, <1>14, <1>16
  <2>3. {b.route.final} \ {NoTag} \subseteq Tags(b.outbounds) BY <1>7, <1>8, <1>11
  <2> QED BY <1>18, <2>1, <2>2, <2>3
<1>20. Named(b.route.rules, "inbound") \ {<<"process">>} \subseteq Tags(b.inbounds) BY <1>7, <1>9, <1>10
<1>21. Values(b.dns.rules, "server") \subseteq Tags(b.dns.servers) \cup {"predefined"} BY <1>7, <1>15
<1>22. UNION {b.route.rules[i].sets : i \in DOMAIN b.route.rules} \subseteq b.route.sets BY <1>7, <1>12
<1> QED BY <1>9, <1>17, <1>18, <1>19, <1>20, <1>21, <1>22, Zenon DEF IsClosed, XrayClosed

-----------------------------------------------------------------------------
(* In every state: what Xray sends stays outside, and nothing is named     *)
(* that is not defined.                                                    *)

IInv ==
  /\ gone \subseteq Profiles /\ Groups
  /\ route \in Routes /\ settings \in Settings
  /\ XrayStaysOutside /\ ConfigIsClosed

\* The two parts of XrayStaysOutside, of a configuration b.
Outside(b, s) == IsStarted(b) /\ s.tun => \A o \in Tags(b.outbounds) : Walk(b, o).at # End("os")
Passed(id, r) == ToSet(Hops(id)) \cup UNION {ToSet(Hops(UsedOutbounds(r)[j])) : j \in DOMAIN UsedOutbounds(r)}
Direct(b, s, r, id, ofGroup) ==
  IsStarted(b) /\ ~s.fake /\ ~r.raw =>
    \A h \in Values(b.xray.outbounds, "hop") \cap Profiles :
      \/ Kind(h) # "xray" \/ Profile[h].domain \in {Empty, "ts.net"} \cup s.hijack
      \/ h \in ofGroup /\ h \notin Passed(id, r)
      \/ Resolved(b, Profile[h].domain)

\* ConfigIsClosed, of a configuration b.
Shut(b, s, r, id) ==
  IsStarted(b) /\ Hops(id) # << >> /\ Apart(s, r) /\ NoBlock(r) /\ SetsKnown(r) => IsClosed(b)

LEMMA BuiltOutside ==
  ASSUME NEW live, NEW s \in Settings, NEW r \in Routes, NEW id \in Profiles, NEW b,
         b = BuildSingBoxConfig(live, s, r, id), Groups
  PROVE  Outside(b, s)
<1> SUFFICES ASSUME IsStarted(b), s.tun, NEW o \in Tags(b.outbounds) PROVE Walk(b, o).at # End("os")
    BY Zenon DEF Outside
<1> QED BY StartAvoidsTun

LEMMA BuiltDirect ==
  ASSUME NEW live, live \subseteq Profiles, NEW s \in Settings, NEW r \in Routes, NEW id \in Profiles, id \in live,
         NEW b, b = BuildSingBoxConfig(live, s, r, id), Groups
  PROVE  Direct(b, s, r, id, {front, landing})
<1> SUFFICES ASSUME IsStarted(b), ~s.fake, ~r.raw, NEW h \in Values(b.xray.outbounds, "hop") \cap Profiles,
                    Kind(h) = "xray", Profile[h].domain \notin {Empty, "ts.net"} \cup s.hijack,
                    ~(h \in {front, landing} /\ h \notin Passed(id, r))
             PROVE  Resolved(b, Profile[h].domain)
    BY Zenon DEF Direct
<1>1. PICK i \in DOMAIN b.xray.outbounds : h = b.xray.outbounds[i].hop BY DEF Values
<1>2. DOMAIN UsedOutbounds(r) = 1 .. Len(UsedOutbounds(r)) BY StartFacts
<1>3. \/ h \notin {front, landing}
      \/ h \in ToSet(Hops(id)) \cup UNION {ToSet(Hops(UsedOutbounds(r)[j])) : j \in 1 .. Len(UsedOutbounds(r))}
      BY <1>2 DEF Passed
<1>4. h \in Profiles OBVIOUS
<1> QED BY <1>1, <1>3, <1>4, StartNamesDirect

LEMMA BuiltShut ==
  ASSUME NEW live, NEW s \in Settings, NEW r \in Routes, NEW id \in Profiles, NEW b,
         b = BuildSingBoxConfig(live, s, r, id), Groups
  PROVE  Shut(b, s, r, id)
<1> SUFFICES ASSUME IsStarted(b), Hops(id) # << >>, Apart(s, r), NoBlock(r), SetsKnown(r) PROVE IsClosed(b)
    BY Zenon DEF Shut
<1> QED BY StartClosed

LEMMA InitIInv == Init => IInv
<1> SUFFICES ASSUME Init PROVE IInv OBVIOUS
<1>1. ~Started BY DEF Init, Started
<1>2. XrayStaysOutside BY <1>1 DEF XrayStaysOutside, XrayAvoidsTun, XrayNamesDirect
<1>3. ConfigIsClosed BY <1>1 DEF ConfigIsClosed
<1> QED BY <1>2, <1>3 DEF Init, IInv, Groups

\* Nothing is said while nothing runs.
LEMMA Idle == ASSUME ~Started' PROVE XrayStaysOutside' /\ ConfigIsClosed'
BY DEF XrayStaysOutside, XrayAvoidsTun, XrayNamesDirect, ConfigIsClosed

LEMMA Kept == ASSUME XrayStaysOutside, ConfigIsClosed, UNCHANGED vars PROVE XrayStaysOutside' /\ ConfigIsClosed'
<1>1. XrayStaysOutside' BY DEF XrayStaysOutside, XrayAvoidsTun, XrayNamesDirect, Started, vars, Id, RouteHops
<1>2. ConfigIsClosed'
      BY DEF ConfigIsClosed, Started, EmptyChain, BridgeTagTwice, UnknownSets, RoutesToBlock, vars, Id, RouteHops
<1> QED BY <1>1, <1>2

LEMMA EditIInv ==
  ASSUME IInv, built = None, UNCHANGED <<route, settings, built>>,
         gone' \subseteq Profiles, front' \in Profiles \cup {None}, landing' \in Profiles \cup {None}
  PROVE  IInv'
<1>1. ~Started' BY DEF Started
<1>2. XrayStaysOutside' /\ ConfigIsClosed' BY <1>1, Idle
<1> QED BY <1>2 DEF IInv, Groups

LEMMA StartIInv == ASSUME IInv, NEW id \in Main, Start(id) PROVE IInv'
<1>1. id \in Profiles /\ id \in Live /\ Live \subseteq Profiles /\ Groups BY ProfileFacts DEF Start, Live, Profiles, IInv
<1>2. settings \in Settings /\ route \in Routes BY DEF IInv
<1>3. PICK b : b = built' OBVIOUS
<1>4. b = BuildSingBoxConfig(Live, settings, route, id) BY <1>3 DEF Start
<1>5. Outside(b, settings) BY <1>1, <1>2, <1>4, BuiltOutside
<1>6. Direct(b, settings, route, id, {front, landing}) BY <1>1, <1>2, <1>4, BuiltDirect
<1>7. XrayAvoidsTun'
  <2>1. Started' => IsStarted(b) BY <1>3 DEF Started, IsStarted
  <2>2. settings' = settings BY DEF Start
  <2> QED BY <1>3, <1>5, <2>1, <2>2 DEF XrayAvoidsTun, Outside
<1>8. XrayNamesDirect'
  <2>1. Started' => IsStarted(b) BY <1>3 DEF Started, IsStarted
  <2>2. settings' = settings /\ route' = route /\ front' = front /\ landing' = landing /\ clicked' = <<id>> BY DEF Start
  <2>3. Id' = id BY <2>2 DEF Id
  <2>4. RouteHops' = [i \in DOMAIN UsedOutbounds(route) |-> Hops(UsedOutbounds(route)[i])] BY <2>2 DEF RouteHops
  <2> DEFINE H == [i \in DOMAIN UsedOutbounds(route) |-> Hops(UsedOutbounds(route)[i])]
  <2>5. ToSet(Hops(id)) \cup UNION {ToSet(H[i]) : i \in DOMAIN H} = Passed(id, route) BY DEF Passed
  <2> HIDE DEF H
  <2> QED BY <1>3, <1>6, <2>1, <2>2, <2>3, <2>4, <2>5 DEF XrayNamesDirect, Direct, Profiles, H
<1>9. Shut(b, settings, route, id) BY <1>1, <1>2, <1>4, BuiltShut
<1>10. ConfigIsClosed'
  <2>1. settings' = settings /\ route' = route /\ clicked' = <<id>> BY DEF Start
  <2>2. Id' = id BY <2>1 DEF Id
  <2>3. RouteHops' = [i \in DOMAIN UsedOutbounds(route) |-> Hops(UsedOutbounds(route)[i])] BY <2>1 DEF RouteHops
  <2> SUFFICES ASSUME Started', ~EmptyChain', ~BridgeTagTwice', ~UnknownSets', ~RoutesToBlock' PROVE IsClosed(b)
      BY <1>3 DEF ConfigIsClosed
  <2>4. IsStarted(b) BY <1>3 DEF Started, IsStarted
  <2>5. Hops(id) # << >> BY <2>2 DEF EmptyChain
  <2> DEFINE H == [i \in DOMAIN UsedOutbounds(route) |-> Hops(UsedOutbounds(route)[i])]
  <2>6. ~(settings.tun /\ settings.interface = Empty /\ \E i \in DOMAIN H :
            i + 1 \in DOMAIN H /\ Has(H[i + 1], "xray") /\ \A h \in ToSet(H[i]) : IsXray(h))
        BY <2>1, <2>3, Zenon DEF BridgeTagTwice
  <2>7. DOMAIN H = DOMAIN UsedOutbounds(route)
        /\ \A i \in DOMAIN UsedOutbounds(route) : H[i] = Hops(UsedOutbounds(route)[i])
        OBVIOUS
  <2> HIDE DEF H
  <2>8. Apart(settings, route) BY <2>6, <2>7, Zenon DEF Apart, Crowded
  <2>9. NoBlock(route) BY <2>1 DEF RoutesToBlock, NoBlock
  <2>10. SetsKnown(route) BY <2>1 DEF UnknownSets, SetsKnown
  <2> QED BY <1>9, <2>4, <2>5, <2>8, <2>9, <2>10, Zenon DEF Shut
<1> QED BY <1>1, <1>2, <1>7, <1>8, <1>10 DEF IInv, Groups, XrayStaysOutside, Start

LEMMA TestIInv == ASSUME IInv, NEW batch, Test(batch) PROVE IInv'
<1>1. ~Started'
  <2>1. PICK b : b = built' OBVIOUS
  <2>2. b = BuildTestConfig(Live, settings, batch) BY <2>1 DEF Test
  <2>3. b.error \/ "tags" \in DOMAIN b BY <2>2 DEF BuildTestConfig, Error
  <2> QED BY <2>1, <2>3 DEF Started
<1>2. XrayStaysOutside' /\ ConfigIsClosed' BY <1>1, Idle
<1> QED BY <1>2 DEF IInv, Groups, Test

LEMMA NextIInv == IInv /\ [Next]_vars => IInv'
<1> SUFFICES ASSUME IInv, [Next]_vars PROVE IInv' OBVIOUS
<1> USE DEF IInv, Groups
<1>1. ASSUME NEW p \in Helpers \cup {None}, SetFront(p) PROVE IInv'
  <2>1. p \in Profiles \cup {None} BY ProfileFacts
  <2> QED BY <1>1, <2>1, EditIInv DEF SetFront
<1>2. ASSUME NEW p \in Helpers \cup {None}, SetLanding(p) PROVE IInv'
  <2>1. p \in Profiles \cup {None} BY ProfileFacts
  <2> QED BY <1>2, <2>1, EditIInv DEF SetLanding
<1>3. ASSUME NEW p \in Deletable, Delete(p) PROVE IInv'
  <2>1. {p} \subseteq Profiles BY ProfileFacts
  <2> QED BY <1>3, <2>1, EditIInv DEF Delete
<1>4. ASSUME Stop PROVE IInv'
  <2>1. ~Started' BY <1>4 DEF Stop, Started
  <2>2. XrayStaysOutside' /\ ConfigIsClosed' BY <2>1, Idle
  <2> QED BY <1>4, <2>2 DEF Stop
<1>5. CASE UNCHANGED vars
  <2>1. XrayStaysOutside' /\ ConfigIsClosed' BY <1>5, Kept
  <2> QED BY <1>5, <2>1 DEF vars
<1> QED BY <1>1, <1>2, <1>3, <1>4, <1>5, StartIInv, TestIInv DEF Next

(* For any profiles, groups, settings and routing profiles, and however they   *)
(* are edited between two starts: with the TUN device on, no connection that a *)
(* start hands to the cores leaves Xray by the system's default route, and the *)
(* name of a hop of Xray is resolved by the direct DNS server, before any      *)
(* inbound is rejected (buildXrayChain, buildDNSSection, buildRouteSection).   *)
THEOREM XrayOutside == Spec => []XrayStaysOutside
<1>1. IInv => XrayStaysOutside BY DEF IInv
<1> QED BY <1>1, InitIInv, NextIInv, PTL DEF Spec

(* For any profiles, groups, settings and routing profiles: in what a start    *)
(* hands to the cores no tag stands for two outbounds or two inbounds of a     *)
(* core, and every detour, proxy setting, rule, rule set, DNS server and       *)
(* default is defined there (buildOutboundChain, buildRouteSection,            *)
(* buildDNSSection, buildXrayConfig), but for an empty chain, a routing        *)
(* profile that names an undefined set or "block", and two groups of hops that *)
(* share the tag of a bridge.                                                  *)
THEOREM ConfigClosed == Spec => []ConfigIsClosed
<1>1. IInv => ConfigIsClosed BY DEF IInv
<1> QED BY <1>1, InitIInv, NextIInv, PTL DEF Spec
=============================================================================
