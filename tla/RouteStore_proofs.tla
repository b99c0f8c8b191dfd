-------------------------- MODULE RouteStore_proofs --------------------------
(***************************************************************************)
(* Proofs about the routing profiles, for every store, device, link and    *)
(* document, and every number of profiles: that the profile in use exists  *)
(* (CurrentExists), that rows, objects and what the user said agree        *)
(* (CacheMatchesRow, StoreObeysUser), and that neither a share nor the     *)
(* editor changes a rule (ShareKeepsRules, EditorKeepsRules).              *)
(***************************************************************************)
EXTENDS RouteStore, SequenceTheorems, FiniteSetTheorems, TLAPS
-----------------------------------------------------------------------------
(* The invariant.  Its parts are about a heap, a map, a dialog and jobs    *)
(* before those that nobody holds are let go, and after.                   *)

RowOK(row, id) ==
  LET p == loadFromDatabase(row)
  IN  IsProfile(p) /\ p.id = id /\ row = saveToDatabase(p) /\ Named(p)
RowsOK(rs, last) ==
  last \in 0 .. MaxId /\ DOMAIN rs \subseteq 1 .. last /\ \A id \in DOMAIN rs : RowOK(rs[id], id)

ObjectOK(p, last) == IsProfile(p) /\ p.id \in 1 .. last \cup {-1} /\ Named(p)
ObjectsOK(objects, d, jobs, last) ==
  /\ Held(d, jobs) \subseteq DOMAIN objects /\ DOMAIN objects \subseteq Nat
  /\ \A o \in Held(d, jobs) : ObjectOK(objects[o], last)

MapOK(objects, map, d, jobs, rs) ==
  \A id \in DOMAIN map :
    map[id] \in Held(d, jobs) =>
      objects[map[id]].id = id /\ id \in DOMAIN rs /\ Settings(objects[map[id]]) = Settings(rs[id])

\* The list of the dialog has no object twice, and no two of one row.
DialogOK(objects, d) ==
  d # None =>
    /\ d \in [list : Seq(Nat), current : Nat, saw : SUBSET Nat]
    /\ d.current \in ToSet(d.list)
    /\ \A i, k \in DOMAIN d.list : d.list[i] = d.list[k] => i = k
    /\ \A o, u \in ToSet(d.list) : objects[o].id = objects[u].id /\ objects[o].id # -1 => o = u

\* The editor stands for an entry of the list, or for one to come.
EditorOK(objects, d, e) ==
  e # None =>
    /\ d # None /\ IsProfile(e.p) /\ e.at \in 0 .. Len(d.list)
    /\ e.at = 0 => e.p.id = -1
    /\ e.at # 0 => e.p.id = objects[d.list[e.at]].id

\* Only threads that own rows save, and they save remote profiles.
JobOK(objects, jobs, j) ==
  LET work == jobs[j]
  IN  /\ work \in [list : Seq(Nat), at : Nat, url : {work.url}, pc : {"idle", "next", "wait", "save"}]
      /\ work.at <= Len(work.list)
      /\ work.pc \in {"wait", "save"} => work.at > 0
      /\ j # "dialog" => \A o \in ToSet(work.list) : objects[o].id # -1
      /\ j = "link" => \A o \in ToSet(work.list) : objects[o].remote
      /\ work.pc = "wait" => objects[work.list[work.at]].remote /\ work.url = objects[work.list[work.at]].url
      /\ work.pc = "save" => j # "dialog" /\ objects[work.list[work.at]].remote
JobsOK(objects, jobs) == DOMAIN jobs = Jobs /\ \A j \in Jobs : JobOK(objects, jobs, j)

\* What a thread is yet to save says what the user said.
Agrees(p, said) ==
  /\ p.url = said.url /\ p.auto = said.auto
  /\ said.name # "" => p.name = said.name
PendingIn(work) == {work.list[i] : i \in {k \in DOMAIN work.list : k >= work.at}}
PendingOK(objects, jobs, kp, rc) ==
  \A o \in PendingIn(jobs["auto"]) \cup PendingIn(jobs["link"]) :
    objects[o].id \notin rc => objects[o].id \in DOMAIN kp /\ Agrees(objects[o], kp[objects[o].id])

Obeys(kp, rs, rc) ==
  \A id \in (DOMAIN kp \cup DOMAIN rs) \ rc :
    /\ id \in DOMAIN kp /\ id \in DOMAIN rs /\ Agrees(rs[id], kp[id])
    /\ ~rs[id].remote => loadFromDatabase(rs[id]).rules = kp[id].rules

IInv ==
  /\ RowsOK(rows, lastId) /\ current \in DOMAIN rows
  /\ DOMAIN heap = Held(dialog, job) /\ ObjectsOK(heap, dialog, job, lastId)
  /\ \A id \in DOMAIN identity : identity[id] \in DOMAIN heap
  /\ MapOK(heap, identity, dialog, job, rows)
  /\ DialogOK(heap, dialog) /\ EditorOK(heap, dialog, editor) /\ JobsOK(heap, job)
  /\ PendingOK(heap, job, kept, raced) /\ Obeys(kept, rows, raced)
-----------------------------------------------------------------------------
(* Counting: the members of a set of numbers in order, and what a sequence *)
(* has at some of its places.                                              *)

(* The rank of a number in a finite set: a bijection with 1 .. the size.   *)
LEMMA Ranks ==
  ASSUME NEW S \in SUBSET Int, IsFiniteSet(S)
  PROVE  /\ Cardinality(S) \in Nat
         /\ \A i \in S : Cardinality({j \in S : j <= i}) \in 1 .. Cardinality(S)
         /\ \A i, k \in S : Cardinality({j \in S : j <= i}) = Cardinality({j \in S : j <= k}) => i = k
         /\ \A n \in 1 .. Cardinality(S) : \E i \in S : Cardinality({j \in S : j <= i}) = n
<1> DEFINE upTo(i) == {j \in S : j <= i}
           rank == [i \in S |-> Cardinality(upTo(i))]
<1>1. Cardinality(S) \in Nat BY FS_CardinalityType
<1>2. \A i \in S : upTo(i) \subseteq S /\ i \in upTo(i) OBVIOUS
<1>3. ASSUME NEW i \in S, NEW k \in S, i < k
      PROVE  k \in upTo(k) \ upTo(i) /\ upTo(i) \subseteq upTo(k)
  <2>1. i \in Int /\ k \in Int /\ k <= k /\ ~(k <= i) BY <1>3
  <2>2. \A j \in S : j \in Int /\ (j <= i => j <= k) BY <1>3
  <2> QED BY <2>1, <2>2
<1>4. ASSUME NEW i \in S
      PROVE  IsFiniteSet(upTo(i)) /\ rank[i] \in 1 .. Cardinality(S) /\ rank[i] = Cardinality(upTo(i))
  <2>1. upTo(i) \in SUBSET S /\ i \in upTo(i) BY <1>2
  <2> HIDE DEF upTo
  <2>2. IsFiniteSet(upTo(i)) /\ Cardinality(upTo(i)) <= Cardinality(S) BY <2>1, FS_Subset
  <2>3. Cardinality(upTo(i)) \in Nat BY <2>2, FS_CardinalityType
  <2>4. Cardinality(upTo(i)) # 0 BY <2>1, <2>2, FS_EmptySet
  <2>5. rank[i] = Cardinality(upTo(i)) OBVIOUS
  <2> QED BY <1>1, <2>2, <2>3, <2>4, <2>5
<1>5. ASSUME NEW i \in S, NEW k \in S, rank[i] = rank[k], i < k PROVE FALSE
  <2>1. upTo(i) \in SUBSET upTo(k) /\ k \in upTo(k) \ upTo(i) BY <1>3, <1>5
  <2>2. IsFiniteSet(upTo(k)) /\ Cardinality(upTo(i)) = Cardinality(upTo(k)) BY <1>4, <1>5
  <2> HIDE DEF upTo
  <2>3. upTo(k) = upTo(i) BY <2>1, <2>2, FS_Subset
  <2> QED BY <2>1, <2>3
<1>6. \A i, k \in S : rank[i] = rank[k] => i = k
  <2> SUFFICES ASSUME NEW i \in S, NEW k \in S, rank[i] = rank[k] PROVE i = k OBVIOUS
  <2>1. i < k \/ k < i \/ i = k OBVIOUS
  <2> HIDE DEF rank
  <2> QED BY <1>5, <2>1
<1>7. rank \in Injection(S, 1 .. Cardinality(S)) BY <1>4, <1>6 DEF Injection, IsInjective
<1>8. IsFiniteSet(1 .. Cardinality(S)) /\ Cardinality(1 .. Cardinality(S)) = Cardinality(S)
      BY <1>1, FS_Interval
<1>9. rank \in Surjection(S, 1 .. Cardinality(S))
  <2> HIDE DEF rank
  <2> QED BY <1>7, <1>8, FS_Injection
<1>10. \A n \in 1 .. Cardinality(S) : \E i \in S : rank[i] = n BY <1>9 DEF Surjection
<1> QED BY <1>1, <1>4, <1>6, <1>10

(* InOrder counts the members of a finite set off, each once.              *)
LEMMA InOrderCounts ==
  ASSUME NEW S \in SUBSET Int, IsFiniteSet(S)
  PROVE  /\ Cardinality(S) \in Nat
         /\ InOrder(S) \in [1 .. Cardinality(S) -> S]
         /\ \A i \in S : \E n \in 1 .. Cardinality(S) : InOrder(S)[n] = i
         /\ \A n, m \in 1 .. Cardinality(S) : InOrder(S)[n] = InOrder(S)[m] => n = m
<1> DEFINE rank(i) == Cardinality({j \in S : j <= i})
<1>1. /\ Cardinality(S) \in Nat
      /\ \A i \in S : rank(i) \in 1 .. Cardinality(S)
      /\ \A i, k \in S : rank(i) = rank(k) => i = k
      /\ \A n \in 1 .. Cardinality(S) : \E i \in S : rank(i) = n
      BY Ranks
<1>2. InOrder(S) = [n \in 1 .. Cardinality(S) |-> CHOOSE i \in S : rank(i) = n] BY DEF InOrder
<1> HIDE DEF rank
<1>3. \A n \in 1 .. Cardinality(S) : InOrder(S)[n] \in S /\ rank(InOrder(S)[n]) = n BY <1>1, <1>2
<1>4. \A i \in S : InOrder(S)[rank(i)] = i BY <1>1, <1>3
<1> QED BY <1>1, <1>2, <1>3, <1>4

(* The numbers from 1 up are in order.                                     *)
LEMMA InOrderOfAll ==
  ASSUME NEW n \in Nat
  PROVE  Cardinality(1 .. n) = n /\ InOrder(1 .. n) = [i \in 1 .. n |-> i]
<1>1. IsFiniteSet(1 .. n) /\ Cardinality(1 .. n) = n BY FS_Interval
<1>2. ASSUME NEW i \in 1 .. n PROVE Cardinality({j \in 1 .. n : j <= i}) = i
  <2>1. {j \in 1 .. n : j <= i} = 1 .. i OBVIOUS
  <2>2. Cardinality(1 .. i) = i BY FS_Interval
  <2> QED BY <2>1, <2>2
<1>3. \A i \in 1 .. n : (CHOOSE k \in 1 .. n : Cardinality({j \in 1 .. n : j <= k}) = i) = i BY <1>2
<1> QED BY <1>1, <1>3 DEF InOrder

(* What a sequence has at some of its places, each place once.             *)
LEMMA ChosenCounts ==
  ASSUME NEW n \in Nat, NEW K \in SUBSET (1 .. n), NEW seq
  PROVE  /\ Cardinality(K) \in Nat /\ IsFiniteSet(K)
         /\ InOrder(K) \in [1 .. Cardinality(K) -> K]
         /\ \A i \in K : \E m \in 1 .. Cardinality(K) : InOrder(K)[m] = i
         /\ \A m, k \in 1 .. Cardinality(K) : InOrder(K)[m] = InOrder(K)[k] => m = k
         /\ Chosen(seq, K) = [m \in 1 .. Cardinality(K) |-> seq[InOrder(K)[m]]]
         /\ Len(Chosen(seq, K)) = Cardinality(K)
<1>1. IsFiniteSet(1 .. n) BY FS_Interval
<1>2. IsFiniteSet(K) BY <1>1, FS_Subset
<1>3. K \in SUBSET Int OBVIOUS
<1>4. Chosen(seq, K) = [m \in 1 .. Cardinality(K) |-> seq[InOrder(K)[m]]] BY DEF Chosen
<1> QED BY <1>2, <1>3, <1>4, InOrderCounts

(* All of the places choose the sequence itself.                           *)
LEMMA ChosenAll ==
  ASSUME NEW S, NEW seq \in Seq(S)
  PROVE  Chosen(seq, DOMAIN seq) = seq
<1>1. Len(seq) \in Nat /\ DOMAIN seq = 1 .. Len(seq) /\ seq = [i \in 1 .. Len(seq) |-> seq[i]] BY LenProperties
<1>2. Cardinality(1 .. Len(seq)) = Len(seq) /\ InOrder(1 .. Len(seq)) = [i \in 1 .. Len(seq) |-> i]
      BY <1>1, InOrderOfAll
<1> QED BY <1>1, <1>2 DEF Chosen

(* A choice of places is a sequence of members of the sequence.            *)
LEMMA ChosenType ==
  ASSUME NEW S, NEW seq \in Seq(S), NEW K \in SUBSET (DOMAIN seq)
  PROVE  /\ Chosen(seq, K) \in Seq(S)
         /\ ToSet(Chosen(seq, K)) = {seq[i] : i \in K}
<1>1. Len(seq) \in Nat /\ DOMAIN seq = 1 .. Len(seq) /\ \A i \in DOMAIN seq : seq[i] \in S
      BY LenProperties, ElementOfSeq
<1>2. Len(seq) \in Nat /\ K \in SUBSET (1 .. Len(seq)) BY <1>1
<1>3. /\ Cardinality(K) \in Nat
      /\ InOrder(K) \in [1 .. Cardinality(K) -> K]
      /\ \A i \in K : \E m \in 1 .. Cardinality(K) : InOrder(K)[m] = i
      BY <1>2, ChosenCounts
<1>3a. Chosen(seq, K) = [m \in 1 .. Cardinality(K) |-> seq[InOrder(K)[m]]] BY DEF Chosen
<1>4. \A m \in 1 .. Cardinality(K) : InOrder(K)[m] \in K /\ seq[InOrder(K)[m]] \in S BY <1>1, <1>3
<1>5. Chosen(seq, K) \in Seq(S) BY <1>3, <1>3a, <1>4
<1>6. ToSet(Chosen(seq, K)) = {seq[InOrder(K)[m]] : m \in 1 .. Cardinality(K)} BY <1>3a DEF ToSet
<1>7. {seq[InOrder(K)[m]] : m \in 1 .. Cardinality(K)} = {seq[i] : i \in K} BY <1>3, <1>4
<1> QED BY <1>5, <1>6, <1>7

-----------------------------------------------------------------------------
(* Rows: the reader gives every column back to the attribute it is of.     *)

(* A set of numbers that is not empty has a least one.                     *)
LEMMA LeastOf ==
  ASSUME NEW S \in SUBSET Nat, S # {}
  PROVE  Min(S) \in S /\ \A i \in S : Min(S) <= i
<1> DEFINE R == OpToRel(<, Nat)
<1>1. IsWellFoundedOn(R, Nat) BY NatLessThanWellFounded
<1>2. \A a, b \in Nat : a < b => <<a, b>> \in R BY DEF OpToRel
<1> HIDE DEF R
<1>3. PICK n \in S : \A m \in S : <<m, n>> \notin R BY <1>1, WFMin, Zenon
<1>4. ASSUME NEW m \in S PROVE n <= m
  <2>1. m \in Nat /\ n \in Nat /\ <<m, n>> \notin R BY <1>3
  <2>2. ~(m < n) BY <1>2, <2>1
  <2> QED BY <2>1, <2>2
<1> QED BY <1>4 DEF Min

(* The place of a column is its place in the statements.                   *)
LEMMA Positions ==
  ASSUME NEW i \in DOMAIN Columns
  PROVE  Position(Columns[i]) \in DOMAIN Columns /\ Columns[Position(Columns[i])] = Columns[i]
<1>1. Len(Columns) = 34 /\ DOMAIN Columns = 1 .. 34 BY DEF Columns
<1> DEFINE places == {k \in 1 .. Len(Columns) : Columns[k] = Columns[i]}
<1>2. Position(Columns[i]) = IF places # {} THEN Min(places) ELSE 0 BY DEF Position, SelectInSeq
<1>3. Len(Columns) \in Nat /\ DOMAIN Columns = 1 .. Len(Columns) BY <1>1
<1>4. places \in SUBSET Nat /\ i \in places BY <1>3
<1>5. Min(places) \in places
  <2> HIDE DEF places
  <2> QED BY <1>4, LeastOf
<1> QED BY <1>2, <1>3, <1>4, <1>5

LEMMA ColumnsOfRules ==
  /\ {"name", "type", "outbound", "action"} \cup Attributes \subseteq {Columns[i] : i \in DOMAIN Columns}
  /\ {"name", "type", "outbound", "action"} \cap Attributes = {}
<1>1. DOMAIN Columns = 1 .. 34 BY DEF Columns
<1>2. /\ Columns[1] = "name" /\ Columns[2] = "type" /\ Columns[3] = "ip_version" /\ Columns[4] = "network"
      /\ Columns[5] = "protocol" /\ Columns[6] = "inbound" /\ Columns[7] = "domain"
      /\ Columns[8] = "domain_suffix" /\ Columns[9] = "domain_keyword" /\ Columns[10] = "domain_regex"
      /\ Columns[11] = "source_ip_cidr" /\ Columns[12] = "source_ip_is_private" /\ Columns[13] = "ip_cidr"
      /\ Columns[14] = "ip_is_private" /\ Columns[15] = "source_port" /\ Columns[16] = "source_port_range"
      /\ Columns[17] = "port" /\ Columns[18] = "port_range" /\ Columns[19] = "process_name"
      /\ Columns[20] = "process_path" /\ Columns[21] = "process_path_regex" /\ Columns[22] = "rule_set"
      /\ Columns[23] = "invert" /\ Columns[24] = "outbound" /\ Columns[25] = "action"
      /\ Columns[26] = "method" /\ Columns[27] = "no_drop" /\ Columns[28] = "override_address"
      /\ Columns[29] = "override_port" /\ Columns[31] = "override_destination" /\ Columns[32] = "strategy"
      /\ Columns[33] = "wifi_ssid" /\ Columns[34] = "wifi_bssid"
      BY DEF Columns
<1>3. {"name", "type", "outbound", "action"} \cap Attributes = {} BY DEF Attributes, Lists, RuleFlags, RuleTexts
<1>4. ASSUME NEW c \in {"name", "type", "outbound", "action"} \cup Attributes
      PROVE  \E i \in 1 .. 34 : Columns[i] = c
  <2> HIDE DEF Columns
  <2> QED BY <1>2 DEF Attributes, Lists, RuleFlags, RuleTexts
<1> QED BY <1>1, <1>3, <1>4

(* A field that is set says something, and one that is not says nothing.   *)
LEMMA ValuesOfFields ==
  ASSUME NEW r, IsRule(r), NEW k \in Attributes
  PROVE  /\ k \in DOMAIN r.f => ValueOf(r, k) = r.f[k]
         /\ k \in Lists => (ValueOf(r, k) # << >> <=> k \in DOMAIN r.f)
         /\ k \notin Lists => (ValueOf(r, k) # "" <=> k \in DOMAIN r.f)
<1>1. CASE k \in DOMAIN r.f
  <2>1. ValueOf(r, k) = r.f[k] BY <1>1 DEF ValueOf, IsSet
  <2>2. IsField(k, r.f[k]) BY <1>1 DEF IsRule
  <2>3. k \in Lists => r.f[k] # << >> BY <2>2 DEF IsField
  <2>4. k \notin Lists => r.f[k] # "" BY <2>2 DEF IsField
  <2> QED BY <1>1, <2>1, <2>3, <2>4
<1>2. CASE k \notin DOMAIN r.f
  <2>1. k \in Lists => ValueOf(r, k) = << >> BY <1>2 DEF ValueOf, IsSet
  <2>2. k \notin Lists => ValueOf(r, k) = "" BY <1>2 DEF ValueOf, IsSet
  <2> QED BY <1>2, <2>1, <2>2
<1> QED BY <1>1, <1>2

(* A rule that is written and read is the same.                            *)
LEMMA RowKeepsRule ==
  ASSUME NEW r, IsRule(r)
  PROVE  routeRuleFromJson(RowOfRule(r)) = r
<1> DEFINE row == RowOfRule(r)
           heads == {"name", "type", "outbound", "action"}
           at(c) == ruleJsonFromRow(row, c)
<1>1. ASSUME NEW c \in heads \cup Attributes
      PROVE  at(c) = IF c \in heads THEN r[c] ELSE ValueOf(r, c)
  <2>1. PICK i \in DOMAIN Columns : Columns[i] = c BY ColumnsOfRules
  <2>2. Position(c) \in DOMAIN Columns /\ Columns[Position(c)] = c BY <2>1, Positions
  <2>3. at(c) = row[Position(c)] BY DEF ruleJsonFromRow
  <2> HIDE DEF Columns, Position
  <2> QED BY <2>2, <2>3 DEF RowOfRule
<1>2. at("name") = r.name /\ at("type") = r.type /\ at("outbound") = r.outbound /\ at("action") = r.action
  <2> HIDE DEF at
  <2> QED BY <1>1
<1>3. ASSUME NEW k \in Attributes PROVE at(k) = ValueOf(r, k)
  <2>1. k \notin heads BY ColumnsOfRules
  <2> HIDE DEF at, heads
  <2> QED BY <1>1, <2>1
<1> DEFINE set == {k \in Attributes : IF k \in Lists THEN at(k) # << >> ELSE at(k) # ""}
<1>4. set = DOMAIN r.f
  <2>1. DOMAIN r.f \subseteq Attributes BY DEF IsRule
  <2>2. ASSUME NEW k \in Attributes PROVE k \in set <=> k \in DOMAIN r.f
    <3>1. at(k) = ValueOf(r, k) BY <1>3
    <3>2. /\ k \in Lists => (ValueOf(r, k) # << >> <=> k \in DOMAIN r.f)
          /\ k \notin Lists => (ValueOf(r, k) # "" <=> k \in DOMAIN r.f)
          BY ValuesOfFields
    <3> HIDE DEF at
    <3> QED BY <3>1, <3>2
  <2> HIDE DEF at
  <2> QED BY <2>1, <2>2
<1>5. \A k \in set : at(k) = r.f[k]
  <2> SUFFICES ASSUME NEW k \in set PROVE at(k) = r.f[k] OBVIOUS
  <2>1. k \in Attributes /\ k \in DOMAIN r.f BY <1>4
  <2>2. at(k) = ValueOf(r, k) BY <2>1, <1>3
  <2>3. ValueOf(r, k) = r.f[k] BY <2>1, ValuesOfFields
  <2> QED BY <2>2, <2>3
<1>6. [k \in set |-> at(k)] = r.f
  <2>1. r.f = [k \in DOMAIN r.f |-> r.f[k]] BY DEF IsRule
  <2> HIDE DEF at, set
  <2> QED BY <2>1, <1>4, <1>5
<1>7. routeRuleFromJson(row) = [name |-> at("name"), type |-> at("type"), outbound |-> at("outbound"),
                                action |-> at("action"), f |-> [k \in set |-> at(k)]]
      BY DEF routeRuleFromJson
<1>8. r = [name |-> r.name, type |-> r.type, outbound |-> r.outbound, action |-> r.action, f |-> r.f] BY DEF IsRule
<1> HIDE DEF at, set, row
<1> QED BY <1>2, <1>6, <1>7, <1>8 DEF row

-----------------------------------------------------------------------------
(* FlattenSeq, by induction on the number of lists.                        *)

LEMMA NatSetInduction ==
  ASSUME NEW T, 0 \in T, \A n \in Nat : n \in T => n + 1 \in T
  PROVE  Nat \subseteq T
<1> SUFFICES ASSUME Nat \ T # {} PROVE FALSE OBVIOUS
<1>1. Min(Nat \ T) \in Nat \ T /\ \A i \in Nat \ T : Min(Nat \ T) <= i BY LeastOf
<1>2. PICK n \in Nat \ T : \A i \in Nat \ T : n <= i BY <1>1
<1>3. n # 0 /\ n - 1 \in Nat /\ n - 1 < n OBVIOUS
<1>4. n - 1 \in T BY <1>2, <1>3
<1> QED BY <1>3, <1>4

(* The concatenations of the first lists, one more at each step.           *)
LEMMA FlattenSteps ==
  ASSUME NEW S, NEW lists \in Seq(Seq(S)), lists # << >>
  PROVE  \E f \in [1 .. Len(lists) -> Seq(S)] :
           /\ f[1] = lists[1]
           /\ \A i \in 2 .. Len(lists) : f[i] = f[i - 1] \o lists[i]
           /\ FlattenSeq(lists) = f[Len(lists)]
<1> DEFINE Next1Of(f, i) == IF i = 1 THEN lists[i] ELSE f[i - 1] \o lists[i]
           Sums(n) == {f \in [1 .. n -> Seq(S)] : \A i \in 1 .. n : f[i] = Next1Of(f, i)}
           T == {n \in Nat : 1 <= n /\ n <= Len(lists) => Sums(n) # {}}
<1>1. Len(lists) \in Nat \ {0} /\ \A i \in 1 .. Len(lists) : lists[i] \in Seq(S)
      BY EmptySeq, ElementOfSeq
<1>2. 0 \in T OBVIOUS
<1>3. ASSUME NEW n \in Nat, n \in T PROVE n + 1 \in T
  <2> SUFFICES ASSUME n + 1 <= Len(lists) PROVE Sums(n + 1) # {}
    <3> HIDE DEF Sums
    <3> QED OBVIOUS
  <2>1. CASE n = 0
    <3> DEFINE g == [i \in 1 .. 1 |-> lists[i]]
    <3>1. g \in [1 .. 1 -> Seq(S)] BY <1>1
    <3>2. \A i \in 1 .. 1 : i = 1 /\ g[i] = lists[i] OBVIOUS
    <3>3. \A i \in 1 .. 1 : g[i] = Next1Of(g, i)
      <4> HIDE DEF g
      <4> QED BY <3>2
    <3> HIDE DEF g, Next1Of
    <3> QED BY <2>1, <3>1, <3>3
  <2>2. CASE n # 0
    <3>0. Sums(n) # {}
      <4> HIDE DEF Sums
      <4> QED BY <1>1, <1>3, <2>2
    <3>1. PICK f \in [1 .. n -> Seq(S)] : \A i \in 1 .. n : f[i] = Next1Of(f, i)
      <4> HIDE DEF Next1Of
      <4> QED BY <3>0
    <3> DEFINE c == f[n] \o lists[n + 1]
               g == [i \in 1 .. n + 1 |-> IF i = n + 1 THEN c ELSE f[i]]
    <3>2. f[n] \in Seq(S) /\ lists[n + 1] \in Seq(S) BY <1>1, <2>2
    <3>3. c \in Seq(S) BY <3>2, ConcatProperties
    <3>4. g \in [1 .. n + 1 -> Seq(S)] /\ (\A i \in 1 .. n : g[i] = f[i]) /\ g[n + 1] = c
      <4> HIDE DEF c
      <4> QED BY <3>3
    <3>5. ASSUME NEW i \in 1 .. n + 1 PROVE g[i] = Next1Of(g, i)
      <4>1. CASE i = n + 1
        <5>1. i - 1 = n /\ i # 1 /\ n \in 1 .. n BY <4>1, <2>2
        <5>2. g[i - 1] = f[n] BY <3>4, <5>1
        <5> HIDE DEF g
        <5> QED BY <3>4, <4>1, <5>1, <5>2
      <4>2. CASE i # n + 1
        <5>1. i \in 1 .. n /\ (i # 1 => i - 1 \in 1 .. n) BY <4>2
        <5>2. g[i] = f[i] /\ (i # 1 => g[i - 1] = f[i - 1]) BY <3>4, <5>1
        <5>3. f[i] = Next1Of(f, i) BY <3>1, <5>1
        <5> HIDE DEF g
        <5> QED BY <5>2, <5>3
      <4> QED BY <4>1, <4>2
    <3> HIDE DEF g, Next1Of
    <3> QED BY <3>4, <3>5
  <2> QED BY <2>1, <2>2
<1>4. Len(lists) \in T
  <2> HIDE DEF T
  <2> QED BY <1>1, <1>2, <1>3, NatSetInduction
<1>5. PICK f \in [1 .. Len(lists) -> Seq(S)] : \A i \in 1 .. Len(lists) : f[i] = Next1Of(f, i)
  <2>1. Sums(Len(lists)) # {}
    <3> HIDE DEF Sums
    <3> QED BY <1>1, <1>4
  <2> HIDE DEF Next1Of
  <2> QED BY <2>1
<1> DEFINE Step(g) == [i \in 1 .. Len(lists) |-> Next1Of(g, i)]
           flatten == CHOOSE g : g = Step(g)
<1>6. f = Step(f)
  <2> DEFINE e == Step(f)
  <2>1. DOMAIN e = 1 .. Len(lists) /\ \A i \in 1 .. Len(lists) : e[i] = f[i] BY <1>5, Zenon
  <2>2. e = [i \in 1 .. Len(lists) |-> e[i]] BY Zenon
  <2>3. f = [i \in 1 .. Len(lists) |-> f[i]] OBVIOUS
  <2>4. f = e
    <3> HIDE DEF e
    <3> QED BY <2>1, <2>2, <2>3
  <2> HIDE DEF Step
  <2> QED BY <2>4
<1>7. flatten = Step(flatten)
  <2> HIDE DEF Step
  <2> QED BY <1>6
<1>8. FlattenSeq(lists) = flatten[Len(lists)] BY <1>1 DEF FlattenSeq
<1>9. DOMAIN flatten = 1 .. Len(lists) /\ \A i \in 1 .. Len(lists) : flatten[i] = Next1Of(flatten, i)
  <2> HIDE DEF flatten, Next1Of
  <2> QED BY <1>7
<1> DEFINE U == {n \in Nat : n \in 1 .. Len(lists) => flatten[n] = f[n]}
<1>10. 0 \in U OBVIOUS
<1>11. ASSUME NEW n \in Nat, n \in U PROVE n + 1 \in U
  <2> SUFFICES ASSUME n + 1 \in 1 .. Len(lists) PROVE flatten[n + 1] = f[n + 1] BY <1>11
  <2>1. n + 1 # 1 => n \in 1 .. Len(lists) /\ flatten[n] = f[n] BY <1>11
  <2>2. flatten[n + 1] = Next1Of(flatten, n + 1) /\ f[n + 1] = Next1Of(f, n + 1) BY <1>5, <1>9
  <2> HIDE DEF flatten
  <2> QED BY <2>1, <2>2
<1>12. flatten[Len(lists)] = f[Len(lists)]
  <2>1. Len(lists) \in U
    <3> HIDE DEF U
    <3> QED BY <1>1, <1>10, <1>11, NatSetInduction
  <2> HIDE DEF flatten
  <2> QED BY <1>1, <2>1
<1>13. f[1] = lists[1]
  <2>1. 1 \in 1 .. Len(lists) BY <1>1
  <2>2. f[1] = Next1Of(f, 1) BY <1>5, <2>1
  <2> QED BY <2>2
<1>14. ASSUME NEW i \in 2 .. Len(lists) PROVE f[i] = f[i - 1] \o lists[i]
  <2>1. i \in 1 .. Len(lists) /\ i # 1 BY <1>1
  <2>2. f[i] = Next1Of(f, i) BY <1>5, <2>1
  <2> QED BY <2>1, <2>2
<1> QED BY <1>8, <1>12, <1>13, <1>14

LEMMA FlattenType ==
  ASSUME NEW S, NEW lists \in Seq(Seq(S))
  PROVE  FlattenSeq(lists) \in Seq(S)
<1>1. CASE lists = << >> BY <1>1, EmptySeq DEF FlattenSeq
<1>2. CASE lists # << >>
  <2>1. Len(lists) \in Nat \ {0} BY <1>2, EmptySeq
  <2>2. PICK f \in [1 .. Len(lists) -> Seq(S)] : FlattenSeq(lists) = f[Len(lists)] BY <1>2, FlattenSteps
  <2>3. Len(lists) \in 1 .. Len(lists) BY <2>1
  <2>4. f[Len(lists)] \in Seq(S) BY <2>3
  <2> QED BY <2>2, <2>4
<1> QED BY <1>1, <1>2

(* Of lists that are empty but for one, that one is left.                  *)
LEMMA FlattenOne ==
  ASSUME NEW S, NEW lists \in Seq(Seq(S)), NEW p \in DOMAIN lists,
         \A i \in DOMAIN lists : i # p => lists[i] = << >>
  PROVE  FlattenSeq(lists) = lists[p]
<1>1. Len(lists) \in Nat /\ DOMAIN lists = 1 .. Len(lists) /\ p \in 1 .. Len(lists) /\ lists # << >>
      BY LenProperties, EmptySeq
<1>2. /\ \A i \in 1 .. Len(lists) : lists[i] \in Seq(S)
      /\ \A i \in 1 .. Len(lists) : i # p => lists[i] = << >>
      BY <1>1, ElementOfSeq
<1>3. PICK f \in [1 .. Len(lists) -> Seq(S)] :
        /\ f[1] = lists[1]
        /\ \A i \in 2 .. Len(lists) : f[i] = f[i - 1] \o lists[i]
        /\ FlattenSeq(lists) = f[Len(lists)]
      BY <1>1, FlattenSteps
<1> DEFINE T == {n \in Nat : n \in 1 .. Len(lists) => f[n] = IF n < p THEN << >> ELSE lists[p]}
<1>4. 0 \in T OBVIOUS
<1>5. ASSUME NEW n \in Nat, n \in T PROVE n + 1 \in T
  <2> SUFFICES ASSUME n + 1 \in 1 .. Len(lists)
               PROVE  f[n + 1] = IF n + 1 < p THEN << >> ELSE lists[p]
      BY <1>5
  <2>1. CASE n = 0
    <3>1. 1 \in 1 .. Len(lists) /\ (~(1 < p) => p = 1) /\ (1 < p => 1 # p) BY <1>1
    <3>2. f[1] = lists[1] BY <1>3
    <3>3. 1 < p => lists[1] = << >> BY <1>2, <3>1
    <3> QED BY <2>1, <3>1, <3>2, <3>3
  <2>2. CASE n # 0
    <3>1. n \in 1 .. Len(lists) /\ n + 1 \in 2 .. Len(lists) BY <1>1, <2>2
    <3>2. f[n + 1] = f[n] \o lists[n + 1]
      <4>1. (n + 1) - 1 = n OBVIOUS
      <4>2. f[n + 1] = f[(n + 1) - 1] \o lists[n + 1] BY <1>3, <3>1
      <4> QED BY <4>1, <4>2
    <3>3. f[n] = IF n < p THEN << >> ELSE lists[p] BY <1>5, <3>1
    <3>4. << >> \in Seq(S) /\ lists[p] \in Seq(S) BY <1>1, <1>2, EmptySeq
    <3>5. CASE n + 1 = p
      <4>0. n < p BY <3>5
      <4>1. f[n + 1] = << >> \o lists[p] BY <3>2, <3>3, <3>5, <4>0
      <4>2. << >> \o lists[p] = lists[p] BY <3>4, ConcatEmptySeq
      <4> QED BY <3>5, <4>1, <4>2
    <3>6. CASE n + 1 # p
      <4>1. lists[n + 1] = << >> BY <1>1, <1>2, <3>1, <3>6
      <4>2. f[n] \o << >> = f[n] BY <3>3, <3>4, ConcatEmptySeq
      <4>3. n < p <=> n + 1 < p BY <1>1, <3>6
      <4> QED BY <3>2, <3>3, <4>1, <4>2, <4>3
    <3> QED BY <3>5, <3>6
  <2> QED BY <2>1, <2>2
<1>6. Len(lists) \in T
  <2> HIDE DEF T
  <2> QED BY <1>1, <1>4, <1>5, NatSetInduction
<1>7. Len(lists) \in 1 .. Len(lists) /\ ~(Len(lists) < p) BY <1>1
<1> QED BY <1>3, <1>6, <1>7

LEMMA FlattenNone ==
  ASSUME NEW S, NEW lists \in Seq(Seq(S)), \A i \in DOMAIN lists : lists[i] = << >>
  PROVE  FlattenSeq(lists) = << >>
<1>1. CASE lists = << >> BY <1>1, EmptySeq DEF FlattenSeq
<1>2. CASE lists # << >>
  <2>1. 1 \in DOMAIN lists BY <1>2, EmptySeq, LenProperties
  <2> QED BY <2>1, FlattenOne
<1> QED BY <1>1, <1>2

-----------------------------------------------------------------------------
(* Every operation on rules gives well-formed rules.                       *)

IsBox(box) == \A k \in AddressLists \cup ProcessLists : box[k] \in Seq(Words)

LEMMA LineLists ==
  /\ AddressLists \cup ProcessLists \subseteq Lists /\ Lists \subseteq Attributes
  /\ AddressLists \cap ProcessLists = {}
  /\ \A type : LinesOf(type) \subseteq AddressLists \cup ProcessLists
<1>1. AddressLists \cup ProcessLists \subseteq Lists /\ AddressLists \cap ProcessLists = {}
      BY DEF AddressLists, ProcessLists, Lists
<1>2. Lists \subseteq Attributes BY DEF Attributes
<1>3. ASSUME NEW type PROVE LinesOf(type) \subseteq AddressLists \cup ProcessLists
  <2> HIDE DEF AddressLists
  <2> QED BY DEF LinesOf, ProcessLists
<1> QED BY <1>1, <1>2, <1>3

LEMMA RulesProperties ==
  ASSUME NEW rules, IsRules(rules)
  PROVE  /\ Len(rules) \in Nat /\ DOMAIN rules = 1 .. Len(rules)
         /\ rules \in Seq(ToSet(rules))
         /\ rules = [i \in DOMAIN rules |-> rules[i]]
         /\ \A i \in DOMAIN rules : IsRule(rules[i])
<1>1. rules \in Seq(ToSet(rules)) BY DEF IsRules
<1> QED BY <1>1, LenProperties DEF IsRules

LEMMA RulesAre ==
  ASSUME NEW n \in Nat, NEW rules, rules = [i \in 1 .. n |-> rules[i]], \A i \in 1 .. n : IsRule(rules[i])
  PROVE  IsRules(rules)
<1>1. DOMAIN rules = 1 .. n /\ \A i \in 1 .. n : rules[i] \in ToSet(rules) BY DEF ToSet
<1>2. rules \in Seq(ToSet(rules)) BY <1>1
<1> QED BY <1>1, <1>2 DEF IsRules

LEMMA FilterKeepsType ==
  ASSUME NEW rules, IsRules(rules), NEW K \in SUBSET (DOMAIN rules)
  PROVE  IsRules(Chosen(rules, K)) /\ \A i \in DOMAIN Chosen(rules, K) : \E k \in K : Chosen(rules, K)[i] = rules[k]
<1>1. Len(rules) \in Nat /\ DOMAIN rules = 1 .. Len(rules) /\ \A i \in DOMAIN rules : IsRule(rules[i])
      BY RulesProperties
<1>2. K \in SUBSET (1 .. Len(rules)) BY <1>1
<1>3. Cardinality(K) \in Nat /\ InOrder(K) \in [1 .. Cardinality(K) -> K] BY <1>1, <1>2, ChosenCounts
<1>4. Chosen(rules, K) = [m \in 1 .. Cardinality(K) |-> rules[InOrder(K)[m]]] BY DEF Chosen
<1>5. \A m \in 1 .. Cardinality(K) : InOrder(K)[m] \in K /\ Chosen(rules, K)[m] = rules[InOrder(K)[m]] BY <1>3, <1>4
<1>6. \A m \in 1 .. Cardinality(K) : IsRule(Chosen(rules, K)[m]) BY <1>1, <1>2, <1>5
<1>7. Chosen(rules, K) = [m \in 1 .. Cardinality(K) |-> Chosen(rules, K)[m]] BY <1>4, <1>5
<1> QED BY <1>3, <1>4, <1>5, <1>6, <1>7, RulesAre

LEMMA AppendKeepsType ==
  ASSUME NEW rules, IsRules(rules), NEW r, IsRule(r)
  PROVE  IsRules(Append(rules, r))
<1>1. Len(rules) \in Nat /\ DOMAIN rules = 1 .. Len(rules) /\ \A i \in DOMAIN rules : IsRule(rules[i])
      BY RulesProperties
<1>2. rules \in Seq(ToSet(rules) \cup {r}) BY RulesProperties, SeqMonotonic
<1>3. /\ Append(rules, r) \in Seq(ToSet(rules) \cup {r}) /\ Len(Append(rules, r)) = Len(rules) + 1
      /\ \A i \in 1 .. Len(rules) : Append(rules, r)[i] = rules[i]
      /\ Append(rules, r)[Len(rules) + 1] = r
      BY <1>2, AppendProperties
<1>4. Append(rules, r) = [i \in 1 .. Len(rules) + 1 |-> Append(rules, r)[i]] BY <1>3, LenProperties
<1>5. ASSUME NEW i \in 1 .. Len(rules) + 1 PROVE IsRule(Append(rules, r)[i])
  <2>1. CASE i \in 1 .. Len(rules) BY <1>1, <1>3, <2>1
  <2>2. CASE i = Len(rules) + 1 BY <1>3, <2>2
  <2> QED BY <1>1, <2>1, <2>2
<1>6. Len(rules) + 1 \in Nat BY <1>1
<1> QED BY <1>4, <1>5, <1>6, RulesAre

(* A rule of known parts; most operations give one.                        *)
LEMMA RuleIs ==
  ASSUME NEW name, NEW type, NEW outbound, NEW action, NEW f,
         DOMAIN f \subseteq Attributes, f = [k \in DOMAIN f |-> f[k]], \A k \in DOMAIN f : IsField(k, f[k])
  PROVE  IsRule([name |-> name, type |-> type, outbound |-> outbound, action |-> action, f |-> f])
BY DEF IsRule

LEMMA NewRuleIs == IsRule(NewRule)
<1>1. DOMAIN Nothing = {} /\ Nothing = [k \in DOMAIN Nothing |-> Nothing[k]] BY DEF Nothing
<1> QED BY <1>1, RuleIs DEF NewRule

(* An operation that changes parts of a rule: the rule that results.       *)
LEMMA RuleParts ==
  ASSUME NEW r, IsRule(r)
  PROVE  /\ r = [name |-> r.name, type |-> r.type, outbound |-> r.outbound, action |-> r.action, f |-> r.f]
         /\ \A name : [r EXCEPT !.name = name] =
              [name |-> name, type |-> r.type, outbound |-> r.outbound, action |-> r.action, f |-> r.f]
         /\ \A f : [r EXCEPT !.f = f] =
              [name |-> r.name, type |-> r.type, outbound |-> r.outbound, action |-> r.action, f |-> f]
         /\ \A type, name : [r EXCEPT !.type = type, !.name = name] =
              [name |-> name, type |-> type, outbound |-> r.outbound, action |-> r.action, f |-> r.f]
         /\ DOMAIN r.f \subseteq Attributes /\ r.f = [k \in DOMAIN r.f |-> r.f[k]]
         /\ \A k \in DOMAIN r.f : IsField(k, r.f[k])
<1>1. r \in [name : {r.name}, type : {r.type}, outbound : {r.outbound}, action : {r.action}, f : {r.f}] BY DEF IsRule
<1>2. ASSUME NEW type, NEW name
      PROVE  [r EXCEPT !.type = type, !.name = name] =
               [name |-> name, type |-> type, outbound |-> r.outbound, action |-> r.action, f |-> r.f]
  <2> DEFINE e == [r EXCEPT !.type = type, !.name = name]
  <2>1. e \in [name : {name}, type : {type}, outbound : {r.outbound}, action : {r.action}, f : {r.f}] BY <1>1
  <2> HIDE DEF e
  <2>2. e = [name |-> name, type |-> type, outbound |-> r.outbound, action |-> r.action, f |-> r.f] BY <2>1
  <2> QED BY <2>2 DEF e
<1>3. \A name : [r EXCEPT !.name = name] =
        [name |-> name, type |-> r.type, outbound |-> r.outbound, action |-> r.action, f |-> r.f]
      BY <1>1
<1>4. \A f : [r EXCEPT !.f = f] =
        [name |-> r.name, type |-> r.type, outbound |-> r.outbound, action |-> r.action, f |-> f]
      BY <1>1
<1> QED BY <1>1, <1>2, <1>3, <1>4 DEF IsRule

LEMMA RuleMade ==
  ASSUME NEW name, NEW type, NEW outbound, NEW action
  PROVE  [NewRule EXCEPT !.name = name, !.type = type, !.action = action, !.outbound = outbound] =
           [name |-> name, type |-> type, outbound |-> outbound, action |-> action, f |-> Nothing]
<1> DEFINE n == NewRule
           e == [n EXCEPT !.name = name, !.type = type, !.action = action, !.outbound = outbound]
<1>1. n \in [name : {n.name}, type : {n.type}, outbound : {n.outbound}, action : {n.action}, f : {n.f}] /\ n.f = Nothing
      BY DEF NewRule
<1> HIDE DEF n
<1>2. e \in [name : {name}, type : {type}, outbound : {outbound}, action : {action}, f : {Nothing}]
      BY <1>1
<1> HIDE DEF e
<1>3. e = [name |-> name, type |-> type, outbound |-> outbound, action |-> action, f |-> Nothing] BY <1>2
<1> QED BY <1>3 DEF e, n

LEMMA RuleNamed ==
  ASSUME NEW name, NEW action, NEW f
  PROVE  [NewRule EXCEPT !.name = name, !.action = action, !.f = f] =
           [name |-> name, type |-> NewRule.type, outbound |-> NewRule.outbound, action |-> action, f |-> f]
<1> DEFINE n == NewRule
           e == [n EXCEPT !.name = name, !.action = action, !.f = f]
<1>1. n \in [name : {n.name}, type : {n.type}, outbound : {n.outbound}, action : {n.action}, f : {n.f}] /\ n.f = Nothing
      BY DEF NewRule
<1> HIDE DEF n
<1>2. e \in [name : {name}, type : {n.type}, outbound : {n.outbound}, action : {action}, f : {f}]
      BY <1>1
<1> HIDE DEF e
<1>3. e = [name |-> name, type |-> n.type, outbound |-> n.outbound, action |-> action, f |-> f] BY <1>2
<1> QED BY <1>3 DEF e, n

LEMMA RuleRead ==
  ASSUME NEW action, NEW outbound, NEW f
  PROVE  [NewRule EXCEPT !.action = action, !.outbound = outbound, !.f = f] =
           [name |-> NewRule.name, type |-> NewRule.type, outbound |-> outbound, action |-> action, f |-> f]
<1> DEFINE n == NewRule
           e == [n EXCEPT !.action = action, !.outbound = outbound, !.f = f]
<1>1. n \in [name : {n.name}, type : {n.type}, outbound : {n.outbound}, action : {n.action}, f : {n.f}] /\ n.f = Nothing
      BY DEF NewRule
<1> HIDE DEF n
<1>2. e \in [name : {n.name}, type : {n.type}, outbound : {outbound}, action : {action}, f : {f}]
      BY <1>1
<1> HIDE DEF e
<1>3. e = [name |-> n.name, type |-> n.type, outbound |-> outbound, action |-> action, f |-> f] BY <1>2
<1> QED BY <1>3 DEF e, n

LEMMA CleanRuleIs == \A type : IsRule(CleanRule(type)) /\ CleanRule(type).type = type /\ CleanRule(type).f = Nothing
<1> SUFFICES ASSUME NEW type PROVE IsRule(CleanRule(type)) /\ CleanRule(type).type = type /\ CleanRule(type).f = Nothing
    OBVIOUS
<1> DEFINE name == type[1] \o type[2]
           action == IF type[2] = "Block" THEN "reject" ELSE "route"
           outbound == CASE type[2] = "Proxy" -> "proxy" [] type[2] = "WarpBypass" -> "warp-bypass" [] OTHER -> "direct"
<1>0. CleanRule(type) = [NewRule EXCEPT !.name = name, !.type = type, !.action = action, !.outbound = outbound]
      BY Zenon DEF CleanRule
<1> HIDE DEF name, action, outbound
<1>1. CleanRule(type) = [name |-> name, type |-> type, outbound |-> outbound, action |-> action, f |-> Nothing]
      BY <1>0, RuleMade
<1>2. DOMAIN Nothing = {} /\ Nothing = [k \in DOMAIN Nothing |-> Nothing[k]] BY DEF Nothing
<1>3. IsRule([name |-> name, type |-> type, outbound |-> outbound, action |-> action, f |-> Nothing])
      BY <1>2, RuleIs
<1> HIDE DEF CleanRule
<1> QED BY <1>1, <1>3

LEMMA DnsHijackIs == IsRule(DnsHijack)
<1> DEFINE f == [protocol |-> "dns"]
<1>1. DOMAIN f = {"protocol"} /\ f["protocol"] = "dns" /\ f = [k \in DOMAIN f |-> f[k]] OBVIOUS
<1>2. "protocol" \in Attributes /\ "protocol" \notin Lists /\ "protocol" \notin RuleFlags
      BY DEF Attributes, Lists, RuleFlags, RuleTexts
<1>3. DnsHijack = [name |-> "dns-hijack", type |-> NewRule.type, outbound |-> NewRule.outbound,
                   action |-> "hijack-dns", f |-> f]
  <2> DEFINE name == "dns-hijack"
             action == "hijack-dns"
  <2>1. DnsHijack = [NewRule EXCEPT !.name = name, !.action = action, !.f = f] BY Zenon DEF DnsHijack
  <2> HIDE DEF f, name, action
  <2>2. DnsHijack = [name |-> name, type |-> NewRule.type, outbound |-> NewRule.outbound, action |-> action, f |-> f]
        BY <2>1, RuleNamed
  <2> QED BY <2>2 DEF name, action
<1>4. \A k \in DOMAIN f : IsField(k, f[k]) BY <1>1, <1>2 DEF IsField
<1> HIDE DEF f
<1> QED BY <1>1, <1>2, <1>3, <1>4, RuleIs

(* Renaming and filtering.                                                 *)
LEMMA RenamedIs ==
  ASSUME NEW rules, IsRules(rules)
  PROVE  /\ IsRules(Renamed(rules)) /\ DOMAIN Renamed(rules) = DOMAIN rules
         /\ \A i \in DOMAIN rules :
              \E name : Renamed(rules)[i] = [name |-> name, type |-> rules[i].type, outbound |-> rules[i].outbound,
                                             action |-> rules[i].action, f |-> rules[i].f]
<1>1. Len(rules) \in Nat /\ DOMAIN rules = 1 .. Len(rules) /\ \A i \in DOMAIN rules : IsRule(rules[i])
      BY RulesProperties
<1>2. DOMAIN Renamed(rules) = DOMAIN rules /\ Renamed(rules) = [i \in 1 .. Len(rules) |-> Renamed(rules)[i]]
      BY <1>1 DEF Renamed
<1>3. ASSUME NEW i \in DOMAIN rules
      PROVE  \E name : Renamed(rules)[i] = [name |-> name, type |-> rules[i].type, outbound |-> rules[i].outbound,
                                            action |-> rules[i].action, f |-> rules[i].f]
  <2> DEFINE r == rules[i]
             name == Ordinal("rule_", i)
  <2>1. IsRule(r) BY <1>1
  <2>2. Renamed(rules)[i] = [r EXCEPT !.name = name] \/ Renamed(rules)[i] = r BY DEF Renamed
  <2> HIDE DEF r, name
  <2>3. Renamed(rules)[i] = [name |-> name, type |-> r.type, outbound |-> r.outbound, action |-> r.action, f |-> r.f]
        \/ Renamed(rules)[i] = [name |-> r.name, type |-> r.type, outbound |-> r.outbound, action |-> r.action, f |-> r.f]
        BY <2>1, <2>2, RuleParts
  <2> QED BY <2>3 DEF r
<1>4. ASSUME NEW i \in 1 .. Len(rules) PROVE IsRule(Renamed(rules)[i])
  <2>1. IsRule(rules[i]) BY <1>1
  <2>2. /\ DOMAIN rules[i].f \subseteq Attributes /\ rules[i].f = [k \in DOMAIN rules[i].f |-> rules[i].f[k]]
        /\ \A k \in DOMAIN rules[i].f : IsField(k, rules[i].f[k])
        BY <2>1, RuleParts
  <2>3. PICK name : Renamed(rules)[i] = [name |-> name, type |-> rules[i].type, outbound |-> rules[i].outbound,
                                         action |-> rules[i].action, f |-> rules[i].f]
        BY <1>1, <1>3
  <2> QED BY <2>2, <2>3, RuleIs
<1> QED BY <1>1, <1>2, <1>3, <1>4, RulesAre

LEMMA FilterIs ==
  ASSUME NEW rules, IsRules(rules)
  PROVE  IsRules(FilterEmptyRules(rules))
<1>1. {i \in DOMAIN rules : ~isEmpty(rules[i])} \in SUBSET (DOMAIN rules) OBVIOUS
<1>2. FilterEmptyRules(rules) = Chosen(rules, {i \in DOMAIN rules : ~isEmpty(rules[i])}) BY DEF FilterEmptyRules
<1> QED BY <1>1, <1>2, FilterKeepsType

(* The first rule of a type.                                               *)
LEMMA FirstOfIs ==
  ASSUME NEW rules, IsRules(rules), NEW type
  PROVE  /\ (\E i \in DOMAIN rules : rules[i].type = type) =>
              FirstOf(rules, type) \in DOMAIN rules /\ rules[FirstOf(rules, type)].type = type
         /\ (\A i \in DOMAIN rules : rules[i].type # type) => FirstOf(rules, type) = 0
<1> DEFINE I == {i \in 1 .. Len(rules) : rules[i].type = type}
<1>1. Len(rules) \in Nat /\ DOMAIN rules = 1 .. Len(rules) BY RulesProperties
<1>2. FirstOf(rules, type) = IF I # {} THEN Min(I) ELSE 0 BY DEF FirstOf, SelectInSeq
<1>3. I # {} => Min(I) \in I
  <2>1. I \in SUBSET Nat OBVIOUS
  <2> HIDE DEF I
  <2> QED BY <2>1, LeastOf
<1> QED BY <1>1, <1>2, <1>3

LEMMA ResetIs ==
  ASSUME NEW rules, IsRules(rules), NEW type
  PROVE  IsRules(ResetSimpleRule(rules, type))
<1>1. Len(rules) \in Nat /\ DOMAIN rules = 1 .. Len(rules) /\ \A i \in DOMAIN rules : IsRule(rules[i])
      BY RulesProperties
<1>2. IsRule(CleanRule(type)) BY CleanRuleIs
<1>3. CASE FirstOf(rules, type) > 0
  <2> DEFINE q == [rules EXCEPT ![FirstOf(rules, type)] = CleanRule(type)]
  <2>1. ResetSimpleRule(rules, type) = q BY <1>3 DEF ResetSimpleRule
  <2>2. q = [i \in 1 .. Len(rules) |-> q[i]] BY <1>1
  <2>3. \A i \in 1 .. Len(rules) : IsRule(q[i]) BY <1>1, <1>2
  <2> HIDE DEF q
  <2>4. IsRules(q) BY <1>1, <2>2, <2>3, RulesAre
  <2> QED BY <2>1, <2>4
<1>4. CASE ~(FirstOf(rules, type) > 0) BY <1>2, <1>4, AppendKeepsType DEF ResetSimpleRule
<1> QED BY <1>3, <1>4

(* The values of a line, each once.                                        *)
LEMMA DistinctIs ==
  ASSUME NEW S, NEW seq \in Seq(S)
  PROVE  /\ Distinct(seq) \in Seq(S)
         /\ seq # << >> => Distinct(seq) # << >>
         /\ (\A i, j \in DOMAIN seq : seq[i] = seq[j] => i = j) => Distinct(seq) = seq
<1> DEFINE K == {i \in DOMAIN seq : \A j \in 1 .. i - 1 : seq[j] # seq[i]}
<1>1. Len(seq) \in Nat /\ DOMAIN seq = 1 .. Len(seq) BY LenProperties
<1>2. K \in SUBSET (DOMAIN seq) OBVIOUS
<1>3. Distinct(seq) = Chosen(seq, K) BY DEF Distinct
<1>4. Chosen(seq, K) \in Seq(S) /\ ToSet(Chosen(seq, K)) = {seq[i] : i \in K}
  <2> HIDE DEF K
  <2> QED BY <1>2, ChosenType
<1>5. ASSUME seq # << >> PROVE Distinct(seq) # << >>
  <2>1. 1 \in DOMAIN seq BY <1>1, <1>5, EmptySeq
  <2>2. 1 \in K BY <2>1
  <2>3. ToSet(Distinct(seq)) # {} BY <1>3, <1>4, <2>2
  <2>4. ToSet(<< >>) = {} BY DEF ToSet
  <2> QED BY <2>3, <2>4
<1>6. ASSUME \A i, j \in DOMAIN seq : seq[i] = seq[j] => i = j PROVE Distinct(seq) = seq
  <2>1. \A i \in DOMAIN seq : \A j \in 1 .. i - 1 : j \in DOMAIN seq /\ j # i BY <1>1
  <2>2. K = DOMAIN seq BY <1>6, <2>1
  <2> QED BY <1>3, <2>2, ChosenAll
<1> QED BY <1>3, <1>4, <1>5, <1>6

(* The lines of a box, as attributes of a rule.                            *)
LinesAsFields(box, type) == [k \in {x \in LinesOf(type) : box[x] # << >>} |-> Distinct(box[k])]

LEMMA LinesAreFields ==
  ASSUME NEW box, IsBox(box), NEW type
  PROVE  LET f == LinesAsFields(box, type)
         IN  DOMAIN f \subseteq Attributes /\ f = [k \in DOMAIN f |-> f[k]] /\ \A k \in DOMAIN f : IsField(k, f[k])
<1> DEFINE f == LinesAsFields(box, type)
<1>1. DOMAIN f = {x \in LinesOf(type) : box[x] # << >>} /\ f = [k \in DOMAIN f |-> f[k]] BY DEF LinesAsFields
<1>2. ASSUME NEW k \in DOMAIN f PROVE k \in Lists /\ IsField(k, f[k])
  <2>1. k \in AddressLists \cup ProcessLists /\ k \in Lists /\ box[k] # << >> BY <1>1, LineLists
  <2>2. box[k] \in Seq(Words) BY <2>1 DEF IsBox
  <2>3. f[k] = Distinct(box[k]) BY <1>1 DEF LinesAsFields
  <2>4. Distinct(box[k]) \in Seq(Words) /\ Distinct(box[k]) # << >> BY <2>1, <2>2, DistinctIs
  <2> HIDE DEF f
  <2> QED BY <2>1, <2>3, <2>4 DEF IsField
<1> HIDE DEF f
<1>3. DOMAIN f \subseteq Attributes BY <1>2, LineLists
<1> QED BY <1>1, <1>2, <1>3 DEF f

LEMMA AddIs ==
  ASSUME NEW rules, IsRules(rules), NEW box, IsBox(box), NEW type
  PROVE  IsRules(add_simple_rule(rules, box, type))
<1> DEFINE f == LinesAsFields(box, type)
           at == FirstOf(rules, type)
           q == [rules EXCEPT ![at].f = f]
<1>1. Len(rules) \in Nat /\ DOMAIN rules = 1 .. Len(rules) /\ \A i \in DOMAIN rules : IsRule(rules[i])
      BY RulesProperties
<1>2. DOMAIN f \subseteq Attributes /\ f = [k \in DOMAIN f |-> f[k]] /\ \A k \in DOMAIN f : IsField(k, f[k])
      BY LinesAreFields
<1>3. add_simple_rule(rules, box, type) = q BY DEF add_simple_rule, LinesAsFields
<1> HIDE DEF f, at
<1>4. q = [i \in 1 .. Len(rules) |-> q[i]] BY <1>1
<1>5. ASSUME NEW i \in 1 .. Len(rules) PROVE IsRule(q[i])
  <2> DEFINE r == rules[i]
  <2>1. IsRule(r) BY <1>1
  <2>2. q[i] = r \/ q[i] = [r EXCEPT !.f = f] BY <1>1
  <2> HIDE DEF r, q
  <2>3. q[i] = r \/ q[i] = [name |-> r.name, type |-> r.type, outbound |-> r.outbound, action |-> r.action, f |-> f]
        BY <2>1, <2>2, RuleParts
  <2> QED BY <1>2, <2>1, <2>3, RuleIs
<1> HIDE DEF q
<1>6. IsRules(q) BY <1>1, <1>4, <1>5, RulesAre
<1> QED BY <1>3, <1>6

LEMMA UpdateIs ==
  ASSUME NEW rules, IsRules(rules), NEW box, IsBox(box), NEW target
  PROVE  IsRules(UpdateSimpleRules(rules, box, target))
BY ResetIs, AddIs, FilterIs DEF UpdateSimpleRules

-----------------------------------------------------------------------------
(* Profiles: what is written and read is the same, and every operation     *)
(* gives a profile.                                                        *)

LEMMA NewProfileIs ==
  /\ IsProfile(NewProfile) /\ NewProfile.id = -1 /\ NewProfile.rules = << >> /\ NewProfile.name = ""
  /\ NewProfile.remote = FALSE /\ NewProfile.url = "" /\ NewProfile.auto = FALSE /\ NewProfile.raw = FALSE
<1>1. IsRules(<< >>) BY EmptySeq DEF IsRules
<1>2. NewProfile \in [id : {-1}, name : {""}, default : {"proxy"}, rules : {<< >>}, raw : {FALSE}, prevent : {FALSE},
                      route : {<< >>}, remote : {FALSE}, url : {""}, auto : {FALSE}]
      BY DEF NewProfile
<1>3. -1 \in Int OBVIOUS
<1> HIDE DEF NewProfile
<1> QED BY <1>1, <1>2, <1>3 DEF IsProfile

(* Profiles with parts changed, as the actions change them.                *)
WithId(p, id) == [p EXCEPT !.id = id]
WithName(p, name) == [p EXCEPT !.name = name]
WithIdAndName(p, id, name) == [p EXCEPT !.id = id, !.name = name]
WithRules(p, rules) == [p EXCEPT !.rules = rules]
WithDefaultAndRules(p, default, rules) == [p EXCEPT !.default = default, !.rules = rules]
WithUrl(p, url) == [p EXCEPT !.url = url]
WithAuto(p, auto) == [p EXCEPT !.auto = auto]
WithRemote(p, remote) == [p EXCEPT !.remote = remote]
AsFetched(p, raw, route, rules, default, name) == [p EXCEPT !.raw = raw, !.route = route, !.rules = rules, !.default = default, !.name = name]
AsLinked(p, remote, url, auto, name) == [p EXCEPT !.remote = remote, !.url = url, !.auto = auto, !.name = name]
AsRaw(p, raw, name, prevent, route) == [p EXCEPT !.raw = raw, !.name = name, !.prevent = prevent, !.route = route]
AsRuled(p, name, default, rules) == [p EXCEPT !.name = name, !.default = default, !.rules = rules]

LEMMA WithIdIs ==
  ASSUME NEW p, IsProfile(p), NEW id \in Int
  PROVE  LET e == WithId(p, id)
         IN  /\ IsProfile(e)
             /\ e.id = id /\ e.name = p.name /\ e.rules = p.rules /\ e.raw = p.raw
             /\ e.remote = p.remote /\ e.url = p.url /\ e.auto = p.auto
<1> DEFINE e == WithId(p, id)
<1>1. /\ p \in [id : {p.id}, name : {p.name}, default : {p.default}, rules : {p.rules}, raw : {p.raw}, prevent : {p.prevent},
              route : {p.route}, remote : {p.remote}, url : {p.url}, auto : {p.auto}]
      /\ p.id \in Int /\ p.raw \in BOOLEAN /\ p.remote \in BOOLEAN /\ IsRules(p.rules)
      BY DEF IsProfile
<1>2. e \in [id : {id}, name : {p.name}, default : {p.default}, rules : {p.rules}, raw : {p.raw}, prevent : {p.prevent},
             route : {p.route}, remote : {p.remote}, url : {p.url}, auto : {p.auto}]
      BY <1>1 DEF WithId
<1> HIDE DEF e
<1>3. IsProfile(e) BY <1>1, <1>2 DEF IsProfile
<1> QED BY <1>2, <1>3 DEF e

LEMMA WithNameIs ==
  ASSUME NEW p, IsProfile(p), NEW name
  PROVE  LET e == WithName(p, name)
         IN  /\ IsProfile(e)
             /\ e.id = p.id /\ e.name = name /\ e.rules = p.rules /\ e.raw = p.raw
             /\ e.remote = p.remote /\ e.url = p.url /\ e.auto = p.auto
<1> DEFINE e == WithName(p, name)
<1>1. /\ p \in [id : {p.id}, name : {p.name}, default : {p.default}, rules : {p.rules}, raw : {p.raw}, prevent : {p.prevent},
              route : {p.route}, remote : {p.remote}, url : {p.url}, auto : {p.auto}]
      /\ p.id \in Int /\ p.raw \in BOOLEAN /\ p.remote \in BOOLEAN /\ IsRules(p.rules)
      BY DEF IsProfile
<1>2. e \in [id : {p.id}, name : {name}, default : {p.default}, rules : {p.rules}, raw : {p.raw}, prevent : {p.prevent},
             route : {p.route}, remote : {p.remote}, url : {p.url}, auto : {p.auto}]
      BY <1>1 DEF WithName
<1> HIDE DEF e
<1>3. IsProfile(e) BY <1>1, <1>2 DEF IsProfile
<1> QED BY <1>2, <1>3 DEF e

LEMMA WithIdAndNameIs ==
  ASSUME NEW p, IsProfile(p), NEW id \in Int, NEW name
  PROVE  LET e == WithIdAndName(p, id, name)
         IN  /\ IsProfile(e)
             /\ e.id = id /\ e.name = name /\ e.rules = p.rules /\ e.raw = p.raw
             /\ e.remote = p.remote /\ e.url = p.url /\ e.auto = p.auto
<1> DEFINE e == WithIdAndName(p, id, name)
<1>1. /\ p \in [id : {p.id}, name : {p.name}, default : {p.default}, rules : {p.rules}, raw : {p.raw}, prevent : {p.prevent},
              route : {p.route}, remote : {p.remote}, url : {p.url}, auto : {p.auto}]
      /\ p.id \in Int /\ p.raw \in BOOLEAN /\ p.remote \in BOOLEAN /\ IsRules(p.rules)
      BY DEF IsProfile
<1>2. e \in [id : {id}, name : {name}, default : {p.default}, rules : {p.rules}, raw : {p.raw}, prevent : {p.prevent},
             route : {p.route}, remote : {p.remote}, url : {p.url}, auto : {p.auto}]
      BY <1>1 DEF WithIdAndName
<1> HIDE DEF e
<1>3. IsProfile(e) BY <1>1, <1>2 DEF IsProfile
<1> QED BY <1>2, <1>3 DEF e

LEMMA WithRulesIs ==
  ASSUME NEW p, IsProfile(p), NEW rules, IsRules(rules)
  PROVE  LET e == WithRules(p, rules)
         IN  /\ IsProfile(e)
             /\ e.id = p.id /\ e.name = p.name /\ e.rules = rules /\ e.raw = p.raw
             /\ e.remote = p.remote /\ e.url = p.url /\ e.auto = p.auto
<1> DEFINE e == WithRules(p, rules)
<1>1. /\ p \in [id : {p.id}, name : {p.name}, default : {p.default}, rules : {p.rules}, raw : {p.raw}, prevent : {p.prevent},
              route : {p.route}, remote : {p.remote}, url : {p.url}, auto : {p.auto}]
      /\ p.id \in Int /\ p.raw \in BOOLEAN /\ p.remote \in BOOLEAN /\ IsRules(p.rules)
      BY DEF IsProfile
<1>2. e \in [id : {p.id}, name : {p.name}, default : {p.default}, rules : {rules}, raw : {p.raw}, prevent : {p.prevent},
             route : {p.route}, remote : {p.remote}, url : {p.url}, auto : {p.auto}]
      BY <1>1 DEF WithRules
<1> HIDE DEF e
<1>3. IsProfile(e) BY <1>1, <1>2 DEF IsProfile
<1> QED BY <1>2, <1>3 DEF e

LEMMA WithDefaultAndRulesIs ==
  ASSUME NEW p, IsProfile(p), NEW default, NEW rules, IsRules(rules)
  PROVE  LET e == WithDefaultAndRules(p, default, rules)
         IN  /\ IsProfile(e)
             /\ e.id = p.id /\ e.name = p.name /\ e.rules = rules /\ e.raw = p.raw
             /\ e.remote = p.remote /\ e.url = p.url /\ e.auto = p.auto
<1> DEFINE e == WithDefaultAndRules(p, default, rules)
<1>1. /\ p \in [id : {p.id}, name : {p.name}, default : {p.default}, rules : {p.rules}, raw : {p.raw}, prevent : {p.prevent},
              route : {p.route}, remote : {p.remote}, url : {p.url}, auto : {p.auto}]
      /\ p.id \in Int /\ p.raw \in BOOLEAN /\ p.remote \in BOOLEAN /\ IsRules(p.rules)
      BY DEF IsProfile
<1>2. e \in [id : {p.id}, name : {p.name}, default : {default}, rules : {rules}, raw : {p.raw}, prevent : {p.prevent},
             route : {p.route}, remote : {p.remote}, url : {p.url}, auto : {p.auto}]
      BY <1>1 DEF WithDefaultAndRules
<1> HIDE DEF e
<1>3. IsProfile(e) BY <1>1, <1>2 DEF IsProfile
<1> QED BY <1>2, <1>3 DEF e

LEMMA WithUrlIs ==
  ASSUME NEW p, IsProfile(p), NEW url
  PROVE  LET e == WithUrl(p, url)
         IN  /\ IsProfile(e)
             /\ e.id = p.id /\ e.name = p.name /\ e.rules = p.rules /\ e.raw = p.raw
             /\ e.remote = p.remote /\ e.url = url /\ e.auto = p.auto
<1> DEFINE e == WithUrl(p, url)
<1>1. /\ p \in [id : {p.id}, name : {p.name}, default : {p.default}, rules : {p.rules}, raw : {p.raw}, prevent : {p.prevent},
              route : {p.route}, remote : {p.remote}, url : {p.url}, auto : {p.auto}]
      /\ p.id \in Int /\ p.raw \in BOOLEAN /\ p.remote \in BOOLEAN /\ IsRules(p.rules)
      BY DEF IsProfile
<1>2. e \in [id : {p.id}, name : {p.name}, default : {p.default}, rules : {p.rules}, raw : {p.raw}, prevent : {p.prevent},
             route : {p.route}, remote : {p.remote}, url : {url}, auto : {p.auto}]
      BY <1>1 DEF WithUrl
<1> HIDE DEF e
<1>3. IsProfile(e) BY <1>1, <1>2 DEF IsProfile
<1> QED BY <1>2, <1>3 DEF e

LEMMA WithAutoIs ==
  ASSUME NEW p, IsProfile(p), NEW auto
  PROVE  LET e == WithAuto(p, auto)
         IN  /\ IsProfile(e)
             /\ e.id = p.id /\ e.name = p.name /\ e.rules = p.rules /\ e.raw = p.raw
             /\ e.remote = p.remote /\ e.url = p.url /\ e.auto = auto
<1> DEFINE e == WithAuto(p, auto)
<1>1. /\ p \in [id : {p.id}, name : {p.name}, default : {p.default}, rules : {p.rules}, raw : {p.raw}, prevent : {p.prevent},
              route : {p.route}, remote : {p.remote}, url : {p.url}, auto : {p.auto}]
      /\ p.id \in Int /\ p.raw \in BOOLEAN /\ p.remote \in BOOLEAN /\ IsRules(p.rules)
      BY DEF IsProfile
<1>2. e \in [id : {p.id}, name : {p.name}, default : {p.default}, rules : {p.rules}, raw : {p.raw}, prevent : {p.prevent},
             route : {p.route}, remote : {p.remote}, url : {p.url}, auto : {auto}]
      BY <1>1 DEF WithAuto
<1> HIDE DEF e
<1>3. IsProfile(e) BY <1>1, <1>2 DEF IsProfile
<1> QED BY <1>2, <1>3 DEF e

LEMMA WithRemoteIs ==
  ASSUME NEW p, IsProfile(p), NEW remote \in BOOLEAN
  PROVE  LET e == WithRemote(p, remote)
         IN  /\ IsProfile(e)
             /\ e.id = p.id /\ e.name = p.name /\ e.rules = p.rules /\ e.raw = p.raw
             /\ e.remote = remote /\ e.url = p.url /\ e.auto = p.auto
<1> DEFINE e == WithRemote(p, remote)
<1>1. /\ p \in [id : {p.id}, name : {p.name}, default : {p.default}, rules : {p.rules}, raw : {p.raw}, prevent : {p.prevent},
              route : {p.route}, remote : {p.remote}, url : {p.url}, auto : {p.auto}]
      /\ p.id \in Int /\ p.raw \in BOOLEAN /\ p.remote \in BOOLEAN /\ IsRules(p.rules)
      BY DEF IsProfile
<1>2. e \in [id : {p.id}, name : {p.name}, default : {p.default}, rules : {p.rules}, raw : {p.raw}, prevent : {p.prevent},
             route : {p.route}, remote : {remote}, url : {p.url}, auto : {p.auto}]
      BY <1>1 DEF WithRemote
<1> HIDE DEF e
<1>3. IsProfile(e) BY <1>1, <1>2 DEF IsProfile
<1> QED BY <1>2, <1>3 DEF e

LEMMA AsFetchedIs ==
  ASSUME NEW p, IsProfile(p), NEW raw \in BOOLEAN, NEW route, NEW rules, IsRules(rules), NEW default, NEW name
  PROVE  LET e == AsFetched(p, raw, route, rules, default, name)
         IN  /\ IsProfile(e)
             /\ e.id = p.id /\ e.name = name /\ e.rules = rules /\ e.raw = raw
             /\ e.remote = p.remote /\ e.url = p.url /\ e.auto = p.auto
<1> DEFINE e == AsFetched(p, raw, route, rules, default, name)
<1>1. /\ p \in [id : {p.id}, name : {p.name}, default : {p.default}, rules : {p.rules}, raw : {p.raw}, prevent : {p.prevent},
              route : {p.route}, remote : {p.remote}, url : {p.url}, auto : {p.auto}]
      /\ p.id \in Int /\ p.raw \in BOOLEAN /\ p.remote \in BOOLEAN /\ IsRules(p.rules)
      BY DEF IsProfile
<1>2. e \in [id : {p.id}, name : {name}, default : {default}, rules : {rules}, raw : {raw}, prevent : {p.prevent},
             route : {route}, remote : {p.remote}, url : {p.url}, auto : {p.auto}]
      BY <1>1 DEF AsFetched
<1> HIDE DEF e
<1>3. IsProfile(e) BY <1>1, <1>2 DEF IsProfile
<1> QED BY <1>2, <1>3 DEF e

LEMMA AsLinkedIs ==
  ASSUME NEW p, IsProfile(p), NEW remote \in BOOLEAN, NEW url, NEW auto, NEW name
  PROVE  LET e == AsLinked(p, remote, url, auto, name)
         IN  /\ IsProfile(e)
             /\ e.id = p.id /\ e.name = name /\ e.rules = p.rules /\ e.raw = p.raw
             /\ e.remote = remote /\ e.url = url /\ e.auto = auto
<1> DEFINE e == AsLinked(p, remote, url, auto, name)
<1>1. /\ p \in [id : {p.id}, name : {p.name}, default : {p.default}, rules : {p.rules}, raw : {p.raw}, prevent : {p.prevent},
              route : {p.route}, remote : {p.remote}, url : {p.url}, auto : {p.auto}]
      /\ p.id \in Int /\ p.raw \in BOOLEAN /\ p.remote \in BOOLEAN /\ IsRules(p.rules)
      BY DEF IsProfile
<1>2. e \in [id : {p.id}, name : {name}, default : {p.default}, rules : {p.rules}, raw : {p.raw}, prevent : {p.prevent},
             route : {p.route}, remote : {remote}, url : {url}, auto : {auto}]
      BY <1>1 DEF AsLinked
<1> HIDE DEF e
<1>3. IsProfile(e) BY <1>1, <1>2 DEF IsProfile
<1> QED BY <1>2, <1>3 DEF e

LEMMA AsRawIs ==
  ASSUME NEW p, IsProfile(p), NEW raw \in BOOLEAN, NEW name, NEW prevent, NEW route
  PROVE  LET e == AsRaw(p, raw, name, prevent, route)
         IN  /\ IsProfile(e)
             /\ e.id = p.id /\ e.name = name /\ e.rules = p.rules /\ e.raw = raw
             /\ e.remote = p.remote /\ e.url = p.url /\ e.auto = p.auto
<1> DEFINE e == AsRaw(p, raw, name, prevent, route)
<1>1. /\ p \in [id : {p.id}, name : {p.name}, default : {p.default}, rules : {p.rules}, raw : {p.raw}, prevent : {p.prevent},
              route : {p.route}, remote : {p.remote}, url : {p.url}, auto : {p.auto}]
      /\ p.id \in Int /\ p.raw \in BOOLEAN /\ p.remote \in BOOLEAN /\ IsRules(p.rules)
      BY DEF IsProfile
<1>2. e \in [id : {p.id}, name : {name}, default : {p.default}, rules : {p.rules}, raw : {raw}, prevent : {prevent},
             route : {route}, remote : {p.remote}, url : {p.url}, auto : {p.auto}]
      BY <1>1 DEF AsRaw
<1> HIDE DEF e
<1>3. IsProfile(e) BY <1>1, <1>2 DEF IsProfile
<1> QED BY <1>2, <1>3 DEF e

LEMMA AsRuledIs ==
  ASSUME NEW p, IsProfile(p), NEW name, NEW default, NEW rules, IsRules(rules)
  PROVE  LET e == AsRuled(p, name, default, rules)
         IN  /\ IsProfile(e)
             /\ e.id = p.id /\ e.name = name /\ e.rules = rules /\ e.raw = p.raw
             /\ e.remote = p.remote /\ e.url = p.url /\ e.auto = p.auto
<1> DEFINE e == AsRuled(p, name, default, rules)
<1>1. /\ p \in [id : {p.id}, name : {p.name}, default : {p.default}, rules : {p.rules}, raw : {p.raw}, prevent : {p.prevent},
              route : {p.route}, remote : {p.remote}, url : {p.url}, auto : {p.auto}]
      /\ p.id \in Int /\ p.raw \in BOOLEAN /\ p.remote \in BOOLEAN /\ IsRules(p.rules)
      BY DEF IsProfile
<1>2. e \in [id : {p.id}, name : {name}, default : {default}, rules : {rules}, raw : {p.raw}, prevent : {p.prevent},
             route : {p.route}, remote : {p.remote}, url : {p.url}, auto : {p.auto}]
      BY <1>1 DEF AsRuled
<1> HIDE DEF e
<1>3. IsProfile(e) BY <1>1, <1>2 DEF IsProfile
<1> QED BY <1>2, <1>3 DEF e

LEMMA RowKeepsProfile ==
  ASSUME NEW p, IsProfile(p)
  PROVE  /\ loadFromDatabase(saveToDatabase(p)) = p
         /\ LET row == saveToDatabase(p)
            IN  row.id = p.id /\ row.name = p.name /\ row.url = p.url /\ row.auto = p.auto /\ row.remote = p.remote
<1> DEFINE written == [i \in DOMAIN p.rules |-> RowOfRule(p.rules[i])]
           row == [p EXCEPT !.rules = written]
           read == [i \in DOMAIN written |-> routeRuleFromJson(written[i])]
           q == [row EXCEPT !.rules = read]
<1>1. saveToDatabase(p) = row BY DEF saveToDatabase
<1>2. \A i \in DOMAIN p.rules : IsRule(p.rules[i]) BY RulesProperties DEF IsProfile
<1>3. p.rules = [i \in DOMAIN p.rules |-> p.rules[i]] BY RulesProperties DEF IsProfile
<1>4. \A i \in DOMAIN p.rules : routeRuleFromJson(RowOfRule(p.rules[i])) = p.rules[i] BY <1>2, RowKeepsRule
<1>5. read = p.rules BY <1>3, <1>4
<1>6. p \in [id : {p.id}, name : {p.name}, default : {p.default}, rules : {p.rules}, raw : {p.raw},
             prevent : {p.prevent}, route : {p.route}, remote : {p.remote}, url : {p.url}, auto : {p.auto}]
      BY DEF IsProfile
<1> HIDE DEF written, read
<1>7. row \in [id : {p.id}, name : {p.name}, default : {p.default}, rules : {written}, raw : {p.raw},
               prevent : {p.prevent}, route : {p.route}, remote : {p.remote}, url : {p.url}, auto : {p.auto}]
      BY <1>6
<1> HIDE DEF row
<1>8. row.rules = written BY <1>7
<1>9. loadFromDatabase(row) = q BY <1>8 DEF loadFromDatabase, read
<1>10. q \in [id : {p.id}, name : {p.name}, default : {p.default}, rules : {p.rules}, raw : {p.raw},
              prevent : {p.prevent}, route : {p.route}, remote : {p.remote}, url : {p.url}, auto : {p.auto}]
       BY <1>5, <1>7
<1> HIDE DEF q
<1>11. q = p BY <1>6, <1>10
<1> QED BY <1>1, <1>7, <1>9, <1>11

-----------------------------------------------------------------------------
(* The editor and the documents give profiles.                             *)

LEMMA BoxesAre ==
  ASSUME NEW rules, IsRules(rules), NEW target
  PROVE  IsBox(GetSimpleRules(rules, target))
<1> DEFINE K == {i \in DOMAIN rules : IsSimple(rules[i]) /\ rules[i].type[2] = target}
           of == Chosen(rules, K)
<1>1. IsRules(of)
  <2>1. K \in SUBSET (DOMAIN rules) OBVIOUS
  <2> HIDE DEF K
  <2> QED BY <2>1, FilterKeepsType
<1>2. GetSimpleRules(rules, target) =
        [k \in AddressLists \cup ProcessLists |-> FlattenSeq([i \in DOMAIN of |-> ValueOf(of[i], k)])]
      BY DEF GetSimpleRules
<1> HIDE DEF of
<1>3. Len(of) \in Nat /\ DOMAIN of = 1 .. Len(of) /\ \A i \in DOMAIN of : IsRule(of[i]) BY <1>1, RulesProperties
<1>4. ASSUME NEW k \in AddressLists \cup ProcessLists
      PROVE  FlattenSeq([i \in DOMAIN of |-> ValueOf(of[i], k)]) \in Seq(Words)
  <2> DEFINE lists == [i \in DOMAIN of |-> ValueOf(of[i], k)]
  <2>1. k \in Lists /\ k \in Attributes BY LineLists
  <2>2. ASSUME NEW i \in DOMAIN of PROVE ValueOf(of[i], k) \in Seq(Words)
    <3>1. IsRule(of[i]) BY <1>3
    <3>2. CASE k \in DOMAIN of[i].f
      <4>1. ValueOf(of[i], k) = of[i].f[k] BY <2>1, <3>1, <3>2, ValuesOfFields
      <4>2. IsField(k, of[i].f[k]) BY <3>1, <3>2, RuleParts
      <4> QED BY <2>1, <4>1, <4>2 DEF IsField
    <3>3. CASE k \notin DOMAIN of[i].f
      <4>1. ValueOf(of[i], k) = << >> BY <2>1, <3>3 DEF ValueOf, IsSet
      <4> QED BY <4>1, EmptySeq
    <3> QED BY <3>2, <3>3
  <2>3. lists \in Seq(Seq(Words)) BY <1>3, <2>2
  <2> HIDE DEF lists
  <2>4. FlattenSeq(lists) \in Seq(Words) BY <2>3, FlattenType
  <2> QED BY <2>4 DEF lists
<1> QED BY <1>2, <1>4 DEF IsBox

LEMMA OpenedIs ==
  ASSUME NEW p, IsProfile(p)
  PROVE  LET e == Opened(p)
         IN  IsProfile(e) /\ e.id = p.id /\ e.remote = p.remote /\ e.raw = p.raw /\ e.name = p.name /\ e.url = p.url
<1> DEFINE rules == Renamed(IF IsEmptyProfile(p) THEN Append(p.rules, DnsHijack) ELSE p.rules)
<1>1. IsRules(p.rules) BY DEF IsProfile
<1>2. IsRules(Append(p.rules, DnsHijack)) BY <1>1, DnsHijackIs, AppendKeepsType
<1>3. IsRules(rules) BY <1>1, <1>2, RenamedIs
<1>4. Opened(p) = WithRules(p, rules) BY DEF Opened, WithRules
<1> HIDE DEF rules
<1> QED BY <1>3, <1>4, WithRulesIs

LEMMA AcceptedIs ==
  ASSUME NEW p, IsProfile(p), NEW boxes, \A target \in Targets : IsBox(boxes[target])
  PROVE  LET e == Accepted(p, boxes)
         IN  IsProfile(e) /\ e.id = p.id /\ e.remote = p.remote /\ e.raw = p.raw /\ e.name = p.name /\ e.url = p.url
<1> DEFINE after(rules, target) == UpdateSimpleRules(rules, boxes[target], target)
           default == stringToOutboundID(outboundIDToString(p.default))
           rules == FilterEmptyRules(after(after(after(after(p.rules, "Bypass"), "Block"), "Proxy"), "WarpBypass"))
<1>1. IsRules(p.rules) BY DEF IsProfile
<1>2. \A q : \A target \in Targets : IsRules(q) => IsRules(after(q, target)) BY UpdateIs
<1>3. {"Bypass", "Block", "Proxy", "WarpBypass"} = Targets BY DEF Targets
<1>4. Accepted(p, boxes) = WithDefaultAndRules(p, default, rules) BY DEF Accepted, WithDefaultAndRules
<1>5. IsRules(rules)
  <2> HIDE DEF after
  <2>1. IsRules(after(after(after(after(p.rules, "Bypass"), "Block"), "Proxy"), "WarpBypass"))
        BY <1>1, <1>2, <1>3
  <2> QED BY <2>1, FilterIs
<1> HIDE DEF default, rules, after
<1> QED BY <1>4, <1>5, WithDefaultAndRulesIs

(* The boxes of a profile, and one more line.                              *)
LEMMA BoxesAfterAre ==
  ASSUME NEW p, IsProfile(p), NEW boxes \in BoxesAfter(Boxes(p))
  PROVE  \A target \in Targets : IsBox(boxes[target])
<1> DEFINE b == Boxes(p)
<1>1. IsRules(p.rules) BY DEF IsProfile
<1>2. DOMAIN b = Targets /\ \A target \in Targets : IsBox(b[target]) BY <1>1, BoxesAre DEF Boxes
<1>3. \A target \in Targets : DOMAIN b[target] = AddressLists \cup ProcessLists BY DEF Boxes, GetSimpleRules
<1>4. "Block" \in Targets /\ "domain" \in AddressLists BY DEF Targets, AddressLists
<1>0. CASE boxes = b BY <1>0, <1>2
<1> SUFFICES ASSUME boxes # b PROVE \A target \in Targets : IsBox(boxes[target]) BY <1>0
<1>5. PICK ads \in Lines : boxes = [b EXCEPT !["Block"].domain = Append(@, ads)] BY DEF BoxesAfter
<1> DEFINE c == [b EXCEPT !["Block"].domain = Append(@, ads)]
<1>6. ads \in Words BY RouteAssumption
<1> HIDE DEF b
<1>7. ASSUME NEW target \in Targets, NEW k \in AddressLists \cup ProcessLists
      PROVE  c[target][k] = b[target][k] \/ c[target][k] = Append(b[target][k], ads)
      BY <1>2, <1>3
<1>8. ASSUME NEW target \in Targets PROVE IsBox(c[target])
  <2>1. ASSUME NEW k \in AddressLists \cup ProcessLists PROVE c[target][k] \in Seq(Words)
    <3>1. b[target][k] \in Seq(Words) BY <1>2 DEF IsBox
    <3>2. Append(b[target][k], ads) \in Seq(Words) BY <3>1, <1>6, AppendProperties
    <3> HIDE DEF c
    <3> QED BY <1>7, <3>1, <3>2
  <2> HIDE DEF c
  <2> QED BY <2>1 DEF IsBox
<1> HIDE DEF c
<1> QED BY <1>5, <1>8 DEF c

LEMMA FilterEmptyIs ==
  ASSUME NEW S, NEW list \in Seq(S)
  PROVE  /\ filterEmpty(list) \in Seq(S \ {""})
         /\ list \in Seq(Words) => filterEmpty(list) = list
<1> DEFINE K == {i \in DOMAIN list : list[i] # ""}
<1>1. filterEmpty(list) = Chosen(list, K) /\ K \in SUBSET (DOMAIN list) BY DEF filterEmpty
<1>2. Chosen(list, K) \in Seq(S) /\ ToSet(Chosen(list, K)) = {list[i] : i \in K}
  <2> HIDE DEF K
  <2> QED BY <1>1, ChosenType
<1>3. "" \notin ToSet(Chosen(list, K)) BY <1>2
<1>4. Chosen(list, K) \in Seq(S \ {""})
  <2> DEFINE c == Chosen(list, K)
  <2>1. c \in Seq(S) /\ \A i \in DOMAIN c : c[i] # "" BY <1>2, <1>3 DEF ToSet
  <2> HIDE DEF c
  <2>2. Len(c) \in Nat /\ DOMAIN c = 1 .. Len(c) /\ c = [i \in 1 .. Len(c) |-> c[i]]
        /\ \A i \in 1 .. Len(c) : c[i] \in S
        BY <2>1, LenProperties, ElementOfSeq
  <2> DEFINE W == S \ {""}
  <2>3. \A i \in 1 .. Len(c) : c[i] \in W BY <2>1, <2>2
  <2>4. c \in Seq(W)
    <3> HIDE DEF W
    <3> QED BY <2>2, <2>3
  <2> QED BY <2>4 DEF c
<1>5. ASSUME list \in Seq(Words) PROVE filterEmpty(list) = list
  <2>1. \A i \in DOMAIN list : list[i] \in Words BY <1>5, LenProperties, ElementOfSeq
  <2>2. K = DOMAIN list BY <2>1 DEF Words
  <2> QED BY <1>1, <2>2, ChosenAll
<1> QED BY <1>1, <1>4, <1>5

(* What a list of texts sets of an attribute is a field.                   *)
LEMMA TextsSet ==
  ASSUME NEW json, IsText(json), NEW k \in Attributes, SetsField(k, TextsOf(json))
  PROVE  IsField(k, set_field_value(k, TextsOf(json)))
<1> DEFINE list == TextsOf(json)
<1>1. CASE k \notin Lists BY <1>1 DEF SetsField, IsField, set_field_value
<1>2. CASE k \in Lists
  <2>1. filterEmpty(list) \in Seq(Words)
    <3>1. CASE json.t = "numbers"
      <4>1. json.v \in Seq(STRING) BY <3>1 DEF IsText
      <4>2. Len(json.v) \in Nat /\ DOMAIN json.v = 1 .. Len(json.v) BY <4>1, LenProperties
      <4> DEFINE e == ""
      <4>3. list = [i \in 1 .. Len(json.v) |-> e] BY <3>1, <4>2 DEF TextsOf
      <4> HIDE DEF list
      <4>4. list \in Seq({e})
        <5> HIDE DEF e
        <5> QED BY <4>2, <4>3
      <4>5. filterEmpty(list) \in Seq({""} \ {""}) BY <4>4, FilterEmptyIs
      <4>6. {""} \ {""} \subseteq Words OBVIOUS
      <4> QED BY <4>5, <4>6, SeqMonotonic
    <3>2. CASE json.t = "strings"
      <4>1. list = json.v /\ json.v \in Seq(STRING) BY <3>2 DEF IsText, TextsOf
      <4> QED BY <4>1, FilterEmptyIs DEF Words
    <3>3. CASE json.t \notin {"numbers", "strings"}
      <4>1. list = <<json.v>> /\ json.v \in STRING BY <3>3 DEF IsText, TextsOf
      <4>2. list \in Seq(STRING) BY <4>1
      <4> HIDE DEF list
      <4> QED BY <4>2, FilterEmptyIs DEF Words
    <3> QED BY <3>1, <3>2, <3>3
  <2>2. filterEmpty(list) # << >> BY <1>2 DEF SetsField
  <2>3. set_field_value(k, list) = filterEmpty(list) BY <1>2 DEF set_field_value
  <2> HIDE DEF list
  <2>4. IsField(k, filterEmpty(list)) BY <1>2, <2>1, <2>2 DEF IsField
  <2> QED BY <2>3, <2>4 DEF list
<1> QED BY <1>1, <1>2

LEMMA RuleParsed ==
  ASSUME NEW device, NEW json, \A k \in DOMAIN json \ {"type"} : IsText(json[k])
  PROVE  IsRule(parse_rule_object(device, json))
<1> DEFINE read == {k \in DOMAIN json \ {"name", "type", "outbound"} : json[k].t # "number"}
           set == {k \in read \cap Attributes : SetsField(k, TextsOf(json[k]))}
           f == [k \in set |-> set_field_value(k, TextsOf(json[k]))]
           action == IF "action" \in read THEN TextsOf(json.action)[1] ELSE NewRule.action
           outbound == IF "outbound" \in DOMAIN json THEN OutboundFrom(device, json.outbound) ELSE NewRule.outbound
<1>1. parse_rule_object(device, json) = [NewRule EXCEPT !.action = action, !.outbound = outbound, !.f = f]
      BY DEF parse_rule_object
<1>2. DOMAIN f \subseteq Attributes /\ f = [k \in DOMAIN f |-> f[k]] OBVIOUS
<1>3. ASSUME NEW k \in DOMAIN f PROVE IsField(k, f[k])
  <2>1. k \in DOMAIN json \ {"type"} /\ k \in Attributes /\ SetsField(k, TextsOf(json[k])) OBVIOUS
  <2>2. f[k] = set_field_value(k, TextsOf(json[k])) OBVIOUS
  <2>3. IsText(json[k]) BY <2>1
  <2>4. IsField(k, set_field_value(k, TextsOf(json[k]))) BY <2>1, <2>3, TextsSet
  <2> QED BY <2>2, <2>4
<1> HIDE DEF f, action, outbound
<1>4. parse_rule_object(device, json) =
        [name |-> NewRule.name, type |-> NewRule.type, outbound |-> outbound, action |-> action, f |-> f]
      BY <1>1, RuleRead
<1> QED BY <1>2, <1>3, <1>4, RuleIs

(* A document gives a profile that is new, or nothing but a message.       *)
LEMMA ArrayIs ==
  ASSUME NEW device, NEW array, array \in Seq(ToSet(array)),
         \A i \in DOMAIN array : \A k \in DOMAIN array[i] \ {"type"} : IsText(array[i][k])
  PROVE  IsRules(parseJsonArray(device, array))
<1> DEFINE rules == parseJsonArray(device, array)
           name(i) == IF NameIn(array[i]) = ""
                      THEN Ordinal("imported rule #", Cardinality({j \in 1 .. i : NameIn(array[j]) = ""}))
                      ELSE NameIn(array[i])
           parsed(i) == parse_rule_object(device, array[i])
<1>1. Len(array) \in Nat /\ DOMAIN array = 1 .. Len(array) BY LenProperties
<1>2. rules = [i \in 1 .. Len(array) |-> [parsed(i) EXCEPT !.name = name(i)]] BY <1>1 DEF parseJsonArray
<1>3. ASSUME NEW i \in 1 .. Len(array) PROVE IsRule(rules[i])
  <2>1. rules[i] = [parsed(i) EXCEPT !.name = name(i)] BY <1>2
  <2>2. IsRule(parsed(i)) BY <1>1, RuleParsed
  <2> DEFINE r == parsed(i)
             n == name(i)
  <2> HIDE DEF r, n, rules
  <2>3. IsRule(r) /\ rules[i] = [r EXCEPT !.name = n] BY <2>1, <2>2 DEF r, n
  <2>4. rules[i] = [name |-> n, type |-> r.type, outbound |-> r.outbound, action |-> r.action, f |-> r.f]
        BY <2>3, RuleParts
  <2>5. DOMAIN r.f \subseteq Attributes /\ r.f = [k \in DOMAIN r.f |-> r.f[k]] /\ \A k \in DOMAIN r.f : IsField(k, r.f[k])
        BY <2>3, RuleParts
  <2> QED BY <2>4, <2>5, RuleIs
<1>4. rules = [i \in 1 .. Len(array) |-> rules[i]] BY <1>2
<1> HIDE DEF rules
<1>5. IsRules(rules) BY <1>1, <1>3, <1>4, RulesAre
<1> QED BY <1>5 DEF rules

LEMMA DocumentIs ==
  ASSUME NEW device, NEW doc, IsDocument(doc)
  PROVE  LET q == FromShareInput(device, doc)
         IN  /\ IsProfile(q) /\ q.remote = FALSE /\ (q # Refused => q.id = -1)
             /\ doc.kind = "array" => IsRules(parseJsonArray(device, doc.rules))
<1> DEFINE q == FromShareInput(device, doc)
           n == NewProfile
<1>0. doc.kind = "array" => IsRules(parseJsonArray(device, doc.rules)) BY ArrayIs DEF IsDocument
<1>1. CASE doc.kind = "profile" /\ doc.raw
  <2> DEFINE route == remapRawOutboundsByName(device, doc.route, doc.names)
             r == AsRaw(n, TRUE, doc.name, doc.prevent, route)
  <2>1. q = r BY <1>1 DEF FromShareInput, AsRaw
  <2> HIDE DEF q, route
  <2>2. IsProfile(r) /\ r.id = -1 /\ r.remote = FALSE
    <3> DEFINE raw == TRUE
    <3>1. raw \in BOOLEAN OBVIOUS
    <3> HIDE DEF raw
    <3>2. IsProfile(n) /\ n.id = -1 /\ n.remote = FALSE BY NewProfileIs
    <3> HIDE DEF n
    <3>3. LET e == AsRaw(n, raw, doc.name, doc.prevent, route) IN IsProfile(e) /\ e.id = n.id /\ e.remote = n.remote
          BY <3>1, <3>2, AsRawIs
    <3> QED BY <3>2, <3>3 DEF raw
  <2> QED BY <1>0, <2>1, <2>2 DEF q
<1>2. CASE doc.kind = "profile" /\ ~doc.raw
  <2> DEFINE unnamed(i) == Cardinality({j \in 1 .. i : NameIn(doc.rules[j]) = ""})
             type(i) == IF "type" \in DOMAIN doc.rules[i] THEN doc.rules[i].type.v ELSE CustomType
             name(i) == IF NameIn(doc.rules[i]) = "" THEN Ordinal("rule_", unnamed(i)) ELSE NameIn(doc.rules[i])
             rule(i) == [parse_rule_object(device, doc.rules[i]) EXCEPT !.type = type(i), !.name = name(i)]
             rules == [i \in DOMAIN doc.rules |-> rule(i)]
             default == stringToOutboundID(doc.default_outbound)
             r == AsRuled(n, doc.name, default, rules)
  <2>1. q = r BY <1>2 DEF FromShareInput, AsRuled
  <2>2. /\ doc.rules \in Seq(ToSet(doc.rules))
        /\ \A i \in DOMAIN doc.rules : \A k \in DOMAIN doc.rules[i] \ {"type"} : IsText(doc.rules[i][k])
        BY <1>2 DEF IsDocument
  <2>3. Len(doc.rules) \in Nat /\ DOMAIN doc.rules = 1 .. Len(doc.rules) BY <2>2, LenProperties
  <2>4. ASSUME NEW i \in 1 .. Len(doc.rules) PROVE IsRule(rules[i])
    <3> DEFINE p == parse_rule_object(device, doc.rules[i])
               t == type(i)
               given == name(i)
    <3>1. rules[i] = [p EXCEPT !.type = t, !.name = given] BY <2>3
    <3>2. IsRule(p) BY <2>2, <2>3, RuleParsed
    <3> HIDE DEF p, t, given, rules
    <3>3. rules[i] = [name |-> given, type |-> t, outbound |-> p.outbound, action |-> p.action, f |-> p.f]
          BY <3>1, <3>2, RuleParts
    <3>4. DOMAIN p.f \subseteq Attributes /\ p.f = [k \in DOMAIN p.f |-> p.f[k]] /\ \A k \in DOMAIN p.f : IsField(k, p.f[k])
          BY <3>2, RuleParts
    <3> QED BY <3>3, <3>4, RuleIs
  <2>5. rules = [i \in 1 .. Len(doc.rules) |-> rules[i]] BY <2>3
  <2> HIDE DEF rules, q, default
  <2>6. IsRules(rules) BY <2>3, <2>4, <2>5, RulesAre
  <2>7. IsProfile(r) /\ r.id = -1 /\ r.remote = FALSE
    <3>1. IsProfile(n) /\ n.id = -1 /\ n.remote = FALSE BY NewProfileIs
    <3> HIDE DEF n
    <3> QED BY <2>6, <3>1, AsRuledIs
  <2> QED BY <1>0, <2>1, <2>7 DEF q
<1>3. CASE doc.kind = "array" /\ doc.rules # << >>
  <2> DEFINE rules == parseJsonArray(device, doc.rules)
             r == WithRules(NewProfile, rules)
  <2>1. q = r BY <1>3 DEF FromShareInput, WithRules
  <2> HIDE DEF q, rules
  <2>2. IsProfile(r) /\ r.id = -1 /\ r.remote = FALSE BY <1>0, <1>3, NewProfileIs, WithRulesIs DEF rules
  <2> QED BY <1>0, <2>1, <2>2 DEF q
<1>4. CASE /\ ~(doc.kind = "profile" /\ doc.raw) /\ ~(doc.kind = "profile" /\ ~doc.raw)
           /\ ~(doc.kind = "array" /\ doc.rules # << >>)
  <2>1. q = Refused BY <1>4 DEF FromShareInput
  <2>2. Refused = WithId(NewProfile, -2) BY DEF Refused, WithId
  <2>3. IsProfile(WithId(n, -2)) /\ WithId(n, -2).remote = FALSE
    <3>1. IsProfile(n) /\ n.remote = FALSE BY NewProfileIs
    <3> HIDE DEF n
    <3> QED BY <3>1, WithIdIs
  <2> HIDE DEF q
  <2> QED BY <1>0, <2>1, <2>2, <2>3 DEF q
<1> QED BY <1>1, <1>2, <1>3, <1>4

LEMMA UpdatedIs ==
  ASSUME NEW p, IsProfile(p), NEW doc, IsDocument(doc)
  PROVE  LET e == UpdateProfile(p, doc)
         IN  /\ IsProfile(e) /\ e.id = p.id /\ e.remote = p.remote /\ e.url = p.url /\ e.auto = p.auto
             /\ p.name # "" => e.name = p.name
<1> DEFINE fetched == FromShareInput(Device, doc)
           rules == fetched.rules
           default == fetched.default
           raw == FALSE
           route == << >>
           name == IF p.name = "" THEN fetched.name ELSE p.name
           e == AsFetched(p, raw, route, rules, default, name)
<1>1. UpdateProfile(p, doc) = e BY DEF UpdateProfile, AsFetched
<1>2. IsProfile(fetched) BY DocumentIs
<1> HIDE DEF fetched
<1>3. IsRules(rules) BY <1>2 DEF IsProfile
<1>4. p.name # "" => name = p.name OBVIOUS
<1>4a. raw \in BOOLEAN OBVIOUS
<1> HIDE DEF rules, default, name, raw, route
<1>5. /\ IsProfile(e) /\ e.id = p.id /\ e.remote = p.remote /\ e.url = p.url /\ e.auto = p.auto /\ e.name = name
      BY <1>3, <1>4a, AsFetchedIs
<1> HIDE DEF e
<1> QED BY <1>1, <1>4, <1>5

-----------------------------------------------------------------------------
(* What the invariant says, and how it is kept when objects are let go.    *)

LEMMA SeqFacts ==
  ASSUME NEW S, NEW seq \in Seq(S)
  PROVE  /\ Len(seq) \in Nat /\ DOMAIN seq = 1 .. Len(seq) /\ IsFiniteSet(ToSet(seq)) /\ ToSet(seq) \subseteq S
         /\ \A i \in 1 .. Len(seq) : seq[i] \in ToSet(seq) /\ seq[i] \in S
         /\ \A o \in ToSet(seq) : \E i \in 1 .. Len(seq) : seq[i] = o
<1>1. Len(seq) \in Nat /\ DOMAIN seq = 1 .. Len(seq) /\ \A i \in 1 .. Len(seq) : seq[i] \in S
      BY LenProperties, ElementOfSeq
<1>2. ToSet(seq) = {seq[i] : i \in 1 .. Len(seq)} BY <1>1 DEF ToSet
<1>3. IsFiniteSet(1 .. Len(seq)) BY <1>1, FS_Interval
<1>5. IsFiniteSet(ToSet(seq))
  <2> DEFINE f == [i \in 1 .. Len(seq) |-> seq[i]]
             img == ToSet(seq)
  <2>1. f \in Surjection(1 .. Len(seq), img) BY <1>1, <1>2 DEF Surjection
  <2> HIDE DEF f, img
  <2>2. IsFiniteSet(img) BY <1>3, <2>1, FS_Surjection
  <2> QED BY <2>2 DEF img
<1> QED BY <1>1, <1>2, <1>5

LEMMA HeldIs ==
  ASSUME NEW d, NEW jobs
  PROVE  /\ \A j \in Jobs : \A o \in ToSet(jobs[j].list) : o \in Held(d, jobs)
         /\ d # None => (\A o \in ToSet(d.list) : o \in Held(d, jobs)) /\ d.current \in Held(d, jobs)
         /\ \A o \in Held(d, jobs) :
              \/ d # None /\ (o \in ToSet(d.list) \/ o = d.current)
              \/ \E j \in Jobs : o \in ToSet(jobs[j].list)
BY DEF Held

LEMMA PendingHeld ==
  ASSUME NEW objects, NEW jobs, JobsOK(objects, jobs), NEW j \in Jobs
  PROVE  /\ PendingIn(jobs[j]) \subseteq ToSet(jobs[j].list)
         /\ jobs[j].list \in Seq(Nat) /\ Len(jobs[j].list) \in Nat /\ DOMAIN jobs[j].list = 1 .. Len(jobs[j].list)
         /\ jobs[j].at \in Nat /\ jobs[j].at <= Len(jobs[j].list)
         /\ jobs[j].at > 0 => jobs[j].list[jobs[j].at] \in PendingIn(jobs[j])
<1>1. JobOK(objects, jobs, j) BY DEF JobsOK
<1>2. jobs[j].list \in Seq(Nat) /\ jobs[j].at \in Nat /\ jobs[j].at <= Len(jobs[j].list) BY <1>1 DEF JobOK
<1>3. Len(jobs[j].list) \in Nat /\ DOMAIN jobs[j].list = 1 .. Len(jobs[j].list) BY <1>2, SeqFacts
<1>4. PendingIn(jobs[j]) \subseteq ToSet(jobs[j].list) BY <1>2, <1>3 DEF PendingIn, ToSet
<1>5. jobs[j].at > 0 => jobs[j].list[jobs[j].at] \in PendingIn(jobs[j]) BY <1>2, <1>3 DEF PendingIn
<1> QED BY <1>2, <1>3, <1>4, <1>5

LEMMA InvariantGives == IInv => TypeOK /\ CurrentExists /\ CacheMatchesRow /\ StoreObeysUser
<1> SUFFICES ASSUME IInv PROVE TypeOK /\ CurrentExists /\ CacheMatchesRow /\ StoreObeysUser OBVIOUS
<1>1. CurrentExists BY DEF IInv, CurrentExists
<1>2. DOMAIN heap = Held(dialog, job) BY DEF IInv
<1>3. ASSUME NEW id \in DOMAIN identity
      PROVE  /\ identity[id] \in DOMAIN heap /\ heap[identity[id]].id = id /\ id \in DOMAIN rows
             /\ Settings(heap[identity[id]]) = Settings(rows[id])
      BY <1>2 DEF IInv, MapOK
<1>4. CacheMatchesRow BY <1>3 DEF CacheMatchesRow
<1>5. StoreObeysUser BY DEF IInv, Obeys, Agrees, StoreObeysUser
<1>6. TypeOK
  <2>1. lastId \in 0 .. MaxId /\ DOMAIN rows \subseteq 1 .. lastId /\ \A id \in DOMAIN rows : IsRow(id)
        BY DEF IInv, RowsOK, RowOK, IsRow
  <2>2. DOMAIN heap \subseteq Nat /\ \A o \in DOMAIN heap : IsProfile(heap[o]) /\ heap[o].id \in 1 .. lastId \cup {-1}
        BY <1>2 DEF IInv, ObjectsOK, ObjectOK
  <2>3. dialog # None => dialog \in [list : Seq(Nat), current : Nat, saw : SUBSET Nat] BY DEF IInv, DialogOK
  <2>4. editor # None => IsProfile(editor.p) /\ editor.at \in 0 .. Len(dialog.list) BY DEF IInv, EditorOK
  <2>5. /\ DOMAIN job = Jobs
        /\ \A j \in Jobs : job[j] \in [list : Seq(Nat), at : Nat, url : {job[j].url}, pc : {"idle", "next", "wait", "save"}]
        BY DEF IInv, JobsOK, JobOK
  <2> QED BY <1>2, <1>3, <2>1, <2>2, <2>3, <2>4, <2>5 DEF TypeOK
<1> QED BY <1>1, <1>4, <1>5, <1>6

\* After a step heap and map are of these objects and this map.
KeptAs(objects, map) ==
  /\ DOMAIN heap' = Held(dialog', job') /\ \A o \in DOMAIN heap' : heap'[o] = objects[o]
  /\ \A id \in DOMAIN identity' :
       id \in DOMAIN map /\ identity'[id] = map[id] /\ map[id] \in Held(dialog', job')

LEMMA KeepIs ==
  ASSUME NEW objects, NEW map, NEW d, NEW jobs, Keep(objects, map, d, jobs), Held(d, jobs) \subseteq DOMAIN objects
  PROVE  KeptAs(objects, map) /\ dialog' = d /\ job' = jobs
<1> DEFINE held == Held(d, jobs)
<1>1. dialog' = d /\ job' = jobs BY DEF Keep
<1>2. heap' = [o \in DOMAIN objects \cap held |-> objects[o]]
      /\ identity' = [id \in {i \in DOMAIN map : map[i] \in held} |-> map[id]] BY DEF Keep
<1>3. held = Held(dialog', job') BY <1>1
<1>4. DOMAIN objects \cap held = held OBVIOUS
<1> HIDE DEF held
<1> QED BY <1>1, <1>2, <1>3, <1>4 DEF KeptAs

LEMMA UnchangedIs ==
  ASSUME IInv, UNCHANGED <<heap, identity, dialog, job>>
  PROVE  KeptAs(heap, identity)
BY DEF IInv, KeptAs

LEMMA StepIs ==
  ASSUME NEW objects, NEW map, KeptAs(objects, map),
         RowsOK(rows', lastId'), current' \in DOMAIN rows', Obeys(kept', rows', raced'),
         ObjectsOK(objects, dialog', job', lastId'), MapOK(objects, map, dialog', job', rows'),
         DialogOK(objects, dialog'), EditorOK(objects, dialog', editor'),
         JobsOK(objects, job'), PendingOK(objects, job', kept', raced')
  PROVE  IInv'
<1> DEFINE held == Held(dialog', job')
<1>1. /\ DOMAIN heap' = held /\ \A o \in held : heap'[o] = objects[o]
      /\ \A id \in DOMAIN identity' : id \in DOMAIN map /\ identity'[id] = map[id] /\ map[id] \in held
      BY DEF KeptAs
<1>2. ObjectsOK(heap', dialog', job', lastId') BY <1>1 DEF ObjectsOK
<1>3. MapOK(heap', identity', dialog', job', rows') BY <1>1 DEF MapOK
<1>4. \A id \in DOMAIN identity' : identity'[id] \in DOMAIN heap' BY <1>1
<1>5. DialogOK(heap', dialog')
  <2> SUFFICES ASSUME dialog' # None PROVE DialogOK(heap', dialog') BY DEF DialogOK
  <2>1. \A o \in ToSet(dialog'.list) : heap'[o] = objects[o] BY <1>1, HeldIs
  <2> QED BY <2>1 DEF DialogOK
<1>6. EditorOK(heap', dialog', editor')
  <2> SUFFICES ASSUME editor' # None PROVE EditorOK(heap', dialog', editor') BY DEF EditorOK
  <2>1. dialog' # None /\ editor'.at \in 0 .. Len(dialog'.list) /\ dialog'.list \in Seq(Nat)
        BY DEF EditorOK, DialogOK
  <2>2. editor'.at # 0 => editor'.at \in 1 .. Len(dialog'.list) BY <2>1, SeqFacts
  <2>3. editor'.at # 0 => dialog'.list[editor'.at] \in ToSet(dialog'.list) BY <2>1, <2>2, SeqFacts
  <2>4. editor'.at # 0 => heap'[dialog'.list[editor'.at]] = objects[dialog'.list[editor'.at]]
        BY <1>1, <2>1, <2>3, HeldIs
  <2> QED BY <2>4 DEF EditorOK
<1>7. ASSUME NEW j \in Jobs
      PROVE  /\ JobOK(heap', job', j)
             /\ \A o \in PendingIn(job'[j]) : heap'[o] = objects[o]
  <2>1. JobOK(objects, job', j) BY DEF JobsOK
  <2>2. \A o \in ToSet(job'[j].list) : heap'[o] = objects[o] BY <1>1, HeldIs
  <2>3. /\ PendingIn(job'[j]) \subseteq ToSet(job'[j].list)
        /\ job'[j].at > 0 => job'[j].list[job'[j].at] \in PendingIn(job'[j])
        BY PendingHeld
  <2> DEFINE o == job'[j].list[job'[j].at]
  <2>4. job'[j].at > 0 => o \in ToSet(job'[j].list)
    <3> DEFINE pending == PendingIn(job'[j])
    <3>1. pending \subseteq ToSet(job'[j].list) /\ (job'[j].at > 0 => o \in pending) BY <2>3
    <3> HIDE DEF pending, o
    <3> QED BY <3>1
  <2>5. job'[j].at > 0 => heap'[o] = objects[o]
    <3> HIDE DEF o
    <3> QED BY <2>2, <2>4
  <2>6. JobOK(heap', job', j)
    <3>1. job'[j].pc \in {"wait", "save"} => job'[j].at > 0 BY <2>1 DEF JobOK
    <3> QED BY <2>1, <2>2, <2>5, <3>1 DEF JobOK
  <2>7. \A u \in PendingIn(job'[j]) : heap'[u] = objects[u] BY <2>2, <2>3
  <2> QED BY <2>6, <2>7
<1>8. JobsOK(heap', job') BY <1>7 DEF JobsOK
<1>9. PendingOK(heap', job', kept', raced')
  <2>1. "auto" \in Jobs /\ "link" \in Jobs BY DEF Jobs
  <2>2. \A o \in PendingIn(job'["auto"]) \cup PendingIn(job'["link"]) : heap'[o] = objects[o] BY <1>7, <2>1
  <2> QED BY <2>2 DEF PendingOK
<1> QED BY <1>1, <1>2, <1>3, <1>4, <1>5, <1>6, <1>8, <1>9 DEF IInv

-----------------------------------------------------------------------------
(* New objects get numbers no object has.                                  *)

LEMMA PutIs ==
  ASSUME NEW f, NEW k, NEW v
  PROVE  /\ DOMAIN Put(f, k, v) = DOMAIN f \cup {k} /\ Put(f, k, v)[k] = v
         /\ \A x \in DOMAIN f : x # k => Put(f, k, v)[x] = f[x]
BY DEF Put

LEMMA HeapFinite == IInv => IsFiniteSet(DOMAIN heap)
<1> SUFFICES ASSUME IInv PROVE IsFiniteSet(DOMAIN heap) OBVIOUS
<1>1. ASSUME NEW j \in Jobs PROVE IsFiniteSet(ToSet(job[j].list))
  <2>1. job[j].list \in Seq(Nat) BY PendingHeld DEF IInv
  <2> QED BY <2>1, SeqFacts
<1>2. "auto" \in Jobs /\ "dialog" \in Jobs /\ "link" \in Jobs BY DEF Jobs
<1> DEFINE held == (ToSet(job["auto"].list) \cup ToSet(job["dialog"].list)) \cup ToSet(job["link"].list)
           shown == ToSet(dialog.list) \cup {dialog.current}
<1>3. IsFiniteSet(held)
  <2>1. /\ IsFiniteSet(ToSet(job["auto"].list)) /\ IsFiniteSet(ToSet(job["dialog"].list))
        /\ IsFiniteSet(ToSet(job["link"].list))
        BY <1>1, <1>2
  <2>2. IsFiniteSet(ToSet(job["auto"].list) \cup ToSet(job["dialog"].list)) BY <2>1, FS_Union
  <2> QED BY <2>1, <2>2, FS_Union
<1>4. UNION {ToSet(job[j].list) : j \in Jobs} = held BY DEF Jobs
<1>5. CASE dialog = None
  <2>1. Held(dialog, job) = held BY <1>4, <1>5 DEF Held
  <2> QED BY <1>3, <2>1 DEF IInv
<1>6. CASE dialog # None
  <2>1. dialog.list \in Seq(Nat) BY <1>6 DEF IInv, DialogOK
  <2>2. IsFiniteSet(ToSet(dialog.list)) BY <2>1, SeqFacts
  <2>3. IsFiniteSet(shown) BY <2>2, FS_AddElement
  <2>4. Held(dialog, job) = shown \cup held BY <1>4, <1>6 DEF Held
  <2> HIDE DEF shown, held
  <2>5. IsFiniteSet(shown \cup held) BY <1>3, <2>3, FS_Union
  <2> QED BY <2>4, <2>5 DEF IInv
<1> QED BY <1>5, <1>6

LEMMA FreeIs ==
  ASSUME IInv, NEW n \in Nat
  PROVE  /\ \A i \in 1 .. n : Free(n)[i] \in Nat \ DOMAIN heap
         /\ \A i, k \in 1 .. n : Free(n)[i] = Free(n)[k] => i = k
<1> DEFINE D == DOMAIN heap
           c == Cardinality(D)
           N == 1 .. (c + n)
           S == N \ D
<1>1. IsFiniteSet(D) /\ c \in Nat BY HeapFinite, FS_CardinalityType
<1>2. IsFiniteSet(N) /\ Cardinality(N) = c + n
  <2> HIDE DEF c
  <2>1. c + n \in Nat BY <1>1
  <2> QED BY <2>1, InOrderOfAll, FS_Interval
<1>3. Cardinality(N \cap D) <= c /\ Cardinality(N \cap D) \in Nat
  <2>1. N \cap D \in SUBSET D OBVIOUS
  <2> HIDE DEF D, N
  <2>2. IsFiniteSet(N \cap D) /\ Cardinality(N \cap D) <= Cardinality(D) BY <1>1, <2>1, FS_Subset
  <2> QED BY <2>2, FS_CardinalityType DEF c
<1>4. IsFiniteSet(S) /\ Cardinality(S) = Cardinality(N) - Cardinality(N \cap D)
  <2> HIDE DEF D, N
  <2> QED BY <1>2, FS_Difference
<1>5. S \in SUBSET Int BY <1>1
<1>6. /\ Cardinality(S) \in Nat /\ InOrder(S) \in [1 .. Cardinality(S) -> S]
      /\ \A i, k \in 1 .. Cardinality(S) : InOrder(S)[i] = InOrder(S)[k] => i = k
  <2> HIDE DEF S
  <2> QED BY <1>4, <1>5, InOrderCounts
<1>7. \A i \in 1 .. n : i \in 1 .. Cardinality(S)
  <2> HIDE DEF S, N, D, c
  <2> QED BY <1>1, <1>2, <1>3, <1>4, <1>6
<1>8. \A i \in S : i \in Nat \ D BY <1>1
<1>9. Free(n) = InOrder(S) BY DEF Free
<1> HIDE DEF S
<1> QED BY <1>6, <1>7, <1>8, <1>9

LEMMA FreshIs == IInv => Fresh \in Nat \ DOMAIN heap
<1> SUFFICES ASSUME IInv PROVE Fresh \in Nat \ DOMAIN heap OBVIOUS
<1>1. 1 \in 1 .. 1 /\ 1 \in Nat OBVIOUS
<1>2. Free(1)[1] \in Nat \ DOMAIN heap BY <1>1, FreeIs
<1> QED BY <1>2 DEF Fresh

-----------------------------------------------------------------------------
(* Steps that add objects, or let some go, and write nothing.              *)

\* The objects of before are there, as they were.
Grown(objects) ==
  DOMAIN objects \subseteq Nat /\ \A o \in DOMAIN heap : o \in DOMAIN objects /\ objects[o] = heap[o]

LEMMA HeldInHeap ==
  ASSUME IInv
  PROVE  /\ \A j \in Jobs : \A o \in ToSet(job[j].list) : o \in DOMAIN heap /\ ObjectOK(heap[o], lastId)
         /\ dialog # None =>
              /\ dialog.list \in Seq(Nat) /\ Len(dialog.list) \in Nat /\ DOMAIN dialog.list = 1 .. Len(dialog.list)
              /\ \A i \in 1 .. Len(dialog.list) : dialog.list[i] \in ToSet(dialog.list)
              /\ \A o \in ToSet(dialog.list) : o \in DOMAIN heap /\ ObjectOK(heap[o], lastId)
              /\ dialog.current \in ToSet(dialog.list)
              /\ dialog = [list |-> dialog.list, current |-> dialog.current, saw |-> dialog.saw]
         /\ DOMAIN heap \subseteq Nat
<1>1. DOMAIN heap = Held(dialog, job) /\ DOMAIN heap \subseteq Nat /\ \A o \in DOMAIN heap : ObjectOK(heap[o], lastId)
      BY DEF IInv, ObjectsOK
<1>2. \A j \in Jobs : \A o \in ToSet(job[j].list) : o \in DOMAIN heap /\ ObjectOK(heap[o], lastId) BY <1>1, HeldIs
<1>3. ASSUME dialog # None
      PROVE  /\ dialog.list \in Seq(Nat) /\ dialog.current \in ToSet(dialog.list)
             /\ dialog = [list |-> dialog.list, current |-> dialog.current, saw |-> dialog.saw]
      BY <1>3 DEF IInv, DialogOK
<1>4. ASSUME dialog # None
      PROVE  \A o \in ToSet(dialog.list) : o \in DOMAIN heap /\ ObjectOK(heap[o], lastId)
      BY <1>1, <1>4, HeldIs
<1>5. ASSUME dialog # None
      PROVE  /\ Len(dialog.list) \in Nat /\ DOMAIN dialog.list = 1 .. Len(dialog.list)
             /\ \A i \in 1 .. Len(dialog.list) : dialog.list[i] \in ToSet(dialog.list)
      BY <1>3, <1>5, SeqFacts
<1> QED BY <1>1, <1>2, <1>3, <1>4, <1>5

LEMMA GrownParts ==
  ASSUME IInv, NEW objects, Grown(objects)
  PROVE  /\ JobsOK(objects, job) /\ PendingOK(objects, job, kept, raced)
         /\ DialogOK(objects, dialog) /\ EditorOK(objects, dialog, editor)
<1>1. /\ \A j \in Jobs : \A o \in ToSet(job[j].list) : objects[o] = heap[o]
      /\ dialog # None => \A o \in ToSet(dialog.list) : objects[o] = heap[o]
      BY HeldInHeap DEF Grown
<1>2. ASSUME NEW j \in Jobs PROVE JobOK(objects, job, j) /\ \A o \in PendingIn(job[j]) : objects[o] = heap[o]
  <2>1. JobOK(heap, job, j) /\ JobsOK(heap, job) BY DEF IInv, JobsOK
  <2>2. PendingIn(job[j]) \subseteq ToSet(job[j].list) /\ (job[j].at > 0 => job[j].list[job[j].at] \in PendingIn(job[j]))
        BY <2>1, PendingHeld
  <2>3. job[j].at > 0 => objects[job[j].list[job[j].at]] = heap[job[j].list[job[j].at]] BY <1>1, <2>2
  <2> QED BY <1>1, <2>1, <2>2, <2>3 DEF JobOK
<1>3. JobsOK(objects, job) BY <1>2 DEF IInv, JobsOK
<1>4. PendingOK(objects, job, kept, raced)
  <2>1. "auto" \in Jobs /\ "link" \in Jobs BY DEF Jobs
  <2>2. \A o \in PendingIn(job["auto"]) \cup PendingIn(job["link"]) : objects[o] = heap[o] BY <1>2, <2>1
  <2> QED BY <2>2 DEF IInv, PendingOK
<1>5. DialogOK(objects, dialog) BY <1>1 DEF IInv, DialogOK
<1>6. EditorOK(objects, dialog, editor)
  <2>1. editor # None /\ editor.at # 0 => dialog.list[editor.at] \in ToSet(dialog.list)
        BY HeldInHeap DEF IInv, EditorOK
  <2> QED BY <1>1, <2>1 DEF IInv, EditorOK
<1> QED BY <1>3, <1>4, <1>5, <1>6

LEMMA GrownStep ==
  ASSUME IInv, NEW objects, NEW map, NEW d, NEW jobs, Keep(objects, map, d, jobs), Grown(objects),
         UNCHANGED <<rows, lastId, current, kept, raced>>,
         \A o \in Held(d, jobs) : o \in DOMAIN objects /\ (o \notin DOMAIN heap => ObjectOK(objects[o], lastId)),
         \A id \in DOMAIN map :
           \/ id \in DOMAIN identity /\ map[id] = identity[id]
           \/ objects[map[id]].id = id /\ id \in DOMAIN rows /\ Settings(objects[map[id]]) = Settings(rows[id]),
         DialogOK(objects, d), EditorOK(objects, d, editor'), JobsOK(objects, jobs), PendingOK(objects, jobs, kept, raced)
  PROVE  IInv'
<1>1. Held(d, jobs) \subseteq DOMAIN objects OBVIOUS
<1>2. KeptAs(objects, map) /\ dialog' = d /\ job' = jobs BY <1>1, KeepIs
<1>3. \A o \in DOMAIN heap : ObjectOK(heap[o], lastId) BY DEF IInv, ObjectsOK
<1>4. ObjectsOK(objects, d, jobs, lastId) BY <1>1, <1>3 DEF ObjectsOK, Grown
<1>5. MapOK(objects, map, d, jobs, rows)
  <2> SUFFICES ASSUME NEW id \in DOMAIN map
               PROVE  objects[map[id]].id = id /\ id \in DOMAIN rows /\ Settings(objects[map[id]]) = Settings(rows[id])
      BY DEF MapOK
  <2>1. CASE id \in DOMAIN identity /\ map[id] = identity[id]
    <3>1. identity[id] \in DOMAIN heap /\ objects[identity[id]] = heap[identity[id]] BY <2>1 DEF IInv, Grown
    <3>2. /\ heap[identity[id]].id = id /\ id \in DOMAIN rows
          /\ Settings(heap[identity[id]]) = Settings(rows[id])
          BY <2>1, <3>1 DEF IInv, MapOK
    <3> QED BY <2>1, <3>1, <3>2
  <2> QED BY <2>1
<1>6. RowsOK(rows, lastId) /\ current \in DOMAIN rows /\ Obeys(kept, rows, raced) BY DEF IInv
<1> QED BY <1>2, <1>4, <1>5, <1>6, StepIs

-----------------------------------------------------------------------------
(* The dialog, the editor and the threads: one lemma for each action.      *)

\* Of a step that lets objects go and changes none.
LEMMA HoldersStep ==
  ASSUME IInv, NEW d, NEW jobs, Keep(heap, identity, d, jobs), UNCHANGED <<rows, lastId, current, kept, raced>>,
         \A o \in Held(d, jobs) : o \in DOMAIN heap,
         DialogOK(heap, d), EditorOK(heap, d, editor'), JobsOK(heap, jobs), PendingOK(heap, jobs, kept, raced)
  PROVE  IInv'
<1>1. Grown(heap) BY HeldInHeap DEF Grown
<1> QED BY <1>1, GrownStep

LEMMA CancelKeeps == IInv /\ Cancel => IInv'
<1> SUFFICES ASSUME IInv, Cancel PROVE IInv' OBVIOUS
<1>1. Keep(heap, identity, None, job) /\ UNCHANGED <<rows, lastId, current, kept, raced>> /\ editor' = None
      BY DEF Cancel, AtList, Stored, Unspent
<1>2. \A o \in Held(None, job) : o \in DOMAIN heap BY HeldIs, HeldInHeap
<1>3. DialogOK(heap, None) /\ EditorOK(heap, None, editor') BY <1>1 DEF DialogOK, EditorOK
<1> QED BY <1>1, <1>2, <1>3, HoldersStep DEF IInv

\* Of a step that keeps the dialog and all objects.
LEMMA JobsStep ==
  ASSUME IInv, NEW jobs, Keep(heap, identity, dialog, jobs), UNCHANGED <<rows, lastId, current, kept, raced, editor>>,
         JobsOK(heap, jobs),
         \A j \in Jobs : \A o \in ToSet(jobs[j].list) : o \in DOMAIN heap,
         PendingOK(heap, jobs, kept, raced)
  PROVE  IInv'
<1>1. \A o \in Held(dialog, jobs) : o \in DOMAIN heap BY HeldIs, HeldInHeap
<1> QED BY <1>1, HoldersStep DEF IInv

LEMMA DialogStep ==
  ASSUME IInv, NEW d, Keep(heap, identity, d, job), UNCHANGED <<rows, lastId, current, kept, raced, editor>>,
         editor = None, DialogOK(heap, d), d # None => ToSet(d.list) \subseteq DOMAIN heap
  PROVE  IInv'
<1>1. d # None => d.current \in ToSet(d.list) BY DEF DialogOK
<1>2. \A o \in Held(d, job) : o \in DOMAIN heap BY <1>1, HeldIs, HeldInHeap
<1>3. EditorOK(heap, d, editor') BY DEF EditorOK
<1> QED BY <1>2, <1>3, HoldersStep DEF IInv

LEMMA SelectInListKeeps ==
  ASSUME IInv, NEW i \in Nat, AtList, i \in 1 .. Len(dialog.list), updateCurrentRouteProfile(i)
  PROVE  IInv'
<1> DEFINE d == [dialog EXCEPT !.current = dialog.list[i]]
<1>1. Keep(heap, identity, d, job) /\ UNCHANGED <<rows, lastId, current, kept, raced, editor>> /\ editor = None
      /\ dialog # None
      BY DEF updateCurrentRouteProfile, AtList, Stored, Unspent
<1>2. dialog.list[i] \in ToSet(dialog.list) /\ dialog.list[i] \in Nat /\ ToSet(dialog.list) \subseteq DOMAIN heap
      BY <1>1, HeldInHeap
<1>3. dialog \in [list : Seq(Nat), current : Nat, saw : SUBSET Nat] BY <1>1 DEF IInv, DialogOK
<1>4. d \in [list : Seq(Nat), current : Nat, saw : SUBSET Nat] /\ d.list = dialog.list /\ d.current \in ToSet(dialog.list)
      BY <1>2, <1>3
<1> HIDE DEF d
<1>5. DialogOK(heap, d) BY <1>1, <1>4 DEF IInv, DialogOK
<1> QED BY <1>1, <1>2, <1>4, <1>5, DialogStep

(* A list without its i-th entry.                                          *)
LEMMA RemoveAtIs ==
  ASSUME NEW S, NEW seq \in Seq(S), NEW i \in 1 .. Len(seq)
  PROVE  LET q == RemoveAt(seq, i)
         IN  /\ q \in Seq(S) /\ Len(q) = Len(seq) - 1
             /\ \A k \in 1 .. Len(q) : q[k] = IF k < i THEN seq[k] ELSE seq[k + 1]
<1>1. Len(seq) \in Nat BY LenProperties
<1> DEFINE a == SubSeq(seq, 1, i - 1)
           b == SubSeq(seq, i + 1, Len(seq))
<1>2. a \in Seq(S) /\ Len(a) = i - 1 /\ \A k \in 1 .. i - 1 : a[k] = seq[k]
  <2>1. 1 \in 1 .. Len(seq) + 1 /\ i - 1 \in 0 .. Len(seq) /\ \A x \in 1 .. i - 1 : x \in 1 .. Len(seq) /\ 1 + x - 1 = x
        BY <1>1
  <2>2. \A x \in 1 .. i - 1 : seq[x] \in S BY <2>1, ElementOfSeq
  <2>3. a = [x \in 1 .. i - 1 |-> seq[x]] BY <1>1, <2>1
  <2>4. i - 1 \in Nat BY <1>1
  <2> QED BY <2>2, <2>3, <2>4
<1>3. b \in Seq(S) /\ Len(b) = Len(seq) - i /\ \A k \in 1 .. Len(seq) - i : b[k] = seq[i + k]
  <2>1. \A x \in 1 .. Len(seq) - i : i + x \in 1 .. Len(seq) BY <1>1
  <2>2. \A x \in 1 .. Len(seq) - i : seq[i + x] \in S BY <2>1, ElementOfSeq
  <2>3. b = [x \in 1 .. Len(seq) - i |-> seq[i + x]] BY <1>1, <2>1
  <2>4. Len(seq) - i \in Nat BY <1>1
  <2> QED BY <2>2, <2>3, <2>4
<1>4. RemoveAt(seq, i) = a \o b BY DEF RemoveAt
<1> HIDE DEF a, b
<1>5. /\ a \o b \in Seq(S) /\ Len(a \o b) = Len(a) + Len(b)
      /\ \A k \in 1 .. Len(a) + Len(b) : (a \o b)[k] = IF k <= Len(a) THEN a[k] ELSE b[k - Len(a)]
      BY <1>2, <1>3, ConcatProperties
<1>6. ASSUME NEW k \in 1 .. Len(seq) - 1 PROVE (a \o b)[k] = IF k < i THEN seq[k] ELSE seq[k + 1]
  <2>1. CASE k < i BY <1>1, <1>2, <1>3, <1>5, <2>1
  <2>2. CASE ~(k < i)
    <3>1. k - (i - 1) \in 1 .. Len(seq) - i /\ i + (k - (i - 1)) = k + 1 BY <1>1, <2>2
    <3>2. b[k - (i - 1)] = seq[k + 1] BY <1>3, <3>1
    <3> QED BY <1>1, <1>2, <1>3, <1>5, <2>2, <3>2
  <2> QED BY <2>1, <2>2
<1>7. Len(a \o b) = Len(seq) - 1 BY <1>1, <1>2, <1>3, <1>5
<1>8. \A k \in 1 .. Len(a \o b) : (a \o b)[k] = IF k < i THEN seq[k] ELSE seq[k + 1] BY <1>6, <1>7
<1> QED BY <1>4, <1>5, <1>7, <1>8

LEMMA DeleteKeeps ==
  ASSUME IInv, NEW i \in Nat, AtList, i \in 1 .. Len(dialog.list), DeleteFromList(i)
  PROVE  IInv'
<1> DEFINE old == dialog.list
           list == RemoveAt(old, i)
           d == [dialog EXCEPT !.list = list, !.current = IF @ = old[i] THEN list[1] ELSE @]
<1>1. Keep(heap, identity, d, job) /\ UNCHANGED <<rows, lastId, current, kept, raced, editor>> /\ editor = None
      /\ dialog # None /\ Len(old) > 1
      BY DEF DeleteFromList, AtList, Stored
<1>2. /\ old \in Seq(Nat) /\ Len(old) \in Nat /\ dialog.current \in ToSet(old) /\ ToSet(old) \subseteq DOMAIN heap
      /\ DOMAIN old = 1 .. Len(old) /\ \A k \in 1 .. Len(old) : old[k] \in ToSet(old)
      BY <1>1, HeldInHeap
<1>3. /\ dialog \in [list : Seq(Nat), current : Nat, saw : SUBSET Nat]
      /\ \A k, m \in DOMAIN old : old[k] = old[m] => k = m
      /\ \A o, u \in ToSet(old) : heap[o].id = heap[u].id /\ heap[o].id # -1 => o = u
      BY <1>1 DEF IInv, DialogOK
<1> HIDE DEF list, old
<1>4. /\ list \in Seq(Nat) /\ Len(list) = Len(old) - 1
      /\ \A k \in 1 .. Len(list) : list[k] = IF k < i THEN old[k] ELSE old[k + 1]
      BY <1>2, RemoveAtIs DEF list, old
<1>5. /\ DOMAIN list = 1 .. Len(list) /\ \A o \in ToSet(list) : \E k \in 1 .. Len(list) : list[k] = o
      /\ \A k \in 1 .. Len(list) : list[k] \in ToSet(list) /\ list[k] \in Nat
      BY <1>4, SeqFacts
<1>6. \A o \in ToSet(list) : o \in ToSet(old)
  <2>1. ASSUME NEW k \in 1 .. Len(list) PROVE list[k] \in ToSet(old)
    <3>1. k \in 1 .. Len(old) /\ k + 1 \in 1 .. Len(old) BY <1>2, <1>4
    <3> QED BY <1>2, <1>4, <3>1
  <2> QED BY <1>5, <2>1
<1>7. \A k, m \in DOMAIN list : list[k] = list[m] => k = m
  <2> SUFFICES ASSUME NEW k \in 1 .. Len(list), NEW m \in 1 .. Len(list), list[k] = list[m] PROVE k = m BY <1>5
  <2> DEFINE from(n) == IF n < i THEN n ELSE n + 1
  <2>1. from(k) \in DOMAIN old /\ from(m) \in DOMAIN old
    <3>1. ASSUME NEW n \in 1 .. Len(list) PROVE from(n) \in 1 .. Len(old)
      <4>1. n \in 1 .. Len(old) /\ n + 1 \in 1 .. Len(old) BY <1>2, <1>4
      <4> QED BY <4>1
    <3> HIDE DEF from
    <3> QED BY <1>2, <3>1
  <2>2. list[k] = old[from(k)] /\ list[m] = old[from(m)] BY <1>4
  <2>3. from(k) = from(m)
    <3> HIDE DEF from
    <3> QED BY <1>3, <2>1, <2>2
  <2>4. k \in Int /\ m \in Int /\ i \in Int BY <1>2, <1>4
  <2> QED BY <2>3, <2>4
<1>8. dialog.current # old[i] => dialog.current \in ToSet(list)
  <2> SUFFICES ASSUME dialog.current # old[i] PROVE dialog.current \in ToSet(list) OBVIOUS
  <2>1. PICK m \in 1 .. Len(old) : old[m] = dialog.current BY <1>2, SeqFacts
  <2>2. i \in 1 .. Len(old) BY DEF old
  <2>3. CASE m < i
    <3>1. m \in 1 .. Len(list) BY <1>2, <1>4, <2>2, <2>3
    <3>2. list[m] = old[m] BY <1>4, <2>3, <3>1
    <3> QED BY <1>5, <2>1, <3>1, <3>2
  <2>4. CASE m > i
    <3>1. m - 1 \in 1 .. Len(list) /\ ~(m - 1 < i) /\ (m - 1) + 1 = m BY <1>2, <1>4, <2>2, <2>4
    <3>2. list[m - 1] = old[m] BY <1>4, <3>1
    <3> QED BY <1>5, <2>1, <3>1, <3>2
  <2>5. CASE m = i BY <2>1, <2>5
  <2> QED BY <2>2, <2>3, <2>4, <2>5
<1>9. list[1] \in ToSet(list) /\ list[1] \in Nat
  <2>1. 1 \in 1 .. Len(list) BY <1>1, <1>2, <1>4
  <2> QED BY <1>5, <2>1
<1>10. /\ d \in [list : Seq(Nat), current : Nat, saw : SUBSET Nat] /\ d.list = list
       /\ d.current = IF dialog.current = old[i] THEN list[1] ELSE dialog.current
       BY <1>3, <1>4, <1>9
<1> HIDE DEF d
<1>11. DialogOK(heap, d) BY <1>3, <1>6, <1>7, <1>8, <1>9, <1>10 DEF DialogOK
<1>12. ToSet(d.list) \subseteq DOMAIN heap BY <1>2, <1>6, <1>10
<1> QED BY <1>1, <1>11, <1>12, DialogStep

\* Of a step of the editor alone.
LEMMA EditorStep ==
  ASSUME IInv, UNCHANGED <<heap, identity, dialog, job, rows, lastId, current, kept, raced>>,
         EditorOK(heap, dialog, editor')
  PROVE  IInv'
<1>1. KeptAs(heap, identity) BY UnchangedIs
<1> QED BY <1>1, StepIs DEF IInv

LEMMA EditKeeps ==
  ASSUME IInv, NEW i \in Nat, AtList, i \in 1 .. Len(dialog.list), Edit(i)
  PROVE  IInv'
<1> DEFINE o == dialog.list[i]
           p == Opened(heap[o])
<1>1. /\ UNCHANGED <<heap, identity, dialog, job, rows, lastId, current, kept, raced>>
      /\ editor' = [at |-> i, p |-> p] /\ dialog # None
      BY DEF Edit, AtList, Stored, Unspent
<1>2. o \in ToSet(dialog.list) /\ IsProfile(heap[o]) /\ Len(dialog.list) \in Nat BY <1>1, HeldInHeap DEF ObjectOK
<1>3. IsProfile(p) /\ p.id = heap[o].id BY <1>2, OpenedIs
<1> HIDE DEF p
<1>4. EditorOK(heap, dialog, editor') BY <1>1, <1>2, <1>3 DEF EditorOK
<1> QED BY <1>1, <1>4, EditorStep

LEMMA NewRouteKeeps ==
  ASSUME IInv, NEW remote \in BOOLEAN, NewRoute(remote)
  PROVE  IInv'
<1> DEFINE q == WithRemote(NewProfile, remote)
           p == Opened(q)
<1>1. /\ UNCHANGED <<heap, identity, dialog, job, rows, lastId, current, kept, raced>>
      /\ editor' = [at |-> 0, p |-> p] /\ dialog # None
      BY DEF NewRoute, AtList, Stored, Unspent, WithRemote
<1>2. IsProfile(q) /\ q.id = -1 BY NewProfileIs, WithRemoteIs
<1> HIDE DEF q
<1>3. IsProfile(p) /\ p.id = -1 BY <1>2, OpenedIs
<1> HIDE DEF p
<1>4. Len(dialog.list) \in Nat BY <1>1, HeldInHeap
<1>5. EditorOK(heap, dialog, editor') BY <1>1, <1>3, <1>4 DEF EditorOK
<1> QED BY <1>1, <1>5, EditorStep

LEMMA EditorCancelKeeps == IInv /\ EditorCancel => IInv'
<1> SUFFICES ASSUME IInv, EditorCancel PROVE IInv' OBVIOUS
<1>1. UNCHANGED <<heap, identity, dialog, job, rows, lastId, current, kept, raced>> /\ editor' = None
      BY DEF EditorCancel, Stored, Unspent
<1>2. EditorOK(heap, dialog, editor') BY <1>1 DEF EditorOK
<1> QED BY <1>1, <1>2, EditorStep

LEMMA SelectRouteKeeps ==
  ASSUME IInv, NEW id \in DOMAIN rows, SelectRoute(id)
  PROVE  IInv'
<1>1. /\ UNCHANGED <<heap, identity, dialog, editor, job, rows, lastId, kept, raced>> /\ current' = id
      BY DEF SelectRoute
<1>2. KeptAs(heap, identity) BY <1>1, UnchangedIs
<1> QED BY <1>1, <1>2, StepIs DEF IInv

(* The heap with one more object.                                          *)
LEMMA OneMore ==
  ASSUME IInv, NEW p
  PROVE  /\ Grown(Put(heap, Fresh, p)) /\ Fresh \in Nat \ DOMAIN heap
         /\ DOMAIN Put(heap, Fresh, p) = DOMAIN heap \cup {Fresh} /\ Put(heap, Fresh, p)[Fresh] = p
<1>1. Fresh \in Nat \ DOMAIN heap BY FreshIs
<1>2. /\ DOMAIN Put(heap, Fresh, p) = DOMAIN heap \cup {Fresh} /\ Put(heap, Fresh, p)[Fresh] = p
      /\ \A x \in DOMAIN heap : x # Fresh => Put(heap, Fresh, p)[x] = heap[x]
  <2> DEFINE fresh == Fresh
  <2> HIDE DEF fresh
  <2>1. /\ DOMAIN Put(heap, fresh, p) = DOMAIN heap \cup {fresh} /\ Put(heap, fresh, p)[fresh] = p
        /\ \A x \in DOMAIN heap : x # fresh => Put(heap, fresh, p)[x] = heap[x]
        BY DEF Put
  <2> QED BY <2>1 DEF fresh
<1>3. Grown(Put(heap, Fresh, p))
  <2> DEFINE q == Put(heap, Fresh, p)
  <2>1. DOMAIN heap \subseteq Nat BY HeldInHeap
  <2> HIDE DEF q
  <2>2. Grown(q) BY <1>1, <1>2, <2>1 DEF Grown, q
  <2> QED BY <2>2 DEF q
<1> QED BY <1>1, <1>2, <1>3

\* A place in a list one longer is an old place or the last one.
LEMMA OldOrLast ==
  ASSUME NEW n \in Nat, NEW k \in 1 .. n + 1
  PROVE  k \in 1 .. n \/ k = n + 1
OBVIOUS

LEMMA AppendedList ==
  ASSUME IInv, dialog # None, NEW p, p.id = -1, NEW d,
         d \in [list : Seq(Nat), current : Nat, saw : SUBSET Nat],
         d.list = Append(dialog.list, Fresh), d.current \in {Fresh, dialog.current}
  PROVE  DialogOK(Put(heap, Fresh, p), d) /\ ToSet(d.list) = ToSet(dialog.list) \cup {Fresh}
<1> DEFINE old == dialog.list
           objects == Put(heap, Fresh, p)
           n == Len(old)
<1>1. /\ Fresh \in Nat \ DOMAIN heap /\ objects[Fresh] = p /\ \A o \in DOMAIN heap : objects[o] = heap[o]
      BY OneMore DEF Grown
<1>2. /\ old \in Seq(Nat) /\ n \in Nat /\ dialog.current \in ToSet(old) /\ \A o \in ToSet(old) : o \in DOMAIN heap
      /\ \A k \in 1 .. n : old[k] \in ToSet(old)
      BY HeldInHeap
<1>3. /\ Len(d.list) = n + 1 /\ \A k \in 1 .. n : d.list[k] = old[k]
      /\ d.list[n + 1] = Fresh
      BY <1>1, <1>2, AppendProperties
<1>4. /\ DOMAIN d.list = 1 .. n + 1 /\ \A o \in ToSet(d.list) : \E k \in 1 .. n + 1 : d.list[k] = o
      /\ \A k \in 1 .. n + 1 : d.list[k] \in ToSet(d.list)
  <2> DEFINE q == d.list
  <2>1. q \in Seq(Nat) OBVIOUS
  <2> HIDE DEF q
  <2>2. /\ DOMAIN q = 1 .. Len(q) /\ \A o \in ToSet(q) : \E k \in 1 .. Len(q) : q[k] = o
        /\ \A k \in 1 .. Len(q) : q[k] \in ToSet(q)
        BY <2>1, SeqFacts
  <2>3. Len(q) = n + 1 BY <1>3 DEF q
  <2> QED BY <2>2, <2>3 DEF q
<1>5. ToSet(d.list) = ToSet(old) \cup {Fresh}
  <2>1. ASSUME NEW o \in ToSet(d.list) PROVE o \in ToSet(old) \cup {Fresh}
    <3>1. PICK k \in 1 .. n + 1 : d.list[k] = o BY <1>4
    <3>2. k \in 1 .. n \/ k = n + 1 BY <1>2, OldOrLast
    <3> QED BY <1>2, <1>3, <3>1, <3>2
  <2>2. Fresh \in ToSet(d.list)
    <3>1. n + 1 \in 1 .. n + 1 BY <1>2
    <3> QED BY <1>3, <1>4, <3>1
  <2>3. ASSUME NEW o \in ToSet(old) PROVE o \in ToSet(d.list)
    <3>1. PICK k \in 1 .. n : old[k] = o BY <1>2, SeqFacts
    <3>2. k \in 1 .. n + 1 BY <1>2
    <3> QED BY <1>3, <1>4, <3>1, <3>2
  <2> QED BY <2>1, <2>2, <2>3
<1>6. /\ \A k, m \in DOMAIN old : old[k] = old[m] => k = m
      /\ \A o, u \in ToSet(old) : heap[o].id = heap[u].id /\ heap[o].id # -1 => o = u
      BY DEF IInv, DialogOK
<1>7. \A k, m \in DOMAIN d.list : d.list[k] = d.list[m] => k = m
  <2> SUFFICES ASSUME NEW k \in 1 .. n + 1, NEW m \in 1 .. n + 1, d.list[k] = d.list[m] PROVE k = m BY <1>4
  <2>1. \A x \in 1 .. n : x \in DOMAIN old /\ d.list[x] = old[x] /\ d.list[x] # Fresh BY <1>1, <1>2, <1>3, SeqFacts
  <2> HIDE DEF old, n
  <2>2. (k \in 1 .. n \/ k = n + 1) /\ (m \in 1 .. n \/ m = n + 1) BY <1>2, OldOrLast
  <2> QED BY <1>3, <1>6, <2>1, <2>2
<1>8. \A o, u \in ToSet(d.list) : objects[o].id = objects[u].id /\ objects[o].id # -1 => o = u
  <2> HIDE DEF objects, old
  <2> QED BY <1>1, <1>2, <1>5, <1>6
<1>9. d.current \in ToSet(d.list) BY <1>2, <1>5
<1> QED BY <1>5, <1>7, <1>8, <1>9 DEF DialogOK

LEMMA AppendedKeeps ==
  ASSUME IInv, dialog # None, NEW p, IsProfile(p), p.id = -1, Named(p), NEW becomesCurrent \in BOOLEAN,
         Appended(p, becomesCurrent), UNCHANGED <<rows, lastId, current, kept, raced>>,
         editor' = None
  PROVE  IInv'
<1> DEFINE objects == Put(heap, Fresh, p)
           d == [dialog EXCEPT !.list = Append(@, Fresh), !.current = IF becomesCurrent THEN Fresh ELSE @]
<1>1. Keep(objects, identity, d, job) BY DEF Appended
<1>2. /\ Grown(objects) /\ Fresh \in Nat \ DOMAIN heap
      /\ DOMAIN objects = DOMAIN heap \cup {Fresh} /\ objects[Fresh] = p
      BY OneMore
<1>3. /\ dialog \in [list : Seq(Nat), current : Nat, saw : SUBSET Nat]
      /\ Append(dialog.list, Fresh) \in Seq(Nat)
      BY <1>2, AppendProperties DEF IInv, DialogOK
<1>4. /\ d \in [list : Seq(Nat), current : Nat, saw : SUBSET Nat] /\ d.list = Append(dialog.list, Fresh)
      /\ d.current \in {Fresh, dialog.current}
      BY <1>2, <1>3
<1> HIDE DEF d
<1>5. DialogOK(objects, d) /\ ToSet(d.list) = ToSet(dialog.list) \cup {Fresh} BY <1>4, AppendedList
<1>6. ObjectOK(p, lastId) BY DEF ObjectOK
<1> HIDE DEF objects
<1>7. ASSUME NEW o \in Held(d, job) PROVE o \in DOMAIN objects /\ (o \notin DOMAIN heap => ObjectOK(objects[o], lastId))
  <2>1. dialog # None => (\A u \in ToSet(dialog.list) : u \in DOMAIN heap) /\ dialog.current \in DOMAIN heap
        BY HeldInHeap
  <2>2. o \in ToSet(d.list) \/ o = d.current \/ \E j \in Jobs : o \in ToSet(job[j].list) BY HeldIs
  <2>3. o \in DOMAIN heap \/ o = Fresh BY <1>4, <1>5, <2>1, <2>2, HeldInHeap
  <2> QED BY <1>2, <1>6, <2>3
<1>8. EditorOK(objects, d, editor') BY DEF EditorOK
<1>9. JobsOK(objects, job) /\ PendingOK(objects, job, kept, raced) BY <1>2, GrownParts
<1> QED BY <1>1, <1>2, <1>5, <1>7, <1>8, <1>9, GrownStep

LEMMA CloneKeeps ==
  ASSUME IInv, NEW i \in Nat, AtList, i \in 1 .. Len(dialog.list), Clone(i)
  PROVE  IInv'
<1> DEFINE o == dialog.list[i]
           name == "clone"
           p == WithIdAndName(heap[o], -1, name)
<1>1. /\ Appended(p, FALSE) /\ UNCHANGED <<rows, lastId, current, kept, raced, editor>> /\ editor = None
      /\ dialog # None
      BY DEF Clone, AtList, Stored, WithIdAndName
<1>2. IsProfile(heap[o]) BY <1>1, HeldInHeap DEF ObjectOK
<1>3. name # "" OBVIOUS
<1> HIDE DEF name
<1>4. IsProfile(p) /\ p.id = -1 /\ p.name = name BY <1>2, WithIdAndNameIs
<1> HIDE DEF p
<1>5. Named(p) BY <1>3, <1>4 DEF Named
<1> QED BY <1>1, <1>4, <1>5, AppendedKeeps

LEMMA ImportKeeps ==
  ASSUME IInv, NEW doc \in Links, ImportInDialog(doc)
  PROVE  IInv'
<1> DEFINE p == FromShareInput(Device, doc)
<1>1. /\ UNCHANGED <<rows, lastId, current, kept, raced>> /\ p # Refused /\ editor = None /\ dialog # None
      BY DEF ImportInDialog, AtList, Stored
<1>2. IsProfile(p) /\ ~p.remote /\ p.id = -1 BY <1>1, DocumentIs, RouteAssumption
<1>3. CASE doc.kind = "array"
  <2> DEFINE q == WithRules(NewProfile, p.rules)
             opened == Opened(q)
  <2>1. editor' = [at |-> 0, p |-> opened] /\ UNCHANGED <<heap, identity, dialog, job>>
        BY <1>3 DEF ImportInDialog, WithRules
  <2> HIDE DEF p
  <2>2. IsProfile(q) /\ q.id = -1
    <3>1. IsRules(p.rules) BY <1>2 DEF IsProfile
    <3> QED BY <3>1, NewProfileIs, WithRulesIs
  <2> HIDE DEF q
  <2>3. IsProfile(opened) /\ opened.id = -1 BY <2>2, OpenedIs
  <2>4. Len(dialog.list) \in Nat BY <1>1, HeldInHeap
  <2> HIDE DEF opened
  <2>5. EditorOK(heap, dialog, editor') BY <1>1, <2>1, <2>3, <2>4 DEF EditorOK
  <2> QED BY <1>1, <2>1, <2>5, EditorStep
<1>4. CASE doc.kind # "array"
  <2>1. Appended(p, TRUE) /\ UNCHANGED editor BY <1>4 DEF ImportInDialog
  <2> HIDE DEF p
  <2>2. Named(p) BY <1>2 DEF Named
  <2> QED BY <1>1, <1>2, <2>1, <2>2, AppendedKeeps
<1> QED BY <1>3, <1>4
(* What the user may change of a profile leaves a profile of the same id.  *)
LEMMA ChangesAre ==
  ASSUME NEW p, IsProfile(p), NEW q \in Changes(p)
  PROVE  IsProfile(q) /\ q.id = p.id
<1>1. CASE q = p BY <1>1
<1>2. ASSUME NEW u, q = WithUrl(p, u) PROVE IsProfile(q) /\ q.id = p.id BY <1>2, WithUrlIs
<1>3. ASSUME NEW auto, q = WithAuto(p, auto) PROVE IsProfile(q) /\ q.id = p.id BY <1>3, WithAutoIs
<1>4. q = p \/ (\E u \in Urls : q = WithUrl(p, u)) \/ q = WithAuto(p, ~p.auto) BY DEF Changes, WithUrl, WithAuto
<1> QED BY <1>1, <1>2, <1>3, <1>4

(* A list in which a new object takes the place of an entry of its id.     *)
LEMMA ReplacedList ==
  ASSUME IInv, dialog # None, NEW p, NEW at \in 1 .. Len(dialog.list), p.id = heap[dialog.list[at]].id, NEW d,
         d = [dialog EXCEPT !.list[at] = Fresh, !.current = IF @ = dialog.list[at] THEN Fresh ELSE @]
  PROVE  DialogOK(Put(heap, Fresh, p), d) /\ ToSet(d.list) \subseteq ToSet(dialog.list) \cup {Fresh}
<1> DEFINE old == dialog.list
           objects == Put(heap, Fresh, p)
           list == [old EXCEPT ![at] = Fresh]
           n == Len(old)
<1>1. /\ Fresh \in Nat \ DOMAIN heap /\ objects[Fresh] = p /\ \A o \in DOMAIN heap : objects[o] = heap[o]
      BY OneMore DEF Grown
<1>2. /\ old \in Seq(Nat) /\ n \in Nat /\ dialog.current \in ToSet(old) /\ \A o \in ToSet(old) : o \in DOMAIN heap
      /\ DOMAIN old = 1 .. n /\ \A k \in 1 .. n : old[k] \in ToSet(old)
      BY HeldInHeap
<1>3. dialog \in [list : Seq(Nat), current : Nat, saw : SUBSET Nat] BY DEF IInv, DialogOK
<1>4. /\ \A k, m \in DOMAIN old : old[k] = old[m] => k = m
      /\ \A o, u \in ToSet(old) : heap[o].id = heap[u].id /\ heap[o].id # -1 => o = u
      BY DEF IInv, DialogOK
<1>5. /\ list \in Seq(Nat) /\ Len(list) = n /\ list[at] = Fresh
      /\ \A k \in 1 .. n : k # at => list[k] = old[k]
      BY <1>1, <1>2, ExceptSeq
<1>6. at \in 1 .. n OBVIOUS
<1> HIDE DEF old, list, n, objects
<1>7. d \in [list : Seq(Nat), current : Nat, saw : SUBSET Nat] /\ d.list = list
      /\ d.current = IF dialog.current = old[at] THEN Fresh ELSE dialog.current
      BY <1>1, <1>3, <1>5 DEF old, list
<1>8. DOMAIN list = 1 .. n /\ (\A o \in ToSet(list) : \E k \in 1 .. n : list[k] = o)
      /\ \A k \in 1 .. n : list[k] \in ToSet(list)
      BY <1>5, SeqFacts
<1>9. \A k \in 1 .. n : old[k] # Fresh BY <1>1, <1>2
<1>10. \A o \in ToSet(list) : o = Fresh \/ (o \in ToSet(old) /\ o # old[at])
  <2> SUFFICES ASSUME NEW k \in 1 .. n PROVE list[k] = Fresh \/ (list[k] \in ToSet(old) /\ list[k] # old[at])
      BY <1>8
  <2>1. k # at => list[k] = old[k] /\ old[k] # old[at] /\ old[k] \in ToSet(old) BY <1>2, <1>4, <1>5, <1>6
  <2> QED BY <1>5, <2>1
<1>11. \A k, m \in DOMAIN list : list[k] = list[m] => k = m
  <2> SUFFICES ASSUME NEW k \in 1 .. n, NEW m \in 1 .. n, list[k] = list[m] PROVE k = m BY <1>8
  <2>1. (k # at => list[k] = old[k]) /\ (m # at => list[m] = old[m]) BY <1>5
  <2> QED BY <1>2, <1>4, <1>5, <1>9, <2>1
<1>12. \A o, u \in ToSet(list) : objects[o].id = objects[u].id /\ objects[o].id # -1 => o = u
  <2>1. old[at] \in ToSet(old) BY <1>2, <1>6
  <2>2. \A o \in ToSet(old) : objects[o] = heap[o] BY <1>1, <1>2
  <2>3. objects[Fresh].id = heap[old[at]].id BY <1>1 DEF old
  <2> QED BY <1>4, <1>10, <2>1, <2>2, <2>3
<1>13. d.current \in ToSet(list)
  <2>1. CASE dialog.current = old[at] BY <1>5, <1>6, <1>7, <1>8, <2>1
  <2>2. CASE dialog.current # old[at]
    <3>1. PICK k \in 1 .. n : old[k] = dialog.current BY <1>2, SeqFacts DEF n
    <3>2. k # at BY <2>2, <3>1
    <3>3. list[k] = dialog.current BY <1>5, <3>1, <3>2
    <3>4. list[k] \in ToSet(list) BY <1>8
    <3> QED BY <1>7, <2>2, <3>3, <3>4
  <2> QED BY <2>1, <2>2
<1>14. DialogOK(objects, d)
  <2>1. d.list = list BY <1>7
  <2>2. \A k, m \in DOMAIN d.list : d.list[k] = d.list[m] => k = m BY <1>11, <2>1
  <2>3. \A o, u \in ToSet(d.list) : objects[o].id = objects[u].id /\ objects[o].id # -1 => o = u BY <1>12, <2>1
  <2>4. d.current \in ToSet(d.list) BY <1>13, <2>1
  <2>5. d \in [list : Seq(Nat), current : Nat, saw : SUBSET Nat] BY <1>7
  <2> QED BY <2>2, <2>3, <2>4, <2>5 DEF DialogOK
<1>15. ToSet(d.list) \subseteq ToSet(old) \cup {Fresh} BY <1>7, <1>10
<1> QED BY <1>14, <1>15 DEF objects, old

LEMMA EditorAcceptKeeps ==
  ASSUME IInv, NEW p, IsProfile(p), p.id = editor.p.id, NEW boxes, \A target \in Targets : IsBox(boxes[target]),
         EditorAccept(p, boxes)
  PROVE  IInv'
<1> DEFINE q == Accepted(p, boxes)
           at == editor.at
<1>1. /\ editor # None /\ editor' = None /\ UNCHANGED <<rows, lastId, current, kept, raced>> /\ Acceptable(q)
      BY DEF EditorAccept, Stored
<1>2. dialog # None /\ at \in 0 .. Len(dialog.list) /\ (at = 0 => p.id = -1) /\ (at # 0 => p.id = heap[dialog.list[at]].id)
      BY <1>1 DEF IInv, EditorOK
<1>3. IsProfile(q) /\ q.id = p.id BY AcceptedIs
<1>4. Named(q) BY <1>1 DEF Acceptable, Named
<1>5. CASE at = 0
  <2>1. Appended(q, FALSE) BY <1>5 DEF EditorAccept
  <2> HIDE DEF q
  <2> QED BY <1>1, <1>2, <1>3, <1>4, <1>5, <2>1, AppendedKeeps
<1>6. CASE at # 0
  <2> DEFINE objects == Put(heap, Fresh, q)
             d == [dialog EXCEPT !.list[at] = Fresh, !.current = IF @ = dialog.list[at] THEN Fresh ELSE @]
  <2>1. Keep(objects, identity, d, job) BY <1>6 DEF EditorAccept
  <2>2. Len(dialog.list) \in Nat BY <1>2, HeldInHeap
  <2>3. at \in 1 .. Len(dialog.list) BY <1>2, <1>6, <2>2
  <2> HIDE DEF q
  <2>4. /\ Grown(objects) /\ Fresh \in Nat \ DOMAIN heap
        /\ DOMAIN objects = DOMAIN heap \cup {Fresh} /\ objects[Fresh] = q
        BY OneMore
  <2> HIDE DEF at
  <2>5. DialogOK(objects, d) /\ ToSet(d.list) \subseteq ToSet(dialog.list) \cup {Fresh}
    <3>1. q.id = heap[dialog.list[at]].id BY <1>2, <1>3, <1>6
    <3> HIDE DEF d
    <3>2. d = [dialog EXCEPT !.list[at] = Fresh, !.current = IF @ = dialog.list[at] THEN Fresh ELSE @] BY DEF d
    <3> QED BY <1>2, <2>3, <3>1, <3>2, ReplacedList
  <2> HIDE DEF d, objects
  <2>6. q.id \in 1 .. lastId \cup {-1}
    <3>1. ObjectOK(heap[dialog.list[at]], lastId) BY <1>2, <2>3, HeldInHeap
    <3> QED BY <1>2, <1>3, <1>6, <3>1 DEF ObjectOK
  <2>7. ObjectOK(q, lastId) BY <1>3, <1>4, <2>6 DEF ObjectOK
  <2>8. d # None => d.current \in ToSet(d.list) BY <2>5 DEF DialogOK
  <2>9. ASSUME NEW o \in Held(d, job) PROVE o \in DOMAIN objects /\ (o \notin DOMAIN heap => ObjectOK(objects[o], lastId))
    <3>1. \A u \in ToSet(dialog.list) : u \in DOMAIN heap BY <1>2, HeldInHeap
    <3>2. (d # None /\ o \in ToSet(d.list)) \/ \E j \in Jobs : o \in ToSet(job[j].list) BY <2>8, HeldIs
    <3>3. o \in DOMAIN heap \/ o = Fresh BY <2>5, <3>1, <3>2, HeldInHeap
    <3> QED BY <2>4, <2>7, <3>3
  <2>10. EditorOK(objects, d, editor') BY <1>1 DEF EditorOK
  <2>11. JobsOK(objects, job) /\ PendingOK(objects, job, kept, raced) BY <2>4, GrownParts
  <2> QED BY <1>1, <2>1, <2>4, <2>5, <2>9, <2>10, <2>11, GrownStep
<1> QED BY <1>5, <1>6

LEMMA EditorDoneKeeps == IInv /\ EditorDone => IInv'
<1> SUFFICES ASSUME IInv, EditorDone PROVE IInv' OBVIOUS
<1> DEFINE named == "named"
           e == IF editor.at = 0 THEN WithName(editor.p, named) ELSE editor.p
<1>1. PICK p \in Changes(e) : \E boxes \in BoxesAfter(Boxes(p)) : EditorAccept(p, boxes)
      BY DEF EditorDone, WithName
<1>2. PICK boxes \in BoxesAfter(Boxes(p)) : EditorAccept(p, boxes) BY <1>1
<1>3. editor # None BY DEF EditorDone
<1>4. IsProfile(editor.p) BY <1>3 DEF IInv, EditorOK
<1> HIDE DEF named
<1>5. IsProfile(e) /\ e.id = editor.p.id BY <1>4, WithNameIs
<1> HIDE DEF e
<1>6. IsProfile(p) /\ p.id = editor.p.id BY <1>1, <1>5, ChangesAre
<1>7. \A target \in Targets : IsBox(boxes[target]) BY <1>2, <1>6, BoxesAfterAre
<1> QED BY <1>2, <1>6, <1>7, EditorAcceptKeeps


-----------------------------------------------------------------------------
(* The threads.                                                            *)

\* The same profiles, but for what a fetch gives them.
Refreshed(objects) ==
  /\ DOMAIN objects = DOMAIN heap
  /\ \A o \in DOMAIN heap :
       /\ IsProfile(objects[o]) /\ objects[o].id = heap[o].id /\ objects[o].remote = heap[o].remote
       /\ objects[o].url = heap[o].url /\ objects[o].auto = heap[o].auto /\ objects[o].name = heap[o].name

LEMMA RefreshedParts ==
  ASSUME IInv, NEW objects, Refreshed(objects), UNCHANGED <<rows, lastId, kept, raced>>
  PROVE  /\ JobsOK(objects, job) /\ PendingOK(objects, job, kept, raced)
         /\ DialogOK(objects, dialog) /\ EditorOK(objects, dialog, editor)
         /\ \A o \in DOMAIN heap : ObjectOK(objects[o], lastId)
         /\ \A id \in DOMAIN identity :
              /\ objects[identity[id]].id = id /\ id \in DOMAIN rows
              /\ Settings(objects[identity[id]]) = Settings(rows[id])
<1>1. /\ \A j \in Jobs : \A o \in ToSet(job[j].list) : o \in DOMAIN heap
      /\ dialog # None => \A o \in ToSet(dialog.list) : o \in DOMAIN heap
      BY HeldInHeap
<1>2. ASSUME NEW j \in Jobs PROVE JobOK(objects, job, j) /\ \A o \in PendingIn(job[j]) : o \in DOMAIN heap
  <2>1. JobOK(heap, job, j) /\ JobsOK(heap, job) BY DEF IInv, JobsOK
  <2>2. PendingIn(job[j]) \subseteq ToSet(job[j].list) /\ (job[j].at > 0 => job[j].list[job[j].at] \in PendingIn(job[j]))
        BY <2>1, PendingHeld
  <2>3. job[j].at > 0 => job[j].list[job[j].at] \in DOMAIN heap BY <1>1, <2>2
  <2>4. JobOK(objects, job, j) BY <1>1, <2>1, <2>3 DEF JobOK, Refreshed
  <2> QED BY <1>1, <2>2, <2>4
<1>3. JobsOK(objects, job) BY <1>2 DEF IInv, JobsOK
<1>4. PendingOK(objects, job, kept, raced)
  <2>1. "auto" \in Jobs /\ "link" \in Jobs BY DEF Jobs
  <2>2. \A o \in PendingIn(job["auto"]) \cup PendingIn(job["link"]) : o \in DOMAIN heap BY <1>2, <2>1
  <2>3. ASSUME NEW o \in PendingIn(job["auto"]) \cup PendingIn(job["link"]), objects[o].id \notin raced
        PROVE  objects[o].id \in DOMAIN kept /\ Agrees(objects[o], kept[objects[o].id])
    <3>1. /\ objects[o].id = heap[o].id /\ objects[o].url = heap[o].url /\ objects[o].auto = heap[o].auto
          /\ objects[o].name = heap[o].name
          BY <2>2 DEF Refreshed
    <3>2. heap[o].id \in DOMAIN kept /\ Agrees(heap[o], kept[heap[o].id]) BY <2>3, <3>1 DEF IInv, PendingOK
    <3> QED BY <3>1, <3>2 DEF Agrees
  <2> QED BY <2>3 DEF PendingOK
<1>5. DialogOK(objects, dialog) BY <1>1 DEF IInv, DialogOK, Refreshed
<1>6. EditorOK(objects, dialog, editor)
  <2>1. editor # None /\ editor.at # 0 => dialog.list[editor.at] \in ToSet(dialog.list)
        BY HeldInHeap DEF IInv, EditorOK
  <2> QED BY <1>1, <2>1 DEF IInv, EditorOK, Refreshed
<1>7. \A o \in DOMAIN heap : ObjectOK(objects[o], lastId)
  <2>1. \A o \in DOMAIN heap : ObjectOK(heap[o], lastId) BY DEF IInv, ObjectsOK
  <2> QED BY <2>1 DEF ObjectOK, Refreshed, Named
<1>8. ASSUME NEW id \in DOMAIN identity
      PROVE  /\ objects[identity[id]].id = id /\ id \in DOMAIN rows
             /\ Settings(objects[identity[id]]) = Settings(rows[id])
  <2>1. identity[id] \in DOMAIN heap BY DEF IInv
  <2>2. /\ heap[identity[id]].id = id /\ id \in DOMAIN rows
        /\ Settings(heap[identity[id]]) = Settings(rows[id])
        BY <2>1 DEF IInv, MapOK
  <2>3. Settings(objects[identity[id]]) = Settings(heap[identity[id]]) BY <2>1 DEF Refreshed, Settings
  <2> QED BY <2>1, <2>2, <2>3 DEF Refreshed
<1> QED BY <1>3, <1>4, <1>5, <1>6, <1>7, <1>8

LEMMA JobReplaced ==
  ASSUME NEW objects, NEW j \in Jobs, NEW work, JobsOK(objects, job), JobOK(objects, [job EXCEPT ![j] = work], j)
  PROVE  LET jobs == [job EXCEPT ![j] = work]
         IN  JobsOK(objects, jobs) /\ jobs[j] = work /\ \A k \in Jobs : k # j => jobs[k] = job[k]
<1> DEFINE jobs == [job EXCEPT ![j] = work]
<1>1. DOMAIN jobs = Jobs /\ jobs[j] = work /\ \A k \in Jobs : k # j => jobs[k] = job[k] BY DEF JobsOK
<1>2. JobOK(objects, jobs, j) OBVIOUS
<1> HIDE DEF jobs
<1>3. JobsOK(objects, jobs)
  <2>1. ASSUME NEW k \in Jobs, k # j PROVE JobOK(objects, jobs, k)
    <3>1. JobOK(objects, job, k) /\ jobs[k] = job[k] BY <1>1, <2>1 DEF JobsOK
    <3> QED BY <3>1 DEF JobOK
  <2> QED BY <1>1, <1>2, <2>1 DEF JobsOK
<1> QED BY <1>1, <1>3 DEF jobs

\* A thread other than that of the dialog is not to save more than before.
LEMMA OneJob ==
  ASSUME NEW objects, NEW j \in Jobs, NEW work, JobsOK(objects, job), PendingOK(objects, job, kept, raced),
         JobOK(objects, [job EXCEPT ![j] = work], j), j # "dialog" => PendingIn(work) \subseteq PendingIn(job[j])
  PROVE  LET jobs == [job EXCEPT ![j] = work]
         IN  /\ JobsOK(objects, jobs) /\ PendingOK(objects, jobs, kept, raced)
             /\ jobs[j] = work /\ \A k \in Jobs : k # j => jobs[k] = job[k]
<1> DEFINE jobs == [job EXCEPT ![j] = work]
<1>1. jobs[j] = work /\ \A k \in Jobs : k # j => jobs[k] = job[k] BY JobReplaced
<1>3. JobsOK(objects, jobs) BY JobReplaced
<1> HIDE DEF jobs
<1>4. PendingOK(objects, jobs, kept, raced)
  <2>1. "auto" \in Jobs /\ "link" \in Jobs /\ "auto" # "dialog" /\ "link" # "dialog" BY DEF Jobs
  <2>2. \A k \in Jobs : k # "dialog" => PendingIn(jobs[k]) \subseteq PendingIn(job[k]) BY <1>1
  <2>3. PendingIn(jobs["auto"]) \subseteq PendingIn(job["auto"]) /\ PendingIn(jobs["link"]) \subseteq PendingIn(job["link"])
        BY <2>1, <2>2
  <2> HIDE DEF jobs
  <2> QED BY <2>3 DEF PendingOK
<1> QED BY <1>1, <1>3, <1>4 DEF jobs

LEMMA ThreadStep ==
  ASSUME IInv, NEW objects, Refreshed(objects), UNCHANGED <<rows, lastId, current, editor, kept, raced>>,
         NEW j \in Jobs, NEW work, Keep(objects, identity, dialog, [job EXCEPT ![j] = work]),
         JobOK(objects, [job EXCEPT ![j] = work], j), ToSet(work.list) \subseteq DOMAIN heap,
         j # "dialog" => PendingIn(work) \subseteq PendingIn(job[j])
  PROVE  IInv'
<1> DEFINE jobs == [job EXCEPT ![j] = work]
<1>1. JobsOK(objects, job) /\ PendingOK(objects, job, kept, raced) BY RefreshedParts
<1>2. /\ JobsOK(objects, jobs) /\ PendingOK(objects, jobs, kept, raced)
      /\ jobs[j] = work /\ \A k \in Jobs : k # j => jobs[k] = job[k]
      BY <1>1, OneJob
<1>3. Keep(objects, identity, dialog, jobs) OBVIOUS
<1> HIDE DEF jobs
<1>4. \A k \in Jobs : \A o \in ToSet(jobs[k].list) : o \in DOMAIN heap BY <1>2, HeldInHeap
<1>5. \A o \in Held(dialog, jobs) : o \in DOMAIN heap BY <1>4, HeldIs, HeldInHeap
<1>6. DOMAIN objects = DOMAIN heap /\ Held(dialog, jobs) \subseteq DOMAIN objects BY <1>5 DEF Refreshed
<1>7. KeptAs(objects, identity) /\ dialog' = dialog /\ job' = jobs BY <1>3, <1>6, KeepIs
<1>8. ObjectsOK(objects, dialog, jobs, lastId)
  <2>1. DOMAIN heap \subseteq Nat BY HeldInHeap
  <2> QED BY <1>5, <1>6, <2>1, RefreshedParts DEF ObjectsOK
<1>9. MapOK(objects, identity, dialog, jobs, rows) BY RefreshedParts DEF MapOK
<1>10. DialogOK(objects, dialog) /\ EditorOK(objects, dialog, editor) BY RefreshedParts
<1>11. RowsOK(rows, lastId) /\ current \in DOMAIN rows /\ Obeys(kept, rows, raced) BY DEF IInv
<1> QED BY <1>2, <1>7, <1>8, <1>9, <1>10, <1>11, StepIs

LEMMA WorkIs ==
  ASSUME IInv, NEW objects, NEW j \in Jobs, NEW list \in Seq(Nat), NEW at \in Nat, NEW url,
         NEW pc \in {"idle", "next", "wait", "save"},
         at <= Len(list), pc \in {"wait", "save"} => at > 0,
         j # "dialog" => \A o \in ToSet(list) : objects[o].id # -1,
         j = "link" => \A o \in ToSet(list) : objects[o].remote,
         pc = "wait" => objects[list[at]].remote /\ url = objects[list[at]].url,
         pc = "save" => j # "dialog" /\ objects[list[at]].remote
  PROVE  JobOK(objects, [job EXCEPT ![j] = [list |-> list, at |-> at, url |-> url, pc |-> pc]], j)
<1> DEFINE work == [list |-> list, at |-> at, url |-> url, pc |-> pc]
           jobs == [job EXCEPT ![j] = work]
<1>1. jobs[j] = work BY DEF IInv, JobsOK
<1>2. /\ work \in [list : Seq(Nat), at : Nat, url : {work.url}, pc : {"idle", "next", "wait", "save"}]
      /\ work.list = list /\ work.at = at /\ work.url = url /\ work.pc = pc
      OBVIOUS
<1> HIDE DEF work, jobs
<1>3. JobOK(objects, jobs, j) BY <1>1, <1>2 DEF JobOK
<1> QED BY <1>3 DEF jobs, work

LEMMA JobIs ==
  ASSUME IInv, NEW j \in Jobs
  PROVE  /\ JobOK(heap, job, j) /\ DOMAIN job = Jobs
         /\ job[j].list \in Seq(Nat) /\ job[j].at \in Nat /\ Len(job[j].list) \in Nat /\ job[j].at <= Len(job[j].list)
         /\ DOMAIN job[j].list = 1 .. Len(job[j].list)
         /\ job[j] = [list |-> job[j].list, at |-> job[j].at, url |-> job[j].url, pc |-> job[j].pc]
         /\ \A i \in 1 .. Len(job[j].list) : job[j].list[i] \in ToSet(job[j].list) /\ job[j].list[i] \in DOMAIN heap
         /\ ToSet(job[j].list) \subseteq DOMAIN heap
<1>1. JobsOK(heap, job) /\ JobOK(heap, job, j) BY DEF IInv, JobsOK
<1>2. DOMAIN job = Jobs BY <1>1 DEF JobsOK
<1>3. job[j].list \in Seq(Nat) /\ job[j].at \in Nat /\ Len(job[j].list) \in Nat /\ job[j].at <= Len(job[j].list)
      /\ DOMAIN job[j].list = 1 .. Len(job[j].list)
      BY <1>1, PendingHeld
<1>4. job[j] = [list |-> job[j].list, at |-> job[j].at, url |-> job[j].url, pc |-> job[j].pc] BY <1>1 DEF JobOK
<1>5. ToSet(job[j].list) \subseteq DOMAIN heap BY HeldInHeap
<1>6. \A i \in 1 .. Len(job[j].list) : job[j].list[i] \in ToSet(job[j].list) BY <1>3, SeqFacts
<1> QED BY <1>1, <1>2, <1>3, <1>4, <1>5, <1>6

(* A thread at its end holds nothing.                                      *)
LEMMA IdleIs ==
  ASSUME IInv, NEW objects, NEW j \in Jobs
  PROVE  /\ JobOK(objects, [job EXCEPT ![j] = Idle], j)
         /\ ToSet(Idle.list) = {} /\ PendingIn(Idle) = {} /\ Idle.list = << >>
<1> DEFINE list == << >>
           url == ""
<1>1. list \in Seq(Nat) /\ Len(list) = 0 /\ DOMAIN list = {} BY EmptySeq
<1>2. ToSet(list) = {} BY <1>1 DEF ToSet
<1>3. Idle = [list |-> list, at |-> 0, url |-> url, pc |-> "idle"] BY DEF Idle
<1> HIDE DEF list, url
<1>4. JobOK(objects, [job EXCEPT ![j] = [list |-> list, at |-> 0, url |-> url, pc |-> "idle"]], j)
  <2> DEFINE pc == "idle"
  <2>1. /\ pc \in {"idle", "next", "wait", "save"} /\ pc # "wait" /\ pc # "save" /\ 0 \in Nat /\ 0 <= Len(list)
        /\ \A o \in ToSet(list) : objects[o].id # -1 /\ objects[o].remote
        BY <1>1, <1>2
  <2> HIDE DEF pc
  <2>2. JobOK(objects, [job EXCEPT ![j] = [list |-> list, at |-> 0, url |-> url, pc |-> pc]], j)
        BY <1>1, <2>1, WorkIs
  <2> QED BY <2>2 DEF pc
<1>5. PendingIn(Idle) = {} BY <1>1, <1>3 DEF PendingIn
<1> QED BY <1>2, <1>3, <1>4, <1>5 DEF list

(* A thread that goes on keeps what it holds, or lets it go.               *)
LEMMA Next1Is ==
  ASSUME IInv, NEW objects, JobsOK(objects, job), NEW j \in Jobs
  PROVE  \E work : /\ Next1(j) = [job EXCEPT ![j] = work] /\ JobOK(objects, [job EXCEPT ![j] = work], j)
                   /\ ToSet(work.list) \subseteq DOMAIN heap /\ PendingIn(work) \subseteq PendingIn(job[j])
<1> DEFINE n == Len(job[j].list)
           url == ""
           more == [list |-> job[j].list, at |-> job[j].at, url |-> url, pc |-> "next"]
<1>1. DOMAIN job = Jobs /\ job[j] = [list |-> job[j].list, at |-> job[j].at, url |-> job[j].url, pc |-> job[j].pc]
      /\ ToSet(job[j].list) \subseteq DOMAIN heap
      BY JobIs
<1>2. CASE job[j].at = n
  <2>1. Next1(j) = [job EXCEPT ![j] = Idle] BY <1>2 DEF Next1
  <2>2. JobOK(objects, [job EXCEPT ![j] = Idle], j) /\ ToSet(Idle.list) = {} /\ PendingIn(Idle) = {} BY IdleIs
  <2> HIDE DEF Idle
  <2> QED BY <2>1, <2>2
<1>3. CASE job[j].at # n
  <2>1. [job[j] EXCEPT !.pc = "next", !.url = url] = more
    <3> DEFINE l == job[j].list
               a == job[j].at
               u == job[j].url
               p == job[j].pc
    <3>1. job[j] = [list |-> l, at |-> a, url |-> u, pc |-> p] BY <1>1
    <3> HIDE DEF l, a, u, p, url
    <3>2. job[j] \in [list : {l}, at : {a}, url : {u}, pc : {p}] BY <3>1
    <3> DEFINE w == [job[j] EXCEPT !.pc = "next", !.url = url]
    <3>3. w \in [list : {l}, at : {a}, url : {url}, pc : {"next"}] BY <3>2
    <3> HIDE DEF w
    <3>4. w = [list |-> l, at |-> a, url |-> url, pc |-> "next"] BY <3>3
    <3> QED BY <3>4 DEF w, l, a
  <2>2. Next1(j) = [job EXCEPT ![j] = [job[j] EXCEPT !.pc = "next", !.url = url]] BY <1>3 DEF Next1
  <2>3. Next1(j) = [job EXCEPT ![j] = more] BY <2>1, <2>2
  <2>4. JobOK(objects, job, j) BY DEF JobsOK
  <2> HIDE DEF url
  <2>5. JobOK(objects, [job EXCEPT ![j] = more], j)
    <3>1. /\ job[j].list \in Seq(Nat) /\ job[j].at \in Nat /\ job[j].at <= Len(job[j].list)
          /\ j # "dialog" => \A o \in ToSet(job[j].list) : objects[o].id # -1
          /\ j = "link" => \A o \in ToSet(job[j].list) : objects[o].remote
          BY <2>4 DEF JobOK
    <3> QED BY <3>1, WorkIs
  <2>6. ToSet(more.list) \subseteq DOMAIN heap /\ PendingIn(more) \subseteq PendingIn(job[j]) BY <1>1 DEF PendingIn
  <2> HIDE DEF more
  <2> QED BY <2>3, <2>5, <2>6
<1> QED BY <1>2, <1>3

LEMMA AfterAnswerIs ==
  ASSUME IInv, NEW objects, JobsOK(objects, job), NEW j \in Jobs, NEW ok \in BOOLEAN, job[j].pc = "wait"
  PROVE  \E work : /\ AfterAnswer(j, ok) = [job EXCEPT ![j] = work] /\ JobOK(objects, [job EXCEPT ![j] = work], j)
                   /\ ToSet(work.list) \subseteq DOMAIN heap /\ PendingIn(work) \subseteq PendingIn(job[j])
<1>1. CASE ~(j = "link" \/ (j = "auto" /\ ok))
  <2>1. AfterAnswer(j, ok) = Next1(j) BY <1>1 DEF AfterAnswer
  <2> QED BY <2>1, Next1Is
<1>2. CASE j = "link" \/ (j = "auto" /\ ok)
  <2> DEFINE work == [list |-> job[j].list, at |-> job[j].at, url |-> job[j].url, pc |-> "save"]
  <2>1. DOMAIN job = Jobs /\ job[j] = [list |-> job[j].list, at |-> job[j].at, url |-> job[j].url, pc |-> job[j].pc]
        /\ ToSet(job[j].list) \subseteq DOMAIN heap
        BY JobIs
  <2>2. AfterAnswer(j, ok) = [job EXCEPT ![j].pc = "save"] BY <1>2 DEF AfterAnswer
  <2>3. [job[j] EXCEPT !.pc = "save"] = work BY <2>1
  <2>4. [job EXCEPT ![j].pc = "save"] = [job EXCEPT ![j] = [job[j] EXCEPT !.pc = "save"]] BY <2>1
  <2>5. AfterAnswer(j, ok) = [job EXCEPT ![j] = work] BY <2>2, <2>3, <2>4
  <2>6. JobOK(objects, job, j) BY DEF JobsOK
  <2>7. JobOK(objects, [job EXCEPT ![j] = work], j)
    <3>1. /\ job[j].list \in Seq(Nat) /\ job[j].at \in Nat /\ job[j].at <= Len(job[j].list) /\ job[j].at > 0
          /\ j # "dialog" => \A o \in ToSet(job[j].list) : objects[o].id # -1
          /\ j = "link" => \A o \in ToSet(job[j].list) : objects[o].remote
          /\ objects[job[j].list[job[j].at]].remote
          BY <2>6 DEF JobOK
    <3>2. j # "dialog" BY <1>2
    <3> QED BY <3>1, <3>2, WorkIs
  <2>8. ToSet(work.list) \subseteq DOMAIN heap /\ PendingIn(work) \subseteq PendingIn(job[j]) BY <2>1 DEF PendingIn
  <2> HIDE DEF work
  <2> QED BY <2>5, <2>7, <2>8
<1> QED BY <1>1, <1>2

LEMMA HeapRefreshed == IInv => Refreshed(heap)
BY DEF IInv, ObjectsOK, ObjectOK, Refreshed

LEMMA NoAnswerKeeps ==
  ASSUME IInv, NEW j \in Jobs, NoAnswer(j)
  PROVE  IInv'
<1>1. /\ job[j].pc = "wait" /\ UNCHANGED <<rows, lastId, current, editor, kept, raced>>
      /\ Keep(heap, identity, dialog, AfterAnswer(j, FALSE))
      BY DEF NoAnswer, Stored, Unspent
<1>2. JobsOK(heap, job) BY DEF IInv
<1>3. PICK work : /\ AfterAnswer(j, FALSE) = [job EXCEPT ![j] = work] /\ JobOK(heap, [job EXCEPT ![j] = work], j)
                  /\ ToSet(work.list) \subseteq DOMAIN heap /\ PendingIn(work) \subseteq PendingIn(job[j])
      BY <1>1, <1>2, AfterAnswerIs
<1>4. Refreshed(heap) BY HeapRefreshed
<1> QED BY <1>1, <1>3, <1>4, ThreadStep

LEMMA StopUpdateKeeps == IInv /\ StopUpdate => IInv'
<1> SUFFICES ASSUME IInv, StopUpdate PROVE IInv' OBVIOUS
<1>1. /\ UNCHANGED <<rows, lastId, current, editor, kept, raced>>
      /\ Keep(heap, identity, dialog, [job EXCEPT !["dialog"] = Idle])
      BY DEF StopUpdate, Stored, Unspent
<1>2. "dialog" \in Jobs BY DEF Jobs
<1>3. JobOK(heap, [job EXCEPT !["dialog"] = Idle], "dialog") /\ ToSet(Idle.list) = {} BY <1>2, IdleIs
<1>4. Refreshed(heap) BY HeapRefreshed
<1> HIDE DEF Idle
<1> QED BY <1>1, <1>2, <1>3, <1>4, ThreadStep

LEMMA AskKeeps ==
  ASSUME IInv, NEW j \in Jobs, Ask(j)
  PROVE  IInv'
<1> DEFINE list == job[j].list
           at == job[j].at
           o == list[at + 1]
           taken == [job EXCEPT ![j].at = @ + 1]
           waits == [list |-> list, at |-> at + 1, url |-> heap[o].url, pc |-> "wait"]
           goesOn == [list |-> list, at |-> at + 1, url |-> job[j].url, pc |-> "next"]
           saves == [list |-> list, at |-> at + 1, url |-> job[j].url, pc |-> "save"]
<1>1. /\ job[j].pc = "next" /\ at < Len(list) /\ UNCHANGED <<rows, lastId, current, editor, kept, raced>>
      BY DEF Ask, Stored, Unspent
<1>2. /\ JobOK(heap, job, j) /\ DOMAIN job = Jobs /\ list \in Seq(Nat) /\ at \in Nat /\ Len(list) \in Nat
      /\ job[j] = [list |-> list, at |-> at, url |-> job[j].url, pc |-> job[j].pc]
      /\ ToSet(list) \subseteq DOMAIN heap /\ DOMAIN list = 1 .. Len(list)
      /\ \A i \in 1 .. Len(list) : list[i] \in ToSet(list) /\ list[i] \in DOMAIN heap
      BY JobIs
<1>3. /\ at + 1 \in 1 .. Len(list) /\ at + 1 \in Nat /\ at + 1 <= Len(list) /\ at + 1 > 0 /\ o \in ToSet(list) BY <1>1, <1>2
<1>4. /\ j # "dialog" => \A u \in ToSet(list) : heap[u].id # -1
      /\ j = "link" => \A u \in ToSet(list) : heap[u].remote
      BY <1>2 DEF JobOK
<1>5. taken = [job EXCEPT ![j] = goesOn] /\ taken[j] = goesOn
  <2>1. [job[j] EXCEPT !.at = @ + 1] \in [list : {list}, at : {at + 1}, url : {job[j].url}, pc : {"next"}] BY <1>1, <1>2
  <2>2. [job[j] EXCEPT !.at = @ + 1] = goesOn BY <2>1
  <2>3. taken = [job EXCEPT ![j] = [job[j] EXCEPT !.at = @ + 1]] BY <1>2
  <2> QED BY <1>2, <2>2, <2>3
<1>6. ASSUME NEW work, work.list = list, work.at = at + 1
      PROVE  ToSet(work.list) \subseteq DOMAIN heap /\ PendingIn(work) \subseteq PendingIn(job[j])
  <2>1. \A k \in DOMAIN list : k >= at + 1 => k >= at BY <1>2
  <2> QED BY <1>2, <1>6, <2>1 DEF PendingIn
<1>7. Refreshed(heap) BY HeapRefreshed
<1>8. CASE Wanted(j, heap[o]) /\ Keep(heap, identity, dialog, [taken EXCEPT ![j].pc = "wait", ![j].url = heap[o].url])
  <2>1. [taken EXCEPT ![j].pc = "wait", ![j].url = heap[o].url] = [job EXCEPT ![j] = waits]
    <3> DEFINE url == heap[o].url
               w == [goesOn EXCEPT !.pc = "wait", !.url = url]
    <3>1. [taken EXCEPT ![j].pc = "wait", ![j].url = url] = [job EXCEPT ![j] = w] BY <1>2, <1>5
    <3>2. w \in [list : {list}, at : {at + 1}, url : {url}, pc : {"wait"}]
      <4> HIDE DEF url
      <4> QED OBVIOUS
    <3>3. waits = [list |-> list, at |-> at + 1, url |-> url, pc |-> "wait"] OBVIOUS
    <3> HIDE DEF w, url, waits, list, at
    <3>4. w = waits BY <3>2, <3>3
    <3> QED BY <3>1, <3>4 DEF url
  <2>2. heap[o].remote BY <1>8 DEF Wanted
  <2> DEFINE url == heap[o].url
  <2>3. JobOK(heap, [job EXCEPT ![j] = waits], j)
    <3> HIDE DEF list, at
    <3> DEFINE next == at + 1
               pc == "wait"
    <3>1. /\ heap[list[next]].remote /\ url = heap[list[next]].url /\ next > 0 /\ next \in Nat /\ next <= Len(list)
          /\ pc \in {"idle", "next", "wait", "save"} /\ pc # "save"
          BY <1>3, <2>2
    <3> HIDE DEF url, next, pc
    <3>2. JobOK(heap, [job EXCEPT ![j] = [list |-> list, at |-> next, url |-> url, pc |-> pc]], j)
          BY <1>2, <1>4, <3>1, WorkIs
    <3> QED BY <3>2 DEF url, next, pc
  <2>4. waits.list = list /\ waits.at = at + 1 OBVIOUS
  <2>5. Keep(heap, identity, dialog, [job EXCEPT ![j] = waits]) BY <1>8, <2>1
  <2> HIDE DEF waits, list, at
  <2> QED BY <1>1, <1>6, <1>7, <2>3, <2>4, <2>5, ThreadStep
<1>9. CASE /\ ~Wanted(j, heap[o]) /\ j = "link"
           /\ Keep(heap, identity, dialog, [job EXCEPT ![j] = [taken[j] EXCEPT !.pc = "save"]])
  <2>1. [taken[j] EXCEPT !.pc = "save"] = saves
    <3>1. [goesOn EXCEPT !.pc = "save"] \in [list : {list}, at : {at + 1}, url : {job[j].url}, pc : {"save"}] OBVIOUS
    <3>2. [goesOn EXCEPT !.pc = "save"] = saves BY <3>1
    <3> QED BY <1>5, <3>2
  <2> DEFINE url == job[j].url
  <2>2. JobOK(heap, [job EXCEPT ![j] = saves], j)
    <3>0. heap[o].remote BY <1>3, <1>4, <1>9
    <3> HIDE DEF list, at
    <3> DEFINE next == at + 1
               pc == "save"
    <3>1. /\ heap[list[next]].remote /\ next > 0 /\ next \in Nat /\ next <= Len(list)
          /\ pc \in {"idle", "next", "wait", "save"} /\ pc # "wait"
          BY <1>3, <3>0
    <3> HIDE DEF url, next, pc
    <3>2. JobOK(heap, [job EXCEPT ![j] = [list |-> list, at |-> next, url |-> url, pc |-> pc]], j)
          BY <1>2, <1>4, <1>9, <3>1, WorkIs
    <3> QED BY <3>2 DEF url, next, pc
  <2>3. saves.list = list /\ saves.at = at + 1 OBVIOUS
  <2>4. Keep(heap, identity, dialog, [job EXCEPT ![j] = saves]) BY <1>9, <2>1
  <2> HIDE DEF saves, list, at
  <2> QED BY <1>1, <1>6, <1>7, <2>2, <2>3, <2>4, ThreadStep
<1>10. CASE /\ ~Wanted(j, heap[o]) /\ j # "link"
            /\ Keep(heap, identity, dialog, [job EXCEPT ![j] = IF taken[j].at = Len(list) THEN Idle ELSE taken[j]])
  <2>1. CASE taken[j].at = Len(list)
    <3>1. Keep(heap, identity, dialog, [job EXCEPT ![j] = Idle]) BY <1>10, <2>1
    <3>2. JobOK(heap, [job EXCEPT ![j] = Idle], j) /\ ToSet(Idle.list) = {} /\ PendingIn(Idle) = {} BY IdleIs
    <3> HIDE DEF Idle
    <3> QED BY <1>1, <1>7, <3>1, <3>2, ThreadStep
  <2>2. CASE taken[j].at # Len(list)
    <3>1. Keep(heap, identity, dialog, [job EXCEPT ![j] = goesOn]) BY <1>5, <1>10, <2>2
    <3> DEFINE url == job[j].url
    <3>2. JobOK(heap, [job EXCEPT ![j] = goesOn], j)
      <4> HIDE DEF list, at
      <4> DEFINE next == at + 1
                 pc == "next"
      <4>1. /\ next > 0 /\ next \in Nat /\ next <= Len(list)
            /\ pc \in {"idle", "next", "wait", "save"} /\ pc # "wait" /\ pc # "save"
            BY <1>3
      <4> HIDE DEF url, next, pc
      <4>2. JobOK(heap, [job EXCEPT ![j] = [list |-> list, at |-> next, url |-> url, pc |-> pc]], j)
            BY <1>2, <1>4, <4>1, WorkIs
      <4> QED BY <4>2 DEF url, next, pc
    <3>3. goesOn.list = list /\ goesOn.at = at + 1 OBVIOUS
    <3> HIDE DEF goesOn, list, at
    <3> QED BY <1>1, <1>6, <1>7, <3>1, <3>2, <3>3, ThreadStep
  <2> QED BY <2>1, <2>2
<1> QED BY <1>8, <1>9, <1>10 DEF Ask

LEMMA AnswerKeeps ==
  ASSUME IInv, NEW j \in Jobs, NEW url \in Urls, NEW doc \in Served[url], Answer(j, doc)
  PROVE  IInv'
<1> DEFINE o == job[j].list[job[j].at]
           fetched == UpdateProfile(heap[o], doc)
           objects == IF Usable(doc) THEN [heap EXCEPT ![o] = fetched] ELSE heap
           ok == Usable(doc)
<1>1. /\ job[j].pc = "wait" /\ doc \in Served[job[j].url] /\ UNCHANGED <<rows, lastId, current, editor, kept, raced>>
      /\ Keep(objects, identity, dialog, AfterAnswer(j, ok))
  <2>1. [heap EXCEPT ![o] = UpdateProfile(@, doc)] = [heap EXCEPT ![o] = fetched] OBVIOUS
  <2> QED BY <2>1 DEF Answer, Stored, Unspent
<1>2. IsDocument(doc) BY RouteAssumption
<1>3. /\ job[j].at > 0 /\ job[j].url = heap[o].url /\ heap[o].remote BY <1>1, JobIs DEF JobOK
<1>4. o \in DOMAIN heap /\ ObjectOK(heap[o], lastId)
  <2>0. job[j].at \in Nat /\ Len(job[j].list) \in Nat /\ job[j].at <= Len(job[j].list) BY JobIs
  <2>1. job[j].at \in 1 .. Len(job[j].list) BY <1>3, <2>0
  <2>2. o \in ToSet(job[j].list) BY <2>1, JobIs
  <2> QED BY <2>2, HeldInHeap
<1>5. heap[o].name # "" BY <1>1, <1>3, <1>4 DEF ObjectOK, Named
<1>6. IsProfile(fetched) /\ fetched.id = heap[o].id /\ fetched.remote = heap[o].remote /\ fetched.url = heap[o].url
      /\ fetched.auto = heap[o].auto /\ fetched.name = heap[o].name
      BY <1>2, <1>4, <1>5, UpdatedIs DEF ObjectOK
<1>7. ok \in BOOLEAN BY DEF Usable
<1> HIDE DEF fetched, o
<1>8. Refreshed(objects)
  <2>1. Refreshed(heap) BY HeapRefreshed
  <2>2. CASE ~Usable(doc) BY <2>1, <2>2
  <2>3. CASE Usable(doc)
    <3>1. objects = [heap EXCEPT ![o] = fetched] BY <2>3
    <3>2. DOMAIN objects = DOMAIN heap /\ objects[o] = fetched /\ \A u \in DOMAIN heap : u # o => objects[u] = heap[u]
          BY <1>4, <3>1
    <3> HIDE DEF objects
    <3> QED BY <1>6, <2>1, <3>2 DEF Refreshed
  <2> QED BY <2>2, <2>3
<1> HIDE DEF objects, ok
<1>9. JobsOK(objects, job) BY <1>1, <1>8, RefreshedParts
<1>10. PICK work : /\ AfterAnswer(j, ok) = [job EXCEPT ![j] = work] /\ JobOK(objects, [job EXCEPT ![j] = work], j)
                   /\ ToSet(work.list) \subseteq DOMAIN heap /\ PendingIn(work) \subseteq PendingIn(job[j])
      BY <1>1, <1>7, <1>9, AfterAnswerIs
<1> QED BY <1>1, <1>8, <1>10, ThreadStep

\* A thread that starts has all of its list before it.
LEMMA BusyIs ==
  ASSUME IInv, NEW objects, NEW j \in Jobs, NEW list \in Seq(Nat),
         j # "dialog" => \A o \in ToSet(list) : objects[o].id # -1,
         j = "link" => \A o \in ToSet(list) : objects[o].remote
  PROVE  /\ JobOK(objects, [job EXCEPT ![j] = Busy(list)], j)
         /\ Busy(list).list = list /\ PendingIn(Busy(list)) \subseteq ToSet(list)
<1> DEFINE url == ""
           pc == "next"
<1>1. Busy(list) = [list |-> list, at |-> 0, url |-> url, pc |-> pc] BY DEF Busy
<1>2. /\ pc \in {"idle", "next", "wait", "save"} /\ pc # "wait" /\ pc # "save" /\ 0 \in Nat /\ 0 <= Len(list)
      BY LenProperties
<1>3. Busy(list).list = list /\ PendingIn(Busy(list)) \subseteq ToSet(list)
  <2> DEFINE work == Busy(list)
  <2>1. work.list = list BY DEF Busy
  <2> HIDE DEF work
  <2>2. PendingIn(work) \subseteq ToSet(list) BY <2>1 DEF PendingIn, ToSet
  <2> QED BY <2>1, <2>2 DEF work
<1> HIDE DEF url, pc
<1>4. JobOK(objects, [job EXCEPT ![j] = [list |-> list, at |-> 0, url |-> url, pc |-> pc]], j) BY <1>2, WorkIs
<1> QED BY <1>1, <1>3, <1>4

LEMMA UpdateListKeeps ==
  ASSUME IInv, NEW list \in Seq(Nat), ToSet(list) \subseteq DOMAIN heap, updateRemoteProfiles(list)
  PROVE  IInv'
<1> DEFINE busy == Busy(list)
<1>1. /\ UNCHANGED <<rows, lastId, current, editor, kept, raced>>
      /\ Keep(heap, identity, dialog, [job EXCEPT !["dialog"] = busy])
      BY DEF updateRemoteProfiles, Stored
<1>2. "dialog" \in Jobs BY DEF Jobs
<1>3. JobOK(heap, [job EXCEPT !["dialog"] = busy], "dialog") /\ busy.list = list BY <1>2, BusyIs
<1>4. Refreshed(heap) BY HeapRefreshed
<1> HIDE DEF busy
<1> QED BY <1>1, <1>2, <1>3, <1>4, ThreadStep

LEMMA UpdateClickedKeeps == IInv /\ on_update_route_clicked => IInv'
<1> SUFFICES ASSUME IInv, on_update_route_clicked PROVE IInv' OBVIOUS
<1>1. dialog # None BY DEF on_update_route_clicked, AtList
<1>2. /\ dialog.list \in Seq(Nat) /\ ToSet(dialog.list) \subseteq DOMAIN heap /\ DOMAIN heap \subseteq Nat
      /\ DOMAIN dialog.list = 1 .. Len(dialog.list) /\ \A i \in 1 .. Len(dialog.list) : dialog.list[i] \in ToSet(dialog.list)
      BY <1>1, HeldInHeap
<1>3. ASSUME NEW o \in ToSet(dialog.list), updateRemoteProfiles(<<o>>) PROVE IInv'
  <2> DEFINE list == <<o>>
  <2>1. list \in Seq(Nat) /\ Len(list) = 1 /\ list[1] = o BY <1>2
  <2>2. ToSet(list) \subseteq DOMAIN heap BY <1>2, <2>1 DEF ToSet
  <2>3. updateRemoteProfiles(list) BY <1>3
  <2> HIDE DEF list
  <2> QED BY <2>1, <2>2, <2>3, UpdateListKeeps
<1>4. ASSUME NEW places \in SUBSET DOMAIN dialog.list, updateRemoteProfiles(Chosen(dialog.list, places)) PROVE IInv'
  <2> DEFINE list == Chosen(dialog.list, places)
  <2>1. list \in Seq(Nat) /\ ToSet(list) = {dialog.list[i] : i \in places} BY <1>2, ChosenType
  <2>2. updateRemoteProfiles(list) BY <1>4
  <2> HIDE DEF list
  <2>3. ToSet(list) \subseteq DOMAIN heap BY <1>2, <2>1
  <2> QED BY <2>1, <2>2, <2>3, UpdateListKeeps
<1>5. \/ \E o \in ToSet(dialog.list) : updateRemoteProfiles(<<o>>)
      \/ updateRemoteProfiles(Chosen(dialog.list, {i \in DOMAIN dialog.list : IsRemote(dialog.list[i])}))
      BY DEF on_update_route_clicked
<1>6. {i \in DOMAIN dialog.list : IsRemote(dialog.list[i])} \in SUBSET DOMAIN dialog.list OBVIOUS
<1> QED BY <1>3, <1>4, <1>5, <1>6

(* A profile that a link names.                                            *)
LEMMA LinkedIs ==
  ASSUME NEW link \in RemoteLinks
  PROVE  LET p == FromRemoteRoutesLink(link)
         IN  IsProfile(p) /\ p.id = -1 /\ p.remote = TRUE /\ p.url = link.url /\ p.name = link.name /\ Named(p)
<1> DEFINE n == NewProfile
           remote == TRUE
           url == link.url
           auto == link.auto
           name == link.name
           p == AsLinked(n, remote, url, auto, name)
<1>1. FromRemoteRoutesLink(link) = p BY DEF FromRemoteRoutesLink, AsLinked
<1>2. IsProfile(n) /\ n.id = -1 /\ remote \in BOOLEAN /\ remote = TRUE BY NewProfileIs
<1> HIDE DEF n, remote, url, auto, name
<1>3. IsProfile(p) /\ p.id = n.id /\ p.remote = remote /\ p.url = url /\ p.name = name
  <2>1. IsProfile(n) /\ remote \in BOOLEAN BY <1>2
  <2> QED BY <2>1, AsLinkedIs
<1> HIDE DEF p
<1>4. Named(p) BY <1>3, RouteAssumption DEF Named, url, name
<1> QED BY <1>1, <1>2, <1>3, <1>4 DEF url, name

LEMMA OneOf ==
  ASSUME NEW o \in Nat
  PROVE  <<o>> \in Seq(Nat) /\ ToSet(<<o>>) = {o}
<1> DEFINE list == <<o>>
<1>1. list \in Seq(Nat) /\ Len(list) = 1 /\ list[1] = o OBVIOUS
<1> HIDE DEF list
<1>2. DOMAIN list = 1 .. Len(list) BY <1>1, SeqFacts
<1>3. ToSet(list) = {o} BY <1>1, <1>2 DEF ToSet
<1> QED BY <1>1, <1>3 DEF list

LEMMA ImportLinkKeeps ==
  ASSUME IInv, NEW link \in RemoteLinks, tryImportRemoteRoutesLink(link)
  PROVE  IInv'
<1> DEFINE p == FromRemoteRoutesLink(link)
           objects == Put(heap, Fresh, p)
           d == [dialog EXCEPT !.list = Append(@, Fresh)]
           one == <<Fresh>>
           work == Busy(one)
           jobs == IF job["dialog"] = Idle THEN [job EXCEPT !["dialog"] = work] ELSE job
<1>1. /\ Keep(objects, identity, d, jobs) /\ UNCHANGED <<rows, lastId, current, editor, kept, raced>>
      /\ dialog # None /\ editor = None
      BY DEF tryImportRemoteRoutesLink, AtList, Stored
<1>2. IsProfile(p) /\ p.id = -1 /\ Named(p) BY LinkedIs
<1> HIDE DEF p
<1>3. /\ Grown(objects) /\ Fresh \in Nat \ DOMAIN heap
      /\ DOMAIN objects = DOMAIN heap \cup {Fresh} /\ objects[Fresh] = p
      BY OneMore
<1>4. /\ dialog \in [list : Seq(Nat), current : Nat, saw : SUBSET Nat]
      /\ Append(dialog.list, Fresh) \in Seq(Nat)
      BY <1>1, <1>3, AppendProperties DEF IInv, DialogOK
<1>5. /\ d \in [list : Seq(Nat), current : Nat, saw : SUBSET Nat] /\ d.list = Append(dialog.list, Fresh)
      /\ d.current \in {Fresh, dialog.current}
      BY <1>4
<1> HIDE DEF d
<1>6. DialogOK(objects, d) /\ ToSet(d.list) = ToSet(dialog.list) \cup {Fresh} BY <1>1, <1>2, <1>5, AppendedList
<1>7. ObjectOK(p, lastId) BY <1>2 DEF ObjectOK
<1> HIDE DEF objects
<1>8. JobsOK(objects, job) /\ PendingOK(objects, job, kept, raced) BY <1>3, GrownParts
<1>9. /\ JobsOK(objects, jobs) /\ PendingOK(objects, jobs, kept, raced)
      /\ \A j \in Jobs : \A o \in ToSet(jobs[j].list) : o \in DOMAIN heap \/ o = Fresh
  <2>1. CASE job["dialog"] # Idle BY <1>8, <2>1, HeldInHeap
  <2>2. CASE job["dialog"] = Idle
    <3>1. one \in Seq(Nat) /\ ToSet(one) = {Fresh} BY <1>3, OneOf
    <3>2. "dialog" \in Jobs BY DEF Jobs
    <3> HIDE DEF one
    <3>3. JobOK(objects, [job EXCEPT !["dialog"] = work], "dialog") /\ work.list = one BY <3>1, <3>2, BusyIs
    <3>4. jobs = [job EXCEPT !["dialog"] = work] BY <2>2
    <3> HIDE DEF work, jobs
    <3> DEFINE started == [job EXCEPT !["dialog"] = work]
    <3>7. /\ JobsOK(objects, started) /\ PendingOK(objects, started, kept, raced)
          /\ started["dialog"] = work /\ \A k \in Jobs : k # "dialog" => started[k] = job[k]
          BY <1>8, <3>2, <3>3, OneJob
    <3>8. jobs = started BY <3>4
    <3> HIDE DEF started
    <3>5. /\ JobsOK(objects, jobs) /\ PendingOK(objects, jobs, kept, raced)
          /\ jobs["dialog"] = work /\ \A k \in Jobs : k # "dialog" => jobs[k] = job[k]
          BY <3>7, <3>8
    <3>6. \A j \in Jobs : \A o \in ToSet(job[j].list) : o \in DOMAIN heap BY HeldInHeap
    <3> QED BY <3>1, <3>3, <3>5, <3>6
  <2> QED BY <2>1, <2>2
<1> HIDE DEF jobs
<1>10. ASSUME NEW o \in Held(d, jobs) PROVE o \in DOMAIN objects /\ (o \notin DOMAIN heap => ObjectOK(objects[o], lastId))
  <2>1. (\A u \in ToSet(dialog.list) : u \in DOMAIN heap) /\ dialog.current \in DOMAIN heap BY <1>1, HeldInHeap
  <2>2. o \in ToSet(d.list) \/ o = d.current \/ \E j \in Jobs : o \in ToSet(jobs[j].list) BY HeldIs
  <2>3. o \in DOMAIN heap \/ o = Fresh BY <1>5, <1>6, <1>9, <2>1, <2>2
  <2> QED BY <1>3, <1>7, <2>3
<1>11. EditorOK(objects, d, editor') BY <1>1 DEF EditorOK
<1> QED BY <1>1, <1>3, <1>6, <1>9, <1>10, <1>11, GrownStep

-----------------------------------------------------------------------------
(* Steps that write rows.                                                  *)

\* What a profile is once it is said and saved.
LEMMA SavedIs ==
  ASSUME NEW p, IsProfile(p), Named(p)
  PROVE  LET row == saveToDatabase(p)
         IN  /\ RowOK(row, p.id) /\ Settings(row) = Settings(p) /\ row.remote = p.remote
             /\ Agrees(row, Said(p))
             /\ ~row.remote => loadFromDatabase(row).rules = Said(p).rules
<1> DEFINE row == saveToDatabase(p)
<1>1. /\ loadFromDatabase(row) = p
      /\ row.id = p.id /\ row.name = p.name /\ row.url = p.url /\ row.auto = p.auto /\ row.remote = p.remote
      BY RowKeepsProfile
<1>2. row = saveToDatabase(p) OBVIOUS
<1> HIDE DEF row
<1>3. RowOK(row, p.id) BY <1>1, <1>2 DEF RowOK
<1>4. Settings(row) = Settings(p) BY <1>1 DEF Settings
<1>5. Said(p).url = p.url /\ Said(p).auto = p.auto /\ Said(p).name = p.name /\ (~p.remote => Said(p).rules = p.rules)
      BY DEF Said
<1>6. Agrees(row, Said(p)) BY <1>1, <1>5 DEF Agrees
<1>7. ~row.remote => loadFromDatabase(row).rules = Said(p).rules BY <1>1, <1>5
<1> QED BY <1>1, <1>3, <1>4, <1>6, <1>7 DEF row

(* A row more.                                                             *)
LEMMA AddedIs ==
  ASSUME IInv, NEW p, IsProfile(p), Named(p), AddRouteProfile(p), UNCHANGED raced
  PROVE  /\ lastId \in Nat /\ lastId' = lastId + 1 /\ lastId + 1 \notin DOMAIN rows /\ lastId + 1 \in Int
         /\ RowsOK(rows', lastId') /\ Obeys(kept', rows', raced')
         /\ DOMAIN rows' = DOMAIN rows \cup {lastId + 1} /\ \A id \in DOMAIN rows : rows'[id] = rows[id]
         /\ Settings(rows'[lastId + 1]) = Settings(p)
         /\ lastId + 1 \in DOMAIN kept' /\ kept'[lastId + 1] = Said(p)
         /\ \A id \in DOMAIN kept : id # lastId + 1 => id \in DOMAIN kept' /\ kept'[id] = kept[id]
<1> DEFINE new == lastId + 1
           saved == WithId(p, new)
           row == saveToDatabase(saved)
<1>1. lastId < MaxId /\ lastId' = new /\ rows' = Put(rows, new, row) /\ kept' = Put(kept, new, Said(p))
      BY DEF AddRouteProfile, WithId
<1>2. /\ lastId \in 0 .. MaxId /\ DOMAIN rows \subseteq 1 .. lastId /\ MaxId \in Nat
      /\ \A id \in DOMAIN rows : RowOK(rows[id], id)
      BY RouteAssumption DEF IInv, RowsOK
<1>3. new \in Int /\ new \in 0 .. MaxId /\ new \notin DOMAIN rows /\ new \in 1 .. new /\ 1 .. lastId \subseteq 1 .. new
      BY <1>1, <1>2
<1>4. IsProfile(saved) /\ saved.id = new /\ saved.name = p.name /\ saved.url = p.url /\ saved.auto = p.auto
      /\ saved.remote = p.remote /\ saved.rules = p.rules
  <2>1. new \in Int BY <1>3
  <2> HIDE DEF new
  <2> QED BY <2>1, WithIdIs
<1> HIDE DEF saved
<1>5. Named(saved) BY <1>4 DEF Named
<1>6. /\ RowOK(row, new) /\ Settings(row) = Settings(saved) /\ row.remote = saved.remote
      /\ Agrees(row, Said(saved)) /\ (~row.remote => loadFromDatabase(row).rules = Said(saved).rules)
  <2> HIDE DEF new
  <2> QED BY <1>4, <1>5, SavedIs
<1>7. Said(saved) = Said(p) /\ Settings(saved) = Settings(p) BY <1>4 DEF Said, Settings
<1> HIDE DEF row, new
<1>8. DOMAIN rows' = DOMAIN rows \cup {new} /\ rows'[new] = row /\ \A id \in DOMAIN rows : rows'[id] = rows[id]
      BY <1>1, <1>3 DEF Put
<1>9. /\ DOMAIN kept' = DOMAIN kept \cup {new} /\ kept'[new] = Said(p)
      /\ \A id \in DOMAIN kept : id # new => kept'[id] = kept[id]
      BY <1>1 DEF Put
<1>10. RowsOK(rows', lastId')
  <2>1. DOMAIN rows' \subseteq 1 .. new BY <1>2, <1>3, <1>8
  <2> QED BY <1>1, <1>2, <1>3, <1>6, <1>8, <2>1 DEF RowsOK
<1>11. Obeys(kept', rows', raced')
  <2> SUFFICES ASSUME NEW id \in (DOMAIN kept' \cup DOMAIN rows') \ raced
               PROVE  /\ id \in DOMAIN kept' /\ id \in DOMAIN rows' /\ Agrees(rows'[id], kept'[id])
                      /\ ~rows'[id].remote => loadFromDatabase(rows'[id]).rules = kept'[id].rules
      BY DEF Obeys
  <2>1. CASE id = new BY <1>6, <1>7, <1>8, <1>9, <2>1
  <2>2. CASE id # new
    <3>1. /\ id \in DOMAIN kept /\ id \in DOMAIN rows /\ Agrees(rows[id], kept[id])
          /\ ~rows[id].remote => loadFromDatabase(rows[id]).rules = kept[id].rules
          BY <1>8, <1>9, <2>2 DEF IInv, Obeys
    <3> QED BY <1>8, <1>9, <2>2, <3>1
  <2> QED BY <2>1, <2>2
<1>12. lastId \in Nat BY <1>2
<1> QED BY <1>1, <1>3, <1>6, <1>7, <1>8, <1>9, <1>10, <1>11, <1>12 DEF new

(* What an added row leaves as it was.                                     *)
LEMMA AddedKeepsParts ==
  ASSUME IInv, NEW p, IsProfile(p), Named(p), AddRouteProfile(p), UNCHANGED <<current, raced>>,
         NEW o \in DOMAIN heap
  PROVE  /\ heap[o].id # lastId + 1 /\ ObjectOK(heap[o], lastId') /\ current' \in DOMAIN rows'
         /\ o \in PendingIn(job["auto"]) \cup PendingIn(job["link"]) /\ heap[o].id \notin raced' =>
              heap[o].id \in DOMAIN kept' /\ Agrees(heap[o], kept'[heap[o].id])
<1>1. /\ lastId \in Nat /\ lastId' = lastId + 1 /\ DOMAIN rows' = DOMAIN rows \cup {lastId + 1}
      /\ \A id \in DOMAIN kept : id # lastId + 1 => id \in DOMAIN kept' /\ kept'[id] = kept[id]
      BY AddedIs
<1>2. ObjectOK(heap[o], lastId) BY DEF IInv, ObjectsOK
<1>3. heap[o].id # lastId + 1 /\ heap[o].id \in 1 .. lastId' \cup {-1} BY <1>1, <1>2 DEF ObjectOK
<1>4. ObjectOK(heap[o], lastId') BY <1>2, <1>3 DEF ObjectOK
<1>5. ASSUME o \in PendingIn(job["auto"]) \cup PendingIn(job["link"]), heap[o].id \notin raced
      PROVE  heap[o].id \in DOMAIN kept' /\ Agrees(heap[o], kept'[heap[o].id])
  <2>1. heap[o].id \in DOMAIN kept /\ Agrees(heap[o], kept[heap[o].id]) BY <1>5 DEF IInv, PendingOK
  <2> QED BY <1>1, <1>3, <2>1
<1>6. current' \in DOMAIN rows' BY <1>1 DEF IInv
<1> QED BY <1>3, <1>4, <1>5, <1>6

LEMMA AddedStep ==
  ASSUME IInv, NEW p, IsProfile(p), Named(p), AddRouteProfile(p),
         UNCHANGED <<heap, identity, current, dialog, editor, job, raced>>
  PROVE  IInv'
<1>1. /\ RowsOK(rows', lastId') /\ Obeys(kept', rows', raced')
      /\ DOMAIN rows' = DOMAIN rows \cup {lastId + 1} /\ \A id \in DOMAIN rows : rows'[id] = rows[id]
      BY AddedIs
<1>2. KeptAs(heap, identity) BY UnchangedIs
<1>3. DOMAIN heap = Held(dialog, job) BY DEF IInv
<1>4. ObjectsOK(heap, dialog, job, lastId')
  <2>1. DOMAIN heap \subseteq Nat BY HeldInHeap
  <2> QED BY <1>3, <2>1, AddedKeepsParts DEF ObjectsOK
<1>5. MapOK(heap, identity, dialog, job, rows')
  <2> SUFFICES ASSUME NEW id \in DOMAIN identity, identity[id] \in Held(dialog, job)
               PROVE  /\ heap[identity[id]].id = id /\ id \in DOMAIN rows'
                      /\ Settings(heap[identity[id]]) = Settings(rows'[id])
      BY DEF MapOK
  <2>1. heap[identity[id]].id = id /\ id \in DOMAIN rows /\ Settings(heap[identity[id]]) = Settings(rows[id])
        BY DEF IInv, MapOK
  <2> QED BY <1>1, <2>1
<1>6. PendingOK(heap, job, kept', raced')
  <2>1. \A o \in PendingIn(job["auto"]) \cup PendingIn(job["link"]) : o \in DOMAIN heap
    <3>1. "auto" \in Jobs /\ "link" \in Jobs BY DEF Jobs
    <3>2. JobsOK(heap, job) BY DEF IInv
    <3>3. /\ PendingIn(job["auto"]) \subseteq ToSet(job["auto"].list)
          /\ PendingIn(job["link"]) \subseteq ToSet(job["link"].list)
          BY <3>1, <3>2, PendingHeld
    <3> QED BY <3>1, <3>3, HeldInHeap
  <2> QED BY <2>1, AddedKeepsParts DEF PendingOK
<1>7. current' \in DOMAIN rows' BY <1>1 DEF IInv
<1> QED BY <1>1, <1>2, <1>4, <1>5, <1>6, <1>7, StepIs DEF IInv

LEMMA ImportRouteKeeps ==
  ASSUME IInv, NEW doc \in Links, handle_import_route(doc)
  PROVE  IInv'
<1> DEFINE p == FromShareInput(Device, doc)
           name == "Imported profile"
           q == IF p.name = "" THEN WithName(p, name) ELSE p
<1>1. AddRouteProfile(q) /\ UNCHANGED <<heap, identity, current, dialog, editor, job, raced>>
      BY DEF handle_import_route, WithName
<1>2. IsProfile(p) /\ p.remote = FALSE BY DocumentIs, RouteAssumption
<1> HIDE DEF p, name
<1>3. IsProfile(q) /\ q.remote = FALSE
  <2>1. IsProfile(p) BY <1>2
  <2>2. IsProfile(WithName(p, name)) /\ WithName(p, name).remote = p.remote BY <2>1, WithNameIs
  <2> QED BY <1>2, <2>2
<1> HIDE DEF q
<1>4. Named(q) BY <1>3 DEF Named
<1> QED BY <1>1, <1>3, <1>4, AddedStep

LEMMA DownloadKeeps ==
  ASSUME IInv, NEW doc \in Links, NEW name, NEW default, DownloadProfile(doc, name, default)
  PROVE  IInv'
<1> DEFINE n == NewProfile
           rules == parseJsonArray(Device, doc.rules)
           q == AsRuled(n, name, default, rules)
<1>1. AddRouteProfile(q) /\ UNCHANGED <<heap, identity, current, dialog, editor, job, raced>> /\ doc.kind = "array"
      BY DEF DownloadProfile, AsRuled
<1>2. IsRules(rules) BY <1>1, DocumentIs, RouteAssumption
<1>3. IsProfile(n) /\ n.remote = FALSE BY NewProfileIs
<1> HIDE DEF n, rules
<1>4. IsProfile(q) /\ q.remote = n.remote
  <2>1. IsProfile(n) BY <1>3
  <2> QED BY <1>2, <2>1, AsRuledIs
<1> HIDE DEF q
<1>5. Named(q) BY <1>3, <1>4 DEF Named
<1> QED BY <1>1, <1>4, <1>5, AddedStep

LEMMA AddRemoteKeeps ==
  ASSUME IInv, NEW link \in RemoteLinks, handle_add_remote_routes(link)
  PROVE  IInv'
<1> DEFINE p == FromRemoteRoutesLink(link)
           new == lastId + 1
           saved == WithId(p, new)
           objects == Put(heap, Fresh, saved)
           map == Put(identity, new, Fresh)
           one == <<Fresh>>
           work == Busy(one)
           jobs == [job EXCEPT !["link"] = work]
<1>1. /\ AddRouteProfile(p) /\ Keep(objects, map, dialog, jobs) /\ UNCHANGED <<current, editor, raced>>
      BY DEF handle_add_remote_routes, WithId
<1>2. IsProfile(p) /\ p.id = -1 /\ p.remote = TRUE /\ p.url = link.url /\ p.name = link.name /\ Named(p) BY LinkedIs
<1> HIDE DEF p
<1>3. /\ lastId \in Nat /\ lastId' = new /\ new \notin DOMAIN rows /\ new \in Int
      /\ RowsOK(rows', lastId') /\ Obeys(kept', rows', raced')
      /\ DOMAIN rows' = DOMAIN rows \cup {new} /\ \A id \in DOMAIN rows : rows'[id] = rows[id]
      /\ Settings(rows'[new]) = Settings(p)
      /\ new \in DOMAIN kept' /\ kept'[new] = Said(p)
      BY <1>1, <1>2, AddedIs
<1>4. IsProfile(saved) /\ saved.id = new /\ saved.name = p.name /\ saved.url = p.url /\ saved.auto = p.auto
      /\ saved.remote = p.remote
  <2>1. new \in Int BY <1>3
  <2> HIDE DEF new
  <2> QED BY <1>2, <2>1, WithIdIs
<1>5. new # -1 /\ new \in 1 .. lastId' BY <1>3
<1> HIDE DEF saved, new
<1>6. Named(saved) /\ Settings(saved) = Settings(p) BY <1>2, <1>4 DEF Named, Settings
<1>7. ObjectOK(saved, lastId') BY <1>4, <1>5, <1>6 DEF ObjectOK
<1>8. /\ Grown(objects) /\ Fresh \in Nat \ DOMAIN heap
      /\ DOMAIN objects = DOMAIN heap \cup {Fresh} /\ objects[Fresh] = saved
      BY OneMore
<1> HIDE DEF objects
<1>9. JobsOK(objects, job) /\ DialogOK(objects, dialog) /\ EditorOK(objects, dialog, editor) BY <1>8, GrownParts
<1>10. one \in Seq(Nat) /\ ToSet(one) = {Fresh} BY <1>8, OneOf
<1> HIDE DEF one
<1>11. "link" \in Jobs /\ "auto" \in Jobs /\ "auto" # "link" BY DEF Jobs
<1>12. /\ JobOK(objects, [job EXCEPT !["link"] = work], "link")
       /\ work.list = one /\ PendingIn(work) \subseteq ToSet(one)
  <2>1. \A o \in ToSet(one) : objects[o].id # -1 /\ objects[o].remote BY <1>2, <1>4, <1>5, <1>8, <1>10
  <2> QED BY <1>10, <1>11, <2>1, BusyIs
<1> HIDE DEF work
<1>13. JobsOK(objects, jobs) /\ jobs["link"] = work /\ \A k \in Jobs : k # "link" => jobs[k] = job[k]
       BY <1>9, <1>11, <1>12, JobReplaced
<1> HIDE DEF jobs
<1>14. ASSUME NEW o \in Held(dialog, jobs) PROVE o \in DOMAIN heap \/ o = Fresh
  <2>1. \A j \in Jobs : \A u \in ToSet(jobs[j].list) : u \in DOMAIN heap \/ u = Fresh
        BY <1>10, <1>12, <1>13, HeldInHeap
  <2>2. dialog # None => (\A u \in ToSet(dialog.list) : u \in DOMAIN heap) /\ dialog.current \in DOMAIN heap
        BY HeldInHeap
  <2> QED BY <2>1, <2>2, HeldIs
<1>15. Held(dialog, jobs) \subseteq DOMAIN objects BY <1>8, <1>14
<1>16. KeptAs(objects, map) /\ dialog' = dialog /\ job' = jobs BY <1>1, <1>15, KeepIs
<1>17. \A o \in DOMAIN heap :
         /\ objects[o] = heap[o] /\ ObjectOK(heap[o], lastId') /\ current' \in DOMAIN rows'
         /\ o \in PendingIn(job["auto"]) \cup PendingIn(job["link"]) /\ heap[o].id \notin raced' =>
              heap[o].id \in DOMAIN kept' /\ Agrees(heap[o], kept'[heap[o].id])
       BY <1>1, <1>2, <1>8, AddedKeepsParts DEF Grown
<1>18. ObjectsOK(objects, dialog, jobs, lastId')
  <2>1. DOMAIN heap \subseteq Nat BY HeldInHeap
  <2> QED BY <1>7, <1>8, <1>14, <1>15, <1>17, <2>1 DEF ObjectsOK
<1>19. MapOK(objects, map, dialog, jobs, rows')
  <2>1. DOMAIN map = DOMAIN identity \cup {new} /\ map[new] = Fresh
        /\ \A id \in DOMAIN identity : id # new => map[id] = identity[id]
        BY DEF Put
  <2> HIDE DEF map
  <2> SUFFICES ASSUME NEW id \in DOMAIN map
               PROVE  /\ objects[map[id]].id = id /\ id \in DOMAIN rows'
                      /\ Settings(objects[map[id]]) = Settings(rows'[id])
      BY DEF MapOK
  <2>2. CASE id = new BY <1>3, <1>4, <1>6, <1>8, <2>1, <2>2
  <2>3. CASE id # new
    <3>1. identity[id] \in DOMAIN heap /\ id \in DOMAIN identity BY <2>1, <2>3 DEF IInv
    <3>2. heap[identity[id]].id = id /\ id \in DOMAIN rows /\ Settings(heap[identity[id]]) = Settings(rows[id])
          BY <3>1 DEF IInv, MapOK
    <3> QED BY <1>3, <1>17, <2>1, <2>3, <3>1, <3>2
  <2> QED BY <2>2, <2>3
<1>20. PendingOK(objects, jobs, kept', raced')
  <2>1. PendingIn(job["auto"]) \subseteq DOMAIN heap
    <3>1. JobsOK(heap, job) BY DEF IInv
    <3>2. PendingIn(job["auto"]) \subseteq ToSet(job["auto"].list) BY <1>11, <3>1, PendingHeld
    <3> QED BY <1>11, <3>2, HeldInHeap
  <2>2. jobs["auto"] = job["auto"] /\ PendingIn(jobs["link"]) \subseteq {Fresh} BY <1>10, <1>11, <1>12, <1>13
  <2>3. new \in DOMAIN kept' /\ Agrees(saved, kept'[new])
    <3>1. Said(p).url = p.url /\ Said(p).auto = p.auto /\ Said(p).name = p.name BY DEF Said
    <3> QED BY <1>3, <1>4, <3>1 DEF Agrees
  <2>4. ASSUME NEW o \in PendingIn(jobs["auto"]), objects[o].id \notin raced'
        PROVE  objects[o].id \in DOMAIN kept' /\ Agrees(objects[o], kept'[objects[o].id])
        BY <1>17, <2>1, <2>2, <2>4
  <2>5. ASSUME NEW o \in PendingIn(jobs["link"])
        PROVE  objects[o].id \in DOMAIN kept' /\ Agrees(objects[o], kept'[objects[o].id])
        BY <1>4, <1>8, <2>2, <2>3
  <2> QED BY <2>4, <2>5 DEF PendingOK
<1>21. current' \in DOMAIN rows' BY <1>1, <1>3 DEF IInv
<1> QED BY <1>1, <1>3, <1>9, <1>13, <1>16, <1>18, <1>19, <1>20, <1>21, StepIs

-----------------------------------------------------------------------------
(* Steps that load every row: the live object of each, or a new one.       *)

LEMMA RowsAre ==
  ASSUME IInv
  PROVE  lastId \in Nat /\ DOMAIN rows \subseteq 1 .. lastId /\ \A id \in DOMAIN rows : RowOK(rows[id], id)
<1>1. lastId \in 0 .. MaxId /\ DOMAIN rows \subseteq 1 .. lastId /\ \A id \in DOMAIN rows : RowOK(rows[id], id)
      BY DEF IInv, RowsOK
<1>2. MaxId \in Nat BY RouteAssumption
<1>3. lastId \in Nat BY <1>1, <1>2
<1> QED BY <1>1, <1>3

LEMMA LoadedIs ==
  ASSUME IInv
  PROVE  LET L == Loaded
         IN  /\ Grown(L.objects) /\ DOMAIN L.map = DOMAIN rows
             /\ \A id \in DOMAIN rows :
                  /\ L.map[id] \in DOMAIN L.objects /\ L.objects[L.map[id]].id = id
                  /\ ObjectOK(L.objects[L.map[id]], lastId)
                  /\ Settings(L.objects[L.map[id]]) = Settings(rows[id])
             /\ L.list \in Seq(Nat) /\ ToSet(L.list) = {L.map[id] : id \in DOMAIN rows}
             /\ \A i, k \in DOMAIN L.list : L.list[i] = L.list[k] => i = k
<1> DEFINE unknown == DOMAIN rows \ DOMAIN identity
           rank(id) == Cardinality({i \in unknown : i <= id})
           free == Free(Cardinality(unknown))
           new == [id \in unknown |-> free[rank(id)]]
           object == [id \in DOMAIN rows |-> IF id \in unknown THEN new[id] ELSE identity[id]]
           rowOf(o) == rows[CHOOSE id \in unknown : new[id] = o]
           ids == InOrder(DOMAIN rows)
           list == [i \in 1 .. Cardinality(DOMAIN rows) |-> object[ids[i]]]
           objects == [o \in DOMAIN heap \cup {new[id] : id \in unknown} |->
                         IF o \in DOMAIN heap THEN heap[o] ELSE loadFromDatabase(rowOf(o))]
<1>1. Loaded.list = list /\ Loaded.map = object /\ Loaded.objects = objects BY DEF Loaded
<1>2. /\ lastId \in Nat /\ DOMAIN rows \subseteq 1 .. lastId /\ \A id \in DOMAIN rows : RowOK(rows[id], id)
      BY RowsAre
<1>3. DOMAIN rows \in SUBSET Int /\ IsFiniteSet(DOMAIN rows)
  <2>1. IsFiniteSet(1 .. lastId) BY <1>2, FS_Interval
  <2> QED BY <1>2, <2>1, FS_Subset
<1>4. unknown \in SUBSET Int /\ IsFiniteSet(unknown)
  <2>1. unknown \in SUBSET DOMAIN rows OBVIOUS
  <2> QED BY <1>3, <2>1, FS_Subset
<1>5. /\ Cardinality(unknown) \in Nat
      /\ \A id \in unknown : rank(id) \in 1 .. Cardinality(unknown)
      /\ \A id, k \in unknown : rank(id) = rank(k) => id = k
  <2> HIDE DEF unknown
  <2> QED BY <1>4, Ranks
<1>6. /\ \A i \in 1 .. Cardinality(unknown) : free[i] \in Nat \ DOMAIN heap
      /\ \A i, k \in 1 .. Cardinality(unknown) : free[i] = free[k] => i = k
      BY <1>5, FreeIs
<1>7. /\ \A id \in unknown : new[id] \in Nat \ DOMAIN heap
      /\ \A id, k \in unknown : new[id] = new[k] => id = k
  <2> HIDE DEF unknown, free, rank
  <2> QED BY <1>5, <1>6
<1>8. ASSUME NEW id \in unknown
      PROVE  objects[new[id]] = loadFromDatabase(rows[id]) /\ new[id] \in DOMAIN objects
  <2> HIDE DEF new, unknown
  <2>1. (CHOOSE k \in unknown : new[k] = new[id]) = id BY <1>7
  <2>2. rowOf(new[id]) = rows[id] BY <2>1
  <2> QED BY <1>7, <2>2
<1>9. Grown(objects)
  <2>1. DOMAIN heap \subseteq Nat BY HeldInHeap
  <2> HIDE DEF new, unknown
  <2>2. DOMAIN objects \subseteq Nat BY <1>7, <2>1
  <2>3. \A o \in DOMAIN heap : o \in DOMAIN objects /\ objects[o] = heap[o] OBVIOUS
  <2> HIDE DEF objects
  <2> QED BY <2>2, <2>3 DEF Grown
<1>10. \A id \in DOMAIN identity :
         /\ identity[id] \in DOMAIN heap /\ heap[identity[id]].id = id /\ id \in DOMAIN rows
         /\ Settings(heap[identity[id]]) = Settings(rows[id])
       BY DEF IInv, MapOK
<1>11. ASSUME NEW id \in DOMAIN rows
       PROVE  /\ object[id] \in DOMAIN objects /\ objects[object[id]].id = id
              /\ ObjectOK(objects[object[id]], lastId)
              /\ Settings(objects[object[id]]) = Settings(rows[id])
  <2>1. CASE id \in unknown
    <3> DEFINE p == loadFromDatabase(rows[id])
    <3>1. IsProfile(p) /\ p.id = id /\ rows[id] = saveToDatabase(p) /\ Named(p) BY <1>2 DEF RowOK
    <3>2. object[id] = new[id] /\ objects[object[id]] = p /\ object[id] \in DOMAIN objects BY <1>8, <2>1
    <3> HIDE DEF p, objects, object
    <3>3. Settings(rows[id]) = Settings(p) BY <3>1, SavedIs
    <3>4. p.id \in 1 .. lastId BY <1>2, <3>1
    <3>5. ObjectOK(p, lastId) BY <3>1, <3>4 DEF ObjectOK
    <3> QED BY <3>1, <3>2, <3>3, <3>5
  <2>2. CASE id \notin unknown
    <3>1. id \in DOMAIN identity /\ object[id] = identity[id] BY <2>2
    <3>2. objects[identity[id]] = heap[identity[id]] /\ identity[id] \in DOMAIN objects BY <1>9, <1>10, <3>1 DEF Grown
    <3>3. ObjectOK(heap[identity[id]], lastId) BY <1>10, <3>1 DEF IInv, ObjectsOK
    <3> HIDE DEF objects, object
    <3> QED BY <1>10, <3>1, <3>2, <3>3
  <2> QED BY <2>1, <2>2
<1>12. DOMAIN object = DOMAIN rows OBVIOUS
<1> HIDE DEF objects, object
<1> DEFINE n == Cardinality(DOMAIN rows)
<1>13. /\ n \in Nat /\ ids \in [1 .. n -> DOMAIN rows]
       /\ \A id \in DOMAIN rows : \E i \in 1 .. n : ids[i] = id
       /\ \A i, k \in 1 .. n : ids[i] = ids[k] => i = k
       BY <1>3, InOrderCounts
<1>14. /\ \A id \in DOMAIN rows : object[id] \in Nat
       /\ \A id, k \in DOMAIN rows : object[id] = object[k] => id = k
       BY <1>9, <1>11 DEF Grown
<1>15. list = [i \in 1 .. n |-> object[ids[i]]] OBVIOUS
<1> HIDE DEF ids, n, list
<1>16. \A i \in 1 .. n : ids[i] \in DOMAIN rows /\ object[ids[i]] \in Nat BY <1>13, <1>14
<1>17. list \in Seq(Nat) /\ DOMAIN list = 1 .. n BY <1>13, <1>15, <1>16
<1>18. ToSet(list) = {object[id] : id \in DOMAIN rows}
  <2>1. ToSet(list) = {object[ids[i]] : i \in 1 .. n} BY <1>15, <1>17 DEF ToSet
  <2>2. {object[ids[i]] : i \in 1 .. n} = {object[id] : id \in DOMAIN rows} BY <1>13, <1>16
  <2> QED BY <2>1, <2>2
<1>19. \A i, k \in DOMAIN list : list[i] = list[k] => i = k BY <1>13, <1>14, <1>15, <1>16, <1>17
<1> DEFINE L == Loaded
<1>20. L.list = list /\ L.map = object /\ L.objects = objects BY <1>1
<1> HIDE DEF L
<1> SUFFICES /\ Grown(L.objects) /\ DOMAIN L.map = DOMAIN rows
             /\ \A id \in DOMAIN rows :
                  /\ L.map[id] \in DOMAIN L.objects /\ L.objects[L.map[id]].id = id
                  /\ ObjectOK(L.objects[L.map[id]], lastId)
                  /\ Settings(L.objects[L.map[id]]) = Settings(rows[id])
             /\ L.list \in Seq(Nat) /\ ToSet(L.list) = {L.map[id] : id \in DOMAIN rows}
             /\ \A i, k \in DOMAIN L.list : L.list[i] = L.list[k] => i = k
    BY DEF L
<1> QED BY <1>9, <1>11, <1>12, <1>17, <1>18, <1>19, <1>20

LEMMA OpenDialogKeeps == IInv /\ OpenDialog => IInv'
<1> SUFFICES ASSUME IInv, OpenDialog PROVE IInv' OBVIOUS
<1> DEFINE L == Loaded
           list == L.list
           map == L.map
           objects == L.objects
           d == [list |-> list, current |-> map[current], saw |-> DOMAIN rows]
<1>1. /\ dialog = None /\ current \in DOMAIN rows /\ UNCHANGED <<rows, lastId, current, editor, kept, raced>>
      /\ editor = None
      BY DEF OpenDialog, Stored, Unspent, IInv, EditorOK
<1>2. Keep(objects, map, d, job) BY <1>1 DEF OpenDialog
<1>3. /\ Grown(objects) /\ DOMAIN map = DOMAIN rows
      /\ \A id \in DOMAIN rows :
           /\ map[id] \in DOMAIN objects /\ objects[map[id]].id = id
           /\ ObjectOK(objects[map[id]], lastId)
           /\ Settings(objects[map[id]]) = Settings(rows[id])
      /\ list \in Seq(Nat) /\ ToSet(list) = {map[id] : id \in DOMAIN rows}
      /\ \A i, k \in DOMAIN list : list[i] = list[k] => i = k
      BY LoadedIs
<1> HIDE DEF L, list, map, objects
<1>4. map[current] \in ToSet(list) /\ map[current] \in Nat /\ DOMAIN rows \subseteq Nat
  <2>1. DOMAIN rows \subseteq 1 .. lastId /\ lastId \in Nat BY RowsAre
  <2> QED BY <1>1, <1>3, <2>1 DEF Grown
<1>5. d \in [list : Seq(Nat), current : Nat, saw : SUBSET Nat] /\ d.list = list /\ d.current = map[current] BY <1>3, <1>4
<1>6. d # None \/ d = None OBVIOUS
<1> HIDE DEF d
<1>7. DialogOK(objects, d)
  <2>1. \A o, u \in ToSet(list) : objects[o].id = objects[u].id => o = u BY <1>3
  <2> QED BY <1>3, <1>4, <1>5, <2>1 DEF DialogOK
<1>8. EditorOK(objects, d, editor') BY <1>1 DEF EditorOK
<1>9. JobsOK(objects, job) /\ PendingOK(objects, job, kept, raced) BY <1>3, GrownParts
<1>10. ASSUME NEW o \in Held(d, job) PROVE o \in DOMAIN objects /\ (o \notin DOMAIN heap => ObjectOK(objects[o], lastId))
  <2>1. o \in ToSet(d.list) \/ o = d.current \/ \E j \in Jobs : o \in ToSet(job[j].list) BY HeldIs
  <2>2. (\E id \in DOMAIN rows : o = map[id]) \/ o \in DOMAIN heap BY <1>1, <1>3, <1>5, <2>1, HeldInHeap
  <2> QED BY <1>3, <2>2 DEF Grown
<1> QED BY <1>1, <1>2, <1>3, <1>7, <1>8, <1>9, <1>10, GrownStep

LEMMA UpdateAllKeeps == IInv /\ UI_update_all_remote_routes => IInv'
<1> SUFFICES ASSUME IInv, UI_update_all_remote_routes PROVE IInv' OBVIOUS
<1> DEFINE L == Loaded
           list == L.list
           map == L.map
           objects == L.objects
           work == Busy(list)
           jobs == [job EXCEPT !["auto"] = work]
<1>1. /\ UNCHANGED <<rows, lastId, current, editor, kept, raced>> /\ Keep(objects, map, dialog, jobs)
      BY DEF UI_update_all_remote_routes, Stored
<1>3. /\ Grown(objects) /\ DOMAIN map = DOMAIN rows
      /\ \A id \in DOMAIN rows :
           /\ map[id] \in DOMAIN objects /\ objects[map[id]].id = id
           /\ ObjectOK(objects[map[id]], lastId)
           /\ Settings(objects[map[id]]) = Settings(rows[id])
      /\ list \in Seq(Nat) /\ ToSet(list) = {map[id] : id \in DOMAIN rows}
      BY LoadedIs
<1> HIDE DEF L, list, map, objects
<1>4. /\ JobsOK(objects, job) /\ PendingOK(objects, job, kept, raced)
      /\ DialogOK(objects, dialog) /\ EditorOK(objects, dialog, editor)
      BY <1>3, GrownParts
<1>5. "auto" \in Jobs /\ "link" \in Jobs /\ "auto" # "link" BY DEF Jobs
<1>6. /\ JobOK(objects, [job EXCEPT !["auto"] = work], "auto")
      /\ work.list = list /\ PendingIn(work) \subseteq ToSet(list)
  <2>1. \A o \in ToSet(list) : objects[o].id # -1
    <3>1. DOMAIN rows \subseteq 1 .. lastId /\ lastId \in Nat BY RowsAre
    <3> QED BY <1>3, <3>1
  <2>2. "auto" # "link" BY <1>5
  <2> QED BY <1>3, <1>5, <2>1, <2>2, BusyIs
<1> HIDE DEF work
<1>7. JobsOK(objects, jobs) /\ jobs["auto"] = work /\ \A k \in Jobs : k # "auto" => jobs[k] = job[k]
      BY <1>4, <1>5, <1>6, JobReplaced
<1> HIDE DEF jobs
<1>8. PendingOK(objects, jobs, kept, raced)
  <2>1. ASSUME NEW o \in PendingIn(jobs["link"]), objects[o].id \notin raced
        PROVE  objects[o].id \in DOMAIN kept /\ Agrees(objects[o], kept[objects[o].id])
        BY <1>4, <1>5, <1>7, <2>1 DEF PendingOK
  <2>2. ASSUME NEW o \in PendingIn(jobs["auto"]), objects[o].id \notin raced
        PROVE  objects[o].id \in DOMAIN kept /\ Agrees(objects[o], kept[objects[o].id])
    <3>1. PICK id \in DOMAIN rows : o = map[id] BY <1>3, <1>6, <1>7
    <3>2. objects[o].id = id /\ Settings(objects[o]) = Settings(rows[id]) BY <1>3, <3>1
    <3>3. id \in DOMAIN kept /\ Agrees(rows[id], kept[id]) BY <2>2, <3>2 DEF IInv, Obeys
    <3>4. objects[o].name = rows[id].name /\ objects[o].url = rows[id].url /\ objects[o].auto = rows[id].auto
          BY <3>2 DEF Settings
    <3> QED BY <3>2, <3>3, <3>4 DEF Agrees
  <2> QED BY <2>1, <2>2 DEF PendingOK
<1>9. ASSUME NEW o \in Held(dialog, jobs)
      PROVE  o \in DOMAIN objects /\ (o \notin DOMAIN heap => ObjectOK(objects[o], lastId))
  <2>1. \A j \in Jobs : \A u \in ToSet(jobs[j].list) : u \in DOMAIN heap \/ u \in ToSet(list)
        BY <1>6, <1>7, HeldInHeap
  <2>2. dialog # None => (\A u \in ToSet(dialog.list) : u \in DOMAIN heap) /\ dialog.current \in DOMAIN heap
        BY HeldInHeap
  <2>3. (\E id \in DOMAIN rows : o = map[id]) \/ o \in DOMAIN heap BY <1>3, <2>1, <2>2, HeldIs
  <2> QED BY <1>3, <2>3 DEF Grown
<1> QED BY <1>1, <1>3, <1>4, <1>7, <1>8, <1>9, GrownStep

-----------------------------------------------------------------------------
(* A thread saves: the row of an object that says what the user said.      *)

LEMMA SaveKeeps ==
  ASSUME IInv, NEW j \in Jobs, SaveFetched(j)
  PROVE  IInv'
<1> DEFINE o == job[j].list[job[j].at]
           p == heap[o]
           id == p.id
           row == saveToDatabase(p)
           map == Put(identity, id, o)
<1>1. /\ job[j].pc = "save" /\ rows' = Put(rows, id, row) /\ Keep(heap, map, dialog, Next1(j))
      /\ UNCHANGED <<kept, raced, lastId, current, editor>>
      BY DEF SaveFetched, Unspent
<1>2. /\ job[j].at > 0 /\ j # "dialog" /\ p.remote /\ \A u \in ToSet(job[j].list) : heap[u].id # -1
      BY <1>1, JobIs DEF JobOK
<1>3. o \in ToSet(job[j].list) /\ o \in PendingIn(job[j]) /\ o \in DOMAIN heap /\ ObjectOK(p, lastId)
  <2>0. job[j].at \in Nat /\ Len(job[j].list) \in Nat /\ job[j].at <= Len(job[j].list) BY JobIs
  <2>1. job[j].at \in 1 .. Len(job[j].list) BY <1>2, <2>0
  <2>2. o \in ToSet(job[j].list) BY <2>1, JobIs
  <2>3. JobsOK(heap, job) BY DEF IInv
  <2>4. o \in PendingIn(job[j]) BY <1>2, <2>3, PendingHeld
  <2> QED BY <2>2, <2>4, HeldInHeap
<1>4. IsProfile(p) /\ Named(p) /\ id \in 1 .. lastId BY <1>2, <1>3 DEF ObjectOK
<1>5. /\ j = "auto" \/ j = "link"
      /\ id \notin raced => id \in DOMAIN kept /\ Agrees(p, kept[id])
      BY <1>2, <1>3 DEF Jobs, IInv, PendingOK
<1> HIDE DEF p
<1>6. RowOK(row, id) /\ Settings(row) = Settings(p) /\ row.remote = p.remote BY <1>4, SavedIs
<1> HIDE DEF row, id
<1>7. DOMAIN rows' = DOMAIN rows \cup {id} /\ rows'[id] = row /\ \A k \in DOMAIN rows : k # id => rows'[k] = rows[k]
      BY <1>1 DEF Put
<1>8. DOMAIN map = DOMAIN identity \cup {id} /\ map[id] = o /\ \A k \in DOMAIN identity : k # id => map[k] = identity[k]
      BY DEF Put
<1> HIDE DEF o, map
<1>9. RowsOK(rows', lastId') BY <1>1, <1>4, <1>6, <1>7 DEF IInv, RowsOK
<1>10. Obeys(kept, rows', raced)
  <2> SUFFICES ASSUME NEW k \in (DOMAIN kept \cup DOMAIN rows') \ raced
               PROVE  /\ k \in DOMAIN kept /\ k \in DOMAIN rows' /\ Agrees(rows'[k], kept[k])
                      /\ ~rows'[k].remote => loadFromDatabase(rows'[k]).rules = kept[k].rules
      BY DEF Obeys
  <2>1. CASE k = id
    <3>1. k \in DOMAIN kept /\ Agrees(p, kept[k]) BY <1>5, <2>1
    <3>2. row.name = p.name /\ row.url = p.url /\ row.auto = p.auto BY <1>6 DEF Settings
    <3>3. Agrees(row, kept[k]) BY <3>1, <3>2 DEF Agrees
    <3> QED BY <1>2, <1>6, <1>7, <2>1, <3>1, <3>3 DEF p
  <2>2. CASE k # id
    <3>1. /\ k \in DOMAIN kept /\ k \in DOMAIN rows /\ Agrees(rows[k], kept[k])
          /\ ~rows[k].remote => loadFromDatabase(rows[k]).rules = kept[k].rules
          BY <1>7, <2>2 DEF IInv, Obeys
    <3> QED BY <1>7, <2>2, <3>1
  <2> QED BY <2>1, <2>2
<1>11. JobsOK(heap, job) /\ PendingOK(heap, job, kept, raced) BY DEF IInv
<1>12. PICK work : /\ Next1(j) = [job EXCEPT ![j] = work] /\ JobOK(heap, [job EXCEPT ![j] = work], j)
                   /\ ToSet(work.list) \subseteq DOMAIN heap /\ PendingIn(work) \subseteq PendingIn(job[j])
       BY <1>11, Next1Is
<1> DEFINE jobs == [job EXCEPT ![j] = work]
<1>13. /\ JobsOK(heap, jobs) /\ PendingOK(heap, jobs, kept, raced)
       /\ jobs[j] = work /\ \A k \in Jobs : k # j => jobs[k] = job[k]
  <2>1. JobOK(heap, [job EXCEPT ![j] = work], j) /\ PendingIn(work) \subseteq PendingIn(job[j]) BY <1>12
  <2> QED BY <1>11, <2>1, OneJob
<1>14. Keep(heap, map, dialog, jobs) BY <1>1, <1>12
<1> HIDE DEF jobs
<1>15. Held(dialog, jobs) \subseteq DOMAIN heap
  <2>1. \A k \in Jobs : \A u \in ToSet(jobs[k].list) : u \in DOMAIN heap BY <1>12, <1>13, HeldInHeap
  <2> QED BY <2>1, HeldIs, HeldInHeap
<1>16. KeptAs(heap, map) /\ dialog' = dialog /\ job' = jobs BY <1>14, <1>15, KeepIs
<1>17. ObjectsOK(heap, dialog, jobs, lastId) BY <1>15 DEF IInv, ObjectsOK
<1>18. MapOK(heap, map, dialog, jobs, rows')
  <2> SUFFICES ASSUME NEW k \in DOMAIN map
               PROVE  /\ heap[map[k]].id = k /\ k \in DOMAIN rows'
                      /\ Settings(heap[map[k]]) = Settings(rows'[k])
      BY DEF MapOK
  <2>1. CASE k = id BY <1>6, <1>7, <1>8, <2>1 DEF p, id
  <2>2. CASE k # id
    <3>1. k \in DOMAIN identity /\ identity[k] \in DOMAIN heap BY <1>8, <2>2 DEF IInv
    <3>2. heap[identity[k]].id = k /\ k \in DOMAIN rows /\ Settings(heap[identity[k]]) = Settings(rows[k])
          BY <3>1 DEF IInv, MapOK
    <3> QED BY <1>7, <1>8, <2>2, <3>1, <3>2
  <2> QED BY <2>1, <2>2
<1>19. current' \in DOMAIN rows' BY <1>1, <1>7 DEF IInv
<1>20. DialogOK(heap, dialog) /\ EditorOK(heap, dialog, editor) BY DEF IInv
<1> QED BY <1>1, <1>9, <1>10, <1>13, <1>16, <1>17, <1>18, <1>19, <1>20, StepIs

-----------------------------------------------------------------------------
(* The dialog saves its list.                                              *)

(* New profiles get the ids after the last one, each its own.              *)
LEMMA NumberedIs ==
  ASSUME IInv, dialog # None
  PROVE  LET list == dialog.list
             objects == Numbered(list)
             last == lastId + Cardinality(New(list))
         IN  /\ last \in Nat /\ lastId <= last /\ DOMAIN objects = DOMAIN heap
             /\ \A o \in DOMAIN heap :
                  /\ IsProfile(objects[o]) /\ objects[o].id \in 1 .. last \cup {-1}
                  /\ objects[o].name = heap[o].name /\ objects[o].url = heap[o].url /\ objects[o].auto = heap[o].auto
                  /\ objects[o].remote = heap[o].remote
                  /\ heap[o].id # -1 => objects[o].id = heap[o].id
             /\ \A o \in ToSet(list) : objects[o].id \in 1 .. last
             /\ \A o, u \in ToSet(list) : objects[o].id = objects[u].id => o = u
<1> DEFINE list == dialog.list
           objects == Numbered(list)
           new == New(list)
           last == lastId + Cardinality(new)
           rank(i) == Cardinality({k \in new : k <= i})
           at(o) == CHOOSE k \in DOMAIN list : list[k] = o
           given(o) == WithId(heap[o], lastId + rank(at(o)))
<1>1. /\ list \in Seq(Nat) /\ Len(list) \in Nat /\ DOMAIN list = 1 .. Len(list)
      /\ \A i \in 1 .. Len(list) : list[i] \in ToSet(list)
      /\ \A o \in ToSet(list) : o \in DOMAIN heap
      BY HeldInHeap
<1>2. /\ \A i, k \in DOMAIN list : list[i] = list[k] => i = k
      /\ \A o, u \in ToSet(list) : heap[o].id = heap[u].id /\ heap[o].id # -1 => o = u
      BY DEF IInv, DialogOK
<1>3. lastId \in Nat BY RowsAre
<1>4. \A o \in DOMAIN heap : IsProfile(heap[o]) /\ heap[o].id \in 1 .. lastId \cup {-1}
      BY DEF IInv, ObjectsOK, ObjectOK
<1>5. new \in SUBSET Int /\ IsFiniteSet(new) /\ new \subseteq DOMAIN list
  <2>1. IsFiniteSet(1 .. Len(list)) BY <1>1, FS_Interval
  <2>2. new \in SUBSET (1 .. Len(list)) BY <1>1 DEF New
  <2> HIDE DEF new
  <2>3. IsFiniteSet(new) BY <2>1, <2>2, FS_Subset
  <2> QED BY <1>1, <2>2, <2>3
<1>6. \A i \in DOMAIN list : i \in new <=> heap[list[i]].id < 0 BY DEF New
<1> HIDE DEF new
<1>7. /\ Cardinality(new) \in Nat
      /\ \A i \in new : rank(i) \in 1 .. Cardinality(new)
      /\ \A i, k \in new : rank(i) = rank(k) => i = k
      BY <1>5, Ranks
<1>8. last \in Nat /\ lastId <= last BY <1>3, <1>7
<1>9. \A o \in ToSet(list) : at(o) \in DOMAIN list /\ list[at(o)] = o
  <2>1. \A o \in ToSet(list) : \E k \in DOMAIN list : list[k] = o BY <1>1, SeqFacts
  <2> QED BY <2>1
<1>10. objects = [o \in DOMAIN heap |-> IF o \in ToSet(list) /\ heap[o].id < 0 THEN given(o) ELSE heap[o]]
       BY DEF Numbered, WithId, new
<1> HIDE DEF objects, at, rank, list
<1>11. ASSUME NEW o \in ToSet(list), heap[o].id < 0
       PROVE  /\ objects[o] = given(o) /\ at(o) \in new /\ lastId + rank(at(o)) \in lastId + 1 .. last
              /\ lastId + rank(at(o)) \in Int
  <2>1. objects[o] = given(o) BY <1>1, <1>10, <1>11
  <2>2. at(o) \in new BY <1>6, <1>9, <1>11
  <2> QED BY <1>3, <1>7, <2>1, <2>2
<1>12. ASSUME NEW o \in DOMAIN heap, ~(o \in ToSet(list) /\ heap[o].id < 0) PROVE objects[o] = heap[o]
       BY <1>10, <1>12
<1>13. ASSUME NEW o \in ToSet(list), heap[o].id < 0
       PROVE  /\ IsProfile(objects[o]) /\ objects[o].id = lastId + rank(at(o))
              /\ objects[o].name = heap[o].name /\ objects[o].url = heap[o].url /\ objects[o].auto = heap[o].auto
              /\ objects[o].remote = heap[o].remote
  <2> DEFINE id == lastId + rank(at(o))
             p == heap[o]
  <2>1. objects[o] = WithId(p, id) /\ id \in Int BY <1>11, <1>13
  <2>2. IsProfile(p) BY <1>1, <1>4
  <2> HIDE DEF id, p
  <2>3. LET e == WithId(p, id)
        IN  IsProfile(e) /\ e.id = id /\ e.name = p.name /\ e.remote = p.remote /\ e.url = p.url /\ e.auto = p.auto
        BY <2>1, <2>2, WithIdIs
  <2> QED BY <2>1, <2>3 DEF id, p
<1> HIDE DEF last
<1>14. ASSUME NEW o \in DOMAIN heap
       PROVE  /\ IsProfile(objects[o]) /\ objects[o].id \in 1 .. last \cup {-1}
              /\ objects[o].name = heap[o].name /\ objects[o].url = heap[o].url /\ objects[o].auto = heap[o].auto
              /\ objects[o].remote = heap[o].remote
              /\ heap[o].id # -1 => objects[o].id = heap[o].id
  <2>1. CASE o \in ToSet(list) /\ heap[o].id < 0
    <3>1. heap[o].id = -1 BY <1>3, <1>4, <2>1
    <3>2. objects[o].id \in 1 .. last BY <1>3, <1>8, <1>11, <1>13, <2>1
    <3> QED BY <1>13, <2>1, <3>1, <3>2
  <2>2. CASE ~(o \in ToSet(list) /\ heap[o].id < 0)
    <3>1. objects[o] = heap[o] BY <1>12, <2>2
    <3>2. 1 .. lastId \subseteq 1 .. last BY <1>3, <1>8
    <3> QED BY <1>4, <3>1, <3>2
  <2> QED BY <2>1, <2>2
<1>15. ASSUME NEW o \in ToSet(list)
       PROVE  /\ objects[o].id \in 1 .. last
              /\ heap[o].id # -1 => objects[o].id = heap[o].id /\ objects[o].id \in 1 .. lastId
              /\ heap[o].id = -1 => objects[o].id = lastId + rank(at(o)) /\ at(o) \in new /\ objects[o].id \in lastId + 1 .. last
  <2>1. CASE heap[o].id = -1
    <3>1. heap[o].id < 0 BY <2>1
    <3>2. objects[o].id = lastId + rank(at(o)) /\ at(o) \in new /\ lastId + rank(at(o)) \in lastId + 1 .. last
          BY <1>11, <1>13, <3>1
    <3>3. lastId + 1 .. last \subseteq 1 .. last BY <1>3, <1>8
    <3> QED BY <2>1, <3>2, <3>3
  <2>2. CASE heap[o].id # -1
    <3>1. objects[o].id = heap[o].id BY <1>1, <1>14, <2>2
    <3>2. heap[o].id \in 1 .. lastId /\ 1 .. lastId \subseteq 1 .. last BY <1>1, <1>3, <1>4, <1>8, <2>2
    <3> QED BY <2>2, <3>1, <3>2
  <2> QED BY <2>1, <2>2
<1>16. ASSUME NEW o \in ToSet(list), NEW u \in ToSet(list), objects[o].id = objects[u].id PROVE o = u
  <2>1. CASE heap[o].id # -1 /\ heap[u].id # -1 BY <1>2, <1>15, <1>16, <2>1 DEF list
  <2>2. CASE heap[o].id = -1 /\ heap[u].id = -1
    <3>1. lastId + rank(at(o)) = lastId + rank(at(u)) /\ at(o) \in new /\ at(u) \in new BY <1>15, <1>16, <2>2
    <3>2. rank(at(o)) = rank(at(u)) BY <1>3, <1>7, <3>1
    <3>3. at(o) = at(u) BY <1>7, <3>1, <3>2
    <3> QED BY <1>9, <3>3
  <2>3. CASE heap[o].id = -1 /\ heap[u].id # -1
    <3>1. objects[o].id \in lastId + 1 .. last /\ objects[u].id \in 1 .. lastId BY <1>15, <2>3
    <3> QED BY <1>3, <1>8, <1>16, <3>1
  <2>4. CASE heap[o].id # -1 /\ heap[u].id = -1
    <3>1. objects[u].id \in lastId + 1 .. last /\ objects[o].id \in 1 .. lastId BY <1>15, <2>4
    <3> QED BY <1>3, <1>8, <1>16, <3>1
  <2> QED BY <2>1, <2>2, <2>3, <2>4
<1>17. DOMAIN objects = DOMAIN heap BY <1>10
<1>18. \A o \in ToSet(list) : objects[o].id \in 1 .. last BY <1>15
<1> QED BY <1>8, <1>14, <1>16, <1>17, <1>18 DEF objects, last, list, new

LEMMA AcceptKeeps == IInv /\ Accept => IInv'
<1> SUFFICES ASSUME IInv, Accept PROVE IInv' OBVIOUS
<1> DEFINE list == dialog.list
           objects == Numbered(list)
           last == lastId + Cardinality(New(list))
           ids == IdsOf(list, objects)
           objectOf(id) == ObjectOf(id, list, objects)
           unseen == DOMAIN rows \ (ids \cup dialog.saw)
           stale == StaleIn(list)
           map == IdentityAfter(list, objects)
<1>1. /\ dialog # None /\ editor = None /\ editor' = None /\ lastId' = last /\ last <= MaxId
      /\ rows' = [id \in ids |-> saveToDatabase(objects[objectOf(id)])]
      /\ current' = objects[dialog.current].id
      /\ kept' = [id \in ids \cup (unseen \cap DOMAIN kept) |-> IF id \in ids THEN Said(objects[objectOf(id)]) ELSE kept[id]]
      /\ raced' = (raced \cup unseen) \cup stale
      /\ Keep(objects, map, None, job)
      BY DEF Accept, AtList
<1>2. /\ last \in Nat /\ lastId <= last /\ DOMAIN objects = DOMAIN heap
      /\ \A o \in DOMAIN heap :
           /\ IsProfile(objects[o]) /\ objects[o].id \in 1 .. last \cup {-1}
           /\ objects[o].name = heap[o].name /\ objects[o].url = heap[o].url /\ objects[o].auto = heap[o].auto
           /\ objects[o].remote = heap[o].remote
           /\ heap[o].id # -1 => objects[o].id = heap[o].id
      /\ \A o \in ToSet(list) : objects[o].id \in 1 .. last
      /\ \A o, u \in ToSet(list) : objects[o].id = objects[u].id => o = u
      BY <1>1, NumberedIs
<1>3. /\ dialog.current \in ToSet(list) /\ \A o \in ToSet(list) : o \in DOMAIN heap
      /\ \A j \in Jobs : \A o \in ToSet(job[j].list) : o \in DOMAIN heap
      /\ DOMAIN heap \subseteq Nat
      BY <1>1, HeldInHeap
<1>4. /\ ids = {objects[o].id : o \in ToSet(list)}
      /\ \A id : objectOf(id) = CHOOSE o \in ToSet(list) : objects[o].id = id
      /\ map = [id \in (ids \cup DOMAIN identity) \ (DOMAIN rows \ ids) |->
                  IF id \in ids THEN objectOf(id) ELSE identity[id]]
      BY DEF IdsOf, ObjectOf, IdentityAfter
<1>5. stale = {heap[o].id : o \in (PendingIn(job["auto"]) \cup PendingIn(job["link"])) \ ToSet(list)}
      BY DEF StaleIn, Pending, PendingIn
<1> HIDE DEF list, objects, last, ids, objectOf, stale, map
<1>6. \A o \in ToSet(list) : objects[o].id \in ids /\ objectOf(objects[o].id) = o
  <2> SUFFICES ASSUME NEW o \in ToSet(list) PROVE objects[o].id \in ids /\ objectOf(objects[o].id) = o OBVIOUS
  <2>1. objects[o].id \in ids BY <1>4
  <2>2. \A u \in ToSet(list) : objects[u].id = objects[o].id => u = o BY <1>2
  <2>3. (CHOOSE u \in ToSet(list) : objects[u].id = objects[o].id) = o BY <2>2
  <2> QED BY <1>4, <2>1, <2>3
<1>7. \A id \in ids : objectOf(id) \in ToSet(list) /\ objects[objectOf(id)].id = id BY <1>4, <1>6
<1>8. \A o \in DOMAIN heap : ObjectOK(heap[o], lastId) BY DEF IInv, ObjectsOK
<1>9. ASSUME NEW o \in DOMAIN heap PROVE ObjectOK(objects[o], last) /\ IsProfile(objects[o]) /\ Named(objects[o])
      BY <1>2, <1>8 DEF ObjectOK, Named
<1>10. ASSUME NEW id \in ids
       PROVE  /\ RowOK(rows'[id], id) /\ Settings(rows'[id]) = Settings(objects[objectOf(id)]) /\ id \in DOMAIN rows'
              /\ id \in DOMAIN kept' /\ Agrees(rows'[id], kept'[id])
              /\ ~rows'[id].remote => loadFromDatabase(rows'[id]).rules = kept'[id].rules
              /\ kept'[id] = Said(objects[objectOf(id)])
  <2> DEFINE p == objects[objectOf(id)]
  <2>1. IsProfile(p) /\ Named(p) /\ p.id = id BY <1>3, <1>7, <1>9
  <2>2. id \in DOMAIN rows' /\ rows'[id] = saveToDatabase(p) /\ id \in DOMAIN kept' /\ kept'[id] = Said(p) BY <1>1
  <2> HIDE DEF p
  <2>3. LET row == saveToDatabase(p)
        IN  /\ RowOK(row, p.id) /\ Settings(row) = Settings(p) /\ row.remote = p.remote
            /\ Agrees(row, Said(p)) /\ (~row.remote => loadFromDatabase(row).rules = Said(p).rules)
        BY <2>1, SavedIs
  <2> QED BY <2>1, <2>2, <2>3 DEF p
<1>11. DOMAIN rows' = ids BY <1>1
<1>12. RowsOK(rows', lastId')
  <2>0. MaxId \in Nat BY RouteAssumption
  <2>1. last \in 0 .. MaxId BY <1>1, <1>2, <2>0
  <2>2. ids \subseteq 1 .. last BY <1>2, <1>7
  <2> QED BY <1>1, <1>10, <1>11, <2>1, <2>2 DEF RowsOK
<1>13. current' \in DOMAIN rows' BY <1>1, <1>3, <1>6, <1>11
<1>14. Obeys(kept', rows', raced')
  <2> SUFFICES ASSUME NEW id \in (DOMAIN kept' \cup DOMAIN rows') \ raced'
               PROVE  /\ id \in DOMAIN kept' /\ id \in DOMAIN rows' /\ Agrees(rows'[id], kept'[id])
                      /\ ~rows'[id].remote => loadFromDatabase(rows'[id]).rules = kept'[id].rules
      BY DEF Obeys
  <2>1. id \in ids BY <1>1, <1>11
  <2> QED BY <1>10, <2>1
<1>15. Held(None, job) \subseteq DOMAIN objects BY <1>2, <1>3, HeldIs
<1>16. KeptAs(objects, map) /\ dialog' = None /\ job' = job BY <1>1, <1>15, KeepIs
<1>17. ObjectsOK(objects, None, job, last) BY <1>2, <1>3, <1>9, <1>15 DEF ObjectsOK
<1>18. MapOK(objects, map, None, job, rows')
  <2> SUFFICES ASSUME NEW id \in DOMAIN map
               PROVE  /\ objects[map[id]].id = id /\ id \in DOMAIN rows'
                      /\ Settings(objects[map[id]]) = Settings(rows'[id])
      BY DEF MapOK
  <2>1. CASE id \in ids
    <3>1. map[id] = objectOf(id) BY <1>4, <2>1
    <3> QED BY <1>7, <1>10, <2>1, <3>1
  <2>2. CASE id \notin ids
    <3>1. id \in DOMAIN identity /\ id \notin DOMAIN rows BY <1>4, <2>2
    <3>2. identity[id] \in DOMAIN heap BY <3>1 DEF IInv
    <3>3. id \in DOMAIN rows BY <3>1, <3>2 DEF IInv, MapOK
    <3> QED BY <3>1, <3>3
  <2> QED BY <2>1, <2>2
<1>19. ASSUME NEW j \in Jobs PROVE JobOK(objects, job, j)
  <2>1. JobOK(heap, job, j) /\ JobsOK(heap, job) BY DEF IInv, JobsOK
  <2>2. PendingIn(job[j]) \subseteq ToSet(job[j].list) /\ (job[j].at > 0 => job[j].list[job[j].at] \in PendingIn(job[j]))
        BY <2>1, PendingHeld
  <2>3. job[j].at > 0 => job[j].list[job[j].at] \in DOMAIN heap BY <1>3, <2>2
  <2> QED BY <1>2, <1>3, <2>1, <2>3 DEF JobOK
<1>20. JobsOK(objects, job) BY <1>19 DEF IInv, JobsOK
<1>21. PendingOK(objects, job, kept', raced')
  <2> SUFFICES ASSUME NEW o \in PendingIn(job["auto"]) \cup PendingIn(job["link"]), objects[o].id \notin raced'
               PROVE  objects[o].id \in DOMAIN kept' /\ Agrees(objects[o], kept'[objects[o].id])
      BY DEF PendingOK
  <2>1. "auto" \in Jobs /\ "link" \in Jobs /\ "auto" # "dialog" /\ "link" # "dialog" BY DEF Jobs
  <2>2. JobsOK(heap, job) /\ JobOK(heap, job, "auto") /\ JobOK(heap, job, "link") BY <2>1 DEF IInv, JobsOK
  <2>3. o \in ToSet(job["auto"].list) \/ o \in ToSet(job["link"].list) BY <2>1, <2>2, PendingHeld
  <2>4. o \in DOMAIN heap /\ heap[o].id # -1 BY <1>3, <2>1, <2>2, <2>3 DEF JobOK
  <2>5. objects[o].id = heap[o].id BY <1>2, <2>4
  <2>6. CASE o \in ToSet(list)
    <3>1. objects[o].id \in DOMAIN kept' /\ kept'[objects[o].id] = Said(objects[o]) BY <1>6, <1>10, <2>6
    <3>2. Agrees(objects[o], Said(objects[o])) BY DEF Agrees, Said
    <3> QED BY <3>1, <3>2
  <2>7. CASE o \notin ToSet(list)
    <3>1. heap[o].id \in stale BY <1>5, <2>7
    <3> QED BY <1>1, <2>5, <3>1
  <2> QED BY <2>6, <2>7
<1>22. DialogOK(objects, None) /\ EditorOK(objects, None, editor') BY <1>1 DEF DialogOK, EditorOK
<1> QED BY <1>1, <1>12, <1>13, <1>14, <1>16, <1>17, <1>18, <1>20, <1>21, <1>22, StepIs

-----------------------------------------------------------------------------
(* The invariant holds at the first start and is kept by every step.       *)

LEMMA InitGives == Init => IInv
<1> SUFFICES ASSUME NEW store \in Stores,
                    /\ rows = [i \in DOMAIN store.rows |-> saveToDatabase(store.rows[i])]
                    /\ lastId = Len(store.rows)
                    /\ kept = [i \in DOMAIN store.rows |-> Said(store.rows[i])]
                    /\ heap = << >> /\ identity = << >> /\ raced = {}
                    /\ current = 1 /\ dialog = None /\ editor = None
                    /\ job = [j \in Jobs |-> Idle]
             PROVE  IInv
    BY DEF Init
<1> DEFINE n == Len(store.rows)
<1>1. /\ store.rows # << >> /\ store.rows \in Seq(ToSet(store.rows)) /\ n <= MaxId
      /\ \A id \in DOMAIN store.rows :
           IsProfile(store.rows[id]) /\ store.rows[id].id = id /\ Named(store.rows[id])
      BY RouteAssumption DEF IsStore
<1>2. n \in Nat /\ DOMAIN store.rows = 1 .. n /\ n # 0
  <2>1. n \in Nat /\ DOMAIN store.rows = 1 .. n BY <1>1, SeqFacts
  <2>2. n # 0 BY <1>1, EmptySeq
  <2> QED BY <2>1, <2>2
<1>3. MaxId \in Nat BY RouteAssumption
<1>4. DOMAIN rows = 1 .. n /\ DOMAIN kept = 1 .. n BY <1>2
<1>5. ASSUME NEW id \in 1 .. n
      PROVE  /\ RowOK(rows[id], id) /\ Agrees(rows[id], kept[id])
             /\ ~rows[id].remote => loadFromDatabase(rows[id]).rules = kept[id].rules
  <2> DEFINE p == store.rows[id]
  <2>1. IsProfile(p) /\ p.id = id /\ Named(p) BY <1>1, <1>2
  <2>2. rows[id] = saveToDatabase(p) /\ kept[id] = Said(p) BY <1>2
  <2> HIDE DEF p
  <2>3. LET row == saveToDatabase(p)
        IN  /\ RowOK(row, p.id) /\ Agrees(row, Said(p)) /\ (~row.remote => loadFromDatabase(row).rules = Said(p).rules)
        BY <2>1, SavedIs
  <2> QED BY <2>1, <2>2, <2>3
<1>6. lastId = n /\ raced = {} /\ current = 1 /\ dialog = None /\ editor = None OBVIOUS
<1>7. DOMAIN heap = {} /\ DOMAIN identity = {}
  <2> DEFINE none == << >>
  <2>1. DOMAIN none = {} OBVIOUS
  <2> QED BY <2>1
<1>8. DOMAIN job = Jobs /\ \A j \in Jobs : job[j] = Idle OBVIOUS
<1> HIDE DEF n
<1>9. RowsOK(rows, lastId)
  <2>1. n \in 0 .. MaxId BY <1>1, <1>2, <1>3 DEF n
  <2> QED BY <1>4, <1>5, <1>6, <2>1 DEF RowsOK
<1>10. current \in DOMAIN rows
  <2>1. 1 \in 1 .. n BY <1>2
  <2> QED BY <1>4, <1>6, <2>1
<1>11. Obeys(kept, rows, raced) BY <1>4, <1>5, <1>6 DEF Obeys
<1>12. Idle.list = << >> /\ Idle.at = 0 /\ Idle.pc = "idle" /\ Idle = [list |-> << >>, at |-> 0, url |-> Idle.url, pc |-> "idle"]
       BY DEF Idle
<1>13. Idle.list \in Seq(Nat) /\ Len(Idle.list) = 0 /\ DOMAIN Idle.list = {} /\ ToSet(Idle.list) = {} /\ PendingIn(Idle) = {}
  <2> DEFINE list == Idle.list
  <2>1. list \in Seq(Nat) /\ Len(list) = 0 /\ DOMAIN list = {} BY <1>12, EmptySeq
  <2>2. ToSet(list) = {} BY <2>1 DEF ToSet
  <2>3. PendingIn(Idle) = {} BY <2>1 DEF PendingIn
  <2> QED BY <2>1, <2>2, <2>3
<1>14. Held(None, job) = {}
  <2>1. \A j \in Jobs : ToSet(job[j].list) = {} BY <1>8, <1>13
  <2> QED BY <2>1, HeldIs
<1>15. ASSUME NEW j \in Jobs PROVE JobOK(heap, job, j)
  <2> DEFINE work == job[j]
  <2>1. work = Idle BY <1>8
  <2>2. work \in [list : Seq(Nat), at : Nat, url : {work.url}, pc : {"idle", "next", "wait", "save"}]
    <3>1. Idle \in [list : Seq(Nat), at : Nat, url : {Idle.url}, pc : {"idle", "next", "wait", "save"}]
          BY <1>12, <1>13 DEF Idle
    <3> QED BY <2>1, <3>1
  <2>3. work.at <= Len(work.list) /\ work.pc = "idle" /\ ToSet(work.list) = {} BY <1>12, <1>13, <2>1
  <2> HIDE DEF work
  <2>4. work.pc \notin {"wait", "save"} BY <2>3
  <2> QED BY <2>2, <2>3, <2>4 DEF JobOK, work
<1>16. JobsOK(heap, job) BY <1>8, <1>15 DEF JobsOK
<1>17. PendingOK(heap, job, kept, raced)
  <2>1. PendingIn(job["auto"]) = {} /\ PendingIn(job["link"]) = {} BY <1>8, <1>13 DEF Jobs
  <2> QED BY <2>1 DEF PendingOK
<1>18. DOMAIN heap = Held(dialog, job) /\ ObjectsOK(heap, dialog, job, lastId) /\ MapOK(heap, identity, dialog, job, rows)
  <2>1. Held(dialog, job) = {} BY <1>6, <1>14
  <2> QED BY <1>7, <2>1 DEF ObjectsOK, MapOK
<1>19. DialogOK(heap, dialog) /\ EditorOK(heap, dialog, editor) BY <1>6 DEF DialogOK, EditorOK
<1>20. \A id \in DOMAIN identity : identity[id] \in DOMAIN heap BY <1>7
<1> QED BY <1>9, <1>10, <1>11, <1>16, <1>17, <1>18, <1>19, <1>20 DEF IInv

LEMMA StutterKeeps == IInv /\ UNCHANGED vars => IInv'
<1> SUFFICES ASSUME IInv, UNCHANGED vars PROVE IInv' OBVIOUS
<1>1. /\ UNCHANGED <<rows, lastId, heap, identity, current, dialog, editor, job>>
      /\ UNCHANGED <<kept, raced>>
      BY DEF vars
<1>2. EditorOK(heap, dialog, editor') BY <1>1 DEF IInv
<1> QED BY <1>1, <1>2, EditorStep

LEMMA NextKeeps == IInv /\ [Next]_vars => IInv'
<1> SUFFICES ASSUME IInv, [Next]_vars PROVE IInv' OBVIOUS
<1>1. CASE UNCHANGED vars BY <1>1, StutterKeeps
<1>2. CASE OpenDialog BY <1>2, OpenDialogKeeps
<1>3. CASE Accept BY <1>3, AcceptKeeps
<1>4. CASE Cancel BY <1>4, CancelKeeps
<1>5. CASE EditorDone BY <1>5, EditorDoneKeeps
<1>6. CASE EditorCancel BY <1>6, EditorCancelKeeps
<1>7. ASSUME NEW i \in 1 .. MaxId, AtList, i <= Len(dialog.list),
             Clone(i) \/ DeleteFromList(i) \/ updateCurrentRouteProfile(i) \/ Edit(i)
      PROVE  IInv'
  <2>1. i \in Nat /\ i \in 1 .. Len(dialog.list)
    <3>1. dialog # None BY <1>7 DEF AtList
    <3>2. Len(dialog.list) \in Nat BY <3>1, HeldInHeap
    <3>3. MaxId \in Nat BY RouteAssumption
    <3> QED BY <1>7, <3>2, <3>3
  <2>2. CASE Clone(i) BY <1>7, <2>1, <2>2, CloneKeeps
  <2>3. CASE DeleteFromList(i) BY <1>7, <2>1, <2>3, DeleteKeeps
  <2>4. CASE updateCurrentRouteProfile(i) BY <1>7, <2>1, <2>4, SelectInListKeeps
  <2>5. CASE Edit(i) BY <1>7, <2>1, <2>5, EditKeeps
  <2> QED BY <1>7, <2>2, <2>3, <2>4, <2>5
<1>8. ASSUME NEW remote \in BOOLEAN, NewRoute(remote) PROVE IInv' BY <1>8, NewRouteKeeps
<1>9. ASSUME NEW doc \in Links, ImportInDialog(doc) PROVE IInv' BY <1>9, ImportKeeps
<1>10. ASSUME NEW doc \in Links, handle_import_route(doc) PROVE IInv' BY <1>10, ImportRouteKeeps
<1>11. ASSUME NEW doc \in Links, DownloadProfile(doc, "bypass", "proxy") \/ DownloadProfile(doc, "foreign", "direct")
       PROVE  IInv'
       BY <1>11, DownloadKeeps
<1>12. ASSUME NEW link \in RemoteLinks, handle_add_remote_routes(link) PROVE IInv' BY <1>12, AddRemoteKeeps
<1>13. ASSUME NEW link \in RemoteLinks, tryImportRemoteRoutesLink(link) PROVE IInv' BY <1>13, ImportLinkKeeps
<1>14. ASSUME NEW id \in DOMAIN rows, SelectRoute(id) PROVE IInv' BY <1>14, SelectRouteKeeps
<1>15. CASE on_update_route_clicked BY <1>15, UpdateClickedKeeps
<1>16. CASE UI_update_all_remote_routes BY <1>16, UpdateAllKeeps
<1>17. ASSUME NEW j \in Jobs, Ask(j) PROVE IInv' BY <1>17, AskKeeps
<1>18. ASSUME NEW j \in Jobs, NoAnswer(j) PROVE IInv' BY <1>18, NoAnswerKeeps
<1>19. ASSUME NEW j \in Jobs, SaveFetched(j) PROVE IInv' BY <1>19, SaveKeeps
<1>20. ASSUME NEW j \in Jobs, NEW url \in Urls, NEW doc \in Served[url], Answer(j, doc) PROVE IInv' BY <1>20, AnswerKeeps
<1>21. CASE StopUpdate BY <1>21, StopUpdateKeeps
<1> QED BY <1>1, <1>2, <1>3, <1>4, <1>5, <1>6, <1>7, <1>8, <1>9, <1>10, <1>11, <1>12, <1>13, <1>14, <1>15, <1>16,
           <1>17, <1>18, <1>19, <1>20, <1>21 DEF Next

(* The invariant is inductive.                                             *)
THEOREM RoutesInvariant == Spec => []IInv
<1>1. Init => IInv BY InitGives
<1>2. IInv /\ [Next]_vars => IInv' BY NextKeeps
<1> QED BY <1>1, <1>2, PTL DEF Spec

(* Rows and objects are profiles of well-formed rules, and the live objects *)
(* are those that the dialog and the threads hold (RoutesRepo keeps weak    *)
(* pointers).                                                               *)
THEOREM RoutesTypeOK == Spec => []TypeOK
<1>1. IInv => TypeOK BY InvariantGives
<1> QED BY <1>1, RoutesInvariant, PTL

(* The profile in use has a row, whatever the dialog adds, deletes and      *)
(* renumbers (UpdateRouteProfiles, DialogManageRoutes::accept).             *)
THEOREM ProfileInUseExists == Spec => []CurrentExists
<1>1. IInv => CurrentExists BY InvariantGives
<1> QED BY <1>1, RoutesInvariant, PTL

(* The object the repository hands out for an id agrees with its row on     *)
(* what the user set (RoutesRepo's identity map).                           *)
THEOREM CacheAgrees == Spec => []CacheMatchesRow
<1>1. IInv => CacheMatchesRow BY InvariantGives
<1> QED BY <1>1, RoutesInvariant, PTL

(* The store holds what the user last said of each profile, every attribute *)
(* of each rule, unless a stale view of it raced an Accept.                 *)
THEOREM StoreObeys == Spec => []StoreObeysUser
<1>1. IInv => StoreObeysUser BY InvariantGives
<1> QED BY <1>1, RoutesInvariant, PTL

-----------------------------------------------------------------------------
(* A share of a profile, imported where it comes from, is the profile.     *)

(* What a share can say of a rule is all there is.                         *)
LEMMA PortableParts ==
  ASSUME NEW r, IsRule(r), Portable(r)
  PROVE  /\ ActionOf(r) = r.action
         /\ {k \in Always \cup OfAction(r.action) : IsSet(r, k)} = DOMAIN r.f
         /\ \A k \in DOMAIN r.f :
              k \in Attributes \ {"ip_version", "port", "source_port", "override_port", "method"} /\ IsField(k, r.f[k])
         /\ Routes(r) <=> r.action \in {"route", "bypass"}
         /\ Routes(r) => TellsOutbound(r.outbound)
         /\ ~Routes(r) => r.outbound = NewRule.outbound
<1>1. /\ DOMAIN r.f \subseteq (Always \cup OfAction(r.action)) \ {"ip_version", "port", "source_port", "override_port", "method"}
      /\ Routes(r) => TellsOutbound(r.outbound)
      /\ ~Routes(r) => r.outbound = NewRule.outbound
      BY DEF Portable
<1>2. DOMAIN r.f \subseteq Attributes /\ \A k \in DOMAIN r.f : IsField(k, r.f[k]) BY RuleParts
<1>3. NewRule.outbound = "direct" BY DEF NewRule
<1>4. ActionOf(r) = r.action
  <2>1. CASE ~(r.action = "route" /\ r.outbound \in {"block", "hijack"}) BY <2>1 DEF ActionOf
  <2>2. CASE r.action = "route" /\ r.outbound \in {"block", "hijack"}
    <3>1. ~Routes(r) BY <2>2 DEF Routes, ActionOf
    <3> QED BY <1>1, <1>3, <2>2, <3>1
  <2> QED BY <2>1, <2>2
<1>5. Routes(r) <=> r.action \in {"route", "bypass"} BY <1>4 DEF Routes
<1>6. {k \in Always \cup OfAction(r.action) : IsSet(r, k)} = DOMAIN r.f BY <1>1 DEF IsSet
<1> QED BY <1>1, <1>2, <1>4, <1>5, <1>6

(* A profile of the device is found by its id.                             *)
LEMMA DeviceById ==
  ASSUME NEW o, NEW d \in ToSet(Device), d.id = o
  PROVE  Device[SelectInSeq(Device, LAMBDA x : x.id = o)] = d /\ Known(Device, o)
<1> DEFINE I == {i \in 1 .. Len(Device) : Device[i].id = o}
<1>1. Device \in Seq(ToSet(Device)) /\ \A i, j \in DOMAIN Device : Device[i].id = Device[j].id => i = j
      BY RouteAssumption
<1>2. Len(Device) \in Nat /\ DOMAIN Device = 1 .. Len(Device) BY <1>1, SeqFacts
<1>3. PICK j \in 1 .. Len(Device) : Device[j] = d BY <1>1, SeqFacts
<1>4. SelectInSeq(Device, LAMBDA x : x.id = o) = IF I # {} THEN Min(I) ELSE 0 BY DEF SelectInSeq
<1>5. j \in I BY <1>3
<1>6. Min(I) \in I
  <2>1. I \in SUBSET Nat OBVIOUS
  <2> HIDE DEF I
  <2> QED BY <1>5, <2>1, LeastOf
<1>7. Min(I) = j BY <1>1, <1>2, <1>3, <1>5, <1>6
<1> QED BY <1>2, <1>3, <1>4, <1>5, <1>7 DEF Known

(* An outbound that a share can tell is read back.                         *)
LEMMA OutboundTold ==
  ASSUME NEW o, TellsOutbound(o)
  PROVE  isOutboundIDValid(Device, o) /\ getOutboundID(Device, ViewOf(Device, o)) = o
<1>1. CASE o \in {"proxy", "direct"} BY <1>1 DEF isOutboundIDValid, getOutboundID, ViewOf
<1>2. CASE o \notin {"proxy", "direct"}
  <2>1. PICK d \in ToSet(Device) : d.id = o /\ getOutboundID(Device, Shown(d)) = o BY <1>2 DEF TellsOutbound
  <2>2. Device[SelectInSeq(Device, LAMBDA x : x.id = o)] = d /\ Known(Device, o) BY <2>1, DeviceById
  <2>3. ViewOf(Device, o) = Shown(d) BY <1>2, <2>2 DEF ViewOf
  <2> QED BY <2>1, <2>2, <2>3 DEF isOutboundIDValid
<1> QED BY <1>1, <1>2

(* The JSON of a rule: its attributes under their names, the action, the   *)
(* outbound, the name and the type.                                        *)
LEMMA SharedRule ==
  ASSUME NEW r, IsRule(r), Portable(r)
  PROVE  LET json == to_share_json(Device, r)
             own == {"name", "type", "action"} \cup (IF Routes(r) THEN {"outbound"} ELSE {})
         IN  /\ DOMAIN json = DOMAIN r.f \cup own
             /\ \A k \in DOMAIN r.f : json[k] = [t |-> TypeOfKey(k), v |-> r.f[k]]
             /\ json.name = Text(r.name) /\ json.type = Text(r.type) /\ json.action = Text(r.action)
             /\ Routes(r) => json.outbound = Text(ViewOf(Device, r.outbound))
<1> DEFINE out == ViewOf(Device, r.outbound)
           fields == {k \in Always \cup OfAction(ActionOf(r)) : IsSet(r, k)}
           field(key) == CHOOSE k \in fields : KeyOf(k) = key
           named == [key \in {KeyOf(k) : k \in fields} |-> [t |-> TypeOfKey(field(key)), v |-> r.f[field(key)]]]
           acting == Put(named, "action", Text(ActionOf(r)))
           rule == get_rule_json(r, out)
           json == to_share_json(Device, r)
<1>1. fields = DOMAIN r.f /\ \A k \in fields : k # "method" /\ k \in Attributes BY PortableParts
<1>2. \A k \in fields : KeyOf(k) = k BY <1>1 DEF KeyOf
<1> HIDE DEF fields
<1>3. {KeyOf(k) : k \in fields} = DOMAIN r.f /\ \A k \in DOMAIN r.f : field(k) = k BY <1>1, <1>2
<1>4. DOMAIN named = DOMAIN r.f /\ \A k \in DOMAIN r.f : named[k] = [t |-> TypeOfKey(k), v |-> r.f[k]] BY <1>3
<1>5. \A k \in DOMAIN r.f : k \notin {"name", "type", "outbound", "action"} BY <1>1, ColumnsOfRules
<1>6. ~Missing(Device, r) BY PortableParts, OutboundTold DEF Missing
<1>7. ActionOf(r) = r.action BY PortableParts
<1>8. rule = IF Routes(r) THEN Put(acting, "outbound", Text(out)) ELSE acting BY DEF get_rule_json, fields
<1>9. json = Put(Put(rule, "name", Text(r.name)), "type", Text(r.type)) BY <1>6 DEF to_share_json
<1> HIDE DEF named, out, json, rule
<1>10. /\ DOMAIN acting = DOMAIN r.f \cup {"action"} /\ acting["action"] = Text(r.action)
       /\ \A k \in DOMAIN r.f : acting[k] = [t |-> TypeOfKey(k), v |-> r.f[k]]
       BY <1>4, <1>5, <1>7 DEF Put
<1> HIDE DEF acting
<1>11. /\ DOMAIN rule = DOMAIN r.f \cup {"action"} \cup (IF Routes(r) THEN {"outbound"} ELSE {})
       /\ rule["action"] = Text(r.action)
       /\ \A k \in DOMAIN r.f : rule[k] = [t |-> TypeOfKey(k), v |-> r.f[k]]
       /\ Routes(r) => rule["outbound"] = Text(out)
       BY <1>5, <1>8, <1>10 DEF Put
<1>12. /\ DOMAIN json = DOMAIN r.f \cup ({"name", "type", "action"} \cup (IF Routes(r) THEN {"outbound"} ELSE {}))
       /\ json["action"] = Text(r.action) /\ json["name"] = Text(r.name) /\ json["type"] = Text(r.type)
       /\ \A k \in DOMAIN r.f : json[k] = [t |-> TypeOfKey(k), v |-> r.f[k]]
       /\ Routes(r) => json["outbound"] = Text(out)
       BY <1>5, <1>9, <1>11 DEF Put
<1> QED BY <1>12 DEF json, out

(* What a share says of an attribute is read back.                         *)
LEMMA FieldTold ==
  ASSUME NEW k \in Attributes \ {"ip_version", "port", "source_port", "override_port", "method"}, NEW v, IsField(k, v)
  PROVE  LET json == [t |-> TypeOfKey(k), v |-> v]
         IN  json.t # "number" /\ SetsField(k, TextsOf(json)) /\ set_field_value(k, TextsOf(json)) = v
<1> DEFINE json == [t |-> TypeOfKey(k), v |-> v]
<1>1. CASE k \in Lists
  <2>1. TypeOfKey(k) = "strings" BY <1>1 DEF TypeOfKey, Lists, RuleFlags
  <2>2. TextsOf(json) = v /\ json.t # "number" BY <2>1 DEF TextsOf
  <2>3. v \in Seq(Words) /\ v # << >> BY <1>1 DEF IsField
  <2>4. filterEmpty(v) = v BY <2>3, FilterEmptyIs
  <2> HIDE DEF json
  <2>5. SetsField(k, TextsOf(json)) /\ set_field_value(k, TextsOf(json)) = v
        BY <1>1, <2>2, <2>3, <2>4 DEF SetsField, set_field_value
  <2> QED BY <2>2, <2>5 DEF json
<1>2. CASE k \in RuleFlags
  <2>1. TypeOfKey(k) = "bool" /\ k \notin Lists BY <1>2 DEF TypeOfKey, RuleFlags, Lists
  <2>2. TextsOf(json) = <<v>> /\ json.t # "number" BY <2>1 DEF TextsOf
  <2>3. v = "true" BY <1>2, <2>1 DEF IsField
  <2>4. SetsField(k, <<v>>) /\ set_field_value(k, <<v>>) = v BY <1>2, <2>1, <2>3 DEF SetsField, set_field_value
  <2> QED BY <2>2, <2>4
<1>3. CASE k \notin Lists \cup RuleFlags
  <2>1. TypeOfKey(k) = "string" BY <1>3 DEF TypeOfKey, Lists
  <2>2. TextsOf(json) = <<v>> /\ json.t # "number" BY <2>1 DEF TextsOf
  <2>3. v # "" BY <1>3 DEF IsField
  <2>4. SetsField(k, <<v>>) /\ set_field_value(k, <<v>>) = v BY <1>3, <2>3 DEF SetsField, set_field_value
  <2> QED BY <2>2, <2>4
<1> QED BY <1>1, <1>2, <1>3

(* A rule that a share can say is read back, but for its name and type,    *)
(* which the reader of the profile sets.                                   *)
LEMMA RuleReadBack ==
  ASSUME NEW r, IsRule(r), Portable(r)
  PROVE  parse_rule_object(Device, to_share_json(Device, r)) =
           [name |-> NewRule.name, type |-> NewRule.type, outbound |-> r.outbound, action |-> r.action, f |-> r.f]
<1> DEFINE json == to_share_json(Device, r)
           own == {"name", "type", "action"} \cup (IF Routes(r) THEN {"outbound"} ELSE {})
           read == {k \in DOMAIN json \ {"name", "type", "outbound"} : json[k].t # "number"}
           set == {k \in read \cap Attributes : SetsField(k, TextsOf(json[k]))}
           f == [k \in set |-> set_field_value(k, TextsOf(json[k]))]
           action == IF "action" \in read THEN TextsOf(json.action)[1] ELSE NewRule.action
           outbound == IF "outbound" \in DOMAIN json THEN OutboundFrom(Device, json.outbound) ELSE NewRule.outbound
<1>1. parse_rule_object(Device, json) = [NewRule EXCEPT !.action = action, !.outbound = outbound, !.f = f]
      BY DEF parse_rule_object
<1>2. /\ DOMAIN json = DOMAIN r.f \cup own
      /\ \A k \in DOMAIN r.f : json[k] = [t |-> TypeOfKey(k), v |-> r.f[k]]
      /\ json.action = Text(r.action)
      /\ Routes(r) => json.outbound = Text(ViewOf(Device, r.outbound))
      BY SharedRule
<1>3. \A k \in DOMAIN r.f :
        k \in Attributes \ {"ip_version", "port", "source_port", "override_port", "method"} /\ IsField(k, r.f[k])
      BY PortableParts
<1> HIDE DEF json
<1>4. ASSUME NEW k \in DOMAIN r.f
      PROVE  json[k].t # "number" /\ SetsField(k, TextsOf(json[k])) /\ set_field_value(k, TextsOf(json[k])) = r.f[k]
  <2> DEFINE v == r.f[k]
  <2>1. k \in Attributes \ {"ip_version", "port", "source_port", "override_port", "method"} /\ IsField(k, v) BY <1>3
  <2>2. json[k] = [t |-> TypeOfKey(k), v |-> v] BY <1>2
  <2> HIDE DEF v
  <2>3. json[k].t # "number" /\ SetsField(k, TextsOf(json[k])) /\ set_field_value(k, TextsOf(json[k])) = v
        BY <2>1, <2>2, FieldTold
  <2> QED BY <2>3 DEF v
<1>5. /\ {"name", "type", "outbound", "action"} \cap Attributes = {}
      /\ \A k \in DOMAIN r.f : k \in Attributes
      BY <1>3, ColumnsOfRules
<1>6. "action" \in read /\ action = r.action
  <2> DEFINE told == json["action"]
  <2>1. told = [t |-> "string", v |-> r.action] BY <1>2 DEF Text
  <2> HIDE DEF told
  <2>2. told.t = "string" /\ told.v = r.action BY <2>1
  <2>3. TextsOf(told) = <<r.action>> BY <2>2 DEF TextsOf
  <2>4. "action" \in DOMAIN json BY <1>2
  <2> QED BY <2>2, <2>3, <2>4 DEF told
<1>7. outbound = r.outbound
  <2>1. CASE Routes(r)
    <3>1. isOutboundIDValid(Device, r.outbound) /\ getOutboundID(Device, ViewOf(Device, r.outbound)) = r.outbound
          BY <2>1, PortableParts, OutboundTold
    <3>2. OutboundFrom(Device, json.outbound) = r.outbound BY <1>2, <2>1, <3>1 DEF OutboundFrom, Text
    <3>3. "outbound" \in DOMAIN json BY <1>2, <2>1
    <3> QED BY <3>2, <3>3
  <2>2. CASE ~Routes(r)
    <3>1. r.outbound = NewRule.outbound BY <2>2, PortableParts
    <3>2. "outbound" \notin DOMAIN json BY <1>2, <1>5, <2>2
    <3> QED BY <3>1, <3>2
  <2> QED BY <2>1, <2>2
<1>8. set = DOMAIN r.f
  <2>1. ASSUME NEW k \in DOMAIN r.f PROVE k \in set
    <3>1. k \in DOMAIN json \ {"name", "type", "outbound"} /\ k \in Attributes BY <1>2, <1>5
    <3> QED BY <1>4, <3>1
  <2>2. ASSUME NEW k \in set PROVE k \in DOMAIN r.f
    <3>1. k \in DOMAIN r.f \cup own /\ k \in Attributes BY <1>2
    <3> QED BY <1>5, <3>1
  <2> QED BY <2>1, <2>2
<1>9. f = r.f
  <2>1. r.f = [k \in DOMAIN r.f |-> r.f[k]] BY RuleParts
  <2>2. f = [k \in DOMAIN r.f |-> set_field_value(k, TextsOf(json[k]))] BY <1>8
  <2> HIDE DEF set
  <2>3. f = [k \in DOMAIN r.f |-> r.f[k]] BY <1>4, <2>2
  <2> QED BY <2>1, <2>3
<1> HIDE DEF f, action, outbound
<1>10. parse_rule_object(Device, json) =
         [name |-> NewRule.name, type |-> NewRule.type, outbound |-> outbound, action |-> action, f |-> f]
       BY <1>1, RuleRead
<1> QED BY <1>6, <1>7, <1>9, <1>10 DEF json

LEMMA RuleShared ==
  ASSUME NEW r, IsRule(r), Portable(r), r.name # ""
  PROVE  LET json == to_share_json(Device, r)
         IN  /\ DOMAIN json # {} /\ "type" \in DOMAIN json /\ NameIn(json) = r.name
             /\ [parse_rule_object(Device, json) EXCEPT !.type = json.type.v, !.name = NameIn(json)] = r
<1> DEFINE json == to_share_json(Device, r)
           own == {"name", "type", "action"} \cup (IF Routes(r) THEN {"outbound"} ELSE {})
           e == parse_rule_object(Device, json)
<1>1. DOMAIN json = DOMAIN r.f \cup own /\ json.name = Text(r.name) /\ json.type = Text(r.type) BY SharedRule
<1>2. e = [name |-> NewRule.name, type |-> NewRule.type, outbound |-> r.outbound, action |-> r.action, f |-> r.f]
      BY RuleReadBack
<1>3. r = [name |-> r.name, type |-> r.type, outbound |-> r.outbound, action |-> r.action, f |-> r.f] BY RuleParts
<1>4. IsRule(e)
  <2>1. DOMAIN r.f \subseteq Attributes /\ r.f = [k \in DOMAIN r.f |-> r.f[k]] /\ \A k \in DOMAIN r.f : IsField(k, r.f[k])
        BY RuleParts
  <2> HIDE DEF e
  <2> QED BY <1>2, <2>1, RuleIs
<1> HIDE DEF json, e
<1>5. NameIn(json) = r.name /\ json.type.v = r.type
  <2>1. \A v : Text(v).v = v BY DEF Text
  <2>2. "name" \in DOMAIN json BY <1>1
  <2>3. json.name.v = r.name /\ json.type.v = r.type BY <1>1, <2>1
  <2> QED BY <2>2, <2>3 DEF NameIn
<1>6. [e EXCEPT !.type = json.type.v, !.name = NameIn(json)] =
        [name |-> r.name, type |-> r.type, outbound |-> e.outbound, action |-> e.action, f |-> e.f]
  <2> DEFINE type == json.type.v
             name == NameIn(json)
             made == [e EXCEPT !.type = type, !.name = name]
  <2>1. type = r.type /\ name = r.name BY <1>5
  <2>2. made = [e EXCEPT !.type = type, !.name = name] OBVIOUS
  <2> HIDE DEF type, name, made
  <2>3. \A t, u : [e EXCEPT !.type = t, !.name = u] =
          [name |-> u, type |-> t, outbound |-> e.outbound, action |-> e.action, f |-> e.f]
        BY <1>4, RuleParts
  <2>4. made = [name |-> name, type |-> type, outbound |-> e.outbound, action |-> e.action, f |-> e.f]
        BY <2>2, <2>3
  <2> QED BY <2>1, <2>4 DEF type, name, made
<1>7. e.outbound = r.outbound /\ e.action = r.action /\ e.f = r.f BY <1>2
<1> QED BY <1>1, <1>3, <1>5, <1>6, <1>7 DEF json, e

LEMMA SeqMade ==
  ASSUME NEW n \in Nat, NEW seq, seq = [i \in 1 .. n |-> seq[i]]
  PROVE  seq \in Seq(ToSet(seq))
<1>1. DOMAIN seq = 1 .. n /\ \A i \in 1 .. n : seq[i] \in ToSet(seq) BY DEF ToSet
<1> QED BY <1>1

(* Nothing is left out of the share of a profile that a share can say.     *)
LEMMA ShareHasAll ==
  ASSUME NEW p, IsProfile(p), p.raw = FALSE,
         \A i \in DOMAIN p.rules : Portable(p.rules[i]) /\ p.rules[i].name # ""
  PROVE  LET doc == ToShareObject(Device, p)
         IN  /\ doc.kind = "profile" /\ doc.raw = FALSE /\ doc.name = p.name
             /\ doc.default_outbound = outboundIDToString(p.default)
             /\ doc.rules = [i \in DOMAIN p.rules |-> to_share_json(Device, p.rules[i])]
<1> DEFINE all == p.rules
           shared == Chosen(all, {i \in DOMAIN all : all[i].type = CustomType \/ ~isEmpty(all[i])})
           json == [i \in DOMAIN all |-> to_share_json(Device, all[i])]
           told == Chosen(json, {i \in DOMAIN json : json[i] # Nothing})
           default == outboundIDToString(p.default)
           doc == ToShareObject(Device, p)
<1>1. IsRules(all) BY DEF IsProfile
<1> HIDE DEF all
<1>2. all \in Seq(ToSet(all)) /\ Len(all) \in Nat /\ DOMAIN all = 1 .. Len(all) /\ \A i \in DOMAIN all : IsRule(all[i])
      BY <1>1, RulesProperties
<1>3. \A i \in DOMAIN all : Portable(all[i]) /\ all[i].name # "" BY DEF all
<1>4. \A i \in DOMAIN all : all[i].type = CustomType \/ ~isEmpty(all[i]) BY <1>3 DEF Portable
<1>5. shared = all
  <2>1. {i \in DOMAIN all : all[i].type = CustomType \/ ~isEmpty(all[i])} = DOMAIN all BY <1>4
  <2> QED BY <1>2, <2>1, ChosenAll
<1>6. \A i \in DOMAIN all : json[i] # Nothing
  <2> SUFFICES ASSUME NEW i \in DOMAIN all PROVE to_share_json(Device, all[i]) # Nothing OBVIOUS
  <2>1. DOMAIN to_share_json(Device, all[i]) # {} BY <1>2, <1>3, RuleShared
  <2>2. DOMAIN Nothing = {} BY DEF Nothing
  <2> QED BY <2>1, <2>2
<1>7. told = json
  <2>1. DOMAIN json = 1 .. Len(all) /\ json = [i \in 1 .. Len(all) |-> json[i]] BY <1>2
  <2>2. {i \in DOMAIN json : json[i] # Nothing} = DOMAIN json BY <1>6
  <2> HIDE DEF json
  <2> DEFINE n == Len(all)
  <2>3. n \in Nat /\ DOMAIN json = 1 .. n /\ json = [i \in 1 .. n |-> json[i]] BY <1>2, <2>1
  <2> HIDE DEF n
  <2>4. json \in Seq(ToSet(json)) BY <2>3, SeqMade
  <2> QED BY <2>2, <2>4, ChosenAll
<1>8. doc = [kind |-> "profile", raw |-> FALSE, name |-> p.name, default_outbound |-> default, rules |-> told]
      BY <1>5 DEF ToShareObject, all
<1> HIDE DEF told, json, doc, default
<1>9. /\ doc.kind = "profile" /\ doc.raw = FALSE /\ doc.name = p.name /\ doc.default_outbound = default
      /\ doc.rules = json
      BY <1>7, <1>8
<1> QED BY <1>9 DEF doc, json, default, all

LEMMA ProfileShared ==
  ASSUME NEW p, IsProfile(p), p.raw = FALSE,
         \A i \in DOMAIN p.rules : Portable(p.rules[i]) /\ p.rules[i].name # ""
  PROVE  LET q == FromShareInput(Device, ToShareObject(Device, p))
         IN  q.rules = p.rules /\ q.name = p.name /\ q.default = stringToOutboundID(outboundIDToString(p.default))
<1> DEFINE doc == ToShareObject(Device, p)
           q == FromShareInput(Device, doc)
           n == NewProfile
           name(i) == LET unnamed == Cardinality({j \in 1 .. i : NameIn(doc.rules[j]) = ""})
                      IN  IF NameIn(doc.rules[i]) = "" THEN Ordinal("rule_", unnamed) ELSE NameIn(doc.rules[i])
           type(i) == IF "type" \in DOMAIN doc.rules[i] THEN doc.rules[i].type.v ELSE CustomType
           rules == [i \in DOMAIN doc.rules |->
                       [parse_rule_object(Device, doc.rules[i]) EXCEPT !.type = type(i), !.name = name(i)]]
           default == stringToOutboundID(doc.default_outbound)
<1>1. /\ doc.kind = "profile" /\ doc.raw = FALSE /\ doc.name = p.name
      /\ doc.default_outbound = outboundIDToString(p.default)
      /\ doc.rules = [i \in DOMAIN p.rules |-> to_share_json(Device, p.rules[i])]
      BY ShareHasAll
<1> HIDE DEF doc
<1>2. q = [n EXCEPT !.name = doc.name, !.default = default, !.rules = rules] BY <1>1 DEF FromShareInput
<1>3. DOMAIN rules = DOMAIN p.rules BY <1>1
<1>4. ASSUME NEW i \in DOMAIN p.rules PROVE rules[i] = p.rules[i]
  <2> DEFINE r == p.rules[i]
             json == to_share_json(Device, r)
  <2>1. IsRule(r) /\ Portable(r) /\ r.name # "" BY RulesProperties DEF IsProfile
  <2>2. doc.rules[i] = json BY <1>1
  <2>3. rules[i] = [parse_rule_object(Device, json) EXCEPT !.type = type(i), !.name = name(i)] BY <1>3, <2>2
  <2> HIDE DEF rules, r
  <2>4. "type" \in DOMAIN json /\ NameIn(json) = r.name
        /\ [parse_rule_object(Device, json) EXCEPT !.type = json.type.v, !.name = NameIn(json)] = r
        BY <2>1, RuleShared
  <2>5. type(i) = json.type.v /\ name(i) = NameIn(json) BY <2>1, <2>2, <2>4
  <2> QED BY <2>3, <2>4, <2>5 DEF r
<1>5. rules = p.rules
  <2>1. p.rules = [i \in DOMAIN p.rules |-> p.rules[i]] BY RulesProperties DEF IsProfile
  <2>2. rules = [i \in DOMAIN rules |-> rules[i]] OBVIOUS
  <2> HIDE DEF rules
  <2> QED BY <1>3, <1>4, <2>1, <2>2
<1>6. n \in [id : {n.id}, name : {n.name}, default : {n.default}, rules : {n.rules}, raw : {n.raw}, prevent : {n.prevent},
             route : {n.route}, remote : {n.remote}, url : {n.url}, auto : {n.auto}]
      BY NewProfileIs DEF IsProfile
<1> HIDE DEF n, rules, default, q
<1>7. q.name = doc.name /\ q.default = default /\ q.rules = rules BY <1>2, <1>6
<1> QED BY <1>1, <1>5, <1>7 DEF q, default, doc

(* A shared profile that is imported where it comes from has the same rules *)
(* in the same order, every attribute of each, its name and its default, if *)
(* each rule is one that a share can say (RouteProfile::ToShareObject and    *)
(* FromShareInput, RouteRule::to_share_json and parse_rule_object).          *)
THEOREM SharesArePortable == Spec => []ShareKeepsRules
<1>1. TypeOK => ShareKeepsRules
  <2> SUFFICES ASSUME TypeOK, NEW p \in Structured,
                      \A i \in DOMAIN p.rules : Portable(p.rules[i]) /\ p.rules[i].name # ""
               PROVE  LET q == FromShareInput(Device, ToShareObject(Device, p))
                      IN  q.rules = p.rules /\ q.name = p.name
                          /\ q.default = stringToOutboundID(outboundIDToString(p.default))
        BY DEF ShareKeepsRules
  <2>1. PICK o \in DOMAIN heap : p = heap[o] /\ ~heap[o].raw BY DEF Structured
  <2>2. IsProfile(p) BY <2>1 DEF TypeOK
  <2>3. p.raw = FALSE BY <2>1, <2>2 DEF IsProfile
  <2> QED BY <2>2, <2>3, ProfileShared
<1> QED BY <1>1, RoutesTypeOK, PTL

-----------------------------------------------------------------------------
(* A profile that is opened in the editor and accepted as it is keeps its  *)
(* rules: the boxes show what the simple rules say, and the rules that are *)
(* made of them again are the same but for their names.                    *)

SameRule(r, s) == r.type = s.type /\ r.outbound = s.outbound /\ r.action = s.action /\ r.f = s.f
Alike(rules, others) == DOMAIN rules = DOMAIN others /\ \A i \in DOMAIN rules : SameRule(rules[i], others[i])

\* Of each simple type one rule, as the editor makes it.
Plain(rules) ==
  /\ IsRules(rules)
  /\ \A i \in DOMAIN rules :
       LET type == rules[i].type
       IN  type \in SimpleTypes =>
             /\ \A j \in DOMAIN rules : rules[j].type = type => i = j
             /\ rules[i].outbound = CleanRule(type).outbound /\ rules[i].action = CleanRule(type).action
             /\ DOMAIN rules[i].f \subseteq LinesOf(type)
             /\ \A k \in DOMAIN rules[i].f : \A m, n \in DOMAIN rules[i].f[k] : rules[i].f[k][m] = rules[i].f[k][n] => m = n

\* The boxes say what the simple rules say, and nothing else.
Shows(rules, boxes) ==
  /\ Plain(rules)
  /\ \A i \in DOMAIN rules :
       rules[i].type \in SimpleTypes =>
         \A k \in LinesOf(rules[i].type) : boxes[rules[i].type[2]][k] = ValueOf(rules[i], k)
  /\ \A type \in SimpleTypes :
       (\A i \in DOMAIN rules : rules[i].type # type) => \A k \in LinesOf(type) : boxes[type[2]][k] = << >>

(* Whether a rule says something is not a matter of its name.              *)
LEMMA EmptyAlike ==
  ASSUME NEW r, NEW s, SameRule(r, s)
  PROVE  isEmpty(r) <=> isEmpty(s)
<1>1. r.type = s.type /\ r.outbound = s.outbound /\ r.action = s.action /\ r.f = s.f BY DEF SameRule
<1>2. ActionOf(r) = ActionOf(s) BY <1>1 DEF ActionOf
<1>3. Routes(r) = Routes(s) BY <1>2 DEF Routes
<1>4. \A k : IsSet(r, k) = IsSet(s, k) BY <1>1 DEF IsSet
<1> DEFINE fields(x) == {k \in Always \cup OfAction(ActionOf(x)) : IsSet(x, k)}
<1>5. fields(r) = fields(s) BY <1>2, <1>4
<1>6. get_rule_json(r, r.outbound) = get_rule_json(s, s.outbound)
  <2>1. ASSUME NEW S PROVE \A key : (CHOOSE k \in S : KeyOf(k) = key) = (CHOOSE k \in S : KeyOf(k) = key) OBVIOUS
  <2> QED BY <1>1, <1>2, <1>3, <1>5 DEF get_rule_json
<1> QED BY <1>1, <1>2, <1>6 DEF isEmpty, IsSimple

LEMMA AlikeIs ==
  /\ \A x, y, z : Alike(x, y) /\ Alike(y, z) => Alike(x, z)
  /\ \A x, y : Alike(x, y) => Alike(y, x)
BY DEF Alike, SameRule

(* Rules at the end that say nothing are filtered out.                     *)
LEMMA FilterAlike ==
  ASSUME NEW rules, IsRules(rules), NEW more, IsRules(more), Len(rules) <= Len(more),
         \A i \in 1 .. Len(rules) : SameRule(rules[i], more[i]),
         \A i \in 1 .. Len(more) : i > Len(rules) => isEmpty(more[i])
  PROVE  Alike(FilterEmptyRules(rules), FilterEmptyRules(more))
<1> DEFINE K == {i \in DOMAIN rules : ~isEmpty(rules[i])}
           L == {i \in DOMAIN more : ~isEmpty(more[i])}
<1>1. /\ Len(rules) \in Nat /\ DOMAIN rules = 1 .. Len(rules)
      /\ Len(more) \in Nat /\ DOMAIN more = 1 .. Len(more)
      BY RulesProperties
<1>2. \A i \in 1 .. Len(rules) : isEmpty(rules[i]) <=> isEmpty(more[i]) BY EmptyAlike
<1>3. \A i \in 1 .. Len(more) : i <= Len(rules) \/ i > Len(rules) BY <1>1
<1>4. K = L BY <1>1, <1>2, <1>3
<1>5. FilterEmptyRules(rules) = Chosen(rules, K) /\ FilterEmptyRules(more) = Chosen(more, K)
      BY <1>4 DEF FilterEmptyRules
<1>6. K \in SUBSET (1 .. Len(rules)) BY <1>1
<1> HIDE DEF K, L
<1>7. /\ Chosen(rules, K) = [m \in 1 .. Cardinality(K) |-> rules[InOrder(K)[m]]]
      /\ Chosen(more, K) = [m \in 1 .. Cardinality(K) |-> more[InOrder(K)[m]]]
      /\ \A m \in 1 .. Cardinality(K) : InOrder(K)[m] \in 1 .. Len(rules)
  <2>1. InOrder(K) \in [1 .. Cardinality(K) -> K] BY <1>1, <1>6, ChosenCounts
  <2> QED BY <1>6, <2>1 DEF Chosen
<1> QED BY <1>5, <1>7 DEF Alike

LEMMA FilterOfAlike ==
  ASSUME NEW rules, IsRules(rules), NEW others, IsRules(others), Alike(rules, others)
  PROVE  Alike(FilterEmptyRules(rules), FilterEmptyRules(others))
<1>1. /\ Len(rules) \in Nat /\ DOMAIN rules = 1 .. Len(rules)
      /\ Len(others) \in Nat /\ DOMAIN others = 1 .. Len(others)
      BY RulesProperties
<1>2. DOMAIN rules = DOMAIN others /\ \A i \in DOMAIN rules : SameRule(rules[i], others[i]) BY DEF Alike
<1>3. Len(rules) = Len(others)
  <2> DEFINE a == Len(rules)
             b == Len(others)
  <2>1. a \in Nat /\ b \in Nat /\ 1 .. a = 1 .. b BY <1>1, <1>2
  <2> HIDE DEF a, b
  <2>2. (a >= 1 => a \in 1 .. b) /\ (b >= 1 => b \in 1 .. a) BY <2>1
  <2>3. a = b BY <2>1, <2>2
  <2> QED BY <2>3 DEF a, b
<1>4. \A i \in 1 .. Len(rules) : SameRule(rules[i], others[i]) BY <1>1, <1>2
<1>5. \A i \in 1 .. Len(others) : ~(i > Len(rules)) BY <1>1, <1>3
<1> QED BY <1>1, <1>3, <1>4, <1>5, FilterAlike

(* What is left says something, and is filtered no further.                *)
LEMMA FilterLeft ==
  ASSUME NEW rules, IsRules(rules)
  PROVE  LET left == FilterEmptyRules(rules)
         IN  /\ \E at \in [DOMAIN left -> DOMAIN rules] :
                  /\ \A i \in DOMAIN left : left[i] = rules[at[i]] /\ ~isEmpty(left[i])
                  /\ \A i, j \in DOMAIN left : at[i] = at[j] => i = j
                  /\ \A k \in DOMAIN rules : ~isEmpty(rules[k]) => \E i \in DOMAIN left : at[i] = k
             /\ FilterEmptyRules(left) = left
<1> DEFINE K == {i \in DOMAIN rules : ~isEmpty(rules[i])}
           left == FilterEmptyRules(rules)
           at == InOrder(K)
<1>1. Len(rules) \in Nat /\ DOMAIN rules = 1 .. Len(rules) BY RulesProperties
<1>2. left = Chosen(rules, K) BY DEF FilterEmptyRules
<1>3. IsRules(left) BY FilterIs
<1>4. K \in SUBSET (1 .. Len(rules)) BY <1>1
<1>5. \A k \in K : k \in DOMAIN rules /\ ~isEmpty(rules[k]) OBVIOUS
<1>6. \A k \in DOMAIN rules : ~isEmpty(rules[k]) => k \in K OBVIOUS
<1> HIDE DEF K
<1>7. /\ at \in [1 .. Cardinality(K) -> K]
      /\ \A i \in K : \E m \in 1 .. Cardinality(K) : at[m] = i
      /\ \A m, k \in 1 .. Cardinality(K) : at[m] = at[k] => m = k
      /\ Chosen(rules, K) = [m \in 1 .. Cardinality(K) |-> rules[at[m]]]
  <2>1. /\ InOrder(K) \in [1 .. Cardinality(K) -> K]
        /\ \A i \in K : \E m \in 1 .. Cardinality(K) : InOrder(K)[m] = i
        /\ \A m, k \in 1 .. Cardinality(K) : InOrder(K)[m] = InOrder(K)[k] => m = k
        BY <1>1, <1>4, ChosenCounts
  <2> QED BY <2>1 DEF Chosen
<1> HIDE DEF left, at
<1>8. DOMAIN left = 1 .. Cardinality(K) /\ \A m \in DOMAIN left : left[m] = rules[at[m]] BY <1>2, <1>7
<1>9. /\ at \in [DOMAIN left -> DOMAIN rules]
      /\ \A i \in DOMAIN left : left[i] = rules[at[i]] /\ ~isEmpty(left[i])
      /\ \A i, j \in DOMAIN left : at[i] = at[j] => i = j
      /\ \A k \in DOMAIN rules : ~isEmpty(rules[k]) => \E i \in DOMAIN left : at[i] = k
      BY <1>5, <1>6, <1>7, <1>8
<1>10. FilterEmptyRules(left) = left
  <2>1. {i \in DOMAIN left : ~isEmpty(left[i])} = DOMAIN left BY <1>9
  <2>2. left \in Seq(ToSet(left)) BY <1>3, RulesProperties
  <2> QED BY <2>1, <2>2, ChosenAll DEF FilterEmptyRules
<1> QED BY <1>9, <1>10 DEF left

(* A simple rule says nothing if it has no lines.                          *)
LEMMA LinesSay ==
  ASSUME NEW r, r.type \in SimpleTypes
  PROVE  /\ isEmpty(r) => \A k \in LinesOf(r.type) : k \notin DOMAIN r.f
         /\ DOMAIN r.f = {} => isEmpty(r)
<1> DEFINE lines == IF r.type[1] = "address" THEN AddressLists ELSE ProcessLists
<1>1. r.type[1] \in {"address", "processName", "processPath"} BY DEF SimpleTypes
<1>2. isEmpty(r) <=> DOMAIN r.f \cap lines = {} BY DEF isEmpty, IsSimple
<1>3. LinesOf(r.type) \subseteq lines
  <2> HIDE DEF AddressLists
  <2> QED BY <1>1 DEF LinesOf, ProcessLists
<1> QED BY <1>2, <1>3

(* What says the same as rules that are plain is plain, and what is left   *)
(* of plain rules.                                                         *)
LEMMA ShowsAlike ==
  ASSUME NEW rules, NEW boxes, Shows(rules, boxes), NEW others, IsRules(others), Alike(rules, others)
  PROVE  Shows(others, boxes)
<1>1. DOMAIN rules = DOMAIN others /\ \A i \in DOMAIN rules : SameRule(rules[i], others[i]) BY DEF Alike
<1>2. ASSUME NEW i \in DOMAIN others
      PROVE  /\ others[i].type = rules[i].type /\ others[i].outbound = rules[i].outbound
             /\ others[i].action = rules[i].action /\ others[i].f = rules[i].f
             /\ \A k : ValueOf(others[i], k) = ValueOf(rules[i], k)
  <2>1. /\ others[i].type = rules[i].type /\ others[i].outbound = rules[i].outbound
        /\ others[i].action = rules[i].action /\ others[i].f = rules[i].f
        BY <1>1 DEF SameRule
  <2> QED BY <2>1 DEF ValueOf, IsSet
<1>3. Plain(others) BY <1>1, <1>2 DEF Shows, Plain
<1>4. \A i \in DOMAIN others :
        others[i].type \in SimpleTypes =>
          \A k \in LinesOf(others[i].type) : boxes[others[i].type[2]][k] = ValueOf(others[i], k)
      BY <1>1, <1>2 DEF Shows
<1>5. ASSUME NEW type \in SimpleTypes, \A i \in DOMAIN others : others[i].type # type
      PROVE  \A k \in LinesOf(type) : boxes[type[2]][k] = << >>
  <2>1. \A i \in DOMAIN rules : rules[i].type # type BY <1>1, <1>2, <1>5
  <2> QED BY <2>1 DEF Shows
<1> QED BY <1>3, <1>4, <1>5 DEF Shows

LEMMA FilterShows ==
  ASSUME NEW rules, NEW boxes, Shows(rules, boxes)
  PROVE  Shows(FilterEmptyRules(rules), boxes)
<1> DEFINE left == FilterEmptyRules(rules)
<1>1. IsRules(rules) /\ IsRules(left) BY FilterIs DEF Shows, Plain
<1>2. PICK at \in [DOMAIN left -> DOMAIN rules] :
        /\ \A i \in DOMAIN left : left[i] = rules[at[i]] /\ ~isEmpty(left[i])
        /\ \A i, j \in DOMAIN left : at[i] = at[j] => i = j
        /\ \A k \in DOMAIN rules : ~isEmpty(rules[k]) => \E i \in DOMAIN left : at[i] = k
      BY <1>1, FilterLeft
<1> HIDE DEF left
<1>3. \A i \in DOMAIN left : at[i] \in DOMAIN rules /\ left[i] = rules[at[i]] BY <1>2
<1>4. Plain(left)
  <2>1. ASSUME NEW i \in DOMAIN left, left[i].type \in SimpleTypes
        PROVE  LET type == left[i].type
               IN  /\ \A j \in DOMAIN left : left[j].type = type => i = j
                   /\ left[i].outbound = CleanRule(type).outbound /\ left[i].action = CleanRule(type).action
                   /\ DOMAIN left[i].f \subseteq LinesOf(type)
                   /\ \A k \in DOMAIN left[i].f : \A m, n \in DOMAIN left[i].f[k] : left[i].f[k][m] = left[i].f[k][n] => m = n
    <3> DEFINE a == at[i]
    <3>1. a \in DOMAIN rules /\ left[i] = rules[a] /\ rules[a].type \in SimpleTypes BY <1>3, <2>1
    <3>2. LET type == rules[a].type
          IN  /\ \A j \in DOMAIN rules : rules[j].type = type => a = j
              /\ rules[a].outbound = CleanRule(type).outbound /\ rules[a].action = CleanRule(type).action
              /\ DOMAIN rules[a].f \subseteq LinesOf(type)
              /\ \A k \in DOMAIN rules[a].f : \A m, n \in DOMAIN rules[a].f[k] : rules[a].f[k][m] = rules[a].f[k][n] => m = n
          BY <3>1 DEF Shows, Plain
    <3>3. \A j \in DOMAIN left : left[j].type = left[i].type => i = j BY <1>2, <1>3, <3>1, <3>2
    <3> QED BY <3>1, <3>2, <3>3
  <2> QED BY <1>1, <2>1 DEF Plain
<1>5. \A i \in DOMAIN left :
        left[i].type \in SimpleTypes =>
          \A k \in LinesOf(left[i].type) : boxes[left[i].type[2]][k] = ValueOf(left[i], k)
      BY <1>3 DEF Shows
<1>6. ASSUME NEW type \in SimpleTypes, \A i \in DOMAIN left : left[i].type # type, NEW k \in LinesOf(type)
      PROVE  boxes[type[2]][k] = << >>
  <2>1. CASE \A i \in DOMAIN rules : rules[i].type # type BY <2>1 DEF Shows
  <2>2. CASE \E i \in DOMAIN rules : rules[i].type = type
    <3>1. PICK i \in DOMAIN rules : rules[i].type = type BY <2>2
    <3>2. isEmpty(rules[i])
      <4>1. SUFFICES ASSUME ~isEmpty(rules[i]) PROVE FALSE OBVIOUS
      <4>2. PICK m \in DOMAIN left : at[m] = i BY <1>2, <4>1
      <4> QED BY <1>3, <1>6, <3>1, <4>2
    <3>3. k \notin DOMAIN rules[i].f BY <3>1, <3>2, LinesSay
    <3>4. boxes[type[2]][k] = ValueOf(rules[i], k) BY <3>1 DEF Shows
    <3>5. k \in Lists BY LineLists
    <3> QED BY <3>3, <3>4, <3>5 DEF ValueOf, IsSet
  <2> QED BY <2>1, <2>2
<1>7. Shows(left, boxes) BY <1>4, <1>5, <1>6 DEF Shows
<1> QED BY <1>7 DEF left

\* Rules in which those of some simple types are replaced by new ones, or such are
\* appended: fresh maps each of these types to its new rule.
Updated(rules, after, fresh) ==
  /\ IsRules(after) /\ Len(rules) <= Len(after)
  /\ \A type \in DOMAIN fresh : IsRule(fresh[type]) /\ fresh[type].type = type
  /\ \A i \in 1 .. Len(rules) : after[i] = IF rules[i].type \in DOMAIN fresh THEN fresh[rules[i].type] ELSE rules[i]
  /\ \A i \in 1 .. Len(after) :
       i > Len(rules) =>
         /\ after[i].type \in DOMAIN fresh /\ after[i] = fresh[after[i].type]
         /\ \A j \in 1 .. Len(rules) : rules[j].type # after[i].type
  /\ \A i, j \in 1 .. Len(after) : after[i].type = after[j].type /\ after[i].type \in SimpleTypes => i = j
  /\ \A type \in DOMAIN fresh : \E i \in 1 .. Len(after) : after[i].type = type

(* One more rule is replaced.                                              *)
LEMMA ReplaceUpdates ==
  ASSUME NEW rules, IsRules(rules), NEW after, NEW fresh, Updated(rules, after, fresh),
         NEW type \in SimpleTypes, NEW at \in 1 .. Len(after), after[at].type = type,
         NEW r, IsRule(r), r.type = type
  PROVE  Updated(rules, [after EXCEPT ![at] = r], Put(fresh, type, r))
<1> DEFINE next == [after EXCEPT ![at] = r]
           f == Put(fresh, type, r)
<1>1. /\ Len(rules) \in Nat /\ DOMAIN rules = 1 .. Len(rules)
      /\ Len(after) \in Nat /\ DOMAIN after = 1 .. Len(after) /\ \A i \in DOMAIN after : IsRule(after[i])
      BY RulesProperties DEF Updated
<1>2. /\ DOMAIN next = 1 .. Len(after) /\ next[at] = r /\ next = [i \in 1 .. Len(after) |-> next[i]]
      /\ \A i \in 1 .. Len(after) : i # at => next[i] = after[i]
      BY <1>1
<1>3. /\ DOMAIN f = DOMAIN fresh \cup {type} /\ f[type] = r
      /\ \A x \in DOMAIN fresh : x # type => f[x] = fresh[x]
      BY DEF Put
<1> HIDE DEF next, f
<1>4. \A i \in 1 .. Len(after) : next[i].type = after[i].type BY <1>2
<1>5. IsRules(next)
  <2>1. \A i \in 1 .. Len(after) : IsRule(next[i]) BY <1>1, <1>2
  <2> QED BY <1>1, <1>2, <2>1, RulesAre
<1>6. Len(next) = Len(after)
  <2>1. Len(next) \in Nat /\ DOMAIN next = 1 .. Len(next) BY <1>5, RulesProperties
  <2> DEFINE a == Len(next)
             b == Len(after)
  <2>2. a \in Nat /\ b \in Nat /\ 1 .. a = 1 .. b BY <1>1, <1>2, <2>1
  <2> HIDE DEF a, b
  <2>3. (a >= 1 => a \in 1 .. b) /\ (b >= 1 => b \in 1 .. a) BY <2>2
  <2>4. a = b BY <2>2, <2>3
  <2> QED BY <2>4 DEF a, b
<1>7. \A i \in 1 .. Len(rules) : i \in 1 .. Len(after) BY <1>1 DEF Updated
<1>8. \A i \in 1 .. Len(rules) : after[i].type = rules[i].type BY DEF Updated
<1>9. \A i \in 1 .. Len(after) : after[i].type = type => i = at BY DEF Updated
<1>10. ASSUME NEW i \in 1 .. Len(rules)
       PROVE  next[i] = IF rules[i].type \in DOMAIN f THEN f[rules[i].type] ELSE rules[i]
  <2>1. after[i] = IF rules[i].type \in DOMAIN fresh THEN fresh[rules[i].type] ELSE rules[i] BY DEF Updated
  <2>2. CASE i = at BY <1>2, <1>3, <1>8, <2>2
  <2>3. CASE i # at
    <3>1. rules[i].type # type BY <1>7, <1>8, <1>9, <2>3
    <3> QED BY <1>2, <1>3, <1>7, <2>1, <2>3, <3>1
  <2> QED BY <2>2, <2>3
<1>11. ASSUME NEW i \in 1 .. Len(after), i > Len(rules)
       PROVE  /\ next[i].type \in DOMAIN f /\ next[i] = f[next[i].type]
              /\ \A j \in 1 .. Len(rules) : rules[j].type # next[i].type
  <2>1. /\ after[i].type \in DOMAIN fresh /\ after[i] = fresh[after[i].type]
        /\ \A j \in 1 .. Len(rules) : rules[j].type # after[i].type
        BY <1>11 DEF Updated
  <2>2. CASE i = at BY <1>2, <1>3, <2>1, <2>2
  <2>3. CASE i # at
    <3>1. after[i].type # type BY <1>9, <2>3
    <3> QED BY <1>2, <1>3, <2>1, <2>3, <3>1
  <2> QED BY <2>2, <2>3
<1>12. \A x \in DOMAIN f : IsRule(f[x]) /\ f[x].type = x BY <1>3 DEF Updated
<1>13. \A i, j \in 1 .. Len(after) : next[i].type = next[j].type /\ next[i].type \in SimpleTypes => i = j
       BY <1>4 DEF Updated
<1>14. \A x \in DOMAIN f : \E i \in 1 .. Len(after) : next[i].type = x BY <1>3, <1>4 DEF Updated
<1>15. Len(rules) <= Len(after) BY DEF Updated
<1>16. Updated(rules, next, f) BY <1>5, <1>6, <1>10, <1>11, <1>12, <1>13, <1>14, <1>15 DEF Updated
<1> QED BY <1>16 DEF next, f

LEMMA ResetUpdates ==
  ASSUME NEW rules, IsRules(rules), NEW after, NEW fresh, Updated(rules, after, fresh), NEW type \in SimpleTypes
  PROVE  Updated(rules, ResetSimpleRule(after, type), Put(fresh, type, CleanRule(type)))
<1> DEFINE r == CleanRule(type)
           at == FirstOf(after, type)
<1>1. IsRules(after) BY DEF Updated
<1>2. /\ Len(rules) \in Nat /\ DOMAIN rules = 1 .. Len(rules)
      /\ Len(after) \in Nat /\ DOMAIN after = 1 .. Len(after)
      BY <1>1, RulesProperties
<1>3. IsRule(r) /\ r.type = type BY CleanRuleIs
<1> HIDE DEF r
<1>4. CASE \E i \in DOMAIN after : after[i].type = type
  <2>1. at \in 1 .. Len(after) /\ after[at].type = type BY <1>1, <1>2, <1>4, FirstOfIs
  <2>2. at > 0 BY <2>1
  <2>3. ResetSimpleRule(after, type) = [after EXCEPT ![at] = r] BY <2>2 DEF ResetSimpleRule, r
  <2> HIDE DEF at
  <2>4. Updated(rules, [after EXCEPT ![at] = r], Put(fresh, type, r)) BY <1>3, <2>1, ReplaceUpdates
  <2> QED BY <2>3, <2>4 DEF r
<1>5. CASE \A i \in DOMAIN after : after[i].type # type
  <2> DEFINE next == Append(after, r)
             f == Put(fresh, type, r)
             n == Len(after)
  <2>1. at = 0 BY <1>1, <1>5, FirstOfIs
  <2>2. ResetSimpleRule(after, type) = next BY <2>1 DEF ResetSimpleRule, r
  <2>3. IsRules(next) BY <1>1, <1>3, AppendKeepsType
  <2>4. Len(next) = n + 1 /\ next[n + 1] = r /\ \A i \in 1 .. n : next[i] = after[i]
    <3>1. after \in Seq(ToSet(after) \cup {r})
      <4>1. after \in Seq(ToSet(after)) /\ ToSet(after) \subseteq ToSet(after) \cup {r} BY <1>1, RulesProperties
      <4> QED BY <4>1, SeqMonotonic
    <3> QED BY <3>1, AppendProperties
  <2>5. /\ DOMAIN f = DOMAIN fresh \cup {type} /\ f[type] = r
        /\ \A x \in DOMAIN fresh : x # type => f[x] = fresh[x]
        BY DEF Put
  <2>6. n \in Nat /\ Len(rules) <= n /\ DOMAIN after = 1 .. n BY <1>2 DEF Updated
  <2>7. \A i \in 1 .. Len(rules) : after[i].type = rules[i].type BY DEF Updated
  <2>8. \A i \in 1 .. n : after[i].type # type BY <1>5, <2>6
  <2>9. \A j \in 1 .. Len(rules) : rules[j].type # type BY <1>2, <2>6, <2>7, <2>8
  <2>10. \A i \in 1 .. n + 1 : i \in 1 .. n \/ i = n + 1 BY <2>6
  <2>11. \A i \in 1 .. n : after[i].type \in DOMAIN f => f[after[i].type] = fresh[after[i].type] BY <2>5, <2>8
  <2>12. ASSUME NEW i \in 1 .. Len(rules)
         PROVE  next[i] = IF rules[i].type \in DOMAIN f THEN f[rules[i].type] ELSE rules[i]
    <3>1. after[i] = IF rules[i].type \in DOMAIN fresh THEN fresh[rules[i].type] ELSE rules[i] BY DEF Updated
    <3>2. i \in 1 .. n BY <1>2, <2>6
    <3> HIDE DEF next, f, n
    <3> QED BY <2>4, <2>5, <2>9, <3>1, <3>2
  <2>13. ASSUME NEW i \in 1 .. n + 1, i > Len(rules)
         PROVE  /\ next[i].type \in DOMAIN f /\ next[i] = f[next[i].type]
                /\ \A j \in 1 .. Len(rules) : rules[j].type # next[i].type
    <3>1. CASE i = n + 1 BY <1>3, <2>4, <2>5, <2>9, <3>1
    <3>2. CASE i \in 1 .. n
      <4>1. /\ after[i].type \in DOMAIN fresh /\ after[i] = fresh[after[i].type]
            /\ \A j \in 1 .. Len(rules) : rules[j].type # after[i].type
            BY <2>13, <3>2 DEF Updated
      <4> HIDE DEF next, f, n
      <4> QED BY <2>4, <2>5, <2>8, <3>2, <4>1
    <3> QED BY <2>10, <3>1, <3>2
  <2>14. \A x \in DOMAIN f : IsRule(f[x]) /\ f[x].type = x BY <1>3, <2>5 DEF Updated
  <2>15. ASSUME NEW i \in 1 .. n + 1, NEW j \in 1 .. n + 1, next[i].type = next[j].type, next[i].type \in SimpleTypes
         PROVE  i = j
    <3>1. \A k, m \in 1 .. n : after[k].type = after[m].type /\ after[k].type \in SimpleTypes => k = m BY DEF Updated
    <3> HIDE DEF next, f, n
    <3> QED BY <1>3, <2>4, <2>8, <2>10, <2>15, <3>1
  <2>16. ASSUME NEW x \in DOMAIN f PROVE \E i \in 1 .. n + 1 : next[i].type = x
    <3>1. CASE x = type
      <4>1. n + 1 \in 1 .. n + 1 BY <2>6
      <4> QED BY <1>3, <2>4, <3>1, <4>1
    <3>2. CASE x # type
      <4>1. x \in DOMAIN fresh BY <2>5, <3>2
      <4>2. PICK i \in 1 .. n : after[i].type = x BY <4>1 DEF Updated
      <4>3. i \in 1 .. n + 1 BY <2>6
      <4> QED BY <2>4, <4>2, <4>3
    <3> QED BY <3>1, <3>2
  <2> HIDE DEF next, f, n
  <2>17. Updated(rules, next, f)
    <3>1. Len(rules) <= Len(next) BY <1>2, <2>4, <2>6
    <3>2. \A i \in 1 .. Len(rules) : next[i] = IF rules[i].type \in DOMAIN f THEN f[rules[i].type] ELSE rules[i] BY <2>12
    <3>3. \A i \in 1 .. Len(next) :
            i > Len(rules) =>
              /\ next[i].type \in DOMAIN f /\ next[i] = f[next[i].type]
              /\ \A j \in 1 .. Len(rules) : rules[j].type # next[i].type
          BY <2>4, <2>13
    <3>4. \A i, j \in 1 .. Len(next) : next[i].type = next[j].type /\ next[i].type \in SimpleTypes => i = j BY <2>4, <2>15
    <3>5. \A x \in DOMAIN f : \E i \in 1 .. Len(next) : next[i].type = x BY <2>4, <2>16
    <3> QED BY <2>3, <2>14, <3>1, <3>2, <3>3, <3>4, <3>5 DEF Updated
  <2> QED BY <2>2, <2>17 DEF next, f, r
<1> QED BY <1>4, <1>5

LEMMA AddUpdates ==
  ASSUME NEW rules, IsRules(rules), NEW after, NEW fresh, Updated(rules, after, fresh),
         NEW type \in SimpleTypes, type \in DOMAIN fresh, NEW box, IsBox(box)
  PROVE  Updated(rules, add_simple_rule(after, box, type),
                 Put(fresh, type, [fresh[type] EXCEPT !.f = LinesAsFields(box, type)]))
<1> DEFINE f == LinesAsFields(box, type)
           old == fresh[type]
           r == [old EXCEPT !.f = f]
           at == FirstOf(after, type)
<1>1. IsRules(after) /\ IsRule(old) /\ old.type = type BY DEF Updated
<1>2. /\ Len(rules) \in Nat /\ DOMAIN rules = 1 .. Len(rules)
      /\ Len(after) \in Nat /\ DOMAIN after = 1 .. Len(after)
      BY <1>1, RulesProperties
<1>3. add_simple_rule(after, box, type) = [after EXCEPT ![at].f = f] BY DEF add_simple_rule, LinesAsFields
<1>4. DOMAIN f \subseteq Attributes /\ f = [k \in DOMAIN f |-> f[k]] /\ \A k \in DOMAIN f : IsField(k, f[k])
      BY LinesAreFields
<1>5. at \in 1 .. Len(after) /\ after[at].type = type
  <2>1. \E i \in DOMAIN after : after[i].type = type BY <1>2 DEF Updated
  <2> QED BY <1>1, <1>2, <2>1, FirstOfIs
<1> HIDE DEF f, at
<1>6. after[at] = old
  <2>1. CASE at > Len(rules) BY <1>5, <2>1 DEF Updated
  <2>2. CASE ~(at > Len(rules))
    <3>1. at \in 1 .. Len(rules) BY <1>2, <1>5, <2>2
    <3>2. after[at] = IF rules[at].type \in DOMAIN fresh THEN fresh[rules[at].type] ELSE rules[at] BY <3>1 DEF Updated
    <3>3. rules[at].type = type BY <1>5, <3>2 DEF Updated
    <3> QED BY <3>2, <3>3
  <2> QED BY <2>1, <2>2
<1> HIDE DEF old
<1>7. r = [name |-> old.name, type |-> old.type, outbound |-> old.outbound, action |-> old.action, f |-> f]
      BY <1>1, RuleParts
<1>8. [after EXCEPT ![at].f = f] = [after EXCEPT ![at] = r] BY <1>2, <1>5, <1>6
<1> HIDE DEF r
<1>9. IsRule(r) /\ r.type = type
  <2>1. IsRule(r) BY <1>4, <1>7, RuleIs
  <2> QED BY <1>1, <1>7, <2>1
<1>10. Updated(rules, [after EXCEPT ![at] = r], Put(fresh, type, r)) BY <1>5, <1>9, ReplaceUpdates
<1> QED BY <1>3, <1>8, <1>10 DEF r, old, f

(* The lines of a box that shows a rule are its fields; without a rule     *)
(* there are no lines.                                                     *)
LEMMA ShownFields ==
  ASSUME NEW rules, NEW boxes, Shows(rules, boxes), NEW type \in SimpleTypes
  PROVE  /\ \A i \in DOMAIN rules : rules[i].type = type => LinesAsFields(boxes[type[2]], type) = rules[i].f
         /\ (\A i \in DOMAIN rules : rules[i].type # type) => DOMAIN LinesAsFields(boxes[type[2]], type) = {}
<1> DEFINE box == boxes[type[2]]
           named == {x \in LinesOf(type) : box[x] # << >>}
           f == LinesAsFields(box, type)
<1>1. f = [k \in named |-> Distinct(box[k])] BY DEF LinesAsFields
<1>2. ASSUME NEW i \in DOMAIN rules, rules[i].type = type PROVE f = rules[i].f
  <2> DEFINE r == rules[i]
  <2>1. IsRule(r) BY RulesProperties DEF Shows, Plain
  <2>2. /\ \A k \in LinesOf(type) : box[k] = ValueOf(r, k)
        /\ DOMAIN r.f \subseteq LinesOf(type)
        /\ \A k \in DOMAIN r.f : \A m, n \in DOMAIN r.f[k] : r.f[k][m] = r.f[k][n] => m = n
        BY <1>2 DEF Shows, Plain
  <2> HIDE DEF r, f, box
  <2>3. r.f = [k \in DOMAIN r.f |-> r.f[k]] /\ \A k \in DOMAIN r.f : IsField(k, r.f[k]) BY <2>1, RuleParts
  <2>4. LinesOf(type) \subseteq Lists BY LineLists
  <2>5. ASSUME NEW k \in DOMAIN r.f PROVE box[k] = r.f[k] /\ box[k] # << >> /\ Distinct(box[k]) = r.f[k]
    <3>1. k \in LinesOf(type) /\ k \in Lists BY <2>2, <2>4
    <3>2. box[k] = r.f[k] BY <2>2, <3>1 DEF ValueOf, IsSet
    <3>3. r.f[k] \in Seq(Words) /\ r.f[k] # << >> BY <2>3, <3>1 DEF IsField
    <3>4. Distinct(r.f[k]) = r.f[k]
      <4> DEFINE v == r.f[k]
      <4>1. v \in Seq(Words) /\ \A m, n \in DOMAIN v : v[m] = v[n] => m = n BY <2>2, <3>3
      <4> HIDE DEF v
      <4>2. Distinct(v) = v BY <4>1, DistinctIs
      <4> QED BY <4>2 DEF v
    <3> QED BY <3>2, <3>3, <3>4
  <2>6. named = DOMAIN r.f
    <3>1. ASSUME NEW k \in LinesOf(type), k \notin DOMAIN r.f PROVE box[k] = << >>
          BY <2>2, <2>4, <3>1 DEF ValueOf, IsSet
    <3> QED BY <2>2, <2>5, <3>1
  <2> HIDE DEF named
  <2>7. f = [k \in DOMAIN r.f |-> Distinct(box[k])] BY <1>1, <2>6
  <2>8. f = r.f BY <2>3, <2>5, <2>7
  <2> QED BY <2>8 DEF r
<1>3. ASSUME \A i \in DOMAIN rules : rules[i].type # type PROVE DOMAIN f = {}
  <2>1. \A k \in LinesOf(type) : box[k] = << >> BY <1>3 DEF Shows
  <2>2. named = {} BY <2>1
  <2> QED BY <1>1, <2>2
<1> QED BY <1>2, <1>3

(* An update with the boxes as they are shown changes nothing but names,   *)
(* and leaves out what says nothing.                                       *)
LEMMA UpdateAlike ==
  ASSUME NEW rules, NEW boxes, Shows(rules, boxes), NEW target \in Targets, IsBox(boxes[target])
  PROVE  /\ Alike(FilterEmptyRules(rules), UpdateSimpleRules(rules, boxes[target], target))
         /\ Shows(UpdateSimpleRules(rules, boxes[target], target), boxes)
<1> DEFINE box == boxes[target]
           a == <<"address", target>>
           n == <<"processName", target>>
           p == <<"processPath", target>>
           clean1 == ResetSimpleRule(rules, a)
           clean2 == ResetSimpleRule(clean1, n)
           clean3 == ResetSimpleRule(clean2, p)
           full1 == add_simple_rule(clean3, box, a)
           full2 == add_simple_rule(full1, box, n)
           full3 == add_simple_rule(full2, box, p)
           c1 == Put(Nothing, a, CleanRule(a))
           c2 == Put(c1, n, CleanRule(n))
           c3 == Put(c2, p, CleanRule(p))
           f1 == Put(c3, a, [c3[a] EXCEPT !.f = LinesAsFields(box, a)])
           f2 == Put(f1, n, [f1[n] EXCEPT !.f = LinesAsFields(box, n)])
           f3 == Put(f2, p, [f2[p] EXCEPT !.f = LinesAsFields(box, p)])
           filled(type) == [CleanRule(type) EXCEPT !.f = LinesAsFields(box, type)]
<1>1. UpdateSimpleRules(rules, box, target) = FilterEmptyRules(full3) BY DEF UpdateSimpleRules
<1>2. IsRules(rules) /\ Len(rules) \in Nat /\ DOMAIN rules = 1 .. Len(rules) BY RulesProperties DEF Shows, Plain
<1>3. /\ a \in SimpleTypes /\ n \in SimpleTypes /\ p \in SimpleTypes /\ a # n /\ a # p /\ n # p
      /\ a[2] = target /\ n[2] = target /\ p[2] = target
      BY DEF SimpleTypes
<1>4. Updated(rules, rules, Nothing)
  <2>1. DOMAIN Nothing = {} BY DEF Nothing
  <2>2. \A i, j \in DOMAIN rules : rules[i].type = rules[j].type /\ rules[i].type \in SimpleTypes => i = j
        BY DEF Shows, Plain
  <2> QED BY <1>2, <2>1, <2>2 DEF Updated
<1>5. IsBox(box) OBVIOUS
<1> HIDE DEF a, n, p, box
<1>6. Updated(rules, clean1, c1) BY <1>2, <1>3, <1>4, ResetUpdates
<1> HIDE DEF clean1
<1>7. Updated(rules, clean2, c2)
  <2> HIDE DEF c1
  <2> QED BY <1>2, <1>3, <1>6, ResetUpdates
<1> HIDE DEF clean2
<1>8. Updated(rules, clean3, c3)
  <2> HIDE DEF c2
  <2> QED BY <1>2, <1>3, <1>7, ResetUpdates
<1> HIDE DEF clean3
<1>9. /\ DOMAIN c3 = {a, n, p}
      /\ c3[a] = CleanRule(a) /\ c3[n] = CleanRule(n) /\ c3[p] = CleanRule(p)
  <2>1. DOMAIN Nothing = {} BY DEF Nothing
  <2>2. DOMAIN c1 = {a} /\ c1[a] = CleanRule(a) BY <2>1 DEF Put
  <2> HIDE DEF c1
  <2>3. DOMAIN c2 = {a, n} /\ c2[a] = CleanRule(a) /\ c2[n] = CleanRule(n) BY <1>3, <2>2 DEF Put
  <2> HIDE DEF c2
  <2> QED BY <1>3, <2>3 DEF Put
<1> HIDE DEF c3
<1>10. Updated(rules, full1, f1) BY <1>2, <1>3, <1>5, <1>8, <1>9, AddUpdates
<1>11. DOMAIN f1 = {a, n, p} /\ f1[a] = filled(a) /\ f1[n] = CleanRule(n) /\ f1[p] = CleanRule(p)
       BY <1>3, <1>9 DEF Put
<1> HIDE DEF full1, f1
<1>12. Updated(rules, full2, f2) BY <1>2, <1>3, <1>5, <1>10, <1>11, AddUpdates
<1>13. DOMAIN f2 = {a, n, p} /\ f2[a] = filled(a) /\ f2[n] = filled(n) /\ f2[p] = CleanRule(p)
       BY <1>3, <1>11 DEF Put
<1> HIDE DEF full2, f2
<1>14. Updated(rules, full3, f3) BY <1>2, <1>3, <1>5, <1>12, <1>13, AddUpdates
<1>15. DOMAIN f3 = {a, n, p} /\ f3[a] = filled(a) /\ f3[n] = filled(n) /\ f3[p] = filled(p)
       BY <1>3, <1>13 DEF Put
<1> HIDE DEF full3, f3
<1>16. \A type \in DOMAIN f3 : type \in SimpleTypes /\ type[2] = target /\ f3[type] = filled(type) BY <1>3, <1>15
<1>17. ASSUME NEW type
       PROVE  /\ filled(type).type = type /\ filled(type).outbound = CleanRule(type).outbound
              /\ filled(type).action = CleanRule(type).action /\ filled(type).f = LinesAsFields(box, type)
  <2> DEFINE r == CleanRule(type)
             g == LinesAsFields(box, type)
  <2>1. IsRule(r) /\ r.type = type BY CleanRuleIs
  <2> HIDE DEF r, g
  <2>2. [r EXCEPT !.f = g] = [name |-> r.name, type |-> r.type, outbound |-> r.outbound, action |-> r.action, f |-> g]
        BY <2>1, RuleParts
  <2> QED BY <2>1, <2>2 DEF r, g
<1> HIDE DEF filled
<1>18. ASSUME NEW i \in 1 .. Len(rules) PROVE SameRule(rules[i], full3[i])
  <2> DEFINE type == rules[i].type
  <2>1. full3[i] = IF type \in DOMAIN f3 THEN f3[type] ELSE rules[i] BY <1>14 DEF Updated
  <2>2. CASE type \in DOMAIN f3
    <3>1. type \in SimpleTypes /\ type[2] = target /\ full3[i] = filled(type) BY <1>16, <2>1, <2>2
    <3>2. LinesAsFields(box, type) = rules[i].f BY <1>2, <3>1, ShownFields DEF box
    <3>3. rules[i].outbound = CleanRule(type).outbound /\ rules[i].action = CleanRule(type).action
          BY <1>2, <3>1 DEF Shows, Plain
    <3> QED BY <1>17, <3>1, <3>2, <3>3 DEF SameRule
  <2>3. CASE type \notin DOMAIN f3 BY <2>1, <2>3 DEF SameRule
  <2> QED BY <2>2, <2>3
<1>19. ASSUME NEW i \in 1 .. Len(full3), i > Len(rules) PROVE isEmpty(full3[i])
  <2> DEFINE type == full3[i].type
  <2>1. type \in DOMAIN f3 /\ full3[i] = f3[type] /\ \A j \in 1 .. Len(rules) : rules[j].type # type
        BY <1>14, <1>19 DEF Updated
  <2>2. type \in SimpleTypes /\ type[2] = target /\ full3[i] = filled(type) BY <1>16, <2>1
  <2>3. DOMAIN LinesAsFields(box, type) = {} BY <1>2, <2>1, <2>2, ShownFields DEF box
  <2>4. DOMAIN full3[i].f = {} BY <1>17, <2>2, <2>3
  <2> QED BY <2>2, <2>4, LinesSay
<1>20. IsRules(full3) /\ Len(rules) <= Len(full3) BY <1>14 DEF Updated
<1>21. Alike(FilterEmptyRules(rules), FilterEmptyRules(full3)) BY <1>2, <1>18, <1>19, <1>20, FilterAlike
<1>22. Shows(FilterEmptyRules(full3), boxes)
  <2>1. Shows(FilterEmptyRules(rules), boxes) BY FilterShows
  <2>2. IsRules(FilterEmptyRules(full3)) BY <1>20, FilterIs
  <2> QED BY <1>21, <2>1, <2>2, ShowsAlike
<1> QED BY <1>1, <1>21, <1>22 DEF box

(* Rules of one target and two types have no attribute in common.          *)
LEMMA LinesApart ==
  ASSUME NEW t \in SimpleTypes, NEW u \in SimpleTypes, t[2] = u[2], t # u
  PROVE  LinesOf(t) \cap LinesOf(u) = {}
<1>1. /\ t = <<t[1], t[2]>> /\ u = <<u[1], u[2]>>
      /\ t[1] \in {"address", "processName", "processPath"} /\ u[1] \in {"address", "processName", "processPath"}
      BY DEF SimpleTypes
<1>2. t[1] # u[1] BY <1>1
<1>3. "process_name" \notin AddressLists /\ "process_path" \notin AddressLists BY DEF AddressLists
<1> HIDE DEF AddressLists
<1> QED BY <1>1, <1>2, <1>3 DEF LinesOf

(* InOrder counts a finite set of places, each of them once.               *)
LEMMA OrderCounts ==
  ASSUME NEW n \in Nat, NEW K \in SUBSET (1 .. n)
  PROVE  /\ InOrder(K) \in [1 .. Cardinality(K) -> K] /\ Cardinality(K) \in Nat
         /\ \A i \in K : \E m \in 1 .. Cardinality(K) : InOrder(K)[m] = i
         /\ \A m, j \in 1 .. Cardinality(K) : InOrder(K)[m] = InOrder(K)[j] => m = j
BY ChosenCounts, Zenon

(* The boxes of plain rules show them.                                     *)
LEMMA BoxesShow ==
  ASSUME NEW rules, Plain(rules), NEW boxes, \A target \in Targets : boxes[target] = GetSimpleRules(rules, target)
  PROVE  Shows(rules, boxes)
<1>1. IsRules(rules) /\ Len(rules) \in Nat /\ DOMAIN rules = 1 .. Len(rules) /\ \A i \in DOMAIN rules : IsRule(rules[i])
      BY RulesProperties DEF Plain
<1>2. ASSUME NEW type \in SimpleTypes, NEW k \in LinesOf(type)
      PROVE  /\ \A i \in DOMAIN rules : rules[i].type = type => boxes[type[2]][k] = ValueOf(rules[i], k)
             /\ (\A i \in DOMAIN rules : rules[i].type # type) => boxes[type[2]][k] = << >>
  <2> DEFINE target == type[2]
             K == {i \in DOMAIN rules : IsSimple(rules[i]) /\ rules[i].type[2] = target}
             of == Chosen(rules, K)
             at == InOrder(K)
             lists == [i \in DOMAIN of |-> ValueOf(of[i], k)]
  <2>1. target \in Targets BY DEF SimpleTypes
  <2>2. k \in AddressLists \cup ProcessLists /\ k \in Lists BY LineLists
  <2>3. boxes[target][k] = FlattenSeq(lists)
    <3> DEFINE G(x) == FlattenSeq([i \in DOMAIN of |-> ValueOf(of[i], x)])
    <3>1. GetSimpleRules(rules, target) = [x \in AddressLists \cup ProcessLists |-> G(x)] BY DEF GetSimpleRules
    <3>2. boxes[target] = GetSimpleRules(rules, target) BY <2>1
    <3>3. G(k) = FlattenSeq(lists) OBVIOUS
    <3> HIDE DEF G, lists
    <3> QED BY <2>2, <3>1, <3>2, <3>3
  <2>4. K \in SUBSET (1 .. Len(rules)) /\ \A i \in K : i \in DOMAIN rules /\ rules[i].type \in SimpleTypes /\ rules[i].type[2] = target
        BY <1>1 DEF IsSimple
  <2>5. \A i \in DOMAIN rules : rules[i].type = type => i \in K BY DEF IsSimple
  <2> HIDE DEF K
  <2>6. /\ at \in [1 .. Cardinality(K) -> K] /\ Cardinality(K) \in Nat
        /\ \A i \in K : \E m \in 1 .. Cardinality(K) : at[m] = i
        /\ \A m, j \in 1 .. Cardinality(K) : at[m] = at[j] => m = j
    <3>1. Len(rules) \in Nat /\ K \in SUBSET (1 .. Len(rules)) BY <1>1, <2>4
    <3> QED BY <3>1, OrderCounts
  <2>7. of = [m \in 1 .. Cardinality(K) |-> rules[at[m]]] BY DEF Chosen
  <2> HIDE DEF at, of
  <2>8. /\ DOMAIN lists = 1 .. Cardinality(K)
        /\ \A m \in 1 .. Cardinality(K) : at[m] \in K /\ at[m] \in DOMAIN rules /\ lists[m] = ValueOf(rules[at[m]], k)
        BY <2>4, <2>6, <2>7
  <2>9. lists \in Seq(Seq(Words))
    <3>1. \A m \in 1 .. Cardinality(K) : lists[m] \in Seq(Words)
      <4> SUFFICES ASSUME NEW m \in 1 .. Cardinality(K) PROVE lists[m] \in Seq(Words) OBVIOUS
      <4> DEFINE r == rules[at[m]]
      <4>1. IsRule(r) /\ lists[m] = ValueOf(r, k) BY <1>1, <2>8
      <4> HIDE DEF r, lists
      <4>2. CASE k \in DOMAIN r.f
        <5>1. IsField(k, r.f[k]) BY <4>1, <4>2, RuleParts
        <5>2. ValueOf(r, k) = r.f[k] BY <4>2 DEF ValueOf, IsSet
        <5> QED BY <2>2, <4>1, <5>1, <5>2 DEF IsField
      <4>3. CASE k \notin DOMAIN r.f
        <5>1. ValueOf(r, k) = << >> BY <2>2, <4>3 DEF ValueOf, IsSet
        <5> QED BY <4>1, <5>1, EmptySeq
      <4> QED BY <4>2, <4>3
    <3>2. lists = [m \in 1 .. Cardinality(K) |-> lists[m]] BY <2>8
    <3> HIDE DEF lists
    <3> QED BY <2>6, <3>1, <3>2
  <2> HIDE DEF lists
  <2>10. ASSUME NEW m \in 1 .. Cardinality(K), rules[at[m]].type # type PROVE lists[m] = << >>
    <3> DEFINE r == rules[at[m]]
    <3>1. at[m] \in DOMAIN rules /\ r.type \in SimpleTypes /\ r.type[2] = target BY <2>4, <2>8
    <3>2. DOMAIN r.f \subseteq LinesOf(r.type) BY <3>1 DEF Plain
    <3>3. LinesOf(r.type) \cap LinesOf(type) = {} BY <2>10, <3>1, LinesApart
    <3>4. k \notin DOMAIN r.f BY <3>2, <3>3
    <3> QED BY <2>2, <2>8, <3>4 DEF ValueOf, IsSet
  <2>11. ASSUME NEW i \in DOMAIN rules, rules[i].type = type PROVE boxes[target][k] = ValueOf(rules[i], k)
    <3>1. PICK m \in 1 .. Cardinality(K) : at[m] = i BY <2>5, <2>6, <2>11
    <3>2. \A j \in DOMAIN rules : rules[j].type = type => i = j BY <2>11 DEF Plain
    <3>3. \A j \in DOMAIN lists : j # m => lists[j] = << >> BY <2>6, <2>8, <2>10, <3>1, <3>2
    <3>4. FlattenSeq(lists) = lists[m] BY <2>8, <2>9, <3>3, FlattenOne
    <3> QED BY <2>3, <2>8, <3>1, <3>4
  <2>12. ASSUME \A i \in DOMAIN rules : rules[i].type # type PROVE boxes[target][k] = << >>
    <3>1. \A m \in DOMAIN lists : lists[m] = << >> BY <2>8, <2>10, <2>12
    <3>2. FlattenSeq(lists) = << >> BY <2>9, <3>1, FlattenNone
    <3> QED BY <2>3, <3>2
  <2> QED BY <2>11, <2>12
<1> QED BY <1>2 DEF Shows

(* What is accepted as it was shown is alike, but for what says nothing.   *)
LEMMA AcceptedAlike ==
  ASSUME NEW p, NEW boxes, Shows(p.rules, boxes), IsProfile(p), \A target \in Targets : IsBox(boxes[target])
  PROVE  Alike(FilterEmptyRules(p.rules), Accepted(p, boxes).rules)
<1> DEFINE kept0 == FilterEmptyRules(p.rules)
           Fits(rules) == Shows(rules, boxes) /\ IsRules(rules) /\ Alike(kept0, FilterEmptyRules(rules))
           after(rules, target) == UpdateSimpleRules(rules, boxes[target], target)
           all == after(after(after(after(p.rules, "Bypass"), "Block"), "Proxy"), "WarpBypass")
           default == stringToOutboundID(outboundIDToString(p.default))
<1>1. Fits(p.rules) BY DEF Shows, Plain, Alike, SameRule
<1>2. ASSUME NEW rules, Fits(rules), NEW target \in Targets PROVE Fits(after(rules, target))
  <2> DEFINE next == after(rules, target)
             left == FilterEmptyRules(rules)
  <2>1. Alike(left, next) /\ Shows(next, boxes) BY <1>2, UpdateAlike
  <2>2. IsRules(next) BY <2>1 DEF Shows, Plain
  <2>3. IsRules(left) /\ FilterEmptyRules(left) = left BY <1>2, FilterIs, FilterLeft
  <2> HIDE DEF next, left, kept0
  <2>4. Alike(left, FilterEmptyRules(next))
    <3>1. Alike(FilterEmptyRules(left), FilterEmptyRules(next)) BY <2>1, <2>2, <2>3, FilterOfAlike
    <3> QED BY <2>3, <3>1
  <2>5. Alike(kept0, left) BY <1>2 DEF left
  <2>6. Alike(kept0, FilterEmptyRules(next)) BY <2>4, <2>5, AlikeIs
  <2> QED BY <2>1, <2>2, <2>6 DEF next
<1>3. "Bypass" \in Targets /\ "Block" \in Targets /\ "Proxy" \in Targets /\ "WarpBypass" \in Targets BY DEF Targets
<1>4. Fits(all)
  <2> HIDE DEF Fits, after
  <2> QED BY <1>1, <1>2, <1>3
<1>5. Accepted(p, boxes) = WithDefaultAndRules(p, default, FilterEmptyRules(all)) BY DEF Accepted, WithDefaultAndRules
<1>6. IsRules(FilterEmptyRules(all)) BY <1>4, FilterIs
<1>7. Alike(kept0, FilterEmptyRules(all)) BY <1>4
<1> HIDE DEF all, default
<1>8. WithDefaultAndRules(p, default, FilterEmptyRules(all)).rules = FilterEmptyRules(all)
      BY <1>6, WithDefaultAndRulesIs
<1> QED BY <1>5, <1>7, <1>8

LEMMA NamelessAlike ==
  ASSUME NEW rules, IsRules(rules), NEW others, IsRules(others), Alike(rules, others)
  PROVE  Nameless(rules) = Nameless(others)
<1> DEFINE none == ""
<1>1. DOMAIN rules = DOMAIN others BY DEF Alike
<1>2. ASSUME NEW i \in DOMAIN rules
      PROVE  [rules[i] EXCEPT !.name = none] = [others[i] EXCEPT !.name = none]
  <2> DEFINE r == rules[i]
             s == others[i]
  <2>1. IsRule(r) /\ IsRule(s) /\ SameRule(r, s) BY <1>1, RulesProperties DEF Alike
  <2> HIDE DEF r, s, none
  <2>2. /\ [r EXCEPT !.name = none] = [name |-> none, type |-> r.type, outbound |-> r.outbound, action |-> r.action, f |-> r.f]
        /\ [s EXCEPT !.name = none] = [name |-> none, type |-> s.type, outbound |-> s.outbound, action |-> s.action, f |-> s.f]
        BY <2>1, RuleParts
  <2> QED BY <2>1, <2>2 DEF SameRule, r, s
<1> QED BY <1>1, <1>2 DEF Nameless

(* The rules of a profile, opened and accepted as they are.                *)
LEMMA EditorKeeps ==
  ASSUME NEW p, IsProfile(p), ~IsEmptyProfile(p), \A i \in DOMAIN p.rules : PlainSimple(p.rules, p.rules[i])
  PROVE  Nameless(Accepted(Opened(p), Boxes(Opened(p))).rules) = Nameless(FilterEmptyRules(p.rules))
<1> DEFINE rules == Renamed(p.rules)
           e == Opened(p)
           boxes == Boxes(e)
           done == Accepted(e, boxes)
<1>1. IsRules(p.rules) /\ \A i \in DOMAIN p.rules : IsRule(p.rules[i]) BY RulesProperties DEF IsProfile
<1>2. /\ IsRules(rules) /\ DOMAIN rules = DOMAIN p.rules
      /\ \A i \in DOMAIN p.rules :
           \E name : rules[i] = [name |-> name, type |-> p.rules[i].type, outbound |-> p.rules[i].outbound,
                                 action |-> p.rules[i].action, f |-> p.rules[i].f]
      BY <1>1, RenamedIs
<1> HIDE DEF rules
<1>3. ASSUME NEW i \in DOMAIN p.rules PROVE SameRule(p.rules[i], rules[i])
  <2> DEFINE r == p.rules[i]
             s == rules[i]
  <2>1. PICK name : s = [name |-> name, type |-> r.type, outbound |-> r.outbound, action |-> r.action, f |-> r.f]
        BY <1>2
  <2> HIDE DEF r, s
  <2>2. SameRule(r, s) BY <2>1 DEF SameRule
  <2> QED BY <2>2 DEF r, s
<1>4. Alike(p.rules, rules) BY <1>2, <1>3 DEF Alike
<1>5. e = WithRules(p, rules) BY DEF Opened, WithRules, rules
<1>6. IsProfile(e) /\ e.rules = rules BY <1>2, <1>5, WithRulesIs
<1> HIDE DEF e
<1>7. Plain(rules)
  <2>1. ASSUME NEW i \in DOMAIN rules, rules[i].type \in SimpleTypes
        PROVE  LET type == rules[i].type
               IN  /\ \A j \in DOMAIN rules : rules[j].type = type => i = j
                   /\ rules[i].outbound = CleanRule(type).outbound /\ rules[i].action = CleanRule(type).action
                   /\ DOMAIN rules[i].f \subseteq LinesOf(type)
                   /\ \A k \in DOMAIN rules[i].f : \A m, n \in DOMAIN rules[i].f[k] : rules[i].f[k][m] = rules[i].f[k][n] => m = n
    <3> DEFINE r == p.rules[i]
               clean == CleanRule(r.type)
    <3>1. i \in DOMAIN p.rules /\ r.type = rules[i].type /\ r.outbound = rules[i].outbound /\ r.action = rules[i].action
          /\ r.f = rules[i].f
          BY <1>2, <1>3 DEF SameRule
    <3>2. PlainSimple(p.rules, r) /\ IsSimple(r) BY <2>1, <3>1 DEF IsSimple
    <3>3. /\ \A j, m \in DOMAIN p.rules : p.rules[j].type = r.type /\ p.rules[m].type = r.type => j = m
          /\ [clean EXCEPT !.f = r.f, !.name = r.name] = r
          /\ DOMAIN r.f \subseteq LinesOf(r.type)
          /\ \A k \in DOMAIN r.f : IsInjective(r.f[k])
          BY <3>2 DEF PlainSimple
    <3>4. IsRule(clean) BY CleanRuleIs
    <3>5. r.outbound = clean.outbound /\ r.action = clean.action
      <4> DEFINE x == [clean EXCEPT !.f = r.f, !.name = r.name]
      <4>1. x.outbound = clean.outbound /\ x.action = clean.action
        <5> HIDE DEF clean, r
        <5> QED BY <3>4 DEF IsRule
      <4>2. x = r BY <3>3
      <4> HIDE DEF x
      <4> QED BY <4>1, <4>2
    <3>6. \A j \in DOMAIN rules : rules[j].type = r.type => i = j BY <1>2, <1>3, <3>1, <3>3 DEF SameRule
    <3>7. \A k \in DOMAIN r.f : \A m, n \in DOMAIN r.f[k] : r.f[k][m] = r.f[k][n] => m = n BY <3>3 DEF IsInjective
    <3> HIDE DEF r
    <3> QED BY <3>1, <3>3, <3>5, <3>6, <3>7
  <2> QED BY <1>2, <2>1 DEF Plain
<1>8. \A target \in Targets : boxes[target] = GetSimpleRules(rules, target) BY <1>6 DEF Boxes
<1>9. \A target \in Targets : IsBox(boxes[target]) BY <1>2, <1>8, BoxesAre
<1> HIDE DEF boxes
<1>10. Shows(e.rules, boxes) BY <1>6, <1>7, <1>8, BoxesShow
<1>11. Alike(FilterEmptyRules(rules), done.rules) BY <1>6, <1>9, <1>10, AcceptedAlike
<1>12. IsRules(done.rules) BY <1>6, <1>9, AcceptedIs DEF IsProfile
<1> HIDE DEF done
<1>13. Alike(FilterEmptyRules(p.rules), FilterEmptyRules(rules)) BY <1>1, <1>2, <1>4, FilterOfAlike
<1>14. Alike(FilterEmptyRules(p.rules), done.rules) BY <1>11, <1>13, AlikeIs
<1>15. Nameless(FilterEmptyRules(p.rules)) = Nameless(done.rules)
  <2>1. IsRules(FilterEmptyRules(p.rules)) BY <1>1, FilterIs
  <2> QED BY <1>12, <1>14, <2>1, NamelessAlike
<1> QED BY <1>15 DEF done, boxes, e

(* A structured profile that is opened in the editor and accepted as it is *)
(* keeps its rules and their order, though the simple ones are made again  *)
(* from the lines of the boxes (RouteItem, RouteProfile::UpdateSimpleRules *)
(* and FilterEmptyRules).                                                  *)
THEOREM EditorIsFaithful == Spec => []EditorKeepsRules
<1>1. TypeOK => EditorKeepsRules
  <2> SUFFICES ASSUME TypeOK, NEW p \in Structured, ~IsEmptyProfile(p),
                      \A i \in DOMAIN p.rules : PlainSimple(p.rules, p.rules[i])
               PROVE  Nameless(Accepted(Opened(p), Boxes(Opened(p))).rules) = Nameless(FilterEmptyRules(p.rules))
        BY DEF EditorKeepsRules
  <2>1. IsProfile(p) BY DEF Structured, TypeOK
  <2> QED BY <2>1, EditorKeeps
<1> QED BY <1>1, RoutesTypeOK, PTL
=============================================================================
