------------------------- MODULE GroupStore_proofs --------------------------
(***************************************************************************)
(* Proofs about a group's list, its rows and its subscription updates, for *)
(* every number of profiles, keys, updates, uses and ends of the program:  *)
(* which of the three hold which profile between any two statements        *)
(* (ListsAndRowsAgree), and what an update leaves of the group             *)
(* (MirrorsRemote).                                                        *)
(***************************************************************************)
EXTENDS GroupStore, SequenceTheorems, FiniteSetTheorems, TLAPS
-----------------------------------------------------------------------------
-----------------------------------------------------------------------------
(* Sequences: what is left of one without some members.                    *)

(* The places of a sequence are finite in number, and so are those kept.   *)
LEMMA PlacesAreFinite ==
  ASSUME NEW k \in Nat, NEW K \in SUBSET (1 .. k)
  PROVE  IsFiniteSet(K) /\ Cardinality(K) \in Nat /\ Cardinality(1 .. k) = k
<1>1. 1 \in Int /\ k \in Int OBVIOUS
<1>2. IsFiniteSet(1 .. k) /\ Cardinality(1 .. k) = k BY <1>1, FS_Interval
<1>3. IsFiniteSet(K) BY <1>2, FS_Subset
<1> QED BY <1>2, <1>3, FS_CardinalityType

(* The members of a finite set of places can be counted off.               *)
LEMMA PlacesAreCounted ==
  ASSUME NEW k \in Nat, NEW K \in SUBSET (1 .. k)
  PROVE  /\ Cardinality(K) \in Nat
         /\ \A m \in 1 .. Cardinality(K) : \E n \in K : Cardinality(K \cap 1 .. n) = m
         /\ \A n, o \in K : Cardinality(K \cap 1 .. n) = Cardinality(K \cap 1 .. o) => n = o
<1> DEFINE rank == [n \in K |-> Cardinality(K \cap 1 .. n)]
<1>1. IsFiniteSet(K) /\ Cardinality(K) \in Nat BY PlacesAreFinite
<1>2. \A n \in K : IsFiniteSet(K \cap 1 .. n) BY <1>1, FS_Subset
<1>3. ASSUME NEW n \in K PROVE rank[n] \in 1 .. Cardinality(K)
  <2>1. Cardinality(K \cap 1 .. n) \in Nat /\ Cardinality(K \cap 1 .. n) <= Cardinality(K)
        BY <1>1, <1>2, FS_Subset, FS_CardinalityType
  <2>2. n \in K \cap 1 .. n OBVIOUS
  <2>3. Cardinality(K \cap 1 .. n) # 0 BY <1>2, <2>2, FS_EmptySet
  <2> QED BY <1>1, <2>1, <2>3
<1>4. ASSUME NEW n \in K, NEW o \in K, rank[n] = rank[o], n < o PROVE FALSE
  <2>1. K \cap 1 .. n \subseteq K \cap 1 .. o BY <1>4
  <2>2. K \cap 1 .. n = K \cap 1 .. o
    <3>1. Cardinality(K \cap 1 .. n) = Cardinality(K \cap 1 .. o) BY <1>4
    <3> QED BY <1>2, <2>1, <3>1, FS_Subset
  <2>3. o \in K \cap 1 .. o /\ o \notin K \cap 1 .. n BY <1>4
  <2> QED BY <2>2, <2>3
<1>5. \A n, o \in K : rank[n] = rank[o] => n = o
  <2> SUFFICES ASSUME NEW n \in K, NEW o \in K, rank[n] = rank[o] PROVE n = o OBVIOUS
  <2>1. n < o \/ o < n \/ n = o OBVIOUS
  <2> HIDE DEF rank
  <2> QED BY <1>4, <2>1
<1>6. rank \in Injection(K, 1 .. Cardinality(K)) BY <1>3, <1>5 DEF Injection, IsInjective
<1>7. IsFiniteSet(1 .. Cardinality(K)) /\ Cardinality(1 .. Cardinality(K)) = Cardinality(K)
      BY <1>1, FS_Interval
<1>8. rank \in Surjection(K, 1 .. Cardinality(K))
  <2> HIDE DEF rank
  <2> QED BY <1>6, <1>7, FS_Injection
<1>9. \A m \in 1 .. Cardinality(K) : \E n \in K : rank[n] = m BY <1>8 DEF Surjection
<1> QED BY <1>1, <1>5, <1>9

(* Without keeps the type, leaves out the members named and no others, and *)
(* adds no repetition.                                                     *)
LEMMA WithoutProperties ==
  ASSUME NEW S, NEW seq \in Seq(S), NEW ids
  PROVE  /\ Without(seq, ids) \in Seq(S)
         /\ ToSet(Without(seq, ids)) = ToSet(seq) \ ids
         /\ IsInjective(seq) => IsInjective(Without(seq, ids))
         /\ ToSet(seq) \cap ids = {} => Without(seq, ids) = seq
<1> DEFINE keep == {n \in DOMAIN seq : seq[n] \notin ids}
           Place(m) == CHOOSE n \in keep : Cardinality(keep \cap 1 .. n) = m
           rest == [m \in 1 .. Cardinality(keep) |-> seq[Place(m)]]
<1>1. Without(seq, ids) = rest BY DEF Without
<1>2. Len(seq) \in Nat /\ DOMAIN seq = 1 .. Len(seq) /\ \A n \in DOMAIN seq : seq[n] \in S
      BY LenProperties, ElementOfSeq
<1>3. /\ Cardinality(keep) \in Nat
      /\ \A m \in 1 .. Cardinality(keep) : \E n \in keep : Cardinality(keep \cap 1 .. n) = m
      /\ \A n, o \in keep : Cardinality(keep \cap 1 .. n) = Cardinality(keep \cap 1 .. o) => n = o
      <2>1. keep \in SUBSET (1 .. Len(seq)) BY <1>2
      <2> HIDE DEF keep
      <2> QED BY <1>2, <2>1, PlacesAreCounted
<1>4. ASSUME NEW m \in 1 .. Cardinality(keep)
      PROVE  Place(m) \in keep /\ Cardinality(keep \cap 1 .. Place(m)) = m
  <2> HIDE DEF keep
  <2> QED BY <1>3
<1>5. ASSUME NEW n \in keep PROVE \E m \in 1 .. Cardinality(keep) : Place(m) = n
  <2> DEFINE m == Cardinality(keep \cap 1 .. n)
  <2>1. m \in 1 .. Cardinality(keep)
    <3>1. IsFiniteSet(keep)
      <4>1. keep \in SUBSET (1 .. Len(seq)) BY <1>2
      <4> HIDE DEF keep
      <4> QED BY <1>2, <4>1, PlacesAreFinite
    <3>2. n \in keep \cap 1 .. n BY <1>2
    <3> HIDE DEF keep
    <3>3. IsFiniteSet(keep \cap 1 .. n) BY <3>1, FS_Subset
    <3>4. Cardinality(keep \cap 1 .. n) \in Nat /\ Cardinality(keep \cap 1 .. n) <= Cardinality(keep)
          BY <3>1, <3>3, FS_Subset, FS_CardinalityType
    <3>5. Cardinality(keep \cap 1 .. n) # 0 BY <3>2, <3>3, FS_EmptySet
    <3> QED BY <1>3, <3>4, <3>5
  <2> HIDE DEF keep
  <2>2. Place(m) = n
    <3>1. Place(m) \in keep /\ Cardinality(keep \cap 1 .. Place(m)) = m BY <2>1, <1>4
    <3> HIDE DEF Place
    <3> QED BY <3>1, <1>3, <1>5
  <2> QED BY <2>1, <2>2
<1>6. rest \in Seq(S)
  <2>1. \A m \in 1 .. Cardinality(keep) : seq[Place(m)] \in S
    <3> SUFFICES ASSUME NEW m \in 1 .. Cardinality(keep) PROVE seq[Place(m)] \in S OBVIOUS
    <3>1. Place(m) \in keep BY <1>4
    <3>2. Place(m) \in DOMAIN seq BY <3>1
    <3> HIDE DEF keep, Place
    <3> QED BY <3>2, <1>2
  <2> HIDE DEF keep, Place
  <2> QED BY <1>3, <2>1
<1>7. ToSet(rest) = ToSet(seq) \ ids
  <2>1. ASSUME NEW i \in ToSet(rest) PROVE i \in ToSet(seq) \ ids
    <3>1. PICK m \in 1 .. Cardinality(keep) : i = seq[Place(m)] BY <2>1 DEF ToSet
    <3>2. Place(m) \in keep BY <1>4
    <3> HIDE DEF Place
    <3> QED BY <3>1, <3>2 DEF ToSet
  <2>2. ASSUME NEW i \in ToSet(seq) \ ids PROVE i \in ToSet(rest)
    <3>1. PICK n \in DOMAIN seq : i = seq[n] BY <2>2 DEF ToSet
    <3>2. n \in keep BY <3>1
    <3>3. PICK m \in 1 .. Cardinality(keep) : Place(m) = n BY <3>2, <1>5
    <3> HIDE DEF keep, Place
    <3> QED BY <3>1, <3>3 DEF ToSet
  <2> QED BY <2>1, <2>2
<1>8. ASSUME IsInjective(seq) PROVE IsInjective(rest)
  <2> SUFFICES ASSUME NEW m \in 1 .. Cardinality(keep), NEW o \in 1 .. Cardinality(keep),
                      seq[Place(m)] = seq[Place(o)]
               PROVE  m = o
      BY DEF IsInjective
  <2>1. /\ Place(m) \in DOMAIN seq /\ Cardinality(keep \cap 1 .. Place(m)) = m
        /\ Place(o) \in DOMAIN seq /\ Cardinality(keep \cap 1 .. Place(o)) = o
    BY <1>4
  <2> HIDE DEF keep, Place
  <2>2. Place(m) = Place(o) BY <2>1, <1>8 DEF IsInjective
  <2> QED BY <2>1, <2>2
<1>9. ASSUME ToSet(seq) \cap ids = {} PROVE rest = seq
  <2>1. keep = 1 .. Len(seq) BY <1>2, <1>9 DEF ToSet
  <2>2. Cardinality(keep) = Len(seq)
    <3> HIDE DEF keep
    <3> QED BY <1>2, <2>1, PlacesAreFinite
  <2>3. ASSUME NEW m \in 1 .. Len(seq) PROVE Place(m) = m
    <3>1. Place(m) \in 1 .. Len(seq) /\ Cardinality(keep \cap 1 .. Place(m)) = m BY <1>4, <2>1, <2>2
    <3>2. keep \cap 1 .. Place(m) = 1 .. Place(m)
      <4> HIDE DEF Place
      <4> QED BY <2>1, <3>1, <1>2
    <3> HIDE DEF Place
    <3>3. Cardinality(1 .. Place(m)) = Place(m) BY <3>1, FS_Interval
    <3> QED BY <3>1, <3>2, <3>3
  <2>4. Len(rest) = Len(seq) /\ \A m \in 1 .. Len(seq) : rest[m] = seq[m]
    <3> HIDE DEF keep, Place
    <3> QED BY <1>2, <2>2, <2>3
  <2> HIDE DEF rest
  <2> QED BY <1>6, <2>4, SeqEqual
<1> HIDE DEF rest
<1> QED BY <1>1, <1>6, <1>7, <1>8, <1>9

(* Max of places that are not empty is one of them.                        *)
LEMMA MaxIsMember ==
  ASSUME NEW k \in Nat, NEW K \in SUBSET (1 .. k), K # {}
  PROVE  Max(K) \in K
<1>1. IsFiniteSet(K) /\ Cardinality(K) \in Nat BY PlacesAreFinite
<1>2. Cardinality(K) # 0 BY <1>1, FS_EmptySet
<1>3. PICK n \in K : Cardinality(K \cap 1 .. n) = Cardinality(K)
  <2>1. Cardinality(K) \in 1 .. Cardinality(K) BY <1>1, <1>2
  <2>2. \A m \in 1 .. Cardinality(K) : \E n \in K : Cardinality(K \cap 1 .. n) = m BY PlacesAreCounted
  <2> QED BY <2>1, <2>2
<1>4. K \cap 1 .. n = K BY <1>1, <1>3, FS_Subset
<1>5. \A m \in K : n >= m BY <1>4
<1> QED BY <1>5 DEF Max

(* Lists that are put together.                                            *)
LEMMA ConcatKnows ==
  ASSUME NEW S, NEW s \in Seq(S), NEW t \in Seq(S)
  PROVE  /\ s \o t \in Seq(S) /\ ToSet(s \o t) = ToSet(s) \cup ToSet(t)
         /\ IsInjective(s) /\ IsInjective(t) /\ ToSet(s) \cap ToSet(t) = {} => IsInjective(s \o t)
<1>1. /\ s \o t \in Seq(S) /\ Len(s \o t) = Len(s) + Len(t)
      /\ \A i \in 1 .. Len(s) + Len(t) : (s \o t)[i] = IF i <= Len(s) THEN s[i] ELSE t[i - Len(s)]
      BY ConcatProperties
<1>2. /\ DOMAIN s = 1 .. Len(s) /\ DOMAIN t = 1 .. Len(t) /\ Len(s) \in Nat /\ Len(t) \in Nat
      /\ DOMAIN (s \o t) = 1 .. Len(s) + Len(t)
      BY <1>1, LenProperties
<1>3. ASSUME NEW x \in ToSet(s \o t) PROVE x \in ToSet(s) \cup ToSet(t)
  <2>1. PICK i \in 1 .. Len(s) + Len(t) : x = (s \o t)[i] BY <1>2, <1>3 DEF ToSet
  <2>2. CASE i <= Len(s)
    <3>1. i \in DOMAIN s /\ x = s[i] BY <1>1, <1>2, <2>1, <2>2
    <3> QED BY <3>1 DEF ToSet
  <2>3. CASE ~(i <= Len(s))
    <3>1. i - Len(s) \in DOMAIN t /\ x = t[i - Len(s)] BY <1>1, <1>2, <2>1, <2>3
    <3> QED BY <3>1 DEF ToSet
  <2> QED BY <2>2, <2>3
<1>4. ASSUME NEW x \in ToSet(s) PROVE x \in ToSet(s \o t)
  <2>1. PICK i \in DOMAIN s : x = s[i] BY <1>4 DEF ToSet
  <2>2. i \in DOMAIN (s \o t) /\ (s \o t)[i] = x BY <1>1, <1>2, <2>1
  <2> QED BY <2>2 DEF ToSet
<1>5. ASSUME NEW x \in ToSet(t) PROVE x \in ToSet(s \o t)
  <2>1. PICK i \in DOMAIN t : x = t[i] BY <1>5 DEF ToSet
  <2>2. i + Len(s) \in DOMAIN (s \o t) /\ (s \o t)[i + Len(s)] = x BY <1>1, <1>2, <2>1
  <2> QED BY <2>2 DEF ToSet
<1>6. ASSUME IsInjective(s), IsInjective(t), ToSet(s) \cap ToSet(t) = {},
             NEW i \in DOMAIN (s \o t), NEW j \in DOMAIN (s \o t), (s \o t)[i] = (s \o t)[j]
      PROVE  i = j
  <2>1. i \in 1 .. Len(s) + Len(t) /\ j \in 1 .. Len(s) + Len(t) BY <1>2
  <2>2. CASE i <= Len(s) /\ j <= Len(s) BY <1>1, <1>2, <1>6, <2>1, <2>2 DEF IsInjective
  <2>3. CASE ~(i <= Len(s)) /\ ~(j <= Len(s))
    <3>1. i - Len(s) \in DOMAIN t /\ j - Len(s) \in DOMAIN t /\ t[i - Len(s)] = t[j - Len(s)]
          BY <1>1, <1>2, <1>6, <2>1, <2>3
    <3>2. i - Len(s) = j - Len(s) BY <3>1, <1>6 DEF IsInjective
    <3> QED BY <1>2, <2>1, <3>2
  <2>4. CASE i <= Len(s) /\ ~(j <= Len(s))
    <3>1. i \in DOMAIN s /\ j - Len(s) \in DOMAIN t /\ s[i] = t[j - Len(s)] BY <1>1, <1>2, <1>6, <2>1, <2>4
    <3> QED BY <3>1, <1>6 DEF ToSet
  <2>5. CASE ~(i <= Len(s)) /\ j <= Len(s)
    <3>1. j \in DOMAIN s /\ i - Len(s) \in DOMAIN t /\ s[j] = t[i - Len(s)] BY <1>1, <1>2, <1>6, <2>1, <2>5
    <3> QED BY <3>1, <1>6 DEF ToSet
  <2> QED BY <2>2, <2>3, <2>4, <2>5
<1>7. IsInjective(s) /\ IsInjective(t) /\ ToSet(s) \cap ToSet(t) = {} => IsInjective(s \o t)
      BY <1>6 DEF IsInjective
<1> QED BY <1>1, <1>3, <1>4, <1>5, <1>7

(* Append adds its element to the members.                                 *)
LEMMA AppendKnows ==
  ASSUME NEW S, NEW s \in Seq(S), NEW x \in S
  PROVE  /\ Append(s, x) \in Seq(S) /\ ToSet(Append(s, x)) = ToSet(s) \cup {x}
         /\ IsInjective(s) /\ x \notin ToSet(s) => IsInjective(Append(s, x))
<1>1. Append(s, x) = s \o <<x>> /\ <<x>> \in Seq(S) BY AppendIsConcat
<1>2. ToSet(<<x>>) = {x} /\ IsInjective(<<x>>) BY DEF ToSet, IsInjective
<1>3. /\ ToSet(s \o <<x>>) = ToSet(s) \cup ToSet(<<x>>)
      /\ IsInjective(s) /\ IsInjective(<<x>>) /\ ToSet(s) \cap ToSet(<<x>>) = {} => IsInjective(s \o <<x>>)
      BY <1>1, ConcatKnows
<1>4. Append(s, x) \in Seq(S) BY AppendProperties
<1> QED BY <1>1, <1>2, <1>3, <1>4

(* The empty sequence has no members and no repetition.                    *)
LEMMA EmptyKnows ==
  /\ ToSet(<< >>) = {} /\ IsInjective(<< >>) /\ \A S : << >> \in Seq(S)
BY DEF ToSet, IsInjective

(* The members of a sequence are of its set.                               *)
LEMMA MembersOfSeq == ASSUME NEW S, NEW s \in Seq(S) PROVE ToSet(s) \subseteq S
BY LenProperties, ElementOfSeq DEF ToSet
-----------------------------------------------------------------------------
(* Types.                                                                  *)

Phases == {"idle", "fetch", "read", "parse", "insert", "append", "look", "apply", "clean", "delete"}
Lists == Seq(Ids \cup {NoId})
Updates == [pc : Phases, old : Lists, new : Lists, all : SUBSET Ids, del : SUBSET Ids]
UiStates == [pc : {"idle", "append", "delete"}, id : Ids \cup {NoId}]

Types ==
  /\ lastId \in 0 .. MaxId /\ key \in [Ids -> Keys \cup {None}]
  /\ rows \subseteq Ids /\ group \in BOOLEAN
  /\ stored \in Lists /\ list \in Lists
  /\ started \in Ids \cup {None} /\ clear \in BOOLEAN /\ allow \in BOOLEAN
  /\ upd \in [Updaters -> Updates] /\ ui \in UiStates
  /\ saving \subseteq Ids /\ odd \subseteq Oddities
  /\ updates \in 0 .. MaxUpdates /\ uses \in 0 .. MaxUi /\ crashes \in 0 .. MaxCrash
-----------------------------------------------------------------------------
(* Who works when, as far as what is not excepted says.                    *)

Active(u) == upd[u].pc # "idle"
Adds(u) == upd[u].pc \in {"insert", "append"}

(* Without the group there is nothing of it in the database, and the user  *)
(* is not at it.                                                           *)
GoneIsEmpty == ~group => rows = {} /\ stored = << >> /\ ui.pc = "idle"
GoneIsIdle == Never({"gone"}) => (~group => ~Updating)
OneUpdates == Never({"twice"}) => \A u, v \in Updaters : Active(u) /\ Active(v) => u = v
NoneAdds == Never({"added"}) => (ui.pc = "append" => ~Updating)
NoneDeletes == Never({"deleted"}) => (ui.pc = "delete" => ~Updating)

(* What an update has read or added, it has in the phases from there on.   *)
Begins == \A u \in Updaters :
  /\ upd[u].pc \in {"idle", "fetch", "read"} => upd[u].old = << >>
  /\ upd[u].pc \in {"idle", "fetch", "read", "parse"} => upd[u].new = << >>
  /\ Adds(u) => ToSet(upd[u].new) \subseteq Ids
  /\ clear => upd[u].pc \notin {"apply", "clean", "delete"}

Turns == Types /\ GoneIsEmpty /\ GoneIsIdle /\ OneUpdates /\ NoneAdds /\ NoneDeletes /\ Begins
-----------------------------------------------------------------------------
(* Memory and database.                                                    *)
SavedIsListed == group /\ (clear => Never({"kept"})) => list = stored
-----------------------------------------------------------------------------
(* Ids are handed out once: nobody knows of an id not handed out, and only *)
(* who adds a profile knows of it until it is listed.                      *)
Handed == 0 .. lastId
Has(u) == ToSet(upd[u].old) \cup ToSet(upd[u].new) \cup upd[u].all \cup upd[u].del

KnownIsHanded ==
  /\ rows \cup ToSet(list) \cup ToSet(stored) \cup saving \cup {ui.id} \subseteq Handed
  /\ \A u \in Updaters : Has(u) \subseteq Handed

AddedIsOwn == ui.pc = "append" =>
  /\ ui.id \in Ids /\ ui.id \notin ToSet(list) \cup ToSet(stored)
  /\ \A u \in Updaters : ui.id \notin Has(u)

NewIsOwn == \A u \in Updaters : Adds(u) =>
  /\ IsInjective(upd[u].new)
  /\ ToSet(upd[u].new) \cap (ToSet(list) \cup ToSet(stored)) = {}
  /\ \A v \in Updaters \ {u} : ToSet(upd[u].new) \cap Has(v) = {}

OldIsNotNew == \A u \in Updaters :
  NoId \notin ToSet(upd[u].old) /\ ToSet(upd[u].old) \cap ToSet(upd[u].new) = {}

OwnIds == KnownIsHanded /\ AddedIsOwn /\ NewIsOwn /\ OldIsNotNew
-----------------------------------------------------------------------------
(* What is listed, or about to be listed, has its row.                     *)
RowsOfListed == Never({"twice", "gone", "deleted"}) =>
  /\ ToSet(stored) \subseteq rows /\ (group => ToSet(list) \subseteq rows)
  /\ ui.pc = "append" => ui.id \in rows
  /\ ui.pc = "delete" => ui.id \notin ToSet(list) \cup ToSet(stored)
  /\ \A u \in Updaters :
        /\ ToSet(upd[u].old) \subseteq rows
        /\ upd[u].pc \in {"append", "look", "apply"} => ToSet(upd[u].new) \subseteq rows
        /\ upd[u].pc = "delete" => upd[u].del \cap (ToSet(list) \cup ToSet(stored)) = {}

(* A row that is not listed is in the hands of the user or of an update.   *)
InHands == IF ui.pc = "idle" THEN {} ELSE {ui.id}
InUpdate(u) == IF upd[u].pc = "append" THEN ToSet(upd[u].new)
               ELSE IF upd[u].pc = "delete" THEN upd[u].del ELSE {}
RowsAreKnown == ~clear /\ Never({"twice", "added", "kept", "revived", "ended"}) =>
  /\ (\A u \in Updaters : upd[u].pc # "clean") =>
        \A i \in rows : i \in ToSet(list) \cup InHands \/ \E u \in Updaters : i \in InUpdate(u)
  /\ \A u \in Updaters : upd[u].pc \in {"apply", "clean"} => rows \subseteq upd[u].all \cup InHands

(* The running profile is in nobody's hands.                               *)
RunningIsSpared == Never({"twice"}) =>
  /\ started # None => started \in rows
  /\ ui.pc = "delete" => started # ui.id
  /\ \A u \in Updaters : upd[u].pc = "delete" =>
        started \notin upd[u].del /\ upd[u].del \cap ToSet(list) = {}

(* No repetition: of ids in the lists, of ids and keys among the new.      *)
ListsAreInjective == Never({"same", "gone"}) =>
  /\ IsInjective(list) /\ IsInjective(stored)
  /\ \A u \in Updaters : \A n, m \in DOMAIN upd[u].new :
        /\ upd[u].new[n] # NoId
        /\ key[upd[u].new[n]] = key[upd[u].new[m]] => n = m

(* What an update has added it finds again, and lists in its order.        *)
NewIsKept == Never({"twice", "gone", "added", "deleted"}) => \A u \in Updaters :
  /\ upd[u].pc = "look" => ToSet(upd[u].new) \subseteq ToSet(list) \cap rows
  /\ upd[u].pc \in {"apply", "clean", "delete"} => ToSet(upd[u].new) \subseteq upd[u].all
  /\ upd[u].pc \in {"clean", "delete"} => list = RemoteOrder(u)
-----------------------------------------------------------------------------
(* What each step does to an update.                                       *)

(* The bounds are numbers, and ids are positive.                           *)
LEMMA Bounds == {MaxId, MaxUpdates, MaxUi, MaxCrash} \subseteq Nat /\ Ids \subseteq Nat \ {0}
BY GroupAssumption DEF Ids

(* A record put in the place of one update.                                *)
LEMMA UpdateChanges ==
  ASSUME Types, NEW u \in Updaters, NEW r \in Updates, upd' = [upd EXCEPT ![u] = r]
  PROVE  upd' \in [Updaters -> Updates] /\ upd'[u] = r /\ \A v \in Updaters \ {u} : upd'[v] = upd[v]
BY DEF Types

(* Its phase only.                                                         *)
LEMMA GotoChanges ==
  ASSUME Types, NEW u \in Updaters, NEW pc \in Phases, Goto(u, pc)
  PROVE  /\ upd' \in [Updaters -> Updates] /\ \A v \in Updaters \ {u} : upd'[v] = upd[v]
         /\ upd'[u].pc = pc /\ upd'[u].old = upd[u].old /\ upd'[u].new = upd[u].new
         /\ upd'[u].all = upd[u].all /\ upd'[u].del = upd[u].del
<1> DEFINE r == [upd[u] EXCEPT !.pc = pc]
<1>1. upd[u] \in Updates BY DEF Types
<1>2. /\ r \in Updates /\ r.pc = pc /\ r.old = upd[u].old /\ r.new = upd[u].new
      /\ r.all = upd[u].all /\ r.del = upd[u].del
      BY <1>1 DEF Updates
<1>3. upd' = [upd EXCEPT ![u] = r] BY DEF Goto
<1> HIDE DEF r
<1> QED BY <1>2, <1>3, UpdateChanges

(* An update and a user at rest are of their types.                        *)
LEMMA IdleIsUpdate == IdleUpdate \in Updates /\ IdleUi \in UiStates
<1>1. << >> \in Lists BY DEF Lists
<1> QED BY <1>1 DEF IdleUpdate, Updates, Phases, IdleUi, UiStates

(* Reading the group: the update has those of its list that have a row.    *)
LEMMA ReadOldChanges ==
  ASSUME Types, NEW u \in Updaters, ReadOld(u)
  PROVE  /\ upd' \in [Updaters -> Updates] /\ \A v \in Updaters \ {u} : upd'[v] = upd[v]
         /\ upd'[u].pc = "parse" /\ upd'[u].old = Without(list, ToSet(list) \ Found(ToSet(list)))
         /\ ToSet(upd'[u].old) = ToSet(list) \cap rows
         /\ upd'[u].new = upd[u].new /\ upd'[u].all = upd[u].all /\ upd'[u].del = upd[u].del
<1> DEFINE old == Without(list, ToSet(list) \ Found(ToSet(list)))
           r == [upd[u] EXCEPT !.pc = "parse", !.old = old]
<1>1. upd[u] \in Updates /\ list \in Lists BY DEF Types
<1>2. old \in Lists /\ ToSet(old) = ToSet(list) \ (ToSet(list) \ Found(ToSet(list)))
      BY <1>1, WithoutProperties DEF Lists
<1>3. ToSet(old) = ToSet(list) \cap rows BY <1>2 DEF Found
<1>4. upd' = [upd EXCEPT ![u] = r] BY DEF ReadOld
<1> HIDE DEF old
<1>5. /\ r \in Updates /\ r.pc = "parse" /\ r.old = old /\ r.new = upd[u].new
      /\ r.all = upd[u].all /\ r.del = upd[u].del
      BY <1>1, <1>2 DEF Updates, Phases
<1> HIDE DEF r
<1>6. upd' \in [Updaters -> Updates] /\ upd'[u] = r /\ \A v \in Updaters \ {u} : upd'[v] = upd[v]
      BY <1>4, <1>5, UpdateChanges
<1> QED BY <1>3, <1>5, <1>6 DEF old

(* Looking again: the update has what is listed now.                       *)
LEMMA LookChanges ==
  ASSUME Types, NEW u \in Updaters, Look(u)
  PROVE  /\ upd' \in [Updaters -> Updates] /\ \A v \in Updaters \ {u} : upd'[v] = upd[v]
         /\ clear => upd'[u] = IdleUpdate
         /\ ~clear => /\ upd'[u].pc = "apply" /\ upd'[u].all = ToSet(list) \cap rows
                      /\ upd'[u].old = upd[u].old /\ upd'[u].new = upd[u].new /\ upd'[u].del = upd[u].del
<1> DEFINE r == [upd[u] EXCEPT !.pc = "apply", !.all = Found(ToSet(list))]
<1>1. upd[u] \in Updates BY DEF Types
<1>2. Found(ToSet(list)) = ToSet(list) \cap rows /\ Found(ToSet(list)) \in SUBSET Ids BY DEF Types, Found
<1>3. /\ r \in Updates /\ r.pc = "apply" /\ r.all = ToSet(list) \cap rows
      /\ r.old = upd[u].old /\ r.new = upd[u].new /\ r.del = upd[u].del
      BY <1>1, <1>2 DEF Updates, Phases
<1>4. upd' = [upd EXCEPT ![u] = IF clear THEN IdleUpdate ELSE r] BY DEF Look
<1> HIDE DEF r
<1>5. CASE clear
  <2>1. upd' = [upd EXCEPT ![u] = IdleUpdate] BY <1>4, <1>5
  <2> QED BY <1>5, <2>1, IdleIsUpdate, UpdateChanges
<1>6. CASE ~clear
  <2>1. upd' = [upd EXCEPT ![u] = r] BY <1>4, <1>6
  <2>2. upd' \in [Updaters -> Updates] /\ upd'[u] = r /\ \A v \in Updaters \ {u} : upd'[v] = upd[v]
        BY <1>3, <2>1, UpdateChanges
  <2> QED BY <1>6, <1>3, <2>2
<1> QED BY <1>5, <1>6

(* What of those to go is let go.                                          *)
Out(u) == upd[u].all \ ToSet(list)
Doomed(u) == Out(u) \ Spared(Out(u), allow)

(* Cleaning up: the update has what it is to delete, or is over.           *)
LEMMA CleanChanges ==
  ASSUME Types, NEW u \in Updaters, Clean(u)
  PROVE  /\ upd' \in [Updaters -> Updates] /\ \A v \in Updaters \ {u} : upd'[v] = upd[v]
         /\ upd'[u].pc = "delete" /\ upd'[u].del = Doomed(u)
         /\ upd'[u].old = upd[u].old /\ upd'[u].new = upd[u].new /\ upd'[u].all = upd[u].all
         /\ started' = (IF allow /\ started \in Out(u) THEN None ELSE started)
         /\ (Doomed(u) # Out(u)) => "kept" \in odd'
         /\ list' = list /\ key' = key /\ rows' = rows
         /\ \/ stored' = list /\ group' = TRUE
            \/ Found(Doomed(u)) = {} /\ stored' = stored /\ group' = group
<1> DEFINE r == [upd[u] EXCEPT !.pc = "delete", !.del = Doomed(u)]
<1>1. upd[u] \in Updates /\ list \in Lists BY DEF Types
<1>2. Doomed(u) \in SUBSET Ids BY <1>1 DEF Doomed, Out, Updates
<1>3. /\ r \in Updates /\ r.pc = "delete" /\ r.del = Doomed(u)
      /\ r.old = upd[u].old /\ r.new = upd[u].new /\ r.all = upd[u].all
      BY <1>1, <1>2 DEF Updates, Phases
<1>4. upd' = [upd EXCEPT ![u] = r] BY DEF Clean, Doomed, Out
<1> HIDE DEF r
<1>5. upd' \in [Updaters -> Updates] /\ upd'[u] = r /\ \A v \in Updaters \ {u} : upd'[v] = upd[v]
      BY <1>3, <1>4, UpdateChanges
<1>6. started' = (IF allow /\ started \in Out(u) THEN None ELSE started) BY DEF Clean, StopRunning, Out
<1>7. (Doomed(u) # Out(u)) => "kept" \in odd' BY DEF Clean, Doomed, Out
<1>8. Unlist(Doomed(u)) BY DEF Clean, Doomed, Out
<1>9. Without(list, Doomed(u)) = list
  <2>1. ToSet(list) \cap Doomed(u) = {} BY DEF Doomed, Out
  <2> QED BY <1>1, <2>1, WithoutProperties DEF Lists
<1>10. /\ list' = list /\ key' = key /\ rows' = rows
       /\ \/ stored' = list /\ group' = TRUE
          \/ Found(Doomed(u)) = {} /\ stored' = stored /\ group' = group
      BY <1>8, <1>9 DEF Unlist, Save, SaveToDatabase, store
<1> QED BY <1>3, <1>5, <1>6, <1>7, <1>10

(* Deleting the rows: the update is over.                                  *)
LEMMA DeleteRowsChanges ==
  ASSUME Types, NEW u \in Updaters, DeleteRows(u)
  PROVE  /\ upd' \in [Updaters -> Updates] /\ \A v \in Updaters \ {u} : upd'[v] = upd[v]
         /\ upd'[u] = IdleUpdate
<1>1. upd' = [upd EXCEPT ![u] = IdleUpdate] BY DEF DeleteRows
<1> QED BY <1>1, IdleIsUpdate, UpdateChanges

(* The ids an update adds are the next ones, or all NoId without a group.  *)
LEMMA ParseChanges ==
  ASSUME Types, NEW u \in Updaters, NEW remote \in Remotes, Parse(u, remote)
  PROVE  /\ upd' \in [Updaters -> Updates] /\ \A v \in Updaters \ {u} : upd'[v] = upd[v]
         /\ upd'[u].pc = (IF group /\ Len(remote) > 0 THEN "insert" ELSE "look")
         /\ upd'[u].old = upd[u].old /\ upd'[u].all = upd[u].all /\ upd'[u].del = upd[u].del
         /\ lastId' \in 0 .. MaxId /\ lastId <= lastId' /\ Len(remote) \in Nat
         /\ DOMAIN upd'[u].new = 1 .. Len(remote) /\ DOMAIN remote = 1 .. Len(remote)
         /\ group => /\ lastId' = lastId + Len(remote)
                     /\ \A n \in 1 .. Len(remote) : upd'[u].new[n] = lastId + n
                     /\ ToSet(upd'[u].new) = lastId + 1 .. lastId'
                     /\ IsInjective(upd'[u].new)
                     /\ \A n \in 1 .. Len(remote) : key'[lastId + n] = remote[n]
         /\ ~group => /\ lastId' = lastId /\ ToSet(upd'[u].new) \subseteq {NoId}
         /\ key' \in [Ids -> Keys \cup {None}]
         /\ \A i \in Ids : i <= lastId => key'[i] = key[i]
         /\ ~IsInjective(remote) => "same" \in odd'
<1> DEFINE n == Len(remote)
           new == [i \in 1 .. n |-> IF group THEN lastId + i ELSE NoId]
           r == [upd[u] EXCEPT !.pc = (IF group /\ n > 0 THEN "insert" ELSE "look"), !.new = new]
<1>1. /\ upd[u] \in Updates /\ group \in BOOLEAN /\ key \in [Ids -> Keys \cup {None}]
      /\ lastId \in Nat /\ lastId <= MaxId /\ MaxId \in Nat BY Bounds DEF Types
<1>2. /\ n \in Nat /\ DOMAIN remote = 1 .. n /\ \A i \in 1 .. n : remote[i] \in Keys
      BY GroupAssumption, LenProperties, ElementOfSeq
<1>3. (group => lastId + n <= MaxId) /\ lastId' = lastId + (IF group THEN n ELSE 0)
      BY DEF Parse, Reserve
<1>4. new \in Lists /\ DOMAIN new = 1 .. n /\ \A i \in 1 .. n : new[i] = IF group THEN lastId + i ELSE NoId
  <2>1. \A i \in 1 .. n : (IF group THEN lastId + i ELSE NoId) \in Ids \cup {NoId}
        BY <1>1, <1>2, <1>3 DEF Ids
  <2>2. new \in Seq(Ids \cup {NoId}) BY <1>2, <2>1
  <2> QED BY <2>2 DEF Lists
<1>5. upd' = [upd EXCEPT ![u] = r] BY DEF Parse
<1>6. key' = [i \in Ids |-> IF group /\ i \in ToSet(new) THEN remote[i - lastId] ELSE key[i]]
      BY DEF Parse
<1>7. ~IsInjective(remote) => "same" \in odd' BY DEF Parse
<1> HIDE DEF new
<1>8. /\ r \in Updates /\ r.pc = (IF group /\ n > 0 THEN "insert" ELSE "look") /\ r.old = upd[u].old
      /\ r.new = new /\ r.all = upd[u].all /\ r.del = upd[u].del
      BY <1>1, <1>4 DEF Updates, Phases
<1> HIDE DEF r, n
<1>9. upd' \in [Updaters -> Updates] /\ upd'[u] = r /\ \A v \in Updaters \ {u} : upd'[v] = upd[v]
      BY <1>5, <1>8, UpdateChanges
<1>10. ToSet(new) = {new[i] : i \in 1 .. n} BY <1>4 DEF ToSet
<1>11. ASSUME group PROVE ToSet(new) = lastId + 1 .. lastId'
  <2>1. lastId' = lastId + n /\ \A i \in 1 .. n : new[i] = lastId + i BY <1>3, <1>4, <1>11
  <2>2. ASSUME NEW x \in lastId + 1 .. lastId' PROVE x \in ToSet(new)
    <3>1. x - lastId \in 1 .. n /\ new[x - lastId] = x BY <1>1, <1>2, <2>1
    <3> QED BY <3>1, <1>10
  <2>3. ASSUME NEW x \in ToSet(new) PROVE x \in lastId + 1 .. lastId' BY <1>1, <1>2, <1>10, <2>1
  <2> QED BY <2>2, <2>3
<1>12. ASSUME group PROVE IsInjective(new) BY <1>1, <1>2, <1>4, <1>12 DEF IsInjective
<1>13. ASSUME ~group PROVE ToSet(new) \subseteq {NoId} /\ lastId' = lastId BY <1>1, <1>3, <1>4, <1>10, <1>13
<1>14. ASSUME NEW i \in Ids PROVE key'[i] = (IF group /\ i \in ToSet(new) THEN remote[i - lastId] ELSE key[i])
       BY <1>6
<1>15. key' \in [Ids -> Keys \cup {None}]
  <2>1. ASSUME NEW i \in Ids PROVE key'[i] \in Keys \cup {None}
    <3>1. CASE group /\ i \in ToSet(new)
      <4>1. i - lastId \in 1 .. n BY <1>1, <1>2, <1>3, <1>11, <3>1
      <4> QED BY <1>2, <1>14, <3>1, <4>1
    <3>2. CASE ~(group /\ i \in ToSet(new)) BY <1>1, <1>14, <3>2
    <3> QED BY <3>1, <3>2
  <2> QED BY <1>6, <2>1
<1>16. ASSUME NEW i \in Ids, i <= lastId PROVE key'[i] = key[i]
  <2>1. i \in Nat BY Bounds
  <2>2. i \notin lastId + 1 .. lastId' BY <1>1, <1>16, <2>1
  <2>3. ~(group /\ i \in ToSet(new)) BY <1>11, <2>2
  <2> QED BY <1>14, <2>3
<1>17. ASSUME group, NEW i \in 1 .. n PROVE key'[lastId + i] = remote[i]
  <2>1. lastId + i \in Ids /\ lastId + i \in ToSet(new) BY <1>1, <1>2, <1>3, <1>11, <1>17 DEF Ids
  <2>2. (lastId + i) - lastId = i BY <1>1
  <2> QED BY <1>14, <1>17, <2>1, <2>2
<1>18. lastId' \in 0 .. MaxId /\ lastId <= lastId' /\ (group => lastId' = lastId + n) BY <1>1, <1>2, <1>3
<1>19. \A v \in Updaters \ {u} : upd'[v] = upd[v] BY <1>9
<1>20. /\ upd'[u].pc = (IF group /\ n > 0 THEN "insert" ELSE "look") /\ upd'[u].old = upd[u].old
       /\ upd'[u].new = new /\ upd'[u].all = upd[u].all /\ upd'[u].del = upd[u].del
       BY <1>8, <1>9
<1> QED BY <1>2, <1>4, <1>7, <1>9, <1>20, <1>11, <1>12, <1>13, <1>15, <1>16, <1>17, <1>18 DEF n

(* Kept replaces a profile by itself or by an old one with its key.        *)
LEMMA KeptIsOldOrNew ==
  ASSUME Types, NEW u \in Updaters, NEW i \in Ids \cup {NoId}
  PROVE  /\ Kept(u, i) \in {i} \cup ToSet(upd[u].old) /\ KeyOf(Kept(u, i)) = KeyOf(i)
         /\ i \in upd[u].all /\ i \notin ToSet(upd[u].old) /\ (\E o \in ToSet(upd[u].old) : KeyOf(o) = KeyOf(i))
              => Kept(u, i) \in ToSet(upd[u].old)
<1> DEFINE old == upd[u].old
           same == {n \in DOMAIN old : KeyOf(old[n]) = KeyOf(i)}
<1>1. old \in Seq(Ids \cup {NoId}) BY DEF Types, Updates, Lists
<1> HIDE DEF old
<1>2. Len(old) \in Nat /\ DOMAIN old = 1 .. Len(old) BY <1>1, LenProperties
<1>3. ASSUME same # {} PROVE old[Max(same)] \in ToSet(old) /\ KeyOf(old[Max(same)]) = KeyOf(i)
  <2>1. same \in SUBSET (1 .. Len(old)) BY <1>2
  <2>2. Max(same) \in same
    <3> HIDE DEF same
    <3> QED BY <1>2, <1>3, <2>1, MaxIsMember
  <2> DEFINE m == Max(same)
  <2>3. m \in same BY <2>2
  <2> HIDE DEF m
  <2>4. old[m] \in ToSet(old) /\ KeyOf(old[m]) = KeyOf(i) BY <2>3 DEF ToSet
  <2> QED BY <2>4 DEF m
<1>4. Kept(u, i) = IF i \in upd[u].all /\ i \notin ToSet(old) /\ same # {} THEN old[Max(same)] ELSE i
      BY DEF Kept, old
<1>5. (\E o \in ToSet(old) : KeyOf(o) = KeyOf(i)) => same # {} BY DEF ToSet
<1> HIDE DEF same
<1> QED BY <1>3, <1>4, <1>5 DEF old

(* The order of the subscription is made of old and new profiles.          *)
LEMMA OrderIsOfOldAndNew ==
  ASSUME Types, NEW u \in Updaters
  PROVE  /\ RemoteOrder(u) \in Lists /\ DOMAIN RemoteOrder(u) = DOMAIN upd[u].new
         /\ \A n \in DOMAIN upd[u].new : RemoteOrder(u)[n] = Kept(u, upd[u].new[n])
         /\ ToSet(RemoteOrder(u)) \subseteq ToSet(upd[u].old) \cup ToSet(upd[u].new)
<1> DEFINE new == upd[u].new
<1>1. new \in Seq(Ids \cup {NoId}) /\ upd[u].old \in Seq(Ids \cup {NoId}) BY DEF Types, Updates, Lists
<1>2. Len(new) \in Nat /\ DOMAIN new = 1 .. Len(new) /\ \A n \in 1 .. Len(new) : new[n] \in Ids \cup {NoId}
  <2> HIDE DEF new
  <2> QED BY <1>1, LenProperties, ElementOfSeq
<1>3. ToSet(upd[u].old) \subseteq Ids \cup {NoId} BY <1>1, MembersOfSeq
<1>4. RemoteOrder(u) = [n \in 1 .. Len(new) |-> Kept(u, new[n])] BY <1>2 DEF RemoteOrder
<1> HIDE DEF new
<1>5. \A n \in 1 .. Len(new) : Kept(u, new[n]) \in {new[n]} \cup ToSet(upd[u].old)
      BY <1>2, KeptIsOldOrNew
<1>6. [n \in 1 .. Len(new) |-> Kept(u, new[n])] \in Seq(Ids \cup {NoId}) BY <1>2, <1>3, <1>5
<1>7. \A n \in 1 .. Len(new) : new[n] \in ToSet(new) BY <1>2 DEF ToSet
<1>8. ToSet(RemoteOrder(u)) \subseteq ToSet(upd[u].old) \cup ToSet(new) BY <1>4, <1>5, <1>7 DEF ToSet
<1> QED BY <1>2, <1>4, <1>6, <1>8 DEF new, Lists
-----------------------------------------------------------------------------
(* Types and turns are kept.                                               *)

(* Every sequence an update or the group puts together is one of ids.      *)
LEMMA SeqTypes ==
  ASSUME Types
  PROVE  /\ \A ids : Without(list, ids) \in Lists
         /\ \A u \in Updaters : list \o upd[u].new \in Lists /\ RemoteOrder(u) \in Lists
         /\ Append(list, ui.id) \in Lists /\ << >> \in Lists
<1>1. list \in Seq(Ids \cup {NoId}) BY DEF Types, Lists
<1>2. \A ids : Without(list, ids) \in Seq(Ids \cup {NoId}) BY <1>1, WithoutProperties
<1>3. ASSUME NEW u \in Updaters PROVE list \o upd[u].new \in Lists
  <2>1. upd[u].new \in Seq(Ids \cup {NoId}) BY DEF Types, Updates, Lists
  <2> QED BY <1>1, <2>1, ConcatKnows DEF Lists
<1>4. ui.id \in Ids \cup {NoId} BY DEF Types, UiStates
<1>5. Append(list, ui.id) \in Lists BY <1>1, <1>4, AppendKnows DEF Lists
<1> QED BY <1>2, <1>3, <1>5, OrderIsOfOldAndNew, EmptyKnows DEF Lists

(* What was recorded as odd stays recorded.                                *)
LEMMA OdditiesStay ==
  ASSUME Types, [Next]_vars PROVE odd \subseteq odd' /\ odd' \subseteq Oddities /\ clear' = clear
<1> USE DEF settings, bounds
<1>1. odd \subseteq Oddities BY DEF Types
<1>2. ASSUME NEW u \in Updaters, Update(u) PROVE odd \subseteq odd' /\ odd' \subseteq Oddities /\ clear' = clear
  <2>1. CASE BeginUpdate(u) BY <1>1, <2>1 DEF BeginUpdate, Oddities
  <2>2. CASE FetchFails(u) \/ Fetched(u) \/ ReadOld(u) BY <1>1, <2>2 DEF FetchFails, Fetched, ReadOld
  <2>3. CASE ClearOld(u) BY <1>1, <2>3 DEF ClearOld, Oddities
  <2>4. CASE \E remote \in Remotes : Parse(u, remote) BY <1>1, <2>4 DEF Parse, Oddities
  <2>5. CASE InsertRows(u) \/ AppendNew(u) \/ Look(u) \/ Apply(u) \/ DeleteRows(u)
        BY <1>1, <2>5 DEF InsertRows, AppendNew, Look, Apply, DeleteRows
  <2>6. CASE Clean(u) BY <1>1, <2>6 DEF Clean, Oddities
  <2> QED BY <1>2, <2>1, <2>2, <2>3, <2>4, <2>5, <2>6 DEF Update
<1>3. CASE User
  <2>1. ASSUME NEW k \in Keys, AddProfile(k) PROVE odd \subseteq odd' /\ odd' \subseteq Oddities /\ clear' = clear
        BY <1>1, <2>1 DEF AddProfile, Oddities
  <2>2. ASSUME NEW i, DeleteProfile(i) \/ StartProfile(i)
        PROVE odd \subseteq odd' /\ odd' \subseteq Oddities /\ clear' = clear
        BY <1>1, <2>2 DEF DeleteProfile, StartProfile, Oddities
  <2>3. CASE AppendAdded \/ DeleteRow \/ DeleteGroup \/ ClearTestResults
        BY <1>1, <2>3 DEF AppendAdded, DeleteRow, DeleteGroup, ClearTestResults, Oddities
  <2> QED BY <1>3, <2>1, <2>2, <2>3 DEF User
<1>4. CASE SaveRows BY <1>1, <1>4 DEF SaveRows, Oddities
<1>5. CASE ProcessEnds BY <1>1, <1>5 DEF ProcessEnds, Oddities
<1>6. CASE UNCHANGED vars BY <1>1, <1>6 DEF vars
<1> QED BY <1>2, <1>3, <1>4, <1>5, <1>6 DEF Next

(* The types hold before the first step.                                   *)
LEMMA TypesInitially == Init => Types
<1> SUFFICES ASSUME Init PROVE Types OBVIOUS
<1>1. upd \in [Updaters -> Updates] /\ ui \in UiStates BY IdleIsUpdate DEF Init
<1>2. stored \in Lists /\ list \in Lists BY EmptyKnows DEF Init, Lists
<1>3. odd \subseteq Oddities /\ saving \subseteq Ids /\ rows \subseteq Ids BY DEF Init
<1>4. lastId \in 0 .. MaxId /\ updates \in 0 .. MaxUpdates /\ uses \in 0 .. MaxUi /\ crashes \in 0 .. MaxCrash
      BY Bounds DEF Init
<1> QED BY <1>1, <1>2, <1>3, <1>4 DEF Init, Types

(* The plain variables of the statements.                                  *)
LEMMA SaveTypes == ASSUME Types, NEW l \in Lists, Save(l)
  PROVE  /\ list' = l /\ stored' = l /\ group' = TRUE /\ key' = key /\ rows' = rows
         /\ key' \in [Ids -> Keys \cup {None}] /\ rows' \subseteq Ids /\ group' \in BOOLEAN
         /\ stored' \in Lists /\ list' \in Lists
BY DEF Types, Save, SaveToDatabase

(* Every step keeps the types.                                             *)
LEMMA TypesKeep == ASSUME Types, Begins, [Next]_vars PROVE Types'
<1> USE DEF settings, bounds, store
<1>1. odd' \subseteq Oddities BY OdditiesStay
<1>2. /\ \A ids : Without(list, ids) \in Lists
      /\ \A u \in Updaters : list \o upd[u].new \in Lists /\ RemoteOrder(u) \in Lists
      /\ Append(list, ui.id) \in Lists /\ << >> \in Lists
      BY SeqTypes
<1>3. MaxId \in Nat /\ MaxUpdates \in Nat /\ MaxUi \in Nat /\ MaxCrash \in Nat BY Bounds
<1>4. None \notin Nat BY GroupAssumption
<1>5. \A ids, stop : StopRunning(ids, stop) => started' \in Ids \cup {None} BY DEF StopRunning, Types
<1>6. \A ids : Inserted(ids) \subseteq rows \cup ids BY DEF Inserted
<1>7. list \in Lists BY DEF Types
<1>8. ASSUME NEW ids, Unlist(ids)
      PROVE /\ key' \in [Ids -> Keys \cup {None}] /\ rows' \subseteq Ids /\ group' \in BOOLEAN
            /\ stored' \in Lists /\ list' \in Lists
  <2>1. CASE Save(Without(list, ids)) BY <2>1, <1>2, SaveTypes
  <2>2. CASE UNCHANGED store BY <2>2 DEF Types
  <2> QED BY <1>8, <2>1, <2>2 DEF Unlist
<1>9. ASSUME NEW u \in Updaters, Update(u) PROVE Types'
  <2>1. CASE BeginUpdate(u)
    <3>1. upd' \in [Updaters -> Updates] BY <2>1, GotoChanges DEF BeginUpdate, Phases
    <3>2. updates' \in 0 .. MaxUpdates BY <1>3, <2>1 DEF BeginUpdate, Types
    <3> QED BY <1>1, <2>1, <3>1, <3>2 DEF BeginUpdate, Types
  <2>2. CASE FetchFails(u)
    <3>1. upd' \in [Updaters -> Updates] BY <2>2, GotoChanges DEF FetchFails, Phases
    <3> QED BY <1>1, <2>2, <3>1 DEF FetchFails, Types
  <2>3. CASE Fetched(u)
    <3>1. upd' \in [Updaters -> Updates] BY <2>3, GotoChanges DEF Fetched, Phases
    <3>2. Save(list) BY <2>3 DEF Fetched
    <3> QED BY <1>1, <1>7, <2>3, <3>1, <3>2, SaveTypes DEF Fetched, Types
  <2>4. CASE ReadOld(u)
    <3>1. upd' \in [Updaters -> Updates] BY <2>4, ReadOldChanges
    <3> QED BY <1>1, <2>4, <3>1 DEF ReadOld, Types
  <2>5. CASE ClearOld(u)
    <3>1. upd' \in [Updaters -> Updates] BY <2>5, GotoChanges DEF ClearOld, Phases
    <3>2. started' \in Ids \cup {None} BY <1>5, <2>5 DEF ClearOld
    <3>3. \/ Save(<< >>)
          \/ \E ids : list' = Without(list, ids) /\ UNCHANGED <<key, rows, group, stored>>
          BY <2>5 DEF ClearOld
    <3>4. /\ key' \in [Ids -> Keys \cup {None}] /\ rows' \subseteq Ids /\ group' \in BOOLEAN
          /\ stored' \in Lists /\ list' \in Lists
      <4>1. CASE Save(<< >>) BY <1>2, <4>1, SaveTypes
      <4>2. CASE \E ids : list' = Without(list, ids) /\ UNCHANGED <<key, rows, group, stored>>
            BY <1>2, <4>2 DEF Types
      <4> QED BY <3>3, <4>1, <4>2
    <3>5. UNCHANGED <<lastId, settings, ui, saving, bounds>> BY <2>5 DEF ClearOld
    <3> QED BY <1>1, <3>1, <3>2, <3>4, <3>5 DEF Types
  <2>6. ASSUME NEW remote \in Remotes, Parse(u, remote) PROVE Types'
    <3>1. /\ upd' \in [Updaters -> Updates] /\ lastId' \in 0 .. MaxId /\ key' \in [Ids -> Keys \cup {None}]
          BY <2>6, ParseChanges
    <3>2. UNCHANGED <<rows, group, stored, list, started, settings, ui, saving, bounds>> BY <2>6 DEF Parse
    <3> QED BY <1>1, <3>1, <3>2 DEF Types
  <2>7. CASE InsertRows(u)
    <3>1. upd' \in [Updaters -> Updates] BY <2>7, GotoChanges DEF InsertRows, Phases
    <3>2. rows' \subseteq Ids
      <4>1. ToSet(upd[u].new) \subseteq Ids BY <2>7 DEF InsertRows, Begins, Adds
      <4>2. rows' = Inserted(ToSet(upd[u].new)) /\ rows \subseteq Ids BY <2>7 DEF InsertRows, Types
      <4> QED BY <1>6, <4>1, <4>2
    <3> QED BY <1>1, <2>7, <3>1, <3>2 DEF InsertRows, Types
  <2>8. CASE AppendNew(u)
    <3>1. upd' \in [Updaters -> Updates] BY <2>8, GotoChanges DEF AppendNew, Phases
    <3>2. Save(list \o upd[u].new) BY <2>8 DEF AppendNew
    <3> QED BY <1>1, <1>2, <2>8, <3>1, <3>2, SaveTypes DEF AppendNew, Types
  <2>9. CASE Look(u)
    <3>1. upd' \in [Updaters -> Updates] BY <2>9, LookChanges
    <3> QED BY <1>1, <2>9, <3>1 DEF Look, Types
  <2>10. CASE Apply(u)
    <3>1. upd' \in [Updaters -> Updates] BY <2>10, GotoChanges DEF Apply, Phases
    <3>2. Save(RemoteOrder(u)) BY <2>10 DEF Apply
    <3> QED BY <1>1, <1>2, <2>10, <3>1, <3>2, SaveTypes DEF Apply, Types
  <2>11. CASE Clean(u)
    <3>1. upd' \in [Updaters -> Updates] BY <2>11, CleanChanges
    <3>2. started' \in Ids \cup {None} BY <2>11, CleanChanges DEF Types
    <3>3. \E ids : Unlist(ids) BY <2>11 DEF Clean
    <3>4. UNCHANGED <<lastId, settings, ui, saving, bounds>> BY <2>11 DEF Clean
    <3> QED BY <1>1, <1>8, <3>1, <3>2, <3>3, <3>4 DEF Types
  <2>12. CASE DeleteRows(u)
    <3>1. upd' \in [Updaters -> Updates] BY <2>12, DeleteRowsChanges
    <3> QED BY <1>1, <2>12, <3>1 DEF DeleteRows, Types
  <2> QED BY <1>9, <2>1, <2>2, <2>3, <2>4, <2>5, <2>6, <2>7, <2>8, <2>9, <2>10, <2>11, <2>12 DEF Update
<1>10. CASE User
  <2>1. ASSUME NEW k \in Keys, AddProfile(k) PROVE Types'
    <3>1. lastId + 1 \in Ids /\ lastId' = lastId + 1 /\ lastId' \in 0 .. MaxId
          BY <1>3, <2>1 DEF AddProfile, Reserve, Types, Ids
    <3>2. key' \in [Ids -> Keys \cup {None}] BY <2>1, <3>1 DEF AddProfile, Types
    <3>3. rows' \subseteq Ids
      <4>1. rows' = Inserted({lastId + 1}) /\ rows \subseteq Ids BY <2>1 DEF AddProfile, Types
      <4> QED BY <1>6, <3>1, <4>1
    <3>4. ui' \in UiStates BY <2>1, <3>1 DEF AddProfile, UiStates
    <3>5. uses' \in 0 .. MaxUi BY <1>3, <2>1 DEF AddProfile, Use, Types
    <3>6. UNCHANGED <<group, stored, list, started, settings, upd, saving, updates, crashes>>
          BY <2>1 DEF AddProfile, Use
    <3> QED BY <1>1, <3>1, <3>2, <3>3, <3>4, <3>5, <3>6 DEF Types
  <2>2. ASSUME NEW i \in ToSet(list) \ {NoId}, DeleteProfile(i) PROVE Types'
    <3>1. i \in Ids BY <1>7, MembersOfSeq DEF Lists
    <3>2. ui' \in UiStates BY <2>2, <3>1 DEF DeleteProfile, UiStates
    <3>3. uses' \in 0 .. MaxUi BY <1>3, <2>2 DEF DeleteProfile, Use, Types
    <3>4. started' \in Ids \cup {None} BY <1>5, <2>2 DEF DeleteProfile
    <3>5. Unlist({i}) BY <2>2 DEF DeleteProfile
    <3>6. UNCHANGED <<lastId, settings, upd, saving, updates, crashes>> BY <2>2 DEF DeleteProfile, Use
    <3> QED BY <1>1, <1>8, <3>2, <3>3, <3>4, <3>5, <3>6 DEF Types
  <2>3. ASSUME NEW i \in ToSet(list) \ {NoId}, StartProfile(i) PROVE Types'
    <3>1. uses' \in 0 .. MaxUi BY <1>3, <2>3 DEF StartProfile, Use, Types
    <3> QED BY <1>1, <2>3, <3>1 DEF StartProfile, Use, Types
  <2>4. CASE AppendAdded
    <3>1. Save(Append(list, ui.id)) BY <2>4 DEF AppendAdded
    <3> QED BY <1>1, <1>2, <2>4, <3>1, IdleIsUpdate, SaveTypes DEF AppendAdded, Types
  <2>5. CASE DeleteRow BY <1>1, <2>5, IdleIsUpdate DEF DeleteRow, Types
  <2>6. CASE DeleteGroup
    <3>1. uses' \in 0 .. MaxUi BY <1>3, <2>6 DEF DeleteGroup, Use, Types
    <3> QED BY <1>1, <1>2, <2>6, <3>1 DEF DeleteGroup, Use, Types
  <2>7. CASE ClearTestResults
    <3>1. uses' \in 0 .. MaxUi BY <1>3, <2>7 DEF ClearTestResults, Use, Types
    <3> QED BY <1>1, <2>7, <3>1 DEF ClearTestResults, Found, Use, Types
  <2> QED BY <1>10, <2>1, <2>2, <2>3, <2>4, <2>5, <2>6, <2>7 DEF User
<1>11. CASE SaveRows
  <2>1. rows' = Inserted(saving) /\ rows \subseteq Ids /\ saving \subseteq Ids BY <1>11 DEF SaveRows, Types
  <2>2. rows' \subseteq Ids BY <1>6, <2>1
  <2> QED BY <1>1, <1>11, <2>2 DEF SaveRows, Types
<1>12. CASE ProcessEnds
  <2>1. upd' \in [Updaters -> Updates] /\ ui' \in UiStates BY <1>12, IdleIsUpdate DEF ProcessEnds
  <2>2. crashes' \in 0 .. MaxCrash BY <1>3, <1>12 DEF ProcessEnds, Types
  <2> QED BY <1>1, <1>12, <2>1, <2>2 DEF ProcessEnds, Types
<1>13. CASE UNCHANGED vars BY <1>13 DEF vars, Types
<1> QED BY <1>9, <1>10, <1>11, <1>12, <1>13 DEF Next

(* They are the types the runs check.                                      *)
LEMMA TypesMean == Types => TypeOK
BY DEF Types, TypeOK, Lists, Updates, Phases, UiStates
(* What an update's step has to do with the others.                        *)
LEMMA UpdateSteps ==
  ASSUME Types, NEW u \in Updaters, Update(u)
  PROVE  /\ upd' \in [Updaters -> Updates] /\ \A v \in Updaters \ {u} : upd'[v] = upd[v]
         /\ ui' = ui /\ saving' = saving /\ (group' = group \/ group' = TRUE)
         /\ upd[u].pc = "idle" => BeginUpdate(u)
<1> USE DEF store
<1>1. CASE BeginUpdate(u) BY <1>1, GotoChanges DEF BeginUpdate, Phases
<1>2. CASE FetchFails(u) BY <1>2, GotoChanges DEF FetchFails, Phases
<1>3. CASE Fetched(u) BY <1>3, GotoChanges DEF Fetched, Phases, Save, SaveToDatabase
<1>4. CASE ReadOld(u)
  <2>1. UNCHANGED <<ui, saving, group>> /\ upd[u].pc = "read" BY <1>4 DEF ReadOld
  <2> QED BY <1>4, <2>1, ReadOldChanges
<1>5. CASE ClearOld(u)
  <2>1. Goto(u, "parse") /\ upd[u].pc = "read" /\ UNCHANGED <<ui, saving>> BY <1>5 DEF ClearOld
  <2>2. group' = group \/ group' = TRUE BY <1>5 DEF ClearOld, Save, SaveToDatabase
  <2> QED BY <2>1, <2>2, GotoChanges DEF Phases
<1>6. ASSUME NEW remote \in Remotes, Parse(u, remote)
      PROVE  /\ upd' \in [Updaters -> Updates] /\ \A v \in Updaters \ {u} : upd'[v] = upd[v]
             /\ ui' = ui /\ saving' = saving /\ group' = group /\ upd[u].pc # "idle"
  <2>1. UNCHANGED <<group, ui, saving>> /\ upd[u].pc = "parse" BY <1>6 DEF Parse
  <2> QED BY <1>6, <2>1, ParseChanges
<1>7. CASE InsertRows(u) BY <1>7, GotoChanges DEF InsertRows, Phases
<1>8. CASE AppendNew(u) BY <1>8, GotoChanges DEF AppendNew, Phases, Save, SaveToDatabase
<1>9. CASE Look(u)
  <2>1. UNCHANGED <<ui, saving, group>> /\ upd[u].pc = "look" BY <1>9 DEF Look
  <2> QED BY <1>9, <2>1, LookChanges
<1>10. CASE Apply(u) BY <1>10, GotoChanges DEF Apply, Phases, Save, SaveToDatabase
<1>11. CASE Clean(u)
  <2>1. UNCHANGED <<ui, saving>> /\ upd[u].pc = "clean" BY <1>11 DEF Clean
  <2> QED BY <1>11, <2>1, CleanChanges
<1>12. CASE DeleteRows(u)
  <2>1. UNCHANGED <<ui, saving, group>> /\ upd[u].pc = "delete" BY <1>12 DEF DeleteRows
  <2> QED BY <1>12, <2>1, DeleteRowsChanges
<1> QED BY <1>1, <1>2, <1>3, <1>4, <1>5, <1>6, <1>7, <1>8, <1>9, <1>10, <1>11, <1>12 DEF Update

(* The user's steps do not touch the updates; what he adds he begins with  *)
(* the group, and nobody else in between if it is not recorded.            *)
LEMMA UserSteps ==
  ASSUME Types, User
  PROVE  /\ upd' = upd
         /\ ui'.pc = "append" => ui' = ui \/ (group /\ (Updating => "added" \in odd'))
         /\ ui'.pc = "delete" => ui' = ui \/ (group /\ (Updating => "deleted" \in odd'))
         /\ ~group' => ~group \/ ((Updating => "gone" \in odd') /\ ui'.pc = "idle" /\ rows' = {} /\ stored' = << >>)
         /\ ~group => ui' = ui \/ ui' = IdleUi
<1> USE DEF store
<1>1. ASSUME NEW k \in Keys, AddProfile(k)
      PROVE  /\ upd' = upd /\ ui'.pc = "append" /\ group /\ group' = group
             /\ Updating => "added" \in odd'
      BY <1>1 DEF AddProfile
<1>2. ASSUME NEW i, DeleteProfile(i)
      PROVE  /\ upd' = upd /\ ui'.pc = "delete" /\ group /\ group' = TRUE
             /\ Updating => "deleted" \in odd'
  <2>1. group' = TRUE BY <1>2 DEF DeleteProfile, Unlist, Save, SaveToDatabase, Types
  <2> QED BY <1>2, <2>1 DEF DeleteProfile
<1>3. ASSUME NEW i, StartProfile(i) PROVE UNCHANGED <<upd, ui, group>> BY <1>3 DEF StartProfile
<1>4. CASE AppendAdded BY <1>4 DEF AppendAdded, Save, SaveToDatabase, IdleUi, Types
<1>5. CASE DeleteRow BY <1>5 DEF DeleteRow, IdleUi
<1>6. CASE DeleteGroup BY <1>6 DEF DeleteGroup, Use
<1>7. CASE ClearTestResults BY <1>7 DEF ClearTestResults
<1> QED BY <1>1, <1>2, <1>3, <1>4, <1>5, <1>6, <1>7 DEF User, Types

(* The turns hold before the first step.                                   *)
LEMMA TurnsInitially == Init => Turns
<1> SUFFICES ASSUME Init PROVE Turns OBVIOUS
<1>1. Types BY TypesInitially
<1>2. \A u \in Updaters : upd[u] = IdleUpdate BY DEF Init
<1>3. ~Updating BY <1>2 DEF Updating, IdleUpdate
<1>4. Begins BY <1>2 DEF Begins, IdleUpdate, Adds
<1>5. OneUpdates BY <1>2 DEF OneUpdates, Active, IdleUpdate
<1> QED BY <1>1, <1>3, <1>4, <1>5 DEF Turns, Init, GoneIsEmpty, GoneIsIdle, NoneAdds, NoneDeletes

(* What an update has in a phase, each step into that phase gives it.      *)
LEMMA BeginsKeep == ASSUME Types, Begins, [Next]_vars PROVE Begins'
<1> DEFINE B(u) == /\ upd[u].pc \in {"idle", "fetch", "read"} => upd[u].old = << >>
                   /\ upd[u].pc \in {"idle", "fetch", "read", "parse"} => upd[u].new = << >>
                   /\ Adds(u) => ToSet(upd[u].new) \subseteq Ids
                   /\ clear => upd[u].pc \notin {"apply", "clean", "delete"}
<1>0. clear' = clear BY OdditiesStay
<1>1. ASSUME NEW u \in Updaters, Update(u) PROVE Begins'
  <2>0. /\ \A v \in Updaters \ {u} : upd'[v] = upd[v]
        /\ \A v \in Updaters : B(v)
        BY <1>1, UpdateSteps DEF Begins
  <2>a. \A v \in Updaters \ {u} : B(v)' BY <1>0, <2>0 DEF Adds
  <2>1. CASE BeginUpdate(u)
    <3>1. B(u)' BY <1>0, <2>0, <2>1, GotoChanges DEF BeginUpdate, Phases, Adds
    <3> QED BY <2>a, <3>1 DEF Begins
  <2>2. CASE FetchFails(u)
    <3>1. B(u)' BY <1>0, <2>0, <2>2, GotoChanges DEF FetchFails, Phases, Adds
    <3> QED BY <2>a, <3>1 DEF Begins
  <2>3. CASE Fetched(u)
    <3>1. B(u)' BY <1>0, <2>0, <2>3, GotoChanges DEF Fetched, Phases, Adds
    <3> QED BY <2>a, <3>1 DEF Begins
  <2>4. CASE ReadOld(u)
    <3>1. upd[u].pc = "read" BY <2>4 DEF ReadOld
    <3>2. B(u)' BY <1>0, <2>0, <2>4, <3>1, ReadOldChanges DEF Adds
    <3> QED BY <2>a, <3>2 DEF Begins
  <2>5. CASE ClearOld(u)
    <3>1. upd[u].pc = "read" /\ Goto(u, "parse") BY <2>5 DEF ClearOld
    <3>2. B(u)' BY <1>0, <2>0, <3>1, GotoChanges DEF Phases, Adds
    <3> QED BY <2>a, <3>2 DEF Begins
  <2>6. ASSUME NEW remote \in Remotes, Parse(u, remote) PROVE Begins'
    <3>1. upd[u].pc = "parse" BY <2>6 DEF Parse
    <3>2. /\ upd'[u].pc = (IF group /\ Len(remote) > 0 THEN "insert" ELSE "look")
          /\ group => ToSet(upd'[u].new) = lastId + 1 .. lastId'
          /\ lastId' \in 0 .. MaxId
          BY <2>6, ParseChanges
    <3>3. group => ToSet(upd'[u].new) \subseteq Ids BY <3>2, Bounds DEF Ids, Types
    <3>4. B(u)' BY <1>0, <2>0, <3>1, <3>2, <3>3 DEF Adds
    <3> QED BY <2>a, <3>4 DEF Begins
  <2>7. CASE InsertRows(u)
    <3>1. B(u)' BY <1>0, <2>0, <2>7, GotoChanges DEF InsertRows, Phases, Adds
    <3> QED BY <2>a, <3>1 DEF Begins
  <2>8. CASE AppendNew(u)
    <3>1. B(u)' BY <1>0, <2>0, <2>8, GotoChanges DEF AppendNew, Phases, Adds
    <3> QED BY <2>a, <3>1 DEF Begins
  <2>9. CASE Look(u)
    <3>1. B(u)'
      <4>1. CASE clear BY <1>0, <2>9, <4>1, LookChanges DEF IdleUpdate, Adds
      <4>2. CASE ~clear BY <1>0, <2>9, <4>2, LookChanges DEF Adds
      <4> QED BY <4>1, <4>2
    <3> QED BY <2>a, <3>1 DEF Begins
  <2>10. CASE Apply(u)
    <3>1. B(u)' BY <1>0, <2>0, <2>10, GotoChanges DEF Apply, Phases, Adds
    <3> QED BY <2>a, <3>1 DEF Begins
  <2>11. CASE Clean(u)
    <3>1. upd[u].pc = "clean" BY <2>11 DEF Clean
    <3>2. B(u)' BY <1>0, <2>0, <2>11, <3>1, CleanChanges DEF Adds
    <3> QED BY <2>a, <3>2 DEF Begins
  <2>12. CASE DeleteRows(u)
    <3>1. B(u)' BY <1>0, <2>12, DeleteRowsChanges DEF IdleUpdate, Adds
    <3> QED BY <2>a, <3>1 DEF Begins
  <2> QED BY <1>1, <2>1, <2>2, <2>3, <2>4, <2>5, <2>6, <2>7, <2>8, <2>9, <2>10, <2>11, <2>12 DEF Update
<1>2. ASSUME upd' = upd PROVE Begins' BY <1>0, <1>2 DEF Begins, Adds
<1>3. CASE User BY <1>2, <1>3, UserSteps
<1>4. CASE SaveRows BY <1>2, <1>4 DEF SaveRows
<1>5. CASE ProcessEnds
  <2>1. \A u \in Updaters : upd'[u] = IdleUpdate BY <1>5 DEF ProcessEnds
  <2> QED BY <2>1 DEF Begins, Adds, IdleUpdate
<1>6. CASE UNCHANGED vars BY <1>2, <1>6 DEF vars
<1> QED BY <1>1, <1>3, <1>4, <1>5, <1>6 DEF Next

(* Updates, additions and deletions that meet are recorded.                *)
LEMMA TurnsKeep == ASSUME Turns, [Next]_vars PROVE Turns'
<1> USE DEF store
<1>0. Types /\ Types' /\ Begins' BY TypesKeep, BeginsKeep DEF Turns
<1>1. \A s : Never(s)' => Never(s) BY <1>0, OdditiesStay DEF Never
<1>2. ASSUME NEW u \in Updaters, Update(u) PROVE Turns'
  <2>0. /\ \A v \in Updaters \ {u} : upd'[v] = upd[v]
        /\ ui' = ui /\ (group' = group \/ group' = TRUE)
        /\ upd[u].pc = "idle" => BeginUpdate(u)
        BY <1>0, <1>2, UpdateSteps
  <2>1. CASE upd[u].pc # "idle"
    <3>1. \A v \in Updaters : Active(v)' => Active(v) BY <2>0, <2>1 DEF Active
    <3>2. Updating BY <2>1 DEF Updating
    <3>3. GoneIsIdle' /\ NoneAdds' /\ NoneDeletes'
          BY <1>1, <2>0, <3>2 DEF Turns, GoneIsIdle, NoneAdds, NoneDeletes
    <3>4. OneUpdates' BY <1>1, <3>1 DEF Turns, OneUpdates
    <3>5. ASSUME ~group' PROVE rows' = {} /\ stored' = << >> /\ ui'.pc = "idle"
      <4>1. ~group /\ rows = {} /\ stored = << >> /\ ui.pc = "idle" BY <2>0, <3>5 DEF Turns, GoneIsEmpty
      <4>2. CASE BeginUpdate(u) \/ FetchFails(u) \/ ReadOld(u) \/ Look(u)
            BY <4>1, <4>2 DEF BeginUpdate, FetchFails, ReadOld, Look
      <4>3. CASE Fetched(u) \/ AppendNew(u) \/ Apply(u)
            BY <3>5, <4>3 DEF Fetched, AppendNew, Apply, Save, SaveToDatabase
      <4>4. CASE ClearOld(u) BY <3>5, <4>1, <4>4 DEF ClearOld, Save, SaveToDatabase
      <4>5. ASSUME NEW remote \in Remotes, Parse(u, remote) PROVE rows' = {} /\ stored' = << >> /\ ui'.pc = "idle"
            BY <4>1, <4>5 DEF Parse
      <4>6. CASE InsertRows(u) BY <4>1, <4>6 DEF InsertRows, Inserted
      <4>7. CASE Clean(u)
        <5>1. rows' = rows /\ (stored' = stored \/ group' = TRUE) BY <1>0, <4>7, CleanChanges
        <5> QED BY <2>0, <3>5, <4>1, <5>1
      <4>8. CASE DeleteRows(u) BY <4>1, <4>8 DEF DeleteRows
      <4> QED BY <1>2, <4>2, <4>3, <4>4, <4>5, <4>6, <4>7, <4>8 DEF Update
    <3>6. GoneIsEmpty' BY <3>5 DEF GoneIsEmpty
    <3> QED BY <1>0, <3>3, <3>4, <3>6 DEF Turns
  <2>2. CASE upd[u].pc = "idle"
    <3>1. BeginUpdate(u) BY <2>0, <2>2
    <3>2. group /\ UNCHANGED <<rows, group, stored, list, ui>> BY <3>1 DEF BeginUpdate
    <3>3. /\ Updating => "twice" \in odd'
          /\ ui.pc = "append" => "added" \in odd'
          /\ ui.pc = "delete" => "deleted" \in odd'
          BY <3>1 DEF BeginUpdate
    <3>4. GoneIsEmpty' /\ GoneIsIdle' BY <3>2 DEF GoneIsEmpty, GoneIsIdle
    <3>5. NoneAdds' /\ NoneDeletes' BY <3>2, <3>3 DEF NoneAdds, NoneDeletes, Never
    <3>6. OneUpdates'
      <4> SUFFICES ASSUME Never({"twice"})', NEW v \in Updaters, Active(v)' PROVE v = u
          BY DEF OneUpdates
      <4>1. ~Updating BY <3>3 DEF Never
      <4>2. CASE v # u BY <2>0, <4>1, <4>2 DEF Updating, Active
      <4> QED BY <4>2
    <3> QED BY <1>0, <3>4, <3>5, <3>6 DEF Turns
  <2> QED BY <2>1, <2>2
<1>3. CASE User
  <2>0. /\ upd' = upd
        /\ ui'.pc = "append" => ui' = ui \/ (group /\ (Updating => "added" \in odd'))
        /\ ui'.pc = "delete" => ui' = ui \/ (group /\ (Updating => "deleted" \in odd'))
        /\ ~group' => ~group \/ ((Updating => "gone" \in odd') /\ ui'.pc = "idle" /\ rows' = {} /\ stored' = << >>)
        /\ ~group => ui' = ui \/ ui' = IdleUi
        BY <1>0, <1>3, UserSteps
  <2>1. (Updating' <=> Updating) /\ \A v \in Updaters : Active(v)' <=> Active(v)
        BY <2>0 DEF Updating, Active
  <2>2. OneUpdates' BY <1>1, <2>1 DEF Turns, OneUpdates
  <2>3. NoneAdds' /\ NoneDeletes' BY <1>1, <2>0, <2>1 DEF Turns, NoneAdds, NoneDeletes, Never
  <2>4. GoneIsIdle' BY <1>1, <2>0, <2>1 DEF Turns, GoneIsIdle, Never
  <2>5. ASSUME ~group', ~group PROVE rows' = {} /\ stored' = << >> /\ ui'.pc = "idle"
    <3>1. rows = {} /\ stored = << >> /\ ui.pc = "idle" BY <2>5 DEF Turns, GoneIsEmpty
    <3>2. ui'.pc = "idle" BY <2>0, <2>5, <3>1 DEF IdleUi
    <3>3. CASE AppendAdded BY <2>5, <3>3 DEF AppendAdded, Save, SaveToDatabase
    <3>4. CASE DeleteRow BY <3>1, <3>2, <3>4 DEF DeleteRow
    <3>5. CASE ~AppendAdded /\ ~DeleteRow
          BY <1>3, <2>5, <3>5 DEF User, AddProfile, DeleteProfile, StartProfile, DeleteGroup, ClearTestResults
    <3> QED BY <3>2, <3>3, <3>4, <3>5
  <2>6. GoneIsEmpty' BY <2>0, <2>5 DEF GoneIsEmpty
  <2> QED BY <1>0, <2>2, <2>3, <2>4, <2>6 DEF Turns
<1>4. CASE SaveRows
  <2>1. UNCHANGED <<upd, ui, group, stored>> /\ rows' = Inserted(saving) BY <1>4 DEF SaveRows
  <2>2. (Updating' <=> Updating) /\ \A v \in Updaters : Active(v)' <=> Active(v)
        BY <2>1 DEF Updating, Active
  <2>3. OneUpdates' BY <1>1, <2>2 DEF Turns, OneUpdates
  <2>4. NoneAdds' /\ NoneDeletes' /\ GoneIsIdle'
        BY <1>1, <2>1, <2>2 DEF Turns, NoneAdds, NoneDeletes, GoneIsIdle
  <2>5. GoneIsEmpty' BY <2>1 DEF Turns, GoneIsEmpty, Inserted
  <2> QED BY <1>0, <2>3, <2>4, <2>5 DEF Turns
<1>5. CASE ProcessEnds
  <2>1. /\ \A u \in Updaters : upd'[u].pc = "idle"
        /\ ui'.pc = "idle" /\ UNCHANGED <<group, rows, stored>>
        BY <1>5 DEF ProcessEnds, IdleUpdate, IdleUi
  <2>2. ~Updating' /\ \A u \in Updaters : ~Active(u)' BY <2>1 DEF Updating, Active
  <2> QED BY <1>0, <2>1, <2>2 DEF Turns, GoneIsEmpty, GoneIsIdle, OneUpdates, NoneAdds, NoneDeletes
<1>6. CASE UNCHANGED vars
  <2>1. UNCHANGED <<upd, ui, group, stored, rows, odd>> BY <1>6 DEF vars
  <2>2. (Updating' <=> Updating) /\ \A v \in Updaters : Active(v)' <=> Active(v)
        BY <2>1 DEF Updating, Active
  <2> QED BY <1>0, <1>1, <2>1, <2>2 DEF Turns, GoneIsEmpty, GoneIsIdle, OneUpdates, NoneAdds, NoneDeletes
<1> QED BY <1>2, <1>3, <1>4, <1>5, <1>6 DEF Next
-----------------------------------------------------------------------------
(* Memory and database agree: a clear is what tells them apart, when a      *)
(* profile is spared.                                                      *)
LEMMA SavedKeep == ASSUME Turns, SavedIsListed, [Next]_vars PROVE SavedIsListed'
<1> USE DEF store, settings
<1>0. Types BY DEF Turns
<1>1. \A s : Never(s)' => Never(s) BY <1>0, OdditiesStay DEF Never
<1>2. clear' = clear BY <1>0, OdditiesStay
<1>3. ASSUME UNCHANGED <<group, list, stored>> PROVE SavedIsListed'
      BY <1>1, <1>2, <1>3 DEF SavedIsListed
<1>4. ASSUME NEW l, Save(l) PROVE SavedIsListed' BY <1>4 DEF Save, SaveToDatabase, SavedIsListed
<1>5. ASSUME NEW ids, Unlist(ids) PROVE SavedIsListed'
      BY <1>3, <1>4, <1>5 DEF Unlist
<1>6. ASSUME NEW u \in Updaters, Update(u) PROVE SavedIsListed'
  <2>1. CASE BeginUpdate(u) \/ FetchFails(u) \/ ReadOld(u) \/ InsertRows(u) \/ Look(u) \/ DeleteRows(u)
        BY <1>3, <2>1 DEF BeginUpdate, FetchFails, ReadOld, InsertRows, Look, DeleteRows
  <2>2. CASE Fetched(u) \/ AppendNew(u) \/ Apply(u) BY <1>4, <2>2 DEF Fetched, AppendNew, Apply
  <2>3. CASE \E remote \in Remotes : Parse(u, remote) BY <1>3, <2>3 DEF Parse
  <2>4. CASE Clean(u) BY <1>5, <2>4 DEF Clean
  <2>5. CASE ClearOld(u)
    <3> DEFINE kept == Spared(ToSet(list), allow)
    <3>1. /\ kept # {} => "kept" \in odd'
          /\ Save(<< >>) \/ (list' = Without(list, kept) /\ UNCHANGED <<key, rows, group, stored>>)
          /\ clear
          BY <2>5 DEF ClearOld
    <3>2. CASE Save(<< >>) BY <1>4, <3>2
    <3>3. CASE list' = Without(list, kept) /\ UNCHANGED <<key, rows, group, stored>>
      <4>1. CASE kept # {} BY <1>2, <3>1, <4>1 DEF SavedIsListed, Never
      <4>2. CASE kept = {}
        <5>1. list \in Seq(Ids \cup {NoId}) BY <1>0 DEF Types, Lists
        <5>2. ToSet(list) \cap kept = {} BY <4>2
        <5> HIDE DEF kept
        <5>3. Without(list, kept) = list BY <5>1, <5>2, WithoutProperties
        <5> QED BY <1>3, <3>3, <5>3
      <4> QED BY <4>1, <4>2
    <3> QED BY <3>1, <3>2, <3>3
  <2> QED BY <1>6, <2>1, <2>2, <2>3, <2>4, <2>5 DEF Update
<1>7. CASE User
  <2>1. CASE AppendAdded BY <1>4, <2>1 DEF AppendAdded
  <2>2. ASSUME NEW i, DeleteProfile(i) PROVE SavedIsListed' BY <1>5, <2>2 DEF DeleteProfile
  <2>3. CASE DeleteGroup BY <2>3 DEF DeleteGroup, SavedIsListed
  <2>4. CASE DeleteRow \/ ClearTestResults BY <1>3, <2>4 DEF DeleteRow, ClearTestResults
  <2>5. ASSUME NEW k, AddProfile(k) PROVE SavedIsListed' BY <1>3, <2>5 DEF AddProfile
  <2>6. ASSUME NEW i, StartProfile(i) PROVE SavedIsListed' BY <1>3, <2>6 DEF StartProfile
  <2> QED BY <1>7, <2>1, <2>2, <2>3, <2>4, <2>5, <2>6 DEF User
<1>8. CASE SaveRows BY <1>3, <1>8 DEF SaveRows
<1>9. CASE ProcessEnds BY <1>9 DEF ProcessEnds, SavedIsListed
<1>10. CASE UNCHANGED vars BY <1>3, <1>10 DEF vars
<1> QED BY <1>6, <1>7, <1>8, <1>9, <1>10 DEF Next
-----------------------------------------------------------------------------
(* Who knows of which ids.                                                 *)

(* Except when profiles are added, a step of an update passes on what it   *)
(* has or what is listed.                                                  *)
LEMMA UpdateKnows ==
  ASSUME Turns, OldIsNotNew, NEW u \in Updaters, Update(u), ~\E remote \in Remotes : Parse(u, remote)
  PROVE  /\ Has(u)' \subseteq Has(u) \cup ToSet(list) /\ lastId' = lastId
         /\ ToSet(list)' \cup ToSet(stored)' \subseteq ToSet(list) \cup ToSet(stored) \cup Has(u)
         /\ rows' \subseteq rows \cup Has(u)
         /\ Adds(u)' => /\ list' = list /\ stored' = stored /\ upd'[u].new = upd[u].new /\ Adds(u)
         /\ NoId \notin ToSet(upd'[u].old) /\ ToSet(upd'[u].old) \cap ToSet(upd'[u].new) = {}
<1> USE DEF store, Has, Adds
<1>0. Types /\ list \in Lists /\ list \in Seq(Ids \cup {NoId}) BY DEF Turns, Types, Lists
<1>1. NoId \notin ToSet(upd[u].old) /\ ToSet(upd[u].old) \cap ToSet(upd[u].new) = {}
      BY DEF OldIsNotNew
<1>2. ASSUME NEW pc \in Phases, Goto(u, pc)
      PROVE /\ Has(u)' = Has(u) /\ upd'[u].pc = pc /\ upd'[u].new = upd[u].new /\ upd'[u].old = upd[u].old
      BY <1>0, <1>2, GotoChanges
<1>3. CASE BeginUpdate(u) BY <1>1, <1>2, <1>3 DEF BeginUpdate, Phases
<1>4. CASE FetchFails(u) BY <1>1, <1>2, <1>4 DEF FetchFails, Phases
<1>5. CASE Fetched(u) BY <1>1, <1>2, <1>5 DEF Fetched, Phases, Save, SaveToDatabase
<1>6. CASE ReadOld(u)
  <2>1. upd[u].pc = "read" /\ UNCHANGED <<list, stored, rows, lastId>> BY <1>6 DEF ReadOld
  <2>2. upd[u].new = << >> BY <2>1 DEF Turns, Begins
  <2>3. NoId \notin rows BY <1>0, Bounds DEF Types, NoId
  <2> QED BY <1>0, <1>6, <2>1, <2>2, <2>3, ReadOldChanges, EmptyKnows
<1>7. CASE ClearOld(u)
  <2>1. Goto(u, "parse") /\ rows' = rows /\ lastId' = lastId
        BY <1>7 DEF ClearOld, Save
  <2>2. \/ list' = << >> /\ stored' = << >>
        \/ (\E ids : list' = Without(list, ids)) /\ stored' = stored
        BY <1>7 DEF ClearOld, Save, SaveToDatabase
  <2>3. ToSet(list') \subseteq ToSet(list) BY <1>0, <2>2, WithoutProperties, EmptyKnows
  <2>4. ToSet(stored') \subseteq ToSet(stored) BY <2>2, EmptyKnows
  <2> QED BY <1>1, <1>2, <2>1, <2>3, <2>4 DEF Phases
<1>8. CASE InsertRows(u) BY <1>1, <1>2, <1>8 DEF InsertRows, Phases, Inserted
<1>9. CASE AppendNew(u)
  <2>1. upd[u].new \in Seq(Ids \cup {NoId}) BY <1>0 DEF Types, Updates, Lists
  <2>2. ToSet(list \o upd[u].new) = ToSet(list) \cup ToSet(upd[u].new) BY <1>0, <2>1, ConcatKnows
  <2> QED BY <1>1, <1>2, <1>9, <2>2 DEF AppendNew, Phases, Save, SaveToDatabase
<1>10. CASE Look(u)
  <2>1. UNCHANGED <<list, stored, rows, lastId>> BY <1>10 DEF Look
  <2>2. CASE clear BY <1>0, <1>10, <2>1, <2>2, LookChanges, EmptyKnows DEF IdleUpdate
  <2>3. CASE ~clear BY <1>0, <1>1, <1>10, <2>1, <2>3, LookChanges
  <2> QED BY <2>2, <2>3
<1>11. CASE Apply(u)
  <2>1. ToSet(RemoteOrder(u)) \subseteq ToSet(upd[u].old) \cup ToSet(upd[u].new) BY <1>0, OrderIsOfOldAndNew
  <2> QED BY <1>1, <1>2, <1>11, <2>1 DEF Apply, Phases, Save, SaveToDatabase
<1>12. CASE Clean(u)
  <2>1. lastId' = lastId BY <1>12 DEF Clean
  <2>2. Doomed(u) \subseteq upd[u].all BY DEF Doomed, Out
  <2>3. list' = list /\ rows' = rows /\ (stored' = list \/ stored' = stored) BY <1>0, <1>12, CleanChanges
  <2> QED BY <1>0, <1>1, <1>12, <2>1, <2>2, <2>3, CleanChanges
<1>13. CASE DeleteRows(u)
  <2>1. UNCHANGED <<list, stored, lastId>> /\ rows' \subseteq rows BY <1>13 DEF DeleteRows
  <2> QED BY <1>0, <1>13, <2>1, DeleteRowsChanges, EmptyKnows DEF IdleUpdate
<1> QED BY <1>3, <1>4, <1>5, <1>6, <1>7, <1>8, <1>9, <1>10, <1>11, <1>12, <1>13 DEF Update

(* Unlisting takes ids out of both lists and adds none.                    *)
LEMMA UnlistKnows ==
  ASSUME Types, NEW ids, Unlist(ids)
  PROVE  /\ ToSet(list)' \subseteq ToSet(list) /\ ToSet(stored)' \subseteq ToSet(list) \cup ToSet(stored)
         /\ rows' = rows /\ key' = key /\ list' \in {list, Without(list, ids)} /\ stored' \in {stored, list'}
         /\ Found(ids) # {} => /\ list' = Without(list, ids) /\ stored' = list'
                               /\ ToSet(list)' = ToSet(list) \ ids
         /\ Found(ids) = {} => UNCHANGED store
<1>1. list \in Seq(Ids \cup {NoId}) BY DEF Types, Lists
<1>2. ToSet(Without(list, ids)) = ToSet(list) \ ids BY <1>1, WithoutProperties
<1> QED BY <1>2 DEF Unlist, Save, SaveToDatabase, store

(* No id is handed out before the first step.                              *)
LEMMA OwnIdsInitially == Init => OwnIds
<1> SUFFICES ASSUME Init PROVE OwnIds OBVIOUS
<1>1. \A u \in Updaters : upd[u] = IdleUpdate BY DEF Init
<1>2. KnownIsHanded BY <1>1, EmptyKnows DEF KnownIsHanded, Init, IdleUpdate, IdleUi, Has, Handed, NoId
<1>3. AddedIsOwn /\ NewIsOwn /\ OldIsNotNew
      BY <1>1, EmptyKnows DEF Init, AddedIsOwn, NewIsOwn, OldIsNotNew, Adds, IdleUpdate, IdleUi
<1> QED BY <1>2, <1>3 DEF OwnIds

(* An id is its adder's own until it is listed, whatever the others do.    *)
LEMMA OwnIdsKeep == ASSUME Turns, OwnIds, [Next]_vars PROVE OwnIds'
<1> USE DEF store, bounds
<1>0. Types /\ Begins /\ KnownIsHanded /\ AddedIsOwn /\ NewIsOwn /\ OldIsNotNew
      BY DEF Turns, OwnIds
<1>1. lastId \in Nat /\ lastId <= MaxId /\ MaxId \in Nat BY <1>0, Bounds DEF Types
<1>2. ASSUME NEW u \in Updaters, Update(u), ~\E remote \in Remotes : Parse(u, remote) PROVE OwnIds'
  <2>1. /\ Has(u)' \subseteq Has(u) \cup ToSet(list) /\ lastId' = lastId
        /\ ToSet(list)' \cup ToSet(stored)' \subseteq ToSet(list) \cup ToSet(stored) \cup Has(u)
        /\ rows' \subseteq rows \cup Has(u)
        /\ Adds(u)' => /\ list' = list /\ stored' = stored /\ upd'[u].new = upd[u].new /\ Adds(u)
        /\ NoId \notin ToSet(upd'[u].old) /\ ToSet(upd'[u].old) \cap ToSet(upd'[u].new) = {}
        BY <1>0, <1>2, UpdateKnows
  <2>2. /\ ui' = ui /\ saving' = saving /\ \A v \in Updaters \ {u} : upd'[v] = upd[v]
        BY <1>0, <1>2, UpdateSteps
  <2>3. \A v \in Updaters \ {u} : Has(v)' = Has(v) /\ (Adds(v)' <=> Adds(v)) BY <2>2 DEF Has, Adds
  <2>4. Handed' = Handed BY <2>1 DEF Handed
  <2>5. KnownIsHanded' BY <1>0, <2>1, <2>2, <2>3, <2>4 DEF KnownIsHanded
  <2>6. AddedIsOwn' BY <1>0, <2>1, <2>2, <2>3 DEF AddedIsOwn
  <2>7. OldIsNotNew' BY <1>0, <2>1, <2>2 DEF OldIsNotNew
  <2>8. NewIsOwn'
    <3> SUFFICES ASSUME NEW v \in Updaters, Adds(v)'
                 PROVE  /\ IsInjective(upd'[v].new)
                        /\ ToSet(upd'[v].new) \cap (ToSet(list') \cup ToSet(stored')) = {}
                        /\ \A w \in Updaters \ {v} : ToSet(upd'[v].new) \cap Has(w)' = {}
        BY DEF NewIsOwn
    <3>1. Adds(v) /\ upd'[v].new = upd[v].new BY <2>1, <2>2, <2>3
    <3>2. /\ IsInjective(upd[v].new)
          /\ ToSet(upd[v].new) \cap (ToSet(list) \cup ToSet(stored)) = {}
          /\ \A w \in Updaters \ {v} : ToSet(upd[v].new) \cap Has(w) = {}
          BY <1>0, <3>1 DEF NewIsOwn
    <3>3. CASE v = u BY <2>1, <2>3, <3>1, <3>2, <3>3
    <3>4. CASE v # u
      <4>1. ToSet(upd[v].new) \cap (ToSet(list') \cup ToSet(stored')) = {} BY <2>1, <3>2, <3>4
      <4>2. \A w \in Updaters \ {v} : ToSet(upd[v].new) \cap Has(w)' = {} BY <2>1, <2>3, <3>2, <3>4
      <4> QED BY <3>1, <3>2, <4>1, <4>2
    <3> QED BY <3>3, <3>4
  <2> QED BY <2>5, <2>6, <2>7, <2>8 DEF OwnIds
<1>3. ASSUME NEW u \in Updaters, NEW remote \in Remotes, Parse(u, remote) PROVE OwnIds'
  <2>1. UNCHANGED <<rows, group, stored, list, ui, saving>> BY <1>3 DEF Parse
  <2>2. /\ \A v \in Updaters \ {u} : upd'[v] = upd[v]
        /\ upd'[u].pc = (IF group /\ Len(remote) > 0 THEN "insert" ELSE "look")
        /\ upd'[u].old = upd[u].old /\ upd'[u].all = upd[u].all /\ upd'[u].del = upd[u].del
        /\ lastId <= lastId' /\ lastId' \in 0 .. MaxId
        /\ group => ToSet(upd'[u].new) = lastId + 1 .. lastId' /\ IsInjective(upd'[u].new)
        /\ ~group => ToSet(upd'[u].new) \subseteq {NoId}
        BY <1>0, <1>3, ParseChanges
  <2>3. \A v \in Updaters \ {u} : Has(v)' = Has(v) /\ (Adds(v)' <=> Adds(v)) BY <2>2 DEF Has, Adds
  <2>4. Has(u)' \subseteq Has(u) \cup ToSet(upd'[u].new) BY <2>2 DEF Has
  <2>5. Handed \subseteq Handed' /\ lastId + 1 .. lastId' \subseteq Handed' /\ NoId \in Handed'
        BY <1>1, <2>2 DEF Handed, NoId
  <2>6. Handed \cap (lastId + 1 .. lastId') = {} BY <1>1 DEF Handed
  <2>7. ToSet(upd'[u].new) \cap Handed \subseteq {NoId} BY <2>2, <2>6
  <2>8. KnownIsHanded'
    <3>1. ToSet(upd'[u].new) \subseteq Handed' BY <2>2, <2>5
    <3> QED BY <1>0, <2>1, <2>3, <2>4, <2>5, <3>1 DEF KnownIsHanded
  <2>9. AddedIsOwn'
    <3>1. NoId \notin Ids BY Bounds DEF NoId
    <3>2. ui.id \in Handed BY <1>0 DEF KnownIsHanded
    <3> QED BY <1>0, <2>1, <2>3, <2>4, <2>7, <3>1, <3>2 DEF AddedIsOwn
  <2>10. OldIsNotNew'
    <3>1. ToSet(upd[u].old) \subseteq Handed BY <1>0 DEF KnownIsHanded, Has
    <3>2. NoId \notin ToSet(upd[u].old) BY <1>0 DEF OldIsNotNew
    <3>3. ToSet(upd[u].old) \cap ToSet(upd'[u].new) = {} BY <2>7, <3>1, <3>2
    <3> QED BY <1>0, <2>2, <3>2, <3>3 DEF OldIsNotNew
  <2>11. NewIsOwn'
    <3> SUFFICES ASSUME NEW v \in Updaters, Adds(v)'
                 PROVE  /\ IsInjective(upd'[v].new)
                        /\ ToSet(upd'[v].new) \cap (ToSet(list') \cup ToSet(stored')) = {}
                        /\ \A w \in Updaters \ {v} : ToSet(upd'[v].new) \cap Has(w)' = {}
        BY DEF NewIsOwn
    <3>1. CASE v = u
      <4>1. group BY <2>2, <3>1 DEF Adds
      <4>2. ToSet(upd'[u].new) \cap Handed = {} /\ IsInjective(upd'[u].new) BY <2>2, <2>6, <4>1
      <4>3. ToSet(list) \cup ToSet(stored) \subseteq Handed /\ \A w \in Updaters : Has(w) \subseteq Handed
            BY <1>0 DEF KnownIsHanded
      <4> QED BY <2>1, <2>3, <3>1, <4>2, <4>3
    <3>2. CASE v # u
      <4>1. Adds(v) /\ upd'[v].new = upd[v].new BY <2>2, <2>3, <3>2
      <4>2. /\ IsInjective(upd[v].new)
            /\ ToSet(upd[v].new) \cap (ToSet(list) \cup ToSet(stored)) = {}
            /\ \A w \in Updaters \ {v} : ToSet(upd[v].new) \cap Has(w) = {}
            /\ ToSet(upd[v].new) \subseteq Handed /\ NoId \notin ToSet(upd[v].new)
        <5>1. NoId \notin Ids BY Bounds DEF NoId
        <5> QED BY <1>0, <4>1, <5>1 DEF NewIsOwn, KnownIsHanded, Has, Begins
      <4>3. ToSet(upd[v].new) \cap ToSet(upd'[u].new) = {} BY <2>7, <4>2
      <4>4. \A w \in Updaters \ {v} : ToSet(upd[v].new) \cap Has(w)' = {} BY <2>3, <2>4, <3>2, <4>2, <4>3
      <4> QED BY <2>1, <4>1, <4>2, <4>4
    <3> QED BY <3>1, <3>2
  <2> QED BY <2>8, <2>9, <2>10, <2>11 DEF OwnIds
<1>4. ASSUME upd' = upd, lastId' = lastId, ui' = ui \/ ui' = IdleUi \/ (ui'.pc = "delete" /\ ui'.id \in ToSet(list)),
             rows' \subseteq Handed, saving' \subseteq Handed,
             ToSet(list)' \cup ToSet(stored)' \subseteq ToSet(list) \cup ToSet(stored)
      PROVE  OwnIds'
  <2>1. \A v \in Updaters : Has(v)' = Has(v) /\ (Adds(v)' <=> Adds(v)) BY <1>4 DEF Has, Adds
  <2>2. Handed' = Handed /\ NoId \in Handed BY <1>1, <1>4 DEF Handed, NoId
  <2>3. KnownIsHanded' BY <1>0, <1>4, <2>1, <2>2 DEF KnownIsHanded, IdleUi
  <2>4. AddedIsOwn' BY <1>0, <1>4, <2>1 DEF AddedIsOwn, IdleUi
  <2>5. NewIsOwn' BY <1>0, <1>4, <2>1 DEF NewIsOwn
  <2>6. OldIsNotNew' BY <1>0, <1>4 DEF OldIsNotNew
  <2> QED BY <2>3, <2>4, <2>5, <2>6 DEF OwnIds
<1>5. rows \subseteq Handed /\ saving \subseteq Handed /\ ToSet(list) \subseteq Handed BY <1>0 DEF KnownIsHanded
<1>6. ASSUME NEW k \in Keys, AddProfile(k) PROVE OwnIds'
  <2>1. /\ ui' = [pc |-> "append", id |-> lastId + 1] /\ UNCHANGED <<upd, list, stored, saving>>
        /\ rows' \subseteq rows \cup {lastId + 1} /\ lastId' = lastId + 1 /\ lastId + 1 \in Ids
        BY <1>1, <1>6 DEF AddProfile, Reserve, Inserted, Ids
  <2>2. \A v \in Updaters : Has(v)' = Has(v) /\ (Adds(v)' <=> Adds(v)) BY <2>1 DEF Has, Adds
  <2>3. Handed \subseteq Handed' /\ lastId + 1 \in Handed' /\ lastId + 1 \notin Handed
        BY <1>1, <2>1 DEF Handed
  <2>4. KnownIsHanded' BY <1>0, <2>1, <2>2, <2>3 DEF KnownIsHanded
  <2>5. AddedIsOwn' BY <1>0, <2>1, <2>2, <2>3 DEF AddedIsOwn, KnownIsHanded
  <2>6. NewIsOwn' BY <1>0, <2>1, <2>2 DEF NewIsOwn
  <2>7. OldIsNotNew' BY <1>0, <2>1 DEF OldIsNotNew
  <2> QED BY <2>4, <2>5, <2>6, <2>7 DEF OwnIds
<1>7. CASE AppendAdded
  <2>1. /\ ui.pc = "append" /\ ui' = IdleUi /\ list' = Append(list, ui.id) /\ stored' = list'
        /\ UNCHANGED <<upd, saving, lastId, rows>>
        BY <1>7 DEF AppendAdded, Save, SaveToDatabase
  <2>2. ToSet(list') = ToSet(list) \cup {ui.id}
    <3>1. list \in Seq(Ids \cup {NoId}) /\ ui.id \in Ids \cup {NoId} BY <1>0 DEF Types, Lists, UiStates
    <3> QED BY <2>1, <3>1, AppendKnows
  <2>3. \A v \in Updaters : Has(v)' = Has(v) /\ (Adds(v)' <=> Adds(v)) BY <2>1 DEF Has, Adds
  <2>4. Handed' = Handed /\ NoId \in Handed BY <1>1, <2>1 DEF Handed, NoId
  <2>5. KnownIsHanded' BY <1>0, <2>1, <2>2, <2>3, <2>4 DEF KnownIsHanded, IdleUi
  <2>6. AddedIsOwn' BY <2>1 DEF AddedIsOwn, IdleUi
  <2>7. NewIsOwn'
    <3>1. \A v \in Updaters : ui.id \notin ToSet(upd[v].new) BY <1>0, <2>1 DEF AddedIsOwn, Has
    <3> QED BY <1>0, <2>1, <2>2, <2>3, <3>1 DEF NewIsOwn
  <2>8. OldIsNotNew' BY <1>0, <2>1 DEF OldIsNotNew
  <2> QED BY <2>5, <2>6, <2>7, <2>8 DEF OwnIds
<1>8. ASSUME NEW i \in ToSet(list) \ {NoId}, DeleteProfile(i) PROVE OwnIds'
  <2>1. /\ ui' = [pc |-> "delete", id |-> i] /\ UNCHANGED <<upd, lastId, saving>> /\ Unlist({i})
        BY <1>8 DEF DeleteProfile
  <2>2. /\ ToSet(list)' \cup ToSet(stored)' \subseteq ToSet(list) \cup ToSet(stored) /\ rows' = rows
        BY <1>0, <2>1, UnlistKnows
  <2> QED BY <1>4, <1>5, <2>1, <2>2
<1>9. ASSUME NEW i, StartProfile(i) PROVE OwnIds' BY <1>4, <1>5, <1>9 DEF StartProfile
<1>10. CASE DeleteRow
  <2>1. /\ ui' = IdleUi /\ UNCHANGED <<upd, lastId, list, stored, saving>> /\ rows' \subseteq rows
        BY <1>10 DEF DeleteRow
  <2> QED BY <1>4, <1>5, <2>1
<1>11. CASE DeleteGroup
  <2>1. /\ UNCHANGED <<upd, lastId, list, saving, ui>> /\ rows' = {} /\ stored' = << >> BY <1>11 DEF DeleteGroup
  <2> QED BY <1>4, <1>5, <2>1, EmptyKnows
<1>12. CASE ClearTestResults
  <2>1. /\ UNCHANGED <<upd, lastId, list, stored, rows, ui>> /\ saving' \subseteq rows
        BY <1>12 DEF ClearTestResults, Found
  <2> QED BY <1>4, <1>5, <2>1
<1>13. CASE SaveRows
  <2>1. /\ UNCHANGED <<upd, lastId, list, stored, ui>> /\ saving' = {} /\ rows' \subseteq rows \cup saving
        BY <1>13 DEF SaveRows, Inserted
  <2> QED BY <1>4, <1>5, <2>1
<1>14. CASE ProcessEnds
  <2>1. /\ \A u \in Updaters : upd'[u] = IdleUpdate
        /\ ui' = IdleUi /\ saving' = {} /\ list' = stored /\ UNCHANGED <<lastId, rows, stored>>
        BY <1>14 DEF ProcessEnds
  <2>2. \A u \in Updaters : Has(u)' = {} /\ ~Adds(u)' BY <2>1, EmptyKnows DEF Has, Adds, IdleUpdate
  <2>3. Handed' = Handed /\ NoId \in Handed BY <1>1, <2>1 DEF Handed, NoId
  <2>4. KnownIsHanded' BY <1>0, <2>1, <2>2, <2>3 DEF KnownIsHanded, IdleUi
  <2>5. AddedIsOwn' /\ NewIsOwn' /\ OldIsNotNew'
        BY <2>1, <2>2, EmptyKnows DEF AddedIsOwn, NewIsOwn, OldIsNotNew, IdleUi, IdleUpdate
  <2> QED BY <2>4, <2>5 DEF OwnIds
<1>15. CASE UNCHANGED vars BY <1>4, <1>5, <1>15 DEF vars
<1> QED BY <1>2, <1>3, <1>6, <1>7, <1>8, <1>9, <1>10, <1>11, <1>12, <1>13, <1>14, <1>15 DEF Next, Update, User
-----------------------------------------------------------------------------
(* While updates do not overlap, the others have nothing.                  *)
LEMMA OthersAreIdle ==
  ASSUME Turns, Never({"twice"}), NEW u \in Updaters, Active(u)
  PROVE  \A v \in Updaters \ {u} : upd[v].pc = "idle" /\ upd[v].old = << >> /\ upd[v].new = << >>
BY DEF Turns, OneUpdates, Active, Begins

(* While nobody updates, no update has anything.                           *)
LEMMA QuietUpdates ==
  ASSUME Turns, ~Updating
  PROVE  \A v \in Updaters : upd[v].pc = "idle" /\ upd[v].old = << >> /\ upd[v].new = << >>
BY DEF Turns, Updating, Begins

(* What has not happened after a step had not happened before it.          *)
LEMMA NeverStays == ASSUME Turns, [Next]_vars PROVE \A s : Never(s)' => Never(s)
BY OdditiesStay DEF Never, Turns

(* A row is there before its id is listed, and as long as it is.           *)
RowsOf(u) == /\ ToSet(upd[u].old) \subseteq rows
             /\ upd[u].pc \in {"append", "look", "apply"} => ToSet(upd[u].new) \subseteq rows
             /\ upd[u].pc = "delete" => upd[u].del \cap (ToSet(list) \cup ToSet(stored)) = {}
RowsOfUi == /\ ui.pc = "append" => ui.id \in rows
            /\ ui.pc = "delete" => ui.id \notin ToSet(list) \cup ToSet(stored)

(* Rows are inserted before their ids are listed and deleted after they    *)
(* are unlisted, and no step turns that round.                             *)
LEMMA RowsOfListedKeep == ASSUME Turns, OwnIds, RowsOfListed, [Next]_vars PROVE RowsOfListed'
<1> USE DEF store, bounds
<1>0. Types /\ Begins /\ KnownIsHanded /\ AddedIsOwn /\ NewIsOwn /\ OldIsNotNew BY DEF Turns, OwnIds
<1> SUFFICES ASSUME Never({"twice", "gone", "deleted"})'
             PROVE  /\ ToSet(stored') \subseteq rows' /\ (group' => ToSet(list') \subseteq rows') /\ RowsOfUi'
                    /\ \A u \in Updaters : RowsOf(u)'
    BY DEF RowsOfListed, RowsOf, RowsOfUi
<1>1. Never({"twice", "gone", "deleted"}) BY NeverStays
<1>2. Never({"twice"}) /\ Never({"gone"}) /\ Never({"deleted"}) BY <1>1 DEF Never
<1>3. /\ ToSet(stored) \subseteq rows /\ (group => ToSet(list) \subseteq rows) /\ RowsOfUi
      /\ \A u \in Updaters : RowsOf(u)
      BY <1>1 DEF RowsOfListed, RowsOf, RowsOfUi
<1>4. list \in Seq(Ids \cup {NoId}) /\ NoId \notin rows BY <1>0, Bounds DEF Types, Lists, NoId
<1> DEFINE G == /\ ToSet(stored') \subseteq rows' /\ (group' => ToSet(list') \subseteq rows') /\ RowsOfUi'
                /\ \A u \in Updaters : RowsOf(u)'
<1>5. ASSUME NEW u \in Updaters, Update(u) PROVE G
  <2>0. /\ \A v \in Updaters \ {u} : upd'[v] = upd[v]
        /\ ui' = ui /\ (upd[u].pc = "idle" => BeginUpdate(u))
        BY <1>0, <1>5, UpdateSteps
  <2>1. CASE BeginUpdate(u)
    <3>1. UNCHANGED <<rows, group, stored, list, ui>> BY <2>1 DEF BeginUpdate
    <3>2. upd'[u].pc = "fetch" /\ upd'[u].old = upd[u].old BY <1>0, <2>1, GotoChanges DEF BeginUpdate, Phases
    <3> QED BY <1>3, <2>0, <3>1, <3>2 DEF RowsOf, RowsOfUi
  <2>2. ASSUME upd[u].pc # "idle" PROVE G
    <3>1. Active(u) /\ Updating BY <2>2 DEF Active, Updating
    <3>2. group /\ ui.pc # "delete" BY <1>2, <3>1 DEF Turns, GoneIsIdle, NoneDeletes
    <3>3. \A v \in Updaters \ {u} : upd[v].pc = "idle" /\ upd[v].old = << >> BY <1>2, <3>1, OthersAreIdle
    <3>4. \A v \in Updaters \ {u} : RowsOf(v)' BY <2>0, <3>3, EmptyKnows DEF RowsOf
    <3>5. ToSet(list) \subseteq rows /\ ToSet(stored) \subseteq rows /\ RowsOf(u) /\ (ui.pc = "append" => ui.id \in rows)
          BY <1>3, <3>2 DEF RowsOfUi
    <3>6. ASSUME rows \subseteq rows', ToSet(list') \subseteq rows, ToSet(stored') \subseteq rows, RowsOf(u)' PROVE G
          BY <2>0, <3>2, <3>4, <3>5, <3>6 DEF RowsOfUi
    <3>7. CASE FetchFails(u)
      <4>1. RowsOf(u)' BY <1>0, <3>5, <3>7, GotoChanges DEF FetchFails, RowsOf, Phases
      <4> QED BY <3>5, <3>6, <3>7, <4>1 DEF FetchFails
    <3>8. CASE Fetched(u)
      <4>1. RowsOf(u)' BY <1>0, <3>5, <3>8, GotoChanges DEF Fetched, RowsOf, Phases, Save
      <4> QED BY <3>5, <3>6, <3>8, <4>1 DEF Fetched, Save, SaveToDatabase
    <3>9. CASE ReadOld(u)
      <4>1. rows' = rows BY <3>9 DEF ReadOld
      <4>2. RowsOf(u)' BY <1>0, <3>9, <4>1, ReadOldChanges DEF RowsOf
      <4> QED BY <3>5, <3>6, <3>9, <4>2 DEF ReadOld
    <3>10. CASE ClearOld(u)
      <4>1. Goto(u, "parse") /\ rows' = rows BY <3>10 DEF ClearOld, Save
      <4>2. RowsOf(u)' BY <1>0, <3>5, <4>1, GotoChanges DEF RowsOf, Phases
      <4>3. \/ list' = << >> /\ stored' = << >>
            \/ (\E ids : list' = Without(list, ids)) /\ stored' = stored
            BY <3>10 DEF ClearOld, Save, SaveToDatabase
      <4>4. ToSet(list') \subseteq ToSet(list) /\ ToSet(stored') \subseteq ToSet(stored)
            BY <1>4, <4>3, WithoutProperties, EmptyKnows
      <4> QED BY <3>5, <3>6, <4>1, <4>2, <4>4
    <3>11. ASSUME NEW remote \in Remotes, Parse(u, remote) PROVE G
      <4>1. UNCHANGED <<rows, list, stored>> /\ group BY <3>2, <3>11 DEF Parse
      <4>2. /\ upd'[u].pc = (IF group /\ Len(remote) > 0 THEN "insert" ELSE "look")
            /\ Len(remote) \in Nat /\ DOMAIN upd'[u].new = 1 .. Len(remote)
            /\ upd'[u].old = upd[u].old
            BY <1>0, <3>11, ParseChanges
      <4>3. CASE Len(remote) > 0 BY <3>5, <3>6, <4>1, <4>2, <4>3 DEF RowsOf
      <4>4. CASE Len(remote) = 0
        <5>1. ToSet(upd'[u].new) = {} BY <4>2, <4>4 DEF ToSet
        <5> QED BY <3>5, <3>6, <4>1, <4>2, <4>4, <5>1 DEF RowsOf
      <4> QED BY <4>2, <4>3, <4>4
    <3>12. CASE InsertRows(u)
      <4>1. rows' = rows \cup ToSet(upd[u].new) BY <3>2, <3>12 DEF InsertRows, Inserted
      <4>2. RowsOf(u)' BY <1>0, <3>5, <3>12, <4>1, GotoChanges DEF InsertRows, RowsOf, Phases
      <4> QED BY <3>5, <3>6, <3>12, <4>1, <4>2 DEF InsertRows
    <3>13. CASE AppendNew(u)
      <4>1. upd[u].pc = "append" /\ Goto(u, "look") /\ rows' = rows /\ list' = list \o upd[u].new /\ stored' = list'
            BY <3>13 DEF AppendNew, Save, SaveToDatabase
      <4>2. upd[u].new \in Seq(Ids \cup {NoId}) BY <1>0 DEF Types, Updates, Lists
      <4>3. ToSet(list') = ToSet(list) \cup ToSet(upd[u].new) BY <1>4, <4>1, <4>2, ConcatKnows
      <4>4. ToSet(upd[u].new) \subseteq rows BY <3>5, <4>1 DEF RowsOf
      <4>5. RowsOf(u)' BY <1>0, <3>5, <4>1, <4>4, GotoChanges DEF RowsOf, Phases
      <4> QED BY <3>5, <3>6, <4>1, <4>3, <4>4, <4>5
    <3>14. CASE Look(u)
      <4>1. UNCHANGED <<rows, list, stored>> /\ upd[u].pc = "look" BY <3>14 DEF Look
      <4>2. RowsOf(u)'
        <5>1. CASE clear BY <1>0, <3>14, <5>1, LookChanges, EmptyKnows DEF RowsOf, IdleUpdate
        <5>2. CASE ~clear BY <1>0, <3>5, <3>14, <4>1, <5>2, LookChanges DEF RowsOf
        <5> QED BY <5>1, <5>2
      <4> QED BY <3>5, <3>6, <4>1, <4>2
    <3>15. CASE Apply(u)
      <4>1. /\ upd[u].pc = "apply" /\ Goto(u, "clean") /\ rows' = rows
            /\ list' = RemoteOrder(u) /\ stored' = list'
            BY <3>15 DEF Apply, Save, SaveToDatabase
      <4>2. ToSet(list') \subseteq rows BY <1>0, <3>5, <4>1, OrderIsOfOldAndNew DEF RowsOf
      <4>3. RowsOf(u)' BY <1>0, <3>5, <4>1, GotoChanges DEF RowsOf, Phases
      <4> QED BY <3>6, <4>1, <4>2, <4>3
    <3>16. CASE Clean(u)
      <4>1. /\ list' = list /\ rows' = rows /\ upd'[u].pc = "delete" /\ upd'[u].del = Doomed(u)
            /\ upd'[u].old = upd[u].old
            /\ stored' = list \/ (Found(Doomed(u)) = {} /\ stored' = stored)
            BY <1>0, <3>16, CleanChanges
      <4>2. Doomed(u) \cap ToSet(list) = {} BY DEF Doomed, Out
      <4>3. Doomed(u) \cap ToSet(stored') = {} BY <3>5, <4>1, <4>2 DEF Found
      <4>4. RowsOf(u)' BY <3>5, <4>1, <4>2, <4>3 DEF RowsOf
      <4> QED BY <3>5, <3>6, <4>1, <4>4
    <3>17. CASE DeleteRows(u)
      <4>1. /\ upd[u].pc = "delete" /\ rows' = rows \ upd[u].del /\ UNCHANGED <<list, stored>> BY <3>17 DEF DeleteRows
      <4>2. upd[u].del \cap (ToSet(list) \cup ToSet(stored)) = {} BY <3>5, <4>1 DEF RowsOf
      <4>3. upd'[u] = IdleUpdate BY <1>0, <3>17, DeleteRowsChanges
      <4>4. RowsOf(u)' BY <4>3, EmptyKnows DEF RowsOf, IdleUpdate
      <4>5. ui.pc = "append" => ui.id \notin upd[u].del BY <1>0 DEF AddedIsOwn, Has
      <4> QED BY <2>0, <3>2, <3>4, <3>5, <4>1, <4>2, <4>4, <4>5 DEF RowsOfUi
    <3> QED BY <1>5, <2>2, <3>7, <3>8, <3>9, <3>10, <3>11, <3>12, <3>13, <3>14, <3>15, <3>16, <3>17
            DEF Update, BeginUpdate
  <2> QED BY <2>0, <2>1, <2>2
<1>6. ASSUME upd' = upd, ui' = ui, rows \subseteq rows', UNCHANGED <<group, list, stored>> PROVE G
      BY <1>3, <1>6 DEF RowsOf, RowsOfUi
<1>7. ASSUME upd' = upd, ~Updating PROVE \A u \in Updaters : RowsOf(u)'
      BY <1>7, QuietUpdates, EmptyKnows DEF RowsOf
<1>8. ASSUME NEW k \in Keys, AddProfile(k) PROVE G
  <2>1. /\ UNCHANGED <<upd, list, stored, group>> /\ rows' = rows \cup {lastId + 1}
        /\ ui' = [pc |-> "append", id |-> lastId + 1]
        BY <1>8 DEF AddProfile, Inserted
  <2> QED BY <1>3, <2>1 DEF RowsOf, RowsOfUi
<1>9. CASE AppendAdded
  <2>1. /\ ui.pc = "append" /\ ui' = IdleUi /\ list' = Append(list, ui.id) /\ stored' = list'
        /\ UNCHANGED <<upd, rows>>
        BY <1>9 DEF AppendAdded, Save, SaveToDatabase
  <2>2. ToSet(list') = ToSet(list) \cup {ui.id}
    <3>1. ui.id \in Ids \cup {NoId} BY <1>0 DEF Types, UiStates
    <3> QED BY <1>4, <2>1, <3>1, AppendKnows
  <2>3. group /\ ui.id \in rows BY <1>3, <2>1 DEF Turns, GoneIsEmpty, RowsOfUi
  <2>4. \A u \in Updaters : RowsOf(u)'
    <3>1. \A u \in Updaters : ui.id \notin upd[u].del BY <1>0, <2>1 DEF AddedIsOwn, Has
    <3> QED BY <1>3, <2>1, <2>2, <3>1 DEF RowsOf
  <2>5. RowsOfUi' BY <2>1 DEF RowsOfUi, IdleUi
  <2> QED BY <1>3, <2>1, <2>2, <2>3, <2>4, <2>5
<1>10. ASSUME NEW i \in ToSet(list) \ {NoId}, DeleteProfile(i) PROVE G
  <2>1. /\ ui' = [pc |-> "delete", id |-> i] /\ upd' = upd /\ Unlist({i}) /\ group
        /\ Updating => "deleted" \in odd'
        BY <1>10 DEF DeleteProfile
  <2>2. ~Updating BY <2>1 DEF Never
  <2>3. i \in rows BY <1>3, <2>1
  <2>4. Found({i}) # {} BY <2>3 DEF Found
  <2>5. /\ ToSet(list)' = ToSet(list) \ {i} /\ stored' = list' /\ rows' = rows BY <1>0, <2>1, <2>4, UnlistKnows
  <2>6. RowsOfUi' BY <2>1, <2>5 DEF RowsOfUi
  <2>7. \A u \in Updaters : RowsOf(u)' BY <1>7, <2>1, <2>2
  <2> QED BY <1>3, <2>1, <2>5, <2>6, <2>7
<1>11. ASSUME NEW i, StartProfile(i) PROVE G BY <1>6, <1>11 DEF StartProfile
<1>12. CASE DeleteRow
  <2>1. /\ ui.pc = "delete" /\ ui' = IdleUi /\ UNCHANGED <<upd, list, stored, group>> /\ rows' = rows \ {ui.id}
        BY <1>12 DEF DeleteRow
  <2>2. ui.id \notin ToSet(list) \cup ToSet(stored) BY <1>3, <2>1 DEF RowsOfUi
  <2>3. ~Updating BY <1>2, <2>1 DEF Turns, NoneDeletes
  <2>4. \A u \in Updaters : RowsOf(u)' BY <1>7, <2>1, <2>3
  <2>5. RowsOfUi' BY <2>1 DEF RowsOfUi, IdleUi
  <2> QED BY <1>3, <2>1, <2>2, <2>4, <2>5
<1>13. CASE DeleteGroup
  <2>1. /\ ui.pc = "idle" /\ ui' = ui /\ upd' = upd /\ rows' = {} /\ stored' = << >> /\ ~group'
        /\ Updating => "gone" \in odd'
        BY <1>13 DEF DeleteGroup, Use
  <2>2. ~Updating BY <2>1 DEF Never
  <2>3. \A u \in Updaters : RowsOf(u)' BY <1>7, <2>1, <2>2
  <2>4. RowsOfUi' BY <2>1 DEF RowsOfUi
  <2> QED BY <2>1, <2>3, <2>4, EmptyKnows
<1>14. CASE ClearTestResults BY <1>6, <1>14 DEF ClearTestResults
<1>15. CASE SaveRows
  <2>1. UNCHANGED <<upd, ui, group, list, stored>> /\ rows \subseteq rows' BY <1>15 DEF SaveRows, Inserted
  <2> QED BY <1>6, <2>1
<1>16. CASE ProcessEnds
  <2>1. /\ \A u \in Updaters : upd'[u] = IdleUpdate
        /\ ui' = IdleUi /\ list' = stored /\ UNCHANGED <<rows, stored>>
        BY <1>16 DEF ProcessEnds
  <2>2. RowsOfUi' /\ \A u \in Updaters : RowsOf(u)' BY <2>1, EmptyKnows DEF RowsOf, RowsOfUi, IdleUi, IdleUpdate
  <2> QED BY <1>3, <2>1, <2>2
<1>17. CASE UNCHANGED vars BY <1>6, <1>17 DEF vars
<1> QED BY <1>5, <1>8, <1>9, <1>10, <1>11, <1>12, <1>13, <1>14, <1>15, <1>16, <1>17 DEF Next, User
-----------------------------------------------------------------------------
(* A row is listed or in somebody's hands.                                 *)
InAll(u) == upd[u].pc \in {"apply", "clean"} => rows \subseteq upd[u].all \cup InHands
KnownTo(i) == i \in ToSet(list) \cup InHands \/ \E u \in Updaters : i \in InUpdate(u)

(* A row is let go of only to be listed or to be deleted.                  *)
LEMMA RowsAreKnownKeep == ASSUME Turns, SavedIsListed, RowsAreKnown, [Next]_vars PROVE RowsAreKnown'
<1> USE DEF store, bounds
<1>0. Types /\ Begins /\ list \in Seq(Ids \cup {NoId}) BY DEF Turns, Types, Lists
<1>a. clear' = clear BY <1>0, OdditiesStay
<1> SUFFICES ASSUME ~clear, Never({"twice", "added", "kept", "revived", "ended"})'
             PROVE  /\ (\A u \in Updaters : upd'[u].pc # "clean") => \A i \in rows' : KnownTo(i)'
                    /\ \A u \in Updaters : InAll(u)'
    BY <1>a DEF RowsAreKnown, KnownTo, InAll
<1>1. Never({"twice", "added", "kept", "revived", "ended"}) BY NeverStays
<1>2. Never({"twice"}) /\ Never({"added"}) /\ Never({"kept"}) /\ Never({"revived"}) /\ Never({"ended"})
      BY <1>1 DEF Never
<1>3. /\ (\A u \in Updaters : upd[u].pc # "clean") => \A i \in rows : KnownTo(i)
      /\ \A u \in Updaters : InAll(u)
      BY <1>1 DEF RowsAreKnown, KnownTo, InAll
<1> DEFINE G == /\ (\A u \in Updaters : upd'[u].pc # "clean") => \A i \in rows' : KnownTo(i)'
                /\ \A u \in Updaters : InAll(u)'
<1>4. ASSUME NEW u \in Updaters, Update(u) PROVE G
  <2>0. /\ \A v \in Updaters \ {u} : upd'[v] = upd[v]
        /\ ui' = ui /\ (upd[u].pc = "idle" => BeginUpdate(u))
        BY <1>0, <1>4, UpdateSteps
  <2>1. InHands' = InHands BY <2>0 DEF InHands
  <2>2. ASSUME Active(u) PROVE G
    <3>1. \A v \in Updaters \ {u} : upd[v].pc = "idle" BY <1>2, <2>2, OthersAreIdle
    <3>2. \A v \in Updaters \ {u} : InUpdate(v) = {} /\ InUpdate(v)' = {} /\ InAll(v)' /\ upd'[v].pc # "clean"
          BY <2>0, <3>1 DEF InUpdate, InAll
    <3>3. /\ upd[u].pc # "clean" => rows \subseteq ToSet(list) \cup InHands \cup InUpdate(u)
          /\ InAll(u)
          BY <1>3, <3>1, <3>2 DEF KnownTo
    <3>4. ASSUME upd'[u].pc # "clean" => rows' \subseteq ToSet(list') \cup InHands \cup InUpdate(u)', InAll(u)'
          PROVE  G
          BY <2>1, <3>2, <3>4 DEF KnownTo
    <3>5. ASSUME UNCHANGED <<rows, list>>, upd'[u].pc \notin {"append", "delete", "apply", "clean"},
                 upd[u].pc \notin {"append", "delete", "apply", "clean"}
          PROVE  G
          BY <3>3, <3>4, <3>5 DEF InUpdate, InAll
    <3>6. CASE FetchFails(u) BY <1>0, <3>5, <3>6, GotoChanges DEF FetchFails, Phases
    <3>7. CASE Fetched(u) BY <1>0, <3>5, <3>7, GotoChanges DEF Fetched, Phases, Save
    <3>8. CASE ReadOld(u)
      <4>1. upd[u].pc = "read" /\ UNCHANGED <<rows, list>> BY <3>8 DEF ReadOld
      <4> QED BY <1>0, <3>5, <3>8, <4>1, ReadOldChanges
    <3>9. CASE ClearOld(u) BY <3>9 DEF ClearOld
    <3>10. ASSUME NEW remote \in Remotes, Parse(u, remote) PROVE G
      <4>1. UNCHANGED <<rows, list>> /\ upd[u].pc = "parse" BY <3>10 DEF Parse
      <4>2. upd'[u].pc \in {"insert", "look"} BY <1>0, <3>10, ParseChanges
      <4> QED BY <3>5, <4>1, <4>2
    <3>11. CASE InsertRows(u)
      <4>1. /\ upd[u].pc = "insert" /\ Goto(u, "append") /\ list' = list /\ rows' \subseteq rows \cup ToSet(upd[u].new)
            BY <3>11 DEF InsertRows, Inserted
      <4>2. upd'[u].pc = "append" /\ upd'[u].new = upd[u].new BY <1>0, <4>1, GotoChanges DEF Phases
      <4>3. InUpdate(u) = {} /\ InUpdate(u)' = ToSet(upd[u].new) BY <4>1, <4>2 DEF InUpdate
      <4>4. InAll(u)' BY <4>2 DEF InAll
      <4> QED BY <3>3, <3>4, <4>1, <4>3, <4>4
    <3>12. CASE AppendNew(u)
      <4>1. /\ upd[u].pc = "append" /\ Goto(u, "look") /\ list' = list \o upd[u].new /\ rows' = rows
            BY <3>12 DEF AppendNew, Save
      <4>2. upd'[u].pc = "look" BY <1>0, <4>1, GotoChanges DEF Phases
      <4>3. InUpdate(u) = ToSet(upd[u].new) BY <4>1 DEF InUpdate
      <4>4. InAll(u)' BY <4>2 DEF InAll
      <4>5. upd[u].new \in Seq(Ids \cup {NoId}) BY <1>0 DEF Types, Updates, Lists
      <4>6. ToSet(list') = ToSet(list) \cup ToSet(upd[u].new) BY <1>0, <4>1, <4>5, ConcatKnows
      <4> QED BY <3>3, <3>4, <4>1, <4>3, <4>4, <4>6
    <3>13. CASE Look(u)
      <4>1. upd[u].pc = "look" /\ UNCHANGED <<rows, list>> BY <3>13 DEF Look
      <4>2. upd'[u].pc = "apply" /\ upd'[u].all = ToSet(list) \cap rows BY <1>0, <3>13, LookChanges
      <4>3. InUpdate(u) = {} BY <4>1 DEF InUpdate
      <4>4. rows \subseteq ToSet(list) \cup InHands BY <3>3, <4>1, <4>3
      <4>5. InAll(u)' BY <2>1, <4>1, <4>2, <4>4 DEF InAll
      <4> QED BY <3>4, <4>1, <4>4, <4>5
    <3>14. CASE Apply(u)
      <4>1. upd[u].pc = "apply" /\ Goto(u, "clean") /\ rows' = rows BY <3>14 DEF Apply, Save
      <4>2. upd'[u].pc = "clean" /\ upd'[u].all = upd[u].all BY <1>0, <4>1, GotoChanges DEF Phases
      <4>3. InAll(u)' BY <2>1, <3>3, <4>1, <4>2 DEF InAll
      <4> QED BY <3>4, <4>2, <4>3
    <3>15. CASE Clean(u)
      <4>1. /\ upd'[u].pc = "delete" /\ upd'[u].del = Doomed(u) /\ rows' = rows /\ list' = list
            /\ Doomed(u) # Out(u) => "kept" \in odd'
            BY <1>0, <3>15, CleanChanges
      <4>2. upd[u].pc = "clean" BY <3>15 DEF Clean
      <4>3. Doomed(u) = upd[u].all \ ToSet(list) BY <4>1 DEF Never, Out
      <4>4. InUpdate(u)' = upd[u].all \ ToSet(list) BY <4>1, <4>3 DEF InUpdate
      <4>5. rows \subseteq upd[u].all \cup InHands BY <3>3, <4>2 DEF InAll
      <4>6. InAll(u)' BY <4>1 DEF InAll
      <4> QED BY <3>4, <4>1, <4>4, <4>5, <4>6
    <3>16. CASE DeleteRows(u)
      <4>1. upd[u].pc = "delete" /\ rows' = rows \ upd[u].del /\ list' = list BY <3>16 DEF DeleteRows
      <4>2. upd'[u] = IdleUpdate BY <1>0, <3>16, DeleteRowsChanges
      <4>3. InUpdate(u) = upd[u].del /\ InUpdate(u)' = {} /\ InAll(u)'
            BY <4>1, <4>2 DEF InUpdate, InAll, IdleUpdate
      <4> QED BY <3>3, <3>4, <4>1, <4>3
    <3> QED BY <1>4, <2>2, <3>6, <3>7, <3>8, <3>9, <3>10, <3>11, <3>12, <3>13, <3>14, <3>15, <3>16
            DEF Update, BeginUpdate, Active
  <2>3. CASE ~Active(u)
    <3>1. BeginUpdate(u) BY <2>0, <2>3 DEF Active
    <3>2. UNCHANGED <<rows, list>> /\ upd[u].pc = "idle" BY <3>1 DEF BeginUpdate
    <3>3. upd'[u].pc = "fetch" BY <1>0, <3>1, GotoChanges DEF BeginUpdate, Phases
    <3>4. \A v \in Updaters : InUpdate(v)' = InUpdate(v) BY <2>0, <3>2, <3>3 DEF InUpdate
    <3>5. \A v \in Updaters : InAll(v)' BY <1>3, <2>0, <2>1, <3>2, <3>3 DEF InAll
    <3>6. \A v \in Updaters : upd'[v].pc # "clean" => upd[v].pc # "clean" BY <2>0, <3>2
    <3> QED BY <1>3, <2>1, <3>2, <3>4, <3>5, <3>6 DEF KnownTo
  <2> QED BY <2>2, <2>3
<1>5. ASSUME upd' = upd PROVE \A u \in Updaters : InUpdate(u)' = InUpdate(u) BY <1>5 DEF InUpdate
<1>6. ASSUME upd' = upd, UNCHANGED <<rows, list, ui>> PROVE G
  <2>1. InHands' = InHands BY <1>6 DEF InHands
  <2> QED BY <1>3, <1>5, <1>6, <2>1 DEF KnownTo, InAll
<1>7. ASSUME NEW k \in Keys, AddProfile(k) PROVE G
  <2>1. /\ UNCHANGED <<upd, list>> /\ rows' \subseteq rows \cup {lastId + 1}
        /\ ui.pc = "idle" /\ ui' = [pc |-> "append", id |-> lastId + 1]
        /\ Updating => "added" \in odd'
        BY <1>7 DEF AddProfile, Inserted, Use
  <2>2. ~Updating BY <2>1 DEF Never
  <2>3. \A u \in Updaters : upd[u].pc = "idle" BY <2>2 DEF Updating
  <2>4. InHands = {} /\ InHands' = {lastId + 1} BY <2>1 DEF InHands
  <2>5. \A u \in Updaters : InAll(u)' BY <2>1, <2>3 DEF InAll
  <2> QED BY <1>3, <1>5, <2>1, <2>3, <2>4, <2>5 DEF KnownTo
<1>8. CASE AppendAdded
  <2>1. /\ ui.pc = "append" /\ ui' = IdleUi /\ list' = Append(list, ui.id) /\ UNCHANGED <<upd, rows>>
        BY <1>8 DEF AppendAdded, Save
  <2>2. ToSet(list') = ToSet(list) \cup {ui.id}
    <3>1. ui.id \in Ids \cup {NoId} BY <1>0 DEF Types, UiStates
    <3> QED BY <1>0, <2>1, <3>1, AppendKnows
  <2>3. ~Updating BY <1>2, <2>1 DEF Turns, NoneAdds
  <2>4. \A u \in Updaters : upd[u].pc = "idle" BY <2>3 DEF Updating
  <2>5. InHands = {ui.id} BY <2>1 DEF InHands
  <2>6. \A u \in Updaters : InAll(u)' BY <2>1, <2>4 DEF InAll
  <2> QED BY <1>3, <1>5, <2>1, <2>2, <2>4, <2>5, <2>6 DEF KnownTo
<1>9. ASSUME NEW i \in ToSet(list) \ {NoId}, DeleteProfile(i) PROVE G
  <2>1. /\ ui.pc = "idle" /\ ui' = [pc |-> "delete", id |-> i] /\ upd' = upd /\ Unlist({i})
        BY <1>9 DEF DeleteProfile, Use
  <2>2. InHands = {} /\ InHands' = {i} BY <2>1 DEF InHands
  <2>3. rows' = rows /\ ToSet(list) \subseteq ToSet(list') \cup {i}
    <3>1. CASE Found({i}) = {} BY <1>0, <2>1, <3>1, UnlistKnows
    <3>2. CASE Found({i}) # {}
      <4>1. rows' = rows /\ ToSet(list)' = ToSet(list) \ {i} BY <1>0, <2>1, <3>2, UnlistKnows
      <4> QED BY <4>1
    <3> QED BY <3>1, <3>2
  <2> QED BY <1>3, <1>5, <2>1, <2>2, <2>3 DEF KnownTo, InAll
<1>10. ASSUME NEW i, StartProfile(i) PROVE G BY <1>6, <1>10 DEF StartProfile
<1>11. CASE DeleteRow
  <2>1. /\ ui.pc = "delete" /\ ui' = IdleUi /\ UNCHANGED <<upd, list>> /\ rows' = rows \ {ui.id}
        BY <1>11 DEF DeleteRow
  <2>2. InHands = {ui.id} /\ InHands' = {} BY <2>1 DEF InHands, IdleUi
  <2> QED BY <1>3, <1>5, <2>1, <2>2 DEF KnownTo, InAll
<1>12. CASE DeleteGroup
  <2>1. rows' = {} BY <1>12 DEF DeleteGroup
  <2> QED BY <2>1 DEF InAll
<1>13. CASE ClearTestResults BY <1>6, <1>13 DEF ClearTestResults
<1>14. CASE SaveRows
  <2>1. UNCHANGED <<upd, list, ui>> /\ (rows' # rows => "revived" \in odd') BY <1>14 DEF SaveRows
  <2> QED BY <1>6, <2>1 DEF Never
<1>15. CASE ProcessEnds
  <2>1. /\ \A u \in Updaters : upd'[u] = IdleUpdate
        /\ list' = stored /\ UNCHANGED <<rows, stored>>
        /\ Updating \/ ui # IdleUi => "ended" \in odd'
        BY <1>15 DEF ProcessEnds
  <2>2. ~Updating /\ ui.pc = "idle" BY <2>1 DEF Never, IdleUi
  <2>3. \A u \in Updaters : upd[u].pc = "idle" BY <2>2 DEF Updating
  <2>4. rows \subseteq ToSet(list) BY <1>3, <2>2, <2>3 DEF KnownTo, InHands, InUpdate
  <2>5. rows \subseteq ToSet(stored)
    <3>1. group => list = stored BY DEF SavedIsListed
    <3>2. ~group => rows = {} BY DEF Turns, GoneIsEmpty
    <3> QED BY <2>4, <3>1, <3>2
  <2> QED BY <2>1, <2>5 DEF KnownTo, InAll, IdleUpdate
<1>16. CASE UNCHANGED vars BY <1>6, <1>16 DEF vars
<1> QED BY <1>4, <1>7, <1>8, <1>9, <1>10, <1>11, <1>12, <1>13, <1>14, <1>15, <1>16 DEF Next, User
-----------------------------------------------------------------------------
(* The running profile: only the user's deletion and the cleaning of an    *)
(* update delete rows, and both see to it first.                           *)
SparesRunning(u) == upd[u].pc = "delete" =>
  started \notin upd[u].del /\ upd[u].del \cap ToSet(list) = {}

(* Who deletes has looked at what runs, and nothing starts that is not     *)
(* listed.                                                                 *)
LEMMA RunningKeep == ASSUME Turns, OwnIds, RunningIsSpared, [Next]_vars PROVE RunningIsSpared'
<1> USE DEF store, bounds
<1>0. Types /\ AddedIsOwn /\ list \in Seq(Ids \cup {NoId}) /\ None \notin Ids
      BY GroupAssumption, Bounds DEF Turns, OwnIds, Types, Lists
<1> DEFINE G == /\ started' # None => started' \in rows'
                /\ ui'.pc = "delete" => started' # ui'.id
                /\ \A u \in Updaters : SparesRunning(u)'
<1> SUFFICES ASSUME Never({"twice"})' PROVE G BY DEF RunningIsSpared, SparesRunning
<1>1. Never({"twice"}) BY NeverStays
<1>2. /\ started # None => started \in rows
      /\ ui.pc = "delete" => started # ui.id
      /\ \A u \in Updaters : SparesRunning(u)
      BY <1>1 DEF RunningIsSpared, SparesRunning
<1>3. ASSUME NEW u \in Updaters, Update(u) PROVE G
  <2>0. /\ \A v \in Updaters \ {u} : upd'[v] = upd[v]
        /\ ui' = ui /\ (upd[u].pc = "idle" => BeginUpdate(u))
        BY <1>0, <1>3, UpdateSteps
  <2>1. CASE BeginUpdate(u)
    <3>1. upd'[u].pc = "fetch" /\ UNCHANGED <<rows, list, started>>
          BY <1>0, <2>1, GotoChanges DEF BeginUpdate, Phases
    <3> QED BY <1>2, <2>0, <3>1 DEF SparesRunning
  <2>2. ASSUME Active(u) PROVE G
    <3>1. \A v \in Updaters \ {u} : SparesRunning(v)'
          BY <1>1, <2>0, <2>2, OthersAreIdle DEF SparesRunning
    <3>2. ASSUME started' \in {started, None}, rows \subseteq rows', upd'[u].pc # "delete" PROVE G
      <4>1. ui'.pc = "delete" => started' # ui'.id
        <5>1. ui.id # None BY <1>0, GroupAssumption DEF Types, UiStates, NoId
        <5> QED BY <1>2, <2>0, <3>2, <5>1
      <4> QED BY <1>2, <3>1, <3>2, <4>1 DEF SparesRunning
    <3>3. CASE FetchFails(u) BY <1>0, <3>2, <3>3, GotoChanges DEF FetchFails, Phases
    <3>4. CASE Fetched(u) BY <1>0, <3>2, <3>4, GotoChanges DEF Fetched, Phases, Save
    <3>5. CASE ReadOld(u)
      <4>1. UNCHANGED <<rows, started>> BY <3>5 DEF ReadOld
      <4> QED BY <1>0, <3>2, <3>5, <4>1, ReadOldChanges
    <3>6. CASE ClearOld(u)
      <4>1. Goto(u, "parse") /\ rows' = rows /\ started' \in {started, None} BY <3>6 DEF ClearOld, Save, StopRunning
      <4> QED BY <1>0, <3>2, <4>1, GotoChanges DEF Phases
    <3>7. ASSUME NEW remote \in Remotes, Parse(u, remote) PROVE G
      <4>1. UNCHANGED <<rows, started>> BY <3>7 DEF Parse
      <4>2. upd'[u].pc # "delete" BY <1>0, <3>7, ParseChanges
      <4> QED BY <3>2, <4>1, <4>2
    <3>8. CASE InsertRows(u) BY <1>0, <3>2, <3>8, GotoChanges DEF InsertRows, Phases, Inserted
    <3>9. CASE AppendNew(u) BY <1>0, <3>2, <3>9, GotoChanges DEF AppendNew, Phases, Save
    <3>10. CASE Look(u)
      <4>1. UNCHANGED <<rows, started>> BY <3>10 DEF Look
      <4>2. upd'[u].pc # "delete" BY <1>0, <3>10, LookChanges DEF IdleUpdate, Types
      <4> QED BY <3>2, <4>1, <4>2
    <3>11. CASE Apply(u) BY <1>0, <3>2, <3>11, GotoChanges DEF Apply, Phases, Save
    <3>12. CASE Clean(u)
      <4>1. /\ upd'[u].pc = "delete" /\ upd'[u].del = Doomed(u) /\ rows' = rows /\ list' = list
            /\ started' = (IF allow /\ started \in Out(u) THEN None ELSE started)
            BY <1>0, <3>12, CleanChanges
      <4>2. started' \notin Doomed(u)
        <5>1. CASE allow
          <6>1. None \notin Out(u) BY <1>0 DEF Out, Types, Updates
          <6> QED BY <4>1, <5>1, <6>1 DEF Doomed
        <5>2. CASE ~allow BY <4>1, <5>2 DEF Doomed, Spared
        <5> QED BY <5>1, <5>2
      <4>3. Doomed(u) \cap ToSet(list) = {} BY DEF Doomed, Out
      <4>4. SparesRunning(u)' BY <4>1, <4>2, <4>3 DEF SparesRunning
      <4>5. ui.id # None BY <1>0, GroupAssumption DEF Types, UiStates, NoId
      <4> QED BY <1>2, <2>0, <3>1, <4>1, <4>4, <4>5
    <3>13. CASE DeleteRows(u)
      <4>1. upd[u].pc = "delete" /\ rows' = rows \ upd[u].del /\ started' = started BY <3>13 DEF DeleteRows
      <4>2. upd'[u] = IdleUpdate BY <1>0, <3>13, DeleteRowsChanges
      <4>3. started \notin upd[u].del BY <1>2, <4>1 DEF SparesRunning
      <4>4. SparesRunning(u)' BY <4>2 DEF SparesRunning, IdleUpdate
      <4> QED BY <1>2, <2>0, <3>1, <4>1, <4>3, <4>4
    <3> QED BY <1>3, <2>2, <3>3, <3>4, <3>5, <3>6, <3>7, <3>8, <3>9, <3>10, <3>11, <3>12, <3>13
            DEF Update, BeginUpdate, Active
  <2> QED BY <2>0, <2>1, <2>2 DEF Active
<1>4. ASSUME upd' = upd, started' = started, ToSet(list') \subseteq ToSet(list)
      PROVE \A u \in Updaters : SparesRunning(u)'
      BY <1>2, <1>4 DEF SparesRunning
<1>5. ASSUME NEW k \in Keys, AddProfile(k) PROVE G
  <2>1. UNCHANGED <<upd, list, started>> /\ rows \subseteq rows' /\ ui'.pc = "append"
        BY <1>5 DEF AddProfile, Inserted
  <2> QED BY <1>2, <1>4, <2>1
<1>6. CASE AppendAdded
  <2>1. /\ ui.pc = "append" /\ ui' = IdleUi /\ list' = Append(list, ui.id) /\ UNCHANGED <<upd, rows, started>>
        BY <1>6 DEF AppendAdded, Save
  <2>2. ToSet(list') = ToSet(list) \cup {ui.id}
    <3>1. ui.id \in Ids \cup {NoId} BY <1>0 DEF Types, UiStates
    <3> QED BY <1>0, <2>1, <3>1, AppendKnows
  <2>3. \A u \in Updaters : ui.id \notin upd[u].del BY <1>0, <2>1 DEF AddedIsOwn, Has
  <2>4. \A u \in Updaters : SparesRunning(u)' BY <1>2, <2>1, <2>2, <2>3 DEF SparesRunning
  <2> QED BY <1>2, <2>1, <2>4 DEF IdleUi
<1>7. ASSUME NEW i \in ToSet(list) \ {NoId}, DeleteProfile(i) PROVE G
  <2>1. /\ ui' = [pc |-> "delete", id |-> i] /\ upd' = upd /\ Unlist({i})
        /\ started' = IF started = i THEN None ELSE started
        BY <1>7 DEF DeleteProfile, StopRunning
  <2>2. ToSet(list)' \subseteq ToSet(list) /\ rows' = rows BY <1>0, <2>1, UnlistKnows
  <2>3. i \in Ids BY <1>0, MembersOfSeq
  <2>4. \A u \in Updaters : None \notin upd[u].del BY <1>0 DEF Types, Updates
  <2>5. \A u \in Updaters : SparesRunning(u)' BY <1>2, <2>1, <2>2, <2>4 DEF SparesRunning
  <2> QED BY <1>0, <1>2, <2>1, <2>2, <2>3, <2>5
<1>8. ASSUME NEW i \in ToSet(list) \ {NoId}, StartProfile(i) PROVE G
  <2>1. started' = i /\ i \in rows /\ ui.pc = "idle" /\ UNCHANGED <<upd, ui, rows, list>>
        BY <1>8 DEF StartProfile, Use
  <2>2. \A u \in Updaters : SparesRunning(u)' BY <1>2, <2>1 DEF SparesRunning
  <2> QED BY <2>1, <2>2
<1>9. CASE DeleteRow
  <2>1. /\ ui.pc = "delete" /\ ui' = IdleUi /\ UNCHANGED <<upd, list, started>> /\ rows' = rows \ {ui.id}
        BY <1>9 DEF DeleteRow
  <2> QED BY <1>2, <1>4, <2>1 DEF IdleUi
<1>10. CASE DeleteGroup
  <2>1. ui.pc = "idle" /\ UNCHANGED <<upd, list, ui>> /\ started' = None BY <1>10 DEF DeleteGroup, Use
  <2>2. \A u \in Updaters : None \notin upd[u].del BY <1>0 DEF Types, Updates
  <2>3. \A u \in Updaters : SparesRunning(u)' BY <1>2, <2>1, <2>2 DEF SparesRunning
  <2> QED BY <2>1, <2>3
<1>11. CASE ClearTestResults BY <1>2, <1>4, <1>11 DEF ClearTestResults
<1>12. CASE SaveRows
  <2>1. UNCHANGED <<upd, list, ui, started>> /\ rows \subseteq rows' BY <1>12 DEF SaveRows, Inserted
  <2> QED BY <1>2, <1>4, <2>1
<1>13. CASE ProcessEnds
  <2>1. started' = None /\ ui' = IdleUi /\ \A u \in Updaters : upd'[u] = IdleUpdate BY <1>13 DEF ProcessEnds
  <2> QED BY <2>1 DEF SparesRunning, IdleUpdate, IdleUi
<1>14. CASE UNCHANGED vars BY <1>2, <1>4, <1>14 DEF vars
<1> QED BY <1>3, <1>5, <1>6, <1>7, <1>8, <1>9, <1>10, <1>11, <1>12, <1>13, <1>14 DEF Next, User
-----------------------------------------------------------------------------
(* Nothing is listed twice, even when updates overlap.                     *)
KeysDiffer(u) == \A n, m \in DOMAIN upd[u].new :
  /\ upd[u].new[n] # NoId
  /\ key[upd[u].new[n]] = key[upd[u].new[m]] => n = m

(* The order of a subscription without repetition has none either: an old  *)
(* profile stands for the one new profile of its key.                      *)
LEMMA OrderIsInjective ==
  ASSUME Types, OldIsNotNew, NEW u \in Updaters, KeysDiffer(u)
  PROVE  IsInjective(RemoteOrder(u))
<1> DEFINE new == upd[u].new
<1>1. new \in Seq(Ids \cup {NoId}) BY DEF Types, Updates, Lists
<1>2. \A n \in DOMAIN new : new[n] \in Ids /\ new[n] \in ToSet(new)
  <2> HIDE DEF new
  <2>1. \A n \in DOMAIN new : new[n] \in Ids \cup {NoId} BY <1>1, LenProperties, ElementOfSeq
  <2>2. \A n \in DOMAIN new : new[n] # NoId BY DEF KeysDiffer, new
  <2> QED BY <2>1, <2>2 DEF ToSet
<1>3. /\ DOMAIN RemoteOrder(u) = DOMAIN new
      /\ \A n \in DOMAIN new : RemoteOrder(u)[n] = Kept(u, new[n])
      BY OrderIsOfOldAndNew
<1>4. \A n \in DOMAIN new : /\ Kept(u, new[n]) \in {new[n]} \cup ToSet(upd[u].old)
                            /\ KeyOf(Kept(u, new[n])) = key[new[n]]
  <2>1. NoId \notin Ids BY Bounds DEF NoId
  <2>2. \A n \in DOMAIN new : KeyOf(new[n]) = key[new[n]] BY <1>2, <2>1 DEF KeyOf
  <2> HIDE DEF new
  <2> QED BY <1>2, <2>2, KeptIsOldOrNew
<1> SUFFICES ASSUME NEW n \in DOMAIN new, NEW m \in DOMAIN new, Kept(u, new[n]) = Kept(u, new[m])
             PROVE  n = m
    BY <1>3 DEF IsInjective
<1>5. key[new[n]] = key[new[m]] BY <1>4
<1> QED BY <1>5 DEF KeysDiffer

(* Each list an update or the user writes is without repetition.           *)
LEMMA ListsKeep == ASSUME Turns, OwnIds, ListsAreInjective, [Next]_vars PROVE ListsAreInjective'
<1> USE DEF store, bounds
<1>0. Types /\ Begins /\ KnownIsHanded /\ AddedIsOwn /\ NewIsOwn /\ OldIsNotNew BY DEF Turns, OwnIds
<1> DEFINE G == IsInjective(list') /\ IsInjective(stored') /\ \A u \in Updaters : KeysDiffer(u)'
<1> SUFFICES ASSUME Never({"same", "gone"})' PROVE G BY DEF ListsAreInjective, KeysDiffer
<1>1. Never({"same", "gone"}) /\ Never({"gone"})
  <2>1. Never({"same", "gone"}) BY NeverStays
  <2> QED BY <2>1 DEF Never
<1>2. IsInjective(list) /\ IsInjective(stored) /\ \A u \in Updaters : KeysDiffer(u)
      BY <1>1 DEF ListsAreInjective, KeysDiffer
<1>3. /\ list \in Seq(Ids \cup {NoId}) /\ \A u \in Updaters : upd[u].new \in Seq(Ids \cup {NoId})
      /\ lastId \in Nat
      BY <1>0 DEF Types, Updates, Lists
<1>4. ASSUME NEW u \in Updaters, \A i \in Ids : i <= lastId => key'[i] = key[i], upd'[u].new = upd[u].new
      PROVE  KeysDiffer(u)'
  <2>1. ASSUME NEW n \in DOMAIN upd[u].new PROVE key'[upd[u].new[n]] = key[upd[u].new[n]]
    <3>1. upd[u].new[n] # NoId BY <1>2 DEF KeysDiffer
    <3>2. upd[u].new[n] \in Ids \cup {NoId} BY <1>3, LenProperties, ElementOfSeq
    <3>3. upd[u].new[n] \in Handed BY <1>0 DEF KnownIsHanded, Has, ToSet
    <3>4. upd[u].new[n] <= lastId BY <3>3 DEF Handed
    <3> QED BY <1>4, <3>1, <3>2, <3>4
  <2> QED BY <1>2, <1>4, <2>1 DEF KeysDiffer
<1>5. ASSUME upd' = upd, key' = key PROVE \A u \in Updaters : KeysDiffer(u)' BY <1>4, <1>5
<1>6. ASSUME NEW ids, list' \in {list, Without(list, ids)} PROVE IsInjective(list')
      BY <1>2, <1>3, <1>6, WithoutProperties
<1>7. ASSUME NEW u \in Updaters, Update(u) PROVE G
  <2>0. /\ \A v \in Updaters \ {u} : upd'[v] = upd[v]
        /\ (upd[u].pc = "idle" => BeginUpdate(u))
        BY <1>0, <1>7, UpdateSteps
  <2>1. ASSUME key' = key, upd'[u].new = upd[u].new PROVE \A v \in Updaters : KeysDiffer(v)'
        BY <1>4, <2>0, <2>1
  <2>2. CASE BeginUpdate(u) BY <1>0, <1>2, <2>1, <2>2, GotoChanges DEF BeginUpdate, Phases
  <2>3. CASE FetchFails(u) BY <1>0, <1>2, <2>1, <2>3, GotoChanges DEF FetchFails, Phases
  <2>4. CASE Fetched(u) BY <1>0, <1>2, <2>1, <2>4, GotoChanges DEF Fetched, Phases, Save, SaveToDatabase
  <2>5. CASE ReadOld(u)
    <3>1. UNCHANGED <<list, stored, key>> BY <2>5 DEF ReadOld
    <3> QED BY <1>0, <1>2, <2>1, <2>5, <3>1, ReadOldChanges
  <2>6. CASE ClearOld(u)
    <3>1. Goto(u, "parse") /\ key' = key BY <2>6 DEF ClearOld, Save
    <3>2. \/ list' = << >> /\ stored' = << >>
          \/ (\E ids : list' = Without(list, ids)) /\ stored' = stored
          BY <2>6 DEF ClearOld, Save, SaveToDatabase
    <3>3. IsInjective(list') /\ IsInjective(stored') BY <1>2, <1>6, <3>2, EmptyKnows
    <3> QED BY <1>0, <2>1, <3>1, <3>3, GotoChanges DEF Phases
  <2>7. ASSUME NEW remote \in Remotes, Parse(u, remote) PROVE G
    <3>1. UNCHANGED <<list, stored>> /\ upd[u].pc = "parse" BY <2>7 DEF Parse
    <3>2. group BY <1>1, <3>1 DEF Turns, GoneIsIdle, Updating
    <3>3. /\ DOMAIN upd'[u].new = 1 .. Len(remote) /\ DOMAIN remote = 1 .. Len(remote)
          /\ \A n \in 1 .. Len(remote) : upd'[u].new[n] = lastId + n
          /\ \A n \in 1 .. Len(remote) : key'[lastId + n] = remote[n]
          /\ \A i \in Ids : i <= lastId => key'[i] = key[i]
          /\ ~IsInjective(remote) => "same" \in odd'
          BY <1>0, <2>7, <3>2, ParseChanges
    <3>4. IsInjective(remote) BY <3>3 DEF Never
    <3>5. KeysDiffer(u)'
      <4> SUFFICES ASSUME NEW n \in 1 .. Len(remote), NEW m \in 1 .. Len(remote)
                   PROVE  /\ upd'[u].new[n] # NoId
                          /\ key'[upd'[u].new[n]] = key'[upd'[u].new[m]] => n = m
          BY <3>3 DEF KeysDiffer
      <4>1. upd'[u].new[n] = lastId + n /\ upd'[u].new[m] = lastId + m BY <3>3
      <4>2. key'[lastId + n] = remote[n] /\ key'[lastId + m] = remote[m] BY <3>3
      <4>3. lastId + n # NoId BY <1>3 DEF NoId
      <4> QED BY <3>3, <3>4, <4>1, <4>2, <4>3 DEF IsInjective
    <3>6. \A v \in Updaters \ {u} : KeysDiffer(v)' BY <1>4, <2>0, <3>3
    <3> QED BY <1>2, <3>1, <3>5, <3>6
  <2>8. CASE InsertRows(u) BY <1>0, <1>2, <2>1, <2>8, GotoChanges DEF InsertRows, Phases
  <2>9. CASE AppendNew(u)
    <3>1. /\ upd[u].pc = "append" /\ Goto(u, "look") /\ key' = key /\ list' = list \o upd[u].new /\ stored' = list'
          BY <2>9 DEF AppendNew, Save, SaveToDatabase
    <3>2. IsInjective(upd[u].new) /\ ToSet(list) \cap ToSet(upd[u].new) = {} BY <1>0, <3>1 DEF NewIsOwn, Adds
    <3>3. IsInjective(list') BY <1>2, <1>3, <3>1, <3>2, ConcatKnows
    <3> QED BY <1>0, <2>1, <3>1, <3>3, GotoChanges DEF Phases
  <2>10. CASE Look(u)
    <3>1. UNCHANGED <<list, stored, key>> BY <2>10 DEF Look
    <3>2. CASE clear
      <4>1. upd'[u].new = << >> BY <1>0, <2>10, <3>2, LookChanges DEF IdleUpdate
      <4>2. KeysDiffer(u)' BY <4>1 DEF KeysDiffer
      <4>3. \A v \in Updaters \ {u} : KeysDiffer(v)' BY <1>4, <2>0, <3>1
      <4> QED BY <1>2, <3>1, <4>2, <4>3
    <3>3. CASE ~clear BY <1>0, <1>2, <2>1, <2>10, <3>1, <3>3, LookChanges
    <3> QED BY <3>2, <3>3
  <2>11. CASE Apply(u)
    <3>1. Goto(u, "clean") /\ key' = key /\ list' = RemoteOrder(u) /\ stored' = list'
          BY <2>11 DEF Apply, Save, SaveToDatabase
    <3>2. IsInjective(list') BY <1>0, <1>2, <3>1, OrderIsInjective
    <3> QED BY <1>0, <2>1, <3>1, <3>2, GotoChanges DEF Phases
  <2>12. CASE Clean(u)
    <3>1. /\ list' = list /\ key' = key /\ (stored' = list \/ stored' = stored) /\ upd'[u].new = upd[u].new
          BY <1>0, <2>12, CleanChanges
    <3> QED BY <1>2, <2>1, <3>1
  <2>13. CASE DeleteRows(u)
    <3>1. UNCHANGED <<list, stored, key>> BY <2>13 DEF DeleteRows
    <3>2. upd'[u].new = << >> BY <1>0, <2>13, DeleteRowsChanges DEF IdleUpdate
    <3>3. KeysDiffer(u)' BY <3>2 DEF KeysDiffer
    <3>4. \A v \in Updaters \ {u} : KeysDiffer(v)' BY <1>4, <2>0, <3>1
    <3> QED BY <1>2, <3>1, <3>3, <3>4
  <2> QED BY <1>7, <2>2, <2>3, <2>4, <2>5, <2>6, <2>7, <2>8, <2>9, <2>10, <2>11, <2>12, <2>13 DEF Update
<1>8. ASSUME NEW k \in Keys, AddProfile(k) PROVE G
  <2>1. /\ UNCHANGED <<upd, list, stored>> /\ key' = [key EXCEPT ![lastId + 1] = k] BY <1>8 DEF AddProfile
  <2>2. ASSUME NEW i \in Ids, i <= lastId PROVE key'[i] = key[i]
    <3>1. i # lastId + 1 BY <1>3, <2>2, Bounds
    <3>2. key \in [Ids -> Keys \cup {None}] BY <1>0 DEF Types
    <3> QED BY <2>1, <3>1, <3>2
  <2> QED BY <1>2, <1>4, <2>1, <2>2
<1>9. CASE AppendAdded
  <2>1. /\ ui.pc = "append" /\ list' = Append(list, ui.id) /\ stored' = list' /\ UNCHANGED <<upd, key>>
        BY <1>9 DEF AppendAdded, Save, SaveToDatabase
  <2>2. ui.id \in Ids /\ ui.id \notin ToSet(list) BY <1>0, <2>1 DEF AddedIsOwn
  <2>3. IsInjective(list') BY <1>2, <1>3, <2>1, <2>2, AppendKnows
  <2> QED BY <1>5, <2>1, <2>3
<1>10. ASSUME NEW i, DeleteProfile(i) PROVE G
  <2>1. upd' = upd /\ Unlist({i}) BY <1>10 DEF DeleteProfile
  <2>2. key' = key /\ list' \in {list, Without(list, {i})} /\ stored' \in {stored, list'} BY <1>0, <2>1, UnlistKnows
  <2> QED BY <1>2, <1>5, <1>6, <2>1, <2>2
<1>11. ASSUME NEW i, StartProfile(i) PROVE G BY <1>2, <1>5, <1>11 DEF StartProfile
<1>12. CASE DeleteRow \/ ClearTestResults BY <1>2, <1>5, <1>12 DEF DeleteRow, ClearTestResults
<1>13. CASE DeleteGroup BY <1>2, <1>5, <1>13, EmptyKnows DEF DeleteGroup
<1>14. CASE SaveRows BY <1>2, <1>5, <1>14 DEF SaveRows
<1>15. CASE ProcessEnds
  <2>1. list' = stored /\ stored' = stored /\ \A u \in Updaters : upd'[u] = IdleUpdate BY <1>15 DEF ProcessEnds
  <2> QED BY <1>2, <2>1 DEF KeysDiffer, IdleUpdate
<1>16. CASE UNCHANGED vars BY <1>2, <1>5, <1>16 DEF vars
<1> QED BY <1>7, <1>8, <1>9, <1>10, <1>11, <1>12, <1>13, <1>14, <1>15, <1>16 DEF Next, User
-----------------------------------------------------------------------------
(* The update has the list as the subscription has it.                     *)
HasItsOwn(u) == /\ upd[u].pc = "look" => ToSet(upd[u].new) \subseteq ToSet(list) \cap rows
                /\ upd[u].pc \in {"apply", "clean", "delete"} => ToSet(upd[u].new) \subseteq upd[u].all
                /\ upd[u].pc \in {"clean", "delete"} => list = RemoteOrder(u)

(* The order depends on the keys and on what the update has read.          *)
LEMMA OrderStays ==
  ASSUME NEW u \in Updaters, key' = key,
         upd'[u].new = upd[u].new, upd'[u].old = upd[u].old, upd'[u].all = upd[u].all
  PROVE  RemoteOrder(u)' = RemoteOrder(u)
<1>1. \A i : KeyOf(i)' = KeyOf(i) BY DEF KeyOf
<1>2. ASSUME NEW i PROVE Kept(u, i)' = Kept(u, i)
  <2> DEFINE same == {m \in DOMAIN upd[u].old : KeyOf(upd[u].old[m]) = KeyOf(i)}
             then == {m \in DOMAIN upd'[u].old : KeyOf(upd[u].old[m])' = KeyOf(i)'}
  <2>1. same = then BY <1>1
  <2>2. Kept(u, i) = IF i \in upd[u].all /\ i \notin ToSet(upd[u].old) /\ same # {} THEN upd[u].old[Max(same)] ELSE i
        BY DEF Kept
  <2>3. Kept(u, i)' = IF i \in upd'[u].all /\ i \notin ToSet(upd'[u].old) /\ then # {} THEN upd'[u].old[Max(then)] ELSE i
        BY DEF Kept
  <2> HIDE DEF same, then
  <2> QED BY <2>1, <2>2, <2>3
<1> QED BY <1>2 DEF RemoteOrder

(* From the insertion to the order, what is new in an update stays listed. *)
LEMMA NewIsKeptKeep == ASSUME Turns, OwnIds, RowsOfListed, NewIsKept, [Next]_vars PROVE NewIsKept'
<1> USE DEF store, bounds
<1>0. Types /\ Begins /\ KnownIsHanded /\ AddedIsOwn /\ NewIsOwn /\ OldIsNotNew BY DEF Turns, OwnIds
<1> SUFFICES ASSUME Never({"twice", "gone", "added", "deleted"})'
             PROVE  \A u \in Updaters : HasItsOwn(u)'
    BY DEF NewIsKept, HasItsOwn
<1>1. Never({"twice", "gone", "added", "deleted"}) BY NeverStays
<1>2. /\ Never({"twice"}) /\ Never({"gone"}) /\ Never({"added"}) /\ Never({"deleted"})
      /\ Never({"twice", "gone", "deleted"})
      BY <1>1 DEF Never
<1>3. \A u \in Updaters : HasItsOwn(u) BY <1>1 DEF NewIsKept, HasItsOwn
<1>4. list \in Seq(Ids \cup {NoId}) /\ \A u \in Updaters : upd[u].new \in Seq(Ids \cup {NoId})
      BY <1>0 DEF Types, Updates, Lists
<1>5. \A u \in Updaters : upd'[u].pc \notin {"look", "apply", "clean", "delete"} => HasItsOwn(u)' BY DEF HasItsOwn
<1>6. ASSUME NEW u \in Updaters, Update(u) PROVE \A v \in Updaters : HasItsOwn(v)'
  <2>0. /\ \A v \in Updaters \ {u} : upd'[v] = upd[v]
        /\ ui' = ui /\ (upd[u].pc = "idle" => BeginUpdate(u))
        BY <1>0, <1>6, UpdateSteps
  <2>1. CASE BeginUpdate(u)
    <3>1. ~Updating BY <2>1 DEF BeginUpdate, Never
    <3>2. upd'[u].pc = "fetch" BY <1>0, <2>1, GotoChanges DEF BeginUpdate, Phases
    <3>3. \A v \in Updaters \ {u} : upd'[v].pc = "idle" BY <2>0, <3>1 DEF Updating
    <3> QED BY <1>5, <3>2, <3>3
  <2>2. ASSUME Active(u) PROVE \A v \in Updaters : HasItsOwn(v)'
    <3>1. \A v \in Updaters \ {u} : upd'[v].pc = "idle" BY <1>2, <2>0, <2>2, OthersAreIdle
    <3>2. SUFFICES HasItsOwn(u)' BY <1>5, <3>1
    <3>3. group BY <1>2, <2>2 DEF Turns, GoneIsIdle, Updating, Active
    <3>4. CASE FetchFails(u) BY <1>0, <1>5, <3>4, GotoChanges DEF FetchFails, Phases
    <3>5. CASE Fetched(u) BY <1>0, <1>5, <3>5, GotoChanges DEF Fetched, Phases
    <3>6. CASE ReadOld(u) BY <1>0, <1>5, <3>6, ReadOldChanges
    <3>7. CASE ClearOld(u)
      <4>1. Goto(u, "parse") BY <3>7 DEF ClearOld
      <4> QED BY <1>0, <1>5, <4>1, GotoChanges DEF Phases
    <3>8. ASSUME NEW remote \in Remotes, Parse(u, remote) PROVE HasItsOwn(u)'
      <4>1. /\ upd'[u].pc = (IF group /\ Len(remote) > 0 THEN "insert" ELSE "look")
            /\ Len(remote) \in Nat /\ DOMAIN upd'[u].new = 1 .. Len(remote)
            BY <1>0, <3>8, ParseChanges
      <4>2. CASE Len(remote) > 0 BY <1>5, <3>3, <4>1, <4>2
      <4>3. CASE Len(remote) = 0
        <5>1. ToSet(upd'[u].new) = {} /\ upd'[u].pc = "look" BY <4>1, <4>3 DEF ToSet
        <5> QED BY <5>1 DEF HasItsOwn
      <4> QED BY <4>1, <4>2, <4>3
    <3>9. CASE InsertRows(u) BY <1>0, <1>5, <3>9, GotoChanges DEF InsertRows, Phases
    <3>10. CASE AppendNew(u)
      <4>1. /\ upd[u].pc = "append" /\ Goto(u, "look") /\ list' = list \o upd[u].new /\ rows' = rows
            BY <3>10 DEF AppendNew, Save
      <4>2. ToSet(upd[u].new) \subseteq rows BY <1>2, <4>1 DEF RowsOfListed
      <4>3. ToSet(list') = ToSet(list) \cup ToSet(upd[u].new) BY <1>4, <4>1, ConcatKnows
      <4>4. upd'[u].pc = "look" /\ upd'[u].new = upd[u].new BY <1>0, <4>1, GotoChanges DEF Phases
      <4> QED BY <4>1, <4>2, <4>3, <4>4 DEF HasItsOwn
    <3>11. CASE Look(u)
      <4>1. upd[u].pc = "look" BY <3>11 DEF Look
      <4>2. CASE clear BY <1>0, <1>5, <3>11, <4>2, LookChanges DEF IdleUpdate
      <4>3. CASE ~clear BY <1>0, <1>3, <3>11, <4>1, <4>3, LookChanges DEF HasItsOwn
      <4> QED BY <4>2, <4>3
    <3>12. CASE Apply(u)
      <4>1. upd[u].pc = "apply" /\ Goto(u, "clean") /\ list' = RemoteOrder(u) /\ key' = key
            BY <3>12 DEF Apply, Save
      <4>2. /\ upd'[u].pc = "clean" /\ upd'[u].new = upd[u].new /\ upd'[u].old = upd[u].old /\ upd'[u].all = upd[u].all
            BY <1>0, <4>1, GotoChanges DEF Phases
      <4>3. RemoteOrder(u)' = RemoteOrder(u) BY <4>1, <4>2, OrderStays
      <4> QED BY <1>3, <4>1, <4>2, <4>3 DEF HasItsOwn
    <3>13. CASE Clean(u)
      <4>1. upd[u].pc = "clean" BY <3>13 DEF Clean
      <4>2. /\ upd'[u].pc = "delete" /\ upd'[u].new = upd[u].new /\ upd'[u].old = upd[u].old
            /\ upd'[u].all = upd[u].all /\ list' = list /\ key' = key
            BY <1>0, <3>13, CleanChanges
      <4>3. RemoteOrder(u)' = RemoteOrder(u) BY <4>2, OrderStays
      <4> QED BY <1>3, <4>1, <4>2, <4>3 DEF HasItsOwn
    <3>14. CASE DeleteRows(u) BY <1>0, <1>5, <3>14, DeleteRowsChanges DEF IdleUpdate
    <3> QED BY <1>6, <2>2, <3>4, <3>5, <3>6, <3>7, <3>8, <3>9, <3>10, <3>11, <3>12, <3>13, <3>14
            DEF Update, BeginUpdate, Active
  <2> QED BY <2>0, <2>1, <2>2 DEF Active
<1>7. ASSUME upd' = upd, UNCHANGED <<key, list>>, rows \subseteq rows' PROVE \A u \in Updaters : HasItsOwn(u)'
  <2> TAKE u \in Updaters
  <2>1. RemoteOrder(u)' = RemoteOrder(u) BY <1>7, OrderStays
  <2> QED BY <1>3, <1>7, <2>1 DEF HasItsOwn
<1>8. ASSUME upd' = upd, ~Updating PROVE \A u \in Updaters : HasItsOwn(u)'
      BY <1>5, <1>8 DEF Updating
<1>9. ASSUME NEW k \in Keys, AddProfile(k) PROVE \A u \in Updaters : HasItsOwn(u)'
  <2>1. upd' = upd /\ (Updating => "added" \in odd') BY <1>9 DEF AddProfile
  <2> QED BY <1>8, <2>1 DEF Never
<1>10. CASE AppendAdded
  <2>1. upd' = upd /\ ui.pc = "append" BY <1>10 DEF AppendAdded
  <2>2. ~Updating BY <1>2, <2>1 DEF Turns, NoneAdds
  <2> QED BY <1>8, <2>1, <2>2
<1>11. ASSUME NEW i, DeleteProfile(i) PROVE \A u \in Updaters : HasItsOwn(u)'
  <2>1. upd' = upd /\ (Updating => "deleted" \in odd') BY <1>11 DEF DeleteProfile
  <2> QED BY <1>8, <2>1 DEF Never
<1>12. ASSUME NEW i, StartProfile(i) PROVE \A u \in Updaters : HasItsOwn(u)' BY <1>7, <1>12 DEF StartProfile
<1>13. CASE DeleteRow
  <2>1. upd' = upd /\ ui.pc = "delete" BY <1>13 DEF DeleteRow
  <2>2. ~Updating BY <1>2, <2>1 DEF Turns, NoneDeletes
  <2> QED BY <1>8, <2>1, <2>2
<1>14. CASE DeleteGroup
  <2>1. upd' = upd /\ (Updating => "gone" \in odd') BY <1>14 DEF DeleteGroup
  <2> QED BY <1>8, <2>1 DEF Never
<1>15. CASE ClearTestResults BY <1>7, <1>15 DEF ClearTestResults
<1>16. CASE SaveRows
  <2>1. UNCHANGED <<upd, key, list>> /\ rows \subseteq rows' BY <1>16 DEF SaveRows, Inserted
  <2> QED BY <1>7, <2>1
<1>17. CASE ProcessEnds
  <2>1. \A u \in Updaters : upd'[u] = IdleUpdate BY <1>17 DEF ProcessEnds
  <2> QED BY <1>5, <2>1 DEF IdleUpdate
<1>18. CASE UNCHANGED vars BY <1>7, <1>18 DEF vars
<1> QED BY <1>6, <1>9, <1>10, <1>11, <1>12, <1>13, <1>14, <1>15, <1>16, <1>17, <1>18 DEF Next, User
-----------------------------------------------------------------------------
(* The theorems.                                                           *)

IInv == /\ Turns /\ OwnIds /\ SavedIsListed /\ RowsOfListed /\ RowsAreKnown /\ RunningIsSpared
        /\ ListsAreInjective /\ NewIsKept

(* The invariant holds of the states of the group, whoever works on it.    *)
THEOREM Invariance == Spec => []IInv
<1>1. Init => IInv
  <2> SUFFICES ASSUME Init PROVE IInv OBVIOUS
  <2>1. Turns /\ OwnIds BY TurnsInitially, OwnIdsInitially
  <2>2. \A u \in Updaters : upd[u] = IdleUpdate BY DEF Init
  <2>3. SavedIsListed BY DEF SavedIsListed, Init
  <2>4. RowsOfListed BY <2>2, EmptyKnows DEF RowsOfListed, Init, IdleUpdate, IdleUi
  <2>5. RowsAreKnown BY <2>2 DEF RowsAreKnown, Init, IdleUpdate
  <2>6. RunningIsSpared BY <2>2 DEF RunningIsSpared, Init, IdleUpdate, IdleUi
  <2>7. ListsAreInjective BY <2>2, EmptyKnows DEF ListsAreInjective, Init, IdleUpdate
  <2>8. NewIsKept BY <2>2 DEF NewIsKept, IdleUpdate
  <2> QED BY <2>1, <2>3, <2>4, <2>5, <2>6, <2>7, <2>8 DEF IInv
<1>2. IInv /\ [Next]_vars => IInv'
  BY TurnsKeep, OwnIdsKeep, SavedKeep, RowsOfListedKeep, RowsAreKnownKeep, RunningKeep, ListsKeep, NewIsKeptKeep
     DEF IInv
<1> QED BY <1>1, <1>2, PTL DEF Spec

(* Rows, list and stored list agree between any two statements, whoever    *)
(* updates, adds, deletes or ends, with the exceptions each part names.    *)
THEOREM RowsAndListsAgree == Spec => []ListsAndRowsAgree
<1>1. IInv => ListsAndRowsAgree
  <2> SUFFICES ASSUME IInv PROVE ListsAndRowsAgree OBVIOUS
  <2>1. TypeOK BY TypesMean DEF IInv, Turns
  <2>2. ListedHasRow BY DEF IInv, RowsOfListed, ListedHasRow
  <2>3. NoStray
    <3> SUFFICES ASSUME Quiet, ~clear, Never({"twice", "added", "kept", "revived", "ended"}), NEW i \in rows
                 PROVE  i \in ToSet(list)
        BY DEF NoStray
    <3>1. ui.pc = "idle" /\ \A u \in Updaters : upd[u].pc = "idle" BY DEF Quiet, Updating, IdleUi
    <3> QED BY <3>1 DEF IInv, RowsAreKnown, InHands, InUpdate
  <2>4. MemoryIsStored BY DEF IInv, SavedIsListed, MemoryIsStored
  <2>5. RunningHasRow BY DEF IInv, RunningIsSpared, RunningHasRow
  <2>6. ListedOnce BY DEF IInv, ListsAreInjective, ListedOnce
  <2> QED BY <2>1, <2>2, <2>3, <2>4, <2>5, <2>6 DEF ListsAndRowsAgree
<1> QED BY Invariance, <1>1, PTL

(* What an update leaves has the keys of the subscription, in its order,   *)
(* and of what the group had with such a key one profile has stayed.       *)
THEOREM UpdatesMirror == Spec => []MirrorsRemote
<1>1. IInv => MirrorsRemote
  <2> SUFFICES ASSUME IInv, NEW u \in Updaters, upd[u].pc \in {"clean", "delete"},
                      Never({"twice", "gone", "added", "deleted"})
               PROVE  /\ [n \in DOMAIN list |-> KeyOf(list[n])]
                           = [n \in DOMAIN upd[u].new |-> KeyOf(upd[u].new[n])]
                      /\ \A i \in ToSet(upd[u].old) :
                            key[i] \in {KeyOf(j) : j \in ToSet(upd[u].new)} =>
                                \E j \in ToSet(upd[u].old) \cap ToSet(list) : key[j] = key[i]
      BY DEF MirrorsRemote
  <2> DEFINE new == upd[u].new
             old == upd[u].old
  <2>1. Types /\ list = RemoteOrder(u) /\ ToSet(new) \subseteq upd[u].all
        /\ NoId \notin ToSet(old) /\ ToSet(old) \cap ToSet(new) = {}
        BY DEF IInv, Turns, NewIsKept, OwnIds, OldIsNotNew
  <2>2. new \in Seq(Ids \cup {NoId}) /\ old \in Seq(Ids \cup {NoId}) BY <2>1 DEF Types, Updates, Lists
  <2>3. DOMAIN list = DOMAIN new /\ \A n \in DOMAIN new : list[n] = Kept(u, new[n])
        BY <2>1, OrderIsOfOldAndNew
  <2>4. \A n \in DOMAIN new : new[n] \in Ids \cup {NoId} /\ new[n] \in ToSet(new)
    <3> HIDE DEF new
    <3> QED BY <2>2, LenProperties, ElementOfSeq DEF ToSet
  <2>5. \A n \in DOMAIN new : KeyOf(list[n]) = KeyOf(new[n]) BY <2>1, <2>3, <2>4, KeptIsOldOrNew
  <2>6. ASSUME NEW i \in ToSet(old), NEW j \in ToSet(new), key[i] = KeyOf(j)
        PROVE  \E o \in ToSet(old) \cap ToSet(list) : key[o] = key[i]
    <3>1. PICK n \in DOMAIN new : j = new[n] BY <2>6 DEF ToSet
    <3>2. KeyOf(i) = key[i] BY <2>1, <2>6 DEF KeyOf
    <3>3. Kept(u, j) \in ToSet(old) /\ KeyOf(Kept(u, j)) = KeyOf(j)
      <4>1. j \in Ids \cup {NoId} /\ j \in upd[u].all /\ j \notin ToSet(old) BY <2>1, <2>4, <2>6, <3>1
      <4>2. \E o \in ToSet(old) : KeyOf(o) = KeyOf(j) BY <2>6, <3>2
      <4> QED BY <2>1, <4>1, <4>2, KeptIsOldOrNew
    <3>4. Kept(u, j) \in ToSet(list) BY <2>3, <3>1 DEF ToSet
    <3>5. key[Kept(u, j)] = KeyOf(Kept(u, j)) BY <2>1, <3>3 DEF KeyOf
    <3> QED BY <2>6, <3>3, <3>4, <3>5
  <2> HIDE DEF new, old
  <2>7. [n \in DOMAIN list |-> KeyOf(list[n])] = [n \in DOMAIN new |-> KeyOf(new[n])] BY <2>3, <2>5
  <2> QED BY <2>6, <2>7 DEF new, old
<1> QED BY Invariance, <1>1, PTL
=============================================================================
