------------------------------ MODULE Documents ------------------------------
(* JSON objects, link queries, Clash mappings and the profiles parsed from     *)
(* them, all as partial functions from a key to a value.  A value is a string  *)
(* (numbers and booleans are written as text) or another document.  An absent  *)
(* key of a profile is a field that is empty, zero or false; tri-state fields  *)
(* are absent for "keep default".                                              *)
EXTENDS Naturals, Sequences, TLC

Empty == [k \in {} |-> ""]
Unset == {"", "0", "false"}

Has(d, k) == k \in DOMAIN d
Str(d, k) == IF Has(d, k) THEN d[k] ELSE ""
Obj(d, k) == IF Has(d, k) THEN d[k] ELSE Empty
List(d, k) == IF Has(d, k) THEN d[k] ELSE << >>
IsOn(d, k) == Str(d, k) = "true"

\* What a guarded assignment contributes to an object.
When(c, d) == IF c THEN d ELSE Empty
Put(k, v) == When(v \notin Unset, k :> v)
PutObj(k, d) == When(DOMAIN d # {}, k :> d)
PutList(k, l) == When(l # << >>, k :> l)
Without(d, K) == [k \in DOMAIN d \ K |-> d[k]]

\* Tables from the fields of a profile to the keys of a document.
Same(F) == [f \in F |-> f]

(* One "if (!field.isEmpty()) object[key] = field" per entry of the table. *)
Write(o, table) ==
  LET fields == DOMAIN table \cap DOMAIN o
  IN  [k \in {table[f] : f \in fields} |-> o[CHOOSE f \in fields : table[f] = k]]

(* One "if (object.contains(key)) field = object[key]" per entry; "fresh" is a *)
(* new profile with the initial values of its class.                           *)
Read(d, table, fresh) ==
  LET given == {f \in DOMAIN table : Has(d, table[f])}
  IN  [f \in {g \in given : d[table[g]] \notin Unset} |-> d[table[f]]]
      @@ Without(fresh, given)

\* A tri-state: omitted for "keep default", else On or Off.
ReadTri(d, k, f) == When(Has(d, k), f :> (IF IsOn(d, k) THEN "true" ELSE "false"))

\* The last of the keys that is given decides, also when it says false.
LastOf(d, keys) ==
  LET given == {i \in DOMAIN keys : Has(d, keys[i])}
  IN  IF given = {} THEN ""
      ELSE d[keys[CHOOSE i \in given : \A j \in given : j <= i]]

\* Header lists: name, value, name, value ...
jsonObjectToQStringList(d) ==
  LET f[S \in SUBSET DOMAIN d] ==
        IF S = {} THEN << >>
        ELSE LET k == CHOOSE k \in S : TRUE IN <<k, d[k]>> \o f[S \ {k}]
  IN  f[DOMAIN d]

qStringListToJsonObject(l) ==
  LET names == {i \in DOMAIN l : i % 2 = 1}
  IN  IF Len(l) % 2 = 1 THEN Empty
      ELSE [k \in {l[i] : i \in names} |->
              l[1 + CHOOSE i \in names : l[i] = k /\ \A j \in names : l[j] = k => j <= i]]

\* A text with and without a colon; DecodeB64IfValid of a text that is base64.
Pair == "left:right"
SubStrBefore(v) == IF v = Pair THEN "left" ELSE v
SubStrAfter(v) == IF v = Pair THEN "right" ELSE v
Join(a, b) == IF a = "left" /\ b = "right" THEN Pair ELSE a \o ":" \o b
DecodeB64IfValid(v) ==
  CASE v = "b64pair" -> Pair
    [] v = "b64word" -> "word"
    [] OTHER -> ""
==============================================================================
