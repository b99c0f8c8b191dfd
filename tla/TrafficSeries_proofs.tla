------------------------ MODULE TrafficSeries_proofs ------------------------
(***************************************************************************)
(* Proofs about the traffic history, for every number of threads, names,   *)
(* minutes and failures: its types, that every credited byte stays in its  *)
(* minute, that the two tiers add up to one history, and that the history  *)
(* implements the ledger its readers are promised.                         *)
(***************************************************************************)
EXTENDS TrafficSeries, FiniteSetTheorems, WellFoundedInduction, TLAPS

-----------------------------------------------------------------------------
(* Sums over finite sets.  Folds.tla defines them by recursion over the    *)
(* set; what is known of them is proved here by induction over its size.   *)

(* Induction over the natural numbers, for a set: from the well-           *)
(* foundedness of <.                                                       *)
LEMMA NatInd ==
  ASSUME NEW T \in SUBSET Nat, 0 \in T, \A n \in T : n + 1 \in T
  PROVE  T = Nat
<1> DEFINE less == {ss \in Nat \X Nat : ss[1] < ss[2]}
<1>1. SUFFICES ASSUME Nat \ T # {} PROVE FALSE
  OBVIOUS
<1>2. IsWellFoundedOn(less, Nat)
  BY NatLessThanWellFounded DEF OpToRel
<1>3. PICK x \in Nat \ T : \A y \in Nat \ T : ~(<<y, x>> \in less)
  <2> HIDE DEF less
  <2> QED BY <1>1, <1>2, WFMin
<1>4. x # 0 /\ x - 1 \in Nat
  OBVIOUS
<1>5. <<x - 1, x>> \in less
  BY <1>4
<1>6. x - 1 \in T
  BY <1>3, <1>4, <1>5
<1>7. QED
  BY <1>4, <1>6

(* Induction over the subsets of a finite set, by their cardinality.       *)
LEMMA SubsetInduction ==
  ASSUME NEW S, IsFiniteSet(S), NEW T \in SUBSET (SUBSET S),
         \A s \in SUBSET S : (\A x \in s : s \ {x} \in T) => s \in T
  PROVE  T = SUBSET S
<1> DEFINE N == {n \in Nat : \A s \in SUBSET S : Cardinality(s) = n => s \in T}
<1>1. \A s \in SUBSET S : IsFiniteSet(s) /\ Cardinality(s) \in Nat
  BY FS_Subset, FS_CardinalityType
<1>2. 0 \in N
  <2> SUFFICES ASSUME NEW s \in SUBSET S, Cardinality(s) = 0 PROVE s \in T
    OBVIOUS
  <2>1. s = {} BY <1>1, FS_EmptySet
  <2> QED BY <2>1
<1>3. ASSUME NEW n \in N PROVE n + 1 \in N
  <2> SUFFICES ASSUME NEW s \in SUBSET S, Cardinality(s) = n + 1 PROVE s \in T
    OBVIOUS
  <2>1. ASSUME NEW x \in s PROVE s \ {x} \in T
    <3>1. Cardinality(s \ {x}) = Cardinality(s) - 1 BY <1>1, FS_RemoveElement
    <3>2. n \in Nat BY <1>3
    <3>3. Cardinality(s \ {x}) = n BY <3>1, <3>2
    <3> QED BY <3>3, <1>3
  <2> QED BY <2>1
<1>4. N = Nat
  <2> HIDE DEF N
  <2>1. N \in SUBSET Nat BY DEF N
  <2> QED BY <1>2, <1>3, <2>1, NatInd
<1> QED BY <1>1, <1>4

Pick(s) == CHOOSE x \in s : TRUE
Iterates(g, f, D) == 
  g = [s \in D |-> IF s = {} THEN 0 ELSE f[Pick(s)] + g[s \ {Pick(s)}]]

(* A non-empty set gives one of its members.                               *)
LEMMA PickIn == ASSUME NEW s, s # {} PROVE Pick(s) \in s
BY DEF Pick

(* The recursive function a sum is defined by exists: the CHOOSE in        *)
(* Folds' MapThenFoldSet finds one.                                        *)
LEMMA IterationExists ==
  ASSUME NEW S, IsFiniteSet(S), NEW f
  PROVE  \E g : Iterates(g, f, SUBSET S)
<1> DEFINE Small(n) == {s \in SUBSET S : Cardinality(s) <= n}
           N == {n \in Nat : \E g : Iterates(g, f, Small(n))}
<1>1. \A s \in SUBSET S : IsFiniteSet(s) /\ Cardinality(s) \in Nat
  BY FS_Subset, FS_CardinalityType
<1>2. 0 \in N
  <2>1. \A s \in Small(0) : s = {}
    BY <1>1, FS_EmptySet
  <2>2. Iterates([s \in Small(0) |-> 0], f, Small(0))
    BY <2>1 DEF Iterates
  <2> QED BY <2>2
<1>3. ASSUME NEW n \in N PROVE n + 1 \in N
  <2>1. PICK g : Iterates(g, f, Small(n)) BY <1>3
  <2> DEFINE h == [s \in Small(n + 1) |-> IF s = {} THEN 0 ELSE f[Pick(s)] + g[s \ {Pick(s)}]]
  <2>2. ASSUME NEW s \in Small(n + 1), s # {} PROVE h[s] = f[Pick(s)] + h[s \ {Pick(s)}]
    <3> DEFINE r == s \ {Pick(s)}
    <3>1. Cardinality(r) = Cardinality(s) - 1 BY <1>1, <2>2, PickIn, FS_RemoveElement
    <3>2. r \in Small(n) /\ r \in Small(n + 1) BY <1>1, <3>1
    <3>3. h[r] = g[r]
      <4> HIDE DEF r, Small
      <4> QED BY <2>1, <3>2 DEF Iterates
    <3> QED BY <2>2, <3>3
  <2>3. \A s \in Small(n + 1) : s = {} => h[s] = 0 OBVIOUS
  <2>4. h = [s \in Small(n + 1) |-> h[s]] OBVIOUS
  <2>5. Iterates(h, f, Small(n + 1))
    <3> HIDE DEF h, Small
    <3> QED BY <2>2, <2>3, <2>4 DEF Iterates
  <2>6. n \in Nat BY <1>3
  <2> HIDE DEF h, Small
  <2>7. \E k : Iterates(k, f, Small(n + 1)) BY <2>5
  <2> QED BY <2>6, <2>7
<1>4. N = Nat
  <2> HIDE DEF N
  <2>1. N \in SUBSET Nat BY DEF N
  <2> QED BY <1>2, <1>3, <2>1, NatInd
<1>5. SUBSET S = Small(Cardinality(S))
  BY <1>1, FS_Subset
<1>6. Cardinality(S) \in N BY <1>1, <1>4
<1> QED BY <1>5, <1>6

(* So the sum is the value of such a function.                             *)
LEMMA SumIsIterated ==
  ASSUME NEW S, IsFiniteSet(S), NEW f
  PROVE  \E h : Iterates(h, f, SUBSET S) /\ SumOver(S, f) = h[S]
<1>1. \E g : Iterates(g, f, SUBSET S) BY IterationExists
<1> DEFINE h == CHOOSE g : Iterates(g, f, SUBSET S)
<1>2. Iterates(h, f, SUBSET S) BY <1>1
<1>3. SumOver(S, f) = h[S]
  BY DEF SumOver, MapThenSumSet, MapThenFoldSet, Iterates, Pick
<1> QED BY <1>2, <1>3

(* Two of them agree on a set that both are defined for.                   *)
LEMMA IterationsAgree ==
  ASSUME NEW S, NEW R, R \subseteq S, IsFiniteSet(S), NEW f, NEW g, NEW h,
         Iterates(g, f, SUBSET S), Iterates(h, f, SUBSET R)
  PROVE  g[R] = h[R]
<1> DEFINE T == {s \in SUBSET R : g[s] = h[s]}
<1>1. ASSUME NEW s \in SUBSET R, \A x \in s : s \ {x} \in T PROVE s \in T
  <2>1. CASE s = {} BY <2>1 DEF Iterates
  <2>2. CASE s # {}
    <3>1. s \ {Pick(s)} \in T BY <1>1, <2>2, PickIn
    <3>2. g[s \ {Pick(s)}] = h[s \ {Pick(s)}] BY <3>1
    <3>3. g[s] = f[Pick(s)] + g[s \ {Pick(s)}] BY <2>2 DEF Iterates
    <3>4. h[s] = f[Pick(s)] + h[s \ {Pick(s)}] BY <2>2 DEF Iterates
    <3> QED BY <3>2, <3>3, <3>4
  <2> QED BY <2>1, <2>2
<1>2. T = SUBSET R
  <2> HIDE DEF T
  <2>1. T \in SUBSET (SUBSET R) /\ IsFiniteSet(R) BY FS_Subset DEF T
  <2> QED BY <1>1, <2>1, SubsetInduction
<1> QED BY <1>2

(* A sum of nothing.                                                       *)
LEMMA SumOfEmpty == ASSUME NEW f PROVE SumOver({}, f) = 0
BY SumIsIterated, FS_EmptySet DEF Iterates

(* A sum without the member it starts with.                                *)
LEMMA SumPick ==
  ASSUME NEW S, IsFiniteSet(S), S # {}, NEW f
  PROVE  SumOver(S, f) = f[Pick(S)] + SumOver(S \ {Pick(S)}, f)
<1> DEFINE R == S \ {Pick(S)}
<1>1. IsFiniteSet(R) BY FS_Subset
<1>2. PICK g : Iterates(g, f, SUBSET S) /\ SumOver(S, f) = g[S] BY SumIsIterated
<1>3. PICK h : Iterates(h, f, SUBSET R) /\ SumOver(R, f) = h[R] BY <1>1, SumIsIterated
<1>4. g[R] = h[R]
  <2>1. R \subseteq S OBVIOUS
  <2> HIDE DEF R
  <2> QED BY <1>2, <1>3, <2>1, IterationsAgree
<1>5. g[S] = f[Pick(S)] + g[R] BY <1>2 DEF Iterates
<1> QED BY <1>2, <1>3, <1>4, <1>5

(* A sum of numbers is a number.                                           *)
LEMMA SumType ==
  ASSUME NEW S, IsFiniteSet(S), NEW f, \A x \in S : f[x] \in Nat
  PROVE  SumOver(S, f) \in Nat
<1> DEFINE T == {s \in SUBSET S : SumOver(s, f) \in Nat}
<1>1. ASSUME NEW s \in SUBSET S, \A x \in s : s \ {x} \in T PROVE s \in T
  <2>1. CASE s = {} BY <2>1, SumOfEmpty
  <2>2. CASE s # {}
    <3>1. Pick(s) \in s BY <2>2, PickIn
    <3>2. SumOver(s, f) = f[Pick(s)] + SumOver(s \ {Pick(s)}, f) BY <2>2, FS_Subset, SumPick
    <3> QED BY <1>1, <3>1, <3>2
  <2> QED BY <2>1, <2>2
<1>2. T = SUBSET S
  <2> HIDE DEF T
  <2>1. T \in SUBSET (SUBSET S) BY DEF T
  <2> QED BY <1>1, <2>1, SubsetInduction
<1> QED BY <1>2

(* A sum without any of its terms.                                         *)
LEMMA SumRemove ==
  ASSUME NEW S, IsFiniteSet(S), NEW f, \A x \in S : f[x] \in Nat, NEW e \in S
  PROVE  SumOver(S, f) = f[e] + SumOver(S \ {e}, f)
<1> DEFINE T == {s \in SUBSET S : \A x \in s : SumOver(s, f) = f[x] + SumOver(s \ {x}, f)}
<1>1. ASSUME NEW s \in SUBSET S, \A x \in s : s \ {x} \in T PROVE s \in T
  <2> SUFFICES ASSUME NEW x \in s PROVE SumOver(s, f) = f[x] + SumOver(s \ {x}, f)
    OBVIOUS
  <2> DEFINE p == Pick(s)
  <2>0. IsFiniteSet(s) /\ IsFiniteSet(s \ {x}) /\ IsFiniteSet((s \ {x}) \ {p})
    BY FS_Subset
  <2>1. p \in s BY PickIn
  <2>2. SumOver(s, f) = f[p] + SumOver(s \ {p}, f) BY <2>0, SumPick
  <2>3. CASE x # p
    <3>1. SumOver(s \ {p}, f) = f[x] + SumOver((s \ {p}) \ {x}, f) BY <1>1, <2>1, <2>3
    <3>2. SumOver(s \ {x}, f) = f[p] + SumOver((s \ {x}) \ {p}, f) BY <1>1, <2>1, <2>3
    <3>3. (s \ {p}) \ {x} = (s \ {x}) \ {p} OBVIOUS
    <3>4. SumOver((s \ {x}) \ {p}, f) \in Nat BY <2>0, SumType
    <3>5. f[x] \in Nat /\ f[p] \in Nat BY <2>1
    <3> HIDE DEF p
    <3> QED BY <2>2, <3>1, <3>2, <3>3, <3>4, <3>5
  <2> QED BY <2>2, <2>3
<1>2. T = SUBSET S
  <2> HIDE DEF T
  <2>1. T \in SUBSET (SUBSET S) BY DEF T
  <2> QED BY <1>1, <2>1, SubsetInduction
<1> QED BY <1>2

(* Families that agree have the same sum.                                  *)
LEMMA SumSame ==
  ASSUME NEW S, IsFiniteSet(S), NEW f, NEW g, \A x \in S : f[x] = g[x]
  PROVE  SumOver(S, f) = SumOver(S, g)
<1> DEFINE T == {s \in SUBSET S : SumOver(s, f) = SumOver(s, g)}
<1>1. ASSUME NEW s \in SUBSET S, \A x \in s : s \ {x} \in T PROVE s \in T
  <2>1. CASE s = {} BY <2>1, SumOfEmpty
  <2>2. CASE s # {}
    <3>1. Pick(s) \in s BY <2>2, PickIn
    <3>2. SumOver(s, f) = f[Pick(s)] + SumOver(s \ {Pick(s)}, f) BY <2>2, FS_Subset, SumPick
    <3>3. SumOver(s, g) = g[Pick(s)] + SumOver(s \ {Pick(s)}, g) BY <2>2, FS_Subset, SumPick
    <3>4. SumOver(s \ {Pick(s)}, f) = SumOver(s \ {Pick(s)}, g) BY <1>1, <3>1
    <3>5. f[Pick(s)] = g[Pick(s)] BY <3>1
    <3>6. SumOver(s, f) = SumOver(s, g) BY <3>2, <3>3, <3>4, <3>5
    <3> QED BY <3>6
  <2> QED BY <2>1, <2>2
<1>2. T = SUBSET S
  <2> HIDE DEF T
  <2>1. T \in SUBSET (SUBSET S) BY DEF T
  <2> QED BY <1>1, <2>1, SubsetInduction
<1> QED BY <1>2

(* The sum of two families, term by term.                                  *)
LEMMA SumPlus ==
  ASSUME NEW S, IsFiniteSet(S), NEW f, NEW g, NEW h,
         \A x \in S : f[x] \in Nat /\ g[x] \in Nat /\ h[x] = f[x] + g[x]
  PROVE  SumOver(S, h) = SumOver(S, f) + SumOver(S, g)
<1> DEFINE T == {s \in SUBSET S : SumOver(s, h) = SumOver(s, f) + SumOver(s, g)}
<1>1. ASSUME NEW s \in SUBSET S, \A x \in s : s \ {x} \in T PROVE s \in T
  <2>1. CASE s = {} BY <2>1, SumOfEmpty
  <2>2. CASE s # {}
    <3> DEFINE p == Pick(s)
               r == s \ {p}
    <3>1. p \in s BY <2>2, PickIn
    <3>2. IsFiniteSet(s) /\ IsFiniteSet(r) BY FS_Subset
    <3>3. /\ SumOver(s, f) = f[p] + SumOver(r, f)
          /\ SumOver(s, g) = g[p] + SumOver(r, g)
          /\ SumOver(s, h) = h[p] + SumOver(r, h) BY <2>2, <3>2, SumPick
    <3>4. SumOver(r, h) = SumOver(r, f) + SumOver(r, g) BY <1>1, <3>1
    <3>5. f[p] \in Nat /\ g[p] \in Nat /\ h[p] = f[p] + g[p] BY <3>1
    <3>6. SumOver(r, f) \in Nat /\ SumOver(r, g) \in Nat BY <3>2, SumType
    <3>7. SumOver(s, h) = SumOver(s, f) + SumOver(s, g)
      <4> HIDE DEF p, r
      <4> QED BY <3>3, <3>4, <3>5, <3>6
    <3> QED BY <3>7
  <2> QED BY <2>1, <2>2
<1>2. T = SUBSET S
  <2> HIDE DEF T
  <2>1. T \in SUBSET (SUBSET S) BY DEF T
  <2> QED BY <1>1, <2>1, SubsetInduction
<1> QED BY <1>2

(* Terms outside A may as well be zero. *)
LEMMA SumWhere ==
  ASSUME NEW S, IsFiniteSet(S), NEW A, A \subseteq S, NEW f, \A x \in A : f[x] \in Nat,
         NEW g, \A x \in S : g[x] = IF x \in A THEN f[x] ELSE 0
  PROVE  SumOver(S, g) = SumOver(A, f)
<1> DEFINE T == {s \in SUBSET S : SumOver(s, g) = SumOver(s \cap A, f)}
<1>1. ASSUME NEW s \in SUBSET S, \A x \in s : s \ {x} \in T PROVE s \in T
  <2>1. CASE s = {}
    <3>1. s \cap A = {} BY <2>1
    <3>2. SumOver(s, g) = SumOver(s \cap A, f) BY <2>1, <3>1, SumOfEmpty
    <3> QED BY <3>2
  <2>2. CASE s # {}
    <3> DEFINE p == Pick(s)
               r == s \ {p}
    <3>1. p \in s BY <2>2, PickIn
    <3>2. IsFiniteSet(s) /\ IsFiniteSet(r) /\ IsFiniteSet(s \cap A) /\ IsFiniteSet(r \cap A)
          BY FS_Subset
    <3>3. SumOver(s, g) = g[p] + SumOver(r, g) BY <2>2, <3>2, SumPick
    <3>4. SumOver(r, g) = SumOver(r \cap A, f) BY <1>1, <3>1
    <3>5. SumOver(r \cap A, f) \in Nat BY <3>2, SumType
    <3>6. CASE p \in A
      <4>1. p \in s \cap A /\ (s \cap A) \ {p} = r \cap A BY <3>1, <3>6
      <4>2. SumOver(s \cap A, f) = f[p] + SumOver((s \cap A) \ {p}, f)
        <5> HIDE DEF p
        <5> QED BY <3>2, <4>1, SumRemove
      <4>3. g[p] = f[p] BY <3>1, <3>6
      <4>4. SumOver(s, g) = SumOver(s \cap A, f)
        <5> HIDE DEF p, r
        <5> QED BY <3>3, <3>4, <4>1, <4>2, <4>3
      <4> QED BY <4>4
    <3>7. CASE p \notin A
      <4>1. s \cap A = r \cap A BY <3>7
      <4>2. g[p] = 0 BY <3>1, <3>7
      <4>3. SumOver(s, g) = SumOver(r \cap A, f)
        <5> HIDE DEF p, r
        <5> QED BY <3>3, <3>4, <3>5, <4>2
      <4>4. SumOver(s, g) = SumOver(s \cap A, f) BY <4>1, <4>3
      <4> QED BY <4>4
    <3> QED BY <3>6, <3>7
  <2> QED BY <2>1, <2>2
<1>2. T = SUBSET S
  <2> HIDE DEF T
  <2>1. T \in SUBSET (SUBSET S) BY DEF T
  <2> QED BY <1>1, <2>1, SubsetInduction
<1>3. S \cap A = A OBVIOUS
<1> QED BY <1>2, <1>3

(* Two families that differ in one term. *)
LEMMA SumUpdate ==
  ASSUME NEW S, IsFiniteSet(S), NEW e \in S, NEW f, NEW g,
         \A x \in S : f[x] \in Nat /\ g[x] \in Nat,
         \A x \in S \ {e} : f[x] = g[x]
  PROVE  /\ SumOver(S, f) \in Nat /\ SumOver(S, g) \in Nat
         /\ SumOver(S, g) + f[e] = SumOver(S, f) + g[e]
<1>1. SumOver(S, f) \in Nat /\ SumOver(S, g) \in Nat BY SumType
<1>2. IsFiniteSet(S \ {e}) BY FS_Subset
<1>3. SumOver(S \ {e}, f) = SumOver(S \ {e}, g) BY <1>2, SumSame
<1>4. SumOver(S \ {e}, f) \in Nat BY <1>2, SumType
<1>5. SumOver(S, f) = f[e] + SumOver(S \ {e}, f) BY SumRemove
<1>6. SumOver(S, g) = g[e] + SumOver(S \ {e}, g) BY SumRemove
<1>7. f[e] \in Nat /\ g[e] \in Nat OBVIOUS
<1> QED BY <1>1, <1>3, <1>4, <1>5, <1>6, <1>7

(* Zeros add up to zero. *)
LEMMA SumOfZeros ==
  ASSUME NEW S, IsFiniteSet(S), NEW f, \A x \in S : f[x] = 0
  PROVE  SumOver(S, f) = 0
<1>1. SumOver(S, f) = SumOver({}, f)
  <2>1. \A x \in {} : f[x] \in Nat OBVIOUS
  <2>2. \A x \in S : f[x] = IF x \in {} THEN f[x] ELSE 0 OBVIOUS
  <2>3. {} \subseteq S OBVIOUS
  <2> QED BY <2>1, <2>2, <2>3, SumWhere
<1> QED BY <1>1, SumOfEmpty
-----------------------------------------------------------------------------
(* Types.                                                                  *)

(* The sets that are summed over are finite.                               *)
LEMMA Finite ==
  /\ IsFiniteSet(Threads) /\ IsFiniteSet(Minutes)
  /\ \A h : IsFiniteSet(MinutesOf(h)) /\ MinutesOf(h) \subseteq Minutes
<1>1. IsFiniteSet(Threads) BY SeriesAssumption, FS_AddElement DEF Threads
<1>2. IsFiniteSet(Minutes) BY SeriesAssumption, FS_Interval DEF Minutes
<1>3. \A h : MinutesOf(h) \subseteq Minutes BY DEF MinutesOf
<1> QED BY <1>1, <1>2, <1>3, FS_Subset

(* A column of a table of rows adds up to a number, in whole or in part.   *)
LEMMA ColumnAddsUp ==
  ASSUME NEW minutes \in [Minutes -> Rows], NEW n \in Names, NEW S, S \subseteq Minutes
  PROVE  /\ \A m \in Minutes : Column(minutes, n)[m] = minutes[m][n] /\ minutes[m][n] \in Nat
         /\ SumOver(S, Column(minutes, n)) \in Nat
<1>1. \A m \in Minutes : Column(minutes, n)[m] = minutes[m][n] /\ minutes[m][n] \in Nat
      BY DEF Column, Rows
<1>2. \A m \in S : Column(minutes, n)[m] \in Nat BY <1>1
<1>3. IsFiniteSet(S) BY Finite, FS_Subset
<1> QED BY <1>1, <1>2, <1>3, SumType

Tiers == [minute : [Minutes -> Rows], hour : [Hours -> Rows]]
Calls == [pc : {"idle", "timed", "config", "app"}, at : Minutes,
          name : Names \cup {None}, rows : Rows]
Transaction == {"configs up", "configs out", "apps up", "apps out", "commit"}

Passes == [pc : Transaction \cup {"idle", "prune"}, at : Minutes, work : Tiers]

Types ==
  /\ now \in Minutes /\ bucket \in Minutes \cup {None} /\ accum \in Rows
  /\ thr \in [Threads -> Calls] /\ db \in Tiers /\ maint \in Passes
  /\ credited \in [Minutes -> Rows] /\ wrote \in [Minutes -> Rows] /\ lost \in [Minutes -> Rows]
  /\ fails \in 0 .. MaxTrouble /\ ends \in 0 .. MaxTrouble

(* A call that has its minute has its name; the maintenance pass works with *)
(* a time that is past; the accumulators are empty before the first bucket; *)
(* a call that has written its configs holds rows of apps only.             *)
Named == \A t \in Threads : thr[t].pc = "timed" => thr[t].name \in Names
PassIsPast == maint.at <= now
NoBucketNoRows == bucket = None => accum = NoRows
AppRowsOnly == \A t \in Threads : thr[t].pc = "app" => \A n \in Names \ Apps : thr[t].rows[n] = 0

TypeInv == Types /\ Named /\ PassIsPast /\ NoBucketNoRows /\ AppRowsOnly

(* These are the types TypeOK speaks of.                                   *)
LEMMA TypesMean == Types => TypeOK
BY DEF Types, TypeOK, Calls, Tiers, Passes, Transaction

(* The constants and the operators on rows have their types.               *)
LEMMA RowsOf ==
  /\ NoRows \in Rows /\ NoMinutes \in [Minutes -> Rows] /\ Empty \in Tiers
  /\ Idle \in Calls
  /\ \A f, g \in Rows : Plus(f, g) \in Rows
  /\ \A S, f : f \in Rows => Only(S, f) \in Rows
<1>1. NoRows \in Rows BY DEF NoRows, Rows
<1>2. NoMinutes \in [Minutes -> Rows] BY <1>1 DEF NoMinutes
<1>3. Empty \in Tiers BY <1>1, <1>2 DEF Empty, Tiers
<1>4. 0 \in Minutes BY SeriesAssumption DEF Minutes
<1>5. Idle \in Calls BY <1>1, <1>4 DEF Idle, Calls
<1>6. \A f, g \in Rows : Plus(f, g) \in Rows BY DEF Rows, Plus
<1>7. \A S, f : f \in Rows => Only(S, f) \in Rows BY DEF Rows, Only
<1> QED BY <1>1, <1>2, <1>3, <1>5, <1>6, <1>7

(* The statements of a transaction keep the tables tables.                 *)
LEMMA StatementTypes ==
  ASSUME NEW kind, NEW w \in Tiers
  PROVE  RolledUp(kind, w) \in Tiers /\ Dropped(kind, w) \in Tiers
<1>1. w.minute \in [Minutes -> Rows] /\ w.hour \in [Hours -> Rows] BY DEF Tiers
<1>2. ASSUME NEW h \in Hours
      PROVE  [n \in Names |-> SumOver({m \in MinutesOf(h) : Old(m)}, Column(w.minute, n))] \in Rows
  <2>1. {m \in MinutesOf(h) : Old(m)} \subseteq Minutes BY DEF MinutesOf
  <2>2. \A n \in Names : SumOver({m \in MinutesOf(h) : Old(m)}, Column(w.minute, n)) \in Nat
        BY <1>1, <2>1, ColumnAddsUp
  <2> QED BY <2>2 DEF Rows
<1>3. RolledUp(kind, w) \in Tiers
  <2> DEFINE added(h) == Only(kind, [n \in Names |->
                SumOver({m \in MinutesOf(h) : Old(m)}, Column(w.minute, n))])
  <2>1. \A h \in Hours : added(h) \in Rows BY <1>2, RowsOf
  <2>2. \A h \in Hours : Plus(w.hour[h], added(h)) \in Rows
    <3> HIDE DEF added
    <3> QED BY <1>1, <2>1, RowsOf
  <2>3. RolledUp(kind, w) = [w EXCEPT !.hour = [h \in Hours |-> Plus(w.hour[h], added(h))]]
        BY DEF RolledUp
  <2> HIDE DEF added
  <2>4. [h \in Hours |-> Plus(w.hour[h], added(h))] \in [Hours -> Rows] BY <2>2
  <2> QED BY <1>1, <2>3, <2>4 DEF Tiers
<1>4. Dropped(kind, w) \in Tiers
  <2>1. \A m \in Minutes : Only(Names \ kind, w.minute[m]) \in Rows BY <1>1, RowsOf
  <2>2. [m \in Minutes |-> IF Old(m) THEN Only(Names \ kind, w.minute[m]) ELSE w.minute[m]]
          \in [Minutes -> Rows] BY <1>1, <2>1
  <2> QED BY <1>1, <2>2 DEF Dropped, Tiers
<1> QED BY <1>3, <1>4

(* What a call has in hand of one name and one minute.                     *)
Owed(call, m, n) == IF call.pc \in {"config", "app"} /\ call.at = m THEN call.rows[n] ELSE 0
Part(m, n) == [t \in Threads |-> IF Holds(t, m) THEN thr[t].rows[n] ELSE 0]
Open(m, n) == IF bucket = m THEN accum[n] ELSE 0

(* What a call owes is a number.                                           *)
LEMMA OwedIsNat ==
  ASSUME NEW call \in Calls, NEW m, NEW n \in Names
  PROVE  Owed(call, m, n) \in Nat
<1>1. call.rows \in Rows BY DEF Calls
<1>2. call.rows[n] \in Nat BY <1>1 DEF Rows
<1> QED BY <1>2 DEF Owed

(* What is in memory is the open bucket and what the calls owe.            *)
LEMMA InHandIsSum ==
  ASSUME Types, NEW m \in Minutes, NEW n \in Names
  PROVE  /\ \A t \in Threads : Part(m, n)[t] = Owed(thr[t], m, n) /\ Part(m, n)[t] \in Nat
         /\ SumOver(Threads, Part(m, n)) \in Nat
         /\ Open(m, n) \in Nat
         /\ InHand(m, n) = Open(m, n) + SumOver(Threads, Part(m, n))
<1>1. \A t \in Threads : thr[t] \in Calls BY DEF Types
<1>2. \A t \in Threads : Part(m, n)[t] = Owed(thr[t], m, n) BY DEF Part, Owed, Holds
<1>3. \A t \in Threads : Part(m, n)[t] \in Nat BY <1>1, <1>2, OwedIsNat
<1>4. SumOver(Threads, Part(m, n)) \in Nat BY <1>3, Finite, SumType
<1>5. Open(m, n) \in Nat BY DEF Types, Rows, Open
<1>6. InHand(m, n) = Open(m, n) + SumOver(Threads, Part(m, n)) BY DEF InHand, Part, Open
<1> QED BY <1>2, <1>3, <1>4, <1>5, <1>6

(* The initial states have their types.                                    *)
LEMMA TypesInitially == Init => TypeInv
<1> SUFFICES ASSUME Init PROVE TypeInv OBVIOUS
<1>1. 0 \in Minutes /\ 0 \in 0 .. MaxTrouble BY SeriesAssumption DEF Minutes
<1>2. thr \in [Threads -> Calls] BY RowsOf DEF Init
<1>3. maint \in Passes BY <1>1, RowsOf DEF Init, NoMaint, Passes
<1>4. Types BY <1>1, <1>2, <1>3, RowsOf DEF Init, Types
<1>5. Named /\ AppRowsOnly BY DEF Init, Named, AppRowsOnly, Idle
<1>6. PassIsPast /\ NoBucketNoRows BY <1>1 DEF Init, PassIsPast, NoBucketNoRows, NoMaint, Minutes
<1> QED BY <1>4, <1>5, <1>6 DEF TypeInv

(* One thread changes its call: the other calls keep what is known of them. *)
LEMMA CallChanges ==
  ASSUME TypeInv, NEW t \in Threads, NEW call \in Calls, thr' = [thr EXCEPT ![t] = call],
         call.pc = "timed" => call.name \in Names,
         call.pc = "app" => \A n \in Names \ Apps : call.rows[n] = 0
  PROVE  thr' \in [Threads -> Calls] /\ Named' /\ AppRowsOnly'
<1>1. thr \in [Threads -> Calls] BY DEF TypeInv, Types
<1>2. thr' \in [Threads -> Calls] BY <1>1
<1>3. \A u \in Threads : thr'[u] = IF u = t THEN call ELSE thr[u] BY <1>1
<1>4. Named' BY <1>3 DEF TypeInv, Named
<1>5. AppRowsOnly' BY <1>3 DEF TypeInv, AppRowsOnly
<1> QED BY <1>2, <1>4, <1>5

(* When no call changes, what is known of the calls stays.                 *)
LEMMA CallsStay == ASSUME TypeInv, UNCHANGED thr PROVE thr' \in [Threads -> Calls] /\ Named' /\ AppRowsOnly'
BY DEF TypeInv, Types, Named, AppRowsOnly

(* The clock is a number.                                                  *)
LEMMA TimeIsNat == now \in Minutes => now \in Nat
BY SeriesAssumption DEF Minutes

(* Every step keeps the types, action by action.                           *)
LEMMA TypesKeep == TypeInv /\ [Next]_vars => TypeInv'
<1> SUFFICES ASSUME TypeInv, [Next]_vars PROVE TypeInv' OBVIOUS
<1> USE DEF history
<1>0. /\ now \in Minutes /\ bucket \in Minutes \cup {None} /\ accum \in Rows
      /\ thr \in [Threads -> Calls] /\ db \in Tiers /\ maint \in Passes
      /\ credited \in [Minutes -> Rows] /\ wrote \in [Minutes -> Rows] /\ lost \in [Minutes -> Rows]
      /\ fails \in 0 .. MaxTrouble /\ ends \in 0 .. MaxTrouble
      /\ maint.at \in Minutes /\ maint.work \in Tiers /\ maint.at <= now
      /\ Ui \in Threads /\ Creditors \subseteq Threads
  BY DEF TypeInv, Types, Passes, PassIsPast, Threads
<1>1. CASE Tick
  <2>1. now' \in Minutes /\ PassIsPast'
        BY <1>0, <1>1, SeriesAssumption DEF Tick, Minutes, PassIsPast
  <2>2. Types' BY <1>0, <1>1, <2>1 DEF Tick, Types
  <2>3. NoBucketNoRows' BY <1>1 DEF Tick, TypeInv, NoBucketNoRows
  <2> QED BY <1>1, <2>1, <2>2, <2>3, CallsStay DEF Tick, TypeInv
<1>2. ASSUME bucket \in Minutes PROVE Drained(bucket) \in Calls
  BY <1>0, <1>2, RowsOf DEF Drained, Idle, Calls
<1>3. CASE Refresh
  <2>1. bucket \in Minutes BY <1>0, <1>3 DEF Refresh, Flush
  <2>2. thr' \in [Threads -> Calls] /\ Named' /\ AppRowsOnly'
    <3>1. Drained(bucket).pc = "config" BY DEF Drained, Idle
    <3> QED BY <1>0, <1>2, <1>3, <2>1, <3>1, CallChanges DEF Refresh, Flush
  <2>3. Types' BY <1>0, <1>3, <2>2, RowsOf DEF Refresh, Flush, Types
  <2>4. PassIsPast' /\ NoBucketNoRows' BY <1>3 DEF Refresh, Flush, TypeInv, PassIsPast, NoBucketNoRows
  <2> QED BY <2>2, <2>3, <2>4 DEF TypeInv
<1>4. ASSUME NEW t \in Threads, NEW n \in Names, TakeTime(t, n) PROVE TypeInv'
  <2> DEFINE call == [Idle EXCEPT !.pc = "timed", !.at = now, !.name = n]
  <2>1. call \in Calls /\ call.pc = "timed" /\ call.name = n BY <1>0, RowsOf DEF Calls, Idle
  <2>2. thr' = [thr EXCEPT ![t] = call] BY <1>4 DEF TakeTime
  <2>3. thr' \in [Threads -> Calls] /\ Named' /\ AppRowsOnly'
    <3> HIDE DEF call
    <3> QED BY <2>1, <2>2, CallChanges
  <2>4. Types' BY <1>0, <1>4, <2>3 DEF TakeTime, Types
  <2>5. PassIsPast' /\ NoBucketNoRows' BY <1>4 DEF TakeTime, TypeInv, PassIsPast, NoBucketNoRows
  <2> QED BY <2>3, <2>4, <2>5 DEF TypeInv
<1>5. ASSUME NEW t \in Threads, Add(t) PROVE TypeInv'
  <2> DEFINE over == bucket # None /\ thr[t].at # bucket
             call == IF over THEN Drained(bucket) ELSE Idle
             base == IF over THEN NoRows ELSE accum
  <2>1. thr[t].name \in Names /\ thr[t].at \in Minutes BY <1>0, <1>5 DEF Add, TypeInv, Named, Calls
  <2>2. call \in Calls /\ call.pc \in {"config", "idle"} BY <1>0, <1>2, RowsOf DEF Drained, Idle
  <2>3. thr' = [thr EXCEPT ![t] = call] /\ accum' = [base EXCEPT ![thr[t].name] = @ + 1]
        BY <1>5 DEF Add
  <2>4. thr' \in [Threads -> Calls] /\ Named' /\ AppRowsOnly'
    <3> HIDE DEF call
    <3> QED BY <2>2, <2>3, CallChanges
  <2>5. base \in Rows BY <1>0, RowsOf
  <2>6. accum' \in Rows
    <3> DEFINE n == thr[t].name
    <3>1. n \in Names /\ accum' = [base EXCEPT ![n] = @ + 1] BY <2>1, <2>3
    <3> HIDE DEF base, n
    <3>2. base \in [Names -> Nat] BY <2>5 DEF Rows
    <3>3. base[n] + 1 \in Nat BY <3>1, <3>2
    <3>4. [base EXCEPT ![n] = @ + 1] \in [Names -> Nat] BY <3>1, <3>2, <3>3
    <3> QED BY <3>1, <3>4 DEF Rows
  <2>7. bucket' \in Minutes BY <1>5, <2>1 DEF Add
  <2>8. credited' \in [Minutes -> Rows]
    <3>1. credited[thr[t].at] \in Rows BY <1>0, <2>1
    <3>2. [credited[thr[t].at] EXCEPT ![thr[t].name] = @ + 1] \in Rows BY <2>1, <3>1 DEF Rows
    <3>3. credited' = [credited EXCEPT ![thr[t].at] = [credited[thr[t].at] EXCEPT ![thr[t].name] = @ + 1]]
          BY <1>5 DEF Add
    <3> QED BY <1>0, <2>1, <3>2, <3>3
  <2>9. Types' BY <1>0, <1>5, <2>4, <2>6, <2>7, <2>8 DEF Add, Types
  <2>10. NoBucketNoRows' BY <2>7, SeriesAssumption DEF NoBucketNoRows
  <2>11. PassIsPast' BY <1>5 DEF Add, TypeInv, PassIsPast
  <2> QED BY <2>4, <2>9, <2>10, <2>11 DEF TypeInv
<1>6. ASSUME NEW t \in Threads, NEW kind, NEW next \in Calls, next.pc = "idle" \/ next.pc = "app",
             next.pc = "app" => \A n \in Names \ Apps : next.rows[n] = 0,
             WriteBatch(t, kind, next)
      PROVE  TypeInv'
  <2> DEFINE m == thr[t].at
             rows == Only(kind, thr[t].rows)
  <2>1. m \in Minutes /\ rows \in Rows BY <1>0, RowsOf DEF Calls
  <2>2. thr' \in [Threads -> Calls] /\ Named' /\ AppRowsOnly' BY <1>6, CallChanges DEF WriteBatch
  <2>3. db' \in Tiers /\ wrote' \in [Minutes -> Rows] /\ lost' \in [Minutes -> Rows] /\ fails' \in 0 .. MaxTrouble
    <3>1. \A tab \in [Minutes -> Rows] : Plus(tab[m], rows) \in Rows
      <4> HIDE DEF m, rows
      <4> QED BY <2>1, RowsOf
    <3>2. \A tab \in [Minutes -> Rows] : [tab EXCEPT ![m] = Plus(@, rows)] \in [Minutes -> Rows]
      <4> HIDE DEF m, rows
      <4> QED BY <2>1, <3>1
    <3>3. [db EXCEPT !.minute[m] = Plus(@, rows)] \in Tiers
      <4> HIDE DEF m, rows
      <4>1. db.minute \in [Minutes -> Rows] BY <1>0 DEF Tiers
      <4>2. [db.minute EXCEPT ![m] = Plus(@, rows)] \in [Minutes -> Rows] BY <3>2, <4>1
      <4>3. [db EXCEPT !.minute[m] = Plus(@, rows)]
              = [db EXCEPT !.minute = [db.minute EXCEPT ![m] = Plus(@, rows)]] OBVIOUS
      <4> QED BY <1>0, <4>2, <4>3 DEF Tiers
    <3>4. CASE /\ db' = [db EXCEPT !.minute[m] = Plus(@, rows)]
               /\ wrote' = [wrote EXCEPT ![m] = Plus(@, rows)] /\ UNCHANGED <<lost, fails>>
      <4> HIDE DEF m, rows
      <4> QED BY <1>0, <3>2, <3>3, <3>4
    <3>5. CASE /\ fails + ends < MaxTrouble /\ fails' = fails + 1
               /\ lost' = [lost EXCEPT ![m] = Plus(@, rows)] /\ UNCHANGED <<db, wrote>>
      <4> HIDE DEF m, rows
      <4> QED BY <1>0, <3>2, <3>5, SeriesAssumption
    <3> QED BY <1>6, <3>4, <3>5 DEF WriteBatch
  <2>4. Types' BY <1>0, <1>6, <2>2, <2>3 DEF WriteBatch, Types
  <2>5. PassIsPast' /\ NoBucketNoRows' BY <1>6 DEF WriteBatch, TypeInv, PassIsPast, NoBucketNoRows
  <2> QED BY <2>2, <2>4, <2>5 DEF TypeInv
<1>7. ASSUME NEW t \in Threads, WriteConfig(t) PROVE TypeInv'
  <2>1. thr[t].rows \in Rows /\ thr[t] \in Calls BY <1>0 DEF Calls
  <2>2. Rest(t) \in Calls BY <2>1, RowsOf DEF Rest, Calls
  <2>3. Rest(t).pc = "app" BY <2>1 DEF Rest, Calls
  <2>4. Rest(t).rows = Only(Apps, thr[t].rows) BY <2>1 DEF Rest, Calls
  <2>5. \A n \in Names \ Apps : Rest(t).rows[n] = 0 BY <2>4 DEF Only
  <2> QED BY <1>6, <1>7, <2>2, <2>3, <2>5 DEF WriteConfig
<1>8. ASSUME NEW t \in Threads, WriteApp(t) PROVE TypeInv'
  <2>1. Idle \in Calls /\ Idle.pc = "idle" BY RowsOf DEF Idle
  <2> QED BY <1>6, <1>8, <2>1 DEF WriteApp
<1>9. ASSUME UNCHANGED <<now, bucket, accum, thr, credited, wrote, lost>>, ends' \in 0 .. MaxTrouble,
             db' \in Tiers, maint' \in Passes, maint'.at <= now, fails' \in 0 .. MaxTrouble
      PROVE  TypeInv'
  <2>1. Types' BY <1>0, <1>9 DEF Types
  <2>2. PassIsPast' /\ NoBucketNoRows' BY <1>9 DEF TypeInv, PassIsPast, NoBucketNoRows
  <2> QED BY <1>9, <2>1, <2>2, CallsStay DEF TypeInv
<1>10. ASSUME NEW pc, NEW next \in Transaction, NEW w \in Tiers, Statement(pc, next, w) PROVE TypeInv'
  <2>1. maint' \in Passes /\ maint'.at = maint.at BY <1>0, <1>10 DEF Statement, Passes
  <2> QED BY <1>0, <1>9, <1>10, <2>1 DEF Statement
<1>11. CASE RollConfigs \/ DropConfigs \/ RollApps \/ DropApps
  <2>1. \A kind : RolledUp(kind, maint.work) \in Tiers /\ Dropped(kind, maint.work) \in Tiers
        BY <1>0, StatementTypes
  <2> QED BY <1>10, <1>11, <2>1 DEF RollConfigs, DropConfigs, RollApps, DropApps, Transaction
<1>12. CASE BeginRollup
  <2> DEFINE pass == [pc |-> "configs up", at |-> now, work |-> db]
  <2>0. pass \in Passes /\ pass.at = now BY <1>0 DEF Passes, Transaction
  <2>1. maint' \in Passes /\ maint'.at <= now
    <3> HIDE DEF pass
    <3>1. maint' = pass BY <1>12 DEF BeginRollup, pass
    <3>2. now <= now BY <1>0, TimeIsNat
    <3> QED BY <2>0, <3>1, <3>2
  <2> QED BY <1>0, <1>9, <1>12, <2>1 DEF BeginRollup
<1>13. NoMaint \in Passes /\ NoMaint.at <= now
  <2>1. 0 \in Minutes BY SeriesAssumption DEF Minutes
  <2> QED BY <1>0, <2>1, RowsOf, TimeIsNat DEF NoMaint, Passes
<1>14. [NoMaint EXCEPT !.pc = "prune", !.at = maint.at] \in Passes
       /\ [NoMaint EXCEPT !.pc = "prune", !.at = maint.at].at = maint.at
  BY <1>0, <1>13 DEF NoMaint, Passes
<1>15. CASE Commit BY <1>0, <1>9, <1>14, <1>15 DEF Commit
<1>16. CASE Rollback
  <2>1. fails' \in 0 .. MaxTrouble BY <1>0, <1>16, SeriesAssumption DEF Rollback
  <2> QED BY <1>0, <1>9, <1>14, <1>16, <2>1 DEF Rollback
<1>17. CASE PruneHour
  <2>1. [h \in Hours |-> IF IsPast(h) THEN NoRows ELSE db.hour[h]] \in [Hours -> Rows]
        BY <1>0, RowsOf DEF Tiers
  <2> DEFINE hours == [h \in Hours |-> IF IsPast(h) THEN NoRows ELSE db.hour[h]]
  <2>2. [db EXCEPT !.hour = hours] \in Tiers
    <3> HIDE DEF hours
    <3>1. hours \in [Hours -> Rows] BY <2>1 DEF hours
    <3> QED BY <1>0, <3>1 DEF Tiers
  <2>3. db' \in Tiers BY <1>0, <1>17, <2>2 DEF PruneHour
  <2>4. fails' \in 0 .. MaxTrouble BY <1>0, <1>17, SeriesAssumption DEF PruneHour
  <2> QED BY <1>0, <1>9, <1>13, <1>17, <2>3, <2>4 DEF PruneHour
<1>18. CASE ProcessEnds
  <2>1. thr' \in [Threads -> Calls] /\ Named' /\ AppRowsOnly'
        BY <1>18, RowsOf DEF ProcessEnds, Idle, Named, AppRowsOnly
  <2>2. lost' \in [Minutes -> Rows]
    <3>1. \A m \in Minutes, n \in Names : lost[m][n] + InHand(m, n) \in Nat
      <4> TAKE m \in Minutes, n \in Names
      <4>1. lost[m][n] \in Nat BY <1>0 DEF Rows
      <4>2. InHand(m, n) \in Nat BY InHandIsSum DEF TypeInv
      <4> QED BY <4>1, <4>2
    <3>2. \A m \in Minutes : [n \in Names |-> lost[m][n] + InHand(m, n)] \in Rows BY <3>1 DEF Rows
    <3> QED BY <1>18, <3>2 DEF ProcessEnds
  <2>3. ends' \in 0 .. MaxTrouble BY <1>0, <1>18, SeriesAssumption DEF ProcessEnds
  <2>4. Types' BY <1>0, <1>13, <1>18, <2>1, <2>2, <2>3, RowsOf DEF ProcessEnds, Types
  <2>5. PassIsPast' /\ NoBucketNoRows' BY <1>13, <1>18 DEF ProcessEnds, PassIsPast, NoBucketNoRows
  <2> QED BY <2>1, <2>4, <2>5 DEF TypeInv
<1>19. CASE UNCHANGED vars
  BY <1>0, <1>9, <1>19 DEF vars
<1> QED BY <1>1, <1>3, <1>4, <1>5, <1>7, <1>8, <1>11, <1>12, <1>15, <1>16, <1>17, <1>18, <1>19 DEF Next

(* The calls, the tables and the maintenance pass keep their types; a call *)
(* knows its name, and a pass works with a time that is past.              *)
THEOREM TypeCorrect == Spec => []TypeOK
<1>1. TypeInv => TypeOK BY TypesMean DEF TypeInv
<1> QED BY TypesInitially, TypesKeep, <1>1, PTL DEF Spec
-----------------------------------------------------------------------------
(* Every byte in its minute.                                               *)

(* When one call changes, what the threads hold changes by that call.      *)
LEMMA OneCallChanges ==
  ASSUME Types, Types', NEW t \in Threads, NEW call \in Calls, thr' = [thr EXCEPT ![t] = call],
         NEW m \in Minutes, NEW n \in Names
  PROVE  SumOver(Threads, Part(m, n)') + Owed(thr[t], m, n)
           = SumOver(Threads, Part(m, n)) + Owed(call, m, n)
<1>1. \A u \in Threads : Part(m, n)[u] = Owed(thr[u], m, n) /\ Part(m, n)[u] \in Nat BY InHandIsSum
<1>2. \A u \in Threads : Part(m, n)'[u] = Owed(thr'[u], m, n) BY DEF Part, Owed, Holds
<1>3. \A u \in Threads : Owed(thr'[u], m, n) \in Nat BY OwedIsNat DEF Types
<1>4. thr' [t] = call /\ \A u \in Threads \ {t} : thr'[u] = thr[u] BY DEF Types
<1>5. \A u \in Threads \ {t} : Part(m, n)[u] = Part(m, n)'[u] BY <1>1, <1>2, <1>4
<1>6. \A u \in Threads : Part(m, n)[u] \in Nat /\ Part(m, n)'[u] \in Nat BY <1>1, <1>2, <1>3
<1>7. SumOver(Threads, Part(m, n)') + Part(m, n)[t] = SumOver(Threads, Part(m, n)) + Part(m, n)'[t]
      BY <1>5, <1>6, Finite, SumUpdate
<1> QED BY <1>1, <1>2, <1>4, <1>7

(* The account of one minute and one name.                                 *)
Account(m, n) == credited[m][n] = InHand(m, n) + wrote[m][n] + lost[m][n]

(* No minute is taken for the absent bucket.                               *)
LEMMA NoneIsNoMinute == \A m \in Minutes : m # None
BY SeriesAssumption

(* A drained call owes what the bucket held, an idle or timed one nothing. *)
LEMMA WhoOwes ==
  ASSUME Types, NEW m \in Minutes, NEW n \in Names
  PROVE  /\ Owed(Idle, m, n) = 0
         /\ \A b : Owed(Drained(b), m, n) = IF b = m THEN accum[n] ELSE 0
         /\ \A call : call.pc \in {"idle", "timed"} => Owed(call, m, n) = 0
BY DEF Owed, Idle, Drained

(* Adding keeps the account: the old bucket goes to the call that drains   *)
(* it, the byte to the new.                                                *)
LEMMA AddKeepsAccount ==
  ASSUME TypeInv, TypeInv', NEW t \in Threads, Add(t), NEW m \in Minutes, NEW n \in Names, Account(m, n)
  PROVE  Account(m, n)'
<1> DEFINE at == thr[t].at
           name == thr[t].name
           over == bucket # None /\ at # bucket
           call == IF over THEN Drained(bucket) ELSE Idle
           old == SumOver(Threads, Part(m, n))
           new == SumOver(Threads, Part(m, n)')
           one == IF at = m /\ name = n THEN 1 ELSE 0
<1>1. Types /\ Types' /\ at \in Minutes /\ name \in Names /\ bucket \in Minutes \cup {None}
      BY DEF TypeInv, Types, Named, Calls, Add
<1>2. call \in Calls /\ thr' = [thr EXCEPT ![t] = call]
  <2>1. over => Drained(bucket) \in Calls BY <1>1, RowsOf DEF Drained, Idle, Calls, Types
  <2> QED BY <2>1, RowsOf DEF Add
<1>3. new + Owed(thr[t], m, n) = old + Owed(call, m, n)
  <2> HIDE DEF call
  <2> QED BY <1>1, <1>2, OneCallChanges
<1>4. Owed(thr[t], m, n) = 0 BY <1>1, WhoOwes DEF Add
<1>5. Owed(call, m, n) = IF over /\ bucket = m THEN accum[n] ELSE 0 BY <1>1, WhoOwes
<1>6. /\ InHand(m, n) = Open(m, n) + old /\ old \in Nat /\ Open(m, n) \in Nat
      /\ InHand(m, n)' = Open(m, n)' + new /\ new \in Nat /\ Open(m, n)' \in Nat
  <2>1. InHand(m, n) = Open(m, n) + old /\ old \in Nat /\ Open(m, n) \in Nat BY <1>1, InHandIsSum
  <2>2. InHand(m, n)' = Open(m, n)' + new BY DEF InHand, Part, Open
  <2>3. \A u \in Threads : Part(m, n)'[u] \in Nat
    <3>1. \A u \in Threads : Part(m, n)'[u] = Owed(thr'[u], m, n) BY DEF Part, Owed, Holds
    <3> QED BY <1>1, <3>1, OwedIsNat DEF Types
  <2>4. new \in Nat BY <2>3, Finite, SumType
  <2>5. Open(m, n)' \in Nat BY <1>1 DEF Types, Rows, Open
  <2> QED BY <2>1, <2>2, <2>4, <2>5
<1>7. bucket' = at /\ accum' = [(IF over THEN NoRows ELSE accum) EXCEPT ![name] = @ + 1] BY DEF Add
<1>8. accum[n] \in Nat /\ accum'[n] = (IF over THEN 0 ELSE accum[n]) + (IF name = n THEN 1 ELSE 0)
      BY <1>1, <1>7 DEF Types, Rows, NoRows
<1>9. bucket = None => accum[n] = 0 BY DEF TypeInv, NoBucketNoRows, NoRows
<1>10. m # None /\ at # None BY <1>1, NoneIsNoMinute
<1>11. Open(m, n)' + (IF over /\ bucket = m THEN accum[n] ELSE 0) = Open(m, n) + one
  <2>1. Open(m, n) = IF bucket = m THEN accum[n] ELSE 0 BY DEF Open
  <2>2. Open(m, n)' = IF at = m THEN accum'[n] ELSE 0 BY <1>7 DEF Open
  <2> HIDE DEF at, name
  <2> QED BY <1>1, <1>8, <1>9, <1>10, <2>1, <2>2
<1>12. credited'[m][n] = credited[m][n] + one /\ credited[m][n] \in Nat
       BY <1>1 DEF Add, Types, Rows
<1>13. wrote'[m][n] = wrote[m][n] /\ lost'[m][n] = lost[m][n] /\ wrote[m][n] \in Nat /\ lost[m][n] \in Nat
       BY <1>1 DEF Add, Types, Rows
<1>14. one \in Nat OBVIOUS
<1>15. new = old + (IF over /\ bucket = m THEN accum[n] ELSE 0)
  <2> HIDE DEF over, old, new, call
  <2> QED BY <1>3, <1>4, <1>5, <1>6
<1>16. InHand(m, n)' = InHand(m, n) + one
  <2> DEFINE moved == IF over /\ bucket = m THEN accum[n] ELSE 0
  <2>1. moved \in Nat BY <1>8
  <2> HIDE DEF old, new, one, moved
  <2>2. new = old + moved BY <1>15 DEF moved
  <2>3. Open(m, n)' + moved = Open(m, n) + one BY <1>11 DEF moved
  <2> QED BY <1>6, <1>14, <2>1, <2>2, <2>3
<1>17. InHand(m, n) \in Nat
  <2> HIDE DEF old, new
  <2> QED BY <1>6
<1> HIDE DEF one
<1> QED BY <1>12, <1>13, <1>14, <1>16, <1>17 DEF Account

(* A batch takes its rows out of the call's hand and commits or drops them. *)
LEMMA BatchKeepsAccount ==
  ASSUME TypeInv, TypeInv', NEW t \in Threads, NEW kind, NEW next \in Calls, WriteBatch(t, kind, next),
         NEW m \in Minutes, NEW n \in Names, Account(m, n),
         Owed(thr[t], m, n) = Owed(next, m, n)
                              + (IF thr[t].at = m /\ n \in kind THEN thr[t].rows[n] ELSE 0)
  PROVE  Account(m, n)'
<1> DEFINE rows == Only(kind, thr[t].rows)
           gone == IF thr[t].at = m THEN rows[n] ELSE 0
           old == SumOver(Threads, Part(m, n))
           new == SumOver(Threads, Part(m, n)')
<1>1. Types /\ Types' /\ thr[t] \in Calls /\ thr[t].at \in Minutes /\ thr[t].rows \in Rows
      BY DEF TypeInv, Types, Calls
<1>2. rows \in Rows /\ rows[n] = IF n \in kind THEN thr[t].rows[n] ELSE 0 BY <1>1, RowsOf DEF Only
<1>3. gone \in Nat /\ Owed(thr[t], m, n) = Owed(next, m, n) + gone
  <2>1. rows[n] \in Nat BY <1>2 DEF Rows
  <2> QED BY <1>2, <2>1
<1>4. Owed(next, m, n) \in Nat BY OwedIsNat
<1>5. new + Owed(thr[t], m, n) = old + Owed(next, m, n)
  <2>1. thr' = [thr EXCEPT ![t] = next] BY DEF WriteBatch
  <2> QED BY <1>1, <2>1, OneCallChanges
<1>6. old \in Nat /\ Open(m, n) \in Nat /\ InHand(m, n) = Open(m, n) + old BY <1>1, InHandIsSum
<1>7. new \in Nat /\ InHand(m, n)' = Open(m, n) + new
  <2>1. \A u \in Threads : Part(m, n)'[u] = Owed(thr'[u], m, n) BY DEF Part, Owed, Holds
  <2>2. \A u \in Threads : Part(m, n)'[u] \in Nat BY <1>1, <2>1, OwedIsNat DEF Types
  <2>3. new \in Nat BY <2>2, Finite, SumType
  <2>4. InHand(m, n)' = Open(m, n) + new BY DEF WriteBatch, InHand, Part, Open
  <2> QED BY <2>3, <2>4
<1>8. InHand(m, n) = InHand(m, n)' + gone
  <2> HIDE DEF old, new, gone
  <2> QED BY <1>3, <1>4, <1>5, <1>6, <1>7
<1>9. /\ credited[m][n] \in Nat /\ wrote[m][n] \in Nat /\ lost[m][n] \in Nat
      /\ credited'[m][n] = credited[m][n]
  BY <1>1 DEF WriteBatch, Types, Rows
<1>10. wrote'[m][n] + lost'[m][n] = wrote[m][n] + lost[m][n] + gone
       /\ wrote'[m][n] \in Nat /\ lost'[m][n] \in Nat
  <2>1. \A tab \in [Minutes -> Rows] :
           [tab EXCEPT ![thr[t].at] = Plus(@, rows)][m][n] = tab[m][n] + gone
    <3> TAKE tab \in [Minutes -> Rows]
    <3>1. tab[m][n] \in Nat BY DEF Rows
    <3>2. CASE thr[t].at = m BY <3>2 DEF Plus
    <3>3. CASE thr[t].at # m
      <4>1. [tab EXCEPT ![thr[t].at] = Plus(@, rows)][m] = tab[m] BY <3>3
      <4>2. gone = 0 BY <3>3
      <4> HIDE DEF gone, rows
      <4> QED BY <3>1, <4>1, <4>2
    <3> QED BY <3>2, <3>3
  <2>2. CASE wrote' = [wrote EXCEPT ![thr[t].at] = Plus(@, rows)] /\ lost' = lost
    <3>1. wrote'[m][n] = wrote[m][n] + gone BY <1>1, <2>1, <2>2 DEF Types
    <3> HIDE DEF gone
    <3> QED BY <1>3, <1>9, <2>2, <3>1
  <2>3. CASE lost' = [lost EXCEPT ![thr[t].at] = Plus(@, rows)] /\ wrote' = wrote
    <3>1. lost'[m][n] = lost[m][n] + gone BY <1>1, <2>1, <2>3 DEF Types
    <3> HIDE DEF gone
    <3> QED BY <1>3, <1>9, <2>3, <3>1
  <2> QED BY <2>2, <2>3 DEF WriteBatch
<1>11. InHand(m, n)' \in Nat
  <2> HIDE DEF old, new
  <2> QED BY <1>6, <1>7
<1>12. gone \in Nat BY <1>3
<1>13. credited[m][n] = InHand(m, n) + wrote[m][n] + lost[m][n] BY DEF Account
<1>14. credited'[m][n] = InHand(m, n)' + wrote'[m][n] + lost'[m][n]
  <2> HIDE DEF gone
  <2> QED BY <1>8, <1>9, <1>10, <1>11, <1>12, <1>13
<1> QED BY <1>14 DEF Account

(* Every step keeps the accounts, action by action.                        *)
LEMMA AccountsKeep ==
  ASSUME TypeInv, TypeInv', [Next]_vars, NEW m \in Minutes, NEW n \in Names, Account(m, n)
  PROVE  Account(m, n)'
<1>0. Types /\ Types' /\ Ui \in Threads BY DEF TypeInv, Threads
<1> USE DEF history
<1>1. ASSUME UNCHANGED <<bucket, accum, thr, credited, wrote, lost>> PROVE Account(m, n)'
  BY <1>1 DEF Account, InHand, Holds
<1>2. CASE Refresh
  <2> DEFINE old == SumOver(Threads, Part(m, n))
             new == SumOver(Threads, Part(m, n)')
  <2>1. bucket \in Minutes /\ thr[Ui].pc = "idle" BY <1>0, <1>2 DEF Refresh, Flush, Types
  <2>2. Drained(bucket) \in Calls BY <1>0, <2>1, RowsOf DEF Drained, Idle, Calls, Types
  <2>3. thr' = [thr EXCEPT ![Ui] = Drained(bucket)] /\ accum' = NoRows /\ bucket' = bucket
        BY <1>2 DEF Refresh, Flush
  <2>4. new + Owed(thr[Ui], m, n) = old + Owed(Drained(bucket), m, n) BY <1>0, <2>2, <2>3, OneCallChanges
  <2>5. Owed(thr[Ui], m, n) = 0 /\ Owed(Drained(bucket), m, n) = Open(m, n)
        BY <1>0, <2>1, WhoOwes DEF Open
  <2>6. old \in Nat /\ Open(m, n) \in Nat /\ InHand(m, n) = Open(m, n) + old BY <1>0, InHandIsSum
  <2>7. Open(m, n)' = 0 BY <2>3 DEF Open, NoRows
  <2>8. InHand(m, n)' = Open(m, n)' + new BY DEF InHand, Part, Open
  <2>9. new \in Nat
    <3>1. \A u \in Threads : Part(m, n)'[u] = Owed(thr'[u], m, n) BY DEF Part, Owed, Holds
    <3>2. \A u \in Threads : Part(m, n)'[u] \in Nat BY <1>0, <3>1, OwedIsNat DEF Types
    <3> QED BY <3>2, Finite, SumType
  <2>10. InHand(m, n)' = InHand(m, n)
    <3> HIDE DEF old, new
    <3> QED BY <2>4, <2>5, <2>6, <2>7, <2>8, <2>9
  <2> QED BY <1>2, <2>10 DEF Account, Refresh
<1>3. ASSUME NEW t \in Threads, NEW k \in Names, TakeTime(t, k) PROVE Account(m, n)'
  <2> DEFINE call == [Idle EXCEPT !.pc = "timed", !.at = now, !.name = k]
             old == SumOver(Threads, Part(m, n))
             new == SumOver(Threads, Part(m, n)')
  <2>1. call \in Calls /\ call.pc = "timed" BY <1>0, RowsOf DEF Calls, Idle, Types
  <2>2. new + Owed(thr[t], m, n) = old + Owed(call, m, n)
    <3> HIDE DEF call
    <3>1. thr' = [thr EXCEPT ![t] = call] BY <1>3 DEF TakeTime, call
    <3> QED BY <1>0, <2>1, <3>1, OneCallChanges
  <2>3. Owed(thr[t], m, n) = 0 BY <1>0, <1>3, WhoOwes DEF TakeTime
  <2>4. Owed(call, m, n) = 0 BY <2>1 DEF Owed
  <2>5. old \in Nat /\ InHand(m, n) = Open(m, n) + old BY <1>0, InHandIsSum
  <2>6. InHand(m, n)' = Open(m, n) + new BY <1>3 DEF TakeTime, InHand, Part, Open
  <2>7. new \in Nat
    <3>1. \A u \in Threads : Part(m, n)'[u] = Owed(thr'[u], m, n) BY DEF Part, Owed, Holds
    <3>2. \A u \in Threads : Part(m, n)'[u] \in Nat BY <1>0, <3>1, OwedIsNat DEF Types
    <3> QED BY <3>2, Finite, SumType
  <2>8. InHand(m, n)' = InHand(m, n)
    <3> HIDE DEF old, new, call
    <3> QED BY <2>2, <2>3, <2>4, <2>5, <2>6, <2>7
  <2> QED BY <1>3, <2>8 DEF Account, TakeTime
<1>4. ASSUME NEW t \in Threads, Add(t) PROVE Account(m, n)' BY <1>4, AddKeepsAccount
<1>5. ASSUME NEW t \in Threads, WriteConfig(t) PROVE Account(m, n)'
  <2>1. thr[t] \in Calls /\ thr[t].rows \in Rows /\ thr[t].pc = "config" BY <1>0, <1>5 DEF Types, Calls, WriteConfig
  <2>2. /\ Rest(t) \in Calls /\ Rest(t).pc = "app" /\ Rest(t).at = thr[t].at
        /\ Rest(t).rows = Only(Apps, thr[t].rows)
    <3>1. Only(Apps, thr[t].rows) \in Rows BY <2>1, RowsOf
    <3> QED BY <2>1, <3>1 DEF Rest, Calls
  <2>3. Owed(thr[t], m, n) = Owed(Rest(t), m, n)
                             + (IF thr[t].at = m /\ n \in Configs THEN thr[t].rows[n] ELSE 0)
    <3>1. Owed(thr[t], m, n) = IF thr[t].at = m THEN thr[t].rows[n] ELSE 0 BY <2>1 DEF Owed
    <3>2. Owed(Rest(t), m, n) = IF thr[t].at = m /\ n \in Apps THEN thr[t].rows[n] ELSE 0
          BY <2>2 DEF Owed, Only
    <3>3. thr[t].rows[n] \in Nat BY <2>1 DEF Rows
    <3>4. n \in Configs <=> n \notin Apps BY SeriesAssumption DEF Names
    <3> QED BY <3>1, <3>2, <3>3, <3>4
  <2> QED BY <1>5, <2>2, <2>3, BatchKeepsAccount DEF WriteConfig
<1>6. ASSUME NEW t \in Threads, WriteApp(t) PROVE Account(m, n)'
  <2>1. thr[t] \in Calls /\ thr[t].rows \in Rows /\ thr[t].pc = "app" BY <1>0, <1>6 DEF Types, Calls, WriteApp
  <2>2. n \notin Apps => thr[t].rows[n] = 0 BY <2>1 DEF TypeInv, AppRowsOnly
  <2>3. Owed(thr[t], m, n) = Owed(Idle, m, n) + (IF thr[t].at = m /\ n \in Apps THEN thr[t].rows[n] ELSE 0)
    <3>1. Owed(thr[t], m, n) = IF thr[t].at = m THEN thr[t].rows[n] ELSE 0 BY <2>1 DEF Owed
    <3>2. Owed(Idle, m, n) = 0 BY <1>0, WhoOwes
    <3>3. thr[t].rows[n] \in Nat BY <2>1 DEF Rows
    <3> QED BY <2>2, <3>1, <3>2, <3>3
  <2> QED BY <1>6, <2>3, RowsOf, BatchKeepsAccount DEF WriteApp
<1>7. CASE ProcessEnds
  <2>1. lost'[m][n] = lost[m][n] + InHand(m, n) BY <1>7 DEF ProcessEnds
  <2>2. InHand(m, n)' = 0
    <3>1. \A t \in Threads : Part(m, n)'[t] = 0 BY <1>7 DEF ProcessEnds, Part, Holds, Idle
    <3>2. SumOver(Threads, Part(m, n)') = 0 BY <3>1, Finite, SumOfZeros
    <3>3. Open(m, n)' = 0 BY <1>7 DEF ProcessEnds, Open, NoRows
    <3>4. InHand(m, n)' = Open(m, n)' + SumOver(Threads, Part(m, n)') BY DEF InHand, Part, Open
    <3> QED BY <3>2, <3>3, <3>4
  <2>3. InHand(m, n) \in Nat BY <1>0, InHandIsSum
  <2>4. wrote[m][n] \in Nat /\ lost[m][n] \in Nat BY <1>0 DEF Types, Rows
  <2>5. wrote' = wrote /\ credited' = credited BY <1>7 DEF ProcessEnds
  <2> QED BY <2>1, <2>2, <2>3, <2>4, <2>5 DEF Account
<1>8. CASE Tick BY <1>1, <1>8 DEF Tick
<1>9. CASE RollConfigs \/ DropConfigs \/ RollApps \/ DropApps
  BY <1>1, <1>9 DEF RollConfigs, DropConfigs, RollApps, DropApps, Statement
<1>10. CASE BeginRollup \/ Commit \/ Rollback \/ PruneHour
  BY <1>1, <1>10 DEF BeginRollup, Commit, Rollback, PruneHour
<1>11. CASE UNCHANGED vars BY <1>1, <1>11 DEF vars
<1> QED BY <1>2, <1>3, <1>4, <1>5, <1>6, <1>7, <1>8, <1>9, <1>10, <1>11 DEF Next

(* Whatever order the threads of TrafficStatsManager come in, a credited    *)
(* byte is in memory for its own minute, committed for it, or lost with it. *)
THEOREM BytesStayInTheirMinute == Spec => []EveryByteInItsMinute
<1> DEFINE Accounts == \A m \in Minutes, n \in Names : Account(m, n)
<1>1. Init => TypeInv /\ Accounts
  <2> SUFFICES ASSUME Init PROVE TypeInv /\ Accounts OBVIOUS
  <2>1. TypeInv BY TypesInitially
  <2>2. ASSUME NEW m \in Minutes, NEW n \in Names PROVE Account(m, n)
    <3>1. \A t \in Threads : Part(m, n)[t] = 0 BY DEF Init, Part, Holds, Idle
    <3>2. SumOver(Threads, Part(m, n)) = 0 BY <3>1, Finite, SumOfZeros
    <3>3. Open(m, n) = 0 BY DEF Init, Open, NoRows
    <3>4. InHand(m, n) = 0 BY <2>1, <3>2, <3>3, InHandIsSum DEF TypeInv
    <3> QED BY <3>4 DEF Init, Account, NoMinutes, NoRows
  <2> QED BY <2>1, <2>2
<1>2. TypeInv /\ Accounts /\ [Next]_vars => TypeInv' /\ Accounts'
  BY TypesKeep, AccountsKeep
<1>3. Accounts => EveryByteInItsMinute BY DEF Account, EveryByteInItsMinute
<1> QED BY <1>1, <1>2, <1>3, PTL DEF Spec
-----------------------------------------------------------------------------
(* Two tiers, one history.                                                 *)

(* What the tiers w hold for hour h and name n, the minutes outside M left  *)
(* out.                                                                     *)
Kept(w, n, out) == [m \in Minutes |-> IF n \in out /\ Old(m) THEN 0 ELSE w.minute[m][n]]
Content(w, h, n, out) == w.hour[h][n] + SumOver(MinutesOf(h), Kept(w, n, out))

(* Between the two statements for one kind, the old minutes of that kind    *)
(* are in the hour tier already and still in the minute tier.               *)
InTransit == IF maint.pc = "configs out" THEN Configs ELSE IF maint.pc = "apps out" THEN Apps ELSE {}

(* The open transaction holds what is committed: nothing is counted twice.  *)
WorkIsDb ==
  maint.pc \in Transaction =>
    \A h \in Hours, n \in Names : Content(maint.work, h, n, InTransit) = Usage(h, n)

(* Contents are numbers.                                                   *)
LEMMA KeptIsNat ==
  ASSUME NEW w \in Tiers, NEW h \in Hours, NEW n \in Names, NEW out
  PROVE  /\ \A m \in Minutes : /\ w.minute[m][n] \in Nat /\ Kept(w, n, out)[m] \in Nat
                               /\ Kept(w, n, out)[m] = IF n \in out /\ Old(m) THEN 0 ELSE w.minute[m][n]
         /\ w.hour[h][n] \in Nat
         /\ SumOver(MinutesOf(h), Kept(w, n, out)) \in Nat
<1>1. w.minute \in [Minutes -> Rows] /\ w.hour \in [Hours -> Rows] BY DEF Tiers
<1>2. \A m \in Minutes : /\ w.minute[m][n] \in Nat
                         /\ Kept(w, n, out)[m] = IF n \in out /\ Old(m) THEN 0 ELSE w.minute[m][n]
      BY <1>1 DEF Rows, Kept
<1>3. \A m \in Minutes : Kept(w, n, out)[m] \in Nat BY <1>2
<1>4. w.hour[h][n] \in Nat BY <1>1 DEF Rows
<1>5. SumOver(MinutesOf(h), Kept(w, n, out)) \in Nat BY <1>3, Finite, SumType
<1> QED BY <1>2, <1>3, <1>4, <1>5

(* What readers see is the content of what is committed.                   *)
LEMMA UsageIsContent ==
  ASSUME Types, NEW h \in Hours, NEW n \in Names
  PROVE  /\ Usage(h, n) = Content(db, h, n, {})
         /\ Usage(h, n) \in Nat /\ db.hour[h][n] \in Nat
         /\ SumOver(MinutesOf(h), Column(db.minute, n)) \in Nat
<1>1. db \in Tiers /\ db.minute \in [Minutes -> Rows] BY DEF Types, Tiers
<1>2. \A m \in Minutes : Column(db.minute, n)[m] = Kept(db, n, {})[m] BY DEF Column, Kept
<1>3. SumOver(MinutesOf(h), Column(db.minute, n)) = SumOver(MinutesOf(h), Kept(db, n, {}))
      BY <1>2, Finite, SumSame
<1>4. SumOver(MinutesOf(h), Kept(db, n, {})) \in Nat /\ db.hour[h][n] \in Nat BY <1>1, KeptIsNat
<1> QED BY <1>3, <1>4 DEF Usage, Content

(* Rolling a kind up leaves the content what it was, once the old minutes   *)
(* of that kind are left out.                                               *)
LEMMA RollingMoves ==
  ASSUME NEW w \in Tiers, NEW kind, NEW h \in Hours, NEW n \in Names
  PROVE  Content(RolledUp(kind, w), h, n, kind) = Content(w, h, n, {})
<1> DEFINE old == {m \in MinutesOf(h) : Old(m)}
           added == [k \in Names |-> SumOver(old, Column(w.minute, k))]
           r == RolledUp(kind, w)
<1>1. w.minute \in [Minutes -> Rows] /\ w.hour \in [Hours -> Rows] BY DEF Tiers
<1>2. r.minute = w.minute /\ r.hour[h] = Plus(w.hour[h], Only(kind, added)) BY <1>1 DEF RolledUp, Tiers
<1>3. r.hour[h][n] = w.hour[h][n] + (IF n \in kind THEN SumOver(old, Column(w.minute, n)) ELSE 0)
      BY <1>2 DEF Plus, Only
<1>4. old \subseteq MinutesOf(h) /\ MinutesOf(h) \subseteq Minutes /\ IsFiniteSet(MinutesOf(h)) BY Finite
<1>5. CASE n \notin kind
  <2>1. \A m \in Minutes : Kept(r, n, kind)[m] = Kept(w, n, {})[m] BY <1>2, <1>5 DEF Kept
  <2>2. SumOver(MinutesOf(h), Kept(r, n, kind)) = SumOver(MinutesOf(h), Kept(w, n, {}))
    <3> HIDE DEF r
    <3> QED BY <1>4, <2>1, SumSame
  <2>3. r.hour[h][n] = w.hour[h][n]
    <3>1. w.hour[h][n] \in Nat BY KeptIsNat
    <3> HIDE DEF r, old
    <3> QED BY <1>3, <1>5, <3>1
  <2> QED BY <2>2, <2>3 DEF Content
<1>6. CASE n \in kind
  <2> DEFINE moved == [m \in Minutes |-> IF m \in old THEN Column(w.minute, n)[m] ELSE 0]
             stay == Kept(r, n, kind)
             all == Kept(w, n, {})
  <2>1. \A m \in MinutesOf(h) : m \in old <=> Old(m) OBVIOUS
  <2>2. \A m \in Minutes : Column(w.minute, n)[m] = w.minute[m][n] /\ w.minute[m][n] \in Nat
        BY <1>1, ColumnAddsUp
  <2>3. \A m \in Minutes : stay[m] = (IF Old(m) THEN 0 ELSE w.minute[m][n]) /\ all[m] = w.minute[m][n]
        BY <1>2, <1>6 DEF Kept
  <2>4. \A m \in MinutesOf(h) : moved[m] \in Nat /\ stay[m] \in Nat /\ all[m] = moved[m] + stay[m]
    <3> TAKE m \in MinutesOf(h)
    <3>1. m \in Minutes BY <1>4
    <3>2. moved[m] = IF Old(m) THEN w.minute[m][n] ELSE 0 BY <2>1, <2>2, <3>1
    <3> HIDE DEF moved, stay, all
    <3> QED BY <2>2, <2>3, <3>1, <3>2
  <2>5. SumOver(MinutesOf(h), all) = SumOver(MinutesOf(h), moved) + SumOver(MinutesOf(h), stay)
    <3> HIDE DEF moved, stay, all
    <3> QED BY <1>4, <2>4, SumPlus
  <2>6. SumOver(MinutesOf(h), moved) = SumOver(old, Column(w.minute, n))
    <3>1. \A m \in old : Column(w.minute, n)[m] \in Nat BY <1>4, <2>2
    <3>2. \A m \in MinutesOf(h) : moved[m] = IF m \in old THEN Column(w.minute, n)[m] ELSE 0 BY <1>4
    <3> HIDE DEF moved, old
    <3> QED BY <1>4, <3>1, <3>2, SumWhere
  <2>7. SumOver(old, Column(w.minute, n)) \in Nat
    <3>1. old \subseteq Minutes BY <1>4
    <3> HIDE DEF old
    <3> QED BY <1>1, <3>1, ColumnAddsUp
  <2>8. SumOver(MinutesOf(h), stay) \in Nat
    <3>1. \A m \in MinutesOf(h) : stay[m] \in Nat BY <2>4
    <3> HIDE DEF stay
    <3> QED BY <1>4, <3>1, SumType
  <2>9. w.hour[h][n] \in Nat BY KeptIsNat
  <2>10. r.hour[h][n] + SumOver(MinutesOf(h), stay) = w.hour[h][n] + SumOver(MinutesOf(h), all)
    <3> HIDE DEF r, stay, all, moved, old
    <3> QED BY <1>3, <1>6, <2>5, <2>6, <2>7, <2>8, <2>9
  <2> QED BY <2>10 DEF Content
<1> QED BY <1>5, <1>6

(* Dropping the old minutes of a kind takes what was left out already.      *)
LEMMA DroppingLeaves ==
  ASSUME NEW w \in Tiers, NEW kind, NEW h \in Hours, NEW n \in Names
  PROVE  Content(Dropped(kind, w), h, n, {}) = Content(w, h, n, kind)
<1> DEFINE r == Dropped(kind, w)
<1>1. w.minute \in [Minutes -> Rows] BY DEF Tiers
<1>2. r.hour = w.hour BY DEF Dropped, Tiers
<1>3. \A m \in Minutes : r.minute[m] = IF Old(m) THEN Only(Names \ kind, w.minute[m]) ELSE w.minute[m]
      BY DEF Dropped, Tiers
<1>4. \A m \in Minutes : Kept(r, n, {})[m] = Kept(w, n, kind)[m]
  <2> HIDE DEF r
  <2> QED BY <1>3 DEF Kept, Only
<1>5. SumOver(MinutesOf(h), Kept(r, n, {})) = SumOver(MinutesOf(h), Kept(w, n, kind))
  <2> HIDE DEF r
  <2> QED BY <1>4, Finite, SumSame
<1> QED BY <1>2, <1>5 DEF Content

(* Outside a transaction's commit, a batch and a pruning, nothing that is   *)
(* committed changes; a commit changes the tiers, not their content.        *)
LEMMA PassKeepsUsage ==
  ASSUME TypeInv, TypeInv', WorkIsDb,
         Tick \/ Refresh \/ (\E t \in Threads : (\E n \in Names : TakeTime(t, n)) \/ Add(t))
         \/ BeginRollup \/ RollConfigs \/ DropConfigs \/ RollApps \/ DropApps \/ Commit \/ Rollback
         \/ ProcessEnds \/ UNCHANGED vars
  PROVE  WorkIsDb' /\ \A h \in Hours, n \in Names : Usage(h, n)' = Usage(h, n)
<1> USE DEF history
<1>0. Types /\ Types' /\ maint \in Passes /\ maint.work \in Tiers /\ db \in Tiers
      BY DEF TypeInv, Types, Passes
<1>1. ASSUME UNCHANGED <<db, maint>> PROVE WorkIsDb' /\ \A h \in Hours, n \in Names : Usage(h, n)' = Usage(h, n)
  BY <1>1 DEF WorkIsDb, Usage, Content, Kept, Old, InTransit
<1>2. CASE Tick \/ Refresh \/ (\E t \in Threads : (\E n \in Names : TakeTime(t, n)) \/ Add(t))
  BY <1>1, <1>2 DEF Tick, Refresh, TakeTime, Add
<1>3. ASSUME NEW pc \in Transaction, NEW next \in Transaction, NEW w, Statement(pc, next, w),
             \A h \in Hours, n \in Names :
               Content(w, h, n, InTransit') = Content(maint.work, h, n, InTransit)
      PROVE  WorkIsDb' /\ \A h \in Hours, n \in Names : Usage(h, n)' = Usage(h, n)
  <2>1. maint.pc = pc /\ db' = db /\ maint' = [maint EXCEPT !.pc = next, !.work = w]
        BY <1>3 DEF Statement
  <2>2. maint'.at = maint.at /\ maint'.work = w BY <1>0, <2>1 DEF Passes
  <2>3. \A h \in Hours, n \in Names : Usage(h, n)' = Usage(h, n) BY <2>1 DEF Usage
  <2>4. \A h \in Hours, n \in Names : Content(maint.work, h, n, InTransit)' = Content(w, h, n, InTransit')
        BY <2>2 DEF Content, Kept, Old
  <2> QED BY <1>3, <2>1, <2>3, <2>4 DEF WorkIsDb
<1>4. CASE RollConfigs
  <2>1. maint.pc = "configs up" /\ maint'.pc = "configs out"
        BY <1>0, <1>4 DEF RollConfigs, Statement, Passes
  <2>2. InTransit = {} /\ InTransit' = Configs BY <2>1 DEF InTransit
  <2>3. \A h \in Hours, n \in Names :
          Content(RolledUp(Configs, maint.work), h, n, InTransit') = Content(maint.work, h, n, InTransit)
        BY <1>0, <2>2, RollingMoves
  <2>4. Statement("configs up", "configs out", RolledUp(Configs, maint.work)) BY <1>4 DEF RollConfigs
  <2>5. "configs up" \in Transaction /\ "configs out" \in Transaction BY DEF Transaction
  <2> QED BY <1>3, <2>3, <2>4, <2>5
<1>5. CASE DropConfigs
  <2>1. maint.pc = "configs out" /\ maint'.pc = "apps up"
        BY <1>0, <1>5 DEF DropConfigs, Statement, Passes
  <2>2. InTransit = Configs /\ InTransit' = {} BY <2>1 DEF InTransit
  <2>3. \A h \in Hours, n \in Names :
          Content(Dropped(Configs, maint.work), h, n, InTransit') = Content(maint.work, h, n, InTransit)
        BY <1>0, <2>2, DroppingLeaves
  <2>4. Statement("configs out", "apps up", Dropped(Configs, maint.work)) BY <1>5 DEF DropConfigs
  <2>5. "configs out" \in Transaction /\ "apps up" \in Transaction BY DEF Transaction
  <2> QED BY <1>3, <2>3, <2>4, <2>5
<1>6. CASE RollApps
  <2>1. maint.pc = "apps up" /\ maint'.pc = "apps out"
        BY <1>0, <1>6 DEF RollApps, Statement, Passes
  <2>2. InTransit = {} /\ InTransit' = Apps BY <2>1 DEF InTransit
  <2>3. \A h \in Hours, n \in Names :
          Content(RolledUp(Apps, maint.work), h, n, InTransit') = Content(maint.work, h, n, InTransit)
        BY <1>0, <2>2, RollingMoves
  <2>4. Statement("apps up", "apps out", RolledUp(Apps, maint.work)) BY <1>6 DEF RollApps
  <2>5. "apps up" \in Transaction /\ "apps out" \in Transaction BY DEF Transaction
  <2> QED BY <1>3, <2>3, <2>4, <2>5
<1>7. CASE DropApps
  <2>1. maint.pc = "apps out" /\ maint'.pc = "commit"
        BY <1>0, <1>7 DEF DropApps, Statement, Passes
  <2>2. InTransit = Apps /\ InTransit' = {} BY <2>1 DEF InTransit
  <2>3. \A h \in Hours, n \in Names :
          Content(Dropped(Apps, maint.work), h, n, InTransit') = Content(maint.work, h, n, InTransit)
        BY <1>0, <2>2, DroppingLeaves
  <2>4. Statement("apps out", "commit", Dropped(Apps, maint.work)) BY <1>7 DEF DropApps
  <2>5. "apps out" \in Transaction /\ "commit" \in Transaction BY DEF Transaction
  <2> QED BY <1>3, <2>3, <2>4, <2>5
<1>8. CASE BeginRollup
  <2>1. db' = db /\ maint'.work = db /\ maint'.pc = "configs up" BY <1>8 DEF BeginRollup
  <2>2. InTransit' = {} BY <2>1 DEF InTransit
  <2>3. \A h \in Hours, n \in Names : Usage(h, n)' = Usage(h, n) BY <2>1 DEF Usage
  <2>4. \A n \in Names : Kept(maint.work, n, InTransit)' = Column(db.minute, n)
        BY <2>1, <2>2 DEF Kept, Column
  <2>5. \A h \in Hours, n \in Names : Content(maint.work, h, n, InTransit)' = Usage(h, n)
        BY <2>1, <2>4 DEF Content, Usage
  <2> QED BY <2>3, <2>4, <2>5 DEF WorkIsDb
<1>9. CASE Commit
  <2>1. maint.pc = "commit" /\ db' = maint.work /\ maint'.pc = "prune" /\ maint'.at = maint.at
        BY <1>9 DEF Commit, NoMaint
  <2>2. \A h \in Hours, n \in Names : Usage(h, n)' = Usage(h, n)
    <3> TAKE h \in Hours, n \in Names
    <3>1. Content(maint.work, h, n, {}) = Usage(h, n) BY <2>1 DEF WorkIsDb, Transaction, InTransit
    <3>2. maint.work.minute \in [Minutes -> Rows] BY <1>0 DEF Tiers
    <3>3. \A m \in Minutes : Column(maint.work.minute, n)[m] = Kept(maint.work, n, {})[m]
          BY DEF Column, Kept
    <3>4. SumOver(MinutesOf(h), Column(maint.work.minute, n)) = SumOver(MinutesOf(h), Kept(maint.work, n, {}))
          BY <3>3, Finite, SumSame
    <3>5. Usage(h, n)' = maint.work.hour[h][n] + SumOver(MinutesOf(h), Column(maint.work.minute, n))
          BY <2>1 DEF Usage
    <3> QED BY <3>1, <3>4, <3>5 DEF Content
  <2>3. WorkIsDb' BY <2>1 DEF WorkIsDb, Transaction
  <2> QED BY <2>2, <2>3
<1>10. CASE Rollback \/ ProcessEnds
  <2>1. db' = db BY <1>10 DEF Rollback, ProcessEnds
  <2>2. CASE Rollback
    <3>1. maint'.pc = "prune" BY <2>2 DEF Rollback, NoMaint
    <3> QED BY <2>1, <3>1 DEF WorkIsDb, Usage, Transaction
  <2>3. CASE ProcessEnds
    <3>1. maint'.pc = "idle" BY <2>3 DEF ProcessEnds, NoMaint
    <3> QED BY <2>1, <3>1 DEF WorkIsDb, Usage, Transaction
  <2> QED BY <1>10, <2>2, <2>3
<1>11. CASE UNCHANGED vars BY <1>1, <1>11 DEF vars
<1> QED BY <1>2, <1>4, <1>5, <1>6, <1>7, <1>8, <1>9, <1>10, <1>11

(* A batch adds the same rows to the minutes and to what was committed.     *)
LEMMA BatchAddsToBoth ==
  ASSUME TypeInv, TypeInv', NEW t \in Threads, NEW kind, NEW next, WriteBatch(t, kind, next),
         NEW h \in Hours, NEW n \in Names
  PROVE  \E k \in Nat :
           /\ HourOf(thr[t].at) # h => k = 0
           /\ Usage(h, n)' = Usage(h, n) + k
           /\ SumOver(MinutesOf(h), Column(wrote, n))' = SumOver(MinutesOf(h), Column(wrote, n)) + k
<1> DEFINE at == thr[t].at
           rows == Only(kind, thr[t].rows)
           M == MinutesOf(h)
<1>1. /\ at \in Minutes /\ rows \in Rows /\ rows[n] \in Nat
      /\ db \in Tiers /\ db.minute \in [Minutes -> Rows] /\ wrote \in [Minutes -> Rows]
  <2>1. thr[t] \in Calls BY DEF TypeInv, Types
  <2>2. rows \in Rows BY <2>1, RowsOf DEF Calls
  <2> QED BY <2>1, <2>2 DEF TypeInv, Types, Tiers, Rows, Calls
<1>2. Usage(h, n) \in Nat /\ db.hour[h][n] \in Nat /\ SumOver(M, Column(db.minute, n)) \in Nat
      BY UsageIsContent DEF TypeInv
<1>3. SumOver(M, Column(wrote, n)) \in Nat BY <1>1, Finite, ColumnAddsUp
<1>4. IsFiniteSet(M) /\ M \subseteq Minutes BY Finite
<1>5. CASE UNCHANGED <<db, wrote>>
  <2>1. Usage(h, n)' = Usage(h, n) + 0 BY <1>2, <1>5 DEF Usage
  <2>2. SumOver(M, Column(wrote, n))' = SumOver(M, Column(wrote, n)) + 0 BY <1>3, <1>5
  <2> QED BY <2>1, <2>2
<1>6. ASSUME NEW tab \in [Minutes -> Rows], NEW k \in Nat, k = IF HourOf(at) = h THEN rows[n] ELSE 0
      PROVE  SumOver(M, Column([tab EXCEPT ![at] = Plus(@, rows)], n)) = SumOver(M, Column(tab, n)) + k
  <2> DEFINE new == [tab EXCEPT ![at] = Plus(@, rows)]
  <2>1. \A m \in Minutes : Column(tab, n)[m] = tab[m][n] /\ tab[m][n] \in Nat BY ColumnAddsUp
  <2>2. new \in [Minutes -> Rows]
    <3> HIDE DEF rows, at
    <3>1. Plus(tab[at], rows) \in Rows BY <1>1, RowsOf
    <3> QED BY <1>1, <3>1
  <2>3. \A m \in Minutes : Column(new, n)[m] = new[m][n] /\ new[m][n] \in Nat
    <3> HIDE DEF new
    <3> QED BY <2>2, ColumnAddsUp
  <2>4. new[at][n] = tab[at][n] + rows[n]
    <3> HIDE DEF rows, at
    <3> QED BY <1>1 DEF Plus
  <2>5. \A m \in Minutes \ {at} : new[m][n] = tab[m][n]
    <3> HIDE DEF rows, at
    <3> QED BY <1>1
  <2> HIDE DEF new
  <2>6. CASE HourOf(at) = h
    <3>1. at \in M BY <1>1, <2>6 DEF MinutesOf
    <3>2. \A m \in M : Column(tab, n)[m] \in Nat /\ Column(new, n)[m] \in Nat
      <4> HIDE DEF M
      <4> QED BY <1>4, <2>1, <2>3
    <3>3. \A m \in M \ {at} : Column(tab, n)[m] = Column(new, n)[m]
      <4> HIDE DEF M, at
      <4> QED BY <1>4, <2>1, <2>3, <2>5
    <3>4. /\ SumOver(M, Column(tab, n)) \in Nat /\ SumOver(M, Column(new, n)) \in Nat
          /\ SumOver(M, Column(new, n)) + Column(tab, n)[at] = SumOver(M, Column(tab, n)) + Column(new, n)[at]
      <4> HIDE DEF M, at
      <4> QED BY <1>4, <3>1, <3>2, <3>3, SumUpdate
    <3>5. Column(new, n)[at] = Column(tab, n)[at] + rows[n] /\ Column(tab, n)[at] \in Nat
      <4> HIDE DEF at, rows
      <4> QED BY <1>1, <2>1, <2>3, <2>4
    <3>6. SumOver(M, Column(new, n)) = SumOver(M, Column(tab, n)) + rows[n]
      <4> HIDE DEF M, at, rows
      <4> QED BY <1>1, <3>4, <3>5
    <3> QED BY <1>6, <2>6, <3>6 DEF new
  <2>7. CASE HourOf(at) # h
    <3>1. at \notin M BY <2>7 DEF MinutesOf
    <3>2. \A m \in M : Column(tab, n)[m] = Column(new, n)[m]
      <4> HIDE DEF M, at
      <4> QED BY <1>4, <2>1, <2>3, <2>5, <3>1
    <3>3. SumOver(M, Column(new, n)) = SumOver(M, Column(tab, n))
      <4> HIDE DEF M
      <4> QED BY <1>4, <3>2, SumSame
    <3>4. SumOver(M, Column(tab, n)) \in Nat
      <4> HIDE DEF M
      <4> QED BY <1>4, ColumnAddsUp
    <3> QED BY <1>6, <2>7, <3>3, <3>4 DEF new
  <2> QED BY <2>6, <2>7
<1>7. CASE /\ db' = [db EXCEPT !.minute[at] = Plus(@, rows)]
           /\ wrote' = [wrote EXCEPT ![at] = Plus(@, rows)]
  <2> DEFINE k == IF HourOf(at) = h THEN rows[n] ELSE 0
  <2>1. k \in Nat BY <1>1
  <2>2. db'.hour = db.hour /\ db'.minute = [db.minute EXCEPT ![at] = Plus(@, rows)]
    <3> HIDE DEF rows, at
    <3> QED BY <1>1, <1>7 DEF Tiers
  <2>3. SumOver(M, Column(db'.minute, n)) = SumOver(M, Column(db.minute, n)) + k
    <3> HIDE DEF M
    <3> QED BY <1>1, <1>6, <2>1, <2>2
  <2>4. SumOver(M, Column(wrote', n)) = SumOver(M, Column(wrote, n)) + k
    <3> HIDE DEF M
    <3> QED BY <1>1, <1>6, <1>7, <2>1
  <2>5. HourOf(at) # h => k = 0 OBVIOUS
  <2>6. Usage(h, n)' = db.hour[h][n] + SumOver(M, Column(db'.minute, n)) BY <2>2 DEF Usage
  <2>7. Usage(h, n)' = Usage(h, n) + k
    <3>1. Usage(h, n) = db.hour[h][n] + SumOver(M, Column(db.minute, n)) BY DEF Usage
    <3> HIDE DEF M, k
    <3> QED BY <1>2, <2>1, <2>3, <2>6, <3>1
  <2> HIDE DEF k
  <2> QED BY <2>1, <2>4, <2>5, <2>7
<1> QED BY <1>5, <1>7 DEF WriteBatch

(* The times hours are compared by are numbers.                            *)
LEMMA HourEndIsNat == \A h \in Hours : h \in Nat /\ h * HourLen + Retention \in Nat
<1> TAKE h \in Hours
<1>1. PICK m \in Minutes : h = m \div HourLen BY DEF Hours, HourOf
<1>2. m \in Nat /\ HourLen \in Nat \ {0} /\ Retention \in Nat BY SeriesAssumption DEF Minutes
<1>3. h \in Nat BY <1>1, <1>2
<1> QED BY <1>2, <1>3

(* An hour that is past for the pass is past for the clock.                *)
LEMMA PastIsPast == TypeInv => \A h \in Hours : IsPast(h) => h * HourLen + Retention < now
<1> SUFFICES ASSUME TypeInv, NEW h \in Hours, IsPast(h) PROVE h * HourLen + Retention < now OBVIOUS
<1>1. now \in Nat /\ maint.at \in Nat /\ maint.at <= now
      BY SeriesAssumption DEF TypeInv, Types, PassIsPast, Passes, Minutes
<1>2. h * HourLen + Retention < maint.at BY DEF IsPast
<1> QED BY <1>1, <1>2, HourEndIsNat

(* Pruning empties hours that are past the retention, and no other.         *)
LEMMA PruningForgets ==
  ASSUME TypeInv, TypeInv', PruneHour, NEW h \in Hours, NEW n \in Names
  PROVE  /\ Usage(h, n)' <= Usage(h, n)
         /\ ~IsPast(h) => Usage(h, n)' = Usage(h, n)
<1>1. db \in Tiers BY DEF TypeInv, Types
<1>2. Usage(h, n) \in Nat /\ db.hour[h][n] \in Nat /\ SumOver(MinutesOf(h), Column(db.minute, n)) \in Nat
      BY UsageIsContent DEF TypeInv
<1>4. CASE UNCHANGED db BY <1>2, <1>4 DEF Usage
<1>5. CASE db' = [db EXCEPT !.hour = [g \in Hours |-> IF IsPast(g) THEN NoRows ELSE db.hour[g]]]
  <2>1. db'.minute = db.minute /\ db'.hour[h] = IF IsPast(h) THEN NoRows ELSE db.hour[h]
        BY <1>1, <1>5 DEF Tiers
  <2>2. Usage(h, n)' = (IF IsPast(h) THEN 0 ELSE db.hour[h][n]) + SumOver(MinutesOf(h), Column(db.minute, n))
        BY <2>1 DEF Usage, NoRows
  <2>3. Usage(h, n) = db.hour[h][n] + SumOver(MinutesOf(h), Column(db.minute, n)) BY DEF Usage
  <2> QED BY <1>2, <2>2, <2>3
<1> QED BY <1>4, <1>5 DEF PruneHour

(* Until an hour is pruned, its minutes and the hour row add up to what was *)
(* committed for it, whatever the rollup, its failures and the end of the   *)
(* process interrupt (runRollupOnce).                                       *)
TierInv == TypeInv /\ WorkIsDb /\ TiersAddUp

(* Every step keeps the tiers adding up, action by action.                 *)
LEMMA TiersKeep == TierInv /\ [Next]_vars => TierInv'
<1> SUFFICES ASSUME TierInv, [Next]_vars PROVE TierInv' OBVIOUS
<1> USE DEF history
<1>0. TypeInv /\ TypeInv' /\ WorkIsDb /\ TiersAddUp BY TypesKeep DEF TierInv
<1>1. ASSUME WorkIsDb', \A h \in Hours, n \in Names : Usage(h, n)' = Usage(h, n),
             now <= now', UNCHANGED wrote
      PROVE  TierInv'
  <2>1. now \in Nat /\ now' \in Nat BY <1>0, SeriesAssumption DEF TypeInv, Types, Minutes
  <2>2. ASSUME NEW h \in Hours, NEW n \in Names, h * HourLen + Retention >= now'
        PROVE  Usage(h, n)' = SumOver(MinutesOf(h), Column(wrote, n))'
    <3>1. h * HourLen + Retention \in Nat BY HourEndIsNat
    <3>2. h * HourLen + Retention >= now BY <1>1, <2>1, <2>2, <3>1
    <3>3. Usage(h, n) = SumOver(MinutesOf(h), Column(wrote, n)) BY <1>0, <3>2 DEF TiersAddUp
    <3> QED BY <1>1, <3>3
  <2>3. TiersAddUp' BY <2>2 DEF TiersAddUp
  <2> QED BY <1>0, <1>1, <2>3 DEF TierInv
<1>2. now \in Nat BY <1>0, TimeIsNat DEF TypeInv, Types
<1>3. ASSUME NEW t \in Threads, WriteConfig(t) \/ WriteApp(t) PROVE TierInv'
  <2>1. PICK kind, next : WriteBatch(t, kind, next) BY <1>3 DEF WriteConfig, WriteApp
  <2>2. ASSUME NEW h \in Hours, NEW n \in Names, h * HourLen + Retention >= now'
        PROVE  Usage(h, n)' = SumOver(MinutesOf(h), Column(wrote, n))'
    <3>1. Usage(h, n) = SumOver(MinutesOf(h), Column(wrote, n))
          BY <1>0, <2>1, <2>2 DEF TiersAddUp, WriteBatch
    <3> QED BY <1>0, <2>1, <3>1, BatchAddsToBoth
  <2>3. TiersAddUp' BY <2>2 DEF TiersAddUp
  <2>4. WorkIsDb' BY <2>1 DEF WriteBatch, RepoIsFree, WorkIsDb, Transaction
  <2> QED BY <1>0, <2>3, <2>4 DEF TierInv
<1>4. CASE PruneHour
  <2>1. ASSUME NEW h \in Hours, NEW n \in Names, h * HourLen + Retention >= now'
        PROVE  Usage(h, n)' = SumOver(MinutesOf(h), Column(wrote, n))'
    <3>1. now' = now /\ wrote' = wrote BY <1>4 DEF PruneHour
    <3>2. h * HourLen + Retention \in Nat BY HourEndIsNat
    <3>3. ~IsPast(h) BY <1>0, <1>2, <2>1, <3>1, <3>2, PastIsPast
    <3>4. Usage(h, n)' = Usage(h, n) BY <1>0, <1>4, <3>3, PruningForgets
    <3>5. Usage(h, n) = SumOver(MinutesOf(h), Column(wrote, n)) BY <1>0, <2>1, <3>1 DEF TiersAddUp
    <3> QED BY <3>1, <3>4, <3>5
  <2>2. TiersAddUp' BY <2>1 DEF TiersAddUp
  <2>3. WorkIsDb' BY <1>4 DEF PruneHour, NoMaint, WorkIsDb, Transaction
  <2> QED BY <1>0, <2>2, <2>3 DEF TierInv
<1>5. CASE Tick BY <1>0, <1>1, <1>2, <1>5, PassKeepsUsage DEF Tick
<1>6. CASE Refresh BY <1>0, <1>1, <1>2, <1>6, PassKeepsUsage DEF Refresh
<1>7. ASSUME NEW t \in Threads, (\E n \in Names : TakeTime(t, n)) \/ Add(t) PROVE TierInv'
  <2>1. now' = now /\ wrote' = wrote BY <1>7 DEF TakeTime, Add
  <2>2. WorkIsDb' /\ \A h \in Hours, n \in Names : Usage(h, n)' = Usage(h, n)
        BY <1>0, <1>7, PassKeepsUsage
  <2> QED BY <1>1, <1>2, <2>1, <2>2
<1>8. CASE RollConfigs \/ DropConfigs \/ RollApps \/ DropApps
  <2>1. now' = now /\ wrote' = wrote
        BY <1>8 DEF RollConfigs, DropConfigs, RollApps, DropApps, Statement
  <2>2. WorkIsDb' /\ \A h \in Hours, n \in Names : Usage(h, n)' = Usage(h, n)
        BY <1>0, <1>8, PassKeepsUsage
  <2> QED BY <1>1, <1>2, <2>1, <2>2
<1>9. CASE BeginRollup \/ Commit \/ Rollback
  <2>1. now' = now /\ wrote' = wrote BY <1>9 DEF BeginRollup, Commit, Rollback
  <2>2. WorkIsDb' /\ \A h \in Hours, n \in Names : Usage(h, n)' = Usage(h, n)
        BY <1>0, <1>9, PassKeepsUsage
  <2> QED BY <1>1, <1>2, <2>1, <2>2
<1>10. CASE ProcessEnds
  <2>1. now' = now /\ wrote' = wrote BY <1>10 DEF ProcessEnds
  <2>2. WorkIsDb' /\ \A h \in Hours, n \in Names : Usage(h, n)' = Usage(h, n)
        BY <1>0, <1>10, PassKeepsUsage
  <2> QED BY <1>1, <1>2, <2>1, <2>2
<1>11. CASE UNCHANGED vars BY <1>0, <1>1, <1>2, <1>11, PassKeepsUsage DEF vars
<1> QED BY <1>3, <1>4, <1>5, <1>6, <1>7, <1>8, <1>9, <1>10, <1>11 DEF Next

(* Empty tiers hold nothing.                                               *)
LEMMA EmptyTiers ==
  ASSUME NEW h \in Hours, NEW n \in Names
  PROVE  SumOver(MinutesOf(h), Column(NoMinutes, n)) = 0 /\ Empty.hour[h][n] = 0
<1>1. \A m \in MinutesOf(h) : Column(NoMinutes, n)[m] = 0 BY Finite DEF Column, NoMinutes, NoRows
<1>2. SumOver(MinutesOf(h), Column(NoMinutes, n)) = 0 BY <1>1, Finite, SumOfZeros
<1> QED BY <1>2 DEF Empty, NoRows

(* The program starts with an empty history.                               *)
LEMMA UsageInitially == Init => TierInv /\ \A h \in Hours, n \in Names : Usage(h, n) = 0
<1> SUFFICES ASSUME Init PROVE TierInv /\ \A h \in Hours, n \in Names : Usage(h, n) = 0 OBVIOUS
<1>1. \A h \in Hours, n \in Names : Usage(h, n) = 0 BY EmptyTiers DEF Init, Usage, Empty
<1>2. TiersAddUp BY <1>1, EmptyTiers DEF Init, TiersAddUp
<1>3. WorkIsDb BY DEF Init, WorkIsDb, NoMaint, Transaction
<1> QED BY <1>1, <1>2, <1>3, TypesInitially DEF TierInv

(* The sum over both tiers is what was committed, for every hour within the *)
(* retention and in every state, a half done rollup included.               *)
THEOREM NothingIsCountedTwice == Spec => []TiersAddUp
<1>1. TierInv => TiersAddUp BY DEF TierInv
<1> QED BY UsageInitially, TiersKeep, <1>1, PTL DEF Spec
-----------------------------------------------------------------------------
(* The traffic history implements the ledger.                              *)

Shown == [h \in Hours |-> [n \in Names |-> Usage(h, n)]]

(* Every step of the history is a step of the ledger or stutters, action   *)
(* by action.                                                              *)
LEMMA StepIsLedgerStep ==
  ASSUME TierInv, TierInv', [Next]_vars
  PROVE  [Ledger!Next]_<<now, Shown>>
<1> USE DEF history
<1>0. TypeInv /\ TypeInv' /\ WorkIsDb BY DEF TierInv
<1>1. ASSUME \A h \in Hours, n \in Names : Usage(h, n)' = Usage(h, n) PROVE Shown' = Shown
  BY <1>1 DEF Shown
<1>2. ASSUME NEW t \in Threads, WriteConfig(t) \/ WriteApp(t) PROVE Ledger!Next
  <2>1. PICK kind, next : WriteBatch(t, kind, next) BY <1>2 DEF WriteConfig, WriteApp
  <2> DEFINE h == HourOf(thr[t].at)
  <2>2. h \in Hours
    <3>1. thr[t].at \in Minutes BY <1>0 DEF TypeInv, Types, Calls
    <3> QED BY <3>1 DEF Hours
  <2>3. \A g \in Hours, n \in Names : /\ Usage(g, n)' >= Usage(g, n)
                                      /\ g # h => Usage(g, n)' = Usage(g, n)
    <3> TAKE g \in Hours, n \in Names
    <3>1. PICK k \in Nat : (HourOf(thr[t].at) # g => k = 0) /\ Usage(g, n)' = Usage(g, n) + k
          BY <1>0, <2>1, BatchAddsToBoth
    <3>2. Usage(g, n) \in Nat BY <1>0, UsageIsContent DEF TypeInv
    <3> QED BY <3>1, <3>2
  <2> HIDE DEF h
  <2>4. \A n \in Names : Shown'[h][n] >= Shown[h][n] BY <2>2, <2>3 DEF Shown
  <2>5. Shown' = [Shown EXCEPT ![h] = Shown'[h]] BY <2>2, <2>3 DEF Shown
  <2>6. now' = now BY <2>1 DEF WriteBatch
  <2> QED BY <2>2, <2>4, <2>5, <2>6 DEF Shown, Ledger!Next, Ledger!Record
<1>3. CASE PruneHour
  <2> DEFINE past == {h \in Hours : IsPast(h)}
  <2>1. \A h \in past : h * HourLen + Retention < now /\ \A n \in Names : Shown'[h][n] <= Shown[h][n]
    <3>1. \A h \in Hours, n \in Names : Shown'[h][n] = Usage(h, n)' /\ Shown[h][n] = Usage(h, n)
          BY DEF Shown
    <3>2. \A h \in Hours, n \in Names : Shown'[h][n] <= Shown[h][n]
      <4> HIDE DEF Shown
      <4> QED BY <1>0, <1>3, <3>1, PruningForgets
    <3>3. \A h \in past : h * HourLen + Retention < now BY <1>0, PastIsPast
    <3> HIDE DEF past
    <3>4. past \subseteq Hours BY DEF past
    <3> QED BY <3>2, <3>3, <3>4
  <2>2. Shown' = [h \in Hours |-> IF h \in past THEN Shown'[h] ELSE Shown[h]]
        BY <1>0, <1>3, PruningForgets DEF Shown
  <2>3. now' = now /\ past \in SUBSET Hours BY <1>3 DEF PruneHour
  <2> HIDE DEF past
  <2>4. Ledger!Forget(past) BY <2>1, <2>2, <2>3 DEF Shown, Ledger!Forget
  <2> QED BY <2>3, <2>4 DEF Ledger!Next
<1>4. CASE Tick
  <2>1. Shown' = Shown BY <1>0, <1>1, <1>4, PassKeepsUsage
  <2>2. now' > now BY <1>0, <1>4, TimeIsNat DEF Tick, TypeInv, Types
  <2> QED BY <2>1, <2>2 DEF Shown, Ledger!Next, Ledger!Tick
<1>5. ASSUME Refresh \/ (\E t \in Threads : (\E n \in Names : TakeTime(t, n)) \/ Add(t))
             \/ BeginRollup \/ RollConfigs \/ DropConfigs \/ RollApps \/ DropApps \/ Commit \/ Rollback
             \/ ProcessEnds \/ UNCHANGED vars
      PROVE  UNCHANGED <<now, Shown>>
  <2>1. Shown' = Shown BY <1>0, <1>1, <1>5, PassKeepsUsage
  <2>2. now' = now
    BY <1>5 DEF Refresh, TakeTime, Add, BeginRollup, RollConfigs, DropConfigs, RollApps, DropApps,
                Statement, Commit, Rollback, ProcessEnds, vars
  <2> QED BY <2>1, <2>2
<1> QED BY <1>2, <1>3, <1>4, <1>5 DEF Next

(* Readers of whole hours see the abstract ledger: only recording adds, and *)
(* only pruning what is past the retention takes away.                      *)
THEOREM ImplementsLedger == Spec => RefinesLedger
<1>1. Init => Ledger!Init
  <2> SUFFICES ASSUME Init PROVE Ledger!Init OBVIOUS
  <2>1. \A h \in Hours, n \in Names : Usage(h, n) = 0 BY UsageInitially
  <2> QED BY <2>1 DEF Init, Ledger!Init
<1>2. TierInv /\ TierInv' /\ [Next]_vars => [Ledger!Next]_<<now, Shown>>
  BY StepIsLedgerStep
<1>3. TierInv /\ TierInv' /\ [Next]_vars
        => [Ledger!Next]_<<now, [h \in Hours |-> [n \in Names |-> Usage(h, n)]]>>
  BY <1>2 DEF Shown
<1> QED BY UsageInitially, TiersKeep, <1>1, <1>3, PTL DEF Spec, RefinesLedger, Ledger!Spec
=============================================================================
