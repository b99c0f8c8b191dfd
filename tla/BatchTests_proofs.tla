------------------------- MODULE BatchTests_proofs --------------------------
(***************************************************************************)
(* Proofs about tests of many profiles, for every number of profiles,      *)
(* tests, slices, stops and failures: whose turn the mutex grants, what    *)
(* auto clear goes by when it deletes a profile, and which bytes a speed   *)
(* test is credited with.                                                  *)
(***************************************************************************)
EXTENDS BatchTests, FiniteSetTheorems, TLAPS
-----------------------------------------------------------------------------
(* Types: what the proofs need of them.                                    *)

Phases == {"none", "begun", "loop", "join", "speed", "end", "clear", "done"}
JobPhases == {"queued", "call", "core", "back", "counting", "checking", "done"}
Selections == {<< >>} \cup {SlicesOf(kind, list) : kind \in {"url", "speed"}, list \in Lists}
Tests == [pc : Phases, kind : {None, "url", "speed"}, list : Selections, i : Nat \ {0}, n : Nat,
          counter : Nat, gave : BOOLEAN, group : BOOLEAN]

Types ==
  /\ plan \in Plans /\ test \in [1 .. MaxTests -> Tests] /\ tests \in 0 .. MaxTests
  /\ held \in BOOLEAN /\ {"twice", "astray", "misread"} \subseteq DOMAIN odd /\ odd.twice \in BOOLEAN
  /\ \A k \in DOMAIN job : /\ k[1] \in 1 .. tests /\ k[2] \in Nat
                           /\ DOMAIN job[k] = DOMAIN NoJob /\ job[k].pc \in JobPhases

(* A test not started yet has nothing; a kind of test has its own phases,  *)
(* and a selection it can work on.                                         *)
Fresh == \A t \in 1 .. MaxTests : t > tests <=> test[t].pc = "none"
Kinds == /\ \A t \in 1 .. MaxTests : /\ test[t].pc \in {"join", "clear"} => test[t].kind = "url"
                                     /\ test[t].pc = "speed" => test[t].kind = "speed"
                                     /\ test[t].pc # "none" => test[t].kind \in {"url", "speed"}
                                     /\ test[t].pc # "none" /\ test[t].kind = "url" => test[t].list \in Lists
         /\ \A k \in DOMAIN job : job[k].pc = "counting" => KindOf(k) = "url"

TypeInv == Types /\ Fresh /\ Kinds
-----------------------------------------------------------------------------
(* The mutex.  It is a test's until that test ends or the last worker of   *)
(* its slice has unlocked it; from there it may be another test's until    *)
(* the join takes it back.                                                 *)
Holds(t) == \/ test[t].pc \in {"begun", "loop", "speed"}
            \/ test[t].pc = "join" /\ ~test[t].gave
Workers == {k \in DOMAIN job : Working(k)}

Mutex ==
  /\ \A t \in 1 .. MaxTests : Holds(t) => held
  /\ \A t, u \in 1 .. MaxTests : Holds(t) /\ Holds(u) => t = u
  /\ \A k \in Workers : /\ Holds(k[1]) /\ test[k[1]].pc \in {"join", "speed"}
                         /\ test[k[1]].i = k[2]

(* While a slice is joined, its workers are counted or still at work.      *)
Counted ==
  \A t \in 1 .. MaxTests : test[t].pc = "join" /\ ~test[t].gave =>
    IsFiniteSet(Workers) /\ test[t].counter + Cardinality(Workers) = test[t].n

TurnInv == TypeInv /\ (odd.twice \/ (Mutex /\ Counted))

-----------------------------------------------------------------------------
(* What auto clear goes by.                                                *)

(* The calls of a slice have a number of their own.                        *)
KeyOrder == \A k \in DOMAIN job :
  \/ k[2] < test[k[1]].i
  \/ k[2] = test[k[1]].i /\ test[k[1]].pc \in {"join", "speed"}

FullHasNoTags == \A k \in DOMAIN job : job[k].ent # None => job[k].tags = << >>

(* A latency is the profile's own, unless it went astray or a call is still *)
(* to have the last word on it.                                            *)
Probing(k) == job[k].pc \in {"call", "core", "back"} /\ KindOf(k) = "url"
Probed(p) == \E k \in DOMAIN job : p \in Covers(k) /\ Probing(k)
OwnLatency == \A p \in Profiles \ Gone :
  latency[p] \in {None, Aborted, p} \/ p \in odd.astray \/ Probed(p)

ClearInv == KeyOrder /\ FullHasNoTags /\ OwnLatency /\ dead \subseteq Profiles
-----------------------------------------------------------------------------
(* Records and tables of records.                                          *)

(* An update of a job leaves the other jobs, and drops only what is over.  *)
LEMMA UpdateIs ==
  ASSUME NEW k \in DOMAIN job, NEW r, Update(k, r)
  PROVE  /\ DOMAIN job' \subseteq DOMAIN job
         /\ \A l \in DOMAIN job' : job'[l] = IF l = k THEN r ELSE job[l]
         /\ \A l \in DOMAIN job \ DOMAIN job' : (IF l = k THEN r ELSE job[l]).pc = "done"
<1> DEFINE jobs == [job EXCEPT ![k] = r]
           over(l) == jobs[l].pc = "done" /\ jobs[l].poll = "asleep" /\ jobs[l].left = {}
           rest == {l \in DOMAIN jobs : ~over(l)}
<1>1. DOMAIN jobs = DOMAIN job /\ \A l \in DOMAIN job : jobs[l] = IF l = k THEN r ELSE job[l]
  OBVIOUS
<1>2. job' = Restrict(jobs, rest) BY DEF Update, Tidy
<1>3. DOMAIN job' = rest /\ \A l \in rest : job'[l] = jobs[l]
  <2> HIDE DEF rest, jobs
  <2> QED BY <1>2 DEF Restrict
<1>4. \A l \in DOMAIN jobs \ rest : jobs[l].pc = "done" OBVIOUS
<1> HIDE DEF jobs, rest
<1>5. rest \subseteq DOMAIN jobs BY DEF rest
<1> QED BY <1>1, <1>3, <1>4, <1>5

(* The fields of a job.                                                    *)
LEMMA JobFields ==
  /\ {"pc", "poll", "ctx", "tags", "ent", "left", "cut", "ok", "moved", "got"} \subseteq DOMAIN NoJob
  /\ NoJob.pc = "queued"
BY DEF NoJob

(* Who works is known by the phase.                                        *)
LEMMA WorkersAre == Workers = {k \in DOMAIN job : job[k].pc \notin {"checking", "done"}}
BY DEF Workers, Working

(* A job goes on with what it does, or ends: the types stay.               *)
LEMMA JobKeepsTypes ==
  ASSUME TypeInv, NEW k \in DOMAIN job, NEW r, Update(k, r), DOMAIN r = DOMAIN NoJob,
         r.pc \in JobPhases, r.pc = "counting" => KindOf(k) = "url",
         UNCHANGED <<plan, held, test, tests>>, odd'.twice = odd.twice,
         {"twice", "astray", "misread"} \subseteq DOMAIN odd'
  PROVE  TypeInv'
<1>1. /\ DOMAIN job' \subseteq DOMAIN job
      /\ \A l \in DOMAIN job' : job'[l] = IF l = k THEN r ELSE job[l]
  BY UpdateIs
<1>2. Types' BY <1>1 DEF TypeInv, Types
<1>3. Fresh' BY DEF TypeInv, Fresh
<1>4. Kinds' BY <1>1 DEF TypeInv, Kinds, KindOf
<1> QED BY <1>2, <1>3, <1>4 DEF TypeInv

(* So does the mutex, when it does not end as a worker the join waits for.  *)
LEMMA JobKeepsMutex ==
  ASSUME TypeInv, Mutex, Counted, NEW k \in DOMAIN job, NEW r, Update(k, r),
         r.pc \in {"checking", "done"} \/ Working(k),
         r.pc \in {"checking", "done"} => ~Working(k) \/ KindOf(k) = "speed",
         UNCHANGED <<plan, held, test, tests>>
  PROVE  (Mutex /\ Counted)'
<1>1. /\ DOMAIN job' \subseteq DOMAIN job
      /\ \A l \in DOMAIN job' : job'[l] = IF l = k THEN r ELSE job[l]
      /\ \A l \in DOMAIN job \ DOMAIN job' : (IF l = k THEN r ELSE job[l]).pc = "done"
  BY UpdateIs
<1>2. Workers' = {l \in DOMAIN job' : job'[l].pc \notin {"checking", "done"}} BY WorkersAre DEF Workers, Working
<1>3. Workers' \subseteq Workers BY <1>1, <1>2, WorkersAre DEF Working
<1>4. CASE r.pc \notin {"checking", "done"} \/ ~Working(k)
  <2>1. Workers' = Workers BY <1>1, <1>2, <1>4, WorkersAre DEF Working
  <2> QED BY <2>1 DEF Mutex, Counted, Holds
<1>5. CASE KindOf(k) = "speed" /\ Working(k)
  <2>1. k \in Workers /\ k[1] \in 1 .. MaxTests
    <3>1. k[1] \in 1 .. tests /\ tests \in 0 .. MaxTests BY DEF TypeInv, Types
    <3>2. k[1] \in 1 .. MaxTests BY <3>1, BatchAssumption
    <3> QED BY <1>5, <3>2 DEF Workers
  <2>2. Holds(k[1]) /\ test[k[1]].pc # "join" BY <1>5, <2>1 DEF Mutex, TypeInv, Kinds, KindOf
  <2>3. \A t \in 1 .. MaxTests : ~(test[t].pc = "join" /\ ~test[t].gave)
    BY <2>1, <2>2 DEF Mutex, Holds
  <2>5. Counted' BY <2>3 DEF Counted
  <2>6. Mutex' BY <1>3 DEF Mutex, Holds
  <2> QED BY <2>5, <2>6
<1> QED BY <1>4, <1>5

(* Together: such a step keeps the turns.                                  *)
LEMMA JobKeepsTurn ==
  ASSUME TurnInv, NEW k \in DOMAIN job, NEW r, Update(k, r), DOMAIN r = DOMAIN NoJob,
         r.pc \in JobPhases, r.pc = "counting" => KindOf(k) = "url",
         r.pc \in {"checking", "done"} \/ Working(k),
         r.pc \in {"checking", "done"} => ~Working(k) \/ KindOf(k) = "speed",
         UNCHANGED <<plan, held, test, tests>>, odd'.twice = odd.twice,
         {"twice", "astray", "misread"} \subseteq DOMAIN odd'
  PROVE  TurnInv'
<1>1. TypeInv' BY JobKeepsTypes DEF TurnInv
<1>2. ~odd.twice => (Mutex /\ Counted)' BY JobKeepsMutex DEF TurnInv
<1> QED BY <1>1, <1>2 DEF TurnInv

(* Nothing of the tests changes.                                           *)
LEMMA TurnStays ==
  ASSUME TurnInv, UNCHANGED <<plan, held, test, tests, job, odd>> PROVE TurnInv'
BY DEF TurnInv, TypeInv, Types, Fresh, Kinds, KindOf, Mutex, Counted, Holds, Workers, Working

(* Nobody tests, nobody holds the mutex.                                   *)
LEMMA TurnInitially == Init => TurnInv
<1> SUFFICES ASSUME Init PROVE TurnInv OBVIOUS
<1>1. DOMAIN job = {} BY DEF Init
<1>2. NoTest \in Tests /\ NoTest.pc = "none" BY DEF NoTest, Tests, Phases, Selections
<1>3. test = [t \in 1 .. MaxTests |-> NoTest] BY DEF Init
<1>4. 0 \in 0 .. MaxTests BY BatchAssumption
<1>5. Types BY <1>1, <1>2, <1>3, <1>4 DEF Init, Types
<1>6. \A t \in 1 .. MaxTests : test[t].pc = "none" BY <1>2, <1>3
<1>7. Fresh /\ Kinds BY <1>1, <1>6, BatchAssumption DEF Fresh, Kinds, Init
<1>8. Workers = {} BY <1>1 DEF Workers
<1>9. IsFiniteSet({}) BY FS_EmptySet
<1>10. Mutex /\ Counted BY <1>6, <1>8, <1>9 DEF Mutex, Counted, Holds
<1> QED BY <1>5, <1>7, <1>10 DEF TurnInv, TypeInv

(* A test goes on: the types stay.                                         *)
LEMMA TestKeepsTypes ==
  ASSUME TypeInv, NEW t \in 1 .. MaxTests, NEW r \in Tests, test' = [test EXCEPT ![t] = r],
         test[t].pc # "none", r.pc # "none", r.kind = test[t].kind, r.list = test[t].list,
         r.pc \in {"join", "clear"} => r.kind = "url", r.pc = "speed" => r.kind = "speed",
         UNCHANGED <<plan, tests>>, held' \in BOOLEAN, odd'.twice \in BOOLEAN,
         {"twice", "astray", "misread"} \subseteq DOMAIN odd',
         \A k \in DOMAIN job' : /\ k[1] \in 1 .. tests /\ k[2] \in Nat
                                /\ DOMAIN job'[k] = DOMAIN NoJob /\ job'[k].pc \in JobPhases
                                /\ job'[k].pc = "counting" => test[k[1]].kind = "url"
  PROVE  TypeInv' /\ \A u \in 1 .. MaxTests : test'[u] = IF u = t THEN r ELSE test[u]
<1>1. test \in [1 .. MaxTests -> Tests] /\ tests \in 0 .. MaxTests BY DEF TypeInv, Types
<1>2. \A u \in 1 .. MaxTests : test'[u] = IF u = t THEN r ELSE test[u] BY <1>1
<1>3. test' \in [1 .. MaxTests -> Tests] BY <1>1
<1>4. Types' BY <1>3 DEF TypeInv, Types
<1>5. t <= tests BY <1>1, BatchAssumption DEF TypeInv, Fresh
<1>6. Fresh' BY <1>1, <1>2, <1>5, BatchAssumption DEF TypeInv, Fresh
<1>7. \A k \in DOMAIN job' : k[1] \in 1 .. MaxTests BY <1>1, BatchAssumption
<1>8. \A u \in 1 .. MaxTests : test'[u].kind = test[u].kind BY <1>2
<1>9. \A k \in DOMAIN job' : job'[k].pc = "counting" => KindOf(k)' = "url"
  BY <1>7, <1>8 DEF KindOf
<1>10. \A u \in 1 .. MaxTests : /\ test'[u].pc \in {"join", "clear"} => test'[u].kind = "url"
                                /\ test'[u].pc = "speed" => test'[u].kind = "speed"
                                /\ test'[u].pc # "none" => test'[u].kind \in {"url", "speed"}
                                /\ test'[u].pc # "none" /\ test'[u].kind = "url" => test'[u].list \in Lists
  BY <1>2 DEF TypeInv, Kinds
<1>11. Kinds' BY <1>9, <1>10 DEF Kinds
<1> QED BY <1>2, <1>4, <1>6, <1>11 DEF TypeInv

(* What TestKeepsTypes asks of the jobs, of jobs that stay.                *)
LEMMA JobsStay ==
  ASSUME TypeInv, job' = job
  PROVE  \A k \in DOMAIN job' : /\ k[1] \in 1 .. tests /\ k[2] \in Nat
                                /\ DOMAIN job'[k] = DOMAIN NoJob /\ job'[k].pc \in JobPhases
                                /\ job'[k].pc = "counting" => test[k[1]].kind = "url"
BY DEF TypeInv, Types, Kinds, KindOf

(* A call belongs to a test there is.                                      *)
LEMMA WorkerOf ==
  ASSUME TypeInv PROVE \A k \in DOMAIN job : k[1] \in 1 .. MaxTests
<1>1. tests \in 0 .. MaxTests /\ \A k \in DOMAIN job : k[1] \in 1 .. tests BY DEF TypeInv, Types
<1> QED BY <1>1, BatchAssumption

(* Whoever holds the mutex outside a join and a speed test has no workers. *)
LEMMA NobodyWorks ==
  ASSUME TypeInv, Mutex, NEW t \in 1 .. MaxTests, Holds(t), test[t].pc \notin {"join", "speed"}
  PROVE  Workers = {}
<1> SUFFICES ASSUME NEW k \in Workers PROVE FALSE OBVIOUS
<1>1. k[1] \in 1 .. MaxTests BY WorkerOf DEF Workers
<1>2. Holds(k[1]) /\ test[k[1]].pc \in {"join", "speed"} BY DEF Mutex
<1>3. k[1] = t BY <1>1, <1>2 DEF Mutex
<1> QED BY <1>2, <1>3

(* When nobody works, the mutex is all there is to know.                   *)
LEMMA IdleMutex ==
  ASSUME Workers' = {}, NEW t \in 1 .. MaxTests,
         \A u \in 1 .. MaxTests \ {t} : ~Holds(u)',
         Holds(t)' => held' /\ test'[t].pc # "join"
  PROVE  (Mutex /\ Counted)'
<1>1. Mutex' BY DEF Mutex
<1>2. IsFiniteSet({}) BY FS_EmptySet
<1>3. Counted' BY <1>2 DEF Counted, Holds
<1> QED BY <1>1, <1>3

(* An unlock by someone who does not hold the mutex is remembered.         *)
LEMMA UnlockIs ==
  ASSUME TypeInv, NEW again \in BOOLEAN, Unlock(again)
  PROVE  /\ held' = FALSE /\ odd'.twice \in BOOLEAN /\ {"twice", "astray", "misread"} \subseteq DOMAIN odd'
         /\ odd'.twice <=> (odd.twice \/ again)
<1>1. odd' = [odd EXCEPT !.twice = odd.twice \/ again] /\ held' = FALSE BY DEF Unlock
<1>2. "twice" \in DOMAIN odd /\ {"twice", "astray", "misread"} \subseteq DOMAIN odd /\ odd.twice \in BOOLEAN
  BY DEF TypeInv, Types
<1>3. odd'.twice = (odd.twice \/ again) /\ DOMAIN odd' = DOMAIN odd BY <1>1, <1>2
<1> QED BY <1>1, <1>2, <1>3

(* A test starts only with the mutex free: nobody works then.              *)
LEMMA StartKeepsTurn ==
  ASSUME TurnInv, NEW kind \in plan.kinds, NEW list \in Lists, StartTest(kind, list) PROVE TurnInv'
<1> DEFINE t == tests + 1
           r == [NoTest EXCEPT !.pc = "begun", !.kind = kind, !.list = SlicesOf(kind, list)]
<1>0. TypeInv /\ Types /\ Fresh /\ Kinds BY DEF TurnInv, TypeInv
<1>1. kind \in {"url", "speed"} /\ plan.tests \in 0 .. MaxTests BY <1>0, BatchAssumption DEF Types
<1>2. t \in 1 .. MaxTests /\ tests' = t /\ tests \in 0 .. MaxTests /\ t \in 0 .. MaxTests
  BY <1>0, <1>1, BatchAssumption DEF StartTest, Types
<1>3. r \in Tests /\ r.pc = "begun" /\ r.kind = kind /\ r.list = SlicesOf(kind, list)
  <2>1. SlicesOf(kind, list) \in Selections BY <1>1 DEF Selections
  <2>2. 0 \in Nat /\ 1 \in Nat \ {0} OBVIOUS
  <2> HIDE DEF Selections
  <2> QED BY <1>1, <2>1, <2>2 DEF NoTest, Tests, Phases
<1>4. test' = [test EXCEPT ![t] = r] /\ ~held /\ held' = TRUE /\ job' = job /\ odd' = odd /\ plan' = plan
  <2>1. test' = [test EXCEPT ![tests'] = r] BY DEF StartTest
  <2>2. test' = [test EXCEPT ![t] = r]
    <3> HIDE DEF r, t
    <3> QED BY <1>2, <2>1
  <2>3. ~held /\ held' = TRUE /\ job' = job /\ odd' = odd /\ plan' = plan BY DEF StartTest, group
  <2> QED BY <2>2, <2>3
<1> HIDE DEF r
<1>5. \A u \in 1 .. MaxTests : test'[u] = IF u = t THEN r ELSE test[u] BY <1>0, <1>2, <1>4 DEF Types
<1>6. test' \in [1 .. MaxTests -> Tests] BY <1>0, <1>2, <1>3, <1>4 DEF Types
<1>7. \A k \in DOMAIN job : k[1] \in 1 .. MaxTests /\ k[1] # t /\ k[1] \in 1 .. tests /\ k[1] \in 1 .. t
  <2>1. \A k \in DOMAIN job : k[1] \in 1 .. tests BY <1>0 DEF Types
  <2> QED BY <1>2, <2>1, BatchAssumption
<1>8. Types' BY <1>0, <1>2, <1>4, <1>6, <1>7 DEF Types
<1>9. Fresh' BY <1>0, <1>2, <1>3, <1>5, BatchAssumption DEF Fresh
<1>10. Kinds'
  <2>1. kind = "url" => r.list \in Lists BY <1>3 DEF SlicesOf
  <2>2. \A k \in DOMAIN job : KindOf(k)' = KindOf(k) BY <1>5, <1>7 DEF KindOf
  <2> QED BY <1>0, <1>1, <1>3, <1>4, <1>5, <2>1, <2>2 DEF Kinds
<1>11. ASSUME Mutex, Counted PROVE (Mutex /\ Counted)'
  <2>1. \A u \in 1 .. MaxTests : ~Holds(u) BY <1>4, <1>11 DEF Mutex
  <2>2. Workers = {} BY <1>7, <1>11, <2>1 DEF Mutex, Workers
  <2>3. Workers' = {} BY <1>4, <2>2 DEF Workers, Working
  <2>4. \A u \in 1 .. MaxTests \ {t} : ~Holds(u)' BY <1>5, <2>1 DEF Holds
  <2>5. test'[t].pc = "begun" BY <1>2, <1>3, <1>5
  <2> HIDE DEF t
  <2> QED BY <1>2, <1>4, <2>3, <2>4, <2>5, IdleMutex
<1> QED BY <1>4, <1>8, <1>9, <1>10, <1>11 DEF TurnInv, TypeInv

(* A step of a test's own thread that leaves the jobs alone.               *)
LEMMA ThreadKeepsTurn ==
  ASSUME TurnInv, NEW t \in 1 .. MaxTests, NEW r \in Tests, test' = [test EXCEPT ![t] = r],
         test[t].pc # "none", r.kind = test[t].kind, r.list = test[t].list,
         r.pc \in {"loop", "clear", "done"}, r.pc = "clear" => r.kind = "url", UNCHANGED <<plan, tests, job>>, held' \in BOOLEAN,
         odd'.twice \in BOOLEAN, {"twice", "astray", "misread"} \subseteq DOMAIN odd',
         odd.twice => odd'.twice,
         Mutex => \/ /\ Workers = {} /\ (r.pc = "loop" => held')
                     /\ \A u \in 1 .. MaxTests \ {t} : ~Holds(u)
                  \/ ~Holds(t) /\ r.pc # "loop" /\ held' = held
  PROVE  TurnInv'
<1>0. TypeInv BY DEF TurnInv
<1>1. TypeInv' /\ \A u \in 1 .. MaxTests : test'[u] = IF u = t THEN r ELSE test[u]
  BY <1>0, JobsStay, TestKeepsTypes
<1>2. ASSUME Mutex, Counted PROVE (Mutex /\ Counted)'
  <2>1. Workers' = Workers BY DEF Workers, Working
  <2>2. CASE /\ Workers = {} /\ (r.pc = "loop" => held')
             /\ \A u \in 1 .. MaxTests \ {t} : ~Holds(u)
    <3>1. \A u \in 1 .. MaxTests \ {t} : ~Holds(u)' BY <1>1, <2>2 DEF Holds
    <3>2. test'[t].pc = r.pc /\ test'[t].pc \in {"loop", "clear", "done"} BY <1>1
    <3>3. Holds(t)' => held' /\ test'[t].pc # "join" BY <2>2, <3>2 DEF Holds
    <3> QED BY <2>1, <2>2, <3>1, <3>3, IdleMutex
  <2>3. CASE ~Holds(t) /\ r.pc # "loop" /\ held' = held
    <3>1. \A u \in 1 .. MaxTests : Holds(u)' <=> Holds(u) BY <1>1, <2>3 DEF Holds
    <3>2. \A k \in Workers : k[1] \in 1 .. MaxTests /\ k[1] # t BY <1>0, <1>2, <2>3, WorkerOf DEF Mutex, Workers
    <3>3. Mutex' BY <1>1, <1>2, <2>1, <2>3, <3>1, <3>2 DEF Mutex
    <3>4. Counted' BY <1>1, <1>2, <2>1, <2>3, <3>1 DEF Counted, Holds
    <3> QED BY <3>3, <3>4
  <2> QED BY <1>2, <2>2, <2>3
<1> QED BY <1>1, <1>2 DEF TurnInv

(* The thread resets the stop flag and goes to its first slice.            *)
LEMMA BeginKeepsTurn == ASSUME TurnInv, NEW t \in 1 .. MaxTests, Begin(t) PROVE TurnInv'
<1> DEFINE r == [test[t] EXCEPT !.pc = "loop"]
<1>0. TypeInv /\ test[t] \in Tests BY DEF TurnInv, TypeInv, Types
<1>1. r \in Tests /\ r.pc = "loop" /\ r.kind = test[t].kind /\ r.list = test[t].list
  BY <1>0 DEF Tests, Phases
<1>2. test' = [test EXCEPT ![t] = r] /\ test[t].pc = "begun"
  BY <1>0 DEF Begin, TypeInv, Types
<1>3. UNCHANGED <<plan, held, job, tests, odd>> BY DEF Begin, group, history, uses
<1>4. held \in BOOLEAN /\ odd.twice \in BOOLEAN /\ {"twice", "astray", "misread"} \subseteq DOMAIN odd
  BY <1>0 DEF TypeInv, Types
<1>5. Mutex => /\ held /\ Workers = {} /\ \A u \in 1 .. MaxTests \ {t} : ~Holds(u)
  BY <1>0, <1>2, NobodyWorks DEF Mutex, Holds
<1> HIDE DEF r
<1> QED BY <1>0, <1>1, <1>2, <1>3, <1>4, <1>5, ThreadKeepsTurn

(* The join succeeds only when nobody holds the mutex: its slice is done.   *)
LEMMA JoinKeepsTurn == ASSUME TurnInv, NEW t \in 1 .. MaxTests, Join(t) PROVE TurnInv'
<1> DEFINE r == [test[t] EXCEPT !.pc = "loop", !.i = @ + 1, !.gave = FALSE]
<1>0. TypeInv /\ test[t] \in Tests BY DEF TurnInv, TypeInv, Types
<1>1. r \in Tests /\ r.pc = "loop" /\ r.kind = test[t].kind /\ r.list = test[t].list
  <2>1. test[t].i + 1 \in Nat \ {0} BY <1>0 DEF Tests
  <2> QED BY <1>0, <2>1 DEF Tests, Phases
<1>2. test' = [test EXCEPT ![t] = r] /\ test[t].pc = "join" /\ ~held /\ held' = TRUE
  BY <1>0 DEF Join, TypeInv, Types
<1>3. UNCHANGED <<plan, job, tests, odd>> BY DEF Join, group, history, uses
<1>4. odd.twice \in BOOLEAN /\ {"twice", "astray", "misread"} \subseteq DOMAIN odd
  BY <1>0 DEF TypeInv, Types
<1>5. ASSUME Mutex PROVE Workers = {} /\ \A u \in 1 .. MaxTests \ {t} : ~Holds(u)
  <2>1. \A u \in 1 .. MaxTests : ~Holds(u) BY <1>2, <1>5 DEF Mutex
  <2>2. \A k \in Workers : k[1] \in 1 .. MaxTests /\ Holds(k[1]) BY <1>0, <1>5, WorkerOf DEF Mutex, Workers
  <2> QED BY <2>1, <2>2
<1> HIDE DEF r
<1> QED BY <1>0, <1>1, <1>2, <1>3, <1>4, <1>5, ThreadKeepsTurn

(* A speed test made the call of its slice itself, and it is over.         *)
LEMMA NextSpeedKeepsTurn == ASSUME TurnInv, NEW t \in 1 .. MaxTests, NextSpeed(t) PROVE TurnInv'
<1> DEFINE r == [test[t] EXCEPT !.pc = "loop", !.i = @ + 1]
<1>0. TypeInv /\ test[t] \in Tests BY DEF TurnInv, TypeInv, Types
<1>1. r \in Tests /\ r.pc = "loop" /\ r.kind = test[t].kind /\ r.list = test[t].list
  <2>1. test[t].i + 1 \in Nat \ {0} BY <1>0 DEF Tests
  <2> QED BY <1>0, <2>1 DEF Tests, Phases
<1>2. test' = [test EXCEPT ![t] = r] /\ test[t].pc = "speed"
  BY <1>0 DEF NextSpeed, TypeInv, Types
<1>3. UNCHANGED <<plan, held, job, tests, odd>> BY DEF NextSpeed, group, history, uses
<1>4. held \in BOOLEAN /\ odd.twice \in BOOLEAN /\ {"twice", "astray", "misread"} \subseteq DOMAIN odd
  BY <1>0 DEF TypeInv, Types
<1>5. ASSUME Mutex PROVE held /\ Workers = {} /\ \A u \in 1 .. MaxTests \ {t} : ~Holds(u)
  <2>1. Holds(t) BY <1>2 DEF Holds
  <2>2. held /\ \A u \in 1 .. MaxTests \ {t} : ~Holds(u) BY <1>5, <2>1 DEF Mutex
  <2>3. ASSUME NEW k \in Workers PROVE FALSE
    <3>1. k[1] \in 1 .. MaxTests /\ Holds(k[1]) BY <1>0, <1>5, WorkerOf DEF Mutex, Workers
    <3>2. k[1] = t BY <2>2, <3>1
    <3>3. job[k].pc = "done" BY <3>2 DEF NextSpeed, Workers
    <3> QED BY <3>3 DEF Workers, Working
  <2> QED BY <2>2, <2>3
<1> HIDE DEF r
<1> QED BY <1>0, <1>1, <1>2, <1>3, <1>4, <1>5, ThreadKeepsTurn

(* The end of a test is where its last unlock belongs.                     *)
LEMMA FinishKeepsTurn == ASSUME TurnInv, NEW t \in 1 .. MaxTests, Finish(t) PROVE TurnInv'
<1> DEFINE next == IF test[t].kind = "url" /\ AutoClear THEN "clear" ELSE "done"
           r == [test[t] EXCEPT !.pc = next]
<1>0. TypeInv /\ test[t] \in Tests BY DEF TurnInv, TypeInv, Types
<1>1. /\ r \in Tests /\ r.pc \in {"clear", "done"} /\ r.kind = test[t].kind /\ r.list = test[t].list
      /\ r.pc = "clear" => r.kind = "url"
  BY <1>0 DEF Tests, Phases
<1>2. test' = [test EXCEPT ![t] = r] /\ test[t].pc = "loop"
  BY <1>0 DEF Finish, TypeInv, Types
<1>3. UNCHANGED <<plan, job, tests>> BY DEF Finish, group, uses
<1>4. held' = FALSE /\ odd'.twice \in BOOLEAN /\ {"twice", "astray", "misread"} \subseteq DOMAIN odd'
      /\ (odd.twice => odd'.twice)
  <2>1. (~held) \in BOOLEAN /\ Unlock(~held) BY DEF Finish
  <2> QED BY <1>0, <2>1, UnlockIs
<1>5. Mutex => Workers = {} /\ \A u \in 1 .. MaxTests \ {t} : ~Holds(u)
  BY <1>0, <1>2, NobodyWorks DEF Mutex, Holds
<1> HIDE DEF r
<1> QED BY <1>0, <1>1, <1>2, <1>3, <1>4, <1>5, ThreadKeepsTurn

(* Auto clear comes after the unlock and is nobody's turn.                 *)
LEMMA ClearKeepsTurn ==
  ASSUME TurnInv, NEW t \in 1 .. MaxTests, clearUnavailableProfiles(t) PROVE TurnInv'
<1> DEFINE r == [test[t] EXCEPT !.pc = "done"]
<1>0. TypeInv /\ test[t] \in Tests BY DEF TurnInv, TypeInv, Types
<1>1. r \in Tests /\ r.pc = "done" /\ r.kind = test[t].kind /\ r.list = test[t].list
  BY <1>0 DEF Tests, Phases
<1>2. test' = [test EXCEPT ![t] = r] /\ test[t].pc = "clear"
  BY <1>0 DEF clearUnavailableProfiles, TypeInv, Types
<1>3. UNCHANGED <<plan, held, job, tests, odd>> BY DEF clearUnavailableProfiles, group, history, uses
<1>4. held \in BOOLEAN /\ odd.twice \in BOOLEAN /\ {"twice", "astray", "misread"} \subseteq DOMAIN odd
  BY <1>0 DEF TypeInv, Types
<1>5. ~Holds(t) BY <1>2 DEF Holds
<1> HIDE DEF r
<1> QED BY <1>0, <1>1, <1>2, <1>3, <1>4, <1>5, ThreadKeepsTurn
-----------------------------------------------------------------------------
(* A slice: its calls come into being.                                     *)

(* The selection a latency test works on is a sequence of sequences.       *)
LEMMA SliceIsFinite ==
  ASSUME TypeInv, NEW t \in 1 .. MaxTests, test[t].pc = "loop", test[t].kind = "url",
         test[t].i \in 1 .. Len(test[t].list)
  PROVE  IsFiniteSet(ToSet(test[t].list[test[t].i]))
<1> DEFINE s == test[t].list[test[t].i]
<1>1. test[t].list \in Seq(Seq(Profiles)) BY BatchAssumption DEF TypeInv, Kinds
<1>2. s \in Seq(Profiles) BY <1>1
<1> HIDE DEF s
<1>3. DOMAIN s = 1 .. Len(s) /\ Len(s) \in Nat BY <1>2
<1>4. IsFiniteSet(1 .. Len(s)) BY <1>3, FS_Interval
<1>5. ToSet(s) = {s[j] : j \in 1 .. Len(s)} BY <1>3 DEF ToSet
<1>6. IsFiniteSet({s[j] : j \in 1 .. Len(s)})
  <2> DEFINE f == [j \in 1 .. Len(s) |-> s[j]]
             T == {s[j] : j \in 1 .. Len(s)}
  <2>1. f \in Surjection(1 .. Len(s), T) BY DEF Surjection
  <2> HIDE DEF f, T
  <2>2. IsFiniteSet(T) BY <1>4, <2>1, FS_Surjection
  <2> QED BY <2>2 DEF T
<1> QED BY <1>5, <1>6 DEF s

(* The calls of a slice are its own, and there are finitely many of them.   *)
LEMMA LaunchedAre ==
  ASSUME NEW t, NEW i, NEW found
  PROVE  /\ \A k \in DOMAIN Launched(t, i, found) :
              /\ k[1] = t /\ k[2] = i
              /\ DOMAIN Launched(t, i, found)[k] = DOMAIN NoJob
              /\ Launched(t, i, found)[k].pc = "queued"
         /\ IsFiniteSet(found) => IsFiniteSet(DOMAIN Launched(t, i, found))
<1> DEFINE full == {p \in found : form[p] = "full"}
           rest == IF {p \in found : form[p] = "plain"} = {} THEN {} ELSE {None}
           keys == {<<t, i, p>> : p \in full \cup rest}
           L == Launched(t, i, found)
<1>1. DOMAIN L = keys BY DEF Launched
<1>2. \A k \in keys : k[1] = t /\ k[2] = i OBVIOUS
<1>3. \A k \in keys : DOMAIN L[k] = DOMAIN NoJob /\ L[k].pc = "queued" BY JobFields DEF Launched
<1>4. ASSUME IsFiniteSet(found) PROVE IsFiniteSet(keys)
  <2> DEFINE S == full \cup rest
             f == [p \in S |-> <<t, i, p>>]
  <2>1. IsFiniteSet(full) BY <1>4, FS_Subset
  <2>2. IsFiniteSet(rest) BY FS_EmptySet, FS_Singleton
  <2>3. IsFiniteSet(S)
    <3> HIDE DEF full, rest
    <3> QED BY <2>1, <2>2, FS_Union
  <2>4. f \in Surjection(S, keys)
    <3>1. keys = {<<t, i, p>> : p \in S} OBVIOUS
    <3> HIDE DEF S, keys
    <3> QED BY <3>1 DEF Surjection
  <2> HIDE DEF S, keys, f
  <2> QED BY <2>3, <2>4, FS_Surjection
<1> HIDE DEF keys
<1> QED BY <1>1, <1>2, <1>3, <1>4

(* What TestKeepsTypes asks of the jobs, of those of a new slice.           *)
LEMMA SliceKeepsJobs ==
  ASSUME TypeInv, NEW t \in 1 .. MaxTests, test[t].pc = "loop", NEW found,
         job' = Together(Launched(t, test[t].i, found))
  PROVE  \A k \in DOMAIN job' : /\ k[1] \in 1 .. tests /\ k[2] \in Nat
                                /\ DOMAIN job'[k] = DOMAIN NoJob /\ job'[k].pc \in JobPhases
                                /\ job'[k].pc = "counting" => test[k[1]].kind = "url"
<1> DEFINE new == Launched(t, test[t].i, found)
<1>1. tests \in 0 .. MaxTests /\ test[t] \in Tests BY DEF TypeInv, Types
<1>2. test[t].i \in Nat BY <1>1 DEF Tests
<1>3. t \in 1 .. tests BY <1>1, BatchAssumption DEF TypeInv, Fresh
<1>4. \A k \in DOMAIN new : /\ k[1] = t /\ k[2] = test[t].i
                            /\ DOMAIN new[k] = DOMAIN NoJob /\ new[k].pc = "queued"
  BY LaunchedAre
<1> HIDE DEF new
<1>5. /\ DOMAIN job' = DOMAIN new \cup DOMAIN job
      /\ \A k \in DOMAIN job' : job'[k] = IF k \in DOMAIN new THEN new[k] ELSE job[k]
  BY DEF Together, new
<1> SUFFICES ASSUME NEW k \in DOMAIN job'
             PROVE  /\ k[1] \in 1 .. tests /\ k[2] \in Nat
                    /\ DOMAIN job'[k] = DOMAIN NoJob /\ job'[k].pc \in JobPhases
                    /\ job'[k].pc = "counting" => test[k[1]].kind = "url"
  OBVIOUS
<1>6. CASE k \in DOMAIN new
  BY <1>2, <1>3, <1>4, <1>5, <1>6 DEF JobPhases
<1>7. CASE k \notin DOMAIN new
  <2>1. k \in DOMAIN job /\ job'[k] = job[k] BY <1>5, <1>7
  <2> QED BY <2>1 DEF TypeInv, Types, Kinds, KindOf
<1> QED BY <1>6, <1>7

(* All of them, and no others, work.                                       *)
LEMMA SliceWorkers ==
  ASSUME TypeInv, NEW t, NEW i, NEW found, job' = Together(Launched(t, i, found)), Workers = {}
  PROVE  Workers' = DOMAIN Launched(t, i, found)
<1> DEFINE new == Launched(t, i, found)
<1>1. \A k \in DOMAIN new : new[k].pc = "queued" BY LaunchedAre
<1> HIDE DEF new
<1>2. /\ DOMAIN job' = DOMAIN new \cup DOMAIN job
      /\ \A k \in DOMAIN job' : job'[k] = IF k \in DOMAIN new THEN new[k] ELSE job[k]
  BY DEF Together, new
<1>3. Workers' = {k \in DOMAIN job' : job'[k].pc \notin {"checking", "done"}} BY WorkersAre DEF Workers, Working
<1>4. \A k \in DOMAIN job : job[k].pc \in {"checking", "done"} BY WorkersAre
<1> QED BY <1>1, <1>2, <1>3, <1>4 DEF new

(* The configuration cannot be built: the mutex stays locked.              *)
LEMMA SliceFails ==
  ASSUME TurnInv, NEW t \in 1 .. MaxTests, NEW b \in BOOLEAN, test[t].pc = "loop",
         test' = [test EXCEPT ![t] = [test[t] EXCEPT !.group = b, !.i = @ + 1]],
         UNCHANGED <<plan, tests, job, held, odd>>
  PROVE  TurnInv'
<1> DEFINE r == [test[t] EXCEPT !.group = b, !.i = @ + 1]
<1>0. TypeInv /\ test[t] \in Tests BY DEF TurnInv, TypeInv, Types
<1>1. r \in Tests /\ r.pc = "loop" /\ r.kind = test[t].kind /\ r.list = test[t].list
  <2>1. test[t].i + 1 \in Nat \ {0} BY <1>0 DEF Tests
  <2> QED BY <1>0, <2>1 DEF Tests, Phases
<1>4. held \in BOOLEAN /\ odd.twice \in BOOLEAN /\ {"twice", "astray", "misread"} \subseteq DOMAIN odd
  BY <1>0 DEF TypeInv, Types
<1>5. Mutex => /\ held /\ Workers = {} /\ \A u \in 1 .. MaxTests \ {t} : ~Holds(u)
  BY <1>0, NobodyWorks DEF Mutex, Holds
<1>6. test' = [test EXCEPT ![t] = r] OBVIOUS
<1> HIDE DEF r
<1> QED BY <1>0, <1>1, <1>4, <1>5, <1>6, ThreadKeepsTurn

(* The slice of a speed test: its calls work, its thread goes on with      *)
(* them.                                                                   *)
LEMMA SpeedSlice ==
  ASSUME TurnInv, NEW t \in 1 .. MaxTests, NEW r \in Tests, NEW found, test[t].pc = "loop",
         test[t].kind = "speed", test' = [test EXCEPT ![t] = r], r.pc = "speed",
         r.kind = test[t].kind, r.list = test[t].list, r.i = test[t].i,
         job' = Together(Launched(t, test[t].i, found)),
         UNCHANGED <<plan, tests, held, odd>>
  PROVE  TurnInv'
<1> DEFINE new == Launched(t, test[t].i, found)
<1>0. TypeInv /\ test[t] \in Tests BY DEF TurnInv, TypeInv, Types
<1>3. held \in BOOLEAN /\ odd.twice \in BOOLEAN /\ {"twice", "astray", "misread"} \subseteq DOMAIN odd
  BY <1>0 DEF TypeInv, Types
<1>4. \A k \in DOMAIN new : k[1] = t /\ k[2] = test[t].i BY LaunchedAre
<1>5. TypeInv' /\ \A u \in 1 .. MaxTests : test'[u] = IF u = t THEN r ELSE test[u]
  <2>1. \A k \in DOMAIN job' : /\ k[1] \in 1 .. tests /\ k[2] \in Nat
                               /\ DOMAIN job'[k] = DOMAIN NoJob /\ job'[k].pc \in JobPhases
                               /\ job'[k].pc = "counting" => test[k[1]].kind = "url"
    BY <1>0, SliceKeepsJobs
  <2>2. test[t].pc # "none" /\ r.pc # "none" OBVIOUS
  <2> QED BY <1>0, <1>3, <2>1, <2>2, TestKeepsTypes
<1>6. ASSUME Mutex PROVE (Mutex /\ Counted)'
  <2>1. held /\ Workers = {} /\ \A u \in 1 .. MaxTests \ {t} : ~Holds(u)
    BY <1>0, <1>6, NobodyWorks DEF Mutex, Holds
  <2>2. Workers' = DOMAIN new BY <1>0, <2>1, SliceWorkers
  <2> HIDE DEF new
  <2>3. \A u \in 1 .. MaxTests \ {t} : ~Holds(u)' BY <1>5, <2>1 DEF Holds
  <2>4. Holds(t)' /\ test'[t].pc = "speed" /\ test'[t].i = test[t].i BY <1>5 DEF Holds
  <2>5. \A k \in Workers' : k[1] = t /\ k[2] = test[t].i BY <1>4, <2>2
  <2>6. Mutex' BY <2>1, <2>3, <2>4, <2>5 DEF Mutex
  <2>7. \A u \in 1 .. MaxTests : test'[u].pc = "join" => test'[u].gave BY <2>3, <2>4 DEF Holds
  <2>8. Counted' BY <2>7 DEF Counted
  <2> QED BY <2>6, <2>8
<1> QED BY <1>5, <1>6 DEF TurnInv

(* The slice of a latency test: as many calls as the join waits for, and   *)
(* the thread's own unlock when there are none.                            *)
LEMMA UrlSlice ==
  ASSUME TurnInv, NEW t \in 1 .. MaxTests, NEW r \in Tests, NEW found, test[t].pc = "loop",
         test[t].kind = "url", NEW n \in Nat, n = Cardinality(DOMAIN Launched(t, test[t].i, found)),
         test' = [test EXCEPT ![t] = r], r.pc = "join", r.kind = test[t].kind,
         r.list = test[t].list, r.i = test[t].i, r.n = n, r.counter = 0, r.gave = (n = 0),
         job' = Together(Launched(t, test[t].i, found)), IsFiniteSet(found),
         NothingToDo(n), UNCHANGED <<plan, tests>>
  PROVE  TurnInv'
<1> DEFINE new == Launched(t, test[t].i, found)
<1>0. TypeInv /\ test[t] \in Tests BY DEF TurnInv, TypeInv, Types
<1>1. /\ \A k \in DOMAIN new : k[1] = t /\ k[2] = test[t].i
      /\ IsFiniteSet(DOMAIN new)
  BY LaunchedAre
<1>5. /\ held' \in BOOLEAN /\ odd'.twice \in BOOLEAN /\ {"twice", "astray", "misread"} \subseteq DOMAIN odd'
      /\ odd'.twice <=> odd.twice
      /\ n # 0 => held' = held
  <2>1. CASE n = 0
    <3>1. Unlock(FALSE) BY <2>1 DEF NothingToDo
    <3>2. FALSE \in BOOLEAN OBVIOUS
    <3> QED BY <1>0, <2>1, <3>1, <3>2, UnlockIs
  <2>2. CASE n # 0 BY <1>0, <2>2 DEF NothingToDo, TypeInv, Types
  <2> QED BY <2>1, <2>2
<1>6. TypeInv' /\ \A u \in 1 .. MaxTests : test'[u] = IF u = t THEN r ELSE test[u]
  <2>1. \A k \in DOMAIN job' : /\ k[1] \in 1 .. tests /\ k[2] \in Nat
                               /\ DOMAIN job'[k] = DOMAIN NoJob /\ job'[k].pc \in JobPhases
                               /\ job'[k].pc = "counting" => test[k[1]].kind = "url"
    BY <1>0, SliceKeepsJobs
  <2>2. test[t].pc # "none" /\ r.pc # "none" OBVIOUS
  <2>3. (r.pc \in {"join", "clear"} => r.kind = "url") /\ (r.pc = "speed" => r.kind = "speed") OBVIOUS
  <2>4. UNCHANGED <<plan, tests>> OBVIOUS
  <2> HIDE DEF new
  <2> QED BY ONLY <1>0, <1>5, <2>1, <2>2, <2>3, <2>4, TestKeepsTypes, t \in 1 .. MaxTests, r \in Tests,
             test' = [test EXCEPT ![t] = r], r.kind = test[t].kind, r.list = test[t].list
<1>7. ASSUME Mutex PROVE (Mutex /\ Counted)'
  <2>1. held /\ Workers = {} /\ \A u \in 1 .. MaxTests \ {t} : ~Holds(u)
    BY <1>0, <1>7, NobodyWorks DEF Mutex, Holds
  <2>2. Workers' = DOMAIN new BY <1>0, <2>1, SliceWorkers
  <2> HIDE DEF new
  <2>3. Cardinality(Workers') = n BY <2>2 DEF new
  <2>4. \A u \in 1 .. MaxTests \ {t} : ~Holds(u)' BY <1>6, <2>1 DEF Holds
  <2>5. /\ Holds(t)' <=> n # 0
        /\ test'[t].pc = "join" /\ test'[t].i = test[t].i /\ test'[t].n = n
        /\ test'[t].counter = 0 /\ test'[t].gave = (n = 0)
    BY <1>6 DEF Holds
  <2>6. n = 0 => Workers' = {} BY <1>1, <2>2, <2>3, FS_EmptySet
  <2>7. \A k \in Workers' : k[1] = t /\ k[2] = test[t].i BY <1>1, <2>2
  <2>8. Mutex' BY <1>5, <2>1, <2>4, <2>5, <2>6, <2>7 DEF Mutex
  <2>9. \A u \in 1 .. MaxTests \ {t} : test'[u].pc = "join" => test'[u].gave BY <2>4 DEF Holds
  <2>10. test'[t].counter + Cardinality(Workers') = test'[t].n BY <2>3, <2>5
  <2>11. Counted' BY <1>1, <2>2, <2>9, <2>10 DEF Counted
  <2> QED BY <2>8, <2>11
<1> QED BY <1>5, <1>6, <1>7 DEF TurnInv

(* However a slice turns out.                                              *)
LEMMA SliceKeepsTurn == ASSUME TurnInv, NEW t \in 1 .. MaxTests, Slice(t) PROVE TurnInv'
<1> DEFINE i == test[t].i
           found == (Profiles \ Gone) \cap ToSet(test[t].list[i])
           b == test[t].group \/ found # {}
           new == Launched(t, i, found)
           n == Cardinality(DOMAIN new)
           seen == [test EXCEPT ![t].group = @ \/ found # {}]
<1>0. TypeInv /\ test[t] \in Tests /\ test \in [1 .. MaxTests -> Tests] BY DEF TurnInv, TypeInv, Types
<1>1. test[t].pc = "loop" /\ i \in DOMAIN test[t].list /\ plan' = plan BY DEF Slice, group
<1>2. b \in BOOLEAN BY <1>0 DEF Tests
<1>3. \/ /\ Event /\ UNCHANGED <<held, job, odd>>
         /\ test' = [seen EXCEPT ![t].i = @ + 1]
      \/ /\ test[t].kind = "speed" /\ UNCHANGED <<held, odd, uses>>
         /\ test' = [seen EXCEPT ![t].pc = "speed"] /\ job' = Together(new)
      \/ /\ test[t].kind = "url" /\ UNCHANGED uses
         /\ test' = [seen EXCEPT ![t].pc = "join", ![t].n = n, ![t].counter = 0, ![t].gave = (n = 0)]
         /\ job' = Together(new) /\ NothingToDo(n)
  BY DEF Slice, TestCount
<1> HIDE DEF n, new
<1>4. CASE Event /\ UNCHANGED <<held, job, odd>> /\ test' = [seen EXCEPT ![t].i = @ + 1]
  <2>1. test' = [test EXCEPT ![t] = [test[t] EXCEPT !.group = b, !.i = @ + 1]]
    <3> HIDE DEF found
    <3> QED BY <1>0, <1>4 DEF Tests
  <2>2. tests' = tests BY <1>4 DEF Event
  <2> HIDE DEF b
  <2> QED BY <1>1, <1>2, <1>4, <2>1, <2>2, SliceFails
<1>5. CASE /\ test[t].kind = "speed" /\ UNCHANGED <<held, odd, uses>>
           /\ test' = [seen EXCEPT ![t].pc = "speed"] /\ job' = Together(new)
  <2>1. test' = [test EXCEPT ![t] = [test[t] EXCEPT !.group = b, !.pc = "speed"]]
    <3> HIDE DEF found
    <3> QED BY <1>0, <1>5 DEF Tests
  <2>2. tests' = tests BY <1>5 DEF uses
  <2> DEFINE r == [test[t] EXCEPT !.group = b, !.pc = "speed"]
  <2>3. /\ r \in Tests /\ r.pc = "speed" /\ r.kind = test[t].kind /\ r.list = test[t].list
        /\ r.i = test[t].i
    <3> HIDE DEF b
    <3> QED BY <1>0, <1>2 DEF Tests, Phases
  <2> HIDE DEF r, found
  <2>4. test' = [test EXCEPT ![t] = r] BY <2>1 DEF r
  <2> QED BY <1>1, <1>5, <2>2, <2>3, <2>4, SpeedSlice DEF new
<1>6. CASE /\ test[t].kind = "url" /\ UNCHANGED uses
           /\ test' = [seen EXCEPT ![t].pc = "join", ![t].n = n, ![t].counter = 0, ![t].gave = (n = 0)]
           /\ job' = Together(new) /\ NothingToDo(n)
  <2>1. test' = [test EXCEPT ![t] = [test[t] EXCEPT !.group = b, !.pc = "join", !.n = n,
                                                    !.counter = 0, !.gave = (n = 0)]]
    <3> HIDE DEF found
    <3> QED BY <1>0, <1>6 DEF Tests
  <2>2. tests' = tests BY <1>6 DEF uses
  <2>3. i \in 1 .. Len(test[t].list)
    <3>1. test[t].list \in Seq(Seq(Profiles))
      BY <1>0, <1>1, <1>6, BatchAssumption DEF TypeInv, Kinds
    <3>2. DOMAIN test[t].list = 1 .. Len(test[t].list) BY <3>1
    <3> QED BY <1>0, <1>1, <3>2 DEF Tests
  <2>4. IsFiniteSet(found) BY <1>0, <1>1, <1>6, <2>3, SliceIsFinite, FS_Subset
  <2>5. n \in Nat
    <3> HIDE DEF found
    <3>1. IsFiniteSet(DOMAIN new) BY <2>4, LaunchedAre DEF new
    <3> QED BY <3>1, FS_CardinalityType DEF n
  <2> DEFINE r == [test[t] EXCEPT !.group = b, !.pc = "join", !.n = n, !.counter = 0,
                                  !.gave = (n = 0)]
  <2>6. /\ r \in Tests /\ r.pc = "join" /\ r.kind = test[t].kind /\ r.list = test[t].list
        /\ r.i = test[t].i /\ r.n = n /\ r.counter = 0 /\ r.gave = (n = 0)
    <3> HIDE DEF b
    <3> QED BY <1>0, <1>2, <2>5 DEF Tests, Phases
  <2> HIDE DEF r, found
  <2>7. test' = [test EXCEPT ![t] = r] BY <2>1 DEF r
  <2> QED BY <1>1, <1>6, <2>2, <2>4, <2>5, <2>6, <2>7, UrlSlice DEF new, n
<1> QED BY <1>3, <1>4, <1>5, <1>6
-----------------------------------------------------------------------------
(* The calls and their pollers.                                            *)

(* A worker is counted while the join of its slice waits.                   *)
LEMMA CountKeepsTurn ==
  ASSUME TurnInv, NEW k \in DOMAIN job, Count(k) PROVE TurnInv'
<1> DEFINE t == k[1]
           q == [job[k] EXCEPT !.pc = "checking"]
<1>0. TypeInv /\ test \in [1 .. MaxTests -> Tests] BY DEF TurnInv, TypeInv, Types
<1>1. t \in 1 .. MaxTests /\ test[t] \in Tests BY <1>0, WorkerOf
<1>2. PICK here \in IF Alive(k) THEN {1} ELSE {0, 1} : test' = [test EXCEPT ![t].counter = @ + here]
  BY DEF Count
<1>3. here \in {0, 1} /\ (Alive(k) => here = 1) BY <1>2
<1> DEFINE r == [test[t] EXCEPT !.counter = @ + here]
<1>4. test' = [test EXCEPT ![t] = r] BY <1>0, <1>1, <1>2
<1>5. /\ r \in Tests /\ r.pc = test[t].pc /\ r.kind = test[t].kind /\ r.list = test[t].list
      /\ r.i = test[t].i /\ r.n = test[t].n /\ r.gave = test[t].gave
      /\ r.counter = test[t].counter + here
  <2>1. test[t].counter + here \in Nat BY <1>1, <1>3 DEF Tests
  <2> QED BY <1>1, <2>1 DEF Tests
<1>6. job[k].pc = "counting" /\ Update(k, q) /\ UNCHANGED <<plan, held, tests, odd>>
  BY DEF Count, group, history, uses
<1>7. /\ DOMAIN q = DOMAIN NoJob /\ q.pc = "checking" BY <1>0, JobFields DEF TypeInv, Types
<1> HIDE DEF r, q
<1>8. /\ DOMAIN job' \subseteq DOMAIN job
      /\ \A l \in DOMAIN job' : job'[l] = IF l = k THEN q ELSE job[l]
      /\ \A l \in DOMAIN job \ DOMAIN job' : (IF l = k THEN q ELSE job[l]).pc = "done"
  BY <1>6, UpdateIs
<1>9. TypeInv' /\ \A u \in 1 .. MaxTests : test'[u] = IF u = t THEN r ELSE test[u]
  <2>1. \A l \in DOMAIN job' : /\ l[1] \in 1 .. tests /\ l[2] \in Nat
                               /\ DOMAIN job'[l] = DOMAIN NoJob /\ job'[l].pc \in JobPhases
                               /\ job'[l].pc = "counting" => test[l[1]].kind = "url"
    BY <1>0, <1>7, <1>8 DEF TypeInv, Types, Kinds, KindOf, JobPhases
  <2>2. test[t].pc # "none" /\ r.pc # "none"
    <3>1. t \in 1 .. tests /\ tests \in 0 .. MaxTests BY <1>0 DEF TypeInv, Types
    <3> QED BY <1>0, <1>1, <1>5, <3>1, BatchAssumption DEF TypeInv, Fresh
  <2>3. (r.pc \in {"join", "clear"} => r.kind = "url") /\ (r.pc = "speed" => r.kind = "speed")
    BY <1>0, <1>1, <1>5 DEF TypeInv, Kinds
  <2>4. UNCHANGED <<plan, tests>> BY <1>6
  <2>5. /\ held' \in BOOLEAN /\ odd'.twice \in BOOLEAN /\ {"twice", "astray", "misread"} \subseteq DOMAIN odd'
    BY <1>0, <1>6 DEF TypeInv, Types
  <2> HIDE DEF t
  <2> QED BY ONLY <1>0, <1>1, <1>4, <1>5, <2>1, <2>2, <2>3, <2>4, <2>5, TestKeepsTypes
<1>10. ASSUME Mutex, Counted PROVE (Mutex /\ Counted)'
  <2>1. k \in Workers BY <1>6, WorkersAre
  <2>2. test[t].pc = "join" /\ test[t].i = k[2] /\ Holds(t)
    BY <1>0, <1>1, <1>6, <1>10, <2>1 DEF Mutex, TypeInv, Kinds, KindOf
  <2>3. here = 1 /\ ~test[t].gave BY <1>3, <2>2 DEF Alive, Holds
  <2>4. Workers' = {l \in DOMAIN job' : job'[l].pc \notin {"checking", "done"}}
    BY WorkersAre DEF Workers, Working
  <2>5. Workers' = Workers \ {k} BY <1>6, <1>7, <1>8, <2>4, WorkersAre
  <2>6. IsFiniteSet(Workers) /\ test[t].counter + Cardinality(Workers) = test[t].n
    BY <1>1, <1>10, <2>2, <2>3 DEF Counted
  <2>7. /\ IsFiniteSet(Workers') /\ Cardinality(Workers') = Cardinality(Workers) - 1
        /\ Cardinality(Workers) \in Nat
    BY <2>1, <2>5, <2>6, FS_RemoveElement, FS_CardinalityType
  <2>8. \A u \in 1 .. MaxTests : Holds(u)' <=> Holds(u) BY <1>5, <1>9 DEF Holds
  <2>9. Mutex'
    <3>1. \A l \in Workers' : l \in Workers /\ l[1] \in 1 .. MaxTests
      BY <1>0, <2>5, WorkerOf DEF Workers
    <3>2. \A u \in 1 .. MaxTests : test'[u].pc = test[u].pc /\ test'[u].i = test[u].i BY <1>5, <1>9
    <3> QED BY <1>6, <1>10, <2>8, <3>1, <3>2 DEF Mutex
  <2>10. \A u \in 1 .. MaxTests \ {t} : ~Holds(u)' BY <1>1, <1>10, <2>2, <2>8 DEF Mutex
  <2>11. \A u \in 1 .. MaxTests : test'[u].pc = "join" /\ ~test'[u].gave => u = t BY <2>10 DEF Holds
  <2>12. test'[t].counter = test[t].counter + 1 /\ test'[t].n = test[t].n BY <1>1, <1>5, <1>9, <2>3
  <2>13. test'[t].counter + Cardinality(Workers') = test'[t].n
    <3>1. test[t].counter \in Nat BY <1>1 DEF Tests
    <3> QED BY <2>6, <2>7, <2>12, <3>1
  <2>14. Counted' BY <2>7, <2>11, <2>13 DEF Counted
  <2> QED BY <2>9, <2>14
<1> QED BY <1>6, <1>9, <1>10 DEF TurnInv

(* The last of them unlocks; nobody else works then.                       *)
LEMMA CheckKeepsTurn ==
  ASSUME TurnInv, NEW k \in DOMAIN job, Check(k) PROVE TurnInv'
<1> DEFINE t == k[1]
           q == [job[k] EXCEPT !.pc = "done"]
           r == [test[t] EXCEPT !.gave = TRUE]
           again == test[t].gave \/ ~Alive(k)
<1>0. TypeInv /\ test \in [1 .. MaxTests -> Tests] BY DEF TurnInv, TypeInv, Types
<1>1. t \in 1 .. MaxTests /\ test[t] \in Tests BY <1>0, WorkerOf
<1>2. PICK last \in IF Alive(k) THEN {test[t].counter = test[t].n} ELSE BOOLEAN :
        IF last THEN Unlock(again) /\ test' = [test EXCEPT ![t].gave = TRUE]
                ELSE UNCHANGED <<held, test, odd>>
  BY DEF Check
<1>3. last \in BOOLEAN /\ (Alive(k) => (last <=> test[t].counter = test[t].n)) BY <1>2
<1>4. job[k].pc = "checking" /\ Update(k, q) /\ UNCHANGED <<plan, tests>>
  BY DEF Check, group, uses
<1>5. /\ DOMAIN q = DOMAIN NoJob /\ q.pc = "done" BY <1>0, JobFields DEF TypeInv, Types
<1>6. CASE ~last
  <2>1. UNCHANGED <<plan, held, test, tests>> /\ odd' = odd BY <1>2, <1>4, <1>6
  <2>2. /\ odd'.twice = odd.twice /\ {"twice", "astray", "misread"} \subseteq DOMAIN odd'
    BY <1>0, <2>1 DEF TypeInv, Types
  <2> HIDE DEF q
  <2> QED BY <1>4, <1>5, <2>1, <2>2, JobKeepsTurn DEF JobPhases, Working
<1>7. CASE last
  <2> HIDE DEF q
  <2>1. test' = [test EXCEPT ![t] = r] BY <1>0, <1>1, <1>2, <1>7
  <2>2. /\ r \in Tests /\ r.pc = test[t].pc /\ r.kind = test[t].kind /\ r.list = test[t].list
        /\ r.i = test[t].i /\ r.gave
    BY <1>1 DEF Tests
  <2> HIDE DEF r
  <2>3. again \in BOOLEAN /\ Unlock(again) BY <1>1, <1>2, <1>7 DEF Tests, Alive
  <2>4. /\ held' = FALSE /\ odd'.twice \in BOOLEAN /\ {"twice", "astray", "misread"} \subseteq DOMAIN odd'
        /\ odd'.twice <=> (odd.twice \/ again)
    BY <1>0, <2>3, UnlockIs
  <2>5. /\ DOMAIN job' \subseteq DOMAIN job
        /\ \A l \in DOMAIN job' : job'[l] = IF l = k THEN q ELSE job[l]
        /\ \A l \in DOMAIN job \ DOMAIN job' : (IF l = k THEN q ELSE job[l]).pc = "done"
    BY <1>4, UpdateIs
  <2>6. TypeInv' /\ \A u \in 1 .. MaxTests : test'[u] = IF u = t THEN r ELSE test[u]
    <3>1. \A l \in DOMAIN job' : /\ l[1] \in 1 .. tests /\ l[2] \in Nat
                                 /\ DOMAIN job'[l] = DOMAIN NoJob /\ job'[l].pc \in JobPhases
                                 /\ job'[l].pc = "counting" => test[l[1]].kind = "url"
      BY <1>0, <1>5, <2>5 DEF TypeInv, Types, Kinds, KindOf, JobPhases
    <3>2. test[t].pc # "none" /\ r.pc # "none"
      <4>1. t \in 1 .. tests /\ tests \in 0 .. MaxTests BY <1>0 DEF TypeInv, Types
      <4> QED BY <1>0, <1>1, <2>2, <4>1, BatchAssumption DEF TypeInv, Fresh
    <3>3. (r.pc \in {"join", "clear"} => r.kind = "url") /\ (r.pc = "speed" => r.kind = "speed")
      BY <1>0, <1>1, <2>2 DEF TypeInv, Kinds
    <3>4. UNCHANGED <<plan, tests>> /\ held' \in BOOLEAN BY <1>4, <2>4
    <3> HIDE DEF t
    <3> QED BY ONLY <1>0, <1>1, <2>1, <2>2, <2>4, <3>1, <3>2, <3>3, <3>4, TestKeepsTypes
  <2>7. ASSUME Mutex, Counted, ~again PROVE (Mutex /\ Counted)'
    <3>1. test[t].pc = "join" /\ ~test[t].gave /\ test[t].counter = test[t].n
      BY <1>3, <1>7, <2>7 DEF Alive
    <3>2. Holds(t) BY <3>1 DEF Holds
    <3>3. Workers = {}
      <4>1. IsFiniteSet(Workers) /\ test[t].counter + Cardinality(Workers) = test[t].n
        BY <1>1, <2>7, <3>1 DEF Counted
      <4>2. Cardinality(Workers) \in Nat /\ test[t].counter \in Nat
        BY <1>1, <4>1, FS_CardinalityType DEF Tests
      <4>3. Cardinality(Workers) = 0 BY <3>1, <4>1, <4>2
      <4> QED BY <4>1, <4>3, FS_EmptySet
    <3>4. Workers' = {l \in DOMAIN job' : job'[l].pc \notin {"checking", "done"}}
      BY WorkersAre DEF Workers, Working
    <3>5. Workers' = {} BY <1>4, <1>5, <2>5, <3>3, <3>4, WorkersAre
    <3>6. \A u \in 1 .. MaxTests \ {t} : ~Holds(u)' BY <1>1, <2>6, <2>7, <3>2 DEF Mutex, Holds
    <3>7. ~Holds(t)' BY <1>1, <2>2, <2>6, <3>1 DEF Holds
    <3> HIDE DEF t
    <3> QED BY <1>1, <3>5, <3>6, <3>7, IdleMutex
  <2> QED BY <2>4, <2>6, <2>7 DEF TurnInv
<1> QED BY <1>3, <1>6, <1>7

(* What a job may become without a word to the mutex: its fields stay its   *)
(* fields, and it goes on as a worker, or ends as none.                     *)
LEMMA JobStep ==
  ASSUME TurnInv, NEW k \in DOMAIN job, NEW r, Update(k, r), DOMAIN r = DOMAIN NoJob,
         \/ r.pc = job[k].pc
         \/ /\ r.pc \in JobPhases /\ Working(k)
            /\ r.pc = "counting" => KindOf(k) = "url"
            /\ r.pc \in {"checking", "done"} => KindOf(k) = "speed",
         UNCHANGED <<plan, held, test, tests>>, odd'.twice = odd.twice,
         {"twice", "astray", "misread"} \subseteq DOMAIN odd'
  PROVE  TurnInv'
<1>1. job[k].pc \in JobPhases /\ (job[k].pc = "counting" => KindOf(k) = "url")
  BY DEF TurnInv, TypeInv, Types, Kinds
<1>2. job[k].pc \in {"checking", "done"} \/ Working(k) BY DEF Working
<1>3. job[k].pc \in {"checking", "done"} => ~Working(k) BY DEF Working
<1> QED BY <1>1, <1>2, <1>3, JobKeepsTurn

(* The record of a job, and of what came to pass.                          *)
LEMMA JobIs ==
  ASSUME TurnInv, NEW k \in DOMAIN job
  PROVE  /\ {"pc", "poll", "ctx", "tags", "ent", "left", "cut", "ok", "moved", "got"} \subseteq DOMAIN job[k]
         /\ DOMAIN job[k] = DOMAIN NoJob
         /\ {"twice", "astray", "misread"} \subseteq DOMAIN odd
BY JobFields DEF TurnInv, TypeInv, Types


(* A call is made, or skipped once the stop flag is set.                   *)
LEMMA RunTestKeepsTurn == ASSUME TurnInv, NEW k \in DOMAIN job, RunTest(k) PROVE TurnInv'
<1> DEFINE r == IF stop THEN [job[k] EXCEPT !.pc = AfterCall(k)] ELSE [job[k] EXCEPT !.pc = "call"]
<1>1. DOMAIN r = DOMAIN NoJob /\ r.pc \in {"call", AfterCall(k)} BY JobIs
<1>2. /\ r.pc \in JobPhases /\ (r.pc = "counting" => KindOf(k) = "url")
      /\ r.pc \in {"checking", "done"} => KindOf(k) = "speed"
  <2>1. k[1] \in 1 .. tests /\ tests \in 0 .. MaxTests BY DEF TurnInv, TypeInv, Types
  <2>2. KindOf(k) \in {"url", "speed"}
    BY <2>1, BatchAssumption DEF TurnInv, TypeInv, Fresh, Kinds, KindOf
  <2> HIDE DEF r
  <2> QED BY <1>1, <2>2 DEF AfterCall, JobPhases
<1>3. Update(k, r) /\ Working(k) /\ UNCHANGED <<plan, held, test, tests, odd>>
  BY DEF RunTest, Working, group, gui, history, uses
<1> HIDE DEF r
<1> QED BY <1>1, <1>2, <1>3, JobIs, JobStep


(* The core answers.                                                       *)
LEMMA AnswerKeepsTurn == ASSUME TurnInv, NEW k \in DOMAIN job, Answer(k) PROVE TurnInv'
<1> DEFINE r == [job[k] EXCEPT !.pc = "back", !.ok = TRUE]
<1>1. DOMAIN r = DOMAIN NoJob /\ r.pc = "back" BY JobIs
<1>2. Update(k, r) /\ UNCHANGED <<plan, held, test, tests, odd>> /\ Working(k)
  BY DEF Answer, group, gui, history, uses, Working
<1> HIDE DEF r
<1> QED BY <1>1, <1>2, JobIs, JobStep DEF JobPhases

(* The call fails; its worker still has to be counted.                     *)
LEMMA CallFailsKeepsTurn == ASSUME TurnInv, NEW k \in DOMAIN job, CallFails(k) PROVE TurnInv'
<1> DEFINE r == [job[k] EXCEPT !.pc = "back"]
<1>1. DOMAIN r = DOMAIN NoJob /\ r.pc = "back" BY JobIs
<1>2. Update(k, r) /\ UNCHANGED <<plan, held, test, tests, odd>> /\ Working(k)
  BY DEF CallFails, group, gui, Event, Working
<1> HIDE DEF r
<1> QED BY <1>1, <1>2, JobIs, JobStep DEF JobPhases

(* The core serves the call.                                               *)
LEMMA ServeKeepsTurn == ASSUME TurnInv, NEW k \in DOMAIN job, Serve(k) PROVE TurnInv'
<1> DEFINE r == [job[k] EXCEPT !.pc = "core", !.ctx = ctx, !.left = Covers(k)]
<1>1. DOMAIN r = DOMAIN NoJob /\ r.pc = "core" BY JobIs
<1>2. Update(k, r) /\ UNCHANGED <<plan, held, test, tests, odd>> /\ Working(k)
  BY DEF Serve, group, gui, history, uses, Working
<1> HIDE DEF r
<1> QED BY <1>1, <1>2, JobIs, JobStep DEF JobPhases

(* A poller wakes.                                                         *)
LEMMA WakeKeepsTurn == ASSUME TurnInv, NEW k \in DOMAIN job, Wake(k) PROVE TurnInv'
<1> DEFINE r == [job[k] EXCEPT !.poll = "asked"]
<1>1. DOMAIN r = DOMAIN NoJob /\ r.pc = job[k].pc BY JobIs
<1>2. Update(k, r) /\ UNCHANGED <<plan, held, test, tests, odd>>
  BY DEF Wake, group, gui
<1> HIDE DEF r
<1> QED BY <1>1, <1>2, JobIs, JobStep

(* Bytes arrive.                                                           *)
LEMMA TickKeepsTurn == ASSUME TurnInv, NEW k \in DOMAIN job, Tick(k) PROVE TurnInv'
<1> DEFINE r == [job[k] EXCEPT !.moved = @ + 1]
<1>1. DOMAIN r = DOMAIN NoJob /\ r.pc = job[k].pc BY JobIs
<1>2. Update(k, r) /\ UNCHANGED <<plan, held, test, tests, odd>>
  BY DEF Tick, group, gui, history, uses
<1> HIDE DEF r
<1> QED BY <1>1, <1>2, JobIs, JobStep

(* A speed test ends in the core.                                          *)
LEMMA SpeedEndsKeepsTurn == ASSUME TurnInv, NEW k \in DOMAIN job, SpeedEnds(k) PROVE TurnInv'
<1> DEFINE r == [job[k] EXCEPT !.left = {}]
<1>1. DOMAIN r = DOMAIN NoJob /\ r.pc = job[k].pc BY JobIs
<1>2. Update(k, r) /\ UNCHANGED <<plan, held, test, tests, odd>>
  BY DEF SpeedEnds, group, gui, history, uses
<1> HIDE DEF r
<1> QED BY <1>1, <1>2, JobIs, JobStep

(* A probe ends, reported or cut.                                          *)
LEMMA ProbeKeepsTurn ==
  ASSUME TurnInv, NEW k \in DOMAIN job, NEW p \in Profiles, Probe(k, p) PROVE TurnInv'
<1> DEFINE ended == [job[k] EXCEPT !.left = @ \ {p}]
           r == [ended EXCEPT !.cut = @ \cup {p}]
<1>1. /\ DOMAIN ended = DOMAIN NoJob /\ ended.pc = job[k].pc
      /\ DOMAIN r = DOMAIN NoJob /\ r.pc = job[k].pc
  BY JobIs
<1>2. Update(k, ended) \/ Update(k, r) BY DEF Probe
<1>3. UNCHANGED <<plan, held, test, tests, odd>> BY DEF Probe, group, gui, history, uses
<1> HIDE DEF ended, r
<1> QED BY <1>1, <1>2, <1>3, JobIs, JobStep

(* A poller is handed the reporter's results.                              *)
LEMMA QueryURLTestKeepsTurn ==
  ASSUME TurnInv, NEW k \in DOMAIN job, QueryURLTest(k) PROVE TurnInv'
<1> DEFINE r == IF reporter = << >> THEN [job[k] EXCEPT !.poll = "asleep"]
                ELSE [job[k] EXCEPT !.poll = "got", !.got = reporter]
<1>1. DOMAIN r = DOMAIN NoJob /\ r.pc = job[k].pc BY JobIs
<1>2. Update(k, r) /\ UNCHANGED <<plan, held, test, tests, odd>>
  BY DEF QueryURLTest, group, gui, history, uses
<1> HIDE DEF r
<1> QED BY <1>1, <1>2, JobIs, JobStep

(* A poller is handed the querier's bytes.                                 *)
LEMMA QuerySpeedKeepsTurn ==
  ASSUME TurnInv, NEW k \in DOMAIN job, QueryCurrentSpeedTests(k) PROVE TurnInv'
<1> DEFINE r == IF ~querier.run \/ job[k].ent # None \/ querier.of = << >>
                THEN [job[k] EXCEPT !.poll = "asleep"]
                ELSE [job[k] EXCEPT !.poll = "got", !.got = <<[tag |-> querier.bytes,
                                                               val |-> querier.of]>>]
<1>1. DOMAIN r = DOMAIN NoJob /\ r.pc = job[k].pc BY JobIs
<1>2. Update(k, r) /\ UNCHANGED <<plan, held, test, tests, odd>>
  BY DEF QueryCurrentSpeedTests, group, gui, history, uses
<1> HIDE DEF r
<1> QED BY <1>1, <1>2, JobIs, JobStep

(* Progress is written to the profiles.                                    *)
LEMMA ApplyProgressKeepsTurn ==
  ASSUME TurnInv, NEW k \in DOMAIN job, ApplyProgress(k) PROVE TurnInv'
<1> DEFINE r == [job[k] EXCEPT !.poll = "asleep", !.got = << >>]
           news == {n \in DOMAIN job[k].tags \cap DOMAIN job[k].got : job[k].tags[n] \notin Gone}
<1>1. DOMAIN r = DOMAIN NoJob /\ r.pc = job[k].pc BY JobIs
<1>2. Update(k, r) /\ UNCHANGED <<plan, held, test, tests>>
  BY DEF ApplyProgress, group, gui, uses
<1>3. odd' = odd \/ odd' = [odd EXCEPT !.astray = @ \cup {job[k].tags[n] : n \in news}]
  BY DEF ApplyProgress
<1> HIDE DEF r, news
<1>4. odd'.twice = odd.twice /\ {"twice", "astray", "misread"} \subseteq DOMAIN odd' BY <1>3, JobIs
<1> QED BY <1>1, <1>2, <1>4, JobStep

(* The results of a call are written; its worker is to be counted next.    *)
LEMMA ApplyLatencyKeepsTurn ==
  ASSUME TurnInv, NEW k \in DOMAIN job, ApplyLatency(k) PROVE TurnInv'
<1> DEFINE r == [job[k] EXCEPT !.pc = "counting"]
<1>1. DOMAIN r = DOMAIN NoJob /\ r.pc = "counting" BY JobIs
<1>2. Update(k, r) /\ UNCHANGED <<plan, held, test, tests>> /\ Working(k) /\ KindOf(k) = "url"
  BY DEF ApplyLatency, group, gui, uses, Working
<1>3. odd' = [odd EXCEPT !.astray = IF job[k].ok THEN @ \ Covers(k) ELSE @ \cup Covers(k)]
  BY DEF ApplyLatency
<1> HIDE DEF r
<1>4. odd'.twice = odd.twice /\ {"twice", "astray", "misread"} \subseteq DOMAIN odd' BY <1>3, JobIs
<1> QED BY <1>1, <1>2, <1>4, JobStep DEF JobPhases

(* Crediting concerns the bytes alone.                                     *)
LEMMA CreditIs ==
  ASSUME TurnInv, NEW k \in DOMAIN job, NEW n, NEW of, NEW late, Credit(k, n, of, late)
  PROVE  odd'.twice = odd.twice /\ {"twice", "astray", "misread"} \subseteq DOMAIN odd'
<1> DEFINE more == {job[k].tags[1], of[2]} \cup {q \in Profiles : late /\ UnderTest(q)}
<1>1. odd' = odd \/ odd' = [odd EXCEPT !.misread = @ \cup more] BY DEF Credit
<1> HIDE DEF more
<1> QED BY <1>1, JobIs

(* The results of a speed test are written; no join waits for it.          *)
LEMMA ApplySpeedKeepsTurn ==
  ASSUME TurnInv, NEW k \in DOMAIN job, ApplySpeed(k) PROVE TurnInv'
<1> DEFINE r == [job[k] EXCEPT !.pc = "done"]
<1>1. DOMAIN r = DOMAIN NoJob /\ r.pc = "done" BY JobIs
<1>2. Update(k, r) /\ UNCHANGED <<plan, held, test, tests>> /\ Working(k) /\ KindOf(k) = "speed"
  BY DEF ApplySpeed, group, gui, uses, Working
<1>3. odd'.twice = odd.twice /\ {"twice", "astray", "misread"} \subseteq DOMAIN odd'
  <2>1. \/ Credit(k, job[k].moved, <<k, job[k].tags[1]>>, FALSE)
        \/ odd' = [odd EXCEPT !.misread = @ \cup Covers(k)]
    BY DEF ApplySpeed
  <2> QED BY <2>1, CreditIs, JobIs
<1> HIDE DEF r
<1> QED BY <1>1, <1>2, <1>3, JobStep DEF JobPhases

(* Progress of a speed test is credited.                                   *)
LEMMA CreditProgressKeepsTurn ==
  ASSUME TurnInv, NEW k \in DOMAIN job, CreditProgress(k) PROVE TurnInv'
<1> DEFINE r == [job[k] EXCEPT !.poll = "asleep", !.got = << >>]
<1>1. DOMAIN r = DOMAIN NoJob /\ r.pc = job[k].pc BY JobIs
<1>2. Update(k, r) /\ UNCHANGED <<plan, held, test, tests>>
  BY DEF CreditProgress, group, gui, uses
<1>3. odd'.twice = odd.twice /\ {"twice", "astray", "misread"} \subseteq DOMAIN odd'
  <2>1. \/ odd' = odd
        \/ Credit(k, job[k].got[1].tag, job[k].got[1].val, job[k].pc = "done")
    BY DEF CreditProgress
  <2> QED BY <2>1, CreditIs, JobIs
<1> HIDE DEF r
<1> QED BY <1>1, <1>2, <1>3, JobStep

-----------------------------------------------------------------------------
(* Every step.                                                             *)

(* The invariant is inductive.                                             *)
LEMMA TurnKeeps == TurnInv /\ [Next]_vars => TurnInv'
<1> SUFFICES ASSUME TurnInv, [Next]_vars PROVE TurnInv' OBVIOUS
<1>1. CASE UNCHANGED vars
  <2>1. UNCHANGED <<plan, held, test, tests, job, odd>> BY <1>1 DEF vars, group, gui, history, uses
  <2> QED BY <2>1, TurnStays
<1>2. ASSUME NEW kind \in plan.kinds, NEW list \in Lists, StartTest(kind, list) PROVE TurnInv'
  BY <1>2, StartKeepsTurn
<1>3. ASSUME stopTests \/ Stopping \/ \E p \in Profiles : DeleteProfile(p) PROVE TurnInv'
  <2>1. UNCHANGED <<plan, held, test, tests, job, odd>>
    BY <1>3 DEF stopTests, DeleteProfile, Stopping, CancelTests, RenewTests, Event, group, gui, history, uses
  <2> QED BY <2>1, TurnStays
<1>4. ASSUME NEW t \in 1 .. MaxTests, clearUnavailableProfiles(t) PROVE TurnInv'
  BY <1>4, ClearKeepsTurn
<1>5. ASSUME NEW t \in 1 .. MaxTests, Thread(t) PROVE TurnInv'
  BY <1>5, BeginKeepsTurn, SliceKeepsTurn, JoinKeepsTurn, NextSpeedKeepsTurn, FinishKeepsTurn DEF Thread
<1>6. ASSUME NEW k \in DOMAIN job, Caller(k) PROVE TurnInv'
  BY <1>6, RunTestKeepsTurn, AnswerKeepsTurn, ApplyLatencyKeepsTurn, ApplySpeedKeepsTurn,
     CountKeepsTurn, CheckKeepsTurn DEF Caller
<1>7. ASSUME NEW k \in DOMAIN job, Poller(k) PROVE TurnInv'
  BY <1>7, WakeKeepsTurn, QueryURLTestKeepsTurn, QuerySpeedKeepsTurn, ApplyProgressKeepsTurn,
     CreditProgressKeepsTurn DEF Poller
<1>8. ASSUME NEW k \in DOMAIN job, Serving(k) PROVE TurnInv'
  BY <1>8, ServeKeepsTurn, SpeedEndsKeepsTurn, ProbeKeepsTurn DEF Serving
<1>9. ASSUME NEW k \in DOMAIN job, CallFails(k) \/ Tick(k) PROVE TurnInv'
  BY <1>9, CallFailsKeepsTurn, TickKeepsTurn
<1> QED BY <1>1, <1>2, <1>3, <1>4, <1>5, <1>6, <1>7, <1>8, <1>9 DEF Next, User, UiThread, Work

(* The calls at work are those of the test that has the mutex.             *)
LEMMA TurnIsTaken == TurnInv => TestsTakeTurns
<1> SUFFICES ASSUME TurnInv, Mutex, NEW k \in DOMAIN job, Working(k)
             PROVE  /\ test[k[1]].pc \in {"join", "speed"} /\ test[k[1]].i = k[2]
                    /\ \A l \in DOMAIN job : Working(l) => <<l[1], l[2]>> = <<k[1], k[2]>>
  BY DEF TurnInv, TestsTakeTurns
<1>1. \A l \in Workers : l[1] \in 1 .. MaxTests BY WorkerOf DEF TurnInv, Workers
<1>2. \A l \in DOMAIN job : Working(l) <=> l \in Workers BY DEF Workers
<1> QED BY <1>1, <1>2 DEF Mutex

(* One test at a time (TestsTakeTurns): although the mutex is free between *)
(* the last worker's unlock and the join, every call under way belongs to  *)
(* the one slice of the one test whose turn it is, unless two workers of a *)
(* slice both unlocked.                                                    *)
THEOREM TestsAlternate == Spec => []TestsTakeTurns
<1>1. Init => TurnInv BY TurnInitially
<1>2. TurnInv /\ [Next]_vars => TurnInv' BY TurnKeeps
<1>3. TurnInv => TestsTakeTurns BY TurnIsTaken
<1> QED BY <1>1, <1>2, <1>3, PTL DEF Spec

(* No call, no latency.                                                    *)
LEMMA ClearInitially == Init => ClearInv
<1> SUFFICES ASSUME Init PROVE ClearInv OBVIOUS
<1>1. DOMAIN job = {} /\ dead \subseteq Profiles BY BatchAssumption DEF Init
<1>2. latency = [p \in Profiles |-> None] BY DEF Init
<1> QED BY <1>1, <1>2 DEF ClearInv, KeyOrder, FullHasNoTags, OwnLatency

(* A call that has yet to have its word keeps it when it goes on.          *)
LEMMA StillProbed ==
  ASSUME NEW p, Probed(p),
         \A k \in DOMAIN job : p \in Covers(k) /\ Probing(k) =>
           /\ k \in DOMAIN job' /\ job'[k].ent = job[k].ent /\ job'[k].tags = job[k].tags
           /\ job'[k].pc \in {"call", "core", "back"} /\ test'[k[1]].kind = test[k[1]].kind
  PROVE  Probed(p)'
<1>1. PICK k \in DOMAIN job : p \in Covers(k) /\ Probing(k) BY DEF Probed
<1>2. /\ k \in DOMAIN job' /\ job'[k].ent = job[k].ent /\ job'[k].tags = job[k].tags
      /\ job'[k].pc \in {"call", "core", "back"} /\ test'[k[1]].kind = test[k[1]].kind
  BY <1>1
<1>3. p \in Covers(k)' BY <1>1, <1>2 DEF Covers
<1>4. Probing(k)' BY <1>1, <1>2 DEF Probing, KindOf
<1> QED BY <1>2, <1>3, <1>4 DEF Probed

(* A step of one call moves no key.                                        *)
LEMMA JobKeepsOrder ==
  ASSUME TypeInv, ClearInv, NEW k \in DOMAIN job, NEW r, Update(k, r),
         r.ent = job[k].ent, r.tags = job[k].tags, dead' = dead,
         \A u \in 1 .. MaxTests : test'[u].i = test[u].i /\ test'[u].pc = test[u].pc
  PROVE  KeyOrder' /\ FullHasNoTags' /\ (dead \subseteq Profiles)'
<1>1. /\ DOMAIN job' \subseteq DOMAIN job
      /\ \A l \in DOMAIN job' : job'[l] = IF l = k THEN r ELSE job[l]
  BY UpdateIs
<1>2. \A l \in DOMAIN job' : l[1] \in 1 .. MaxTests BY <1>1, WorkerOf
<1>3. KeyOrder' BY <1>1, <1>2 DEF ClearInv, KeyOrder
<1>4. FullHasNoTags' BY <1>1 DEF ClearInv, FullHasNoTags
<1> QED BY <1>3, <1>4 DEF ClearInv

(* A call that may still have the last word keeps it.                      *)
LEMMA JobKeepsClear ==
  ASSUME TypeInv, ClearInv, NEW k \in DOMAIN job, NEW r, Update(k, r),
         r.ent = job[k].ent, r.tags = job[k].tags,
         Probing(k) => r.pc \in {"call", "core", "back"},
         \A u \in 1 .. MaxTests : /\ test'[u].i = test[u].i /\ test'[u].pc = test[u].pc
                                  /\ test'[u].kind = test[u].kind,
         UNCHANGED <<dead, latency, cleared, deleted>>, odd'.astray = odd.astray
  PROVE  ClearInv'
<1>1. /\ DOMAIN job' \subseteq DOMAIN job
      /\ \A l \in DOMAIN job' : job'[l] = IF l = k THEN r ELSE job[l]
      /\ \A l \in DOMAIN job \ DOMAIN job' : (IF l = k THEN r ELSE job[l]).pc = "done"
  BY UpdateIs
<1>2. KeyOrder' /\ FullHasNoTags' /\ (dead \subseteq Profiles)' BY JobKeepsOrder
<1>3. ASSUME NEW p, Probed(p) PROVE Probed(p)'
  <2>1. ASSUME NEW l \in DOMAIN job, Probing(l)
        PROVE  /\ l \in DOMAIN job' /\ job'[l].ent = job[l].ent /\ job'[l].tags = job[l].tags
               /\ job'[l].pc \in {"call", "core", "back"} /\ test'[l[1]].kind = test[l[1]].kind
    <3>1. l[1] \in 1 .. MaxTests BY WorkerOf
    <3>2. l \in DOMAIN job' BY <1>1, <2>1 DEF Probing
    <3>3. job'[l].pc \in {"call", "core", "back"} BY <1>1, <2>1, <3>2 DEF Probing
    <3> QED BY <1>1, <3>1, <3>2, <3>3
  <2> QED BY <1>3, <2>1, StillProbed
<1>4. OwnLatency' BY <1>3 DEF ClearInv, OwnLatency, Gone
<1> QED BY <1>2, <1>4 DEF ClearInv

(* The results of a call, or the loss of them.                             *)
LEMMA ApplyLatencyKeepsClear ==
  ASSUME TypeInv, ClearInv, NEW k \in DOMAIN job, ApplyLatency(k) PROVE ClearInv'
<1> DEFINE r == [job[k] EXCEPT !.pc = "counting"]
<1>0. {"astray"} \subseteq DOMAIN odd /\ DOMAIN job[k] = DOMAIN NoJob BY DEF TypeInv, Types
<1>1. r.ent = job[k].ent /\ r.tags = job[k].tags /\ r.pc = "counting" BY <1>0, JobFields
<1>2. Update(k, r) /\ UNCHANGED <<dead, test, cleared, deleted>>
  BY DEF ApplyLatency, group, gui
<1>3. /\ latency' = IF job[k].ok THEN Final(k) ELSE latency
      /\ odd' = [odd EXCEPT !.astray = IF job[k].ok THEN @ \ Covers(k) ELSE @ \cup Covers(k)]
  BY DEF ApplyLatency
<1>4. odd'.astray = IF job[k].ok THEN odd.astray \ Covers(k) ELSE odd.astray \cup Covers(k)
  BY <1>0, <1>3
<1> HIDE DEF r
<1>5. KeyOrder' /\ FullHasNoTags' /\ (dead \subseteq Profiles)' BY <1>1, <1>2, JobKeepsOrder
<1>6. /\ DOMAIN job' \subseteq DOMAIN job
      /\ \A l \in DOMAIN job' : job'[l] = IF l = k THEN r ELSE job[l]
      /\ \A l \in DOMAIN job \ DOMAIN job' : (IF l = k THEN r ELSE job[l]).pc = "done"
  BY <1>2, UpdateIs
<1>7. ASSUME NEW p, Probed(p), p \notin Covers(k) PROVE Probed(p)'
  <2>1. ASSUME NEW l \in DOMAIN job, Probing(l), p \in Covers(l)
        PROVE  /\ l \in DOMAIN job' /\ job'[l].ent = job[l].ent /\ job'[l].tags = job[l].tags
               /\ job'[l].pc \in {"call", "core", "back"} /\ test'[l[1]].kind = test[l[1]].kind
    <3>1. l # k BY <1>7, <2>1
    <3>2. l \in DOMAIN job' BY <1>6, <2>1, <3>1 DEF Probing
    <3> QED BY <1>2, <1>6, <2>1, <3>1, <3>2 DEF Probing
  <2> QED BY <1>7, <2>1, StillProbed
<1>8. ASSUME NEW p \in Profiles \ Gone'
      PROVE  latency'[p] \in {None, Aborted, p} \/ p \in odd'.astray \/ Probed(p)'
  <2>1. p \in Profiles \ Gone BY <1>2 DEF Gone
  <2>2. latency[p] \in {None, Aborted, p} \/ p \in odd.astray \/ Probed(p)
    BY <2>1 DEF ClearInv, OwnLatency
  <2>3. CASE p \notin Covers(k)
    <3>1. latency'[p] = latency[p] BY <1>3, <2>1, <2>3 DEF Final
    <3> QED BY <1>4, <1>7, <2>2, <2>3, <3>1
  <2>4. CASE p \in Covers(k) /\ job[k].ok
    <3>1. latency'[p] = Own(k, p) BY <1>3, <2>1, <2>4 DEF Final
    <3> QED BY <3>1 DEF Own
  <2>5. CASE p \in Covers(k) /\ ~job[k].ok BY <1>4, <2>5
  <2> QED BY <2>3, <2>4, <2>5
<1>9. OwnLatency' BY <1>8 DEF OwnLatency
<1> QED BY <1>5, <1>9 DEF ClearInv

(* Progress: the call is still to have its word, or it is noted astray.     *)
LEMMA ApplyProgressKeepsClear ==
  ASSUME TypeInv, ClearInv, NEW k \in DOMAIN job, ApplyProgress(k) PROVE ClearInv'
<1> DEFINE r == [job[k] EXCEPT !.poll = "asleep", !.got = << >>]
           tags == job[k].tags
           news == {n \in DOMAIN tags \cap DOMAIN job[k].got : tags[n] \notin Gone}
           named == {tags[n] : n \in news}
<1>0. {"astray"} \subseteq DOMAIN odd /\ DOMAIN job[k] = DOMAIN NoJob BY DEF TypeInv, Types
<1>1. r.ent = job[k].ent /\ r.tags = job[k].tags /\ r.pc = job[k].pc BY <1>0, JobFields
<1>2. Update(k, r) /\ UNCHANGED <<dead, test, cleared, deleted>> /\ KindOf(k) = "url"
  BY DEF ApplyProgress, group, gui
<1>3. /\ latency' = [p \in Profiles |-> IF p \in named THEN job[k].got[Tag(tags, p)] ELSE latency[p]]
      /\ odd' = IF job[k].pc \in {"core", "back"} THEN odd ELSE [odd EXCEPT !.astray = @ \cup named]
  BY DEF ApplyProgress
<1> HIDE DEF r
<1>4. KeyOrder' /\ FullHasNoTags' /\ (dead \subseteq Profiles)' BY <1>1, <1>2, JobKeepsOrder
<1>5. /\ DOMAIN job' \subseteq DOMAIN job
      /\ \A l \in DOMAIN job' : job'[l] = IF l = k THEN r ELSE job[l]
      /\ \A l \in DOMAIN job \ DOMAIN job' : (IF l = k THEN r ELSE job[l]).pc = "done"
  BY <1>2, UpdateIs
<1>6. ASSUME NEW p, Probed(p) PROVE Probed(p)'
  <2>1. ASSUME NEW l \in DOMAIN job, Probing(l)
        PROVE  /\ l \in DOMAIN job' /\ job'[l].ent = job[l].ent /\ job'[l].tags = job[l].tags
               /\ job'[l].pc \in {"call", "core", "back"} /\ test'[l[1]].kind = test[l[1]].kind
    <3>1. l \in DOMAIN job' BY <1>1, <1>5, <2>1 DEF Probing
    <3> QED BY <1>1, <1>2, <1>5, <2>1, <3>1 DEF Probing
  <2> QED BY <1>6, <2>1, StillProbed
<1>7. named \subseteq Covers(k)
  <2>1. CASE job[k].ent = None BY <2>1 DEF Covers, ToSet
  <2>2. CASE job[k].ent # None
    <3>1. tags = << >> BY <2>2 DEF ClearInv, FullHasNoTags
    <3>2. DOMAIN tags = {} BY <3>1
    <3> QED BY <3>2
  <2> QED BY <2>1, <2>2
<1>8. job[k].pc \in {"core", "back"} => \A p \in named : Probed(p)
  BY <1>2, <1>7 DEF Probed, Probing
<1> HIDE DEF named
<1>9. odd'.astray = IF job[k].pc \in {"core", "back"} THEN odd.astray ELSE odd.astray \cup named
  BY <1>0, <1>3
<1>10. ASSUME NEW p \in Profiles \ Gone'
       PROVE  latency'[p] \in {None, Aborted, p} \/ p \in odd'.astray \/ Probed(p)'
  <2>1. p \in Profiles \ Gone BY <1>2 DEF Gone
  <2>2. latency[p] \in {None, Aborted, p} \/ p \in odd.astray \/ Probed(p)
    BY <2>1 DEF ClearInv, OwnLatency
  <2>3. p \notin named => latency'[p] = latency[p] BY <1>3, <2>1
  <2>4. CASE p \notin named BY <1>6, <1>9, <2>2, <2>3, <2>4
  <2>5. CASE p \in named BY <1>6, <1>8, <1>9, <2>5
  <2> QED BY <2>4, <2>5
<1>11. OwnLatency' BY <1>10 DEF OwnLatency
<1> QED BY <1>4, <1>11 DEF ClearInv

(* A step of a test's own thread that starts no calls.                     *)
LEMMA ThreadKeepsClear ==
  ASSUME TypeInv, ClearInv, NEW t \in 1 .. MaxTests, test[t].pc # "none",
         test'[t].kind = test[t].kind,
         \/ test'[t].i = test[t].i + 1
         \/ test'[t].i = test[t].i /\ test[t].pc \notin {"join", "speed"},
         \A u \in 1 .. MaxTests \ {t} : test'[u] = test[u],
         UNCHANGED <<dead, job, latency>>, Gone \subseteq Gone', odd'.astray = odd.astray
  PROVE  ClearInv'
<1>1. \A k \in DOMAIN job : k[1] \in 1 .. MaxTests /\ k[2] \in Nat /\ test[k[1]].i \in Nat
  <2>1. test \in [1 .. MaxTests -> Tests] /\ \A k \in DOMAIN job : k[2] \in Nat BY DEF TypeInv, Types
  <2> QED BY <2>1, WorkerOf DEF Tests
<1>2. KeyOrder'
  <2> SUFFICES ASSUME NEW k \in DOMAIN job
               PROVE  \/ k[2] < test'[k[1]].i
                      \/ k[2] = test'[k[1]].i /\ test'[k[1]].pc \in {"join", "speed"}
    BY DEF KeyOrder
  <2>1. \/ k[2] < test[k[1]].i
        \/ k[2] = test[k[1]].i /\ test[k[1]].pc \in {"join", "speed"}
    BY DEF ClearInv, KeyOrder
  <2>2. CASE k[1] = t BY <1>1, <2>1, <2>2
  <2>3. CASE k[1] # t BY <1>1, <2>1, <2>3
  <2> QED BY <2>2, <2>3
<1>3. FullHasNoTags' BY DEF ClearInv, FullHasNoTags
<1>4. \A u \in 1 .. MaxTests : test'[u].kind = test[u].kind OBVIOUS
<1>5. ASSUME NEW p, Probed(p) PROVE Probed(p)'
  <2>1. \A l \in DOMAIN job : test'[l[1]].kind = test[l[1]].kind BY <1>1, <1>4
  <2> QED BY <1>5, <2>1, StillProbed DEF Probing
<1>6. OwnLatency' BY <1>5 DEF ClearInv, OwnLatency
<1> QED BY <1>2, <1>3, <1>6 DEF ClearInv

(* A full configuration goes without the tags of the rest.                 *)
LEMMA LaunchedTags ==
  ASSUME NEW t, NEW i, NEW found
  PROVE  \A k \in DOMAIN Launched(t, i, found) :
           Launched(t, i, found)[k].ent # None => Launched(t, i, found)[k].tags = << >>
<1>1. {"pc", "tags", "ent"} \subseteq DOMAIN NoJob /\ NoJob.tags = << >> /\ NoJob.ent = None
  BY JobFields DEF NoJob
<1> DEFINE plain == {p \in found : form[p] = "plain"}
           full == {p \in found : form[p] = "full"}
           rest == IF plain = {} THEN {} ELSE {None}
           keys == {<<t, i, p>> : p \in full \cup rest}
           tags == Only(test[t].list[i], plain)
           L == Launched(t, i, found)
<1>2. L = [k \in keys |-> IF k[3] = None THEN [NoJob EXCEPT !.tags = tags] ELSE [NoJob EXCEPT !.ent = k[3]]]
  BY DEF Launched
<1> HIDE DEF keys, tags, L
<1>3. DOMAIN L = keys BY <1>2
<1>4. ASSUME NEW k \in keys, L[k].ent # None PROVE L[k].tags = << >>
  <2>1. CASE k[3] = None
    <3>1. L[k] = [NoJob EXCEPT !.tags = tags] BY <1>2, <2>1
    <3>2. L[k].ent = None BY <1>1, <3>1
    <3> QED BY <1>4, <3>2
  <2>2. CASE k[3] # None
    <3>1. L[k] = [NoJob EXCEPT !.ent = k[3]] BY <1>2, <2>2
    <3> QED BY <1>1, <3>1
  <2> QED BY <2>1, <2>2
<1> QED BY <1>3, <1>4 DEF L

(* What the next steps need of a job.                                      *)
LEMMA RecordIs ==
  ASSUME TypeInv, NEW k \in DOMAIN job
  PROVE  /\ {"pc", "poll", "ctx", "tags", "ent", "left", "cut", "ok", "moved", "got"} \subseteq DOMAIN job[k]
         /\ {"twice", "astray", "misread"} \subseteq DOMAIN odd
BY JobFields DEF TypeInv, Types

(* A call is made: it will have the last word.                             *)
LEMMA RunTestKeepsClear ==
  ASSUME TypeInv, ClearInv, NEW k \in DOMAIN job, RunTest(k) PROVE ClearInv'
<1> DEFINE r == IF stop THEN [job[k] EXCEPT !.pc = AfterCall(k)] ELSE [job[k] EXCEPT !.pc = "call"]
<1>1. r.ent = job[k].ent /\ r.tags = job[k].tags BY RecordIs
<1>2. Update(k, r) /\ ~Probing(k) /\ UNCHANGED <<dead, latency, cleared, deleted, test, odd>>
  BY DEF RunTest, Probing, group, gui, history
<1> HIDE DEF r
<1> QED BY <1>1, <1>2, JobKeepsClear

(* A probe ends, reported or cut.                                          *)
LEMMA ProbeKeepsClear ==
  ASSUME TypeInv, ClearInv, NEW k \in DOMAIN job, NEW p \in Profiles, Probe(k, p) PROVE ClearInv'
<1> DEFINE ended == [job[k] EXCEPT !.left = @ \ {p}]
           r == [ended EXCEPT !.cut = @ \cup {p}]
<1>1. /\ ended.ent = job[k].ent /\ ended.tags = job[k].tags /\ ended.pc = job[k].pc
      /\ r.ent = job[k].ent /\ r.tags = job[k].tags /\ r.pc = job[k].pc
  BY RecordIs
<1>2. Update(k, ended) \/ Update(k, r) BY DEF Probe
<1>3. UNCHANGED <<dead, latency, cleared, deleted, test, odd>> BY DEF Probe, group, gui, history
<1>4. Probing(k) => job[k].pc \in {"call", "core", "back"} BY DEF Probing
<1> HIDE DEF ended, r
<1> QED BY <1>1, <1>2, <1>3, <1>4, JobKeepsClear

(* The core answers.                                                       *)
LEMMA AnswerKeepsClear ==
  ASSUME TypeInv, ClearInv, NEW k \in DOMAIN job, Answer(k) PROVE ClearInv'
<1> DEFINE r == [job[k] EXCEPT !.pc = "back", !.ok = TRUE]
<1>1. /\ r.ent = job[k].ent /\ r.tags = job[k].tags
      /\ Probing(k) => r.pc \in {"call", "core", "back"}
  BY RecordIs DEF Probing
<1>2. Update(k, r) /\ UNCHANGED <<dead, latency, cleared, deleted, test, odd>>
  BY DEF Answer, group, gui, history
<1> HIDE DEF r
<1> QED BY <1>1, <1>2, JobKeepsClear

(* The call fails: its failure is still to be noted.                       *)
LEMMA CallFailsKeepsClear ==
  ASSUME TypeInv, ClearInv, NEW k \in DOMAIN job, CallFails(k) PROVE ClearInv'
<1> DEFINE r == [job[k] EXCEPT !.pc = "back"]
<1>1. /\ r.ent = job[k].ent /\ r.tags = job[k].tags
      /\ Probing(k) => r.pc \in {"call", "core", "back"}
  BY RecordIs DEF Probing
<1>2. Update(k, r) /\ UNCHANGED <<dead, latency, cleared, deleted, test, odd>>
  BY DEF CallFails, group, gui
<1> HIDE DEF r
<1> QED BY <1>1, <1>2, JobKeepsClear

(* The core serves the call.                                               *)
LEMMA ServeKeepsClear ==
  ASSUME TypeInv, ClearInv, NEW k \in DOMAIN job, Serve(k) PROVE ClearInv'
<1> DEFINE r == [job[k] EXCEPT !.pc = "core", !.ctx = ctx, !.left = Covers(k)]
<1>1. /\ r.ent = job[k].ent /\ r.tags = job[k].tags
      /\ Probing(k) => r.pc \in {"call", "core", "back"}
  BY RecordIs DEF Probing
<1>2. Update(k, r) /\ UNCHANGED <<dead, latency, cleared, deleted, test, odd>>
  BY DEF Serve, group, gui, history
<1> HIDE DEF r
<1> QED BY <1>1, <1>2, JobKeepsClear

(* A poller wakes.                                                         *)
LEMMA WakeKeepsClear ==
  ASSUME TypeInv, ClearInv, NEW k \in DOMAIN job, Wake(k) PROVE ClearInv'
<1> DEFINE r == [job[k] EXCEPT !.poll = "asked"]
<1>1. /\ r.ent = job[k].ent /\ r.tags = job[k].tags
      /\ Probing(k) => r.pc \in {"call", "core", "back"}
  BY RecordIs DEF Probing
<1>2. Update(k, r) /\ UNCHANGED <<dead, latency, cleared, deleted, test, odd>>
  BY DEF Wake, group, gui
<1> HIDE DEF r
<1> QED BY <1>1, <1>2, JobKeepsClear

(* Bytes arrive.                                                           *)
LEMMA TickKeepsClear ==
  ASSUME TypeInv, ClearInv, NEW k \in DOMAIN job, Tick(k) PROVE ClearInv'
<1> DEFINE r == [job[k] EXCEPT !.moved = @ + 1]
<1>1. /\ r.ent = job[k].ent /\ r.tags = job[k].tags
      /\ Probing(k) => r.pc \in {"call", "core", "back"}
  BY RecordIs DEF Probing
<1>2. Update(k, r) /\ UNCHANGED <<dead, latency, cleared, deleted, test, odd>>
  BY DEF Tick, group, gui, history
<1> HIDE DEF r
<1> QED BY <1>1, <1>2, JobKeepsClear

(* A speed test ends in the core.                                          *)
LEMMA SpeedEndsKeepsClear ==
  ASSUME TypeInv, ClearInv, NEW k \in DOMAIN job, SpeedEnds(k) PROVE ClearInv'
<1> DEFINE r == [job[k] EXCEPT !.left = {}]
<1>1. /\ r.ent = job[k].ent /\ r.tags = job[k].tags
      /\ Probing(k) => r.pc \in {"call", "core", "back"}
  BY RecordIs DEF Probing
<1>2. Update(k, r) /\ UNCHANGED <<dead, latency, cleared, deleted, test, odd>>
  BY DEF SpeedEnds, group, gui, history
<1> HIDE DEF r
<1> QED BY <1>1, <1>2, JobKeepsClear

(* A poller is handed the reporter's results, whoever's they are.          *)
LEMMA QueryURLTestKeepsClear ==
  ASSUME TypeInv, ClearInv, NEW k \in DOMAIN job, QueryURLTest(k) PROVE ClearInv'
<1> DEFINE r == IF reporter = << >> THEN [job[k] EXCEPT !.poll = "asleep"]
                ELSE [job[k] EXCEPT !.poll = "got", !.got = reporter]
<1>1. /\ r.ent = job[k].ent /\ r.tags = job[k].tags
      /\ Probing(k) => r.pc \in {"call", "core", "back"}
  BY RecordIs DEF Probing
<1>2. Update(k, r) /\ UNCHANGED <<dead, latency, cleared, deleted, test, odd>>
  BY DEF QueryURLTest, group, gui, history
<1> HIDE DEF r
<1> QED BY <1>1, <1>2, JobKeepsClear

(* A poller is handed the querier's bytes.                                 *)
LEMMA QueryCurrentSpeedTestsKeepsClear ==
  ASSUME TypeInv, ClearInv, NEW k \in DOMAIN job, QueryCurrentSpeedTests(k) PROVE ClearInv'
<1> DEFINE r == IF ~querier.run \/ job[k].ent # None \/ querier.of = << >>
                THEN [job[k] EXCEPT !.poll = "asleep"]
                ELSE [job[k] EXCEPT !.poll = "got", !.got = <<[tag |-> querier.bytes,
                                                               val |-> querier.of]>>]
<1>1. /\ r.ent = job[k].ent /\ r.tags = job[k].tags
      /\ Probing(k) => r.pc \in {"call", "core", "back"}
  BY RecordIs DEF Probing
<1>2. Update(k, r) /\ UNCHANGED <<dead, latency, cleared, deleted, test, odd>>
  BY DEF QueryCurrentSpeedTests, group, gui, history
<1> HIDE DEF r
<1> QED BY <1>1, <1>2, JobKeepsClear

(* Crediting makes no latency go astray.                                   *)
LEMMA CreditStrays ==
  ASSUME TypeInv, NEW k \in DOMAIN job, NEW n, NEW of, NEW late, Credit(k, n, of, late)
  PROVE  odd'.astray = odd.astray
<1> DEFINE more == {job[k].tags[1], of[2]} \cup {q \in Profiles : late /\ UnderTest(q)}
<1>1. odd' = odd \/ odd' = [odd EXCEPT !.misread = @ \cup more] BY DEF Credit
<1> HIDE DEF more
<1> QED BY <1>1, RecordIs

(* A speed test writes no latency.                                         *)
LEMMA ApplySpeedKeepsClear ==
  ASSUME TypeInv, ClearInv, NEW k \in DOMAIN job, ApplySpeed(k) PROVE ClearInv'
<1> DEFINE r == [job[k] EXCEPT !.pc = "done"]
<1>1. /\ r.ent = job[k].ent /\ r.tags = job[k].tags
      /\ Probing(k) => r.pc \in {"call", "core", "back"}
  BY RecordIs DEF Probing, ApplySpeed
<1>2. Update(k, r) /\ UNCHANGED <<dead, latency, cleared, deleted, test>>
  BY DEF ApplySpeed, group, gui
<1>3. odd'.astray = odd.astray
  <2>1. \/ Credit(k, job[k].moved, <<k, job[k].tags[1]>>, FALSE)
        \/ odd' = [odd EXCEPT !.misread = @ \cup Covers(k)]
    BY DEF ApplySpeed
  <2> QED BY <2>1, CreditStrays, RecordIs
<1> HIDE DEF r
<1> QED BY <1>1, <1>2, <1>3, JobKeepsClear

(* Nor does its progress.                                                  *)
LEMMA CreditProgressKeepsClear ==
  ASSUME TypeInv, ClearInv, NEW k \in DOMAIN job, CreditProgress(k) PROVE ClearInv'
<1> DEFINE r == [job[k] EXCEPT !.poll = "asleep", !.got = << >>]
<1>1. /\ r.ent = job[k].ent /\ r.tags = job[k].tags
      /\ Probing(k) => r.pc \in {"call", "core", "back"}
  BY RecordIs DEF Probing
<1>2. Update(k, r) /\ UNCHANGED <<dead, latency, cleared, deleted, test>>
  BY DEF CreditProgress, group, gui
<1>3. odd'.astray = odd.astray
  <2>1. \/ odd' = odd
        \/ Credit(k, job[k].got[1].tag, job[k].got[1].val, job[k].pc = "done")
    BY DEF CreditProgress
  <2> QED BY <2>1, CreditStrays
<1> HIDE DEF r
<1> QED BY <1>1, <1>2, <1>3, JobKeepsClear

(* A worker is counted.                                                    *)
LEMMA CountKeepsClear ==
  ASSUME TypeInv, ClearInv, NEW k \in DOMAIN job, Count(k) PROVE ClearInv'
<1> DEFINE r == [job[k] EXCEPT !.pc = "checking"]
<1>1. r.ent = job[k].ent /\ r.tags = job[k].tags BY RecordIs
<1>2. Update(k, r) /\ ~Probing(k) /\ UNCHANGED <<dead, latency, cleared, deleted, odd>>
  BY DEF Count, Probing, group, history
<1>3. \A u \in 1 .. MaxTests : /\ test'[u].i = test[u].i /\ test'[u].pc = test[u].pc
                               /\ test'[u].kind = test[u].kind
  <2>1. PICK here : test' = [test EXCEPT ![k[1]].counter = @ + here] BY DEF Count
  <2>2. test \in [1 .. MaxTests -> Tests] BY DEF TypeInv, Types
  <2> QED BY <2>1, <2>2 DEF Tests
<1> HIDE DEF r
<1> QED BY <1>1, <1>2, <1>3, JobKeepsClear

(* A worker looks whether it is the last.                                  *)
LEMMA CheckKeepsClear ==
  ASSUME TypeInv, ClearInv, NEW k \in DOMAIN job, Check(k) PROVE ClearInv'
<1> DEFINE r == [job[k] EXCEPT !.pc = "done"]
           again == test[k[1]].gave \/ ~Alive(k)
<1>1. r.ent = job[k].ent /\ r.tags = job[k].tags BY RecordIs
<1>2. Update(k, r) /\ ~Probing(k) /\ UNCHANGED <<dead, latency, cleared, deleted>>
  BY DEF Check, Probing, group
<1>3. \/ UNCHANGED <<test, odd>>
      \/ Unlock(again) /\ test' = [test EXCEPT ![k[1]].gave = TRUE]
  BY DEF Check
<1>4. \A u \in 1 .. MaxTests : /\ test'[u].i = test[u].i /\ test'[u].pc = test[u].pc
                               /\ test'[u].kind = test[u].kind
  <2>1. test \in [1 .. MaxTests -> Tests] BY DEF TypeInv, Types
  <2>2. CASE test' = test BY <2>2
  <2>3. CASE test' = [test EXCEPT ![k[1]].gave = TRUE] BY <2>1, <2>3 DEF Tests
  <2> QED BY <1>3, <2>2, <2>3
<1>5. odd'.astray = odd.astray BY <1>3, RecordIs DEF Unlock
<1> HIDE DEF r
<1> QED BY <1>1, <1>2, <1>4, <1>5, JobKeepsClear

(* A new slice has new keys: no call that is to have its word is forgotten. *)
LEMMA SliceKeepsClear ==
  ASSUME TypeInv, ClearInv, NEW t \in 1 .. MaxTests, Slice(t) PROVE ClearInv'
<1> DEFINE found == (Profiles \ Gone) \cap ToSet(test[t].list[test[t].i])
           new == Launched(t, test[t].i, found)
           n == TestCount(new)
           seen == [test EXCEPT ![t].group = @ \/ found # {}]
<1>0. test \in [1 .. MaxTests -> Tests] /\ test[t] \in Tests /\ test[t].i \in Nat
  BY DEF TypeInv, Types, Tests
<1>1. test[t].pc = "loop" /\ UNCHANGED <<dead, latency, cleared, deleted>> BY DEF Slice, group
<1>2. \/ job' = job /\ odd' = odd /\ test' = [seen EXCEPT ![t].i = @ + 1]
      \/ job' = Together(new) /\ odd' = odd /\ test' = [seen EXCEPT ![t].pc = "speed"]
      \/ /\ job' = Together(new) /\ NothingToDo(n)
         /\ test' = [seen EXCEPT ![t].pc = "join", ![t].n = n, ![t].counter = 0, ![t].gave = (n = 0)]
  BY DEF Slice
<1> HIDE DEF n
<1>3. odd'.astray = odd.astray
  <2>1. {"astray", "twice"} \subseteq DOMAIN odd BY DEF TypeInv, Types
  <2>2. NothingToDo(n) => odd' = odd \/ odd' = [odd EXCEPT !.twice = @ \/ FALSE]
    BY DEF NothingToDo, Unlock
  <2> HIDE DEF new, found
  <2> QED BY <1>2, <2>1, <2>2
<1>4. \A u \in 1 .. MaxTests \ {t} : test'[u] = test[u]
  <2> HIDE DEF new, found
  <2> QED BY <1>0, <1>2
<1>5. CASE job' = job /\ test' = [seen EXCEPT ![t].i = @ + 1]
  <2> HIDE DEF new, found
  <2>1. test'[t].kind = test[t].kind /\ test'[t].i = test[t].i + 1 BY <1>0, <1>5 DEF Tests
  <2>2. test[t].pc # "none" BY <1>1
  <2> QED BY <1>1, <1>3, <1>4, <1>5, <2>1, <2>2, ThreadKeepsClear DEF Gone
<1>6. CASE /\ job' = Together(new)
           /\ \/ test' = [seen EXCEPT ![t].pc = "speed"]
              \/ test' = [seen EXCEPT ![t].pc = "join", ![t].n = n, ![t].counter = 0, ![t].gave = (n = 0)]
  <2>1. /\ test'[t].kind = test[t].kind /\ test'[t].i = test[t].i
        /\ test'[t].pc \in {"join", "speed"}
    <3> HIDE DEF new, found
    <3>1. CASE test' = [seen EXCEPT ![t].pc = "speed"] BY <1>0, <3>1 DEF Tests
    <3>2. CASE test' = [seen EXCEPT ![t].pc = "join", ![t].n = n, ![t].counter = 0, ![t].gave = (n = 0)]
      BY <1>0, <3>2 DEF Tests
    <3> QED BY <1>6, <3>1, <3>2
  <2>2. \A k \in DOMAIN new : /\ k[1] = t /\ k[2] = test[t].i
                              /\ new[k].ent # None => new[k].tags = << >>
    BY LaunchedAre, LaunchedTags
  <2> HIDE DEF new
  <2>3. \A k \in DOMAIN job : k \notin DOMAIN new
    <3> SUFFICES ASSUME NEW k \in DOMAIN job, k \in DOMAIN new PROVE FALSE OBVIOUS
    <3>1. k[1] = t /\ k[2] = test[t].i BY <2>2
    <3> QED BY <1>0, <1>1, <3>1 DEF ClearInv, KeyOrder
  <2>4. /\ DOMAIN job' = DOMAIN new \cup DOMAIN job
        /\ \A k \in DOMAIN job' : job'[k] = IF k \in DOMAIN new THEN new[k] ELSE job[k]
    BY <1>6 DEF Together
  <2>5. \A k \in DOMAIN job : k \in DOMAIN job' /\ job'[k] = job[k] BY <2>3, <2>4
  <2>6. \A k \in DOMAIN job : /\ test'[k[1]].kind = test[k[1]].kind
                              /\ test'[k[1]].i = test[k[1]].i
                              /\ test'[k[1]].pc = test[k[1]].pc \/ test'[k[1]].pc \in {"join", "speed"}
    BY <1>4, <2>1, WorkerOf
  <2>7. KeyOrder'
    <3> SUFFICES ASSUME NEW k \in DOMAIN job'
                 PROVE  \/ k[2] < test'[k[1]].i
                        \/ k[2] = test'[k[1]].i /\ test'[k[1]].pc \in {"join", "speed"}
      BY DEF KeyOrder
    <3>1. CASE k \in DOMAIN new BY <2>1, <2>2, <3>1
    <3>2. CASE k \in DOMAIN job BY <2>6, <3>2 DEF ClearInv, KeyOrder
    <3> QED BY <2>4, <3>1, <3>2
  <2>8. FullHasNoTags' BY <2>2, <2>4 DEF ClearInv, FullHasNoTags
  <2>9. ASSUME NEW p, Probed(p) PROVE Probed(p)'
    BY <2>5, <2>6, <2>9, StillProbed DEF Probing
  <2>10. OwnLatency' BY <1>1, <1>3, <2>9 DEF ClearInv, OwnLatency, Gone
  <2> QED BY <1>1, <2>7, <2>8, <2>10 DEF ClearInv
<1> QED BY <1>2, <1>5, <1>6

(* The other steps of a test's thread, and auto clear itself.              *)
LEMMA OtherThreadKeepsClear ==
  ASSUME TypeInv, ClearInv, NEW t \in 1 .. MaxTests,
         Begin(t) \/ Join(t) \/ NextSpeed(t) \/ Finish(t) \/ clearUnavailableProfiles(t)
  PROVE  ClearInv'
<1>0. test \in [1 .. MaxTests -> Tests] /\ test[t] \in Tests BY DEF TypeInv, Types
<1>1. UNCHANGED <<dead, job, latency>> /\ Gone \subseteq Gone'
  BY DEF Begin, Join, NextSpeed, Finish, clearUnavailableProfiles, group, Gone
<1>2. odd'.astray = odd.astray
  <2>1. {"astray", "twice"} \subseteq DOMAIN odd BY DEF TypeInv, Types
  <2>2. odd' = odd \/ odd' = [odd EXCEPT !.twice = @ \/ ~held]
    BY DEF Begin, Join, NextSpeed, Finish, clearUnavailableProfiles, Unlock, history
  <2> QED BY <2>1, <2>2
<1>3. test[t].pc # "none"
  BY DEF Begin, Join, NextSpeed, Finish, clearUnavailableProfiles
<1>4. \/ /\ test[t].pc \in {"join", "speed"}
         /\ \/ test' = [test EXCEPT ![t].pc = "loop", ![t].i = @ + 1, ![t].gave = FALSE]
            \/ test' = [test EXCEPT ![t].pc = "loop", ![t].i = @ + 1]
      \/ /\ test[t].pc \notin {"join", "speed"}
         /\ \E pc \in Phases : test' = [test EXCEPT ![t].pc = pc]
  BY DEF Begin, Join, NextSpeed, Finish, clearUnavailableProfiles, Phases
<1>5. /\ test'[t].kind = test[t].kind
      /\ \/ test'[t].i = test[t].i + 1
         \/ test'[t].i = test[t].i /\ test[t].pc \notin {"join", "speed"}
      /\ \A u \in 1 .. MaxTests \ {t} : test'[u] = test[u]
  <2>1. CASE /\ test[t].pc \in {"join", "speed"}
             /\ test' = [test EXCEPT ![t].pc = "loop", ![t].i = @ + 1, ![t].gave = FALSE]
    BY <1>0, <2>1 DEF Tests
  <2>2. CASE /\ test[t].pc \in {"join", "speed"}
             /\ test' = [test EXCEPT ![t].pc = "loop", ![t].i = @ + 1]
    BY <1>0, <2>2 DEF Tests
  <2>3. ASSUME test[t].pc \notin {"join", "speed"}, NEW pc \in Phases,
               test' = [test EXCEPT ![t].pc = pc]
        PROVE  /\ test'[t].kind = test[t].kind /\ test'[t].i = test[t].i
               /\ \A u \in 1 .. MaxTests \ {t} : test'[u] = test[u]
    BY <1>0, <2>3 DEF Tests
  <2> QED BY <1>4, <2>1, <2>2, <2>3
<1> QED BY <1>1, <1>2, <1>3, <1>5, ThreadKeepsClear

(* No call has the number of the new test.                                 *)
LEMMA StartKeepsClear ==
  ASSUME TypeInv, ClearInv, NEW kind, NEW list, StartTest(kind, list) PROVE ClearInv'
<1>1. UNCHANGED <<dead, job, latency, cleared, deleted, odd>> BY DEF StartTest, group
<1>2. \A k \in DOMAIN job : test'[k[1]] = test[k[1]]
  <2>1. /\ tests \in Nat /\ test \in [1 .. MaxTests -> Tests]
        /\ \A k \in DOMAIN job : k[1] \in 1 .. tests
    BY BatchAssumption DEF TypeInv, Types
  <2>2. tests' = tests + 1 BY DEF StartTest
  <2>3. \A k \in DOMAIN job : k[1] # tests' /\ k[1] \in 1 .. MaxTests BY <2>1, <2>2, WorkerOf
  <2>4. PICK r : test' = [test EXCEPT ![tests'] = r] BY DEF StartTest
  <2> QED BY <2>1, <2>3, <2>4
<1>3. KeyOrder' /\ FullHasNoTags' BY <1>1, <1>2 DEF ClearInv, KeyOrder, FullHasNoTags
<1>4. ASSUME NEW p, Probed(p) PROVE Probed(p)' BY <1>1, <1>2, <1>4, StillProbed DEF Probing
<1>5. OwnLatency' BY <1>1, <1>4 DEF ClearInv, OwnLatency, Gone
<1> QED BY <1>1, <1>3, <1>5 DEF ClearInv

(* A profile that is gone has no latency to go by.                         *)
LEMMA ClearStays ==
  ASSUME ClearInv, UNCHANGED <<dead, test, job, latency, odd>>, Gone \subseteq Gone' PROVE ClearInv'
<1>1. KeyOrder' /\ FullHasNoTags' BY DEF ClearInv, KeyOrder, FullHasNoTags
<1>2. ASSUME NEW p, Probed(p) PROVE Probed(p)' BY <1>2, StillProbed DEF Probing
<1>3. OwnLatency' BY <1>2 DEF ClearInv, OwnLatency
<1> QED BY <1>1, <1>3 DEF ClearInv

(* The invariant is inductive.                                             *)
LEMMA ClearKeeps == TypeInv /\ ClearInv /\ [Next]_vars => ClearInv'
<1> SUFFICES ASSUME TypeInv, ClearInv, [Next]_vars PROVE ClearInv' OBVIOUS
<1>1. CASE UNCHANGED vars
  <2>1. UNCHANGED <<dead, test, job, latency, odd>> /\ Gone \subseteq Gone'
    BY <1>1 DEF vars, group, gui, history, Gone
  <2> QED BY <2>1, ClearStays
<1>2. ASSUME NEW kind \in plan.kinds, NEW list \in Lists, StartTest(kind, list) PROVE ClearInv'
  BY <1>2, StartKeepsClear
<1>3. ASSUME stopTests \/ Stopping \/ \E p \in Profiles : DeleteProfile(p) PROVE ClearInv'
  <2>1. UNCHANGED <<dead, test, job, latency, odd>> /\ Gone \subseteq Gone'
    BY <1>3 DEF stopTests, DeleteProfile, Stopping, CancelTests, RenewTests, group, gui, history, Gone
  <2> QED BY <2>1, ClearStays
<1>4. ASSUME NEW t \in 1 .. MaxTests, clearUnavailableProfiles(t) PROVE ClearInv'
  BY <1>4, OtherThreadKeepsClear
<1>5. ASSUME NEW t \in 1 .. MaxTests, Thread(t) PROVE ClearInv'
  BY <1>5, SliceKeepsClear, OtherThreadKeepsClear DEF Thread
<1>6. ASSUME NEW k \in DOMAIN job, Caller(k) PROVE ClearInv'
  BY <1>6, RunTestKeepsClear, AnswerKeepsClear, ApplyLatencyKeepsClear, ApplySpeedKeepsClear,
     CountKeepsClear, CheckKeepsClear DEF Caller
<1>7. ASSUME NEW k \in DOMAIN job, Poller(k) PROVE ClearInv'
  BY <1>7, WakeKeepsClear, QueryURLTestKeepsClear, QueryCurrentSpeedTestsKeepsClear,
     ApplyProgressKeepsClear, CreditProgressKeepsClear DEF Poller
<1>8. ASSUME NEW k \in DOMAIN job, Serving(k) PROVE ClearInv'
  BY <1>8, ServeKeepsClear, SpeedEndsKeepsClear, ProbeKeepsClear DEF Serving
<1>9. ASSUME NEW k \in DOMAIN job, CallFails(k) \/ Tick(k) PROVE ClearInv'
  BY <1>9, CallFailsKeepsClear, TickKeepsClear
<1> QED BY <1>1, <1>2, <1>3, <1>4, <1>5, <1>6, <1>7, <1>8, <1>9 DEF Next, User, UiThread, Work

(* What auto clear deletes it deletes by the latency it finds.             *)
LEMMA ClearedAre ==
  ASSUME TypeInv, ClearInv, [Next]_vars, NEW p \in cleared' \ cleared
  PROVE  p \in dead \/ p \in odd.astray \/ UnderTest(p)
<1>1. PICK t \in 1 .. MaxTests : clearUnavailableProfiles(t)
  <2>1. CASE UNCHANGED vars BY <2>1 DEF vars
  <2>2. CASE User \/ Stopping
    BY <2>2 DEF User, StartTest, stopTests, DeleteProfile, Stopping, CancelTests, RenewTests
  <2>3. ASSUME NEW u \in 1 .. MaxTests, Thread(u) PROVE cleared' = cleared
    BY <2>3 DEF Thread, Begin, Slice, Join, NextSpeed, Finish
  <2>4. ASSUME NEW k \in DOMAIN job, Caller(k) PROVE cleared' = cleared
    BY <2>4 DEF Caller, RunTest, Answer, ApplyLatency, ApplySpeed, Count, Check
  <2>5. ASSUME NEW k \in DOMAIN job, Poller(k) PROVE cleared' = cleared
    BY <2>5 DEF Poller, Wake, QueryURLTest, QueryCurrentSpeedTests, ApplyProgress, CreditProgress
  <2>6. ASSUME NEW k \in DOMAIN job, Serving(k) \/ CallFails(k) \/ Tick(k) PROVE cleared' = cleared
    BY <2>6 DEF Serving, Serve, SpeedEnds, Probe, CallFails, Tick
  <2> QED BY <2>1, <2>2, <2>3, <2>4, <2>5, <2>6 DEF Next, UiThread, Work
<1>2. p \in ListedIn(t) \ Gone /\ latency[p] \in dead
  BY <1>1 DEF clearUnavailableProfiles, Unavailable
<1>3. p \in Profiles
  <2>1. test[t].kind = "url" BY <1>1 DEF clearUnavailableProfiles, TypeInv, Kinds
  <2>2. test[t].list \in Seq(Seq(Profiles))
    BY <1>1, <2>1, BatchAssumption DEF TypeInv, Kinds, clearUnavailableProfiles
  <2>3. PICK j \in DOMAIN test[t].list : p \in ToSet(test[t].list[j])
    BY <1>2 DEF ListedIn, ToSet
  <2>4. test[t].list[j] \in Seq(Profiles) BY <2>2
  <2> QED BY <2>3, <2>4 DEF ToSet
<1>4. latency[p] \in {None, Aborted, p} \/ p \in odd.astray \/ Probed(p)
  BY <1>2, <1>3 DEF ClearInv, OwnLatency
<1>5. latency[p] \in Profiles BY <1>2 DEF ClearInv
<1>6. latency[p] \notin {None, Aborted} BY <1>5, BatchAssumption
<1>7. Probed(p) => UnderTest(p) BY DEF Probed, Probing, UnderTest
<1> QED BY <1>2, <1>4, <1>6, <1>7

(* Auto clear goes by a profile's own probe (ClearsOnlyDead), although one *)
(* reporter serves all batches and every batch uses the same tags: a       *)
(* result handed to the wrong profile is overwritten by the profile's own  *)
(* before the test is over, unless the call failed, the poller was late,   *)
(* or the next test has begun.                                             *)
THEOREM ClearsByOwnProbe == Spec => ClearsOnlyDead
<1>1. Init => TurnInv /\ ClearInv BY TurnInitially, ClearInitially
<1>2. TurnInv /\ ClearInv /\ [Next]_vars => (TurnInv /\ ClearInv)'
  BY TurnKeeps, ClearKeeps DEF TurnInv
<1>3. TurnInv /\ ClearInv /\ [Next]_vars =>
        [\A p \in cleared' \ cleared : p \in dead \/ p \in odd.astray \/ UnderTest(p)]_vars
  BY ClearedAre DEF TurnInv
<1> QED BY <1>1, <1>2, <1>3, PTL DEF Spec, ClearsOnlyDead

-----------------------------------------------------------------------------
(* What speed tests moved.                                                 *)

SpeedJobs == {k \in DOMAIN job : KindOf(k) = "speed"}

(* The profile a call of a speed test is about, and the run of it: what is *)
(* counted under the one tag of all speed tests.                           *)
SubjectOf(j) == IF j.ent = None THEN j.tags[1] ELSE j.ent
RunOf(k, j) == <<k, SubjectOf(j)>>
Works(j) == j.pc \notin {"checking", "done"}

(* The number of a call is that of a slice that was begun.                 *)
Begun(k, ts) == /\ k[1] \in 1 .. MaxTests /\ k[2] \in Nat /\ ts[k[1]].pc # "none"
                /\ \/ k[2] < ts[k[1]].i
                   \/ k[2] = ts[k[1]].i /\ ts[k[1]].pc \in {"join", "speed"}
IsRun(of, ts) == of = << >> \/ Begun(of[1], ts)

(* A slice of a speed test is one profile.                                 *)
SpeedSlices == \A t \in 1 .. MaxTests : test[t].pc # "none" /\ test[t].kind = "speed" =>
  \A i \in DOMAIN test[t].list : \E x : test[t].list[i] = <<x>>

(* A call has moved nothing before it is served, and moves nothing more    *)
(* when it has answered.                                                   *)
CallIs(j) ==
  /\ j.ent = None => j.tags = <<SubjectOf(j)>>
  /\ j.left \subseteq {SubjectOf(j)} /\ j.moved \in Nat
  /\ j.pc \notin {"counting", "checking"}
  /\ j.pc \in {"queued", "call"} => j.left = {} /\ j.moved = 0 /\ ~j.ok
  /\ j.pc = "queued" => j.poll = "asleep"
  /\ j.ok => j.left = {}
  /\ j.poll = "got" => j.ent = None /\ j.got[1].tag \in Nat /\ j.got[1].val # << >>

SpeedCalls == \A k \in SpeedJobs :
  /\ CallIs(job[k])
  /\ job[k].poll = "got" => IsRun(job[k].got[1].val, test)
  /\ job[k].pc = "done" => job[k].left = {} \/ SubjectOf(job[k]) \in odd.misread
  /\ \A l \in SpeedJobs : l[1] = k[1] /\ l[2] = k[2] => l = k

(* Of one run, the bytes credited are no more than those polled, these no  *)
(* more than those stored, and these no more than those moved.             *)
Rising(k, j, b, q) ==
  /\ b.of = RunOf(k, j) => b.bytes <= j.moved
  /\ q.of = RunOf(k, j) => q.bytes <= j.moved
  /\ b.of = RunOf(k, j) /\ q.of = RunOf(k, j) => b.bytes <= q.bytes
  /\ j.poll = "got" /\ j.got[1].val = RunOf(k, j) =>
        /\ j.got[1].tag <= j.moved
        /\ b.of = RunOf(k, j) => b.bytes <= j.got[1].tag
        /\ q.of = RunOf(k, j) => j.got[1].tag <= q.bytes
Ascend == \A k \in SpeedJobs :
  Works(job[k]) /\ SubjectOf(job[k]) \notin odd.misread => Rising(k, job[k], base, querier)

Baselines ==
  /\ base.bytes \in Nat /\ IsRun(base.of, test) /\ (base.of = << >> => base.bytes = 0)
  /\ querier.bytes \in Nat /\ IsRun(querier.of, test) /\ {"run", "bytes", "of"} = DOMAIN querier

(* What a call under way has moved is credited up to the baseline; without *)
(* such a call everything is.                                              *)
Based(k, j, b) == IF b.of = RunOf(k, j) THEN b.bytes ELSE 0
Balance ==
  /\ credited \in [Profiles -> Nat] /\ moved \in [Profiles -> Nat]
  /\ \A k \in SpeedJobs : Works(job[k]) /\ SubjectOf(job[k]) \in Profiles \ odd.misread =>
        credited[SubjectOf(job[k])] + job[k].moved
          = moved[SubjectOf(job[k])] + Based(k, job[k], base)
  /\ \A p \in Profiles \ odd.misread :
        (\A k \in SpeedJobs : Works(job[k]) => SubjectOf(job[k]) # p) => credited[p] = moved[p]

Flow == SpeedSlices /\ SpeedCalls /\ Ascend /\ Baselines /\ Balance
SpeedInv == odd.twice \/ Flow
-----------------------------------------------------------------------------
(* One call at a time moves bytes: the mutex is its test's.                *)
LEMMA OneMoves ==
  ASSUME TypeInv, Mutex, SpeedCalls, NEW k \in SpeedJobs, NEW l \in SpeedJobs,
         Works(job[k]), Works(job[l])
  PROVE  k = l
<1>1. k \in Workers /\ l \in Workers BY WorkersAre DEF SpeedJobs, Works
<1>2. k[1] \in 1 .. MaxTests /\ l[1] \in 1 .. MaxTests BY WorkerOf DEF SpeedJobs
<1>3. k[1] = l[1] BY <1>1, <1>2 DEF Mutex
<1>4. k[2] = l[2] BY <1>1, <1>3 DEF Mutex
<1> QED BY <1>3, <1>4 DEF SpeedCalls

(* So is that of every call there is.                                      *)
LEMMA CallIsBegun ==
  ASSUME TypeInv, KeyOrder, NEW k \in DOMAIN job PROVE Begun(k, test)
<1>1. k[1] \in 1 .. MaxTests /\ k[1] \in 1 .. tests /\ k[2] \in Nat /\ tests \in Nat
  BY WorkerOf, BatchAssumption DEF TypeInv, Types
<1>2. test[k[1]].pc # "none" BY <1>1 DEF TypeInv, Fresh
<1> QED BY <1>1, <1>2 DEF KeyOrder, Begun

(* A begun slice stays one.                                                *)
LEMMA RunsStay ==
  ASSUME \A k : Begun(k, test) => Begun(k, test'), NEW of, IsRun(of, test) PROVE IsRun(of, test')
BY DEF IsRun

(* A step that has nothing to do with speed tests.                         *)
LEMMA FlowStays ==
  ASSUME Flow, SpeedSlices',
         \A k \in SpeedJobs' : k \in SpeedJobs /\ job'[k] = job[k],
         \A k \in SpeedJobs : k \notin SpeedJobs' => ~Works(job[k]),
         UNCHANGED <<base, credited, moved, querier>>, odd.misread \subseteq odd'.misread,
         \A k : Begun(k, test) => Begun(k, test')
  PROVE  Flow'
<1>1. SpeedCalls'
  <2> SUFFICES ASSUME NEW k \in SpeedJobs'
               PROVE  /\ CallIs(job'[k])
                      /\ job'[k].poll = "got" => IsRun(job'[k].got[1].val, test')
                      /\ job'[k].pc = "done" => job'[k].left = {} \/ SubjectOf(job'[k]) \in odd'.misread
                      /\ \A l \in SpeedJobs' : l[1] = k[1] /\ l[2] = k[2] => l = k
    BY DEF SpeedCalls, CallIs, SubjectOf
  <2>1. k \in SpeedJobs /\ job'[k] = job[k] /\ \A l \in SpeedJobs' : l \in SpeedJobs OBVIOUS
  <2>2. job[k].poll = "got" => IsRun(job[k].got[1].val, test') BY <2>1, RunsStay DEF Flow, SpeedCalls
  <2> QED BY <2>1, <2>2 DEF Flow, SpeedCalls
<1>2. Ascend' BY DEF Flow, Ascend, Works, SubjectOf, Rising, RunOf
<1>3. Baselines'
  <2>1. IsRun(base.of, test') /\ IsRun(querier.of, test') BY RunsStay DEF Flow, Baselines
  <2> QED BY <2>1 DEF Flow, Baselines
<1>4. Balance'
  <2>1. ASSUME NEW p, \A k \in SpeedJobs' : Works(job'[k]) => SubjectOf(job'[k]) # p
        PROVE  \A k \in SpeedJobs : Works(job[k]) => SubjectOf(job[k]) # p
    BY <2>1
  <2>2. \A k \in SpeedJobs' : Works(job'[k]) /\ SubjectOf(job'[k]) \in Profiles \ odd'.misread =>
          credited[SubjectOf(job'[k])] + job'[k].moved
            = moved[SubjectOf(job'[k])] + Based(k, job'[k], base)
    BY DEF Flow, Balance
  <2>3. \A p \in Profiles \ odd'.misread :
          (\A k \in SpeedJobs' : Works(job'[k]) => SubjectOf(job'[k]) # p) => credited[p] = moved[p]
    BY <2>1 DEF Flow, Balance
  <2>4. credited \in [Profiles -> Nat] /\ moved \in [Profiles -> Nat] BY DEF Flow, Balance
  <2> QED BY <2>2, <2>3, <2>4 DEF Balance, Works, SubjectOf, Based, RunOf
<1> QED BY <1>1, <1>2, <1>3, <1>4 DEF Flow

(* The run of a call does not change as long as its tags do not.           *)
LEMMA SameRun ==
  ASSUME NEW k, NEW j, NEW r, r.ent = j.ent, r.tags = j.tags
  PROVE  SubjectOf(r) = SubjectOf(j) /\ RunOf(k, r) = RunOf(k, j)
BY DEF SubjectOf, RunOf

(* What an update of a call of a speed test leaves.                        *)
LEMMA SpeedUpdate ==
  ASSUME NEW k \in SpeedJobs, NEW r, Update(k, r), test' = test
  PROVE  /\ SpeedJobs' \subseteq SpeedJobs
         /\ \A l \in SpeedJobs' : job'[l] = IF l = k THEN r ELSE job[l]
         /\ \A l \in SpeedJobs \ SpeedJobs' : ~Works(IF l = k THEN r ELSE job[l])
<1>1. /\ DOMAIN job' \subseteq DOMAIN job
      /\ \A l \in DOMAIN job' : job'[l] = IF l = k THEN r ELSE job[l]
      /\ \A l \in DOMAIN job \ DOMAIN job' : (IF l = k THEN r ELSE job[l]).pc = "done"
  BY UpdateIs DEF SpeedJobs
<1>2. SpeedJobs' = SpeedJobs \cap DOMAIN job' BY <1>1 DEF SpeedJobs, KindOf
<1>3. SpeedJobs \subseteq DOMAIN job BY DEF SpeedJobs
<1> QED BY <1>1, <1>2, <1>3 DEF Works

(* A call goes on and moves no bytes, and what is polled is what is stored. *)
LEMMA CallGoesOn ==
  ASSUME Flow, NEW k \in SpeedJobs, NEW r, Update(k, r), r.ent = job[k].ent, r.tags = job[k].tags,
         r.moved = job[k].moved, CallIs(r), UNCHANGED <<test, base, credited, moved>>,
         querier'.bytes = querier.bytes, querier'.of = querier.of, DOMAIN querier' = DOMAIN querier,
         odd.misread \subseteq odd'.misread,
         r.poll = "got" => \/ job[k].poll = "got" /\ r.got = job[k].got
                           \/ r.got[1].tag = querier.bytes /\ r.got[1].val = querier.of,
         Works(r) => Works(job[k]), Works(job[k]) /\ ~Works(r) => r.moved = 0 \/ SubjectOf(r) \in odd'.misread,
         r.pc = "done" => r.left = {} \/ SubjectOf(r) \in odd'.misread
  PROVE  Flow'
<1>1. /\ SpeedJobs' \subseteq SpeedJobs
      /\ \A l \in SpeedJobs' : job'[l] = IF l = k THEN r ELSE job[l]
      /\ \A l \in SpeedJobs \ SpeedJobs' : ~Works(IF l = k THEN r ELSE job[l])
  BY SpeedUpdate
<1>2. SubjectOf(r) = SubjectOf(job[k]) /\ RunOf(k, r) = RunOf(k, job[k]) BY SameRun
<1>3. SpeedSlices' BY DEF Flow, SpeedSlices
<1>4. Baselines' BY DEF Flow, Baselines
<1>5. SpeedCalls'
  <2> SUFFICES ASSUME NEW l \in SpeedJobs'
               PROVE  /\ CallIs(job'[l])
                      /\ job'[l].poll = "got" => IsRun(job'[l].got[1].val, test')
                      /\ job'[l].pc = "done" => job'[l].left = {} \/ SubjectOf(job'[l]) \in odd'.misread
                      /\ \A m \in SpeedJobs' : m[1] = l[1] /\ m[2] = l[2] => m = l
    BY DEF SpeedCalls, CallIs, SubjectOf
  <2>1. \A m \in SpeedJobs' : m[1] = l[1] /\ m[2] = l[2] => m = l BY <1>1 DEF Flow, SpeedCalls
  <2>2. CASE l = k
    <3>1. job'[l] = r BY <1>1, <2>2
    <3>2. r.poll = "got" => IsRun(r.got[1].val, test) BY DEF Flow, SpeedCalls, Baselines
    <3> QED BY <2>1, <3>1, <3>2
  <2>3. CASE l # k
    <3>1. job'[l] = job[l] /\ l \in SpeedJobs BY <1>1, <2>3
    <3> QED BY <2>1, <3>1 DEF Flow, SpeedCalls
  <2> QED BY <2>2, <2>3
<1>6. Ascend'
  <2> SUFFICES ASSUME NEW l \in SpeedJobs', Works(job'[l]), SubjectOf(job'[l]) \notin odd'.misread
               PROVE  Rising(l, job'[l], base', querier')
    BY DEF Ascend, Works, SubjectOf, Rising, RunOf
  <2>1. CASE l = k
    <3>1. job'[l] = r BY <1>1, <2>1
    <3>2. Rising(k, job[k], base, querier) BY <1>2, <2>1, <3>1 DEF Flow, Ascend
    <3>3. Rising(k, r, base, querier)
      <4>1. querier.bytes \in Nat BY DEF Flow, Baselines
      <4>2. CASE r.poll = "got" => job[k].poll = "got" /\ r.got = job[k].got
        BY <1>2, <3>2, <4>2 DEF Rising
      <4>3. CASE r.got[1].tag = querier.bytes /\ r.got[1].val = querier.of
        BY <1>2, <3>2, <4>1, <4>3 DEF Rising
      <4> QED BY <4>2, <4>3
    <3> QED BY <2>1, <3>1, <3>3 DEF Rising
  <2>2. CASE l # k
    <3>1. job'[l] = job[l] /\ l \in SpeedJobs BY <1>1, <2>2
    <3>2. Rising(l, job[l], base, querier) BY <3>1 DEF Flow, Ascend
    <3> QED BY <3>1, <3>2 DEF Rising
  <2> QED BY <2>1, <2>2
<1>7. Balance'
  <2>1. ASSUME NEW l \in SpeedJobs', Works(job'[l]), SubjectOf(job'[l]) \in Profiles \ odd'.misread
        PROVE  credited[SubjectOf(job'[l])] + job'[l].moved
                 = moved[SubjectOf(job'[l])] + Based(l, job'[l], base)
    <3>1. CASE l = k
      <4>1. job'[l] = r BY <1>1, <3>1
      <4> QED BY <1>2, <2>1, <3>1, <4>1 DEF Flow, Balance, Based
    <3>2. CASE l # k BY <1>1, <2>1, <3>2 DEF Flow, Balance
    <3> QED BY <3>1, <3>2
  <2>2. ASSUME NEW p \in Profiles \ odd'.misread,
               \A l \in SpeedJobs' : Works(job'[l]) => SubjectOf(job'[l]) # p
        PROVE  credited[p] = moved[p]
    <3>1. \A l \in SpeedJobs \ {k} : Works(job[l]) => SubjectOf(job[l]) # p BY <1>1, <2>2
    <3>2. CASE Works(job[k]) /\ SubjectOf(job[k]) = p
      <4>1. ~Works(r) BY <1>1, <1>2, <2>2, <3>2
      <4>2. job[k].moved = 0 BY <1>2, <2>2, <3>2, <4>1
      <4>3. Rising(k, job[k], base, querier) BY <2>2, <3>2 DEF Flow, Ascend
      <4>4. Based(k, job[k], base) = 0 BY <4>2, <4>3 DEF Flow, Baselines, Based, Rising
      <4>5. credited[p] + 0 = moved[p] + 0 BY <2>2, <3>2, <4>2, <4>4 DEF Flow, Balance
      <4>6. credited[p] \in Nat /\ moved[p] \in Nat BY <2>2 DEF Flow, Balance
      <4> QED BY <4>5, <4>6
    <3>3. CASE ~(Works(job[k]) /\ SubjectOf(job[k]) = p)
      BY <2>2, <3>1, <3>3 DEF Flow, Balance
    <3> QED BY <3>2, <3>3
  <2>3. credited \in [Profiles -> Nat] /\ moved \in [Profiles -> Nat] BY DEF Flow, Balance
  <2> QED BY <2>1, <2>2, <2>3 DEF Balance, Works, SubjectOf, Based, RunOf
<1> QED BY <1>3, <1>4, <1>5, <1>6, <1>7 DEF Flow

(* The steps of a call of a speed test that move no bytes.                 *)
LEMMA RunTestKeepsFlow ==
  ASSUME TypeInv, Flow, NEW k \in SpeedJobs, RunTest(k) PROVE Flow'
<1> DEFINE r == IF stop THEN [job[k] EXCEPT !.pc = "done"] ELSE [job[k] EXCEPT !.pc = "call"]
<1>0. k \in DOMAIN job /\ KindOf(k) = "speed" /\ CallIs(job[k]) BY DEF SpeedJobs, Flow, SpeedCalls
<1>1. Update(k, r) /\ job[k].pc = "queued" /\ UNCHANGED <<test, base, credited, moved, querier, odd>>
  BY <1>0 DEF RunTest, AfterCall, group, gui, core, bytes, history
<1>2. /\ r.ent = job[k].ent /\ r.tags = job[k].tags /\ r.moved = job[k].moved
      /\ r.left = job[k].left /\ r.poll = job[k].poll /\ r.got = job[k].got /\ r.ok = job[k].ok
      /\ r.pc \in {"call", "done"}
  BY <1>0, RecordIs
<1> HIDE DEF r
<1>3. CallIs(r) BY <1>0, <1>1, <1>2 DEF CallIs, SubjectOf
<1>4. job[k].left = {} /\ job[k].moved = 0 BY <1>0, <1>1 DEF CallIs
<1>5. Works(job[k]) BY <1>1 DEF Works
<1> QED BY <1>0, <1>1, <1>2, <1>3, <1>4, <1>5, CallGoesOn

(* A call answers with its results and has nothing left to move.           *)
LEMMA AnswerKeepsFlow ==
  ASSUME TypeInv, Flow, NEW k \in SpeedJobs, Answer(k) PROVE Flow'
<1> DEFINE r == [job[k] EXCEPT !.pc = "back", !.ok = TRUE]
<1>0. k \in DOMAIN job /\ CallIs(job[k]) BY DEF SpeedJobs, Flow, SpeedCalls
<1>1. /\ Update(k, r) /\ job[k].pc = "core" /\ job[k].left = {}
      /\ UNCHANGED <<test, base, credited, moved, querier, odd>>
  BY DEF Answer, group, gui, core, bytes, history
<1>2. /\ r.ent = job[k].ent /\ r.tags = job[k].tags /\ r.moved = job[k].moved
      /\ r.left = job[k].left /\ r.poll = job[k].poll /\ r.got = job[k].got /\ r.pc = "back"
  BY <1>0, RecordIs
<1> HIDE DEF r
<1>3. CallIs(r) BY <1>0, <1>1, <1>2 DEF CallIs, SubjectOf
<1>4. Works(job[k]) /\ Works(r) BY <1>1, <1>2 DEF Works
<1> QED BY <1>0, <1>1, <1>2, <1>3, <1>4, CallGoesOn

(* A call fails; the core may go on with it.                               *)
LEMMA CallFailsKeepsFlow ==
  ASSUME TypeInv, Flow, NEW k \in SpeedJobs, CallFails(k) PROVE Flow'
<1> DEFINE r == [job[k] EXCEPT !.pc = "back"]
<1>0. k \in DOMAIN job /\ CallIs(job[k]) BY DEF SpeedJobs, Flow, SpeedCalls
<1>1. /\ Update(k, r) /\ job[k].pc \in {"call", "core"}
      /\ UNCHANGED <<test, base, credited, moved, querier, odd>>
  BY DEF CallFails, group, gui, core, bytes
<1>2. /\ r.ent = job[k].ent /\ r.tags = job[k].tags /\ r.moved = job[k].moved
      /\ r.left = job[k].left /\ r.poll = job[k].poll /\ r.got = job[k].got /\ r.ok = job[k].ok
      /\ r.pc = "back"
  BY <1>0, RecordIs
<1> HIDE DEF r
<1>3. CallIs(r) BY <1>0, <1>1, <1>2 DEF CallIs, SubjectOf
<1>4. Works(job[k]) /\ Works(r) BY <1>1, <1>2 DEF Works
<1> QED BY <1>0, <1>1, <1>2, <1>3, <1>4, CallGoesOn

(* A call of a speed test is about one profile.                            *)
LEMMA CoversIs ==
  ASSUME Flow, NEW k \in SpeedJobs PROVE Covers(k) = {SubjectOf(job[k])}
<1>1. CASE job[k].ent = None
  <2>1. job[k].tags = <<SubjectOf(job[k])>> BY <1>1 DEF Flow, SpeedCalls, CallIs
  <2>2. ToSet(<<SubjectOf(job[k])>>) = {SubjectOf(job[k])} BY DEF ToSet
  <2> QED BY <1>1, <2>1, <2>2 DEF Covers
<1>2. CASE job[k].ent # None BY <1>2 DEF Covers, SubjectOf
<1> QED BY <1>1, <1>2

(* The core takes a call on; nothing is stored yet.                        *)
LEMMA ServeKeepsFlow ==
  ASSUME TypeInv, Flow, NEW k \in SpeedJobs, Serve(k) PROVE Flow'
<1> DEFINE r == [job[k] EXCEPT !.pc = "core", !.ctx = ctx, !.left = Covers(k)]
<1>0. k \in DOMAIN job /\ KindOf(k) = "speed" /\ CallIs(job[k]) BY DEF SpeedJobs, Flow, SpeedCalls
<1>1. /\ Update(k, r) /\ job[k].pc = "call" /\ UNCHANGED <<test, base, credited, moved, odd>>
      /\ querier' = [querier EXCEPT !.run = TRUE]
  BY <1>0 DEF Serve, group, gui, bytes, history
<1>2. /\ r.ent = job[k].ent /\ r.tags = job[k].tags /\ r.moved = job[k].moved
      /\ r.left = Covers(k) /\ r.poll = job[k].poll /\ r.got = job[k].got /\ r.ok = job[k].ok
      /\ r.pc = "core"
  BY <1>0, RecordIs
<1> HIDE DEF r
<1>3. Covers(k) = {SubjectOf(job[k])} BY CoversIs
<1>4. CallIs(r)
  <2>1. SubjectOf(r) = SubjectOf(job[k]) BY <1>2, SameRun
  <2> QED BY <1>0, <1>1, <1>2, <1>3, <2>1 DEF CallIs
<1>5. Works(job[k]) /\ Works(r) BY <1>1, <1>2 DEF Works
<1>6. /\ querier'.bytes = querier.bytes /\ querier'.of = querier.of
      /\ DOMAIN querier' = DOMAIN querier
  BY <1>1
<1> QED BY <1>0, <1>1, <1>2, <1>4, <1>5, <1>6, CallGoesOn

(* A poller asks.                                                          *)
LEMMA WakeKeepsFlow ==
  ASSUME TypeInv, Flow, NEW k \in SpeedJobs, Wake(k) PROVE Flow'
<1> DEFINE r == [job[k] EXCEPT !.poll = "asked"]
<1>0. k \in DOMAIN job /\ CallIs(job[k]) BY DEF SpeedJobs, Flow, SpeedCalls
<1>1. /\ Update(k, r) /\ job[k].pc \notin {"queued", "done"} /\ UNCHANGED <<test, base, credited, moved, querier, odd>>
  BY DEF Wake, Over, group, gui, core, bytes
<1>2. /\ r.ent = job[k].ent /\ r.tags = job[k].tags /\ r.moved = job[k].moved
      /\ r.left = job[k].left /\ r.poll = "asked" /\ r.ok = job[k].ok
      /\ r.pc = job[k].pc
  BY <1>0, RecordIs
<1> HIDE DEF r
<1>3. CallIs(r) BY <1>0, <1>1, <1>2 DEF CallIs, SubjectOf
<1>4. Works(job[k]) <=> Works(r) BY <1>2 DEF Works
<1> QED BY <1>0, <1>1, <1>2, <1>3, <1>4, CallGoesOn

(* What a poll reads is what is stored.                                    *)
LEMMA QueryKeepsFlow ==
  ASSUME TypeInv, Flow, NEW k \in SpeedJobs, QueryCurrentSpeedTests(k) PROVE Flow'
<1> DEFINE quiet == ~querier.run \/ job[k].ent # None \/ querier.of = << >>
           g == <<[tag |-> querier.bytes, val |-> querier.of]>>
           r == IF quiet THEN [job[k] EXCEPT !.poll = "asleep"]
                ELSE [job[k] EXCEPT !.poll = "got", !.got = g]
<1>0. k \in DOMAIN job /\ CallIs(job[k]) BY DEF SpeedJobs, Flow, SpeedCalls
<1>1. /\ Update(k, r) /\ job[k].poll = "asked" /\ UNCHANGED <<test, base, credited, moved, querier, odd>>
  BY DEF QueryCurrentSpeedTests, group, gui, core, bytes, history
<1>2. /\ r.ent = job[k].ent /\ r.tags = job[k].tags /\ r.moved = job[k].moved
      /\ r.left = job[k].left /\ r.ok = job[k].ok /\ r.pc = job[k].pc
      /\ \/ r.poll = "asleep"
         \/ r.poll = "got" /\ job[k].ent = None /\ querier.of # << >> /\ r.got = g
  <2> HIDE DEF g
  <2> QED BY <1>0, RecordIs
<1> HIDE DEF r
<1>3. g[1].tag = querier.bytes /\ g[1].val = querier.of /\ querier.bytes \in Nat
  BY DEF Flow, Baselines
<1> HIDE DEF g
<1>4. CallIs(r) BY <1>0, <1>1, <1>2, <1>3 DEF CallIs, SubjectOf
<1>5. Works(job[k]) <=> Works(r) BY <1>2 DEF Works
<1>6. r.pc = "done" => r.left = {} \/ SubjectOf(r) \in odd'.misread
  BY <1>1, <1>2 DEF Flow, SpeedCalls, SubjectOf
<1> QED BY <1>0, <1>1, <1>2, <1>3, <1>4, <1>5, <1>6, CallGoesOn

(* A call in the core stores what it has moved: it does nothing for the    *)
(* others, and if it is over its profile is misread.                       *)
LEMMA StoreKeepsFlow ==
  ASSUME TypeInv, Mutex, KeyOrder, Flow, NEW k \in SpeedJobs, NEW r, Update(k, r),
         r.ent = job[k].ent, r.tags = job[k].tags, r.pc = job[k].pc, r.poll = job[k].poll,
         r.got = job[k].got, CallIs(r), job[k].left # {}, r.left \subseteq job[k].left,
         NEW d \in Nat, r.moved = job[k].moved + d,
         querier'.bytes = r.moved, querier'.of = RunOf(k, job[k]), DOMAIN querier' = DOMAIN querier,
         moved' \in [Profiles -> Nat],
         \A p \in Profiles : moved'[p] = IF p = SubjectOf(job[k]) THEN moved[p] + d ELSE moved[p],
         UNCHANGED <<test, base, credited, odd>>
  PROVE  Flow'
<1>0. k \in DOMAIN job /\ CallIs(job[k]) BY DEF SpeedJobs, Flow, SpeedCalls
<1>1. /\ SpeedJobs' \subseteq SpeedJobs
      /\ \A l \in SpeedJobs' : job'[l] = IF l = k THEN r ELSE job[l]
      /\ \A l \in SpeedJobs \ SpeedJobs' : ~Works(IF l = k THEN r ELSE job[l])
  BY SpeedUpdate
<1>2. SubjectOf(r) = SubjectOf(job[k]) /\ RunOf(k, r) = RunOf(k, job[k]) BY SameRun
<1>3. SpeedSlices' BY DEF Flow, SpeedSlices
<1>4. job[k].moved \in Nat /\ r.moved \in Nat BY <1>0 DEF CallIs
<1>5. Baselines'
  <2>1. IsRun(querier'.of, test')
    <3>1. Begun(k, test) BY <1>0, CallIsBegun
    <3> QED BY <3>1 DEF IsRun, RunOf
  <2> QED BY <1>4, <2>1 DEF Flow, Baselines
<1>6. ~Works(job[k]) => SubjectOf(job[k]) \in odd.misread
  <2>1. ~Works(job[k]) => job[k].pc = "done" BY <1>0 DEF CallIs, Works
  <2> QED BY <2>1 DEF Flow, SpeedCalls
<1>7. ASSUME NEW l \in SpeedJobs, l # k, Works(job[l]), SubjectOf(job[l]) \notin odd.misread
      PROVE  SubjectOf(job[l]) # SubjectOf(job[k])
  BY <1>6, <1>7, OneMoves DEF Flow
<1>8. SpeedCalls'
  <2> SUFFICES ASSUME NEW l \in SpeedJobs'
               PROVE  /\ CallIs(job'[l])
                      /\ job'[l].poll = "got" => IsRun(job'[l].got[1].val, test')
                      /\ job'[l].pc = "done" => job'[l].left = {} \/ SubjectOf(job'[l]) \in odd'.misread
                      /\ \A m \in SpeedJobs' : m[1] = l[1] /\ m[2] = l[2] => m = l
    BY DEF SpeedCalls, CallIs, SubjectOf
  <2>1. \A m \in SpeedJobs' : m[1] = l[1] /\ m[2] = l[2] => m = l BY <1>1 DEF Flow, SpeedCalls
  <2>2. CASE l = k
    <3>1. job'[l] = r BY <1>1, <2>2
    <3>2. r.poll = "got" => IsRun(r.got[1].val, test) BY DEF Flow, SpeedCalls
    <3>3. r.pc = "done" => SubjectOf(r) \in odd.misread BY <1>2, <1>6 DEF Works
    <3> QED BY <2>1, <3>1, <3>2, <3>3
  <2>3. CASE l # k
    <3>1. job'[l] = job[l] /\ l \in SpeedJobs BY <1>1, <2>3
    <3> QED BY <2>1, <3>1 DEF Flow, SpeedCalls
  <2> QED BY <2>2, <2>3
<1>9. Ascend'
  <2> SUFFICES ASSUME NEW l \in SpeedJobs', Works(job'[l]), SubjectOf(job'[l]) \notin odd'.misread
               PROVE  Rising(l, job'[l], base', querier')
    BY DEF Ascend, Works, SubjectOf, Rising, RunOf
  <2>1. CASE l = k
    <3>1. job'[l] = r BY <1>1, <2>1
    <3>2. Rising(k, job[k], base, querier) BY <1>2, <2>1, <3>1 DEF Flow, Ascend, Works
    <3>3. base.bytes \in Nat BY DEF Flow, Baselines
    <3>4. r.poll = "got" => r.got[1].tag \in Nat BY DEF CallIs
    <3>5. Rising(k, r, base, querier') BY <1>2, <1>4, <3>2, <3>3, <3>4 DEF Rising
    <3> QED BY <2>1, <3>1, <3>5 DEF Rising
  <2>2. CASE l # k
    <3>1. job'[l] = job[l] /\ l \in SpeedJobs BY <1>1, <2>2
    <3>2. Rising(l, job[l], base, querier) BY <3>1 DEF Flow, Ascend
    <3>3. querier'.of # RunOf(l, job[l]) BY <2>2 DEF RunOf
    <3> QED BY <3>1, <3>2, <3>3 DEF Rising
  <2> QED BY <2>1, <2>2
<1>10. credited \in [Profiles -> Nat] /\ moved \in [Profiles -> Nat] BY DEF Flow, Balance
<1>11. Balance'
  <2>1. ASSUME NEW l \in SpeedJobs', Works(job'[l]), SubjectOf(job'[l]) \in Profiles \ odd'.misread
        PROVE  credited[SubjectOf(job'[l])] + job'[l].moved
                 = moved'[SubjectOf(job'[l])] + Based(l, job'[l], base)
    <3>1. CASE l = k
      <4> DEFINE p == SubjectOf(job[k])
                 b == Based(k, job[k], base)
      <4>1. job'[l] = r /\ Works(job[k]) /\ p \in Profiles \ odd.misread BY <1>1, <1>2, <2>1, <3>1 DEF Works
      <4>2. credited[p] + job[k].moved = moved[p] + b BY <4>1 DEF Flow, Balance
      <4>3. moved'[p] = moved[p] + d BY <4>1
      <4>4. b \in Nat BY DEF Flow, Baselines, Based
      <4>5. credited[p] \in Nat /\ moved[p] \in Nat BY <1>10, <4>1
      <4>6. Based(l, r, base) = b BY <1>2, <3>1 DEF Based
      <4> HIDE DEF b, p
      <4>7. credited[p] + (job[k].moved + d) = (moved[p] + d) + b BY <1>4, <4>2, <4>4, <4>5
      <4> QED BY <1>2, <3>1, <4>1, <4>3, <4>6, <4>7 DEF p
    <3>2. CASE l # k
      <4>1. job'[l] = job[l] /\ l \in SpeedJobs BY <1>1, <3>2
      <4> QED BY <1>7, <2>1, <3>2, <4>1 DEF Flow, Balance
    <3> QED BY <3>1, <3>2
  <2>2. ASSUME NEW p \in Profiles \ odd'.misread,
               \A l \in SpeedJobs' : Works(job'[l]) => SubjectOf(job'[l]) # p
        PROVE  credited[p] = moved'[p]
    <3>1. \A l \in SpeedJobs \ {k} : Works(job[l]) => SubjectOf(job[l]) # p BY <1>1, <2>2
    <3>2. Works(job[k]) => SubjectOf(job[k]) # p BY <1>1, <1>2, <2>2 DEF Works
    <3>3. p # SubjectOf(job[k]) BY <1>6, <2>2, <3>2
    <3> QED BY <2>2, <3>1, <3>2, <3>3 DEF Flow, Balance
  <2> QED BY <1>10, <2>1, <2>2 DEF Balance, Works, SubjectOf, Based, RunOf
<1> QED BY <1>3, <1>5, <1>8, <1>9, <1>11 DEF Flow

(* What is left of a call is its profile.                                  *)
LEMMA LeftIs ==
  ASSUME Flow, NEW k \in SpeedJobs, job[k].left # {}
  PROVE  (CHOOSE x \in job[k].left : TRUE) = SubjectOf(job[k])
<1>1. job[k].left = {SubjectOf(job[k])} BY DEF Flow, SpeedCalls, CallIs
<1> QED BY <1>1

(* A byte is moved and stored.                                             *)
LEMMA TickKeepsFlow ==
  ASSUME TypeInv, Mutex, KeyOrder, Flow, NEW k \in SpeedJobs, Tick(k) PROVE Flow'
<1> DEFINE r == [job[k] EXCEPT !.moved = @ + 1]
           p == SubjectOf(job[k])
<1>0. k \in DOMAIN job /\ CallIs(job[k]) BY DEF SpeedJobs, Flow, SpeedCalls
<1>1. /\ Update(k, r) /\ job[k].left # {} /\ Store(k, 1) /\ UNCHANGED <<test, base, credited, odd>>
  BY DEF Tick, group, gui, history
<1>2. /\ r.ent = job[k].ent /\ r.tags = job[k].tags /\ r.moved = job[k].moved + 1
      /\ r.left = job[k].left /\ r.poll = job[k].poll /\ r.got = job[k].got /\ r.ok = job[k].ok
      /\ r.pc = job[k].pc
  BY <1>0, RecordIs
<1>3. (CHOOSE x \in job[k].left : TRUE) = p BY <1>1, LeftIs
<1>4. /\ querier' = [querier EXCEPT !.bytes = job[k].moved + 1, !.of = <<k, p>>]
      /\ moved' = [moved EXCEPT ![p] = @ + 1]
  BY <1>1, <1>3 DEF Store
<1> HIDE DEF r, p
<1>5. {"run", "bytes", "of"} = DOMAIN querier /\ moved \in [Profiles -> Nat] BY DEF Flow, Baselines, Balance
<1>6. querier'.bytes = r.moved /\ querier'.of = RunOf(k, job[k]) /\ DOMAIN querier' = DOMAIN querier
  BY <1>2, <1>4, <1>5 DEF RunOf, p
<1>7. moved' \in [Profiles -> Nat] /\ \A q \in Profiles : moved'[q] = IF q = p THEN moved[q] + 1 ELSE moved[q]
  <2>1. \A q \in Profiles : moved'[q] = IF q = p THEN moved[q] + 1 ELSE moved[q] BY <1>4, <1>5
  <2>2. \A q \in Profiles : moved[q] \in Nat BY <1>5
  <2>3. DOMAIN moved' = Profiles BY <1>4, <1>5
  <2>4. moved' = [q \in Profiles |-> moved'[q]] BY <1>4, <2>3
  <2> QED BY <2>1, <2>2, <2>4
<1>8. CallIs(r) BY <1>0, <1>1, <1>2 DEF CallIs, SubjectOf
<1> QED BY <1>1, <1>2, <1>6, <1>7, <1>8, StoreKeepsFlow DEF p

(* A speed test ends and stores its bytes, or is cancelled and does not.   *)
LEMMA SpeedEndsKeepsFlow ==
  ASSUME TypeInv, Mutex, KeyOrder, Flow, NEW k \in SpeedJobs, SpeedEnds(k) PROVE Flow'
<1> DEFINE r == [job[k] EXCEPT !.left = {}]
           p == SubjectOf(job[k])
<1>0. k \in DOMAIN job /\ CallIs(job[k]) BY DEF SpeedJobs, Flow, SpeedCalls
<1>1. /\ Update(k, r) /\ job[k].left # {} /\ UNCHANGED <<test, base, credited, moved, odd>>
      /\ \/ querier' = [run |-> FALSE, bytes |-> job[k].moved, of |-> <<k, p>>]
         \/ querier' = [querier EXCEPT !.run = FALSE]
  BY LeftIs DEF SpeedEnds, group, gui, bytes, history
<1>2. /\ r.ent = job[k].ent /\ r.tags = job[k].tags /\ r.moved = job[k].moved
      /\ r.left = {} /\ r.poll = job[k].poll /\ r.got = job[k].got /\ r.ok = job[k].ok
      /\ r.pc = job[k].pc
  BY <1>0, RecordIs
<1> HIDE DEF r, p
<1>3. {"run", "bytes", "of"} = DOMAIN querier /\ moved \in [Profiles -> Nat] BY DEF Flow, Baselines, Balance
<1>4. CallIs(r) BY <1>0, <1>1, <1>2 DEF CallIs, SubjectOf
<1>5. job[k].moved \in Nat /\ r.moved = job[k].moved + 0 BY <1>0, <1>2 DEF CallIs
<1>6. CASE querier' = [run |-> FALSE, bytes |-> job[k].moved, of |-> <<k, p>>]
  <2>1. querier'.bytes = r.moved /\ querier'.of = RunOf(k, job[k]) /\ DOMAIN querier' = DOMAIN querier
    BY <1>2, <1>3, <1>6 DEF RunOf, p
  <2>2. moved' \in [Profiles -> Nat] /\ \A q \in Profiles : moved'[q] = IF q = p THEN moved[q] + 0 ELSE moved[q]
    BY <1>1, <1>3
  <2>3. 0 \in Nat OBVIOUS
  <2> QED BY <1>1, <1>2, <1>4, <1>5, <2>1, <2>2, <2>3, StoreKeepsFlow DEF p
<1>7. CASE querier' = [querier EXCEPT !.run = FALSE]
  <2>1. querier'.bytes = querier.bytes /\ querier'.of = querier.of /\ DOMAIN querier' = DOMAIN querier
    BY <1>3, <1>7
  <2>2. Works(job[k]) <=> Works(r) BY <1>2 DEF Works
  <2> QED BY <1>1, <1>2, <1>4, <2>1, <2>2, CallGoesOn
<1> QED BY <1>1, <1>6, <1>7

(* What crediting writes.                                                  *)
LEMMA CreditWrites ==
  ASSUME TypeInv, Flow, NEW k \in SpeedJobs, job[k].ent = None,
         NEW n \in Nat, NEW of, NEW late \in BOOLEAN, Credit(k, n, of, late)
  PROVE  LET p == SubjectOf(job[k])
             wrong == of # RunOf(k, job[k]) \/ late \/ (n >= base.bytes /\ base.of \notin {<< >>, of})
         IN  /\ base'.bytes = n /\ base'.of = of
             /\ credited' \in [Profiles -> Nat]
             /\ \A q \in Profiles \ {p} : credited'[q] = credited[q]
             /\ p \in Profiles /\ n < base.bytes => credited'[p] = credited[p] + n
             /\ p \in Profiles /\ n >= base.bytes => credited'[p] + base.bytes = credited[p] + n
             /\ odd.misread \subseteq odd'.misread
             /\ wrong => p \in odd'.misread /\ of[2] \in odd'.misread
             /\ wrong /\ late => \A q \in Profiles : UnderTest(q) => q \in odd'.misread
<1> DEFINE p == SubjectOf(job[k])
           wrong == of # RunOf(k, job[k]) \/ late \/ (n >= base.bytes /\ base.of \notin {<< >>, of})
           more == {p, of[2]} \cup {q \in Profiles : late /\ UnderTest(q)}
           b == base.bytes
           d == Uncredited(n)
<1>1. p = job[k].tags[1] BY DEF SubjectOf
<1>2. b \in Nat /\ credited \in [Profiles -> Nat] BY DEF Flow, Baselines, Balance
<1>3. /\ credited' = [credited EXCEPT ![p] = credited[p] + d]
      /\ base' = [bytes |-> n, of |-> of]
      /\ odd' = IF of # <<k, p>> \/ late \/ (~(n < b) /\ base.of \notin {<< >>, of})
                THEN [odd EXCEPT !.misread = odd.misread \cup more] ELSE odd
  BY <1>1 DEF Credit
<1>4. wrong <=> of # <<k, p>> \/ late \/ (~(n < b) /\ base.of \notin {<< >>, of}) BY <1>2 DEF RunOf
<1>5. odd' = IF wrong THEN [odd EXCEPT !.misread = odd.misread \cup more] ELSE odd BY <1>3, <1>4
<1>6. "misread" \in DOMAIN odd BY DEF TypeInv, Types
<1>7. odd'.misread = IF wrong THEN odd.misread \cup more ELSE odd.misread
  <2> HIDE DEF wrong, more
  <2> QED BY <1>5, <1>6
<1>8. d = IF n < b THEN n ELSE n - b BY DEF Uncredited
<1>9. d \in Nat BY <1>2, <1>8
<1> HIDE DEF d, b, wrong
<1>10. credited' \in [Profiles -> Nat]
  <2>1. CASE p \in Profiles
    <3>1. credited[p] + d \in Nat BY <1>2, <1>9, <2>1
    <3> HIDE DEF p
    <3> QED BY <1>2, <1>3, <3>1
  <2>2. CASE p \notin Profiles
    <3> HIDE DEF p
    <3> QED BY <1>2, <1>3, <2>2
  <2> QED BY <2>1, <2>2
<1>11. \A q \in Profiles \ {p} : credited'[q] = credited[q] BY <1>2, <1>3
<1>12. p \in Profiles => credited'[p] = credited[p] + d
  <2> HIDE DEF p
  <2> QED BY <1>2, <1>3
<1>13. p \in Profiles /\ n < b => credited'[p] = credited[p] + n BY <1>8, <1>12
<1>14. p \in Profiles /\ n >= b => credited'[p] + b = credited[p] + n
  <2> SUFFICES ASSUME p \in Profiles, n >= b PROVE credited'[p] + b = credited[p] + n OBVIOUS
  <2>1. credited[p] \in Nat BY <1>2
  <2>2. d = n - b BY <1>2, <1>8
  <2>3. credited'[p] = credited[p] + d BY <1>12
  <2> HIDE DEF p
  <2> QED BY <1>2, <2>1, <2>2, <2>3
<1>15. base'.bytes = n /\ base'.of = of BY <1>3
<1>16. wrong => p \in odd'.misread /\ of[2] \in odd'.misread BY <1>7
<1>17. wrong /\ late => \A q \in Profiles : UnderTest(q) => q \in odd'.misread BY <1>7
<1>18. odd.misread \subseteq odd'.misread BY <1>7
<1> QED BY <1>10, <1>11, <1>13, <1>14, <1>15, <1>16, <1>17, <1>18 DEF p, b, wrong

(* Bytes of the call's own run are credited once: the baseline is what was *)
(* credited of them before, or nothing was.                                *)
LEMMA CreditAddsUp ==
  ASSUME Flow, NEW k \in SpeedJobs, Works(job[k]),
         SubjectOf(job[k]) \in Profiles \ odd.misread,
         NEW n \in Nat, NEW of, of = RunOf(k, job[k]),
         base.of = RunOf(k, job[k]) => base.bytes <= n,
         NEW c \in Nat, n < base.bytes => c = credited[SubjectOf(job[k])] + n,
         n >= base.bytes => /\ base.of \in {<< >>, of}
                            /\ c + base.bytes = credited[SubjectOf(job[k])] + n
  PROVE  c + job[k].moved = moved[SubjectOf(job[k])] + n
<1> DEFINE p == SubjectOf(job[k])
           b == base.bytes
           m == job[k].moved
<1>1. credited[p] + m = moved[p] + Based(k, job[k], base) BY DEF Flow, Balance
<1>2. b \in Nat /\ (base.of = << >> => b = 0) BY DEF Flow, Baselines
<1>3. credited[p] \in Nat /\ moved[p] \in Nat /\ m \in Nat BY DEF Flow, Balance, SpeedCalls, CallIs
<1>4. CASE n < b
  <2>1. Based(k, job[k], base) = 0 BY <1>2, <1>4 DEF Based
  <2>2. c = credited[p] + n BY <1>4
  <2> HIDE DEF p, b, m
  <2> QED BY <1>1, <1>3, <2>1, <2>2 DEF p, m
<1>5. CASE n >= b
  <2>1. Based(k, job[k], base) = b BY <1>2, <1>5 DEF Based
  <2>2. c + b = credited[p] + n BY <1>5
  <2>3. credited[p] + m = moved[p] + b BY <1>1, <2>1
  <2>4. c \in Nat /\ n \in Nat OBVIOUS
  <2> HIDE DEF p, b, m
  <2>5. c + m = moved[p] + n BY <1>2, <1>3, <2>2, <2>3, <2>4
  <2> QED BY <2>5 DEF p, m
<1> QED BY <1>2, <1>4, <1>5

(* A call is credited: with polled progress, or with its results at its    *)
(* end, of which nothing more comes.                                       *)
LEMMA CreditKeepsFlow ==
  ASSUME TypeInv, Mutex, Flow, NEW k \in SpeedJobs, job[k].ent = None,
         NEW r, Update(k, r), r.ent = job[k].ent, r.tags = job[k].tags,
         r.moved = job[k].moved, CallIs(r),
         NEW n \in Nat, NEW of, of # << >>, IsRun(of, test), NEW late \in BOOLEAN,
         late <=> ~Works(job[k]), Credit(k, n, of, late),
         UNCHANGED <<test, moved, querier>>,
         Works(r) => Works(job[k]) /\ r.poll # "got",
         Works(job[k]) /\ ~Works(r) => n = r.moved,
         r.poll = "got" => job[k].poll = "got" /\ r.got = job[k].got,
         r.pc = "done" => r.left = {} \/ SubjectOf(r) \in odd'.misread,
         Works(job[k]) /\ of = RunOf(k, job[k]) /\ SubjectOf(job[k]) \notin odd.misread =>
            /\ n <= job[k].moved
            /\ base.of = of => base.bytes <= n
            /\ Works(r) /\ querier.of = of => n <= querier.bytes
  PROVE  Flow'
<1> DEFINE p == SubjectOf(job[k])
           wrong == of # RunOf(k, job[k]) \/ late \/ (n >= base.bytes /\ base.of \notin {<< >>, of})
<1>1. /\ SpeedJobs' \subseteq SpeedJobs
      /\ \A l \in SpeedJobs' : job'[l] = IF l = k THEN r ELSE job[l]
      /\ \A l \in SpeedJobs \ SpeedJobs' : ~Works(IF l = k THEN r ELSE job[l])
  BY SpeedUpdate
<1>2. SubjectOf(r) = p /\ RunOf(k, r) = RunOf(k, job[k]) BY SameRun
<1>3. /\ base'.bytes = n /\ base'.of = of
      /\ credited' \in [Profiles -> Nat]
      /\ \A q \in Profiles \ {p} : credited'[q] = credited[q]
      /\ p \in Profiles /\ n < base.bytes => credited'[p] = credited[p] + n
      /\ p \in Profiles /\ n >= base.bytes => credited'[p] + base.bytes = credited[p] + n
      /\ odd.misread \subseteq odd'.misread
      /\ wrong => p \in odd'.misread /\ of[2] \in odd'.misread
      /\ wrong /\ late => \A q \in Profiles : UnderTest(q) => q \in odd'.misread
  BY CreditWrites
<1>4. SpeedSlices' BY DEF Flow, SpeedSlices
<1>5. Baselines' BY <1>3 DEF Flow, Baselines
<1>6. credited \in [Profiles -> Nat] /\ moved \in [Profiles -> Nat] BY DEF Flow, Balance
<1>7. SpeedCalls'
  <2> SUFFICES ASSUME NEW l \in SpeedJobs'
               PROVE  /\ CallIs(job'[l])
                      /\ job'[l].poll = "got" => IsRun(job'[l].got[1].val, test')
                      /\ job'[l].pc = "done" => job'[l].left = {} \/ SubjectOf(job'[l]) \in odd'.misread
                      /\ \A m \in SpeedJobs' : m[1] = l[1] /\ m[2] = l[2] => m = l
    BY DEF SpeedCalls, CallIs, SubjectOf
  <2>1. \A m \in SpeedJobs' : m[1] = l[1] /\ m[2] = l[2] => m = l BY <1>1 DEF Flow, SpeedCalls
  <2>2. CASE l = k
    <3>1. job'[l] = r BY <1>1, <2>2
    <3>2. r.poll = "got" => IsRun(r.got[1].val, test) BY DEF Flow, SpeedCalls
    <3> QED BY <2>1, <3>1, <3>2
  <2>3. CASE l # k
    <3>1. job'[l] = job[l] /\ l \in SpeedJobs BY <1>1, <2>3
    <3> QED BY <1>3, <2>1, <3>1 DEF Flow, SpeedCalls
  <2> QED BY <2>2, <2>3
<1> HIDE DEF p
<1>8. ASSUME NEW l \in SpeedJobs, l # k, SubjectOf(job[l]) \notin odd'.misread
      PROVE  base'.of # RunOf(l, job[l])
  <2> SUFFICES ASSUME of = RunOf(l, job[l]) PROVE FALSE BY <1>3
  <2>1. of # RunOf(k, job[k]) BY <1>8 DEF RunOf
  <2>2. of[2] = SubjectOf(job[l]) BY DEF RunOf
  <2> QED BY <1>3, <1>8, <2>1, <2>2
<1>9. Ascend'
  <2> SUFFICES ASSUME NEW l \in SpeedJobs', Works(job'[l]), SubjectOf(job'[l]) \notin odd'.misread
               PROVE  Rising(l, job'[l], base', querier')
    BY DEF Ascend, Works, SubjectOf, Rising, RunOf
  <2>1. CASE l = k
    <3>1. job'[l] = r BY <1>1, <2>1
    <3>2. ~wrong /\ p \notin odd.misread BY <1>2, <1>3, <2>1, <3>1
    <3>3. Works(job[k]) /\ of = RunOf(k, job[k]) BY <3>1, <3>2
    <3>4. /\ n <= job[k].moved
          /\ querier.of = of => n <= querier.bytes
      BY <3>1, <3>2, <3>3 DEF p
    <3>5. Rising(k, job[k], base, querier) BY <3>2, <3>3 DEF Flow, Ascend, p
    <3>6. r.poll # "got" BY <3>1
    <3> QED BY <1>2, <1>3, <2>1, <3>1, <3>3, <3>4, <3>5, <3>6 DEF Rising
  <2>2. CASE l # k
    <3>1. job'[l] = job[l] /\ l \in SpeedJobs BY <1>1, <2>2
    <3>2. Rising(l, job[l], base, querier) BY <1>3, <3>1 DEF Flow, Ascend
    <3>3. base'.of # RunOf(l, job[l]) BY <1>8, <2>2, <3>1
    <3> QED BY <3>1, <3>2, <3>3 DEF Rising
  <2> QED BY <2>1, <2>2
<1>10. ASSUME Works(job[k]), p \in Profiles \ odd'.misread
       PROVE  credited'[p] + job[k].moved = moved[p] + n
  <2>1. ~wrong /\ p \notin odd.misread BY <1>3, <1>10
  <2>2. of = RunOf(k, job[k]) /\ (n >= base.bytes => base.of \in {<< >>, of}) BY <2>1
  <2>3. base.of = RunOf(k, job[k]) => base.bytes <= n BY <1>10, <2>1, <2>2 DEF p
  <2>4. credited'[p] \in Nat BY <1>3, <1>10
  <2>5. /\ n < base.bytes => credited'[p] = credited[p] + n
        /\ n >= base.bytes => credited'[p] + base.bytes = credited[p] + n
    BY <1>3, <1>10
  <2>6. SubjectOf(job[k]) \in Profiles \ odd.misread BY <1>10, <2>1 DEF p
  <2> DEFINE c == credited'[p]
  <2>7. /\ c \in Nat
        /\ n < base.bytes => c = credited[SubjectOf(job[k])] + n
        /\ n >= base.bytes => /\ base.of \in {<< >>, of}
                              /\ c + base.bytes = credited[SubjectOf(job[k])] + n
    BY <2>2, <2>4, <2>5 DEF p
  <2> HIDE DEF c
  <2>8. c + job[k].moved = moved[SubjectOf(job[k])] + n
    BY <1>10, <2>2, <2>3, <2>6, <2>7, CreditAddsUp
  <2> QED BY <2>8 DEF c, p
<1>11. ASSUME NEW l \in SpeedJobs, l # k, Works(job[l]),
              SubjectOf(job[l]) \in Profiles \ odd'.misread
       PROVE  Based(l, job[l], base) = 0 /\ SubjectOf(job[l]) # p
  <2>1. late BY <1>11, OneMoves DEF Flow
  <2>2. Covers(l) = {SubjectOf(job[l])} /\ l \in DOMAIN job BY CoversIs DEF SpeedJobs
  <2>3. ~UnderTest(SubjectOf(job[l])) BY <1>3, <1>11, <2>1
  <2>4. job[l].pc \notin {"call", "core", "back"} BY <2>2, <2>3 DEF UnderTest
  <2>5. job[l].pc \in JobPhases BY <2>2 DEF TypeInv, Types
  <2>6. CallIs(job[l]) BY DEF Flow, SpeedCalls
  <2>7. job[l].pc = "queued" BY <1>11, <2>4, <2>5, <2>6 DEF Works, JobPhases, CallIs
  <2>8. job[l].moved = 0 BY <2>6, <2>7 DEF CallIs
  <2>9. SubjectOf(job[l]) \notin odd.misread BY <1>3, <1>11
  <2>10. Rising(l, job[l], base, querier) BY <1>11, <2>9 DEF Flow, Ascend
  <2>11. base.bytes \in Nat BY DEF Flow, Baselines
  <2>12. Based(l, job[l], base) = 0 BY <2>8, <2>10, <2>11 DEF Based, Rising
  <2> QED BY <1>3, <1>11, <2>1, <2>12
<1>12. Balance'
  <2>1. ASSUME NEW l \in SpeedJobs', Works(job'[l]), SubjectOf(job'[l]) \in Profiles \ odd'.misread
        PROVE  credited'[SubjectOf(job'[l])] + job'[l].moved
                 = moved[SubjectOf(job'[l])] + Based(l, job'[l], base')
    <3>1. CASE l = k
      <4>1. job'[l] = r BY <1>1, <3>1
      <4>2. ~wrong /\ Works(job[k]) BY <1>2, <1>3, <2>1, <4>1
      <4>3. Based(l, r, base') = n BY <1>2, <1>3, <3>1, <4>2 DEF Based
      <4>4. credited'[p] + job[k].moved = moved[p] + n BY <1>2, <1>10, <2>1, <4>1, <4>2
      <4> QED BY <1>2, <4>1, <4>3, <4>4
    <3>2. CASE l # k
      <4>1. job'[l] = job[l] /\ l \in SpeedJobs BY <1>1, <3>2
      <4>2. Based(l, job[l], base) = 0 /\ SubjectOf(job[l]) # p BY <1>11, <2>1, <3>2, <4>1
      <4>3. Based(l, job[l], base') = 0 BY <1>8, <2>1, <3>2, <4>1 DEF Based
      <4>4. SubjectOf(job[l]) \in Profiles \ odd.misread BY <1>3, <2>1, <4>1
      <4>5. credited[SubjectOf(job[l])] + job[l].moved = moved[SubjectOf(job[l])] + Based(l, job[l], base)
        BY <2>1, <4>1, <4>4 DEF Flow, Balance
      <4> QED BY <1>3, <2>1, <4>1, <4>2, <4>3, <4>4, <4>5
    <3> QED BY <3>1, <3>2
  <2>2. ASSUME NEW q \in Profiles \ odd'.misread,
               \A l \in SpeedJobs' : Works(job'[l]) => SubjectOf(job'[l]) # q
        PROVE  credited'[q] = moved[q]
    <3>1. \A l \in SpeedJobs \ {k} : Works(job[l]) => SubjectOf(job[l]) # q BY <1>1, <2>2
    <3>2. CASE q = p
      <4>1. ~wrong /\ Works(job[k]) BY <1>3, <2>2, <3>2
      <4>2. ~Works(r) BY <1>1, <1>2, <2>2, <3>2
      <4>3. n = job[k].moved BY <4>1, <4>2
      <4>4. credited'[p] + n = moved[p] + n BY <1>10, <2>2, <3>2, <4>1, <4>3
      <4>5. credited'[p] \in Nat /\ moved[p] \in Nat BY <1>3, <1>6, <2>2, <3>2
      <4> QED BY <3>2, <4>4, <4>5
    <3>3. CASE q # p
      <4>1. \A l \in SpeedJobs : Works(job[l]) => SubjectOf(job[l]) # q BY <3>1, <3>3 DEF p
      <4>2. q \in Profiles \ odd.misread BY <1>3, <2>2
      <4>3. credited[q] = moved[q] BY <4>1, <4>2 DEF Flow, Balance
      <4> QED BY <1>3, <3>3, <4>2, <4>3
    <3> QED BY <3>2, <3>3
  <2> QED BY <1>3, <1>6, <2>1, <2>2 DEF Balance, Works, SubjectOf, Based, RunOf
<1> QED BY <1>4, <1>5, <1>7, <1>9, <1>12 DEF Flow

(* The results of a call are the last that is credited of it.              *)
LEMMA ApplySpeedKeepsFlow ==
  ASSUME TypeInv, Mutex, KeyOrder, Flow, NEW k \in SpeedJobs, ApplySpeed(k) PROVE Flow'
<1> DEFINE r == [job[k] EXCEPT !.pc = "done"]
           p == job[k].tags[1]
           of == <<k, p>>
<1>0. k \in DOMAIN job /\ CallIs(job[k]) BY DEF SpeedJobs, Flow, SpeedCalls
<1>1. /\ Update(k, r) /\ job[k].pc = "back" /\ UNCHANGED <<test, moved, querier>>
      /\ IF job[k].ok /\ job[k].ent = None /\ p \notin Gone
         THEN Credit(k, job[k].moved, of, FALSE)
         ELSE /\ odd' = [odd EXCEPT !.misread = @ \cup Covers(k)]
              /\ UNCHANGED <<base, credited>>
  BY DEF ApplySpeed, group, gui, core
<1>2. /\ r.ent = job[k].ent /\ r.tags = job[k].tags /\ r.moved = job[k].moved
      /\ r.left = job[k].left /\ r.poll = job[k].poll /\ r.got = job[k].got /\ r.ok = job[k].ok
      /\ r.pc = "done"
  BY <1>0, RecordIs
<1>3. of = RunOf(k, job[k]) \/ job[k].ent # None BY DEF RunOf, SubjectOf
<1>4. of # << >> /\ of[1] = k OBVIOUS
<1> HIDE DEF r, of
<1>5. CallIs(r) BY <1>0, <1>1, <1>2 DEF CallIs, SubjectOf
<1>6. Works(job[k]) /\ ~Works(r) BY <1>1, <1>2 DEF Works
<1>7. SubjectOf(r) = SubjectOf(job[k]) BY <1>2, SameRun
<1>8. CASE job[k].ok /\ job[k].ent = None /\ Credit(k, job[k].moved, of, FALSE)
  <2>1. job[k].moved \in Nat /\ r.left = {} BY <1>0, <1>2, <1>8 DEF CallIs
  <2>2. IsRun(of, test)
    <3>1. Begun(k, test) BY <1>0, CallIsBegun
    <3> QED BY <1>4, <3>1 DEF IsRun
  <2>3. Works(job[k]) /\ of = RunOf(k, job[k]) /\ SubjectOf(job[k]) \notin odd.misread =>
            /\ job[k].moved <= job[k].moved
            /\ base.of = of => base.bytes <= job[k].moved
            /\ Works(r) /\ querier.of = of => job[k].moved <= querier.bytes
    BY <1>6, <2>1 DEF Flow, Ascend, Rising
  <2> QED BY <1>1, <1>2, <1>4, <1>5, <1>6, <1>8, <2>1, <2>2, <2>3, CreditKeepsFlow
<1>9. CASE odd' = [odd EXCEPT !.misread = @ \cup Covers(k)] /\ UNCHANGED <<base, credited>>
  <2>1. Covers(k) = {SubjectOf(job[k])} BY CoversIs
  <2>2. "misread" \in DOMAIN odd BY DEF TypeInv, Types
  <2>3. odd'.misread = odd.misread \cup Covers(k) BY <1>9, <2>2
  <2>4. odd.misread \subseteq odd'.misread /\ SubjectOf(r) \in odd'.misread BY <1>7, <2>1, <2>3
  <2>5. UNCHANGED <<test, base, credited, moved>> /\ querier'.bytes = querier.bytes /\ querier'.of = querier.of
        /\ DOMAIN querier' = DOMAIN querier
    BY <1>1, <1>9
  <2> QED BY <1>1, <1>2, <1>5, <1>6, <2>4, <2>5, CallGoesOn
<1> QED BY <1>1, <1>8, <1>9

(* Polled progress is credited, unless its profile is gone.                *)
LEMMA CreditProgressKeepsFlow ==
  ASSUME TypeInv, Mutex, KeyOrder, Flow, NEW k \in SpeedJobs, CreditProgress(k) PROVE Flow'
<1> DEFINE r == [job[k] EXCEPT !.poll = "asleep", !.got = << >>]
           n == job[k].got[1].tag
           of == job[k].got[1].val
           late == job[k].pc = "done"
<1>0. k \in DOMAIN job /\ CallIs(job[k]) BY DEF SpeedJobs, Flow, SpeedCalls
<1>1. /\ Update(k, r) /\ job[k].poll = "got" /\ UNCHANGED <<test, moved, querier>>
      /\ UNCHANGED <<base, credited, odd>> \/ Credit(k, n, of, late)
  BY DEF CreditProgress, group, gui, core
<1>2. /\ r.ent = job[k].ent /\ r.tags = job[k].tags /\ r.moved = job[k].moved
      /\ r.left = job[k].left /\ r.poll = "asleep" /\ r.ok = job[k].ok /\ r.pc = job[k].pc
  BY <1>0, RecordIs
<1>3. late \in BOOLEAN OBVIOUS
<1>4. late <=> ~Works(job[k]) BY <1>0 DEF CallIs, Works
<1>5. job[k].ent = None /\ n \in Nat /\ of # << >> BY <1>0, <1>1 DEF CallIs
<1>6. IsRun(of, test) BY <1>1 DEF Flow, SpeedCalls
<1>7. Works(job[k]) /\ of = RunOf(k, job[k]) /\ SubjectOf(job[k]) \notin odd.misread =>
            /\ n <= job[k].moved
            /\ base.of = of => base.bytes <= n
            /\ querier.of = of => n <= querier.bytes
  BY <1>1 DEF Flow, Ascend, Rising
<1>8. late => r.left = {} \/ SubjectOf(r) \in odd.misread BY <1>2 DEF Flow, SpeedCalls, SubjectOf
<1>9. "misread" \in DOMAIN odd BY DEF TypeInv, Types
<1> HIDE DEF r, n, of, late
<1>10. CallIs(r) BY <1>0, <1>2 DEF CallIs, SubjectOf
<1>11. Works(r) <=> Works(job[k]) BY <1>2 DEF Works
<1>12. CASE UNCHANGED <<base, credited, odd>>
  <2>1. UNCHANGED <<test, base, credited, moved>> /\ querier'.bytes = querier.bytes /\ querier'.of = querier.of
        /\ DOMAIN querier' = DOMAIN querier /\ odd.misread \subseteq odd'.misread
    BY <1>1, <1>12
  <2>2. r.pc = "done" => r.left = {} \/ SubjectOf(r) \in odd'.misread BY <1>2, <1>8, <1>12 DEF late
  <2>3. r.poll # "got" BY <1>2
  <2> QED BY <1>1, <1>2, <1>10, <1>11, <2>1, <2>2, <2>3, CallGoesOn
<1>13. CASE Credit(k, n, of, late)
  <2>1. odd.misread \subseteq odd'.misread BY <1>3, <1>5, <1>13, CreditWrites
  <2>2. r.pc = "done" => r.left = {} \/ SubjectOf(r) \in odd'.misread BY <1>2, <1>8, <2>1 DEF late
  <2>3. r.poll # "got" BY <1>2
  <2> QED BY <1>1, <1>2, <1>3, <1>4, <1>5, <1>6, <1>7, <1>10, <1>11, <1>13, <2>2, <2>3,
             CreditKeepsFlow
<1> QED BY <1>1, <1>12, <1>13

(* The history only grows.                                                 *)
LEMMA OddGrows ==
  ASSUME TypeInv, [Next]_vars
  PROVE  odd.misread \subseteq odd'.misread /\ (odd.twice => odd'.twice)
<1> DEFINE Grown == \/ odd' = odd
                    \/ \E b : odd' = [odd EXCEPT !.twice = @ \/ b]
                    \/ \E s : odd' = [odd EXCEPT !.astray = s]
                    \/ \E s : odd' = [odd EXCEPT !.misread = @ \cup s]
<1>1. Grown => odd.misread \subseteq odd'.misread /\ (odd.twice => odd'.twice)
  <2>1. {"twice", "astray", "misread"} \subseteq DOMAIN odd BY DEF TypeInv, Types
  <2> QED BY <2>1
<1>2. CASE UNCHANGED vars BY <1>2 DEF vars, history
<1>3. CASE User \/ UiThread \/ Stopping
  BY <1>3 DEF User, UiThread, Stopping, StartTest, stopTests, DeleteProfile, clearUnavailableProfiles,
              CancelTests, RenewTests, history
<1>4. ASSUME NEW t \in 1 .. MaxTests, Thread(t) PROVE Grown
  <2>1. CASE Begin(t) \/ Join(t) \/ NextSpeed(t) BY <2>1 DEF Begin, Join, NextSpeed, history
  <2>2. CASE Finish(t) BY <2>2 DEF Finish, Unlock
  <2>3. CASE Slice(t) BY <2>3 DEF Slice, NothingToDo, Unlock
  <2> QED BY <1>4, <2>1, <2>2, <2>3 DEF Thread
<1>5. ASSUME NEW k, NEW n, NEW of, NEW late, Credit(k, n, of, late) PROVE Grown
  <2> DEFINE more == {job[k].tags[1], of[2]} \cup {q \in Profiles : late /\ UnderTest(q)}
  <2>1. odd' = odd \/ odd' = [odd EXCEPT !.misread = @ \cup more] BY <1>5 DEF Credit
  <2> HIDE DEF more
  <2> QED BY <2>1
<1>6. ASSUME NEW k \in DOMAIN job, Caller(k) PROVE Grown
  <2>1. CASE RunTest(k) \/ Answer(k) \/ Count(k) BY <2>1 DEF RunTest, Answer, Count, history
  <2>2. CASE ApplyLatency(k) BY <2>2 DEF ApplyLatency
  <2>3. CASE ApplySpeed(k) BY <1>5, <2>3 DEF ApplySpeed
  <2>4. CASE Check(k)
    <3>1. odd' = odd \/ \E b : Unlock(b) BY <2>4 DEF Check
    <3> QED BY <3>1 DEF Unlock
  <2> QED BY <1>6, <2>1, <2>2, <2>3, <2>4 DEF Caller
<1>7. ASSUME NEW k \in DOMAIN job, Poller(k) PROVE Grown
  <2>1. CASE Wake(k) \/ QueryURLTest(k) \/ QueryCurrentSpeedTests(k)
    BY <2>1 DEF Wake, QueryURLTest, QueryCurrentSpeedTests, history
  <2>2. CASE ApplyProgress(k) BY <2>2 DEF ApplyProgress
  <2>3. CASE CreditProgress(k) BY <1>5, <2>3 DEF CreditProgress
  <2> QED BY <1>7, <2>1, <2>2, <2>3 DEF Poller
<1>8. ASSUME NEW k \in DOMAIN job, Serving(k) \/ CallFails(k) \/ Tick(k) PROVE Grown
  BY <1>8 DEF Serving, Serve, SpeedEnds, Probe, CallFails, Tick, history
<1> HIDE DEF Grown
<1> QED BY <1>1, <1>2, <1>3, <1>4, <1>6, <1>7, <1>8 DEF Next, Work, Grown

(* A test goes on, or a call that is not of a speed test.                  *)
LEMMA OtherKeepsFlow ==
  ASSUME TypeInv, Flow, NEW t \in 1 .. MaxTests, test[t].pc # "none", test'[t].pc # "none",
         \A u \in 1 .. MaxTests \ {t} : test'[u] = test[u],
         test'[t].kind = test[t].kind, test'[t].list = test[t].list,
         \/ test'[t].i = test[t].i + 1
         \/ test'[t].i = test[t].i /\ (test[t].pc \in {"join", "speed"} => test'[t].pc = test[t].pc),
         \A k \in SpeedJobs' : k \in SpeedJobs /\ job'[k] = job[k],
         \A k \in SpeedJobs : k \notin SpeedJobs' => ~Works(job[k]),
         UNCHANGED <<base, credited, moved, querier>>, odd.misread \subseteq odd'.misread
  PROVE  Flow'
<1>1. \A u \in 1 .. MaxTests : test[u].i \in Nat BY DEF TypeInv, Types, Tests
<1>2. ASSUME NEW k, Begun(k, test) PROVE Begun(k, test')
  <2>1. CASE k[1] # t BY <1>2, <2>1 DEF Begun
  <2>2. CASE k[1] = t /\ test'[t].i = test[t].i + 1 BY <1>1, <1>2, <2>2 DEF Begun
  <2>3. CASE k[1] = t /\ test'[t].i = test[t].i BY <1>2, <2>3 DEF Begun
  <2> QED BY <2>1, <2>2, <2>3
<1>3. SpeedSlices'
  <2> SUFFICES ASSUME NEW u \in 1 .. MaxTests, test'[u].pc # "none", test'[u].kind = "speed",
                      NEW i \in DOMAIN test'[u].list
               PROVE  \E x : test'[u].list[i] = <<x>>
    BY DEF SpeedSlices
  <2>1. test[u].pc # "none" /\ test[u].kind = "speed" /\ test[u].list = test'[u].list
    BY DEF SpeedSlices
  <2> QED BY <2>1 DEF Flow, SpeedSlices
<1> QED BY <1>2, <1>3, FlowStays

(* Jobs that stay.                                                         *)
LEMMA SpeedJobsStay ==
  ASSUME job' = job, \A k \in DOMAIN job : test'[k[1]].kind = test[k[1]].kind
  PROVE  SpeedJobs' = SpeedJobs
BY DEF SpeedJobs, KindOf

(* The steps of a test's thread between slices.                            *)
LEMMA ThreadKeepsFlow ==
  ASSUME TypeInv, Flow, NEW t \in 1 .. MaxTests, odd.misread \subseteq odd'.misread,
         Join(t) \/ NextSpeed(t) \/ Finish(t) \/ clearUnavailableProfiles(t)
  PROVE  Flow'
<1>0. test \in [1 .. MaxTests -> Tests] /\ test[t] \in Tests BY DEF TypeInv, Types
<1>1. UNCHANGED <<job, base, credited, moved, querier>> /\ test[t].pc # "none"
  BY DEF Join, NextSpeed, Finish, clearUnavailableProfiles, core, bytes
<1>2. \/ test' = [test EXCEPT ![t].pc = "loop", ![t].i = @ + 1, ![t].gave = FALSE]
      \/ test' = [test EXCEPT ![t].pc = "loop", ![t].i = @ + 1]
      \/ /\ test[t].pc \notin {"join", "speed"}
         /\ \E pc \in Phases \ {"none"} : test' = [test EXCEPT ![t].pc = pc]
  BY DEF Join, NextSpeed, Finish, clearUnavailableProfiles, Phases
<1>3. /\ test'[t].kind = test[t].kind /\ test'[t].list = test[t].list /\ test'[t].pc # "none"
      /\ \/ test'[t].i = test[t].i + 1
         \/ test'[t].i = test[t].i /\ test[t].pc \notin {"join", "speed"}
      /\ \A u \in 1 .. MaxTests \ {t} : test'[u] = test[u]
  <2>1. CASE test' = [test EXCEPT ![t].pc = "loop", ![t].i = @ + 1, ![t].gave = FALSE]
    BY <1>0, <2>1 DEF Tests
  <2>2. CASE test' = [test EXCEPT ![t].pc = "loop", ![t].i = @ + 1]
    BY <1>0, <2>2 DEF Tests
  <2>3. ASSUME test[t].pc \notin {"join", "speed"}, NEW pc \in Phases \ {"none"},
               test' = [test EXCEPT ![t].pc = pc]
        PROVE  /\ test'[t].kind = test[t].kind /\ test'[t].list = test[t].list
               /\ test'[t].i = test[t].i /\ test'[t].pc # "none"
               /\ \A u \in 1 .. MaxTests \ {t} : test'[u] = test[u]
    BY <1>0, <2>3 DEF Tests
  <2> QED BY <1>2, <2>1, <2>2, <2>3
<1>4. SpeedJobs' = SpeedJobs
  <2>1. \A k \in DOMAIN job : test'[k[1]].kind = test[k[1]].kind BY <1>3, WorkerOf
  <2> QED BY <1>1, <2>1, SpeedJobsStay
<1> QED BY <1>1, <1>3, <1>4, OtherKeepsFlow

(* A test begins without a baseline.  It holds the mutex, and nobody works. *)
LEMMA BeginKeepsFlow ==
  ASSUME TypeInv, Mutex, Flow, NEW t \in 1 .. MaxTests, Begin(t) PROVE Flow'
<1>0. test \in [1 .. MaxTests -> Tests] /\ test[t] \in Tests BY DEF TypeInv, Types
<1>1. /\ test[t].pc = "begun" /\ test' = [test EXCEPT ![t].pc = "loop"]
      /\ base' = base \/ base' = [bytes |-> 0, of |-> << >>]
      /\ UNCHANGED <<job, querier, credited, moved, odd>>
  BY DEF Begin, core, history
<1>2. /\ test'[t].kind = test[t].kind /\ test'[t].list = test[t].list /\ test'[t].i = test[t].i
      /\ test'[t].pc = "loop" /\ \A u \in 1 .. MaxTests \ {t} : test'[u] = test[u]
  BY <1>0, <1>1 DEF Tests
<1>3. SpeedJobs' = SpeedJobs
  <2>1. \A k \in DOMAIN job : test'[k[1]].kind = test[k[1]].kind BY <1>2, WorkerOf
  <2> QED BY <1>1, <2>1, SpeedJobsStay
<1>4. \A k \in SpeedJobs : ~Works(job[k])
  <2>1. Workers = {} BY <1>1, NobodyWorks DEF Holds
  <2> QED BY <2>1, WorkersAre DEF SpeedJobs, Works
<1>5. ASSUME NEW k, Begun(k, test) PROVE Begun(k, test') BY <1>1, <1>2, <1>5 DEF Begun
<1>6. SpeedSlices'
  <2> SUFFICES ASSUME NEW u \in 1 .. MaxTests, test'[u].pc # "none", test'[u].kind = "speed",
                      NEW i \in DOMAIN test'[u].list
               PROVE  \E x : test'[u].list[i] = <<x>>
    BY DEF SpeedSlices
  <2>1. test[u].pc # "none" /\ test[u].kind = "speed" /\ test[u].list = test'[u].list BY <1>1, <1>2
  <2> QED BY <2>1 DEF Flow, SpeedSlices
<1>7. SpeedCalls'
  <2> SUFFICES ASSUME NEW k \in SpeedJobs'
               PROVE  /\ CallIs(job'[k])
                      /\ job'[k].poll = "got" => IsRun(job'[k].got[1].val, test')
                      /\ job'[k].pc = "done" => job'[k].left = {} \/ SubjectOf(job'[k]) \in odd'.misread
                      /\ \A l \in SpeedJobs' : l[1] = k[1] /\ l[2] = k[2] => l = k
    BY DEF SpeedCalls, CallIs, SubjectOf
  <2>1. job[k].poll = "got" => IsRun(job[k].got[1].val, test')
    BY <1>3, <1>5, RunsStay DEF Flow, SpeedCalls
  <2> QED BY <1>1, <1>3, <2>1 DEF Flow, SpeedCalls
<1>8. Ascend' BY <1>1, <1>3, <1>4 DEF Ascend, Works
<1>9. Baselines'
  <2>1. IsRun(base.of, test') /\ IsRun(querier.of, test') BY <1>5, RunsStay DEF Flow, Baselines
  <2>2. IsRun(<< >>, test') BY DEF IsRun
  <2> QED BY <1>1, <2>1, <2>2 DEF Flow, Baselines
<1>10. Balance' BY <1>1, <1>3, <1>4 DEF Flow, Balance, Works
<1> QED BY <1>6, <1>7, <1>8, <1>9, <1>10 DEF Flow

(* A test that starts has no calls yet.                                    *)
LEMMA StartKeepsFlow ==
  ASSUME TypeInv, Flow, NEW kind, NEW list, StartTest(kind, list) PROVE Flow'
<1> DEFINE t == tests'
           r == [NoTest EXCEPT !.pc = "begun", !.kind = kind, !.list = SlicesOf(kind, list)]
<1>0. /\ tests \in Nat /\ tests' = tests + 1 /\ test \in [1 .. MaxTests -> Tests]
      /\ \A k \in DOMAIN job : k[1] \in 1 .. tests
  BY BatchAssumption DEF TypeInv, Types, StartTest
<1>1. /\ test' = [test EXCEPT ![t] = r]
      /\ UNCHANGED <<job, base, credited, moved, querier, odd>>
  BY DEF StartTest, core, bytes
<1>2. r.kind = kind /\ r.list = SlicesOf(kind, list) BY DEF NoTest
<1>3. r.i = 1 /\ r.pc = "begun" BY DEF NoTest
<1>4. t \in 1 .. MaxTests => test[t].pc = "none" BY <1>0 DEF TypeInv, Fresh
<1> HIDE DEF r
<1>5. \A u \in 1 .. MaxTests : test'[u] = IF u = t THEN r ELSE test[u] BY <1>0, <1>1
<1>6. SpeedJobs' = SpeedJobs
  <2>1. \A k \in DOMAIN job : k[1] # t /\ k[1] \in 1 .. MaxTests BY <1>0, WorkerOf
  <2>2. \A k \in DOMAIN job : test'[k[1]].kind = test[k[1]].kind BY <1>5, <2>1
  <2> QED BY <1>1, <2>2, SpeedJobsStay
<1>7. SpeedSlices'
  <2> SUFFICES ASSUME NEW u \in 1 .. MaxTests, test'[u].pc # "none", test'[u].kind = "speed",
                      NEW i \in DOMAIN test'[u].list
               PROVE  \E x : test'[u].list[i] = <<x>>
    BY DEF SpeedSlices
  <2>1. CASE u = t
    <3>1. test'[u].list = SlicesOf("speed", list) BY <1>2, <1>5, <2>1
    <3>2. \A j \in DOMAIN SlicesOf("speed", list) : SlicesOf("speed", list)[j] = <<FlattenSeq(list)[j]>>
      BY DEF SlicesOf
    <3> QED BY <3>1, <3>2
  <2>2. CASE u # t
    <3>1. test'[u] = test[u] BY <1>5, <2>2
    <3> QED BY <3>1 DEF Flow, SpeedSlices
  <2> QED BY <2>1, <2>2
<1>8. ASSUME NEW k, Begun(k, test) PROVE Begun(k, test')
  <2>1. CASE k[1] # t BY <1>5, <1>8, <2>1 DEF Begun
  <2>2. CASE k[1] = t BY <1>4, <1>8, <2>2 DEF Begun
  <2> QED BY <2>1, <2>2
<1> QED BY <1>1, <1>6, <1>7, <1>8, FlowStays

(* Of a slice of one profile all that can be launched is that profile.     *)
LEMMA OnlyOne == ASSUME NEW x PROVE Only(<<x>>, {x}) = <<x>>
<1> DEFINE s == <<x>>
           of == {n \in DOMAIN s : s[n] \in {x}}
           Place(m) == CHOOSE n \in of : Cardinality(of \cap 1 .. n) = m
<1>1. DOMAIN s = {1} /\ s[1] = x OBVIOUS
<1>2. of = {1} BY <1>1
<1>3. Cardinality({1}) = 1 BY FS_Singleton
<1>4. {1} \cap 1 .. 1 = {1} /\ 1 .. 1 = {1} OBVIOUS
<1>5. Place(1) = 1
  <2>1. \A n \in of : n = 1 BY <1>2
  <2>2. 1 \in of /\ Cardinality(of \cap 1 .. 1) = 1 BY <1>2, <1>3, <1>4
  <2> HIDE DEF of
  <2> QED BY <2>1, <2>2
<1>6. Only(s, {x}) = [m \in 1 .. Cardinality(of) |-> s[Place(m)]] BY DEF Only
<1>7. Cardinality(of) = 1 BY <1>2, <1>3
<1> HIDE DEF of, Place
<1>8. Only(s, {x}) = [m \in 1 .. 1 |-> s[Place(m)]] BY <1>6, <1>7
<1> HIDE DEF s
<1>9. Only(s, {x}) = [m \in {1} |-> s[Place(m)]] BY <1>4, <1>8
<1>10. Only(s, {x}) = [m \in {1} |-> x] BY <1>1, <1>5, <1>9
<1>11. <<x>> = [m \in {1} |-> x] BY <1>1, <1>4 DEF s
<1> QED BY <1>10, <1>11 DEF s

(* The call of a slice of a speed test.                                    *)
LEMMA SpeedLaunched ==
  ASSUME NEW t, NEW i, NEW x, test[t].list[i] = <<x>>, NEW found, found \subseteq {x} \cap Profiles
  PROVE  LET new == Launched(t, i, found)
         IN  /\ \A k \in DOMAIN new : /\ k[1] = t /\ k[2] = i /\ CallIs(new[k])
                                      /\ new[k].pc = "queued" /\ new[k].moved = 0
                                      /\ new[k].poll = "asleep"
             /\ \A k, l \in DOMAIN new : k = l
<1> DEFINE plain == {p \in found : form[p] = "plain"}
           full == {p \in found : form[p] = "full"}
           rest == IF plain = {} THEN {} ELSE {None}
           keys == {<<t, i, p>> : p \in full \cup rest}
           tags == Only(test[t].list[i], plain)
           new == Launched(t, i, found)
<1>1. /\ {"pc", "poll", "tags", "ent", "left", "ok", "moved"} \subseteq DOMAIN NoJob
      /\ NoJob.pc = "queued" /\ NoJob.poll = "asleep" /\ NoJob.tags = << >> /\ NoJob.ent = None
      /\ NoJob.left = {} /\ ~NoJob.ok /\ NoJob.moved = 0
  BY DEF NoJob
<1>2. new = [k \in keys |-> IF k[3] = None THEN [NoJob EXCEPT !.tags = tags] ELSE [NoJob EXCEPT !.ent = k[3]]]
  BY DEF Launched
<1>3. /\ \/ keys = {}
         \/ keys = {<<t, i, None>>} /\ plain = {x}
         \/ keys = {<<t, i, x>>} /\ x # None
  <2>1. CASE plain # {}
    <3>1. plain = {x} /\ full = {} BY <2>1
    <3> QED BY <2>1, <3>1
  <2>2. CASE plain = {} /\ full # {}
    <3>1. full = {x} /\ x \in Profiles BY <2>2
    <3>2. rest = {} BY <2>2
    <3> QED BY <3>1, <3>2, BatchAssumption
  <2>3. CASE plain = {} /\ full = {} BY <2>3
  <2> QED BY <2>1, <2>2, <2>3
<1>4. plain = {x} => tags = <<x>> BY OnlyOne
<1> HIDE DEF keys, tags, plain, new
<1>5. DOMAIN new = keys BY <1>2
<1>6. CASE keys = {} BY <1>5, <1>6 DEF new
<1>7. CASE keys = {<<t, i, None>>} /\ plain = {x}
  <2> DEFINE k == <<t, i, None>>
             r == [NoJob EXCEPT !.tags = tags]
  <2>1. k \in keys /\ k[1] = t /\ k[2] = i /\ k[3] = None BY <1>7
  <2>2. new[k] = r
    <3> HIDE DEF k, r
    <3> QED BY <1>2, <2>1 DEF r
  <2>3. /\ r.pc = "queued" /\ r.poll = "asleep" /\ r.tags = <<x>> /\ r.ent = None
        /\ r.left = {} /\ ~r.ok /\ r.moved = 0
    BY <1>1, <1>4, <1>7
  <2> HIDE DEF r
  <2>4. CallIs(r) BY <2>3 DEF CallIs, SubjectOf
  <2>5. \A l \in keys : l = k BY <1>7
  <2> QED BY <1>5, <2>1, <2>2, <2>3, <2>4, <2>5 DEF new
<1>8. CASE keys = {<<t, i, x>>} /\ x # None
  <2> DEFINE k == <<t, i, x>>
             r == [NoJob EXCEPT !.ent = x]
  <2>1. k \in keys /\ k[1] = t /\ k[2] = i /\ k[3] = x BY <1>8
  <2>2. new[k] = r
    <3> HIDE DEF k
    <3> QED BY <1>2, <1>8, <2>1
  <2>3. /\ r.pc = "queued" /\ r.poll = "asleep" /\ r.ent = x
        /\ r.left = {} /\ ~r.ok /\ r.moved = 0
    BY <1>1
  <2> HIDE DEF r
  <2>4. CallIs(r) BY <1>8, <2>3 DEF CallIs, SubjectOf
  <2>5. \A l \in keys : l = k BY <1>8
  <2> QED BY <1>5, <2>1, <2>2, <2>3, <2>4, <2>5 DEF new
<1> QED BY <1>3, <1>6, <1>7, <1>8

(* A slice of a speed test: nobody worked before, and of the new call      *)
(* nothing is stored or credited yet.                                      *)
LEMMA SpeedSliceKeepsFlow ==
  ASSUME TypeInv, Mutex, KeyOrder, Flow, NEW t \in 1 .. MaxTests, test[t].pc = "loop",
         test[t].kind = "speed", test[t].i \in DOMAIN test[t].list,
         \A u \in 1 .. MaxTests \ {t} : test'[u] = test[u],
         test'[t].kind = test[t].kind, test'[t].list = test[t].list, test'[t].i = test[t].i,
         test'[t].pc = "speed", NEW found,
         found = (Profiles \ Gone) \cap ToSet(test[t].list[test[t].i]),
         job' = Together(Launched(t, test[t].i, found)),
         UNCHANGED <<base, credited, moved, querier, odd>>
  PROVE  Flow'
<1> DEFINE i == test[t].i
           new == Launched(t, i, found)
<1>0. test[t].i \in Nat BY DEF TypeInv, Types, Tests
<1>1. PICK x : test[t].list[i] = <<x>> BY DEF Flow, SpeedSlices
<1>2. found \subseteq {x} \cap Profiles
  <2>1. ToSet(<<x>>) = {x} BY DEF ToSet
  <2> QED BY <1>1, <2>1
<1>3. /\ \A k \in DOMAIN new : /\ k[1] = t /\ k[2] = i /\ CallIs(new[k])
                               /\ new[k].pc = "queued" /\ new[k].moved = 0
                               /\ new[k].poll = "asleep"
      /\ \A k, l \in DOMAIN new : k = l
  BY ONLY <1>1, <1>2, SpeedLaunched
<1> HIDE DEF new
<1>4. /\ DOMAIN job' = DOMAIN new \cup DOMAIN job
      /\ \A k \in DOMAIN job' : job'[k] = IF k \in DOMAIN new THEN new[k] ELSE job[k]
  BY DEF Together, new
<1>5. \A k \in DOMAIN job : k[1] # t \/ k[2] # i
  <2> SUFFICES ASSUME NEW k \in DOMAIN job, k[1] = t, k[2] = i PROVE FALSE OBVIOUS
  <2> QED BY <1>0 DEF KeyOrder
<1>6. \A k \in DOMAIN job : k[1] \in 1 .. MaxTests /\ test'[k[1]].kind = test[k[1]].kind BY WorkerOf
<1>7. SpeedJobs' = DOMAIN new \cup SpeedJobs
  <2>1. ASSUME NEW k \in DOMAIN new PROVE k \in SpeedJobs' BY <1>3, <1>4 DEF SpeedJobs, KindOf
  <2>2. ASSUME NEW k \in DOMAIN job PROVE k \in SpeedJobs' <=> k \in SpeedJobs
    BY <1>4, <1>6 DEF SpeedJobs, KindOf
  <2> QED BY <1>4, <2>1, <2>2 DEF SpeedJobs
<1>8. /\ \A k \in SpeedJobs : k \notin DOMAIN new /\ k \in SpeedJobs' /\ job'[k] = job[k]
      /\ \A k \in DOMAIN new : k \notin SpeedJobs /\ job'[k] = new[k]
  BY <1>3, <1>4, <1>5, <1>7 DEF SpeedJobs
<1>9. \A k \in SpeedJobs : ~Works(job[k])
  <2>1. Workers = {} BY NobodyWorks DEF Holds
  <2> QED BY <2>1, WorkersAre DEF SpeedJobs, Works
<1>10. ASSUME NEW k, Begun(k, test) PROVE Begun(k, test')
  BY <1>10 DEF Begun
<1>11. \A k \in DOMAIN new : ~Begun(k, test) BY <1>0, <1>3 DEF Begun
<1>12. SpeedSlices'
  <2> SUFFICES ASSUME NEW u \in 1 .. MaxTests, test'[u].pc # "none", test'[u].kind = "speed",
                      NEW j \in DOMAIN test'[u].list
               PROVE  \E y : test'[u].list[j] = <<y>>
    BY DEF SpeedSlices
  <2>1. test[u].pc # "none" /\ test[u].kind = "speed" /\ test[u].list = test'[u].list OBVIOUS
  <2> QED BY <2>1 DEF Flow, SpeedSlices
<1>13. SpeedCalls'
  <2> SUFFICES ASSUME NEW k \in SpeedJobs'
               PROVE  /\ CallIs(job'[k])
                      /\ job'[k].poll = "got" => IsRun(job'[k].got[1].val, test')
                      /\ job'[k].pc = "done" => job'[k].left = {} \/ SubjectOf(job'[k]) \in odd'.misread
                      /\ \A l \in SpeedJobs' : l[1] = k[1] /\ l[2] = k[2] => l = k
    BY DEF SpeedCalls, CallIs, SubjectOf
  <2>1. CASE k \in DOMAIN new
    <3>1. \A l \in SpeedJobs' : l[1] = k[1] /\ l[2] = k[2] => l = k
      BY <1>3, <1>5, <1>7, <2>1 DEF SpeedJobs
    <3> QED BY <1>3, <1>8, <2>1, <3>1
  <2>2. CASE k \in SpeedJobs
    <3>1. \A l \in SpeedJobs' : l[1] = k[1] /\ l[2] = k[2] => l = k
      <4>1. k \in DOMAIN job BY <2>2 DEF SpeedJobs
      <4> QED BY <1>3, <1>5, <1>7, <2>2, <4>1 DEF Flow, SpeedCalls
    <3>2. job[k].poll = "got" => IsRun(job[k].got[1].val, test')
      BY <1>10, <2>2, RunsStay DEF Flow, SpeedCalls
    <3> QED BY <1>8, <2>2, <3>1, <3>2 DEF Flow, SpeedCalls
  <2> QED BY <1>7, <2>1, <2>2
<1>14. ASSUME NEW k \in SpeedJobs', Works(job'[k])
       PROVE  /\ k \in DOMAIN new /\ job'[k] = new[k]
              /\ base.of # RunOf(k, job'[k]) /\ querier.of # RunOf(k, job'[k])
  <2>1. k \in DOMAIN new /\ job'[k] = new[k] BY <1>7, <1>8, <1>9, <1>14
  <2>2. ASSUME NEW of, IsRun(of, test) PROVE of # RunOf(k, job'[k])
    <3> SUFFICES ASSUME of = RunOf(k, job'[k]) PROVE FALSE OBVIOUS
    <3>1. of # << >> /\ of[1] = k BY DEF RunOf
    <3> QED BY <1>11, <2>1, <2>2, <3>1 DEF IsRun
  <2>3. IsRun(base.of, test) /\ IsRun(querier.of, test) BY DEF Flow, Baselines
  <2> QED BY <2>1, <2>2, <2>3
<1>15. Ascend'
  <2> SUFFICES ASSUME NEW k \in SpeedJobs', Works(job'[k]) PROVE Rising(k, job'[k], base', querier')
    BY DEF Ascend, Works, SubjectOf, Rising, RunOf
  <2> QED BY <1>3, <1>14 DEF Rising
<1>16. Baselines'
  <2>1. IsRun(base.of, test') /\ IsRun(querier.of, test') BY <1>10, RunsStay DEF Flow, Baselines
  <2> QED BY <2>1 DEF Flow, Baselines
<1>17. credited \in [Profiles -> Nat] /\ moved \in [Profiles -> Nat] BY DEF Flow, Balance
<1>18. \A p \in Profiles \ odd.misread : credited[p] = moved[p] BY <1>9 DEF Flow, Balance
<1>19. Balance'
  <2>1. ASSUME NEW k \in SpeedJobs', Works(job'[k]), SubjectOf(job'[k]) \in Profiles \ odd.misread
        PROVE  credited[SubjectOf(job'[k])] + job'[k].moved
                 = moved[SubjectOf(job'[k])] + Based(k, job'[k], base)
    <3>1. job'[k].moved = 0 /\ Based(k, job'[k], base) = 0 BY <1>3, <1>14, <2>1 DEF Based
    <3> QED BY <1>18, <2>1, <3>1
  <2> QED BY <1>17, <1>18, <2>1 DEF Balance, Works, SubjectOf, Based, RunOf
<1> QED BY <1>12, <1>13, <1>15, <1>16, <1>19 DEF Flow

(* However a slice turns out.                                              *)
LEMMA SliceKeepsFlow ==
  ASSUME TypeInv, Mutex, KeyOrder, Flow, NEW t \in 1 .. MaxTests, Slice(t),
         odd.misread \subseteq odd'.misread
  PROVE  Flow'
<1> DEFINE i == test[t].i
           found == (Profiles \ Gone) \cap ToSet(test[t].list[i])
           new == Launched(t, i, found)
           n == TestCount(new)
           seen == [test EXCEPT ![t].group = @ \/ found # {}]
<1>0. test \in [1 .. MaxTests -> Tests] /\ test[t] \in Tests /\ i \in Nat
  BY DEF TypeInv, Types, Tests
<1>1. /\ test[t].pc = "loop" /\ i \in DOMAIN test[t].list
      /\ UNCHANGED <<base, credited, moved, querier>>
  BY DEF Slice, core, bytes
<1>2. \/ job' = job /\ test' = [seen EXCEPT ![t].i = @ + 1]
      \/ /\ test[t].kind = "speed" /\ odd' = odd
         /\ job' = Together(new) /\ test' = [seen EXCEPT ![t].pc = "speed"]
      \/ /\ test[t].kind = "url" /\ job' = Together(new)
         /\ test' = [seen EXCEPT ![t].pc = "join", ![t].n = n, ![t].counter = 0, ![t].gave = (n = 0)]
  BY DEF Slice
<1>3. \A k \in DOMAIN new : k[1] = t /\ k[2] = i BY LaunchedAre
<1>4. job' = Together(new) =>
        /\ DOMAIN job' = DOMAIN new \cup DOMAIN job
        /\ \A k \in DOMAIN job' : job'[k] = IF k \in DOMAIN new THEN new[k] ELSE job[k]
  <2> HIDE DEF new
  <2> QED BY DEF Together
<1> HIDE DEF n, new, found
<1>5. \A u \in 1 .. MaxTests \ {t} : test'[u] = test[u] BY <1>0, <1>2
<1>6. CASE job' = job /\ test' = [seen EXCEPT ![t].i = @ + 1]
  <2>1. /\ test'[t].kind = test[t].kind /\ test'[t].list = test[t].list
        /\ test'[t].i = test[t].i + 1 /\ test'[t].pc = test[t].pc
    BY <1>0, <1>6 DEF Tests
  <2>2. \A k \in DOMAIN job : test'[k[1]].kind = test[k[1]].kind BY <1>5, <2>1, WorkerOf
  <2>3. SpeedJobs' = SpeedJobs BY <1>6, <2>2, SpeedJobsStay
  <2> QED BY <1>1, <1>5, <1>6, <2>1, <2>3, OtherKeepsFlow
<1>7. CASE /\ test[t].kind = "speed" /\ odd' = odd
           /\ job' = Together(new) /\ test' = [seen EXCEPT ![t].pc = "speed"]
  <2>1. /\ test'[t].kind = test[t].kind /\ test'[t].list = test[t].list
        /\ test'[t].i = test[t].i /\ test'[t].pc = "speed"
    BY <1>0, <1>7 DEF Tests
  <2> QED BY <1>1, <1>5, <1>7, <2>1, SpeedSliceKeepsFlow DEF new, found
<1>8. CASE /\ test[t].kind = "url" /\ job' = Together(new)
           /\ test' = [seen EXCEPT ![t].pc = "join", ![t].n = n, ![t].counter = 0, ![t].gave = (n = 0)]
  <2>1. /\ test'[t].kind = test[t].kind /\ test'[t].list = test[t].list
        /\ test'[t].i = test[t].i /\ test'[t].pc = "join"
    BY <1>0, <1>8 DEF Tests
  <2>2. \A k \in DOMAIN job : k[1] \in 1 .. MaxTests /\ test'[k[1]].kind = test[k[1]].kind
    BY <1>5, <2>1, WorkerOf
  <2>3. \A k \in SpeedJobs' : k \in SpeedJobs /\ job'[k] = job[k]
    <3> SUFFICES ASSUME NEW k \in SpeedJobs' PROVE k \in SpeedJobs /\ job'[k] = job[k] OBVIOUS
    <3>1. k \in DOMAIN job' /\ test'[k[1]].kind = "speed" BY DEF SpeedJobs, KindOf
    <3>2. k \notin DOMAIN new BY <1>3, <1>8, <2>1, <3>1
    <3> QED BY <1>4, <1>8, <2>2, <3>1, <3>2 DEF SpeedJobs, KindOf
  <2>4. \A k \in SpeedJobs : k \in SpeedJobs' BY <1>4, <1>8, <2>2 DEF SpeedJobs, KindOf
  <2>5. test[t].pc # "none" /\ test[t].pc \notin {"join", "speed"} BY <1>1
  <2> QED BY <1>1, <1>5, <2>1, <2>3, <2>4, <2>5, OtherKeepsFlow
<1> QED BY <1>2, <1>6, <1>7, <1>8

(* A call that is not of a speed test goes on: speed tests do not notice.  *)
LEMMA UrlCallKeepsFlow ==
  ASSUME TypeInv, Flow, NEW k \in DOMAIN job, k \notin SpeedJobs, NEW r, Update(k, r),
         \A u \in 1 .. MaxTests : /\ test'[u].kind = test[u].kind /\ test'[u].list = test[u].list
                                  /\ test'[u].pc = test[u].pc /\ test'[u].i = test[u].i,
         UNCHANGED <<base, credited, moved, querier>>, odd.misread \subseteq odd'.misread
  PROVE  Flow'
<1>1. /\ DOMAIN job' \subseteq DOMAIN job
      /\ \A l \in DOMAIN job' : job'[l] = IF l = k THEN r ELSE job[l]
      /\ \A l \in DOMAIN job \ DOMAIN job' : (IF l = k THEN r ELSE job[l]).pc = "done"
  BY UpdateIs
<1>2. \A l \in DOMAIN job : test'[l[1]].kind = test[l[1]].kind BY WorkerOf
<1>3. SpeedJobs' = SpeedJobs \cap DOMAIN job' BY <1>1, <1>2 DEF SpeedJobs, KindOf
<1>4. \A l \in SpeedJobs' : l \in SpeedJobs /\ job'[l] = job[l] BY <1>1, <1>3
<1>5. \A l \in SpeedJobs : l \notin SpeedJobs' => ~Works(job[l])
  <2>1. SpeedJobs \subseteq DOMAIN job BY DEF SpeedJobs
  <2> QED BY <1>1, <1>3, <2>1 DEF Works
<1>6. \A l : Begun(l, test) => Begun(l, test') BY DEF Begun
<1>7. SpeedSlices'
  <2> SUFFICES ASSUME NEW u \in 1 .. MaxTests, test'[u].pc # "none", test'[u].kind = "speed",
                      NEW i \in DOMAIN test'[u].list
               PROVE  \E x : test'[u].list[i] = <<x>>
    BY DEF SpeedSlices
  <2>1. test[u].pc # "none" /\ test[u].kind = "speed" /\ test[u].list = test'[u].list OBVIOUS
  <2> QED BY <2>1 DEF Flow, SpeedSlices
<1> QED BY <1>4, <1>5, <1>6, <1>7, FlowStays

(* Such a call is updated by every step it takes.                          *)
LEMMA UrlCallSteps ==
  ASSUME TypeInv, Flow, NEW k \in DOMAIN job, k \notin SpeedJobs, Work(k),
         odd.misread \subseteq odd'.misread
  PROVE  Flow'
<1> DEFINE Same == /\ \E r : Update(k, r)
                   /\ \A u \in 1 .. MaxTests :
                        /\ test'[u].kind = test[u].kind /\ test'[u].list = test[u].list
                        /\ test'[u].pc = test[u].pc /\ test'[u].i = test[u].i
                   /\ UNCHANGED <<base, credited, moved, querier>>
<1> SUFFICES Same
  <2>1. PICK r : Update(k, r) OBVIOUS
  <2> QED BY <2>1, UrlCallKeepsFlow
<1>1. KindOf(k) # "speed" BY DEF SpeedJobs
<1>2. test \in [1 .. MaxTests -> Tests] /\ k[1] \in 1 .. MaxTests BY WorkerOf DEF TypeInv, Types
<1>3. CASE RunTest(k) \/ Answer(k) \/ CallFails(k) \/ Wake(k)
  BY <1>3 DEF RunTest, Answer, CallFails, Wake, gui, core, bytes
<1>4. CASE QueryURLTest(k) \/ ApplyLatency(k) \/ ApplyProgress(k)
  BY <1>4 DEF QueryURLTest, ApplyLatency, ApplyProgress, gui, core, bytes
<1>5. CASE Serve(k) \/ \E p \in Profiles : Probe(k, p)
  BY <1>1, <1>5 DEF Serve, Probe, gui, bytes
<1>6. CASE Count(k)
  <2>1. PICK c : test' = [test EXCEPT ![k[1]].counter = @ + c] BY <1>6 DEF Count
  <2>2. UNCHANGED <<base, credited, moved, querier>> /\ \E r : Update(k, r)
    BY <1>6 DEF Count, core, bytes
  <2>3. \A u \in 1 .. MaxTests : test[u] \in Tests BY <1>2
  <2>4. \A u \in 1 .. MaxTests :
          /\ test'[u].kind = test[u].kind /\ test'[u].list = test[u].list
          /\ test'[u].pc = test[u].pc /\ test'[u].i = test[u].i
    BY <1>2, <2>1, <2>3 DEF Tests
  <2> QED BY <2>2, <2>4
<1>7. CASE Check(k)
  <2>1. test' = test \/ test' = [test EXCEPT ![k[1]].gave = TRUE] BY <1>7 DEF Check
  <2>2. UNCHANGED <<base, credited, moved, querier>> /\ \E r : Update(k, r)
    BY <1>7 DEF Check, core, bytes
  <2>3. \A u \in 1 .. MaxTests : test[u] \in Tests BY <1>2
  <2>4. \A u \in 1 .. MaxTests :
          /\ test'[u].kind = test[u].kind /\ test'[u].list = test[u].list
          /\ test'[u].pc = test[u].pc /\ test'[u].i = test[u].i
    <3>1. CASE test' = test BY <3>1
    <3>2. CASE test' = [test EXCEPT ![k[1]].gave = TRUE] BY <1>2, <2>3, <3>2 DEF Tests
    <3> QED BY <2>1, <3>1, <3>2
  <2> QED BY <2>2, <2>4
<1>8. ~(ApplySpeed(k) \/ QueryCurrentSpeedTests(k) \/ CreditProgress(k) \/ SpeedEnds(k) \/ Tick(k))
  BY <1>1 DEF ApplySpeed, QueryCurrentSpeedTests, CreditProgress, SpeedEnds, Tick
<1> HIDE DEF Same
<1> QED BY <1>3, <1>4, <1>5, <1>6, <1>7, <1>8 DEF Work, Caller, Poller, Serving

(* The steps of a call of a speed test.                                    *)
LEMMA SpeedCallSteps ==
  ASSUME TypeInv, Mutex, KeyOrder, Flow, NEW k \in SpeedJobs, Work(k) PROVE Flow'
<1>1. KindOf(k) = "speed" /\ CallIs(job[k]) BY DEF SpeedJobs, Flow, SpeedCalls
<1>2. ~(ApplyLatency(k) \/ QueryURLTest(k) \/ ApplyProgress(k) \/ \E p \in Profiles : Probe(k, p))
  BY <1>1 DEF ApplyLatency, QueryURLTest, ApplyProgress, Probe
<1>3. ~(Count(k) \/ Check(k)) BY <1>1 DEF Count, Check, CallIs
<1>4. CASE Caller(k)
  BY <1>2, <1>3, <1>4, RunTestKeepsFlow, AnswerKeepsFlow, ApplySpeedKeepsFlow DEF Caller
<1>5. CASE Poller(k)
  BY <1>2, <1>5, WakeKeepsFlow, QueryKeepsFlow, CreditProgressKeepsFlow DEF Poller
<1>6. CASE Serving(k) BY <1>2, <1>6, ServeKeepsFlow, SpeedEndsKeepsFlow DEF Serving
<1> QED BY <1>4, <1>5, <1>6, CallFailsKeepsFlow, TickKeepsFlow DEF Work

(* The user, and the core's StopTest, leave the bytes alone.               *)
LEMMA RestKeepsFlow ==
  ASSUME Flow, UNCHANGED <<test, job, base, credited, moved, querier, odd>> PROVE Flow'
<1>1. SpeedJobs' = SpeedJobs BY DEF SpeedJobs, KindOf
<1>2. SpeedSlices' BY DEF Flow, SpeedSlices
<1> QED BY <1>1, <1>2, FlowStays
-----------------------------------------------------------------------------
(* Before the first test nothing has moved.                                *)
LEMMA SpeedInitially == Init => SpeedInv
<1> SUFFICES ASSUME Init PROVE Flow BY DEF SpeedInv
<1>1. DOMAIN job = {} BY DEF Init
<1>2. SpeedJobs = {} BY <1>1 DEF SpeedJobs
<1>3. \A t \in 1 .. MaxTests : test[t].pc = "none" BY DEF Init, NoTest
<1>4. SpeedSlices BY <1>3 DEF SpeedSlices
<1>5. SpeedCalls /\ Ascend BY <1>2 DEF SpeedCalls, Ascend
<1>6. Baselines
  <2>1. /\ querier = [run |-> FALSE, bytes |-> 0, of |-> << >>]
        /\ base = [bytes |-> 0, of |-> << >>]
    BY DEF Init
  <2>2. base.bytes = 0 /\ base.of = << >> /\ querier.bytes = 0 /\ querier.of = << >>
        /\ DOMAIN querier = {"run", "bytes", "of"}
    BY <2>1
  <2> QED BY <2>2 DEF Baselines, IsRun
<1>7. Balance BY <1>2 DEF Balance, Init
<1> QED BY <1>4, <1>5, <1>6, <1>7 DEF Flow

(* The invariant is inductive.                                             *)
LEMMA SpeedKeeps == TurnInv /\ ClearInv /\ SpeedInv /\ [Next]_vars => SpeedInv'
<1> SUFFICES ASSUME TurnInv, ClearInv, SpeedInv, [Next]_vars, ~odd'.twice PROVE Flow' BY DEF SpeedInv
<1>1. TypeInv /\ odd.misread \subseteq odd'.misread /\ ~odd.twice BY OddGrows DEF TurnInv
<1>2. Mutex /\ KeyOrder /\ Flow BY <1>1 DEF TurnInv, ClearInv, SpeedInv
<1>3. CASE UNCHANGED vars
  <2>1. UNCHANGED <<test, job, base, credited, moved, querier, odd>>
    BY <1>3 DEF vars, gui, core, bytes, history
  <2> QED BY <1>2, <2>1, RestKeepsFlow
<1>4. CASE Stopping \/ stopTests \/ \E p \in Profiles : DeleteProfile(p)
  <2>1. UNCHANGED <<test, job, base, credited, moved, querier, odd>>
    BY <1>4 DEF Stopping, CancelTests, RenewTests, stopTests, DeleteProfile, gui, core, bytes, history
  <2> QED BY <1>2, <2>1, RestKeepsFlow
<1>5. ASSUME NEW kind, NEW list, StartTest(kind, list) PROVE Flow'
  BY <1>1, <1>2, <1>5, StartKeepsFlow
<1>6. ASSUME NEW t \in 1 .. MaxTests, Thread(t) \/ clearUnavailableProfiles(t) PROVE Flow'
  BY <1>1, <1>2, <1>6, BeginKeepsFlow, SliceKeepsFlow, ThreadKeepsFlow DEF Thread
<1>7. ASSUME NEW k \in DOMAIN job, Work(k) PROVE Flow'
  BY <1>1, <1>2, <1>7, UrlCallSteps, SpeedCallSteps
<1> QED BY <1>3, <1>4, <1>5, <1>6, <1>7 DEF Next, User, UiThread

(* What is under way is covered by a call of a speed test.                 *)
LEMMA SpeedInvIsEnough == SpeedInv => BytesAreCredited
<1> SUFFICES ASSUME Flow PROVE BytesAreCredited BY DEF SpeedInv, BytesAreCredited
<1> SUFFICES ASSUME NEW p \in Profiles \ odd.misread,
                    \A k \in DOMAIN job : KindOf(k) = "speed" => p \notin Covers(k)
             PROVE  credited[p] = moved[p]
  BY DEF BytesAreCredited
<1>1. \A k \in SpeedJobs : SubjectOf(job[k]) # p BY CoversIs DEF SpeedJobs
<1> QED BY <1>1 DEF Flow, Balance

(* A profile is credited with the bytes its own speed tests moved, once    *)
(* each, for every number of tests, polls and profiles: polled progress    *)
(* and final result add up under the one baseline, with the exceptions     *)
(* BytesAreCredited names.                                                 *)
THEOREM BytesAddUp == Spec => []BytesAreCredited
<1>1. Init => TurnInv /\ ClearInv /\ SpeedInv BY TurnInitially, ClearInitially, SpeedInitially
<1>2. TurnInv /\ ClearInv /\ SpeedInv /\ [Next]_vars => (TurnInv /\ ClearInv /\ SpeedInv)'
  BY TurnKeeps, ClearKeeps, SpeedKeeps DEF TurnInv
<1>3. TurnInv /\ ClearInv /\ SpeedInv => BytesAreCredited BY SpeedInvIsEnough
<1> QED BY <1>1, <1>2, <1>3, PTL DEF Spec
=============================================================================
