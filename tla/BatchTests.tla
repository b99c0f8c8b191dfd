----------------------------- MODULE BatchTests -----------------------------
(***************************************************************************)
(* Tests of many profiles: latency tests (urltest_current_group, and       *)
(* iptest_current_group, which has the same form with a reporter of its    *)
(* own) and speed tests (speedtest_current_group), with the core's side of *)
(* them (Test, StopTest and the reporters of test_utils).                  *)
(*                                                                         *)
(* speedtestRunning is a mutex with two uses.  Whoever holds it is the one *)
(* test that runs; and a latency test joins the workers of a slice by      *)
(* locking it a second time, which succeeds when the last of its workers   *)
(* has unlocked it.  Results reach the profiles twice: a thread per call   *)
(* polls the core's reporter, one for all batches, and the call itself     *)
(* returns all of them at its end.  Every batch uses the same tags.        *)
(***************************************************************************)
EXTENDS Naturals, Sequences, FiniteSets, SequencesExt, Functions, TLC

CONSTANTS Profiles,
          Lists,      \* what the user selects: sequences of slices
          Forms,      \* how profiles can be tested: functions to FormNames
          DeadSets,   \* which profiles may be the unreachable ones
          AutoClear,  \* the group's auto_clear_unavailable
          None, Aborted,
          Plans,      \* bounds: how many tests of which kinds, stops, deletions
                      \* and failures, and polls that find the call running
          MaxTests, MaxBytes    \* bounds

FormNames == {"plain",      \* one outbound of the batch's configuration
              "full",       \* a configuration of its own
              "skipped"}    \* not testable in a batch

ASSUME BatchAssumption ==
    /\ {MaxTests, MaxBytes} \subseteq Nat
    /\ Plans \subseteq [kinds : SUBSET {"url", "speed"}, tests : 0 .. MaxTests, events : Nat,
                         polls : Nat]
    /\ Lists \subseteq Seq(Seq(Profiles))
    /\ Forms \subseteq [Profiles -> FormNames] /\ DeadSets \subseteq SUBSET Profiles
    /\ AutoClear \in BOOLEAN /\ {None, Aborted} \cap Profiles = {} /\ None # Aborted

VARIABLES
  plan,      \* the bounds of this behaviour
  form, dead,    \* the profiles, chosen once
  held,      \* speedtestRunning is locked
  stop,      \* stopSpeedtest
  test,      \* the tests started so far, each a thread
  job,       \* runs of runURLTest or runSpeedTest with their pollers
  latency,   \* Profile::latency: whose probe it came from
  cleared, deleted,    \* profiles deleted by auto clear, by the user
  crashed,   \* the GUI dereferenced a null group
  ctx,       \* the core's TestCtx: the how manieth
  stopper,   \* a StopTest in progress
  reporter,  \* URLReporter
  querier,   \* SpTQuerier
  base,      \* speedtestCredited_ of the one tag speed tests use
  moved, credited,    \* bytes of each profile's speed tests
  odd,       \* history: what came to pass that the code is not made for
  tests, events, polls    \* history: counters for the bounds; events are
                          \* stops, deletions and failures

group == <<plan, form, dead>>
gui == <<held, stop, test>>
core == <<ctx, stopper, reporter, querier>>
bytes == <<base, moved, credited>>
uses == <<tests, events, polls>>
history == <<odd, uses>>
vars == <<group, gui, job, latency, cleared, deleted, crashed, core, bytes, history>>

NoTest == [pc |-> "none", kind |-> None, list |-> << >>, i |-> 1, n |-> 0,
           counter |-> 0, gave |-> FALSE, group |-> FALSE]
NoJob == [pc |-> "queued", poll |-> "asleep", ctx |-> 0, tags |-> << >>, ent |-> None,
          left |-> {}, cut |-> {}, ok |-> FALSE, moved |-> 0, got |-> << >>]

Gone == cleared \cup deleted
Covers(k) == IF job[k].ent = None THEN ToSet(job[k].tags) ELSE {job[k].ent}
KindOf(k) == test[k[1]].kind
Tag(tags, p) == CHOOSE n \in DOMAIN tags : tags[n] = p
Working(k) == job[k].pc \notin {"checking", "done"}
UnderTest(p) == \E k \in DOMAIN job : p \in Covers(k) /\ job[k].pc \in {"call", "core", "back"}

TypeOK ==
    /\ form \in Forms /\ dead \in DeadSets /\ {held, stop, crashed} \subseteq BOOLEAN
    /\ \A t \in 1 .. MaxTests :
          /\ test[t].pc \in {"none", "begun", "loop", "join", "speed", "end", "clear", "done"}
          /\ test[t].counter \in Nat /\ test[t].n \in 0 .. Cardinality(Profiles)
    /\ \A k \in DOMAIN job :
          /\ k[1] \in 1 .. MaxTests /\ k[2] \in Nat /\ k[3] \in Profiles \cup {None}
          /\ job[k].pc \in {"queued", "call", "core", "back", "counting", "checking", "done"}
          /\ job[k].poll \in {"asleep", "asked", "got"}
          /\ job[k].left \cup job[k].cut \subseteq Covers(k)
    /\ latency \in [Profiles -> Profiles \cup {None, Aborted}]
    /\ cleared \subseteq Profiles /\ deleted \subseteq Profiles
    /\ stopper \in {"idle", "cancel", "renew"} /\ credited \in [Profiles -> Nat]

Init ==
    /\ plan \in Plans /\ form \in Forms /\ dead \in DeadSets
    /\ held = FALSE /\ stop = FALSE /\ test = [t \in 1 .. MaxTests |-> NoTest] /\ job = << >>
    /\ latency = [p \in Profiles |-> None] /\ cleared = {} /\ deleted = {} /\ crashed = FALSE
    /\ ctx = 0 /\ stopper = "idle" /\ reporter = << >>
    /\ querier = [run |-> FALSE, bytes |-> 0, of |-> << >>]
    /\ base = [bytes |-> 0, of |-> << >>]
    /\ moved = [p \in Profiles |-> 0] /\ credited = [p \in Profiles |-> 0]
    /\ odd = [twice |-> FALSE, astray |-> {}, misread |-> {}]
    /\ tests = 0 /\ events = 0 /\ polls = 0
-----------------------------------------------------------------------------
(* The user and the UI thread. *)

Event == events < plan.events /\ events' = events + 1 /\ UNCHANGED <<tests, polls>>

\* A speed test takes one profile at a time.
SlicesOf(kind, list) ==
    IF kind = "speed" THEN [i \in DOMAIN FlattenSeq(list) |-> <<FlattenSeq(list)[i]>>] ELSE list

\* With the mutex locked the code shows a message and nothing else happens.
StartTest(kind, list) ==
    /\ stopper = "idle" /\ tests < plan.tests /\ ~held
    /\ held' = TRUE /\ tests' = tests + 1
    /\ test' = [test EXCEPT ![tests'] =
                   [NoTest EXCEPT !.pc = "begun", !.kind = kind, !.list = SlicesOf(kind, list)]]
    /\ UNCHANGED <<group, stop, job, latency, cleared, deleted, crashed, core, bytes, odd, events,
                   polls>>

\* The UI thread waits for the core's answer.
stopTests ==
    /\ stopper = "idle" /\ Event
    /\ \E t \in DOMAIN test : test[t].pc \notin {"none", "done"}
    /\ stop' = TRUE /\ stopper' = "cancel"
    /\ UNCHANGED <<group, held, test, job, latency, cleared, deleted, crashed, ctx, reporter,
                   querier, bytes, odd>>

DeleteProfile(p) ==
    /\ stopper = "idle" /\ p \notin Gone /\ Event
    /\ deleted' = deleted \cup {p}
    /\ UNCHANGED <<group, gui, job, latency, cleared, crashed, core, bytes, odd>>

\* A latency below zero: the probe, whoever's it was, did not get through.
Unavailable(p) == latency[p] \in dead

ListedIn(t) == UNION {ToSet(slice) : slice \in ToSet(test[t].list)}

clearUnavailableProfiles(t) ==
    /\ stopper = "idle" /\ test[t].pc = "clear"
    /\ cleared' = cleared \cup {p \in ListedIn(t) \ Gone : Unavailable(p)}
    /\ test' = [test EXCEPT ![t].pc = "done"]
    /\ UNCHANGED <<group, held, stop, job, latency, deleted, crashed, core, bytes, history>>
-----------------------------------------------------------------------------
(* The thread of a test. *)

Begin(t) ==
    /\ test[t].pc = "begun"
    /\ test' = [test EXCEPT ![t].pc = "loop"] /\ stop' = FALSE
    /\ base' = IF test[t].kind = "speed" THEN [bytes |-> 0, of |-> << >>] ELSE base
    /\ UNCHANGED <<group, held, job, latency, cleared, deleted, crashed, core, moved, credited,
                   history>>

\* The members of seq that are in set: place m has the m-th of them.
Only(seq, set) ==
    LET of == {n \in DOMAIN seq : seq[n] \in set}
        Place(m) == CHOOSE n \in of : Cardinality(of \cap 1 .. n) = m
    IN  [m \in 1 .. Cardinality(of) |-> seq[Place(m)]]

\* BuildTestConfig: a call for each full configuration, one for the rest.
Launched(t, i, found) ==
    LET plain == {p \in found : form[p] = "plain"}
        full == {p \in found : form[p] = "full"}
        rest == IF plain = {} THEN {} ELSE {None}
    IN  [k \in {<<t, i, p>> : p \in full \cup rest} |->
           IF k[3] = None THEN [NoJob EXCEPT !.tags = Only(test[t].list[i], plain)]
                          ELSE [NoJob EXCEPT !.ent = k[3]]]

Together(new) == [k \in DOMAIN new \cup DOMAIN job |-> IF k \in DOMAIN new THEN new[k] ELSE job[k]]

\* Slip: only the full configurations are counted.
OnlyFull(new) == Cardinality({k \in DOMAIN new : k[3] # None})
TestCount(new) == Cardinality(DOMAIN new)

Unlock(again) == held' = FALSE /\ odd' = [odd EXCEPT !.twice = @ \/ again]

\* Slip: nobody unlocks for a slice without workers.
NobodyUnlocks(n) == UNCHANGED <<held, odd>>
NothingToDo(n) == IF n = 0 THEN Unlock(FALSE) ELSE UNCHANGED <<held, odd>>

\* One call of speedTestFunc.  If the configuration cannot be built the
\* slice is left with the mutex still locked.
Slice(t) ==
    LET i == test[t].i
        found == (Profiles \ Gone) \cap ToSet(test[t].list[i])
        new == Launched(t, i, found)
        n == TestCount(new)
        seen == [test EXCEPT ![t].group = @ \/ found # {}]
    IN  /\ test[t].pc = "loop" /\ i \in DOMAIN test[t].list /\ ~stop
        /\ \/ /\ found # {} /\ Event
              /\ test' = [seen EXCEPT ![t].i = @ + 1]
              /\ UNCHANGED <<held, job, odd>>
           \/ /\ test[t].kind = "speed"
              /\ test' = [seen EXCEPT ![t].pc = "speed"] /\ job' = Together(new)
              /\ UNCHANGED <<held, odd, uses>>
           \/ /\ test[t].kind = "url"
              /\ test' = [seen EXCEPT ![t].pc = "join", ![t].n = n, ![t].counter = 0,
                                      ![t].gave = (n = 0)]
              /\ job' = Together(new)
              /\ NothingToDo(n)
              /\ UNCHANGED uses
        /\ UNCHANGED <<group, stop, latency, cleared, deleted, crashed, core, bytes>>

\* speedtestRunning.lock()
Join(t) ==
    /\ test[t].pc = "join" /\ ~held
    /\ held' = TRUE
    /\ test' = [test EXCEPT ![t].pc = "loop", ![t].i = @ + 1, ![t].gave = FALSE]
    /\ UNCHANGED <<group, stop, job, latency, cleared, deleted, crashed, core, bytes, history>>

\* The calls of a speed test are made by the thread of the test itself.
NextSpeed(t) ==
    /\ test[t].pc = "speed"
    /\ \A k \in DOMAIN job : k[1] = t => job[k].pc = "done"
    /\ test' = [test EXCEPT ![t].pc = "loop", ![t].i = @ + 1]
    /\ UNCHANGED <<group, held, stop, job, latency, cleared, deleted, crashed, core, bytes,
                   history>>

\* currentGroup is set by the first slice that finds a profile.
Finish(t) ==
    LET reads == test[t].kind = "url" IN
    /\ test[t].pc = "loop" /\ (stop \/ test[t].i \notin DOMAIN test[t].list)
    /\ Unlock(~held)
    /\ crashed' = (reads /\ ~test[t].group)
    /\ test' = [test EXCEPT ![t].pc = IF reads /\ AutoClear THEN "clear" ELSE "done"]
    /\ UNCHANGED <<group, stop, job, latency, cleared, deleted, core, bytes, uses>>
-----------------------------------------------------------------------------
(* The calls, on workers of the pool or, for speed, on the test's thread.  *)

\* Records of which nothing more comes are dropped: a poller that finds the
\* call over when it wakes ends.
Tidy(jobs) ==
    LET over(k) == jobs[k].pc = "done" /\ jobs[k].poll = "asleep" /\ jobs[k].left = {}
    IN  Restrict(jobs, {k \in DOMAIN jobs : ~over(k)})
Update(k, r) == job' = Tidy([job EXCEPT ![k] = r])

AfterCall(k) == IF KindOf(k) = "speed" THEN "done" ELSE "counting"

RunTest(k) ==
    /\ job[k].pc = "queued"
    /\ Update(k, IF stop THEN [job[k] EXCEPT !.pc = AfterCall(k)]
                         ELSE [job[k] EXCEPT !.pc = "call"])
    /\ UNCHANGED <<group, gui, latency, cleared, deleted, crashed, core, bytes, history>>

\* The answer wakes the caller, who lets the poller know.
Answer(k) ==
    /\ job[k].pc = "core" /\ job[k].left = {}
    /\ Update(k, [job[k] EXCEPT !.pc = "back", !.ok = TRUE])
    /\ UNCHANGED <<group, gui, latency, cleared, deleted, crashed, core, bytes, history>>

\* The core refuses the configuration, or the call takes longer than the
\* channel waits; of the latter the core knows nothing.
CallFails(k) ==
    /\ job[k].pc \in {"call", "core"} /\ Event
    /\ Update(k, [job[k] EXCEPT !.pc = "back"])
    /\ UNCHANGED <<group, gui, latency, cleared, deleted, crashed, core, bytes, odd>>

\* Slip: a profile that has a result from polling keeps it.
KeepsProgress(k) == [p \in Profiles |-> IF p \in Covers(k) \ Gone /\ latency[p] = None
                                        THEN p ELSE latency[p]]
Own(k, p) == IF p \in job[k].cut THEN Aborted ELSE p

Final(k) == [p \in Profiles |-> IF p \in Covers(k) \ Gone THEN Own(k, p) ELSE latency[p]]

\* The results of the call are the last word on its profiles.
ApplyLatency(k) ==
    /\ job[k].pc = "back" /\ KindOf(k) = "url"
    /\ latency' = IF job[k].ok THEN Final(k) ELSE latency
    /\ odd' = [odd EXCEPT !.astray = IF job[k].ok THEN @ \ Covers(k) ELSE @ \cup Covers(k)]
    /\ Update(k, [job[k] EXCEPT !.pc = "counting"])
    /\ UNCHANGED <<group, gui, cleared, deleted, crashed, core, bytes, uses>>

\* Slip: what was credited before is credited again.
Everything(n) == n
Uncredited(n) == IF n < base.bytes THEN n ELSE n - base.bytes

\* creditSpeedtestTraffic: the difference to the bytes credited before under
\* this tag, or all of them if there are fewer.
Credit(k, n, of, late) ==
    LET p == job[k].tags[1]
        fewer == n < base.bytes
        wrong == of # <<k, p>> \/ late \/ (~fewer /\ base.of \notin {<< >>, of})
    IN  /\ credited' = [credited EXCEPT ![p] = @ + Uncredited(n)]
        /\ base' = [bytes |-> n, of |-> of]
        /\ odd' = IF wrong THEN [odd EXCEPT !.misread =
                                   @ \cup {p, of[2]} \cup {q \in Profiles : late /\ UnderTest(q)}]
                  ELSE odd

\* A configuration of its own has no tags, and so its results no profile.
ApplySpeed(k) ==
    LET p == job[k].tags[1] IN
    /\ job[k].pc = "back" /\ KindOf(k) = "speed"
    /\ IF job[k].ok /\ job[k].ent = None /\ p \notin Gone
       THEN Credit(k, job[k].moved, <<k, p>>, FALSE)
       ELSE /\ odd' = [odd EXCEPT !.misread = @ \cup Covers(k)]
            /\ UNCHANGED <<base, credited>>
    /\ Update(k, [job[k] EXCEPT !.pc = "done"])
    /\ UNCHANGED <<group, gui, latency, cleared, deleted, crashed, core, moved, uses>>

\* The counter is on the stack of the test's thread, which a worker must not
\* outlive: once the test has gone on, the worker touches another slice's
\* counter or memory that is used for something else.
Alive(k) == test[k[1]].pc = "join" /\ test[k[1]].i = k[2]

Count(k) ==
    /\ job[k].pc = "counting"
    /\ \E here \in IF Alive(k) THEN {1} ELSE {0, 1} :
          test' = [test EXCEPT ![k[1]].counter = @ + here]
    /\ Update(k, [job[k] EXCEPT !.pc = "checking"])
    /\ UNCHANGED <<group, held, stop, latency, cleared, deleted, crashed, core, bytes, history>>

Check(k) ==
    LET t == k[1]
        equal == test[t].counter = test[t].n
    IN  /\ job[k].pc = "checking"
        /\ Update(k, [job[k] EXCEPT !.pc = "done"])
        /\ \E last \in IF Alive(k) THEN {equal} ELSE BOOLEAN :
              IF last THEN /\ Unlock(test[t].gave \/ ~Alive(k))
                           /\ test' = [test EXCEPT ![t].gave = TRUE]
                      ELSE UNCHANGED <<held, test, odd>>
        /\ UNCHANGED <<group, stop, latency, cleared, deleted, crashed, core, bytes, uses>>
-----------------------------------------------------------------------------
(* The poller of a call.  It asks every 200 ms (100 for speed) until it can *)
(* lock what the caller unlocks at the end; between that look and the core's *)
(* answer, and between the answer and its use, anything may happen.        *)

Over(k) == job[k].pc \in {"back", "counting", "checking", "done"}

Wake(k) ==
    /\ job[k].poll = "asleep" /\ job[k].pc # "queued"
    /\ ~Over(k) /\ polls < plan.polls /\ polls' = polls + 1
    /\ Update(k, [job[k] EXCEPT !.poll = "asked"])
    /\ UNCHANGED <<group, gui, latency, cleared, deleted, crashed, core, bytes, odd, tests, events>>

QueryURLTest(k) ==
    /\ job[k].poll = "asked" /\ KindOf(k) = "url"
    /\ reporter' = << >>
    /\ Update(k, IF reporter = << >> THEN [job[k] EXCEPT !.poll = "asleep"]
                 ELSE [job[k] EXCEPT !.poll = "got", !.got = reporter])
    /\ UNCHANGED <<group, gui, latency, cleared, deleted, crashed, ctx, stopper, querier, bytes,
                   history>>

QueryCurrentSpeedTests(k) ==
    /\ job[k].poll = "asked" /\ KindOf(k) = "speed"
    /\ Update(k, IF ~querier.run \/ job[k].ent # None \/ querier.of = << >>
                 THEN [job[k] EXCEPT !.poll = "asleep"]
                 ELSE [job[k] EXCEPT !.poll = "got", !.got = <<[tag |-> querier.bytes,
                                                                val |-> querier.of]>>])
    /\ UNCHANGED <<group, gui, latency, cleared, deleted, crashed, core, bytes, history>>

ApplyProgress(k) ==
    LET tags == job[k].tags
        news == {n \in DOMAIN tags \cap DOMAIN job[k].got : tags[n] \notin Gone}
    IN  /\ job[k].poll = "got" /\ KindOf(k) = "url"
        /\ latency' = [p \in Profiles |-> IF p \in {tags[n] : n \in news} THEN job[k].got[Tag(tags, p)]
                                                                       ELSE latency[p]]
        /\ odd' = IF job[k].pc \in {"core", "back"} THEN odd
                  ELSE [odd EXCEPT !.astray = @ \cup {tags[n] : n \in news}]
        /\ Update(k, [job[k] EXCEPT !.poll = "asleep", !.got = << >>])
        /\ UNCHANGED <<group, gui, cleared, deleted, crashed, core, bytes, uses>>

CreditProgress(k) ==
    LET r == job[k].got[1]
        p == job[k].tags[1]
    IN  /\ job[k].poll = "got" /\ KindOf(k) = "speed"
        /\ IF p \in Gone THEN UNCHANGED <<base, credited, odd>>
           ELSE Credit(k, r.tag, r.val, job[k].pc = "done")
        /\ Update(k, [job[k] EXCEPT !.poll = "asleep", !.got = << >>])
        /\ UNCHANGED <<group, gui, latency, cleared, deleted, crashed, core, moved, uses>>
-----------------------------------------------------------------------------
(* The core. *)

Cancelled(c) == c < ctx \/ (c = ctx /\ stopper = "renew")

CancelTests ==
    /\ stopper = "cancel" /\ stopper' = "renew"
    /\ UNCHANGED <<group, gui, job, latency, cleared, deleted, crashed, ctx, reporter, querier,
                   bytes, history>>

RenewTests ==
    /\ stopper = "renew" /\ stopper' = "idle" /\ ctx' = ctx + 1
    /\ UNCHANGED <<group, gui, job, latency, cleared, deleted, crashed, reporter, querier, bytes,
                   history>>

\* The handler has made its box and reads TestCtx.
Serve(k) ==
    /\ job[k].pc = "call"
    /\ Update(k, [job[k] EXCEPT !.pc = "core", !.ctx = ctx, !.left = Covers(k)])
    /\ querier' = IF KindOf(k) = "speed" THEN [querier EXCEPT !.run = TRUE] ELSE querier
    /\ UNCHANGED <<group, gui, latency, cleared, deleted, crashed, ctx, stopper, reporter, bytes,
                   history>>

\* BatchURLTest: the probe of one tag ends.  After a cancel it was aborted,
\* and one that had not begun is not reported.
Probe(k, p) ==
    LET report(val) == reporter' = IF job[k].ent # None THEN reporter
                                   ELSE (Tag(job[k].tags, p) :> val) @@ reporter
        ended == [job[k] EXCEPT !.left = @ \ {p}]
    IN  /\ KindOf(k) = "url" /\ p \in job[k].left
        /\ \/ report(p) /\ Update(k, ended)
           \/ /\ Cancelled(job[k].ctx)
              /\ report(Aborted) \/ UNCHANGED reporter
              /\ Update(k, [ended EXCEPT !.cut = @ \cup {p}])
        /\ UNCHANGED <<group, gui, latency, cleared, deleted, crashed, ctx, stopper, querier,
                       bytes, history>>

\* A speed test stores its bytes every 50 ms and, unless cancelled, at its end.
Store(k, n) ==
    LET p == CHOOSE x \in job[k].left : TRUE IN
    /\ querier' = [querier EXCEPT !.bytes = job[k].moved + n, !.of = <<k, p>>]
    /\ moved' = [moved EXCEPT ![p] = @ + n]

Tick(k) ==
    /\ KindOf(k) = "speed" /\ job[k].left # {} /\ job[k].moved < MaxBytes
    /\ Store(k, 1)
    /\ Update(k, [job[k] EXCEPT !.moved = @ + 1])
    /\ UNCHANGED <<group, gui, latency, cleared, deleted, crashed, ctx, stopper, reporter, base,
                   credited, history>>

SpeedEnds(k) ==
    /\ KindOf(k) = "speed" /\ job[k].left # {}
    /\ \/ querier' = [run |-> FALSE, bytes |-> job[k].moved,
                      of |-> <<k, CHOOSE x \in job[k].left : TRUE>>]
       \/ Cancelled(job[k].ctx) /\ querier' = [querier EXCEPT !.run = FALSE]
    /\ Update(k, [job[k] EXCEPT !.left = {}])
    /\ UNCHANGED <<group, gui, latency, cleared, deleted, crashed, ctx, stopper, reporter, bytes,
                   history>>
-----------------------------------------------------------------------------
User == \/ \E kind \in plan.kinds, list \in Lists : StartTest(kind, list)
        \/ stopTests
        \/ \E p \in Profiles : DeleteProfile(p)

UiThread == \E t \in 1 .. MaxTests : clearUnavailableProfiles(t)

Thread(t) == Begin(t) \/ Slice(t) \/ Join(t) \/ NextSpeed(t) \/ Finish(t)
Caller(k) == \/ RunTest(k) \/ Answer(k) \/ ApplyLatency(k) \/ ApplySpeed(k)
             \/ Count(k) \/ Check(k)
Poller(k) == \/ Wake(k) \/ QueryURLTest(k) \/ QueryCurrentSpeedTests(k)
             \/ ApplyProgress(k) \/ CreditProgress(k)
Serving(k) == Serve(k) \/ SpeedEnds(k) \/ \E p \in Profiles : Probe(k, p)
Stopping == CancelTests \/ RenewTests

Work(k) == Caller(k) \/ Poller(k) \/ Serving(k) \/ CallFails(k) \/ Tick(k)

\* A null pointer is the end of the program.
Next == /\ ~crashed
        /\ \/ User \/ UiThread \/ Stopping
           \/ \E t \in 1 .. MaxTests : Thread(t)
           \/ \E k \in DOMAIN job : Work(k)

Spec == Init /\ [][Next]_vars

\* Threads are scheduled, probes and downloads have time-outs, and the event
\* loop gets to what was posted to it: as long as one of these can go on, one
\* does.  Users, failures and bytes are not forced.
Progress == /\ ~crashed
            /\ \/ UiThread \/ Stopping
               \/ \E t \in 1 .. MaxTests : Thread(t)
               \/ \E k \in DOMAIN job : Caller(k) \/ Poller(k) \/ Serving(k)
FairSpec == Spec /\ WF_vars(Progress)
-----------------------------------------------------------------------------
(* Properties. *)

\* One test at a time, although a second may start between two slices of the
\* first: who is past a join has no call left in that slice, and all calls
\* that are under way belong to one slice of one test.  Not when two workers
\* both saw the final count and both unlocked.
TestsTakeTurns ==
    odd.twice \/ \A k \in DOMAIN job : Working(k) =>
        /\ test[k[1]].pc \in {"join", "speed"} /\ test[k[1]].i = k[2]
        /\ \A l \in DOMAIN job : Working(l) => <<l[1], l[2]>> = <<k[1], k[2]>>

\* Auto clear deletes a profile only for the result of its own probe,
\* although pollers hand results of one slice to the profiles of the next:
\* the call's own results come last.  Not if the call failed, the poller
\* applied what it had read after the call's end, or the next test is at it.
ClearsOnlyDead ==
    [][\A p \in cleared' \ cleared : p \in dead \/ p \in odd.astray \/ UnderTest(p)]_vars

\* A profile is credited with the bytes its speed tests moved: polled
\* progress and final result add up, and nothing of another profile's
\* is among them.  Not if the first bytes polled of a profile were no fewer
\* than the last of the profile before (one tag, one baseline), if progress
\* was applied after the final result, if the call failed, or if two workers
\* both unlocked and two tests ran at once.
BytesAreCredited ==
    odd.twice \/ \A p \in Profiles \ odd.misread :
        (\A k \in DOMAIN job : KindOf(k) = "speed" => p \notin Covers(k)) => credited[p] = moved[p]

\* A test that was started ends, stopped or not.  Not if two workers both
\* unlocked, after which counters are written by workers of an older slice.
TestEnds == \A t \in 1 .. MaxTests :
    (test[t].pc # "none") ~> (test[t].pc = "done" \/ odd.twice \/ crashed)
=============================================================================
