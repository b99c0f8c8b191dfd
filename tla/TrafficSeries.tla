---------------------------- MODULE TrafficSeries ----------------------------
(***************************************************************************)
(* The traffic history: the accumulators of TrafficStatsManager            *)
(* (src/src/stats/traffic/TrafficStatsManager.cpp) and the two tiers of    *)
(* TrafficStatsRepo (src/src/database/TrafficStatsRepo.cpp).               *)
(*                                                                         *)
(* Several threads credit traffic to the accumulators of the current       *)
(* minute.  Whoever finds that the minute changed drains them, under the   *)
(* mutex, and writes the drained rows after releasing it: first those of   *)
(* the configs, then those of the apps, each in a transaction of its own.  *)
(* A background thread moves old minutes into hours and prunes old hours.  *)
(* Upload and download are one counter; time is counted in minutes.  A     *)
(* call made while disable_traffic_aggregation is set returns at once.     *)
(***************************************************************************)
EXTENDS Naturals, FiniteSets, FiniteSetsExt

CONSTANTS Configs, Apps,    \* names of the two kinds
          Creditors,        \* threads that credit: the loops of a running profile, speed tests
          Ui,               \* the thread that flushes: the stopper, a dialog
          HourLen, Window, Retention,    \* minutes: an hour; kept as minutes; kept as hours
          None,
          MaxNow, MaxAdds,
          MaxTrouble        \* bounds; the last one on failures and ends of the process together

Names == Configs \cup Apps
Threads == Creditors \cup {Ui}
Minutes == 0 .. MaxNow
HourOf(m) == m \div HourLen
Hours == {HourOf(m) : m \in Minutes}
MinutesOf(h) == {m \in Minutes : HourOf(m) = h}

ASSUME SeriesAssumption ==
    /\ HourLen \in Nat \ {0} /\ {Window, Retention, MaxNow, MaxAdds, MaxTrouble} \subseteq Nat
    /\ Configs \cap Apps = {} /\ IsFiniteSet(Creditors) /\ None \notin Minutes

VARIABLES
  now,       \* the wall clock
  bucket,    \* currentBucket
  accum,     \* configAccum and appAccum
  thr,       \* the calls in progress, with the rows they drained
  db,        \* what is committed in the two tiers
  maint,     \* the maintenance pass, its cutoffs and its open transaction
  credited,  \* history: what was credited in each minute
  wrote,     \* history: what was committed for each minute
  lost,      \* history: what a failed write, a crash or an exit dropped
  fails, ends    \* history: counters for the bounds

vars == <<now, bucket, accum, thr, db, maint, credited, wrote, lost, fails, ends>>
history == <<credited, wrote, lost, ends>>

NoRows == [n \in Names |-> 0]
NoMinutes == [m \in Minutes |-> NoRows]
Empty == [minute |-> NoMinutes, hour |-> [h \in Hours |-> NoRows]]
Idle == [pc |-> "idle", at |-> 0, name |-> None, rows |-> NoRows]
NoMaint == [pc |-> "idle", at |-> 0, work |-> Empty]

Plus(f, g) == [n \in Names |-> f[n] + g[n]]
Only(S, f) == [n \in Names |-> IF n \in S THEN f[n] ELSE 0]
Column(minutes, n) == [m \in Minutes |-> minutes[m][n]]
SumOver(S, f) == MapThenSumSet(LAMBDA x : f[x], S)
Added == SumOver(Minutes, [m \in Minutes |-> SumOver(Names, credited[m])])

Rows == [Names -> Nat]
TypeOK ==
    /\ now \in Minutes /\ bucket \in Minutes \cup {None}
    /\ accum \in Rows
    /\ thr \in [Threads -> [pc : {"idle", "timed", "config", "app"}, at : Minutes,
                            name : Names \cup {None}, rows : Rows]]
    /\ {db, maint.work} \subseteq [minute : [Minutes -> Rows], hour : [Hours -> Rows]]
    /\ maint.pc \in {"idle", "configs up", "configs out", "apps up", "apps out", "commit", "prune"}
    /\ {credited, wrote, lost} \subseteq [Minutes -> Rows]
    /\ {fails, ends} \subseteq 0 .. MaxTrouble

Init ==
    /\ now = 0 /\ bucket = None /\ accum = NoRows
    /\ thr = [t \in Threads |-> Idle]
    /\ db = Empty /\ maint = NoMaint
    /\ credited = NoMinutes /\ wrote = NoMinutes /\ lost = NoMinutes
    /\ fails = 0 /\ ends = 0
-----------------------------------------------------------------------------
Tick ==
    /\ now < MaxNow /\ now' = now + 1
    /\ UNCHANGED <<bucket, accum, thr, db, maint, history, fails>>

(* AddConfigDelta, AddAppDelta: the minute is read before the mutex. *)
TakeTime(t, n) ==
    /\ t \in Creditors /\ thr[t].pc = "idle" /\ Added < MaxAdds
    /\ thr' = [thr EXCEPT ![t] = [Idle EXCEPT !.pc = "timed", !.at = now, !.name = n]]
    /\ UNCHANGED <<now, bucket, accum, db, maint, history, fails>>

(* Slip: the rows are tagged with the new minute. *)
DrainedWithNow(m) == [Idle EXCEPT !.pc = "config", !.at = now, !.rows = accum]

(* drainLocked: the rows carry the minute they were accumulated in. *)
Drained(m) == [Idle EXCEPT !.pc = "config", !.at = m, !.rows = accum]

Add(t) ==
    LET m == thr[t].at
        n == thr[t].name
        over == bucket # None /\ m # bucket
    IN  /\ thr[t].pc = "timed"
        /\ Added < MaxAdds
        /\ thr' = [thr EXCEPT ![t] = IF over THEN Drained(bucket) ELSE Idle]
        /\ accum' = [(IF over THEN NoRows ELSE accum) EXCEPT ![n] = @ + 1]
        /\ bucket' = m
        /\ credited' = [credited EXCEPT ![m][n] = @ + 1]
        /\ UNCHANGED <<now, db, maint, wrote, lost, fails, ends>>

Flush(t) ==
    /\ thr[t].pc = "idle" /\ bucket # None
    /\ thr' = [thr EXCEPT ![t] = Drained(bucket)]
    /\ accum' = NoRows

(* The traffic dialog flushes when it refreshes, the stopper of a profile  *)
(* once it has halted the loops; a speed test may credit meanwhile.        *)
Refresh ==
    /\ Flush(Ui)
    /\ UNCHANGED <<now, bucket, db, maint, history, fails>>
-----------------------------------------------------------------------------
(* writeRows, one batch of it: the repo's mutex is free; the transaction   *)
(* commits all rows of one kind, or rolls back and they are gone.          *)
RepoIsFree == maint.pc \in {"idle", "prune"}

WriteBatch(t, kind, next) ==
    LET m == thr[t].at
        rows == Only(kind, thr[t].rows)
    IN  /\ RepoIsFree
        /\ thr' = [thr EXCEPT ![t] = next]
        /\ \/ /\ db' = [db EXCEPT !.minute[m] = Plus(@, rows)]
              /\ wrote' = [wrote EXCEPT ![m] = Plus(@, rows)]
              /\ UNCHANGED <<lost, fails>>
           \/ /\ rows # NoRows /\ fails + ends < MaxTrouble /\ fails' = fails + 1
              /\ lost' = [lost EXCEPT ![m] = Plus(@, rows)]
              /\ UNCHANGED <<db, wrote>>
        /\ UNCHANGED <<now, bucket, accum, maint, credited, ends>>

Rest(t) == [thr[t] EXCEPT !.pc = "app", !.rows = Only(Apps, @)]

WriteConfig(t) == thr[t].pc = "config" /\ WriteBatch(t, Configs, Rest(t))
WriteApp(t) == thr[t].pc = "app" /\ WriteBatch(t, Apps, Idle)
-----------------------------------------------------------------------------
(* runRollupOnce.  The statements of a transaction work on a copy that     *)
(* replaces what is committed at COMMIT.                                   *)
Old(m) == m + Window < maint.at

RolledUp(kind, tiers) ==
    [tiers EXCEPT !.hour = [h \in Hours |->
        Plus(tiers.hour[h], Only(kind, [n \in Names |->
            SumOver({m \in MinutesOf(h) : Old(m)}, Column(tiers.minute, n))]))]]

Dropped(kind, tiers) ==
    [tiers EXCEPT !.minute = [m \in Minutes |->
        IF Old(m) THEN Only(Names \ kind, tiers.minute[m]) ELSE tiers.minute[m]]]

(* Slip: the statements commit one by one. *)
AutoCommit(pc, next, tiers) ==
    /\ maint.pc = pc
    /\ maint' = [maint EXCEPT !.pc = next, !.work = tiers]
    /\ db' = tiers
    /\ UNCHANGED <<now, bucket, accum, thr, history, fails>>

Statement(pc, next, tiers) ==
    /\ maint.pc = pc
    /\ maint' = [maint EXCEPT !.pc = next, !.work = tiers]
    /\ UNCHANGED <<now, bucket, accum, thr, db, history, fails>>

BeginRollup ==
    /\ maint.pc = "idle"
    /\ maint' = [pc |-> "configs up", at |-> now, work |-> db]
    /\ UNCHANGED <<now, bucket, accum, thr, db, history, fails>>

RollConfigs == Statement("configs up", "configs out", RolledUp(Configs, maint.work))
DropConfigs == Statement("configs out", "apps up", Dropped(Configs, maint.work))
RollApps == Statement("apps up", "apps out", RolledUp(Apps, maint.work))
DropApps == Statement("apps out", "commit", Dropped(Apps, maint.work))

Commit ==
    /\ maint.pc = "commit"
    /\ db' = maint.work
    /\ maint' = [NoMaint EXCEPT !.pc = "prune", !.at = maint.at]
    /\ UNCHANGED <<now, bucket, accum, thr, history, fails>>

(* A statement fails: ROLLBACK, and the pass goes on with PruneHour. *)
Rollback ==
    /\ maint.pc \notin {"idle", "prune"} /\ fails + ends < MaxTrouble
    /\ fails' = fails + 1
    /\ maint' = [NoMaint EXCEPT !.pc = "prune", !.at = maint.at]
    /\ UNCHANGED <<now, bucket, accum, thr, db, history>>

(* Slip: an hour is compared by its end. *)
IsPastEarly(h) == h * HourLen < maint.at + HourLen - Retention

IsPast(h) == h * HourLen + Retention < maint.at

(* PruneHour: one transaction for the tables of both kinds. *)
PruneHour ==
    /\ maint.pc = "prune"
    /\ \/ /\ db' = [db EXCEPT !.hour = [h \in Hours |-> IF IsPast(h) THEN NoRows ELSE db.hour[h]]]
          /\ UNCHANGED fails
       \/ fails + ends < MaxTrouble /\ fails' = fails + 1 /\ UNCHANGED db
    /\ maint' = NoMaint
    /\ UNCHANGED <<now, bucket, accum, thr, history>>
-----------------------------------------------------------------------------
(* The rows a thread still has to write, for a minute and a name. *)
Holds(t, m) == thr[t].pc \in {"config", "app"} /\ thr[t].at = m

InHand(m, n) ==
    (IF bucket = m THEN accum[n] ELSE 0)
    + SumOver(Threads, [t \in Threads |-> IF Holds(t, m) THEN thr[t].rows[n] ELSE 0])

(* The process ends, by a crash or by prepare_exit, which flushes nothing  *)
(* beyond what the profile_stop it calls flushes: what is in memory is     *)
(* gone, SQLite rolls an open transaction back, and the program starts     *)
(* again.                                                                  *)
ProcessEnds ==
    /\ fails + ends < MaxTrouble /\ ends' = ends + 1
    /\ bucket' = None /\ accum' = NoRows
    /\ thr' = [t \in Threads |-> Idle]
    /\ maint' = NoMaint
    /\ lost' = [m \in Minutes |-> [n \in Names |-> lost[m][n] + InHand(m, n)]]
    /\ UNCHANGED <<now, db, credited, wrote, fails>>

Next ==
    \/ Tick \/ Refresh
    \/ \E t \in Threads : (\E n \in Names : TakeTime(t, n)) \/ Add(t) \/ WriteConfig(t) \/ WriteApp(t)
    \/ BeginRollup \/ RollConfigs \/ DropConfigs \/ RollApps \/ DropApps \/ Commit \/ Rollback
    \/ PruneHour
    \/ ProcessEnds

Spec == Init /\ [][Next]_vars
-----------------------------------------------------------------------------
(* Whatever order the threads come in, a credited byte is in memory for    *)
(* its own minute, committed for that minute, or dropped with it.          *)
EveryByteInItsMinute ==
    \A m \in Minutes, n \in Names :
        credited[m][n] = InHand(m, n) + wrote[m][n] + lost[m][n]

(* Two tiers, one history: until an hour is pruned, its minutes and the    *)
(* hour row add up to what was committed for it.                           *)
Usage(h, n) == db.hour[h][n] + SumOver(MinutesOf(h), Column(db.minute, n))

TiersAddUp ==
    \A h \in Hours, n \in Names :
        h * HourLen + Retention >= now =>
            Usage(h, n) = SumOver(MinutesOf(h), Column(wrote, n))

(* Readers of whole hours see the abstract ledger: a rollup, a crash, a    *)
(* rollback change nothing, only hours past the retention are forgotten.   *)
Ledger == INSTANCE UsageLedger WITH usage <- [h \in Hours |-> [n \in Names |-> Usage(h, n)]]
RefinesLedger == Ledger!Spec
=============================================================================
