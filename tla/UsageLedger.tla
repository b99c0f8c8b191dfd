----------------------------- MODULE UsageLedger -----------------------------
(***************************************************************************)
(* What the traffic history promises its readers (TrafficStatsRepo.h:      *)
(* "sum across both tiers"; a rollup "never double-counts"): per hour and  *)
(* name a number that grows when traffic is recorded and that shrinks only *)
(* once the hour is past the retention.                                    *)
(***************************************************************************)
EXTENDS Naturals

CONSTANTS Names, Hours,
          HourLen,      \* minutes of an hour
          Retention     \* minutes an hour is kept for

VARIABLES now, usage    \* usage[h][n]: what is on record for name n in hour h

Init == now = 0 /\ usage = [h \in Hours |-> [n \in Names |-> 0]]

Tick == now' > now /\ UNCHANGED usage

Record(h) ==
    /\ \A n \in Names : usage'[h][n] >= usage[h][n]
    /\ usage' = [usage EXCEPT ![h] = usage'[h]]
    /\ UNCHANGED now

(* One pass may forget several hours.                                      *)
Forget(past) ==
    /\ \A h \in past : /\ h * HourLen + Retention < now
                       /\ \A n \in Names : usage'[h][n] <= usage[h][n]
    /\ usage' = [h \in Hours |-> IF h \in past THEN usage'[h] ELSE usage[h]]
    /\ UNCHANGED now

Next == Tick \/ (\E h \in Hours : Record(h)) \/ (\E past \in SUBSET Hours : Forget(past))

Spec == Init /\ [][Next]_<<now, usage>>
=============================================================================
