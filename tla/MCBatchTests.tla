---------------------------- MODULE MCBatchTests ----------------------------
(* A small instance of BatchTests. *)
EXTENDS BatchTests, TLC

CONSTANTS p1, p2

MCProfiles == {p1, p2}
MCLists == {<< <<p1, p2>> >>, << <<p1>>, <<p2>> >>}
MCForms == {[p \in MCProfiles |-> "plain"]} \cup
           {(p2 :> f) @@ [p \in MCProfiles |-> "plain"] : f \in {"full", "skipped"}}
MCDeadSets == {{p1}}
MCPlans == {[kinds |-> {"url"}, tests |-> 1, events |-> 1, polls |-> 2],
            [kinds |-> {"url"}, tests |-> 2, events |-> 1, polls |-> 0],
            [kinds |-> {"url"}, tests |-> 2, events |-> 0, polls |-> 1],
            [kinds |-> {"speed"}, tests |-> 1, events |-> 1, polls |-> 2],
            [kinds |-> {"speed"}, tests |-> 2, events |-> 0, polls |-> 1],
            [kinds |-> {"url", "speed"}, tests |-> 2, events |-> 0, polls |-> 0]}
=============================================================================
