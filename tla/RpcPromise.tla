----------------------------- MODULE RpcPromise -----------------------------
(***************************************************************************)
(* What the IPC client promises the threads of the GUI that call the core: *)
(* a call ends at most once, and it succeeds only when the core has        *)
(* executed that very request, which it may still do when the caller has   *)
(* given up on it.                                                         *)
(***************************************************************************)
CONSTANT Ids                  \* the request ids ever handed out

VARIABLES outcome,            \* what the caller of each request knows
          served              \* the requests the core has executed

promiseVars == <<outcome, served>>

Init ==
    /\ outcome = [i \in Ids |-> "none"]
    /\ served = {}

Open(i) ==
    /\ outcome[i] = "none"
    /\ outcome' = [outcome EXCEPT ![i] = "open"]
    /\ UNCHANGED served

(* The core may still execute a request its caller has given up on. *)
Serve(i) ==
    /\ outcome[i] # "none"
    /\ i \notin served
    /\ served' = served \cup {i}
    /\ UNCHANGED outcome

Succeed(i) ==
    /\ outcome[i] = "open"
    /\ i \in served
    /\ outcome' = [outcome EXCEPT ![i] = "ok"]
    /\ UNCHANGED served

Fail(i) ==
    /\ outcome[i] = "open"
    /\ outcome' = [outcome EXCEPT ![i] = "error"]
    /\ UNCHANGED served

Next == \E i \in Ids : Open(i) \/ Serve(i) \/ Succeed(i) \/ Fail(i)

Spec == Init /\ [][Next]_promiseVars
=============================================================================
