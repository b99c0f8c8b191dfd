-------------------------- MODULE CoreServer_proofs --------------------------
(***************************************************************************)
(* Start and Stop of the core, and the polls of its connections.  Proofs   *)
(* that the core releases what Start launched and removes the temp config  *)
(* of the extra process, for any number of boxes, Xray instances and extra *)
(* processes and on every platform, as long as one call is served at a     *)
(* time, which is how the GUI calls; and that the GUI credits what its     *)
(* polls tell of the connections once, and whole.                          *)
(***************************************************************************)
EXTENDS CoreServer, ConnAccounting, TLAPS

(* One call at a time: the condition of both theorems.                     *)
OneCall == \E h : Handlers = {h}

NoChild == \A e \in Objs : child[e] # "running"

(* Nothing a Start launched is left. *)
Clean == liveBox = {} /\ liveXray = {} /\ NoChild /\ ~sysDNS

(* What has not been made has no child, no config and no waiter. *)
FutureIsBlank ==
    /\ extra <= made.extra
    /\ \A e \in Objs : e > made.extra => child[e] = "none" /\ ~conf[e]

(* The waiter was started with the child and removes the config last. *)
WaiterFollows ==
    \A e \in Objs :
        /\ child[e] = "none" => waiter[e] = "none"
        /\ child[e] = "running" => waiter[e] = "waiting"
        /\ child[e] = "exited" => waiter[e] # "none"
        /\ waiter[e] = "done" => ~conf[e]

(* A config without a launched child is that of the Start in progress. *)
ConfigAwaitsLaunch ==
    /\ \A h \in Handlers : pc[h] = "runExtra" => extra # None /\ child[extra] = "none"
    /\ \A e \in Objs : conf[e] /\ child[e] = "none" =>
           e = extra /\ \E h \in Handlers : pc[h] = "runExtra"

ConfigInv == TypeOK /\ FutureIsBlank /\ WaiterFollows /\ ConfigAwaitsLaunch

(* What lives is what the globals name, so that Stop can find it. *)
LiveIsNamed ==
    /\ liveBox \subseteq {box} /\ liveXray \subseteq {xray}
    /\ \A e \in Objs : child[e] = "running" => e = extra
    /\ sysDNS => needUnsetDNS

(* What is up at each stage of Start and Stop. *)
StageInv(h) ==
    /\ pc[h] \in {"idle", "check", "stop"} /\ box = None => Clean
    /\ pc[h] \in {"newExtra", "runExtra", "fail"} => box = None /\ Clean
    /\ pc[h] = "runExtra" => cfg[h].extra
    /\ pc[h] \in {"newXray", "runXray"} => liveXray = {} /\ (cfg[h].extra \/ NoChild)
    /\ pc[h] \in {"newXray", "runXray", "newBox", "undo"} =>
           box = None /\ liveBox = {} /\ ~sysDNS
    /\ pc[h] = "dns" => box # None /\ ~sysDNS
    /\ pc[h] = "closing" => target[h] = box /\ ~sysDNS
    /\ pc[h] = "release" => liveBox = {} /\ ~sysDNS

StageInvs == ~leaky => LiveIsNamed /\ \A h \in Handlers : StageInv(h)
-----------------------------------------------------------------------------
LEMMA ObjsAreNumbers ==
    /\ None \notin Objs
    /\ \A k \in 0 .. MaxObj : k < MaxObj => k + 1 \in Objs /\ k + 1 \in 0 .. MaxObj
BY ServerAssumption DEF Objs, None

(* Process.Stop and the release of the helpers keep the types and the      *)
(* waiters' bookkeeping; afterwards nothing of them lives.                 *)
LEMMA ReleaseTypes ==
    ASSUME TypeOK, ReleaseHelpers
    PROVE  /\ extra' = None /\ xray' = None
           /\ liveXray' \subseteq Objs
           /\ child' \in [Objs -> {"none", "running", "exited"}]
           /\ stopped' \in [Objs -> BOOLEAN]
           /\ conf' \in [Objs -> BOOLEAN]
           /\ waiter' = waiter /\ announced' = announced
           /\ \A e \in Objs : /\ child'[e] = "running" => child[e] = "running"
                              /\ child'[e] = "none" <=> child[e] = "none"
                              /\ child'[e] = "exited" => child[e] # "none"
                              /\ conf'[e] => conf[e]
                              /\ e = extra => child'[e] # "running" /\ ~conf'[e]
<1>1. CASE extra = None
  <2>1. \A e \in Objs : e # extra BY <1>1, ObjsAreNumbers
  <2>2. UNCHANGED <<child, stopped, conf, waiter, announced>>
    BY <1>1 DEF ReleaseHelpers, proc
  <2>3. extra' = None /\ xray' = None /\ liveXray' \subseteq Objs
    BY DEF ReleaseHelpers, TypeOK
  <2> QED BY <2>1, <2>2, <2>3 DEF TypeOK
<1>2. CASE extra # None
  <2>1. StopChild(extra) /\ extra \in Objs
    BY <1>2 DEF ReleaseHelpers, TypeOK
  <2> QED BY <2>1 DEF ReleaseHelpers, TypeOK, StopChild
<1> QED BY <1>1, <1>2

(* With everything that lives named, the release leaves no Xray core and   *)
(* no child.                                                               *)
LEMMA ReleaseCleans ==
    ASSUME TypeOK, ReleaseHelpers, LiveIsNamed
    PROVE  liveXray' = {} /\ NoChild'
<1>1. liveXray' = {} BY DEF ReleaseHelpers, LiveIsNamed
<1>2. ASSUME NEW e \in Objs PROVE child'[e] # "running"
  BY ReleaseTypes DEF LiveIsNamed
<1> QED BY <1>1, <1>2 DEF NoChild
-----------------------------------------------------------------------------
LEMMA TypeStep == ASSUME TypeOK, [Next]_vars PROVE TypeOK'
<1> USE DEF globals, handler, proc
<1>1. ASSUME NEW h \in Handlers, Start(h) PROVE TypeOK'
  BY <1>1 DEF Start, TypeOK
<1>2. ASSUME NEW h \in Handlers, CheckStarted(h) PROVE TypeOK'
  BY <1>2 DEF CheckStarted, TypeOK, Goto
<1>3. ASSUME NEW h \in Handlers, SkipExtra(h) \/ RefuseExtra(h) \/ SkipXray(h) PROVE TypeOK'
  BY <1>3 DEF SkipExtra, RefuseExtra, SkipXray, TypeOK, Goto
<1>4. ASSUME NEW h \in Handlers, NewExtra(h) PROVE TypeOK'
  BY <1>4, ObjsAreNumbers DEF NewExtra, TypeOK, Goto
<1>5. ASSUME NEW h \in Handlers, RunExtra(h) PROVE TypeOK'
  <2>1. extra \in Objs BY <1>5 DEF RunExtra, TypeOK
  <2> QED BY <1>5, <2>1 DEF RunExtra, TypeOK, Goto
<1>6. ASSUME NEW h \in Handlers, NewXray(h) PROVE TypeOK'
  <2>1. cfg[h].extra \in BOOLEAN BY DEF TypeOK, Request
  <2>2. leaky' \in BOOLEAN /\ made' \in [box : 0 .. MaxObj, xray : 0 .. MaxObj, extra : 0 .. MaxObj]
        /\ xray' \in Objs \cup {None}
    BY <1>6, <2>1, ObjsAreNumbers DEF NewXray, TypeOK, Goto
  <2> QED BY <1>6, <2>2 DEF NewXray, TypeOK, Goto
<1>7. ASSUME NEW h \in Handlers, RunXray(h) PROVE TypeOK'
  <2>1. cfg[h].extra \in BOOLEAN BY DEF TypeOK, Request
  <2>2. xray \in Objs BY <1>7 DEF RunXray, TypeOK
  <2> QED BY <1>7, <2>1, <2>2 DEF RunXray, TypeOK, Goto
<1>8. ASSUME NEW h \in Handlers, NewBox(h) PROVE TypeOK'
  BY <1>8, ObjsAreNumbers DEF NewBox, TypeOK, Goto
<1>9. ASSUME NEW h \in Handlers, UndoHelpers(h) \/ FinishStop(h) PROVE TypeOK'
  BY <1>9, ReleaseTypes DEF UndoHelpers, FinishStop, TypeOK, Goto
<1>10. ASSUME NEW h \in Handlers, SetDNS(h) PROVE TypeOK'
  <2>1. CASE Return(h) /\ UNCHANGED <<box, extra, xray, liveBox, liveXray, proc>>
    <3>1. needUnsetDNS' \in BOOLEAN /\ sysDNS' \in BOOLEAN
      BY <1>10, <2>1 DEF SetDNS, TypeOK, Goto, Return
    <3>2. pc' = [pc EXCEPT ![h] = "idle"] /\ cfg' = [cfg EXCEPT ![h] = NoRequest]
          /\ NoRequest \in Request
      BY <2>1 DEF Return, Request, NoRequest
    <3> QED BY <1>10, <2>1, <3>1, <3>2 DEF SetDNS, TypeOK
  <2>2. CASE /\ liveBox' = liveBox \ {box} /\ box' = None /\ ReleaseHelpers
             /\ Goto(h, "fail") /\ UNCHANGED <<needUnsetDNS, sysDNS>>
    BY <1>10, <2>2, ReleaseTypes DEF SetDNS, TypeOK, Goto
  <2> QED BY <1>10, <2>1, <2>2 DEF SetDNS
<1>11. ASSUME NEW h \in Handlers, FailStart(h) PROVE TypeOK'
  BY <1>11 DEF FailStart, Return, TypeOK, Request, NoRequest
<1>12. ASSUME NEW h \in Handlers, Stop(h) \/ StopNothing(h) PROVE TypeOK'
  BY <1>12 DEF Stop, StopNothing, TypeOK, Goto
<1>13. ASSUME NEW h \in Handlers, BeginClose(h) \/ CloseBox(h) PROVE TypeOK'
  <2>1. sysDNS' \in BOOLEAN /\ needUnsetDNS' \in BOOLEAN
    BY <1>13 DEF BeginClose, CloseBox, TypeOK
  <2>2. target' \in [Handlers -> Objs \cup {None}] /\ liveBox' \subseteq Objs
    BY <1>13 DEF BeginClose, CloseBox, TypeOK
  <2>3. pc' \in [Handlers -> {"idle", "check", "newExtra", "runExtra", "newXray", "runXray",
                               "newBox", "undo", "dns", "fail", "stop", "closing", "release"}]
    BY <1>13 DEF BeginClose, CloseBox, TypeOK, Goto
  <2>4. UNCHANGED <<box, extra, xray, cfg, made, liveXray, proc, leaky>>
    BY <1>13 DEF BeginClose, CloseBox, Goto
  <2> QED BY <2>1, <2>2, <2>3, <2>4 DEF TypeOK
<1>14. ASSUME NEW e \in Objs, ChildExits(e) \/ WaitReturns(e) \/ WaiterCleans(e) PROVE TypeOK'
  <2>1. CASE ChildExits(e) BY <2>1 DEF ChildExits, TypeOK
  <2>2. CASE WaitReturns(e)
    <3>1. announced' \subseteq Objs BY <2>2 DEF WaitReturns, TypeOK
    <3> QED BY <2>2, <3>1 DEF WaitReturns, TypeOK
  <2>3. CASE WaiterCleans(e) BY <2>3 DEF WaiterCleans, TypeOK
  <2> QED BY <1>14, <2>1, <2>2, <2>3
<1>15. CASE UNCHANGED vars
  BY <1>15 DEF vars, TypeOK
<1> QED
  BY <1>1, <1>2, <1>3, <1>4, <1>5, <1>6, <1>7, <1>8, <1>9, <1>10, <1>11, <1>12, <1>13,
     <1>14, <1>15 DEF Next, StartStep, StopStep

LEMMA InitTypes == Init => TypeOK
<1> SUFFICES ASSUME Init PROVE TypeOK OBVIOUS
<1>1. 0 \in 0 .. MaxObj BY ServerAssumption
<1>2. made \in [box : 0 .. MaxObj, xray : 0 .. MaxObj, extra : 0 .. MaxObj]
  BY <1>1 DEF Init
<1>3. cfg \in [Handlers -> Request] BY DEF Init, Request, NoRequest
<1> QED BY <1>2, <1>3 DEF Init, TypeOK

(* The types of the core's state, for any number of handlers: the globals  *)
(* of server.go hold an instance that was made, or none.                   *)
THEOREM TypeCorrect == Spec => []TypeOK
<1>1. Init => TypeOK BY InitTypes
<1>2. TypeOK /\ [Next]_vars => TypeOK' BY TypeStep
<1> QED BY <1>1, <1>2, PTL DEF Spec
-----------------------------------------------------------------------------
(* The temp config, with one handler h. *)

(* A step that leaves processes, configs and the global alone, and goes    *)
(* neither to nor from "runExtra", keeps the bookkeeping.                  *)
LEMMA ConfigIdle ==
    ASSUME NEW h, Handlers = {h}, ConfigInv, TypeOK',
           UNCHANGED <<extra, child, conf, waiter>>, made'.extra = made.extra,
           pc[h] # "runExtra", pc'[h] # "runExtra"
    PROVE  ConfigInv'
BY DEF ConfigInv, FutureIsBlank, WaiterFollows, ConfigAwaitsLaunch

(* Releasing the helpers keeps the bookkeeping, too. *)
LEMMA ConfigRelease ==
    ASSUME NEW h, Handlers = {h}, ConfigInv, TypeOK', ReleaseHelpers, UNCHANGED made,
           pc[h] # "runExtra", pc'[h] # "runExtra"
    PROVE  ConfigInv'
<1>1. TypeOK BY DEF ConfigInv
<1>2. FutureIsBlank'
  <2>1. made.extra \in 0 .. MaxObj /\ MaxObj \in Nat BY <1>1, ServerAssumption DEF TypeOK
  <2>2. extra' <= made'.extra BY <1>1, <2>1, ReleaseTypes DEF None
  <2> QED BY <1>1, <2>2, ReleaseTypes DEF ConfigInv, FutureIsBlank
<1>3. WaiterFollows'
  <2> SUFFICES ASSUME NEW e \in Objs
      PROVE  /\ child'[e] = "none" => waiter'[e] = "none"
             /\ child'[e] = "running" => waiter'[e] = "waiting"
             /\ child'[e] = "exited" => waiter'[e] # "none"
             /\ waiter'[e] = "done" => ~conf'[e]
    BY DEF WaiterFollows
  <2>1. child[e] \in {"none", "running", "exited"} BY <1>1 DEF TypeOK
  <2> QED BY <1>1, <2>1, ReleaseTypes DEF ConfigInv, WaiterFollows
<1>4. ConfigAwaitsLaunch'
  BY <1>1, ReleaseTypes DEF ConfigInv, ConfigAwaitsLaunch
<1> QED BY <1>2, <1>3, <1>4 DEF ConfigInv

LEMMA ConfigStep ==
    ASSUME NEW h, Handlers = {h}, ConfigInv, [Next]_vars
    PROVE  ConfigInv'
<1> USE DEF globals, handler, proc
<1>0. TypeOK /\ TypeOK' BY TypeStep DEF ConfigInv
<1>1. CASE Start(h) \/ CheckStarted(h) \/ SkipExtra(h) \/ RefuseExtra(h) \/ SkipXray(h)
           \/ NewXray(h) \/ RunXray(h) \/ NewBox(h) \/ FailStart(h)
           \/ Stop(h) \/ StopNothing(h) \/ BeginClose(h) \/ CloseBox(h)
  <2>1. UNCHANGED <<extra, child, conf, waiter>> /\ made'.extra = made.extra
    BY <1>0, <1>1 DEF Start, CheckStarted, SkipExtra, RefuseExtra, SkipXray, NewXray, RunXray,
       NewBox, FailStart, Stop, StopNothing, BeginClose, CloseBox, TypeOK
  <2>2. pc[h] # "runExtra" /\ pc'[h] # "runExtra"
    BY <1>0, <1>1 DEF Start, CheckStarted, SkipExtra, RefuseExtra, SkipXray, NewXray, RunXray,
       NewBox, FailStart, Stop, StopNothing, BeginClose, CloseBox, TypeOK, Goto, Return
  <2> QED BY <1>0, <2>1, <2>2, ConfigIdle
<1>2. CASE NewExtra(h)
  <2> DEFINE n == made.extra + 1
  <2>1. n \in Objs /\ made.extra \in Nat BY <1>0, <1>2, ObjsAreNumbers DEF NewExtra, TypeOK
  <2>2. made'.extra = n /\ extra' = n /\ UNCHANGED <<child, waiter>>
        /\ \A e \in Objs : e # n => conf'[e] = conf[e]
    BY <1>0, <1>2, <2>1 DEF NewExtra, TypeOK
  <2>3. child[n] = "none" /\ waiter[n] = "none"
    BY <2>1 DEF ConfigInv, FutureIsBlank, WaiterFollows
  <2>4. pc[h] = "newExtra" /\ pc'[h] = "runExtra" BY <1>0, <1>2 DEF NewExtra, Goto, TypeOK
  <2>5. FutureIsBlank'
    <3>1. \A e \in Objs : e > n => e > made.extra /\ e # n
      BY <2>1, ServerAssumption DEF Objs
    <3> HIDE DEF n
    <3> QED BY <2>1, <2>2, <3>1, ServerAssumption DEF ConfigInv, FutureIsBlank, Objs
  <2> HIDE DEF n
  <2>6. WaiterFollows' BY <2>2, <2>3 DEF ConfigInv, WaiterFollows
  <2>7. ConfigAwaitsLaunch'
    BY <2>1, <2>2, <2>3, <2>4, ObjsAreNumbers DEF ConfigInv, ConfigAwaitsLaunch
  <2> QED BY <1>0, <2>5, <2>6, <2>7 DEF ConfigInv
<1>3. CASE RunExtra(h)
  <2>1. /\ extra \in Objs /\ child[extra] = "none" /\ waiter[extra] = "none"
        /\ extra \in Nat /\ made.extra \in Nat /\ extra <= made.extra
    BY <1>0, <1>3, ServerAssumption
       DEF RunExtra, TypeOK, ConfigInv, FutureIsBlank, WaiterFollows, ConfigAwaitsLaunch, Objs
  <2>2. /\ UNCHANGED <<extra, made>> /\ pc[h] = "runExtra" /\ pc'[h] # "runExtra"
        /\ \A e \in Objs : e # extra => /\ child'[e] = child[e] /\ conf'[e] = conf[e]
                                          /\ waiter'[e] = waiter[e]
        /\ \/ child'[extra] = "running" /\ waiter'[extra] = "waiting"
           \/ child'[extra] = "none" /\ waiter'[extra] = "none" /\ ~conf'[extra]
    BY <1>0, <1>3, <2>1 DEF RunExtra, TypeOK, Goto
  <2>3. FutureIsBlank'
    <3>1. \A e \in Objs : e > made.extra => e # extra
      BY <2>1, ServerAssumption DEF Objs
    <3> QED BY <2>1, <2>2, <3>1 DEF ConfigInv, FutureIsBlank
  <2>4. WaiterFollows' BY <2>1, <2>2 DEF ConfigInv, WaiterFollows
  <2>5. ConfigAwaitsLaunch' BY <2>1, <2>2 DEF ConfigInv, ConfigAwaitsLaunch
  <2> QED BY <1>0, <2>3, <2>4, <2>5 DEF ConfigInv
<1>4. CASE UndoHelpers(h) \/ FinishStop(h)
  <2>1. ReleaseHelpers /\ UNCHANGED made /\ pc[h] # "runExtra" /\ pc'[h] # "runExtra"
    BY <1>0, <1>4 DEF UndoHelpers, FinishStop, Goto, TypeOK
  <2> QED BY <1>0, <2>1, ConfigRelease
<1>5. CASE SetDNS(h)
  <2>1. /\ UNCHANGED made /\ pc[h] # "runExtra" /\ pc'[h] # "runExtra"
        /\ ReleaseHelpers \/ UNCHANGED <<extra, child, conf, waiter>>
    BY <1>0, <1>5 DEF SetDNS, Goto, Return, TypeOK
  <2> QED BY <1>0, <2>1, ConfigRelease, ConfigIdle
<1>6. ASSUME NEW x \in Objs, ChildExits(x) \/ WaitReturns(x) \/ WaiterCleans(x)
      PROVE  ConfigInv'
  <2>1. UNCHANGED <<extra, made, pc>>
    BY <1>6 DEF ChildExits, WaitReturns, WaiterCleans
  <2>2. /\ \A e \in Objs : e # x => /\ child'[e] = child[e] /\ conf'[e] = conf[e]
                                      /\ waiter'[e] = waiter[e]
        /\ child[x] # "none" /\ child'[x] = "exited" /\ waiter'[x] # "none"
        /\ conf'[x] => conf[x]
        /\ waiter'[x] = "done" => ~conf'[x]
    <3>1. child[x] \in {"none", "running", "exited"} BY <1>0 DEF TypeOK
    <3> QED BY <1>0, <1>6, <3>1
            DEF ChildExits, WaitReturns, WaiterCleans, TypeOK, ConfigInv, WaiterFollows
  <2>a. \A e \in Objs : (child'[e] = "none" <=> child[e] = "none") /\ (conf'[e] => conf[e])
    BY <2>2
  <2>3. FutureIsBlank' BY <2>1, <2>a DEF ConfigInv, FutureIsBlank
  <2>4. WaiterFollows' BY <2>2 DEF ConfigInv, WaiterFollows
  <2>5. ConfigAwaitsLaunch'
    <3>1. pc'[h] = "runExtra" => extra' # None /\ child'[extra'] = "none"
      <4>1. extra \in Objs \/ extra = None BY <1>0 DEF TypeOK
      <4> QED BY <4>1, <2>1, <2>a DEF ConfigInv, ConfigAwaitsLaunch
    <3>2. ASSUME NEW e \in Objs, conf'[e], child'[e] = "none"
          PROVE  e = extra' /\ pc'[h] = "runExtra"
      <4>1. conf[e] /\ child[e] = "none" BY <3>2, <2>a
      <4> QED BY <4>1, <2>1 DEF ConfigInv, ConfigAwaitsLaunch
    <3> QED BY <3>1, <3>2 DEF ConfigAwaitsLaunch
  <2> QED BY <1>0, <2>3, <2>4, <2>5 DEF ConfigInv
<1>7. CASE UNCHANGED vars
  BY <1>0, <1>7 DEF vars, ConfigInv, FutureIsBlank, WaiterFollows, ConfigAwaitsLaunch
<1> QED
  BY <1>1, <1>2, <1>3, <1>4, <1>5, <1>6, <1>7 DEF Next, StartStep, StopStep

(* ConfigIsBound: the temp config of an extra process is on disk only       *)
(* before its launch, while it runs and until its waiter has run, also      *)
(* when Start fails at any stage or Stop, exit and waiter race.             *)
THEOREM ConfigIsBounded == ASSUME OneCall PROVE Spec => []ConfigIsBound
<1>1. PICK h : Handlers = {h} BY DEF OneCall
<1>2. Init => ConfigInv
  <2> SUFFICES ASSUME Init PROVE ConfigInv OBVIOUS
  <2>1. extra <= made.extra BY DEF Init, None
  <2> QED BY <2>1, InitTypes DEF Init, ConfigInv, FutureIsBlank, WaiterFollows, ConfigAwaitsLaunch
<1>3. ConfigInv /\ [Next]_vars => ConfigInv' BY <1>1, ConfigStep
<1>4. ConfigInv => ConfigIsBound
  <2> SUFFICES ASSUME ConfigInv, NEW e \in Objs, conf[e]
      PROVE  \/ child[e] = "running"
             \/ child[e] = "exited" /\ waiter[e] \in {"waiting", "woken"}
             \/ child[e] = "none" /\ \E k \in Handlers : pc[k] = "runExtra"
    BY DEF ConfigIsBound
  <2>1. /\ child[e] \in {"none", "running", "exited"}
        /\ waiter[e] \in {"none", "waiting", "woken", "done"}
    BY DEF ConfigInv, TypeOK
  <2> QED BY <2>1 DEF ConfigInv, WaiterFollows, ConfigAwaitsLaunch
<1> QED BY <1>2, <1>3, <1>4, PTL DEF Spec
-----------------------------------------------------------------------------
(* What is left running, with one handler h. *)

LiveInv == ConfigInv /\ StageInvs

(* A stage that touches neither what lives nor the globals. *)
LEMMA StageMove ==
    ASSUME NEW h \in Handlers, StageInv(h), LiveIsNamed, TypeOK,
           Start(h) \/ CheckStarted(h) \/ SkipExtra(h) \/ RefuseExtra(h) \/ SkipXray(h)
           \/ FailStart(h) \/ Stop(h) \/ StopNothing(h) \/ BeginClose(h), ~leaky'
    PROVE  StageInv(h)' /\ LiveIsNamed'
<1> USE DEF globals, handler, proc
<1>1. CASE Start(h)
  BY <1>1 DEF Start, TypeOK, StageInv, LiveIsNamed, Clean, NoChild
<1>2. CASE CheckStarted(h)
  BY <1>2 DEF CheckStarted, Goto, TypeOK, StageInv, LiveIsNamed, Clean, NoChild
<1>3. CASE SkipExtra(h)
  BY <1>3 DEF SkipExtra, Goto, TypeOK, StageInv, LiveIsNamed, Clean, NoChild
<1>4. CASE RefuseExtra(h)
  BY <1>4 DEF RefuseExtra, Goto, TypeOK, StageInv, LiveIsNamed, Clean, NoChild
<1>5. CASE SkipXray(h)
  BY <1>5 DEF SkipXray, Goto, TypeOK, StageInv, LiveIsNamed, Clean, NoChild
<1>6. CASE FailStart(h)
  BY <1>6 DEF FailStart, Return, TypeOK, StageInv, LiveIsNamed, Clean, NoChild
<1>7. CASE Stop(h) \/ StopNothing(h)
  BY <1>7 DEF Stop, StopNothing, Goto, TypeOK, StageInv, LiveIsNamed, Clean, NoChild
<1>8. CASE BeginClose(h)
  BY <1>8 DEF BeginClose, Goto, TypeOK, StageInv, LiveIsNamed, Clean, NoChild
<1> QED BY <1>1, <1>2, <1>3, <1>4, <1>5, <1>6, <1>7, <1>8

(* A stage that makes or launches something. *)
LEMMA StageMakes ==
    ASSUME NEW h \in Handlers, StageInv(h), LiveIsNamed, TypeOK, TypeOK',
           NewExtra(h) \/ RunExtra(h) \/ NewXray(h) \/ RunXray(h) \/ NewBox(h), ~leaky'
    PROVE  StageInv(h)' /\ LiveIsNamed'
<1> USE DEF globals, handler, proc
<1>1. CASE NewExtra(h)
  BY <1>1 DEF NewExtra, Goto, TypeOK, StageInv, LiveIsNamed, Clean, NoChild
<1>2. CASE RunExtra(h)
  <2>1. extra \in Objs BY <1>2 DEF RunExtra, TypeOK
  <2>2. \A e \in Objs : e # extra => child'[e] = child[e]
    BY <1>2, <2>1 DEF RunExtra, TypeOK
  <2>3. \/ pc'[h] = "newXray"
        \/ pc'[h] = "fail" /\ UNCHANGED child
    BY <1>2 DEF RunExtra, Goto, TypeOK
  <2>4. /\ box = None /\ Clean /\ cfg[h].extra
        /\ UNCHANGED <<box, extra, xray, needUnsetDNS, cfg, liveBox, liveXray, sysDNS>>
    BY <1>2 DEF RunExtra, Goto, StageInv
  <2> QED BY <2>1, <2>2, <2>3, <2>4 DEF StageInv, LiveIsNamed, Clean, NoChild
<1>3. CASE NewXray(h)
  BY <1>3 DEF NewXray, Goto, TypeOK, StageInv, LiveIsNamed, Clean, NoChild
<1>4. CASE RunXray(h)
  BY <1>4 DEF RunXray, Goto, TypeOK, StageInv, LiveIsNamed, Clean, NoChild
<1>5. CASE NewBox(h)
  BY <1>5, ObjsAreNumbers DEF NewBox, Goto, TypeOK, StageInv, LiveIsNamed, Clean, NoChild
<1> QED BY <1>1, <1>2, <1>3, <1>4, <1>5

(* A stage that releases. *)
LEMMA StageReleases ==
    ASSUME NEW h \in Handlers, StageInv(h), LiveIsNamed, TypeOK, TypeOK',
           UndoHelpers(h) \/ SetDNS(h) \/ CloseBox(h) \/ FinishStop(h), ~leaky'
    PROVE  StageInv(h)' /\ LiveIsNamed'
<1> USE DEF globals, handler, proc
<1>1. CASE UndoHelpers(h) \/ FinishStop(h)
  <2>1. liveXray' = {} /\ NoChild' /\ box' = None /\ liveBox' = {} /\ ~sysDNS'
    <3>1. ReleaseHelpers BY <1>1 DEF UndoHelpers, FinishStop
    <3> QED BY <1>1, <3>1, ReleaseCleans DEF UndoHelpers, FinishStop, StageInv
  <2>2. pc'[h] \in {"fail", "idle"}
    BY <1>1 DEF UndoHelpers, FinishStop, Goto, TypeOK
  <2> QED BY <2>1, <2>2 DEF StageInv, LiveIsNamed, Clean, NoChild
<1>2. CASE SetDNS(h)
  <2>1. CASE /\ Return(h) /\ UNCHANGED <<box, extra, xray, liveBox, liveXray, proc>>
             /\ needUnsetDNS' \/ ~sysDNS'
    <3>1. pc'[h] = "idle" /\ box' # None
      BY <1>2, <2>1 DEF SetDNS, Return, TypeOK, StageInv
    <3>2. LiveIsNamed' BY <2>1 DEF LiveIsNamed
    <3> QED BY <3>1, <3>2 DEF StageInv
  <2>2. CASE /\ liveBox' = liveBox \ {box} /\ box' = None /\ ReleaseHelpers
             /\ Goto(h, "fail") /\ UNCHANGED <<needUnsetDNS, sysDNS>>
    <3>1. liveXray' = {} /\ NoChild' /\ box' = None /\ liveBox' = {} /\ ~sysDNS'
      BY <1>2, <2>2, ReleaseCleans DEF SetDNS, StageInv, LiveIsNamed
    <3>2. pc'[h] = "fail" BY <2>2 DEF Goto, TypeOK
    <3> QED BY <3>1, <3>2 DEF StageInv, LiveIsNamed, Clean, NoChild
  <2>3. ~sysDNS BY <1>2 DEF SetDNS, StageInv
  <2> QED BY <1>2, <2>1, <2>2, <2>3 DEF SetDNS
<1>3. CASE CloseBox(h)
  BY <1>3 DEF CloseBox, Goto, TypeOK, StageInv, LiveIsNamed, Clean, NoChild
<1> QED BY <1>1, <1>2, <1>3

LEMMA LiveStep ==
    ASSUME NEW h, Handlers = {h}, LiveInv, [Next]_vars
    PROVE  LiveInv'
<1> USE DEF globals, handler, proc
<1>0. TypeOK /\ TypeOK' /\ h \in Handlers BY TypeStep DEF LiveInv, ConfigInv
<1>1. ConfigInv' BY ConfigStep DEF LiveInv
<1>2. StageInvs'
  <2> SUFFICES ASSUME ~leaky' PROVE LiveIsNamed' /\ StageInv(h)' BY DEF StageInvs
  <2>1. ~leaky
    <3>1. CASE CheckStarted(h) BY <3>1 DEF CheckStarted
    <3>2. CASE NewXray(h) BY <3>2 DEF NewXray
    <3>3. CASE RunXray(h) BY <3>3 DEF RunXray
    <3>4. CASE leaky' = leaky BY <3>4
    <3> QED BY <3>1, <3>2, <3>3, <3>4 DEF Next, StartStep, StopStep, Start, Stop, SkipExtra,
         RefuseExtra, NewExtra, RunExtra, SkipXray, NewBox, UndoHelpers, SetDNS, FailStart,
         StopNothing, BeginClose, CloseBox, FinishStop, ChildExits, WaitReturns, WaiterCleans, vars
  <2>2. LiveIsNamed /\ StageInv(h) BY <2>1 DEF LiveInv, StageInvs
  <2>3. ASSUME NEW x \in Objs, ChildExits(x) \/ WaitReturns(x) \/ WaiterCleans(x)
        PROVE  LiveIsNamed' /\ StageInv(h)'
    <3>1. /\ UNCHANGED <<box, extra, xray, needUnsetDNS, pc, cfg, target, liveBox, liveXray, sysDNS>>
          /\ \A e \in Objs : child'[e] = "running" => child[e] = "running"
      BY <1>0, <2>3 DEF ChildExits, WaitReturns, WaiterCleans, TypeOK
    <3>2. NoChild => NoChild' BY <3>1 DEF NoChild
    <3>3. Clean => Clean' BY <3>1, <3>2 DEF Clean
    <3>4. StageInv(h)' BY <2>2, <3>1, <3>2, <3>3 DEF StageInv
    <3> QED BY <2>2, <3>1, <3>4 DEF LiveIsNamed
  <2>4. CASE UNCHANGED vars
    BY <2>2, <2>4 DEF vars, LiveIsNamed, StageInv, Clean, NoChild
  <2> QED BY <1>0, <2>2, <2>3, <2>4, StageMove, StageMakes, StageReleases
          DEF Next, StartStep, StopStep
<1> QED BY <1>1, <1>2 DEF LiveInv

(* NothingLeftRunning: once no call is in progress and there is no          *)
(* instance, no box, Xray core, extra process or DNS override is left,      *)
(* whatever stage of Start failed, apart from the two failures the model    *)
(* names.                                                                   *)
THEOREM StopReleasesAll == ASSUME OneCall PROVE Spec => []NothingLeftRunning
<1>1. PICK h : Handlers = {h} BY DEF OneCall
<1>2. Init => LiveInv
  <2> SUFFICES ASSUME Init PROVE LiveInv OBVIOUS
  <2>1. extra <= made.extra BY DEF Init, None
  <2>2. ConfigInv
    BY <2>1, InitTypes DEF Init, ConfigInv, FutureIsBlank, WaiterFollows, ConfigAwaitsLaunch
  <2>3. StageInvs
    BY <1>1 DEF Init, StageInvs, LiveIsNamed, StageInv, Clean, NoChild
  <2> QED BY <2>2, <2>3 DEF LiveInv
<1>3. LiveInv /\ [Next]_vars => LiveInv' BY <1>1, LiveStep
<1>4. LiveInv => NothingLeftRunning
  BY <1>1 DEF LiveInv, StageInvs, StageInv, NothingLeftRunning, Quiet, Clean, NoChild
<1> QED BY <1>2, <1>3, <1>4, PTL DEF Spec

-----------------------------------------------------------------------------
(***************************************************************************)
(* The connections of the core.  Proof that ConnectionLister::update       *)
(* credits no byte twice, for any number of connections and any size of    *)
(* the ring, apart from the two cases the model names: a connection that   *)
(* closes between the two reads of a poll, and one known when a poll       *)
(* failed.  Then that it credits the whole of every connection it takes as *)
(* accounted, without exception.                                           *)
(***************************************************************************)

Sound == Conns \ (overlapped \cup blinded)
Diffed(c) == conn[c] \in {"new", "open"} \/ c \in InRing \ accounted

(* What the proof needs of the types; Nat in place of the bounds. *)
Types ==
    /\ conn \in [Conns -> {"new", "open", "closed", "gone"}]
    /\ bytes \in [Conns -> Nat] /\ lastBytes \in [Conns -> Nat]
    /\ credited \in [Conns -> Nat]
    /\ ring \in Seq(Conns)
    /\ active \in [set : SUBSET Conns, at : [Conns -> Nat]]
    /\ accounted \subseteq Conns
    /\ overlapped \subseteq Conns /\ blinded \subseteq Conns

(* The ring and accounted hold closed connections only. *)
RingIsClosed == \A c \in InRing \cup accounted : conn[c] = "closed"

(* A connection the next poll will diff was credited exactly up to the     *)
(* counter it is diffed against.                                           *)
DiffedAgainstCredit == \A c \in Sound : Diffed(c) => credited[c] = lastBytes[c]

(* The answer of a poll in progress is about connections that are still    *)
(* open, and lies between the counters of the previous poll and now.       *)
AnswerIsCurrent ==
    poll = "reading" =>
        \A c \in Sound \cap active.set :
            /\ conn[c] = "open"
            /\ lastBytes[c] <= active.at[c] /\ active.at[c] <= bytes[c]

(* A connection the answer does not have was never seen. *)
UnseenIsZero ==
    \A c \in Sound :
        conn[c] = "new" \/ (conn[c] = "open" /\ poll = "reading" /\ c \notin active.set)
            => lastBytes[c] = 0

NewIsNotActive == \A c \in Conns : conn[c] = "new" => c \notin active.set

IInv ==
    /\ Types /\ RingIsClosed /\ DiffedAgainstCredit /\ AnswerIsCurrent
    /\ UnseenIsZero /\ NewIsNotActive /\ CountedOnce
    /\ poll \in {"none", "reading"}
    /\ poll = "none" => active.set = {}
-----------------------------------------------------------------------------
(* What the ring holds after a connection entered it is that connection    *)
(* and something of what it held before.                                   *)
LEMMA RememberKeeps ==
    ASSUME ring \in Seq(Conns), NEW c \in Conns
    PROVE  /\ Remember(c) \in Seq(Conns)
           /\ ToSet(Remember(c)) \subseteq InRing \cup {c}
<1>0. RingSize \in Nat \ {0} BY AccountingAssumption
<1> DEFINE kept == IF Len(ring) = RingSize THEN Tail(ring) ELSE ring
<1>1. kept \in Seq(Conns) /\ \A i \in 1 .. Len(kept) : \E j \in 1 .. Len(ring) : kept[i] = ring[j]
  <2>1. CASE Len(ring) = RingSize
    <3>1. ring # << >> BY <1>0, <2>1
    <3>2. Tail(ring) \in Seq(Conns) /\ Len(Tail(ring)) = Len(ring) - 1
          /\ \A i \in 1 .. Len(Tail(ring)) : Tail(ring)[i] = ring[i + 1]
          BY <3>1
    <3>3. \A i \in 1 .. Len(Tail(ring)) : i + 1 \in 1 .. Len(ring) BY <3>2
    <3> QED BY <2>1, <3>2, <3>3
  <2>2. CASE Len(ring) # RingSize BY <2>2
  <2> QED BY <2>1, <2>2
<1> HIDE DEF kept
<1>2. /\ Append(kept, c) \in Seq(Conns) /\ Len(Append(kept, c)) = Len(kept) + 1
      /\ \A i \in 1 .. Len(kept) : Append(kept, c)[i] = kept[i]
      /\ Append(kept, c)[Len(kept) + 1] = c
      BY <1>1
<1>3. ToSet(Append(kept, c)) \subseteq InRing \cup {c}
  <2> SUFFICES ASSUME NEW i \in 1 .. Len(kept) + 1
               PROVE  Append(kept, c)[i] \in InRing \cup {c}
      BY <1>2 DEF ToSet
  <2>1. CASE i \in 1 .. Len(kept) BY <2>1, <1>1, <1>2 DEF InRing, ToSet
  <2>2. CASE i = Len(kept) + 1 BY <2>2, <1>2
  <2> QED BY <2>1, <2>2, <1>1
<1> QED BY <1>2, <1>3 DEF kept, Remember

LEMMA Initially == ConnInit => IInv
<1> SUFFICES ASSUME ConnInit PROVE IInv OBVIOUS
<1>1. InRing = {} BY DEF ConnInit, InRing, ToSet
<1>2. Types BY DEF ConnInit, Types, Zero
<1>3. RingIsClosed BY <1>1 DEF ConnInit, RingIsClosed
<1>4. \A c \in Conns : credited[c] = 0 /\ lastBytes[c] = 0 /\ bytes[c] = 0 BY DEF ConnInit, Zero
<1>5. Sound \subseteq Conns BY DEF Sound
<1>6. DiffedAgainstCredit /\ UnseenIsZero /\ CountedOnce
      BY <1>4, <1>5 DEF DiffedAgainstCredit, UnseenIsZero, CountedOnce
<1>7. AnswerIsCurrent /\ NewIsNotActive BY DEF ConnInit, AnswerIsCurrent, NewIsNotActive
<1> QED BY <1>2, <1>3, <1>6, <1>7 DEF ConnInit, IInv

LEMMA OpenKeeps == ASSUME IInv, NEW c \in Conns, Open(c) PROVE IInv'
<1>1. InRing' = InRing BY DEF Open, InRing
<1>2. Types' BY DEF Open, IInv, Types, gui
<1>3. /\ \A d \in Conns : conn'[d] = IF d = c THEN "open" ELSE conn[d]
      /\ conn[c] = "new"
      BY DEF Open, IInv, Types
<1>4. Sound' = Sound /\ Sound \subseteq Conns BY DEF Open, Sound
<1>5. RingIsClosed' BY <1>1, <1>3 DEF Open, IInv, Types, gui, RingIsClosed, InRing, ToSet
<1>6. DiffedAgainstCredit' BY <1>1, <1>3, <1>4 DEF Open, IInv, gui, DiffedAgainstCredit, Diffed
<1>7. AnswerIsCurrent' BY <1>3, <1>4 DEF Open, IInv, gui, AnswerIsCurrent
<1>8. UnseenIsZero' BY <1>3, <1>4 DEF Open, IInv, gui, UnseenIsZero
<1>9. NewIsNotActive' BY <1>3 DEF Open, IInv, NewIsNotActive
<1>10. CountedOnce' BY DEF Open, IInv, gui, CountedOnce
<1> QED BY <1>2, <1>5, <1>6, <1>7, <1>8, <1>9, <1>10 DEF Open, IInv

LEMMA TransferKeeps == ASSUME IInv, NEW c \in Conns, Transfer(c) PROVE IInv'
<1>1. InRing' = InRing BY DEF Transfer, InRing
<1>2. Types' BY DEF Transfer, IInv, Types, gui
<1>3. \A d \in Conns : bytes'[d] \in Nat /\ bytes[d] \in Nat /\ bytes[d] <= bytes'[d]
      BY <1>2 DEF Transfer, IInv, Types
<1>4. AnswerIsCurrent' BY <1>2, <1>3 DEF Transfer, IInv, Types, gui, Sound, AnswerIsCurrent
<1>5. CountedOnce' BY <1>2, <1>3 DEF Transfer, IInv, Types, gui, CountedOnce
<1> QED BY <1>1, <1>2, <1>4, <1>5 DEF Transfer, IInv, gui, Sound, Diffed, RingIsClosed,
    DiffedAgainstCredit, UnseenIsZero, NewIsNotActive

LEMMA CloseKeeps == ASSUME IInv, NEW c \in Conns, Close(c) PROVE IInv'
<1>1. /\ Remember(c) \in Seq(Conns) /\ InRing' \subseteq InRing \cup {c}
      BY RememberKeeps DEF IInv, Types, Close, InRing
<1>2. Types' BY <1>1 DEF Close, IInv, Types, gui
<1>3. /\ \A d \in Conns : conn'[d] = IF d = c THEN "closed" ELSE conn[d]
      /\ conn[c] = "open"
      BY DEF Close, IInv, Types
<1>4. Sound' \subseteq Sound /\ (poll = "reading" => c \notin Sound') BY DEF Close, Sound
<1>5. RingIsClosed' BY <1>1, <1>3 DEF Close, IInv, Types, gui, RingIsClosed, InRing
<1>6. DiffedAgainstCredit'
      BY <1>1, <1>3, <1>4 DEF Close, IInv, Types, gui, DiffedAgainstCredit, Diffed, Sound
<1>7. AnswerIsCurrent' BY <1>3, <1>4 DEF Close, IInv, Types, gui, AnswerIsCurrent, Sound
<1>8. UnseenIsZero' /\ NewIsNotActive' /\ CountedOnce'
      BY <1>3, <1>4 DEF Close, IInv, Types, gui, UnseenIsZero, NewIsNotActive, CountedOnce, Sound
<1> QED BY <1>2, <1>5, <1>6, <1>7, <1>8 DEF IInv, Close

LEMMA StopBoxKeeps == ASSUME IInv, StopBox PROVE IInv'
<1>1. InRing' = {} BY DEF StopBox, InRing, ToSet
<1>2. Types' BY DEF StopBox, IInv, Types, gui
<1>3. \A d \in Conns : conn'[d] = IF conn[d] = "open" THEN "gone" ELSE conn[d] BY DEF StopBox
<1> QED BY <1>1, <1>2, <1>3 DEF StopBox, IInv, Types, gui, Sound, Diffed, RingIsClosed,
    DiffedAgainstCredit, AnswerIsCurrent, UnseenIsZero, NewIsNotActive, CountedOnce

LEMMA ReadActiveKeeps == ASSUME IInv, ReadActive PROVE IInv'
<1>1. InRing' = InRing BY DEF ReadActive, InRing
<1>2. Types' BY DEF ReadActive, IInv, Types, gui, Live
<1>3. AnswerIsCurrent'
  <2> SUFFICES ASSUME NEW d \in Sound, conn[d] = "open"
               PROVE  lastBytes[d] <= bytes[d]
      BY DEF ReadActive, IInv, Types, gui, Live, Sound, AnswerIsCurrent
  <2>1. credited[d] = lastBytes[d] /\ credited[d] <= bytes[d]
        BY DEF IInv, DiffedAgainstCredit, Diffed, CountedOnce, Sound
  <2> QED BY <2>1
<1> QED BY <1>1, <1>2, <1>3 DEF ReadActive, IInv, Types, gui, Sound, Diffed, RingIsClosed, Live,
    DiffedAgainstCredit, UnseenIsZero, NewIsNotActive, CountedOnce

LEMMA AccountKeeps == ASSUME IInv, Account PROVE IInv'
<1>1. InRing' = InRing BY DEF Account, InRing
<1>2. \A d \in Conns :
        /\ lastBytes[d] \in Nat /\ bytes[d] \in Nat /\ credited[d] \in Nat /\ active.at[d] \in Nat
        /\ CreditLive(d) \in Nat /\ CreditClosed(d, InRing) \in Nat
      BY DEF IInv, Types, CreditLive, CreditClosed, Grown
<1>3. /\ \A d \in Conns : credited'[d] = credited[d] + CreditLive(d) + CreditClosed(d, InRing)
      /\ \A d \in Conns : lastBytes'[d] = IF d \in active.set THEN active.at[d] ELSE 0
      /\ accounted' = InRing
      BY DEF Account, Update
<1>4. InRing \subseteq Conns BY DEF IInv, Types, InRing, ToSet
<1>5. Types'
  <2>1. credited' \in [Conns -> Nat] BY <1>2 DEF Account, Update
  <2>2. lastBytes' \in [Conns -> Nat] BY <1>2 DEF Account, Update
  <2> QED BY <2>1, <2>2, <1>3, <1>4 DEF Account, IInv, Types, Zero
<1>6. ASSUME NEW d \in Sound PROVE /\ credited'[d] <= bytes[d]
                                   /\ conn[d] \in {"new", "open"} => credited'[d] = lastBytes'[d]
  <2> d \in Conns BY DEF Sound
  <2>1. credited[d] <= bytes[d] BY DEF IInv, CountedOnce, Sound
  <2>2. CASE d \in active.set
    <3>1. conn[d] = "open" /\ lastBytes[d] <= active.at[d] /\ active.at[d] <= bytes[d]
          BY <2>2 DEF IInv, AnswerIsCurrent, Account
    <3>2. credited[d] = lastBytes[d] BY <3>1 DEF IInv, DiffedAgainstCredit, Diffed
    <3>3. d \notin InRing BY <3>1 DEF IInv, RingIsClosed
    <3>4. CreditClosed(d, InRing) = 0 BY <3>3 DEF CreditClosed
    <3>5. CreditLive(d) = active.at[d] - lastBytes[d] BY <2>2, <3>1, <1>2 DEF CreditLive, Grown
    <3> QED BY <3>1, <3>2, <3>4, <3>5, <2>2, <1>2, <1>3
  <2>3. CASE d \notin active.set /\ d \in InRing \ accounted
    <3>1. credited[d] = lastBytes[d] BY <2>3 DEF IInv, DiffedAgainstCredit, Diffed
    <3>2. CreditLive(d) = 0 BY <2>3 DEF CreditLive
    <3>3. CreditClosed(d, InRing) = bytes[d] - lastBytes[d]
          BY <2>3, <3>1, <2>1, <1>2 DEF CreditClosed, Grown
    <3>4. conn[d] = "closed" BY <2>3 DEF IInv, RingIsClosed
    <3> QED BY <3>1, <3>2, <3>3, <3>4, <1>2, <1>3
  <2>4. CASE d \notin active.set /\ d \notin InRing \ accounted
    <3>1. credited'[d] = credited[d] BY <2>4, <1>2, <1>3 DEF CreditLive, CreditClosed
    <3>2. ASSUME conn[d] \in {"new", "open"} PROVE credited[d] = lastBytes'[d]
      <4>1. credited[d] = lastBytes[d] BY <3>2 DEF IInv, DiffedAgainstCredit, Diffed
      <4>2. lastBytes[d] = 0 BY <3>2, <2>4 DEF IInv, UnseenIsZero, Account
      <4> QED BY <4>1, <4>2, <2>4, <1>3
    <3> QED BY <3>1, <3>2, <2>1
  <2> QED BY <2>2, <2>3, <2>4
<1>7. UnseenIsZero'
  <2> SUFFICES ASSUME NEW d \in Sound, conn[d] = "new" PROVE lastBytes'[d] = 0
      BY DEF Account, UnseenIsZero, Sound
  <2> QED BY <1>3 DEF IInv, NewIsNotActive, Sound
<1>8. RingIsClosed' BY <1>1, <1>3 DEF Account, IInv, RingIsClosed
<1>9. DiffedAgainstCredit' /\ CountedOnce'
      BY <1>1, <1>3, <1>6 DEF Account, DiffedAgainstCredit, Diffed, CountedOnce, Sound
<1> QED BY <1>5, <1>7, <1>8, <1>9 DEF Account, IInv, AnswerIsCurrent, NewIsNotActive

LEMMA IgnoreKeeps == ASSUME IInv, Ignore PROVE IInv'
<1>1. InRing' = InRing BY DEF Ignore, InRing
<1>2. Types' BY DEF Ignore, IInv, Types, gui, Zero
<1> QED BY <1>1, <1>2 DEF Ignore, IInv, gui, Sound, Diffed, RingIsClosed, DiffedAgainstCredit,
    AnswerIsCurrent, UnseenIsZero, NewIsNotActive, CountedOnce

LEMMA PollFailsKeeps == ASSUME IInv, PollFails PROVE IInv'
<1>1. InRing' = InRing BY DEF PollFails, InRing
<1>2. Types' BY DEF PollFails, IInv, Types, Zero, Live, InRing, ToSet
<1>3. Sound' \subseteq Sound /\ \A d \in Sound' : conn[d] # "open" /\ d \notin InRing
      BY DEF PollFails, Sound, Live
<1>4. \A d \in Conns : lastBytes'[d] = 0 BY DEF PollFails, Zero
<1>5. DiffedAgainstCredit' BY <1>1, <1>3, <1>4 DEF PollFails, IInv, Types, DiffedAgainstCredit, Diffed, UnseenIsZero, Sound
<1> QED BY <1>1, <1>2, <1>3, <1>4, <1>5 DEF PollFails, IInv, Types, Sound, RingIsClosed,
    AnswerIsCurrent, UnseenIsZero, NewIsNotActive, CountedOnce

LEMMA StutterKeeps == ASSUME IInv, UNCHANGED connVars PROVE IInv'
BY DEF connVars, IInv, Types, InRing, Sound, Diffed, RingIsClosed, DiffedAgainstCredit,
    AnswerIsCurrent, UnseenIsZero, NewIsNotActive, CountedOnce

(* The strengthening holds in every reachable state. *)
THEOREM Invariance == ConnSpec => []IInv
<1>1. ASSUME IInv, [ConnNext]_connVars PROVE IInv'
  <2>1. ASSUME NEW c \in Conns, Open(c) PROVE IInv' BY <1>1, <2>1, OpenKeeps
  <2>2. ASSUME NEW c \in Conns, Transfer(c) PROVE IInv' BY <1>1, <2>2, TransferKeeps
  <2>3. ASSUME NEW c \in Conns, Close(c) PROVE IInv' BY <1>1, <2>3, CloseKeeps
  <2>4. CASE StopBox BY <1>1, <2>4, StopBoxKeeps
  <2>5. CASE ReadActive BY <1>1, <2>5, ReadActiveKeeps
  <2>6. CASE Account BY <1>1, <2>6, AccountKeeps
  <2>7. CASE Ignore BY <1>1, <2>7, IgnoreKeeps
  <2>8. CASE PollFails BY <1>1, <2>8, PollFailsKeeps
  <2>9. CASE UNCHANGED connVars BY <1>1, <2>9, StutterKeeps
  <2> QED BY <1>1, <2>1, <2>2, <2>3, <2>4, <2>5, <2>6, <2>7, <2>8, <2>9 DEF ConnNext
<1> QED BY Initially, <1>1, PTL DEF ConnSpec

(* ConnectionLister::update credits no byte of a connection twice, except  *)
(* for the connections that closed between the two reads of a poll or were *)
(* known when a poll failed.                                               *)
THEOREM NothingTwice == ConnSpec => []CountedOnce
<1>1. IInv => CountedOnce BY DEF IInv
<1> QED BY Invariance, <1>1, PTL
-----------------------------------------------------------------------------
(* The counter a connection is diffed against was credited, whatever polls *)
(* failed and whenever the connection closed.                              *)
SeenIsCredited == \A c \in Conns : lastBytes[c] <= credited[c]

(* A poll credits at least the difference of what it sees.                 *)
LEMMA CreditReaches ==
    ASSUME Types, SeenIsCredited, Account, NEW c \in Conns
    PROVE  /\ credited'[c] >= credited[c]
           /\ lastBytes'[c] <= credited'[c]
           /\ c \in InRing \ accounted => credited'[c] >= bytes[c]
<1>1. /\ credited[c] \in Nat /\ lastBytes[c] \in Nat /\ bytes[c] \in Nat /\ active.at[c] \in Nat
      /\ lastBytes[c] <= credited[c]
      BY DEF Types, SeenIsCredited
<1>2. credited'[c] = credited[c] + CreditLive(c) + CreditClosed(c, InRing) BY DEF Account, Update
<1>3. CreditLive(c) \in Nat /\ CreditClosed(c, InRing) \in Nat
      BY <1>1 DEF CreditLive, CreditClosed, Grown
<1>4. ASSUME c \in active.set PROVE lastBytes[c] + CreditLive(c) >= active.at[c]
      BY <1>1, <1>4 DEF CreditLive, Grown
<1>5. ASSUME c \in InRing \ accounted PROVE lastBytes[c] + CreditClosed(c, InRing) >= bytes[c]
      BY <1>1, <1>5 DEF CreditClosed, Grown
<1>6. lastBytes'[c] = IF c \in active.set THEN active.at[c] ELSE 0 BY DEF Account, Update
<1> QED BY <1>1, <1>2, <1>3, <1>4, <1>5, <1>6

(* Every step keeps the two, action by action.                             *)
LEMMA TailsKeep ==
    ASSUME IInv, IInv', SeenIsCredited, TailIsCounted, [ConnNext]_connVars
    PROVE  SeenIsCredited' /\ TailIsCounted'
<1> USE DEF gui
<1>0. Types /\ Types' /\ accounted \subseteq Conns /\ RingIsClosed BY DEF IInv, Types
<1>1. ASSUME UNCHANGED <<bytes, lastBytes, accounted, credited>> PROVE SeenIsCredited' /\ TailIsCounted'
  BY <1>1 DEF SeenIsCredited, TailIsCounted
<1>2. ASSUME NEW c \in Conns, Open(c) \/ Close(c) PROVE SeenIsCredited' /\ TailIsCounted'
  BY <1>1, <1>2 DEF Open, Close
<1>3. ASSUME NEW c \in Conns, Transfer(c) PROVE SeenIsCredited' /\ TailIsCounted'
  <2>1. c \notin accounted BY <1>0, <1>3 DEF Transfer, RingIsClosed
  <2>2. \A d \in Conns \ {c} : bytes'[d] = bytes[d] BY <1>0, <1>3 DEF Transfer, Types
  <2> QED BY <1>0, <1>3, <2>1, <2>2 DEF Transfer, SeenIsCredited, TailIsCounted
<1>4. CASE StopBox \/ ReadActive \/ Ignore BY <1>1, <1>4 DEF StopBox, ReadActive, Ignore
<1>5. CASE Account
  <2>1. SeenIsCredited' BY <1>0, <1>5, CreditReaches DEF SeenIsCredited
  <2>2. accounted' = InRing /\ bytes' = bytes /\ InRing \subseteq Conns
        BY <1>0, <1>5 DEF Account, Update, Types, InRing, ToSet
  <2>3. ASSUME NEW c \in InRing PROVE credited'[c] >= bytes[c]
    <3>1. c \in Conns /\ bytes[c] \in Nat /\ credited[c] \in Nat /\ credited'[c] \in Nat
          BY <1>0, <2>2 DEF Types
    <3>2. CASE c \in accounted
      <4>1. credited[c] >= bytes[c] BY <3>2 DEF TailIsCounted
      <4>2. credited'[c] >= credited[c] BY <1>0, <1>5, <3>1, CreditReaches
      <4> QED BY <3>1, <4>1, <4>2
    <3>3. CASE c \notin accounted BY <1>0, <1>5, <3>1, <3>3, CreditReaches
    <3> QED BY <3>2, <3>3
  <2>4. TailIsCounted' BY <2>2, <2>3 DEF TailIsCounted
  <2> QED BY <2>1, <2>4
<1>6. CASE PollFails
  <2>1. credited' = credited /\ accounted' = {} /\ \A c \in Conns : lastBytes'[c] = 0
        BY <1>6 DEF PollFails, Zero
  <2>2. \A c \in Conns : credited[c] \in Nat BY <1>0 DEF Types
  <2> QED BY <2>1, <2>2 DEF SeenIsCredited, TailIsCounted
<1>7. CASE UNCHANGED connVars BY <1>1, <1>7 DEF connVars
<1> QED BY <1>2, <1>3, <1>4, <1>5, <1>6, <1>7 DEF ConnNext

(* The tail of a connection is not lost: once a poll found it in the ring, *)
(* all it ever transferred is credited; no case is excepted.               *)
THEOREM TailsAreCounted == ConnSpec => []TailIsCounted
<1>1. ConnInit => SeenIsCredited /\ TailIsCounted
  BY DEF ConnInit, Zero, SeenIsCredited, TailIsCounted
<1>2. IInv /\ IInv' /\ SeenIsCredited /\ TailIsCounted /\ [ConnNext]_connVars => SeenIsCredited' /\ TailIsCounted'
  BY TailsKeep
<1> QED BY Invariance, <1>1, <1>2, PTL DEF ConnSpec
=============================================================================
