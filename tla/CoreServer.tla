----------------------------- MODULE CoreServer -----------------------------
(***************************************************************************)
(* The core process as the IPC dispatcher drives it: the Start and Stop    *)
(* handlers of src/core/server/server.go and the extra process they own    *)
(* (src/core/server/internal/process/process.go).                          *)
(*                                                                         *)
(* Handlers run in goroutines of their own (dispatch.go) and share the     *)
(* package's globals without a lock, so each access of a global that       *)
(* another handler may interleave with is a step.  With one handler the    *)
(* model is the core serving one call at a time.                           *)
(***************************************************************************)
EXTENDS Naturals, FiniteSets

CONSTANTS Handlers,           \* goroutines that serve Start or Stop
          MaxObj,             \* bound: boxes, Xray instances and extra processes made
          Darwin              \* runtime.GOOS == "darwin"

ASSUME ServerAssumption == MaxObj \in Nat \ {0} /\ Darwin \in BOOLEAN

Objs == 1 .. MaxObj
None == 0

VARIABLES
  box, extra, xray,   \* boxInstance, extraProcess, xrayInstance: a number or None
  needUnsetDNS,       \* the DNS of the system is to be restored on Stop
  pc,                 \* where each handler is
  cfg,                \* the Start request of each handler
  target,             \* the box each Stop is closing
  made,               \* how many of each kind were created
  liveBox, liveXray,  \* the instances that are started and not closed
  child,              \* the child of each extra process
  stopped,            \* Process.stopped
  conf,               \* the temp config of each extra process is on disk
  waiter,             \* the goroutine that waits for each child
  announced,          \* children reported as "exited unexpectedly"
  sysDNS,             \* the DNS of the system points into the tunnel
  leaky               \* a Start failed in a way that abandons what runs (history)

globals == <<box, extra, xray, needUnsetDNS>>
handler == <<pc, cfg, target>>
proc    == <<child, stopped, conf, waiter, announced>>
vars == <<globals, handler, made, liveBox, liveXray, proc, sysDNS, leaky>>

Request == [extra : BOOLEAN, xray : BOOLEAN, tun : BOOLEAN]
NoRequest == [extra |-> FALSE, xray |-> FALSE, tun |-> FALSE]

TypeOK ==
    /\ {box, extra, xray} \subseteq Objs \cup {None}
    /\ needUnsetDNS \in BOOLEAN
    /\ pc \in [Handlers -> {"idle", "check", "newExtra", "runExtra", "newXray",
                            "runXray", "newBox", "undo", "dns", "fail",
                            "stop", "closing", "release"}]
    /\ cfg \in [Handlers -> Request]
    /\ target \in [Handlers -> Objs \cup {None}]
    /\ made \in [box : 0 .. MaxObj, xray : 0 .. MaxObj, extra : 0 .. MaxObj]
    /\ liveBox \subseteq Objs /\ liveXray \subseteq Objs
    /\ child \in [Objs -> {"none", "running", "exited"}]
    /\ stopped \in [Objs -> BOOLEAN]
    /\ conf \in [Objs -> BOOLEAN]
    /\ waiter \in [Objs -> {"none", "waiting", "woken", "done"}]
    /\ announced \subseteq Objs
    /\ sysDNS \in BOOLEAN /\ leaky \in BOOLEAN

Init ==
    /\ box = None /\ extra = None /\ xray = None /\ needUnsetDNS = FALSE
    /\ pc = [h \in Handlers |-> "idle"]
    /\ cfg = [h \in Handlers |-> NoRequest]
    /\ target = [h \in Handlers |-> None]
    /\ made = [box |-> 0, xray |-> 0, extra |-> 0]
    /\ liveBox = {} /\ liveXray = {}
    /\ child = [e \in Objs |-> "none"]
    /\ stopped = [e \in Objs |-> FALSE]
    /\ conf = [e \in Objs |-> FALSE]
    /\ waiter = [e \in Objs |-> "none"]
    /\ announced = {}
    /\ sysDNS = FALSE /\ leaky = FALSE

Goto(h, l) == pc' = [pc EXCEPT ![h] = l] /\ UNCHANGED cfg

(* Start is over: its request is of no further use. *)
Return(h) ==
    /\ pc' = [pc EXCEPT ![h] = "idle"]
    /\ cfg' = [cfg EXCEPT ![h] = NoRequest]

-----------------------------------------------------------------------------

(* Process.Stop: mark, kill, remove the config.  Kill ends a running child. *)
StopChild(e) ==
    /\ stopped' = [stopped EXCEPT ![e] = TRUE]
    /\ child' = IF child[e] = "running" THEN [child EXCEPT ![e] = "exited"] ELSE child
    /\ conf' = [conf EXCEPT ![e] = FALSE]
    /\ UNCHANGED <<waiter, announced>>

(* Slip: the Xray core is forgotten, not closed. *)
ReleaseExtraOnly ==
    /\ IF extra = None THEN UNCHANGED proc ELSE StopChild(extra)
    /\ extra' = None /\ xray' = None
    /\ UNCHANGED liveXray

(* if extraProcess != nil {...}; if xrayInstance != nil {...} *)
ReleaseHelpers ==
    /\ IF extra = None THEN UNCHANGED proc ELSE StopChild(extra)
    /\ extra' = None
    /\ liveXray' = liveXray \ {xray}
    /\ xray' = None

-----------------------------------------------------------------------------
(* Start *)

Start(h) ==
    /\ pc[h] = "idle"
    /\ \E r \in Request : cfg' = [cfg EXCEPT ![h] = r]
    /\ pc' = [pc EXCEPT ![h] = "check"]
    /\ UNCHANGED <<globals, target, made, liveBox, liveXray, proc, sysDNS, leaky>>

(* "instance already started" *)
CheckStarted(h) ==
    /\ pc[h] = "check"
    /\ Goto(h, IF box # None THEN "fail" ELSE "newExtra")
    /\ leaky' = (leaky \/ box # None)
    /\ UNCHANGED <<globals, target, made, liveBox, liveXray, proc, sysDNS>>

SkipExtra(h) ==
    /\ pc[h] = "newExtra" /\ ~cfg[h].extra
    /\ Goto(h, "newXray")
    /\ UNCHANGED <<globals, target, made, liveBox, liveXray, proc, sysDNS, leaky>>

(* The arguments do not parse, or the config cannot be created. *)
RefuseExtra(h) ==
    /\ pc[h] = "newExtra" /\ cfg[h].extra
    /\ Goto(h, "fail")
    /\ UNCHANGED <<globals, target, made, liveBox, liveXray, proc, sysDNS, leaky>>

(* CreateExtraConfig (when the request carries a config) and NewProcess:    *)
(* the global is replaced whatever it held.                                 *)
NewExtra(h) ==
    /\ pc[h] = "newExtra" /\ cfg[h].extra /\ made.extra < MaxObj
    /\ made' = [made EXCEPT !.extra = @ + 1]
    /\ extra' = made'.extra
    /\ \E c \in BOOLEAN : conf' = [conf EXCEPT ![made'.extra] = c]
    /\ Goto(h, "runExtra")
    /\ UNCHANGED <<box, xray, needUnsetDNS, target, liveBox, liveXray, child,
                   stopped, waiter, announced, sysDNS, leaky>>

(* Slip: a failed launch leaves the config behind. *)
RunExtraNoCleanup(h) ==
    /\ pc[h] = "runExtra" /\ extra # None
    /\ \/ /\ child' = [child EXCEPT ![extra] = "running"]
          /\ stopped' = [stopped EXCEPT ![extra] = FALSE]
          /\ waiter' = [waiter EXCEPT ![extra] = "waiting"]
          /\ Goto(h, "newXray")
       \/ Goto(h, "fail") /\ UNCHANGED <<child, stopped, waiter>>
    /\ UNCHANGED <<globals, target, made, liveBox, liveXray, conf, announced,
                   sysDNS, leaky>>

(* Process.Start on whatever extraProcess holds by now. *)
RunExtra(h) ==
    /\ pc[h] = "runExtra" /\ extra # None
    /\ \/ /\ child' = [child EXCEPT ![extra] = "running"]
          /\ stopped' = [stopped EXCEPT ![extra] = FALSE]
          /\ waiter' = [waiter EXCEPT ![extra] = "waiting"]
          /\ Goto(h, "newXray")
          /\ UNCHANGED conf
       \/ /\ conf' = [conf EXCEPT ![extra] = FALSE]
          /\ Goto(h, "fail")
          /\ UNCHANGED <<child, stopped, waiter>>
    /\ UNCHANGED <<globals, target, made, liveBox, liveXray, announced,
                   sysDNS, leaky>>

SkipXray(h) ==
    /\ pc[h] = "newXray" /\ ~cfg[h].xray
    /\ Goto(h, "newBox")
    /\ UNCHANGED <<globals, target, made, liveBox, liveXray, proc, sysDNS, leaky>>

(* CreateXrayInstance assigns the global, nil on error.  An error returns   *)
(* without stopping the extra process.                                      *)
NewXray(h) ==
    /\ pc[h] = "newXray" /\ cfg[h].xray
    /\ \/ /\ made.xray < MaxObj
          /\ made' = [made EXCEPT !.xray = @ + 1]
          /\ xray' = made'.xray
          /\ Goto(h, "runXray")
          /\ UNCHANGED leaky
       \/ /\ xray' = None
          /\ Goto(h, "fail")
          /\ leaky' = (leaky \/ cfg[h].extra)
          /\ UNCHANGED made
    /\ UNCHANGED <<box, extra, needUnsetDNS, target, liveBox, liveXray, proc, sysDNS>>

RunXray(h) ==
    /\ pc[h] = "runXray" /\ xray # None
    /\ \/ /\ liveXray' = liveXray \cup {xray}
          /\ Goto(h, "newBox")
          /\ UNCHANGED <<xray, leaky>>
       \/ /\ xray' = None
          /\ Goto(h, "fail")
          /\ leaky' = (leaky \/ cfg[h].extra)
          /\ UNCHANGED liveXray
    /\ UNCHANGED <<box, extra, needUnsetDNS, target, made, liveBox, proc, sysDNS>>

(* boxmain.Create parses, builds and starts the box and returns it only     *)
(* when all of that worked.                                                 *)
NewBox(h) ==
    /\ pc[h] = "newBox"
    /\ \/ /\ made.box < MaxObj
          /\ made' = [made EXCEPT !.box = @ + 1]
          /\ box' = made'.box
          /\ liveBox' = liveBox \cup {box'}
          /\ Goto(h, "dns")
       \/ /\ box' = None
          /\ Goto(h, "undo")
          /\ UNCHANGED <<made, liveBox>>
    /\ UNCHANGED <<extra, xray, needUnsetDNS, target, liveXray, proc, sysDNS, leaky>>

UndoHelpers(h) ==
    /\ pc[h] = "undo"
    /\ ReleaseHelpers
    /\ Goto(h, "fail")
    /\ UNCHANGED <<box, needUnsetDNS, target, made, liveBox, sysDNS, leaky>>

(* On macOS with a tunnel the DNS of the system is pointed into it; an      *)
(* address that does not parse stops everything again (stopAllCores).       *)
SetDNS(h) ==
    /\ pc[h] = "dns"
    /\ IF Darwin /\ cfg[h].tun
       THEN \/ /\ needUnsetDNS' = TRUE
               /\ sysDNS' \in {sysDNS, TRUE}
               /\ Return(h)
               /\ UNCHANGED <<box, extra, xray, liveBox, liveXray, proc>>
            \/ /\ liveBox' = liveBox \ {box}
               /\ box' = None
               /\ ReleaseHelpers
               /\ Goto(h, "fail")
               /\ UNCHANGED <<needUnsetDNS, sysDNS>>
       ELSE Return(h) /\ UNCHANGED <<globals, liveBox, liveXray, proc, sysDNS>>
    /\ UNCHANGED <<target, made, leaky>>

(* The deferred function: every error clears the global. *)
FailStart(h) ==
    /\ pc[h] = "fail"
    /\ box' = None
    /\ Return(h)
    /\ UNCHANGED <<extra, xray, needUnsetDNS, target, made, liveBox, liveXray,
                   proc, sysDNS, leaky>>

-----------------------------------------------------------------------------
(* Stop *)

Stop(h) ==
    /\ pc[h] = "idle"
    /\ Goto(h, "stop")
    /\ UNCHANGED <<globals, target, made, liveBox, liveXray, proc, sysDNS, leaky>>

StopNothing(h) ==
    /\ pc[h] = "stop" /\ box = None
    /\ Goto(h, "idle")
    /\ UNCHANGED <<globals, target, made, liveBox, liveXray, proc, sysDNS, leaky>>

(* Restoring the DNS is tried once. *)
BeginClose(h) ==
    /\ pc[h] = "stop" /\ box # None
    /\ target' = [target EXCEPT ![h] = box]
    /\ needUnsetDNS' = FALSE
    /\ sysDNS' = IF needUnsetDNS THEN FALSE ELSE sysDNS
    /\ Goto(h, "closing")
    /\ UNCHANGED <<box, extra, xray, made, liveBox, liveXray, proc, leaky>>

(* CloseWithTimeout with block set returns when the box is closed. *)
CloseBox(h) ==
    /\ pc[h] = "closing"
    /\ liveBox' = liveBox \ {target[h]}
    /\ target' = [target EXCEPT ![h] = None]
    /\ Goto(h, "release")
    /\ UNCHANGED <<globals, made, liveXray, proc, sysDNS, leaky>>

FinishStop(h) ==
    /\ pc[h] = "release"
    /\ box' = None
    /\ ReleaseHelpers
    /\ Goto(h, "idle")
    /\ UNCHANGED <<needUnsetDNS, target, made, liveBox, sysDNS, leaky>>

-----------------------------------------------------------------------------
(* The extra process and the goroutine that waits for it. *)

ChildExits(e) ==
    /\ child[e] = "running"
    /\ child' = [child EXCEPT ![e] = "exited"]
    /\ UNCHANGED <<globals, handler, made, liveBox, liveXray, stopped, conf, waiter,
                   announced, sysDNS, leaky>>

WaitReturns(e) ==
    /\ waiter[e] = "waiting" /\ child[e] = "exited"
    /\ waiter' = [waiter EXCEPT ![e] = "woken"]
    /\ announced' = IF stopped[e] THEN announced ELSE announced \cup {e}
    /\ UNCHANGED <<globals, handler, made, liveBox, liveXray, child, stopped, conf,
                   sysDNS, leaky>>

(* Slip: the waiter does not remove the config. *)
WaiterForgets(e) ==
    /\ waiter[e] = "woken"
    /\ waiter' = [waiter EXCEPT ![e] = "done"]
    /\ UNCHANGED <<globals, handler, made, liveBox, liveXray, child, stopped, conf,
                   announced, sysDNS, leaky>>

WaiterCleans(e) ==
    /\ waiter[e] = "woken"
    /\ waiter' = [waiter EXCEPT ![e] = "done"]
    /\ conf' = [conf EXCEPT ![e] = FALSE]
    /\ UNCHANGED <<globals, handler, made, liveBox, liveXray, child, stopped,
                   announced, sysDNS, leaky>>

StartStep(h) == CheckStarted(h) \/ SkipExtra(h) \/ RefuseExtra(h) \/ NewExtra(h)
                \/ RunExtra(h) \/ SkipXray(h) \/ NewXray(h) \/ RunXray(h)
                \/ NewBox(h) \/ UndoHelpers(h) \/ SetDNS(h) \/ FailStart(h)

StopStep(h) == StopNothing(h) \/ BeginClose(h) \/ CloseBox(h) \/ FinishStop(h)

Next ==
    \/ \E h \in Handlers : Start(h) \/ Stop(h) \/ StartStep(h) \/ StopStep(h)
    \/ \E e \in Objs : ChildExits(e) \/ WaitReturns(e) \/ WaiterCleans(e)

(* Goroutines run; a child need not exit, and nobody need call. *)
Fairness ==
    /\ \A h \in Handlers : WF_vars(StartStep(h) \/ StopStep(h))
    /\ \A e \in Objs : WF_vars(WaitReturns(e) \/ WaiterCleans(e))

Spec == Init /\ [][Next]_vars /\ Fairness

-----------------------------------------------------------------------------
Quiet == \A h \in Handlers : pc[h] = "idle"

(* "removed (recursively) when the process is stopped, exits, or fails to   *)
(* start" (SetCleanupPath): the temp config is on disk only before the      *)
(* launch, while the child runs, and until its waiter has run.              *)
ConfigIsBound ==
    \A e \in Objs : conf[e] =>
        \/ child[e] = "running"
        \/ child[e] = "exited" /\ waiter[e] \in {"waiting", "woken"}
        \/ child[e] = "none" /\ \E h \in Handlers : pc[h] = "runExtra"

(* With no call in progress and no instance, nothing that a Start launched  *)
(* is left: no box, no Xray core, no extra process, no DNS override.  Two   *)
(* failures of Start are excepted (leaky): "already started", and an Xray   *)
(* core that does not come up after the extra process did.                  *)
NothingLeftRunning ==
    Quiet /\ box = None /\ ~leaky =>
        /\ liveBox = {} /\ liveXray = {}
        /\ \A e \in Objs : child[e] # "running"
        /\ ~sysDNS

(* The config of an extra process does not outlive the process for ever.    *)
ConfigGoes == \A e \in Objs : child[e] = "exited" ~> ~conf[e]
=============================================================================
