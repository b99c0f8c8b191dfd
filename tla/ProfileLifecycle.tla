-------------------------- MODULE ProfileLifecycle --------------------------
(***************************************************************************)
(* How the GUI starts and stops a profile and survives the exit of its     *)
(* core process: MainWindow::profile_start and profile_stop                *)
(* (src/src/ui/mainwindow_rpc.cpp), CoreProcess (src/src/sys/Process.cpp), *)
(* the hand-over of a new core connection and the exit of the program      *)
(* (src/src/ui/mainwindow.cpp).                                            *)
(*                                                                         *)
(* Four kinds of thread share the state: the UI thread, a starter thread   *)
(* (at most one, under mu_starting), a stopper thread (at most one, under  *)
(* mu_stopping) and DS_cores, on which the core process is handled.  A     *)
(* blocking stop waits in a nested event loop, so the UI thread and        *)
(* DS_cores go on handling other events meanwhile.  spmode_system_proxy is *)
(* on, and a call on the IPC channel is one step: RpcChannel shows that it *)
(* returns, with its own answer or an error.                               *)
(***************************************************************************)
EXTENDS Naturals, Sequences, SequencesExt

CONSTANTS Profiles,
          None,        \* no profile: nullptr, -1 or -1919
          MaxUser,     \* bound: clicks of the user
          MaxCrash,    \* bound: exits of the core and failed launches
          MaxExit      \* bound: requests to exit the program

ASSUME LifecycleAssumption ==
    /\ None \notin Profiles
    /\ {MaxUser, MaxCrash, MaxExit} \subseteq Nat

VARIABLES
  proc,          \* the core process
  notice,        \* it exited and DS_cores has not handled that yet
  box,           \* the profile the core runs
  coreRunning,   \* settingsRepo->core_running
  failed,        \* CoreProcess.failed_to_start
  clock,         \* CoreProcess.coreRestartTimer
  whenUp,        \* CoreProcess.start_profile_when_core_is_up
  restartTimer,  \* a setTimeout(Restart, 200) is armed
  tasks,         \* closures queued on DS_cores
  ds,            \* the frames of DS_cores, the innermost last
  muStarting, muStopping,
  running, startedId, connecting, disconnecting, sysProxy,
  starter, stopper,
  ending,        \* starter threads that released mu_starting and still run
  posted,        \* closures queued on the UI thread
  ui,            \* where the UI thread is in profile_start
  exit,          \* prepare_exit
  fault,         \* the program crashed, or its UI thread blocks for ever
  clicks, crashes, exits,               \* history: counters for the bounds
  wanted, gaveUp, unsure, careless      \* history, see "history" below

core    == <<proc, notice, box>>
process == <<coreRunning, failed, clock, whenUp, restartTimer, tasks, ds>>
mutexes == <<muStarting, muStopping>>
shown   == <<running, startedId, connecting, disconnecting, sysProxy>>
threads == <<starter, stopper, ending, posted, ui, exit, fault>>
bounds  == <<clicks, crashes, exits>>
history == <<wanted,     \* the profile last started and not stopped by hand
             gaveUp,     \* the core exited too often and was left down
             unsure,     \* a Start or Stop call failed, maybe after its effect, or
                         \* the stop for an exited core met its successor
             careless>>  \* the system proxy was left on, see ProxyNeedsProfile
vars == <<core, process, mutexes, shown, threads, bounds, history>>

Maybe == Profiles \cup {None}

Task == [op : {"start", "kill", "reset"}, ent : Maybe]
DsFrame == [op : {"exited", "reset"}, pc : {"check", "lock", "blocked", "woken", "after"}]
StarterState == [pc : {"idle", "check", "recheck", "lock", "join", "joined", "call",
                       "setId", "setRunning", "setProxy", "unlock"},
                 ent : Maybe]
StopperState == [pc : {"idle", "account", "call", "setId", "setRunning", "finish"},
                 crash : BOOLEAN, manual : BOOLEAN]

CoreTypes ==
    /\ proc \in {"down", "launched", "connected"} /\ box \in Maybe
    /\ notice \in BOOLEAN /\ coreRunning \in BOOLEAN /\ failed \in BOOLEAN
    /\ clock \in {"invalid", "started"} /\ whenUp \in Maybe /\ restartTimer \in BOOLEAN
    /\ tasks \in Seq(Task) /\ ds \in Seq(DsFrame)

ShownTypes ==
    /\ running \in Maybe /\ startedId \in Maybe
    /\ connecting \in BOOLEAN /\ disconnecting \in BOOLEAN /\ sysProxy \in BOOLEAN
    /\ posted \in Seq({"spinner", "clear", "finish"})

ThreadTypes ==
    /\ muStarting \in BOOLEAN
    /\ muStopping \in {"free", "ui", "starter", "stopper"}
    /\ starter \in StarterState /\ stopper \in StopperState
    /\ ui \in [pc : {"loop", "start", "probe"}, ent : Maybe]
    /\ ending \in Nat
    /\ exit \in {"no", "stopping", "kill", "killing", "done"}
    /\ fault \in {"none", "crashed", "frozen"}

HistoryTypes ==
    /\ clicks \in 0 .. MaxUser /\ crashes \in 0 .. MaxCrash /\ exits \in 0 .. MaxExit
    /\ wanted \in Maybe
    /\ gaveUp \in BOOLEAN /\ unsure \in BOOLEAN /\ careless \in BOOLEAN

TypeOK == CoreTypes /\ ShownTypes /\ ThreadTypes /\ HistoryTypes

Starter(pc, ent) == [pc |-> pc, ent |-> ent]
Stopper(pc, crash, manual) == [pc |-> pc, crash |-> crash, manual |-> manual]

Init ==
    /\ proc = "launched" /\ notice = FALSE /\ box = None
    /\ coreRunning = FALSE /\ failed = FALSE /\ clock = "invalid"
    /\ whenUp \in Maybe                     \* remember_id, if it is enabled
    /\ restartTimer = FALSE /\ tasks = << >> /\ ds = << >>
    /\ muStarting = FALSE /\ muStopping = "free"
    /\ running = None /\ startedId = None
    /\ connecting = FALSE /\ disconnecting = FALSE /\ sysProxy = FALSE
    /\ starter = Starter("idle", None) /\ stopper = Stopper("idle", FALSE, FALSE)
    /\ ending = 0 /\ posted = << >> /\ ui = [pc |-> "loop", ent |-> None]
    /\ exit = "no" /\ fault = "none"
    /\ clicks = 0 /\ crashes = 0 /\ exits = 0
    /\ wanted = None
    /\ gaveUp = FALSE /\ unsure = FALSE /\ careless = FALSE

Alive == fault = "none"
UiFree == Alive /\ ui.pc = "loop"
-----------------------------------------------------------------------------
(* profile_stop.  BeginStop is what follows a successful tryLock: the      *)
(* Disconnecting state is shown at once on the UI thread and posted from   *)
(* another thread, and the stopper thread is started.                      *)
BeginStop(crash, manual, onUi) ==
    /\ muStopping' = "stopper"
    /\ stopper' = Stopper("account", crash, manual)
    /\ IF onUi THEN disconnecting' = TRUE /\ UNCHANGED posted
               ELSE posted' = Append(posted, "spinner") /\ UNCHANGED disconnecting

NoStop == UNCHANGED <<muStopping, stopper, disconnecting, posted>>

(* From the UI thread: mu_stopping is only released there, so the check of *)
(* running and the tryLock are one step.                                   *)
StopFromUi(crash, manual) ==
    IF running # None /\ muStopping = "free"
    THEN BeginStop(crash, manual, TRUE)
    ELSE NoStop

(* The stopper thread: account the traffic, log the name of the running    *)
(* profile (through the pointer, null or not), call Stop unless the core   *)
(* crashed, clear started_id if the user asked for it, clear running.      *)
StopAccounts ==
    /\ Alive /\ stopper.pc = "account"
    /\ IF running = None
       THEN fault' = "crashed" /\ UNCHANGED stopper
       ELSE stopper' = [stopper EXCEPT !.pc = "call"] /\ UNCHANGED fault
    /\ UNCHANGED <<core, process, mutexes, shown, starter, ending, posted, ui, exit, bounds, history>>

StopCallEnds ==
    /\ stopper' = [stopper EXCEPT !.pc = "setId"]
    /\ UNCHANGED <<proc, notice, process, mutexes, running, startedId, connecting,
                   disconnecting, starter, ending, posted, ui, exit, fault, bounds,
                   wanted, gaveUp>>

StopCallFails ==
    /\ Alive /\ stopper.pc = "call" /\ ~stopper.crash     \* refused, lost, timed out
    /\ box' \in IF proc = "connected" THEN {box, None} ELSE {box}
    /\ unsure' = TRUE /\ careless' = TRUE
    /\ UNCHANGED sysProxy
    /\ StopCallEnds

(* Slips: no stop calls the core; the system proxy survives a crash. *)
StopNeverCalls ==
    /\ Alive /\ stopper.pc = "call"
    /\ sysProxy' = FALSE
    /\ UNCHANGED <<box, unsure, careless>>
    /\ StopCallEnds

StopCallKeepsProxy ==
    /\ Alive /\ stopper.pc = "call"
    /\ \/ stopper.crash /\ UNCHANGED <<box, sysProxy>>
       \/ ~stopper.crash /\ coreRunning /\ proc = "connected" /\ box' = None /\ sysProxy' = FALSE
    /\ UNCHANGED <<unsure, careless>>
    /\ StopCallEnds

StopCallOk ==
    /\ Alive /\ stopper.pc = "call"
    /\ \/ stopper.crash /\ UNCHANGED box                \* the core is not called
       \/ ~stopper.crash /\ coreRunning /\ proc = "connected" /\ box' = None
    /\ sysProxy' = FALSE
    /\ UNCHANGED <<unsure, careless>>
    /\ StopCallEnds

(* Slip: started_id is forgotten by every stop. *)
StopForgetsId ==
    /\ Alive /\ stopper.pc = "setId"
    /\ stopper' = [stopper EXCEPT !.pc = "setRunning"]
    /\ startedId' = None
    /\ wanted' = IF stopper.manual THEN None ELSE wanted
    /\ UNCHANGED <<core, process, mutexes, running, connecting, disconnecting, sysProxy,
                   starter, ending, posted, ui, exit, fault, bounds, gaveUp, unsure, careless>>

StopSetsId ==
    /\ Alive /\ stopper.pc = "setId"
    /\ stopper' = [stopper EXCEPT !.pc = "setRunning"]
    /\ IF stopper.manual THEN startedId' = None /\ wanted' = None
                         ELSE UNCHANGED <<startedId, wanted>>
    /\ UNCHANGED <<core, process, mutexes, running, connecting, disconnecting, sysProxy,
                   starter, ending, posted, ui, exit, fault, bounds, gaveUp, unsure, careless>>

StopSetsRunning ==
    /\ Alive /\ stopper.pc = "setRunning"
    /\ stopper' = [stopper EXCEPT !.pc = "finish"]
    /\ running' = None
    /\ posted' = Append(posted, "finish")
    /\ unsure' = (unsure \/ (stopper.crash /\ ~stopper.manual /\ box # None))
    /\ UNCHANGED <<core, process, mutexes, startedId, connecting, disconnecting, sysProxy,
                   starter, ending, ui, exit, fault, bounds, wanted, gaveUp, careless>>

(* The UI thread runs the closures other threads posted.                   *)
WakeDs == ds' = [i \in DOMAIN ds |->
                   IF ds[i].pc = "blocked" THEN [ds[i] EXCEPT !.pc = "woken"] ELSE ds[i]]

(* Slip: mu_stopping is not released. *)
FinishKeepsLock ==
    /\ disconnecting' = FALSE
    /\ stopper' = Stopper("idle", FALSE, FALSE)
    /\ WakeDs
    /\ exit' = IF exit = "stopping" THEN "kill" ELSE exit
    /\ UNCHANGED <<connecting, muStopping>>

FinishStop ==
    /\ disconnecting' = FALSE /\ muStopping' = "free"
    /\ stopper' = Stopper("idle", FALSE, FALSE)
    /\ WakeDs
    /\ exit' = IF exit = "stopping" THEN "kill" ELSE exit
    /\ UNCHANGED connecting

RunPosted ==
    /\ UiFree /\ posted # << >>
    /\ posted' = Tail(posted)
    /\ CASE Head(posted) = "spinner" ->
              /\ disconnecting' = TRUE
              /\ UNCHANGED <<connecting, muStopping, stopper, ds, exit>>
         [] Head(posted) = "clear" ->
              /\ connecting' = FALSE
              /\ UNCHANGED <<disconnecting, muStopping, stopper, ds, exit>>
         [] Head(posted) = "finish" -> FinishStop
    /\ UNCHANGED <<core, coreRunning, failed, clock, whenUp, restartTimer, tasks, muStarting,
                   running, startedId, sysProxy, starter, ending, ui, fault, bounds, history>>
-----------------------------------------------------------------------------
(* profile_start, on the UI thread: refused while another start or stop    *)
(* runs.  Probing mu_stopping holds it for a moment, which the other       *)
(* threads can see.                                                        *)
ProfileStart ==
    /\ Alive /\ ui.pc = "start"
    /\ IF exit # "no" \/ muStarting \/ muStopping # "free"
       THEN /\ ui' = [pc |-> "loop", ent |-> None]
            /\ UNCHANGED mutexes
       ELSE /\ ui' = [ui EXCEPT !.pc = "probe"]
            /\ muStarting' = TRUE /\ muStopping' = "ui"
    /\ UNCHANGED <<core, process, shown, starter, stopper, ending, posted, exit, fault, bounds, history>>

(* With the core down the start is left to the core process; otherwise the *)
(* starter thread begins.                                                  *)
DeferStart ==
    /\ Alive /\ ui.pc = "probe" /\ ~coreRunning
    /\ tasks' = Append(tasks, [op |-> "start", ent |-> ui.ent])
    /\ muStarting' = FALSE /\ muStopping' = "free"
    /\ ui' = [pc |-> "loop", ent |-> None]
    /\ UNCHANGED <<core, coreRunning, failed, clock, whenUp, restartTimer, ds, shown,
                   starter, stopper, ending, posted, exit, fault, bounds, history>>

BeginStart ==
    /\ Alive /\ ui.pc = "probe" /\ coreRunning
    /\ muStopping' = "free"
    /\ connecting' = TRUE
    /\ starter' = Starter("check", ui.ent)
    /\ ui' = [pc |-> "loop", ent |-> None]
    /\ UNCHANGED <<core, process, muStarting, running, startedId, disconnecting, sysProxy,
                   stopper, ending, posted, exit, fault, bounds, history>>

(* The starter thread first stops what runs and waits for whoever stops it *)
(* Slip: it does not wait for the stopper. *)
StartDoesNotJoin ==
    /\ Alive /\ starter.pc = "lock"
    /\ starter' = [starter EXCEPT !.pc = "call"]
    /\ IF muStopping = "free" THEN BeginStop(FALSE, TRUE, FALSE) ELSE NoStop
    /\ UNCHANGED <<core, process, muStarting, running, startedId, connecting, sysProxy, ending, ui,
                   exit, fault, bounds, history>>

StartStops ==
    /\ Alive /\ starter.pc = "lock"
    /\ starter' = [starter EXCEPT !.pc = "join"]
    /\ IF muStopping = "free" THEN BeginStop(FALSE, TRUE, FALSE) ELSE NoStop
    /\ UNCHANGED <<core, process, muStarting, running, startedId, connecting, sysProxy, ending, ui,
                   exit, fault, bounds, history>>

StartChecks ==
    /\ Alive
    /\ \/ /\ starter.pc = "check"
          /\ starter' = [starter EXCEPT !.pc = IF running # None THEN "recheck" ELSE "call"]
       \/ /\ starter.pc = "recheck"          \* in profile_stop
          /\ starter' = [starter EXCEPT !.pc = IF running # None THEN "lock" ELSE "join"]
    /\ UNCHANGED <<core, process, mutexes, shown, stopper, ending, posted, ui, exit, fault,
                   bounds, history>>

StartJoins ==
    /\ Alive
    /\ \/ starter.pc = "join" /\ muStopping = "free"
          /\ muStopping' = "starter" /\ starter' = [starter EXCEPT !.pc = "joined"]
       \/ starter.pc = "joined"
          /\ muStopping' = "free" /\ starter' = [starter EXCEPT !.pc = "call"]
    /\ UNCHANGED <<core, process, muStarting, shown, stopper, ending, posted, ui, exit, fault,
                   bounds, history>>

(* The Start call.  A core that still runs a profile refuses another one.  *)
StartCallOk ==
    /\ Alive /\ starter.pc = "call" /\ coreRunning /\ proc = "connected" /\ box = None
    /\ box' = starter.ent
    /\ starter' = [starter EXCEPT !.pc = "setId"]
    /\ UNCHANGED <<proc, notice, process, mutexes, shown, stopper, ending, posted, ui, exit, fault,
                   bounds, history>>

(* Slip: a failed start leaves the thread without its clean-up. *)
StartFailsSilently ==
    /\ Alive /\ starter.pc = "call"
    /\ starter' = Starter("idle", None)
    /\ muStarting' = FALSE
    /\ UNCHANGED <<core, process, muStopping, shown, stopper, ending, posted, ui, exit, fault,
                   bounds, history>>

StartCallFails ==
    /\ Alive /\ starter.pc = "call"
    /\ starter' = [starter EXCEPT !.pc = "unlock"]
    /\ \/ UNCHANGED <<box, unsure>>         \* refused, or never sent
       \/ /\ proc = "connected"             \* the answer was lost
          /\ box' \in {box, IF box = None THEN starter.ent ELSE box}
          /\ unsure' = TRUE
    /\ UNCHANGED <<proc, notice, process, mutexes, shown, stopper, ending, posted, ui, exit, fault,
                   bounds, wanted, gaveUp, careless>>

StartCommits ==
    /\ Alive
    /\ \/ /\ starter.pc = "setId"
          /\ startedId' = starter.ent
          /\ starter' = [starter EXCEPT !.pc = "setRunning"]
          /\ UNCHANGED <<running, sysProxy, wanted, careless>>
       \/ /\ starter.pc = "setRunning"
          /\ running' = starter.ent /\ wanted' = starter.ent
          /\ starter' = [starter EXCEPT !.pc = "setProxy"]
          /\ UNCHANGED <<startedId, sysProxy, careless>>
       \/ /\ starter.pc = "setProxy"
          /\ sysProxy' = TRUE
          /\ starter' = [starter EXCEPT !.pc = "unlock"]
          /\ careless' = (careless \/ exit # "no" \/ stopper.pc # "idle" \/ running # starter.ent)
          /\ UNCHANGED <<running, startedId, wanted>>
    /\ UNCHANGED <<core, process, mutexes, connecting, disconnecting, stopper, ending, posted, ui,
                   exit, fault, bounds, gaveUp, unsure>>

(* mu_starting is released first; the Connecting state is left later, by a *)
(* closure the ending thread posts to the UI thread.                       *)
StartUnlocks ==
    /\ Alive /\ starter.pc = "unlock"
    /\ muStarting' = FALSE
    /\ starter' = Starter("idle", None)
    /\ ending' = ending + 1
    /\ UNCHANGED <<core, process, muStopping, shown, stopper, posted, ui, exit, fault, bounds, history>>

StartClears ==
    /\ Alive /\ ending > 0
    /\ posted' = Append(posted, "clear")
    /\ ending' = ending - 1
    /\ UNCHANGED <<core, process, mutexes, shown, starter, stopper, ui, exit, fault, bounds, history>>
-----------------------------------------------------------------------------
(* DS_cores.  It takes up an event when it is idle or waits in the nested  *)
(* loop of a blocking stop.                                                *)
Frame(op, pc) == [op |-> op, pc |-> pc]
Top == Last(ds)
SetTop(pc) == [ds EXCEPT ![Len(ds)].pc = pc]
DsFree == Alive /\ (ds # << >> => Top.pc \in {"blocked", "woken"})
At(pc) == Alive /\ ds # << >> /\ Top.pc = pc

(* The process ends by itself; QProcess reports it on DS_cores later.      *)
CoreExits ==
    /\ Alive /\ crashes < MaxCrash /\ proc # "down"
    /\ crashes' = crashes + 1
    /\ proc' = "down" /\ notice' = TRUE /\ box' = None
    /\ UNCHANGED <<process, mutexes, shown, threads, clicks, exits, history>>

(* The stateChanged handler, up to its call of profile_stop(true, true).   *)
Exited(base) ==
    /\ coreRunning' = FALSE /\ notice' = FALSE
    /\ ds' = IF exit # "no" \/ failed THEN base ELSE Append(base, Frame("exited", "check"))

HandleExit ==
    /\ DsFree /\ notice
    /\ Exited(ds)
    /\ UNCHANGED <<proc, box, failed, clock, whenUp, restartTimer, tasks, mutexes, shown,
                   threads, bounds, history>>

(* profile_stop on DS_cores: check, tryLock, wait in a nested loop.        *)
DsStops ==
    /\ \/ /\ At("check")
          /\ ds' = SetTop(IF running # None THEN "lock" ELSE "after")
          /\ NoStop
       \/ /\ At("lock") /\ muStopping = "free"
          /\ ds' = SetTop("blocked")
          /\ BeginStop(TRUE, Top.op = "reset", FALSE)
       \/ /\ At("lock") /\ muStopping # "free"
          /\ ds' = SetTop("after")
          /\ NoStop
       \/ /\ At("woken")
          /\ ds' = SetTop("after")
          /\ NoStop
    /\ UNCHANGED <<core, coreRunning, failed, clock, whenUp, restartTimer, tasks, muStarting,
                   running, startedId, connecting, sysProxy, starter, ending, ui, exit, fault,
                   bounds, history>>

(* The rest of the handler: restart the core with the profile that ran,    *)
(* unless it exits too frequently.                                         *)
(* Slip: with no profile to restart, the core is not restarted either. *)
RestartOnlyForProfile ==
    /\ At("after") /\ Top.op = "exited"
    /\ ds' = Front(ds)
    /\ clock' = "started"
    /\ whenUp' = startedId
    /\ restartTimer' = (startedId # None)
    /\ UNCHANGED <<core, coreRunning, failed, tasks, mutexes, shown, threads, bounds, history>>

ScheduleRestart ==
    /\ At("after") /\ Top.op = "exited"
    /\ ds' = Front(ds)
    /\ clock' = "started"
    /\ whenUp' = startedId
    /\ restartTimer' = TRUE
    /\ UNCHANGED <<core, coreRunning, failed, tasks, mutexes, shown, threads, bounds, history>>

GiveUpRestart ==
    /\ At("after") /\ Top.op = "exited" /\ clock = "started"
    /\ ds' = Front(ds)
    /\ clock' = "invalid"
    /\ gaveUp' = TRUE
    /\ UNCHANGED <<core, coreRunning, failed, whenUp, restartTimer, tasks, mutexes, shown,
                   threads, bounds, wanted, unsure, careless>>

(* CoreProcess::Restart: kill, wait, start; its own kill is no exit.       *)
Restart ==
    /\ coreRunning' = FALSE /\ notice' = FALSE /\ box' = None
    /\ \/ proc' = "launched" /\ UNCHANGED <<failed, crashes>>
       \/ /\ crashes < MaxCrash            \* FailedToStart
          /\ crashes' = crashes + 1
          /\ proc' = "down" /\ failed' = TRUE
    /\ UNCHANGED <<ds, clock, mutexes, shown, threads, clicks, exits>>

RestartFires ==
    /\ DsFree /\ restartTimer
    /\ restartTimer' = FALSE
    /\ Restart
    /\ UNCHANGED <<whenUp, tasks, history>>

RunStartTask ==
    /\ DsFree /\ tasks # << >> /\ Head(tasks).op = "start"
    /\ tasks' = Tail(tasks)
    /\ whenUp' = Head(tasks).ent
    /\ Restart
    /\ UNCHANGED <<restartTimer, wanted, gaveUp, unsure, careless>>

(* CoreProcess::Kill waits for the process, so the exit is handled inside. *)
Kill(base) ==
    /\ box' = None /\ proc' = "down"
    /\ IF proc # "down" \/ notice
       THEN Exited(base)
       ELSE ds' = base /\ UNCHANGED <<coreRunning, notice>>
    /\ UNCHANGED <<failed, clock, whenUp, restartTimer, mutexes, shown, starter, stopper,
                   ending, posted, ui, fault, bounds, history>>

RunKillTask ==
    /\ DsFree /\ tasks # << >> /\ Head(tasks).op = "kill"
    /\ tasks' = Tail(tasks)
    /\ Kill(ds)
    /\ exit' = IF exit = "killing" THEN "done" ELSE exit

RunResetTask ==
    /\ DsFree /\ tasks # << >> /\ Head(tasks).op = "reset"
    /\ tasks' = Tail(tasks)
    /\ ds' = Append(ds, Frame("reset", "check"))
    /\ UNCHANGED <<core, coreRunning, failed, clock, whenUp, restartTimer, mutexes, shown,
                   threads, bounds, history>>

ResetKills ==
    /\ At("after") /\ Top.op = "reset"
    /\ Kill(Front(ds))
    /\ UNCHANGED <<tasks, exit>>
-----------------------------------------------------------------------------
(* A new connection of the launched core: the noted profile is taken and   *)
(* profile_start follows on the UI thread.                                 *)
NewConnection ==
    /\ UiFree /\ proc = "launched"
    /\ proc' = "connected" /\ coreRunning' = TRUE
    /\ whenUp' = None
    /\ ui' = IF whenUp # None THEN [pc |-> "start", ent |-> whenUp] ELSE ui
    /\ UNCHANGED <<notice, box, failed, clock, restartTimer, tasks, ds, mutexes, shown, starter,
                   stopper, ending, posted, exit, fault, bounds, wanted, gaveUp, unsure, careless>>

Click == UiFree /\ clicks < MaxUser /\ clicks' = clicks + 1 /\ UNCHANGED <<crashes, exits>>

ClickStart(p) ==
    /\ Click
    /\ ui' = [pc |-> "start", ent |-> p]
    /\ UNCHANGED <<core, process, mutexes, shown, starter, stopper, ending, posted, exit,
                   fault, history>>

(* Stop by hand, or for the deletion of the profile: the latter keeps      *)
(* started_id.                                                             *)
ClickStop ==
    /\ Click
    /\ \E manual \in BOOLEAN : StopFromUi(FALSE, manual)
    /\ UNCHANGED <<core, process, muStarting, running, startedId, connecting, sysProxy, starter,
                   ending, ui, exit, fault, history>>

(* The extra process of the running profile ended: profile_stop().         *)
ExtraExits ==
    /\ UiFree /\ crashes < MaxCrash /\ box # None
    /\ crashes' = crashes + 1 /\ UNCHANGED <<clicks, exits>>
    /\ StopFromUi(FALSE, FALSE)
    /\ UNCHANGED <<core, process, muStarting, running, startedId, connecting, sysProxy, starter,
                   ending, ui, exit, fault, history>>

(* "Restart Core" of the menu.                                             *)
ClickRestartCore ==
    /\ Click
    /\ tasks' = Append(tasks, [op |-> "reset", ent |-> None])
    /\ UNCHANGED <<core, coreRunning, failed, clock, whenUp, restartTimer, ds, mutexes, shown,
                   threads, history>>

(* prepare_exit on the UI thread.  It holds mu_exit while it waits in the  *)
(* nested loops of the stop and of the kill; a second request that arrives *)
(* in one of them locks mu_exit again on the same thread.                  *)
ExitKills ==
    /\ tasks' = Append(tasks, [op |-> "kill", ent |-> None])
    /\ exit' = "killing"

RequestExit ==
    /\ UiFree /\ exits < MaxExit
    /\ exits' = exits + 1
    /\ CASE exit = "no" /\ running # None /\ muStopping = "free" ->
              /\ sysProxy' = FALSE
              /\ StopFromUi(FALSE, FALSE)
              /\ exit' = "stopping"
              /\ UNCHANGED <<tasks, fault>>
         [] exit = "no" /\ ~(running # None /\ muStopping = "free") ->
              /\ sysProxy' = FALSE
              /\ ExitKills
              /\ NoStop /\ UNCHANGED fault
         [] exit = "done" -> UNCHANGED <<exit, fault, sysProxy, tasks>> /\ NoStop
         [] OTHER -> fault' = "frozen" /\ UNCHANGED <<exit, sysProxy, tasks>> /\ NoStop
    /\ UNCHANGED <<core, coreRunning, failed, clock, whenUp, restartTimer, ds, muStarting, running,
                   startedId, connecting, starter, ending, ui, clicks, crashes, history>>

(* The stop of the exit returned: the nested loop is left. *)
ExitStopped ==
    /\ Alive /\ exit = "kill" /\ ui.pc = "loop"
    /\ ExitKills
    /\ UNCHANGED <<core, coreRunning, failed, clock, whenUp, restartTimer, ds, mutexes, shown,
                   starter, stopper, ending, posted, ui, fault, bounds, history>>
-----------------------------------------------------------------------------
UiThread == RunPosted \/ ProfileStart \/ DeferStart \/ BeginStart \/ NewConnection \/ ExitStopped
StarterThread == \/ StartChecks \/ StartStops \/ StartJoins \/ StartCallOk \/ StartCallFails \/ StartCommits
                 \/ StartUnlocks
StopperThread == StopAccounts \/ StopCallOk \/ StopCallFails \/ StopSetsId \/ StopSetsRunning
DsCores == \/ HandleExit \/ DsStops \/ ScheduleRestart \/ GiveUpRestart \/ RestartFires
           \/ RunStartTask \/ RunKillTask \/ RunResetTask \/ ResetKills
User == (\E p \in Profiles : ClickStart(p)) \/ ClickStop \/ ClickRestartCore \/ RequestExit
Environment == CoreExits \/ ExtraExits

Next == UiThread \/ StarterThread \/ StartClears \/ StopperThread \/ DsCores \/ User \/ Environment

Spec == Init /\ [][Next]_vars

(* Every thread that can take a step takes one, and the event loop of the   *)
(* UI thread comes round to every queued event; the user and the failures  *)
(* are never forced.                                                       *)
FairSpec == Spec /\ SF_vars(RunPosted) /\ WF_vars(ProfileStart \/ DeferStart \/ BeginStart)
                 /\ SF_vars(NewConnection) /\ SF_vars(ExitStopped)
                 /\ WF_vars(StarterThread) /\ WF_vars(StartClears)
                 /\ WF_vars(StopperThread) /\ WF_vars(DsCores)
-----------------------------------------------------------------------------

(* The GUI never asks the core to start one profile while it still asks it *)
(* to stop another: profile_start waits on mu_stopping for whoever stops.  *)
StartWaitsForStop == ~(starter.pc = "call" /\ stopper.pc = "call" /\ ~stopper.crash)

(* Once no thread starts or stops and no core is about to be killed, the   *)
(* core runs the profile the GUI shows as running or none: a Start never   *)
(* replaces a profile behind the GUI's back.  The exceptions (unsure): a   *)
(* call failed and left that open, or the stop for a core that exited met  *)
(* the core that replaced it.                                              *)
CoreRunsShown ==
    (box # None /\ starter.pc = "idle" /\ stopper.pc = "idle" /\ ds = << >> /\ ~unsure)
        => box = running

(* The profile to restart after a crash is not forgotten: as long as no    *)
(* stop by hand took effect, started_id names the profile last started,    *)
(* whatever crashes, non-manual stops and failed starts came in between.   *)
CrashKeepsProfile ==
    (wanted # None /\ starter.pc # "setRunning") => startedId = wanted

(* The system proxy points to the core only while a profile is running or  *)
(* being stopped.  The exceptions (careless): the Stop call failed, or a   *)
(* stop or the exit began while the start was about to set the proxy.      *)
ProxyNeedsProfile ==
    (sysProxy /\ ~careless) => running # None

(* Every start resolves: the lock is released, Connecting is left.         *)
StartResolves == connecting ~> (~connecting \/ ~Alive)

(* Every stop resolves: mu_stopping is released by the UI thread, although *)
(* the thread that asked for the stop may be waiting for it.               *)
StopResolves == (muStopping = "stopper") ~> (muStopping # "stopper" \/ ~Alive)

(* A core that exited is restarted, unless it could not be launched, exits *)
(* too frequently, or the program exits.                                   *)
CoreIsRestarted ==
    (proc = "down") ~> (proc # "down" \/ failed \/ gaveUp \/ exit # "no" \/ ~Alive)

(* prepare_exit may be entered again: "prepare exit had already succeeded, *)
(* ignoring...".  No request to exit blocks the UI thread for good.        *)
SecondExitIsIgnored == fault # "frozen"
=============================================================================
