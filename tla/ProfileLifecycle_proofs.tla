---------------------- MODULE ProfileLifecycle_proofs ----------------------
(***************************************************************************)
(* Theorems about the life cycle of a profile, for any set of profiles,    *)
(* any number of clicks, of exits of the core and of requests to exit.     *)
(***************************************************************************)
EXTENDS ProfileLifecycle, SequenceTheorems, TLAPS

LEMMA NoneIsNoProfile == None \notin Profiles
  BY LifecycleAssumption

(* What becomes of the frames of DS_cores: a frame is added, its place is   *)
(* set, it is left, those that wait are woken.                              *)
LEMMA FrameTypes ==
  ASSUME ds \in Seq(DsFrame)
  PROVE  /\ \A f \in DsFrame : Append(ds, f) \in Seq(DsFrame)
         /\ ds # << >> => /\ Len(ds) \in DOMAIN ds /\ Top = ds[Len(ds)] /\ Top \in DsFrame
                          /\ Front(ds) \in Seq(DsFrame)
                          /\ Len(Front(ds)) = Len(ds) - 1
                          /\ \A i \in 1 .. Len(ds) - 1 : Front(ds)[i] = ds[i]
         /\ \A where \in {"check", "lock", "blocked", "woken", "after"} :
               ds # << >> => SetTop(where) \in Seq(DsFrame)
         /\ WakeDs => ds' \in Seq(DsFrame)
<1>1. \A f \in DsFrame : Append(ds, f) \in Seq(DsFrame)
  OBVIOUS
<1>2. ASSUME ds # << >>
      PROVE  /\ Len(ds) \in DOMAIN ds /\ Top = ds[Len(ds)] /\ Top \in DsFrame
             /\ Front(ds) \in Seq(DsFrame)
             /\ Len(Front(ds)) = Len(ds) - 1
             /\ \A i \in 1 .. Len(ds) - 1 : Front(ds)[i] = ds[i]
  <2>1. Len(ds) \in Nat \ {0} /\ DOMAIN ds = 1 .. Len(ds) /\ \A i \in 1 .. Len(ds) : ds[i] \in DsFrame
    BY <1>2, EmptySeq, LenProperties, ElementOfSeq
  <2>2. Front(ds) = SubSeq(ds, 1, Len(ds) - 1)
    BY DEF Front
  <2>3. \A i \in 1 .. Len(ds) - 1 : ds[i] \in DsFrame
    BY <2>1
  <2>4. /\ SubSeq(ds, 1, Len(ds) - 1) \in Seq(DsFrame)
        /\ Len(SubSeq(ds, 1, Len(ds) - 1)) = Len(ds) - 1
        /\ \A i \in 1 .. Len(ds) - 1 : SubSeq(ds, 1, Len(ds) - 1)[i] = ds[i]
    BY <2>1, <2>3
  <2> QED BY <2>1, <2>2, <2>4 DEF Top, Last
<1>3. ASSUME NEW where \in {"check", "lock", "blocked", "woken", "after"}, ds # << >>
      PROVE  SetTop(where) \in Seq(DsFrame)
  <2>1. [ds[Len(ds)] EXCEPT !.pc = where] \in DsFrame
    BY <1>2, <1>3 DEF DsFrame
  <2>2. SetTop(where) = [ds EXCEPT ![Len(ds)] = [ds[Len(ds)] EXCEPT !.pc = where]]
    BY DEF SetTop
  <2> QED BY <1>2, <1>3, <2>1, <2>2, ExceptSeq
<1>4. ASSUME WakeDs PROVE ds' \in Seq(DsFrame)
  <2>1. DOMAIN ds = 1 .. Len(ds) /\ Len(ds) \in Nat /\ \A i \in 1 .. Len(ds) : ds[i] \in DsFrame
    BY LenProperties, ElementOfSeq
  <2>2. \A i \in 1 .. Len(ds) :
           (IF ds[i].pc = "blocked" THEN [ds[i] EXCEPT !.pc = "woken"] ELSE ds[i]) \in DsFrame
    BY <2>1 DEF DsFrame
  <2> QED BY <1>4, <2>1, <2>2, IsASeq DEF WakeDs
<1> QED BY <1>1, <1>2, <1>3, <1>4
-----------------------------------------------------------------------------
(* Type correctness, one lemma per thread.                                  *)

LEMMA BoundsAreNat == MaxUser \in Nat /\ MaxCrash \in Nat /\ MaxExit \in Nat
  BY LifecycleAssumption

LEMMA InitType == Init => TypeOK
<1> SUFFICES ASSUME Init PROVE TypeOK
  OBVIOUS
<1>1. CoreTypes /\ ShownTypes
  BY EmptySeq DEF Init, CoreTypes, ShownTypes, Maybe
<1>2. ThreadTypes
  BY DEF Init, ThreadTypes, Starter, Stopper, StarterState, StopperState, Maybe
<1>3. clicks \in 0 .. MaxUser /\ crashes \in 0 .. MaxCrash /\ exits \in 0 .. MaxExit
  BY BoundsAreNat DEF Init
<1>4. wanted \in Maybe /\ gaveUp \in BOOLEAN /\ unsure \in BOOLEAN /\ careless \in BOOLEAN
  BY DEF Init, Maybe
<1> QED BY <1>1, <1>2, <1>3, <1>4 DEF TypeOK, HistoryTypes

(* What a stop that begins or does not begin leaves well typed. *)
MayStop ==
    \/ NoStop
    \/ muStopping = "free" /\ \E crash, manual, onUi \in BOOLEAN : BeginStop(crash, manual, onUi)

LEMMA MayStopType ==
  ASSUME TypeOK, MayStop
  PROVE  /\ muStopping' \in {"free", "ui", "starter", "stopper"}
         /\ stopper' \in StopperState
         /\ disconnecting' \in BOOLEAN
         /\ posted' \in Seq({"spinner", "clear", "finish"})
<1>1. ASSUME NEW crash \in BOOLEAN, NEW manual \in BOOLEAN, NEW onUi \in BOOLEAN,
             BeginStop(crash, manual, onUi)
      PROVE  /\ muStopping' \in {"free", "ui", "starter", "stopper"}
             /\ stopper' \in StopperState
             /\ disconnecting' \in BOOLEAN
             /\ posted' \in Seq({"spinner", "clear", "finish"})
  <2>1. muStopping' = "stopper" /\ stopper' \in StopperState
    BY <1>1 DEF BeginStop, Stopper, StopperState
  <2>2. disconnecting' \in BOOLEAN
    BY <1>1 DEF BeginStop, TypeOK, ShownTypes
  <2>3. posted' = posted \/ posted' = Append(posted, "spinner")
    BY <1>1 DEF BeginStop
  <2>4. posted' \in Seq({"spinner", "clear", "finish"})
    BY <2>3 DEF TypeOK, ShownTypes
  <2> QED BY <2>1, <2>2, <2>4
<1>2. CASE NoStop
  BY <1>2 DEF NoStop, TypeOK, ShownTypes, ThreadTypes
<1> QED BY <1>1, <1>2 DEF MayStop

(* A closure posted to the UI thread; the last one of a stop wakes DS_cores. *)
Handled ==
    /\ Head(posted) = "finish" => FinishStop
    /\ Head(posted) = "spinner" =>
          disconnecting' = TRUE /\ UNCHANGED <<connecting, muStopping, stopper, ds, exit>>
    /\ Head(posted) = "clear" =>
          connecting' = FALSE /\ UNCHANGED <<disconnecting, muStopping, stopper, ds, exit>>
    /\ posted # << >> /\ posted' = Tail(posted)
    /\ UNCHANGED <<core, coreRunning, failed, clock, whenUp, restartTimer, tasks, muStarting,
                   running, startedId, sysProxy, starter, ending, ui, fault, bounds, history>>

LEMMA PostedSteps == RunPosted => Handled
  BY DEF RunPosted, Handled

LEMMA PostedType == TypeOK /\ RunPosted => TypeOK'
<1> SUFFICES ASSUME TypeOK, RunPosted PROVE TypeOK'
  OBVIOUS
<1>1. posted' \in Seq({"spinner", "clear", "finish"}) /\ Head(posted) \in {"spinner", "clear", "finish"}
  BY HeadTailProperties DEF TypeOK, ShownTypes, RunPosted
<1>2. Handled
  BY PostedSteps
<1>3. ds' \in Seq(DsFrame)
  BY <1>1, <1>2, FrameTypes DEF Handled, TypeOK, CoreTypes, FinishStop
<1>4. Stopper("idle", FALSE, FALSE) \in StopperState
  BY DEF Stopper, StopperState
<1>5. /\ muStopping' \in {"free", "ui", "starter", "stopper"} /\ stopper' \in StopperState
      /\ exit' \in {"no", "stopping", "kill", "killing", "done"}
  BY <1>1, <1>2, <1>4 DEF Handled, TypeOK, ThreadTypes, FinishStop
<1>6. connecting' \in BOOLEAN /\ disconnecting' \in BOOLEAN
  BY <1>1, <1>2 DEF Handled, TypeOK, ShownTypes, FinishStop
<1> QED BY <1>1, <1>2, <1>3, <1>5, <1>6
    DEF Handled, TypeOK, CoreTypes, ShownTypes, ThreadTypes, HistoryTypes, core, bounds, history

LEMMA UiType == TypeOK /\ UiThread => TypeOK'
<1> SUFFICES ASSUME TypeOK, UiThread PROVE TypeOK'
  OBVIOUS
<1> USE DEF TypeOK, CoreTypes, ShownTypes, ThreadTypes, HistoryTypes,
            core, process, mutexes, shown, threads, bounds, history
<1>1. CASE ProfileStart
  <2>1. ui' \in [pc : {"loop", "start", "probe"}, ent : Maybe]
    BY <1>1 DEF ProfileStart, Maybe
  <2>2. muStarting' \in BOOLEAN
    BY <1>1 DEF ProfileStart
  <2>3. muStopping' \in {"free", "ui", "starter", "stopper"}
    BY <1>1 DEF ProfileStart
  <2> QED BY <1>1, <2>1, <2>2, <2>3 DEF ProfileStart
<1>2. CASE DeferStart
  <2>1. [op |-> "start", ent |-> ui.ent] \in Task
    BY DEF Task
  <2>2. tasks' \in Seq(Task) /\ ui' \in [pc : {"loop", "start", "probe"}, ent : Maybe]
    BY <1>2, <2>1 DEF DeferStart, Maybe
  <2>3. muStarting' \in BOOLEAN
    BY <1>2 DEF DeferStart
  <2>4. /\ muStopping' = "free"
        /\ UNCHANGED <<core, coreRunning, failed, clock, whenUp, restartTimer, ds, shown,
                       starter, stopper, ending, posted, exit, fault, bounds, history>>
    BY <1>2 DEF DeferStart
  <2> QED BY <2>2, <2>3, <2>4
<1>3. CASE BeginStart
  <2>1. starter' \in StarterState /\ ui' \in [pc : {"loop", "start", "probe"}, ent : Maybe]
    BY <1>3 DEF BeginStart, Starter, StarterState, Maybe
  <2> QED BY <1>3, <2>1 DEF BeginStart
<1>4. CASE NewConnection
  <2>1. ui' \in [pc : {"loop", "start", "probe"}, ent : Maybe] /\ whenUp' \in Maybe
    BY <1>4 DEF NewConnection, Maybe
  <2> QED BY <1>4, <2>1 DEF NewConnection
<1>5. CASE ExitStopped
  <2>1. tasks' \in Seq(Task)
    BY <1>5 DEF ExitStopped, ExitKills, Task, Maybe
  <2> QED BY <1>5, <2>1 DEF ExitStopped, ExitKills
<1> QED BY <1>1, <1>2, <1>3, <1>4, <1>5, PostedType DEF UiThread

LEMMA StarterType == TypeOK /\ (StarterThread \/ StartClears) => TypeOK'
<1> SUFFICES ASSUME TypeOK, StarterThread \/ StartClears PROVE TypeOK'
  OBVIOUS
<1> USE DEF TypeOK, CoreTypes, ShownTypes, ThreadTypes, HistoryTypes,
            core, process, mutexes, shown, threads, bounds, history
<1>1. CASE StartChecks
  <2>1. starter' \in StarterState
    BY <1>1 DEF StartChecks, StarterState
  <2> QED BY <1>1, <2>1 DEF StartChecks
<1>2. CASE StartStops
  <2>1. MayStop
    BY <1>2 DEF StartStops, MayStop
  <2>2. starter' \in StarterState
    BY <1>2 DEF StartStops, StarterState
  <2>3. UNCHANGED <<core, process, muStarting, running, startedId, connecting, sysProxy, ending, ui,
                    exit, fault, bounds, history>>
    BY <1>2 DEF StartStops
  <2> QED BY <2>1, <2>2, <2>3, MayStopType
<1>3. CASE StartJoins
  <2>1. starter' \in StarterState /\ muStopping' \in {"free", "starter"}
    BY <1>3 DEF StartJoins, StarterState
  <2> QED BY <1>3, <2>1 DEF StartJoins
<1>4. CASE StartCallOk
  <2>1. starter' \in StarterState /\ box' \in Maybe
    BY <1>4 DEF StartCallOk, StarterState
  <2> QED BY <1>4, <2>1 DEF StartCallOk
<1>5. CASE StartCallFails
  <2>1. starter' \in StarterState /\ box' \in Maybe /\ unsure' \in BOOLEAN
    BY <1>5 DEF StartCallFails, StarterState
  <2> QED BY <1>5, <2>1 DEF StartCallFails
<1>6. CASE StartCommits
  <2>1. starter' \in StarterState /\ startedId' \in Maybe /\ running' \in Maybe /\ wanted' \in Maybe
    BY <1>6 DEF StartCommits, StarterState
  <2>2. sysProxy' \in BOOLEAN /\ careless' \in BOOLEAN
    BY <1>6 DEF StartCommits
  <2> QED BY <1>6, <2>1, <2>2 DEF StartCommits
<1>7. CASE StartUnlocks
  <2>1. starter' \in StarterState /\ muStarting' \in BOOLEAN
    BY <1>7 DEF StartUnlocks, Starter, StarterState, Maybe
  <2>2. ending' \in Nat
    BY <1>7 DEF StartUnlocks
  <2>3. UNCHANGED <<core, process, muStopping, shown, stopper, posted, ui, exit, fault, bounds, history>>
    BY <1>7 DEF StartUnlocks
  <2> QED BY <2>1, <2>2, <2>3
<1>8. CASE StartClears
  BY <1>8 DEF StartClears
<1> QED BY <1>1, <1>2, <1>3, <1>4, <1>5, <1>6, <1>7, <1>8 DEF StarterThread

LEMMA StopperType == TypeOK /\ StopperThread => TypeOK'
<1> SUFFICES ASSUME TypeOK, StopperThread PROVE TypeOK'
  OBVIOUS
<1> USE DEF TypeOK, CoreTypes, ShownTypes, ThreadTypes, HistoryTypes,
            core, process, mutexes, shown, threads, bounds, history
<1>1. CASE StopAccounts
  <2>1. stopper' \in StopperState /\ fault' \in {"none", "crashed", "frozen"}
    BY <1>1 DEF StopAccounts, StopperState
  <2> QED BY <1>1, <2>1 DEF StopAccounts
<1>2. CASE StopCallOk \/ StopCallFails
  <2>1. stopper' \in StopperState
    BY <1>2 DEF StopCallOk, StopCallFails, StopCallEnds, StopperState
  <2>2. box' \in Maybe /\ sysProxy' \in BOOLEAN /\ unsure' \in BOOLEAN /\ careless' \in BOOLEAN
    BY <1>2 DEF StopCallOk, StopCallFails, Maybe
  <2>3. StopCallEnds
    BY <1>2 DEF StopCallOk, StopCallFails
  <2> QED BY <2>1, <2>2, <2>3 DEF StopCallEnds
<1>3. CASE StopSetsId
  <2>1. stopper' \in StopperState /\ startedId' \in Maybe /\ wanted' \in Maybe
    BY <1>3 DEF StopSetsId, StopperState, Maybe
  <2> QED BY <1>3, <2>1 DEF StopSetsId
<1>4. CASE StopSetsRunning
  <2>1. stopper' \in StopperState /\ running' \in Maybe
    BY <1>4 DEF StopSetsRunning, StopperState, Maybe
  <2>2. unsure' \in BOOLEAN
    BY <1>4 DEF StopSetsRunning
  <2>3. posted' \in Seq({"spinner", "clear", "finish"})
    BY <1>4 DEF StopSetsRunning
  <2> QED BY <1>4, <2>1, <2>2, <2>3 DEF StopSetsRunning
<1> QED BY <1>1, <1>2, <1>3, <1>4 DEF StopperThread

(* The steps of DS_cores on its frames, without the exit of the core.       *)
LEMMA FrameStepType == TypeOK /\ (DsStops \/ ScheduleRestart \/ GiveUpRestart \/ RunResetTask) => TypeOK'
<1> SUFFICES ASSUME TypeOK, DsStops \/ ScheduleRestart \/ GiveUpRestart \/ RunResetTask
             PROVE  TypeOK'
  OBVIOUS
<1> USE DEF TypeOK, CoreTypes, ShownTypes, ThreadTypes, HistoryTypes,
            core, process, mutexes, shown, threads, bounds, history
<1>1. CASE DsStops
  <2>1. ds # << >> /\ ds' \in {SetTop("lock"), SetTop("after"), SetTop("blocked")}
    BY <1>1 DEF DsStops, At
  <2>2. ds' \in Seq(DsFrame)
    BY <2>1, FrameTypes
  <2>3. MayStop
    BY <1>1 DEF DsStops, MayStop
  <2>4. UNCHANGED <<core, coreRunning, failed, clock, whenUp, restartTimer, tasks, muStarting,
                    running, startedId, connecting, sysProxy, starter, ending, ui, exit, fault,
                    bounds, history>>
    BY <1>1 DEF DsStops
  <2> QED BY <2>2, <2>3, <2>4, MayStopType
<1>2. CASE ScheduleRestart \/ GiveUpRestart
  <2>1. ds # << >> /\ ds' = Front(ds)
    BY <1>2 DEF ScheduleRestart, GiveUpRestart, At
  <2>2. ds' \in Seq(DsFrame)
    BY <2>1, FrameTypes
  <2>3. clock' \in {"invalid", "started"} /\ whenUp' \in Maybe
    BY <1>2 DEF ScheduleRestart, GiveUpRestart
  <2>4. restartTimer' \in BOOLEAN /\ gaveUp' \in BOOLEAN
    BY <1>2 DEF ScheduleRestart, GiveUpRestart
  <2>5. UNCHANGED <<core, coreRunning, failed, tasks, mutexes, shown, threads, bounds, wanted,
                    unsure, careless>>
    BY <1>2 DEF ScheduleRestart, GiveUpRestart
  <2> QED BY <2>2, <2>3, <2>4, <2>5
<1>3. CASE RunResetTask
  <2>1. Frame("reset", "check") \in DsFrame
    BY DEF Frame, DsFrame
  <2>2. ds' \in Seq(DsFrame) /\ tasks' \in Seq(Task)
    BY <1>3, <2>1, FrameTypes, HeadTailProperties DEF RunResetTask
  <2> QED BY <1>3, <2>2 DEF RunResetTask
<1> QED BY <1>1, <1>2, <1>3

(* An exit of the core adds a frame or none. *)
LEMMA ExitedType ==
  ASSUME NEW base \in Seq(DsFrame), Exited(base)
  PROVE  ds' \in Seq(DsFrame) /\ coreRunning' \in BOOLEAN /\ notice' \in BOOLEAN
<1>1. Frame("exited", "check") \in DsFrame
  BY DEF Frame, DsFrame
<1>2. ds' = base \/ ds' = Append(base, Frame("exited", "check"))
  BY DEF Exited
<1>3. ds' \in Seq(DsFrame)
  BY <1>1, <1>2
<1> QED BY <1>3 DEF Exited

LEMMA CoreStepType ==
  TypeOK /\ (HandleExit \/ RestartFires \/ RunStartTask \/ RunKillTask \/ ResetKills) => TypeOK'
<1> SUFFICES ASSUME TypeOK, HandleExit \/ RestartFires \/ RunStartTask \/ RunKillTask \/ ResetKills
             PROVE  TypeOK'
  OBVIOUS
<1> USE DEF TypeOK, CoreTypes, ShownTypes, ThreadTypes, HistoryTypes,
            core, process, mutexes, shown, threads, bounds, history
<1>1. CASE HandleExit
  <2>1. ds' \in Seq(DsFrame) /\ coreRunning' \in BOOLEAN /\ notice' \in BOOLEAN
    BY <1>1, ExitedType DEF HandleExit
  <2> QED BY <1>1, <2>1 DEF HandleExit
<1>2. CASE RestartFires \/ RunStartTask
  <2>1. Restart /\ restartTimer' \in BOOLEAN
    BY <1>2 DEF RestartFires, RunStartTask
  <2>2. proc' \in {"down", "launched"} /\ box' \in Maybe
    BY <2>1 DEF Restart, Maybe
  <2>3. notice' \in BOOLEAN /\ coreRunning' \in BOOLEAN /\ failed' \in BOOLEAN
    BY <2>1 DEF Restart
  <2>4. crashes' = crashes \/ (crashes < MaxCrash /\ crashes' = crashes + 1)
    BY <2>1 DEF Restart
  <2>5. crashes' \in 0 .. MaxCrash
    BY <2>4, BoundsAreNat
  <2>6. tasks # << >> => Tail(tasks) \in Seq(Task) /\ Head(tasks) \in Task
    BY HeadTailProperties
  <2>7. tasks' \in Seq(Task) /\ whenUp' \in Maybe
    BY <1>2, <2>6 DEF RestartFires, RunStartTask, Task
  <2>8. UNCHANGED history /\ UNCHANGED <<ds, clock, mutexes, shown, threads, clicks, exits>>
    BY <1>2 DEF RestartFires, RunStartTask, Restart
  <2> QED BY <2>1, <2>2, <2>3, <2>5, <2>7, <2>8
<1>3. CASE RunKillTask \/ ResetKills
  <2>1. PICK base \in Seq(DsFrame) : Kill(base)
    BY <1>3, FrameTypes DEF RunKillTask, ResetKills, At
  <2>2. ds' \in Seq(DsFrame) /\ coreRunning' \in BOOLEAN /\ notice' \in BOOLEAN
    BY <2>1, ExitedType DEF Kill
  <2>3. tasks # << >> => Tail(tasks) \in Seq(Task)
    BY HeadTailProperties
  <2>4. tasks' \in Seq(Task)
    BY <1>3, <2>3 DEF RunKillTask, ResetKills
  <2>5. exit' \in {"no", "stopping", "kill", "killing", "done"}
    BY <1>3 DEF RunKillTask, ResetKills
  <2> QED BY <2>1, <2>2, <2>4, <2>5 DEF Kill, Maybe
<1> QED BY <1>1, <1>2, <1>3

LEMMA UserType == TypeOK /\ (User \/ Environment) => TypeOK'
<1> SUFFICES ASSUME TypeOK, User \/ Environment PROVE TypeOK'
  OBVIOUS
<1> USE DEF TypeOK, CoreTypes, ShownTypes, ThreadTypes, HistoryTypes,
            core, process, mutexes, shown, threads, bounds, history
<1>1. Click => clicks' \in 0 .. MaxUser /\ crashes' \in 0 .. MaxCrash /\ exits' \in 0 .. MaxExit
  BY BoundsAreNat DEF Click
<1>2. ASSUME NEW p \in Profiles, ClickStart(p) PROVE TypeOK'
  <2>1. ui' \in [pc : {"loop", "start", "probe"}, ent : Maybe]
    BY <1>2 DEF ClickStart, Maybe
  <2> QED BY <1>1, <1>2, <2>1 DEF ClickStart
<1>3. \A manual \in BOOLEAN : StopFromUi(FALSE, manual) => MayStop
  BY DEF StopFromUi, MayStop
<1>4. CASE ClickStop
  <2>1. MayStop /\ Click
    BY <1>3, <1>4 DEF ClickStop
  <2>2. UNCHANGED <<core, process, muStarting, running, startedId, connecting, sysProxy, starter,
                    ending, ui, exit, fault, history>>
    BY <1>4 DEF ClickStop
  <2> QED BY <1>1, <2>1, <2>2, MayStopType
<1>5. CASE ExtraExits
  <2>1. MayStop
    BY <1>3, <1>5 DEF ExtraExits
  <2>2. crashes' \in 0 .. MaxCrash
    BY <1>5, BoundsAreNat DEF ExtraExits
  <2>3. /\ UNCHANGED <<clicks, exits>>
        /\ UNCHANGED <<core, process, muStarting, running, startedId, connecting, sysProxy, starter,
                       ending, ui, exit, fault, history>>
    BY <1>5 DEF ExtraExits
  <2> QED BY <2>1, <2>2, <2>3, MayStopType
<1>6. CASE ClickRestartCore
  <2>1. [op |-> "reset", ent |-> None] \in Task
    BY DEF Task, Maybe
  <2>2. tasks' \in Seq(Task)
    BY <1>6, <2>1 DEF ClickRestartCore
  <2> QED BY <1>1, <1>6, <2>2 DEF ClickRestartCore
<1>7. CASE RequestExit
  <2>1. MayStop
    BY <1>3, <1>7 DEF RequestExit, MayStop
  <2>2. tasks' = tasks \/ tasks' = Append(tasks, [op |-> "kill", ent |-> None])
    BY <1>7 DEF RequestExit, ExitKills
  <2>3. [op |-> "kill", ent |-> None] \in Task
    BY DEF Task, Maybe
  <2>4. \A t \in Task : Append(tasks, t) \in Seq(Task)
    OBVIOUS
  <2>5. tasks' \in Seq(Task)
    BY <2>2, <2>3, <2>4
  <2>6. exit' \in {"no", "stopping", "kill", "killing", "done"} /\ fault' \in {"none", "crashed", "frozen"}
    BY <1>7 DEF RequestExit, ExitKills
  <2>7. sysProxy' \in BOOLEAN
    BY <1>7 DEF RequestExit
  <2>8. exits' \in 0 .. MaxExit
    BY <1>7, BoundsAreNat DEF RequestExit
  <2>9. UNCHANGED <<core, coreRunning, failed, clock, whenUp, restartTimer, ds, muStarting, running,
                    startedId, connecting, starter, ending, ui, clicks, crashes, history>>
    BY <1>7 DEF RequestExit
  <2> QED BY <2>1, <2>5, <2>6, <2>7, <2>8, <2>9, MayStopType
<1>8. CASE CoreExits
  <2>1. crashes' \in 0 .. MaxCrash
    BY <1>8, BoundsAreNat DEF CoreExits
  <2> QED BY <1>8, <2>1 DEF CoreExits, Maybe
<1> QED BY <1>2, <1>4, <1>5, <1>6, <1>7, <1>8 DEF User, Environment

LEMMA StepType == TypeOK /\ [Next]_vars => TypeOK'
<1> SUFFICES ASSUME TypeOK, [Next]_vars PROVE TypeOK'
  OBVIOUS
<1>1. CASE UNCHANGED vars
  BY <1>1 DEF vars, TypeOK, CoreTypes, ShownTypes, ThreadTypes, HistoryTypes,
              core, process, mutexes, shown, threads, bounds, history
<1>2. CASE DsCores
  BY <1>2, FrameStepType, CoreStepType DEF DsCores
<1> QED BY <1>1, <1>2, UiType, StarterType, StopperType, UserType DEF Next

(* The variables of the life cycle keep their types. *)
THEOREM TypeCorrect == Spec => []TypeOK
  BY InitType, StepType, PTL DEF Spec
-----------------------------------------------------------------------------
(* The inductive invariant.  Its parts say who holds the locks, what a       *)
(* thread knows of running and started_id where it stands, and why the core  *)
(* may run another profile than the one shown.                               *)

(* mu_stopping tells which thread is where; a start holds mu_starting, and   *)
(* the UI thread probes mu_stopping only while no starter exists.            *)
LocksAreHeld ==
    /\ (muStopping = "stopper") <=> (stopper.pc # "idle")
    /\ (muStopping = "ui") <=> (ui.pc = "probe")
    /\ (muStopping = "starter") <=> (starter.pc = "joined")
    /\ ui.pc = "probe" => (muStarting /\ starter.pc = "idle")
    /\ starter.pc # "idle" => muStarting

(* At most one closure that ends a stop is queued, and only at its end.      *)
FinishIsOne ==
    /\ \A i \in DOMAIN posted : posted[i] = "finish" => stopper.pc = "finish"
    /\ \A i, j \in DOMAIN posted : posted[i] = "finish" /\ posted[j] = "finish" => i = j

(* From its call on the stopper has a running profile, until it clears it;   *)
(* from the join on the starter has none, until it sets its own.             *)
StopHasProfile == stopper.pc \in {"call", "setId", "setRunning"} => running # None

StartFindsNone ==
    /\ starter.pc \in {"joined", "call", "setId", "setRunning"} => running = None
    /\ starter.pc = "join" => (running = None \/ muStopping # "free")
    /\ (stopper.pc = "finish" /\ starter.pc \notin {"idle", "setProxy", "unlock"}) => running = None

IdIsCommitted ==
    /\ starter.pc = "setRunning" => startedId = starter.ent
    /\ CrashKeepsProfile

(* What is started is a profile. *)
StartsProfile ==
    /\ ui.pc # "loop" => ui.ent \in Profiles
    /\ starter.pc # "idle" => starter.ent \in Profiles

(* The stopper lifts the system proxy before it clears running.              *)
ProxyIsLifted ==
    /\ ProxyNeedsProfile
    /\ stopper.pc \in {"setId", "setRunning"} => (~sysProxy \/ careless)

(* Restart Core stops as after a crash, in a frame of DS_cores that stays    *)
(* until it has killed the core; only then may the core run what is not      *)
(* shown.                                                                    *)
ResetIsBlocked ==
    (stopper.pc # "idle" /\ stopper.crash /\ stopper.manual)
        => \E i \in DOMAIN ds : ds[i].op = "reset" /\ ds[i].pc = "blocked"

BoxIsKnown ==
    /\ (box # None /\ ~unsure) =>
          \/ starter.pc \in {"setId", "setRunning"} /\ box = starter.ent
          \/ box = running
          \/ \E i \in DOMAIN ds : ds[i].op = "reset"
    /\ (stopper.pc \in {"setId", "setRunning"} /\ ~stopper.crash /\ ~unsure) => box = None

LifeInv ==
    /\ TypeOK /\ LocksAreHeld /\ FinishIsOne /\ StopHasProfile /\ StartFindsNone
    /\ IdIsCommitted /\ StartsProfile /\ ProxyIsLifted /\ ResetIsBlocked /\ BoxIsKnown

LEMMA InitLifeInv == Init => LifeInv
<1> SUFFICES ASSUME Init PROVE LifeInv
  OBVIOUS
<1>1. TypeOK
  BY InitType
<1>2. LocksAreHeld /\ FinishIsOne /\ StopHasProfile /\ StartFindsNone
  BY DEF Init, LocksAreHeld, FinishIsOne, StopHasProfile, StartFindsNone, Starter, Stopper
<1>3. IdIsCommitted /\ StartsProfile /\ ProxyIsLifted /\ ResetIsBlocked /\ BoxIsKnown
  BY DEF Init, IdIsCommitted, CrashKeepsProfile, StartsProfile, ProxyIsLifted, ProxyNeedsProfile,
         ResetIsBlocked, BoxIsKnown, Starter, Stopper
<1> QED BY <1>1, <1>2, <1>3 DEF LifeInv

(* The steps around the core leave the threads of the GUI alone. *)
CoreSide == \/ HandleExit \/ ScheduleRestart \/ GiveUpRestart \/ RestartFires \/ RunStartTask
            \/ RunKillTask \/ RunResetTask \/ ResetKills \/ CoreExits \/ ClickRestartCore
            \/ ExitStopped \/ UNCHANGED vars

LEMMA CoreSideFrame ==
  CoreSide => UNCHANGED <<mutexes, shown, starter, stopper, posted, ui, wanted, unsure, careless>>
<1> USE DEF threads, history
<1>1. HandleExit \/ ScheduleRestart \/ GiveUpRestart \/ RunResetTask \/ CoreExits \/ ClickRestartCore
      => UNCHANGED <<mutexes, shown, starter, stopper, posted, ui, wanted, unsure, careless>>
  BY DEF HandleExit, ScheduleRestart, GiveUpRestart, RunResetTask, CoreExits, ClickRestartCore
<1>2. RestartFires \/ RunStartTask
      => UNCHANGED <<mutexes, shown, starter, stopper, posted, ui, wanted, unsure, careless>>
  BY DEF RestartFires, RunStartTask, Restart
<1>3. RunKillTask \/ ResetKills \/ ExitStopped \/ UNCHANGED vars
      => UNCHANGED <<mutexes, shown, starter, stopper, posted, ui, wanted, unsure, careless>>
  BY DEF RunKillTask, ResetKills, Kill, ExitStopped, vars
<1> QED BY <1>1, <1>2, <1>3 DEF CoreSide

(* Whoever begins a stop holds mu_stopping. *)
StopSite == StartStops \/ DsStops \/ ClickStop \/ ExtraExits \/ RequestExit

LEMMA StopSites == StopSite => MayStop
<1>1. \A manual \in BOOLEAN : StopFromUi(FALSE, manual) => MayStop
  BY DEF StopFromUi, MayStop
<1>2. StartStops \/ DsStops => MayStop
  BY DEF StartStops, DsStops, MayStop
<1>3. ClickStop \/ ExtraExits \/ RequestExit => MayStop
  BY <1>1 DEF ClickStop, ExtraExits, RequestExit, MayStop
<1> QED BY <1>2, <1>3 DEF StopSite

LEMMA StopSiteFrame ==
  ASSUME StopSite
  PROVE  /\ MayStop
         /\ UNCHANGED <<muStarting, running, startedId, ui, wanted, unsure, careless, box>>
         /\ \/ starter' = starter
            \/ starter.pc = "lock" /\ starter' = [starter EXCEPT !.pc = "join"] /\ muStopping' # "free"
         /\ sysProxy' = sysProxy \/ sysProxy' = FALSE
<1>1. MayStop
  BY StopSites
<1>2. UNCHANGED <<muStarting, running, startedId, ui, wanted, unsure, careless, box>>
  BY DEF StopSite, StartStops, DsStops, ClickStop, ExtraExits, RequestExit, core, process, history
<1>3. /\ StartStops => /\ starter.pc = "lock" /\ starter' = [starter EXCEPT !.pc = "join"]
                        /\ muStopping' # "free"
      /\ DsStops \/ ClickStop \/ ExtraExits \/ RequestExit => starter' = starter
  BY DEF StartStops, BeginStop, NoStop, DsStops, ClickStop, ExtraExits, RequestExit
<1>4. sysProxy' = sysProxy \/ sysProxy' = FALSE
  BY DEF StopSite, StartStops, DsStops, ClickStop, ExtraExits, RequestExit
<1> QED BY <1>1, <1>2, <1>3, <1>4 DEF StopSite

(* What a stop that begins does. *)
LEMMA StopEffect ==
  ASSUME MayStop
  PROVE  \/ NoStop
         \/ /\ muStopping = "free" /\ muStopping' = "stopper"
            /\ stopper'.pc = "account"
            /\ posted' = posted \/ posted' = Append(posted, "spinner")
<1>1. ASSUME NEW crash \in BOOLEAN, NEW manual \in BOOLEAN, NEW onUi \in BOOLEAN,
             muStopping = "free", BeginStop(crash, manual, onUi)
      PROVE  /\ muStopping = "free" /\ muStopping' = "stopper"
             /\ stopper'.pc = "account"
             /\ posted' = posted \/ posted' = Append(posted, "spinner")
  BY <1>1 DEF BeginStop, Stopper
<1> QED BY <1>1 DEF MayStop

StarterStep == StartChecks \/ StartJoins \/ StartCallOk \/ StartCallFails \/ StartCommits \/ StartUnlocks

LEMMA NextCases ==
  [Next]_vars => \/ CoreSide \/ StopSite \/ RunPosted \/ ProfileStart \/ DeferStart \/ BeginStart
                 \/ NewConnection \/ (\E p \in Profiles : ClickStart(p)) \/ StarterStep \/ StartClears
                 \/ StopperThread
  BY DEF Next, UiThread, StarterThread, DsCores, User, Environment, CoreSide, StopSite, StarterStep

(* The locks. *)
LEMMA LocksStep == LifeInv /\ [Next]_vars => LocksAreHeld'
<1> SUFFICES ASSUME LifeInv, [Next]_vars PROVE LocksAreHeld'
  OBVIOUS
<1>1. TypeOK /\ LocksAreHeld /\ FinishIsOne /\ ThreadTypes /\ TypeOK'
  BY StepType DEF LifeInv, TypeOK
<1> USE <1>1 DEF LocksAreHeld, mutexes, threads
<1>2. CASE CoreSide
  BY <1>2, CoreSideFrame
<1>3. CASE StopSite
  <2>1. NoStop \/ (muStopping = "free" /\ muStopping' = "stopper" /\ stopper'.pc = "account")
    BY <1>3, StopSiteFrame, StopEffect
  <2>2. /\ muStarting' = muStarting /\ ui' = ui
        /\ starter' = starter \/ (starter.pc = "lock" /\ starter'.pc = "join")
    BY <1>3, StopSiteFrame DEF ThreadTypes, StarterState
  <2> QED BY <2>1, <2>2 DEF NoStop
<1>4. CASE RunPosted
  <2>1. CASE Head(posted) = "finish"
    <3>1. stopper.pc = "finish"
      BY <1>4, <2>1, HeadTailProperties, LenProperties, EmptySeq
      DEF FinishIsOne, RunPosted, TypeOK, ShownTypes
    <3> QED BY <1>4, <2>1, <3>1, PostedSteps DEF Handled, FinishStop, Stopper
  <2>2. CASE Head(posted) # "finish"
    BY <1>4, <2>2, PostedSteps, HeadTailProperties DEF Handled, TypeOK, ShownTypes
  <2> QED BY <2>1, <2>2
<1>5. CASE ProfileStart \/ DeferStart \/ BeginStart
  BY <1>5 DEF ProfileStart, DeferStart, BeginStart, Starter, ThreadTypes
<1>6. CASE NewConnection \/ (\E p \in Profiles : ClickStart(p))
  BY <1>6 DEF NewConnection, ClickStart, Click, UiFree
<1>7. CASE StarterStep
  BY <1>7 DEF StarterStep, StartChecks, StartJoins, StartCallOk, StartCallFails, StartCommits,
              StartUnlocks, Starter, ThreadTypes, StarterState
<1>8. CASE StartClears
  BY <1>8 DEF StartClears
<1>9. CASE StopperThread
  BY <1>9 DEF StopperThread, StopAccounts, StopCallOk, StopCallFails, StopCallEnds, StopSetsId,
              StopSetsRunning, ThreadTypes, StopperState
<1> QED BY <1>2, <1>3, <1>4, <1>5, <1>6, <1>7, <1>8, <1>9, NextCases

(* The closures posted to the UI thread. *)
LEMMA FinishStep == LifeInv /\ [Next]_vars => FinishIsOne'
<1> SUFFICES ASSUME LifeInv, [Next]_vars PROVE FinishIsOne'
  OBVIOUS
<1>1. /\ posted \in Seq({"spinner", "clear", "finish"}) /\ stopper \in StopperState
      /\ LocksAreHeld /\ FinishIsOne
  BY DEF LifeInv, TypeOK, ShownTypes, ThreadTypes
<1> USE <1>1 DEF FinishIsOne
<1>2. ASSUME posted' = posted, stopper.pc = "finish" => stopper'.pc = "finish"
      PROVE  FinishIsOne'
  BY <1>2
<1>3. ASSUME NEW x \in {"spinner", "clear"}, posted' = Append(posted, x),
             stopper.pc = "finish" => stopper'.pc = "finish"
      PROVE  FinishIsOne'
  BY <1>3
<1>4. CASE CoreSide
  BY <1>2, <1>4, CoreSideFrame
<1>5. CASE StopSite
  <2>1. CASE NoStop
    BY <1>2, <2>1 DEF NoStop
  <2>2. CASE muStopping = "free" /\ (posted' = posted \/ posted' = Append(posted, "spinner"))
    BY <1>2, <1>3, <2>2 DEF LocksAreHeld
  <2> QED BY <1>5, <2>1, <2>2, StopSiteFrame, StopEffect
<1>6. CASE RunPosted
  <2>1. posted # << >> /\ posted' = Tail(posted)
    BY <1>6 DEF RunPosted
  <2>2. /\ Len(posted) \in Nat \ {0} /\ DOMAIN posted = 1 .. Len(posted)
        /\ DOMAIN posted' = 1 .. Len(posted) - 1 /\ posted[1] = Head(posted)
        /\ \A i \in 1 .. Len(posted) - 1 : posted'[i] = posted[i + 1]
    BY <2>1, HeadTailProperties, LenProperties, EmptySeq
  <2>3. CASE Head(posted) = "finish"
    <3>1. \A i \in DOMAIN posted' : posted'[i] # "finish"
      BY <2>2, <2>3
    <3> QED BY <3>1
  <2>4. CASE Head(posted) # "finish"
    <3>1. stopper' = stopper
      BY <1>6, <2>1, <2>4, PostedSteps, HeadTailProperties DEF Handled
    <3>2. \A i \in DOMAIN posted' : i + 1 \in DOMAIN posted /\ posted'[i] = posted[i + 1]
      BY <2>2
    <3>3. \A i \in DOMAIN posted' : posted'[i] = "finish" => stopper'.pc = "finish"
      BY <3>1, <3>2
    <3>4. \A i, j \in DOMAIN posted' : posted'[i] = "finish" /\ posted'[j] = "finish" => i = j
      BY <2>2, <3>2
    <3> QED BY <3>3, <3>4
  <2> QED BY <2>3, <2>4
<1>7. CASE StopperThread
  <2>1. CASE StopSetsRunning
    <3>1. \A i \in DOMAIN posted : posted[i] # "finish"
      BY <2>1 DEF StopSetsRunning
    <3>2. posted' = Append(posted, "finish") /\ stopper'.pc = "finish"
      BY <2>1 DEF StopSetsRunning, StopperState
    <3> QED BY <3>1, <3>2
  <2>2. CASE StopAccounts \/ StopCallOk \/ StopCallFails \/ StopSetsId
    BY <1>2, <2>2 DEF StopAccounts, StopCallOk, StopCallFails, StopCallEnds, StopSetsId
  <2> QED BY <1>7, <2>1, <2>2 DEF StopperThread
<1>8. CASE StartClears
  BY <1>3, <1>8 DEF StartClears
<1>9. CASE ProfileStart \/ DeferStart \/ BeginStart \/ NewConnection \/ (\E p \in Profiles : ClickStart(p))
  BY <1>2, <1>9 DEF ProfileStart, DeferStart, BeginStart, NewConnection, ClickStart
<1>10. CASE StarterStep
  BY <1>2, <1>10 DEF StarterStep, StartChecks, StartJoins, StartCallOk, StartCallFails, StartCommits, StartUnlocks
<1> QED BY <1>4, <1>5, <1>6, <1>7, <1>8, <1>9, <1>10, NextCases

(* What the two threads know of running. *)
LEMMA RunningStep == LifeInv /\ [Next]_vars => StopHasProfile' /\ StartFindsNone'
<1> SUFFICES ASSUME LifeInv, [Next]_vars PROVE StopHasProfile' /\ StartFindsNone'
  OBVIOUS
<1>1. /\ starter \in StarterState /\ stopper \in StopperState
      /\ LocksAreHeld /\ FinishIsOne /\ StopHasProfile /\ StartFindsNone
  BY DEF LifeInv, TypeOK, ThreadTypes
<1> USE <1>1 DEF StopHasProfile, StartFindsNone, mutexes, shown
<1>2. CASE CoreSide
  BY <1>2, CoreSideFrame
<1>3. CASE StopSite
  <2>1. NoStop \/ (muStopping = "free" /\ muStopping' = "stopper" /\ stopper'.pc = "account")
    BY <1>3, StopSiteFrame, StopEffect
  <2>2. /\ running' = running
        /\ starter' = starter \/ (starter.pc = "lock" /\ starter'.pc = "join" /\ muStopping' # "free")
    BY <1>3, StopSiteFrame DEF StarterState
  <2>3. starter' = starter => StopHasProfile' /\ StartFindsNone'
    BY <2>1, <2>2 DEF NoStop
  <2>4. starter.pc = "lock" /\ starter'.pc = "join" /\ muStopping' # "free"
        => StopHasProfile' /\ StartFindsNone'
    BY <2>1, <2>2 DEF NoStop
  <2> QED BY <2>2, <2>3, <2>4
<1>4. CASE RunPosted
  <2>1. CASE Head(posted) = "finish"
    <3>1. stopper.pc = "finish"
      BY <1>4, <2>1, HeadTailProperties, LenProperties, EmptySeq
      DEF FinishIsOne, RunPosted, LifeInv, TypeOK, ShownTypes
    <3> QED BY <1>4, <2>1, <3>1, PostedSteps DEF Handled, FinishStop, Stopper
  <2>2. CASE Head(posted) # "finish"
    BY <1>4, <2>2, PostedSteps, HeadTailProperties DEF Handled, LifeInv, TypeOK, ShownTypes
  <2> QED BY <2>1, <2>2
<1>5. CASE ProfileStart \/ DeferStart \/ BeginStart
  BY <1>5 DEF ProfileStart, DeferStart, BeginStart, Starter, LocksAreHeld
<1>6. CASE NewConnection \/ (\E p \in Profiles : ClickStart(p)) \/ StartClears
  BY <1>6 DEF NewConnection, ClickStart, StartClears
<1>7. CASE StarterStep
  BY <1>7 DEF StarterStep, StartChecks, StartJoins, StartCallOk, StartCallFails, StartCommits,
              StartUnlocks, Starter, StarterState, LocksAreHeld
<1>8. CASE StopperThread
  BY <1>8 DEF StopperThread, StopAccounts, StopCallOk, StopCallFails, StopCallEnds, StopSetsId,
              StopSetsRunning, StopperState
<1> QED BY <1>2, <1>3, <1>4, <1>5, <1>6, <1>7, <1>8, NextCases

(* started_id and the profile last started. *)
LEMMA IdStep == LifeInv /\ [Next]_vars => IdIsCommitted'
<1> SUFFICES ASSUME LifeInv, [Next]_vars PROVE IdIsCommitted'
  OBVIOUS
<1>1. /\ starter \in StarterState /\ stopper \in StopperState
      /\ StopHasProfile /\ StartFindsNone /\ IdIsCommitted
  BY DEF LifeInv, TypeOK, ThreadTypes
<1> USE <1>1 DEF IdIsCommitted, CrashKeepsProfile, shown, history
<1>2. CASE CoreSide
  BY <1>2, CoreSideFrame
<1>3. CASE StopSite
  BY <1>3, StopSiteFrame DEF StarterState
<1>4. CASE RunPosted
  BY <1>4 DEF RunPosted
<1>5. CASE ProfileStart \/ DeferStart \/ BeginStart
  BY <1>5 DEF ProfileStart, DeferStart, BeginStart, Starter, LifeInv, LocksAreHeld
<1>6. CASE NewConnection \/ (\E p \in Profiles : ClickStart(p)) \/ StartClears
  BY <1>6 DEF NewConnection, ClickStart, StartClears
<1>7. CASE StarterStep
  BY <1>7 DEF StarterStep, StartChecks, StartJoins, StartCallOk, StartCallFails, StartCommits,
              StartUnlocks, Starter, StarterState
<1>8. CASE StopSetsId
  BY <1>8 DEF StopSetsId, StopHasProfile, StartFindsNone
<1>9. CASE StopAccounts \/ StopCallOk \/ StopCallFails \/ StopSetsRunning
  BY <1>9 DEF StopAccounts, StopCallOk, StopCallFails, StopCallEnds, StopSetsRunning
<1> QED BY <1>2, <1>3, <1>4, <1>5, <1>6, <1>7, <1>8, <1>9, NextCases DEF StopperThread

(* What the UI thread and the starter work on is a profile. *)
LEMMA ProfileStep == LifeInv /\ [Next]_vars => StartsProfile'
<1> SUFFICES ASSUME LifeInv, [Next]_vars PROVE StartsProfile'
  OBVIOUS
<1>1. /\ starter \in StarterState /\ ui \in [pc : {"loop", "start", "probe"}, ent : Maybe]
      /\ whenUp \in Maybe /\ StartsProfile
  BY DEF LifeInv, TypeOK, CoreTypes, ThreadTypes
<1> USE <1>1 DEF StartsProfile
<1>2. CASE CoreSide
  BY <1>2, CoreSideFrame
<1>3. CASE StopSite
  BY <1>3, StopSiteFrame DEF StarterState
<1>4. CASE RunPosted
  BY <1>4 DEF RunPosted
<1>5. CASE ProfileStart \/ DeferStart \/ BeginStart
  BY <1>5 DEF ProfileStart, DeferStart, BeginStart, Starter
<1>6. CASE NewConnection \/ (\E p \in Profiles : ClickStart(p)) \/ StartClears
  BY <1>6 DEF NewConnection, ClickStart, StartClears, Maybe
<1>7. CASE StarterStep
  BY <1>7 DEF StarterStep, StartChecks, StartJoins, StartCallOk, StartCallFails, StartCommits,
              StartUnlocks, Starter, StarterState
<1>8. CASE StopperThread
  BY <1>8 DEF StopperThread, StopAccounts, StopCallOk, StopCallFails, StopCallEnds, StopSetsId,
              StopSetsRunning
<1> QED BY <1>2, <1>3, <1>4, <1>5, <1>6, <1>7, <1>8, NextCases

(* The system proxy. *)
LEMMA ProxyStep == LifeInv /\ [Next]_vars => ProxyIsLifted'
<1> SUFFICES ASSUME LifeInv, [Next]_vars PROVE ProxyIsLifted'
  OBVIOUS
<1>1. /\ starter \in StarterState /\ stopper \in StopperState /\ sysProxy \in BOOLEAN
      /\ LocksAreHeld /\ FinishIsOne /\ StartsProfile /\ ProxyIsLifted
  BY DEF LifeInv, TypeOK, ShownTypes, ThreadTypes
<1> USE <1>1 DEF ProxyIsLifted, ProxyNeedsProfile, shown, history
<1>2. CASE CoreSide
  BY <1>2, CoreSideFrame
<1>3. CASE StopSite
  <2>1. NoStop \/ stopper'.pc = "account"
    BY <1>3, StopSiteFrame, StopEffect
  <2>2. running' = running /\ careless' = careless /\ (sysProxy' = sysProxy \/ sysProxy' = FALSE)
    BY <1>3, StopSiteFrame
  <2> QED BY <2>1, <2>2 DEF NoStop
<1>4. CASE RunPosted
  BY <1>4, PostedSteps, HeadTailProperties
  DEF Handled, FinishStop, Stopper, LifeInv, TypeOK, ShownTypes
<1>5. CASE ProfileStart \/ DeferStart \/ BeginStart
  BY <1>5 DEF ProfileStart, DeferStart, BeginStart
<1>6. CASE NewConnection \/ (\E p \in Profiles : ClickStart(p)) \/ StartClears
  BY <1>6 DEF NewConnection, ClickStart, StartClears
<1>7. CASE StartCommits
  <2>1. starter.ent \in Profiles /\ starter.ent # None
    BY <1>7, NoneIsNoProfile DEF StartCommits, StartsProfile
  <2>2. stopper' = stopper
    BY <1>7 DEF StartCommits
  <2>3. CASE starter.pc = "setProxy"
    <3>1. running' = running /\ (~careless' => stopper.pc = "idle" /\ running = starter.ent)
      BY <1>7, <2>3 DEF StartCommits
    <3> QED BY <2>1, <2>2, <3>1
  <2>4. CASE starter.pc # "setProxy"
    <3>1. sysProxy' = sysProxy /\ careless' = careless /\ (running' = running \/ running' = starter.ent)
      BY <1>7, <2>4 DEF StartCommits
    <3> QED BY <2>1, <2>2, <3>1
  <2> QED BY <2>3, <2>4
<1>8. CASE StartChecks \/ StartJoins \/ StartCallOk \/ StartCallFails \/ StartUnlocks
  BY <1>8 DEF StartChecks, StartJoins, StartCallOk, StartCallFails, StartUnlocks
<1>9. CASE StopperThread
  BY <1>9 DEF StopperThread, StopAccounts, StopCallOk, StopCallFails, StopCallEnds, StopSetsId,
              StopSetsRunning, StopperState
<1> QED BY <1>2, <1>3, <1>4, <1>5, <1>6, <1>7, <1>8, <1>9, NextCases DEF StarterStep
-----------------------------------------------------------------------------
(* The frames of DS_cores and what the core runs.                            *)

(* What a step does to the frames, unless the UI thread wakes them.          *)
LEMMA FrameEffect ==
  ASSUME TypeOK, [Next]_vars, ~RunPosted
  PROVE  \/ ds' = ds
         \/ \E f \in DsFrame : ds' = Append(ds, f)
         \/ /\ ds # << >> /\ Top.pc # "blocked"
            /\ \E where \in {"lock", "blocked", "after"} : ds' = SetTop(where)
         \/ ds # << >> /\ Top.pc = "after" /\ Top.op = "exited" /\ ds' = Front(ds)
         \/ ResetKills /\ \E f \in DsFrame : ds' = Front(ds) \/ ds' = Append(Front(ds), f)
<1> USE DEF threads, process
<1>1. CASE DsStops
  BY <1>1 DEF DsStops, At
<1>2. CASE ScheduleRestart \/ GiveUpRestart
  BY <1>2 DEF ScheduleRestart, GiveUpRestart, At
<1>3. Frame("exited", "check") \in DsFrame /\ Frame("reset", "check") \in DsFrame
  BY DEF Frame, DsFrame
<1>4. CASE HandleExit \/ RunResetTask \/ RunKillTask \/ ResetKills
  BY <1>3, <1>4 DEF HandleExit, RunResetTask, RunKillTask, ResetKills, Kill, Exited
<1>5. CASE RestartFires \/ RunStartTask \/ CoreExits \/ ClickRestartCore \/ ExitStopped \/ UNCHANGED vars
  BY <1>5 DEF RestartFires, RunStartTask, Restart, CoreExits, ClickRestartCore, ExitStopped, vars
<1>6. CASE StartStops \/ ClickStop \/ ExtraExits \/ RequestExit
  BY <1>6 DEF StartStops, ClickStop, ExtraExits, RequestExit
<1>7. CASE ProfileStart \/ DeferStart \/ BeginStart \/ NewConnection \/ StartClears
           \/ (\E p \in Profiles : ClickStart(p))
  BY <1>7 DEF ProfileStart, DeferStart, BeginStart, NewConnection, StartClears, ClickStart
<1>8. CASE StarterStep
  BY <1>8 DEF StarterStep, StartChecks, StartJoins, StartCallOk, StartCallFails, StartCommits, StartUnlocks
<1>9. CASE StopperThread
  BY <1>9 DEF StopperThread, StopAccounts, StopCallOk, StopCallFails, StopCallEnds, StopSetsId,
              StopSetsRunning
<1> QED BY <1>1, <1>2, <1>4, <1>5, <1>6, <1>7, <1>8, <1>9, NextCases DEF CoreSide, StopSite

(* A frame that waits for a stop stays as it is; a frame of Restart Core     *)
(* stays until it kills the core.                                            *)
LEMMA FramesStay ==
  ASSUME TypeOK, [Next]_vars, ~RunPosted, NEW i \in DOMAIN ds
  PROVE  /\ ds[i].pc = "blocked" => i \in DOMAIN ds' /\ ds'[i] = ds[i]
         /\ (ds[i].op = "reset" /\ ~ResetKills) => i \in DOMAIN ds' /\ ds'[i].op = "reset"
<1>1. ds \in Seq(DsFrame) /\ ds # << >> /\ DOMAIN ds = 1 .. Len(ds) /\ Len(ds) \in Nat
  BY LenProperties DEF TypeOK, CoreTypes
<1>2. /\ Top = ds[Len(ds)] /\ Front(ds) \in Seq(DsFrame) /\ Len(Front(ds)) = Len(ds) - 1
      /\ \A j \in 1 .. Len(ds) - 1 : Front(ds)[j] = ds[j]
  BY <1>1, FrameTypes
<1>3. CASE ds' = ds
  BY <1>3
<1>4. CASE \E f \in DsFrame : ds' = Append(ds, f)
  BY <1>1, <1>4
<1>5. ASSUME Top.pc # "blocked", NEW where \in {"lock", "blocked", "after"}, ds' = SetTop(where)
      PROVE  /\ ds[i].pc = "blocked" => i \in DOMAIN ds' /\ ds'[i] = ds[i]
             /\ ds[i].op = "reset" => i \in DOMAIN ds' /\ ds'[i].op = "reset"
  <2>1. ds[i] \in DsFrame
    BY <1>1, ElementOfSeq
  <2>2. i \in DOMAIN ds' /\ (i # Len(ds) => ds'[i] = ds[i])
    BY <1>1, <1>5 DEF SetTop
  <2>3. i = Len(ds) => ds'[i] = [ds[i] EXCEPT !.pc = where]
    BY <1>1, <1>5 DEF SetTop
  <2> QED BY <1>2, <1>5, <2>1, <2>2, <2>3 DEF DsFrame
<1>6. CASE Top.pc = "after" /\ Top.op = "exited" /\ ds' = Front(ds)
  BY <1>1, <1>2, <1>6, LenProperties
<1>7. ASSUME ResetKills, NEW f \in DsFrame, ds' = Front(ds) \/ ds' = Append(Front(ds), f)
      PROVE  ds[i].pc = "blocked" => i \in DOMAIN ds' /\ ds'[i] = ds[i]
  <2>1. Top.pc = "after"
    BY <1>7 DEF ResetKills, At
  <2>2. ds[i].pc = "blocked" => i \in 1 .. Len(ds) - 1
    BY <1>1, <1>2, <2>1
  <2>3. \A j \in 1 .. Len(ds) - 1 : j \in DOMAIN ds' /\ ds'[j] = ds[j]
    BY <1>1, <1>2, <1>7, LenProperties
  <2> QED BY <2>2, <2>3
<1> QED BY <1>1, <1>3, <1>4, <1>5, <1>6, <1>7, FrameEffect

(* Only DS_cores, in Restart Core, begins a stop of the crash kind by hand,  *)
(* and it waits for it.                                                      *)
LEMMA ResetStep == LifeInv /\ [Next]_vars => ResetIsBlocked'
<1> SUFFICES ASSUME LifeInv, [Next]_vars, (stopper.pc # "idle" /\ stopper.crash /\ stopper.manual)'
             PROVE  \E i \in DOMAIN ds' : ds'[i].op = "reset" /\ ds'[i].pc = "blocked"
  BY DEF ResetIsBlocked
<1>1. TypeOK /\ ResetIsBlocked /\ FinishIsOne /\ stopper \in StopperState
  BY DEF LifeInv, TypeOK, ThreadTypes
<1>2. ASSUME ~RunPosted, stopper.pc # "idle", stopper.crash, stopper.manual
      PROVE  \E i \in DOMAIN ds' : ds'[i].op = "reset" /\ ds'[i].pc = "blocked"
  BY <1>1, <1>2, FramesStay DEF ResetIsBlocked
<1>3. ASSUME stopper' = stopper, ~RunPosted
      PROVE  \E i \in DOMAIN ds' : ds'[i].op = "reset" /\ ds'[i].pc = "blocked"
  BY <1>2, <1>3
<1>4. CASE RunPosted
  <2>1. Head(posted) \in {"spinner", "clear", "finish"}
    BY <1>4, HeadTailProperties DEF RunPosted, LifeInv, TypeOK, ShownTypes
  <2>2. stopper' = stopper /\ ds' = ds
    BY <1>4, <2>1, PostedSteps DEF Handled, FinishStop, Stopper
  <2> QED BY <1>1, <2>2 DEF ResetIsBlocked
<1>5. CASE DsStops /\ ~RunPosted
  <2>1. CASE NoStop
    BY <1>3, <1>5, <2>1 DEF NoStop
  <2>2. CASE ~NoStop
    <3>1. /\ At("lock") /\ ds' = SetTop("blocked")
          /\ BeginStop(TRUE, Top.op = "reset", FALSE)
      BY <1>5, <2>2 DEF DsStops
    <3>2. stopper'.manual <=> Top.op = "reset"
      BY <3>1 DEF BeginStop, Stopper
    <3>3. ds \in Seq(DsFrame) /\ ds # << >>
      BY <1>1, <3>1 DEF TypeOK, CoreTypes, At
    <3>4. Len(ds) \in DOMAIN ds /\ Top = ds[Len(ds)] /\ Top \in DsFrame
      BY <3>3, FrameTypes
    <3>5. ds' = [ds EXCEPT ![Len(ds)] = [Top EXCEPT !.pc = "blocked"]]
      BY <3>1, <3>4 DEF SetTop
    <3>6. Len(ds) \in DOMAIN ds' /\ ds'[Len(ds)].op = "reset" /\ ds'[Len(ds)].pc = "blocked"
      BY <3>2, <3>4, <3>5 DEF DsFrame
    <3> QED BY <3>6
  <2> QED BY <2>1, <2>2
<1>6. CASE (StartStops \/ ClickStop \/ ExtraExits \/ RequestExit) /\ ~RunPosted
  <2>1. \A manual \in BOOLEAN : StopFromUi(FALSE, manual) => stopper' = stopper \/ ~stopper'.crash
    BY DEF StopFromUi, NoStop, BeginStop, Stopper
  <2>2. StartStops => stopper' = stopper \/ ~stopper'.crash
    BY DEF StartStops, NoStop, BeginStop, Stopper
  <2>3. ClickStop \/ ExtraExits \/ RequestExit => stopper' = stopper \/ ~stopper'.crash
    BY <2>1 DEF ClickStop, ExtraExits, RequestExit, NoStop
  <2> QED BY <1>3, <1>6, <2>2, <2>3
<1>7. CASE CoreSide /\ ~RunPosted
  BY <1>3, <1>7, CoreSideFrame
<1>8. CASE (\/ ProfileStart \/ DeferStart \/ BeginStart \/ NewConnection \/ StartClears
            \/ (\E p \in Profiles : ClickStart(p)) \/ StarterStep) /\ ~RunPosted
  BY <1>3, <1>8 DEF ProfileStart, DeferStart, BeginStart, NewConnection, StartClears, ClickStart,
     StarterStep, StartChecks, StartJoins, StartCallOk, StartCallFails, StartCommits, StartUnlocks
<1>9. CASE StopperThread /\ ~RunPosted
  <2>1. /\ stopper.pc # "idle"
        /\ stopper'.crash = stopper.crash /\ stopper'.manual = stopper.manual
    BY <1>1, <1>9 DEF StopperThread, StopAccounts, StopCallOk, StopCallFails, StopCallEnds, StopSetsId,
                      StopSetsRunning, StopperState
  <2> QED BY <1>2, <1>9, <2>1
<1> QED BY <1>4, <1>5, <1>6, <1>7, <1>8, <1>9, NextCases DEF StopSite

(* What the core runs. *)
LEMMA BoxStep == LifeInv /\ [Next]_vars => BoxIsKnown'
<1> SUFFICES ASSUME LifeInv, [Next]_vars PROVE BoxIsKnown'
  OBVIOUS
<1>1. /\ TypeOK /\ starter \in StarterState /\ stopper \in StopperState
      /\ LocksAreHeld /\ StopHasProfile /\ StartFindsNone /\ ResetIsBlocked /\ BoxIsKnown
  BY DEF LifeInv, TypeOK, ThreadTypes
<1>2. ASSUME ~RunPosted, ~ResetKills, \E i \in DOMAIN ds : ds[i].op = "reset"
      PROVE  \E i \in DOMAIN ds' : ds'[i].op = "reset"
  BY <1>1, <1>2, FramesStay
<1> USE <1>1 DEF BoxIsKnown
<1>3. CASE RunPosted
  <2> Handled /\ Head(posted) \in {"spinner", "clear", "finish"}
    BY <1>3, PostedSteps, HeadTailProperties DEF RunPosted, TypeOK, ShownTypes
  <2>1. box' = box /\ running' = running /\ starter' = starter /\ unsure' = unsure
    BY DEF Handled, core, history
  <2>2. (\E i \in DOMAIN ds : ds[i].op = "reset") => \E i \in DOMAIN ds' : ds'[i].op = "reset"
    <3>1. ds' = ds \/ WakeDs
      BY DEF Handled, FinishStop
    <3>2. ds \in Seq(DsFrame) /\ \A i \in DOMAIN ds : ds[i] \in DsFrame
      BY ElementOfSeq, LenProperties DEF TypeOK, CoreTypes
    <3>3. WakeDs => \A i \in DOMAIN ds : i \in DOMAIN ds' /\ ds'[i].op = ds[i].op
      BY <3>2 DEF WakeDs, DsFrame
    <3> QED BY <3>1, <3>3
  <2>3. stopper' = stopper \/ stopper'.pc = "idle"
    BY DEF Handled, FinishStop, Stopper
  <2> QED BY <2>1, <2>2, <2>3
<1>4. CASE CoreSide /\ ~RunPosted
  <2>1. starter' = starter /\ stopper' = stopper /\ running' = running /\ unsure' = unsure
    BY <1>4, CoreSideFrame DEF shown
  <2>2. ResetKills => box' = None
    BY DEF ResetKills, Kill
  <2>3. box' = None \/ box' = box
    BY <1>4 DEF CoreSide, HandleExit, ScheduleRestart, GiveUpRestart, RestartFires, RunStartTask,
                RunKillTask, RunResetTask, ResetKills, Kill, Restart, CoreExits, ClickRestartCore,
                ExitStopped, vars, core
  <2> QED BY <1>2, <1>4, <2>1, <2>2, <2>3
<1>5. CASE StopSite /\ ~RunPosted /\ ~CoreSide
  <2>1. NoStop \/ stopper'.pc = "account"
    BY <1>5, StopSiteFrame, StopEffect
  <2>2. /\ box' = box /\ running' = running /\ unsure' = unsure
        /\ starter.pc \in {"setId", "setRunning"} => starter' = starter
    BY <1>5, StopSiteFrame
  <2> QED BY <1>2, <1>5, <2>1, <2>2 DEF NoStop, CoreSide
<1>6. CASE (\/ ProfileStart \/ DeferStart \/ BeginStart \/ NewConnection \/ StartClears
            \/ (\E p \in Profiles : ClickStart(p))) /\ ~RunPosted /\ ~CoreSide
  <2>1. /\ box' = box /\ running' = running /\ unsure' = unsure /\ stopper' = stopper
        /\ starter.pc \in {"setId", "setRunning"} => starter' = starter
    BY <1>6 DEF ProfileStart, DeferStart, BeginStart, NewConnection, StartClears, ClickStart,
                core, shown, history, LocksAreHeld
  <2>2. starter'.pc \in {"setId", "setRunning"} => starter' = starter
    BY <1>6 DEF ProfileStart, DeferStart, BeginStart, Starter, NewConnection, StartClears, ClickStart
  <2> QED BY <1>2, <1>6, <2>1, <2>2 DEF CoreSide
<1>7. CASE StarterStep /\ ~RunPosted /\ ~CoreSide
  <2>1. stopper' = stopper
    BY <1>7 DEF StarterStep, StartChecks, StartJoins, StartCallOk, StartCallFails, StartCommits, StartUnlocks
  <2>2. CASE StartCallOk
    <3>1. box' = starter.ent /\ starter' = [starter EXCEPT !.pc = "setId"] /\ unsure' = unsure
      BY <2>2 DEF StartCallOk, history
    <3>2. stopper.pc \notin {"setId", "setRunning"}
      BY <2>2 DEF StartCallOk, StopHasProfile, StartFindsNone
    <3> QED BY <2>1, <3>1, <3>2 DEF StarterState
  <2>3. CASE StartCallFails
    <3>1. unsure' = TRUE \/ (unsure' = unsure /\ box' = box)
      BY <2>3 DEF StartCallFails
    <3>2. running' = running /\ starter.pc = "call"
      BY <2>3 DEF StartCallFails, shown
    <3> QED BY <1>2, <1>7, <2>1, <3>1, <3>2 DEF CoreSide
  <2>4. CASE StartCommits
    <3>1. /\ box' = box /\ unsure' = unsure
          /\ \/ starter.pc = "setId" /\ starter' = [starter EXCEPT !.pc = "setRunning"] /\ running' = running
             \/ starter.pc = "setRunning" /\ running' = starter.ent /\ starter' = [starter EXCEPT !.pc = "setProxy"]
             \/ starter.pc = "setProxy" /\ starter' = [starter EXCEPT !.pc = "unlock"] /\ running' = running
      BY <2>4 DEF StartCommits, core
    <3>2. starter.pc = "setRunning" => running = None
      BY DEF StartFindsNone
    <3> QED BY <1>2, <1>7, <2>1, <3>1, <3>2 DEF CoreSide, StarterState
  <2>5. CASE StartChecks \/ StartJoins \/ StartUnlocks
    <3>1. /\ box' = box /\ running' = running /\ unsure' = unsure
          /\ starter.pc \notin {"setId", "setRunning"}
      BY <2>5 DEF StartChecks, StartJoins, StartUnlocks, core, shown, history
    <3> QED BY <1>2, <1>7, <2>1, <3>1 DEF CoreSide
  <2> QED BY <1>7, <2>2, <2>3, <2>4, <2>5 DEF StarterStep
<1>8. CASE StopperThread /\ ~RunPosted /\ ~CoreSide
  <2>1. starter' = starter
    BY <1>8 DEF StopperThread, StopAccounts, StopCallOk, StopCallFails, StopCallEnds, StopSetsId,
                StopSetsRunning
  <2>2. CASE StopAccounts
    <3>1. box' = box /\ running' = running /\ unsure' = unsure /\ stopper'.pc \in {"account", "call"}
      BY <2>2 DEF StopAccounts, core, shown, history, StopperState
    <3> QED BY <1>2, <1>8, <2>1, <3>1 DEF CoreSide
  <2>3. CASE StopCallOk
    <3>1. /\ running' = running /\ unsure' = unsure /\ stopper' = [stopper EXCEPT !.pc = "setId"]
          /\ box' = None \/ (box' = box /\ stopper.crash)
      BY <2>3 DEF StopCallOk, StopCallEnds
    <3> QED BY <1>2, <1>8, <2>1, <3>1 DEF CoreSide, StopperState
  <2>4. CASE StopCallFails
    BY <2>4 DEF StopCallFails
  <2>5. CASE StopSetsId
    <3>1. /\ box' = box /\ running' = running /\ unsure' = unsure
          /\ stopper.pc = "setId" /\ stopper' = [stopper EXCEPT !.pc = "setRunning"]
      BY <2>5 DEF StopSetsId, core
    <3> QED BY <1>2, <1>8, <2>1, <3>1 DEF CoreSide, StopperState
  <2>6. CASE StopSetsRunning
    <3>1. /\ box' = box /\ stopper.pc = "setRunning" /\ stopper' = [stopper EXCEPT !.pc = "finish"]
          /\ unsure' = (unsure \/ (stopper.crash /\ ~stopper.manual /\ box # None))
      BY <2>6 DEF StopSetsRunning, core
    <3>2. (box # None /\ ~unsure') => stopper.crash /\ stopper.manual
      BY <3>1
    <3>3. (stopper.crash /\ stopper.manual) => \E i \in DOMAIN ds' : ds'[i].op = "reset"
      BY <1>2, <1>8, <3>1 DEF CoreSide, ResetIsBlocked
    <3> QED BY <3>1, <3>2, <3>3 DEF StopperState
  <2> QED BY <1>8, <2>2, <2>3, <2>4, <2>5, <2>6 DEF StopperThread
<1> QED BY <1>3, <1>4, <1>5, <1>6, <1>7, <1>8, NextCases
-----------------------------------------------------------------------------
LEMMA AlwaysLifeInv == Spec => []LifeInv
<1>1. LifeInv /\ [Next]_vars => LifeInv'
  <2>1. LifeInv /\ [Next]_vars => TypeOK'
    BY StepType DEF LifeInv
  <2> QED BY <2>1, LocksStep, FinishStep, RunningStep, IdStep, ProfileStep, ProxyStep, ResetStep, BoxStep
          DEF LifeInv
<1> QED BY <1>1, InitLifeInv, PTL DEF Spec

(* A start waits for whoever stops: the starter and a stopper never call    *)
(* the core together.                                                       *)
THEOREM StartNeverMeetsStop == Spec => []StartWaitsForStop
<1>1. LifeInv => StartWaitsForStop
  BY DEF LifeInv, StopHasProfile, StartFindsNone, StartWaitsForStop
<1> QED BY <1>1, AlwaysLifeInv, PTL

(* At rest the core runs what the GUI shows, or nothing. *)
THEOREM ShownIsRun == Spec => []CoreRunsShown
<1>1. LifeInv => CoreRunsShown
  BY DEF LifeInv, BoxIsKnown, CoreRunsShown
<1> QED BY <1>1, AlwaysLifeInv, PTL

(* A crash, and whatever follows it, does not lose the profile last started. *)
THEOREM ProfileSurvivesCrash == Spec => []CrashKeepsProfile
<1>1. LifeInv => CrashKeepsProfile
  BY DEF LifeInv, IdIsCommitted
<1> QED BY <1>1, AlwaysLifeInv, PTL

(* The system proxy is not left on without a running profile. *)
THEOREM ProxyFollowsProfile == Spec => []ProxyNeedsProfile
<1>1. LifeInv => ProxyNeedsProfile
  BY DEF LifeInv, ProxyIsLifted
<1> QED BY <1>1, AlwaysLifeInv, PTL
=============================================================================
