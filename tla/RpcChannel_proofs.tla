------------------------- MODULE RpcChannel_proofs -------------------------
(***************************************************************************)
(* Theorems about the IPC channel, for any set of callers and any number   *)
(* of requests and core processes: its types and its waiting calls, then   *)
(* what travels on it.  The response a call returns is its own             *)
(* (OwnResponse), and the channel implements what RpcPromise promises the  *)
(* callers.                                                                *)
(***************************************************************************)
EXTENDS RpcChannel, SequenceTheorems, TLAPS

(* What the types rest on: a caller inside Call() has a request id, the UI  *)
(* thread inside newConnection has a socket, a process that exists has a    *)
(* number.                                                                  *)
Bound ==
    /\ \A c \in Callers : pc[c] # "idle" => rid[c] \in Ids
    /\ ui = "woken" => uiSock \in Gens
    /\ coreState # "down" => gen \in Gens

TypeInv == TypeOK /\ Bound

LEMMA IdFacts == Ids \subseteq Nat \ {0} /\ None \notin Ids /\ None \notin Gens
  BY ChannelAssumption DEF Ids, Gens, None

(* The initial state is well typed. *)
LEMMA InitTypeInv == Init => TypeInv
<1> SUFFICES ASSUME Init PROVE TypeInv
  OBVIOUS
<1>1. NewCall \in Call /\ NoFrame \in Frame /\ 1 \in 1 .. MaxId + 1 /\ 0 \in 0 .. MaxGen
  BY ChannelAssumption DEF NewCall, Call, NoFrame, Frame
<1>2. /\ ioQueue \in Seq(Lambda) /\ readBuf \in Seq(Piece)
      /\ wire \in Seq(Piece) /\ inbox \in Seq(Ids)
  BY DEF Init
<1>3. /\ rec \in [Ids -> Call] /\ rid \in [Callers -> Ids \cup {None}]
      /\ outcome \in [Ids -> {"none", "open", "ok", "error"}]
      /\ goroutine \in [Ids -> {"none", "running", "ok", "failed"}]
  BY <1>1 DEF Init
<1>4. Bound /\ pc \in [Callers -> {"idle", "begun", "registered", "waiting", "expired", "grace"}]
  BY DEF Init, Bound
<1> QED BY <1>1, <1>2, <1>3, <1>4 DEF Init, TypeInv, TypeOK

(* Waking every pending call keeps the PendingCalls well formed. *)
LEMMA WakeType ==
  ASSUME rec \in [Ids -> Call], WakeAllWithError
  PROVE  rec' \in [Ids -> Call] /\ pending' \subseteq Ids
  BY DEF WakeAllWithError, Call

(* Every step of a worker thread keeps the types. *)
LEMMA CallerTypeInv ==
  ASSUME TypeInv, NEW c \in Callers, Begin(c) \/ CallStep(c) \/ TimerStep(c)
  PROVE  TypeInv'
<1> USE ChannelAssumption, IdFacts DEF TypeInv, TypeOK, Bound, guiVars, ioVars, uiVars, coreVars
<1>1. CASE Begin(c)
  BY <1>1 DEF Begin, Ids
<1>2. CASE Register(c)
  <2>1. rec' \in [Ids -> Call] /\ pending' \subseteq Ids
    BY <1>2 DEF Register, NewCall, Call
  <2> QED BY <1>2, <2>1 DEF Register
<1>3. CASE PostWrite(c)
  <2>1. ioQueue' \in Seq(Lambda)
    BY <1>3 DEF PostWrite, Lambda
  <2> QED BY <1>3, <2>1 DEF PostWrite
<1>4. CASE Return(c)
  BY <1>4 DEF Return, Leave, Result
<1>5. CASE ReclaimSlot(c)
  <2>1. /\ outcome' \in [Ids -> {"none", "open", "ok", "error"}]
        /\ pc' \in [Callers -> {"idle", "begun", "registered", "waiting", "expired", "grace"}]
        /\ rid' \in [Callers -> Ids \cup {None}]
        /\ pending' \subseteq Ids
    BY <1>5 DEF ReclaimSlot, Leave
  <2>2. Bound'
    BY <1>5 DEF ReclaimSlot, Leave
  <2> QED BY <1>5, <2>1, <2>2 DEF ReclaimSlot
<1>6. CASE ClaimedByReader(c)
  BY <1>6 DEF ClaimedByReader
<1>7. CASE Expire(c)
  BY <1>7 DEF Expire
<1>8. CASE GraceExpire(c)
  BY <1>8 DEF GraceExpire, Leave
<1> QED BY <1>1, <1>2, <1>3, <1>4, <1>5, <1>6, <1>7, <1>8 DEF CallStep, TimerStep

(* Every step of the I/O thread keeps the types. *)
LEMMA IoTypeInv ==
  ASSUME TypeInv, IoStep
  PROVE  TypeInv'
<1> USE ChannelAssumption, IdFacts DEF TypeInv, TypeOK, Bound, guiVars, ioVars, uiVars, coreVars
<1>1. CASE RunWrite
  <2>1. Head(ioQueue) \in Lambda /\ Tail(ioQueue) \in Seq(Lambda)
    BY <1>1, HeadTailProperties DEF RunWrite
  <2>2. Head(ioQueue).id \in Ids
    BY <1>1, <2>1 DEF RunWrite, Lambda
  <2> QED BY <1>1, <2>1, <2>2 DEF RunWrite
<1>2. CASE RunSwap
  <2>1. Head(ioQueue) \in Lambda /\ Tail(ioQueue) \in Seq(Lambda)
    BY <1>2, HeadTailProperties DEF RunSwap
  <2>2. Head(ioQueue).id \in Gens
    BY <1>2, <2>1 DEF RunSwap, Lambda
  <2>3. readBuf' \in Seq(Piece) /\ wire' \in Seq(Piece)
    BY <1>2 DEF RunSwap
  <2> QED BY <1>2, <2>1, <2>2, <2>3 DEF RunSwap
<1>3. CASE OnReadyRead
  <2>1. PICK n \in 1 .. Len(wire) : /\ readBuf' = readBuf \o SubSeq(wire, 1, n)
                                    /\ wire' = SubSeq(wire, n + 1, Len(wire))
    BY <1>3 DEF OnReadyRead
  <2>2. SubSeq(wire, 1, n) \in Seq(Piece) /\ SubSeq(wire, n + 1, Len(wire)) \in Seq(Piece)
    BY SubSeqProperties, ElementOfSeq, LenProperties
  <2>3. readBuf' \in Seq(Piece) /\ wire' \in Seq(Piece)
    BY <2>1, <2>2, ConcatProperties
  <2> QED BY <1>3, <2>3 DEF OnReadyRead
<1>4. CASE TakeFrame
  <2>1. SubSeq(readBuf, 3, Len(readBuf)) \in Seq(Piece)
    BY SubSeqProperties, ElementOfSeq, LenProperties
  <2>2. readBuf[1] \in Piece /\ readBuf[2] \in Piece
    BY <1>4, ElementOfSeq, LenProperties DEF TakeFrame
  <2> DEFINE frame == [id |-> readBuf[1].id, status |-> readBuf[1].status, data |-> readBuf[2].id]
  <2>3a. frame \in Frame
    BY <2>2 DEF Piece, Frame
  <2>3. taken' \in Frame /\ pending' \subseteq Ids /\ io' \in {"parsing", "completing"}
    BY <1>4, <2>3a DEF TakeFrame
  <2> QED BY <1>4, <2>1, <2>3 DEF TakeFrame
<1>5. CASE CompleteCall
  <2>1. rec' \in [Ids -> Call] /\ taken' \in Frame
    BY <1>5 DEF CompleteCall, Call, Frame, NoFrame
  <2> QED BY <1>5, <2>1 DEF CompleteCall
<1>6. CASE StopParsing
  BY <1>6 DEF StopParsing
<1>7. CASE OnDisconnected
  BY <1>7, WakeType DEF OnDisconnected
<1> QED BY <1>1, <1>2, <1>3, <1>4, <1>5, <1>6, <1>7 DEF IoStep

(* Every step of the UI thread and of the core process keeps the types. *)
LEMMA CoreTypeInv ==
  ASSUME TypeInv, Reconnect \/ UiStep \/ StartCore \/ CoreDies \/ NoticeExit \/ CoreStep
  PROVE  TypeInv'
<1> USE ChannelAssumption, IdFacts DEF TypeInv, TypeOK, Bound, guiVars, ioVars, uiVars, coreVars
<1>1. CASE Reconnect
  BY <1>1, WakeType DEF Reconnect
<1>2. CASE PostSwap
  <2>1. ioQueue' \in Seq(Lambda)
    BY <1>2 DEF PostSwap, Lambda
  <2> QED BY <1>2, <2>1 DEF PostSwap
<1>3. CASE PublishCoreRunning
  BY <1>3 DEF PublishCoreRunning
<1>4. CASE StartCore
  <2>1. gen' \in Gens /\ gen' \in 0 .. MaxGen
    BY <1>4 DEF StartCore, Gens
  <2> QED BY <1>4, <2>1 DEF StartCore
<1>5. CASE CoreDies
  <2>1. wire' \in Seq(Piece)
    BY <1>5, SubSeqProperties, ElementOfSeq, LenProperties DEF CoreDies
  <2> QED BY <1>5, <2>1 DEF CoreDies
<1>6. CASE NoticeExit
  BY <1>6 DEF NoticeExit
<1>7. CASE Dispatch
  <2>1. Head(inbox) \in Ids /\ Tail(inbox) \in Seq(Ids)
    BY <1>7, HeadTailProperties DEF Dispatch
  <2> QED BY <1>7, <2>1 DEF Dispatch
<1>8. ASSUME NEW i \in Ids, Execute(i) \/ WriteHeader(i) \/ WriteData(i)
      PROVE  TypeInv'
  <2>1. CASE Execute(i)
    BY <2>1 DEF Execute
  <2>2. CASE WriteHeader(i)
    <3>1. wire' \in Seq(Piece)
      BY <2>2 DEF WriteHeader, Piece
    <3> QED BY <2>2, <3>1 DEF WriteHeader
  <2>3. CASE WriteData(i)
    <3>1. wire' \in Seq(Piece)
      BY <2>3 DEF WriteData, Piece
    <3> QED BY <2>3, <3>1 DEF WriteData
  <2> QED BY <1>8, <2>1, <2>2, <2>3
<1> QED BY <1>1, <1>2, <1>3, <1>4, <1>5, <1>6, <1>7, <1>8 DEF UiStep, CoreStep

LEMMA StutterTypeInv == TypeInv /\ UNCHANGED vars => TypeInv'
  BY DEF TypeInv, TypeOK, Bound, vars, guiVars, ioVars, uiVars, coreVars

LEMMA StepTypeInv == TypeInv /\ [Next]_vars => TypeInv'
  BY CallerTypeInv, IoTypeInv, CoreTypeInv, StutterTypeInv DEF Next

LEMMA AlwaysTypeInv == Spec => []TypeInv
  BY InitTypeInv, StepTypeInv, PTL DEF Spec

(* The channel's variables keep their types in every behaviour. *)
THEOREM TypeCorrect == Spec => []TypeOK
  BY AlwaysTypeInv, PTL DEF TypeInv

-----------------------------------------------------------------------------
(***************************************************************************)
(* Slots and wake-ups.  The inductive invariant says where the slot of a   *)
(* call is at each point of the call: ids are never shared by two callers  *)
(* and never reused; a call that has not begun to register is unknown to   *)
(* the reader; from then on, until it is done, its slot is in the map or   *)
(* in the hands of processBuffer, and never in both.                       *)
(***************************************************************************)
Waits == {"registered", "waiting", "expired"}

IdsAreOwn ==
    /\ \A c \in Callers : pc[c] = "idle" => rid[c] = None
    /\ \A c \in Callers : rid[c] # None => rid[c] < nextId
    /\ \A c, d \in Callers : rid[c] = rid[d] /\ rid[c] # None => c = d

SlotIsTracked ==
    \A c \in Callers :
       pc[c] \in Waits \cup {"grace"} /\ ~rec[rid[c]].done =>
          rid[c] \in pending \/ taken.id = rid[c]

GraceHasNoSlot == \A c \in Callers : pc[c] = "grace" => rid[c] \notin pending

SlotHasOwner ==
    \A i \in pending :
       /\ ~rec[i].done
       /\ i # taken.id
       /\ \E c \in Callers : rid[c] = i /\ pc[c] \in Waits

(* A frame is in hand exactly while the reader completes a call, which was  *)
(* registered before.                                                       *)
TakenIsRegistered ==
    /\ (io = "completing") <=> taken.id # None
    /\ \A c \in Callers : pc[c] = "begun" => rid[c] # taken.id
    /\ taken.id < nextId

SlotInv ==
    /\ TypeInv
    /\ IdsAreOwn /\ SlotIsTracked /\ GraceHasNoSlot /\ SlotHasOwner /\ TakenIsRegistered

LEMMA InitSlotInv == Init => SlotInv
  BY InitTypeInv, IdFacts
  DEF Init, SlotInv, IdsAreOwn, SlotIsTracked, GraceHasNoSlot, SlotHasOwner,
      TakenIsRegistered, NoFrame, None, Waits

(* Waking every pending call marks it done and frees its slot at once. *)
LEMMA WakeSlotInv ==
  ASSUME SlotInv, TypeInv', WakeAllWithError, UNCHANGED <<pc, rid, nextId, io, taken>>
  PROVE  SlotInv'
<1> USE DEF SlotInv, TypeInv, TypeOK
<1>1. IdsAreOwn' /\ TakenIsRegistered'
  BY DEF IdsAreOwn, TakenIsRegistered
<1>2. SlotIsTracked'
  BY DEF SlotIsTracked, WakeAllWithError, Waits, Bound, Call
<1>3. GraceHasNoSlot' /\ SlotHasOwner'
  BY DEF GraceHasNoSlot, SlotHasOwner, WakeAllWithError
<1> QED BY <1>1, <1>2, <1>3

(* A caller that leaves Call() without a slot disturbs nobody else's. *)
LEMMA LeaveSlotInv ==
  ASSUME SlotInv, TypeInv', NEW c \in Callers, NEW r, Leave(c, r), pc[c] # "idle",
         pending' = pending \ {rid[c]}, UNCHANGED <<rec, nextId, io, taken>>
  PROVE  SlotInv'
<1> USE IdFacts DEF SlotInv, TypeInv, TypeOK, Leave
<1>1. IdsAreOwn'
  BY DEF IdsAreOwn
<1>2. SlotIsTracked'
  BY DEF SlotIsTracked, IdsAreOwn, Waits, Bound
<1>3. GraceHasNoSlot'
  BY DEF GraceHasNoSlot
<1>4. SlotHasOwner'
  BY DEF SlotHasOwner, Bound
<1>5. TakenIsRegistered'
  BY DEF TakenIsRegistered
<1> QED BY <1>1, <1>2, <1>3, <1>4, <1>5

LEMMA TakenIsId == TypeOK => taken.id \in Ids \cup {None} /\ taken.id \in Nat /\ None \in Nat
<1> SUFFICES ASSUME TypeOK PROVE taken.id \in Ids \cup {None} /\ taken.id \in Nat /\ None \in Nat
  OBVIOUS
<1>1. taken.id \in Ids \cup {None}
  BY DEF TypeOK, Frame
<1>2. None \in Nat
  BY DEF None
<1> QED BY <1>1, <1>2, IdFacts

LEMMA CallerSlotInv ==
  ASSUME SlotInv, TypeInv', NEW c \in Callers, Begin(c) \/ CallStep(c) \/ TimerStep(c)
  PROVE  SlotInv'
<1> USE IdFacts DEF SlotInv, TypeInv, TypeOK, guiVars, ioVars
<1>1. CASE Begin(c)
  <2>0. nextId \in Ids /\ nextId' = nextId + 1 /\ \A d \in Callers : rid[d] \in Nat
    BY <1>1, ChannelAssumption DEF Begin, Ids, None
  <2>1. IdsAreOwn'
    BY <1>1, <2>0 DEF IdsAreOwn, Begin, Ids
  <2>2. SlotIsTracked' /\ GraceHasNoSlot'
    BY <1>1 DEF SlotIsTracked, GraceHasNoSlot, Begin, Waits
  <2>3. SlotHasOwner'
    BY <1>1 DEF SlotHasOwner, Begin, Waits
  <2>4. TakenIsRegistered'
    <3>1. taken.id \in Nat
      BY TakenIsId
    <3> QED BY <1>1, <2>0, <3>1 DEF TakenIsRegistered, Begin, Ids
  <2> QED BY <2>1, <2>2, <2>3, <2>4
<1>2. CASE Register(c)
  <2>0. rid[c] \in Ids
    BY <1>2 DEF Register, Bound
  <2>1. IdsAreOwn' /\ TakenIsRegistered'
    BY <1>2 DEF IdsAreOwn, TakenIsRegistered, Register
  <2>2. SlotIsTracked'
    BY <1>2, <2>0 DEF SlotIsTracked, IdsAreOwn, Register, Waits, Bound
  <2>3. GraceHasNoSlot'
    BY <1>2, <2>0 DEF GraceHasNoSlot, IdsAreOwn, Register
  <2>4. SlotHasOwner'
    BY <1>2, <2>0 DEF SlotHasOwner, TakenIsRegistered, Register, Waits, NewCall, Call
  <2> QED BY <2>1, <2>2, <2>3, <2>4
<1>3. CASE PostWrite(c) \/ Expire(c)
  <2>1. IdsAreOwn' /\ TakenIsRegistered'
    BY <1>3 DEF IdsAreOwn, TakenIsRegistered, PostWrite, Expire
  <2>2. SlotIsTracked' /\ GraceHasNoSlot'
    BY <1>3 DEF SlotIsTracked, GraceHasNoSlot, PostWrite, Expire, Waits
  <2>3. SlotHasOwner'
    <3>1. /\ UNCHANGED <<pending, rec, rid, taken>>
          /\ pc' = [pc EXCEPT ![c] = pc'[c]] /\ pc[c] \in Waits /\ pc'[c] \in Waits
      BY <1>3 DEF PostWrite, Expire, Waits
    <3>2. \A d \in Callers : pc[d] \in Waits => pc'[d] \in Waits
      BY <3>1
    <3> QED BY <3>1, <3>2 DEF SlotHasOwner
  <2> QED BY <2>1, <2>2, <2>3
<1>4. CASE Return(c)
  <2>1. rid[c] \notin pending
    BY <1>4 DEF Return, SlotHasOwner
  <2>2. pending' = pending \ {rid[c]} /\ pc[c] # "idle" /\ UNCHANGED <<rec, nextId, io, taken>>
    BY <1>4, <2>1 DEF Return
  <2> QED BY <1>4, <2>2, LeaveSlotInv DEF Return
<1>5. CASE ReclaimSlot(c)
  <2>1. pending' = pending \ {rid[c]} /\ pc[c] # "idle" /\ UNCHANGED <<rec, nextId, io, taken>>
    BY <1>5 DEF ReclaimSlot
  <2> QED BY <1>5, <2>1, LeaveSlotInv DEF ReclaimSlot
<1>6. CASE ClaimedByReader(c)
  <2>1. IdsAreOwn' /\ TakenIsRegistered'
    BY <1>6 DEF IdsAreOwn, TakenIsRegistered, ClaimedByReader
  <2>2. SlotIsTracked' /\ GraceHasNoSlot'
    BY <1>6 DEF SlotIsTracked, GraceHasNoSlot, ClaimedByReader, Waits
  <2>3. SlotHasOwner'
    BY <1>6 DEF SlotHasOwner, ClaimedByReader, Waits
  <2> QED BY <2>1, <2>2, <2>3
<1>7. CASE GraceExpire(c)
  <2>1. rid[c] \notin pending
    BY <1>7 DEF GraceExpire, GraceHasNoSlot
  <2>2. pending' = pending \ {rid[c]} /\ pc[c] # "idle" /\ UNCHANGED <<rec, nextId, io, taken>>
    BY <1>7, <2>1 DEF GraceExpire
  <2> QED BY <1>7, <2>2, LeaveSlotInv DEF GraceExpire
<1> QED BY <1>1, <1>2, <1>3, <1>4, <1>5, <1>6, <1>7 DEF CallStep, TimerStep

(* Steps that touch neither a slot nor a caller. *)
LEMMA QuietSlotInv ==
  ASSUME SlotInv, TypeInv', UNCHANGED <<pending, rec, pc, rid, nextId, io, taken>>
  PROVE  SlotInv'
  BY DEF SlotInv, IdsAreOwn, SlotIsTracked, GraceHasNoSlot, SlotHasOwner, TakenIsRegistered

(* The reader starts or stops parsing with no frame in hand. *)
LEMMA ParseSlotInv ==
  ASSUME SlotInv, TypeInv', OnReadyRead \/ StopParsing
  PROVE  SlotInv'
  BY DEF SlotInv, IdsAreOwn, SlotIsTracked, GraceHasNoSlot, SlotHasOwner, TakenIsRegistered,
         OnReadyRead, StopParsing, guiVars

LEMMA TakeSlotInv ==
  ASSUME SlotInv, TypeInv', TakeFrame
  PROVE  SlotInv'
<1> USE IdFacts DEF SlotInv, TypeInv, TypeOK
<1>1. CASE readBuf[1].id \notin pending
  BY <1>1, QuietSlotInv DEF TakeFrame
<1>2. CASE readBuf[1].id \in pending
  <2> DEFINE i == readBuf[1].id
  <2>1. /\ i \in pending /\ i \in Ids /\ pending' = pending \ {i} /\ taken'.id = i
        /\ io' = "completing" /\ taken.id = None
        /\ UNCHANGED <<rec, pc, rid, nextId>>
    <3>1. io = "parsing" /\ taken.id = None
      BY DEF TakeFrame, TakenIsRegistered
    <3>2. i \in pending /\ i \in Ids
      BY <1>2
    <3>3. /\ pending' = pending \ {i} /\ io' = "completing"
          /\ taken' = [id |-> i, status |-> readBuf[1].status, data |-> readBuf[2].id]
      BY <1>2 DEF TakeFrame
    <3>4. UNCHANGED <<rec, pc, rid, nextId>>
      BY DEF TakeFrame
    <3> HIDE DEF i
    <3> QED BY <3>1, <3>2, <3>3, <3>4
  <2>2. PICK o \in Callers : rid[o] = i /\ pc[o] \in Waits
    BY <2>1 DEF SlotHasOwner
  <2> HIDE DEF i
  <2>3. IdsAreOwn' /\ GraceHasNoSlot'
    BY <2>1 DEF IdsAreOwn, GraceHasNoSlot
  <2>4. SlotIsTracked'
    BY <2>1 DEF SlotIsTracked, Waits, Bound
  <2>5. SlotHasOwner'
    BY <2>1 DEF SlotHasOwner
  <2>6. TakenIsRegistered'
    BY <2>1, <2>2 DEF TakenIsRegistered, IdsAreOwn, Waits
  <2> QED BY <2>3, <2>4, <2>5, <2>6
<1> QED BY <1>1, <1>2

LEMMA CompleteSlotInv ==
  ASSUME SlotInv, TypeInv', CompleteCall
  PROVE  SlotInv'
<1> USE IdFacts DEF SlotInv, TypeInv, TypeOK, CompleteCall
<1>1. taken.id \in Ids /\ taken'.id = None /\ rec'[taken.id].done
  BY DEF TakenIsRegistered, Frame, NoFrame
<1>2. \A j \in Ids : j # taken.id => rec'[j] = rec[j]
  OBVIOUS
<1>3. IdsAreOwn' /\ GraceHasNoSlot'
  BY DEF IdsAreOwn, GraceHasNoSlot
<1>4. SlotIsTracked'
  BY <1>1, <1>2 DEF SlotIsTracked, Waits, Bound
<1>5. SlotHasOwner'
  BY <1>1, <1>2 DEF SlotHasOwner
<1>6. TakenIsRegistered'
  BY <1>1, ChannelAssumption DEF TakenIsRegistered, None, Bound
<1> QED BY <1>3, <1>4, <1>5, <1>6

LEMMA StepSlotInv == SlotInv /\ [Next]_vars => SlotInv'
<1> SUFFICES ASSUME SlotInv, [Next]_vars PROVE SlotInv'
  OBVIOUS
<1>1. TypeInv'
  BY StepTypeInv DEF SlotInv
<1>2. ASSUME NEW c \in Callers, Begin(c) \/ CallStep(c) \/ TimerStep(c) PROVE SlotInv'
  BY <1>1, <1>2, CallerSlotInv
<1>3. CASE IoStep
  <2>1. CASE RunWrite \/ RunSwap
    BY <1>1, <2>1, QuietSlotInv DEF RunWrite, RunSwap, guiVars
  <2>2. CASE OnDisconnected
    BY <1>1, <2>2, WakeSlotInv DEF OnDisconnected
  <2> QED BY <1>1, <1>3, <2>1, <2>2, ParseSlotInv, TakeSlotInv, CompleteSlotInv DEF IoStep
<1>4. CASE Reconnect
  BY <1>1, <1>4, WakeSlotInv DEF Reconnect, ioVars
<1>5. CASE UiStep \/ StartCore \/ CoreDies \/ NoticeExit
  BY <1>1, <1>5, QuietSlotInv
  DEF UiStep, PostSwap, PublishCoreRunning, StartCore, CoreDies, NoticeExit, guiVars, ioVars
<1>6. CASE CoreStep
  BY <1>1, <1>6, QuietSlotInv
  DEF CoreStep, Dispatch, Execute, WriteHeader, WriteData, guiVars, ioVars
<1>7. CASE UNCHANGED vars
  BY <1>1, <1>7, QuietSlotInv DEF vars, guiVars, ioVars
<1> QED BY <1>2, <1>3, <1>4, <1>5, <1>6, <1>7 DEF Next

LEMMA AlwaysSlotInv == Spec => []SlotInv
  BY InitSlotInv, StepSlotInv, PTL DEF Spec

(* No wake-up is lost: whatever the core does and whichever thread runs,    *)
(* the slot of a waiting call is in the map or in the reader's hands.       *)
THEOREM NoLostWakeup == Spec => []WaitingIsReachable
<1>1. SlotInv => WaitingIsReachable
  BY DEF SlotInv, SlotIsTracked, WaitingIsReachable, Waits
<1> QED BY <1>1, AlwaysSlotInv, PTL

(* No slot is left behind by a call that has ended. *)
THEOREM NoLeakedSlot == Spec => []PendingIsOwned
<1>1. SlotInv => PendingIsOwned
  BY DEF SlotInv, SlotHasOwner, PendingIsOwned, Waits
<1> QED BY <1>1, AlwaysSlotInv, PTL

(* A timed-out call waits a second time only for a response in hand. *)
THEOREM GraceIsJustified == Spec => []GraceHasResponse
<1>1. SlotInv => GraceHasResponse
  BY DEF SlotInv, SlotIsTracked, GraceHasNoSlot, GraceHasResponse
<1> QED BY <1>1, AlwaysSlotInv, PTL

-----------------------------------------------------------------------------
(* What travels on the channel.                                            *)

(* What the core wrote on the current connection and the I/O thread has    *)
(* not parsed.                                                             *)
Stream == readBuf \o wire

(* A request that is queued, sent or served belongs to a call that was     *)
(* made, and a caller inside Call() has not been told anything.            *)
RequestsAreAsked ==
    /\ \A i \in Ids : i >= nextId => outcome[i] = "none"
    /\ \A c \in Callers : pc[c] # "idle" => outcome[rid[c]] = "open"
    /\ \A k \in 1 .. Len(ioQueue) : ioQueue[k].op = "write" => outcome[ioQueue[k].id] # "none"
    /\ \A k \in 1 .. Len(inbox) : outcome[inbox[k]] # "none"
    /\ \A i \in Ids : goroutine[i] # "none" => outcome[i] # "none"

(* A response, wherever it is, comes from the execution of its request.    *)
AnswersAreServed ==
    /\ \A i \in Ids : goroutine[i] \in {"ok", "failed"} => i \in served
    /\ \A k \in 1 .. Len(Stream) : Stream[k].id \in served
    /\ taken.id # None => taken.id \in served /\ taken.data = taken.id
    /\ \A i \in Ids : rec[i].status = 0 => rec[i].data = i /\ i \in served
    /\ \A i \in Ids : outcome[i] = "ok" => rec[i].data = i /\ i \in served

(* Sockets are installed in the order of their cores, each once: no swap   *)
(* in the queue leads back to the socket in use or to an older one.        *)
SwapsAscend ==
    /\ sock <= gen
    /\ \A k \in 1 .. Len(ioQueue) : ioQueue[k].op = "swap" =>
          /\ sock < ioQueue[k].id /\ ioQueue[k].id <= gen
          /\ \A l \in 1 .. Len(ioQueue) :
                l < k /\ ioQueue[l].op = "swap" => ioQueue[l].id < ioQueue[k].id
          /\ ui = "woken" => ioQueue[k].id < uiSock
          /\ coreState = "up" /\ ~accepted => ioQueue[k].id < gen
    /\ ui = "woken" => sock < uiSock /\ uiSock <= gen
    /\ ui = "woken" /\ coreState = "up" /\ ~accepted => uiSock < gen
    /\ coreState = "up" /\ ~accepted => sock < gen

(* Only the core at the other end of the socket in use has something to do. *)
OnlyLiveWrites ==
    inbox # << >> \/ writer # None \/ (\E i \in Ids : goroutine[i] # "none") => SockOpen

(* While that core lives, the stream ends inside a frame exactly while its *)
(* goroutine holds writeMu.                                                *)
FrameInProgress ==
    SockOpen =>
        /\ writer = None => Len(Stream) % 2 = 0
        /\ writer # None => Len(Stream) % 2 = 1 /\ Stream[Len(Stream)].id = writer

StreamInv ==
    /\ SlotInv /\ RequestsAreAsked /\ AnswersAreServed
    /\ SwapsAscend /\ OnlyLiveWrites /\ FrameInProgress /\ FramesAreWhole
-----------------------------------------------------------------------------
(* The shapes a step gives the stream. *)

StreamCut ==
    /\ Len(Stream') <= Len(Stream)
    /\ \A k \in 1 .. Len(Stream') : Stream'[k] = Stream[k]

StreamAdvanced ==
    /\ Len(Stream) >= 2 /\ Len(Stream') = Len(Stream) - 2
    /\ \A k \in 1 .. Len(Stream') : Stream'[k] = Stream[k + 2]

StreamGrew(p) ==
    /\ Len(Stream') = Len(Stream) + 1
    /\ \A k \in 1 .. Len(Stream) : Stream'[k] = Stream[k]
    /\ Stream'[Len(Stream) + 1] = p

(* What s is when it is r followed by w. *)
Joins(s, r, w) ==
    /\ s \in Seq(Piece) /\ Len(s) = Len(r) + Len(w)
    /\ Len(s) \in Nat /\ Len(r) \in Nat /\ Len(w) \in Nat
    /\ \A k \in 1 .. Len(r) : s[k] = r[k]
    /\ \A k \in 1 .. Len(w) : s[Len(r) + k] = w[k]
    /\ \A k \in 1 .. Len(s) : s[k] \in Piece /\ s[k].id \in Ids

LEMMA JoinFacts ==
  ASSUME NEW r \in Seq(Piece), NEW w \in Seq(Piece)
  PROVE  Joins(r \o w, r, w)
<1>1. /\ r \o w \in Seq(Piece) /\ Len(r \o w) = Len(r) + Len(w)
      /\ \A k \in 1 .. Len(r) + Len(w) :
            (r \o w)[k] = IF k <= Len(r) THEN r[k] ELSE w[k - Len(r)]
  BY ConcatProperties
<1>2. Len(r \o w) \in Nat /\ Len(r) \in Nat /\ Len(w) \in Nat
  BY <1>1, LenProperties
<1>3. \A k \in 1 .. Len(r \o w) : (r \o w)[k] \in Piece
  BY <1>1, ElementOfSeq
<1>4. \A k \in 1 .. Len(r \o w) : (r \o w)[k].id \in Ids
  BY <1>3 DEF Piece
<1>5. \A k \in 1 .. Len(r) : (r \o w)[k] = r[k]
  BY <1>1, <1>2
<1>6. ASSUME NEW k \in 1 .. Len(w) PROVE (r \o w)[Len(r) + k] = w[k]
  <2>1. Len(r) + k \in 1 .. Len(r) + Len(w) /\ ~(Len(r) + k <= Len(r)) /\ Len(r) + k - Len(r) = k
    BY <1>2
  <2> QED BY <1>1, <2>1
<1> QED BY <1>1, <1>2, <1>3, <1>4, <1>5, <1>6 DEF Joins

(* A position of s is one of r or one of w. *)
LEMMA JoinCases ==
  ASSUME NEW s, NEW r, NEW w, Joins(s, r, w), NEW k \in 1 .. Len(s)
  PROVE  \/ k \in 1 .. Len(r)
         \/ \E i \in 1 .. Len(w) : k = Len(r) + i
<1>1. Len(s) = Len(r) + Len(w) /\ Len(r) \in Nat /\ Len(w) \in Nat BY DEF Joins
<1>2. CASE k > Len(r)
  <2>1. k - Len(r) \in 1 .. Len(w) /\ k = Len(r) + (k - Len(r)) BY <1>1, <1>2
  <2> QED BY <2>1
<1> QED BY <1>1, <1>2

LEMMA StreamFacts == ASSUME TypeOK PROVE Joins(Stream, readBuf, wire)
BY JoinFacts DEF TypeOK, Stream

LEMMA NextStreamFacts == ASSUME TypeOK' PROVE Joins(Stream', readBuf', wire')
BY JoinFacts DEF TypeOK, Stream

LEMMA StreamIsKept ==
  ASSUME TypeOK, UNCHANGED <<readBuf, wire>>
  PROVE  Stream' = Stream /\ StreamCut
<1>1. Stream' = Stream BY DEF Stream
<1>2. Len(Stream) \in Nat BY StreamFacts DEF Joins
<1> QED BY <1>1, <1>2 DEF StreamCut

(* Reading moves bytes from the wire to the buffer and changes nothing.    *)
LEMMA StreamIsRead ==
  ASSUME TypeOK, TypeOK', OnReadyRead
  PROVE  Len(Stream') = Len(Stream) /\ StreamCut
<1>1. PICK n \in 1 .. Len(wire) : /\ readBuf' = readBuf \o SubSeq(wire, 1, n)
                                  /\ wire' = SubSeq(wire, n + 1, Len(wire))
  BY DEF OnReadyRead
<1>2. readBuf \in Seq(Piece) /\ wire \in Seq(Piece) /\ Len(wire) \in Nat /\ Len(readBuf) \in Nat
  BY LenProperties DEF TypeOK
<1> DEFINE read == SubSeq(wire, 1, n)
           rest == SubSeq(wire, n + 1, Len(wire))
<1>3. read \in Seq(Piece) /\ rest \in Seq(Piece)
  BY <1>2, SubSeqProperties, ElementOfSeq
<1>4. wire = read \o rest
  <2>1. 1 \in 1 .. Len(wire) + 1 /\ n \in 1 - 1 .. Len(wire) /\ Len(wire) \in n .. Len(wire)
    BY <1>2
  <2>2. read \o rest = SubSeq(wire, 1, Len(wire)) BY <1>2, <2>1, ConcatAdjacentSubSeq
  <2> QED BY <1>2, <2>2, SubSeqFull
<1>5. readBuf' = readBuf \o read /\ wire' = rest BY <1>1
<1> HIDE DEF read, rest
<1>6. Stream' = Stream BY <1>2, <1>3, <1>4, <1>5, ConcatAssociative DEF Stream
<1>7. Len(Stream) \in Nat BY StreamFacts DEF Joins
<1> QED BY <1>6, <1>7 DEF StreamCut

LEMMA StreamIsDropped ==
  ASSUME TypeOK, RunSwap
  PROVE  Len(Stream') = 0 /\ StreamCut
<1>1. Stream' = << >> /\ Len(Stream') = 0
  <2>1. Stream' = << >> \o << >> BY DEF RunSwap, Stream
  <2> QED BY <2>1, ConcatEmptySeq, EmptySeq
<1>2. Len(Stream) \in Nat BY StreamFacts DEF Joins
<1> QED BY <1>1, <1>2 DEF StreamCut

LEMMA StreamIsCut ==
  ASSUME TypeOK, TypeOK', CoreDies
  PROVE  StreamCut
<1>1. PICK n \in 0 .. Len(wire) : wire' = SubSeq(wire, 1, n) BY DEF CoreDies
<1>2. readBuf \in Seq(Piece) /\ wire \in Seq(Piece) /\ Len(wire) \in Nat /\ readBuf' = readBuf
  BY LenProperties DEF TypeOK, CoreDies, ioVars
<1>3. Len(wire') = n /\ \A i \in 1 .. n : wire'[i] = wire[i]
  <2>1. \A i \in 1 .. n : wire[i] \in Piece BY <1>2, ElementOfSeq
  <2> QED BY <1>1, <1>2, <2>1, SubSeqProperties
<1>4. Joins(Stream, readBuf, wire) /\ Joins(Stream', readBuf', wire')
  BY StreamFacts, NextStreamFacts
<1>5. Len(Stream') <= Len(Stream) BY <1>2, <1>3, <1>4 DEF Joins
<1>6. ASSUME NEW k \in 1 .. Len(Stream') PROVE Stream'[k] = Stream[k]
  <2>1. CASE k \in 1 .. Len(readBuf) BY <1>2, <1>4, <2>1 DEF Joins
  <2>2. ASSUME NEW i \in 1 .. Len(wire'), k = Len(readBuf') + i PROVE Stream'[k] = Stream[k]
    <3>1. Stream'[k] = wire'[i] BY <1>4, <2>2 DEF Joins
    <3>2. wire'[i] = wire[i] /\ i \in 1 .. Len(wire) BY <1>2, <1>3
    <3>3. k = Len(readBuf) + i BY <1>2, <2>2
    <3> QED BY <1>4, <3>1, <3>2, <3>3 DEF Joins
  <2>3. k \in 1 .. Len(readBuf') \/ \E i \in 1 .. Len(wire') : k = Len(readBuf') + i
    BY <1>4, JoinCases
  <2> QED BY <1>2, <2>1, <2>2, <2>3
<1> QED BY <1>5, <1>6 DEF StreamCut

LEMMA StreamIsAdvanced ==
  ASSUME TypeOK, TypeOK', TakeFrame
  PROVE  StreamAdvanced
<1>1. readBuf \in Seq(Piece) /\ Len(readBuf) \in Nat /\ Len(wire) \in Nat /\ Len(readBuf) >= 2
      /\ readBuf' = SubSeq(readBuf, 3, Len(readBuf)) /\ wire' = wire
  BY LenProperties DEF TypeOK, TakeFrame, coreVars
<1>2. Len(readBuf') = Len(readBuf) - 2
      /\ \A i \in 1 .. Len(readBuf) - 2 : readBuf'[i] = readBuf[i + 2]
  <2>1. \A i \in 3 .. Len(readBuf) : readBuf[i] \in Piece BY <1>1, ElementOfSeq
  <2>2. /\ Len(readBuf') = IF 3 <= Len(readBuf) THEN Len(readBuf) - 3 + 1 ELSE 0
        /\ \A i \in 1 .. Len(readBuf) - 3 + 1 : readBuf'[i] = readBuf[3 + i - 1]
    BY <1>1, <2>1, SubSeqProperties
  <2>3. ASSUME NEW i \in 1 .. Len(readBuf) - 2 PROVE readBuf'[i] = readBuf[i + 2]
    <3>1. i \in 1 .. Len(readBuf) - 3 + 1 /\ 3 + i - 1 = i + 2 BY <1>1
    <3> QED BY <2>2, <3>1
  <2>4. Len(readBuf') = Len(readBuf) - 2
    <3>1. CASE 3 <= Len(readBuf)
      <4>1. Len(readBuf') = Len(readBuf) - 3 + 1 BY <2>2, <3>1
      <4>2. Len(readBuf) \in Nat BY <1>1
      <4> QED BY <4>1, <4>2
    <3>2. CASE ~(3 <= Len(readBuf))
      <4>1. Len(readBuf) = 2
        <5>1. Len(readBuf) \in Nat /\ Len(readBuf) >= 2 BY <1>1
        <5> QED BY <3>2, <5>1
      <4>2. Len(readBuf') = 0 BY <2>2, <3>2
      <4> QED BY <4>1, <4>2
    <3> QED BY <3>1, <3>2
  <2> QED BY <2>3, <2>4
<1>3. Joins(Stream, readBuf, wire) /\ Joins(Stream', readBuf', wire')
  BY StreamFacts, NextStreamFacts
<1>4. Len(Stream) >= 2 /\ Len(Stream') = Len(Stream) - 2
  BY <1>1, <1>2, <1>3 DEF Joins
<1>5. ASSUME NEW k \in 1 .. Len(Stream') PROVE Stream'[k] = Stream[k + 2]
  <2>1. CASE k \in 1 .. Len(readBuf')
    <3>1. k \in 1 .. Len(readBuf) - 2 /\ k + 2 \in 1 .. Len(readBuf) BY <1>1, <1>2, <2>1
    <3> QED BY <1>2, <1>3, <2>1, <3>1 DEF Joins
  <2>2. ASSUME NEW i \in 1 .. Len(wire'), k = Len(readBuf') + i PROVE Stream'[k] = Stream[k + 2]
    <3>1. k + 2 = Len(readBuf) + i BY <1>1, <1>2, <2>2
    <3> QED BY <1>1, <1>3, <2>2, <3>1 DEF Joins
  <2> QED BY <1>3, <2>1, <2>2, JoinCases
<1> QED BY <1>4, <1>5 DEF StreamAdvanced

LEMMA StreamIsWritten ==
  ASSUME TypeOK, TypeOK', NEW p \in Piece, wire' = Append(wire, p), readBuf' = readBuf
  PROVE  StreamGrew(p)
<1>1. readBuf \in Seq(Piece) /\ wire \in Seq(Piece) BY DEF TypeOK
<1>2. Stream' = Append(Stream, p)
  <2>1. wire' = wire \o <<p>> /\ <<p>> \in Seq(Piece) BY <1>1, AppendIsConcat
  <2>2. Stream' = Stream \o <<p>> BY <1>1, <2>1, ConcatAssociative DEF Stream
  <2>3. Stream \in Seq(Piece) BY StreamFacts DEF Joins
  <2> QED BY <2>2, <2>3, AppendIsConcat
<1>3. Stream \in Seq(Piece) BY StreamFacts DEF Joins
<1> QED BY <1>2, <1>3, AppendProperties DEF StreamGrew
-----------------------------------------------------------------------------
(* Frames stay whole. *)

Whole(s) ==
    \A k \in 1 .. Len(s) :
       IF k % 2 = 1 THEN s[k].part = "head"
       ELSE s[k].part = "data" /\ s[k].id = s[k - 1].id

LEMMA WholeStream == (FramesAreWhole <=> Whole(Stream)) /\ (FramesAreWhole' <=> Whole(Stream'))
BY DEF FramesAreWhole, Whole, Stream

(* Every even position has one before it. *)
LEMMA Parity ==
  ASSUME NEW n \in Nat, NEW k \in 1 .. n
  PROVE  /\ (k + 2) % 2 = k % 2
         /\ k % 2 # 1 => k - 1 \in 1 .. n
         /\ k % 2 \in {0, 1} /\ ((k + 1) % 2 = 1 <=> k % 2 = 0)
OBVIOUS

LEMMA CutIsWhole ==
  ASSUME TypeOK, TypeOK', FramesAreWhole, StreamCut PROVE FramesAreWhole'
<1>1. Len(Stream) \in Nat /\ Len(Stream') \in Nat
  BY StreamFacts, NextStreamFacts DEF Joins
<1>2. ASSUME NEW k \in 1 .. Len(Stream')
      PROVE  IF k % 2 = 1 THEN Stream'[k].part = "head"
             ELSE Stream'[k].part = "data" /\ Stream'[k].id = Stream'[k - 1].id
  <2>1. k \in 1 .. Len(Stream) /\ Stream'[k] = Stream[k] BY <1>1 DEF StreamCut
  <2>2. k % 2 # 1 => Stream'[k - 1] = Stream[k - 1] BY <1>1, Parity DEF StreamCut
  <2> QED BY <2>1, <2>2, WholeStream DEF Whole
<1> QED BY <1>2, WholeStream DEF Whole

LEMMA AdvancedIsWhole ==
  ASSUME TypeOK, TypeOK', FramesAreWhole, StreamAdvanced PROVE FramesAreWhole'
<1>1. Len(Stream) \in Nat /\ Len(Stream') \in Nat
  BY StreamFacts, NextStreamFacts DEF Joins
<1>2. ASSUME NEW k \in 1 .. Len(Stream')
      PROVE  IF k % 2 = 1 THEN Stream'[k].part = "head"
             ELSE Stream'[k].part = "data" /\ Stream'[k].id = Stream'[k - 1].id
  <2>1. k + 2 \in 1 .. Len(Stream) /\ Stream'[k] = Stream[k + 2]
    BY <1>1 DEF StreamAdvanced
  <2>2. (k + 2) % 2 = k % 2 BY <1>1, Parity
  <2>3. k % 2 # 1 => Stream'[k - 1] = Stream[k + 2 - 1]
    <3>1. k % 2 # 1 => k - 1 \in 1 .. Len(Stream') /\ k - 1 + 2 = k + 2 - 1
      BY <1>1, Parity
    <3> QED BY <3>1 DEF StreamAdvanced
  <2> QED BY <2>1, <2>2, <2>3, WholeStream DEF Whole
<1> QED BY <1>2, WholeStream DEF Whole

LEMMA GrownIsWhole ==
  ASSUME TypeOK, TypeOK', FramesAreWhole, NEW p \in Piece, StreamGrew(p),
         \/ Len(Stream) % 2 = 0 /\ p.part = "head"
         \/ Len(Stream) % 2 = 1 /\ p.part = "data" /\ p.id = Stream[Len(Stream)].id
  PROVE  FramesAreWhole'
<1>1. Len(Stream) \in Nat BY StreamFacts DEF Joins
<1>2. ASSUME NEW k \in 1 .. Len(Stream')
      PROVE  IF k % 2 = 1 THEN Stream'[k].part = "head"
             ELSE Stream'[k].part = "data" /\ Stream'[k].id = Stream'[k - 1].id
  <2>1. CASE k \in 1 .. Len(Stream)
    <3>1. Stream'[k] = Stream[k] BY <2>1 DEF StreamGrew
    <3>2. k % 2 # 1 => Stream'[k - 1] = Stream[k - 1] BY <1>1, <2>1, Parity DEF StreamGrew
    <3> QED BY <2>1, <3>1, <3>2, WholeStream DEF Whole
  <2>2. CASE k = Len(Stream) + 1
    <3>1. Stream'[k] = p BY <2>2 DEF StreamGrew
    <3>2. CASE Len(Stream) % 2 = 0 /\ p.part = "head"
      <4>1. k % 2 = 1 BY <1>1, <2>2, <3>2
      <4> QED BY <3>1, <3>2, <4>1
    <3>3. CASE Len(Stream) % 2 = 1 /\ p.part = "data" /\ p.id = Stream[Len(Stream)].id
      <4>1. k % 2 = 0 /\ k - 1 = Len(Stream) /\ Len(Stream) \in 1 .. Len(Stream)
        BY <1>1, <2>2, <3>3
      <4>2. Stream'[k - 1] = Stream[Len(Stream)] BY <4>1 DEF StreamGrew
      <4> QED BY <3>1, <3>3, <4>1, <4>2
    <3> QED BY <3>2, <3>3
  <2> QED BY <1>1, <2>1, <2>2 DEF StreamGrew
<1> QED BY <1>2, WholeStream DEF Whole
-----------------------------------------------------------------------------
(* Sequences as queues. *)

LEMMA TailFacts ==
  ASSUME NEW S, NEW s \in Seq(S), s # << >>
  PROVE  /\ Head(s) = s[1] /\ 1 \in 1 .. Len(s) /\ Len(Tail(s)) = Len(s) - 1 /\ Len(s) \in Nat
         /\ Tail(s) \in Seq(S)
         /\ \A k \in 1 .. Len(Tail(s)) : k + 1 \in 1 .. Len(s) /\ Tail(s)[k] = s[k + 1]
<1>1. Len(s) \in Nat \ {0} BY EmptySeq
<1> QED BY <1>1, HeadTailProperties

LEMMA AppendFacts ==
  ASSUME NEW S, NEW s \in Seq(S), NEW e \in S, NEW k \in 1 .. Len(Append(s, e))
  PROVE  \/ k \in 1 .. Len(s) /\ Append(s, e)[k] = s[k]
         \/ k = Len(s) + 1 /\ Append(s, e)[k] = e
<1>1. Len(s) \in Nat BY LenProperties
<1> QED BY <1>1, AppendProperties
-----------------------------------------------------------------------------
(* Requests. *)

(* What is queued or sent stays asked when outcomes are not taken back.    *)
LEMMA AskedStays ==
  ASSUME RequestsAreAsked, UNCHANGED <<ioQueue, inbox, goroutine>>,
         \A i \in Ids : outcome[i] # "none" => outcome'[i] # "none", TypeOK
  PROVE  /\ \A k \in 1 .. Len(ioQueue') : ioQueue'[k].op = "write" => outcome'[ioQueue'[k].id] # "none"
         /\ \A k \in 1 .. Len(inbox') : outcome'[inbox'[k]] # "none"
         /\ \A i \in Ids : goroutine'[i] # "none" => outcome'[i] # "none"
<1>1. ASSUME NEW k \in 1 .. Len(ioQueue), ioQueue[k].op = "write"
      PROVE  outcome'[ioQueue[k].id] # "none"
  <2>1. ioQueue[k] \in Lambda BY ElementOfSeq DEF TypeOK
  <2>2. ioQueue[k].id \in Ids BY <1>1, <2>1 DEF Lambda
  <2> QED BY <1>1, <2>2 DEF RequestsAreAsked
<1>2. ASSUME NEW k \in 1 .. Len(inbox) PROVE outcome'[inbox[k]] # "none"
  <2>1. inbox[k] \in Ids BY ElementOfSeq DEF TypeOK
  <2> QED BY <2>1 DEF RequestsAreAsked
<1> QED BY <1>1, <1>2 DEF RequestsAreAsked

LEMMA NotBoth == \A a, b \in Nat : a < b => ~(a >= b)
OBVIOUS

(* A call that ends is told its result; no other caller shares its id.     *)
LEMMA LeaveRequests ==
  ASSUME SlotInv, RequestsAreAsked, NEW c \in Callers, NEW r \in {"ok", "error"}, Leave(c, r),
         pc[c] # "idle", UNCHANGED <<nextId, ioQueue, inbox, goroutine>>
  PROVE  RequestsAreAsked'
<1> USE DEF SlotInv, TypeInv, Leave
<1>0. /\ outcome \in [Ids -> {"none", "open", "ok", "error"}] /\ rid[c] \in Ids
      /\ pc' = [pc EXCEPT ![c] = "idle"] /\ rid' = [rid EXCEPT ![c] = None]
      /\ DOMAIN pc = Callers /\ DOMAIN rid = Callers
      /\ outcome' = [outcome EXCEPT ![rid[c]] = r]
  BY DEF TypeOK, Bound
<1>1. \A i \in Ids : outcome[i] # "none" => outcome'[i] # "none" BY <1>0
<1>2. \A i \in Ids : i >= nextId => outcome'[i] = "none"
  <2>1. ~(rid[c] >= nextId)
    <3>1. rid[c] < nextId BY <1>0, IdFacts DEF IdsAreOwn
    <3>2. rid[c] \in Nat /\ nextId \in Nat
      <4>1. nextId \in 1 .. MaxId + 1 BY DEF TypeOK
      <4>2. \A n \in 1 .. MaxId + 1 : n \in Nat BY ChannelAssumption
      <4> QED BY <1>0, <4>1, <4>2, IdFacts
    <3> QED BY <3>1, <3>2, NotBoth
  <2> QED BY <1>0, <2>1 DEF RequestsAreAsked
<1>3. ASSUME NEW d \in Callers, pc'[d] # "idle" PROVE outcome'[rid'[d]] = "open"
  <2>1. d # c /\ pc[d] # "idle" BY <1>0, <1>3
  <2>2. rid[d] \in Ids /\ rid[d] # rid[c] /\ rid'[d] = rid[d]
    BY <1>0, <2>1, IdFacts DEF Bound, IdsAreOwn
  <2> QED BY <1>0, <2>1, <2>2 DEF RequestsAreAsked
<1>4. nextId' = nextId OBVIOUS
<1>5. /\ \A k \in 1 .. Len(ioQueue') : ioQueue'[k].op = "write" => outcome'[ioQueue'[k].id] # "none"
      /\ \A k \in 1 .. Len(inbox') : outcome'[inbox'[k]] # "none"
      /\ \A i \in Ids : goroutine'[i] # "none" => outcome'[i] # "none"
  BY <1>1, AskedStays
<1> QED BY <1>2, <1>3, <1>4, <1>5 DEF RequestsAreAsked

(* Steps inside a call that tell the caller nothing.                       *)
LEMMA WaitRequests ==
  ASSUME TypeOK, RequestsAreAsked, UNCHANGED <<nextId, rid, outcome, ioQueue, inbox, goroutine>>,
         \A d \in Callers : pc'[d] # "idle" => pc[d] # "idle"
  PROVE  RequestsAreAsked'
BY DEF RequestsAreAsked

LEMMA CallerRequests ==
  ASSUME SlotInv, RequestsAreAsked, NEW c \in Callers, Begin(c) \/ CallStep(c) \/ TimerStep(c)
  PROVE  RequestsAreAsked'
<1> USE DEF ioVars, coreVars, guiVars
<1>0. TypeOK /\ Bound /\ pc \in [Callers -> {"idle", "begun", "registered", "waiting", "expired", "grace"}]
  BY DEF SlotInv, TypeInv, TypeOK
<1>1. CASE Begin(c)
  <2>1. /\ nextId \in Ids /\ nextId' = nextId + 1 /\ nextId \in Nat
        /\ outcome' = [outcome EXCEPT ![nextId] = "open"]
        /\ rid' = [rid EXCEPT ![c] = nextId] /\ pc' = [pc EXCEPT ![c] = "begun"]
        /\ outcome \in [Ids -> {"none", "open", "ok", "error"}]
        /\ DOMAIN pc = Callers /\ DOMAIN rid = Callers
    BY <1>0, <1>1, ChannelAssumption DEF Begin, TypeOK, Ids
  <2>2. \A i \in Ids : outcome[i] # "none" => outcome'[i] # "none" BY <2>1
  <2>3. ASSUME NEW i \in Ids, i >= nextId' PROVE outcome'[i] = "none"
    <3>1. i \in Nat /\ i >= nextId /\ i # nextId BY <2>1, <2>3, IdFacts
    <3> QED BY <2>1, <3>1 DEF RequestsAreAsked
  <2>4. ASSUME NEW d \in Callers, pc'[d] # "idle" PROVE outcome'[rid'[d]] = "open"
    <3>1. CASE d = c BY <2>1, <3>1
    <3>2. CASE d # c
      <4>1. pc[d] # "idle" /\ rid'[d] = rid[d] BY <2>1, <2>4, <3>2
      <4>2. rid[d] \in Ids /\ outcome[rid[d]] = "open" BY <1>0, <4>1 DEF Bound, RequestsAreAsked
      <4>3. rid[d] < nextId /\ rid[d] \in Nat BY <4>2, IdFacts DEF SlotInv, IdsAreOwn
      <4>4. rid[d] # nextId BY <2>1, <4>3
      <4> QED BY <2>1, <4>1, <4>2, <4>4
    <3> QED BY <3>1, <3>2
  <2>5. UNCHANGED <<ioQueue, inbox, goroutine>> BY <1>1 DEF Begin
  <2>6. /\ \A k \in 1 .. Len(ioQueue') : ioQueue'[k].op = "write" => outcome'[ioQueue'[k].id] # "none"
        /\ \A k \in 1 .. Len(inbox') : outcome'[inbox'[k]] # "none"
        /\ \A i \in Ids : goroutine'[i] # "none" => outcome'[i] # "none"
    BY <1>0, <2>2, <2>5, AskedStays
  <2> QED BY <2>3, <2>4, <2>6 DEF RequestsAreAsked
<1>2. CASE Register(c) \/ Expire(c) \/ ClaimedByReader(c)
  <2>1. /\ UNCHANGED <<nextId, rid, outcome, ioQueue, inbox, goroutine>>
        /\ pc[c] # "idle" /\ \E v : pc' = [pc EXCEPT ![c] = v]
    BY <1>2 DEF Register, Expire, ClaimedByReader
  <2> QED BY <1>0, <2>1, WaitRequests
<1>3. CASE PostWrite(c)
  <2>1. /\ UNCHANGED <<nextId, rid, outcome, inbox, goroutine>> /\ pc[c] # "idle"
        /\ pc' = [pc EXCEPT ![c] = "waiting"]
        /\ ioQueue' = Append(ioQueue, [op |-> "write", id |-> rid[c]])
    BY <1>3 DEF PostWrite
  <2>2. \A d \in Callers : pc'[d] # "idle" => pc[d] # "idle" BY <1>0, <2>1
  <2>3. rid[c] \in Ids /\ outcome[rid[c]] # "none" /\ ioQueue \in Seq(Lambda)
        /\ [op |-> "write", id |-> rid[c]] \in Lambda
    BY <1>0, <2>1 DEF Bound, RequestsAreAsked, TypeOK, Lambda
  <2>4. ASSUME NEW k \in 1 .. Len(ioQueue'), ioQueue'[k].op = "write"
        PROVE  outcome'[ioQueue'[k].id] # "none"
    BY <2>1, <2>3, <2>4, AppendFacts DEF RequestsAreAsked
  <2> QED BY <2>1, <2>2, <2>4 DEF RequestsAreAsked
<1>4. CASE Return(c) \/ ReclaimSlot(c) \/ GraceExpire(c)
  <2>1. /\ UNCHANGED <<nextId, ioQueue, inbox, goroutine>> /\ pc[c] # "idle"
        /\ \E r \in {"ok", "error"} : Leave(c, r)
    BY <1>4 DEF Return, ReclaimSlot, GraceExpire, Result
  <2> QED BY <2>1, LeaveRequests
<1> QED BY <1>1, <1>2, <1>3, <1>4 DEF CallStep, TimerStep

LEMMA IoRequests ==
  ASSUME TypeOK, RequestsAreAsked, IoStep
  PROVE  RequestsAreAsked'
<1>1. UNCHANGED <<nextId, pc, rid, outcome, goroutine>>
  BY DEF IoStep, RunWrite, RunSwap, OnReadyRead, TakeFrame, CompleteCall, StopParsing,
         OnDisconnected, guiVars, coreVars
<1>2. CASE RunWrite \/ RunSwap
  <2>1. ioQueue \in Seq(Lambda) /\ ioQueue # << >> /\ ioQueue' = Tail(ioQueue)
    BY <1>2 DEF RunWrite, RunSwap, TypeOK
  <2>2. \A k \in 1 .. Len(ioQueue') : ioQueue'[k].op = "write" => outcome'[ioQueue'[k].id] # "none"
    BY <1>1, <2>1, TailFacts DEF RequestsAreAsked
  <2>3. ASSUME NEW k \in 1 .. Len(inbox') PROVE outcome'[inbox'[k]] # "none"
    <3>1. CASE inbox' = inbox BY <1>1, <2>3, <3>1 DEF RequestsAreAsked
    <3>2. CASE RunWrite /\ inbox' = Append(inbox, Head(ioQueue).id)
      <4>1. ioQueue[1] = Head(ioQueue) /\ 1 \in 1 .. Len(ioQueue) /\ Head(ioQueue).op = "write"
        BY <2>1, <3>2, TailFacts DEF RunWrite
      <4>2. Head(ioQueue) \in Lambda BY <2>1, HeadTailProperties
      <4>3. Head(ioQueue).id \in Ids /\ outcome[Head(ioQueue).id] # "none"
        BY <4>1, <4>2 DEF Lambda, RequestsAreAsked
      <4>4. inbox \in Seq(Ids) BY DEF TypeOK
      <4> QED BY <1>1, <2>3, <3>2, <4>3, <4>4, AppendFacts DEF RequestsAreAsked
    <3> QED BY <1>2, <3>1, <3>2 DEF RunWrite, RunSwap
  <2> QED BY <1>1, <2>2, <2>3 DEF RequestsAreAsked
<1>3. CASE UNCHANGED <<ioQueue, inbox>>
  BY <1>1, <1>3 DEF RequestsAreAsked
<1> QED BY <1>2, <1>3 DEF IoStep, OnReadyRead, TakeFrame, CompleteCall, StopParsing,
                          OnDisconnected, coreVars

LEMMA CoreRequests ==
  ASSUME TypeOK, RequestsAreAsked,
         Reconnect \/ UiStep \/ StartCore \/ CoreDies \/ NoticeExit \/ CoreStep
  PROVE  RequestsAreAsked'
<1> USE DEF ioVars, coreVars, guiVars
<1>0. goroutine \in [Ids -> {"none", "running", "ok", "failed"}]
      /\ ioQueue \in Seq(Lambda) /\ inbox \in Seq(Ids) BY DEF TypeOK
<1>1. UNCHANGED <<nextId, pc, rid, outcome>>
  BY DEF Reconnect, UiStep, PostSwap, PublishCoreRunning, StartCore, CoreDies, NoticeExit,
         CoreStep, Dispatch, Execute, WriteHeader, WriteData
<1>2. CASE PostSwap
  <2>1. UNCHANGED <<inbox, goroutine>> BY <1>2 DEF PostSwap
  <2>2. ASSUME NEW k \in 1 .. Len(ioQueue'), ioQueue'[k].op = "write"
        PROVE  outcome'[ioQueue'[k].id] # "none"
    <3>1. ioQueue' = ioQueue \o << [op |-> "swap", id |-> uiSock] >>
          /\ ioQueue' = Append(ioQueue, [op |-> "swap", id |-> uiSock])
      BY <1>0, <1>2 DEF PostSwap
    <3>2. \/ k \in 1 .. Len(ioQueue) /\ ioQueue'[k] = ioQueue[k]
          \/ ioQueue'[k] = [op |-> "swap", id |-> uiSock]
      BY <1>0, <2>2, <3>1
    <3> QED BY <1>1, <2>2, <3>2 DEF RequestsAreAsked
  <2> QED BY <1>1, <2>1, <2>2 DEF RequestsAreAsked
<1>3. CASE CoreDies
  <2>1. inbox' = << >> /\ ioQueue' = ioQueue /\ \A i \in Ids : goroutine'[i] = "none"
    BY <1>3 DEF CoreDies
  <2>2. Len(inbox') = 0 BY <2>1
  <2> QED BY <1>1, <2>1, <2>2 DEF RequestsAreAsked
<1>4. CASE Dispatch
  <2>1. /\ inbox # << >> /\ inbox' = Tail(inbox) /\ ioQueue' = ioQueue
        /\ goroutine' = [goroutine EXCEPT ![Head(inbox)] = "running"]
    BY <1>4 DEF Dispatch
  <2>2. Head(inbox) = inbox[1] /\ 1 \in 1 .. Len(inbox) BY <1>0, <2>1, TailFacts
  <2>3. outcome[Head(inbox)] # "none" BY <2>2 DEF RequestsAreAsked
  <2>4. \A i \in Ids : goroutine'[i] # "none" => outcome'[i] # "none"
    BY <1>0, <1>1, <2>1, <2>3 DEF RequestsAreAsked
  <2>5. \A k \in 1 .. Len(inbox') : outcome'[inbox'[k]] # "none"
    BY <1>0, <1>1, <2>1, TailFacts DEF RequestsAreAsked
  <2> QED BY <1>1, <2>1, <2>4, <2>5 DEF RequestsAreAsked
<1>5. CASE \E i \in Ids : Execute(i) \/ WriteHeader(i) \/ WriteData(i)
  <2>1. UNCHANGED <<ioQueue, inbox>> /\ \A i \in Ids : goroutine'[i] # "none" => goroutine[i] # "none"
    BY <1>0, <1>5 DEF Execute, WriteHeader, WriteData
  <2> QED BY <1>1, <2>1 DEF RequestsAreAsked
<1>6. CASE Reconnect \/ PublishCoreRunning \/ StartCore \/ NoticeExit
  <2>1. UNCHANGED <<ioQueue, inbox, goroutine>>
    BY <1>6 DEF Reconnect, PublishCoreRunning, StartCore, NoticeExit
  <2> QED BY <1>1, <2>1 DEF RequestsAreAsked
<1> QED BY <1>2, <1>3, <1>4, <1>5, <1>6 DEF UiStep, CoreStep

LEMMA StepRequests == SlotInv /\ RequestsAreAsked /\ [Next]_vars => RequestsAreAsked'
<1> SUFFICES ASSUME SlotInv, RequestsAreAsked, [Next]_vars PROVE RequestsAreAsked' OBVIOUS
<1>1. TypeOK BY DEF SlotInv, TypeInv
<1>2. CASE UNCHANGED vars
  BY <1>2 DEF vars, guiVars, ioVars, coreVars, RequestsAreAsked
<1> QED BY <1>1, <1>2, CallerRequests, IoRequests, CoreRequests DEF Next
-----------------------------------------------------------------------------
(* Answers. *)

(* What the calls hold is unchanged, or was reset by a call not yet told.  *)
HeldIsServed ==
    /\ \A i \in Ids : rec[i].status = 0 => rec[i].data = i /\ i \in served
    /\ \A i \in Ids : outcome[i] = "ok" => rec[i].data = i /\ i \in served

StreamIsServed == \A k \in 1 .. Len(Stream) : Stream[k].id \in served

TakenIsServed == taken.id # None => taken.id \in served /\ taken.data = taken.id

WorkIsServed == \A i \in Ids : goroutine[i] \in {"ok", "failed"} => i \in served

LEMMA AnswerParts ==
  /\ AnswersAreServed <=> WorkIsServed /\ StreamIsServed /\ TakenIsServed /\ HeldIsServed
  /\ AnswersAreServed' <=> WorkIsServed' /\ StreamIsServed' /\ TakenIsServed' /\ HeldIsServed'
BY DEF AnswersAreServed, WorkIsServed, StreamIsServed, TakenIsServed, HeldIsServed

LEMMA StreamStaysServed ==
  ASSUME TypeOK, TypeOK', StreamIsServed, served \subseteq served', StreamCut \/ StreamAdvanced
  PROVE  StreamIsServed'
<1>1. Len(Stream) \in Nat /\ Len(Stream') \in Nat
  BY StreamFacts, NextStreamFacts DEF Joins
<1>2. CASE StreamCut BY <1>1, <1>2 DEF StreamCut, StreamIsServed
<1>3. CASE StreamAdvanced
  <2>1. \A k \in 1 .. Len(Stream') : k + 2 \in 1 .. Len(Stream) BY <1>1, <1>3 DEF StreamAdvanced
  <2> QED BY <1>3, <2>1 DEF StreamAdvanced, StreamIsServed
<1> QED BY <1>2, <1>3

LEMMA GrownStreamIsServed ==
  ASSUME TypeOK, StreamIsServed, served \subseteq served', NEW p, StreamGrew(p), p.id \in served'
  PROVE  StreamIsServed'
<1>1. Len(Stream) \in Nat BY StreamFacts DEF Joins
<1>2. \A k \in 1 .. Len(Stream') : k \in 1 .. Len(Stream) \/ k = Len(Stream) + 1
  BY <1>1 DEF StreamGrew
<1> QED BY <1>2 DEF StreamGrew, StreamIsServed

LEMMA WakeKeepsHeld ==
  ASSUME TypeOK, WakeAllWithError
  PROVE  \A i \in Ids : rec'[i].status = rec[i].status /\ rec'[i].data = rec[i].data
BY DEF TypeOK, WakeAllWithError, Call

LEMMA HeldStays ==
  ASSUME HeldIsServed, UNCHANGED outcome, served \subseteq served',
         \A i \in Ids : rec'[i].status = rec[i].status /\ rec'[i].data = rec[i].data
  PROVE  HeldIsServed'
BY DEF HeldIsServed

LEMMA CallerAnswers ==
  ASSUME SlotInv, TypeOK', RequestsAreAsked, AnswersAreServed, NEW c \in Callers,
         Begin(c) \/ CallStep(c) \/ TimerStep(c)
  PROVE  AnswersAreServed'
<1>0. /\ TypeOK /\ Bound /\ outcome \in [Ids -> {"none", "open", "ok", "error"}]
      /\ rec \in [Ids -> Call] /\ DOMAIN rec = Ids
      /\ (pc[c] # "idle" => rid[c] \in Ids /\ outcome[rid[c]] = "open")
  BY DEF SlotInv, TypeInv, TypeOK, Bound, RequestsAreAsked
<1>1. UNCHANGED <<goroutine, readBuf, wire, taken, served>>
  BY DEF Begin, CallStep, TimerStep, Register, PostWrite, Return, Expire, ReclaimSlot,
         ClaimedByReader, GraceExpire, ioVars, coreVars
<1>2. WorkIsServed' /\ StreamIsServed' /\ TakenIsServed'
  BY <1>0, <1>1, StreamIsKept, AnswerParts DEF WorkIsServed, StreamIsServed, TakenIsServed
<1>3. HeldIsServed'
  <2>1. CASE Begin(c)
    <3>1. outcome' = [outcome EXCEPT ![nextId] = "open"] /\ rec' = rec
      BY <2>1 DEF Begin
    <3> QED BY <1>0, <1>1, <3>1, AnswerParts DEF HeldIsServed
  <2>2. CASE Register(c)
    <3>1. rec' = [rec EXCEPT ![rid[c]] = NewCall] /\ outcome' = outcome /\ pc[c] # "idle"
      BY <2>2 DEF Register
    <3>2. rid[c] \in Ids /\ outcome[rid[c]] = "open" BY <1>0, <3>1
    <3>3. rec'[rid[c]].status = 1 /\ \A i \in Ids : i # rid[c] => rec'[i] = rec[i]
      BY <1>0, <3>1, <3>2 DEF NewCall
    <3>4. HeldIsServed BY AnswerParts
    <3>5. ASSUME NEW i \in Ids, rec'[i].status = 0 PROVE rec'[i].data = i /\ i \in served'
      BY <1>1, <3>3, <3>4, <3>5 DEF HeldIsServed
    <3>6. ASSUME NEW i \in Ids, outcome'[i] = "ok" PROVE rec'[i].data = i /\ i \in served'
      BY <1>1, <3>1, <3>2, <3>3, <3>4, <3>6 DEF HeldIsServed
    <3> QED BY <3>5, <3>6 DEF HeldIsServed
  <2>3. CASE PostWrite(c) \/ Expire(c) \/ ClaimedByReader(c)
    <3>1. UNCHANGED <<rec, outcome>> BY <2>3 DEF PostWrite, Expire, ClaimedByReader
    <3> QED BY <1>1, <3>1, AnswerParts DEF HeldIsServed
  <2>4. CASE Return(c)
    <3>1. /\ rec' = rec /\ pc[c] # "idle" /\ rec[rid[c]].done
          /\ outcome' = [outcome EXCEPT ![rid[c]] = Result(rec[rid[c]])]
      BY <2>4 DEF Return, Leave
    <3>2. Result(rec[rid[c]]) = "ok" => rec[rid[c]].status = 0 BY DEF Result
    <3> QED BY <1>0, <1>1, <3>1, <3>2, AnswerParts DEF HeldIsServed
  <2>5. CASE ReclaimSlot(c) \/ GraceExpire(c)
    <3>1. rec' = rec /\ outcome' = [outcome EXCEPT ![rid[c]] = "error"]
      BY <2>5 DEF ReclaimSlot, GraceExpire, Leave
    <3> QED BY <1>0, <1>1, <3>1, AnswerParts DEF HeldIsServed
  <2> QED BY <2>1, <2>2, <2>3, <2>4, <2>5 DEF CallStep, TimerStep
<1> QED BY <1>2, <1>3, AnswerParts

(* A claimed frame is whole: its data is the one its header announces.     *)
LEMMA FrameIsServed ==
  ASSUME TypeOK, TypeOK', StreamIsServed, FramesAreWhole, TakeFrame, readBuf[1].id \in pending
  PROVE  taken'.id \in served /\ taken'.data = taken'.id
<1>1. Len(readBuf) \in Nat /\ Len(readBuf) >= 2 BY LenProperties DEF TypeOK, TakeFrame
<1>2. 1 \in 1 .. Len(readBuf) /\ 2 \in 1 .. Len(readBuf) BY <1>1
<1>3. Joins(Stream, readBuf, wire) BY StreamFacts
<1>4. Len(Stream) \in Nat /\ Len(Stream) >= 2 BY <1>1, <1>3 DEF Joins
<1>5. 1 \in 1 .. Len(Stream) /\ 2 \in 1 .. Len(Stream) /\ 2 % 2 # 1 /\ 2 - 1 = 1 BY <1>4
<1>6. readBuf[1] = Stream[1] /\ readBuf[2] = Stream[2] BY <1>2, <1>3 DEF Joins
<1>7. Stream[2].id = Stream[2 - 1].id BY <1>5, WholeStream DEF Whole
<1>8. Stream[1].id \in served BY <1>5 DEF StreamIsServed
<1>9. taken'.id = readBuf[1].id /\ taken'.data = readBuf[2].id BY DEF TakeFrame
<1> QED BY <1>5, <1>6, <1>7, <1>8, <1>9

LEMMA IoAnswers ==
  ASSUME SlotInv, TypeOK', AnswersAreServed, FramesAreWhole, IoStep
  PROVE  AnswersAreServed'
<1>0. TypeOK /\ rec \in [Ids -> Call] BY DEF SlotInv, TypeInv, TypeOK
<1>1. UNCHANGED <<outcome, goroutine, served>>
  BY DEF IoStep, RunWrite, RunSwap, OnReadyRead, TakeFrame, CompleteCall, StopParsing,
         OnDisconnected, coreVars
<1>2. WorkIsServed' BY <1>1, AnswerParts DEF WorkIsServed
<1>3. StreamIsServed'
  <2>1. StreamCut \/ StreamAdvanced
    <3>1. CASE RunSwap BY <1>0, <3>1, StreamIsDropped
    <3>2. CASE OnReadyRead BY <1>0, <3>2, StreamIsRead
    <3>3. CASE TakeFrame BY <1>0, <3>3, StreamIsAdvanced
    <3>4. CASE RunWrite \/ CompleteCall \/ StopParsing \/ OnDisconnected
      <4>1. UNCHANGED <<readBuf, wire>>
        BY <3>4 DEF RunWrite, CompleteCall, StopParsing, OnDisconnected, coreVars
      <4> QED BY <1>0, <4>1, StreamIsKept
    <3> QED BY <3>1, <3>2, <3>3, <3>4 DEF IoStep
  <2>2. StreamIsServed BY AnswerParts
  <2> QED BY <1>0, <1>1, <2>1, <2>2, StreamStaysServed
<1>4. TakenIsServed' /\ HeldIsServed'
  <2>0. StreamIsServed /\ TakenIsServed /\ HeldIsServed BY AnswerParts
  <2>1. CASE TakeFrame
    <3>1. rec' = rec BY <2>1 DEF TakeFrame
    <3>2. TakenIsServed'
      <4>1. CASE readBuf[1].id \in pending
        BY <1>0, <1>1, <2>0, <2>1, <4>1, FrameIsServed DEF TakenIsServed
      <4>2. CASE readBuf[1].id \notin pending
        <5>1. taken' = taken BY <2>1, <4>2 DEF TakeFrame
        <5> QED BY <1>1, <2>0, <5>1 DEF TakenIsServed
      <4> QED BY <4>1, <4>2
    <3> QED BY <1>1, <2>0, <3>1, <3>2, HeldStays
  <2>2. CASE CompleteCall
    <3>1. /\ rec' = [rec EXCEPT ![taken.id] =
                        [done |-> TRUE, status |-> taken.status, data |-> taken.data]]
          /\ taken' = NoFrame
      BY <2>2 DEF CompleteCall
    <3>2. taken.id # None BY <2>2 DEF CompleteCall, SlotInv, TakenIsRegistered
    <3>3. taken.id \in Ids /\ taken.id \in served /\ taken.data = taken.id
      BY <1>0, <2>0, <3>2, TakenIsId DEF TakenIsServed
    <3>4. HeldIsServed' BY <1>0, <1>1, <2>0, <3>1, <3>3 DEF HeldIsServed
    <3> QED BY <3>1, <3>4 DEF TakenIsServed, NoFrame
  <2>3. CASE OnDisconnected
    <3>1. taken' = taken /\ WakeAllWithError BY <2>3 DEF OnDisconnected
    <3>2. HeldIsServed' BY <1>0, <1>1, <2>0, <3>1, WakeKeepsHeld, HeldStays
    <3> QED BY <1>1, <2>0, <3>1, <3>2 DEF TakenIsServed
  <2>4. CASE RunWrite \/ RunSwap \/ OnReadyRead \/ StopParsing
    <3>1. UNCHANGED <<rec, taken>>
      BY <2>4 DEF RunWrite, RunSwap, OnReadyRead, StopParsing, guiVars
    <3> QED BY <1>1, <2>0, <3>1, HeldStays DEF TakenIsServed
  <2> QED BY <2>1, <2>2, <2>3, <2>4 DEF IoStep
<1> QED BY <1>2, <1>3, <1>4, AnswerParts

(* A goroutine that writes has executed its request.                       *)
LEMMA CoreAnswers ==
  ASSUME SlotInv, TypeOK', AnswersAreServed,
         Reconnect \/ UiStep \/ StartCore \/ CoreDies \/ NoticeExit \/ CoreStep
  PROVE  AnswersAreServed'
<1> USE DEF ioVars, coreVars, guiVars, uiVars
<1>0. TypeOK /\ goroutine \in [Ids -> {"none", "running", "ok", "failed"}]
  BY DEF SlotInv, TypeInv, TypeOK
<1>1. UNCHANGED <<outcome, taken, readBuf>> /\ served \subseteq served'
  BY DEF Reconnect, UiStep, PostSwap, PublishCoreRunning, StartCore, CoreDies, NoticeExit,
         CoreStep, Dispatch, Execute, WriteHeader, WriteData
<1>2. WorkIsServed /\ StreamIsServed /\ TakenIsServed /\ HeldIsServed BY AnswerParts
<1>3. TakenIsServed' BY <1>1, <1>2 DEF TakenIsServed
<1>4. HeldIsServed'
  <2>1. CASE Reconnect
    BY <1>0, <1>1, <1>2, <2>1, WakeKeepsHeld, HeldStays DEF Reconnect
  <2>2. CASE rec' = rec BY <1>1, <1>2, <2>2, HeldStays
  <2> QED BY <2>1, <2>2 DEF UiStep, PostSwap, PublishCoreRunning, StartCore, CoreDies,
         NoticeExit, CoreStep, Dispatch, Execute, WriteHeader, WriteData
<1>5. WorkIsServed' /\ StreamIsServed'
  <2>1. CASE CoreDies
    <3>1. \A i \in Ids : goroutine'[i] = "none" BY <2>1 DEF CoreDies
    <3> QED BY <1>0, <1>1, <1>2, <2>1, <3>1, StreamIsCut, StreamStaysServed DEF WorkIsServed
  <2>2. ASSUME NEW i \in Ids, WriteHeader(i) \/ WriteData(i) PROVE WorkIsServed' /\ StreamIsServed'
    <3>1. /\ goroutine[i] \in {"ok", "failed"} /\ served' = served
          /\ \A j \in Ids : goroutine'[j] \in {goroutine[j], "none"}
          /\ \E p \in Piece : p.id = i /\ wire' = Append(wire, p)
      <4>1. CASE WriteHeader(i)
        BY <4>1 DEF WriteHeader, Piece
      <4>2. CASE WriteData(i)
        <5>1. [part |-> "data", id |-> i, status |-> 0] \in Piece BY DEF Piece
        <5>2. \A j \in Ids : goroutine'[j] \in {goroutine[j], "none"} BY <1>0, <4>2 DEF WriteData
        <5> QED BY <4>2, <5>1, <5>2 DEF WriteData
      <4> QED BY <2>2, <4>1, <4>2
    <3>2. WorkIsServed' BY <1>2, <3>1 DEF WorkIsServed
    <3>3. PICK p \in Piece : p.id = i /\ wire' = Append(wire, p) BY <3>1
    <3>4. StreamGrew(p) BY <1>0, <1>1, <3>3, StreamIsWritten
    <3>5. p.id \in served' BY <1>2, <3>1, <3>3 DEF WorkIsServed
    <3> QED BY <1>0, <1>1, <1>2, <3>2, <3>4, <3>5, GrownStreamIsServed
  <2>3. CASE wire' = wire
    <3>1. StreamIsServed' BY <1>0, <1>1, <1>2, <2>3, StreamIsKept, StreamStaysServed
    <3>2. WorkIsServed'
      <4>1. CASE \E i \in Ids : Execute(i)
        <5>1. PICK i \in Ids : Execute(i) BY <4>1
        <5> QED BY <1>0, <1>1, <1>2, <5>1 DEF Execute, WorkIsServed
      <4>2. CASE Dispatch
        <5>1. \A j \in Ids : goroutine'[j] \in {goroutine[j], "running"}
          BY <1>0, <4>2 DEF Dispatch
        <5> QED BY <1>1, <1>2, <5>1 DEF WorkIsServed
      <4>3. CASE goroutine' = goroutine BY <1>1, <1>2, <4>3 DEF WorkIsServed
      <4>4. CASE CoreDies BY <4>4 DEF CoreDies, WorkIsServed
      <4> QED BY <2>2, <4>1, <4>2, <4>3, <4>4 DEF Reconnect, UiStep, PostSwap, PublishCoreRunning, StartCore,
              NoticeExit, CoreStep
    <3> QED BY <3>1, <3>2
  <2> QED BY <2>1, <2>2, <2>3 DEF Reconnect, UiStep, PostSwap, PublishCoreRunning, StartCore,
          NoticeExit, CoreStep, Dispatch, Execute
<1> QED BY <1>3, <1>4, <1>5, AnswerParts

LEMMA StepAnswers ==
  SlotInv /\ TypeOK' /\ RequestsAreAsked /\ AnswersAreServed /\ FramesAreWhole /\ [Next]_vars
     => AnswersAreServed'
<1> SUFFICES ASSUME SlotInv, TypeOK', RequestsAreAsked, AnswersAreServed, FramesAreWhole, [Next]_vars
             PROVE  AnswersAreServed'
  OBVIOUS
<1>1. CASE UNCHANGED vars
  <2>1. TypeOK /\ UNCHANGED <<readBuf, wire, goroutine, served, taken, rec, outcome>>
    BY <1>1 DEF vars, guiVars, ioVars, coreVars, SlotInv, TypeInv
  <2>2. Stream' = Stream BY <2>1, StreamIsKept
  <2> QED BY <2>1, <2>2 DEF AnswersAreServed
<1> QED BY <1>1, CallerAnswers, IoAnswers, CoreAnswers DEF Next
-----------------------------------------------------------------------------
(* Sockets. *)

LEMMA NumberFacts ==
  ASSUME TypeOK
  PROVE  /\ sock \in Nat /\ uiSock \in Nat /\ gen \in Nat
         /\ \A k \in 1 .. Len(ioQueue) : ioQueue[k].op = "swap" => ioQueue[k].id \in Nat
<1>1. /\ sock \in Gens \cup {None} /\ uiSock \in Gens \cup {None} /\ gen \in 0 .. MaxGen
      /\ ioQueue \in Seq(Lambda)
  BY DEF TypeOK
<1>2. \A g \in Gens \cup {None} : g \in Nat BY ChannelAssumption DEF Gens, None
<1>3. \A n \in 0 .. MaxGen : n \in Nat BY ChannelAssumption
<1>4. ASSUME NEW k \in 1 .. Len(ioQueue), ioQueue[k].op = "swap" PROVE ioQueue[k].id \in Nat
  <2>1. ioQueue[k] \in Lambda BY <1>1, ElementOfSeq
  <2>2. ioQueue[k].id \in Gens BY <1>4, <2>1 DEF Lambda
  <2> QED BY <1>2, <2>2
<1> QED BY <1>1, <1>2, <1>3, <1>4

(* A new core is up and its connection has not reached newConnection.      *)
Fresh == coreState = "up" /\ ~accepted

SockBounds ==
    /\ sock <= gen
    /\ ui = "woken" => sock < uiSock /\ uiSock <= gen
    /\ ui = "woken" /\ Fresh => uiSock < gen
    /\ Fresh => sock < gen

(* Where the swaps e of the queue lead.                                    *)
LeadsOn(e) ==
    e.op = "swap" =>
        /\ sock < e.id /\ e.id <= gen
        /\ ui = "woken" => e.id < uiSock
        /\ Fresh => e.id < gen

InOrder(q) ==
    \A k, l \in 1 .. Len(q) : l < k /\ q[l].op = "swap" /\ q[k].op = "swap" => q[l].id < q[k].id

SwapParts ==
    SockBounds /\ InOrder(ioQueue) /\ \A k \in 1 .. Len(ioQueue) : LeadsOn(ioQueue[k])

NextSwapParts ==
    SockBounds' /\ InOrder(ioQueue') /\ \A k \in 1 .. Len(ioQueue') : LeadsOn(ioQueue[k])'

LEMMA SwapsAreParts == (SwapsAscend <=> SwapParts) /\ (SwapsAscend' <=> NextSwapParts)
BY DEF SwapsAscend, SwapParts, NextSwapParts, SockBounds, LeadsOn, InOrder, Fresh

(* Steps that touch neither the sockets nor the queue.                     *)
LEMMA SwapsStay ==
  ASSUME SwapsAscend, UNCHANGED <<sock, gen, ui, uiSock, coreState, accepted, ioQueue>>
  PROVE  SwapsAscend'
BY DEF SwapsAscend

LEMMA QueueSwaps ==
  ASSUME TypeOK, SwapsAscend, RunWrite \/ RunSwap
  PROVE  SwapsAscend'
<1>0. SockBounds /\ InOrder(ioQueue) /\ \A k \in 1 .. Len(ioQueue) : LeadsOn(ioQueue[k])
  BY SwapsAreParts DEF SwapParts
<1>1. /\ ioQueue \in Seq(Lambda) /\ ioQueue # << >> /\ ioQueue' = Tail(ioQueue)
      /\ UNCHANGED <<gen, ui, uiSock, coreState, accepted>>
  BY DEF TypeOK, RunWrite, RunSwap, uiVars
<1>2. /\ Head(ioQueue) = ioQueue[1] /\ 1 \in 1 .. Len(ioQueue) /\ Len(ioQueue) \in Nat
      /\ \A k \in 1 .. Len(ioQueue') : k + 1 \in 1 .. Len(ioQueue) /\ ioQueue'[k] = ioQueue[k + 1]
  BY <1>1, TailFacts
<1>3. InOrder(ioQueue')
  <2>1. ASSUME NEW k \in 1 .. Len(ioQueue'), NEW l \in 1 .. Len(ioQueue'), l < k,
               ioQueue'[l].op = "swap", ioQueue'[k].op = "swap"
        PROVE  ioQueue'[l].id < ioQueue'[k].id
    <3>1. l + 1 < k + 1 BY <2>1
    <3>2. /\ k + 1 \in 1 .. Len(ioQueue) /\ l + 1 \in 1 .. Len(ioQueue)
          /\ ioQueue'[k] = ioQueue[k + 1] /\ ioQueue'[l] = ioQueue[l + 1]
      BY <1>2
    <3> QED BY <1>0, <2>1, <3>1, <3>2 DEF InOrder
  <2> QED BY <2>1 DEF InOrder
<1>4. CASE RunWrite
  <2>1. sock' = sock BY <1>4 DEF RunWrite
  <2>2. SockBounds' BY <1>0, <1>1, <2>1 DEF SockBounds, Fresh
  <2>3. \A k \in 1 .. Len(ioQueue') : LeadsOn(ioQueue[k])'
    BY <1>0, <1>1, <1>2, <2>1 DEF LeadsOn, Fresh
  <2> QED BY <1>3, <2>2, <2>3, SwapsAreParts DEF NextSwapParts
<1>5. CASE RunSwap
  <2>1. sock' = ioQueue[1].id /\ ioQueue[1].op = "swap" /\ LeadsOn(ioQueue[1])
    BY <1>0, <1>2, <1>5 DEF RunSwap
  <2>2. SockBounds' BY <1>0, <1>1, <2>1 DEF SockBounds, LeadsOn, Fresh
  <2>3. ASSUME NEW k \in 1 .. Len(ioQueue') PROVE LeadsOn(ioQueue[k])'
    <3>1. 1 < k + 1 /\ k + 1 \in 1 .. Len(ioQueue) /\ ioQueue'[k] = ioQueue[k + 1] BY <1>2
    <3>2. ioQueue'[k].op = "swap" => ioQueue[1].id < ioQueue'[k].id
      BY <1>0, <1>2, <2>1, <3>1 DEF InOrder
    <3>3. LeadsOn(ioQueue[k + 1]) BY <1>0, <3>1
    <3> QED BY <1>1, <2>1, <3>1, <3>2, <3>3 DEF LeadsOn, Fresh
  <2> QED BY <1>3, <2>2, <2>3, SwapsAreParts DEF NextSwapParts
<1> QED BY <1>4, <1>5

LEMMA PostWriteSwaps ==
  ASSUME TypeOK, Bound, SwapsAscend, NEW c \in Callers, PostWrite(c)
  PROVE  SwapsAscend'
<1>0. SockBounds /\ InOrder(ioQueue) /\ \A k \in 1 .. Len(ioQueue) : LeadsOn(ioQueue[k])
  BY SwapsAreParts DEF SwapParts
<1> DEFINE e == [op |-> "write", id |-> rid[c]]
<1>1. /\ ioQueue \in Seq(Lambda) /\ e \in Lambda /\ ioQueue' = Append(ioQueue, e)
      /\ UNCHANGED <<sock, gen, ui, uiSock, coreState, accepted>>
  BY DEF TypeOK, Bound, PostWrite, uiVars, coreVars, Lambda
<1>2. e.op # "swap" OBVIOUS
<1> HIDE DEF e
<1>3. \A k \in 1 .. Len(ioQueue') :
         ioQueue'[k].op = "swap" => k \in 1 .. Len(ioQueue) /\ ioQueue'[k] = ioQueue[k]
  BY <1>1, <1>2, AppendFacts
<1>4. InOrder(ioQueue') BY <1>0, <1>3 DEF InOrder
<1>5. SockBounds' BY <1>0, <1>1 DEF SockBounds, Fresh
<1>6. \A k \in 1 .. Len(ioQueue') : LeadsOn(ioQueue[k])' BY <1>0, <1>1, <1>3 DEF LeadsOn, Fresh
<1> QED BY <1>4, <1>5, <1>6, SwapsAreParts DEF NextSwapParts

LEMMA PostSwapSwaps ==
  ASSUME TypeOK, Bound, SwapsAscend, PostSwap
  PROVE  SwapsAscend'
<1>0. SockBounds /\ InOrder(ioQueue) /\ \A k \in 1 .. Len(ioQueue) : LeadsOn(ioQueue[k])
  BY SwapsAreParts DEF SwapParts
<1> DEFINE e == [op |-> "swap", id |-> uiSock]
<1>1. /\ ioQueue \in Seq(Lambda) /\ e \in Lambda /\ ioQueue' = Append(ioQueue, e)
      /\ UNCHANGED <<sock, gen, uiSock, coreState, accepted>> /\ ui = "woken" /\ ui' = "posted"
  BY DEF TypeOK, Bound, PostSwap, coreVars, Lambda
<1>2. e.id = uiSock OBVIOUS
<1> HIDE DEF e
<1>3. \A k \in 1 .. Len(ioQueue') :
         \/ k \in 1 .. Len(ioQueue) /\ ioQueue'[k] = ioQueue[k]
         \/ k = Len(ioQueue) + 1 /\ ioQueue'[k] = e
  BY <1>1, AppendFacts
<1>4. InOrder(ioQueue')
  <2>1. ASSUME NEW k \in 1 .. Len(ioQueue'), NEW l \in 1 .. Len(ioQueue'), l < k,
               ioQueue'[l].op = "swap", ioQueue'[k].op = "swap"
        PROVE  ioQueue'[l].id < ioQueue'[k].id
    <3>0. Len(ioQueue) \in Nat /\ Len(ioQueue') = Len(ioQueue) + 1
      BY <1>1, LenProperties, AppendProperties
    <3>1. l \in 1 .. Len(ioQueue) BY <2>1, <3>0
    <3>2. ioQueue'[l] = ioQueue[l] /\ LeadsOn(ioQueue[l])
      <4>1. l # Len(ioQueue) + 1 BY <3>0, <3>1
      <4> QED BY <1>0, <1>3, <3>1, <4>1
    <3>3. CASE k \in 1 .. Len(ioQueue) /\ ioQueue'[k] = ioQueue[k]
      BY <1>0, <2>1, <3>1, <3>2, <3>3 DEF InOrder
    <3>4. CASE ioQueue'[k] = e
      BY <1>1, <1>2, <2>1, <3>2, <3>4 DEF LeadsOn
    <3> QED BY <1>3, <3>3, <3>4
  <2> QED BY <2>1 DEF InOrder
<1>5. SockBounds' BY <1>0, <1>1 DEF SockBounds, Fresh
<1>6. LeadsOn(e)' BY <1>0, <1>1, <1>2 DEF SockBounds, LeadsOn, Fresh, e
<1>7. ASSUME NEW k \in 1 .. Len(ioQueue') PROVE LeadsOn(ioQueue[k])'
  <2>1. CASE k \in 1 .. Len(ioQueue) /\ ioQueue'[k] = ioQueue[k]
    BY <1>0, <1>1, <2>1 DEF LeadsOn, Fresh
  <2>2. CASE ioQueue'[k] = e
    BY <1>0, <1>1, <1>2, <2>2 DEF SockBounds, LeadsOn, Fresh
  <2> QED BY <1>3, <2>1, <2>2
<1> QED BY <1>4, <1>5, <1>7, SwapsAreParts DEF NextSwapParts

LEMMA GenerationSwaps ==
  ASSUME TypeOK, SwapsAscend, StartCore \/ CoreDies \/ NoticeExit \/ Reconnect \/ PublishCoreRunning
  PROVE  SwapsAscend'
<1>0. SockBounds /\ InOrder(ioQueue) /\ \A k \in 1 .. Len(ioQueue) : LeadsOn(ioQueue[k])
  BY SwapsAreParts DEF SwapParts
<1>1. UNCHANGED <<sock, ioQueue>>
  BY DEF StartCore, CoreDies, NoticeExit, Reconnect, PublishCoreRunning, ioVars
<1>2. SockBounds' /\ \A k \in 1 .. Len(ioQueue) : LeadsOn(ioQueue[k])'
  <2>0. sock \in Nat /\ uiSock \in Nat /\ gen \in Nat
        /\ \A k \in 1 .. Len(ioQueue) : ioQueue[k].op = "swap" => ioQueue[k].id \in Nat
    BY NumberFacts
  <2>1. CASE StartCore
    <3>1. gen' = gen + 1 /\ UNCHANGED <<ui, uiSock>> BY <2>1 DEF StartCore, uiVars
    <3>2. \A n \in Nat : n <= gen => n < gen' /\ n <= gen' BY <2>0, <3>1
    <3>3. SockBounds' BY <1>0, <1>1, <2>0, <3>1, <3>2 DEF SockBounds, Fresh
    <3>4. ASSUME NEW k \in 1 .. Len(ioQueue) PROVE LeadsOn(ioQueue[k])'
      BY <1>0, <1>1, <2>0, <3>1, <3>2 DEF LeadsOn, Fresh
    <3> QED BY <3>3, <3>4
  <2>2. CASE CoreDies \/ NoticeExit
    <3>1. UNCHANGED <<gen, ui, uiSock>> /\ coreState' # "up"
      BY <2>2 DEF CoreDies, NoticeExit, uiVars
    <3> QED BY <1>0, <1>1, <3>1 DEF SockBounds, LeadsOn, Fresh
  <2>3. CASE Reconnect
    <3>1. /\ gen' = gen /\ uiSock' = gen /\ Fresh /\ accepted' = TRUE
      BY <2>3 DEF Reconnect, Fresh
    <3>2. sock < gen /\ sock <= gen /\ gen <= gen BY <1>0, <2>0, <3>1 DEF SockBounds
    <3> QED BY <1>0, <1>1, <3>1, <3>2 DEF SockBounds, LeadsOn, Fresh
  <2>4. CASE PublishCoreRunning
    <3>1. UNCHANGED <<gen, uiSock, coreState, accepted>> /\ ui' = "idle"
      BY <2>4 DEF PublishCoreRunning, coreVars
    <3> QED BY <1>0, <1>1, <3>1 DEF SockBounds, LeadsOn, Fresh
  <2> QED BY <2>1, <2>2, <2>3, <2>4
<1> QED BY <1>0, <1>1, <1>2, SwapsAreParts DEF NextSwapParts

LEMMA StepSwaps == SlotInv /\ SwapsAscend /\ [Next]_vars => SwapsAscend'
<1> SUFFICES ASSUME SlotInv, SwapsAscend, [Next]_vars PROVE SwapsAscend' OBVIOUS
<1>0. TypeOK /\ Bound BY DEF SlotInv, TypeInv
<1>1. CASE UNCHANGED vars
  BY <1>1, SwapsStay DEF vars, guiVars, ioVars, uiVars, coreVars
<1>2. ASSUME NEW c \in Callers, Begin(c) \/ CallStep(c) \/ TimerStep(c) PROVE SwapsAscend'
  BY <1>0, <1>2, PostWriteSwaps, SwapsStay
  DEF Begin, CallStep, TimerStep, Register, Return, Expire, ReclaimSlot, ClaimedByReader,
      GraceExpire, ioVars, uiVars, coreVars
<1>3. CASE IoStep
  BY <1>0, <1>3, QueueSwaps, SwapsStay
  DEF IoStep, OnReadyRead, TakeFrame, CompleteCall, StopParsing, OnDisconnected, uiVars, coreVars
<1>4. CASE CoreStep
  BY <1>4, SwapsStay DEF CoreStep, Dispatch, Execute, WriteHeader, WriteData, ioVars, uiVars
<1> QED BY <1>0, <1>1, <1>2, <1>3, <1>4, PostSwapSwaps, GenerationSwaps DEF Next, UiStep
-----------------------------------------------------------------------------
(* The core at the other end. *)

Busy == inbox # << >> \/ writer # None \/ \E i \in Ids : goroutine[i] # "none"

LEMMA LiveIsBusy == (OnlyLiveWrites <=> (Busy => SockOpen)) /\ (OnlyLiveWrites' <=> (Busy' => SockOpen'))
BY DEF OnlyLiveWrites, Busy

(* A swap that is due leads away from the live core, which is then idle.   *)
LEMMA SwapIsIdle ==
  ASSUME TypeOK, SwapsAscend, OnlyLiveWrites, RunSwap
  PROVE  ~Busy /\ writer = None
<1>1. ioQueue \in Seq(Lambda) /\ ioQueue # << >> /\ Head(ioQueue).op = "swap"
  BY DEF TypeOK, RunSwap
<1>2. Head(ioQueue) = ioQueue[1] /\ 1 \in 1 .. Len(ioQueue) BY <1>1, TailFacts
<1>3. LeadsOn(ioQueue[1]) BY <1>2, SwapsAreParts DEF SwapParts
<1>4. sock < ioQueue[1].id /\ ioQueue[1].id <= gen BY <1>1, <1>2, <1>3 DEF LeadsOn
<1>5. sock \in Nat /\ gen \in Nat /\ ioQueue[1].id \in Nat BY <1>1, <1>2, NumberFacts
<1>6. sock # gen BY <1>4, <1>5
<1> QED BY <1>6, LiveIsBusy DEF SockOpen, Busy

LEMMA StepLive == SlotInv /\ SwapsAscend /\ OnlyLiveWrites /\ [Next]_vars => OnlyLiveWrites'
<1> SUFFICES ASSUME SlotInv, SwapsAscend, OnlyLiveWrites, [Next]_vars PROVE OnlyLiveWrites' OBVIOUS
<1>0. TypeOK /\ (Busy => SockOpen) BY LiveIsBusy DEF SlotInv, TypeInv
<1>1. CASE UNCHANGED <<sock, gen, coreState, inbox, writer, goroutine>>
  BY <1>0, <1>1, LiveIsBusy DEF Busy, SockOpen
<1>2. CASE RunWrite
  <2>1. /\ UNCHANGED <<sock, gen, coreState, writer, goroutine>>
        /\ ~SockOpen => inbox' = inbox
    BY <1>2 DEF RunWrite
  <2> QED BY <1>0, <2>1, LiveIsBusy DEF Busy, SockOpen
<1>3. CASE RunSwap
  <2>1. UNCHANGED <<inbox, writer, goroutine>> BY <1>3 DEF RunSwap
  <2> QED BY <1>0, <1>3, <2>1, SwapIsIdle, LiveIsBusy DEF Busy
<1>4. CASE StartCore \/ NoticeExit
  <2>1. UNCHANGED <<inbox, writer, goroutine>> /\ ~SockOpen
    BY <1>4 DEF StartCore, NoticeExit, SockOpen
  <2> QED BY <1>0, <2>1, LiveIsBusy DEF Busy
<1>5. CASE CoreDies
  <2>1. inbox' = << >> /\ writer' = None /\ \A i \in Ids : goroutine'[i] = "none"
    BY <1>5 DEF CoreDies
  <2> QED BY <2>1, LiveIsBusy DEF Busy
<1>6. CASE CoreStep
  <2>1. UNCHANGED <<sock, gen, coreState>>
    BY <1>6 DEF CoreStep, Dispatch, Execute, WriteHeader, WriteData, ioVars
  <2>2. Busy
    BY <1>6 DEF CoreStep, Dispatch, Execute, WriteHeader, WriteData, Busy
  <2> QED BY <1>0, <2>1, <2>2, LiveIsBusy DEF SockOpen
<1>7. ASSUME NEW c \in Callers, Begin(c) \/ CallStep(c) \/ TimerStep(c) PROVE OnlyLiveWrites'
  <2>1. UNCHANGED <<sock, gen, coreState, inbox, writer, goroutine>>
    BY <1>7 DEF Begin, CallStep, TimerStep, Register, PostWrite, Return, Expire, ReclaimSlot,
                ClaimedByReader, GraceExpire, ioVars, coreVars
  <2> QED BY <1>1, <2>1
<1>8. CASE OnReadyRead \/ TakeFrame \/ CompleteCall \/ StopParsing \/ OnDisconnected
           \/ Reconnect \/ UiStep
  <2>1. UNCHANGED <<sock, gen, coreState, inbox, writer, goroutine>>
    BY <1>8 DEF OnReadyRead, TakeFrame, CompleteCall, StopParsing, OnDisconnected, Reconnect,
                UiStep, PostSwap, PublishCoreRunning, ioVars, coreVars
  <2> QED BY <1>1, <2>1
<1>9. CASE UNCHANGED vars
  BY <1>1, <1>9 DEF vars, ioVars, coreVars
<1> QED BY <1>2, <1>3, <1>4, <1>5, <1>6, <1>7, <1>8, <1>9 DEF Next, IoStep
-----------------------------------------------------------------------------
(* Frames. *)

LEMMA ParityFacts ==
  ASSUME NEW n \in Nat
  PROVE  /\ n % 2 = 1 \/ n % 2 = 0
         /\ n % 2 = 0 => (n + 1) % 2 = 1
         /\ n % 2 = 1 => (n + 1) % 2 = 0
         /\ n >= 2 => (n - 2) % 2 = n % 2
         /\ n >= 2 /\ n % 2 = 1 => n - 2 \in 1 .. n - 2
         /\ n % 2 = 1 => n \in 1 .. n
         /\ 0 % 2 = 0
OBVIOUS

InProgress(s) ==
    /\ writer = None => Len(s) % 2 = 0
    /\ writer # None => Len(s) % 2 = 1 /\ s[Len(s)].id = writer

LEMMA ProgressOfStream ==
  /\ FrameInProgress <=> (SockOpen => InProgress(Stream))
  /\ FrameInProgress' <=> (SockOpen' => InProgress(Stream)')
BY DEF FrameInProgress, InProgress

(* Reading and parsing leave the end of the stream in place.               *)
LEMMA EndStays ==
  ASSUME TypeOK, TypeOK', InProgress(Stream), writer' = writer,
         StreamAdvanced \/ (StreamCut /\ Len(Stream') = Len(Stream))
  PROVE  InProgress(Stream)'
<1>1. Len(Stream) \in Nat /\ Len(Stream') \in Nat
  BY StreamFacts, NextStreamFacts DEF Joins
<1>2. CASE StreamAdvanced
  <2>1. Len(Stream) >= 2 /\ Len(Stream') = Len(Stream) - 2
        /\ \A k \in 1 .. Len(Stream') : Stream'[k] = Stream[k + 2]
    BY <1>2 DEF StreamAdvanced
  <2>2. Len(Stream') % 2 = Len(Stream) % 2 BY <1>1, <2>1, ParityFacts
  <2>3. Len(Stream) % 2 = 1 => Stream'[Len(Stream')] = Stream[Len(Stream)]
    <3>1. SUFFICES ASSUME Len(Stream) % 2 = 1 PROVE Stream'[Len(Stream')] = Stream[Len(Stream)]
      OBVIOUS
    <3>2. Len(Stream') \in 1 .. Len(Stream') BY <1>1, <2>1, <3>1, ParityFacts
    <3>3. Len(Stream') + 2 = Len(Stream) BY <1>1, <2>1
    <3> QED BY <2>1, <3>2, <3>3
  <2> QED BY <2>2, <2>3 DEF InProgress
<1>3. CASE StreamCut /\ Len(Stream') = Len(Stream)
  <2>1. Len(Stream) % 2 = 1 => Stream'[Len(Stream)] = Stream[Len(Stream)]
    BY <1>1, <1>3, ParityFacts DEF StreamCut
  <2> QED BY <1>3, <2>1 DEF InProgress
<1> QED BY <1>2, <1>3

(* A goroutine writes a header between frames and the data after it.       *)
LEMMA WritesInProgress ==
  ASSUME SlotInv, TypeOK', OnlyLiveWrites, FrameInProgress, FramesAreWhole,
         NEW i \in Ids, WriteHeader(i) \/ WriteData(i)
  PROVE  FrameInProgress' /\ FramesAreWhole'
<1>0. TypeOK /\ InProgress(Stream)
  <2>1. Busy BY DEF WriteHeader, WriteData, Busy
  <2> QED BY <2>1, LiveIsBusy, ProgressOfStream DEF SlotInv, TypeInv
<1>1. readBuf' = readBuf BY DEF WriteHeader, WriteData, ioVars
<1>2. Len(Stream) \in Nat BY <1>0, StreamFacts DEF Joins
<1>3. i # None BY IdFacts
<1>4. CASE WriteHeader(i)
  <2>1. PICK p \in Piece : p.part = "head" /\ p.id = i /\ wire' = Append(wire, p)
    BY <1>4 DEF WriteHeader, Piece
  <2>2. StreamGrew(p) BY <1>0, <1>1, <2>1, StreamIsWritten
  <2>3. Len(Stream) % 2 = 0 /\ writer' = i BY <1>0, <1>4 DEF WriteHeader, InProgress
  <2>4. FramesAreWhole' BY <1>0, <2>1, <2>2, <2>3, GrownIsWhole
  <2>5. Len(Stream') % 2 = 1 /\ Stream'[Len(Stream')].id = i
    BY <1>2, <2>1, <2>2, <2>3, ParityFacts DEF StreamGrew
  <2> QED BY <1>3, <2>3, <2>4, <2>5, ProgressOfStream DEF InProgress
<1>5. CASE WriteData(i)
  <2>1. PICK p \in Piece : p.part = "data" /\ p.id = i /\ wire' = Append(wire, p)
    <3>1. [part |-> "data", id |-> i, status |-> 0] \in Piece BY DEF Piece
    <3> QED BY <1>5, <3>1 DEF WriteData
  <2>2. StreamGrew(p) BY <1>0, <1>1, <2>1, StreamIsWritten
  <2>3. Len(Stream) % 2 = 1 /\ Stream[Len(Stream)].id = i /\ writer' = None
    BY <1>0, <1>3, <1>5 DEF WriteData, InProgress
  <2>4. FramesAreWhole' BY <1>0, <2>1, <2>2, <2>3, GrownIsWhole
  <2>5. Len(Stream') % 2 = 0 BY <1>2, <2>2, <2>3, ParityFacts DEF StreamGrew
  <2> QED BY <2>3, <2>4, <2>5, ProgressOfStream DEF InProgress
<1> QED BY <1>4, <1>5

LEMMA StepFrames ==
  SlotInv /\ TypeOK' /\ SwapsAscend /\ OnlyLiveWrites /\ FrameInProgress /\ FramesAreWhole
      /\ [Next]_vars
     => FrameInProgress' /\ FramesAreWhole'
<1> SUFFICES ASSUME SlotInv, TypeOK', SwapsAscend, OnlyLiveWrites, FrameInProgress,
                    FramesAreWhole, [Next]_vars
             PROVE  FrameInProgress' /\ FramesAreWhole'
  OBVIOUS
<1>0. TypeOK BY DEF SlotInv, TypeInv
<1>1. ASSUME UNCHANGED <<sock, gen, coreState, writer>>,
             StreamAdvanced \/ (StreamCut /\ Len(Stream') = Len(Stream))
      PROVE  FrameInProgress' /\ FramesAreWhole'
  <2>1. FramesAreWhole' BY <1>0, <1>1, CutIsWhole, AdvancedIsWhole
  <2>2. SockOpen' = SockOpen BY <1>1 DEF SockOpen
  <2> QED BY <1>0, <1>1, <2>1, <2>2, EndStays, ProgressOfStream
<1>2. CASE UNCHANGED <<sock, gen, coreState, writer, readBuf, wire>>
  BY <1>0, <1>1, <1>2, StreamIsKept
<1>3. CASE RunSwap
  <2>1. writer' = None BY <1>0, <1>3, SwapIsIdle DEF RunSwap
  <2>2. Len(Stream') = 0 /\ StreamCut BY <1>0, <1>3, StreamIsDropped
  <2>3. InProgress(Stream)' BY <2>1, <2>2, ParityFacts DEF InProgress
  <2> QED BY <1>0, <2>2, <2>3, CutIsWhole, ProgressOfStream
<1>4. CASE OnReadyRead
  <2>1. UNCHANGED <<sock, gen, coreState, writer>> BY <1>4 DEF OnReadyRead
  <2> QED BY <1>0, <1>1, <1>4, <2>1, StreamIsRead
<1>5. CASE TakeFrame
  <2>1. UNCHANGED <<sock, gen, coreState, writer>> BY <1>5 DEF TakeFrame, coreVars
  <2> QED BY <1>0, <1>1, <1>5, <2>1, StreamIsAdvanced
<1>6. CASE StartCore
  <2>1. gen' = gen + 1 /\ UNCHANGED <<sock, readBuf, wire>> BY <1>6 DEF StartCore, ioVars
  <2>2. sock <= gen BY DEF SwapsAscend
  <2>3. sock \in Nat /\ gen \in Nat BY <1>0, NumberFacts
  <2>4. sock # gen + 1 BY <2>2, <2>3
  <2>5. ~SockOpen' BY <2>1, <2>4 DEF SockOpen
  <2> QED BY <1>0, <2>1, <2>5, StreamIsKept, CutIsWhole, ProgressOfStream
<1>7. CASE CoreDies \/ NoticeExit
  <2>1. ~SockOpen' BY <1>7 DEF CoreDies, NoticeExit, SockOpen
  <2>2. StreamCut
    <3>1. CASE CoreDies BY <1>0, <3>1, StreamIsCut
    <3>2. CASE NoticeExit BY <1>0, <3>2, StreamIsKept DEF NoticeExit, ioVars
    <3> QED BY <1>7, <3>1, <3>2
  <2> QED BY <1>0, <2>1, <2>2, CutIsWhole, ProgressOfStream
<1>8. CASE CoreStep
  <2>1. CASE Dispatch \/ \E i \in Ids : Execute(i)
    BY <1>2, <2>1 DEF Dispatch, Execute, ioVars
  <2> QED BY <1>8, <2>1, WritesInProgress DEF CoreStep
<1>9. ASSUME NEW c \in Callers, Begin(c) \/ CallStep(c) \/ TimerStep(c)
      PROVE  FrameInProgress' /\ FramesAreWhole'
  <2>1. UNCHANGED <<sock, gen, coreState, writer, readBuf, wire>>
    BY <1>9 DEF Begin, CallStep, TimerStep, Register, PostWrite, Return, Expire, ReclaimSlot,
                ClaimedByReader, GraceExpire, ioVars, coreVars
  <2> QED BY <1>2, <2>1
<1>10. CASE RunWrite \/ CompleteCall \/ StopParsing \/ OnDisconnected \/ Reconnect \/ UiStep
            \/ UNCHANGED vars
  <2>1. UNCHANGED <<sock, gen, coreState, writer, readBuf, wire>>
    BY <1>10 DEF RunWrite, CompleteCall, StopParsing, OnDisconnected, Reconnect, UiStep,
                 PostSwap, PublishCoreRunning, vars, ioVars, coreVars
  <2> QED BY <1>2, <2>1
<1> QED BY <1>3, <1>4, <1>5, <1>6, <1>7, <1>8, <1>9, <1>10 DEF Next, IoStep
-----------------------------------------------------------------------------
LEMMA InitStreamInv == Init => StreamInv
<1> SUFFICES ASSUME Init PROVE StreamInv OBVIOUS
<1>1. SlotInv BY InitSlotInv
<1>2. Stream = << >> /\ Len(Stream) = 0
  <2>1. Stream = << >> \o << >> BY DEF Init, Stream
  <2> QED BY <2>1, ConcatEmptySeq, EmptySeq
<1>3. /\ ioQueue = << >> /\ inbox = << >> /\ Len(ioQueue) = 0 /\ Len(inbox) = 0
      /\ \A i \in Ids : outcome[i] = "none" /\ goroutine[i] = "none" /\ rec[i].status = 1
      /\ \A c \in Callers : pc[c] = "idle"
      /\ writer = None /\ sock = None /\ taken.id = None /\ ui = "idle" /\ coreState = "down"
      /\ gen = 0
  BY DEF Init, NewCall, NoFrame
<1>4. RequestsAreAsked BY <1>3 DEF RequestsAreAsked
<1>5. AnswersAreServed BY <1>2, <1>3 DEF AnswersAreServed
<1>6. SwapsAscend BY <1>3 DEF SwapsAscend, None
<1>7. OnlyLiveWrites BY <1>3 DEF OnlyLiveWrites
<1>8. FrameInProgress BY <1>3 DEF FrameInProgress, SockOpen
<1>9. FramesAreWhole BY <1>2, WholeStream DEF Whole
<1> QED BY <1>1, <1>4, <1>5, <1>6, <1>7, <1>8, <1>9 DEF StreamInv

LEMMA StepStreamInv == StreamInv /\ [Next]_vars => StreamInv'
<1> SUFFICES ASSUME StreamInv, [Next]_vars PROVE StreamInv' OBVIOUS
<1>1. SlotInv' /\ TypeOK' BY StepSlotInv DEF StreamInv, SlotInv, TypeInv
<1> QED BY <1>1, StepRequests, StepAnswers, StepSwaps, StepLive, StepFrames DEF StreamInv

LEMMA AlwaysStreamInv == Spec => []StreamInv
BY InitStreamInv, StepStreamInv, PTL DEF Spec

(* A call that reports success holds the response to its own request, and  *)
(* the reader never loses its place in the byte stream, whatever dies and  *)
(* whenever it is reconnected.                                             *)
THEOREM ResponsesAreOwn == Spec => []OwnResponse
<1>1. StreamInv => OwnResponse BY DEF StreamInv, AnswersAreServed, OwnResponse
<1> QED BY <1>1, AlwaysStreamInv, PTL
-----------------------------------------------------------------------------
(***************************************************************************)
(* The channel implements its promise: a call that begins opens a request, *)
(* the first execution serves it, and what a caller is told ends it.  All  *)
(* other steps are invisible to the callers.                               *)
(***************************************************************************)

LEMMA InitPromise == Init => Promise!Init
BY DEF Init, Promise!Init

LEMMA CallerPromise ==
  ASSUME StreamInv, NEW c \in Callers, Begin(c) \/ CallStep(c) \/ TimerStep(c)
  PROVE  Promise!Next \/ UNCHANGED <<outcome, served>>
<1>0. /\ TypeOK /\ Bound
      /\ (pc[c] # "idle" => rid[c] \in Ids /\ outcome[rid[c]] = "open")
  BY DEF StreamInv, SlotInv, TypeInv, Bound, RequestsAreAsked
<1>1. CASE Begin(c)
  <2>1. nextId \in Ids /\ nextId >= nextId
    <3>1. nextId \in 1 .. MaxId + 1 /\ nextId <= MaxId BY <1>0, <1>1 DEF TypeOK, Begin
    <3> QED BY <3>1, ChannelAssumption DEF Ids
  <2>2. outcome[nextId] = "none" BY <2>1 DEF StreamInv, RequestsAreAsked
  <2>3. Promise!Open(nextId) BY <1>1, <2>2 DEF Begin, Promise!Open
  <2> QED BY <2>1, <2>3 DEF Promise!Next
<1>2. CASE Return(c)
  <2>1. /\ rid[c] \in Ids /\ outcome[rid[c]] = "open" /\ served' = served
        /\ outcome' = [outcome EXCEPT ![rid[c]] = Result(rec[rid[c]])]
    BY <1>0, <1>2 DEF Return, Leave
  <2>2. CASE Result(rec[rid[c]]) = "ok"
    <3>1. rec[rid[c]].status = 0 BY <2>2 DEF Result
    <3>2. rid[c] \in served BY <2>1, <3>1 DEF StreamInv, AnswersAreServed
    <3>3. Promise!Succeed(rid[c]) BY <2>1, <2>2, <3>2 DEF Promise!Succeed
    <3> QED BY <2>1, <3>3 DEF Promise!Next
  <2>3. CASE Result(rec[rid[c]]) = "error"
    <3>1. Promise!Fail(rid[c]) BY <2>1, <2>3 DEF Promise!Fail
    <3> QED BY <2>1, <3>1 DEF Promise!Next
  <2> QED BY <2>2, <2>3 DEF Result
<1>3. CASE ReclaimSlot(c) \/ GraceExpire(c)
  <2>1. /\ rid[c] \in Ids /\ outcome[rid[c]] = "open" /\ served' = served
        /\ outcome' = [outcome EXCEPT ![rid[c]] = "error"]
    BY <1>0, <1>3 DEF ReclaimSlot, GraceExpire, Leave
  <2>2. Promise!Fail(rid[c]) BY <2>1 DEF Promise!Fail
  <2> QED BY <2>1, <2>2 DEF Promise!Next
<1>4. CASE Register(c) \/ PostWrite(c) \/ Expire(c) \/ ClaimedByReader(c)
  BY <1>4 DEF Register, PostWrite, Expire, ClaimedByReader
<1> QED BY <1>1, <1>2, <1>3, <1>4 DEF CallStep, TimerStep

LEMMA StepPromise ==
  StreamInv /\ [Next]_vars => [Promise!Next]_(Promise!promiseVars)
<1> SUFFICES ASSUME StreamInv, [Next]_vars PROVE Promise!Next \/ UNCHANGED <<outcome, served>>
  BY DEF Promise!promiseVars
<1>1. ASSUME NEW i \in Ids, Execute(i) PROVE Promise!Next \/ UNCHANGED <<outcome, served>>
  <2>1. /\ outcome[i] # "none" /\ outcome' = outcome /\ served' = served \cup {i}
    BY <1>1 DEF Execute, StreamInv, RequestsAreAsked
  <2>2. CASE i \in served BY <2>1, <2>2
  <2>3. CASE i \notin served
    <3>1. Promise!Serve(i) BY <2>1, <2>3 DEF Promise!Serve
    <3> QED BY <3>1 DEF Promise!Next
  <2> QED BY <2>2, <2>3
<1>2. CASE IoStep
  BY <1>2 DEF IoStep, RunWrite, RunSwap, OnReadyRead, TakeFrame, CompleteCall, StopParsing,
              OnDisconnected
<1>3. CASE Reconnect \/ UiStep \/ StartCore \/ CoreDies \/ NoticeExit
  BY <1>3 DEF Reconnect, UiStep, PostSwap, PublishCoreRunning, StartCore, CoreDies, NoticeExit
<1>4. CASE CoreStep
  BY <1>1, <1>4 DEF CoreStep, Dispatch, WriteHeader, WriteData
<1>5. CASE UNCHANGED vars BY <1>5 DEF vars
<1> QED BY <1>2, <1>3, <1>4, <1>5, CallerPromise DEF Next

(* Every behaviour of the channel is one its callers were promised: a call *)
(* ends once, and it succeeds only when the core has executed that very    *)
(* request.                                                                *)
THEOREM ImplementsPromise == Spec => Promise!Spec
BY AlwaysStreamInv, InitPromise, StepPromise, PTL DEF Spec, Promise!Spec
-----------------------------------------------------------------------------
(***************************************************************************)
(* A request is executed at most once (ServesOnce): it is in at most one   *)
(* place on its way, the lambda that writes it, the connection or its      *)
(* goroutine, each time once, and it is not among the served ones before   *)
(* its goroutine ends.                                                     *)
(***************************************************************************)

Unsent(i) == \A k \in 1 .. Len(ioQueue) : ioQueue[k].op = "write" => ioQueue[k].id # i
Unread(i) == \A k \in 1 .. Len(inbox) : inbox[k] # i
Untouched(i) == goroutine[i] = "none" /\ i \notin served

CallerOwns ==
    \A c \in Callers : pc[c] \in {"begun", "registered"} =>
        Unsent(rid[c]) /\ Unread(rid[c]) /\ Untouched(rid[c])

QueueOnce ==
    \A k \in 1 .. Len(ioQueue) : ioQueue[k].op = "write" =>
        /\ Unread(ioQueue[k].id) /\ Untouched(ioQueue[k].id)
        /\ \A l \in 1 .. Len(ioQueue) :
              ioQueue[l].op = "write" /\ ioQueue[l].id = ioQueue[k].id => l = k

InboxOnce ==
    \A k \in 1 .. Len(inbox) :
        Untouched(inbox[k]) /\ \A l \in 1 .. Len(inbox) : inbox[l] = inbox[k] => l = k

RunningOnce == \A i \in Ids : goroutine[i] = "running" => i \notin served

ServedIsAsked == \A i \in served : outcome[i] # "none"

OnceInv == CallerOwns /\ QueueOnce /\ InboxOnce /\ RunningOnce /\ ServedIsAsked

WayVars == <<ioQueue, inbox, goroutine, served>>

(* Steps that leave every request where it is.                             *)
LEMMA OnceStays ==
  ASSUME OnceInv, UNCHANGED <<WayVars, rid>>,
         \A i \in Ids : outcome[i] # "none" => outcome'[i] # "none", served \subseteq Ids,
         \A c \in Callers : pc'[c] \in {"begun", "registered"} => pc[c] \in {"begun", "registered"}
  PROVE  OnceInv'
BY DEF OnceInv, CallerOwns, QueueOnce, InboxOnce, RunningOnce, ServedIsAsked, Unsent, Unread,
       Untouched, WayVars

(* A request nobody has asked is nowhere.                                  *)
LEMMA UnaskedIsNowhere ==
  ASSUME RequestsAreAsked, OnceInv, NEW i \in Ids, outcome[i] = "none"
  PROVE  Unsent(i) /\ Unread(i) /\ Untouched(i)
BY DEF RequestsAreAsked, OnceInv, ServedIsAsked, Unsent, Unread, Untouched

LEMMA CallerOnce ==
  ASSUME StreamInv, OnceInv, NEW c \in Callers, Begin(c) \/ CallStep(c) \/ TimerStep(c)
  PROVE  OnceInv'
<1> USE DEF ioVars, coreVars
<1>0. /\ TypeOK /\ Bound /\ RequestsAreAsked /\ IdsAreOwn
      /\ DOMAIN pc = Callers /\ DOMAIN rid = Callers /\ served \subseteq Ids
      /\ outcome \in [Ids -> {"none", "open", "ok", "error"}]
      /\ CallerOwns /\ QueueOnce /\ InboxOnce /\ RunningOnce /\ ServedIsAsked
  BY DEF StreamInv, SlotInv, TypeInv, TypeOK, OnceInv
<1>1. CASE Begin(c)
  <2>1. /\ UNCHANGED WayVars /\ rid' = [rid EXCEPT ![c] = nextId]
        /\ pc' = [pc EXCEPT ![c] = "begun"] /\ outcome' = [outcome EXCEPT ![nextId] = "open"]
    BY <1>1 DEF Begin, WayVars
  <2>2. nextId \in Ids /\ nextId >= nextId
    <3>1. nextId \in 1 .. MaxId + 1 /\ nextId <= MaxId BY <1>0, <1>1 DEF TypeOK, Begin
    <3> QED BY <3>1, ChannelAssumption DEF Ids
  <2>3. Unsent(nextId) /\ Unread(nextId) /\ Untouched(nextId)
    BY <1>0, <2>2, UnaskedIsNowhere DEF RequestsAreAsked
  <2>4. CallerOwns'
    BY <1>0, <2>1, <2>3 DEF CallerOwns, Unsent, Unread, Untouched, WayVars
  <2>5. QueueOnce' /\ InboxOnce' /\ RunningOnce'
    BY <1>0, <2>1 DEF QueueOnce, InboxOnce, RunningOnce, Unread, Untouched, WayVars
  <2>6. ServedIsAsked' BY <1>0, <2>1, <2>2 DEF ServedIsAsked, WayVars
  <2> QED BY <2>4, <2>5, <2>6 DEF OnceInv
<1>2. CASE Register(c) \/ Expire(c) \/ ClaimedByReader(c)
  <2>1. UNCHANGED <<WayVars, rid, outcome>>
    BY <1>2 DEF Register, Expire, ClaimedByReader, WayVars
  <2>2. \A d \in Callers : pc'[d] \in {"begun", "registered"} => pc[d] \in {"begun", "registered"}
    BY <1>0, <1>2 DEF Register, Expire, ClaimedByReader
  <2> QED BY <1>0, <2>1, <2>2, OnceStays
<1>3. CASE PostWrite(c)
  <2> DEFINE e == [op |-> "write", id |-> rid[c]]
  <2>1. /\ UNCHANGED <<inbox, goroutine, served, rid, outcome>>
        /\ pc' = [pc EXCEPT ![c] = "waiting"] /\ pc[c] = "registered"
        /\ ioQueue' = Append(ioQueue, e)
    BY <1>3 DEF PostWrite
  <2>2. /\ rid[c] \in Ids /\ rid[c] # None /\ e \in Lambda /\ ioQueue \in Seq(Lambda)
        /\ e.id = rid[c] /\ e.op = "write" /\ Unsent(rid[c]) /\ Unread(rid[c]) /\ Untouched(rid[c])
    BY <1>0, <2>1, IdFacts DEF Bound, Lambda, TypeOK, CallerOwns
  <2> HIDE DEF e
  <2>3. \A k \in 1 .. Len(ioQueue') :
           \/ k \in 1 .. Len(ioQueue) /\ ioQueue'[k] = ioQueue[k]
           \/ k = Len(ioQueue) + 1 /\ ioQueue'[k] = e
    BY <2>1, <2>2, AppendFacts
  <2>4. ASSUME NEW d \in Callers, pc'[d] \in {"begun", "registered"}
        PROVE  Unsent(rid[d])' /\ Unread(rid[d])' /\ Untouched(rid[d])'
    <3>1. d # c /\ pc[d] \in {"begun", "registered"} BY <1>0, <2>1, <2>4
    <3>2. rid[d] # rid[c] BY <1>0, <2>2, <3>1 DEF IdsAreOwn
    <3>3. Unsent(rid[d])' BY <1>0, <2>1, <2>2, <2>3, <3>1, <3>2 DEF CallerOwns, Unsent
    <3> QED BY <1>0, <2>1, <3>1, <3>3 DEF CallerOwns, Unread, Untouched
  <2>5. QueueOnce'
    <3>1. ASSUME NEW k \in 1 .. Len(ioQueue'), ioQueue'[k].op = "write"
          PROVE  Unread(ioQueue[k].id)' /\ Untouched(ioQueue[k].id)'
      BY <1>0, <2>1, <2>2, <2>3, <3>1 DEF QueueOnce, Unread, Untouched
    <3>2. ASSUME NEW k \in 1 .. Len(ioQueue'), NEW l \in 1 .. Len(ioQueue'),
                 ioQueue'[k].op = "write", ioQueue'[l].op = "write", ioQueue'[k].id = ioQueue'[l].id
          PROVE  k = l
      BY <1>0, <2>2, <2>3, <3>2 DEF QueueOnce, Unsent
    <3> QED BY <3>1, <3>2 DEF QueueOnce
  <2>6. InboxOnce' /\ RunningOnce' /\ ServedIsAsked'
    BY <1>0, <2>1 DEF InboxOnce, RunningOnce, ServedIsAsked, Untouched
  <2> QED BY <2>4, <2>5, <2>6 DEF OnceInv, CallerOwns
<1>4. CASE Return(c) \/ ReclaimSlot(c) \/ GraceExpire(c)
  <2>1. /\ UNCHANGED WayVars /\ pc[c] # "idle" /\ pc' = [pc EXCEPT ![c] = "idle"]
        /\ rid' = [rid EXCEPT ![c] = None]
        /\ \E r \in {"ok", "error"} : outcome' = [outcome EXCEPT ![rid[c]] = r]
    BY <1>4 DEF Return, ReclaimSlot, GraceExpire, Leave, Result, WayVars
  <2>2. \A i \in Ids : outcome[i] # "none" => outcome'[i] # "none" BY <1>0, <2>1
  <2>3. CallerOwns'
    BY <1>0, <2>1 DEF CallerOwns, Unsent, Unread, Untouched, WayVars
  <2>4. QueueOnce' /\ InboxOnce' /\ RunningOnce'
    BY <1>0, <2>1 DEF QueueOnce, InboxOnce, RunningOnce, Unread, Untouched, WayVars
  <2>5. ServedIsAsked' BY <1>0, <2>1, <2>2 DEF ServedIsAsked, WayVars
  <2> QED BY <2>3, <2>4, <2>5 DEF OnceInv
<1> QED BY <1>1, <1>2, <1>3, <1>4 DEF CallStep, TimerStep

(* The lambda at the head writes its request to the core, or drops it.     *)
LEMMA QueueHeadOnce ==
  ASSUME TypeOK, OnceInv, RunWrite \/ RunSwap
  PROVE  OnceInv'
<1>0. /\ CallerOwns /\ QueueOnce /\ InboxOnce /\ RunningOnce /\ ServedIsAsked
      /\ ioQueue \in Seq(Lambda) /\ inbox \in Seq(Ids) /\ ioQueue # << >> /\ ioQueue' = Tail(ioQueue)
      /\ UNCHANGED <<goroutine, served, pc, rid, outcome>>
  BY DEF TypeOK, OnceInv, RunWrite, RunSwap, guiVars
<1>1. /\ Head(ioQueue) = ioQueue[1] /\ 1 \in 1 .. Len(ioQueue) /\ Len(ioQueue) \in Nat
      /\ \A k \in 1 .. Len(ioQueue') : k + 1 \in 1 .. Len(ioQueue) /\ ioQueue'[k] = ioQueue[k + 1]
  BY <1>0, TailFacts
<1> DEFINE h == Head(ioQueue).id
<1>2. \/ inbox' = inbox
      \/ /\ ioQueue[1].op = "write" /\ h \in Ids /\ Unread(h) /\ Untouched(h)
         /\ inbox' = Append(inbox, h)
         /\ \A l \in 1 .. Len(ioQueue) : ioQueue[l].op = "write" /\ ioQueue[l].id = h => l = 1
  <2>1. CASE RunSwap BY <2>1 DEF RunSwap
  <2>2. CASE RunWrite /\ inbox' # inbox
    <3>1. inbox' = Append(inbox, h) /\ ioQueue[1].op = "write" BY <1>1, <2>2 DEF RunWrite
    <3>2. ioQueue[1] \in Lambda BY <1>0, <1>1, ElementOfSeq
    <3>3. h \in Ids BY <1>1, <3>1, <3>2 DEF Lambda
    <3> QED BY <1>0, <1>1, <3>1, <3>3 DEF QueueOnce
  <2> QED BY <2>1, <2>2
<1> HIDE DEF h
<1>3. \A i : Unsent(i) => Unsent(i)' BY <1>1 DEF Unsent
<1>4. ASSUME NEW i, Unread(i), inbox' = inbox \/ i # h PROVE Unread(i)'
  <2>1. CASE inbox' = inbox BY <1>4, <2>1 DEF Unread
  <2>2. CASE inbox' = Append(inbox, h) /\ i # h /\ h \in Ids
    BY <1>0, <1>4, <2>2, AppendFacts DEF Unread
  <2> QED BY <1>2, <1>4, <2>1, <2>2
<1>5. ASSUME NEW c \in Callers, pc'[c] \in {"begun", "registered"}
      PROVE  Unsent(rid[c])' /\ Unread(rid[c])' /\ Untouched(rid[c])'
  <2>1. Unsent(rid[c]) /\ Unread(rid[c]) /\ Untouched(rid[c]) BY <1>0, <1>5 DEF CallerOwns
  <2>2. inbox' = inbox \/ rid[c] # h BY <1>1, <1>2, <2>1 DEF Unsent, h
  <2>3. Unread(rid[c])' BY <1>0, <1>4, <2>1, <2>2 DEF Unread
  <2>4. Unsent(rid[c])' BY <1>0, <1>3, <2>1 DEF Unsent
  <2> QED BY <1>0, <2>1, <2>3, <2>4 DEF Untouched
<1>6. QueueOnce'
  <2>1. ASSUME NEW k \in 1 .. Len(ioQueue'), ioQueue'[k].op = "write"
        PROVE  /\ Unread(ioQueue[k].id)' /\ Untouched(ioQueue[k].id)'
               /\ \A l \in 1 .. Len(ioQueue') :
                     ioQueue'[l].op = "write" /\ ioQueue'[l].id = ioQueue'[k].id => l = k
    <3>1. k + 1 \in 1 .. Len(ioQueue) /\ ioQueue'[k] = ioQueue[k + 1] BY <1>1
    <3>2. Unread(ioQueue[k + 1].id) /\ Untouched(ioQueue[k + 1].id)
      BY <1>0, <2>1, <3>1 DEF QueueOnce
    <3>3. k + 1 # 1 BY <1>1
    <3>4. inbox' = inbox \/ ioQueue[k + 1].id # h BY <1>2, <2>1, <3>1, <3>3
    <3>5. Unread(ioQueue[k].id)' BY <1>4, <3>1, <3>2, <3>4 DEF Unread
    <3>6. Untouched(ioQueue[k].id)' BY <1>0, <3>1, <3>2 DEF Untouched
    <3>7. ASSUME NEW l \in 1 .. Len(ioQueue'), ioQueue'[l].op = "write",
                 ioQueue'[l].id = ioQueue'[k].id
          PROVE  l = k
      <4>1. l + 1 \in 1 .. Len(ioQueue) /\ ioQueue'[l] = ioQueue[l + 1] BY <1>1
      <4>2. l + 1 = k + 1 BY <1>0, <2>1, <3>1, <3>7, <4>1 DEF QueueOnce
      <4> QED BY <4>2
    <3> QED BY <3>5, <3>6, <3>7
  <2> QED BY <2>1 DEF QueueOnce
<1>7. InboxOnce'
  <2>1. CASE inbox' = inbox BY <1>0, <2>1 DEF InboxOnce, Untouched
  <2>2. CASE h \in Ids /\ Unread(h) /\ Untouched(h) /\ inbox' = Append(inbox, h)
    <3>1. \A k \in 1 .. Len(inbox') :
             \/ k \in 1 .. Len(inbox) /\ inbox'[k] = inbox[k]
             \/ k = Len(inbox) + 1 /\ inbox'[k] = h
      BY <1>0, <2>2, AppendFacts
    <3> QED BY <1>0, <2>2, <3>1 DEF InboxOnce, Unread, Untouched
  <2> QED BY <1>2, <2>1, <2>2
<1> QED BY <1>0, <1>5, <1>6, <1>7 DEF OnceInv, CallerOwns, RunningOnce, ServedIsAsked

(* A goroutine of its own for the request at the head.                     *)
LEMMA DispatchOnce ==
  ASSUME TypeOK, OnceInv, Dispatch
  PROVE  OnceInv'
<1>0. /\ CallerOwns /\ QueueOnce /\ InboxOnce /\ RunningOnce /\ ServedIsAsked
      /\ inbox \in Seq(Ids) /\ inbox # << >> /\ inbox' = Tail(inbox)
      /\ goroutine \in [Ids -> {"none", "running", "ok", "failed"}]
      /\ goroutine' = [goroutine EXCEPT ![Head(inbox)] = "running"]
      /\ UNCHANGED <<ioQueue, served, pc, rid, outcome>>
  BY DEF TypeOK, OnceInv, Dispatch, guiVars, ioVars
<1>1. /\ Head(inbox) = inbox[1] /\ 1 \in 1 .. Len(inbox) /\ Len(inbox) \in Nat
      /\ \A k \in 1 .. Len(inbox') : k + 1 \in 1 .. Len(inbox) /\ inbox'[k] = inbox[k + 1]
  BY <1>0, TailFacts
<1>2. \A i : Unread(i) => Unread(i)' /\ i # Head(inbox) BY <1>1 DEF Unread
<1>3. \A i : i # Head(inbox) => goroutine'[i] = goroutine[i] BY <1>0
<1>4. Untouched(Head(inbox)) BY <1>0, <1>1 DEF InboxOnce
<1>5. CallerOwns' BY <1>0, <1>2, <1>3 DEF CallerOwns, Unsent, Unread, Untouched
<1>6. QueueOnce' BY <1>0, <1>2, <1>3 DEF QueueOnce, Unread, Untouched
<1>7. ASSUME NEW k \in 1 .. Len(inbox')
      PROVE  Untouched(inbox[k])' /\ \A l \in 1 .. Len(inbox') : inbox'[l] = inbox'[k] => l = k
  <2>1. k + 1 \in 1 .. Len(inbox) /\ inbox'[k] = inbox[k + 1] /\ k + 1 # 1 BY <1>1
  <2>2. inbox[k + 1] # Head(inbox) BY <1>0, <1>1, <2>1 DEF InboxOnce
  <2>3. Untouched(inbox[k + 1]) BY <1>0, <2>1 DEF InboxOnce
  <2>4. ASSUME NEW l \in 1 .. Len(inbox'), inbox'[l] = inbox'[k] PROVE l = k
    <3>1. l + 1 \in 1 .. Len(inbox) /\ inbox'[l] = inbox[l + 1] BY <1>1
    <3>2. l + 1 = k + 1 BY <1>0, <2>1, <2>4, <3>1 DEF InboxOnce
    <3> QED BY <3>2
  <2> QED BY <1>0, <1>3, <2>1, <2>2, <2>3, <2>4 DEF Untouched
<1>8. RunningOnce' BY <1>0, <1>3, <1>4 DEF RunningOnce, Untouched
<1> QED BY <1>0, <1>5, <1>6, <1>7, <1>8 DEF OnceInv, InboxOnce, ServedIsAsked

(* A goroutine runs, ends, or is gone with its core.                       *)
LEMMA WorkOnce ==
  ASSUME StreamInv, OnceInv,
         CoreDies \/ \E i \in Ids : Execute(i) \/ WriteHeader(i) \/ WriteData(i)
  PROVE  OnceInv'
<1> USE DEF guiVars, ioVars
<1>0. /\ CallerOwns /\ QueueOnce /\ InboxOnce /\ RunningOnce /\ ServedIsAsked
      /\ goroutine \in [Ids -> {"none", "running", "ok", "failed"}]
      /\ WorkIsServed /\ RequestsAreAsked
  BY AnswerParts DEF StreamInv, SlotInv, TypeInv, TypeOK, OnceInv
<1>1. UNCHANGED <<ioQueue, pc, rid, outcome>>
  BY DEF CoreDies, Execute, WriteHeader, WriteData
<1>2. CASE CoreDies
  <2>1. inbox' = << >> /\ served' = served /\ goroutine' = [i \in Ids |-> "none"] /\ Len(inbox') = 0
    BY <1>2 DEF CoreDies
  <2>2. \A i \in Ids : Untouched(i) => Untouched(i)' BY <2>1 DEF Untouched
  <2>3. \A i : Unread(i)' BY <2>1 DEF Unread
  <2>4. ASSUME NEW c \in Callers, pc[c] \in {"begun", "registered"} PROVE rid[c] \in Ids
    BY <2>4 DEF StreamInv, SlotInv, TypeInv, Bound
  <2>5. CallerOwns' BY <1>0, <1>1, <2>2, <2>3, <2>4 DEF CallerOwns, Unsent, Unread, Untouched
  <2>6. ASSUME NEW k \in 1 .. Len(ioQueue), ioQueue[k].op = "write" PROVE ioQueue[k].id \in Ids
    <3>1. ioQueue[k] \in Lambda BY ElementOfSeq DEF StreamInv, SlotInv, TypeInv, TypeOK
    <3> QED BY <2>6, <3>1 DEF Lambda
  <2>7. QueueOnce' BY <1>0, <1>1, <2>2, <2>3, <2>6 DEF QueueOnce, Unread, Untouched
  <2> QED BY <1>0, <1>1, <2>1, <2>5, <2>7 DEF OnceInv, InboxOnce, RunningOnce, ServedIsAsked
<1>3. ASSUME NEW i \in Ids, Execute(i) \/ WriteHeader(i) \/ WriteData(i) PROVE OnceInv'
  <2>1. /\ inbox' = inbox /\ goroutine[i] # "none" /\ outcome[i] # "none"
        /\ \A j \in Ids : j # i => goroutine'[j] = goroutine[j]
        /\ served' \in {served, served \cup {i}}
    <3>1. CASE Execute(i) BY <1>0, <1>1, <3>1 DEF Execute, RequestsAreAsked
    <3>2. CASE WriteHeader(i) BY <1>0, <1>1, <3>2 DEF WriteHeader, RequestsAreAsked
    <3>3. CASE WriteData(i) BY <1>0, <1>1, <3>3 DEF WriteData, RequestsAreAsked
    <3> QED BY <1>3, <3>1, <3>2, <3>3
  <2>2. ASSUME NEW j \in Ids, Untouched(j) PROVE Untouched(j)'
    <3>1. j # i /\ goroutine[j] = "none" /\ j \notin served BY <2>1, <2>2 DEF Untouched
    <3>2. goroutine'[j] = goroutine[j] /\ j \notin served' BY <2>1, <3>1
    <3> QED BY <3>1, <3>2 DEF Untouched
  <2>3. RunningOnce'
    <3>1. CASE Execute(i) BY <1>0, <3>1 DEF Execute, RunningOnce
    <3>2. CASE WriteHeader(i) \/ WriteData(i) BY <1>0, <3>2 DEF WriteHeader, WriteData, RunningOnce
    <3> QED BY <1>3, <3>1, <3>2
  <2>4. ServedIsAsked' BY <1>0, <1>1, <2>1 DEF ServedIsAsked
  <2>5. /\ \A c \in Callers : pc[c] \in {"begun", "registered"} => rid[c] \in Ids
        /\ \A k \in 1 .. Len(ioQueue) : ioQueue[k] \in Lambda
        /\ \A k \in 1 .. Len(inbox) : inbox[k] \in Ids
    BY ElementOfSeq DEF StreamInv, SlotInv, TypeInv, Bound, TypeOK
  <2>6. \A k \in 1 .. Len(ioQueue) : ioQueue[k].op = "write" => ioQueue[k].id \in Ids
    BY <2>5 DEF Lambda
  <2>7. CallerOwns' BY <1>0, <1>1, <2>1, <2>2, <2>5 DEF CallerOwns, Unsent, Unread, Untouched
  <2>8. QueueOnce' BY <1>0, <1>1, <2>1, <2>2, <2>6 DEF QueueOnce, Unread, Untouched
  <2>9. InboxOnce' BY <1>0, <2>1, <2>2, <2>5 DEF InboxOnce, Untouched
  <2> QED BY <2>3, <2>4, <2>7, <2>8, <2>9 DEF OnceInv
<1> QED BY <1>2, <1>3

(* A swap in the queue is no request.                                      *)
LEMMA PostSwapOnce ==
  ASSUME TypeOK, Bound, OnceInv, PostSwap
  PROVE  OnceInv'
<1> DEFINE e == [op |-> "swap", id |-> uiSock]
<1>0. /\ CallerOwns /\ QueueOnce /\ InboxOnce /\ RunningOnce /\ ServedIsAsked
      /\ ioQueue \in Seq(Lambda) /\ e \in Lambda /\ ioQueue' = Append(ioQueue, e)
      /\ UNCHANGED <<inbox, goroutine, served, pc, rid, outcome>>
  BY DEF TypeOK, Bound, OnceInv, PostSwap, Lambda, guiVars, coreVars
<1>1. e.op # "write" OBVIOUS
<1> HIDE DEF e
<1>2. \A k \in 1 .. Len(ioQueue') :
         ioQueue'[k].op = "write" => k \in 1 .. Len(ioQueue) /\ ioQueue'[k] = ioQueue[k]
  BY <1>0, <1>1, AppendFacts
<1>3. CallerOwns' BY <1>0, <1>2 DEF CallerOwns, Unsent, Unread, Untouched
<1>4. QueueOnce' BY <1>0, <1>2 DEF QueueOnce, Unread, Untouched
<1> QED BY <1>0, <1>3, <1>4 DEF OnceInv, InboxOnce, RunningOnce, ServedIsAsked, Untouched

LEMMA StepOnce == StreamInv /\ OnceInv /\ [Next]_vars => OnceInv'
<1> SUFFICES ASSUME StreamInv, OnceInv, [Next]_vars PROVE OnceInv' OBVIOUS
<1>0. TypeOK /\ Bound /\ served \subseteq Ids BY DEF StreamInv, SlotInv, TypeInv, TypeOK
<1>1. CASE OnReadyRead \/ TakeFrame \/ CompleteCall \/ StopParsing \/ OnDisconnected
           \/ Reconnect \/ PublishCoreRunning \/ StartCore \/ NoticeExit \/ UNCHANGED vars
  <2>1. UNCHANGED <<WayVars, rid, pc, outcome>>
    BY <1>1 DEF OnReadyRead, TakeFrame, CompleteCall, StopParsing, OnDisconnected, Reconnect,
         PublishCoreRunning, StartCore, NoticeExit, vars, guiVars, ioVars, coreVars, WayVars
  <2> QED BY <1>0, <2>1, OnceStays
<1> QED BY <1>0, <1>1, CallerOnce, QueueHeadOnce, DispatchOnce, WorkOnce, PostSwapOnce
    DEF Next, IoStep, UiStep, CoreStep

LEMMA InitOnce == Init => OnceInv
<1> SUFFICES ASSUME Init PROVE OnceInv OBVIOUS
<1>1. Len(ioQueue) = 0 /\ Len(inbox) = 0 /\ served = {} BY DEF Init
<1> QED BY <1>1 DEF Init, OnceInv, CallerOwns, QueueOnce, InboxOnce, RunningOnce, ServedIsAsked

(* The core executes a request at most once, whatever times out, dies or   *)
(* is reconnected.                                                         *)
THEOREM RequestsServedOnce == Spec => ServesOnce
<1>1. OnceInv => \A i \in Ids :
                    goroutine[i] = "running" /\ goroutine'[i] \in {"ok", "failed"} => i \notin served
  BY DEF OnceInv, RunningOnce
<1> QED BY <1>1, AlwaysStreamInv, InitOnce, StepOnce, PTL DEF Spec, ServesOnce

(* The channel keeps its whole promise (KeepsPromise): it implements what  *)
(* RpcPromise says of the callers, and it executes nothing twice.          *)
THEOREM ChannelKeepsPromise == Spec => KeepsPromise
BY ImplementsPromise, RequestsServedOnce DEF KeepsPromise
=============================================================================
