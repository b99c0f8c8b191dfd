----------------------------- MODULE RpcChannel -----------------------------
(***************************************************************************)
(* The multiplexed IPC channel between the GUI and the core process:       *)
(* Client::LocalSocketChannel of src/src/api/RPC.cpp, the connection       *)
(* hand-over of MainWindow (setup_rpc, newConnection) and the core's       *)
(* dispatcher, src/core/server/dispatch.go.                                *)
(*                                                                         *)
(* Worker threads of the GUI (Callers) register a PendingCall, post the    *)
(* write to the I/O thread and wait.  The I/O thread runs posted lambdas   *)
(* in FIFO order, reads response bytes and wakes the caller a frame        *)
(* belongs to.  When the core is restarted the UI thread fails what is in  *)
(* flight and posts the swap to the new socket.  The core runs one         *)
(* goroutine per request and writes each response as a header and a body   *)
(* under one mutex.                                                        *)
(*                                                                         *)
(* A response is two pieces on the wire, its header (request id, status)   *)
(* and its data; the payload of a response is the id of the request that   *)
(* the core executed to produce it.                                        *)
(***************************************************************************)
EXTENDS Naturals, Sequences

CONSTANTS Callers,            \* the GUI threads that make calls
          MaxId,              \* bound: request ids handed out
          MaxGen              \* bound: core processes started

ASSUME ChannelAssumption == MaxId \in Nat /\ MaxGen \in Nat

Ids  == 1 .. MaxId
Gens == 1 .. MaxGen
None == 0

VARIABLES
  coreRunning,  \* settingsRepo->core_running
  nextId,       \* next_id, monotonic across reconnects
  pending,      \* keys of the map of PendingCalls, under pending_mu
  rec,          \* the PendingCall of each id: done, status and data
  pc,           \* where each caller is in Call()
  rid,          \* the request id of each caller's call
  ioQueue,      \* lambdas posted to io_anchor, FIFO
  io,           \* the I/O thread: "idle", "parsing" or "completing"
  taken,        \* the frame processBuffer has claimed and not yet completed
  sock,         \* the connection the I/O thread uses, named by its core
  sockEof,      \* its disconnected() has been delivered
  readBuf,      \* read_buf
  ui,           \* the UI thread inside the newConnection handler
  uiSock,       \* the socket that handler is installing
  coreState,    \* the core process: "down", "up", or "dead" and unnoticed
  gen,          \* how many core processes were started
  accepted,     \* the current core's connection reached newConnection
  inbox,        \* requests written to sock that the core has not read
  wire,         \* response pieces on sock that the GUI has not read
  goroutine,    \* the core's goroutine of each request
  writer,       \* the request whose goroutine holds writeMu
  outcome,      \* what the caller of each request was told (history)
  served        \* the requests the core executed (history)

guiVars  == <<coreRunning, nextId, pending, rec, pc, rid>>
ioVars   == <<ioQueue, io, taken, sock, sockEof, readBuf>>
uiVars   == <<ui, uiSock>>
coreVars == <<coreState, gen, accepted, inbox, wire, goroutine, writer>>
vars == <<guiVars, ioVars, uiVars, coreVars, outcome, served>>

Piece  == [part : {"head", "data"}, id : Ids, status : {0, 1}]
Lambda == [op : {"write"}, id : Ids] \cup [op : {"swap"}, id : Gens]
Frame  == [id : Ids \cup {None}, status : {0, 1}, data : Ids \cup {None}]
Call   == [done : BOOLEAN, status : {0, 1}, data : Ids \cup {None}]

NoFrame == [id |-> None, status |-> 1, data |-> None]

(* Slip: the default status is success. *)
NewCallOk == [done |-> FALSE, status |-> 0, data |-> None]

(* A PendingCall is born an unfinished error. *)
NewCall == [done |-> FALSE, status |-> 1, data |-> None]

TypeOK ==
    /\ coreRunning \in BOOLEAN
    /\ nextId \in 1 .. MaxId + 1
    /\ pending \subseteq Ids
    /\ rec \in [Ids -> Call]
    /\ pc \in [Callers -> {"idle", "begun", "registered", "waiting",
                           "expired", "grace"}]
    /\ rid \in [Callers -> Ids \cup {None}]
    /\ ioQueue \in Seq(Lambda)
    /\ io \in {"idle", "parsing", "completing"}
    /\ taken \in Frame
    /\ sock \in Gens \cup {None}
    /\ sockEof \in BOOLEAN
    /\ readBuf \in Seq(Piece)
    /\ ui \in {"idle", "woken", "posted"}
    /\ uiSock \in Gens \cup {None}
    /\ coreState \in {"down", "up", "dead"}
    /\ gen \in 0 .. MaxGen
    /\ accepted \in BOOLEAN
    /\ inbox \in Seq(Ids)
    /\ wire \in Seq(Piece)
    /\ goroutine \in [Ids -> {"none", "running", "ok", "failed"}]
    /\ writer \in Ids \cup {None}
    /\ outcome \in [Ids -> {"none", "open", "ok", "error"}]
    /\ served \subseteq Ids

Init ==
    /\ coreRunning = FALSE /\ nextId = 1 /\ pending = {}
    /\ rec = [i \in Ids |-> NewCall]
    /\ pc = [c \in Callers |-> "idle"] /\ rid = [c \in Callers |-> None]
    /\ ioQueue = <<>> /\ io = "idle" /\ taken = NoFrame
    /\ sock = None /\ sockEof = FALSE /\ readBuf = <<>>
    /\ ui = "idle" /\ uiSock = None
    /\ coreState = "down" /\ gen = 0 /\ accepted = FALSE
    /\ inbox = <<>> /\ wire = <<>>
    /\ goroutine = [i \in Ids |-> "none"] /\ writer = None
    /\ outcome = [i \in Ids |-> "none"] /\ served = {}

-----------------------------------------------------------------------------
(* wakeAllWithError: one critical section of pending_mu.  The status of the *)
(* calls is left at its initial value, error.                               *)

(* Slip: the map is cleared but the calls are not marked done. *)
ClearOnly == pending' = {} /\ UNCHANGED rec

WakeAllWithError ==
    /\ rec' = [i \in Ids |->
                 IF i \in pending THEN [rec[i] EXCEPT !.done = TRUE] ELSE rec[i]]
    /\ pending' = {}

(* The core end of the connection the I/O thread uses is alive. *)
SockOpen == sock # None /\ sock = gen /\ coreState = "up"

-----------------------------------------------------------------------------
(* Call(), on a worker thread.  A caller that finds core_running clear      *)
(* returns at once and changes nothing.                                     *)

Begin(c) ==
    /\ pc[c] = "idle" /\ coreRunning /\ nextId <= MaxId
    /\ nextId' = nextId + 1
    /\ rid' = [rid EXCEPT ![c] = nextId]
    /\ pc' = [pc EXCEPT ![c] = "begun"]
    /\ outcome' = [outcome EXCEPT ![nextId] = "open"]
    /\ UNCHANGED <<coreRunning, pending, rec, ioVars, uiVars, coreVars, served>>

Register(c) ==
    /\ pc[c] = "begun"
    /\ pending' = pending \cup {rid[c]}
    /\ rec' = [rec EXCEPT ![rid[c]] = NewCall]
    /\ pc' = [pc EXCEPT ![c] = "registered"]
    /\ UNCHANGED <<coreRunning, nextId, rid, ioVars, uiVars, coreVars,
                   outcome, served>>

PostWrite(c) ==
    /\ pc[c] = "registered"
    /\ ioQueue' = Append(ioQueue, [op |-> "write", id |-> rid[c]])
    /\ pc' = [pc EXCEPT ![c] = "waiting"]
    /\ UNCHANGED <<coreRunning, nextId, pending, rec, rid, io, taken, sock,
                   sockEof, readBuf, uiVars, coreVars, outcome, served>>

(* What Call() and the wrapper around it report for a finished PendingCall. *)
Result(call) == IF call.done /\ call.status = 0 THEN "ok" ELSE "error"

Leave(c, result) ==
    /\ outcome' = [outcome EXCEPT ![rid[c]] = result]
    /\ pc' = [pc EXCEPT ![c] = "idle"]
    /\ rid' = [rid EXCEPT ![c] = None]

(* awaitDone saw done, in the first wait or in the grace wait. *)
Return(c) ==
    /\ pc[c] \in {"waiting", "grace"} /\ rec[rid[c]].done
    /\ Leave(c, Result(rec[rid[c]]))
    /\ UNCHANGED <<coreRunning, nextId, pending, rec, ioVars, uiVars, coreVars,
                   served>>

(* Slip: a wait without a deadline. *)
NeverExpire(c) == FALSE /\ UNCHANGED vars

(* Slip: a timed-out wait sends its request again. *)
ExpireAndResend(c) ==
    /\ pc[c] = "waiting" /\ ~rec[rid[c]].done
    /\ pc' = [pc EXCEPT ![c] = "expired"]
    /\ ioQueue' = Append(ioQueue, [op |-> "write", id |-> rid[c]])
    /\ UNCHANGED <<coreRunning, nextId, pending, rec, rid, io, taken, sock,
                   sockEof, readBuf, uiVars, coreVars, outcome, served>>

(* awaitDone gave up; pending_mu is not held yet. *)
Expire(c) ==
    /\ pc[c] = "waiting" /\ ~rec[rid[c]].done
    /\ pc' = [pc EXCEPT ![c] = "expired"]
    /\ UNCHANGED <<coreRunning, nextId, pending, rec, rid, ioVars, uiVars,
                   coreVars, outcome, served>>

(* Slip: the timed-out call leaves its slot in the map. *)
AbandonSlot(c) ==
    /\ pc[c] = "expired" /\ rid[c] \in pending
    /\ Leave(c, "error")
    /\ UNCHANGED <<coreRunning, nextId, pending, rec, ioVars, uiVars, coreVars,
                   served>>

(* The slot is still ours: the call fails. *)
ReclaimSlot(c) ==
    /\ pc[c] = "expired" /\ rid[c] \in pending
    /\ pending' = pending \ {rid[c]}
    /\ Leave(c, "error")
    /\ UNCHANGED <<coreRunning, nextId, rec, ioVars, uiVars, coreVars, served>>

(* Somebody else took the slot: wait a second time. *)
ClaimedByReader(c) ==
    /\ pc[c] = "expired" /\ rid[c] \notin pending
    /\ pc' = [pc EXCEPT ![c] = "grace"]
    /\ UNCHANGED <<coreRunning, nextId, pending, rec, rid, ioVars, uiVars,
                   coreVars, outcome, served>>

GraceExpire(c) ==
    /\ pc[c] = "grace" /\ ~rec[rid[c]].done
    /\ Leave(c, "error")
    /\ UNCHANGED <<coreRunning, nextId, pending, rec, ioVars, uiVars, coreVars,
                   served>>

CallStep(c) == Register(c) \/ PostWrite(c) \/ Return(c) \/ ReclaimSlot(c)
               \/ ClaimedByReader(c)

TimerStep(c) == Expire(c) \/ GraceExpire(c)

-----------------------------------------------------------------------------
(* The I/O thread. *)

(* if (sock) sock->write(frame): bytes for a peer that is gone are lost. *)
RunWrite ==
    /\ io = "idle" /\ ioQueue # <<>> /\ Head(ioQueue).op = "write"
    /\ ioQueue' = Tail(ioQueue)
    /\ inbox' = IF SockOpen THEN Append(inbox, Head(ioQueue).id) ELSE inbox
    /\ UNCHANGED <<guiVars, io, taken, sock, sockEof, readBuf, uiVars,
                   coreState, gen, accepted, wire, goroutine, writer,
                   outcome, served>>

(* Slip: an unfinished frame of the old connection survives the swap. *)
SwapKeepsBuffer ==
    /\ io = "idle" /\ ioQueue # <<>> /\ Head(ioQueue).op = "swap"
    /\ ioQueue' = Tail(ioQueue)
    /\ sock' = Head(ioQueue).id
    /\ sockEof' = FALSE
    /\ wire' = <<>>
    /\ UNCHANGED <<guiVars, io, taken, readBuf, uiVars, coreState, gen, accepted,
                   inbox, goroutine, writer, outcome, served>>

(* The swap posted by Reconnect: the old socket is dropped with everything  *)
(* unread on it, and so is the unfinished frame in read_buf.                *)
RunSwap ==
    /\ io = "idle" /\ ioQueue # <<>> /\ Head(ioQueue).op = "swap"
    /\ ioQueue' = Tail(ioQueue)
    /\ sock' = Head(ioQueue).id
    /\ sockEof' = FALSE
    /\ readBuf' = <<>>
    /\ wire' = <<>>
    /\ UNCHANGED <<guiVars, io, taken, uiVars, coreState, gen, accepted, inbox,
                   goroutine, writer, outcome, served>>

(* readAll returns what has arrived, which may end inside a frame. *)
OnReadyRead ==
    /\ io = "idle" /\ sock # None /\ wire # <<>>
    /\ \E n \in 1 .. Len(wire) :
         /\ readBuf' = readBuf \o SubSeq(wire, 1, n)
         /\ wire' = SubSeq(wire, n + 1, Len(wire))
    /\ io' = "parsing"
    /\ UNCHANGED <<guiVars, ioQueue, taken, sock, sockEof, uiVars, coreState,
                   gen, accepted, inbox, goroutine, writer, outcome, served>>

(* One turn of processBuffer's loop: cut a frame off the buffer and claim   *)
(* the call it names.                                                       *)
TakeFrame ==
    /\ io = "parsing" /\ Len(readBuf) >= 2
    /\ readBuf' = SubSeq(readBuf, 3, Len(readBuf))
    /\ LET head == readBuf[1] IN
         IF head.id \in pending
         THEN /\ pending' = pending \ {head.id}
              /\ taken' = [id |-> head.id, status |-> head.status,
                           data |-> readBuf[2].id]
              /\ io' = "completing"
         ELSE UNCHANGED <<pending, taken, io>>
    /\ UNCHANGED <<coreRunning, nextId, rec, pc, rid, ioQueue, sock, sockEof,
                   uiVars, coreVars, outcome, served>>

CompleteCall ==
    /\ io = "completing"
    /\ rec' = [rec EXCEPT ![taken.id] =
                 [done |-> TRUE, status |-> taken.status, data |-> taken.data]]
    /\ taken' = NoFrame
    /\ io' = "parsing"
    /\ UNCHANGED <<coreRunning, nextId, pending, pc, rid, ioQueue, sock, sockEof,
                   readBuf, uiVars, coreVars, outcome, served>>

StopParsing ==
    /\ io = "parsing" /\ Len(readBuf) < 2
    /\ io' = "idle"
    /\ UNCHANGED <<guiVars, ioQueue, taken, sock, sockEof, readBuf, uiVars,
                   coreVars, outcome, served>>

(* QLocalSocket::disconnected of the current socket, once what had arrived  *)
(* is read.                                                                 *)
OnDisconnected ==
    /\ io = "idle" /\ sock # None /\ ~SockOpen /\ ~sockEof /\ wire = <<>>
    /\ sockEof' = TRUE
    /\ WakeAllWithError
    /\ UNCHANGED <<coreRunning, nextId, pc, rid, ioQueue, io, taken, sock,
                   readBuf, uiVars, coreVars, outcome, served>>

IoStep == RunWrite \/ RunSwap \/ OnReadyRead \/ TakeFrame \/ CompleteCall
          \/ StopParsing \/ OnDisconnected

-----------------------------------------------------------------------------
(* The UI thread: newConnection, setup_rpc and Reconnect. *)

Reconnect ==
    /\ ui = "idle" /\ coreState = "up" /\ ~accepted
    /\ accepted' = TRUE
    /\ ui' = "woken" /\ uiSock' = gen
    /\ WakeAllWithError
    /\ UNCHANGED <<coreRunning, nextId, pc, rid, ioVars, coreState, gen, inbox,
                   wire, goroutine, writer, outcome, served>>

PostSwap ==
    /\ ui = "woken"
    /\ ioQueue' = Append(ioQueue, [op |-> "swap", id |-> uiSock])
    /\ ui' = "posted"
    /\ UNCHANGED <<guiVars, io, taken, sock, sockEof, readBuf, uiSock, coreVars,
                   outcome, served>>

PublishCoreRunning ==
    /\ ui = "posted"
    /\ coreRunning' = TRUE
    /\ ui' = "idle"
    /\ UNCHANGED <<nextId, pending, rec, pc, rid, ioVars, uiSock, coreVars,
                   outcome, served>>

UiStep == PostSwap \/ PublishCoreRunning

-----------------------------------------------------------------------------
(* The core process. *)

StartCore ==
    /\ coreState = "down" /\ gen < MaxGen
    /\ coreState' = "up" /\ gen' = gen + 1 /\ accepted' = FALSE
    /\ UNCHANGED <<guiVars, ioVars, uiVars, inbox, wire, goroutine, writer,
                   outcome, served>>

(* The process ends at any point; what it had sent may be cut short. *)
CoreDies ==
    /\ coreState = "up"
    /\ coreState' = "dead"
    /\ inbox' = <<>>
    /\ \E n \in 0 .. Len(wire) : wire' = SubSeq(wire, 1, n)
    /\ goroutine' = [i \in Ids |-> "none"]
    /\ writer' = None
    /\ UNCHANGED <<guiVars, ioVars, uiVars, gen, accepted, outcome, served>>

(* CoreProcess: stateChanged(NotRunning). *)
NoticeExit ==
    /\ coreState = "dead"
    /\ coreState' = "down"
    /\ coreRunning' = FALSE
    /\ UNCHANGED <<nextId, pending, rec, pc, rid, ioVars, uiVars, gen, accepted,
                   inbox, wire, goroutine, writer, outcome, served>>

(* runDispatch reads a frame and starts its goroutine. *)
Dispatch ==
    /\ coreState = "up" /\ inbox # <<>>
    /\ inbox' = Tail(inbox)
    /\ goroutine' = [goroutine EXCEPT ![Head(inbox)] = "running"]
    /\ UNCHANGED <<guiVars, ioVars, uiVars, coreState, gen, accepted, wire,
                   writer, outcome, served>>

(* dispatch() returns data, or an error that becomes status 1. *)
Execute(i) ==
    /\ goroutine[i] = "running"
    /\ served' = served \cup {i}
    /\ \E res \in {"ok", "failed"} :
         goroutine' = [goroutine EXCEPT ![i] = res]
    /\ UNCHANGED <<guiVars, ioVars, uiVars, coreState, gen, accepted, inbox,
                   wire, writer, outcome>>

WriteHeader(i) ==
    /\ goroutine[i] \in {"ok", "failed"} /\ writer = None
    /\ writer' = i
    /\ wire' = Append(wire, [part |-> "head", id |-> i,
                             status |-> IF goroutine[i] = "ok" THEN 0 ELSE 1])
    /\ UNCHANGED <<guiVars, ioVars, uiVars, coreState, gen, accepted, inbox,
                   goroutine, outcome, served>>

WriteData(i) ==
    /\ goroutine[i] \in {"ok", "failed"} /\ writer = i
    /\ writer' = None
    /\ wire' = Append(wire, [part |-> "data", id |-> i, status |-> 0])
    /\ goroutine' = [goroutine EXCEPT ![i] = "none"]
    /\ UNCHANGED <<guiVars, ioVars, uiVars, coreState, gen, accepted, inbox,
                   outcome, served>>

CoreStep == Dispatch \/ \E i \in Ids : Execute(i) \/ WriteHeader(i) \/ WriteData(i)

-----------------------------------------------------------------------------
Next ==
    \/ \E c \in Callers : Begin(c) \/ CallStep(c) \/ TimerStep(c)
    \/ IoStep
    \/ Reconnect \/ UiStep
    \/ StartCore \/ CoreDies \/ NoticeExit \/ CoreStep

(* Threads that can run do; the timers of Call() run out.  Nothing obliges  *)
(* a core to answer, to die or to come back.                                *)
Fairness ==
    /\ \A c \in Callers : WF_vars(CallStep(c) \/ TimerStep(c))
    /\ WF_vars(IoStep)
    /\ WF_vars(UiStep)

Spec == Init /\ [][Next]_vars /\ Fairness

-----------------------------------------------------------------------------
(* Safety *)

(* processBuffer never loses its place in the byte stream: what it has not  *)
(* parsed, followed by what it has not read, is a sequence of whole frames, *)
(* possibly without the end of the last one.  A frame cut short by a crash  *)
(* is never completed with bytes of the next connection.                    *)
FramesAreWhole ==
    LET stream == readBuf \o wire IN
    \A k \in 1 .. Len(stream) :
       IF k % 2 = 1 THEN stream[k].part = "head"
       ELSE stream[k].part = "data" /\ stream[k].id = stream[k - 1].id

(* A call that reports success holds the response to its own request, which *)
(* the core has executed, and no frame is torn apart by a reconnect or      *)
(* interleaved by two goroutines, which would give every later call the     *)
(* response of another one.                                                 *)
OwnResponse ==
    /\ FramesAreWhole
    /\ \A i \in Ids : outcome[i] = "ok" => rec[i].data = i /\ i \in served

(* No wake-up is lost: a call that waits and is not done is still in the    *)
(* map, where a response, a reconnect or a disconnect finds it, or is in    *)
(* the hands of processBuffer.                                              *)
WaitingIsReachable ==
    \A c \in Callers :
       pc[c] \in {"registered", "waiting"} /\ ~rec[rid[c]].done =>
          rid[c] \in pending \/ taken.id = rid[c]

(* The map holds nothing but calls somebody still waits for: a finished or  *)
(* abandoned call leaves no slot behind for a late response.                *)
PendingIsOwned ==
    \A i \in pending :
       /\ ~rec[i].done
       /\ \E c \in Callers :
            rid[c] = i /\ pc[c] \in {"registered", "waiting", "expired"}

(* "A response is inbound; give it a brief bounded chance": a timed-out     *)
(* call waits again only while processBuffer is completing that very call.  *)
GraceHasResponse ==
    \A c \in Callers :
       pc[c] = "grace" /\ ~rec[rid[c]].done => taken.id = rid[c]

-----------------------------------------------------------------------------
(* The channel keeps its promise to the callers. *)

Promise == INSTANCE RpcPromise

(* A request is executed at most once: no time-out, reconnect or restarted  *)
(* core makes the channel deliver it, or the core run it, a second time.    *)
ServesOnce ==
    [][\A i \in Ids :
          goroutine[i] = "running" /\ goroutine'[i] \in {"ok", "failed"} => i \notin served]_vars

(* Every behaviour of the channel, with its crashes, reconnects, timeouts   *)
(* and late responses, is one of the promised behaviours, and no request is *)
(* executed twice, which the promise would not tell from a stutter.         *)
KeepsPromise == Promise!Spec /\ ServesOnce

(* Call() returns, whatever happens to the core, the connection or the      *)
(* response.                                                                *)
CallReturns == \A c \in Callers : pc[c] # "idle" ~> pc[c] = "idle"
=============================================================================
