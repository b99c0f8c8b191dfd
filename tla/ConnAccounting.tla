--------------------------- MODULE ConnAccounting ---------------------------
(***************************************************************************)
(* The per-app traffic accounting of ConnectionLister::update              *)
(* (src/src/stats/connectionLister/connectionLister.cpp), fed by           *)
(* QueryConnections of the core (src/core/server/server.go).               *)
(*                                                                         *)
(* The core answers a poll with its live connections and a ring of the     *)
(* recently closed ones, read one after the other while connections go on. *)
(* The GUI credits, per connection, what was transferred since the last    *)
(* poll.  A connection's upload and download are one counter here: both    *)
(* are treated alike.  Connection ids are never used twice.                *)
(***************************************************************************)
EXTENDS Naturals, Sequences, SequencesExt, FiniteSets

CONSTANTS Conns,
          RingSize,     \* closed connections the core remembers
          MaxBytes,     \* bound: what one connection transfers
          MaxFail,      \* bound: polls that fail
          MaxStops      \* bound: stops of the box

ASSUME AccountingAssumption ==
    RingSize \in Nat \ {0} /\ {MaxBytes, MaxFail, MaxStops} \subseteq Nat

VARIABLES
  conn,        \* the life of each connection
  bytes,       \* what each connection has transferred
  ring,        \* the core's closed connections, the oldest first
  poll,        \* how far the poll in progress is
  active,      \* its answer: the live connections and their counters
  lastBytes,   \* ConnectionLister::lastBytes_; 0 where it has no entry
  accounted,   \* ConnectionLister::accountedClosed_
  credited,    \* what was passed to AddAppDelta for each connection
  fails, stops,                \* history: counters for the bounds
  overlapped,  \* history: connections that closed between the core's two reads
  blinded      \* history: connections known when a poll failed

connVars == <<conn, bytes, ring, poll, active, lastBytes, accounted, credited,
              fails, stops, overlapped, blinded>>

Counters == [Conns -> 0 .. MaxBytes]
Zero == [c \in Conns |-> 0]
InRing == ToSet(ring)
Live == {c \in Conns : conn[c] = "open"}

ConnTypeOK ==
    /\ conn \in [Conns -> {"new", "open", "closed", "gone"}]
    /\ bytes \in Counters /\ lastBytes \in Counters
    /\ ring \in Seq(Conns) /\ Len(ring) <= RingSize
    /\ poll \in {"none", "reading"}
    /\ active \in [set : SUBSET Conns, at : Counters]
    /\ accounted \subseteq Conns
    /\ credited \in [Conns -> Nat]
    /\ fails \in 0 .. MaxFail /\ stops \in 0 .. MaxStops
    /\ overlapped \subseteq Conns /\ blinded \subseteq Conns

ConnInit ==
    /\ conn = [c \in Conns |-> "new"] /\ bytes = Zero /\ ring = << >>
    /\ poll = "none" /\ active = [set |-> {}, at |-> Zero]
    /\ lastBytes = Zero /\ accounted = {} /\ credited = Zero
    /\ fails = 0 /\ stops = 0 /\ overlapped = {} /\ blinded = {}

gui == <<lastBytes, accounted, credited>>
-----------------------------------------------------------------------------
(* The core. *)
Open(c) ==
    /\ conn[c] = "new"
    /\ conn' = [conn EXCEPT ![c] = "open"]
    /\ UNCHANGED <<bytes, ring, poll, active, gui, fails, stops, overlapped, blinded>>

Transfer(c) ==
    /\ conn[c] = "open" /\ bytes[c] < MaxBytes
    /\ bytes' = [bytes EXCEPT ![c] = @ + 1]
    /\ UNCHANGED <<conn, ring, poll, active, gui, fails, stops, overlapped, blinded>>

(* The tracker moves from the live table into the ring, which drops its    *)
(* oldest entry when it is full.                                           *)
Remember(c) == Append(IF Len(ring) = RingSize THEN Tail(ring) ELSE ring, c)

Close(c) ==
    /\ conn[c] = "open"
    /\ conn' = [conn EXCEPT ![c] = "closed"]
    /\ ring' = Remember(c)
    /\ overlapped' = IF poll = "reading" THEN overlapped \cup {c} ELSE overlapped
    /\ UNCHANGED <<bytes, poll, active, gui, fails, stops, blinded>>

(* Stop of the box: its tracker is dropped with everything in it.  A poll   *)
(* keeps the tracker it began with, so a stop during a poll is one that    *)
(* comes right after it.                                                   *)
StopBox ==
    /\ stops < MaxStops /\ poll = "none"
    /\ stops' = stops + 1
    /\ conn' = [c \in Conns |-> IF conn[c] = "open" THEN "gone" ELSE conn[c]]
    /\ ring' = << >>
    /\ UNCHANGED <<bytes, poll, active, gui, fails, overlapped, blinded>>

(* QueryConnections reads the live connections, then the ring. *)
ReadActive ==
    /\ poll = "none"
    /\ poll' = "reading"
    /\ active' = [set |-> Live, at |-> bytes]
    /\ UNCHANGED <<conn, bytes, ring, gui, fails, stops, overlapped, blinded>>
-----------------------------------------------------------------------------
(* update(): credit the live connections, then the closed ones that are    *)
(* not accounted yet, both against the counters of the previous poll; then *)
(* remember the live counters and take everything in the ring as accounted.*)
Grown(c, now) == IF now > lastBytes[c] THEN now - lastBytes[c] ELSE 0

CreditLive(c) == IF c \in active.set THEN Grown(c, active.at[c]) ELSE 0

(* Slips: closed connections are left out; are credited in every poll. *)
CreditNoClosed(c, closed) == 0
CreditEveryPoll(c, closed) == IF c \in closed THEN Grown(c, bytes[c]) ELSE 0

CreditClosed(c, closed) ==
    IF c \in closed \ accounted THEN Grown(c, bytes[c]) ELSE 0

Update(closed) ==
    /\ credited' = [c \in Conns |-> credited[c] + CreditLive(c) + CreditClosed(c, closed)]
    /\ lastBytes' = [c \in Conns |-> IF c \in active.set THEN active.at[c] ELSE 0]
    /\ accounted' = closed

Account ==
    /\ poll = "reading"
    /\ Update(InRing)
    /\ poll' = "none" /\ active' = [set |-> {}, at |-> Zero]
    /\ UNCHANGED <<conn, bytes, ring, fails, stops, overlapped, blinded>>

(* The call failed or timed out: update() goes on with an empty answer. *)
PollFails ==
    /\ poll = "reading" /\ fails < MaxFail
    /\ fails' = fails + 1
    /\ lastBytes' = Zero /\ accounted' = {}
    /\ poll' = "none" /\ active' = [set |-> {}, at |-> Zero]
    /\ blinded' = blinded \cup Live \cup InRing
    /\ UNCHANGED <<conn, bytes, ring, credited, stops, overlapped>>

(* disable_traffic_stats is set when the answer arrives. *)
Ignore ==
    /\ poll = "reading"
    /\ poll' = "none" /\ active' = [set |-> {}, at |-> Zero]
    /\ UNCHANGED <<conn, bytes, ring, gui, fails, stops, overlapped, blinded>>

ConnNext ==
    \/ \E c \in Conns : Open(c) \/ Transfer(c) \/ Close(c)
    \/ StopBox \/ ReadActive \/ Account \/ Ignore \/ PollFails

ConnSpec == ConnInit /\ [][ConnNext]_connVars
-----------------------------------------------------------------------------
(* A byte is credited at most once, for every connection that neither      *)
(* closed between the two reads of a poll nor was known when a poll failed.*)
CountedOnce ==
    \A c \in Conns \ (overlapped \cup blinded) : credited[c] <= bytes[c]

(* The tail of a connection is not lost: once a poll found it in the ring, *)
(* all it ever transferred is credited, even if it opened and closed       *)
(* between two polls, or closed while the poll was reading.                *)
TailIsCounted ==
    \A c \in accounted : credited[c] >= bytes[c]

=============================================================================
