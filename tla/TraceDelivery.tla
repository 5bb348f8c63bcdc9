--------------------------- MODULE TraceDelivery ---------------------------
(***************************************************************************)
(* How an editor event reaches the session server's trace.                 *)
(*                                                                         *)
(* The extension host runs one DurableEmitter                              *)
(* (extension/src/durable-log.ts).  emit() appends the event to a JSONL    *)
(* file and then, if the socket is open, sends it; the server's /trace     *)
(* handler (server/src/session.ts) ingests it into TraceStore              *)
(* (server/src/trace-store.ts) and acks its seq; the ack moves a cursor    *)
(* file.  The host may be killed and activated again, the socket may be    *)
(* cut with frames in flight in both directions, and the frames of a cut   *)
(* socket may still reach the server after its successor has opened.       *)
(*                                                                         *)
(* A socket is a member of Conns; it is reused once the server has seen    *)
(* it close.  Events are records of the seq the emitter gave them and of   *)
(* an id, their position among all events ever emitted, that only the      *)
(* properties look at.                                                     *)
(***************************************************************************)
EXTENDS Integers, Sequences, FiniteSetsExt

CONSTANTS
  Conns,        \* identities of /trace sockets
  NoConn,       \* "this.ws is null"
  MaxEvents,    \* bound on calls of emit()
  MaxFaults,    \* bound on kills of the host plus cuts of the socket
  MaxTears      \* bound on kills that land inside appendFileSync

ASSUME ConnsAssumption == NoConn \notin Conns
ASSUME BoundsAssumption ==
  MaxEvents \in Nat /\ MaxFaults \in Nat /\ MaxTears \in Nat

VARIABLES
  log,      \* the parseable lines of <session>.extension.jsonl
  torn,     \* the file ends in a fragment with no newline
  cursor,   \* the number in the cursor file, -1 when there is none
  host,     \* "up" while the extension host, hence the emitter, is alive
  seq,      \* DurableEmitter.seq
  acked,    \* DurableEmitter.acked
  cur,      \* DurableEmitter.ws
  conn,     \* state of each socket
  up,       \* frames on their way to the server, per socket
  down,     \* acks on their way to the emitter, per socket
  stored,   \* TraceStore.cache: the extension's events the judge will read
  emits,    \* history: every event for which emit() returned
  faults,   \* kills and cuts so far
  tears     \* those kills that left a torn line

disk == <<log, torn, cursor>>
emitter == <<host, seq, acked, cur>>
vars == <<log, torn, cursor, host, seq, acked, cur, conn, up, down, stored,
          emits, faults, tears>>

Event == [seq : Nat, id : Nat]

TypeOK ==
  /\ log \in Seq(Event)
  /\ torn \in BOOLEAN
  /\ cursor \in Nat \cup {-1}
  /\ host \in {"up", "down"}
  /\ seq \in Nat
  /\ acked \in Nat \cup {-1}
  /\ cur \in Conns \cup {NoConn}
  /\ conn \in [Conns -> {"idle", "connecting", "open", "cut"}]
  /\ up \in [Conns -> Seq(Event)]
  /\ down \in [Conns -> Seq(Nat)]
  /\ stored \in Seq(Event)
  /\ emits \in Seq(Event)
  /\ faults \in Nat
  /\ tears \in Nat

---------------------------------------------------------------------------
(* The emitter's reading of its files.                                     *)

\* pendingAfter: the logged events past the acked one.  The file's numbers
\* increase (SeqsIncrease), so the filter keeps a suffix of the file.
PendingOff(lines, n) ==
  SubSeq(lines, 1 + Max({0} \cup {i \in 1..Len(lines) : lines[i].seq <= n + 1}),
         Len(lines))
PendingAfter(lines, n) ==
  SubSeq(lines, 1 + Max({0} \cup {i \in 1..Len(lines) : lines[i].seq <= n}),
         Len(lines))

\* The constructor numbers on from the largest seq it can parse.
ResumeFromCursor(lines) == Max({-1, cursor}) + 1
ResumeAtLast(lines) ==
  Max({-1} \cup {lines[i].seq : i \in 1..Len(lines)})
ResumeSeq(lines) ==
  Max({-1} \cup {lines[i].seq : i \in 1..Len(lines)}) + 1

\* Number(text) || -1: a cursor of 0 reads as no cursor.
ReadCursor(n) == IF n = 0 THEN -1 ELSE n

\* appendFileSync of a whole line.  After a torn write the line joins the
\* fragment, and neither can be parsed again.
AppendLine(ev) ==
  /\ log' = IF torn THEN log ELSE Append(log, ev)
  /\ torn' = FALSE

IsOpen(c) == c \in Conns /\ conn[c] = "open"
IsLive(c) == c \in Conns /\ conn[c] \in {"connecting", "open"}

\* The next event out of emit(): numbered n.
NewEvent(n) == [seq |-> n, id |-> Len(emits) + 1]

---------------------------------------------------------------------------
Init ==
  /\ log = <<>>
  /\ torn = FALSE
  /\ cursor = -1
  /\ host = "down"
  /\ seq = 0
  /\ acked = -1
  /\ cur = NoConn
  /\ conn = [c \in Conns |-> "idle"]
  /\ up = [c \in Conns |-> <<>>]
  /\ down = [c \in Conns |-> <<>>]
  /\ stored = <<>>
  /\ emits = <<>>
  /\ faults = 0
  /\ tears = 0

\* activate(): the constructor reads both files and dials, and the
\* session_start event is emitted before the socket can have opened.
Activate(c) ==
  /\ host = "down"
  /\ Len(emits) < MaxEvents
  /\ conn[c] = "idle"
  /\ LET n == ResumeSeq(log) IN
       /\ AppendLine(NewEvent(n))
       /\ emits' = Append(emits, NewEvent(n))
       /\ seq' = n + 1
  /\ host' = "up"
  /\ acked' = ReadCursor(cursor)
  /\ cur' = c
  /\ conn' = [conn EXCEPT ![c] = "connecting"]
  /\ UNCHANGED <<cursor, up, down, stored, faults, tears>>

\* emit(): the durable write first, then the socket if it is open.
EmitOnlyWhenOpen ==
  /\ host = "up"
  /\ Len(emits) < MaxEvents
  /\ LET ev == NewEvent(seq) IN
       /\ IF IsOpen(cur) THEN UNCHANGED <<log, torn>> ELSE AppendLine(ev)
       /\ emits' = Append(emits, ev)
       /\ up' = IF IsOpen(cur) THEN [up EXCEPT ![cur] = Append(@, ev)] ELSE up
  /\ seq' = seq + 1
  /\ UNCHANGED <<cursor, host, acked, cur, conn, down, stored, faults, tears>>
Emit ==
  /\ host = "up"
  /\ Len(emits) < MaxEvents
  /\ LET ev == NewEvent(seq) IN
       /\ AppendLine(ev)
       /\ emits' = Append(emits, ev)
       /\ up' = IF IsOpen(cur) THEN [up EXCEPT ![cur] = Append(@, ev)] ELSE up
  /\ seq' = seq + 1
  /\ UNCHANGED <<cursor, host, acked, cur, conn, down, stored, faults, tears>>

\* connect() again, from the close handler's timer.
Reconnect(c) ==
  /\ host = "up"
  /\ ~ IsLive(cur)
  /\ conn[c] = "idle"
  /\ cur' = c
  /\ conn' = [conn EXCEPT ![c] = "connecting"]
  /\ UNCHANGED <<disk, host, seq, acked, up, down, stored, emits, faults, tears>>

\* The open handler replays everything the server has not acked.
OpenWithoutReplay(c) ==
  /\ c = cur
  /\ conn[c] = "connecting"
  /\ conn' = [conn EXCEPT ![c] = "open"]
  /\ UNCHANGED <<disk, emitter, up, down, stored, emits, faults, tears>>
Open(c) ==
  /\ c = cur
  /\ conn[c] = "connecting"
  /\ conn' = [conn EXCEPT ![c] = "open"]
  /\ up' = [up EXCEPT ![c] = PendingAfter(log, acked)]
  /\ UNCHANGED <<disk, emitter, down, stored, emits, faults, tears>>

\* The server's message handler: ingest, then ack.  A duplicate is acked
\* too.  An ack for a socket that is gone goes nowhere.
ReceiveWithoutDedupe(c) ==
  /\ conn[c] \in {"open", "cut"}
  /\ up[c] # <<>>
  /\ stored' = Append(stored, Head(up[c]))
  /\ up' = [up EXCEPT ![c] = Tail(@)]
  /\ down' = IF conn[c] = "open"
             THEN [down EXCEPT ![c] = Append(@, Head(up[c]).seq)] ELSE down
  /\ UNCHANGED <<disk, emitter, conn, emits, faults, tears>>
Receive(c) ==
  /\ conn[c] \in {"open", "cut"}
  /\ up[c] # <<>>
  /\ stored' = IF \E i \in 1..Len(stored) : stored[i].seq = Head(up[c]).seq
               THEN stored ELSE Append(stored, Head(up[c]))
  /\ up' = [up EXCEPT ![c] = Tail(@)]
  /\ down' = IF conn[c] = "open"
             THEN [down EXCEPT ![c] = Append(@, Head(up[c]).seq)] ELSE down
  /\ UNCHANGED <<disk, emitter, conn, emits, faults, tears>>

\* The emitter's message handler: the cursor only ever moves forward.
AckArrives(c) ==
  /\ c = cur
  /\ conn[c] = "open"
  /\ down[c] # <<>>
  /\ down' = [down EXCEPT ![c] = Tail(@)]
  /\ acked' = IF Head(down[c]) > acked THEN Head(down[c]) ELSE acked
  /\ cursor' = IF Head(down[c]) > acked THEN Head(down[c]) ELSE cursor
  /\ UNCHANGED <<log, torn, host, seq, cur, conn, up, stored, emits, faults, tears>>

---------------------------------------------------------------------------
(* Faults.                                                                 *)

\* The current socket, if any, is cut from the emitter's side.
CutCurrent ==
  conn' = IF IsLive(cur) THEN [conn EXCEPT ![cur] = "cut"] ELSE conn

\* The network or either end drops the socket; the close handler will retry.
Cut ==
  /\ faults < MaxFaults
  /\ host = "up"
  /\ IsLive(cur)
  /\ CutCurrent
  /\ faults' = faults + 1
  /\ UNCHANGED <<disk, emitter, up, down, stored, emits, tears>>

\* The host dies, or is disposed by a reload: the emitter's memory is gone.
HostGone ==
  /\ faults < MaxFaults
  /\ host = "up"
  /\ host' = "down"
  /\ CutCurrent
  /\ faults' = faults + 1
  /\ UNCHANGED <<seq, acked, cur, up, down, stored, emits>>

\* It dies between two calls,
Kill == HostGone /\ UNCHANGED <<disk, tears>>

\* inside appendFileSync, so that part of a line is on disk,
KillMidAppend ==
  /\ tears < MaxTears
  /\ HostGone
  /\ torn' = TRUE
  /\ tears' = tears + 1
  /\ UNCHANGED <<log, cursor>>

\* or inside writeFileSync, which has truncated the cursor file.
KillMidCursor ==
  /\ HostGone
  /\ IsOpen(cur) /\ down[cur] # <<>> /\ Head(down[cur]) > acked
  /\ cursor' = -1
  /\ UNCHANGED <<log, torn, tears>>

\* The server sees the cut socket close; frames not read by then are lost.
Discard(c) ==
  /\ conn[c] = "cut"
  /\ conn' = [conn EXCEPT ![c] = "idle"]
  /\ up' = [up EXCEPT ![c] = <<>>]
  /\ down' = [down EXCEPT ![c] = <<>>]
  /\ UNCHANGED <<disk, emitter, stored, emits, faults, tears>>

Next ==
  \/ \E c \in Conns :
       \/ Activate(c)
       \/ Reconnect(c)
       \/ Open(c)
       \/ Receive(c)
       \/ AckArrives(c)
       \/ Discard(c)
  \/ Emit
  \/ Cut
  \/ Kill
  \/ KillMidAppend
  \/ KillMidCursor

\* The close handler always redials, a dialled socket opens or fails, and a
\* socket's bytes are read or the socket is seen to close.  Nothing obliges
\* the candidate to produce events or the IDE to restart a dead host.
Fairness ==
  /\ \A c \in Conns :
       /\ WF_vars(Open(c))
       /\ WF_vars(Receive(c))
       /\ WF_vars(AckArrives(c))
       /\ WF_vars(Discard(c))
  /\ WF_vars(\E c \in Conns : Reconnect(c))

Spec == Init /\ [][Next]_vars
FairSpec == Spec /\ Fairness

---------------------------------------------------------------------------
(* Properties.                                                             *)

\* The extension's events sit in the server's trace in the order they were
\* emitted and each at most once, whatever sockets and hosts they came
\* through (TraceStore.ingest's dedupe, the open handler's replay).
StoredInEmitOrder ==
  \A i, j \in 1..Len(stored) : i < j => stored[i].id < stored[j].id

\* No event of the durable log is given up before the server has it: when
\* the cursor, in memory or on disk, has passed an event's number, so that
\* no later replay will send it, the server's store holds that very event.
PassedMeansStored ==
  \A i \in 1..Len(log) :
    log[i].seq <= (IF host = "up" THEN Max({acked, cursor}) ELSE cursor)
      => \E j \in 1..Len(stored) : stored[j] = log[i]

\* A kill inside a write costs at most one event that a later host emitted;
\* without such a kill every emitted event is in the log, under a number of
\* its own, so that the server's dedupe cannot take it for another.
TearCostsAtMostOne ==
  /\ Len(emits) - Len(log) <= tears
  /\ \A i, j \in 1..Len(log) : i < j => log[i].seq < log[j].seq
  /\ \A i \in 1..Len(log) : log[i] = emits[log[i].id]

\* durable-log.ts: "Container death loses at most the unflushed tail": every
\* event whose emit() returned can still be read from the log.
OnlyTheTailIsLost ==
  \A i \in 1..Len(emits) : \E j \in 1..Len(log) : log[j] = emits[i]

\* The emitter, the sockets and the store together implement an exactly-once
\* in-order log.
Abstract == INSTANCE TraceLog WITH written <- log, delivered <- stored
ImplementsTraceLog == Abstract!Spec

\* If the extension host stays up from some time on, the server ends up with
\* every event in the durable log, those of earlier hosts included.
EventuallyAllStored ==
  <>[](host = "up") => <>[](stored = log)
============================================================================
