------------------------ MODULE TraceDeliveryProofs ------------------------
(***************************************************************************)
(* Proofs about TraceDelivery, for any set of sockets and any bounds.      *)
(*                                                                         *)
(* The argument: the numbers in the log increase; what the server holds is *)
(* a prefix of the log; the frames of every socket are a stretch of the    *)
(* log that starts no later than where that prefix ends, so the next frame *)
(* is either a duplicate or exactly the event the store needs next; and    *)
(* acks and cursors only name events of that prefix.                       *)
(***************************************************************************)
EXTENDS TraceDelivery, SequenceTheorems, TLAPS

---------------------------------------------------------------------------
(* Helper lemmas.                                                          *)

\* The largest element of a set of integers bounded by one of its members.
LEMMA MaxIs ==
  ASSUME NEW S, NEW m \in S, S \subseteq Int, \A x \in S : x <= m
  PROVE  Max(S) = m
<1>1. m \in S /\ \A y \in S : m >= y
  OBVIOUS
<1>2. Max(S) \in S /\ \A y \in S : Max(S) >= y
  BY <1>1 DEF Max
<1>3. Max(S) \in Int /\ m \in Int
  BY <1>1, <1>2
<1>4. Max(S) >= m /\ m >= Max(S)
  BY <1>1, <1>2
<1> QED
  BY <1>3, <1>4

LEMMA EventFields ==
  ASSUME NEW e \in Event
  PROVE  e.seq \in Nat /\ e.id \in Nat
BY DEF Event

LEMMA NewEventType ==
  ASSUME NEW n \in Nat, emits \in Seq(Event)
  PROVE  /\ NewEvent(n) \in Event
         /\ NewEvent(n).seq = n
         /\ NewEvent(n).id = Len(emits) + 1
BY DEF NewEvent, Event

---------------------------------------------------------------------------
(* The inductive invariant.                                                *)

\* Numbers and ids increase along the log, and each line is the event it
\* claims to be.
LogOrdered ==
  /\ \A i, j \in 1..Len(log) : i < j => log[i].seq < log[j].seq
  /\ \A i, j \in 1..Len(log) : i < j => log[i].id < log[j].id
  /\ \A i \in 1..Len(log) :
       log[i].id \in 1..Len(emits) /\ log[i] = emits[log[i].id]

\* A live emitter writes to a clean file, above every number in it.
EmitterAhead ==
  host = "up" => ~ torn /\ \A i \in 1..Len(log) : log[i].seq < seq

\* The store holds a prefix of the log.
StoredPrefix ==
  /\ Len(stored) <= Len(log)
  /\ \A i \in 1..Len(stored) : stored[i] = log[i]

\* Frames f are the stretch of the log after its first b lines, which starts
\* within the stored prefix and, on an open socket, reaches the log's end.
StretchFrom(b, f, open) ==
  /\ b + Len(f) <= Len(log)
  /\ \A j \in 1..Len(f) : f[j] = log[b + j]
  /\ open => b + Len(f) = Len(log)
FramesFollow ==
  \A c \in Conns : \E b \in 0..Len(stored) : StretchFrom(b, up[c], conn[c] = "open")

\* Only the current socket of a live emitter is being dialled or open.
OneLiveSocket ==
  \A c \in Conns : conn[c] \in {"connecting", "open"} => c = cur /\ host = "up"

\* Acks and cursors name events the store holds.
Passed(n) == n = -1 \/ \E k \in 1..Len(stored) : stored[k].seq = n
AcksPassed ==
  /\ Passed(cursor)
  /\ host = "up" => Passed(acked)
  /\ \A c \in Conns : \A j \in 1..Len(down[c]) : Passed(down[c][j])

\* What is missing from the log was merged into a torn line.
TearsAccount ==
  Len(emits) - Len(log) + (IF torn THEN 1 ELSE 0) <= tears

Inv ==
  /\ TypeOK
  /\ LogOrdered
  /\ EmitterAhead
  /\ StoredPrefix
  /\ FramesFollow
  /\ OneLiveSocket
  /\ AcksPassed
  /\ TearsAccount

---------------------------------------------------------------------------
(* What the emitter computes from its files.                               *)

\* The constructor resumes above every number in the log.
LEMMA ResumeAbove ==
  ASSUME TypeOK, LogOrdered
  PROVE  /\ ResumeSeq(log) \in Nat
         /\ \A i \in 1..Len(log) : log[i].seq < ResumeSeq(log)
<1> DEFINE S == {-1} \cup {log[i].seq : i \in 1..Len(log)}
<1>0. /\ log \in Seq(Event) /\ Len(log) \in Nat
      /\ \A i \in 1..Len(log) : log[i] \in Event
  BY DEF TypeOK
<1>1. \A i \in 1..Len(log) : log[i].seq \in Nat
  BY <1>0, EventFields
<1>2. S \subseteq Int
  BY <1>1
<1>3. CASE Len(log) = 0
  <2>1. S = {-1}
    BY <1>3
  <2>2. Max({-1}) = -1
    <3>1. -1 \in {-1} /\ {-1} \subseteq Int /\ \A x \in {-1} : x <= -1
      OBVIOUS
    <3> QED BY <3>1, MaxIs
  <2>3. Max(S) = -1
    <3> HIDE DEF S
    <3> QED BY <2>1, <2>2
  <2>4. ResumeSeq(log) = 0
    BY <2>3 DEF ResumeSeq
  <2> QED
    BY <2>4, <1>3
<1>4. CASE Len(log) # 0
  <2> DEFINE m == log[Len(log)].seq
  <2>1. Len(log) \in 1..Len(log) /\ m \in Nat
    BY <1>0, <1>1, <1>4
  <2>2. m \in S
    BY <2>1
  <2>3. \A i \in 1..Len(log) : log[i].seq <= m
    BY <1>0, <1>1, <2>1 DEF LogOrdered
  <2>4. \A x \in S : x <= m
    BY <2>1, <2>3
  <2>5. Max(S) = m
    <3> HIDE DEF S, m
    <3> QED BY <1>2, <2>2, <2>4, MaxIs
  <2>6. ResumeSeq(log) = m + 1
    BY <2>5 DEF ResumeSeq
  <2> QED
    BY <2>1, <2>3, <2>6, <1>1
<1> QED
  BY <1>0, <1>3, <1>4

\* The replay is the stretch of the log after a prefix the store holds.
LEMMA ReplayStretch ==
  ASSUME TypeOK, LogOrdered, StoredPrefix, Passed(acked)
  PROVE  \E b \in 0..Len(stored) :
           /\ PendingAfter(log, acked) \in Seq(Event)
           /\ StretchFrom(b, PendingAfter(log, acked), TRUE)
<1>0. /\ log \in Seq(Event) /\ Len(log) \in Nat
      /\ stored \in Seq(Event) /\ Len(stored) \in Nat
      /\ \A i \in 1..Len(log) : log[i] \in Event /\ log[i].seq \in Nat
  BY EventFields DEF TypeOK
<1>1. PICK k \in 0..Len(stored) :
        \A i \in 1..Len(log) : log[i].seq <= acked <=> i <= k
  <2>1. CASE acked = -1
    <3>1. 0 \in 0..Len(stored) /\ \A i \in 1..Len(log) : ~ (log[i].seq <= acked) /\ ~ (i <= 0)
      BY <2>1, <1>0
    <3> QED
      BY <3>1
  <2>2. CASE \E k \in 1..Len(stored) : stored[k].seq = acked
    <3>1. PICK k \in 1..Len(stored) : stored[k].seq = acked
      BY <2>2
    <3>2. k \in 1..Len(log) /\ log[k].seq = acked /\ k \in 0..Len(stored)
      BY <1>0, <3>1 DEF StoredPrefix
    <3>3. \A i \in 1..Len(log) : log[i].seq <= acked <=> i <= k
      BY <1>0, <3>2 DEF LogOrdered
    <3> QED
      BY <3>2, <3>3
  <2> QED
    BY <2>1, <2>2 DEF Passed
<1> DEFINE S == {0} \cup {i \in 1..Len(log) : log[i].seq <= acked}
<1>2. S = 0..k
  BY <1>0, <1>1 DEF StoredPrefix
<1>3. Max(S) = k
  <2>1. k \in 0..k /\ 0..k \subseteq Int /\ \A x \in 0..k : x <= k
    BY <1>0, <1>1
  <2>2. Max(0..k) = k
    BY <2>1, MaxIs
  <2> QED BY <1>2, <2>2
<1>4. PendingAfter(log, acked) = SubSeq(log, 1 + k, Len(log))
  BY <1>3 DEF PendingAfter
<1>5. k <= Len(log) /\ 1 + k \in Int /\ k \in Nat
  BY <1>0, <1>1 DEF StoredPrefix
<1>6. \A i \in (1 + k)..Len(log) : log[i] \in Event
  BY <1>0, <1>5
<1>7. /\ SubSeq(log, 1 + k, Len(log)) \in Seq(Event)
      /\ Len(SubSeq(log, 1 + k, Len(log))) = Len(log) - k
      /\ \A i \in 1..(Len(log) - k) : SubSeq(log, 1 + k, Len(log))[i] = log[k + i]
  BY <1>0, <1>5, <1>6, SubSeqProperties
<1> QED
  BY <1>0, <1>1, <1>4, <1>5, <1>7 DEF StretchFrom

---------------------------------------------------------------------------
(* Preservation.                                                           *)

LEMMA InitInv == Init => Inv
<1> SUFFICES ASSUME Init PROVE Inv
  OBVIOUS
<1> USE DEF Init
<1>1. TypeOK
  <2>1. <<>> \in Seq(Event) /\ <<>> \in Seq(Nat)
    OBVIOUS
  <2>2. up \in [Conns -> Seq(Event)] /\ down \in [Conns -> Seq(Nat)]
    BY <2>1
  <2>3. conn \in [Conns -> {"idle", "connecting", "open", "cut"}]
    OBVIOUS
  <2> QED
    BY <2>1, <2>2, <2>3 DEF TypeOK
<1>2. LogOrdered /\ EmitterAhead /\ StoredPrefix /\ OneLiveSocket /\ TearsAccount
  BY DEF LogOrdered, EmitterAhead, StoredPrefix, OneLiveSocket, TearsAccount
<1>3. FramesFollow
  <2>1. \A c \in Conns : StretchFrom(0, up[c], conn[c] = "open")
    BY DEF StretchFrom
  <2> QED
    BY <2>1 DEF FramesFollow
<1>4. AcksPassed
  BY DEF AcksPassed, Passed
<1> QED
  BY <1>1, <1>2, <1>3, <1>4 DEF Inv

\* The history and the log after emit() of event ev, numbered above the log.
LEMMA AppendLineInv ==
  ASSUME TypeOK, LogOrdered, StoredPrefix, TearsAccount,
         NEW n \in Nat, \A i \in 1..Len(log) : log[i].seq < n,
         AppendLine(NewEvent(n)), emits' = Append(emits, NewEvent(n)),
         UNCHANGED <<stored, tears>>
  PROVE  /\ log' \in Seq(Event) /\ emits' \in Seq(Event)
         /\ LogOrdered' /\ StoredPrefix' /\ TearsAccount'
         /\ torn' = FALSE
         /\ Len(log) <= Len(log')
         /\ \A i \in 1..Len(log) : log'[i] = log[i]
         /\ \A i \in 1..Len(log') : log'[i].seq < n + 1
         /\ ~ torn => log' = Append(log, NewEvent(n))
<1> DEFINE ev == NewEvent(n)
<1>0. /\ log \in Seq(Event) /\ Len(log) \in Nat
      /\ stored \in Seq(Event) /\ Len(stored) \in Nat
      /\ emits \in Seq(Event) /\ Len(emits) \in Nat
      /\ tears \in Nat /\ torn \in BOOLEAN
      /\ \A i \in 1..Len(log) : log[i] \in Event /\ log[i].seq \in Nat
  BY EventFields DEF TypeOK
<1>1. ev \in Event /\ ev.seq = n /\ ev.id = Len(emits) + 1
  BY <1>0, NewEventType
<1> HIDE DEF ev
<1>2. /\ emits' \in Seq(Event) /\ Len(emits') = Len(emits) + 1
      /\ \A i \in 1..Len(emits) : emits'[i] = emits[i]
      /\ emits'[Len(emits) + 1] = ev
  BY <1>0, <1>1, AppendProperties DEF ev
<1>3. CASE torn
  <2>1. log' = log /\ torn' = FALSE
    BY <1>3 DEF AppendLine
  <2>2. LogOrdered'
    BY <1>0, <1>2, <2>1 DEF LogOrdered
  <2>3. StoredPrefix'
    BY <1>0, <2>1 DEF StoredPrefix
  <2>4. TearsAccount'
    BY <1>0, <1>2, <1>3, <2>1 DEF TearsAccount
  <2>5. \A i \in 1..Len(log') : log'[i].seq < n + 1
    BY <1>0, <2>1
  <2>6. /\ log' \in Seq(Event) /\ Len(log) <= Len(log')
        /\ \A i \in 1..Len(log) : log'[i] = log[i]
    BY <1>0, <2>1
  <2> QED
    BY <1>2, <1>3, <2>1, <2>2, <2>3, <2>4, <2>5, <2>6, Zenon
<1>4. CASE ~ torn
  <2>1. log' = Append(log, ev) /\ torn' = FALSE
    BY <1>4 DEF AppendLine, ev
  <2>2. /\ log' \in Seq(Event) /\ Len(log') = Len(log) + 1
        /\ \A i \in 1..Len(log) : log'[i] = log[i]
        /\ log'[Len(log) + 1] = ev
    BY <1>0, <1>1, <2>1, AppendProperties
  <2>3. LogOrdered'
    <3>1. ASSUME NEW i \in 1..Len(log'), NEW j \in 1..Len(log'), i < j
          PROVE  log'[i].seq < log'[j].seq /\ log'[i].id < log'[j].id
      <4>1. i \in 1..Len(log) /\ log'[i] = log[i]
        BY <1>0, <2>2, <3>1
      <4>2. CASE j \in 1..Len(log)
        BY <2>2, <3>1, <4>1, <4>2 DEF LogOrdered
      <4>3. CASE j = Len(log) + 1
        <5>1. log[i].seq < n /\ log[i].id < Len(emits) + 1
          BY <1>0, <4>1 DEF LogOrdered
        <5> QED
          BY <1>1, <2>2, <4>1, <4>3, <5>1
      <4> QED
        BY <1>0, <2>2, <4>2, <4>3
    <3>3. \A i \in 1..Len(log') :
            log'[i].id \in 1..Len(emits') /\ log'[i] = emits'[log'[i].id]
      BY <1>0, <1>1, <1>2, <2>2 DEF LogOrdered
    <3> QED
      BY <3>1, <3>3 DEF LogOrdered
  <2>4. StoredPrefix'
    BY <1>0, <2>2 DEF StoredPrefix
  <2>5. TearsAccount'
    BY <1>0, <1>2, <1>4, <2>1, <2>2 DEF TearsAccount
  <2>6. \A i \in 1..Len(log') : log'[i].seq < n + 1
    BY <1>0, <1>1, <2>2
  <2>7. Len(log) <= Len(log')
    BY <1>0, <2>1, <2>2
  <2> QED
    BY <1>2, <2>1, <2>2, <2>3, <2>4, <2>5, <2>6, <2>7, Zenon DEF ev
<1> QED
  BY <1>0, <1>3, <1>4

LEMMA ActivateInv ==
  ASSUME Inv, NEW c \in Conns, Activate(c)
  PROVE  Inv'
<1> USE DEF Inv
<1>0. log \in Seq(Event) /\ emits \in Seq(Event) /\ stored \in Seq(Event)
  BY DEF TypeOK
<1> DEFINE n == ResumeSeq(log)
<1>1. n \in Nat /\ \A i \in 1..Len(log) : log[i].seq < n
  BY ResumeAbove
<1>2. /\ AppendLine(NewEvent(n)) /\ emits' = Append(emits, NewEvent(n))
      /\ seq' = n + 1 /\ host' = "up" /\ acked' = ReadCursor(cursor)
      /\ cur' = c /\ conn' = [conn EXCEPT ![c] = "connecting"]
      /\ UNCHANGED <<cursor, up, down, stored, faults, tears>>
      /\ host = "down" /\ conn[c] = "idle"
  BY DEF Activate
<1> HIDE DEF n
<1>3. /\ log' \in Seq(Event) /\ emits' \in Seq(Event)
      /\ LogOrdered' /\ StoredPrefix' /\ TearsAccount'
      /\ torn' = FALSE
      /\ Len(log) <= Len(log')
      /\ \A i \in 1..Len(log) : log'[i] = log[i]
      /\ \A i \in 1..Len(log') : log'[i].seq < n + 1
  BY <1>1, <1>2, AppendLineInv
<1>4. TypeOK'
  <2>1. torn' \in BOOLEAN
    BY <1>3
  <2>2. /\ acked' \in Nat \cup {-1} /\ seq' \in Nat /\ host' \in {"up", "down"}
        /\ cur' \in Conns \cup {NoConn}
        /\ conn' \in [Conns -> {"idle", "connecting", "open", "cut"}]
    BY <1>1, <1>2 DEF TypeOK, ReadCursor
  <2>3. UNCHANGED <<cursor, up, down, stored, faults, tears>>
    BY <1>2
  <2> QED
    BY <1>3, <2>1, <2>2, <2>3 DEF TypeOK
<1>5. EmitterAhead'
  BY <1>2, <1>3 DEF EmitterAhead
<1>6. \A d \in Conns : conn[d] # "open" /\ conn'[d] # "open"
                       /\ (conn'[d] = "connecting" => d = c)
  BY <1>2 DEF OneLiveSocket, TypeOK
<1>7. OneLiveSocket'
  BY <1>2, <1>6 DEF OneLiveSocket
<1>8. FramesFollow'
  <2> SUFFICES ASSUME NEW d \in Conns
               PROVE  \E b \in 0..Len(stored) : StretchFrom(b, up[d], FALSE)'
    BY <1>2, <1>6 DEF FramesFollow
  <2>1. PICK b \in 0..Len(stored) : StretchFrom(b, up[d], FALSE)
    BY <1>6 DEF FramesFollow
  <2>2. b \in Nat /\ up[d] \in Seq(Event)
    BY <1>0 DEF TypeOK
  <2>3. StretchFrom(b, up[d], FALSE)'
    BY <1>0, <1>2, <1>3, <2>1, <2>2 DEF StretchFrom
  <2> QED
    BY <2>3, <1>2
<1>9. AcksPassed'
  BY <1>2 DEF AcksPassed, Passed, ReadCursor
<1> QED
  BY <1>3, <1>4, <1>5, <1>7, <1>8, <1>9

LEMMA EmitInv ==
  ASSUME Inv, Emit
  PROVE  Inv'
<1> USE DEF Inv
<1>0. log \in Seq(Event) /\ emits \in Seq(Event) /\ stored \in Seq(Event)
      /\ up \in [Conns -> Seq(Event)] /\ seq \in Nat
  BY DEF TypeOK
<1> DEFINE ev == NewEvent(seq)
<1>1. ev \in Event
  BY <1>0, NewEventType
<1>2. /\ AppendLine(ev) /\ emits' = Append(emits, ev) /\ seq' = seq + 1
      /\ up' = IF IsOpen(cur) THEN [up EXCEPT ![cur] = Append(@, ev)] ELSE up
      /\ UNCHANGED <<cursor, host, acked, cur, conn, down, stored, faults, tears>>
      /\ host = "up"
  BY DEF Emit
<1>3. ~ torn /\ \A i \in 1..Len(log) : log[i].seq < seq
  BY <1>2 DEF EmitterAhead
<1>4. /\ log' \in Seq(Event) /\ emits' \in Seq(Event)
      /\ LogOrdered' /\ StoredPrefix' /\ TearsAccount'
      /\ torn' = FALSE
      /\ Len(log) <= Len(log')
      /\ \A i \in 1..Len(log) : log'[i] = log[i]
      /\ \A i \in 1..Len(log') : log'[i].seq < seq + 1
      /\ log' = Append(log, ev)
  BY <1>0, <1>2, <1>3, AppendLineInv
<1> HIDE DEF ev
<1>5. up' \in [Conns -> Seq(Event)]
  BY <1>0, <1>1, <1>2 DEF IsOpen
<1>6. TypeOK'
  <2>1. torn' \in BOOLEAN
    BY <1>4
  <2>2. seq' \in Nat
    BY <1>0, <1>2
  <2>3. UNCHANGED <<cursor, host, acked, cur, conn, down, stored, faults, tears>>
    BY <1>2
  <2> QED
    BY <1>4, <1>5, <2>1, <2>2, <2>3 DEF TypeOK
<1>7. EmitterAhead'
  BY <1>2, <1>4 DEF EmitterAhead
<1>8. OneLiveSocket'
  BY <1>2 DEF OneLiveSocket
<1>9. FramesFollow'
  <2> SUFFICES ASSUME NEW d \in Conns
               PROVE  \E b \in 0..Len(stored) : StretchFrom(b, up[d], conn[d] = "open")'
    BY <1>2 DEF FramesFollow
  <2>1. PICK b \in 0..Len(stored) : StretchFrom(b, up[d], conn[d] = "open")
    BY DEF FramesFollow
  <2>2. b \in Nat /\ up[d] \in Seq(Event) /\ Len(up[d]) \in Nat /\ Len(log) \in Nat
        /\ Len(log') = Len(log) + 1 /\ log'[Len(log) + 1] = ev
    BY <1>0, <1>1, <1>4, AppendProperties
  <2>3. CASE conn[d] = "open"
    <3>1. d = cur /\ IsOpen(cur)
      BY <2>3 DEF OneLiveSocket, IsOpen
    <3>2. up'[d] = Append(up[d], ev)
      BY <1>0, <1>2, <3>1
    <3>3. /\ Len(up'[d]) = Len(up[d]) + 1
          /\ \A j \in 1..Len(up[d]) : up'[d][j] = up[d][j]
          /\ up'[d][Len(up[d]) + 1] = ev
      BY <1>1, <2>2, <3>2, AppendProperties
    <3>4. b + Len(up[d]) = Len(log) /\ \A j \in 1..Len(up[d]) : up[d][j] = log[b + j]
      BY <2>1, <2>3 DEF StretchFrom
    <3>5. \A j \in 1..Len(up'[d]) : up'[d][j] = log'[b + j]
      <4> SUFFICES ASSUME NEW j \in 1..Len(up'[d]) PROVE up'[d][j] = log'[b + j]
        OBVIOUS
      <4>1. CASE j \in 1..Len(up[d])
        <5>1. b + j \in 1..Len(log)
          BY <2>2, <3>4, <4>1
        <5> QED BY <1>4, <3>3, <3>4, <4>1, <5>1
      <4>2. CASE j = Len(up[d]) + 1
        BY <2>2, <3>3, <3>4, <4>2
      <4> QED BY <2>2, <3>3, <4>1, <4>2
    <3>6. b + Len(up'[d]) = Len(log')
      BY <2>2, <3>3, <3>4
    <3>7. StretchFrom(b, up[d], conn[d] = "open")'
      BY <2>2, <3>5, <3>6 DEF StretchFrom
    <3> QED BY <1>2, <3>7
  <2>4. CASE conn[d] # "open"
    <3>1. up'[d] = up[d]
      BY <1>0, <1>2, <2>4 DEF IsOpen
    <3>2. b + Len(up[d]) <= Len(log) /\ \A j \in 1..Len(up[d]) : up[d][j] = log[b + j]
      BY <2>1 DEF StretchFrom
    <3>3. \A j \in 1..Len(up[d]) : b + j \in 1..Len(log)
      BY <2>2, <3>2
    <3>4. \A j \in 1..Len(up[d]) : up[d][j] = log'[b + j]
      BY <1>4, <3>2, <3>3
    <3>5. b + Len(up[d]) <= Len(log')
      BY <2>2, <3>2
    <3>6. StretchFrom(b, up[d], conn[d] = "open")'
      BY <1>2, <2>4, <3>1, <3>4, <3>5 DEF StretchFrom
    <3> QED BY <1>2, <3>6
  <2> QED BY <2>3, <2>4
<1>10. AcksPassed'
  BY <1>2 DEF AcksPassed, Passed
<1> QED
  BY <1>4, <1>6, <1>7, <1>8, <1>9, <1>10

LEMMA ReconnectInv ==
  ASSUME Inv, NEW c \in Conns, Reconnect(c)
  PROVE  Inv'
<1> USE DEF Inv, Reconnect, disk
<1>1. TypeOK'
  BY DEF TypeOK
<1>2. LogOrdered' /\ EmitterAhead' /\ StoredPrefix' /\ TearsAccount'
  BY DEF LogOrdered, EmitterAhead, StoredPrefix, TearsAccount
<1>3. \A d \in Conns : conn[d] # "open" /\ conn'[d] # "open"
                       /\ (conn'[d] = "connecting" => d = c)
  BY DEF OneLiveSocket, IsLive, TypeOK
<1>4. OneLiveSocket'
  BY <1>3 DEF OneLiveSocket
<1>5. FramesFollow'
  BY <1>3 DEF FramesFollow, StretchFrom
<1>6. AcksPassed'
  BY DEF AcksPassed, Passed
<1> QED
  BY <1>1, <1>2, <1>4, <1>5, <1>6

LEMMA OpenInv ==
  ASSUME Inv, NEW c \in Conns, Open(c)
  PROVE  Inv'
<1> USE DEF Inv, disk, emitter
<1>1. /\ UNCHANGED <<log, torn, cursor, host, seq, acked, cur, down, stored, emits, faults, tears>>
      /\ conn' = [conn EXCEPT ![c] = "open"]
      /\ up' = [up EXCEPT ![c] = PendingAfter(log, acked)]
      /\ c = cur /\ conn[c] = "connecting" /\ host = "up"
  BY DEF Open, OneLiveSocket
<1>2. PICK b \in 0..Len(stored) :
        /\ PendingAfter(log, acked) \in Seq(Event)
        /\ StretchFrom(b, PendingAfter(log, acked), TRUE)
  BY <1>1, ReplayStretch DEF AcksPassed
<1>3. TypeOK'
  BY <1>1, <1>2 DEF TypeOK
<1>4. LogOrdered' /\ EmitterAhead' /\ StoredPrefix' /\ TearsAccount'
  BY <1>1 DEF LogOrdered, EmitterAhead, StoredPrefix, TearsAccount
<1>5. OneLiveSocket'
  BY <1>1 DEF OneLiveSocket, TypeOK
<1>6. FramesFollow'
  <2> SUFFICES ASSUME NEW d \in Conns
               PROVE  \E a \in 0..Len(stored) : StretchFrom(a, up[d], conn[d] = "open")'
    BY <1>1 DEF FramesFollow
  <2>1. CASE d = c
    <3>1. up'[d] = PendingAfter(log, acked) /\ conn'[d] = "open"
      BY <1>1, <2>1 DEF TypeOK
    <3>2. StretchFrom(b, up[d], conn[d] = "open")'
      BY <1>1, <1>2, <3>1 DEF StretchFrom
    <3> QED BY <1>1, <3>2
  <2>2. CASE d # c
    <3>1. up'[d] = up[d] /\ conn'[d] = conn[d]
      BY <1>1, <2>2 DEF TypeOK
    <3>2. PICK a \in 0..Len(stored) : StretchFrom(a, up[d], conn[d] = "open")
      BY DEF FramesFollow
    <3>3. StretchFrom(a, up[d], conn[d] = "open")'
      BY <1>1, <3>1, <3>2 DEF StretchFrom
    <3> QED BY <1>1, <3>3
  <2> QED BY <2>1, <2>2
<1>7. AcksPassed'
  BY <1>1 DEF AcksPassed, Passed
<1> QED
  BY <1>3, <1>4, <1>5, <1>6, <1>7

LEMMA ReceiveInv ==
  ASSUME Inv, NEW c \in Conns, Receive(c)
  PROVE  Inv'
<1> USE DEF Inv, disk, emitter
<1> DEFINE ev == Head(up[c])
<1>0. /\ log \in Seq(Event) /\ Len(log) \in Nat
      /\ stored \in Seq(Event) /\ Len(stored) \in Nat
      /\ up \in [Conns -> Seq(Event)] /\ down \in [Conns -> Seq(Nat)]
      /\ \A i \in 1..Len(log) : log[i] \in Event /\ log[i].seq \in Nat
  BY EventFields DEF TypeOK
<1>1. /\ UNCHANGED <<log, torn, cursor, host, seq, acked, cur, conn, emits, faults, tears>>
      /\ conn[c] \in {"open", "cut"} /\ up[c] # <<>>
      /\ up' = [up EXCEPT ![c] = Tail(@)]
      /\ stored' = IF \E i \in 1..Len(stored) : stored[i].seq = ev.seq
                   THEN stored ELSE Append(stored, ev)
      /\ down' = IF conn[c] = "open"
                 THEN [down EXCEPT ![c] = Append(@, ev.seq)] ELSE down
  BY DEF Receive
<1>2. /\ ev \in Event /\ ev.seq \in Nat
      /\ Tail(up[c]) \in Seq(Event)
      /\ Len(up[c]) \in Nat /\ Len(up[c]) >= 1
      /\ Len(Tail(up[c])) = Len(up[c]) - 1
      /\ \A i \in 1..Len(Tail(up[c])) : Tail(up[c])[i] = up[c][i + 1]
      /\ ev = up[c][1]
  <2>1. up[c] \in Seq(Event) /\ up[c] # <<>>
    BY <1>0, <1>1
  <2> QED
    BY <2>1, HeadTailProperties, EventFields
<1>3. PICK b \in 0..Len(stored) : StretchFrom(b, up[c], conn[c] = "open")
  BY DEF FramesFollow
<1>4. b + 1 \in 1..Len(log) /\ ev = log[b + 1]
  BY <1>0, <1>2, <1>3 DEF StretchFrom
<1> HIDE DEF ev
\* The frame is a duplicate, or the event the store needs next.
<1>5. /\ stored' \in Seq(Event) /\ Len(stored') \in Nat
      /\ Len(stored) <= Len(stored') /\ b + 1 <= Len(stored')
      /\ Len(stored') <= Len(log)
      /\ \A i \in 1..Len(stored') : stored'[i] = log[i]
  <2>1. CASE b < Len(stored)
    <3>1. b + 1 \in 1..Len(stored) /\ stored[b + 1] = ev
      BY <1>0, <1>4, <2>1 DEF StoredPrefix
    <3>2. stored' = stored
      BY <1>1, <3>1
    <3> QED
      BY <1>0, <2>1, <3>2 DEF StoredPrefix
  <2>2. CASE b = Len(stored)
    <3>1. ~ \E i \in 1..Len(stored) : stored[i].seq = ev.seq
      <4> SUFFICES ASSUME NEW i \in 1..Len(stored) PROVE stored[i].seq # ev.seq
        OBVIOUS
      <4>1. stored[i] = log[i] /\ i \in 1..Len(log) /\ i < b + 1
        BY <1>0, <2>2 DEF StoredPrefix
      <4>2. log[i].seq < log[b + 1].seq
        BY <1>4, <4>1 DEF LogOrdered
      <4>3. log[i].seq \in Nat /\ log[b + 1].seq \in Nat
        BY <1>0, <1>4, <4>1
      <4> QED BY <1>4, <4>1, <4>2, <4>3
    <3>2. stored' = Append(stored, ev)
      BY <1>1, <3>1
    <3>3. /\ stored' \in Seq(Event) /\ Len(stored') = Len(stored) + 1
          /\ \A i \in 1..Len(stored) : stored'[i] = stored[i]
          /\ stored'[Len(stored) + 1] = ev
      BY <1>0, <1>2, <3>2, AppendProperties
    <3>4. ASSUME NEW i \in 1..Len(stored')
          PROVE  stored'[i] = log[i]
      <4>1. CASE i \in 1..Len(stored)
        BY <3>3, <4>1 DEF StoredPrefix
      <4>2. CASE i = Len(stored) + 1
        BY <1>4, <2>2, <3>3, <4>2
      <4> QED BY <1>0, <3>3, <4>1, <4>2
    <3> QED
      BY <1>0, <1>4, <2>2, <3>3, <3>4
  <2> QED
    BY <1>0, <2>1, <2>2
<1>6. TypeOK'
  <2>1. up' \in [Conns -> Seq(Event)]
    BY <1>0, <1>1, <1>2
  <2>2. down' \in [Conns -> Seq(Nat)]
    <3>1. Append(down[c], ev.seq) \in Seq(Nat)
      BY <1>0, <1>2, AppendProperties
    <3> QED BY <1>0, <1>1, <3>1
  <2> QED
    BY <1>1, <1>5, <2>1, <2>2 DEF TypeOK
<1>7. LogOrdered' /\ EmitterAhead' /\ TearsAccount'
  BY <1>1 DEF LogOrdered, EmitterAhead, TearsAccount
<1>8. StoredPrefix'
  BY <1>1, <1>5 DEF StoredPrefix
<1>9. OneLiveSocket'
  BY <1>1 DEF OneLiveSocket
<1>10. FramesFollow'
  <2> SUFFICES ASSUME NEW d \in Conns
               PROVE  \E a \in 0..Len(stored') : StretchFrom(a, up[d], conn[d] = "open")'
    BY DEF FramesFollow
  <2>1. CASE d = c
    <3>1. up'[d] = Tail(up[c])
      BY <1>0, <1>1, <2>1
    <3>2. /\ b + Len(up[c]) <= Len(log)
          /\ \A j \in 1..Len(up[c]) : up[c][j] = log[b + j]
          /\ conn[c] = "open" => b + Len(up[c]) = Len(log)
      BY <1>3 DEF StretchFrom
    <3>3. \A j \in 1..Len(Tail(up[c])) : j + 1 \in 1..Len(up[c]) /\ b + (j + 1) = (b + 1) + j
      BY <1>0, <1>2
    <3>4. \A j \in 1..Len(Tail(up[c])) : Tail(up[c])[j] = log[(b + 1) + j]
      BY <1>2, <3>2, <3>3
    <3>5. StretchFrom(b + 1, up[d], conn[d] = "open")'
      BY <1>0, <1>1, <1>2, <2>1, <3>1, <3>2, <3>4 DEF StretchFrom
    <3>6. b + 1 \in 0..Len(stored')
      BY <1>0, <1>5
    <3> QED BY <3>5, <3>6
  <2>2. CASE d # c
    <3>1. up'[d] = up[d]
      BY <1>0, <1>1, <2>2
    <3>2. PICK a \in 0..Len(stored) : StretchFrom(a, up[d], conn[d] = "open")
      BY DEF FramesFollow
    <3>3. StretchFrom(a, up[d], conn[d] = "open")'
      BY <1>1, <3>1, <3>2 DEF StretchFrom
    <3>4. a \in 0..Len(stored')
      BY <1>0, <1>5
    <3> QED BY <3>3, <3>4
  <2> QED BY <2>1, <2>2
<1>11. AcksPassed'
  <2>1. \A i \in 1..Len(stored) : i \in 1..Len(stored') /\ stored'[i] = stored[i]
    BY <1>0, <1>5 DEF StoredPrefix
  <2>2. ASSUME NEW n, Passed(n)
        PROVE  n = -1 \/ \E k \in 1..Len(stored') : stored'[k].seq = n
    BY <2>1, <2>2 DEF Passed
  <2>3. \E k \in 1..Len(stored') : stored'[k].seq = ev.seq
    <3>1. b + 1 \in 1..Len(stored') /\ stored'[b + 1] = ev
      BY <1>0, <1>4, <1>5
    <3> QED BY <3>1
  <2>4. Passed(cursor)' /\ (host = "up" => Passed(acked))'
    BY <1>1, <2>2 DEF AcksPassed, Passed
  <2>5. ASSUME NEW d \in Conns, NEW j \in 1..Len(down'[d])
        PROVE  \/ down'[d][j] = -1
               \/ \E k \in 1..Len(stored') : stored'[k].seq = down'[d][j]
    <3>1. CASE d = c /\ conn[c] = "open"
      <4>1. down'[d] = Append(down[c], ev.seq) /\ down[c] \in Seq(Nat)
        BY <1>0, <1>1, <3>1
      <4>2. /\ Len(down'[d]) = Len(down[c]) + 1 /\ Len(down[c]) \in Nat
            /\ \A i \in 1..Len(down[c]) : down'[d][i] = down[c][i]
            /\ down'[d][Len(down[c]) + 1] = ev.seq
        BY <1>2, <4>1, AppendProperties
      <4>3. CASE j \in 1..Len(down[c])
        BY <2>2, <4>2, <4>3 DEF AcksPassed
      <4>4. CASE j = Len(down[c]) + 1
        BY <2>3, <4>2, <4>4
      <4> QED BY <4>2, <4>3, <4>4, <2>5
    <3>2. CASE ~ (d = c /\ conn[c] = "open")
      <4>1. down'[d] = down[d]
        BY <1>0, <1>1, <3>2
      <4> QED BY <2>2, <2>5, <4>1 DEF AcksPassed
    <3> QED BY <3>1, <3>2
  <2> QED
    BY <2>4, <2>5 DEF AcksPassed, Passed
<1> QED
  BY <1>6, <1>7, <1>8, <1>9, <1>10, <1>11

LEMMA AckArrivesInv ==
  ASSUME Inv, NEW c \in Conns, AckArrives(c)
  PROVE  Inv'
<1> USE DEF Inv
<1>0. down \in [Conns -> Seq(Nat)] /\ acked \in Nat \cup {-1}
  BY DEF TypeOK
<1>1. /\ UNCHANGED <<log, torn, host, seq, cur, conn, up, stored, emits, faults, tears>>
      /\ conn[c] = "open" /\ down[c] # <<>>
      /\ down' = [down EXCEPT ![c] = Tail(@)]
      /\ acked' = IF Head(down[c]) > acked THEN Head(down[c]) ELSE acked
      /\ cursor' = IF Head(down[c]) > acked THEN Head(down[c]) ELSE cursor
  BY DEF AckArrives
<1>2. /\ Head(down[c]) \in Nat /\ Tail(down[c]) \in Seq(Nat)
      /\ Len(down[c]) \in Nat /\ Len(down[c]) >= 1
      /\ Len(Tail(down[c])) = Len(down[c]) - 1
      /\ \A i \in 1..Len(Tail(down[c])) : Tail(down[c])[i] = down[c][i + 1]
      /\ Head(down[c]) = down[c][1]
  <2>1. down[c] \in Seq(Nat) /\ down[c] # <<>>
    BY <1>0, <1>1
  <2> QED
    BY <2>1, HeadTailProperties
<1>3. TypeOK'
  <2>1. down' \in [Conns -> Seq(Nat)]
    BY <1>0, <1>1, <1>2
  <2>2. acked' \in Nat \cup {-1} /\ cursor' \in Nat \cup {-1}
    BY <1>1, <1>2 DEF TypeOK
  <2> QED
    BY <1>1, <2>1, <2>2 DEF TypeOK
<1>4. LogOrdered' /\ EmitterAhead' /\ StoredPrefix' /\ TearsAccount' /\ OneLiveSocket'
  BY <1>1 DEF LogOrdered, EmitterAhead, StoredPrefix, TearsAccount, OneLiveSocket
<1>5. FramesFollow'
  BY <1>1 DEF FramesFollow, StretchFrom
<1>6. AcksPassed'
  <2>1. Passed(Head(down[c])) /\ host = "up"
    <3>1. 1 \in 1..Len(down[c])
      BY <1>2
    <3> QED BY <1>1, <1>2, <3>1 DEF AcksPassed, OneLiveSocket
  <2>2. Passed(acked') /\ Passed(cursor')
    BY <1>1, <2>1 DEF AcksPassed
  <2>3. \A d \in Conns : \A j \in 1..Len(down'[d]) : Passed(down'[d][j])
    <3> SUFFICES ASSUME NEW d \in Conns, NEW j \in 1..Len(down'[d])
                 PROVE  Passed(down'[d][j])
      OBVIOUS
    <3>1. CASE d = c
      <4>1. down'[d] = Tail(down[c])
        BY <1>0, <1>1, <3>1
      <4>2. j + 1 \in 1..Len(down[c]) /\ down'[d][j] = down[c][j + 1]
        BY <1>2, <4>1
      <4> QED BY <4>2 DEF AcksPassed
    <3>2. CASE d # c
      <4>1. down'[d] = down[d]
        BY <1>0, <1>1, <3>2
      <4> QED BY <4>1 DEF AcksPassed
    <3> QED BY <3>1, <3>2
  <2> QED
    BY <1>1, <2>2, <2>3 DEF AcksPassed, Passed
<1> QED
  BY <1>3, <1>4, <1>5, <1>6

\* Cutting the current socket, with or without losing the host, leaves the
\* frames and the acks in flight as they are.
LEMMA CutCurrentKeeps ==
  ASSUME Inv, CutCurrent, UNCHANGED <<log, cur, up, stored>>
  PROVE  /\ conn' \in [Conns -> {"idle", "connecting", "open", "cut"}]
         /\ \A d \in Conns : conn'[d] \notin {"connecting", "open"}
         /\ FramesFollow'
<1> USE DEF Inv
<1>1. conn' \in [Conns -> {"idle", "connecting", "open", "cut"}]
  BY DEF TypeOK, CutCurrent, IsLive
<1>2. \A d \in Conns : conn'[d] \notin {"connecting", "open"}
  BY DEF TypeOK, CutCurrent, IsLive, OneLiveSocket
<1>3. FramesFollow'
  BY <1>2 DEF FramesFollow, StretchFrom
<1> QED
  BY <1>1, <1>2, <1>3

LEMMA CutInv ==
  ASSUME Inv, Cut
  PROVE  Inv'
<1> USE DEF Inv, Cut, disk, emitter
<1>1. /\ conn' \in [Conns -> {"idle", "connecting", "open", "cut"}]
      /\ \A d \in Conns : conn'[d] \notin {"connecting", "open"}
      /\ FramesFollow'
  BY CutCurrentKeeps
<1>2. TypeOK'
  BY <1>1 DEF TypeOK
<1>3. LogOrdered' /\ EmitterAhead' /\ StoredPrefix' /\ TearsAccount' /\ OneLiveSocket'
  BY <1>1 DEF LogOrdered, EmitterAhead, StoredPrefix, TearsAccount, OneLiveSocket
<1>4. AcksPassed'
  BY DEF AcksPassed, Passed
<1> QED
  BY <1>1, <1>2, <1>3, <1>4

\* Losing the host in any of the three ways: memory goes, the log stays, a
\* torn line is accounted for and the cursor is kept or emptied.
LEMMA HostGoneInv ==
  ASSUME Inv, HostGone, log' = log,
         \/ torn' = torn /\ tears' = tears
         \/ torn' = TRUE /\ tears' = tears + 1,
         cursor' = cursor \/ cursor' = -1
  PROVE  Inv'
<1> USE DEF Inv
<1>0. CutCurrent /\ UNCHANGED <<seq, acked, cur, up, down, stored, emits, log>>
      /\ host' = "down" /\ faults' = faults + 1
  BY DEF HostGone
<1>1. /\ conn' \in [Conns -> {"idle", "connecting", "open", "cut"}]
      /\ \A d \in Conns : conn'[d] \notin {"connecting", "open"}
      /\ FramesFollow'
  BY <1>0, CutCurrentKeeps
<1>2. TypeOK'
  <2>1. torn' \in BOOLEAN
    BY DEF TypeOK
  <2>2. tears' \in Nat /\ faults' \in Nat /\ cursor' \in Nat \cup {-1}
    BY <1>0 DEF TypeOK
  <2> QED
    BY <1>0, <1>1, <2>1, <2>2 DEF TypeOK
<1>3. LogOrdered' /\ EmitterAhead' /\ StoredPrefix' /\ OneLiveSocket'
  BY <1>0, <1>1 DEF LogOrdered, EmitterAhead, StoredPrefix, OneLiveSocket
<1>4. AcksPassed'
  BY <1>0 DEF AcksPassed, Passed
<1>5. TearsAccount'
  <2>1. Len(emits) \in Int /\ Len(log) \in Int /\ tears \in Nat
    BY DEF TypeOK
  <2> DEFINE lost == Len(emits) - Len(log)
  <2>2. lost + (IF torn THEN 1 ELSE 0) <= tears
    BY DEF TearsAccount
  <2>3. lost' = lost
    BY <1>0
  <2>4. CASE torn' = torn /\ tears' = tears
    BY <1>0, <2>4 DEF TearsAccount
  <2>5. CASE torn' = TRUE /\ tears' = tears + 1
    <3>1. lost <= tears /\ lost \in Int
      BY <2>1, <2>2
    <3>2. lost + 1 <= tears + 1
      BY <2>1, <3>1
    <3> QED BY <1>0, <2>5, <3>2 DEF TearsAccount
  <2> QED BY <2>4, <2>5
<1> QED
  BY <1>1, <1>2, <1>3, <1>4, <1>5

LEMMA DiscardInv ==
  ASSUME Inv, NEW c \in Conns, Discard(c)
  PROVE  Inv'
<1> USE DEF Inv, disk, emitter
<1>0. /\ UNCHANGED <<log, torn, cursor, host, seq, acked, cur, stored, emits, faults, tears>>
      /\ conn' = [conn EXCEPT ![c] = "idle"]
      /\ up' = [up EXCEPT ![c] = <<>>] /\ down' = [down EXCEPT ![c] = <<>>]
  BY DEF Discard
<1>1. TypeOK'
  <2>1. <<>> \in Seq(Event) /\ <<>> \in Seq(Nat)
    OBVIOUS
  <2>2. up' \in [Conns -> Seq(Event)] /\ down' \in [Conns -> Seq(Nat)]
    BY <1>0, <2>1 DEF TypeOK
  <2> QED
    BY <1>0, <2>2 DEF TypeOK
<1>2. LogOrdered' /\ EmitterAhead' /\ StoredPrefix' /\ TearsAccount'
  BY <1>0 DEF LogOrdered, EmitterAhead, StoredPrefix, TearsAccount
<1>3. OneLiveSocket'
  BY <1>0 DEF OneLiveSocket, TypeOK
<1>4. FramesFollow'
  <2> SUFFICES ASSUME NEW d \in Conns
               PROVE  \E a \in 0..Len(stored) : StretchFrom(a, up[d], conn[d] = "open")'
    BY <1>0 DEF FramesFollow
  <2>1. CASE d = c
    <3>1. up'[d] = <<>> /\ conn'[d] = "idle" /\ Len(log) \in Nat /\ Len(stored) \in Nat
      BY <1>0, <2>1 DEF TypeOK
    <3>2. StretchFrom(0, up[d], conn[d] = "open")'
      BY <1>0, <3>1 DEF StretchFrom
    <3> QED BY <1>0, <3>1, <3>2
  <2>2. CASE d # c
    <3>1. up'[d] = up[d] /\ conn'[d] = conn[d]
      BY <1>0, <2>2 DEF TypeOK
    <3>2. PICK a \in 0..Len(stored) : StretchFrom(a, up[d], conn[d] = "open")
      BY DEF FramesFollow
    <3>3. StretchFrom(a, up[d], conn[d] = "open")'
      BY <1>0, <3>1, <3>2 DEF StretchFrom
    <3> QED BY <1>0, <3>3
  <2> QED BY <2>1, <2>2
<1>5. AcksPassed'
  BY <1>0 DEF AcksPassed, Passed, TypeOK
<1> QED
  BY <1>1, <1>2, <1>3, <1>4, <1>5

LEMMA StutterInv ==
  ASSUME Inv, UNCHANGED vars
  PROVE  Inv'
BY DEF Inv, vars, TypeOK, LogOrdered, EmitterAhead, StoredPrefix, FramesFollow,
       StretchFrom, OneLiveSocket, AcksPassed, Passed, TearsAccount

---------------------------------------------------------------------------
(* Theorems.                                                               *)

\* The inductive invariant holds of every behaviour of the channel, for any
\* number of sockets, events, faults and torn writes.
THEOREM Invariance == Spec => []Inv
<1>1. Init => Inv
  BY InitInv
<1>2. Inv /\ [Next]_vars => Inv'
  <2> SUFFICES ASSUME Inv, [Next]_vars PROVE Inv'
    OBVIOUS
  <2>1. ASSUME NEW c \in Conns, Activate(c) PROVE Inv'
    BY <2>1, ActivateInv
  <2>2. ASSUME NEW c \in Conns, Reconnect(c) PROVE Inv'
    BY <2>2, ReconnectInv
  <2>3. ASSUME NEW c \in Conns, Open(c) PROVE Inv'
    BY <2>3, OpenInv
  <2>4. ASSUME NEW c \in Conns, Receive(c) PROVE Inv'
    BY <2>4, ReceiveInv
  <2>5. ASSUME NEW c \in Conns, AckArrives(c) PROVE Inv'
    BY <2>5, AckArrivesInv
  <2>6. ASSUME NEW c \in Conns, Discard(c) PROVE Inv'
    BY <2>6, DiscardInv
  <2>7. CASE Emit
    BY <2>7, EmitInv
  <2>8. CASE Cut
    BY <2>8, CutInv
  <2>9. CASE Kill
    BY <2>9, HostGoneInv DEF Kill, disk
  <2>10. CASE KillMidAppend
    BY <2>10, HostGoneInv DEF KillMidAppend
  <2>11. CASE KillMidCursor
    BY <2>11, HostGoneInv DEF KillMidCursor
  <2>12. CASE UNCHANGED vars
    BY <2>12, StutterInv
  <2> QED
    BY <2>1, <2>2, <2>3, <2>4, <2>5, <2>6, <2>7, <2>8, <2>9, <2>10, <2>11, <2>12
       DEF Next
<1> QED
  BY <1>1, <1>2, PTL DEF Spec

\* Every variable keeps its type.
THEOREM TypeCorrect == Spec => []TypeOK
<1>1. Inv => TypeOK
  BY DEF Inv
<1> QED
  BY <1>1, Invariance, PTL

\* The store holds the extension's events in emission order, once each, even
\* after torn writes.
THEOREM StoredOrder == Spec => []StoredInEmitOrder
<1>1. Inv => StoredInEmitOrder
  <2> SUFFICES ASSUME Inv, NEW i \in 1..Len(stored), NEW j \in 1..Len(stored), i < j
               PROVE  stored[i].id < stored[j].id
    BY DEF StoredInEmitOrder
  <2>1. /\ Len(log) \in Nat /\ Len(stored) \in Nat
        /\ i \in 1..Len(log) /\ j \in 1..Len(log)
        /\ stored[i] = log[i] /\ stored[j] = log[j]
    BY DEF Inv, TypeOK, StoredPrefix
  <2> QED
    BY <2>1 DEF Inv, LogOrdered
<1> QED
  BY <1>1, Invariance, PTL

\* The cursor never passes an event of the log that the store does not hold.
THEOREM NothingGivenUp == Spec => []PassedMeansStored
<1>1. Inv => PassedMeansStored
  <2> SUFFICES ASSUME Inv PROVE PassedMeansStored
    OBVIOUS
  <2> USE DEF Inv
  <2>0. /\ log \in Seq(Event) /\ Len(log) \in Nat /\ Len(stored) \in Nat
        /\ acked \in Nat \cup {-1} /\ cursor \in Nat \cup {-1}
        /\ \A i \in 1..Len(log) : log[i].seq \in Nat
    BY EventFields DEF TypeOK
  <2> DEFINE top == IF host = "up" THEN Max({acked, cursor}) ELSE cursor
  <2>1. Passed(top) /\ top \in Nat \cup {-1}
    <3>1. CASE host # "up"
      BY <2>0, <3>1 DEF AcksPassed
    <3>2. CASE host = "up"
      <4>1. {acked, cursor} \subseteq Int /\ acked \in {acked, cursor} /\ cursor \in {acked, cursor}
        BY <2>0
      <4>2. CASE acked <= cursor
        <5>1. \A x \in {acked, cursor} : x <= cursor
          BY <2>0, <4>2
        <5>2. Max({acked, cursor}) = cursor
          BY <4>1, <5>1, MaxIs
        <5> QED BY <2>0, <3>2, <5>2 DEF AcksPassed
      <4>3. CASE cursor <= acked
        <5>1. \A x \in {acked, cursor} : x <= acked
          BY <2>0, <4>3
        <5>2. Max({acked, cursor}) = acked
          BY <4>1, <5>1, MaxIs
        <5> QED BY <2>0, <3>2, <5>2 DEF AcksPassed
      <4> QED BY <2>0, <4>2, <4>3
    <3> QED BY <3>1, <3>2
  <2> HIDE DEF top
  <2>2. SUFFICES ASSUME NEW i \in 1..Len(log), log[i].seq <= top
                 PROVE  \E j \in 1..Len(stored) : stored[j] = log[i]
    BY DEF PassedMeansStored, top
  <2>3. PICK k \in 1..Len(stored) : stored[k].seq = top
    BY <2>0, <2>1, <2>2 DEF Passed
  <2>4. k \in 1..Len(log) /\ log[k].seq = top
    BY <2>0, <2>3 DEF StoredPrefix
  <2>5. i <= k
    BY <2>0, <2>2, <2>4 DEF LogOrdered
  <2>6. i \in 1..Len(stored) /\ stored[i] = log[i]
    BY <2>0, <2>5 DEF StoredPrefix
  <2> QED BY <2>6
<1> QED
  BY <1>1, Invariance, PTL

\* A torn write costs at most one event, and no number is used twice.
THEOREM TearCost == Spec => []TearCostsAtMostOne
<1>1. Inv => TearCostsAtMostOne
  <2> SUFFICES ASSUME Inv PROVE TearCostsAtMostOne
    OBVIOUS
  <2>1. Len(emits) - Len(log) <= tears
    BY DEF Inv, TypeOK, TearsAccount
  <2> QED
    BY <2>1 DEF Inv, LogOrdered, TearCostsAtMostOne
<1> QED
  BY <1>1, Invariance, PTL

\* Appending to the log is a Write of the abstract log.
LEMMA AppendIsWrite ==
  ASSUME TypeOK, LogOrdered, NEW n \in Nat, \A i \in 1..Len(log) : log[i].seq < n,
         ~ torn, AppendLine(NewEvent(n)), stored' = stored
  PROVE  Abstract!Write
<1> DEFINE ev == NewEvent(n)
<1>1. log \in Seq(Event) /\ Len(log) \in Nat /\ ev \in Event /\ ev.seq = n
  BY NewEventType DEF TypeOK
<1>2. log' = Append(log, ev)
  BY DEF AppendLine
<1> HIDE DEF ev
<1>3. /\ log' \in Seq(Event) /\ Len(log') = Len(log) + 1
      /\ \A i \in 1..Len(log) : log'[i] = log[i]
      /\ log'[Len(log) + 1] = ev
  BY <1>1, <1>2, AppendProperties
<1>4. SubSeq(log', 1, Len(log)) = log
  <2>1. \A i \in 1..Len(log) : log'[i] \in Event
    BY <1>1, <1>3
  <2>2. /\ SubSeq(log', 1, Len(log)) \in Seq(Event)
        /\ Len(SubSeq(log', 1, Len(log))) = Len(log)
        /\ \A i \in 1..Len(log) : SubSeq(log', 1, Len(log))[i] = log'[i]
    BY <1>1, <2>1, SubSeqProperties
  <2> QED
    BY <1>1, <1>3, <2>2, SeqEqual
<1>5. \A i \in 1..Len(log) : log[i].seq < log'[Len(log')].seq
  BY <1>1, <1>3
<1> QED
  BY <1>3, <1>4, <1>5 DEF Abstract!Write

\* Every step of the channel is a step of the abstract log, or changes
\* neither what is durable nor what the server holds.
THEOREM Refinement == Spec => ImplementsTraceLog
<1>1. Init => Abstract!Init
  BY DEF Init, Abstract!Init
<1>2. Inv /\ [Next]_vars => [Abstract!Next]_(Abstract!vars)
  <2> SUFFICES ASSUME Inv, [Next]_vars
               PROVE  Abstract!Next \/ UNCHANGED <<log, stored>>
    BY DEF Abstract!vars
  <2> USE DEF Inv
  <2>1. ASSUME NEW c \in Conns, Activate(c)
        PROVE  Abstract!Next \/ UNCHANGED <<log, stored>>
    <3>1. CASE torn
      BY <2>1, <3>1 DEF Activate, AppendLine
    <3>2. CASE ~ torn
      <4>1. Abstract!Write
        BY <2>1, <3>2, ResumeAbove, AppendIsWrite DEF Activate
      <4> QED BY <4>1 DEF Abstract!Next
    <3> QED BY <3>1, <3>2
  <2>2. CASE Emit
    <3>1. Abstract!Write
      BY <2>2, AppendIsWrite DEF Emit, EmitterAhead, TypeOK
    <3> QED BY <3>1 DEF Abstract!Next
  <2>3. ASSUME NEW c \in Conns, Receive(c)
        PROVE  Abstract!Next \/ UNCHANGED <<log, stored>>
    <3> DEFINE ev == Head(up[c])
    <3>0. /\ log \in Seq(Event) /\ Len(log) \in Nat
          /\ stored \in Seq(Event) /\ Len(stored) \in Nat
          /\ up[c] \in Seq(Event) /\ up[c] # <<>> /\ log' = log
      BY <2>3 DEF TypeOK, Receive, disk
    <3>1. PICK b \in 0..Len(stored) : StretchFrom(b, up[c], conn[c] = "open")
      BY DEF FramesFollow
    <3>2. b + 1 \in 1..Len(log) /\ ev = log[b + 1]
      <4>1. Len(up[c]) \in Nat /\ Len(up[c]) >= 1 /\ ev = up[c][1]
        BY <3>0, HeadTailProperties
      <4> QED BY <3>0, <3>1, <4>1 DEF StretchFrom
    <3>3. stored' = IF \E i \in 1..Len(stored) : stored[i].seq = ev.seq
                    THEN stored ELSE Append(stored, ev)
      BY <2>3 DEF Receive
    <3> HIDE DEF ev
    <3>4. CASE b < Len(stored)
      <4>1. b + 1 \in 1..Len(stored) /\ stored[b + 1] = ev
        BY <3>0, <3>2, <3>4 DEF StoredPrefix
      <4> QED BY <3>0, <3>3, <4>1
    <3>5. CASE b = Len(stored)
      <4>1. stored' = stored \/ stored' = Append(stored, log[Len(stored) + 1])
        BY <3>2, <3>3, <3>5
      <4>2. Len(stored) < Len(log)
        BY <3>0, <3>2, <3>5
      <4>3. CASE stored' = Append(stored, log[Len(stored) + 1])
        BY <3>0, <4>2, <4>3 DEF Abstract!Next, Abstract!Deliver
      <4> QED BY <3>0, <4>1, <4>3
    <3> QED BY <3>0, <3>4, <3>5
  <2>4. ASSUME NEW c \in Conns,
               Reconnect(c) \/ Open(c) \/ AckArrives(c) \/ Discard(c)
        PROVE  UNCHANGED <<log, stored>>
    BY <2>4 DEF Reconnect, Open, AckArrives, Discard, disk
  <2>5. CASE Cut \/ Kill \/ KillMidAppend \/ KillMidCursor
    BY <2>5 DEF Cut, Kill, KillMidAppend, KillMidCursor, HostGone, disk
  <2>6. CASE UNCHANGED vars
    BY <2>6 DEF vars
  <2> QED
    BY <2>1, <2>2, <2>3, <2>4, <2>5, <2>6 DEF Next
<1> QED
  BY <1>1, <1>2, Invariance, PTL DEF Spec, ImplementsTraceLog, Abstract!Spec

\* As long as no write was torn, the log is the history of emitted events.
NoTearNoLoss ==
  /\ tears <= MaxTears
  /\ tears = 0 => ~ torn /\ log = emits

\* The header of durable-log.ts is right when no kill lands inside a write:
\* then every emitted event can be read from the log.
THEOREM WholeTailWithoutTears ==
  ASSUME MaxTears = 0
  PROVE  Spec => []OnlyTheTailIsLost
<1>1. Init => NoTearNoLoss
  BY BoundsAssumption DEF Init, NoTearNoLoss
<1>2. TypeOK /\ NoTearNoLoss /\ [Next]_vars => NoTearNoLoss'
  <2> SUFFICES ASSUME TypeOK, NoTearNoLoss, [Next]_vars PROVE NoTearNoLoss'
    OBVIOUS
  <2> USE DEF NoTearNoLoss, disk, emitter
  <2>1. CASE Emit \/ \E c \in Conns : Activate(c)
    BY <2>1 DEF Emit, Activate, AppendLine
  <2>2. CASE \E c \in Conns : Reconnect(c) \/ Open(c) \/ Receive(c) \/ AckArrives(c) \/ Discard(c)
    BY <2>2 DEF Reconnect, Open, Receive, AckArrives, Discard
  <2>3. CASE Cut \/ Kill \/ KillMidCursor
    BY <2>3 DEF Cut, Kill, KillMidCursor, HostGone
  <2>4. CASE KillMidAppend
    <3>1. tears \in Nat /\ tears < 0
      BY <2>4 DEF KillMidAppend, TypeOK
    <3> QED BY <3>1
  <2>5. CASE UNCHANGED vars
    BY <2>5 DEF vars
  <2> QED
    BY <2>1, <2>2, <2>3, <2>4, <2>5 DEF Next
<1>3. TypeOK /\ NoTearNoLoss => OnlyTheTailIsLost
  <2> SUFFICES ASSUME TypeOK, NoTearNoLoss PROVE OnlyTheTailIsLost
    OBVIOUS
  <2>1. tears = 0
    BY DEF TypeOK, NoTearNoLoss
  <2> QED
    BY <2>1 DEF NoTearNoLoss, OnlyTheTailIsLost
<1> QED
  BY <1>1, <1>2, <1>3, TypeCorrect, PTL DEF Spec
===========================================================================
