------------------------- MODULE SessionRoundProofs -------------------------
(***************************************************************************)
(* Proofs about SessionRound, for any shapes of round, any finite set of   *)
(* requests and any number of activities.                                  *)
(*                                                                         *)
(* The argument: the ended flag is set in the step that writes the ending  *)
(* and no path of ending writes one once it is set, so the index of the    *)
(* ending never moves; what the judge was given stays a prefix of the      *)
(* trace; each write of the record depends on the one before it; and every *)
(* event that may still follow the ending is owed by a request or a turn   *)
(* that was under way, each of which pays once.                            *)
(***************************************************************************)
EXTENDS SessionRound, FiniteSetTheorems, SequenceTheorems, TLAPS

---------------------------------------------------------------------------
(* The inductive invariant.                                                *)

\* Where the ending stands: nowhere before the round has ended, alone in a
\* discarded round, whose process is gone, and else where the judge's reading
\* of the trace stops.
EndingPlaced ==
  /\ ~ ended => grading = "no" /\ Occurs(Endings, trace) = {}
  /\ ended /\ grading = "no" =>
       /\ proc = "gone"
       /\ \E k \in 1..Len(trace) : Occurs(Endings, trace) = {k} /\ trace[k] = "abandoned"
  /\ grading # "no" =>
       /\ Len(read) >= 1 /\ Len(read) <= Len(trace)
       /\ \A i \in 1..Len(read) : read[i] = trace[i]
       /\ Occurs(Endings, trace) = {Len(read)}
       /\ read[Len(read)] = "end"

\* Where the graded run stands, and what the verdict made of it.
GradedRunPlaced ==
  /\ grading = "no" \/ ~ round.oneShot => Occurs(SubmitRuns, trace) = {}
  /\ round.oneShot /\ grading # "no" =>
       Len(read) >= 2 /\ Occurs(SubmitRuns, trace) = {Len(read) - 1}
  /\ solved # "unknown" =>
       /\ grading \notin {"no", "judging"}
       /\ round.oneShot => (solved = "yes") = (read[Len(read) - 1] = "submit_pass")

\* How far the record is: nothing before the judge has answered, and all but
\* the card while an import is awaited.
RecordStaged ==
  /\ grading = "no" => disk = NoRecord
  /\ grading = "judging" /\ proc = "up" => disk = NoRecord
  /\ grading = "importing" =>
       /\ ~ round.sample /\ round.memorable
       /\ disk = [assessment |-> "assessed", deposits |-> 1, feedback |-> FALSE]

Waiting == {r \in Reqs : inflight[r] # "none"}

\* What has followed the ending, and what is still owed to the trace, were
\* together under way when the round ended.
TrailOwed ==
  round.surface = "panes" /\ grading # "no" =>
    /\ (Len(trace) - Len(read)) + Cardinality(Waiting) + (IF composing THEN 1 ELSE 0)
         <= Cardinality(Reqs) + 1
    /\ \A i \in (Len(read) + 1)..Len(trace) :
         /\ trace[i] \notin Runs
         /\ trace[i] = "reply" =>
              /\ ~ composing
              /\ \A j \in (Len(read) + 1)..Len(trace) : trace[j] = "reply" => j = i

Inv == /\ TypeOK
       /\ EndingPlaced
       /\ GradedRunPlaced
       /\ RecordStaged
       /\ MemoryFollowsRecord
       /\ TrailOwed

---------------------------------------------------------------------------
(* Traces that grow.                                                       *)

\* What one more event adds to the places where some kinds occur.
LEMMA OccursAppend ==
  ASSUME NEW s \in Seq(Kinds), NEW k \in Kinds, NEW K
  PROVE  Occurs(K, Append(s, k)) =
           IF k \in K THEN Occurs(K, s) \cup {Len(s) + 1} ELSE Occurs(K, s)
<1>1. /\ Len(Append(s, k)) = Len(s) + 1 /\ Len(s) \in Nat
      /\ \A i \in 1..Len(s) : Append(s, k)[i] = s[i]
      /\ Append(s, k)[Len(s) + 1] = k
  OBVIOUS
<1>2. 1..(Len(s) + 1) = 1..Len(s) \cup {Len(s) + 1} /\ Len(s) + 1 \notin 1..Len(s)
  BY <1>1
<1> QED
  BY <1>1, <1>2, Zenon DEF Occurs

\* An event of the room (never an ending nor a graded run) leaves the ending
\* and the graded run where they were.
LEMMA RoomEvent ==
  ASSUME TypeOK, EndingPlaced, GradedRunPlaced, Up,
         NEW k \in Kinds \ (Endings \cup SubmitRuns),
         trace' = Append(trace, k),
         UNCHANGED <<round, ended, read, grading, solved>>
  PROVE  trace' \in Seq(Kinds) /\ EndingPlaced' /\ GradedRunPlaced'
<1>1. /\ trace \in Seq(Kinds) /\ Len(trace) \in Nat /\ k \in Kinds
      /\ read \in Seq(Kinds) /\ Len(read) \in Nat
  BY DEF TypeOK
<1>2. /\ Occurs(Endings, trace)' = Occurs(Endings, trace)
      /\ Occurs(SubmitRuns, trace)' = Occurs(SubmitRuns, trace)
  <2>1. /\ Occurs(Endings, Append(trace, k)) = Occurs(Endings, trace)
        /\ Occurs(SubmitRuns, Append(trace, k)) = Occurs(SubmitRuns, trace)
    BY <1>1, OccursAppend
  <2> QED
    BY <2>1 DEF Occurs
<1>3. /\ trace' \in Seq(Kinds) /\ Len(trace') = Len(trace) + 1
      /\ \A i \in 1..Len(trace) : trace'[i] = trace[i]
  BY <1>1
<1>4. EndingPlaced'
  <2>1. proc = "up"
    BY DEF Up
  <2>2. ~ (ended /\ grading = "no")
    BY <2>1 DEF EndingPlaced
  <2>3. grading # "no" =>
          /\ Len(read') >= 1 /\ Len(read') <= Len(trace')
          /\ \A i \in 1..Len(read') : read'[i] = trace'[i]
    BY <1>1, <1>3 DEF EndingPlaced
  <2> QED
    BY <1>2, <2>2, <2>3 DEF EndingPlaced
<1>5. GradedRunPlaced'
  BY <1>2 DEF GradedRunPlaced
<1> QED
  BY <1>3, <1>4, <1>5

\* What finalize writes: the ending is the last event, before it the graded
\* run of a one-shot round, and no other of either.
LEMMA FinalizeWrites ==
  ASSUME TypeOK, EndingPlaced, GradedRunPlaced, ~ ended,
         NEW p, NEW parting \in {<<>>, <<"reply">>}, Finalize(p, parting)
  PROVE  /\ trace' \in Seq(Kinds)
         /\ Len(trace') >= 1 /\ trace'[Len(trace')] = "end"
         /\ Occurs(Endings, trace)' = {Len(trace')}
         /\ Occurs(SubmitRuns, trace)' =
              IF round.oneShot THEN {Len(trace') - 1} ELSE {}
         /\ round.oneShot => Len(trace') >= 2
<1> DEFINE said == trace \o parting
<1>1. /\ trace \in Seq(Kinds) /\ Len(trace) \in Nat
      /\ Occurs(Endings, trace) = {} /\ Occurs(SubmitRuns, trace) = {}
  BY DEF TypeOK, EndingPlaced, GradedRunPlaced
<1>2. /\ said \in Seq(Kinds) /\ Len(said) \in Nat
      /\ Occurs(Endings, said) = {} /\ Occurs(SubmitRuns, said) = {}
  <2>1. CASE parting = <<>>
    <3>1. said = trace
      BY <1>1, <2>1, ConcatEmptySeq
    <3> QED
      BY <1>1, <3>1
  <2>2. CASE parting = <<"reply">>
    <3>1. said = Append(trace, "reply")
      BY <1>1, <2>2
    <3>2. "reply" \in Kinds /\ "reply" \notin Endings /\ "reply" \notin SubmitRuns
      BY DEF Kinds, Endings, SubmitRuns
    <3> QED
      BY <1>1, <3>1, <3>2, OccursAppend
  <2> QED
    BY <2>1, <2>2
<1>3. PICK graded \in IF round.oneShot THEN {<<k>> : k \in SubmitRuns} ELSE {<<>>} :
        trace' = trace \o parting \o graded \o <<"end">>
  BY DEF Finalize
<1>4. "end" \in Kinds /\ "end" \in Endings /\ "end" \notin SubmitRuns
  BY DEF Kinds, Endings, SubmitRuns
<1> DEFINE whole == said \o graded
<1>5. /\ whole \in Seq(Kinds) /\ Len(whole) \in Nat
      /\ Occurs(Endings, whole) = {}
      /\ Occurs(SubmitRuns, whole) = IF round.oneShot THEN {Len(whole)} ELSE {}
      /\ round.oneShot => Len(whole) >= 1
  <2> HIDE DEF said
  <2>1. CASE round.oneShot
    <3>1. PICK k \in SubmitRuns : graded = <<k>>
      BY <2>1
    <3>2. k \in Kinds /\ k \in SubmitRuns /\ k \notin Endings
      BY DEF Kinds, Endings, SubmitRuns
    <3>3. whole = Append(said, k)
      BY <1>2, <3>1
    <3>4. /\ Occurs(Endings, whole) = {}
          /\ Occurs(SubmitRuns, whole) = {Len(said) + 1}
      BY <1>2, <3>2, <3>3, OccursAppend
    <3>5. whole \in Seq(Kinds) /\ Len(whole) = Len(said) + 1
      BY <1>2, <3>2, <3>3
    <3> QED
      BY <1>2, <2>1, <3>4, <3>5
  <2>2. CASE ~ round.oneShot
    <3>1. graded = <<>>
      BY <2>2
    <3>2. whole = said
      BY <1>2, <3>1, ConcatEmptySeq
    <3> QED
      BY <1>2, <2>2, <3>2
  <2> QED
    BY <2>1, <2>2
<1>6. trace' = Append(whole, "end")
  <2>1. trace' = whole \o <<"end">>
    BY <1>3
  <2> HIDE DEF whole
  <2> QED
    BY <1>5, <2>1
<1> HIDE DEF whole
<1>7. /\ Occurs(Endings, Append(whole, "end")) = {Len(whole) + 1}
      /\ Occurs(SubmitRuns, Append(whole, "end")) = Occurs(SubmitRuns, whole)
  BY <1>4, <1>5, OccursAppend
<1>8. trace' \in Seq(Kinds) /\ Len(trace') = Len(whole) + 1 /\ trace'[Len(trace')] = "end"
  BY <1>4, <1>5, <1>6
<1>9. /\ Occurs(Endings, trace)' = Occurs(Endings, Append(whole, "end"))
      /\ Occurs(SubmitRuns, trace)' = Occurs(SubmitRuns, Append(whole, "end"))
  BY <1>6 DEF Occurs
<1> QED
  BY <1>5, <1>7, <1>8, <1>9

---------------------------------------------------------------------------
(* Steps that write nothing of the record.                                 *)

\* A step that leaves the trace and finalize alone keeps every part but the
\* books of what is owed; the process may go.
LEMMA QuietKeeps ==
  ASSUME Inv, proc' \in {proc, "gone"},
         UNCHANGED <<round, trace, ended, read, grading, solved, disk>>
  PROVE  EndingPlaced' /\ GradedRunPlaced' /\ RecordStaged' /\ MemoryFollowsRecord'
<1>1. /\ Occurs(Endings, trace)' = Occurs(Endings, trace)
      /\ Occurs(SubmitRuns, trace)' = Occurs(SubmitRuns, trace)
  BY DEF Occurs
<1>2. EndingPlaced'
  BY <1>1 DEF Inv, EndingPlaced
<1>3. GradedRunPlaced'
  BY <1>1 DEF Inv, GradedRunPlaced
<1>4. RecordStaged' /\ MemoryFollowsRecord'
  BY DEF Inv, RecordStaged, MemoryFollowsRecord, NoRecord
<1> QED
  BY <1>2, <1>3, <1>4

\* And what is owed, when nothing begins or finishes either.
LEMMA OwedUnchanged ==
  ASSUME Inv, UNCHANGED <<round, trace, read, inflight, composing>>,
         grading' # "no" => grading # "no"
  PROVE  TrailOwed'
<1>1. Waiting' = Waiting
  BY DEF Waiting
<1> QED
  BY <1>1 DEF Inv, TrailOwed

\* Before the end nothing is owed yet.
LEMMA NotJudgedYet ==
  ASSUME EndingPlaced, ~ ended
  PROVE  grading = "no"
BY DEF EndingPlaced

\* The candidate arrives, a suite run starts, the container is torn down, the
\* process is stopped: all but the type of what changed is as it was.
LEMMA ArriveKeeps == ASSUME Inv, Arrive PROVE Inv'
<1>1. TypeOK'
  BY DEF Inv, TypeOK, Arrive, room, record
<1>2. EndingPlaced' /\ GradedRunPlaced' /\ RecordStaged' /\ MemoryFollowsRecord'
  BY QuietKeeps DEF Arrive, record
<1>3. TrailOwed'
  BY OwedUnchanged DEF Arrive, record, room
<1> QED
  BY <1>1, <1>2, <1>3 DEF Inv

\* A run starts in a live round.
LEMMA StartRunKeeps == ASSUME Inv, StartRun PROVE Inv'
<1>1. TypeOK'
  BY BoundAssumption DEF Inv, TypeOK, StartRun, Begin, record
<1>2. EndingPlaced' /\ GradedRunPlaced' /\ RecordStaged' /\ MemoryFollowsRecord'
  BY QuietKeeps DEF StartRun, record
<1>3. TrailOwed'
  BY OwedUnchanged DEF StartRun, record
<1> QED
  BY <1>1, <1>2, <1>3 DEF Inv

\* A torn down round has ended.
LEMMA TearDownKeeps == ASSUME Inv, TearDown PROVE Inv'
<1>1. TypeOK'
  <2>1. /\ teardown' \in BOOLEAN /\ container' \in BOOLEAN
        /\ UNCHANGED <<round, proc, exit, ended, started, path, trace, inflight, composing,
                       running, grading, read, solved, disk, activities>>
    BY DEF TearDown, room, record
  <2> QED
    BY <2>1 DEF Inv, TypeOK
<1>2. EndingPlaced' /\ GradedRunPlaced' /\ RecordStaged' /\ MemoryFollowsRecord'
  BY QuietKeeps DEF TearDown, record
<1>3. TrailOwed'
  BY OwedUnchanged DEF TearDown, record, room
<1> QED
  BY <1>1, <1>2, <1>3 DEF Inv

\* A signal ends the round once.
LEMMA StopKeeps == ASSUME Inv, Shutdown \/ Signal PROVE Inv'
<1>1. TypeOK'
  <2>1. proc' \in {"up", "gone"} /\ exit' \in {"shutdown", "signal"} /\ container' \in BOOLEAN
    BY DEF Shutdown, Signal, Exit
  <2>2. UNCHANGED <<round, ended, started, path, trace, inflight, composing, running,
                    read, grading, solved, disk, teardown, activities>>
    BY DEF Shutdown, Signal, Exit, room
  <2> QED
    BY <2>1, <2>2 DEF Inv, TypeOK
<1>2. EndingPlaced' /\ GradedRunPlaced' /\ RecordStaged' /\ MemoryFollowsRecord'
  BY QuietKeeps DEF Shutdown, Signal, Exit
<1>3. TrailOwed'
  BY OwedUnchanged DEF Shutdown, Signal, Exit, room
<1> QED
  BY <1>1, <1>2, <1>3 DEF Inv

\* Nothing begins once the round has ended, so nothing new is owed to the
\* trace the judge reads.
LEMMA RequestKeeps ==
  ASSUME Inv, NEW r \in Reqs, NEW kind \in Kinds, Request(r, kind)
  PROVE  Inv'
<1>1. TypeOK'
  <2>1. kind \in {"edit", "utterance"}
    BY DEF Request
  <2>2. inflight' \in [Reqs -> {"none", "edit", "utterance"}]
    BY <2>1 DEF Inv, TypeOK, Request
  <2> QED
    BY <2>2, BoundAssumption DEF Inv, TypeOK, Request, Begin, record
<1>2. EndingPlaced' /\ GradedRunPlaced' /\ RecordStaged' /\ MemoryFollowsRecord'
  BY QuietKeeps DEF Request, record
<1>3. TrailOwed'
  BY NotJudgedYet DEF Inv, Request, record, TrailOwed
<1> QED
  BY <1>1, <1>2, <1>3 DEF Inv

\* A turn is composed in a live round.
LEMMA StartTurnKeeps == ASSUME Inv, StartTurn PROVE Inv'
<1>1. TypeOK'
  BY BoundAssumption DEF Inv, TypeOK, StartTurn, Begin, record
<1>2. EndingPlaced' /\ GradedRunPlaced' /\ RecordStaged' /\ MemoryFollowsRecord'
  BY QuietKeeps DEF StartTurn, record
<1>3. TrailOwed'
  BY NotJudgedYet DEF Inv, StartTurn, record, TrailOwed
<1> QED
  BY <1>1, <1>2, <1>3 DEF Inv

---------------------------------------------------------------------------
(* Steps that add an event of the room.                                    *)

\* A body that was being read appends what its request promised, and owes
\* nothing more.
LEMMA BodyReadKeeps ==
  ASSUME Inv, NEW r \in Reqs, BodyRead(r)
  PROVE  Inv'
<1> DEFINE k == inflight[r]
<1>1. /\ k \in {"edit", "utterance"} /\ trace' = Append(trace, k)
      /\ k \in Kinds \ (Endings \cup SubmitRuns)
      /\ k # "reply" /\ k \notin Runs
  BY DEF Inv, TypeOK, BodyRead, Kinds, Endings, SubmitRuns, Runs
<1>2. trace' \in Seq(Kinds) /\ EndingPlaced' /\ GradedRunPlaced'
  <2>1. Up /\ UNCHANGED <<round, ended, read, grading, solved>>
    BY DEF BodyRead, record
  <2> QED
    BY <1>1, <2>1, RoomEvent DEF Inv
<1>3. TypeOK'
  <2>1. inflight' \in [Reqs -> {"none", "edit", "utterance"}]
    BY DEF Inv, TypeOK, BodyRead
  <2>2. started' \in BOOLEAN
    BY DEF Inv, TypeOK, BodyRead
  <2> QED
    BY <1>2, <2>1, <2>2 DEF Inv, TypeOK, BodyRead, record
<1>4. RecordStaged' /\ MemoryFollowsRecord'
  BY DEF Inv, RecordStaged, MemoryFollowsRecord, NoRecord, BodyRead, record
<1>5. TrailOwed'
  <2>1. Waiting' = Waiting \ {r} /\ r \in Waiting
    BY DEF Inv, TypeOK, Waiting, BodyRead
  <2>2. Cardinality(Waiting') = Cardinality(Waiting) - 1 /\ Cardinality(Waiting) \in Nat
    <3>1. IsFiniteSet(Waiting)
      BY ReqsAssumption, FS_Subset DEF Waiting
    <3> QED
      BY <2>1, <3>1, FS_RemoveElement, FS_CardinalityType
  <2>3. /\ Len(trace) \in Nat /\ Len(read) \in Nat
        /\ Len(trace') = Len(trace) + 1 /\ trace'[Len(trace) + 1] = k
        /\ \A i \in 1..Len(trace) : trace'[i] = trace[i]
    BY <1>1 DEF Inv, TypeOK
  <2>4. Cardinality(Reqs) \in Nat
    BY ReqsAssumption, FS_CardinalityType
  <2>5. UNCHANGED <<round, read, grading, composing>>
    BY DEF BodyRead, record
  <2> SUFFICES ASSUME round.surface = "panes", grading # "no"
               PROVE  TrailOwed'
    BY <2>5 DEF TrailOwed
  <2>6. (Len(trace') - Len(read')) + Cardinality(Waiting')
          + (IF composing' THEN 1 ELSE 0) <= Cardinality(Reqs) + 1
    BY <2>2, <2>3, <2>4, <2>5 DEF Inv, TrailOwed
  <2>7. ASSUME NEW i \in (Len(read) + 1)..Len(trace'),
               trace'[i] \in Runs \cup {"reply"}
        PROVE  i \in (Len(read) + 1)..Len(trace) /\ trace'[i] = trace[i]
    BY <2>3, <2>7, <1>1
  <2>8. \A i \in (Len(read) + 1)..Len(trace') :
          /\ trace'[i] \notin Runs
          /\ trace'[i] = "reply" =>
               /\ ~ composing
               /\ \A j \in (Len(read) + 1)..Len(trace') : trace'[j] = "reply" => j = i
    BY <2>7, Zenon DEF Inv, TrailOwed
  <2> QED
    BY <2>5, <2>6, <2>8 DEF TrailOwed
<1> QED
  BY <1>2, <1>3, <1>4, <1>5 DEF Inv

\* The editor's socket exists in no panes round.
LEMMA EditorEventKeeps ==
  ASSUME Inv, NEW kind \in Kinds, EditorEvent(kind)
  PROVE  Inv'
<1>1. kind \in Kinds \ (Endings \cup SubmitRuns)
  BY DEF EditorEvent, Kinds, Endings, SubmitRuns, Runs
<1>2. trace' \in Seq(Kinds) /\ EndingPlaced' /\ GradedRunPlaced'
  <2>1. /\ Up /\ UNCHANGED <<round, ended, read, grading, solved>>
        /\ trace' = Append(trace, kind)
    BY DEF EditorEvent, record
  <2> QED
    BY <1>1, <2>1, RoomEvent DEF Inv
<1>3. TypeOK'
  BY <1>2, BoundAssumption DEF Inv, TypeOK, EditorEvent, Begin, record, room
<1>4. RecordStaged' /\ MemoryFollowsRecord'
  BY DEF Inv, RecordStaged, MemoryFollowsRecord, NoRecord, EditorEvent, record
<1>5. TrailOwed'
  BY DEF TrailOwed, EditorEvent
<1> QED
  BY <1>2, <1>3, <1>4, <1>5 DEF Inv

\* A run that closes after the end adds nothing.
LEMMA RunClosesKeeps ==
  ASSUME Inv, NEW kind \in Kinds, RunCloses(kind)
  PROVE  Inv'
<1>1. ASSUME trace' \in Seq(Kinds)
      PROVE  TypeOK'
  <2>1. /\ running' \in BOOLEAN
        /\ UNCHANGED <<round, proc, exit, container, ended, started, path, inflight,
                       composing, grading, read, solved, disk, teardown, activities>>
    BY DEF RunCloses, record
  <2> QED
    BY <1>1, <2>1 DEF Inv, TypeOK
<1>2. CASE ended
  <2>1. TypeOK'
    BY <1>1, <1>2 DEF Inv, TypeOK, RunCloses
  <2>2. EndingPlaced' /\ GradedRunPlaced' /\ RecordStaged' /\ MemoryFollowsRecord'
    BY <1>2, QuietKeeps DEF RunCloses, record
  <2>3. TrailOwed'
    BY <1>2, OwedUnchanged DEF RunCloses, record
  <2> QED
    BY <2>1, <2>2, <2>3 DEF Inv
<1>3. CASE ~ ended
  <2>1. kind \in Kinds \ (Endings \cup SubmitRuns)
    BY DEF RunCloses, Kinds, Endings, SubmitRuns, Runs
  <2>2. trace' \in Seq(Kinds) /\ EndingPlaced' /\ GradedRunPlaced'
    <3>1. /\ Up /\ UNCHANGED <<round, ended, read, grading, solved>>
          /\ trace' = Append(trace, kind)
      BY <1>3 DEF RunCloses, record
    <3> QED
      BY <2>1, <3>1, RoomEvent DEF Inv
  <2>3. TypeOK'
    BY <1>1, <2>2
  <2>4. RecordStaged' /\ MemoryFollowsRecord'
    BY DEF Inv, RecordStaged, MemoryFollowsRecord, NoRecord, RunCloses, record
  <2>5. TrailOwed'
    BY <1>3, NotJudgedYet DEF Inv, TrailOwed, RunCloses, record
  <2> QED
    BY <2>2, <2>3, <2>4, <2>5 DEF Inv
<1> QED
  BY <1>2, <1>3

\* A turn that was out speaks once, or not at all.
LEMMA FinishTurnKeeps ==
  ASSUME Inv, NEW spoken \in BOOLEAN, FinishTurn(spoken)
  PROVE  Inv'
<1>1. /\ Len(trace) \in Nat /\ Len(read) \in Nat
      /\ Cardinality(Reqs) \in Nat /\ Cardinality(Waiting) \in Nat
      /\ Waiting' = Waiting
      /\ UNCHANGED <<round, read, grading, ended, solved, proc>>
      /\ Up /\ composing /\ composing' = FALSE
  <2>1. IsFiniteSet(Waiting)
    BY ReqsAssumption, FS_Subset DEF Waiting
  <2> QED
    BY <2>1, ReqsAssumption, FS_CardinalityType
       DEF Inv, TypeOK, Waiting, FinishTurn, record
<1>2. RecordStaged' /\ MemoryFollowsRecord'
  BY DEF Inv, RecordStaged, MemoryFollowsRecord, NoRecord, FinishTurn, record
<1>3a. ASSUME trace' \in Seq(Kinds)
      PROVE  TypeOK'
  <2>1. /\ composing' \in BOOLEAN
        /\ UNCHANGED <<round, proc, exit, container, ended, started, path, inflight,
                       running, grading, read, solved, disk, teardown, activities>>
    BY DEF FinishTurn, record
  <2> QED
    BY <1>3a, <2>1 DEF Inv, TypeOK
<1>3. CASE ~ spoken
  <2>1. trace' = trace
    BY <1>3 DEF FinishTurn
  <2>2. TypeOK'
    BY <2>1, <1>3a DEF Inv, TypeOK
  <2>3. EndingPlaced' /\ GradedRunPlaced'
    BY <2>1, QuietKeeps DEF FinishTurn, record
  <2>4. TrailOwed'
    BY <1>1, <2>1 DEF Inv, TrailOwed
  <2> QED
    BY <1>2, <2>2, <2>3, <2>4 DEF Inv
<1>4. CASE spoken
  <2>1. trace' = Append(trace, "reply")
    BY <1>4 DEF FinishTurn
  <2>2. "reply" \in Kinds \ (Endings \cup SubmitRuns) /\ "reply" \notin Runs
    BY DEF Kinds, Endings, SubmitRuns, Runs
  <2>3. trace' \in Seq(Kinds) /\ EndingPlaced' /\ GradedRunPlaced'
    BY <1>1, <2>1, <2>2, RoomEvent DEF Inv
  <2>4. TypeOK'
    BY <2>3, <1>3a
  <2>5. TrailOwed'
    <3> SUFFICES ASSUME round.surface = "panes", grading # "no"
                 PROVE  TrailOwed'
      BY <1>1 DEF TrailOwed
    <3>1. /\ Len(trace') = Len(trace) + 1 /\ trace'[Len(trace) + 1] = "reply"
          /\ \A i \in 1..Len(trace) : trace'[i] = trace[i]
      BY <2>1 DEF Inv, TypeOK
    <3>2. (Len(trace') - Len(read')) + Cardinality(Waiting')
            + (IF composing' THEN 1 ELSE 0) <= Cardinality(Reqs) + 1
      BY <1>1, <3>1 DEF Inv, TrailOwed
    <3>3. \A i \in (Len(read) + 1)..Len(trace) :
            trace'[i] = trace[i] /\ trace[i] \notin Runs /\ trace[i] # "reply"
      BY <1>1, <3>1 DEF Inv, TrailOwed
    <3>4. \A i \in (Len(read) + 1)..Len(trace') :
            i \in (Len(read) + 1)..Len(trace) \/ i = Len(trace) + 1
      BY <1>1, <3>1
    <3>5. \A i \in (Len(read) + 1)..Len(trace') :
            /\ trace'[i] \notin Runs
            /\ trace'[i] = "reply" => i = Len(trace) + 1
      BY <2>2, <3>1, <3>3, <3>4, Zenon
    <3> QED
      BY <1>1, <3>2, <3>5 DEF TrailOwed
  <2> QED
    BY <1>2, <2>3, <2>4, <2>5 DEF Inv
<1> QED
  BY <1>3, <1>4

---------------------------------------------------------------------------
(* The ends.                                                               *)

\* finalize up to its await.  What is owed after the ending is at most one
\* event for each request and one for the interviewer.
LEMMA FinalizeKeeps ==
  ASSUME Inv, Up, ~ ended, NEW p \in {"end", "wrap", "cap", "reap"},
         NEW parting \in {<<>>, <<"reply">>}, Finalize(p, parting)
  PROVE  Inv'
<1>1. /\ trace' \in Seq(Kinds)
      /\ Len(trace') >= 1 /\ trace'[Len(trace')] = "end"
      /\ Occurs(Endings, trace)' = {Len(trace')}
      /\ Occurs(SubmitRuns, trace)' = IF round.oneShot THEN {Len(trace') - 1} ELSE {}
      /\ round.oneShot => Len(trace') >= 2
  BY FinalizeWrites DEF Inv
<1>2. /\ ended' = TRUE /\ path' = p /\ read' = trace' /\ grading' = "judging"
      /\ UNCHANGED <<round, proc, exit, container, started, inflight, composing,
                     running, solved, disk, teardown, activities>>
  BY DEF Finalize, room
<1>3. grading = "no" /\ Len(trace') \in Nat
  BY <1>1, NotJudgedYet DEF Inv
<1>4. TypeOK'
  BY <1>1, <1>2 DEF Inv, TypeOK
<1>5. EndingPlaced'
  BY <1>1, <1>2, <1>3 DEF EndingPlaced
<1>6. solved = "unknown" /\ disk = NoRecord
  BY <1>3 DEF Inv, GradedRunPlaced, RecordStaged
<1>7. GradedRunPlaced'
  BY <1>1, <1>2, <1>3, <1>6 DEF GradedRunPlaced
<1>8. RecordStaged' /\ MemoryFollowsRecord'
  BY <1>2, <1>6 DEF RecordStaged, MemoryFollowsRecord, NoRecord
<1>9. TrailOwed'
  <2>1. Waiting' = Waiting
    BY <1>2 DEF Waiting
  <2>2. /\ Cardinality(Waiting) <= Cardinality(Reqs)
        /\ Cardinality(Waiting) \in Nat /\ Cardinality(Reqs) \in Nat
    BY ReqsAssumption, FS_Subset, FS_CardinalityType DEF Waiting
  <2> QED
    BY <1>2, <1>3, <2>1, <2>2 DEF TrailOwed
<1> QED
  BY <1>4, <1>5, <1>7, <1>8, <1>9 DEF Inv

\* A discarded round: its ending is written once, and an abandon of a round
\* that has ended writes none.
LEMMA DiscardKeeps ==
  ASSUME Inv, Up, NEW why \in {"reap", "abandon"}, Discard(why)
  PROVE  Inv'
<1>1. /\ ended' = TRUE /\ proc' = "gone" /\ exit' = why /\ container' \in BOOLEAN
      /\ UNCHANGED <<round, started, inflight, composing, running, grading, read,
                     solved, disk, teardown, activities>>
  BY DEF Discard, room, record
<1>2. CASE ended
  <2>1. path' = path /\ trace' = trace /\ ended' = ended
    BY <1>1, <1>2 DEF Discard, Inv, TypeOK
  <2>2. TypeOK'
    BY <1>1, <2>1 DEF Inv, TypeOK
  <2>3. EndingPlaced' /\ GradedRunPlaced' /\ RecordStaged' /\ MemoryFollowsRecord'
    BY <1>1, <2>1, QuietKeeps
  <2>4. TrailOwed'
    BY <1>1, <2>1, OwedUnchanged
  <2> QED
    BY <2>2, <2>3, <2>4 DEF Inv
<1>3. CASE ~ ended
  <2>1. path' = "discard" /\ trace' = Append(trace, "abandoned") /\ grading = "no"
    BY <1>3, NotJudgedYet DEF Discard, Inv
  <2>2. /\ "abandoned" \in Kinds /\ "abandoned" \in Endings
        /\ "abandoned" \notin SubmitRuns
    BY DEF Kinds, Endings, SubmitRuns
  <2>3. /\ trace' \in Seq(Kinds) /\ Len(trace) \in Nat
        /\ Len(trace') = Len(trace) + 1 /\ trace'[Len(trace) + 1] = "abandoned"
    BY <2>1, <2>2 DEF Inv, TypeOK
  <2>4. /\ Occurs(Endings, trace)' = {Len(trace) + 1}
        /\ Occurs(SubmitRuns, trace)' = {}
    <3>1. Occurs(Endings, trace) = {} /\ Occurs(SubmitRuns, trace) = {}
      BY <1>3, <2>1 DEF Inv, EndingPlaced, GradedRunPlaced
    <3>2. /\ Occurs(Endings, Append(trace, "abandoned")) = {Len(trace) + 1}
          /\ Occurs(SubmitRuns, Append(trace, "abandoned")) = {}
      BY <2>2, <3>1, OccursAppend DEF Inv, TypeOK
    <3> QED
      BY <2>1, <3>2 DEF Occurs
  <2>5. TypeOK'
    BY <1>1, <2>1, <2>3 DEF Inv, TypeOK
  <2>6. EndingPlaced'
    <3>1. Len(trace) + 1 \in 1..Len(trace')
      BY <2>3
    <3> QED
      BY <1>1, <2>1, <2>3, <2>4, <3>1 DEF EndingPlaced
  <2>7. GradedRunPlaced'
    BY <1>1, <2>1, <2>4 DEF Inv, GradedRunPlaced
  <2>8. RecordStaged' /\ MemoryFollowsRecord'
    BY <1>1 DEF Inv, RecordStaged, MemoryFollowsRecord, NoRecord
  <2>9. TrailOwed'
    BY <1>1, <2>1 DEF TrailOwed
  <2> QED
    BY <2>5, <2>6, <2>7, <2>8, <2>9 DEF Inv
<1> QED
  BY <1>2, <1>3

---------------------------------------------------------------------------
(* After the judge.                                                        *)

\* What finalize's writes leave when nothing was there.
LEMMA PersistedRecord ==
  ASSUME TypeOK, disk = NoRecord,
         NEW status \in {"assessed", "unassessed"}, NEW n \in 0..3
  PROVE  /\ Persisted(status, n) \in [assessment : {"none", "assessed", "unassessed"},
                                      deposits : Nat, feedback : BOOLEAN]
         /\ round.sample => Persisted(status, n) = NoRecord
         /\ ~ round.sample =>
              Persisted(status, n) =
                [assessment |-> IF n >= 1 THEN status ELSE "none",
                 deposits |-> IF n >= 2 /\ status = "assessed" /\ round.memorable
                              THEN 1 ELSE 0,
                 feedback |-> n >= 3]
<1>1. /\ disk.assessment = "none" /\ disk.deposits = 0 /\ disk.feedback = FALSE
      /\ disk \in [assessment : {"none", "assessed", "unassessed"},
                   deposits : Nat, feedback : BOOLEAN]
  BY DEF NoRecord, TypeOK
<1>2. CASE round.sample
  BY <1>1, <1>2 DEF Persisted
<1>3. CASE ~ round.sample
  <2>1. Persisted(status, n) =
          [assessment |-> IF n >= 1 THEN status ELSE "none",
           deposits |-> 0 + (IF n >= 2 /\ status = "assessed" /\ round.memorable
                             THEN 1 ELSE 0),
           feedback |-> FALSE \/ n >= 3]
    BY <1>1, <1>3 DEF Persisted
  <2>2. 0 + (IF n >= 2 /\ status = "assessed" /\ round.memorable THEN 1 ELSE 0)
          = IF n >= 2 /\ status = "assessed" /\ round.memorable THEN 1 ELSE 0
    OBVIOUS
  <2>3. (FALSE \/ n >= 3) = (n >= 3) /\ (n >= 3) \in BOOLEAN
    OBVIOUS
  <2> QED
    BY <1>3, <2>1, <2>2, <2>3
<1> QED
  BY <1>2, <1>3

\* Any of its prefixes keeps the candidate's memory behind the record.
LEMMA PersistedFollows ==
  ASSUME TypeOK, disk = NoRecord,
         NEW status \in {"assessed", "unassessed"}, NEW n \in 0..3,
         disk' = Persisted(status, n), round' = round
  PROVE  MemoryFollowsRecord'
<1>1. CASE round.sample
  <2>1. disk' = NoRecord
    BY <1>1, PersistedRecord
  <2> QED
    BY <1>1, <2>1 DEF MemoryFollowsRecord, NoRecord
<1>2. CASE ~ round.sample
  <2>1. /\ disk'.assessment = IF n >= 1 THEN status ELSE "none"
        /\ disk'.deposits = IF n >= 2 /\ status = "assessed" /\ round.memorable
                            THEN 1 ELSE 0
        /\ disk'.feedback = (n >= 3)
    BY <1>2, PersistedRecord
  <2>2. disk'.feedback => n = 3
    <3>1. n # 3 => (n >= 3) = FALSE
      OBVIOUS
    <3> QED
      BY <2>1, <3>1, Zenon
  <2>3. disk'.deposits \in {0, 1} /\ (disk'.deposits = 1 => disk'.assessment = "assessed")
    BY <2>1
  <2>4. n = 3 => /\ disk'.assessment # "none"
                 /\ (disk'.assessment = "assessed" /\ round.memorable) <=> disk'.deposits = 1
    BY <2>1
  <2> QED
    BY <1>2, <2>2, <2>3, <2>4 DEF MemoryFollowsRecord
<1> QED
  BY <1>1, <1>2

\* The recorded verdict is the graded run's: the trace may have grown since
\* the judge read it, but holds no other graded run.
LEMMA VerdictIsGradedRun ==
  ASSUME Inv, round.oneShot, grading # "no"
  PROVE  RunSolved(trace) =
           IF read[Len(read) - 1] \in {"pass", "submit_pass"} THEN "yes" ELSE "no"
<1>1. /\ Occurs(SubmitRuns, trace) = {Len(read) - 1}
      /\ Len(read) >= 2 /\ Len(read) \in Nat
      /\ read[Len(read) - 1] = trace[Len(read) - 1]
  BY DEF Inv, TypeOK, GradedRunPlaced, EndingPlaced
<1>2. LastOf(SubmitRuns, trace) = trace[Len(read) - 1]
  <2>1. (CHOOSE i \in Occurs(SubmitRuns, trace) : \A j \in Occurs(SubmitRuns, trace) : j <= i)
          = Len(read) - 1
    <3>1. Len(read) - 1 <= Len(read) - 1
      BY <1>1
    <3> QED
      BY <1>1, <3>1, Zenon
  <2> QED
    BY <2>1 DEF LastOf
<1> QED
  BY <1>1, <1>2 DEF RunSolved

\* finalize settles: whoever ended the round, the trace and what was read of
\* it stay.
LEMMA SettleKeepsTrace ==
  ASSUME Inv, grading # "no", grading' # "no", UNCHANGED <<round, trace, ended, read>>
  PROVE  EndingPlaced' /\ Occurs(SubmitRuns, trace)' = Occurs(SubmitRuns, trace)
<1>1. /\ Occurs(Endings, trace)' = Occurs(Endings, trace)
      /\ Occurs(SubmitRuns, trace)' = Occurs(SubmitRuns, trace)
  BY DEF Occurs
<1> QED
  BY <1>1 DEF Inv, EndingPlaced

\* The settled callers change what they change within its type.
LEMMA SettleType ==
  ASSUME TypeOK, NEW ok \in BOOLEAN, Settle(ok)
  PROVE  /\ grading' \in {"done", "failed"} /\ teardown' \in BOOLEAN
         /\ container' \in BOOLEAN /\ proc' \in {"up", "gone"}
         /\ exit' \in {"none", "shutdown", "abandon", "reap", "signal", "kill"}
<1>1. teardown' \in BOOLEAN /\ container' \in BOOLEAN
  BY DEF Settle
<1>2. /\ grading' \in {"done", "failed"}
      /\ proc' \in {"up", "gone"}
      /\ exit' \in {"none", "shutdown", "abandon", "reap", "signal", "kill"}
  BY DEF Settle, TypeOK
<1> QED
  BY <1>1, <1>2

\* The judge answers: the record begins, complete or waiting for an import.
LEMMA JudgeAnswersKeeps ==
  ASSUME Inv, NEW status \in {"assessed", "unassessed"}, JudgeAnswers(status)
  PROVE  Inv'
<1>1. /\ Up /\ grading = "judging" /\ ended /\ disk = NoRecord /\ TypeOK
      /\ UNCHANGED <<round, ended, started, path, trace, inflight, composing, running,
                     read, activities>>
      /\ solved' = IF status = "assessed" THEN RunSolved(trace) ELSE solved
  BY DEF Inv, TypeOK, EndingPlaced, RecordStaged, JudgeAnswers, Up, room
<1>2. /\ solved = "unknown"
      /\ RunSolved(trace) \in {"unknown", "yes", "no"}
      /\ solved' \in {"unknown", "yes", "no"}
  <2>1. solved = "unknown"
    BY <1>1 DEF Inv, GradedRunPlaced
  <2>2. RunSolved(trace) \in {"unknown", "yes", "no"}
    BY DEF RunSolved
  <2> QED
    BY <1>1, <2>1, <2>2
<1>3. /\ grading' \in {"importing", "done"} /\ teardown' \in BOOLEAN
      /\ container' \in BOOLEAN /\ proc' \in {"up", "gone"}
      /\ exit' \in {"none", "shutdown", "abandon", "reap", "signal", "kill"}
      /\ \E n \in {2, 3} : disk' = Persisted(status, n)
  <2>1. CASE AwaitsImport(status)
    BY <1>1, <2>1 DEF JudgeAnswers, TypeOK
  <2>2. CASE ~ AwaitsImport(status)
    <3>1. Settle(TRUE) /\ disk' = Persisted(status, 3)
      BY <2>2 DEF JudgeAnswers
    <3>2. grading' = "done"
      BY <3>1 DEF Settle
    <3> QED
      BY <1>1, <3>1, <3>2, SettleType
  <2> QED
    BY <2>1, <2>2
<1>4. PICK n \in {2, 3} : disk' = Persisted(status, n)
  BY <1>3
<1>5. TypeOK'
  <2>1. disk' \in [assessment : {"none", "assessed", "unassessed"},
                   deposits : Nat, feedback : BOOLEAN]
    BY <1>1, <1>4, PersistedRecord
  <2> QED
    BY <1>1, <1>2, <1>3, <2>1 DEF TypeOK
<1>6. EndingPlaced' /\ Occurs(SubmitRuns, trace)' = Occurs(SubmitRuns, trace)
  BY <1>1, <1>3, SettleKeepsTrace
<1>7. GradedRunPlaced'
  <2>1. ASSUME round.oneShot, solved' # "unknown"
        PROVE  (solved' = "yes") = (read[Len(read) - 1] = "submit_pass")
    <3>1. solved' = IF read[Len(read) - 1] \in {"pass", "submit_pass"} THEN "yes" ELSE "no"
      BY <1>1, <1>2, <2>1, VerdictIsGradedRun
    <3>2. read[Len(read) - 1] \in SubmitRuns
      <4>1. Occurs(SubmitRuns, trace) = {Len(read) - 1} /\ Len(read) >= 2 /\ Len(read) \in Nat
        BY <1>1, <2>1 DEF Inv, TypeOK, GradedRunPlaced
      <4>2. trace[Len(read) - 1] \in SubmitRuns
        BY <4>1 DEF Occurs
      <4>3. read[Len(read) - 1] = trace[Len(read) - 1]
        BY <1>1, <4>1 DEF Inv, EndingPlaced
      <4> QED
        BY <4>2, <4>3
    <3> QED
      BY <3>1, <3>2 DEF SubmitRuns
  <2>2. grading' \notin {"no", "judging"}
    BY <1>3
  <2> QED
    BY <1>1, <1>6, <2>1, <2>2 DEF Inv, GradedRunPlaced
<1>8. MemoryFollowsRecord'
  BY <1>1, <1>4, PersistedFollows
<1>9. RecordStaged'
  <2>1. ASSUME grading' = "importing"
        PROVE  /\ ~ round.sample /\ round.memorable
               /\ disk' = [assessment |-> "assessed", deposits |-> 1, feedback |-> FALSE]
    <3>1. AwaitsImport(status)
      BY <2>1 DEF JudgeAnswers, Settle
    <3>2. disk' = Persisted(status, 2) /\ status = "assessed" /\ ~ round.sample /\ round.memorable
      BY <3>1 DEF JudgeAnswers, AwaitsImport
    <3>3. Persisted("assessed", 2) =
            [assessment |-> IF 2 >= 1 THEN "assessed" ELSE "none",
             deposits |-> IF 2 >= 2 /\ "assessed" = "assessed" /\ round.memorable
                          THEN 1 ELSE 0,
             feedback |-> 2 >= 3]
      BY <1>1, <3>2, PersistedRecord
    <3>4. 2 >= 1 /\ 2 >= 2 /\ (2 >= 3) = FALSE
      OBVIOUS
    <3> QED
      BY <3>2, <3>3, <3>4
  <2> QED
    BY <1>1, <1>3, <2>1 DEF RecordStaged
<1>10. TrailOwed'
  BY <1>1, OwedUnchanged
<1> QED
  BY <1>5, <1>6, <1>7, <1>8, <1>9, <1>10 DEF Inv

\* The import has completed: the card is written over a complete record.
LEMMA TopicsImportedKeeps == ASSUME Inv, TopicsImported PROVE Inv'
<1>1. /\ grading = "importing" /\ Settle(TRUE) /\ TypeOK
      /\ disk' = [disk EXCEPT !.feedback = TRUE]
      /\ ~ round.sample /\ round.memorable
      /\ disk = [assessment |-> "assessed", deposits |-> 1, feedback |-> FALSE]
      /\ UNCHANGED <<round, ended, started, path, trace, inflight, composing, running,
                     read, solved, activities>>
  BY DEF Inv, TopicsImported, RecordStaged, room
<1>2. disk' = [assessment |-> "assessed", deposits |-> 1, feedback |-> TRUE]
  BY <1>1
<1>3. /\ grading' = "done" /\ teardown' \in BOOLEAN
      /\ container' \in BOOLEAN /\ proc' \in {"up", "gone"}
      /\ exit' \in {"none", "shutdown", "abandon", "reap", "signal", "kill"}
  <2>1. grading' = "done"
    BY <1>1 DEF Settle
  <2> QED
    BY <1>1, <2>1, SettleType
<1>4. TypeOK'
  BY <1>1, <1>2, <1>3 DEF TypeOK
<1>5. EndingPlaced' /\ Occurs(SubmitRuns, trace)' = Occurs(SubmitRuns, trace)
  BY <1>1, <1>3, SettleKeepsTrace
<1>6. GradedRunPlaced'
  BY <1>1, <1>3, <1>5 DEF Inv, GradedRunPlaced
<1>7. RecordStaged' /\ MemoryFollowsRecord'
  BY <1>1, <1>2, <1>3 DEF RecordStaged, MemoryFollowsRecord
<1>8. TrailOwed'
  BY <1>1, OwedUnchanged
<1> QED
  BY <1>4, <1>5, <1>6, <1>7, <1>8 DEF Inv

\* finalize rejects between any two of its writes: there is no card.
LEMMA FinalizeFailsKeeps == ASSUME Inv, FinalizeFails PROVE Inv'
<1>1. /\ Up /\ grading \in {"judging", "importing"} /\ Settle(FALSE) /\ TypeOK
      /\ UNCHANGED <<round, ended, started, path, trace, inflight, composing, running,
                     read, solved, activities>>
  BY DEF Inv, FinalizeFails, room
<1>2. /\ grading' = "failed" /\ teardown' \in BOOLEAN
      /\ container' \in BOOLEAN /\ proc' \in {"up", "gone"}
      /\ exit' \in {"none", "shutdown", "abandon", "reap", "signal", "kill"}
  <2>1. grading' = "failed"
    BY <1>1 DEF Settle
  <2> QED
    BY <1>1, <2>1, SettleType
<1>3. /\ disk' \in [assessment : {"none", "assessed", "unassessed"},
                    deposits : Nat, feedback : BOOLEAN]
      /\ MemoryFollowsRecord'
  <2>1. CASE grading = "importing"
    <3>1. disk' = disk
      BY <2>1 DEF FinalizeFails
    <3> QED
      BY <1>1, <3>1 DEF Inv, TypeOK, MemoryFollowsRecord, NoRecord
  <2>2. CASE grading = "judging"
    <3>1. PICK status \in {"assessed", "unassessed"}, n \in 0..2 : disk' = Persisted(status, n)
      BY <2>2 DEF FinalizeFails
    <3>2. disk = NoRecord /\ n \in 0..3
      BY <1>1, <2>2 DEF Inv, RecordStaged, Up
    <3> QED
      BY <1>1, <3>1, <3>2, PersistedRecord, PersistedFollows
  <2> QED
    BY <1>1, <2>1, <2>2
<1>4. TypeOK'
  BY <1>1, <1>2, <1>3 DEF TypeOK
<1>5. EndingPlaced' /\ Occurs(SubmitRuns, trace)' = Occurs(SubmitRuns, trace)
  BY <1>1, <1>2, SettleKeepsTrace
<1>6. GradedRunPlaced'
  BY <1>1, <1>2, <1>5 DEF Inv, GradedRunPlaced
<1>7. RecordStaged'
  BY <1>2 DEF RecordStaged
<1>8. TrailOwed'
  BY <1>1, OwedUnchanged
<1> QED
  BY <1>3, <1>4, <1>5, <1>6, <1>7, <1>8 DEF Inv

\* The process dies, maybe between two of finalize's writes.
LEMMA KillKeeps == ASSUME Inv, Kill PROVE Inv'
<1>1. /\ Up /\ proc' = "gone" /\ exit' = "kill" /\ container' \in BOOLEAN /\ TypeOK
      /\ UNCHANGED <<round, ended, started, path, trace, inflight, composing, running,
                     read, grading, solved, teardown, activities>>
  BY DEF Inv, Kill, Exit, room
<1>2. /\ disk' \in [assessment : {"none", "assessed", "unassessed"},
                    deposits : Nat, feedback : BOOLEAN]
      /\ MemoryFollowsRecord'
      /\ disk' = disk \/ grading = "judging"
  <2>1. CASE disk' = disk
    BY <1>1, <2>1 DEF Inv, TypeOK, MemoryFollowsRecord, NoRecord
  <2>2. CASE disk' # disk
    <3>1. PICK status \in {"assessed", "unassessed"}, n \in 1..2 :
            grading = "judging" /\ disk' = Persisted(status, n)
      BY <2>2 DEF Kill
    <3>2. disk = NoRecord /\ n \in 0..3
      BY <1>1, <3>1 DEF Inv, RecordStaged, Up
    <3> QED
      BY <1>1, <3>1, <3>2, PersistedRecord, PersistedFollows
  <2> QED
    BY <2>1, <2>2
<1>3. TypeOK'
  BY <1>1, <1>2 DEF TypeOK
<1>4. EndingPlaced' /\ GradedRunPlaced'
  <2>1. /\ Occurs(Endings, trace)' = Occurs(Endings, trace)
        /\ Occurs(SubmitRuns, trace)' = Occurs(SubmitRuns, trace)
    BY <1>1 DEF Occurs
  <2>2. EndingPlaced'
    BY <1>1, <2>1 DEF Inv, EndingPlaced
  <2> QED
    BY <1>1, <2>1, <2>2 DEF Inv, GradedRunPlaced
<1>5. RecordStaged'
  BY <1>1, <1>2 DEF Inv, RecordStaged
<1>6. TrailOwed'
  BY <1>1, OwedUnchanged
<1> QED
  BY <1>2, <1>3, <1>4, <1>5, <1>6 DEF Inv

---------------------------------------------------------------------------
(* The theorems.                                                           *)

\* No step of the server, a signal or a crash breaks the invariant.
LEMMA StepKeeps == Inv /\ [Next]_vars => Inv'
<1> SUFFICES ASSUME Inv, [Next]_vars PROVE Inv'
  OBVIOUS
<1>1. CASE Arrive
  BY <1>1, ArriveKeeps
<1>2. CASE \E r \in Reqs : BodyRead(r) \/ \E kind \in Kinds : Request(r, kind)
  BY <1>2, BodyReadKeeps, RequestKeeps
<1>3. CASE \E kind \in Kinds : EditorEvent(kind)
  BY <1>3, EditorEventKeeps
<1>4. CASE \E kind \in Kinds : RunCloses(kind)
  BY <1>4, RunClosesKeeps
<1>5. CASE StartRun
  BY <1>5, StartRunKeeps
<1>6. CASE StartTurn
  BY <1>6, StartTurnKeeps
<1>7. CASE \E spoken \in BOOLEAN : FinishTurn(spoken)
  BY <1>7, FinishTurnKeeps
<1>8. CASE PressEnd \/ WrapUp \/ TimeCap \/ Reap
  <2>1. PICK p \in {"end", "wrap", "cap", "reap"}, parting \in {<<>>, <<"reply">>} :
          Up /\ ~ ended /\ Finalize(p, parting)
    BY <1>8 DEF PressEnd, WrapUp, TimeCap, Reap
  <2> QED
    BY <2>1, FinalizeKeeps
<1>9. CASE ReapDiscard \/ Abandon
  <2>1. PICK why \in {"reap", "abandon"} : Up /\ Discard(why)
    BY <1>9 DEF ReapDiscard, Abandon
  <2> QED
    BY <2>1, DiscardKeeps
<1>10. CASE \E status \in {"assessed", "unassessed"} : JudgeAnswers(status)
  BY <1>10, JudgeAnswersKeeps
<1>11. CASE TopicsImported
  BY <1>11, TopicsImportedKeeps
<1>12. CASE FinalizeFails
  BY <1>12, FinalizeFailsKeeps
<1>13. CASE TearDown
  BY <1>13, TearDownKeeps
<1>14. CASE Shutdown \/ Signal
  BY <1>14, StopKeeps
<1>15. CASE Kill
  BY <1>15, KillKeeps
<1>16. CASE UNCHANGED vars
  <2>1. UNCHANGED <<round, proc, exit, container, ended, started, path, trace, inflight,
                    composing, running, grading, read, solved, disk, teardown, activities>>
    BY <1>16 DEF vars
  <2>2. TypeOK'
    BY <2>1 DEF Inv, TypeOK
  <2> QED
    BY <2>1, <2>2, QuietKeeps, OwedUnchanged DEF Inv
<1> QED
  BY <1>1, <1>2, <1>3, <1>4, <1>5, <1>6, <1>7, <1>8, <1>9, <1>10, <1>11, <1>12,
     <1>13, <1>14, <1>15, <1>16 DEF Next

\* A round's server starts with nothing said and nothing recorded.
LEMMA InitHolds == Init => Inv
<1> SUFFICES ASSUME Init PROVE Inv
  OBVIOUS
<1>1. /\ trace = <<>> /\ Occurs(Endings, trace) = {} /\ Occurs(SubmitRuns, trace) = {}
      /\ <<>> \in Seq(Kinds)
  BY DEF Init, Occurs
<1>2. TypeOK
  <2>1. inflight \in [Reqs -> {"none", "edit", "utterance"}]
    BY DEF Init
  <2>2. disk \in [assessment : {"none", "assessed", "unassessed"},
                 deposits : Nat, feedback : BOOLEAN]
    BY DEF Init, NoRecord
  <2>3. /\ container \in BOOLEAN /\ ended \in BOOLEAN /\ started \in BOOLEAN
        /\ composing \in BOOLEAN /\ running \in BOOLEAN /\ teardown \in BOOLEAN
    BY DEF Init
  <2> QED
    BY <1>1, <2>1, <2>2, <2>3, BoundAssumption DEF Init, TypeOK
<1>3. EndingPlaced /\ GradedRunPlaced
  BY <1>1 DEF Init, EndingPlaced, GradedRunPlaced
<1>4. RecordStaged /\ MemoryFollowsRecord
  BY DEF Init, RecordStaged, MemoryFollowsRecord, NoRecord
<1>5. TrailOwed
  BY DEF Init, TrailOwed
<1> QED
  BY <1>2, <1>3, <1>4, <1>5 DEF Inv

\* The invariant holds of every reachable state of a round.
THEOREM RoundInvariant == Spec => []Inv
<1>1. Init => Inv
  BY InitHolds
<1>2. Inv /\ [Next]_vars => Inv'
  BY StepKeeps
<1> QED
  BY <1>1, <1>2, PTL DEF Spec

\* Every variable of the session server keeps to its type.
THEOREM TypeCorrect == Spec => []TypeOK
<1>1. Inv => TypeOK
  BY DEF Inv
<1> QED
  BY <1>1, RoundInvariant, PTL

\* At most one place of a trace means a count of one at most.
LEMMA AtMostOne ==
  ASSUME NEW S, NEW x, S \subseteq {x}
  PROVE  Cardinality(S) <= 1 /\ Cardinality(S) \in Nat
<1>1. S = {} \/ S = {x}
  OBVIOUS
<1> QED
  BY <1>1, FS_EmptySet, FS_Singleton

\* A round ends once, whoever raced to end it: one session_end, judged and
\* recorded, or one discarding, neither judged nor recorded (the ended flag
\* every path of ending sets before it awaits anything).
THEOREM EndsOnce == Spec => []OneEnding
<1>1. Inv => OneEnding
  <2> SUFFICES ASSUME Inv PROVE OneEnding
    OBVIOUS
  <2>1. /\ trace \in Seq(Kinds) /\ read \in Seq(Kinds)
        /\ Len(trace) \in Nat /\ Len(read) \in Nat
    BY DEF Inv, TypeOK
  <2>2. CASE ~ ended
    <3>1. Occurs(Endings, trace) = {} /\ grading = "no" /\ disk = NoRecord
      BY <2>2 DEF Inv, EndingPlaced, RecordStaged
    <3>2. Occurs({"end"}, trace) = {}
      BY <3>1 DEF Occurs, Endings
    <3> QED
      BY <2>2, <3>1, <3>2, AtMostOne DEF OneEnding
  <2>3. CASE ended /\ grading = "no"
    <3>1. PICK k \in 1..Len(trace) : Occurs(Endings, trace) = {k} /\ trace[k] = "abandoned"
      BY <2>3 DEF Inv, EndingPlaced
    <3>2. Occurs({"end"}, trace) = {}
      <4>1. Occurs({"end"}, trace) \subseteq {k}
        BY <3>1 DEF Occurs, Endings
      <4> QED
        BY <3>1, <4>1 DEF Occurs
    <3>3. disk = NoRecord
      BY <2>3 DEF Inv, RecordStaged
    <3> QED
      BY <2>3, <3>1, <3>2, <3>3, AtMostOne DEF OneEnding
  <2>4. CASE grading # "no"
    <3>1. /\ ended /\ Len(read) >= 1 /\ Len(read) <= Len(trace)
          /\ \A i \in 1..Len(read) : read[i] = trace[i]
          /\ Occurs(Endings, trace) = {Len(read)} /\ read[Len(read)] = "end"
      BY <2>4 DEF Inv, EndingPlaced
    <3>2. Occurs({"end"}, trace) # {}
      <4>1. Len(read) \in 1..Len(trace) /\ trace[Len(read)] = "end"
        BY <2>1, <3>1
      <4> QED
        BY <4>1 DEF Occurs
    <3>3. Last(read) = "end"
      BY <3>1 DEF Last
    <3>4. IsPrefix(read, trace)
      <4>1. SubSeq(read, 1, Len(read)) = SubSeq(trace, 1, Len(read))
        <5>1. \A i \in 1..Len(read) : i \in 1..Len(trace)
          BY <2>1, <3>1
        <5> QED
          BY <2>1, <3>1, <5>1
      <4> QED
        BY <3>1, <4>1 DEF IsPrefix
    <3> QED
      BY <2>4, <3>1, <3>2, <3>3, <3>4, AtMostOne DEF OneEnding
  <2> QED
    BY <2>2, <2>3, <2>4
<1> QED
  BY <1>1, RoundInvariant, PTL

\* On a one-shot round the recorded verdict is that of the one graded run,
\* whatever reached the trace while the judge was thinking.
THEOREM GradedRunDecides == Spec => []OneShotVerdictStands
<1>1. Inv => OneShotVerdictStands
  BY DEF Inv, GradedRunPlaced, OneShotVerdictStands
<1> QED
  BY <1>1, RoundInvariant, PTL

\* One deposit at most, only for a round assessed on disk, and a card only
\* over a complete record, through failed writes and crashes.
THEOREM MemoryBehindRecord == Spec => []MemoryFollowsRecord
<1>1. Inv => MemoryFollowsRecord
  BY DEF Inv
<1> QED
  BY <1>1, RoundInvariant, PTL

\* What follows session_end in a panes round was under way before it, however
\* many requests there are: nothing begun after the end reaches the trace.
THEOREM TrailIsInFlight == Spec => []OnlyInFlightTrails
<1>1. Inv => OnlyInFlightTrails
  <2> SUFFICES ASSUME Inv, round.surface = "panes", grading # "no"
               PROVE  /\ Len(Trail) <= Cardinality(Reqs) + 1
                      /\ Cardinality(Occurs({"reply"}, Trail)) <= 1
                      /\ Occurs(Runs \cup SubmitRuns, Trail) = {}
    BY DEF OnlyInFlightTrails
  <2> DEFINE n == Len(read)
  <2>1. /\ trace \in Seq(Kinds) /\ Len(trace) \in Nat /\ n \in Nat /\ n <= Len(trace)
        /\ Cardinality(Reqs) \in Nat /\ Cardinality(Waiting) \in Nat
    <3>1. IsFiniteSet(Waiting)
      BY ReqsAssumption, FS_Subset DEF Waiting
    <3> QED
      BY <3>1, ReqsAssumption, FS_CardinalityType DEF Inv, TypeOK, EndingPlaced
  <2>2. /\ Len(Trail) = Len(trace) - n
        /\ \A i \in 1..Len(Trail) : /\ Trail[i] = trace[n + i]
                                    /\ n + i \in (n + 1)..Len(trace)
    <3>1. Trail = SubSeq(trace, n + 1, Len(trace))
      BY DEF Trail
    <3> QED
      BY <2>1, <3>1
  <2>3. \A i \in (n + 1)..Len(trace) :
          /\ trace[i] \notin Runs
          /\ trace[i] = "reply" =>
               \A j \in (n + 1)..Len(trace) : trace[j] = "reply" => j = i
    BY DEF Inv, TrailOwed
  <2>4. Len(Trail) <= Cardinality(Reqs) + 1
    <3>1. (Len(trace) - n) + Cardinality(Waiting) + (IF composing THEN 1 ELSE 0)
            <= Cardinality(Reqs) + 1
      BY DEF Inv, TrailOwed
    <3> QED
      BY <2>1, <2>2, <3>1
  <2>5. Cardinality(Occurs({"reply"}, Trail)) <= 1
    <3>1. \A i, j \in Occurs({"reply"}, Trail) : i = j
      <4> SUFFICES ASSUME NEW i \in Occurs({"reply"}, Trail),
                          NEW j \in Occurs({"reply"}, Trail)
                   PROVE  i = j
        OBVIOUS
      <4>1. /\ i \in 1..Len(Trail) /\ j \in 1..Len(Trail)
            /\ trace[n + i] = "reply" /\ trace[n + j] = "reply"
            /\ n + i \in (n + 1)..Len(trace) /\ n + j \in (n + 1)..Len(trace)
        BY <2>2 DEF Occurs
      <4>2. n + j = n + i
        BY <2>3, <4>1
      <4> QED
        BY <2>1, <2>2, <4>1, <4>2
    <3>2. \E x : Occurs({"reply"}, Trail) \subseteq {x}
      BY <3>1
    <3> QED
      BY <3>2, AtMostOne
  <2>6. Occurs(Runs \cup SubmitRuns, Trail) = {}
    <3> SUFFICES ASSUME NEW i \in 1..Len(Trail), Trail[i] \in Runs \cup SubmitRuns
                 PROVE  FALSE
      BY DEF Occurs
    <3>1. n + i \in (n + 1)..Len(trace) /\ Trail[i] = trace[n + i]
      BY <2>2
    <3>2. trace[n + i] \in SubmitRuns
      BY <2>3, <3>1
    <3>3. n + i \in Occurs(SubmitRuns, trace)
      BY <2>1, <3>1, <3>2 DEF Occurs
    <3>4. n + i = n - 1
      BY <3>3 DEF Inv, GradedRunPlaced
    <3> QED
      BY <2>1, <2>2, <3>4
  <2> QED
    BY <2>4, <2>5, <2>6
<1> QED
  BY <1>1, RoundInvariant, PTL
=============================================================================
