---------------------------- MODULE SessionRound ----------------------------
(***************************************************************************)
(* The life of one interview round in the session server                   *)
(* (server/src/session.ts, runSession): how it ends, is judged, is         *)
(* recorded, and lets go of its container and its process.                 *)
(*                                                                         *)
(* The server is one Node process, so a step of this module is the code    *)
(* between two awaits.  Five ways of ending race each other, the requests  *)
(* and the interviewer's turn that were under way, the app's reap and      *)
(* signals:                                                                *)
(*   /api/end, the answered-out wrap-up, the time cap and the reaper, which *)
(*   all run finalize(); /api/abandon and the reaper of a round that never *)
(*   got going, which discard it.                                          *)
(* Timers are left out: each may fire whenever its other guards hold.      *)
(*                                                                         *)
(* TraceStore.readAll returns the store's own array, so what finalize      *)
(* reads after awaiting the judge is the trace of that later moment.       *)
(***************************************************************************)
EXTENDS Naturals, Sequences, SequencesExt, FiniteSets

CONSTANTS
  Rounds,         \* the shapes of round to consider
  Reqs,           \* identities of requests whose body is still being read
  MaxActivities   \* bound on things begun by the candidate or interviewer

RoundShape ==
  [oneShot : BOOLEAN,    \* caps.submit = 'one_shot' and caps.can_run_tests
   runs : BOOLEAN,       \* caps.can_run_tests
   timed : BOOLEAN,      \* caps.time_limit_ms is set
   talk : BOOLEAN,       \* the round has an interviewer
   surface : {"ide", "panes"},
   sample : BOOLEAN,     \* cfg.sample: the round records nothing
   memorable : BOOLEAN,  \* isMemorableSessionId(cfg.sessionId)
   topics : BOOLEAN]     \* a plan round with topics_exercised

ASSUME RoundsAssumption ==
  Rounds \subseteq {shape \in RoundShape : shape.oneShot => shape.runs}
ASSUME ReqsAssumption == IsFiniteSet(Reqs)
ASSUME BoundAssumption == MaxActivities \in Nat

VARIABLES
  round,       \* this round's shape
  proc,        \* "up" until process.exit
  exit,        \* what took the process down
  container,   \* the IDE container runs
  ended,       \* the ended flag, which /api/status shows
  started,     \* sessionStartedAt is set
  path,        \* which finalize caller won
  trace,       \* TraceStore.cache, as event kinds
  inflight,    \* what each request will append once its body is here
  composing,   \* interviewerBusy: a model call is out
  running,     \* paneRunning: a suite run is out
  grading,     \* how far finalize is
  read,        \* the events rendered into the judge's prompt
  solved,      \* what runSolvedFromTrace told the verdict
  disk,        \* the three records finalize leaves
  teardown,    \* a setImmediate(teardownContainer) is due
  activities   \* things begun so far

room == <<inflight, composing, running>>
record == <<grading, read, solved, disk>>
vars == <<round, proc, exit, container, ended, started, path, trace, inflight,
          composing, running, grading, read, solved, disk, teardown, activities>>

Runs == {"pass", "fail"}
SubmitRuns == {"submit_pass", "submit_fail"}
Endings == {"end", "abandoned"}
Kinds == {"edit", "utterance", "reply"} \cup Runs \cup SubmitRuns \cup Endings
NoRecord == [assessment |-> "none", deposits |-> 0, feedback |-> FALSE]

TypeOK ==
  /\ round \in Rounds
  /\ proc \in {"up", "gone"}
  /\ exit \in {"none", "shutdown", "abandon", "reap", "signal", "kill"}
  /\ container \in BOOLEAN /\ ended \in BOOLEAN /\ started \in BOOLEAN
  /\ path \in {"none", "end", "wrap", "cap", "reap", "discard"}
  /\ trace \in Seq(Kinds)
  /\ inflight \in [Reqs -> {"none", "edit", "utterance"}]
  /\ composing \in BOOLEAN /\ running \in BOOLEAN
  /\ grading \in {"no", "judging", "importing", "done", "failed"}
  /\ read \in Seq(Kinds)
  /\ solved \in {"unknown", "yes", "no"}
  /\ disk \in [assessment : {"none", "assessed", "unassessed"},
               deposits : Nat, feedback : BOOLEAN]
  /\ teardown \in BOOLEAN
  /\ activities \in 0..MaxActivities

---------------------------------------------------------------------------
(* Readings of the trace.                                                  *)

Occurs(kinds, s) == {i \in 1..Len(s) : s[i] \in kinds}
LastOf(kinds, s) == s[CHOOSE i \in Occurs(kinds, s) : \A j \in Occurs(kinds, s) : j <= i]

\* hasFailingRun or an edit: the round is under way whatever the clock says.
\* (A round is also under way once the clock passes the floor.)
ShowsWork(s) == Occurs({"edit", "fail"}, s) # {}

\* runSolvedFromTrace: the submit run when there is one, else the last run.
RunSolvedByLastRun(s) ==
  IF Occurs(Runs \cup SubmitRuns, s) = {} THEN "unknown"
  ELSE IF LastOf(Runs \cup SubmitRuns, s) \in {"pass", "submit_pass"} THEN "yes" ELSE "no"
RunSolvedRaw(s) ==
  IF Occurs(Runs \cup SubmitRuns, s) = {} THEN "unknown"
  ELSE LastOf(Runs \cup SubmitRuns, s)
RunSolved(s) ==
  LET graded == Occurs(SubmitRuns, s)
      bar == IF graded # {} THEN SubmitRuns ELSE Runs
  IN  IF Occurs(bar, s) = {} THEN "unknown"
      ELSE IF LastOf(bar, s) \in {"pass", "submit_pass"} THEN "yes" ELSE "no"

---------------------------------------------------------------------------
Init ==
  /\ round \in Rounds
  /\ proc = "up" /\ exit = "none" /\ container = TRUE
  /\ ended = FALSE /\ started = FALSE /\ path = "none"
  /\ trace = <<>>
  /\ inflight = [r \in Reqs |-> "none"]
  /\ composing = FALSE /\ running = FALSE
  /\ grading = "no" /\ read = <<>> /\ solved = "unknown" /\ disk = NoRecord
  /\ teardown = FALSE
  /\ activities = 0

Up == proc = "up"
Begin == activities < MaxActivities /\ activities' = activities + 1

---------------------------------------------------------------------------
(* The room.                                                               *)

\* /session is opened: markCandidateContact.
Arrive ==
  /\ Up /\ ~ started
  /\ started' = TRUE
  /\ UNCHANGED <<round, proc, exit, container, ended, path, trace, room, record,
                 teardown, activities>>

\* /api/utterance and /api/panes-event are refused once the round has ended.
\* That is checked when the headers arrive; the body is awaited after it.
Request(r, kind) ==
  /\ Up /\ ~ ended /\ Begin
  /\ inflight[r] = "none"
  /\ \/ kind = "utterance" /\ round.talk
     \/ kind = "edit" /\ round.surface = "panes"
  /\ inflight' = [inflight EXCEPT ![r] = kind]
  /\ UNCHANGED <<round, proc, exit, container, ended, started, path, trace,
                 composing, running, record, teardown>>

BodyRead(r) ==
  /\ Up
  /\ inflight[r] # "none"
  /\ trace' = Append(trace, inflight[r])
  /\ started' = (started \/ inflight[r] = "edit")
  /\ inflight' = [inflight EXCEPT ![r] = "none"]
  /\ UNCHANGED <<round, proc, exit, container, ended, path, composing, running,
                 record, teardown, activities>>

\* A frame of the editor's /trace socket, ended or not.
EditorEvent(kind) ==
  /\ Up /\ container /\ Begin
  /\ round.surface = "ide"
  /\ kind \in {"edit"} \cup Runs
  /\ trace' = Append(trace, kind)
  /\ started' = TRUE
  /\ UNCHANGED <<round, proc, exit, container, ended, path, room, record, teardown>>

\* /api/run, then its child's close handler.
StartRun ==
  /\ Up /\ ~ ended /\ round.runs /\ ~ running /\ Begin
  /\ running' = TRUE
  /\ started' = TRUE
  /\ UNCHANGED <<round, proc, exit, container, ended, path, trace, inflight,
                 composing, record, teardown>>

RunClosesAnyway(kind) ==
  /\ Up /\ running
  /\ kind \in Runs
  /\ running' = FALSE
  /\ trace' = Append(trace, kind)
  /\ UNCHANGED <<round, proc, exit, container, ended, started, path, inflight,
                 composing, record, teardown, activities>>
RunCloses(kind) ==
  /\ Up /\ running
  /\ kind \in Runs
  /\ running' = FALSE
  /\ trace' = IF ended THEN trace ELSE Append(trace, kind)
  /\ UNCHANGED <<round, proc, exit, container, ended, started, path, inflight,
                 composing, record, teardown, activities>>

\* runInterviewer up to the model call, and from its answer on: the turn is
\* silent, or it is spoken whatever has happened meanwhile.
StartTurn ==
  /\ Up /\ ~ ended /\ ~ composing /\ Begin
  /\ round.talk /\ started
  /\ composing' = TRUE
  /\ UNCHANGED <<round, proc, exit, container, ended, started, path, trace,
                 inflight, running, record, teardown>>

FinishTurn(spoken) ==
  /\ Up /\ composing
  /\ composing' = FALSE
  /\ trace' = IF spoken THEN Append(trace, "reply") ELSE trace
  /\ UNCHANGED <<round, proc, exit, container, ended, started, path, inflight,
                 running, record, teardown, activities>>

---------------------------------------------------------------------------
(* The ends.                                                               *)

\* ended = true and finalize() up to its await: the graded run of a one-shot
\* round, session_end, and the reading the judge's prompt is made of.
Finalize(p, parting) ==
  /\ ended' = TRUE
  /\ path' = p
  /\ \E graded \in IF round.oneShot THEN {<<k>> : k \in SubmitRuns} ELSE {<<>>} :
       trace' = trace \o parting \o graded \o <<"end">>
  /\ read' = trace'
  /\ grading' = "judging"
  /\ UNCHANGED <<round, proc, exit, container, started, room, solved, disk,
                 teardown, activities>>

PressEndTwice == Up /\ Finalize("end", <<>>)
PressEnd == Up /\ ~ ended /\ Finalize("end", <<>>)

\* The closing stood unanswered: the lane says so and ends the round.
WrapUp == Up /\ ~ ended /\ started /\ round.talk /\ ~ composing
          /\ Finalize("wrap", <<"reply">>)

\* The time cap's grace elapsed.
TimeCap == Up /\ ~ ended /\ started /\ round.timed /\ Finalize("cap", <<>>)

\* The reaper, for a round under way.
Reap == Up /\ ~ ended /\ started /\ Finalize("reap", <<>>)

\* Both kinds of discarding: session_end{abandoned}, teardown, exit.
Discard(why) ==
  /\ ended' = TRUE
  /\ path' = IF ended THEN path ELSE "discard"
  /\ trace' = IF ended THEN trace ELSE Append(trace, "abandoned")
  /\ container' = FALSE
  /\ proc' = "gone"
  /\ exit' = why
  /\ UNCHANGED <<round, started, room, record, teardown, activities>>

\* The reaper, for a round that never got under way.
ReapDiscard == Up /\ ~ ended /\ ~ (started /\ ShowsWork(trace)) /\ Discard("reap")

\* /api/abandon, at any moment.
Abandon == Up /\ Discard("abandon")

---------------------------------------------------------------------------
(* After the judge.                                                        *)

\* The disk after the first n of finalize's writes: the assessment, the
\* deposit in the gap graph, the feedback card.
DepositAnything(status, n) ==
  IF round.sample THEN disk
  ELSE [assessment |-> IF n >= 1 THEN status ELSE disk.assessment,
        deposits |-> disk.deposits + (IF n >= 2 /\ round.memorable THEN 1 ELSE 0),
        feedback |-> disk.feedback \/ n >= 3]
Persisted(status, n) ==
  IF round.sample THEN disk
  ELSE [assessment |-> IF n >= 1 THEN status ELSE disk.assessment,
        deposits |-> disk.deposits
                     + (IF n >= 2 /\ status = "assessed" /\ round.memorable
                        THEN 1 ELSE 0),
        feedback |-> disk.feedback \/ n >= 3]

\* finalize's promise has settled: what each caller does about it.
SettleLeavingRoom(ok) ==
  /\ grading' = IF ok THEN "done" ELSE "failed"
  /\ teardown' = (path = "end")
  /\ container' = (container /\ path # "reap")
  /\ proc' = IF path = "reap" THEN "gone" ELSE proc
  /\ exit' = IF path = "reap" THEN "reap" ELSE exit
Settle(ok) ==
  /\ grading' = IF ok THEN "done" ELSE "failed"
  /\ teardown' = (path = "end" \/ (ok /\ path \in {"wrap", "cap"}))
  /\ container' = (container /\ path # "reap")
  /\ proc' = IF path = "reap" THEN "gone" ELSE proc
  /\ exit' = IF path = "reap" THEN "reap" ELSE exit

\* A plan round awaits an import between its deposit and its card.
AwaitsImport(status) ==
  ~ round.sample /\ status = "assessed" /\ round.memorable /\ round.topics

\* The judge answers.  The verdict's solved field and the card are made from
\* the trace as it is now.
JudgeAnswers(status) ==
  /\ Up /\ grading = "judging"
  /\ status \in {"assessed", "unassessed"}
  /\ solved' = IF status = "assessed" THEN RunSolved(trace) ELSE solved
  /\ IF AwaitsImport(status)
     THEN /\ disk' = Persisted(status, 2)
          /\ grading' = "importing"
          /\ UNCHANGED <<proc, exit, container, teardown>>
     ELSE /\ disk' = Persisted(status, 3)
          /\ Settle(TRUE)
  /\ UNCHANGED <<round, ended, started, path, trace, room, read, activities>>

TopicsImported ==
  /\ Up /\ grading = "importing"
  /\ disk' = [disk EXCEPT !.feedback = TRUE]
  /\ Settle(TRUE)
  /\ UNCHANGED <<round, ended, started, path, trace, room, read, solved, activities>>

\* finalize rejects: nothing could be read or some write failed.
FinalizeFails ==
  /\ Up /\ grading \in {"judging", "importing"}
  /\ \/ grading = "importing" /\ disk' = disk
     \/ /\ grading = "judging"
        /\ \E status \in {"assessed", "unassessed"}, n \in 0..2 :
             disk' = Persisted(status, n)
  /\ Settle(FALSE)
  /\ UNCHANGED <<round, ended, started, path, trace, room, read, solved, activities>>

\* setImmediate(teardownContainer).
TearDown ==
  /\ Up /\ teardown
  /\ teardown' = FALSE
  /\ container' = FALSE
  /\ UNCHANGED <<round, proc, exit, ended, started, path, trace, room, record, activities>>

---------------------------------------------------------------------------
(* Ends of the process that are not ends of the round.                     *)

Exit(why, left) ==
  /\ proc' = "gone"
  /\ exit' = why
  /\ container' = (container /\ left)
  /\ UNCHANGED <<round, ended, started, path, trace, room, read, grading, solved,
                 teardown, activities>>

\* /api/shutdown: the app sends it on its next launch, once /api/status has
\* answered with ended.
Shutdown == Up /\ ended /\ Exit("shutdown", FALSE) /\ UNCHANGED disk

\* SIGINT or SIGTERM.
Signal == Up /\ Exit("signal", FALSE) /\ UNCHANGED disk

\* SIGKILL or the machine: at rest, or between two of finalize's writes.
Kill ==
  /\ Up
  /\ Exit("kill", TRUE)
  /\ \/ UNCHANGED disk
     \/ /\ grading = "judging"
        /\ \E status \in {"assessed", "unassessed"}, n \in 1..2 :
             disk' = Persisted(status, n)

Next ==
  \/ Arrive
  \/ \E r \in Reqs : BodyRead(r) \/ \E kind \in Kinds : Request(r, kind)
  \/ \E kind \in Kinds : EditorEvent(kind)
  \/ \E kind \in Kinds : RunCloses(kind)
  \/ StartRun
  \/ StartTurn
  \/ \E spoken \in BOOLEAN : FinishTurn(spoken)
  \/ PressEnd
  \/ WrapUp
  \/ TimeCap
  \/ Reap
  \/ ReapDiscard
  \/ Abandon
  \/ \E status \in {"assessed", "unassessed"} : JudgeAnswers(status)
  \/ TopicsImported
  \/ FinalizeFails
  \/ TearDown
  \/ Shutdown
  \/ Signal
  \/ Kill

\* judgeSession always answers: its model calls time out and are retried once
\* at most.  An import completes and a setImmediate fires.
Fairness ==
  /\ WF_vars(\E status \in {"assessed", "unassessed"} : JudgeAnswers(status))
  /\ WF_vars(TopicsImported)
  /\ WF_vars(TearDown)

Spec == Init /\ [][Next]_vars
FairSpec == Spec /\ Fairness

---------------------------------------------------------------------------
(* Properties.                                                             *)

Trail == SubSeq(trace, Len(read) + 1, Len(trace))

\* A round ends once, whatever raced to end it: its trace holds at most one
\* session_end, graded exactly when the judge was given it, and a round that
\* was discarded is never judged and never recorded (the ended flag, set
\* before any await of every path; /api/abandon's test of it).
OneEnding ==
  /\ Cardinality(Occurs(Endings, trace)) <= 1
  /\ ended <=> Occurs(Endings, trace) # {}
  /\ grading # "no" <=> Occurs({"end"}, trace) # {}
  /\ grading # "no" => /\ Last(read) = "end"
                       /\ IsPrefix(read, trace)
  /\ grading = "no" => disk = NoRecord

\* On a one-shot round the recorded verdict is the graded run's: there is one
\* such run, it is the last thing before session_end, and no run that reaches
\* the trace while the judge is thinking can replace it (finalize's submit
\* run, runSolvedFromTrace's preference for it).
OneShotVerdictStands ==
  /\ round.oneShot /\ grading # "no" =>
       Occurs(SubmitRuns, trace) = {Len(read) - 1}
  /\ round.oneShot /\ solved # "unknown" =>
       (solved = "yes") = (read[Len(read) - 1] = "submit_pass")

\* The candidate's memory never runs ahead of or behind the record: one
\* deposit at most, only for a round assessed on disk; a card only over a
\* complete record; nothing at all for a sample round.  Crashes and failed
\* writes included (finalize's persist seam and the order of its writes).
MemoryFollowsRecord ==
  /\ round.sample => disk = NoRecord
  /\ disk.deposits <= 1
  /\ disk.deposits = 1 => disk.assessment = "assessed"
  /\ disk.feedback =>
       /\ disk.assessment # "none"
       /\ (disk.assessment = "assessed" /\ round.memorable) <=> disk.deposits = 1

\* In a round without an editor socket, what follows session_end was under
\* way before it: at most the requests whose bodies were being read and one
\* interviewer turn, and never a test run (the checks of ended at the door,
\* in runInterviewer and in the run's close handler).
OnlyInFlightTrails ==
  round.surface = "panes" /\ grading # "no" =>
    /\ Len(Trail) <= Cardinality(Reqs) + 1
    /\ Cardinality(Occurs({"reply"}, Trail)) <= 1
    /\ Occurs(Runs \cup SubmitRuns, Trail) = {}

\* An ended round comes to rest: unless the process is stopped or finalize
\* rejects, the card is there (or nothing, for a sample) and the container is
\* gone (the settling of each finalize caller).
EndedSettles ==
  ended ~> \/ proc = "gone"
           \/ grading = "failed"
           \/ grading = "done" /\ ~ container /\ (round.sample \/ disk.feedback)

\* session.ts: "once the round has ended the judge has ALREADY read the trace
\* [...], so a later append silently makes the record disagree with what was
\* graded": nothing follows the trace the judge was given.
ClosedTrace == grading # "no" => trace = read

\* app.ts: "A graded session's server lingers to serve its card; reap it":
\* a reap never takes down a server that is still grading.
ReapSparesGrading ==
  exit = "shutdown" => grading \notin {"judging", "importing"}
=============================================================================
