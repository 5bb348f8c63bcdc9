------------------------------- MODULE Initiative -------------------------------
(***************************************************************************)
(* When the interviewer speaks without being asked: the tick of            *)
(* session.ts over the trace, and the detectors it reads: detectStuck      *)
(* (stuck.ts), detectAdrift (adrift.ts), detectMoment and                  *)
(* detectUrgentMoment (moments.ts), the approach row of the agenda and the *)
(* wrap-up signal.  A position in the trace stands for its time; how much  *)
(* time has gone by is left open, so a lane whose clock could allow it may *)
(* speak, and the window of detectAdrift may begin anywhere.               *)
(***************************************************************************)
EXTENDS Integers, Sequences, FiniteSets

CONSTANTS
  Files,        \* paths of the workspace, numbered as they are first touched
  Cycles,       \* STUCK_CYCLES
  MinSaid,      \* ADRIFT_MIN_UTTERANCES
  MaxEvents     \* bounds the trace

ASSUME FilesAssumption == Files \subseteq Nat
ASSUME CyclesAssumption == Cycles \in Nat \ {0}
ASSUME EventsAssumption == MaxEvents \in Nat

VARIABLES
  kind,         \* roundSpec.check.kind
  trace,        \* store.readAll(): what the candidate did
  fired,        \* firedMoments
  wrapUp,       \* wrapUpAt is set
  redirected,   \* adriftFired
  strikes,      \* stuckRedactions, by the event an episode began with
  move         \* what the last unprompted turn was asked to say, or Nothing

initiativeVars == <<kind, trace, fired, wrapUp, redirected, strikes, move>>

Touches == {"edit", "file_open", "file_save"}
Outcomes == {"fails", "passes", "cut"}
Utterances == {"theory", "done"}

\* A cut run never completed: its exit_code is null.
Events ==
  [type : Touches, path : Files] \union [type : {"test_run"}, exit : Outcomes]
    \union [type : {"utterance"}, text : Utterances]

Nothing == [what |-> "nothing"]
Moments == {"first_failure_read", "first_fix_ran", "pass_after_struggle",
            "edit_without_theory", "reran_without_change", "first_run", "first_pass"}
Positions == 1 .. MaxEvents

InitiativeTypeOK ==
  /\ kind \in {"one_failing_test", "all_failing"}
  /\ Len(trace) \in 0 .. MaxEvents /\ \A i \in DOMAIN trace : trace[i] \in Events
  /\ fired \subseteq Moments
  /\ wrapUp \in BOOLEAN /\ redirected \in BOOLEAN
  /\ strikes \in [Positions -> 0 .. 2]
  /\ move.what \in {"nothing", "stuck", "redirect"} \union Moments

InitiativeInit ==
  /\ kind \in {"one_failing_test", "all_failing"}
  /\ trace = <<>> /\ fired = {} /\ wrapUp = FALSE /\ redirected = FALSE
  /\ strikes = [i \in Positions |-> 0] /\ move = Nothing

-----------------------------------------------------------------------------
Is(i, type) == trace[i].type = type
RunFails(i) == Is(i, "test_run") /\ trace[i].exit = "fails"
RunPasses(i) == Is(i, "test_run") /\ trace[i].exit = "passes"
Completed(i) == RunFails(i) \/ RunPasses(i)
IsEdit(i) == Is(i, "edit")
Changes(i) == IsEdit(i) \/ Is(i, "file_save")
Touched(i) == trace[i].type \in Touches
Until(i) == 1 .. (i - 1)
First(i, Holds(_)) == Holds(i) /\ \A j \in Until(i) : ~ Holds(j)

\* detectStuck's running state, before the first event.
NoStreak == [cycles |-> 0, files |-> {}, pending |-> {}, first |-> 0, since |-> 0]

\* A change elsewhere taken for one more try at the same thing.
StreakKeepsOnAfter(s, i) ==
  IF IsEdit(i) THEN [s EXCEPT !.pending = @ \union {trace[i].path},
                             !.first = IF s.pending = {} THEN i ELSE @]
  ELSE IF RunFails(i) /\ s.pending # {}
    THEN [cycles |-> s.cycles + 1, files |-> s.files \union s.pending, pending |-> {},
          first |-> 0, since |-> IF s.cycles = 0 THEN s.first ELSE s.since]
  ELSE s

\* One event of detectStuck's loop. s is its state after the events before i.
StreakAfter(s, i) ==
  LET e == trace[i]
      firstTime == \A j \in Until(i) : Touched(j) => trace[j].path # e.path
  IN  IF IsEdit(i)
        THEN IF s.cycles > 0 /\ e.path \notin s.files
               THEN [NoStreak EXCEPT !.pending = {e.path}, !.first = i]
               ELSE [s EXCEPT !.pending = @ \union {e.path},
                              !.first = IF s.pending = {} THEN i ELSE @]
      ELSE IF Is(i, "file_open") /\ s.cycles > 0 /\ firstTime THEN NoStreak
      ELSE IF RunPasses(i) THEN NoStreak
      ELSE IF RunFails(i) /\ s.pending # {}
        THEN [cycles |-> s.cycles + 1, files |-> s.files \union s.pending,
              pending |-> {}, first |-> 0,
              since |-> IF s.cycles = 0 THEN s.first ELSE s.since]
      ELSE s

DetectStuck ==
  LET streak[i \in 0 .. Len(trace)] ==
        IF i = 0 THEN NoStreak ELSE StreakAfter(streak[i - 1], i)
  IN  streak[Len(trace)]

Stuck == DetectStuck.cycles >= Cycles

\* detectAdrift over the window that begins at w.
DetectAdrift(w) ==
  LET window == w .. Len(trace)
      looked == {i \in window : Is(i, "file_open")}
  IN  /\ \A i \in window : ~ Changes(i) /\ ~ RunPasses(i)
      /\ Cardinality({trace[i].path : i \in looked}) = 1
      /\ Cardinality({i \in window : Is(i, "utterance")}) >= MinSaid

-----------------------------------------------------------------------------
\* assessAgenda's approach: a theory after the first failure, before any edit.
TheoryStated ==
  \E i \in DOMAIN trace : \E u \in DOMAIN trace :
    /\ First(i, RunFails) /\ u > i
    /\ Is(u, "utterance") /\ trace[u].text = "theory"
    /\ \A j \in Until(u) : ~ IsEdit(j)

ApproachOpen == (\E i \in DOMAIN trace : RunFails(i)) /\ ~ TheoryStated

FirstFailureRead ==
  \E i \in DOMAIN trace : First(i, RunFails) /\ \A j \in DOMAIN trace : j > i => ~ IsEdit(j)

EditWithoutTheory ==
  /\ \E i \in DOMAIN trace : First(i, IsEdit) /\ \A j \in DOMAIN trace : j > i => ~ Is(j, "test_run")
  /\ ApproachOpen

\* The first run, whatever came of it, after an edit after the first failure.
FirstFix(r) ==
  LET Tries(j) == Is(j, "test_run") /\ \E f, e \in Until(j) : First(f, RunFails) /\ f < e /\ IsEdit(e)
  IN  First(r, Tries)

FirstFixRan == \E r \in DOMAIN trace : FirstFix(r)
FirstFixPassed == \E r \in DOMAIN trace : FirstFix(r) /\ RunPasses(r)

PassAfterStruggle ==
  \E i \in DOMAIN trace : RunPasses(i) /\ Cardinality({j \in Until(i) : RunFails(j)}) >= 2

\* The kickoff pair is exempt: the run before it is at least the second.
ReranWithoutChange ==
  \E p, i \in DOMAIN trace :
    /\ p < i /\ Completed(p) /\ Completed(i)
    /\ \E j \in Until(p) : Completed(j)
    /\ \A j \in (p + 1) .. (i - 1) : ~ Completed(j) /\ ~ Changes(j)

FirstRun == \E i \in DOMAIN trace : Completed(i)
FirstPass == \E i \in DOMAIN trace : RunPasses(i) /\ \E j \in Until(i) : RunFails(j)

Unfired(m) == m \notin fired

\* detectUrgentMoment: a moment, or "none". A fix that failed is not urgent.
UrgentMoment ==
  IF kind = "one_failing_test"
    THEN IF Unfired("pass_after_struggle") /\ PassAfterStruggle THEN "pass_after_struggle"
         ELSE IF Unfired("first_fix_ran") /\ FirstFixPassed THEN "first_fix_ran" ELSE "none"
    ELSE IF Unfired("first_pass") /\ FirstPass THEN "first_pass" ELSE "none"

Shows(m) ==
  CASE m = "first_failure_read" -> FirstFailureRead
    [] m = "edit_without_theory" -> EditWithoutTheory
    [] m = "first_fix_ran" -> FirstFixRan
    [] m = "pass_after_struggle" -> PassAfterStruggle
    [] m = "reran_without_change" -> ReranWithoutChange
    [] m = "first_run" -> FirstRun
    [] m = "first_pass" -> FirstPass

\* The order detectMoment asks in.
MomentOrder ==
  IF kind = "one_failing_test"
    THEN <<"first_failure_read", "edit_without_theory", "first_fix_ran",
           "pass_after_struggle", "reran_without_change">>
    ELSE <<"first_run", "first_pass">>

\* detectMoment. FIRST_READ_MS may not have gone by since the failing run.
MomentNow(m) ==
  \E k \in DOMAIN MomentOrder :
    /\ m = MomentOrder[k] /\ Unfired(m) /\ Shows(m)
    /\ \A l \in 1 .. (k - 1) :
         MomentOrder[l] = "first_failure_read" \/ ~ (Unfired(MomentOrder[l]) /\ Shows(MomentOrder[l]))

-----------------------------------------------------------------------------
\* detectWrapSignal: the candidate called it done, after work had started.
SaidDone ==
  LET start == IF FirstRun THEN {i \in DOMAIN trace : First(i, Completed)}
                           ELSE {i \in DOMAIN trace : First(i, Changes)}
  IN  \E i \in start, u \in DOMAIN trace :
        u > i /\ Is(u, "utterance") /\ trace[u].text = "done"

\* detectWrapSignal: the latest run is green, and the green is the candidate's work.
GreenProvesWork ==
  \E i \in DOMAIN trace :
    /\ RunPasses(i) /\ \A j \in DOMAIN trace : j > i => ~ Completed(j)
    /\ \/ \E j \in DOMAIN trace : RunFails(j)
       \/ \E j \in Until(i) : Changes(j)

\* roundUnderway (its floor may have gone by) and no wrap-up: a tick goes on.
Underway == ~ wrapUp /\ ~ SaidDone

\* Once the wrap-up has begun no lane below reads the trace any more.
CandidateActs ==
  /\ ~ wrapUp /\ Len(trace) < MaxEvents
  /\ \E e \in Events :
       /\ e.type \in Touches => \A f \in Files : f < e.path =>
            \E i \in DOMAIN trace : Touched(i) /\ trace[i].path = f
       /\ trace' = Append(trace, e)
  /\ UNCHANGED <<kind, fired, wrapUp, redirected, strikes, move>>

\* A tick finds the signal. From here on the wrap-up owns the initiative.
TickWraps ==
  /\ ~ wrapUp /\ (SaidDone \/ GreenProvesWork)
  /\ wrapUp' = TRUE
  /\ UNCHANGED <<kind, trace, fired, redirected, strikes, move>>

\* The green is answered on a short clock, before anything else.
TickUrgent ==
  /\ Underway /\ UrgentMoment # "none"
  /\ fired' = fired \union {UrgentMoment}
  /\ move' = [what |-> UrgentMoment, at |-> Len(trace)]
  /\ UNCHANGED <<kind, trace, wrapUp, redirected, strikes>>

\* The long clocks have gone by, so the short one of an urgent moment has.
NoUrgent == Underway /\ UrgentMoment = "none"

TickHelps ==
  /\ NoUrgent /\ Stuck /\ strikes[DetectStuck.since] < 2
  /\ move' = [what |-> "stuck", since |-> DetectStuck.since, at |-> Len(trace)]
  /\ UNCHANGED <<kind, trace, fired, wrapUp, redirected, strikes>>

\* The leak guard silences the hint: two of them and the episode is spent.
HintIsSilenced ==
  /\ move.what = "stuck" /\ move.at = Len(trace)
  /\ strikes[move.since] < 2
  /\ strikes' = [strikes EXCEPT ![move.since] = @ + 1]
  /\ move' = Nothing
  /\ UNCHANGED <<kind, trace, fired, wrapUp, redirected>>

\* Whether the answer was on their screen is left open; only a redirect counts.
TickRedirects ==
  /\ NoUrgent /\ ~ (Stuck /\ strikes[DetectStuck.since] < 2) /\ ~ redirected
  /\ \E w \in DOMAIN trace :
       /\ DetectAdrift(w)
       /\ move' = [what |-> "redirect", since |-> w, at |-> Len(trace)]
  /\ redirected' = TRUE
  /\ UNCHANGED <<kind, trace, fired, wrapUp, strikes>>

\* Marked before the turn is asked for, so that a silenced one is not repeated.
TickMoment ==
  /\ NoUrgent
  /\ \E m \in Moments :
       /\ MomentNow(m)
       /\ fired' = fired \union {m}
       /\ move' = [what |-> m, at |-> Len(trace)]
  /\ UNCHANGED <<kind, trace, wrapUp, redirected, strikes>>

InitiativeNext ==
  \/ CandidateActs \/ TickWraps \/ TickUrgent \/ TickHelps \/ HintIsSilenced
  \/ TickRedirects \/ TickMoment

-----------------------------------------------------------------------------
MadeNow(what) == move.what = what /\ move.at = Len(trace)

\* What describeStuck says of the candidate: since the streak began with an
\* edit, run after run failed, each on something changed, none passed, every
\* change was to files of the first attempt, and no file was opened for the
\* first time once that attempt had failed.
HintIsTrue ==
  MadeNow("stuck") =>
    LET since == move.since .. Len(trace)
        Attempt(i) == i \in since /\ RunFails(i) /\
          \E e \in move.since .. i : IsEdit(e) /\ \A j \in e .. i - 1 : ~ RunFails(j)
    IN  /\ IsEdit(move.since)
        /\ Cardinality({i \in since : Attempt(i)}) >= Cycles
        /\ \A i \in since : ~ RunPasses(i)
        /\ \E f \in since :
             /\ First(f, Attempt)
             /\ \A i \in f .. Len(trace) :
                  /\ IsEdit(i) => \E j \in move.since .. f : IsEdit(j) /\ trace[j].path = trace[i].path
                  /\ Is(i, "file_open") => \E j \in Until(i) : Touched(j) /\ trace[j].path = trace[i].path

\* A green suite is never met with talk of its failing: until the pass has
\* been answered, no lane says that they are stuck, or that a fix still fails.
\* A first try that was cut is left out: firstFixRan takes it for a failure.
GreenComesFirst ==
  move # Nothing /\ move.at = Len(trace) =>
    LET passed == \E i \in DOMAIN trace : RunPasses(i) /\ \A j \in DOMAIN trace : j > i => ~ Completed(j)
        stillFails == move.what = "first_fix_ran" /\ \E r \in DOMAIN trace : FirstFix(r) /\ RunFails(r)
    IN  passed /\ (move.what = "stuck" \/ stillFails) => "pass_after_struggle" \in fired

\* What the interviewer is asked to say unprompted is true of the trace.
HelpIsTrue == HintIsTrue /\ GreenComesFirst
=============================================================================
