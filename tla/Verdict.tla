--------------------------------- MODULE Verdict ---------------------------------
(***************************************************************************)
(* From the trace of a round to a card with receipts (timeline.ts,         *)
(* judge.ts, feedback.ts; the callers are finalize of session.ts and       *)
(* rejudge of cli.ts).                                                     *)
(*                                                                         *)
(* The judge reads a timeline rendered from the trace and cites moments of *)
(* it in whole seconds.  A citation is kept if something the candidate did *)
(* is near enough, and the card quotes it.  finalize hands over the trace  *)
(* itself, to which events may be appended while the model thinks.  Time   *)
(* is counted in half seconds, so that rounding to seconds can be seen.    *)
(* What becomes of the verdict is SessionRound's and Memory's subject.     *)
(***************************************************************************)
EXTENDS Naturals, Sequences, FiniteSets, FiniteSetsExt, SequencesExt

CONSTANTS
  MaxClock,     \* bound on the half seconds of a round
  MaxTrace,     \* bound on its events
  Tolerance,    \* how far from a citation an event may lie, in half seconds
  MaxReads      \* bound on judgings: the round's own, then rejudge

ASSUME VerdictAssumption == MaxClock \in Nat /\ Tolerance \in Nat \ {0}
ASSUME VerdictBoundsAssumption == MaxTrace \in Nat \ {0} /\ MaxReads \in Nat \ {0}

VARIABLES
  setting,      \* whether there is an interviewer, and whether the surface is panes
  clock,
  trace,        \* in the order of arrival; index 1 is session_start
  segment,      \* what the microphone hears: since when, begun in an outage or not
  reading,      \* the judge: which call is under way, what it was shown
  verdict,      \* the result with its card
  reads

verdictVars == <<setting, clock, trace, segment, reading, verdict, reads>>

Dimensions == {"communicate", "clarify", "implement"}
Seconds == 0..((MaxClock + 1) \div 2)
NoSegment == [on |-> FALSE, since |-> 0, outage |-> FALSE]
NoVerdict == [status |-> "none", rows |-> {}, cited |-> {}]

\* "work" stands for edits, saves, opened files, commands, test runs and what the
\* candidate types; state is the state a transcription marker reports.
Entry(type, ts) ==
  [type |-> type, ts |-> ts, words |-> FALSE, outage |-> "no", state |-> "up"]

VerdictTypeOK ==
  /\ setting \in [interviewer : BOOLEAN, panes : BOOLEAN]
  /\ clock \in 0..MaxClock
  /\ Len(trace) \in 1..MaxTrace
  /\ \A i \in DOMAIN trace :
       trace[i] \in [type : {"session_start", "utterance", "work", "interviewer", "stt",
                             "session_end"},
                     ts : 0..MaxClock, words : BOOLEAN,
                     outage : {"no", "whole", "straddled", "ended"},
                     state : {"up", "down"}]
  /\ segment \in [on : BOOLEAN, since : 0..MaxClock, outage : BOOLEAN]
  /\ reading.call \in {"none", "first", "after_timeout", "after_slop"}
  /\ reading.shown \subseteq 1..reading.length /\ reading.length \in 0..MaxTrace
  /\ verdict.status \in {"none", "assessed", "unassessed"}
  /\ verdict.rows \subseteq
       [dimension : Dimensions, graded : BOOLEAN, evidence : SUBSET Seconds,
        stripped : SUBSET Seconds, unreceipted : BOOLEAN,
        quotes : SUBSET [at : Seconds, of : 1..MaxTrace]]
  /\ verdict.cited \subseteq Seconds
  /\ reads \in 0..MaxReads

VerdictInit ==
  /\ setting \in [interviewer : BOOLEAN, panes : BOOLEAN]
  /\ clock = 0
  /\ trace = <<Entry("session_start", 0)>>
  /\ segment = NoSegment
  /\ reading = [call |-> "none", shown |-> {}, length |-> 0]
  /\ verdict = NoVerdict
  /\ reads = 0

---------------------------------------------------------------------------
(* Reading a trace (timeline.ts).                                          *)

Markers(tr) == {i \in DOMAIN tr : tr[i].type = "stt"}

\* sensorDownIntervals: a down marker opens an interval unless one is open, and
\* an up marker closes it; markers arrive in the order of their time.
Opening(tr, i) ==
  /\ tr[i].state = "down"
  /\ LET before == {j \in Markers(tr) : j < i}
     IN  before = {} \/ tr[Max(before)].state = "up"

Closing(tr, i) == {j \in Markers(tr) : j > i /\ tr[j].state = "up"}

Down(tr, ts) ==
  \E i \in Markers(tr) :
    /\ Opening(tr, i) /\ ts >= tr[i].ts
    /\ Closing(tr, i) = {} \/ ts <= tr[Min(Closing(tr, i))].ts

\* A segment without words counts as speech only in an outage.  The segment is
\* taken to reach from speech_start_ts to ts, and both are its start.
isPhantomUtterance(tr, e) == e.type = "utterance" /\ ~ e.words /\ ~ Down(tr, e.ts)

isCandidateEvent(e) == e.type \in {"utterance", "work", "session_end"}

\* The events that have a line of their own in the timeline.
renderTimeline(tr) ==
  {i \in DOMAIN tr : tr[i].type # "stt" /\ ~ isPhantomUtterance(tr, tr[i])}

\* The second a line carries (Math.round).
Shown(e) == (e.ts + 1) \div 2

Distance(e, second) == IF e.ts > 2 * second THEN e.ts - 2 * second ELSE 2 * second - e.ts

\* As if a segment of noise could be a receipt.
AnyAct(tr) == {i \in DOMAIN tr : isCandidateEvent(tr[i])}

Citable(tr) == {i \in DOMAIN tr : isCandidateEvent(tr[i]) /\ ~ isPhantomUtterance(tr, tr[i])}

\* eventAtOffset, as the verifier and the card use it: the nearest event, the
\* first to arrive of several; an empty set when it is too far.
eventAtOffset(tr, second) ==
  LET near == {i \in Citable(tr) : Distance(tr[i], second) <= Tolerance}
      best == {i \in near : \A j \in near :
                 Distance(tr[i], second) <= Distance(tr[j], second)}
  IN  IF best = {} THEN {} ELSE {Min(best)}

---------------------------------------------------------------------------
(* The verdict (judge.ts, feedback.ts).                                    *)

\* verifyCitations, and the row of the card.
CardRow(tr, dimension, graded, cited) ==
  LET kept == IF graded THEN {s \in cited : eventAtOffset(tr, s) # {}} ELSE {}
  IN  [dimension |-> dimension, graded |-> graded, evidence |-> kept,
       stripped |-> IF graded THEN cited \ kept ELSE {},
       unreceipted |-> graded /\ kept = {},
       quotes |-> UNION {[at : {s}, of : eventAtOffset(tr, s)] : s \in kept}]

Utterances(tr) == {i \in DOMAIN tr : tr[i].type = "utterance"}

\* What nobody could observe on a round without an interviewer.
Silent(tr) ==
  IF setting.interviewer \/ Utterances(tr) # {} THEN {}
  ELSE {"communicate"} \cup (IF setting.panes THEN {"clarify"} ELSE {})

\* clampSilentDimensions: the verdict and its evidence go, the rest stays.
Clamped(tr, row) ==
  IF row.dimension \in Silent(tr) /\ row.graded
  THEN [row EXCEPT !.graded = FALSE, !.evidence = {}, !.quotes = {}]
  ELSE row

NotReading == [call |-> "none", shown |-> reading.shown, length |-> reading.length]

\* Every dimension is graded, or found unassessable; all cite the same moment,
\* or none.
Assess(graded, cited) ==
  /\ verdict' = [status |-> "assessed", cited |-> cited,
                 rows |-> {Clamped(trace, CardRow(trace, d, graded, cited)) : d \in Dimensions}]
  /\ reading' = NotReading

GiveUp ==
  /\ verdict' = [NoVerdict EXCEPT !.status = "unassessed"]
  /\ reading' = NotReading

Ask(call) == reading' = [reading EXCEPT !.call = call] /\ UNCHANGED verdict

Ran(tr) == \E i \in DOMAIN tr : tr[i].type = "work"

\* judgeSession, from a reply or the lack of one.  The reply has the schema's
\* shape or is that shape packed into a string; or it lacks solved, which a run
\* of the trace replaces; or it does not parse; or it breaks the schema.
Replies(reply) ==
  /\ reading.call # "none"
  /\ UNCHANGED <<setting, clock, trace, segment, reads>>
  /\ CASE reply = "whole" \/ (reply = "unsolved" /\ Ran(trace)) ->
            Assess(FALSE, {}) \/ \E cited \in {{}} \cup {{s} : s \in Seconds} :
              Assess(TRUE, cited)
       [] reply = "timeout" /\ reading.call = "first" -> Ask("after_timeout")
       [] reply = "slop" /\ reading.call # "after_slop" -> Ask("after_slop")
       [] OTHER -> GiveUp

---------------------------------------------------------------------------
(* The round.                                                              *)

Talking == reading.call = "none" /\ reads = 0 /\ verdict.status = "none"
Arrives(e) == Len(trace) < MaxTrace /\ trace' = Append(trace, e)

Passes ==
  /\ Talking /\ clock < MaxClock
  /\ clock' = clock + 1
  /\ UNCHANGED <<setting, trace, segment, reading, verdict, reads>>

\* An event of the editor, delivered now or up to the end of the judging; or a
\* typed sentence, at once or past the check that the round had not ended.
Works(ts) ==
  /\ Talking \/ reading.call # "none"
  /\ ts <= clock
  /\ Arrives(Entry("work", ts))
  /\ UNCHANGED <<setting, clock, segment, reading, verdict, reads>>

InterviewerSpeaks ==
  /\ Talking /\ setting.interviewer
  /\ Arrives(Entry("interviewer", clock))
  /\ UNCHANGED <<setting, clock, segment, reading, verdict, reads>>

Outage == LET m == Markers(trace) IN m # {} /\ trace[Max(m)].state = "down"

\* The relay reports its link to the speech service.
Reports(state) ==
  /\ Talking /\ setting.interviewer
  /\ (state = "down") # Outage
  /\ Arrives([Entry("stt", clock) EXCEPT !.state = state])
  /\ UNCHANGED <<setting, clock, segment, reading, verdict, reads>>

SegmentStarts ==
  /\ Talking /\ setting.interviewer /\ ~ segment.on
  /\ segment' = [on |-> TRUE, since |-> clock, outage |-> Outage]
  /\ UNCHANGED <<setting, clock, trace, reading, verdict, reads>>

\* emitUtterance: the segment is stamped with its start, whenever it ends.
SegmentEnds(words) ==
  /\ Talking /\ segment.on
  /\ words => ~ Outage
  /\ Arrives([Entry("utterance", segment.since) EXCEPT
       !.words = words,
       !.outage = CASE segment.outage /\ Outage -> "whole"
                    [] ~ segment.outage /\ Outage -> "straddled"
                    [] segment.outage /\ ~ Outage -> "ended"
                    [] OTHER -> "no"])
  /\ segment' = NoSegment
  /\ UNCHANGED <<setting, clock, reading, verdict, reads>>

---------------------------------------------------------------------------
(* Judging.                                                                *)

Prompted(tr) ==
  reading' = [call |-> "first", shown |-> renderTimeline(tr), length |-> Len(tr)]

\* finalize; a segment under way is not flushed.
EndSession ==
  /\ Talking
  /\ Arrives(Entry("session_end", clock))
  /\ Prompted(trace')
  /\ reads' = 1
  /\ segment' = NoSegment
  /\ UNCHANGED <<setting, clock, verdict>>

\* rejudge, from the file, when the round is over.
Rejudge ==
  /\ reading.call = "none" /\ reads \in 1..(MaxReads - 1)
  /\ Prompted(trace)
  /\ reads' = reads + 1
  /\ verdict' = NoVerdict
  /\ UNCHANGED <<setting, clock, trace, segment>>

VerdictNext ==
  \/ Passes \/ InterviewerSpeaks \/ SegmentStarts \/ EndSession \/ Rejudge
  \/ \E ts \in 0..clock : Works(ts)
  \/ \E state \in {"up", "down"} : Reports(state)
  \/ \E words \in BOOLEAN : SegmentEnds(words)
  \/ \E reply \in {"whole", "unsolved", "slop", "invalid", "timeout", "failed"} :
       Replies(reply)

---------------------------------------------------------------------------
(* What a verdict owes the candidate.                                      *)

\* What the microphone heard during an outage is on the timeline as speech, and
\* what the recognizer found empty is not: a segment that lies wholly in an
\* outage, or wholly outside one.  (One begun before the outage is dropped, and
\* one begun before its end is taken for speech: see the README.)
LostSpeechIsShown ==
  \A i \in 1..reading.length :
    trace[i].type = "utterance" /\ ~ trace[i].words =>
      /\ trace[i].outage = "whole" => i \in reading.shown
      /\ i \in reading.shown =>
           trace[i].outage # "no" \/
           \E m \in Markers(trace) : trace[m].ts = trace[i].ts

\* A receipt quotes something the candidate did, near the moment cited, which
\* the judge was shown or which arrived while it was judging.
ReceiptsAreReal ==
  reading.call = "none" => \A row \in verdict.rows : \A q \in row.quotes :
    /\ isCandidateEvent(trace[q.of])
    /\ Distance(trace[q.of], q.at) <= Tolerance
    /\ q.of \in reading.shown \/ q.of > reading.length

\* A judge that cites the second of a line of the candidate's keeps its receipt,
\* in every dimension it may grade.
HonestCitationsStand ==
  reading.call = "none" => \A row \in verdict.rows : \A s \in verdict.cited :
    row.graded /\ (\E i \in reading.shown : isCandidateEvent(trace[i]) /\ Shown(trace[i]) = s)
      => s \in row.evidence /\ \E q \in row.quotes : q.at = s

\* Nothing is graded that a round without an interviewer cannot show, whoever
\* asked the judge and whatever it said.
SilenceIsNotGraded ==
  ~ setting.interviewer => \A row \in verdict.rows :
    /\ row.dimension = "communicate" => ~ row.graded
    /\ row.dimension = "clarify" /\ setting.panes => ~ row.graded

ReceiptsHold ==
  LostSpeechIsShown /\ ReceiptsAreReal /\ HonestCitationsStand /\ SilenceIsNotGraded
=============================================================================
