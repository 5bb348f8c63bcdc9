------------------------------ MODULE PanesEditor ------------------------------
(***************************************************************************)
(* The editor of a round without a workbench: what the candidate types,    *)
(* what is saved, and what is run and graded (client/panes.js, endSession  *)
(* of client/session.js, and the file, event, run and end routes of        *)
(* session.ts).  One file is modelled: timers and requests are per file.   *)
(*                                                                         *)
(* Typing arms two timers, one that saves the file and one that reports    *)
(* the edits.  Run and Submit flush both and wait for the requests under   *)
(* way.  Requests overtake each other, and a request that passed the       *)
(* server's check of an ended round takes effect later, when its body is   *)
(* there.                                                                  *)
(***************************************************************************)
EXTENDS Naturals, FiniteSets, FiniteSetsExt

CONSTANTS
  MaxTyped,        \* bound on changes
  MaxPanesFaults   \* bound on requests that fail

ASSUME PanesBoundsAssumption == MaxTyped \in Nat /\ MaxPanesFaults \in Nat

VARIABLES
  typed,       \* changes made: the version in the editor
  unreported,  \* changes since the last edit event
  saveTimer, editTimer,
  requests,    \* saves and events under way
  flow,        \* Run and Submit: how far each is, and the version it was pressed on
  onDisk,      \* the version on disk
  reported,    \* changes the trace holds
  verdict,     \* what was graded and how many changes the judge was shown
  roundEnded,  \* "no", by the page, or by the server's own clock
  overlapped,  \* two saves were under way at once
  loose,       \* an edit event was under way, unawaited, when Submit was pressed
  panesFaults

panesVars == <<typed, unreported, saveTimer, editTimer, requests, flow, onDisk,
               reported, verdict, roundEnded, overlapped, loose, panesFaults>>

Versions == 0..MaxTyped
Flows == {"run", "end"}
NoFlow == [stage |-> "idle", pressed |-> 0]
NotJudged == [graded |-> 0, shown |-> 0, done |-> FALSE]

PanesTypeOK ==
  /\ {typed, unreported, onDisk, reported} \subseteq Versions
  /\ {saveTimer, editTimer, overlapped, loose} \subseteq BOOLEAN
  /\ \A q \in requests :
       q \in [kind : {"save", "file_save", "edit"}, upTo : Versions, changes : Versions,
              tracked : BOOLEAN, for : SUBSET Flows, accepted : BOOLEAN]
  /\ flow \in [Flows -> [stage : {"idle", "flushing", "over"}, pressed : Versions]]
  /\ verdict \in [graded : Versions, shown : Versions, done : BOOLEAN]
  /\ roundEnded \in {"no", "page", "clock"}
  /\ panesFaults \in 0..MaxPanesFaults

PanesInit ==
  /\ typed = 0 /\ unreported = 0
  /\ saveTimer = FALSE /\ editTimer = FALSE
  /\ requests = {}
  /\ flow = [f \in Flows |-> NoFlow]
  /\ onDisk = 0 /\ reported = 0
  /\ verdict = NotJudged
  /\ roundEnded = "no"
  /\ overlapped = FALSE /\ loose = FALSE
  /\ panesFaults = 0

---------------------------------------------------------------------------
(* The page.                                                               *)

\* A change made after the round ended reaches nothing.
Types ==
  /\ typed < MaxTyped /\ roundEnded = "no"
  /\ typed' = typed + 1
  /\ unreported' = unreported + 1
  /\ saveTimer' = TRUE /\ editTimer' = TRUE
  /\ UNCHANGED <<requests, flow, onDisk, reported, verdict, roundEnded,
                 overlapped, loose, panesFaults>>

\* What the request carries is named by the change it goes up to.  A tracked
\* one is known to flushSaves; "for" says which button waits for it.
Request(kind, changes, tracked) ==
  [kind |-> kind, upTo |-> typed, changes |-> changes, tracked |-> tracked, for |-> {},
   accepted |-> FALSE]

Saving == \E q \in requests : q.kind = "save"

SaveTimerFires ==
  /\ saveTimer
  /\ saveTimer' = FALSE
  /\ requests' = requests \cup {Request("save", 0, TRUE)}
  /\ overlapped' = (overlapped \/ Saving)
  /\ UNCHANGED <<typed, unreported, editTimer, flow, onDisk, reported, verdict, roundEnded,
                 loose, panesFaults>>

\* The timer's own event is sent and forgotten.
EditTimerFires ==
  /\ editTimer
  /\ editTimer' = FALSE
  /\ unreported' = 0
  /\ requests' = requests \cup {Request("edit", unreported, FALSE)}
  /\ UNCHANGED <<typed, saveTimer, flow, onDisk, reported, verdict, roundEnded,
                 overlapped, loose, panesFaults>>

\* As if pressing the button waited for nothing.
AwaitsNothing(reqs, f) == reqs

\* Promise.all of the requests that are tracked
Awaited(reqs, f) == {IF q.tracked THEN [q EXCEPT !.for = @ \cup {f}] ELSE q : q \in reqs}

\* Run or Submit is pressed, or the time is up: flushSaves.
Presses(f) ==
  /\ flow[f].stage = "idle"
  /\ flow["end"].stage = "idle"
  /\ LET edits == IF editTimer THEN {Request("edit", unreported, TRUE)} ELSE {}
         saves == IF saveTimer THEN {Request("save", 0, TRUE)} ELSE {}
     IN  /\ requests' = Awaited(requests \cup edits \cup saves, f)
         /\ overlapped' = (overlapped \/ (saves # {} /\ Saving))
  /\ flow' = [flow EXCEPT ![f] = [stage |-> "flushing", pressed |-> typed]]
  /\ loose' = (loose \/ (f = "end" /\ \E q \in requests : q.kind = "edit" /\ ~ q.tracked))
  /\ saveTimer' = FALSE /\ editTimer' = FALSE
  /\ unreported' = 0
  /\ UNCHANGED <<typed, onDisk, reported, verdict, roundEnded, panesFaults>>

\* The flush is over: POST /api/run or /api/end is on its way.
Flushed(f) ==
  /\ flow[f].stage = "flushing"
  /\ \A q \in requests : f \notin q.for

---------------------------------------------------------------------------
(* The server.                                                             *)

\* The check made before the body is read: refused once the round has ended.
\* The page does not look at a refusal, and goes on to report the save.
Arrives(q) ==
  /\ q \in requests /\ ~ q.accepted
  /\ requests' = (requests \ {q}) \cup
       (IF roundEnded = "no" THEN {[q EXCEPT !.accepted = TRUE]}
        ELSE IF q.kind = "save" THEN {[q EXCEPT !.kind = "file_save"]} ELSE {})
  /\ UNCHANGED <<typed, unreported, saveTimer, editTimer, flow, onDisk, reported,
                 verdict, roundEnded, overlapped, loose, panesFaults>>

\* PUT /api/file; POST /api/panes-event
TakesEffect(q) ==
  /\ q \in requests /\ q.accepted
  /\ requests' = (requests \ {q}) \cup
       (IF q.kind = "save" THEN {[q EXCEPT !.kind = "file_save", !.accepted = FALSE]} ELSE {})
  /\ onDisk' = IF q.kind = "save" THEN q.upTo ELSE onDisk
  /\ reported' = IF q.kind = "edit" THEN reported + q.changes ELSE reported
  /\ UNCHANGED <<typed, unreported, saveTimer, editTimer, flow, verdict,
                 roundEnded, overlapped, loose, panesFaults>>

\* The request fails on the way; the page swallows the error and does not save
\* again before the next change.
Fails(q) ==
  /\ q \in requests /\ ~ q.accepted
  /\ panesFaults < MaxPanesFaults
  /\ panesFaults' = panesFaults + 1
  /\ requests' = requests \ {q}
  /\ UNCHANGED <<typed, unreported, saveTimer, editTimer, flow, onDisk, reported,
                 verdict, roundEnded, overlapped, loose>>

\* POST /api/run, and the end of the suite
RunsSuite ==
  /\ Flushed("run")
  /\ flow' = [flow EXCEPT !["run"].stage = "over"]
  /\ UNCHANGED <<typed, unreported, saveTimer, editTimer, requests, onDisk,
                 reported, verdict, roundEnded, overlapped, loose, panesFaults>>

\* POST /api/end, refused when the server's clock came first
EndsRound ==
  /\ Flushed("end")
  /\ flow' = [flow EXCEPT !["end"].stage = "over"]
  /\ IF roundEnded = "no"
     THEN /\ roundEnded' = "page"
          /\ verdict' = [verdict EXCEPT !.shown = reported]
     ELSE UNCHANGED <<roundEnded, verdict>>
  /\ UNCHANGED <<typed, unreported, saveTimer, editTimer, requests, onDisk,
                 reported, overlapped, loose, panesFaults>>

ClockEnds ==
  /\ roundEnded = "no"
  /\ roundEnded' = "clock"
  /\ verdict' = [verdict EXCEPT !.shown = reported]
  /\ UNCHANGED <<typed, unreported, saveTimer, editTimer, requests, flow, onDisk,
                 reported, overlapped, loose, panesFaults>>

\* The graded run reads the files.
Grades ==
  /\ roundEnded # "no" /\ ~ verdict.done
  /\ verdict' = [verdict EXCEPT !.graded = onDisk, !.done = TRUE]
  /\ UNCHANGED <<typed, unreported, saveTimer, editTimer, requests, flow, onDisk,
                 reported, roundEnded, overlapped, loose, panesFaults>>

PanesNext ==
  \/ Types \/ SaveTimerFires \/ EditTimerFires
  \/ \E f \in Flows : Presses(f)
  \/ \E q \in requests : Arrives(q) \/ TakesEffect(q) \/ Fails(q)
  \/ RunsSuite \/ EndsRound \/ ClockEnds \/ Grades

---------------------------------------------------------------------------
(* What Submit promises.                                                   *)

\* What was in the editor when Submit was pressed is on disk when it is graded
\* and known to the judge, whatever timers and requests were under way.  There
\* are three exceptions: a save that failed is not repeated; two saves of a
\* file may overtake each other; and an edit event that its timer had just sent
\* is not awaited ("every flush awaits these", panes.js), so that the judge may
\* not see it.
SubmittedIsGraded ==
  roundEnded = "page" /\ panesFaults = 0 =>
    /\ ~ overlapped /\ verdict.done => verdict.graded >= flow["end"].pressed
    /\ ~ loose => verdict.shown >= flow["end"].pressed
=============================================================================
