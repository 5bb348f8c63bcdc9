------------------------------ MODULE PracticeDesk ------------------------------
(***************************************************************************)
(* The practice door: notes go in, the server answers with a draft of the  *)
(* round and a list of gaps, the candidate answers gaps and presses Start  *)
(* (the rep object of client/app.js, /api/practice/clarify and its gate in *)
(* practice-clarify.ts).                                                   *)
(*                                                                         *)
(* An answer settles its gap on the page at once.  A shape answer reaches  *)
(* the draft only through a re-check by the server, which is debounced,    *)
(* runs in the background and may overlap with anything; a flavor answer   *)
(* rides along with Start as a line of its gap.  No request carries a      *)
(* generation: whichever lands last is the one the page shows.             *)
(*                                                                         *)
(* An answer is its number: the n-th the candidate gave.  0 is what the    *)
(* model filled in, and the absence of an answer.                          *)
(***************************************************************************)
EXTENDS Naturals, FiniteSets

CONSTANTS
  ShapeGaps,      \* gaps whose answer changes the spec
  FlavorGaps,     \* gaps whose answer is a line of the context
  MaxAnswers,     \* bound on answers
  MaxClarifies,   \* bound on requests to the clarifier
  MaxPosts,       \* bound on Starts
  MaxDeskFaults   \* bound on failed requests, paywalls, blind reads and reloads

ASSUME AnswersAssumption == MaxAnswers \in Nat
ASSUME DeskFaultsAssumption == MaxDeskFaults \in Nat

VARIABLES
  phase,        \* rep.phase
  busy,         \* a re-check holds the confirm screen
  draftsStale,  \* a shape answer the draft may not reflect
  recheckTimer, recheckDirty, startQueued,
  gaps,         \* what the screen shows of each gap
  answers,      \* rep.answers
  draft,        \* the draft on the screen: the answers and the notes it was read from
  notes,        \* the version of the notes in the composer
  sourceText,   \* the version that produced the gaps
  clarifies,    \* requests under way
  asked,        \* requests sent
  gate,         \* the paywall over the screen, with the request it holds back
  kept,         \* what sessionStorage holds
  posts,        \* the rounds Start asked for
  given,        \* the candidate's latest answer to each gap
  lapses,       \* what happened that the drafts are known not to survive
  deskFaults

deskVars == <<phase, busy, draftsStale, recheckTimer, recheckDirty, startQueued, gaps,
              answers, draft, notes, sourceText, clarifies, asked, gate, kept, posts,
              given, lapses, deskFaults>>

DeskGaps == ShapeGaps \union FlavorGaps
Replies == [DeskGaps -> 0..MaxAnswers]
NoReplies == [g \in DeskGaps |-> 0]
Row == [status : {"absent", "open", "settled"}, value : 0..MaxAnswers]
Rows == [DeskGaps -> Row]
NoRows == [g \in DeskGaps |-> [status |-> "absent", value |-> 0]]
NoDraft == [read |-> NoReplies, notes |-> 0]
Notes == 0..2

\* What a correction goes back to when its request fails, and how the others fail.
NoSnapshot == [on |-> FALSE, rows |-> NoRows]
Snapshot(rows) == [on |-> TRUE, rows |-> rows]

Hold == [answers : Replies, snapshot : [on : BOOLEAN, rows : Rows]]
NoGate == [on |-> FALSE, answers |-> NoReplies, snapshot |-> NoSnapshot]

PracticeDeskTypeOK ==
  /\ phase \in {"input", "clarifying", "confirm", "started"}
  /\ {busy, draftsStale, recheckTimer, recheckDirty, startQueued, gate.on} \subseteq BOOLEAN
  /\ gaps \in Rows /\ given \in Replies
  /\ answers \in Replies
  /\ draft \in [read : Replies, notes : Notes]
  /\ {notes, sourceText} \subseteq Notes
  /\ \A c \in clarifies :
       /\ c.n \in 1..asked /\ c.answers \in Replies /\ c.first \in BOOLEAN
       /\ c.notes \in Notes /\ c.snapshot.rows \in Rows
  /\ kept.gaps \in Rows
  /\ \A p \in posts : p.spec \in Replies /\ p.truth \in Replies
  /\ lapses \subseteq {"blind", "overlap", "forgotten"}
  /\ deskFaults \in 0..MaxDeskFaults

Screen == [phase |-> phase, gaps |-> gaps, answers |-> answers, draft |-> draft,
           sourceText |-> sourceText, stale |-> draftsStale]

PracticeDeskInit ==
  /\ phase = "input"
  /\ busy = FALSE /\ draftsStale = FALSE
  /\ recheckTimer = FALSE /\ recheckDirty = FALSE /\ startQueued = FALSE
  /\ gaps = NoRows /\ answers = NoReplies
  /\ draft = NoDraft
  /\ notes = 1 /\ sourceText = 0
  /\ clarifies = {} /\ asked = 0
  /\ gate = NoGate
  /\ kept = Screen
  /\ posts = {}
  /\ given = NoReplies
  /\ lapses = {}
  /\ deskFaults = 0

\* saveRep
Keeps == kept' = Screen'

DeskFault ==
  /\ deskFaults < MaxDeskFaults
  /\ deskFaults' = deskFaults + 1

HasDraft == draft.notes # 0

---------------------------------------------------------------------------
(* Asking the clarifier.                                                   *)

\* practiceClarify up to its fetch.  The notes are the composer's where it is
\* on the screen, and those that produced the gaps elsewhere.  The first
\* reading replaces the screen; a re-check leaves it usable.
Clarify(ans, snapshot) ==
  /\ asked < MaxClarifies
  /\ asked' = asked + 1
  /\ answers' = ans
  /\ clarifies' = clarifies \union
       {[n |-> asked + 1, answers |-> ans, first |-> phase # "confirm",
         notes |-> IF phase \in {"input", "clarifying"} THEN notes ELSE sourceText,
         snapshot |-> snapshot]}
  /\ IF phase # "confirm"
     THEN phase' = "clarifying" /\ UNCHANGED busy
     ELSE busy' = TRUE /\ UNCHANGED phase
  /\ lapses' = lapses \union (IF clarifies = {} THEN {} ELSE {"overlap"})
                      \union (IF \E g \in DeskGaps : ans[g] # answers[g] THEN {"forgotten"}
                              ELSE {})

EditsNotes ==
  /\ phase \in {"input", "clarifying"} /\ ~gate.on
  /\ notes < 2
  /\ notes' = notes + 1
  /\ UNCHANGED <<phase, busy, draftsStale, recheckTimer, recheckDirty, startQueued, gaps,
                 answers, draft, sourceText, clarifies, asked, gate, kept, posts, given,
                 lapses, deskFaults>>

\* The button of the composer: back to the round when nothing changed, a
\* reading of the notes otherwise.
Generates ==
  /\ phase = "input" /\ ~gate.on
  /\ IF HasDraft /\ notes = sourceText
     THEN /\ phase' = "confirm"
          /\ UNCHANGED <<busy, answers, clarifies, asked, lapses>>
     ELSE Clarify(answers, NoSnapshot)
  /\ UNCHANGED <<draftsStale, recheckTimer, recheckDirty, startQueued, gaps, draft, notes,
                 sourceText, gate, posts, given, deskFaults>>
  /\ IF phase' = "confirm" THEN Keeps ELSE UNCHANGED kept

\* The keyboard's way to the same passes no answers.
GeneratesByKey ==
  /\ phase \in {"input", "clarifying"} /\ ~gate.on
  /\ Clarify(NoReplies, NoSnapshot)
  /\ UNCHANGED <<draftsStale, recheckTimer, recheckDirty, startQueued, gaps, draft, notes,
                 sourceText, gate, kept, posts, given, deskFaults>>

GoesBack ==
  /\ phase = "confirm" /\ ~gate.on
  /\ phase' = "input"
  /\ UNCHANGED <<busy, draftsStale, recheckTimer, recheckDirty, startQueued, gaps, answers,
                 draft, notes, sourceText, clarifies, asked, gate, posts, given, lapses,
                 deskFaults>>
  /\ Keeps

\* "not right?": the box is closed while a re-check is under way.
Corrects ==
  /\ phase = "confirm" /\ ~busy /\ ~gate.on
  /\ Clarify(answers, Snapshot(gaps))
  /\ UNCHANGED <<draftsStale, recheckTimer, recheckDirty, startQueued, gaps, draft, notes,
                 sourceText, gate, kept, posts, given, deskFaults>>

---------------------------------------------------------------------------
(* Answering.                                                              *)

GivenSoFar == Cardinality({n \in 1..MaxAnswers : \E g \in DeskGaps : given[g] >= n})

\* answerGap, scheduleRecheck
AnswersGap(g) ==
  /\ phase = "confirm" /\ ~gate.on
  /\ gaps[g].status # "absent"
  /\ GivenSoFar < MaxAnswers
  /\ LET a == GivenSoFar + 1 IN
       /\ answers' = [answers EXCEPT ![g] = a]
       /\ given' = [given EXCEPT ![g] = a]
       /\ gaps' = [gaps EXCEPT ![g] = [status |-> "settled", value |-> a]]
  /\ IF g \in ShapeGaps
     THEN /\ draftsStale' = TRUE
          /\ IF busy THEN recheckDirty' = TRUE /\ UNCHANGED recheckTimer
                     ELSE recheckTimer' = TRUE /\ UNCHANGED recheckDirty
     ELSE UNCHANGED <<draftsStale, recheckTimer, recheckDirty>>
  /\ UNCHANGED <<phase, busy, startQueued, draft, notes, sourceText, clarifies, asked, gate,
                 posts, lapses, deskFaults>>
  /\ Keeps

\* runRecheck
RunRecheck ==
  /\ recheckTimer' = FALSE
  /\ IF busy
     THEN /\ recheckDirty' = TRUE
          /\ UNCHANGED <<phase, busy, answers, clarifies, asked, lapses>>
     ELSE /\ Clarify(answers, NoSnapshot)
          /\ UNCHANGED recheckDirty

RecheckTimerFires ==
  /\ recheckTimer
  /\ RunRecheck
  /\ UNCHANGED <<draftsStale, startQueued, gaps, draft, notes, sourceText, gate, kept, posts,
                 given, deskFaults>>

---------------------------------------------------------------------------
(* The answer of the clarifier.                                            *)

\* gatePracticeClarify, deriveRuntimeGaps: an answered gap is settled with its
\* answer, unless the model left it out; of the others, anything.
ServerRows(ans) ==
  {r \in Rows : \A g \in DeskGaps :
     /\ r[g].value = (IF r[g].status = "settled" THEN ans[g] ELSE 0)
     /\ ans[g] # 0 => r[g].status # "open"}

\* mergeGaps: the server's word on what is open; what the candidate answered
\* stays, in the server's version where it is settled there.
Merged(rows) ==
  [g \in DeskGaps |->
     IF answers[g] # 0 /\ gaps[g].status # "absent" /\ rows[g].status # "settled"
     THEN gaps[g] ELSE rows[g]]

Post(spec, lost) == [spec |-> spec, truth |-> given, lapses |-> lost]

\* The landing of a reading.  A blind one, read from the notes alone after the
\* clarifier failed, knows nothing of the answers.
LandsReading(c, blind) ==
  LET read == IF blind THEN NoReplies ELSE c.answers
      lost == lapses \union (IF blind THEN {"blind"} ELSE {})
      stays == phase = "input" /\ ~c.first
      resumed == startQueued /\ ~recheckDirty
  IN
  /\ clarifies' = clarifies \ {c}
  /\ draft' = [read |-> read, notes |-> c.notes]
  /\ \E rows \in ServerRows(c.answers) : gaps' = Merged(rows)
  /\ sourceText' = c.notes
  /\ phase' = IF stays THEN phase ELSE "confirm"
  /\ busy' = FALSE
  /\ recheckDirty' = FALSE
  /\ IF recheckDirty THEN recheckTimer' = TRUE /\ UNCHANGED draftsStale
                     ELSE draftsStale' = FALSE /\ UNCHANGED recheckTimer
  /\ lapses' = lost
  /\ startQueued' = (startQueued /\ ~resumed)
  /\ posts' = IF resumed /\ ~stays /\ Cardinality(posts) < MaxPosts
              THEN posts \union {Post(read, lost)} ELSE posts
  /\ UNCHANGED <<answers, notes, asked, gate, given>>
  /\ Keeps

Lands(c) == LandsReading(c, FALSE) /\ UNCHANGED deskFaults
LandsBlind(c) == LandsReading(c, TRUE) /\ DeskFault

FallBack == IF HasDraft THEN "confirm" ELSE "input"

\* An error, or an answer that never came.
ClarifyFails(c) ==
  /\ DeskFault
  /\ clarifies' = clarifies \ {c}
  /\ gaps' = IF c.snapshot.on THEN c.snapshot.rows ELSE gaps
  /\ draftsStale' = (draftsStale \/ (~c.snapshot.on /\ ~c.first))
  /\ busy' = FALSE /\ startQueued' = FALSE
  /\ phase' = FallBack
  /\ UNCHANGED <<recheckTimer, recheckDirty, answers, draft, notes, sourceText, asked, gate,
                 kept, posts, given, lapses>>

\* The allowance is spent: the paywall opens over the screen.
ClarifyIsGated(c) ==
  /\ DeskFault
  /\ ~gate.on
  /\ clarifies' = clarifies \ {c}
  /\ busy' = FALSE /\ startQueued' = FALSE
  /\ phase' = FallBack
  /\ gate' = [on |-> TRUE, answers |-> answers, snapshot |-> c.snapshot]
  /\ UNCHANGED <<draftsStale, recheckTimer, recheckDirty, gaps, answers, draft, notes,
                 sourceText, asked, posts, given, lapses>>
  /\ Keeps

GateProceeds ==
  /\ gate.on
  /\ gate' = NoGate
  /\ Clarify(gate.answers, gate.snapshot)
  /\ UNCHANGED <<draftsStale, recheckTimer, recheckDirty, startQueued, gaps, draft, notes,
                 sourceText, kept, posts, given, deskFaults>>

GateIsDismissed ==
  /\ gate.on
  /\ gate' = NoGate
  /\ UNCHANGED <<phase, busy, draftsStale, recheckTimer, recheckDirty, startQueued, gaps,
                 answers, draft, notes, sourceText, clarifies, asked, kept, posts, given,
                 lapses, deskFaults>>

---------------------------------------------------------------------------
(* Start, a reload, and leaving.                                           *)

MustRecheckWhileBusy == busy
MustRecheck == draftsStale \/ busy

\* practiceStart: a stale draft is re-checked first and Start waits for it.
PressesStart ==
  /\ phase = "confirm" /\ ~gate.on /\ ~startQueued
  /\ HasDraft
  /\ IF MustRecheck
     THEN /\ startQueued' = TRUE
          /\ IF busy
             THEN UNCHANGED <<recheckTimer, recheckDirty, phase, busy, answers, clarifies,
                              asked, lapses>>
             ELSE RunRecheck
          /\ UNCHANGED posts
     ELSE /\ Cardinality(posts) < MaxPosts
          /\ posts' = posts \union {Post(draft.read, lapses)}
          /\ UNCHANGED <<startQueued, recheckTimer, recheckDirty, phase, busy, answers,
                         clarifies, asked, lapses>>
  /\ UNCHANGED <<draftsStale, gaps, draft, notes, sourceText, gate, kept, given, deskFaults>>

\* A Start is accepted, or answered "already building"; a refused one leaves
\* the screen as it is.
StartIsAccepted ==
  /\ posts # {} /\ phase # "started"
  /\ phase' = "started"
  /\ UNCHANGED <<busy, draftsStale, recheckTimer, recheckDirty, startQueued, gaps, answers,
                 draft, notes, sourceText, clarifies, asked, gate, posts, given, lapses,
                 deskFaults>>
  /\ Keeps

\* hydrateRep: what was under way is gone, staleness is not.
Reloads ==
  /\ DeskFault
  /\ phase' = IF kept.phase = "started" THEN "started"
              ELSE IF kept.draft.notes # 0 THEN "confirm" ELSE "input"
  /\ gaps' = kept.gaps /\ answers' = kept.answers /\ draft' = kept.draft
  /\ sourceText' = kept.sourceText /\ draftsStale' = kept.stale
  /\ busy' = FALSE /\ recheckTimer' = FALSE /\ recheckDirty' = FALSE /\ startQueued' = FALSE
  /\ clarifies' = {} /\ gate' = NoGate
  /\ UNCHANGED <<notes, asked, kept, posts, given, lapses>>

\* Leaving the page drops what did not start; a reading under way still lands.
LeavesDesk ==
  /\ DeskFault
  /\ phase' = "input" /\ draft' = NoDraft /\ sourceText' = 0 /\ draftsStale' = FALSE
  /\ gaps' = NoRows /\ answers' = NoReplies /\ given' = NoReplies
  /\ busy' = FALSE /\ recheckTimer' = FALSE /\ recheckDirty' = FALSE /\ startQueued' = FALSE
  /\ lapses' = lapses \union (IF clarifies = {} THEN {} ELSE {"overlap"})
  /\ UNCHANGED <<notes, clarifies, asked, gate, posts>>
  /\ Keeps

PracticeDeskNext ==
  \/ EditsNotes \/ Generates \/ GeneratesByKey \/ GoesBack \/ Corrects
  \/ \E g \in DeskGaps : AnswersGap(g)
  \/ RecheckTimerFires
  \/ \E c \in clarifies :
       Lands(c) \/ LandsBlind(c) \/ ClarifyFails(c) \/ ClarifyIsGated(c)
  \/ GateProceeds \/ GateIsDismissed
  \/ PressesStart \/ StartIsAccepted \/ Reloads \/ LeavesDesk

---------------------------------------------------------------------------
(* Properties.                                                             *)

\* "Stale drafts never ship" (practiceStart): the spec Start asks for was read
\* with the candidate's latest answer to every gap that shapes it, whatever
\* was debounced, queued, failed, gated or reloaded in between.  Three cases
\* are excepted, and the draft is wrong in each: a blind read that knew no
\* answers, two requests of the clarifier under way at once (or one the
\* candidate walked away from), and the key that generates without the
\* answers.
StaleDraftsNeverShip ==
  \A p \in posts : p.lapses = {} => \A g \in ShapeGaps : p.spec[g] = p.truth[g]
=============================================================================
