-------------------------- MODULE InterviewerTurns --------------------------
(***************************************************************************)
(* When the interviewer of a round speaks, and to whose words              *)
(* (server/src/session.ts: routeUtterance, pump, runInterviewer and the    *)
(* initiative tick; TurnQueue in interviewer.ts; SpeechTurnBuffer in       *)
(* endpoint.ts; the wrap-up phase of wrapup.ts).                           *)
(*                                                                         *)
(* Words reach the interviewer typed or spoken; spoken ones are held until *)
(* the candidate falls silent.  Each turn of the candidate is either        *)
(* plainly addressed, or is judged by a model (the intent check) while     *)
(* others arrive.  Addressed turns wait in a queue of two; a settling       *)
(* timer drains it into one reply.  A tick takes the initiative on other   *)
(* occasions.  One flag, interviewerBusy, keeps all this to one voice.      *)
(*                                                                         *)
(* A step is the code between two awaits.  Clocks are left out: a guard    *)
(* interval may have passed or not, and a detector may see its signal or   *)
(* not, whenever its other conditions hold.  A turn of the candidate is    *)
(* the set of utterances it joins.                                         *)
(***************************************************************************)
EXTENDS Naturals, Sequences

CONSTANTS
  Words,         \* utterances the candidate may make
  Episodes,      \* episodes of being stuck
  MaxInitiatives \* bound on turns the tick takes

Occasions == {"reply", "engage", "opening", "question", "closing", "redirect", "other"}

ASSUME EpisodesAssumption == Episodes \cap Occasions = {}
ASSUME BoundAssumption == MaxInitiatives \in Nat

QUEUE_CAP == 2            \* new TurnQueue(2)
WRAP_UP_QUESTIONS == 3
MAX_REDACTIONS == 2       \* of one stuck episode, and of the adrift redirect

VARIABLES
  arrived,          \* sessionStartedAt is set
  ended,            \* the ended flag
  unsaid,           \* words not uttered yet
  held,             \* SpeechTurnBuffer.segments
  checking,         \* turns whose intent check is out
  queue,            \* TurnQueue.items
  settling,         \* settleTimer is set
  busy,             \* interviewerBusy
  calls,            \* model calls that are out
  wrapUp,           \* wrapUpAt is set
  wrapAsked,        \* wrapQuestionsAsked
  wrapClosed,
  adriftFired,
  adriftRedactions,
  stuckRedactions,
  put,              \* history: how often each word was put to the model
  evicted,          \* history: words the queue's cap dropped
  dismissed,        \* history: words judged narration, or whose check failed
  redirects,        \* history: adrift redirects spoken
  initiatives       \* turns the tick has taken

room == <<arrived, ended, unsaid>>
words == <<held, checking, queue>>
wrap == <<wrapUp, wrapAsked, wrapClosed>>
help == <<adriftFired, adriftRedactions, stuckRedactions, redirects>>
vars == <<arrived, ended, unsaid, held, checking, queue, settling, busy, calls,
          wrapUp, wrapAsked, wrapClosed, adriftFired, adriftRedactions,
          stuckRedactions, put, evicted, dismissed, redirects, initiatives>>

\* What a model call is for: an occasion, or a stuck episode.  "other" stands
\* for the warm, moment and pressure turns, which keep no books of their own.
Lanes == Occasions \cup Episodes
Call == [words : SUBSET Words, lane : Lanes, carries : BOOLEAN]

Joined(q) == UNION {q[i] : i \in 1..Len(q)}
Queued == Joined(queue)

TypeOK ==
  /\ arrived \in BOOLEAN /\ ended \in BOOLEAN
  /\ unsaid \subseteq Words
  /\ held \subseteq Words
  /\ checking \subseteq SUBSET Words
  /\ queue \in Seq(SUBSET Words) /\ Len(queue) <= QUEUE_CAP
  /\ settling \in BOOLEAN /\ busy \in BOOLEAN
  /\ calls \subseteq Call
  /\ wrapUp \in BOOLEAN /\ wrapClosed \in BOOLEAN
  /\ wrapAsked \in Nat
  /\ adriftFired \in BOOLEAN
  /\ adriftRedactions \in Nat
  /\ stuckRedactions \in [Episodes -> Nat]
  /\ put \in [Words -> Nat]
  /\ evicted \subseteq Words /\ dismissed \subseteq Words
  /\ redirects \in Nat
  /\ initiatives \in 0..MaxInitiatives

Init ==
  /\ arrived = FALSE /\ ended = FALSE
  /\ unsaid = Words /\ held = {} /\ checking = {} /\ queue = <<>>
  /\ settling = FALSE /\ busy = FALSE /\ calls = {}
  /\ wrapUp = FALSE /\ wrapAsked = 0 /\ wrapClosed = FALSE
  /\ adriftFired = FALSE /\ adriftRedactions = 0
  /\ stuckRedactions = [e \in Episodes |-> 0]
  /\ put = [w \in Words |-> 0]
  /\ evicted = {} /\ dismissed = {} /\ redirects = 0 /\ initiatives = 0

---------------------------------------------------------------------------
(* The queue, its pump and the call.                                       *)

\* TurnQueue.push: beyond the cap the oldest turn drops.
PushUnbounded(turn) ==
  /\ queue' = Append(queue, turn)
  /\ evicted' = evicted
Push(turn) ==
  LET items == Append(queue, turn)
  IN  IF Len(items) > QUEUE_CAP
      THEN queue' = Tail(items) /\ evicted' = evicted \cup Head(items)
      ELSE queue' = items /\ evicted' = evicted

\* pump(), with interviewerBusy as it is by then.
Pump(isBusy) ==
  settling' = (settling \/ (~ ended /\ ~ isBusy /\ queue' # <<>>))

\* While the wrap-up is open every reply carries its next question.
Carries(turn) ==
  turn # {} /\ wrapUp /\ ~ wrapClosed /\ wrapAsked < WRAP_UP_QUESTIONS

\* runInterviewer up to its model call.  What it is given while a call is out,
\* or after the end, is lost.
RunUnlocked(turn, lane) ==
  IF ended \/ busy THEN UNCHANGED <<busy, calls, put>>
  ELSE /\ UNCHANGED busy
       /\ calls' = calls \cup {[words |-> turn, lane |-> lane, carries |-> Carries(turn)]}
       /\ put' = [w \in Words |-> put[w] + IF w \in turn THEN 1 ELSE 0]
RunInterviewer(turn, lane) ==
  IF ended \/ busy THEN UNCHANGED <<busy, calls, put>>
  ELSE /\ busy' = TRUE
       /\ calls' = calls \cup {[words |-> turn, lane |-> lane, carries |-> Carries(turn)]}
       /\ put' = [w \in Words |-> put[w] + IF w \in turn THEN 1 ELSE 0]

---------------------------------------------------------------------------
(* The candidate.                                                          *)

\* markCandidateContact, and the opening turn.
Arrive ==
  /\ ~ arrived /\ ~ ended
  /\ arrived' = TRUE
  /\ RunInterviewer({}, "opening")
  /\ UNCHANGED <<ended, unsaid, words, settling, wrap, help, evicted, dismissed,
                 initiatives>>

\* routeUtterance: a fast path, or the intent check is sent.
Route(turn) ==
  IF ended
  THEN UNCHANGED <<checking, queue, evicted, settling>>
  ELSE \/ /\ Push(turn)
          /\ Pump(busy)
          /\ UNCHANGED checking
       \/ /\ checking' = checking \cup {turn}
          /\ UNCHANGED <<queue, evicted, settling>>

\* /api/utterance; its body may arrive after the end, and is then not routed.
Type(w) ==
  /\ arrived
  /\ w \in unsaid
  /\ unsaid' = unsaid \ {w}
  /\ Route({w})
  /\ UNCHANGED <<arrived, ended, held, busy, calls, wrap, help, put, dismissed,
                 initiatives>>

\* A segment's transcript arrives: SpeechTurnBuffer.push.
Speak(w) ==
  /\ arrived /\ ~ ended
  /\ w \in unsaid
  /\ unsaid' = unsaid \ {w}
  /\ held' = held \cup {w}
  /\ UNCHANGED <<arrived, ended, checking, queue, settling, busy, calls, wrap, help,
                 put, evicted, dismissed, initiatives>>

\* The endpoint timer: the candidate has been silent long enough.
Flush ==
  /\ ~ ended
  /\ held # {}
  /\ held' = {}
  /\ Route(held)
  /\ UNCHANGED <<room, busy, calls, wrap, help, put, dismissed, initiatives>>

---------------------------------------------------------------------------
(* The intent check answers.                                               *)

\* Narration; or the check failed, which is taken for narration.
JudgedSilent(turn) ==
  /\ turn \in checking
  /\ checking' = checking \ {turn}
  /\ dismissed' = dismissed \cup turn
  /\ UNCHANGED <<room, held, queue, settling, busy, calls, wrap, help, put, evicted,
                 initiatives>>

\* Addressed; or, while the wrap-up is open, any completed thought.
JudgedAddressed(turn) ==
  /\ turn \in checking
  /\ checking' = checking \ {turn}
  /\ Push(turn)
  /\ Pump(busy)
  /\ UNCHANGED <<room, held, busy, calls, wrap, help, put, dismissed, initiatives>>

\* A completed thought: answered only if nothing else is going on and its own
\* guards (not modelled) have passed; otherwise it is let go.
JudgedEngaging(turn) ==
  /\ turn \in checking
  /\ ~ (wrapUp /\ ~ wrapClosed)
  /\ checking' = checking \ {turn}
  /\ \/ /\ ~ busy /\ queue = <<>> /\ ~ ended
        /\ RunInterviewer(turn, "engage")
        /\ UNCHANGED dismissed
     \/ /\ dismissed' = dismissed \cup turn
        /\ UNCHANGED <<busy, calls, put>>
  /\ UNCHANGED <<room, held, queue, settling, wrap, help, evicted, initiatives>>

---------------------------------------------------------------------------
(* The interviewer.                                                        *)

\* The settle timer: everything queued becomes one reply.
SettleAnyway ==
  /\ settling
  /\ settling' = FALSE
  /\ IF ended
     THEN UNCHANGED <<queue, busy, calls, put>>
     ELSE queue' = <<>> /\ RunInterviewer(Queued, "reply")
  /\ UNCHANGED <<room, held, checking, wrap, help, evicted, dismissed, initiatives>>
Settle ==
  /\ settling
  /\ settling' = FALSE
  /\ IF ended \/ busy \/ queue = <<>>
     THEN UNCHANGED <<queue, busy, calls, put>>
     ELSE queue' = <<>> /\ RunInterviewer(Queued, "reply")
  /\ UNCHANGED <<room, held, checking, wrap, help, evicted, dismissed, initiatives>>

\* The topic of the wrap lane's next turn.
WrapLaneEarly == IF wrapAsked + 1 >= WRAP_UP_QUESTIONS THEN "closing" ELSE "question"
WrapLane == IF wrapAsked >= WRAP_UP_QUESTIONS THEN "closing" ELSE "question"

\* detectWrapSignal: a green run that stands, or a phrase saying they are done.
WrapSignal == \E armed \in BOOLEAN : wrapUp' = (wrapUp \/ armed)

\* shouldAutoFinalize: a sign-off left unanswered ends the round.
AutoFinalize ==
  /\ wrapUp'
  /\ wrapClosed
  /\ ended' = TRUE

\* What the tick may take up: the wrap-up owns initiative; otherwise help, a
\* redirect, or a probe.
Offered ==
  IF wrapUp' THEN IF wrapClosed THEN {} ELSE {WrapLane}
  ELSE {"other"} \cup (IF adriftFired THEN {} ELSE {"redirect"})
         \cup {e \in Episodes : stuckRedactions[e] < MAX_REDACTIONS}

\* The initiative tick.
Tick ==
  /\ arrived /\ ~ ended /\ ~ busy
  /\ WrapSignal
  /\ \/ /\ AutoFinalize
        /\ UNCHANGED <<busy, calls, put, initiatives>>
     \/ /\ initiatives < MaxInitiatives
        /\ initiatives' = initiatives + 1
        /\ \E lane \in Offered : RunInterviewer({}, lane)
        /\ UNCHANGED ended
     \/ /\ wrapUp' # wrapUp
        /\ UNCHANGED <<ended, busy, calls, put, initiatives>>
  /\ UNCHANGED <<arrived, unsaid, words, settling, wrapAsked, wrapClosed, help, evicted,
                 dismissed>>

\* A redirect the leak guard silenced twice is given up.
GivenUpLate(n) == n > MAX_REDACTIONS
GivenUp(n) == n >= MAX_REDACTIONS

\* The books of a turn that is spoken: with a question in it, or without.
Spoken(c, asks) ==
  /\ wrapAsked' =
       wrapAsked + (IF c.lane = "question" \/ (c.carries /\ asks) THEN 1 ELSE 0)
  /\ wrapClosed' = (wrapClosed \/ c.lane = "closing")
  /\ adriftFired' = (adriftFired \/ c.lane = "redirect")
  /\ redirects' = redirects + (IF c.lane = "redirect" THEN 1 ELSE 0)
  /\ UNCHANGED <<wrapUp, adriftRedactions, stuckRedactions>>

\* The books of an unprompted turn the leak guard silenced.
Redacted(c) ==
  /\ c.words = {}
  /\ IF c.lane = "redirect"
     THEN /\ adriftRedactions' = adriftRedactions + 1
          /\ adriftFired' = (adriftFired \/ GivenUp(adriftRedactions'))
     ELSE UNCHANGED <<adriftRedactions, adriftFired>>
  /\ stuckRedactions' =
       [e \in Episodes |-> stuckRedactions[e] + IF c.lane = e THEN 1 ELSE 0]
  /\ UNCHANGED <<wrap, redirects>>

\* runInterviewer from the model's answer on, finally included.  The turn is
\* spoken, redacted, or comes to nothing: silence, or an error.
FinishWithoutPump(c) ==
  /\ c \in calls
  /\ calls' = calls \ {c}
  /\ busy' = FALSE
  /\ \/ \E asks \in BOOLEAN : Spoken(c, asks)
     \/ Redacted(c)
     \/ UNCHANGED <<wrap, help>>
  /\ UNCHANGED <<room, words, settling, put, evicted, dismissed, initiatives>>
Finish(c) ==
  /\ c \in calls
  /\ calls' = calls \ {c}
  /\ busy' = FALSE
  /\ \/ \E asks \in BOOLEAN : Spoken(c, asks)
     \/ Redacted(c)
     \/ UNCHANGED <<wrap, help>>
  /\ UNCHANGED queue
  /\ Pump(FALSE)
  /\ UNCHANGED <<room, held, checking, put, evicted, dismissed, initiatives>>

\* The round ends by one of SessionRound's other paths.
End ==
  /\ ~ ended
  /\ ended' = TRUE
  /\ UNCHANGED <<arrived, unsaid, words, settling, busy, calls, wrap, help, put, evicted,
                 dismissed, initiatives>>

Next ==
  \/ Arrive
  \/ \E w \in Words : Type(w) \/ Speak(w)
  \/ Flush
  \/ \E turn \in checking :
       JudgedSilent(turn) \/ JudgedAddressed(turn) \/ JudgedEngaging(turn)
  \/ Settle
  \/ Tick
  \/ \E c \in calls : Finish(c)
  \/ End

\* Model calls and intent checks are bounded by timeouts, the candidate pauses
\* (or an open segment goes stale), and the settle timer (600 ms) fires between
\* two ticks (30 s apart) often enough.
Fairness ==
  /\ WF_vars(\E c \in calls : Finish(c))
  /\ WF_vars(\E turn \in checking :
       JudgedSilent(turn) \/ JudgedAddressed(turn) \/ JudgedEngaging(turn))
  /\ WF_vars(Flush)
  /\ WF_vars(Settle)
  /\ SF_vars(~ busy /\ Settle)

Spec == Init /\ [][Next]_vars
FairSpec == Spec /\ Fairness

---------------------------------------------------------------------------
(* Properties.                                                             *)

\* The interviewer never composes two turns at once, however replies, checks
\* that come back late and initiative coincide (interviewerBusy).
OneVoice ==
  /\ \A c, d \in calls : c = d
  /\ busy <=> calls # {}

\* No word of the candidate is lost or used twice on its way: until the round
\* ends each is in exactly one place, held, being judged, queued, put to the
\* interviewer once, dropped by the queue's cap, or dismissed as narration
\* (pump's and the settle timer's tests of interviewerBusy, drain, Push).
At(w, place) == IF w \in place THEN 1 ELSE 0
Whereabouts(w) ==
  At(w, unsaid) + At(w, held) + At(w, UNION checking) + At(w, Queued)
    + put[w] + At(w, evicted) + At(w, dismissed)
WordsAccounted ==
  \A w \in Words : Whereabouts(w) <= 1 /\ (~ ended => Whereabouts(w) = 1)

\* The wrap-up asks its three questions, by its own turns or carried by
\* replies, signs off only after the third, and asks none after signing off.
WrapRunsItsCourse ==
  /\ wrapAsked <= WRAP_UP_QUESTIONS
  /\ wrapClosed => wrapAsked = WRAP_UP_QUESTIONS
  /\ wrapAsked > 0 => wrapUp
  /\ \A c \in calls :
       /\ c.carries \/ c.lane = "question" => wrapAsked < WRAP_UP_QUESTIONS
       /\ c.lane = "closing" => ~ wrapClosed

\* The candidate is told at most once that the region they read is spent, and
\* the guard silences that redirect at most twice (once, if it was ever
\* spoken), and the hints of one stuck episode at most twice, before the lane
\* gives up: at dispatch the budget is read, after the model call it is spent.
HelpIsBudgeted ==
  /\ redirects <= 1
  /\ redirects + adriftRedactions <= MAX_REDACTIONS
  /\ \A e \in Episodes : stuckRedactions[e] <= MAX_REDACTIONS

\* Every word gets its due: it is put to the interviewer, dropped for newer
\* ones or dismissed, unless the round ends first.  No wake-up is lost
\* between a busy turn, the settle timer and the queue.
EveryWordSettles ==
  \A w \in Words :
    w \notin unsaid ~> put[w] = 1 \/ w \in evicted \cup dismissed \/ ended
=============================================================================
