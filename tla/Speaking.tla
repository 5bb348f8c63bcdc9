-------------------------------- MODULE Speaking --------------------------------
(***************************************************************************)
(* What an interviewer turn may say, and what counts as an answer to it    *)
(* (interviewer.ts, addressing.ts, ack.ts, and their callers in            *)
(* session.ts), in a round that has a grading key.                         *)
(*                                                                         *)
(* A turn is composed from the trace as it was when the model was called,  *)
(* and its text passes a guard before anybody hears it.  What the player   *)
(* says is written to the trace at once but routed later, when the speech  *)
(* buffer takes the turn to be over, and is then held against the trace of *)
(* that moment.  Who waits for whom, the queue, the engage lane, the       *)
(* wrap-up's counts and the budgets of the lanes are InterviewerTurns'     *)
(* subject: here a lane may speak whenever the interviewer is free.  The   *)
(* health chip is left out.                                                *)
(***************************************************************************)
EXTENDS Naturals, Sequences, FiniteSets, FiniteSetsExt

CONSTANTS
  KeyFiles,                \* files the grading key names
  QUESTION_STREAK_LIMIT,
  ACK_MIN_NARRATION,
  MaxTalk,                 \* bound on the lines of a conversation
  MaxChecks,               \* bound on the intent checks under way at once
  MaxHour                  \* bound on the clock; one unit outlasts every window

ASSUME SpeakingBoundsAssumption == MaxTalk \in Nat /\ MaxChecks \in Nat /\ MaxHour \in Nat
ASSUME KeyFilesAssumption == KeyFiles \cap {"none", "term"} = {}

VARIABLES
  talk,      \* what was said, in the order of the trace
  found,     \* the files the spec names, or the player opened, edited or saved
  buffered,  \* segments spoken and not yet routed
  gates,     \* intent checks under way
  owed,      \* whether a turn is queued
  turn,      \* the turn being composed, with what the guard is given
  wrapping,  \* whether the wrap-up has questions left to ask
  hour,
  routed     \* the words the last step routed, and how

speakingVars == <<talk, found, buffered, gates, owed, turn, wrapping, hour, routed>>

TRANSCRIPT_LINES == 10     \* the lines a turn is shown

\* "help" is a stuck hint, a redirect or its inversion; "beat" is pressure, a
\* moment or the opening.
Lanes == {"reply", "help", "beat", "wrap"}

\* Words: an ask by its form, a correction by its opening, and, of the others, long
\* enough for an answer or not.
Shapes == {"ask", "no", "long", "short"}

\* A turn holds a "?", or is a probe or a nudge without one, or neither.
Stances == {"asks", "directs", "states"}

\* What a text gives away: a file, or a word of the private knowledge.
Leaks == KeyFiles \cup {"none", "term"}

NoTurn == [lane |-> "none", forbidden |-> {}, governed |-> FALSE, exempt |-> FALSE]
NoRouting == [words |-> {}, long |-> FALSE, path |-> "none"]

\* at is the time of an interviewer's line; nothing reads that of words.
Line(kind, stance, leak) ==
  [kind |-> kind, help |-> FALSE, stance |-> stance, leak |-> leak,
   governed |-> FALSE, exempt |-> FALSE, at |-> IF kind = "words" THEN 0 ELSE hour]

SpeakingTypeOK ==
  /\ \A i \in DOMAIN talk :
       talk[i] \in [kind : {"words", "turn", "ack", "time"}, help : BOOLEAN,
                    stance : Stances, leak : Leaks, governed : BOOLEAN,
                    exempt : BOOLEAN, at : 0..MaxHour]
  /\ Len(talk) <= MaxTalk
  /\ found \subseteq KeyFiles
  /\ buffered \subseteq [line : DOMAIN talk, shape : Shapes]
  /\ gates \in 0..MaxChecks /\ owed \in BOOLEAN
  /\ turn \in [lane : Lanes \cup {"none"}, forbidden : SUBSET Leaks,
               governed : BOOLEAN, exempt : BOOLEAN]
  /\ wrapping \in BOOLEAN /\ hour \in 0..MaxHour
  /\ routed \in [words : SUBSET DOMAIN talk, long : BOOLEAN,
                 path : {"none", "asked", "answered", "gate"}]

\* specNamesBugFile: a name the spec gives is public.
SpeakingInit ==
  /\ talk = <<>> /\ found \in SUBSET KeyFiles /\ buffered = {}
  /\ gates = 0 /\ owed = FALSE /\ turn = NoTurn /\ wrapping = FALSE
  /\ hour = 0 /\ routed = NoRouting

---------------------------------------------------------------------------
(* Reading the conversation.                                               *)

Turns(lines) == {i \in DOMAIN lines : lines[i].kind = "turn"}
Spoken(lines) == {i \in DOMAIN lines : lines[i].kind = "words"}

\* Acks and announcements neither ask nor end a streak.
questionStreak(lines) ==
  Cardinality({i \in Turns(lines) :
                 \A j \in Turns(lines) : j >= i => lines[j].stance = "asks"})

\* buildTranscript: the lines a turn is shown, and so the words it may use.
Excerpt(lines) == {i \in Spoken(lines) : i + TRANSCRIPT_LINES > Len(lines)}

\* isCorrectionFollowUp, of words that open like one: an ack is an interviewer's
\* line like any other.
isCorrectionFollowUp(lines) ==
  LET heard == DOMAIN lines \ Spoken(lines)
  IN  heard # {} /\ lines[Max(heard)].at = hour

\* The walk back skips the line whose text is the one being routed: a turn joined
\* from several segments is the text of none of them.
Itself(words) == IF Cardinality(words) = 1 THEN words ELSE {}

Pending(line) ==
  line.kind = "turn" /\ line.stance # "states" /\ ~ line.governed /\ line.at = hour

\* isAnswerToPendingQuestion, of words that are long enough.
isAnswerToPendingQuestion(lines, words) ==
  LET walk == Turns(lines) \cup (Spoken(lines) \ Itself(words))
  IN  walk # {} /\ Pending(lines[Max(walk)])

---------------------------------------------------------------------------
(* The player.                                                             *)

\* Several short segments may together be long enough.
Length(segments) ==
  IF \E s \in segments : s.shape = "long" THEN {TRUE}
  ELSE IF Cardinality(segments) = 1 THEN {FALSE} ELSE BOOLEAN

\* isExplicitAsk looks anywhere in the text, a correction must open it.
FastPath(lines, segments) ==
  \/ \E s \in segments : s.shape = "ask"
  \/ /\ \E s \in segments : s.shape = "no" /\ \A r \in segments : s.line <= r.line
     /\ isCorrectionFollowUp(lines)

\* routeUtterance: past the gate, or to it.
routeUtterance(lines, segments) ==
  LET words == {s.line : s \in segments}
  IN  \E long \in Length(segments) :
        LET path == IF FastPath(lines, segments) THEN "asked"
                    ELSE IF long /\ isAnswerToPendingQuestion(lines, words)
                    THEN "answered" ELSE "gate"
        IN  /\ routed' = [words |-> words, long |-> long, path |-> path]
            /\ path = "gate" => gates < MaxChecks
            /\ gates' = gates + IF path = "gate" THEN 1 ELSE 0
            /\ owed' = (owed \/ path # "gate")

Say(line) == Len(talk) < MaxTalk /\ talk' = Append(talk, line)
SayWords == \E leak \in {"none", "term"} : Say(Line("words", "states", leak))

\* The words of a segment land; they wait for the silence after them.
SpeakSegment ==
  /\ SayWords
  /\ \E shape \in Shapes :
       buffered' = buffered \cup {[line |-> Len(talk'), shape |-> shape]}
  /\ routed' = NoRouting
  /\ UNCHANGED <<found, gates, owed, turn, wrapping, hour>>

FlushSpeech ==
  /\ buffered # {} /\ buffered' = {}
  /\ routeUtterance(talk, buffered)
  /\ UNCHANGED <<talk, found, turn, wrapping, hour>>

TypeWords ==
  /\ SayWords
  /\ \E shape \in Shapes :
       routeUtterance(talk', {[line |-> Len(talk'), shape |-> shape]})
  /\ UNCHANGED <<found, buffered, turn, wrapping, hour>>

\* candidateVisitedBugFile: an open, an edit or a save.
Visit(f) ==
  /\ f \notin found /\ found' = found \cup {f}
  /\ routed' = NoRouting
  /\ UNCHANGED <<talk, buffered, gates, owed, turn, wrapping, hour>>

---------------------------------------------------------------------------
(* The interviewer.                                                        *)

\* stuckVocabOf: a scaffolding turn may use only words the player has used.
ForbiddenWords(lane) ==
  IF lane = "help" /\ \A i \in Excerpt(talk) : talk[i].leak # "term"
  THEN {"term"} ELSE {}

\* The wrap-up's turn, and a reply that carries its next question.
Exempt(lane) == wrapping /\ lane \in {"reply", "wrap"}

\* runInterviewer, up to the call of the model: all that the guard will be given
\* is read here (guard, protectionOf).
Compose(lane) ==
  /\ turn = NoTurn
  /\ turn' = [lane |-> lane,
              forbidden |-> (KeyFiles \ found) \cup ForbiddenWords(lane),
              governed |-> questionStreak(talk) >= QUESTION_STREAK_LIMIT /\ ~ Exempt(lane),
              exempt |-> Exempt(lane)]

\* pump, after its settling window.
Reply ==
  /\ owed /\ owed' = FALSE
  /\ Compose("reply")
  /\ routed' = NoRouting
  /\ UNCHANGED <<talk, found, buffered, gates, wrapping, hour>>

\* The initiative ticker: the wrap-up owns the initiative once it has begun.
Initiate(lane) ==
  /\ lane # "reply" /\ (lane = "wrap") = wrapping
  /\ Compose(lane)
  /\ routed' = NoRouting
  /\ UNCHANGED <<talk, found, buffered, gates, owed, wrapping, hour>>

\* The gate answers: narration, or words for the interviewer.
Judge ==
  /\ gates > 0 /\ gates' = gates - 1
  /\ \E addressed \in BOOLEAN : owed' = (owed \/ addressed)
  /\ routed' = NoRouting
  /\ UNCHANGED <<talk, found, buffered, turn, wrapping, hour>>


\* guard: a leak in a reply becomes the refusal; elsewhere it becomes silence.  A
\* scaffolding turn is a nudge whatever the model says.  governed is set on a turn
\* that asked against the order, and only then.
Guarded(stance, leak) ==
  IF leak \in turn.forbidden THEN Line("turn", "states", "none")
  ELSE [Line("turn", stance, leak) EXCEPT
          !.help = turn.lane = "help" /\ leak = "term",
          !.stance = IF stance = "states" /\ turn.lane = "help" THEN "directs" ELSE stance,
          !.governed = turn.governed /\ stance = "asks",
          !.exempt = turn.exempt /\ stance = "asks"]

\* runInterviewer, after the call: a draft either leaks or takes a stance.
Utter ==
  /\ turn # NoTurn /\ turn' = NoTurn
  /\ \E stance \in Stances, leak \in Leaks :
       /\ leak # "none" => stance = "states"
       /\ leak \in turn.forbidden => turn.lane = "reply"
       /\ Say(Guarded(stance, leak))
  /\ routed' = NoRouting
  /\ UNCHANGED <<found, buffered, gates, owed, wrapping, hour>>

\* Silence: the model's own choice, a failure, or a leak nobody had asked for.
KeepSilent ==
  /\ turn # NoTurn /\ turn' = NoTurn
  /\ routed' = NoRouting
  /\ UNCHANGED <<talk, found, buffered, gates, owed, wrapping, hour>>

\* decideAck: enough was said into silence, and nothing is queued.  The cap of a
\* round is beyond the bound.
decideAck ==
  LET heard == DOMAIN talk \ Spoken(talk)
      last == IF heard = {} THEN 0 ELSE Max(heard)
  IN  /\ ~ owed
      /\ Cardinality({i \in Spoken(talk) : i > last}) >= ACK_MIN_NARRATION
      /\ last # 0 => hour > talk[last].at

Ack ==
  /\ turn = NoTurn /\ ~ wrapping
  /\ decideAck
  /\ Say(Line("ack", "states", "none"))
  /\ routed' = NoRouting
  /\ UNCHANGED <<found, buffered, gates, owed, turn, wrapping, hour>>

\* The remaining time is announced over anything, once.
AnnounceTime ==
  /\ \A i \in DOMAIN talk : talk[i].kind # "time"
  /\ Say(Line("time", "states", "none"))
  /\ routed' = NoRouting
  /\ UNCHANGED <<found, buffered, gates, owed, turn, wrapping, hour>>

\* It begins, or its last question has been asked.
WrapUp ==
  /\ wrapping' = ~ wrapping
  /\ routed' = NoRouting
  /\ UNCHANGED <<talk, found, buffered, gates, owed, turn, hour>>

HourPasses ==
  /\ hour < MaxHour /\ hour' = hour + 1
  /\ routed' = NoRouting
  /\ UNCHANGED <<talk, found, buffered, gates, owed, turn, wrapping>>

SpeakingNext ==
  \/ SpeakSegment \/ FlushSpeech \/ TypeWords
  \/ \E f \in KeyFiles : Visit(f)
  \/ Reply
  \/ \E lane \in Lanes : Initiate(lane)
  \/ Judge \/ Utter \/ KeepSilent \/ Ack \/ AnnounceTime
  \/ WrapUp \/ HourPasses

---------------------------------------------------------------------------
(* Properties.                                                             *)

\* A file of the key is named only to somebody who knows of it, and a scaffolding
\* turn hands out a word of the key only to somebody who said it, however long the
\* model thought (guard, protectionOf, stuckVocabOf).
NothingIsGivenAway ==
  \A i \in Turns(talk) :
    /\ talk[i].leak \in KeyFiles => talk[i].leak \in found
    /\ talk[i].help => \E j \in Spoken(talk) : j < i /\ talk[j].leak = "term"

\* Whether the turn at i asks once too often: the turns before it asked already,
\* and it was not the wrap-up's.
Excessive(i) ==
  LET before == {j \in Turns(talk) : j < i}
  IN  /\ talk[i].stance = "asks" /\ ~ talk[i].exempt
      /\ Cardinality({j \in before : \A k \in before : k >= j => talk[k].stance = "asks"})
           >= QUESTION_STREAK_LIMIT

\* A question asked beyond the budget is never taken to be what the player's next
\* words answer, whatever was said while it was composed (questionStreak,
\* governed; the interrogation loop of the comment at interviewer.ts:252).
NoInterrogation ==
  routed.path = "answered" => ~ Excessive(Max(Turns(talk)))

\* The first words after a question, if they are many, are one segment, and are
\* routed before anybody says more, are an answer and never wait for the gate
\* (isAnswerToPendingQuestion; the words are in the trace before they are routed).
AnswersAreHeard ==
  LET said == Turns(talk) \cup Spoken(talk)
      i == Max(said)
      before == said \ {i}
  IN  routed.path = "gate" /\ routed.long /\ routed.words = {i} /\ before # {}
        => ~ Pending(talk[Max(before)])

\* A conversation gives nothing away, does not interrogate, and hears answers.
SpeechHolds == NothingIsGivenAway /\ NoInterrogation /\ AnswersAreHeard
=============================================================================
