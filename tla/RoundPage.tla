------------------------------- MODULE RoundPage -------------------------------
(***************************************************************************)
(* The page of a round: how the interviewer's turns get onto it and are    *)
(* spoken, and how the round is ended from it (client/session.js, the      *)
(* playback half of client/voice.js, the /api/messages, /api/status and    *)
(* /events routes of session.ts).                                          *)
(*                                                                         *)
(* The page polls; a doorbell, which carries nothing, makes it poll at     *)
(* once.  One poll is under way at a time.  Turns are numbered; a turn is  *)
(* spoken when the page learns of it, after the candidate's sentence.      *)
(***************************************************************************)
EXTENDS Naturals, Sequences, FiniteSets, SequencesExt

CONSTANTS
  MaxTurns,       \* bound on the interviewer's turns
  MaxPageFaults   \* bound on polls and calls that fail and links that drop

ASSUME PageBoundsAssumption == MaxTurns \in Nat /\ MaxPageFaults \in Nat

VARIABLES
  turns,        \* the kinds of the turns in the trace, in order
  clock,        \* the server: "running", "time_up", or "ended"
  poke,         \* a poke is on its way to the page
  doorbell,     \* the page's /events socket
  poll,         \* the poll under way, and what the server answered
  pokeMissed,
  shown,        \* turns on the page
  stale,        \* a turn may be waiting: a poll failed, or no doorbell rang for it
  loops,        \* the page's timers run
  ending,       \* endSession: "no", "flushing", "grading", "card", "closed" or "lost"
  speech,          \* whether the candidate speaks, is muted, and has voice at all
  audio,        \* the turn in the <audio> element, and what the page thinks of it
  held,         \* a turn that waits for the candidate's sentence, 0 for none
  replaced,     \* a turn was replaced while its sound was loading
  ackCut,       \* a courtesy noise replaced a turn that was heard or about to be
  pageFaults

roundPageVars == <<turns, clock, poke, doorbell, poll, pokeMissed, shown, stale, loops, ending,
                   speech, audio, held, replaced, ackCut, pageFaults>>

Kinds == {"turn", "ack"}
NoPoll == [stage |-> "idle", since |-> 0, upTo |-> 0, timeUp |-> FALSE]
Silent == [turn |-> 0, stage |-> "none", playing |-> FALSE]

RoundPageTypeOK ==
  /\ turns \in Seq(Kinds) /\ Len(turns) <= MaxTurns
  /\ clock \in {"running", "time_up", "ended"}
  /\ {poke, doorbell, pokeMissed, stale, loops, replaced, ackCut} \subseteq BOOLEAN
  /\ poll \in [stage : {"idle", "asked", "answered"}, since : 0..MaxTurns, upTo : 0..MaxTurns,
               timeUp : BOOLEAN]
  /\ shown \in Seq(1..MaxTurns)
  /\ ending \in {"no", "flushing", "grading", "card", "closed", "lost"}
  /\ speech \in [speaking : BOOLEAN, muted : BOOLEAN, voice : BOOLEAN]
  /\ audio \in [turn : 0..MaxTurns, stage : {"none", "loading", "sounding", "over"},
                playing : BOOLEAN]
  /\ held \in 0..MaxTurns
  /\ pageFaults \in 0..MaxPageFaults

RoundPageInit ==
  /\ turns = <<>> /\ clock = "running"
  /\ poke = FALSE /\ doorbell = TRUE
  /\ poll = NoPoll /\ pokeMissed = FALSE
  /\ shown = <<>> /\ stale = FALSE
  /\ loops = TRUE /\ ending = "no"
  /\ speech \in [speaking : {FALSE}, muted : {FALSE}, voice : BOOLEAN]
  /\ audio = Silent /\ held = 0
  /\ replaced = FALSE /\ ackCut = FALSE
  /\ pageFaults = 0

PageFault ==
  /\ pageFaults < MaxPageFaults
  /\ pageFaults' = pageFaults + 1

lastSeq == IF shown = <<>> THEN 0 ELSE Last(shown)

---------------------------------------------------------------------------
(* Playback.  What voice.js holds, as one record.                          *)

Playback == [audio |-> audio, held |-> held, replaced |-> replaced, ackCut |-> ackCut]

Plays(p) ==
  /\ audio' = p.audio /\ held' = p.held
  /\ replaced' = p.replaced /\ ackCut' = p.ackCut

Audible(a) == a.stage \in {"loading", "sounding"}

\* A new source rejects the play() that is still loading, and its handler
\* reports that nothing plays.
playNow(p, t, kind) ==
  [p EXCEPT !.audio = [turn |-> t, stage |-> "loading", playing |-> p.audio.stage # "loading"],
            !.replaced = @ \/ p.audio.stage = "loading",
            !.ackCut = @ \/ (kind = "ack" /\ Audible(p.audio) /\ turns[p.audio.turn] = "turn")]

playHeldTurn(p) ==
  IF p.held = 0 THEN p ELSE playNow([p EXCEPT !.held = 0], p.held, turns[p.held])

speak(p, t) ==
  IF ~ speech.voice \/ (turns[t] = "ack" /\ (p.audio.playing \/ p.held # 0)) THEN p
  ELSE IF speech.speaking THEN [p EXCEPT !.held = t]
  ELSE playNow(p, t, turns[t])

SoundStarts ==
  /\ audio.stage = "loading"
  /\ audio' = [audio EXCEPT !.stage = "sounding"]
  /\ UNCHANGED <<turns, clock, poke, doorbell, poll, pokeMissed, shown, stale, loops, ending,
                 speech, held, replaced, ackCut, pageFaults>>

\* It ends, or the synthesis fails.
SoundStops ==
  /\ Audible(audio)
  /\ audio' = [audio EXCEPT !.stage = "over", !.playing = FALSE]
  /\ UNCHANGED <<turns, clock, poke, doorbell, poll, pokeMissed, shown, stale, loops, ending,
                 speech, held, replaced, ackCut, pageFaults>>

\* The hold is capped; the end of the sentence or the mute button ends it too.
HoldExpires ==
  /\ held # 0
  /\ Plays(playHeldTurn(Playback))
  /\ UNCHANGED <<turns, clock, poke, doorbell, poll, pokeMissed, shown, stale, loops, ending,
                 speech, pageFaults>>

SentenceStarts ==
  /\ speech.voice /\ ~ speech.muted /\ ~ speech.speaking
  /\ speech' = [speech EXCEPT !.speaking = TRUE]
  /\ UNCHANGED <<turns, clock, poke, doorbell, poll, pokeMissed, shown, stale, loops, ending,
                 audio, held, replaced, ackCut, pageFaults>>

SentenceEnds ==
  /\ speech.speaking
  /\ \E muted \in BOOLEAN : speech' = [speech EXCEPT !.speaking = FALSE, !.muted = muted]
  /\ Plays(playHeldTurn(Playback))
  /\ UNCHANGED <<turns, clock, poke, doorbell, poll, pokeMissed, shown, stale, loops, ending,
                 pageFaults>>

\* toggleMute, between sentences
Toggles ==
  /\ speech.voice /\ ~ speech.speaking /\ ending = "no"
  /\ speech' = [speech EXCEPT !.muted = ~ @]
  /\ UNCHANGED <<turns, clock, poke, doorbell, poll, pokeMissed, shown, stale, loops, ending,
                 audio, held, replaced, ackCut, pageFaults>>

---------------------------------------------------------------------------
(* Learning of turns.                                                      *)

ServerSpeaks(kind) ==
  /\ clock # "ended" /\ Len(turns) < MaxTurns
  /\ turns' = Append(turns, kind)
  /\ poke' = (poke \/ doorbell)
  /\ stale' = (stale \/ ~ doorbell)
  /\ UNCHANGED <<clock, doorbell, poll, pokeMissed, shown, loops, ending, speech, audio, held,
                 replaced, ackCut, pageFaults>>

Asked(seen) == [NoPoll EXCEPT !.stage = "asked", !.since = seen]

pollMessages ==
  IF poll.stage = "idle" THEN poll' = Asked(lastSeq) /\ UNCHANGED pokeMissed
  ELSE pokeMissed' = TRUE /\ UNCHANGED poll

\* The interval, or a poke
Polls ==
  /\ \/ loops /\ UNCHANGED poke
     \/ poke /\ poke' = FALSE
  /\ pollMessages
  /\ UNCHANGED <<turns, clock, doorbell, shown, stale, loops, ending, speech, audio, held,
                 replaced, ackCut, pageFaults>>

ServesPoll ==
  /\ poll.stage = "asked"
  /\ poll' = [poll EXCEPT !.stage = "answered", !.upTo = Len(turns),
                          !.timeUp = clock # "running"]
  /\ UNCHANGED <<turns, clock, poke, doorbell, pokeMissed, shown, stale, loops, ending, speech,
                 audio, held, replaced, ackCut, pageFaults>>

\* As if a poke during a poll were dropped.
PollsNoMore(seen) == poll' = NoPoll /\ pokeMissed' = FALSE

\* finally: a poke that was missed is answered now.
PollOver(seen) ==
  /\ poll' = IF pokeMissed THEN Asked(seen) ELSE NoPoll
  /\ pokeMissed' = FALSE

\* The n turns after the given one are spoken, one after the other.
Heard(from, n) ==
  LET heard[i \in 0..n] == IF i = 0 THEN Playback ELSE speak(heard[i - 1], from + i)
  IN  heard[n]

\* endSession: the microphone is released first.
Stopped(p) == [p EXCEPT !.held = 0, !.audio.stage = "over"]

PollReturns ==
  /\ poll.stage = "answered"
  /\ LET new == [i \in 1..(poll.upTo - poll.since) |-> poll.since + i]
         spoken == Heard(poll.since, Len(new))
         ends == poll.timeUp /\ ending = "no"
     IN  /\ shown' = shown \o new
         /\ Plays(IF ends THEN Stopped(spoken) ELSE spoken)
         /\ ending' = IF ends THEN "flushing" ELSE ending
         /\ speech' = IF ends THEN [speech EXCEPT !.muted = TRUE, !.speaking = FALSE] ELSE speech
         /\ PollOver(poll.upTo)
  /\ UNCHANGED <<turns, clock, poke, doorbell, stale, loops, pageFaults>>

PollFails ==
  /\ poll.stage # "idle"
  /\ PageFault
  /\ PollOver(lastSeq)
  /\ stale' = TRUE
  /\ UNCHANGED <<turns, clock, poke, doorbell, shown, loops, ending, speech, audio, held,
                 replaced, ackCut>>

DoorbellDies ==
  /\ doorbell
  /\ PageFault
  /\ doorbell' = FALSE
  /\ poke' = FALSE
  /\ stale' = (stale \/ poke)
  /\ UNCHANGED <<turns, clock, poll, pokeMissed, shown, loops, ending, speech, audio, held,
                 replaced, ackCut>>

---------------------------------------------------------------------------
(* The end of the round.                                                   *)

TimeIsUp ==
  /\ clock = "running"
  /\ clock' = "time_up"
  /\ UNCHANGED <<turns, poke, doorbell, poll, pokeMissed, shown, stale, loops, ending, speech,
                 audio, held, replaced, ackCut, pageFaults>>

\* The server ends it itself, after a grace period or because it was told to.
ServerEnds ==
  /\ clock # "ended"
  /\ clock' = "ended"
  /\ UNCHANGED <<turns, poke, doorbell, poll, pokeMissed, shown, stale, loops, ending, speech,
                 audio, held, replaced, ackCut, pageFaults>>

PressesEnd ==
  /\ ending = "no"
  /\ ending' = "flushing"
  /\ speech' = [speech EXCEPT !.muted = TRUE, !.speaking = FALSE]
  /\ Plays(Stopped(Playback))
  /\ UNCHANGED <<turns, clock, poke, doorbell, poll, pokeMissed, shown, stale, loops, pageFaults>>

\* stopSessionLoops closes the doorbell as well.
LoopsStop == loops' = FALSE /\ doorbell' = FALSE /\ poke' = FALSE /\ stale' = (stale \/ poke)

AsksToEnd ==
  /\ ending = "flushing"
  /\ ending' = "grading"
  /\ LoopsStop
  /\ UNCHANGED <<turns, clock, poll, pokeMissed, shown, speech, audio, held, replaced, ackCut,
                 pageFaults>>

\* The card, or 409 because the round is over; a call that fails is not
\* repeated.
EndAnswered ==
  /\ ending = "grading"
  /\ \/ clock = "ended" /\ ending' = "closed" /\ UNCHANGED <<clock, pageFaults>>
     \/ clock # "ended" /\ ending' = "card" /\ clock' = "ended" /\ UNCHANGED pageFaults
     \/ PageFault /\ ending' = "lost" /\ UNCHANGED clock
  /\ UNCHANGED <<turns, poke, doorbell, poll, pokeMissed, shown, stale, loops, speech, audio, held,
                 replaced, ackCut>>

\* pollStatus
SeesItEnded ==
  /\ loops /\ clock = "ended" /\ ending = "no"
  /\ LoopsStop
  /\ UNCHANGED <<turns, clock, poll, pokeMissed, shown, ending, speech, audio, held, replaced,
                 ackCut, pageFaults>>

RoundPageNext ==
  \/ \E kind \in Kinds : ServerSpeaks(kind)
  \/ Polls \/ ServesPoll \/ PollReturns \/ PollFails \/ DoorbellDies
  \/ SoundStarts \/ SoundStops \/ HoldExpires \/ SentenceStarts \/ SentenceEnds \/ Toggles
  \/ TimeIsUp \/ ServerEnds \/ PressesEnd \/ AsksToEnd \/ EndAnswered \/ SeesItEnded

---------------------------------------------------------------------------
(* What the candidate sees and hears.                                      *)

\* Every turn is on the page once and in its place.  While the doorbell works
\* and no poll failed, none is waiting for the interval: when no poke and no
\* poll is under way, all of them are there.
TurnsAreShown ==
  /\ \A i \in DOMAIN shown : shown[i] = i
  /\ ~ poke /\ poll.stage = "idle" /\ ~ stale => lastSeq = Len(turns)

\* A turn is held back only while the candidate speaks, and a courtesy noise
\* never cuts one off, unless a turn was replaced while its sound was loading:
\* the page then believes that nothing plays.
TurnsAreHeard ==
  /\ held # 0 => speech.speaking
  /\ ackCut => replaced

TurnsReachTheCandidate == TurnsAreShown /\ TurnsAreHeard
=============================================================================
