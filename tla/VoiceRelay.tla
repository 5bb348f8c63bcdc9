------------------------------- MODULE VoiceRelay ------------------------------
(***************************************************************************)
(* From the candidate's microphone to an utterance in the trace            *)
(* (client/presence.js and client/voice.js, server/src/voice.ts, and the   *)
(* open segments of endpoint.ts).                                          *)
(*                                                                         *)
(* The page cuts sound into segments.  For each one the relay opens a new  *)
(* socket to the speech service, sends the sound, asks for the words, and  *)
(* records one utterance stamped with the start of the segment: without    *)
(* words when none came.  Until a socket is open everything is buffered,   *)
(* and so is what an open one fails to take.                               *)
(* Messages from the page arrive in order and are handled at once; what    *)
(* the service does is asynchronous.                                       *)
(***************************************************************************)
EXTENDS Naturals, Sequences, FiniteSets

CONSTANTS
  MaxSegments,      \* bound on the segments of a session
  OutCap,           \* messages kept for a socket that is not open
  VoiceCap,         \* the budget, in chunks of sound
  MaxVoiceFaults    \* bound on lost links, failed sockets and service errors

ASSUME VoiceCapAssumption == VoiceCap \in Nat
ASSUME VoiceBoundsAssumption ==
  MaxSegments \in Nat /\ OutCap \in Nat /\ MaxVoiceFaults \in Nat

VARIABLES
  mic,         \* the page: its presence phase, and whether it is muted or gone
  began,       \* segments begun so far
  relay,       \* VoiceRuntime, and the speech service at the end of its socket
  spent,       \* chunks of sound paid for
  carried,     \* sound of an earlier segment was unsent when a segment began
  voiceClosed, \* the round has ended
  voiceFaults

voiceVars == <<mic, began, relay, spent, carried, voiceClosed, voiceFaults>>

Segments == 1..MaxSegments
NoSegment == 0

\* A chunk of a segment's sound, or the request for its words.
Chunk(s) == [of |-> s, commit |-> FALSE]
Commit(s) == [of |-> s, commit |-> TRUE]

VoiceTypeOK ==
  /\ mic \in [phase : {"idle", "maybe", "speaking"}, muted : BOOLEAN, linked : BOOLEAN]
  /\ began \in 0..MaxSegments
  /\ relay.current \in {NoSegment} \cup Segments
  /\ relay.sock \in {"none", "connecting", "open", "errored"}
  /\ relay.out \in Seq([of : Segments, commit : BOOLEAN]) /\ Len(relay.out) <= OutCap
  /\ relay.heard \subseteq Segments
  /\ relay.answers \in Seq(SUBSET Segments)
  /\ relay.partial \subseteq Segments
  /\ {relay.watchdog, carried, voiceClosed} \subseteq BOOLEAN
  /\ relay.open \in 0..MaxSegments
  /\ \A i \in DOMAIN relay.said :
       relay.said[i] \in [stamp : {NoSegment} \cup Segments, words : SUBSET Segments]
  /\ spent \in 0..VoiceCap
  /\ voiceFaults \in 0..MaxVoiceFaults

NewMic == [phase |-> "idle", muted |-> FALSE, linked |-> TRUE]

VoiceInit ==
  /\ mic = NewMic
  /\ began = 0
  /\ relay = [current |-> NoSegment, sock |-> "none", out |-> <<>>, heard |-> {},
              answers |-> <<>>, partial |-> {}, watchdog |-> FALSE, said |-> <<>>, open |-> 0]
  /\ spent = 0
  /\ carried = FALSE
  /\ voiceClosed = FALSE
  /\ voiceFaults = 0

VoiceFault ==
  /\ voiceFaults < MaxVoiceFaults
  /\ voiceFaults' = voiceFaults + 1

---------------------------------------------------------------------------
(* The relay's own steps, as functions of its state.                       *)

exhausted == spent >= VoiceCap

\* emitUtterance: the trace, and the turn buffer (SpeechTurnBuffer.push).
Said(r, stamp, words) ==
  [r EXCEPT !.said = Append(@, [stamp |-> stamp, words |-> words]),
            !.open = IF @ = 0 THEN 0 ELSE @ - 1]

\* As if only a segment whose words were asked for needed its utterance.
flushWhenAwaited(r) ==
  LET quiet == [r EXCEPT !.watchdog = FALSE]
  IN  IF r.current = NoSegment \/ ~ r.watchdog THEN quiet
      ELSE Said([quiet EXCEPT !.current = NoSegment, !.partial = {}], r.current, {})

flushUntranscribed(r) ==
  LET quiet == [r EXCEPT !.watchdog = FALSE]
  IN  IF r.current = NoSegment THEN quiet
      ELSE Said([quiet EXCEPT !.current = NoSegment, !.partial = {}], r.current, {})

\* The service forgets the segment with its socket.
Cut(r) == [r EXCEPT !.sock = "none", !.heard = {}, !.answers = <<>>]

\* The service hears a message: a chunk of sound, or the request for the words of
\* what it heard since the last one.
Hears(r, m) ==
  IF m.commit THEN [r EXCEPT !.answers = Append(@, r.heard), !.heard = {}]
  ELSE [r EXCEPT !.heard = @ \cup {m.of}]

\* The first n of the buffer reach it, message by message.
HearsFirst(r, n) ==
  LET hears[k \in 0..n] == IF k = 0 THEN r ELSE Hears(hears[k - 1], r.out[k])
  IN  hears[n]

\* As if the buffer only grew.
BufferedUncapped(r, m) == [r EXCEPT !.out = Append(@, m)]

\* Into the buffer, whose oldest messages are dropped.
Buffered(r, m) ==
  LET all == Append(r.out, m)
  IN  [r EXCEPT !.out = IF Len(all) > OutCap THEN Tail(all) ELSE all]

\* sendUpstream.  A send on an open socket that throws is caught, and its
\* message goes into the buffer, which the next socket is given.
Sent(r, m) == IF r.sock = "open" THEN Hears(r, m) ELSE Buffered(r, m)

SendThrows == relay.sock = "open" /\ VoiceFault

---------------------------------------------------------------------------
(* Messages from the page.                                                 *)

\* speech_start.  Every segment has a socket of its own: a connection that
\* cannot be made leaves none.
OnSpeechStart(s) ==
  IF voiceClosed \/ exhausted THEN UNCHANGED <<relay, carried, voiceFaults>>
  ELSE LET started == [flushUntranscribed(relay) EXCEPT !.current = s, !.partial = {}, !.open = @ + 1]
       IN  /\ carried' = (carried \/ relay.out # <<>>)
           /\ \/ relay' = [Cut(started) EXCEPT !.sock = "connecting"] /\ UNCHANGED voiceFaults
              \/ relay' = Cut(started) /\ VoiceFault

OnAudio(s) ==
  IF voiceClosed \/ exhausted \/ relay.current = NoSegment
  THEN UNCHANGED <<relay, spent, voiceFaults>>
  ELSE /\ spent' = spent + 1
       /\ \/ relay' = Sent(relay, Chunk(s)) /\ UNCHANGED voiceFaults
          \/ relay' = Buffered(relay, Chunk(s)) /\ SendThrows

\* speech_end: the words are asked for and a watchdog started; without a socket
\* the segment is recorded at once.
OnSpeechEnd(s) ==
  IF voiceClosed \/ relay.current = NoSegment THEN UNCHANGED <<relay, voiceFaults>>
  ELSE IF relay.sock = "none"
  THEN relay' = flushUntranscribed(relay) /\ UNCHANGED voiceFaults
  ELSE \/ relay' = [Sent(relay, Commit(s)) EXCEPT !.watchdog = TRUE] /\ UNCHANGED voiceFaults
       \/ relay' = [Buffered(relay, Commit(s)) EXCEPT !.watchdog = TRUE] /\ SendThrows

---------------------------------------------------------------------------
(* The page (presenceStep on one frame of sound; the mute button).         *)

Listening == ~ mic.muted /\ mic.linked

MaybeSpeech ==
  /\ Listening /\ mic.phase = "idle"
  /\ mic' = [mic EXCEPT !.phase = "maybe"]
  /\ UNCHANGED <<began, relay, spent, carried, voiceClosed, voiceFaults>>

\* A clack, not a word.
Transient ==
  /\ Listening /\ mic.phase = "maybe"
  /\ mic' = [mic EXCEPT !.phase = "idle"]
  /\ UNCHANGED <<began, relay, spent, carried, voiceClosed, voiceFaults>>

SpeechStarts ==
  /\ Listening /\ mic.phase = "maybe"
  /\ began < MaxSegments
  /\ began' = began + 1
  /\ mic' = [mic EXCEPT !.phase = "speaking"]
  /\ OnSpeechStart(began + 1)
  /\ UNCHANGED <<spent, voiceClosed>>

Speaks ==
  /\ Listening /\ mic.phase = "speaking"
  /\ OnAudio(began)
  /\ UNCHANGED <<mic, began, carried, voiceClosed>>

\* A second of silence, or the mute button, which also ends a segment.
SpeechEnds ==
  /\ Listening /\ mic.phase = "speaking"
  /\ \E muted \in BOOLEAN : mic' = [mic EXCEPT !.phase = "idle", !.muted = muted]
  /\ OnSpeechEnd(began)
  /\ UNCHANGED <<began, spent, carried, voiceClosed>>

Mutes ==
  /\ Listening /\ mic.phase # "speaking"
  /\ mic' = [mic EXCEPT !.phase = "idle", !.muted = TRUE]
  /\ UNCHANGED <<began, relay, spent, carried, voiceClosed, voiceFaults>>

Unmutes ==
  /\ mic.muted /\ mic.linked
  /\ mic' = [mic EXCEPT !.muted = FALSE]
  /\ UNCHANGED <<began, relay, spent, carried, voiceClosed, voiceFaults>>

\* The page's socket drops, in the middle of a segment or not, and says
\* nothing; only a reload of the page links it again.
LinkDrops ==
  /\ mic.linked
  /\ VoiceFault
  /\ mic' = [mic EXCEPT !.linked = FALSE]
  /\ UNCHANGED <<began, relay, spent, carried, voiceClosed>>

PageReloads ==
  /\ mic # NewMic
  /\ mic' = NewMic
  /\ UNCHANGED <<began, relay, spent, carried, voiceClosed, voiceFaults>>

---------------------------------------------------------------------------
(* The speech service.  Events of a socket that was given up are ignored.  *)

\* What of the buffer cannot be sent stays in it.
Opens ==
  /\ relay.sock = "connecting"
  /\ \E n \in 0..Len(relay.out) :
       /\ relay' = [HearsFirst(relay, n) EXCEPT !.sock = "open",
                                               !.out = SubSeq(relay.out, n + 1, Len(relay.out))]
       /\ IF n = Len(relay.out) THEN UNCHANGED voiceFaults ELSE VoiceFault
  /\ UNCHANGED <<mic, began, spent, carried, voiceClosed>>

SendsPartial ==
  /\ relay.sock = "open" /\ relay.heard # {}
  /\ relay.partial # relay.heard
  /\ relay' = [relay EXCEPT !.partial = relay.heard]
  /\ UNCHANGED <<mic, began, spent, carried, voiceClosed, voiceFaults>>

\* The words, or none, for which the last partial ones stand in; or nothing
\* intelligible.  An answer nobody waits for is stamped on arrival.
SendsWords ==
  /\ relay.sock = "open" /\ relay.answers # <<>>
  /\ \E words \in {Head(relay.answers), relay.partial, {}} :
       relay' = Said([relay EXCEPT !.answers = Tail(@), !.watchdog = FALSE,
                                   !.current = NoSegment, !.partial = {}],
                     relay.current, words)
  /\ UNCHANGED <<mic, began, spent, carried, voiceClosed, voiceFaults>>

Closes ==
  /\ relay.sock \in {"connecting", "open", "errored"}
  /\ VoiceFault
  /\ relay' = Cut(relay)
  /\ UNCHANGED <<mic, began, spent, carried, voiceClosed>>

\* An error event leaves the socket in place until it closes.
Errs ==
  /\ relay.sock \in {"connecting", "open"}
  /\ VoiceFault
  /\ relay' = [Cut(relay) EXCEPT !.sock = "errored"]
  /\ UNCHANGED <<mic, began, spent, carried, voiceClosed>>

\* Eight seconds without an answer.
WatchdogFires ==
  /\ relay.watchdog
  /\ relay' = IF relay.current = NoSegment THEN [relay EXCEPT !.watchdog = FALSE]
              ELSE Cut(flushUntranscribed(relay))
  /\ UNCHANGED <<mic, began, spent, carried, voiceClosed, voiceFaults>>

\* VoiceRuntime.close, at the end of the round
VoiceCloses ==
  /\ ~ voiceClosed
  /\ voiceClosed' = TRUE
  /\ relay' = [Cut(relay) EXCEPT !.watchdog = FALSE]
  /\ UNCHANGED <<mic, began, spent, carried, voiceFaults>>

VoiceNext ==
  \/ MaybeSpeech \/ Transient \/ SpeechStarts \/ Speaks \/ SpeechEnds
  \/ Mutes \/ Unmutes \/ LinkDrops \/ PageReloads
  \/ Opens \/ SendsPartial \/ SendsWords \/ Closes \/ Errs \/ WatchdogFires
  \/ VoiceCloses

---------------------------------------------------------------------------
(* What the record says of what was spoken.                                *)

Stamped(s) == {i \in DOMAIN relay.said : relay.said[i].stamp = s}

\* The segment under way is the only one without its utterance: "every segment
\* eventually produces exactly one utterance" (endpoint.ts), in the order they
\* were spoken, whatever the sockets, the watchdog and the next segment do.
\* The turn buffer, which holds a reply while a segment is open, therefore
\* never waits for one that is over.
SegmentsAreRecordedOnce ==
  /\ \A s \in Segments : Cardinality(Stamped(s)) <= 1
  /\ \A s \in 1..began :
       s # relay.current => Stamped(s) # {} \/ exhausted \/ voiceClosed
  /\ relay.current # NoSegment => Stamped(relay.current) = {}
  /\ \A i, j \in DOMAIN relay.said :
       i < j /\ relay.said[j].stamp # NoSegment => relay.said[i].stamp < relay.said[j].stamp
  /\ relay.open <= (IF relay.current = NoSegment THEN 0 ELSE 1)

\* The words of an utterance were spoken in the segment it is stamped with,
\* and none arrive without a segment, unless sound of an earlier segment was
\* still unsent when a later one began: the buffer is not emptied between
\* segments, so a connection that was slow or failed puts the words of one
\* segment under the stamp of the next.  Once the budget is spent, the end of a
\* segment that was not heard asks a second time for the last one's words and
\* the empty answer is recorded on arrival.
WordsKeepTheirTime ==
  ~ carried => \A i \in DOMAIN relay.said :
                 /\ relay.said[i].words \subseteq {relay.said[i].stamp}
                 /\ relay.said[i].stamp # NoSegment \/ exhausted

\* One utterance for a segment, with the words of that segment.
SpokenIsRecorded == SegmentsAreRecordedOnce /\ WordsKeepTheirTime
=============================================================================
