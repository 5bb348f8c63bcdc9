-------------------------------- MODULE PagesMC --------------------------------
(***************************************************************************)
(* What the candidate meets: the browser's pages with what they talk to,   *)
(* and the interviewer who speaks unasked, checked together.  They share   *)
(* no state while they run: a behaviour is one of one of them, and the     *)
(* others rest in an initial state.                                        *)
(***************************************************************************)
EXTENDS VoiceRelay, PanesEditor, RoundPage, PracticeDesk, PlanDesk, Initiative,
        Doorway, PaywallCard, Speaking

VARIABLE on

Pages == {"voice", "panes", "page", "practice", "plan", "initiative", "door",
          "card", "speaking"}

Init ==
  /\ on \in Pages
  /\ VoiceInit /\ PanesInit /\ RoundPageInit /\ PracticeDeskInit /\ PlanDeskInit
  /\ InitiativeInit /\ DoorwayInit /\ PaywallCardInit /\ SpeakingInit
  /\ on # "page" => speech.voice
  /\ on # "initiative" => kind = "all_failing"
  /\ on # "door" => authEnabled
  /\ on # "card" => billing_enabled
  /\ on # "speaking" => found = {}

Others(p) ==
  /\ p # "voice" => UNCHANGED voiceVars
  /\ p # "panes" => UNCHANGED panesVars
  /\ p # "page" => UNCHANGED roundPageVars
  /\ p # "practice" => UNCHANGED deskVars
  /\ p # "plan" => UNCHANGED planVars
  /\ p # "initiative" => UNCHANGED initiativeVars
  /\ p # "door" => UNCHANGED doorwayVars
  /\ p # "card" => UNCHANGED cardVars
  /\ p # "speaking" => UNCHANGED speakingVars

Next ==
  /\ UNCHANGED on
  /\ \/ on = "voice" /\ VoiceNext
     \/ on = "panes" /\ PanesNext
     \/ on = "page" /\ RoundPageNext
     \/ on = "practice" /\ PracticeDeskNext
     \/ on = "plan" /\ PlanDeskNext
     \/ on = "initiative" /\ InitiativeNext
     \/ on = "door" /\ DoorwayNext
     \/ on = "card" /\ PaywallCardNext
     \/ on = "speaking" /\ SpeakingNext
  /\ Others(on)

Spec ==
  Init /\ [][Next]_<<on, voiceVars, panesVars, roundPageVars, deskVars, planVars,
                     initiativeVars, doorwayVars, cardVars, speakingVars>>

\* Time passes in a short conversation only, and nobody composes a turn the
\* conversation has no room for; a trace has one event beside edits and runs; what
\* is typed twice is stored without a fault, and three wishes are too; and without
\* authentication, where a door promises nothing, no link is followed.
WithinBounds ==
  /\ hour + Len(talk) <= MaxTalk /\ (hour > 0 => found = {} /\ ~ wrapping)
  /\ turn # NoTurn => Len(talk) < MaxTalk
  /\ Cardinality({i \in DOMAIN trace : trace[i].type \notin {"edit", "test_run"}}) <= 1
  /\ typed + panesFaults <= MaxTyped
  /\ Len(wishes) + cardFaults <= MaxWishes
  /\ authEnabled \/ opened = {}

\* A desk is not followed past what its properties except.
Followed == lapses = {} /\ planLapses = {} /\ cardLapses = {} /\ WithinBounds

\* Every variable of the page in use holds what the program can put there.
TypeOK ==
  /\ on \in Pages
  /\ on = "voice" => VoiceTypeOK
  /\ on = "panes" => PanesTypeOK
  /\ on = "page" => RoundPageTypeOK
  /\ on = "practice" => PracticeDeskTypeOK
  /\ on = "plan" => PlanDeskTypeOK
  /\ on = "initiative" => InitiativeTypeOK
  /\ on = "door" => DoorwayTypeOK
  /\ on = "card" => PaywallCardTypeOK
  /\ on = "speaking" => SpeakingTypeOK

\* Nothing said is lost: what the candidate speaks reaches the record, and what
\* the interviewer says reaches the candidate, but for what is carried into the
\* next segment, is beyond the budget, or meant to be cut off (voice.ts,
\* session.js, voice.js).
NothingSaidIsLost ==
  /\ on = "voice" => SpokenIsRecorded
  /\ on = "page" => TurnsReachTheCandidate

\* The interviewer is fair: unasked help goes only to those who need it, and what
\* it says gives nothing away, does not interrogate, and hears an answer of one
\* segment that is routed before anybody says more (stuck.ts, adrift.ts,
\* moments.ts; interviewer.ts, addressing.ts).
InterviewerIsFair ==
  /\ on = "initiative" => HelpIsTrue
  /\ on = "speaking" => SpeechHolds

\* What a desk sends is what the customer last saw on it, unless two accepts of a
\* plan overlap, or a reply comes for a plan that was left (client/app.js,
\* practice-clarify.ts, planner.ts).
DesksSendWhatTheyShow ==
  /\ on = "practice" => StaleDraftsNeverShip
  /\ on = "plan" => AcceptsAreSound

\* The doors lead where the customer was promised: the browser's cookie to a
\* round of its own, the gate back to what it interrupted, unless that overtakes
\* the customer's answer, or the answer is lost (session-router.ts, client/app.js).
DoorsHold ==
  /\ on = "door" => DoorsLeadHome
  /\ on = "card" => GateKeepsItsWord
=============================================================================
