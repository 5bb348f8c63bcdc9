# A TLA+ model of Zenkai

Zenkai is a mock-interview product. A candidate opens a generated programming
round in a browser, works in an editor inside a container, talks to an
interviewer played by a language model, and is graded afterwards by a judge that
reads the *trace*: the append-only record of everything that happened. This
directory holds TLA+ models of the parts of it where order, interleaving and
failure decide whether the record, the grade and the candidate's work are right,
TLC configurations that check them on small instances, and TLAPS proofs of the
properties that matter most.

Paths below are relative to the repository root; `server/` means
`server/src/`, `extension/` means `extension/src/`.

## The system

| Component | Code | State it keeps | Modules |
|---|---|---|---|
| Editor trace channel | `extension/durable-log.ts`, `extension/extension.ts`, `server/trace-store.ts`, `/trace` in `server/session.ts` | log file and cursor file in the container; the store's seen keys and `trace.jsonl` | `TraceLog`, `TraceDelivery` |
| Session round | `session.ts`, `judge.ts` | `ended`, `finalizing`, the running suite, the container, the assessment, gap and topic deposits | `SessionRound` |
| Interviewer turns | `session.ts`, `interviewer.ts`, `endpoint.ts`, `wrapup.ts`, `addressing.ts`, `ack.ts` | `interviewerBusy`, the queue of two, held speech, wrap-up books, help budgets | `InterviewerTurns`, `Speaking` |
| Initiative detectors | `stuck.ts`, `adrift.ts`, `moments.ts`, `agenda.ts` | fired moments; otherwise functions of the trace | `Initiative` |
| Voice relay | `voice.ts`, `client/presence.js` | a segment, its socket, unsent sound, a watchdog | `VoiceRelay` |
| Session registry and sweep | `session-registry.ts`, `session-sweep.ts`, `app.ts` | `sessions-live.json`, ports, containers | `SessionRegistry` |
| Session router | `session-router.ts` | the browser's cookie | `Doorway` |
| Generation | `app.ts`, `queue.ts`, `reps.ts`, `generation-state.ts`, `cli.ts` | `queue.json`, `reps.json`, markers in the problem directory, `liveGenerations` | `Generation` |
| One build, its validation | `cli.ts`, `generate.ts`, `validate.ts` | the directory being written, a runner's report, the mark, the archive | `BuildGate` |
| Adaptation and timeline of a plan | `adapt.ts`, `queue.ts` | `target.json`, `queue.json` | `Adaptation`, `Runway` |
| Artifacts | `artifact.ts`, `retention.ts`, `workspace-view.ts` | pristine archives, copies, `.used`, `.runs.jsonl`, tarballs | `Workspaces` |
| Judge | `timeline.ts`, `judge.ts`, `feedback.ts` | one verdict under way | `Verdict` |
| Memory graphs | `gap-graph.ts`, `topic-graph.ts`, `topic-log.ts`, `verdict-history.ts` | per-user stores, cards | `Memory` |
| Billing and paywall | `billing.ts`, `paywall.ts`, `app.ts`, `client/app.js` | append-only subscription rows; counts derived at each gate | `Subscriptions`, `Allowance`, `PaywallCard` |
| Planner, clarifier | `planner.ts`, `practice-clarify.ts`, `client/app.js` | one record per conversation; the page's plan and draft | `PlanDesk`, `PracticeDesk` |
| Round page, editor | `client/session.js`, `client/voice.js`, `client/panes.js` | turns shown, speech playing, timers and saves under way | `RoundPage`, `PanesEditor` |
| Accounts, mirror, upkeep | `welcome.ts`, `db.ts`, `backup.ts` | claims in Postgres, a watermark, archives in a bucket | `Greeting`, `Copies` |
| Blueprints, sourced problems, configuration | `blueprint.ts`, `lc-*.ts`, `public-config.ts` | none | not modelled, but for the stamps in `BuildGate` |

**How they interact.** The *app* (one Node process) serves the home page. It
spawns detached *generation children*, one per problem being built, and detached
*session processes*, one per round, and learns about both through files and
HTTP probes: it may restart at any time and they go on. A session process owns a
container in which the *extension host* runs; the host's events reach the
session over a WebSocket, with the durable log as the fallback. Inside a session
everything is one event loop, so a *step* is the code between two awaits, and
model calls (interviewer, intent check, judge) are the long awaits that other
requests, timers and endings run into. The grade is written as an assessment
file, from which the app's queue derives that a round is done; the gap and topic
graphs are deposited from it.

**What is hard.** Endings race with requests and model calls; turns queue behind
one voice; events are replayed over reconnecting sockets after kills in the
middle of a write; registries and queues are read, awaited over and saved; pids
recorded in files outlive their processes; app, children and sessions die
independently; pages hold state that the server has since changed, and their
requests overtake one another; conditions are read before a model call and acted
on after it. `PROJECT.json` lists each such hazard at its line.

**What makes each part correct.** The channel: exactly once, in order, nothing
given up. The round: one ending, one verdict, on the trace that was judged, one
deposit, and the container gone. The turns: one voice, no word lost or answered
twice, the wrap-up in order, bounded help. The registry: every running room
listed, no port or directory shared, no healthy room swept, everything of a dead
room freed. Generation: one agent per directory, no healthy build failed, at most
one automatic retry, every build decided. One build: what is handed out is what was
ruled on, with the data set's tests and the plan's topics, and nothing that can be
graded is thrown away.

## The modules

### TraceLog, TraceDelivery, TraceDeliveryProofs

`TraceLog` is the abstract promise: a log that only grows under increasing
numbers, and a copy that is always a prefix of it. `TraceDelivery` is the code.
`log` is the readable lines of the durable log, `torn` says that it ends in an
unterminated line, `cursor` the file of the last acknowledged number and `acked` its value in
memory; each socket has frames on their way up and acknowledgements on their way
down; `stored` is what `TraceStore` wrote for the `ext` source. `Emit` is `emit()`,
`Activate` is the host starting from its log and cursor, `Reconnect` and `Open`
the redial and the open handler's replay, `Receive` the server's handler together
with `ingest` and its acknowledgement, `AckArrives` moves the cursor. Sockets are
`Cut` and read on until `Discard`. A host may be killed at any step (`Kill`), inside
its append, which leaves the fragment the next append lands on (`KillMidAppend`), or
inside the cursor's write (`KillMidCursor`).
`Abstract == INSTANCE TraceLog WITH written <- log, delivered <- stored` is the
refinement.

### SessionRound, SessionRoundMC, SessionRoundProofs

One round from start to rest: `ended` is set by exactly one of pressing end,
wrap-up, the time cap, the reaper, or an abandon, each with the tests it makes;
`Request`/`BodyRead` split a handler at the await on its body;
`StartTurn`/`FinishTurn` and `StartRun`/`RunCloses` split a model call and a
suite run. `read` is the trace the judge was given, `disk` is the assessment, card
and deposits, written in the order `finalize` writes them, with the topics
import awaited between. `Kill`, `Signal` and `FinalizeFails` are the failures.
`SessionRoundMC` lists the shapes of round (one-shot or not, with and without
runs, time, talk, editor, sample) that TLC uses.

### InterviewerTurns, InterviewerTurnsProofs

`unsaid`, `held` (speech waiting to settle), `checking` (at the intent check),
`queue` (the queue of two), `calls` (the interviewer's call that is out) and
`put`, `evicted`, `dismissed` say where each word is. `Type` and `Speak` bring
words in, and with `Flush` (the speech buffer's) lead to `routeUtterance` (`Route`);
`JudgedSilent`, `JudgedAddressed` and `JudgedEngaging` are the intent check's return,
`Settle` the settle timer, `Finish` the end of `runInterviewer` with its `pump`. The
30-second tick is one action per lane it can take (`WrapSignal`,
`AutoFinalize`, `Offered`, `Tick`). What a turn decides before the model
call and books after it is kept in the call's record.

### SessionRegistry, SessionRegistryProofs

`entries` is the registry file, `state` and `home` the session processes, `task`
the app's requests and sweeps, each holding the copy of the registry it loaded
and the answers to its probes so far. `Load`, `Probe`, then `Look`, `Reconcile`
and `Launch`, `Kill` and `StampKilled`, or `Sweep`. Tasks overlap at each of these
steps: `Callers` carry launches, kills and looks, `Keepers` sweeps, and a task may
be both. `Stop` and `Restart` are the app's; `StartContainer`, `Listen`, `End`,
`TearDown`, `Reap`, `Crash` the sessions'. `ghosts` are dead sessions whose pid looks
alive to `pidAlive`, and `old` those that run (`Ages`) since more than
`SESSION_HARD_TTL_MS`, which the code drops as soon as one does not answer.

Two histories say to which sessions nothing is promised (`Exposed`). `old` is one. The
other is `crossed`: at the session's launch another task held a registry loaded before,
which it may yet write or sweep by, or another running room had already lost its row
(then the launch may take its port, and be killed in its place). Everything else that
overlaps, looks, kills and sweeps among themselves and with every launch that nothing
overlapped, is promised to do no harm. `EveryRoomIsListed`, what the comments say, has
no such exception but the limit, and is refuted.

### Generation, GenerationProofs

`status`, `stale` and `sid` are the stored queue and reps; `marker`, `flags`,
`used`, `ledger` and `drafted` are the files in and beside a problem directory;
`kids` are the children by pid, so that a later child can get the pid a stale
marker names. `ReadsAs` is `reconcileWithDisk`, applied and stored by `Refresh`.
`Generate`, `Retry`, `Rebuild`, `Skip`, `Admit`/`Create` (`/api/practice` on
both sides of its imports) and `RetryRep` are the requests, with their guards
on stored or derived status as the code has them. A child drafts, works,
clears its marker, writes `.validated`, archives and exits, or dies at any
point; `Close` is the app's handler with `autoRetryOnce`. `ValidatesItself` is the
agent running `cli.ts validate .` in its directory, as its prompt tells it to, and
passing: the command writes `.validated`. Three history variables record what none
of the code's guards can see: `hasty`, rounds that were built again while an
earlier child was past its agent but not yet closed; `freed`, rounds whose
agent had marked its own work when a sweep after a restart took the mark for the end
of the build and removed the marker of the live child; and `wiped`, rounds that were
rebuilt although a session had been launched on them.

### BuildGate

What happens between a child's start and its exit code. `work` is the directory as
far as the validator sees it: whether the manifest parses, the kind it declares, its
planted bug, its expectations (absent, good, poor), topics, whether source and tests
are the data set's, and what a run of the suite shows. While an agent is at work
(`building`, `repairing`) it `Writes` any one of these and `ValidatesItself`; then
the child `Stamps`, `Rules` (`FailuresOf` is `validateProblem`), `Strips` the
expectations when nothing else failed and rules again, `Repairs` once, or `Refuses`;
`WritesMark` and `Archives` end a build that passed. `reported` is the runner's
report, which nothing removes; `mark` says who wrote `.validated` first and `kept`
how the archive compares with the directory. `Generation` sees the same build as
one step, `Rule`.

### Speaking, Initiative

What an interviewer's turn is given and may say. `Speaking`: `talk` is the trace of
a conversation; `Compose` reads from it what `runInterviewer` reads before the call
(which of the key's files the candidate has visited, the streak of questions, the
guarded words) and `Utter` puts the model's text through the guard; `SpeakSegment`,
`FlushSpeech` and `routeUtterance` bring the candidate's words in and decide whether
they answer the pending question, correct it, or go to the gate. `Initiative`: `trace`
is any short sequence of edits, opens and runs; the detectors are operators over it,
written as the code computes them, and `HintIsTrue` states independently what the
hint then claims.

### VoiceRelay, RoundPage, PanesEditor

The candidate's three channels. `VoiceRelay` takes a segment of sound from the
microphone's presence detector over a socket of its own to exactly one utterance,
through late connections, sends that throw, errors, the watchdog, mute and reload. `RoundPage` brings
turns onto the page by doorbell and poll and speaks them around the candidate's
own speech. `PanesEditor` has the two timers of an edited file, requests that
overtake one another, and Run and Submit, which flush and then grade.

### PracticeDesk, PlanDesk, PaywallCard, Doorway

The customer's desks against the server. `PracticeDesk` is the clarifier's loop of
draft, gaps, answers, debounced re-checks and Start; `PlanDesk` the creation of a plan
(`creations`: asked for, made, refused, or waiting behind the paywall's card, each
landing in whatever the page shows by then), the planner's
conversation, late replies, resume and the three steps of an accept; `PaywallCard`
the card at the gate, its beacon, checkout and what is resumed on return;
`Doorway` the cookie that leads every tab's calls to one round's process.

### Subscriptions, Allowance

`Subscriptions` keeps `stripe` (the truth), `mail` (webhooks Stripe still repeats),
`calls` (handlers under way) and `top`, the last row of the ledger. `Allowance`
counts rounds from statuses and runs at every gate, as `paywall.ts` does, with
requests that await between gate and registration. A file the gate reads may be torn
(`broken`): it then lets everybody through, and `missed` counts the rounds started so that
it would have refused. What the code adds up row by row is
there the size of a set: `RunsSince`, the rows of the practice rounds' ledgers since a
day, and `ItemsRun`, the plan items that count once they were run.

### Adaptation, Runway, Workspaces

`Adaptation` previews, applies, crashes between its two files and repairs on the
next look. `Runway` is the timeline: `Rows` is `bucketIntoDays`, on both of its
paths, evaluated in every state of a queue, a set of dates and a day. The items of a
queue are numbered in its order, so that what the code filters is a set, and the place of
an item is how many of the set do not come after it (`PlaceIn`; `Key` puts what is left of
rounds that are past in front, as the code's concatenation does). `claim` is one item
put on a day and `PutOut` its loop over a segment. `InTime` says what the code keeps of
its comments: an item is never after its round's date, and before it where the window
has a day more than items. `Workspaces`
is a round's directory from run to run: archive, reset, copy, markers, ledger,
tarball and retention, with either process dying between any two writes.

### Verdict, Memory

`Verdict` renders a trace in half seconds to the judge's timeline, lets the judge
cite any second and reply badly, and keeps, clamps and quotes as the code does
while the trace may still grow. `Memory` writes what judged rounds leave behind
from two processes, the round's own and the operator's `rejudge`, each of which has in
`inHand` what it has read. `rejudge` asks only whether the round was launched, so it may
judge one that still runs, and with or without `--record`. Store and ledgers are
read in one step and written whole in another; either process dies between any two, in
the store's write in place (`torn`), and a rejudge also in the record's and the card's
(`cut`). The same death of finalize leaves a record or card that is not readable, as if
it had died before.

### Greeting, Copies

The welcome mail's claims against overlapping sweeps, and the two copies (mirror
and backups) of what is on disk.

### AppPartsMC, PagesMC, AppPartsProofs, ConversationProofs, PagesProofs

These parts share no state with one another while they run. So that they need not
each have a run, a behaviour of `AppPartsMC` or `PagesMC` picks one part in its
initial state and is a behaviour of that part, while the others rest in theirs. An
invariant of these modules is a conjunction with one conjunct per part, each
guarded by the part that runs; the conjuncts are the properties named in the
table below.

## The runs

| Run | Shows |
|---|---|
| `trace_delivery` | Order, at-most-once, nothing given up, the cost of torn writes, the refinement of `TraceLog`, and that everything durable arrives once the host stays up. Two sockets (one cut but still read), four events, two faults, one torn write. |
| `trace_torn_tail` | **Violation.** "Container death loses at most the unflushed tail": the first event of the next host is glued to the torn line and lost, too. |
| `session_round` | One ending and one grading, the one-shot verdict, memory after record, only what was in flight trails the ending, an ended round comes to rest. Four shapes, two requests, three activities. |
| `round_closed_trace` | **Violation.** After the ending, the trace must not grow: bodies, replies and editor events in flight still append. |
| `round_reaped` | **Violation.** A reap can take down a server whose judge is still out, and the assessment is never written. |
| `session_registry` | A task that carries requests (launches, kills, looks) and one that carries sweeps overlap: rooms are listed and apart, healthy ones spared, unless they are exposed; gone ones are freed. Two sessions, two slots, one of them old, or one stale pid, at a time. |
| `registry_lost_launch` | **Violation.** "A just-born container always has its entry": a sweep or look saves its stale copy over a launch. |
| `interviewer_turns` | One voice, every word in one place and eventually settled, the wrap-up's course, the budgets of help. Three utterances, one stuck episode, four initiatives. |
| `generation` | One agent per round, no healthy build failed, one automatic retry, ready is validated, every build is decided. One plan item, one rep, one build slot, two pids; two requests, one session and one mark by an agent, three in all. 0.46 million distinct states. |
| `generation_early_mark` | **Violation.** "The post-exit validateProblem stays the authoritative ruling": an agent's own passing validation has marked the directory, and a round that is then ruled against reads as ready. |
| `app_parts` | One behaviour for each part of `AppPartsMC`. *PreparedWorkIsKept*: `EverySessionIsFound`, `WorkIsKept`, `StartsPristine` of a directory, `NothingWaitsRetired`, `MismatchIsFlagged` of a plan, `HandedOutAsRuled`, `ContractIsTheDataSets`, `NothingGradableIsRefused`, `TopicsAreThePlans`, `ArchiveIsAsRuled` of a build. *UpkeepIsSafe*: `SettledAgrees` of the subscription ledger, `OnceEach`, `SeededStayClaimed`, `SuppressedHeardNothing` of the mail, `MirrorHasItAll`, `NewestStay` of the copies. *OffersAreHonest*: `AllowanceIsBounded`, and of the timeline `EachItemOnce`, `InTime`, `NothingDropsOut`, `TodayIsNext`. *WhatIsSaidIsEarned*: `LostSpeechIsShown`, `ReceiptsAreReal`, `HonestCitationsStand`, `SilenceIsNotGraded` of a verdict, and of the memory `ClosingIsEarned`, `OnlyJudgedRoundsOfTheirOwn`, `LedgersCountOnce`, `DepositsSurvive`, `CardsFindTheirPlayer`, `AssessedStays`. 0.74 million distinct states. |
| `pages` | One behaviour for each part of `PagesMC`. *NothingSaidIsLost*: `SegmentsAreRecordedOnce`, `WordsKeepTheirTime`, `TurnsAreShown`, `TurnsAreHeard`. *SubmittedIsGraded*: of the editor. *DesksSendWhatTheyShow*: `StaleDraftsNeverShip`, `RoundsAreThePlansOwn`, `AcceptedAsShown`, `BuiltRoundsStay`. *InterviewerIsFair*: `HintIsTrue`, `GreenComesFirst`, `NothingIsGivenAway`, `NoInterrogation`, `AnswersAreHeard`. *DoorsHold*: `CallsStayInside`, `TabsShowOwnRounds`, `PromisesAreKept`, `PaidIsResumed`. 0.96 million distinct states. |

`PROJECT.json` quotes, for each violation, the line of the code or comment it
contradicts, and for every property of a passing run one mutation of the code
that TLC finds to break it.

**Bounds and why they suffice.** Every bound is a constant in a guard. Two sockets
are what the channel can have at once (the current one and one cut but still
read); a third event and a second fault let a second host replay while frames of
the first are in flight. Three activities let a request, a turn and a run be
under way together when a round ends. Three utterances are one more than the
queue holds. Two sessions for two slots and one directory, one task of requests and one of
sweeps, meet full slots, a lingering round, a directory already in use, and each order of a
launch's and a sweep's steps; three sessions on one
pair of ports, and a stale pid beside an old session, agreed; the proofs have any number. Two requested builds with their automatic retries give the
sequence fail, retry, fail, retry by hand, and the rebuild of a round that was
launched or marked by its agent; one slot is the beta's setting. With three requests,
two marks and six events in all, one plan item alone and one rep alone agreed.
Plan items of one queue do not build together, so one stands for them.

In the parts: two subscriptions and three changes put a change of plan, its
late delivery and a confirmation into one ledger; two practice rounds and a
planned one, run up to twice a day, against a limit of two (a limit of one is spent
by the build, see *Money* below) reach both limits by every mix, over a change of
period, and one more by a gate that fails on the first day (on either day, 2.0 million
states agreed; nothing runs twice on the second day, see below); three runs of one directory meet a repeat of a
repeat; three rounds with a streak of two close a gap and open it again; a third
sweep can meet two that overlap; four backups keeping two make a listing that is
out of date delete. A trace of four events has room for a citation with a miss on
either side. A directory with one thing wrong beside its expectations, two dimensions
of a rubric and suites of at most two tests reach every verdict of the validator,
through a repair that breaks something else; every kind of order with two things
wrong at once (0.4 to 3.7 million states each) agreed. Four items of three rounds over six days, two of them shown, meet a
date that is past, two that are next to one another and a full window. On the
pages, three segments let one be superseded while the last one's answer is still
due; two tabs and two rounds make a cookie lie; two versions typed leave one
unsaved behind a submit; a conversation of three lines holds words, a question
and the answer to it.

Beside its constants each of the two runs has a `WithinBounds`, a conjunct of its
`CONSTRAINT`, that bounds sums of counters which are bounded singly as well: the
longest behaviours have the fewest faults. In `app_parts` it also has a
round run twice on the first day only, leaves out, where rejudge is used, the verdicts that
neither open nor close a gap, and keeps at most four of Stripe's events and answers on their
way; without these three 1.4 million states agreed. It cuts behaviours off where they stand,
and hides none of their states from the invariants. An earlier, larger instance of the mail
(two faults), the verdict (traces of five events) and of the pages (three turns, three
clarifying requests) agreed.

**Exceptions in the properties.** Several properties except what the code does not
hold, by a history variable that records exactly the step that breaks them
(`overtaken`, `lost`, `cutShort`, `slimUnder`, `outdated`, `unsure`, `lapsed`,
`carried`, `overlapped`, `loose`, `replaced`, `planLapses`, `cardLapses`,
`hasty`, `freed`, `wiped`, `crossed`, `old`, `early`, `cardless`, `cut`, `missed`). The comment at the property says what happens then, and a hazard of `PROJECT.json` of which
the biting case is excepted says so in its note. The `CONSTRAINT` of
`app_parts` and `pages` (`Followed`) also stops following a ledger that is known to
be wrong, a customer who was let through for good, and a desk past what its
properties except.

**Symmetry.** Rounds, segments, events and sweeps are numbered where their order
matters, so no symmetry sets are used.

**Deadlock.** Rounds end, sessions exit, bounded requests run out: the system may
stop, so deadlock is not checked.

**Fairness and why it is justified.**
*Channel*: a socket that was opened is read and its close noticed, and the
emitter redials on a timer.
*Round*: the judge's call has a timeout, an import completes, `setImmediate` fires.
*Turns*: the interviewer's call and the intent check have timeouts; the flush and
settle timers fire. Strong fairness on settling while nobody speaks: the 600 ms
timer re-arms while a turn is out, and the tick that could take the voice again
comes every 30 s.
*Registry*: probes have a timeout, so a task finishes; `setInterval` keeps
sweeping between whatever else is asked (strong fairness: requests may keep a task
busy); a reused pid does not live for ever, and an entry has a hard limit.
*Generation*: every model call a child makes has a timeout; a child's close is
delivered to a running app; the sweep's timer fires; the app is started again
when it is down. Nothing is assumed of users.

## What is proved

With TLAPS, for every value of the constants.

`TraceDeliveryProofs`: `TypeCorrect`, `StoredOrder`, `NothingGivenUp`, `TearCost`,
`Refinement` (`TraceDelivery` implements `TraceLog`), and `WholeTailWithoutTears`
(the documented promise does hold if no kill lands inside a write). The
inductive invariant adds to the properties what they do not say of the middle of
the channel: log numbers increase with emission (`LogOrdered`), the emitter's
counter is ahead of them (`EmitterAhead`), the store is a prefix of the log
(`StoredPrefix`), each socket's frames continue without a gap from somewhere at or
before the end of the store (`FramesFollow`), only one socket is live
(`OneLiveSocket`), every number acknowledged or on its way back is stored
(`AcksPassed`), and each missing event is paid for by a tear (`TearsAccount`).
`FramesFollow` is the heart: a replay starts at the cursor, and the cursor is
behind the store, so a gap can never be created by a replay.

`InterviewerTurnsProofs`: `TypeCorrect`, `OneVoiceAlways`, `NoWordLost`, `WrapUp`,
`Help`. The invariant adds `WrapBooks` and `HelpBooks` (what the call that is out
read at dispatch is still so when it returns, which follows from there being one
call) and `TurnsApart` (turns waiting or being judged share no words, without which
moving a turn could move a word twice). One lemma per action.

`SessionRoundProofs`: `TypeCorrect`, `EndsOnce`, `GradedRunDecides`,
`MemoryBehindRecord`, `TrailIsInFlight`. The properties speak of the round at rest;
the invariant says where everything is on the way there. The trace only grows and
the index of the ending never moves (`EndingPlaced`), the graded run is behind it
(`GradedRunPlaced`), each of finalize's writes is there only if the one before it is
(`RecordStaged`), and what the trace holds beyond the ending is paid for by what was in
flight then and no longer is (`TrailOwed`).

`SessionRegistryProofs`: `TypeCorrect`, `RoomsListed`, `RoomsApart` and `RoomsSpared`, for
any number of tasks however they overlap; what they except is in `Exposed` (above), and
without that they are false: run `registry_lost_launch` is the counterexample. The
invariant is `Sound`: the file, and each copy that a task has loaded and may yet write,
lists only sessions that were launched, and each session that runs and is not exposed
(`Kept`) holds its place there (`HoldsIn`): an entry of its own, and nobody else's with
its id or its ports. What a task holds stays true until it uses it (`AnswersAreTrue`): a
session that was heard to have ended has, and a kill is meant for none that is `Kept`.

`GenerationProofs`: `TypeCorrect`, `OneAgent`, `HealthyBuildsGoOn`, `RetriedOnce`,
`ReadyIsThere`. The invariant says what marker, flags and child tell of one
another: an agent has its marker, or its round is one of the two exceptions
(`KidsAlone`); a rep's child was preceded by its draft (`RepsAreDrafted`); a new item
has no files (`Untouched`); the ledger of retries counts (`LedgerKept`); and a
directory that a session or an archive refers to is still there (`SessionsAreOn`,
`ArtifactsStay`). Looking for it showed that `ReadyIsValidated` as first stated was
false with two sessions on a round, which one session in the run could not show:
a rebuild may wipe a round that is being played (see *Builds* below). It excepts `wiped`
rounds since; TLC agrees with two sessions and five events (0.83 million states), and
the theorem holds for any number.

`AppPartsProofs`: `PreparedWork`, `Upkeep`, `OffersHonest`, `SaidIsEarned` and
`PartsTypes`, all invariants of run `app_parts`, without its `CONSTRAINT`. Each
part has an invariant of its own, kept by its steps (`...Step`) and, as no other part
touches its variables, by all steps (`PartsStep`):
- directories (`WorkspaceInv`): who is preparing a directory has locked it, what was
  found was found before the reset, and work that is not in the tree is in an archive;
- plans (`AdaptInv`): a preview shows the difference of what it holds, and builds
  under way are of shapes the plan had;
- builds (`GateInv`): what the stamps claim is in the directory, a ruling is about the
  directory as it is or was left by a repair, and the archive is as old as its mark;
- memory (`MemoryInv`): each ledger, and what a process has read of one, holds a round
  once (`LedgerFits`, `StoreFits`); a round that a process deposits has an assessment, or lost
  it in a way that is excepted (`JobFits`, `Holdable`); a judge that fails finds no assessment
  to replace, but for the same exceptions (`JudgedFits`); and a card without an owner is one
  of the three exceptions (`CardsFit`, `Excused`). The lemmas about sums and streaks of records are
  stated over finite sets, by way of injections, as the code's loops cannot be unrolled;
- verdict (`VerdictInv`): time does not run backwards through a trace and a segment, and
  what the judge was shown is a part of it;
- billing (`BillingInv`): rows are states Stripe was in, and a state no row has
  yet is on its way; mail (`GreetingInv`): a person in a sweep's hand is claimed by that sweep;
  copies (`MirrorInv`, `BackupsInv`): what is not mirrored is owed by a request or
  sweep, and a listing holds only what was uploaded;
- the allowance (`AllowanceInv`): the property itself is not inductive, as a room that has
  not booted has no row yet, and as somebody who has not paid today may tomorrow. The invariant
  counts the run that is coming (`Coming`) and, for who has no subscription, the rows
  since the day one could begin (`CountedFrom`), both against what the failing gate has
  let through; no row is of a day to come;
- the timeline: its promises are about a function of the state, so that the invariant is only
  the type, and `PageIsHonest` is a theorem about that function. `PutOutIs` says what a
  loop over a segment does (an item is put on a free day of its window or nowhere, none twice,
  and all when there is room), `DealtToIs` what a window adds, and that with a day to spare none of it is the interview's, and
  `ByRoundIs`, by `Upward`, that windows do not meet; `DealtIs` is the path with one date, `VisibleIs` the rows drawn.

`PartsTypes` needs more than the parts' invariants where these speak of any number: that
the bounded counters stay in their bounds, and what is stamped by them (`HeldInv`).

`PagesProofs` (on `ConversationProofs`): `DoorsLead`, `SubmitIsGraded`,
`DesksAreHonest`, `NothingLost`, `InterviewerFair` and `PagesTypes`, all of run `pages`, again
with an invariant for each part. In `PagesProofs`:
- doors (`DoorInv`): whatever waits for an answer, and whatever a tab shows, is a round
  of this customer whose link was opened (`OwnRounds`), and the cookie names the link
  last followed, or none (`CookieFits`);
- card (`CardInv`): each wish that was promised a way through has a reason the server
  still accepts (`PromisesAreBacked`), and what was paid for is the wish held back, asked
  again at most once (`PendingFits`, `AgainFits`);
- editor (`EditorInv`): between the disk and the editor there is at most one save, and
  it carries the difference (`SavesFit`); the changes neither with an event nor still with
  the page were reported (`EditsFit`, counted by `Cardinality`, for any number of requests
  that overtake one another); a Submit waits for what it flushed (`SubmitWaits`);
- practice desk (`DeskInv`): answers and readings are of the draft they were asked
  about, or are marked as overtaken (`AnswersFit`, `DraftsFit`, `ReadingsFit`);
- plan desk (`PlanInv`): plans do not share directories or rounds (`PlansApart`), a page
  shows a state its plan's conversation was in (`PageInStep`), a page that waits for the
  creation of this visit shows no proposal, and an accept that
  nothing disturbed has read what it showed (`AcceptsInStep`).

In `ConversationProofs`:
- voice (`VoiceInv`): the service knows only of the open socket (`SockFits`), the record is
  in order and before the segment under way (`StampsFit`), nothing else is missing from it
  (`NoneMissing`), and all sound anywhere is of that segment, with one request for its words
  after all of it (`WordsFit`; unless `carried`, and before the budget is spent). While the
  candidate speaks nobody has asked for words yet (`TalkFits`);
- the round's page (`PageInv`): what is shown is a prefix of the turns (`ShownFits`); a poll
  asks for what follows it, and unless a request failed no turn is without a poke or a poll
  that brings it (`PollFits`); a turn is held back only for a sentence, an acknowledgement
  only in silence, and what sounds without the page's knowing was replaced (`PlaybackFits`);
- help (`InitiativeInv`): what the last help said was so of the trace. The heart is
  `StreakInv(r, n)`, what the record `r` of `detectStuck`'s loop says of the first `n` events:
  the streak began with an edit, no run passed since, there were as many attempts as it
  counts, and since its first failing run only files were edited that had been before, and
  none was opened for the first time;
- the interviewer's words (`SpeechInv`): the turn being composed may not name what the
  candidate has not found (`TurnIsGuarded`) and is governed once the last turns were all
  questions (`TurnIsGoverned`), although words and acknowledgements come between.

`PagesTypes` rests on these and on one predicate per part (`...Held`) that says what they leave
open. Most are bounds, but some had to be found: that the trace never holds more
changes than were typed needs `ReportsFit`, which says that the edit events carry disjoint
changes, lost or not; a plan's directory, its page and an accept hold only proposals of turns
that were sent (`OfTurn`); and a row or an answer of the practice desk is one the
clarifier gave for a draft that there was (`ReadingsHeld`, `PostsHeld`).

The loops over a trace, a buffer or a batch of turns are recursive functions of a counter.
The library's induction theorems cannot be instantiated here, so `Upward` (what holds of 0,
and of `n` if it holds of `n - 1`, holds up to `N`) is proved from the fact that a bounded set
of numbers has a highest one, and `Iterates` with it: such a recursive function exists. With
these two the loops are proved correct for any length.

The assumptions are the named `ASSUME`s of the modules: bounds are natural numbers
(positive where the code has a positive constant), rounds, cards and the like are numbered
where the code orders them, distinct kinds of values are distinct, and what is under
way at a time is finite. `LimitsAssumption` is about the box: a subscriber has at least the
free rounds (the defaults of `public-config.ts` are four and three). `RunwayAssumption` has
dates on days within the bound on the clock. The theorems do not use the `CONSTRAINT`s of the runs.

## What is only model-checked

The liveness properties (`EventuallyAllStored`, `EndedSettles`, `GoneRoomsAreFreed`,
`EveryWordSettles`, `BuildsAreDecided`): the prover handles neither fairness nor
`ENABLED`. Every invariant of a passing run, and the refinement, is stated by a theorem. No module here declares a recursive operator.

## What is abstracted or left out, and why

- Clocks: a timer may fire at any time it is armed. The 45 s after the sign-off and
  the ages in sweeps are choices.
- Words, prompts and the detectors' arithmetic: a lane may or may not fire, a reply
  may or may not carry a question or be silenced by a guard.
- Disks do not fail except by their process dying in the middle of a write; that
  `TraceStore` remembers a key before its line is written is a listed hazard.
- Registry: spawning and saving a launched entry is one step, as no await lies between.
  A session may get older than the hard limit at any time after its launch. `reconcileEntries`
  is as the code has it also when another session answers at an entry's port.
- Generation: the agent, its repair pass and the validator are one verdict, which
  `BuildGate` takes apart. The gate is `Allowance`'s, the directory of a repeat
  `Workspaces`'; the app dying between wiping and re-creating a directory is not
  modelled. A pid reused by a process that is not a child of the app is not modelled.
- `BuildGate`: invented rounds run on node, sourced ones on python; whether a round
  spec, its size and its files are in order is one bit, and so is whether a failing
  test's name is the manifest's; the sweeps of bytecode and a full disk are left out.
- Rebuilding under a live session, overshooting the build slots through
  `/api/practice`, and a second agent started beside a child that has not closed
  are reachable in `Generation`; its properties do not deny them.
- One customer, one plan, one file, one gap: where the code never looks across
  customers, files or behaviours, one stands for all. `Doorway` has the rounds of
  others as well.
- The page: markup, wording, animation and the pages that only read (history, the
  list of plans, contact) are left out.
- Voice: the adaptive noise floor and prices; the judge: the template and the
  compression of a long timeline; the clarifier and the planner: prompts, tools,
  parsing beyond which gaps come back; Stripe, Postgres, the bucket, the speech
  service and the mailer are external and do what the code is prepared for.
- Pure functions over text and files (blueprints, the wording gate, data-set
  conversion, rendering) have no state a machine would add to; sign-in, analytics
  and the contact form are thin clients; the evaluation harness plays candidates
  against the interviewer and is not part of the product.

## Observations

Met while modelling, each at its line. The models contain these steps, and the
properties except them where they would otherwise fail; the five violations above
have runs of their own.

*The trace and the judge*
- `timeline.ts:97`: an utterance is stamped with the start of speech
  (`session.ts:948`), so `e.ts` is the start too and the overlap the comment
  describes is of a point. Speech begun before an outage and lost in it is dropped
  as a phantom, and an empty segment begun during an outage counts as lost speech.
  The test that pins the overlap (`timeline.test.ts:61`) gives the event a
  timestamp that the relay never produces.
- `judge.ts:121`: a clamped dimension keeps its other fields, so the mark of a
  stripped receipt stays on a row that says nobody was listening.
- `moments.ts:112`: a run that was cut off counts as the result of the first fix,
  and is reported as "still fails".

*Answers*
- `addressing.ts:147`: the fast path for an answer compares a turn's text with one
  utterance's. A spoken turn of several segments is their concatenation, equals
  none, and always goes to the gate. A turn that lands between an utterance and
  its flush makes earlier words its answer.

*The timeline of a plan* (`queue.ts`)
- An interview's day counts as a whole day (`:99`), so `days - 1` reaches to the
  interview's own day, not "the day before" (`:421`), and "BEFORE its own date"
  (`:450`) is "on or before" in a window that has as many items as days. With a day to
  spare it is before, which `InTime` states.
- `:471` says that walking forward keeps a tight segment from dropping items.
  Collisions only happen at the window's last day, from which there is nowhere to walk:
  an item more than days is not shown. The first day after an interview belongs
  to no window, so of two rounds on consecutive days the second has no window
  at all, and none of its items is on the timeline.
- With one date for the loop a later item takes the day of an earlier one when
  they are more than the days (`:424`).
- `hidden` (`:520`) counts what lies beyond the last row, and an interview far ahead is
  such a row: what lies between the days shown and that interview is neither
  shown nor counted.

*Money*
- `app.ts:2563` says that the client awaits the probe on the grant path; the client
  (`client/app.js:3559`) sends a beacon and goes on. A retry that overtakes it is
  gated again.
- A late webhook or a confirmation that waited overrides a newer state
  (`billing.ts:79`); a row whose append failed is lost under a 200 (`app.ts:467`).
- `app.ts:3138`, `:3225`, `:3862`: the gate at a launch counts the round's own build
  (`paywall.ts:274`), so the last round of an allowance can be built and not played: with
  three free rounds the third is refused as "You have used your 3 free rounds"
  (`:2175`), although `paywall.ts:258` means "a build the user then runs" to be one round.
- `app.ts:2145`: a gate that throws lets everything through, as its comment intends
  (`:2074`); while a queue of the customer cannot be read, every start is free.
- `client/app.js:3672`: Escape while checkout opens closes the card and the page
  still navigates.

*Builds*
- `cli.ts:986`: an agent's own passing validation marks and archives the directory it
  is still writing. A ruling against it afterwards does not undo either, so the
  app's close handler (`app.ts:686`) neither fails nor retries the round; a sweep after
  a restart removes the live child's marker, and a rebuild then starts a second
  agent; and the archive that a repeat restores (`artifact.ts:105`) is the
  directory of that moment, before strip, repair and stamps.
- `validate.ts:312`: the runner's report of an earlier run is read when the present
  run leaves none.
- `validate.ts:336`: a planted bug without `failing_test` is reported by the manifest's
  check and then compared all the same, which throws: the build ends without its
  repair pass.
- `cli.ts:314`: the filter of topics is not applied again after the repair pass, whose
  agent may rewrite the manifest; the topic store (`topic-log.ts:38`) "trusts its
  writers".
- The kind of check that was ordered is never compared with the manifest's.
- `app.ts:3350`: a retried rep keeps the stored status `failed`, which reconciliation
  does not turn back (`queue.ts:224`), so while it builds it does not count against
  the build slots (`app.ts:633`), which a "manual retry honors" (`app.ts:3341`).
- `app.ts:3738`: a rebuild asks for the stored status `ready`, which a row keeps from
  launch to verdict, so an item flagged as stale while its round is played is
  wiped under the session. The row keeps the session of the lost artifact
  (`queue.ts:248`), so that session's verdict makes the new build read as done, and the
  next launch makes it read as ready whatever the directory then holds.
- `app.ts:3758`: a rebuild leaves the archive of the old build beside the directory, and
  the new build does not replace it.

*Desks and pages*
- Late replies are written into whatever plan is open (`client/app.js:446`); two
  accepts of one plan overlap (`app.ts:3487`).
- "Leaving the intake abandons the client-side flow" (`client/app.js:292`), but the answer
  to the creation of a plan (`:504`) sets that plan's id wherever the page is by then: under
  the proposal of another plan that was opened meanwhile, whose rounds a confirm then lays in
  the new one.
- Overlapping saves of the editor overtake one another and a failed one is not
  repeated (`client/panes.js:55`).
- `client/app.js:3906`: one failed poll ends the wait for a launch; the sample's
  poll (`:1602`) does not look at `gone`.
- `voice.ts:166`: sound that was not sent stays buffered into the next segment; so does what
  an open socket throws on (`:253`), which is sent when the next one opens. (The library in
  use does not throw there; the code is prepared for one that does.)
- `session-router.ts:75`: without authentication a stale cookie leads to the one
  live round, whoever's it is.

*Stores*
- `gap-graph.ts:372`: the store is written in place; a file cut short makes every
  later load of it throw. `rejudge --record` appends a round that is already there
  and counts it twice, and its card has no owner if finalize never wrote one
  (`cli.ts:868`).
- `cli.ts:705`: `rejudge` does not ask whether the round is over. A finalize that
  comes after it writes over its record, also with a judge that failed (`session.ts:1410`),
  although the deposits of the earlier verdict stay; "a failed judge call must never replace
  an assessed record" (`cli.ts:792`) holds for rejudge alone.
- `cli.ts:807`, `:881`: record and card are written in place, so a rejudge that dies there
  leaves neither the old one nor the new.
- `topic-graph.ts:256`, `topic-log.ts:124`: each ledger is published whole from what was
  read; of two processes that overlap the later one drops the other's row.
- `session-registry.ts:100`: a session that runs for three hours and does not answer one probe
  is dropped, and the sweep that drops it removes its container.
- `app.ts:1939`: the mirror's watermark moves before the rows are stored.
- `session.ts:1737`: two processes rewrite a card's feedback.
- `retention.ts` may slim a round that was reset but not started yet, as `.used`
  still names the old session.

## Plan

Done: the channel and its refinement; the round; the registry and the router; the
turns, what they may say and the detectors; generation and its gate, adaptation,
timeline, workspaces; billing and the allowance; judge and memory; the customer's pages;
upkeep. Proofs of all invariants the runs check.

Not modelled: the home page's polls, which render out of order; card
feedback; the written deliverable of a review round.

## Running

    tlc -workers 2 -config TraceDelivery.cfg TraceDelivery.tla
    tlc -workers 2 -config SessionRound.cfg  SessionRoundMC.tla
    tlc -workers 2 -config AppParts.cfg      AppPartsMC.tla
    tlc -workers 2 -config Pages.cfg         PagesMC.tla
    tlapm TraceDeliveryProofs.tla
    tlapm InterviewerTurnsProofs.tla
    tlapm SessionRoundProofs.tla
    tlapm SessionRegistryProofs.tla
    tlapm GenerationProofs.tla
    tlapm AppPartsProofs.tla
    tlapm ConversationProofs.tla
    tlapm PagesProofs.tla

Each configuration names the module it belongs to in `PROJECT.json`. The longest,
`app_parts`, `generation` and `pages`, take two minutes or so on two workers.
`AppPartsProofs` takes about a quarter of an hour to prove from nothing, `PagesProofs` nearly as long,
`ConversationProofs` six minutes, the others about one.
