-------------------------------- MODULE Memory --------------------------------
(***************************************************************************)
(* What judged rounds leave behind (server/src: finalize in session.ts,    *)
(* rejudge in cli.ts, gap-graph.ts, topic-graph.ts, topic-log.ts,          *)
(* verdict-history.ts, /api/memory and /api/feedback in app.ts).           *)
(*                                                                         *)
(* A round's session process judges it and writes, one file after another, *)
(* its assessment, its player's gap store, two ledgers of topics and the   *)
(* card.  The operator's rejudge, a process of its own, judges any round   *)
(* that was launched, also one that still runs, and may write the same     *)
(* files.  Either may die between any two steps, or in a write in place.   *)
(* Store and ledgers are read whole, changed and written whole, and        *)
(* nothing is locked.                                                      *)
(*                                                                         *)
(* One player, who plays one round after another, and one behaviour that   *)
(* can be a gap.  What a judge makes of it: "weak"; "unclear", which has   *)
(* no receipt or could not be seen in a round where something could;       *)
(* "silent", nothing could; "fine".  "failed" is a judge that did not      *)
(* answer.                                                                 *)
(***************************************************************************)
EXTENDS Naturals, Sequences, FiniteSets

CONSTANTS
  Rounds,        \* session ids, which count the clock: an id is minted after a smaller one
  Streak,        \* REMEDIATION_STREAK
  MaxOdd,        \* bound on rounds that are no real ones
  MaxDeaths,     \* bound on deaths of a process
  MaxRejudges    \* bound on uses of rejudge

ASSUME RoundsAssumption == Rounds \subseteq Nat
ASSUME StreakAssumption == Streak \in Nat \ {0}
ASSUME MemoryBoundsAssumption == MaxDeaths \in Nat /\ MaxRejudges \in Nat

VARIABLES
  kinds,         \* real, harness (an id no launch mints) or sample; "unplayed"
  over,          \* rounds whose process is done or dead
  assessments,   \* assessments/<sid>.json; "none" when there is no readable one
  memory,        \* gaps/<user>.json
  topics,        \* topics/<user>.json: rows, by the round and who wrote it
  planTopics,    \* targets/<plan>/topic-log.json
  cards,         \* feedback/<sid>.json; absent, too, when it is not readable
  inHand,        \* what finalize and rejudge have in hand
  overlapped,    \* history: a store was written over one it was not read from
  early,         \* history: rounds that were rejudged before they were over
  cardless,      \* history: rounds whose own process ended before their card
  cut,           \* history: rounds one of whose files a dying rejudge cut short
  deaths, rejudges

memoryVars == <<kinds, over, assessments, memory, topics, planTopics, cards, inHand,
                overlapped, early, cardless, cut, deaths, rejudges>>

Verdicts == {"weak", "unclear", "silent", "fine"}
Results == Verdicts \cup {"failed"}
Processes == {"session", "rejudge"}
Row == [round : Rounds, from : Processes]
Card == [present : BOOLEAN, owned : BOOLEAN, celebrates : BOOLEAN]
Blank == [records |-> <<>>, closedAfter |-> {}, torn |-> FALSE]
NoCard == [present |-> FALSE, owned |-> FALSE, celebrates |-> FALSE]
NoWork == [at |-> "idle"]

\* A process that starts on a round, and what it goes on to have in hand.
Work(r, records) ==
  [at |-> "judges", round |-> r, result |-> "failed", records |-> records,
   seen |-> Blank, rows |-> {}, owned |-> FALSE]

\* It goes on to its next step.
NextAt(p, at) == [p EXCEPT !.at = at]

Steps == {"judges", "writes", "loads", "saves", "topics", "topicsRead", "plan", "planRead",
          "card", "cardRead"}

MemoryTypeOK ==
  /\ kinds \in [Rounds -> {"unplayed", "real", "harness", "sample"}]
  /\ over \subseteq Rounds
  /\ assessments \in [Rounds -> Results \cup {"none"}]
  /\ \A i \in 1..Len(memory.records) :
       memory.records[i] \in [round : Rounds, verdict : Verdicts]
  /\ memory.closedAfter \subseteq Rounds /\ memory.torn \in BOOLEAN
  /\ topics \subseteq Row /\ planTopics \subseteq Row
  /\ cards \in [Rounds -> Card]
  /\ \A w \in Processes :
       inHand[w] = NoWork \/
         (inHand[w].at \in Steps /\ inHand[w].round \in Rounds
           /\ inHand[w].result \in Results)
  /\ overlapped \in BOOLEAN
  /\ early \subseteq Rounds /\ cardless \subseteq Rounds /\ cut \subseteq Rounds
  /\ deaths \in 0..MaxDeaths /\ rejudges \in 0..MaxRejudges

MemoryInit ==
  /\ kinds = [r \in Rounds |-> "unplayed"]
  /\ over = {}
  /\ assessments = [r \in Rounds |-> "none"]
  /\ memory = Blank
  /\ topics = {} /\ planTopics = {}
  /\ cards = [r \in Rounds |-> NoCard]
  /\ inHand = [w \in Processes |-> NoWork]
  /\ overlapped = FALSE /\ early = {} /\ cardless = {} /\ cut = {}
  /\ deaths = 0 /\ rejudges = 0

---------------------------------------------------------------------------
(* The gap store.                                                          *)

Fired(records) == {i \in 1..Len(records) : records[i].verdict = "weak"}

\* Rounds in which something could be assessed.
Triggered(records) == {i \in 1..Len(records) : records[i].verdict # "silent"}

Latest(S, n) == {i \in S : Cardinality({j \in S : i <= j}) <= n}

\* A gap that fired before the last rounds that could show it closes when
\* every one of those is clean; one that could not tell is not clean.
Remediated(records) ==
  LET recent == Latest(Triggered(records), Streak)
  IN  /\ Cardinality(recent) = Streak
      /\ \A i \in recent : records[i].verdict = "fine"
      /\ \E j \in Fired(records) : \A i \in recent : j < i

\* recordAssessment and recordSession: the round is appended, whether or not
\* it is there; a gap that fires is open again.
WithRound(store, r, v) ==
  LET records == Append(store.records, [round |-> r, verdict |-> v])
      before == IF v = "weak" THEN {} ELSE store.closedAfter
  IN  [records |-> records, torn |-> FALSE,
       closedAfter |-> IF before = {} /\ Remediated(records) THEN {r} ELSE before]

\* buildGraphView: what the card of round r announces, and what the next
\* problem and the interviewer are aimed at.
NewlyClosed(store, r) == r \in store.closedAfter
Focused(store) == Fired(store.records) # {} /\ store.closedAfter = {}

\* upsertSessionAttempts, upsertRow: all rows of the round go, the new ones land.
Upserted(rows, r, from) == {x \in rows : x.round # r} \cup {[round |-> r, from |-> from]}

\* isMemorableSessionId
Memorable(r) == kinds[r] # "harness"

---------------------------------------------------------------------------
(* A round is played and judged, and a round is judged again.              *)

\* A round that starts: its process has it in hand until it is over.
RoundStarts(r) ==
  /\ inHand["session"] = NoWork /\ kinds[r] = "unplayed"
  /\ \A s \in Rounds : s < r => kinds[s] # "unplayed"
  /\ \E kind \in {"real", "harness", "sample"} :
       /\ kind # "real" =>
            Cardinality({s \in Rounds : kinds[s] \in {"harness", "sample"}}) < MaxOdd
       /\ kinds' = [kinds EXCEPT ![r] = kind]
       /\ inHand' = [inHand EXCEPT !["session"] = Work(r, kind # "sample")]
  /\ UNCHANGED <<over, assessments, memory, topics, planTopics, cards, overlapped,
                 early, cardless, cut, deaths, rejudges>>

\* finalize has the judge's answer, and writes it over whatever is there; a
\* sample writes nothing of all this, whatever comes of it.
SessionJudges ==
  LET p == inHand["session"] IN
  /\ p.at = "judges"
  /\ \E result \in Results :
       /\ ~ p.records => result = "fine"
       /\ inHand' = [inHand EXCEPT !["session"] = [NextAt(p, "loads") EXCEPT !.result = result]]
       /\ assessments' = IF p.records THEN [assessments EXCEPT ![p.round] = result]
                         ELSE assessments
  /\ UNCHANGED <<kinds, over, memory, topics, planTopics, cards, overlapped,
                 early, cardless, cut, deaths, rejudges>>

\* rejudge wants a trace and a directory whose ledger names the round, which is
\* there once it was launched: nothing asks whether it is over.  A sample's is in
\* no directory it searches.  It may record what it finds, or only look.
Rejudges(r) ==
  /\ inHand["rejudge"] = NoWork /\ rejudges < MaxRejudges
  /\ kinds[r] \in {"real", "harness"}
  /\ \E record \in BOOLEAN : inHand' = [inHand EXCEPT !["rejudge"] = Work(r, record)]
  /\ early' = IF r \in over THEN early ELSE early \cup {r}
  /\ rejudges' = rejudges + 1
  /\ UNCHANGED <<kinds, over, assessments, memory, topics, planTopics, cards, overlapped,
                 cardless, cut, deaths>>

\* A record that is always replaced.
NeverKeeps(r, result) == FALSE

\* A judge that fails leaves an assessed record alone.
KeepsRecord(r, result) == result = "failed" /\ assessments[r] \in Verdicts

\* Where rejudge is when it is done with the assessment: without --record
\* nothing else is written.
Onward(p) == IF p.records THEN NextAt(p, "loads") ELSE NoWork

\* rejudge has the judge's answer, and looks at the record there is.
RejudgeJudges ==
  LET p == inHand["rejudge"] IN
  /\ p.at = "judges"
  /\ \E result \in Results :
       LET judged == [p EXCEPT !.result = result] IN
       inHand' = [inHand EXCEPT !["rejudge"] =
                  IF KeepsRecord(p.round, result) THEN Onward(judged)
                  ELSE NextAt(judged, "writes")]
  /\ UNCHANGED <<kinds, over, assessments, memory, topics, planTopics, cards, overlapped,
                 early, cardless, cut, deaths, rejudges>>

RejudgeWrites ==
  LET p == inHand["rejudge"] IN
  /\ p.at = "writes"
  /\ assessments' = [assessments EXCEPT ![p.round] = p.result]
  /\ inHand' = [inHand EXCEPT !["rejudge"] = Onward(p)]
  /\ UNCHANGED <<kinds, over, memory, topics, planTopics, cards, overlapped,
                 early, cardless, cut, deaths, rejudges>>

---------------------------------------------------------------------------
(* What finalize and rejudge --record do alike.                            *)

\* Only what persists, was assessed and is no harness's goes into memory.
Deposits(p) == p.records /\ p.result # "failed" /\ Memorable(p.round)

\* A process that ends before it wrote the card.
EndsEarly(w) ==
  /\ inHand' = [inHand EXCEPT ![w] = NoWork]
  /\ over' = IF w = "session" THEN over \cup {inHand[w].round} ELSE over
  /\ cardless' = IF w = "session" /\ inHand[w].records
                 THEN cardless \cup {inHand[w].round} ELSE cardless

\* A store cut short by a crash cannot be parsed: both throw.
LoadsTorn(w) ==
  /\ inHand[w].at = "loads" /\ memory.torn
  /\ EndsEarly(w)
  /\ UNCHANGED <<kinds, assessments, memory, topics, planTopics, cards, overlapped,
                 early, cut, deaths, rejudges>>

Loads(w) ==
  LET p == inHand[w]
      next == IF Deposits(p) THEN "saves" ELSE "card"
  IN
  /\ p.at = "loads" /\ ~ memory.torn
  /\ inHand' = [inHand EXCEPT ![w] = [NextAt(p, next) EXCEPT !.seen = memory]]
  /\ UNCHANGED <<kinds, over, assessments, memory, topics, planTopics, cards, overlapped,
                 early, cardless, cut, deaths, rejudges>>

\* saveStore, of what was read and the round.
Saves(w) ==
  LET p == inHand[w]
      new == WithRound(p.seen, p.round, p.result)
  IN
  /\ p.at = "saves"
  /\ memory' = new
  /\ overlapped' = (overlapped \/ p.seen # memory)
  /\ inHand' = [inHand EXCEPT ![w] = [NextAt(p, "topics") EXCEPT !.seen = new]]
  /\ UNCHANGED <<kinds, over, assessments, topics, planTopics, cards,
                 early, cardless, cut, deaths, rejudges>>

\* recordTopicAttempts, then recordTopicLogRow: each ledger is read, and
\* published whole with the round's row in it.
ReadsTopics(w) ==
  LET p == inHand[w] IN
  /\ p.at = "topics"
  /\ inHand' = [inHand EXCEPT ![w] = [NextAt(p, "topicsRead") EXCEPT !.rows = topics]]
  /\ UNCHANGED <<kinds, over, assessments, memory, topics, planTopics, cards, overlapped,
                 early, cardless, cut, deaths, rejudges>>
SavesTopics(w) ==
  LET p == inHand[w] IN
  /\ p.at = "topicsRead"
  /\ topics' = Upserted(p.rows, p.round, w)
  /\ inHand' = [inHand EXCEPT ![w] = [NextAt(p, "plan") EXCEPT !.rows = {}]]
  /\ UNCHANGED <<kinds, over, assessments, memory, planTopics, cards, overlapped,
                 early, cardless, cut, deaths, rejudges>>
ReadsPlan(w) ==
  LET p == inHand[w] IN
  /\ p.at = "plan"
  /\ inHand' = [inHand EXCEPT ![w] = [NextAt(p, "planRead") EXCEPT !.rows = planTopics]]
  /\ UNCHANGED <<kinds, over, assessments, memory, topics, planTopics, cards, overlapped,
                 early, cardless, cut, deaths, rejudges>>
SavesPlan(w) ==
  LET p == inHand[w] IN
  /\ p.at = "planRead"
  /\ planTopics' = Upserted(p.rows, p.round, w)
  /\ inHand' = [inHand EXCEPT ![w] = [NextAt(p, "card") EXCEPT !.rows = {}]]
  /\ UNCHANGED <<kinds, over, assessments, memory, topics, cards, overlapped,
                 early, cardless, cut, deaths, rejudges>>

---------------------------------------------------------------------------
(* The card, and the ends.                                                 *)

CardOf(p, owned) ==
  [present |-> TRUE, owned |-> owned, celebrates |-> NewlyClosed(p.seen, p.round)]

\* finalize's card names its owner.
SessionCard ==
  LET p == inHand["session"] IN
  /\ p.at = "card"
  /\ cards' = IF p.records THEN [cards EXCEPT ![p.round] = CardOf(p, TRUE)] ELSE cards
  /\ over' = over \cup {p.round}
  /\ inHand' = [inHand EXCEPT !["session"] = NoWork]
  /\ UNCHANGED <<kinds, assessments, memory, topics, planTopics, overlapped,
                 early, cardless, cut, deaths, rejudges>>

\* rejudge --record refreshes the card; what else the file held when it was read
\* stays, so a card that finalize had not written gets no owner.
RejudgeReadsCard ==
  LET p == inHand["rejudge"] IN
  /\ p.at = "card"
  /\ inHand' = [inHand EXCEPT !["rejudge"] =
                  [NextAt(p, "cardRead") EXCEPT !.owned = cards[p.round].owned]]
  /\ UNCHANGED <<kinds, over, assessments, memory, topics, planTopics, cards, overlapped,
                 early, cardless, cut, deaths, rejudges>>
RejudgeCard ==
  LET p == inHand["rejudge"] IN
  /\ p.at = "cardRead"
  /\ cards' = [cards EXCEPT ![p.round] = CardOf(p, p.owned)]
  /\ inHand' = [inHand EXCEPT !["rejudge"] = NoWork]
  /\ UNCHANGED <<kinds, over, assessments, memory, topics, planTopics, overlapped,
                 early, cardless, cut, deaths, rejudges>>

\* A process dies between two steps, or in the middle of the store's write, which
\* is in place.
ProcessDies(w) ==
  /\ inHand[w] # NoWork /\ deaths < MaxDeaths
  /\ memory' \in {memory} \cup
       (IF inHand[w].at = "saves" THEN {[Blank EXCEPT !.torn = TRUE]} ELSE {})
  /\ EndsEarly(w)
  /\ deaths' = deaths + 1
  /\ UNCHANGED <<kinds, assessments, topics, planTopics, cards, overlapped,
                 early, cut, rejudges>>

\* So are the assessment's and the card's: what a rejudge that dies in them
\* leaves is nothing anyone can read.
RejudgeDiesWriting ==
  LET p == inHand["rejudge"] IN
  /\ deaths < MaxDeaths
  /\ \/ /\ p.at = "writes"
        /\ assessments' = [assessments EXCEPT ![p.round] = "none"]
        /\ UNCHANGED cards
     \/ /\ p.at = "cardRead"
        /\ cards' = [cards EXCEPT ![p.round] = NoCard]
        /\ UNCHANGED assessments
  /\ cut' = cut \cup {p.round}
  /\ inHand' = [inHand EXCEPT !["rejudge"] = NoWork]
  /\ deaths' = deaths + 1
  /\ UNCHANGED <<kinds, over, memory, topics, planTopics, overlapped,
                 early, cardless, rejudges>>

MemoryNext ==
  \/ \E r \in Rounds : RoundStarts(r) \/ Rejudges(r)
  \/ SessionJudges \/ SessionCard
  \/ RejudgeJudges \/ RejudgeWrites \/ RejudgeReadsCard \/ RejudgeCard \/ RejudgeDiesWriting
  \/ \E w \in Processes :
       \/ LoadsTorn(w) \/ Loads(w) \/ Saves(w)
       \/ ReadsTopics(w) \/ SavesTopics(w) \/ ReadsPlan(w) \/ SavesPlan(w)
       \/ ProcessDies(w)

---------------------------------------------------------------------------
(* What the memory promises.                                               *)

\* Rounds that were put into the gap store more than once.
Doubled == {r \in Rounds :
  Cardinality({i \in 1..Len(memory.records) : memory.records[i].round = r}) > 1}

\* A gap is closed only by a streak of different rounds, each of which could
\* show it and was clean, all after the last in which it fired.  While a round
\* is in the store twice, as rejudge --record leaves one that finalize recorded,
\* nothing is said.
ClosingIsEarned ==
  memory.closedAfter # {} /\ Doubled = {}
    => Cardinality({memory.records[i].round : i \in
          {i \in 1..Len(memory.records) :
             /\ memory.records[i].verdict = "fine"
             /\ \A j \in Fired(memory.records) : j < i}}) >= Streak

\* Nothing of a harness's round, of a sample or of a judge that failed is in
\* the gap store or a ledger, whoever judged it.
OnlyJudgedRoundsOfTheirOwn ==
  /\ \A i \in 1..Len(memory.records) : kinds[memory.records[i].round] = "real"
  /\ \A x \in topics \cup planTopics : kinds[x.round] = "real"

\* A round has at most one row in each ledger, however finalize and rejudge
\* overlap; whose it is, and that it is there, is not promised.
LedgersCountOnce ==
  \A L \in {topics, planTopics} : \A x, y \in L : x.round = y.round => x = y

\* What the ledger of topics counts is in the gap store too, unless two
\* processes wrote the store over one another or a crash cut it short.
DepositsSurvive ==
  overlapped \/ memory.torn \/
    \A x \in topics : \E i \in 1..Len(memory.records) : memory.records[i].round = x.round

\* buildVerdictHistory and /api/feedback, for one who did not play the round:
\* a card without an owner is taken for the founder's.
ShownToTheFounder(r) == cards[r].present /\ ~ cards[r].owned

\* The card of a round is shown to its player alone, unless the round's own
\* process ended before writing it, rejudge was used before the round was over,
\* or an earlier rejudge died writing it; a sample's is shown to nobody else.
CardsFindTheirPlayer ==
  \A r \in Rounds : ShownToTheFounder(r) =>
    kinds[r] # "sample" /\ r \in cardless \cup early \cup cut

\* A round in the store has an assessed record: a judge that fails never
\* replaces a good one, unless rejudge was used before the round was over, when
\* finalize writes over it, or died writing the record.
AssessedStays(r) ==
  (\E i \in 1..Len(memory.records) : memory.records[i].round = r)
    => assessments[r] \in Verdicts \/ r \in early \cup cut

\* What the app remembers of a player was judged, in rounds of theirs.
MemoryIsEarned ==
  /\ ClosingIsEarned
  /\ OnlyJudgedRoundsOfTheirOwn
  /\ LedgersCountOnce
  /\ DepositsSurvive
  /\ CardsFindTheirPlayer
  /\ \A r \in Rounds : AssessedStays(r)
=============================================================================
