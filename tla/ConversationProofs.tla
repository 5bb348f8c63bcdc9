-------------------------- MODULE ConversationProofs --------------------------
(***************************************************************************)
(* Proofs about the conversation of a round: what the interviewer may say  *)
(* (Speaking), when it offers help (Initiative), the way of the voice      *)
(* (VoiceRelay) and what the round's page shows and plays (RoundPage), for *)
(* any number of segments, turns, faults and events.                       *)
(*                                                                         *)
(* Each has an inductive invariant of its own: SpeechInv, InitiativeInv,   *)
(* VoiceInv and PageInv, which PagesProofs joins.                          *)
(***************************************************************************)
EXTENDS VoiceRelay, RoundPage, Initiative, Speaking, FiniteSetTheorems,
        SequenceTheorems, WellFoundedInduction, TLAPS

\* A set of numbers up to n has a highest one.
LEMMA HighestExists ==
  ASSUME NEW n \in Nat, NEW S, S \subseteq 1..n, S # {}
  PROVE  \E x \in S : \A y \in S : y <= x
<1> DEFINE T == {x..n : x \in S}
<1>1. T \subseteq SUBSET (1..n) /\ T # {}
  <2>1. \A x \in S : x..n \subseteq 1..n
    BY SMT
  <2>2. PICK x \in S : TRUE
    OBVIOUS
  <2>3. x..n \in T
    OBVIOUS
  <2> QED BY <2>1, <2>3
<1>2. IsWellFoundedOn(StrictSubsetOrdering(1..n), SUBSET (1..n))
  <2>1. IsFiniteSet(1..n)
    BY FS_Interval
  <2>2. FiniteSubsetsOf(1..n) = SUBSET (1..n)
    BY <2>1, FS_FiniteSubsetsOfFinite
  <2> QED BY <2>1, <2>2, FS_StrictSubsetOrderingWellFounded, Zenon
<1>3. \E t \in T : \A u \in T : ~ (<<u, t>> \in StrictSubsetOrdering(1..n))
  <2> HIDE DEF T
  <2> QED BY <1>1, <1>2, WFMin, Zenon
<1>4. PICK x \in S : \A y \in S : ~ (<<y..n, x..n>> \in StrictSubsetOrdering(1..n))
  BY <1>3
<1>5. ASSUME NEW y \in S, y > x PROVE FALSE
  <2>1. x \in 1..n /\ y \in 1..n
    OBVIOUS
  <2>2. y..n \subseteq x..n /\ x \in x..n /\ x \notin y..n
    BY <1>5, <2>1
  <2>3. x..n \in SUBSET (1..n) /\ y..n \in SUBSET (1..n)
    BY <2>1
  <2>4. <<y..n, x..n>> \in StrictSubsetOrdering(1..n)
    BY <2>2, <2>3 DEF StrictSubsetOrdering
  <2> QED BY <1>4, <2>4
<1>6. \A y \in S : y <= x
  BY <1>5
<1> QED BY <1>6

---------------------------------------------------------------------------
(* The interviewer's words.                                                *)

Lines ==
  [kind : {"words", "turn", "ack", "time"}, help : BOOLEAN, stance : Stances,
   leak : Leaks, governed : BOOLEAN, exempt : BOOLEAN, at : Nat]

SpeechTypes ==
  /\ talk \in Seq(Lines)
  /\ hour \in Nat
  /\ found \subseteq KeyFiles
  /\ turn \in [lane : Lanes \cup {"none"}, forbidden : SUBSET Leaks,
               governed : BOOLEAN, exempt : BOOLEAN]

\* What waits for the silence after it has been said.
WordsAreSaid == \A s \in buffered : s.line \in Spoken(talk)

\* The turn being composed may not give away what the player does not know by now.
TurnIsGuarded ==
  turn # NoTurn =>
    /\ KeyFiles \ found \subseteq turn.forbidden
    /\ turn.lane = "help" /\ "term" \notin turn.forbidden =>
         \E j \in Spoken(talk) : talk[j].leak = "term"

\* It is governed by the questions asked before it, still the last turns.
TurnIsGoverned ==
  turn # NoTurn /\ ~ turn.exempt /\ questionStreak(talk) >= QUESTION_STREAK_LIMIT
    => turn.governed

\* A question asked once too often was marked.
ExcessIsMarked == \A i \in Turns(talk) : Excessive(i) => talk[i].governed

SpeechInv ==
  /\ SpeechTypes /\ WordsAreSaid /\ TurnIsGuarded /\ TurnIsGoverned /\ ExcessIsMarked
  /\ NothingIsGivenAway /\ NoInterrogation /\ AnswersAreHeard

\* The turn at i, by what came before it, in a conversation.
ExcessiveIn(lines, i) ==
  LET before == {j \in Turns(lines) : j < i}
  IN  /\ lines[i].stance = "asks" /\ ~ lines[i].exempt
      /\ Cardinality({j \in before : \A k \in before : k >= j => lines[k].stance = "asks"})
           >= QUESTION_STREAK_LIMIT

\* One more line leaves those before it as they are.
LEMMA OneMoreLine ==
  ASSUME NEW lines \in Seq(Lines), NEW x \in Lines
  PROVE  LET more == Append(lines, x)
         IN  /\ more \in Seq(Lines) /\ Len(more) = Len(lines) + 1
             /\ DOMAIN lines = 1..Len(lines) /\ DOMAIN more = 1..Len(more)
             /\ more[Len(more)] = x /\ \A i \in DOMAIN lines : more[i] = lines[i]
             /\ x.kind = "turn" => Turns(more) = Turns(lines) \cup {Len(more)}
             /\ x.kind # "turn" => Turns(more) = Turns(lines)
             /\ x.kind = "words" => Spoken(more) = Spoken(lines) \cup {Len(more)}
             /\ x.kind # "words" => Spoken(more) = Spoken(lines)
<1> DEFINE more == Append(lines, x)
<1>1. /\ more \in Seq(Lines) /\ Len(more) = Len(lines) + 1
      /\ DOMAIN lines = 1..Len(lines) /\ DOMAIN more = 1..Len(more)
      /\ more[Len(more)] = x /\ \A i \in DOMAIN lines : more[i] = lines[i]
  OBVIOUS
<1> HIDE DEF more
<1>2. /\ x.kind = "turn" => Turns(more) = Turns(lines) \cup {Len(more)}
      /\ x.kind # "turn" => Turns(more) = Turns(lines)
  BY <1>1 DEF Turns
<1>3. /\ x.kind = "words" => Spoken(more) = Spoken(lines) \cup {Len(more)}
      /\ x.kind # "words" => Spoken(more) = Spoken(lines)
  BY <1>1 DEF Spoken
<1> QED BY <1>1, <1>2, <1>3 DEF more

\* What is not a turn changes no streak, and makes no question excessive.
LEMMA NoMoreTurns ==
  ASSUME NEW lines \in Seq(Lines), NEW more \in Seq(Lines), Turns(more) = Turns(lines),
         \A i \in Turns(lines) : more[i] = lines[i]
  PROVE  /\ questionStreak(more) = questionStreak(lines)
         /\ \A i \in Turns(lines) : ExcessiveIn(more, i) = ExcessiveIn(lines, i)
<1>1. {i \in Turns(more) : \A j \in Turns(more) : j >= i => more[j].stance = "asks"}
        = {i \in Turns(lines) : \A j \in Turns(lines) : j >= i => lines[j].stance = "asks"}
  OBVIOUS
<1>2. ASSUME NEW i \in Turns(lines)
      PROVE  ExcessiveIn(more, i) = ExcessiveIn(lines, i)
  <2> DEFINE before == {j \in Turns(lines) : j < i}
  <2>1. {j \in Turns(more) : j < i} = before
    OBVIOUS
  <2>2. {j \in before : \A k \in before : k >= j => more[k].stance = "asks"}
          = {j \in before : \A k \in before : k >= j => lines[k].stance = "asks"}
    OBVIOUS
  <2>3. more[i] = lines[i]
    OBVIOUS
  <2> QED BY <2>1, <2>2, <2>3 DEF ExcessiveIn
<1> QED BY <1>1, <1>2 DEF questionStreak

\* The streak is of the turns before the next one.
LEMMA StreakBefore ==
  ASSUME NEW lines \in Seq(Lines), NEW x \in Lines, x.kind = "turn",
         NEW more, more = Append(lines, x)
  PROVE  /\ ExcessiveIn(more, Len(more)) =
              (x.stance = "asks" /\ ~ x.exempt /\ questionStreak(lines) >= QUESTION_STREAK_LIMIT)
         /\ \A i \in Turns(lines) : ExcessiveIn(more, i) = ExcessiveIn(lines, i)
<1>1. /\ Len(more) = Len(lines) + 1 /\ Turns(more) = Turns(lines) \cup {Len(more)}
      /\ more[Len(more)] = x /\ (\A i \in DOMAIN lines : more[i] = lines[i])
      /\ DOMAIN lines = 1..Len(lines)
  BY OneMoreLine
<1>2. Turns(lines) \subseteq 1..Len(lines)
  BY <1>1 DEF Turns
<1>3. {j \in Turns(more) : j < Len(more)} = Turns(lines)
  BY <1>1, <1>2
<1>4. {j \in Turns(lines) : \A k \in Turns(lines) : k >= j => more[k].stance = "asks"}
        = {j \in Turns(lines) : \A k \in Turns(lines) : k >= j => lines[k].stance = "asks"}
  BY <1>1, <1>2
<1>5. ExcessiveIn(more, Len(more)) =
        (x.stance = "asks" /\ ~ x.exempt /\ questionStreak(lines) >= QUESTION_STREAK_LIMIT)
  BY <1>1, <1>3, <1>4 DEF ExcessiveIn, questionStreak
<1>6. ASSUME NEW i \in Turns(lines)
      PROVE  ExcessiveIn(more, i) = ExcessiveIn(lines, i)
  <2> DEFINE before == {j \in Turns(lines) : j < i}
  <2>1. {j \in Turns(more) : j < i} = before
    BY <1>1, <1>2
  <2>2. {j \in before : \A k \in before : k >= j => more[k].stance = "asks"}
          = {j \in before : \A k \in before : k >= j => lines[k].stance = "asks"}
    BY <1>1, <1>2
  <2>3. more[i] = lines[i]
    BY <1>1, <1>2
  <2> QED BY <2>1, <2>2, <2>3 DEF ExcessiveIn
<1> QED BY <1>5, <1>6

\* The last of some lines.
LEMMA LastOfLines ==
  ASSUME NEW lines \in Seq(Lines), NEW S, S \subseteq DOMAIN lines, S # {}
  PROVE  Max(S) \in S /\ \A i \in S : i <= Max(S)
<1>1. Len(lines) \in Nat /\ S \subseteq 1..Len(lines)
  OBVIOUS
<1>2. PICK x \in S : \A y \in S : y <= x
  BY <1>1, HighestExists
<1>3. \A y \in S : x >= y
  BY <1>1, <1>2
<1> DEFINE P(z) == z \in S /\ \A y \in S : z >= y
<1>4. Max(S) = CHOOSE z : P(z)
  BY DEF Max
<1>5. P(Max(S))
  <2>1. P(x)
    BY <1>3
  <2> HIDE DEF P
  <2> QED BY <1>4, <2>1, Zenon
<1> QED BY <1>1, <1>5

\* What is routed is held against the conversation it is in.
LEMMA RouteKeeps ==
  ASSUME SpeechTypes', ExcessIsMarked', hour' = hour,
         NEW segments, \A s \in segments : s.line \in Spoken(talk'),
         routeUtterance(talk', segments)
  PROVE  NoInterrogation' /\ AnswersAreHeard'
<1> DEFINE words == {s.line : s \in segments}
           walk == Turns(talk') \cup (Spoken(talk') \ Itself(words))
<1>1. PICK long \in Length(segments) :
        LET path == IF FastPath(talk', segments) THEN "asked"
                    ELSE IF long /\ isAnswerToPendingQuestion(talk', words)
                    THEN "answered" ELSE "gate"
        IN  routed' = [words |-> words, long |-> long, path |-> path]
  BY DEF routeUtterance
<1>2. talk' \in Seq(Lines) /\ Turns(talk') \subseteq DOMAIN talk'
      /\ Spoken(talk') \subseteq DOMAIN talk' /\ words \subseteq Spoken(talk')
      /\ Turns(talk') \cap Spoken(talk') = {} /\ DOMAIN talk' \subseteq Nat
  BY DEF SpeechTypes, Turns, Spoken
<1>3. routed'.path = "answered" => isAnswerToPendingQuestion(talk', words)
  BY <1>1
<1>4. routed'.path = "gate" /\ routed'.long => ~ isAnswerToPendingQuestion(talk', words)
  BY <1>1
<1>5. routed'.words = words
  BY <1>1
<1>6. \A line : Pending(line)' = Pending(line)
  BY DEF Pending
<1>7. NoInterrogation'
  <2>1. SUFFICES ASSUME routed'.path = "answered"
                 PROVE  ~ Excessive(Max(Turns(talk)))'
    BY DEF NoInterrogation
  <2>2. walk # {} /\ Pending(talk'[Max(walk)])
    BY <1>3, <2>1 DEF isAnswerToPendingQuestion
  <2>3. Max(walk) \in walk /\ \A i \in walk : i <= Max(walk)
    BY <1>2, <2>2, LastOfLines
  <2>4. Max(walk) \in Turns(talk') /\ ~ talk'[Max(walk)].governed
    BY <1>2, <2>2, <2>3 DEF Pending, Turns
  <2>5. Max(Turns(talk')) \in Turns(talk') /\ \A i \in Turns(talk') : i <= Max(Turns(talk'))
    <3>1. Turns(talk') # {}
      BY <2>4
    <3> QED BY <1>2, <3>1, LastOfLines
  <2>6. Max(Turns(talk')) = Max(walk)
    <3>1. Max(Turns(talk')) \in walk /\ Max(walk) \in Nat /\ Max(Turns(talk')) \in Nat
      BY <1>2, <2>4, <2>5
    <3>2. Max(walk) <= Max(Turns(talk')) /\ Max(Turns(talk')) <= Max(walk)
      BY <2>3, <2>4, <2>5, <3>1
    <3> QED BY <3>1, <3>2
  <2> HIDE DEF walk
  <2> QED BY <2>4, <2>6 DEF ExcessIsMarked
<1>8. AnswersAreHeard'
  <2> DEFINE said == Turns(talk') \cup Spoken(talk')
             i == Max(said)
  <2>1. SUFFICES ASSUME routed'.path = "gate", routed'.long, routed'.words = {i},
                        said \ {i} # {}
                 PROVE  ~ Pending(talk'[Max(said \ {i})])
    BY <1>6 DEF AnswersAreHeard
  <2>2. words = {i}
    BY <1>5, <2>1
  <2>3. Itself(words) = {i}
    BY <2>2, FS_Singleton DEF Itself
  <2>4. walk = said \ {i}
    BY <1>2, <2>2, <2>3
  <2>5. ~ isAnswerToPendingQuestion(talk', words)
    BY <1>4, <2>1
  <2> QED BY <2>1, <2>4, <2>5 DEF isAnswerToPendingQuestion
<1> QED BY <1>7, <1>8

\* What is not routed raises no question.
LEMMA NothingRouted ==
  ASSUME routed' = NoRouting
  PROVE  NoInterrogation' /\ AnswersAreHeard'
BY DEF NoRouting, NoInterrogation, AnswersAreHeard

\* A line that the interviewer does not speak as a turn.
LEMMA OtherLineKeeps ==
  ASSUME SpeechInv, NEW x \in Lines, x.kind # "turn", talk' = Append(talk, x),
         UNCHANGED <<found, turn, hour>>
  PROVE  /\ SpeechTypes' /\ TurnIsGuarded' /\ TurnIsGoverned' /\ ExcessIsMarked'
         /\ NothingIsGivenAway'
         /\ Spoken(talk) \subseteq Spoken(talk')
         /\ x.kind = "words" => Len(talk') \in Spoken(talk')
<1> USE DEF SpeechInv
<1>1. /\ talk' \in Seq(Lines) /\ Len(talk') = Len(talk) + 1
      /\ talk'[Len(talk')] = x /\ (\A i \in DOMAIN talk : talk'[i] = talk[i])
      /\ Turns(talk') = Turns(talk)
      /\ x.kind = "words" => Spoken(talk') = Spoken(talk) \cup {Len(talk')}
      /\ x.kind # "words" => Spoken(talk') = Spoken(talk)
  BY OneMoreLine DEF SpeechTypes
<1>2. SpeechTypes'
  BY <1>1 DEF SpeechTypes
<1>3. Turns(talk) \subseteq DOMAIN talk /\ Spoken(talk) \subseteq DOMAIN talk
  BY DEF Turns, Spoken
<1>4. /\ questionStreak(talk') = questionStreak(talk)
      /\ \A i \in Turns(talk) : ExcessiveIn(talk', i) = ExcessiveIn(talk, i)
  BY <1>1, <1>3, NoMoreTurns DEF SpeechTypes
<1>5. TurnIsGuarded'
  BY <1>1, <1>3 DEF TurnIsGuarded
<1>6. TurnIsGoverned'
  BY <1>4 DEF TurnIsGoverned
<1>7. ExcessIsMarked'
  <2>1. \A i : Excessive(i) = ExcessiveIn(talk, i) /\ Excessive(i)' = ExcessiveIn(talk', i)
    BY DEF Excessive, ExcessiveIn
  <2> QED BY <1>1, <1>3, <1>4, <2>1 DEF ExcessIsMarked
<1>8. NothingIsGivenAway'
  BY <1>1, <1>3 DEF NothingIsGivenAway
<1> QED BY <1>1, <1>2, <1>5, <1>6, <1>7, <1>8

\* What leaves the conversation alone.
LEMMA SameTalkKeeps ==
  ASSUME SpeechInv, UNCHANGED talk, hour' \in Nat,
         found \subseteq found', found' \subseteq KeyFiles,
         turn' = turn \/ turn' = NoTurn
  PROVE  SpeechTypes' /\ TurnIsGuarded' /\ TurnIsGoverned' /\ ExcessIsMarked' /\ NothingIsGivenAway'
<1> USE DEF SpeechInv
<1>1. SpeechTypes'
  <2>1. NoTurn \in [lane : Lanes \cup {"none"}, forbidden : SUBSET Leaks,
                    governed : BOOLEAN, exempt : BOOLEAN]
    BY DEF NoTurn
  <2> QED BY <2>1 DEF SpeechTypes
<1>2. TurnIsGuarded'
  BY DEF TurnIsGuarded
<1>3. TurnIsGoverned'
  BY DEF TurnIsGoverned
<1>4. ExcessIsMarked'
  BY DEF ExcessIsMarked, Excessive
<1>5. NothingIsGivenAway'
  BY DEF NothingIsGivenAway
<1> QED BY <1>1, <1>2, <1>3, <1>4, <1>5

\* A turn is composed from the trace as it is.
LEMMA ComposeKeeps ==
  ASSUME SpeechInv, NEW lane \in Lanes, Compose(lane),
         UNCHANGED <<talk, found, hour, buffered>>, routed' = NoRouting
  PROVE  SpeechInv'
<1> USE DEF SpeechInv
<1>1. /\ turn'.lane = lane /\ turn'.forbidden = (KeyFiles \ found) \cup ForbiddenWords(lane)
      /\ turn'.governed = (questionStreak(talk) >= QUESTION_STREAK_LIMIT /\ ~ Exempt(lane))
      /\ turn'.exempt = Exempt(lane)
  BY DEF Compose
<1>2. turn' \in [lane : Lanes \cup {"none"}, forbidden : SUBSET Leaks,
                 governed : BOOLEAN, exempt : BOOLEAN]
  <2>1. ForbiddenWords(lane) \subseteq Leaks
    BY DEF ForbiddenWords, Leaks
  <2>2. (KeyFiles \ found) \cup ForbiddenWords(lane) \in SUBSET Leaks
    BY <2>1 DEF Leaks
  <2>3. Exempt(lane) \in BOOLEAN
    BY DEF Exempt
  <2>4. (questionStreak(talk) >= QUESTION_STREAK_LIMIT /\ ~ Exempt(lane)) \in BOOLEAN
    OBVIOUS
  <2> QED BY <2>2, <2>3, <2>4 DEF Compose
<1>3. SpeechTypes'
  BY <1>2 DEF SpeechTypes
<1>4. TurnIsGuarded'
  <2>1. lane = "help" /\ "term" \notin ForbiddenWords(lane) =>
          \E j \in Spoken(talk) : talk[j].leak = "term"
    BY DEF ForbiddenWords, Excerpt
  <2> QED BY <1>1, <2>1 DEF TurnIsGuarded
<1>5. TurnIsGoverned'
  <2>1. questionStreak(talk)' = questionStreak(talk)
    BY DEF questionStreak
  <2> QED BY <1>1, <2>1 DEF TurnIsGoverned
<1>6. ExcessIsMarked' /\ NothingIsGivenAway' /\ WordsAreSaid'
  BY DEF ExcessIsMarked, Excessive, NothingIsGivenAway, WordsAreSaid
<1>7. NoInterrogation' /\ AnswersAreHeard'
  BY NothingRouted
<1> QED BY <1>3, <1>4, <1>5, <1>6, <1>7

\* The guard lets a text through that names nothing forbidden.
LEMMA GuardedFacts ==
  ASSUME SpeechTypes, NEW stance \in Stances, NEW leak \in Leaks
  PROVE  LET x == Guarded(stance, leak)
         IN  /\ x \in Lines /\ x.kind = "turn"
             /\ x.leak \in {"none", leak} /\ (x.leak = "none" \/ leak \notin turn.forbidden)
             /\ x.help => turn.lane = "help" /\ leak = "term" /\ leak \notin turn.forbidden
             /\ x.stance = "asks" /\ ~ x.exempt => ~ turn.exempt
             /\ x.stance = "asks" /\ ~ x.exempt => x.governed = turn.governed
<1>1. /\ "states" \in Stances /\ "directs" \in Stances /\ "none" \in Leaks
      /\ hour \in Nat /\ turn.governed \in BOOLEAN /\ turn.exempt \in BOOLEAN
  BY DEF SpeechTypes, Stances, Leaks
<1>2. CASE leak \in turn.forbidden
  BY <1>1, <1>2 DEF Guarded, Line, Lines
<1>3. CASE leak \notin turn.forbidden
  <2> DEFINE y == Line("turn", stance, leak)
             s == IF stance = "states" /\ turn.lane = "help" THEN "directs" ELSE stance
             x == [kind |-> "turn", help |-> turn.lane = "help" /\ leak = "term", stance |-> s,
                   leak |-> leak, governed |-> turn.governed /\ stance = "asks",
                   exempt |-> turn.exempt /\ stance = "asks", at |-> hour]
  <2>1. Guarded(stance, leak) = x
    BY <1>3 DEF Guarded, Line
  <2>2. x \in Lines
    BY <1>1 DEF Lines
  <2>3. x.stance = "asks" => stance = "asks"
    OBVIOUS
  <2>4. /\ x.kind = "turn" /\ x.leak = leak /\ x.help = (turn.lane = "help" /\ leak = "term")
        /\ x.governed = (turn.governed /\ stance = "asks")
        /\ x.exempt = (turn.exempt /\ stance = "asks")
    OBVIOUS
  <2>5. x.stance = "asks" /\ ~ x.exempt => ~ turn.exempt /\ x.governed = turn.governed
    BY <1>1, <2>3, <2>4
  <2> HIDE DEF x
  <2> QED BY <1>3, <2>1, <2>2, <2>4, <2>5
<1> QED BY <1>2, <1>3

\* The turn is heard: it is what was composed, past the guard.
LEMMA UtterKeeps == ASSUME SpeechInv, Utter PROVE SpeechInv'
<1> USE DEF SpeechInv
<1>1. PICK stance \in Stances, leak \in Leaks : talk' = Append(talk, Guarded(stance, leak))
  BY DEF Utter, Say
<1> DEFINE x == Guarded(stance, leak)
<1>2. /\ x \in Lines /\ x.kind = "turn"
      /\ x.leak \in {"none", leak} /\ (x.leak = "none" \/ leak \notin turn.forbidden)
      /\ x.help => turn.lane = "help" /\ leak = "term" /\ leak \notin turn.forbidden
      /\ x.stance = "asks" /\ ~ x.exempt => ~ turn.exempt
      /\ x.stance = "asks" /\ ~ x.exempt => x.governed = turn.governed
  BY GuardedFacts
<1>3. turn # NoTurn /\ turn' = NoTurn /\ routed' = NoRouting /\ UNCHANGED <<found, buffered, hour>>
  BY DEF Utter
<1> HIDE DEF x
<1>4. /\ talk' \in Seq(Lines) /\ Len(talk') = Len(talk) + 1
      /\ talk'[Len(talk')] = x /\ (\A i \in DOMAIN talk : talk'[i] = talk[i])
      /\ Turns(talk') = Turns(talk) \cup {Len(talk')}
      /\ Spoken(talk') = Spoken(talk)
      /\ DOMAIN talk = 1..Len(talk)
  <2>1. talk \in Seq(Lines) /\ talk' = Append(talk, x)
    BY <1>1 DEF SpeechTypes, x
  <2> QED BY <1>2, <2>1, OneMoreLine
<1>5. Turns(talk) \subseteq DOMAIN talk /\ Spoken(talk) \subseteq DOMAIN talk
  BY DEF Turns, Spoken
<1>6. SpeechTypes' /\ TurnIsGuarded' /\ TurnIsGoverned' /\ WordsAreSaid'
  BY <1>3, <1>4 DEF SpeechTypes, TurnIsGuarded, TurnIsGoverned, WordsAreSaid, NoTurn, Lanes
<1>7. NoInterrogation' /\ AnswersAreHeard'
  BY <1>3, NothingRouted
<1>8. NothingIsGivenAway'
  <2>1. ASSUME x.leak \in KeyFiles PROVE x.leak \in found
    BY <1>2, <1>3, <2>1, KeyFilesAssumption DEF TurnIsGuarded
  <2>2. ASSUME x.help PROVE \E j \in Spoken(talk) : talk[j].leak = "term"
    BY <1>2, <1>3, <2>2 DEF TurnIsGuarded
  <2>3. \A j \in Spoken(talk) : j < Len(talk') /\ talk'[j] = talk[j]
    BY <1>4, <1>5
  <2>4. \A i \in Turns(talk) : talk'[i] = talk[i]
    BY <1>4, <1>5
  <2> QED BY <1>3, <1>4, <2>1, <2>2, <2>3, <2>4 DEF NothingIsGivenAway
<1>9. ExcessIsMarked'
  <2>1. /\ ExcessiveIn(talk', Len(talk')) =
             (x.stance = "asks" /\ ~ x.exempt /\ questionStreak(talk) >= QUESTION_STREAK_LIMIT)
        /\ \A i \in Turns(talk) : ExcessiveIn(talk', i) = ExcessiveIn(talk, i)
    BY <1>1, <1>2, StreakBefore DEF SpeechTypes, x
  <2>2. \A i : Excessive(i) = ExcessiveIn(talk, i) /\ Excessive(i)' = ExcessiveIn(talk', i)
    BY DEF Excessive, ExcessiveIn
  <2>3. ExcessiveIn(talk', Len(talk')) => x.governed
    BY <1>2, <1>3, <2>1 DEF TurnIsGoverned
  <2>4. \A i \in Turns(talk) : talk'[i] = talk[i]
    BY <1>4, <1>5
  <2> QED BY <1>4, <2>1, <2>2, <2>3, <2>4 DEF ExcessIsMarked
<1> QED BY <1>6, <1>7, <1>8, <1>9

\* Words, an ack and an announcement are lines.
LEMMA LineFacts ==
  ASSUME hour \in Nat, NEW k \in {"words", "ack", "time"}, NEW leak \in {"none", "term"}
  PROVE  Line(k, "states", leak) \in Lines /\ Line(k, "states", leak).kind = k
BY DEF Line, Lines, Stances, Leaks

\* No conversation yet.
LEMMA ConversationStarts == SpeakingInit => SpeechInv
<1> SUFFICES ASSUME SpeakingInit PROVE SpeechInv
  OBVIOUS
<1>1. talk = <<>> /\ Turns(talk) = {}
  BY DEF SpeakingInit, Turns
<1>2. turn = NoTurn /\ routed = NoRouting /\ hour = 0 /\ found \subseteq KeyFiles /\ buffered = {}
  BY DEF SpeakingInit
<1> QED BY <1>1, <1>2 DEF SpeechInv, SpeechTypes, WordsAreSaid, TurnIsGuarded, TurnIsGoverned,
     ExcessIsMarked, NothingIsGivenAway, NoInterrogation, AnswersAreHeard, NoTurn, NoRouting, Lanes

\* Every step of the conversation keeps it.
LEMMA SpeechStep == SpeechInv /\ [SpeakingNext]_speakingVars => SpeechInv'
<1> SUFFICES ASSUME SpeechInv, SpeakingNext \/ UNCHANGED speakingVars
             PROVE  SpeechInv'
  OBVIOUS
<1>0. hour \in Nat /\ talk \in Seq(Lines)
  BY DEF SpeechInv, SpeechTypes
<1>1. CASE UNCHANGED speakingVars
  <2>1. UNCHANGED <<talk, found, buffered, turn, hour, routed>>
    BY <1>1 DEF speakingVars
  <2>2. SpeechTypes' /\ TurnIsGuarded' /\ TurnIsGoverned' /\ ExcessIsMarked' /\ NothingIsGivenAway'
    BY <1>0, <2>1, SameTalkKeeps DEF SpeechInv, SpeechTypes
  <2>3. WordsAreSaid'
    BY <2>1 DEF SpeechInv, WordsAreSaid
  <2>4. NoInterrogation'
    BY <2>1 DEF SpeechInv, NoInterrogation, Excessive
  <2>5. AnswersAreHeard'
    BY <2>1 DEF SpeechInv, AnswersAreHeard, Pending
  <2> QED BY <2>2, <2>3, <2>4, <2>5 DEF SpeechInv
<1>2. CASE SpeakSegment
  <2>1. PICK leak \in {"none", "term"} : talk' = Append(talk, Line("words", "states", leak))
    BY <1>2 DEF SpeakSegment, SayWords, Say
  <2>2. PICK shape \in Shapes : buffered' = buffered \cup {[line |-> Len(talk'), shape |-> shape]}
    BY <1>2 DEF SpeakSegment
  <2>3. UNCHANGED <<found, turn, hour>> /\ routed' = NoRouting
    BY <1>2 DEF SpeakSegment
  <2>4. /\ SpeechTypes' /\ TurnIsGuarded' /\ TurnIsGoverned' /\ ExcessIsMarked'
        /\ NothingIsGivenAway' /\ Spoken(talk) \subseteq Spoken(talk')
        /\ Len(talk') \in Spoken(talk')
    BY <1>0, <2>1, <2>3, LineFacts, OtherLineKeeps
  <2>5. WordsAreSaid'
    BY <2>2, <2>4 DEF WordsAreSaid, SpeechInv
  <2> QED BY <2>3, <2>4, <2>5, NothingRouted DEF SpeechInv
<1>3. CASE FlushSpeech
  <2>1. /\ UNCHANGED <<talk, found, turn, hour>> /\ buffered' = {}
        /\ routeUtterance(talk', buffered)
    BY <1>3 DEF FlushSpeech
  <2>2. SpeechTypes' /\ TurnIsGuarded' /\ TurnIsGoverned' /\ ExcessIsMarked' /\ NothingIsGivenAway'
    BY <1>0, <2>1, SameTalkKeeps DEF SpeechInv, SpeechTypes
  <2>3. \A s \in buffered : s.line \in Spoken(talk')
    BY <2>1 DEF SpeechInv, WordsAreSaid
  <2>4. NoInterrogation' /\ AnswersAreHeard'
    BY <2>1, <2>2, <2>3, RouteKeeps
  <2> QED BY <2>1, <2>2, <2>4 DEF SpeechInv, WordsAreSaid
<1>4. CASE TypeWords
  <2>1. PICK leak \in {"none", "term"} : talk' = Append(talk, Line("words", "states", leak))
    BY <1>4 DEF TypeWords, SayWords, Say
  <2>2. PICK shape \in Shapes : routeUtterance(talk', {[line |-> Len(talk'), shape |-> shape]})
    BY <1>4 DEF TypeWords
  <2>3. UNCHANGED <<found, turn, hour, buffered>>
    BY <1>4 DEF TypeWords
  <2>4. /\ SpeechTypes' /\ TurnIsGuarded' /\ TurnIsGoverned' /\ ExcessIsMarked'
        /\ NothingIsGivenAway' /\ Spoken(talk) \subseteq Spoken(talk')
        /\ Len(talk') \in Spoken(talk')
    BY <1>0, <2>1, <2>3, LineFacts, OtherLineKeeps
  <2>5. WordsAreSaid'
    BY <2>3, <2>4 DEF WordsAreSaid, SpeechInv
  <2>6. NoInterrogation' /\ AnswersAreHeard'
    <3>1. \A s \in {[line |-> Len(talk'), shape |-> shape]} : s.line \in Spoken(talk')
      BY <2>4
    <3> QED BY <2>2, <2>3, <2>4, <3>1, RouteKeeps
  <2> QED BY <2>4, <2>5, <2>6 DEF SpeechInv
<1>5. CASE (\E f \in KeyFiles : Visit(f)) \/ Judge \/ WrapUp \/ HourPasses \/ KeepSilent
  <2>1. /\ UNCHANGED <<talk, buffered>> /\ hour' \in Nat /\ routed' = NoRouting
        /\ found \subseteq found' /\ found' \subseteq KeyFiles
        /\ turn' = turn \/ turn' = NoTurn
    BY <1>0, <1>5 DEF Visit, Judge, WrapUp, HourPasses, KeepSilent, SpeechInv, SpeechTypes
  <2>2. SpeechTypes' /\ TurnIsGuarded' /\ TurnIsGoverned' /\ ExcessIsMarked' /\ NothingIsGivenAway'
    BY <2>1, SameTalkKeeps
  <2>3. WordsAreSaid'
    BY <2>1 DEF SpeechInv, WordsAreSaid
  <2> QED BY <2>1, <2>2, <2>3, NothingRouted DEF SpeechInv
<1>6. CASE Reply
  <2>1. Compose("reply") /\ UNCHANGED <<talk, found, hour, buffered>> /\ routed' = NoRouting
    BY <1>6 DEF Reply
  <2> QED BY <2>1, ComposeKeeps DEF Lanes
<1>7. CASE \E lane \in Lanes : Initiate(lane)
  <2>1. PICK lane \in Lanes : Initiate(lane)
    BY <1>7
  <2>2. Compose(lane) /\ UNCHANGED <<talk, found, hour, buffered>> /\ routed' = NoRouting
    BY <2>1 DEF Initiate
  <2> QED BY <2>2, ComposeKeeps
<1>8. CASE Utter
  BY <1>8, UtterKeeps
<1>9. CASE Ack \/ AnnounceTime
  <2>1. PICK k \in {"ack", "time"} : talk' = Append(talk, Line(k, "states", "none"))
    BY <1>9 DEF Ack, AnnounceTime, Say
  <2>2. UNCHANGED <<found, turn, hour, buffered>> /\ routed' = NoRouting
    BY <1>9 DEF Ack, AnnounceTime
  <2>3. Line(k, "states", "none") \in Lines /\ Line(k, "states", "none").kind = k
    BY <1>0, LineFacts
  <2>4. /\ SpeechTypes' /\ TurnIsGuarded' /\ TurnIsGoverned' /\ ExcessIsMarked'
        /\ NothingIsGivenAway' /\ Spoken(talk) \subseteq Spoken(talk')
    BY <2>1, <2>2, <2>3, OtherLineKeeps
  <2>5. WordsAreSaid'
    BY <2>2, <2>4 DEF WordsAreSaid, SpeechInv
  <2> QED BY <2>2, <2>4, <2>5, NothingRouted DEF SpeechInv
<1> QED BY <1>1, <1>2, <1>3, <1>4, <1>5, <1>6, <1>7, <1>8, <1>9 DEF SpeakingNext

---------------------------------------------------------------------------
(* Loops.  A loop of the code that carries a record from item to item is a *)
(* recursive function from the number of rounds gone to that record.       *)

\* What holds at the start, and from one round to the next, holds at every one.
LEMMA Upward ==
  ASSUME NEW N \in Nat, NEW G, 0 \in G, \A n \in 1..N : n - 1 \in G => n \in G
  PROVE  0..N \subseteq G
<1> DEFINE Good == {m \in 1..(N + 1) : \A k \in 0..(m - 1) : k \in G}
<1>1. 1 \in Good
  OBVIOUS
<1>2. PICK m \in Good : \A k \in Good : k <= m
  <2>1. Good \subseteq 1..(N + 1) /\ Good # {} /\ N + 1 \in Nat
    <3>1. Good \subseteq 1..(N + 1)
      OBVIOUS
    <3>2. Good # {}
      BY <1>1
    <3> QED BY <3>1, <3>2
  <2> HIDE DEF Good
  <2> QED BY <2>1, HighestExists
<1>3. ASSUME m # N + 1
      PROVE  FALSE
  <2>1. m \in 1..N
    BY <1>3
  <2>2. m - 1 \in G
    BY <1>2, <2>1
  <2>3. m \in G
    BY <2>1, <2>2
  <2>4. \A k \in 0..m : k \in G
    BY <1>2, <2>1, <2>3
  <2>5. m + 1 \in Good
    BY <2>1, <2>4
  <2> QED BY <1>2, <2>1, <2>5
<1> QED BY <1>2, <1>3

\* f is what the record was after each of n rounds.
IteratesTo(f, n, S, base, step) ==
  /\ f \in [0..n -> S] /\ f[0] = base
  /\ \A i \in 1..n : f[i] = step[<<f[i - 1], i>>]

\* There is such a function.
LEMMA Iterates ==
  ASSUME NEW S, NEW base \in S, NEW N \in Nat, NEW step \in [S \X (1..N) -> S]
  PROVE  \E f : IteratesTo(f, N, S, base, step)
<1> DEFINE Up(m) == \E f : IteratesTo(f, m, S, base, step)
           G == {m \in 0..N : Up(m)}
<1>1. 0 \in G
  <2>1. IteratesTo([i \in 0..0 |-> base], 0, S, base, step)
    BY DEF IteratesTo
  <2> QED BY <2>1
<1>2. ASSUME NEW m \in 1..N, m - 1 \in G
      PROVE  m \in G
  <2>1. PICK f : IteratesTo(f, m - 1, S, base, step)
    BY <1>2
  <2> DEFINE g == [i \in 0..m |-> IF i = m THEN step[<<f[m - 1], m>>] ELSE f[i]]
  <2>2. f[m - 1] \in S
    BY <2>1 DEF IteratesTo
  <2>3. step[<<f[m - 1], m>>] \in S
    BY <2>2
  <2>4. ASSUME NEW n \in 1..m
        PROVE  g[n] = step[<<g[n - 1], n>>]
    <3>1. g[n - 1] = f[n - 1]
      OBVIOUS
    <3>2. CASE n = m
      <4>1. g[n] = step[<<f[m - 1], m>>]
        BY <3>2
      <4>2. <<g[n - 1], n>> = <<f[m - 1], m>>
        BY <3>1, <3>2
      <4> HIDE DEF g
      <4> QED BY <4>1, <4>2
    <3>3. CASE n # m
      <4>1. n \in 1..(m - 1) /\ g[n] = f[n]
        BY <3>3
      <4> HIDE DEF g
      <4> QED BY <3>1, <4>1, <2>1 DEF IteratesTo
    <3> QED BY <3>2, <3>3
  <2>5. g \in [0..m -> S]
    BY <2>1, <2>3 DEF IteratesTo
  <2>6. g[0] = base
    BY <2>1 DEF IteratesTo
  <2>7. IteratesTo(g, m, S, base, step)
    <3> HIDE DEF g
    <3> QED BY <2>4, <2>5, <2>6 DEF IteratesTo
  <2> QED BY <2>7
<1>3. 0..N \subseteq G
  <2> HIDE DEF G
  <2> QED BY <1>1, <1>2, Upward
<1> QED BY <1>3

---------------------------------------------------------------------------
(* The interviewer's help.                                                 *)

Streaks == [cycles : Nat, files : SUBSET Nat, pending : SUBSET Nat, first : Nat, since : Nat]

\* Each event is of one kind, and a change is of a file.
LEMMA EventFacts ==
  ASSUME trace \in Seq(Events), NEW i \in DOMAIN trace
  PROVE  /\ trace[i] \in Events
         /\ IsEdit(i) => trace[i].path \in Nat /\ ~ RunFails(i) /\ ~ RunPasses(i) /\ ~ Is(i, "file_open")
         /\ RunFails(i) => ~ RunPasses(i) /\ ~ IsEdit(i) /\ ~ Is(i, "file_open")
         /\ RunPasses(i) => ~ RunFails(i) /\ ~ IsEdit(i) /\ ~ Is(i, "file_open")
         /\ Is(i, "file_open") => ~ RunFails(i) /\ ~ IsEdit(i) /\ ~ RunPasses(i)
<1>1. trace[i] \in Events
  OBVIOUS
<1>2. trace[i].type = "edit" => trace[i].path \in Nat
  BY <1>1, FilesAssumption DEF Events, Touches, Outcomes, Utterances
<1> QED BY <1>1, <1>2 DEF IsEdit, RunFails, RunPasses, Is

\* The record of detectStuck stays one.
LEMMA StreakFits ==
  ASSUME trace \in Seq(Events), NEW s \in Streaks, NEW i \in DOMAIN trace
  PROVE  StreakAfter(s, i) \in Streaks
<1>1. i \in Nat /\ (IsEdit(i) => trace[i].path \in Nat)
  BY EventFacts
<1>2. NoStreak \in Streaks
  BY DEF NoStreak, Streaks
<1>3. CASE IsEdit(i)
  BY <1>1, <1>3 DEF StreakAfter, Streaks, NoStreak
<1>4. CASE ~ IsEdit(i)
  BY <1>1, <1>2, <1>4 DEF StreakAfter, Streaks
<1> QED BY <1>3, <1>4

\* The loop of detectStuck.
LEMMA StuckLoop ==
  ASSUME trace \in Seq(Events)
  PROVE  \E f \in [0..Len(trace) -> Streaks] :
           /\ f[0] = NoStreak /\ DetectStuck = f[Len(trace)]
           /\ \A i \in 1..Len(trace) : f[i] = StreakAfter(f[i - 1], i)
<1> DEFINE N == Len(trace)
           step == [p \in Streaks \X (1..N) |-> StreakAfter(p[1], p[2])]
           body(g) == [i \in 0..N |-> IF i = 0 THEN NoStreak ELSE StreakAfter(g[i - 1], i)]
           a == CHOOSE g : g = body(g)
<1>0. N \in Nat /\ NoStreak \in Streaks /\ DOMAIN trace = 1..N
  BY DEF NoStreak, Streaks
<1>1. step \in [Streaks \X (1..N) -> Streaks]
  <2>1. ASSUME NEW p \in Streaks \X (1..N)
        PROVE  StreakAfter(p[1], p[2]) \in Streaks
    BY <1>0, StreakFits
  <2> QED BY <2>1
<1>2. PICK f : IteratesTo(f, N, Streaks, NoStreak, step)
  <2> HIDE DEF step, N
  <2> QED BY <1>0, <1>1, Iterates
<1>3. ASSUME NEW g, g \in [0..N -> Streaks], NEW i \in 1..N
      PROVE  step[<<g[i - 1], i>>] = StreakAfter(g[i - 1], i)
  <2>1. g[i - 1] \in Streaks
    BY <1>0, <1>3
  <2> QED BY <2>1
<1>4. f = body(f)
  <2>1. f \in [0..N -> Streaks] /\ f[0] = NoStreak
    BY <1>2 DEF IteratesTo
  <2>2. \A i \in 1..N : f[i] = StreakAfter(f[i - 1], i)
    <3> HIDE DEF step
    <3> QED BY <1>2, <1>3 DEF IteratesTo
  <2> HIDE DEF step
  <2> QED BY <2>1, <2>2, <1>0
<1>5. a = body(a)
  <2> HIDE DEF body
  <2> QED BY <1>4, Zenon
<1>6. DetectStuck = a[N]
  BY DEF DetectStuck
<1> HIDE DEF a
<1>7. a[0] = NoStreak /\ \A i \in 1..N : a[i] = StreakAfter(a[i - 1], i)
  <2>1. \A i \in 0..N : a[i] = IF i = 0 THEN NoStreak ELSE StreakAfter(a[i - 1], i)
    BY <1>5
  <2> QED BY <2>1, <1>0
<1>8. \A i \in 0..N : a[i] \in Streaks
  <2> DEFINE G == {i \in 0..N : a[i] \in Streaks}
  <2>1. 0 \in G
    BY <1>0, <1>7
  <2>2. ASSUME NEW i \in 1..N, i - 1 \in G
        PROVE  i \in G
    BY <1>0, <1>7, <2>2, StreakFits
  <2>3. 0..N \subseteq G
    <3> HIDE DEF G
    <3> QED BY <1>0, <2>1, <2>2, Upward
  <2> QED BY <2>3
<1>9. a \in [0..N -> Streaks]
  <2>1. a = [i \in 0..N |-> a[i]]
    BY <1>5
  <2> QED BY <1>8, <2>1
<1> QED BY <1>6, <1>7, <1>9

\* A failing run on something changed since s, and not run since it was.
Attempt(s, i) ==
  RunFails(i) /\ \E e \in s..i : IsEdit(e) /\ \A j \in e..(i - 1) : ~ RunFails(j)

Attempts(s, n) == {i \in s..n : Attempt(s, i)}

\* What the record says after n events of the changes not run yet.
ChangesFit(r, n) ==
  r.pending # {} =>
    /\ r.first \in 1..n /\ IsEdit(r.first)
    /\ \A j \in r.first..n : ~ RunFails(j) /\ ~ RunPasses(j)
    /\ \A q \in r.pending : \E e \in r.first..n : IsEdit(e) /\ trace[e].path = q
    /\ \A e \in r.first..n : IsEdit(e) => trace[e].path \in r.pending

\* The first failing run of the streak, and what was done since.
FirstIs(r, n, f) ==
  /\ f \in r.since..n /\ Attempt(r.since, f)
  /\ \A j \in r.since..(f - 1) : ~ Attempt(r.since, j)
  /\ \A q \in r.files : \E e \in r.since..f : IsEdit(e) /\ trace[e].path = q
  /\ \A i \in f..n : IsEdit(i) => trace[i].path \in r.files
  /\ \A i \in f..n : Is(i, "file_open") => \E j \in Until(i) : Touched(j) /\ trace[j].path = trace[i].path
  /\ r.pending # {} => r.first > f

CyclesFit(r, n) ==
  r.cycles > 0 =>
    /\ r.since \in 1..n /\ IsEdit(r.since)
    /\ \A j \in r.since..n : ~ RunPasses(j)
    /\ Cardinality(Attempts(r.since, n)) >= r.cycles
    /\ r.pending \subseteq r.files
    /\ \E f \in Nat : FirstIs(r, n, f)

StreakInv(r, n) ==
  /\ r \in Streaks /\ (r.cycles = 0 => r.files = {})
  /\ ChangesFit(r, n) /\ CyclesFit(r, n)

\* A streak that is over.
LEMMA NoStreakFits ==
  ASSUME NEW n \in Nat
  PROVE  StreakInv(NoStreak, n)
<1>1. NoStreak \in Streaks /\ NoStreak.cycles = 0 /\ NoStreak.files = {} /\ NoStreak.pending = {}
  BY DEF NoStreak, Streaks
<1> HIDE DEF NoStreak
<1> QED BY <1>1 DEF StreakInv, ChangesFit, CyclesFit

\* Attempts are counted on.
LEMMA AttemptsGrow ==
  ASSUME NEW i \in Nat, NEW s \in 1..(i - 1)
  PROVE  /\ IsFiniteSet(Attempts(s, i)) /\ Cardinality(Attempts(s, i)) \in Nat
         /\ Cardinality(Attempts(s, i - 1)) \in Nat
         /\ Cardinality(Attempts(s, i)) >= Cardinality(Attempts(s, i - 1))
         /\ Attempt(s, i) => Cardinality(Attempts(s, i)) = Cardinality(Attempts(s, i - 1)) + 1
<1>1. IsFiniteSet(s..i) /\ IsFiniteSet(s..(i - 1))
  BY FS_Interval
<1>2. Attempts(s, i) \subseteq s..i /\ Attempts(s, i - 1) \subseteq s..(i - 1)
  BY DEF Attempts
<1>3. IsFiniteSet(Attempts(s, i)) /\ IsFiniteSet(Attempts(s, i - 1))
  BY <1>1, <1>2, FS_Subset
<1>4. Attempts(s, i - 1) \subseteq Attempts(s, i)
  BY DEF Attempts
<1>5. Cardinality(Attempts(s, i)) \in Nat /\ Cardinality(Attempts(s, i - 1)) \in Nat
  BY <1>3, FS_CardinalityType
<1>6. Cardinality(Attempts(s, i - 1)) <= Cardinality(Attempts(s, i))
  BY <1>3, <1>4, FS_Subset
<1>7. ASSUME Attempt(s, i)
      PROVE  Cardinality(Attempts(s, i)) = Cardinality(Attempts(s, i - 1)) + 1
  <2>1. Attempts(s, i) = Attempts(s, i - 1) \cup {i} /\ i \notin Attempts(s, i - 1)
    BY <1>7 DEF Attempts
  <2> QED BY <1>3, <2>1, FS_AddElement
<1> QED BY <1>3, <1>5, <1>6, <1>7

\* An event that the record does not change for.
LEMMA StreakStays ==
  ASSUME trace \in Seq(Events), NEW i \in DOMAIN trace, NEW r, StreakInv(r, i - 1),
         ~ IsEdit(i), ~ RunPasses(i), RunFails(i) => r.pending = {},
         Is(i, "file_open") /\ r.cycles > 0 =>
           \E j \in Until(i) : Touched(j) /\ trace[j].path = trace[i].path
  PROVE  StreakInv(r, i)
<1> USE DEF StreakInv
<1>1. i \in Nat /\ i >= 1 /\ r \in Streaks
  OBVIOUS
<1>2. ChangesFit(r, i)
  <2>1. SUFFICES ASSUME r.pending # {} PROVE ChangesFit(r, i)
    BY DEF ChangesFit
  <2>2. r.first \in 1..(i - 1) /\ IsEdit(r.first)
    BY <2>1 DEF ChangesFit
  <2>3. r.first \in 1..i /\ \A j \in r.first..i : j \in r.first..(i - 1) \/ j = i
    BY <1>1, <2>2
  <2>4. \A j \in r.first..(i - 1) : j \in r.first..i
    BY <1>1, <2>2
  <2> QED BY <2>1, <2>2, <2>3, <2>4 DEF ChangesFit
<1>3. CyclesFit(r, i)
  <2>1. SUFFICES ASSUME r.cycles > 0 PROVE CyclesFit(r, i)
    BY DEF CyclesFit
  <2>2. r.since \in 1..(i - 1) /\ IsEdit(r.since) /\ \A j \in r.since..(i - 1) : ~ RunPasses(j)
    BY <2>1 DEF CyclesFit
  <2>3. r.since \in 1..i /\ \A j \in r.since..i : j \in r.since..(i - 1) \/ j = i
    BY <1>1, <2>2
  <2>4. Cardinality(Attempts(r.since, i)) >= r.cycles
    <3>1. Cardinality(Attempts(r.since, i - 1)) >= r.cycles
      BY <2>1 DEF CyclesFit
    <3>2. /\ Cardinality(Attempts(r.since, i)) >= Cardinality(Attempts(r.since, i - 1))
          /\ Cardinality(Attempts(r.since, i)) \in Nat /\ Cardinality(Attempts(r.since, i - 1)) \in Nat
      BY <1>1, <2>2, AttemptsGrow
    <3>3. r.cycles \in Nat
      BY <1>1 DEF Streaks
    <3> QED BY <3>1, <3>2, <3>3
  <2>5. PICK f \in Nat : FirstIs(r, i - 1, f)
    BY <2>1 DEF CyclesFit
  <2>6. FirstIs(r, i, f)
    <3>1. f \in r.since..(i - 1)
      BY <2>5 DEF FirstIs
    <3>2. f \in r.since..i /\ \A j \in f..i : j \in f..(i - 1) \/ j = i
      BY <1>1, <2>2, <3>1
    <3> QED BY <2>1, <2>5, <3>2 DEF FirstIs
  <2>7. r.pending \subseteq r.files
    BY <2>1 DEF CyclesFit
  <2> QED BY <2>2, <2>3, <2>4, <2>6, <2>7 DEF CyclesFit
<1> QED BY <1>1, <1>2, <1>3

\* An edit begins a streak, or goes on with one.
LEMMA StreakBegins ==
  ASSUME trace \in Seq(Events), NEW i \in DOMAIN trace, IsEdit(i)
  PROVE  StreakInv([NoStreak EXCEPT !.pending = {trace[i].path}, !.first = i], i)
<1> DEFINE r == [NoStreak EXCEPT !.pending = {trace[i].path}, !.first = i]
<1>1. i \in Nat /\ i >= 1 /\ trace[i].path \in Nat /\ ~ RunFails(i) /\ ~ RunPasses(i)
  BY EventFacts
<1>2. /\ r \in Streaks /\ r.cycles = 0 /\ r.files = {} /\ r.pending = {trace[i].path}
      /\ r.first = i
  BY <1>1 DEF NoStreak, Streaks
<1> HIDE DEF r
<1>3. ChangesFit(r, i)
  BY <1>1, <1>2 DEF ChangesFit
<1>4. CyclesFit(r, i)
  BY <1>2 DEF CyclesFit
<1> QED BY <1>2, <1>3, <1>4 DEF StreakInv, r

\* An edit of one of the streak's files, or before any run failed.
LEMMA StreakEdits ==
  ASSUME trace \in Seq(Events), NEW i \in DOMAIN trace, NEW r, StreakInv(r, i - 1),
         IsEdit(i), r.cycles > 0 => trace[i].path \in r.files
  PROVE  StreakInv([r EXCEPT !.pending = @ \cup {trace[i].path},
                             !.first = IF r.pending = {} THEN i ELSE @], i)
<1> DEFINE t == [r EXCEPT !.pending = @ \cup {trace[i].path},
                          !.first = IF r.pending = {} THEN i ELSE @]
<1>1. /\ i \in Nat /\ i >= 1 /\ r \in Streaks /\ trace[i].path \in Nat
      /\ ~ RunFails(i) /\ ~ RunPasses(i) /\ ~ Is(i, "file_open")
  BY EventFacts DEF StreakInv
<1>2. /\ t \in Streaks /\ t.cycles = r.cycles /\ t.files = r.files /\ t.since = r.since
      /\ t.pending = r.pending \cup {trace[i].path}
      /\ t.first = IF r.pending = {} THEN i ELSE r.first
  BY <1>1 DEF Streaks
<1> HIDE DEF t
<1>3. ChangesFit(t, i)
  <2>1. CASE r.pending = {}
    BY <1>1, <1>2, <2>1 DEF ChangesFit
  <2>2. CASE r.pending # {}
    <3>1. /\ r.first \in 1..(i - 1) /\ IsEdit(r.first)
          /\ \A j \in r.first..(i - 1) : ~ RunFails(j) /\ ~ RunPasses(j)
          /\ \A q \in r.pending : \E e \in r.first..(i - 1) : IsEdit(e) /\ trace[e].path = q
          /\ \A e \in r.first..(i - 1) : IsEdit(e) => trace[e].path \in r.pending
      BY <2>2 DEF ChangesFit, StreakInv
    <3>2. t.first = r.first
      BY <1>2, <2>2
    <3>3. r.first \in 1..i /\ i \in r.first..i
          /\ (\A j \in r.first..i : j \in r.first..(i - 1) \/ j = i)
          /\ \A j \in r.first..(i - 1) : j \in r.first..i
      BY <1>1, <3>1
    <3>4. \A q \in t.pending : \E e \in r.first..i : IsEdit(e) /\ trace[e].path = q
      BY <1>2, <3>1, <3>3
    <3>5. \A e \in r.first..i : IsEdit(e) => trace[e].path \in t.pending
      BY <1>2, <3>1, <3>3
    <3>6. \A j \in r.first..i : ~ RunFails(j) /\ ~ RunPasses(j)
      BY <1>1, <3>1, <3>3
    <3> QED BY <3>1, <3>2, <3>3, <3>4, <3>5, <3>6 DEF ChangesFit
  <2> QED BY <2>1, <2>2
<1>4. CyclesFit(t, i)
  <2>1. SUFFICES ASSUME r.cycles > 0 PROVE CyclesFit(t, i)
    BY <1>2 DEF CyclesFit
  <2>2. /\ r.since \in 1..(i - 1) /\ IsEdit(r.since) /\ \A j \in r.since..(i - 1) : ~ RunPasses(j)
        /\ Cardinality(Attempts(r.since, i - 1)) >= r.cycles /\ r.pending \subseteq r.files
    BY <2>1 DEF CyclesFit, StreakInv
  <2>3. r.since \in 1..i /\ \A j \in r.since..i : j \in r.since..(i - 1) \/ j = i
    BY <1>1, <2>2
  <2>4. Cardinality(Attempts(r.since, i)) >= r.cycles
    <3>1. /\ Cardinality(Attempts(r.since, i)) >= Cardinality(Attempts(r.since, i - 1))
          /\ Cardinality(Attempts(r.since, i)) \in Nat /\ Cardinality(Attempts(r.since, i - 1)) \in Nat
      BY <1>1, <2>2, AttemptsGrow
    <3>2. r.cycles \in Nat
      BY <1>1 DEF Streaks
    <3> QED BY <2>2, <3>1, <3>2
  <2>5. PICK f \in Nat : FirstIs(r, i - 1, f)
    BY <2>1 DEF CyclesFit, StreakInv
  <2>6. FirstIs(t, i, f)
    <3>1. f \in r.since..(i - 1) /\ (r.pending # {} => r.first > f)
      BY <2>5 DEF FirstIs
    <3>2. f \in r.since..i /\ \A j \in f..i : j \in f..(i - 1) \/ j = i
      BY <1>1, <2>2, <3>1
    <3>3. t.first > f
      BY <1>1, <1>2, <2>2, <3>1
    <3>4. \A j \in f..i : /\ IsEdit(j) => trace[j].path \in r.files
                          /\ Is(j, "file_open") => \E k \in Until(j) : Touched(k) /\ trace[k].path = trace[j].path
      BY <1>1, <2>1, <2>5, <3>2 DEF FirstIs
    <3> QED BY <1>2, <2>5, <3>2, <3>3, <3>4 DEF FirstIs
  <2>7. t.pending \subseteq t.files
    BY <1>2, <2>1, <2>2
  <2>8. \A j \in r.since..i : ~ RunPasses(j)
    BY <1>1, <2>2, <2>3
  <2> QED BY <1>2, <2>2, <2>3, <2>4, <2>6, <2>7, <2>8 DEF CyclesFit
<1> QED BY <1>2, <1>3, <1>4 DEF StreakInv, t

\* A run fails on what was changed.
LEMMA StreakFails ==
  ASSUME trace \in Seq(Events), NEW i \in DOMAIN trace, NEW r, StreakInv(r, i - 1),
         RunFails(i), r.pending # {}
  PROVE  StreakInv([cycles |-> r.cycles + 1, files |-> r.files \cup r.pending, pending |-> {},
                    first |-> 0, since |-> IF r.cycles = 0 THEN r.first ELSE r.since], i)
<1> DEFINE t == [cycles |-> r.cycles + 1, files |-> r.files \cup r.pending, pending |-> {},
                 first |-> 0, since |-> IF r.cycles = 0 THEN r.first ELSE r.since]
<1>1. /\ i \in Nat /\ i >= 1 /\ r \in Streaks /\ r.cycles \in Nat
      /\ ~ IsEdit(i) /\ ~ RunPasses(i) /\ ~ Is(i, "file_open")
  BY EventFacts DEF StreakInv, Streaks
<1>2. /\ t \in Streaks /\ t.cycles = r.cycles + 1 /\ t.files = r.files \cup r.pending
      /\ t.pending = {} /\ t.since = IF r.cycles = 0 THEN r.first ELSE r.since
  BY <1>1 DEF Streaks
<1> HIDE DEF t
<1>3. /\ r.first \in 1..(i - 1) /\ IsEdit(r.first)
      /\ \A j \in r.first..(i - 1) : ~ RunFails(j) /\ ~ RunPasses(j)
      /\ \A q \in r.pending : \E e \in r.first..(i - 1) : IsEdit(e) /\ trace[e].path = q
      /\ \A e \in r.first..(i - 1) : IsEdit(e) => trace[e].path \in r.pending
  BY DEF ChangesFit, StreakInv
<1>4. ASSUME NEW s \in 1..r.first
      PROVE  Attempt(s, i)
  <2>1. r.first \in s..i
    BY <1>1, <1>3
  <2> QED BY <1>3, <2>1 DEF Attempt
<1>5. CASE r.cycles = 0
  <2>1. t.since = r.first /\ t.cycles = 1 /\ t.files = r.pending
    BY <1>2, <1>5 DEF StreakInv
  <2>2. \A j \in r.first..(i - 1) : ~ Attempt(r.first, j)
    BY <1>3 DEF Attempt
  <2>3. Attempt(r.first, i)
    BY <1>1, <1>3, <1>4
  <2>4. Cardinality(Attempts(r.first, i)) >= 1
    <3>1. /\ Cardinality(Attempts(r.first, i - 1)) \in Nat
          /\ Cardinality(Attempts(r.first, i)) = Cardinality(Attempts(r.first, i - 1)) + 1
      BY <1>1, <1>3, <2>3, AttemptsGrow
    <3> QED BY <3>1
  <2>5. FirstIs(t, i, i)
    <3>1. i \in r.first..i /\ (\A j \in i..i : j = i)
          /\ \A j \in r.first..(i - 1) : j \in r.first..i
      BY <1>1, <1>3
    <3> QED BY <1>1, <1>2, <1>3, <2>1, <2>2, <2>3, <3>1 DEF FirstIs
  <2>6. \A j \in r.first..i : ~ RunPasses(j)
    BY <1>1, <1>3
  <2>7. CyclesFit(t, i)
    <3>1. r.first \in 1..i
      BY <1>1, <1>3
    <3> QED BY <1>1, <1>2, <1>3, <2>1, <2>4, <2>5, <2>6, <3>1 DEF CyclesFit
  <2> QED BY <1>2, <2>1, <2>7 DEF StreakInv, ChangesFit, t
<1>6. CASE r.cycles > 0
  <2>1. /\ r.since \in 1..(i - 1) /\ IsEdit(r.since) /\ \A j \in r.since..(i - 1) : ~ RunPasses(j)
        /\ Cardinality(Attempts(r.since, i - 1)) >= r.cycles /\ r.pending \subseteq r.files
    BY <1>6 DEF CyclesFit, StreakInv
  <2>2. t.since = r.since /\ t.files = r.files
    BY <1>1, <1>2, <1>6, <2>1
  <2>3. PICK f \in Nat : FirstIs(r, i - 1, f)
    BY <1>6 DEF CyclesFit, StreakInv
  <2>4. f \in r.since..(i - 1) /\ r.first > f
    BY <2>3 DEF FirstIs
  <2>5. Attempt(r.since, i)
    BY <1>3, <1>4, <2>1, <2>4
  <2>6. Cardinality(Attempts(r.since, i)) >= t.cycles
    <3>1. /\ Cardinality(Attempts(r.since, i)) = Cardinality(Attempts(r.since, i - 1)) + 1
          /\ Cardinality(Attempts(r.since, i - 1)) \in Nat
      BY <1>1, <2>1, <2>5, AttemptsGrow
    <3> QED BY <1>1, <1>2, <2>1, <3>1
  <2>7. FirstIs(t, i, f)
    <3>1. f \in r.since..i /\ \A j \in f..i : j \in f..(i - 1) \/ j = i
      BY <1>1, <2>1, <2>4
    <3> QED BY <1>1, <1>2, <2>2, <2>3, <3>1 DEF FirstIs
  <2>8. r.since \in 1..i /\ \A j \in r.since..i : ~ RunPasses(j)
    BY <1>1, <2>1
  <2>9. CyclesFit(t, i)
    BY <1>2, <2>1, <2>2, <2>6, <2>7, <2>8 DEF CyclesFit
  <2> QED BY <1>1, <1>2, <2>9 DEF StreakInv, ChangesFit, t
<1> QED BY <1>1, <1>5, <1>6

\* After every event the record is true of the events so far.
LEMMA StreakGoesOn ==
  ASSUME trace \in Seq(Events), NEW i \in DOMAIN trace, NEW r, StreakInv(r, i - 1)
  PROVE  StreakInv(StreakAfter(r, i), i)
<1>1. r \in Streaks /\ i \in Nat
  BY DEF StreakInv
<1>2. CASE IsEdit(i)
  <2>1. CASE r.cycles > 0 /\ trace[i].path \notin r.files
    BY <1>2, <2>1, StreakBegins DEF StreakAfter
  <2>2. CASE ~ (r.cycles > 0 /\ trace[i].path \notin r.files)
    BY <1>2, <2>2, StreakEdits DEF StreakAfter
  <2> QED BY <2>1, <2>2
<1>3. CASE ~ IsEdit(i)
  <2> DEFINE firstTime == \A j \in Until(i) : Touched(j) => trace[j].path # trace[i].path
  <2>1. CASE Is(i, "file_open") /\ r.cycles > 0 /\ firstTime
    BY <1>1, <1>3, <2>1, NoStreakFits DEF StreakAfter
  <2>2. CASE ~ (Is(i, "file_open") /\ r.cycles > 0 /\ firstTime)
    <3>1. CASE RunPasses(i)
      BY <1>1, <1>3, <2>2, <3>1, NoStreakFits DEF StreakAfter
    <3>2. CASE ~ RunPasses(i) /\ RunFails(i) /\ r.pending # {}
      BY <1>3, <2>2, <3>2, StreakFails DEF StreakAfter
    <3>3. CASE ~ RunPasses(i) /\ ~ (RunFails(i) /\ r.pending # {})
      <4>1. StreakAfter(r, i) = r
        BY <1>3, <2>2, <3>3 DEF StreakAfter
      <4> QED BY <1>3, <2>2, <3>3, <4>1, StreakStays
    <3> QED BY <3>1, <3>2, <3>3
  <2> QED BY <2>1, <2>2
<1> QED BY <1>2, <1>3

\* So is detectStuck's result of the whole trace.
LEMMA StuckIsTrue ==
  ASSUME trace \in Seq(Events)
  PROVE  StreakInv(DetectStuck, Len(trace))
<1> DEFINE N == Len(trace)
<1>1. PICK f \in [0..N -> Streaks] :
        /\ f[0] = NoStreak /\ DetectStuck = f[N]
        /\ \A i \in 1..N : f[i] = StreakAfter(f[i - 1], i)
  BY StuckLoop
<1> DEFINE G == {i \in 0..N : StreakInv(f[i], i)}
<1>2. 0 \in G
  BY <1>1, NoStreakFits
<1>3. ASSUME NEW i \in 1..N, i - 1 \in G
      PROVE  i \in G
  <2>1. StreakInv(StreakAfter(f[i - 1], i), i)
    BY <1>3, StreakGoesOn
  <2> QED BY <1>1, <2>1
<1>4. 0..N \subseteq G
  <2>1. N \in Nat
    OBVIOUS
  <2>2. \A i \in 1..N : i - 1 \in G => i \in G
    BY <1>3
  <2> HIDE DEF G, N
  <2> QED BY <1>2, <2>1, <2>2, Upward
<1> QED BY <1>1, <1>4

\* What the interviewer was last asked to say was about the trace as it was.
MoveFits ==
  /\ move # Nothing => move.at \in Nat /\ move.at <= Len(trace)
  /\ move.what = "stuck" => move.since \in Nat \ {0}

InitiativeInv == trace \in Seq(Events) /\ MoveFits /\ HintIsTrue /\ GreenComesFirst

\* What describeStuck says of a trace of n events with a streak since s.
HintHolds(s, n) ==
  /\ IsEdit(s)
  /\ Cardinality(Attempts(s, n)) >= Cycles
  /\ \A i \in s..n : ~ RunPasses(i)
  /\ \E f \in s..n :
       /\ Attempt(s, f) /\ \A j \in s..(f - 1) : ~ Attempt(s, j)
       /\ \A i \in f..n :
            /\ IsEdit(i) => \E j \in s..f : IsEdit(j) /\ trace[j].path = trace[i].path
            /\ Is(i, "file_open") => \E j \in Until(i) : Touched(j) /\ trace[j].path = trace[i].path

\* It is what the property asks for.
LEMMA HintSays ==
  trace \in Seq(Events) /\ move.since \in Nat \ {0} /\ HintHolds(move.since, Len(trace))
    => HintIsTrue
<1> SUFFICES ASSUME trace \in Seq(Events), move.since \in Nat \ {0},
                    HintHolds(move.since, Len(trace))
             PROVE  HintIsTrue
  OBVIOUS
<1> DEFINE s == move.since
           n == Len(trace)
           A(i) == i \in s..n /\ RunFails(i) /\ \E e \in s..i : IsEdit(e) /\ \A j \in e..i - 1 : ~ RunFails(j)
<1>1. s \in Nat /\ n \in Nat /\ s >= 1
  OBVIOUS
<1>2. \A i : A(i) <=> i \in s..n /\ Attempt(s, i)
  BY DEF Attempt
<1>3. {i \in s..n : A(i)} = Attempts(s, n)
  <2> HIDE DEF A, s, n
  <2> QED BY <1>2 DEF Attempts
<1>4. PICK f \in s..n :
        /\ Attempt(s, f) /\ \A j \in s..(f - 1) : ~ Attempt(s, j)
        /\ \A i \in f..n :
             /\ IsEdit(i) => \E j \in s..f : IsEdit(j) /\ trace[j].path = trace[i].path
             /\ Is(i, "file_open") => \E j \in Until(i) : Touched(j) /\ trace[j].path = trace[i].path
  BY DEF HintHolds
<1>5. A(f) /\ \A j \in Until(f) : ~ A(j)
  <2> HIDE DEF A, s, n
  <2>1. \A j \in Until(f) : j \in s..n => j \in s..(f - 1)
    BY <1>1 DEF Until
  <2> QED BY <1>2, <1>4, <2>1
<1>6. IsEdit(s) /\ Cardinality({i \in s..n : A(i)}) >= Cycles /\ \A i \in s..n : ~ RunPasses(i)
  <2> HIDE DEF A
  <2> QED BY <1>3 DEF HintHolds
<1>7. First(f, A)
  BY <1>5 DEF First
<1> QED BY <1>4, <1>6, <1>7 DEF HintIsTrue

\* When detectStuck speaks, what describeStuck says is so.
LEMMA HintFromStreak ==
  ASSUME trace \in Seq(Events), Stuck
  PROVE  DetectStuck.since \in Nat \ {0} /\ HintHolds(DetectStuck.since, Len(trace))
<1> DEFINE r == DetectStuck
           n == Len(trace)
<1>1. n \in Nat
  OBVIOUS
<1>2. r \in Streaks /\ r.cycles \in Nat /\ r.cycles >= Cycles /\ r.cycles > 0
  BY StuckIsTrue, CyclesAssumption DEF StreakInv, Streaks, Stuck
<1>3. CyclesFit(r, n)
  BY StuckIsTrue DEF StreakInv
<1> HIDE DEF r, n
<1>4. /\ r.since \in 1..n /\ IsEdit(r.since)
      /\ \A j \in r.since..n : ~ RunPasses(j)
      /\ Cardinality(Attempts(r.since, n)) >= r.cycles
  BY <1>2, <1>3 DEF CyclesFit
<1>5. PICK f \in Nat : FirstIs(r, n, f)
  BY <1>2, <1>3 DEF CyclesFit
<1>6. Cardinality(Attempts(r.since, n)) >= Cycles
  <2>1. IsFiniteSet(r.since..n)
    BY <1>1, <1>4, FS_Interval
  <2>2. Attempts(r.since, n) \subseteq r.since..n
    BY DEF Attempts
  <2>3. Cardinality(Attempts(r.since, n)) \in Nat
    BY <2>1, <2>2, FS_Subset, FS_CardinalityType
  <2> QED BY <1>2, <1>4, <2>3, CyclesAssumption
<1>7. r.since \in Nat \ {0} /\ HintHolds(r.since, n)
  <2>1. r.since \in Nat \ {0}
    BY <1>1, <1>4
  <2>2. f \in r.since..n /\ Attempt(r.since, f) /\ \A j \in r.since..(f - 1) : ~ Attempt(r.since, j)
    BY <1>5 DEF FirstIs
  <2>3. \A i \in f..n : IsEdit(i) => \E j \in r.since..f : IsEdit(j) /\ trace[j].path = trace[i].path
    BY <1>5 DEF FirstIs
  <2>4. \A i \in f..n :
          Is(i, "file_open") => \E j \in Until(i) : Touched(j) /\ trace[j].path = trace[i].path
    BY <1>5, Zenon DEF FirstIs
  <2> QED BY <1>4, <1>6, <2>1, <2>2, <2>3, <2>4, Zenon DEF HintHolds
<1> QED BY <1>7 DEF r, n

\* While the suite is green there is no streak.
LEMMA HintMeansRed ==
  trace \in Seq(Events) /\ move.since \in Nat \ {0} /\ HintIsTrue /\ MadeNow("stuck")
    => ~ \E i \in DOMAIN trace :
           RunPasses(i) /\ \A j \in DOMAIN trace : j > i => ~ Completed(j)
<1> SUFFICES ASSUME trace \in Seq(Events), move.since \in Nat \ {0}, HintIsTrue, MadeNow("stuck"),
                    NEW i \in DOMAIN trace, RunPasses(i),
                    \A j \in DOMAIN trace : j > i => ~ Completed(j)
             PROVE  FALSE
  OBVIOUS
<1> DEFINE s == move.since
           n == Len(trace)
           A(k) == k \in s..n /\ RunFails(k) /\ \E e \in s..k : IsEdit(e) /\ \A j \in e..k - 1 : ~ RunFails(j)
<1>1. Cardinality({k \in s..n : A(k)}) >= Cycles /\ \A k \in s..n : ~ RunPasses(k)
  BY DEF HintIsTrue
<1>2. {k \in s..n : A(k)} # {}
  <2>1. SUFFICES ASSUME {k \in s..n : A(k)} = {} PROVE FALSE
    OBVIOUS
  <2>2. Cardinality({k \in s..n : A(k)}) = 0
    <3> HIDE DEF A, s, n
    <3> QED BY <2>1, FS_EmptySet
  <2> HIDE DEF A
  <2> QED BY <1>1, <2>2, CyclesAssumption
<1>3. PICK k \in s..n : RunFails(k)
  BY <1>2
<1>4. i \in 1..n /\ DOMAIN trace = 1..n /\ n \in Nat /\ s \in Nat \ {0}
  OBVIOUS
<1> HIDE DEF s, n
<1>5. k \in DOMAIN trace /\ Completed(k)
  BY <1>3, <1>4 DEF Completed
<1>6. i \in s..n
  BY <1>3, <1>4, <1>5
<1> QED BY <1>1, <1>6

\* What is said of a fix that failed while the suite is green was not said first.
LEMMA FixStillFails ==
  ASSUME trace \in Seq(Events), NEW r \in DOMAIN trace, FirstFix(r), RunFails(r),
         NEW i \in DOMAIN trace, RunPasses(i), \A j \in DOMAIN trace : j > i => ~ Completed(j)
  PROVE  PassAfterStruggle /\ ~ FirstFixPassed
<1>1. DOMAIN trace = 1..Len(trace) /\ r \in Nat /\ i \in Nat
  OBVIOUS
<1>2. /\ \E f, e \in Until(r) : First(f, RunFails) /\ f < e /\ IsEdit(e)
      /\ \A j \in Until(r) : ~ (Is(j, "test_run") /\ \E f, e \in Until(j) : First(f, RunFails) /\ f < e /\ IsEdit(e))
  BY DEF FirstFix, First
<1>3. PICK f \in Until(r) : RunFails(f)
  BY <1>2 DEF First
<1>4. r < i
  <2>1. Completed(r) /\ r # i
    BY EventFacts DEF Completed
  <2> QED BY <1>1, <2>1
<1>5. f \in 1..(r - 1) /\ f \in Until(i) /\ r \in Until(i) /\ f # r
  BY <1>1, <1>3, <1>4 DEF Until
<1>6. Cardinality({j \in Until(i) : RunFails(j)}) >= 2
  <2> DEFINE F == {j \in Until(i) : RunFails(j)}
  <2>1. IsFiniteSet(Until(i))
    BY <1>1, FS_Interval DEF Until
  <2>2. F \subseteq Until(i) /\ {f, r} \subseteq F
    BY <1>3, <1>5
  <2>3. IsFiniteSet(F)
    BY <2>1, <2>2, FS_Subset
  <2>4. Cardinality({f, r}) <= Cardinality(F)
    <3> HIDE DEF F
    <3> QED BY <2>2, <2>3, FS_Subset
  <2>5. Cardinality({f, r}) = 2
    <3>1. IsFiniteSet({f}) /\ Cardinality({f}) = 1
      BY FS_Singleton
    <3>2. Cardinality({f} \cup {r}) = Cardinality({f}) + 1
      BY <1>5, <3>1, FS_AddElement
    <3>3. {f, r} = {f} \cup {r}
      OBVIOUS
    <3>4. Cardinality({f, r}) = 1 + 1
      BY <3>1, <3>2, <3>3, Zenon
    <3> QED BY <3>4
  <2>6. Cardinality(F) \in Nat
    BY <2>3, FS_CardinalityType
  <2> QED BY <2>4, <2>5, <2>6
<1>7. PassAfterStruggle
  BY <1>6 DEF PassAfterStruggle
<1>8. ~ FirstFixPassed
  <2>1. SUFFICES ASSUME NEW q \in DOMAIN trace, FirstFix(q), RunPasses(q) PROVE FALSE
    BY DEF FirstFixPassed
  <2>2. /\ Is(q, "test_run") /\ \E g, e \in Until(q) : First(g, RunFails) /\ g < e /\ IsEdit(e)
        /\ \A j \in Until(q) : ~ (Is(j, "test_run") /\ \E g, e \in Until(j) : First(g, RunFails) /\ g < e /\ IsEdit(e))
    BY <2>1 DEF FirstFix, First
  <2>3. Is(r, "test_run")
    BY DEF RunFails
  <2>4. r \notin Until(q) /\ q \notin Until(r)
    BY <1>2, <2>2, <2>3
  <2>5. q = r
    BY <1>1, <2>4 DEF Until
  <2> QED BY <2>1, <2>5, EventFacts
<1> QED BY <1>7, <1>8

\* The moves a tick makes.
LEMMA StuckIsNoMoment == "stuck" \notin Moments /\ "redirect" \notin Moments /\ "none" \notin Moments
BY DEF Moments

\* A step that says nothing new.
LEMMA SameMoveKeeps ==
  ASSUME InitiativeInv, trace' = trace, fired \subseteq fired', move' = move \/ move' = Nothing
  PROVE  InitiativeInv'
<1> USE DEF InitiativeInv
<1>1. trace' \in Seq(Events)
  OBVIOUS
<1>2. MoveFits'
  BY DEF MoveFits, Nothing
<1>3. CASE move' = Nothing
  <2>1. ~ MadeNow("stuck")'
    BY <1>3 DEF MadeNow, Nothing
  <2> QED BY <1>1, <1>2, <1>3, <2>1 DEF HintIsTrue, GreenComesFirst
<1>4. CASE move' = move
  <2>1. HintIsTrue'
    BY <1>4 DEF HintIsTrue, MadeNow, First, IsEdit, RunFails, RunPasses, Is, Touched
  <2>2. GreenComesFirst'
    BY <1>4 DEF GreenComesFirst, FirstFix, First, Completed, IsEdit, RunFails, RunPasses, Is
  <2> QED BY <1>1, <1>2, <2>1, <2>2
<1> QED BY <1>3, <1>4

\* A hint.
LEMMA HelpsKeeps == ASSUME InitiativeInv, TickHelps PROVE InitiativeInv'
<1> USE DEF InitiativeInv
<1>1. /\ Stuck /\ UNCHANGED trace
      /\ move' = [what |-> "stuck", since |-> DetectStuck.since, at |-> Len(trace)]
  BY DEF TickHelps
<1>2. DetectStuck.since \in Nat \ {0} /\ HintHolds(DetectStuck.since, Len(trace))
  BY <1>1, HintFromStreak
<1>3. move'.what = "stuck" /\ move'.since \in Nat \ {0} /\ move'.at = Len(trace)
      /\ HintHolds(move'.since, Len(trace'))
  BY <1>1, <1>2
<1>4. ASSUME NEW s, NEW n
      PROVE  HintHolds(s, n)' = HintHolds(s, n)
  <2>1. /\ \A i : RunFails(i)' = RunFails(i) /\ RunPasses(i)' = RunPasses(i) /\ IsEdit(i)' = IsEdit(i)
        /\ \A i : Is(i, "file_open")' = Is(i, "file_open") /\ Touched(i)' = Touched(i)
    BY <1>1 DEF RunFails, RunPasses, IsEdit, Is, Touched
  <2>2. \A i : Attempt(s, i)' = Attempt(s, i)
    BY <2>1 DEF Attempt
  <2>3. Attempts(s, n)' = Attempts(s, n)
    BY <2>2 DEF Attempts
  <2> QED BY <1>1, <2>1, <2>2, <2>3 DEF HintHolds
<1>5. HintHolds(move.since, Len(trace))'
  BY <1>3, <1>4
<1>6. trace' \in Seq(Events)
  BY <1>1
<1>7. HintIsTrue'
  <2>1. (trace \in Seq(Events) /\ move.since \in Nat \ {0} /\ HintHolds(move.since, Len(trace))
          => HintIsTrue)'
    BY HintSays, PTL
  <2> QED BY <1>3, <1>5, <1>6, <2>1
<1>8. MadeNow("stuck")'
  BY <1>1, <1>3 DEF MadeNow
<1>9. (~ \E i \in DOMAIN trace :
           RunPasses(i) /\ \A j \in DOMAIN trace : j > i => ~ Completed(j))'
  <2>1. (trace \in Seq(Events) /\ move.since \in Nat \ {0} /\ HintIsTrue /\ MadeNow("stuck")
          => ~ \E i \in DOMAIN trace :
                 RunPasses(i) /\ \A j \in DOMAIN trace : j > i => ~ Completed(j))'
    BY HintMeansRed, PTL
  <2> QED BY <1>3, <1>6, <1>7, <1>8, <2>1
<1>10. GreenComesFirst'
  BY <1>9 DEF GreenComesFirst
<1>11. MoveFits'
  BY <1>1, <1>3 DEF MoveFits
<1> QED BY <1>6, <1>7, <1>10, <1>11

\* Anything else a tick says.
LEMMA OtherMoveKeeps ==
  ASSUME InitiativeInv, trace' = trace, fired \subseteq fired',
         move'.what # "stuck", move'.at = Len(trace),
         move'.what = "first_fix_ran" =>
           FirstFixPassed \/ ~ PassAfterStruggle \/ "pass_after_struggle" \in fired
  PROVE  InitiativeInv'
<1> USE DEF InitiativeInv
<1>1. MoveFits'
  BY DEF MoveFits
<1>2. HintIsTrue'
  BY DEF HintIsTrue, MadeNow
<1>3. GreenComesFirst'
  <2>1. SUFFICES ASSUME move'.what = "first_fix_ran",
                        NEW i \in DOMAIN trace, RunPasses(i),
                        \A j \in DOMAIN trace : j > i => ~ Completed(j),
                        NEW r \in DOMAIN trace, FirstFix(r), RunFails(r)
                 PROVE  "pass_after_struggle" \in fired
    BY DEF GreenComesFirst, FirstFix, First, Completed, IsEdit, RunFails, RunPasses, Is
  <2>2. PassAfterStruggle /\ ~ FirstFixPassed
    BY <2>1, FixStillFails
  <2> QED BY <2>1, <2>2
<1> QED BY <1>1, <1>2, <1>3

\* The answer to a green suite.
LEMMA UrgentKeeps == ASSUME InitiativeInv, TickUrgent PROVE InitiativeInv'
<1>1. /\ trace' = trace /\ fired \subseteq fired' /\ UrgentMoment # "none"
      /\ move' = [what |-> UrgentMoment, at |-> Len(trace)]
  BY DEF TickUrgent
<1>2. UrgentMoment = "first_fix_ran" => FirstFixPassed
  BY DEF UrgentMoment
<1>3. UrgentMoment # "stuck"
  BY DEF UrgentMoment
<1> QED BY <1>1, <1>2, <1>3, OtherMoveKeeps

\* The word on a moment: the pass, if there is one, has been answered.
LEMMA MomentKeeps == ASSUME InitiativeInv, TickMoment PROVE InitiativeInv'
<1>1. PICK m \in Moments :
        /\ MomentNow(m) /\ fired' = fired \cup {m} /\ move' = [what |-> m, at |-> Len(trace)]
  BY DEF TickMoment
<1>2. trace' = trace /\ UrgentMoment = "none"
  BY DEF TickMoment, NoUrgent
<1>3. m = "first_fix_ran" => kind = "one_failing_test"
  BY <1>1 DEF MomentNow, MomentOrder
<1>4. kind = "one_failing_test" => ~ (Unfired("pass_after_struggle") /\ PassAfterStruggle)
  BY <1>2 DEF UrgentMoment
<1>5. m = "first_fix_ran" => ~ PassAfterStruggle \/ "pass_after_struggle" \in fired
  BY <1>3, <1>4 DEF Unfired
<1> QED BY <1>1, <1>2, <1>5, StuckIsNoMoment, OtherMoveKeeps

\* Nothing has been done and nothing said.
LEMMA InitiativeStarts == InitiativeInit => InitiativeInv
BY DEF InitiativeInit, InitiativeInv, MoveFits, HintIsTrue, GreenComesFirst, MadeNow, Nothing

\* Every event and every tick keep it.
LEMMA InitiativeStep == InitiativeInv /\ [InitiativeNext]_initiativeVars => InitiativeInv'
<1> SUFFICES ASSUME InitiativeInv, InitiativeNext \/ UNCHANGED initiativeVars
             PROVE  InitiativeInv'
  OBVIOUS
<1>1. CASE UNCHANGED initiativeVars
  BY <1>1, SameMoveKeeps DEF initiativeVars
<1>2. CASE CandidateActs
  <2>1. PICK e \in Events : trace' = Append(trace, e)
    BY <1>2 DEF CandidateActs
  <2>2. trace \in Seq(Events) /\ MoveFits /\ move' = move
    BY <1>2 DEF CandidateActs, InitiativeInv
  <2>3. trace' \in Seq(Events) /\ Len(trace') = Len(trace) + 1 /\ Len(trace) \in Nat
    BY <2>1, <2>2
  <2>4. MoveFits' /\ (move # Nothing => move.at # Len(trace'))
    BY <2>2, <2>3 DEF MoveFits
  <2>5. ~ MadeNow("stuck")' /\ ~ (move # Nothing /\ move.at = Len(trace))'
    BY <2>2, <2>4 DEF MadeNow, Nothing
  <2>6. HintIsTrue'
    BY <2>5 DEF HintIsTrue
  <2>7. GreenComesFirst'
    BY <2>5 DEF GreenComesFirst
  <2> QED BY <2>3, <2>4, <2>6, <2>7 DEF InitiativeInv
<1>3. CASE TickWraps
  BY <1>3, SameMoveKeeps DEF TickWraps
<1>4. CASE TickUrgent
  BY <1>4, UrgentKeeps
<1>5. CASE TickHelps
  BY <1>5, HelpsKeeps
<1>6. CASE HintIsSilenced
  BY <1>6, SameMoveKeeps DEF HintIsSilenced
<1>7. CASE TickRedirects
  <2>1. PICK w \in DOMAIN trace : move' = [what |-> "redirect", since |-> w, at |-> Len(trace)]
    BY <1>7 DEF TickRedirects
  <2>2. trace' = trace /\ fired' = fired
    BY <1>7 DEF TickRedirects
  <2> QED BY <2>1, <2>2, OtherMoveKeeps
<1>8. CASE TickMoment
  BY <1>8, MomentKeeps
<1> QED BY <1>1, <1>2, <1>3, <1>4, <1>5, <1>6, <1>7, <1>8 DEF InitiativeNext

---------------------------------------------------------------------------
(* The voice channel.                                                      *)

Mics == [phase : {"idle", "maybe", "speaking"}, muted : BOOLEAN, linked : BOOLEAN]
Utts == [stamp : Nat, words : SUBSET Nat]
Messages == [of : Nat, commit : BOOLEAN]
Relays ==
  [current : Nat, sock : {"none", "connecting", "open", "errored"}, out : Seq(Messages),
   heard : SUBSET Nat, answers : Seq(SUBSET Nat), partial : SUBSET Nat, watchdog : BOOLEAN,
   said : Seq(Utts), open : Nat]

\* The service knows only of an open socket, and a socket is opened for a segment.
SockFits(r) ==
  /\ r.sock # "open" => r.answers = <<>> /\ r.heard = {}
  /\ r.sock = "connecting" => r.current # NoSegment

\* The record, of b segments, is in order and before the one under way.
StampsFit(r, b) ==
  /\ r.current <= b
  /\ \A i \in DOMAIN r.said : r.said[i].stamp <= b /\ (r.current # NoSegment => r.said[i].stamp < r.current)
  /\ \A i, j \in DOMAIN r.said :
       i < j /\ r.said[j].stamp # NoSegment => r.said[i].stamp < r.said[j].stamp
  /\ r.open <= IF r.current = NoSegment THEN 0 ELSE 1

\* Nothing but the one under way is missing from it, unless the relay has stopped.
NoneMissing(r, b, over) ==
  \A s \in 1..b : s # r.current => over \/ \E i \in DOMAIN r.said : r.said[i].stamp = s

\* All sound is of the segment under way, and its words are asked for once, after
\* all of it, unless the budget is spent.
WordsFit(r, x) ==
  /\ \A i \in DOMAIN r.said :
       r.said[i].words \subseteq {r.said[i].stamp} /\ (r.said[i].stamp # NoSegment \/ x)
  /\ r.heard \subseteq {r.current} /\ (r.current = NoSegment => r.heard = {})
  /\ r.partial \subseteq {r.current} /\ (r.current = NoSegment => r.partial = {})
  /\ \A k \in DOMAIN r.answers :
       r.answers[k] \subseteq {r.current} /\ (k > 1 \/ r.current = NoSegment => r.answers[k] = {})
  /\ r.answers # <<>> => r.heard = {} /\ (r.current = NoSegment => x)
  /\ Len(r.answers) >= 2 => x
  /\ \A i \in DOMAIN r.out : r.current # NoSegment /\ ~ r.out[i].commit => r.out[i].of = r.current
  /\ \A i, j \in DOMAIN r.out : i < j /\ r.out[i].commit => r.out[j].commit /\ x

\* While the candidate speaks.
TalkFits(r, b) ==
  /\ r.current = b /\ r.answers = <<>> /\ ~ r.watchdog
  /\ \A i \in DOMAIN r.out : ~ r.out[i].commit

VoiceIn(r, b, x, cl, car, talking) ==
  /\ r \in Relays /\ SockFits(r) /\ StampsFit(r, b) /\ NoneMissing(r, b, x \/ cl)
  /\ ~ car => WordsFit(r, x) /\ (talking /\ ~ x /\ ~ cl => TalkFits(r, b))

VoiceInv ==
  /\ mic \in Mics
  /\ began \in Nat /\ spent \in Nat
  /\ VoiceIn(relay, began, exhausted, voiceClosed, carried, mic.phase = "speaking")

\* What a relay holds.
LEMMA RelayIs ==
  ASSUME NEW r \in Relays
  PROVE  /\ r.said \in Seq(Utts) /\ r.current \in Nat /\ r.open \in Nat /\ Len(r.said) \in Nat
         /\ DOMAIN r.said = 1..Len(r.said)
         /\ \A i \in DOMAIN r.said : r.said[i] \in Utts /\ r.said[i].stamp \in Nat
<1>1. r.said \in Seq(Utts) /\ r.current \in Nat /\ r.open \in Nat
  BY DEF Relays
<1>2. \A u \in Utts : u.stamp \in Nat
  BY DEF Utts
<1>3. DOMAIN r.said = 1..Len(r.said) /\ Len(r.said) \in Nat /\ \A i \in DOMAIN r.said : r.said[i] \in Utts
  BY <1>1
<1> QED BY <1>1, <1>2, <1>3

\* It is what the property asks for.
LEMMA VoiceKeeps == VoiceInv => SpokenIsRecorded
<1> SUFFICES ASSUME VoiceInv PROVE SpokenIsRecorded
  OBVIOUS
<1>1. /\ relay \in Relays /\ began \in Nat /\ StampsFit(relay, began)
      /\ NoneMissing(relay, began, exhausted \/ voiceClosed)
      /\ ~ carried => WordsFit(relay, exhausted)
  BY DEF VoiceInv, VoiceIn
<1>2. /\ relay.said \in Seq(Utts) /\ relay.current \in Nat /\ DOMAIN relay.said \subseteq Nat
      /\ \A i \in DOMAIN relay.said : relay.said[i].stamp \in Nat
  BY <1>1, RelayIs
<1>3. ASSUME NEW s \in Segments
      PROVE  Cardinality(Stamped(s)) <= 1
  <2>1. s # NoSegment
    BY DEF Segments, NoSegment
  <2>2. \A i, j \in Stamped(s) : i = j
    BY <1>1, <1>2, <2>1 DEF Stamped, StampsFit
  <2>3. CASE Stamped(s) = {}
    BY <2>3, FS_EmptySet
  <2>4. CASE Stamped(s) # {}
    <3>1. PICK i : i \in Stamped(s)
      BY <2>4
    <3>2. Stamped(s) = {i}
      BY <2>2, <3>1
    <3>3. Cardinality({i}) = 1
      BY FS_Singleton
    <3> QED BY <3>2, <3>3
  <2> QED BY <2>3, <2>4
<1>4. \A s \in 1..began : s # relay.current => Stamped(s) # {} \/ exhausted \/ voiceClosed
  BY <1>1 DEF NoneMissing, Stamped
<1>5. relay.current # NoSegment => Stamped(relay.current) = {}
  BY <1>1, <1>2 DEF StampsFit, Stamped
<1>6. SegmentsAreRecordedOnce
  BY <1>1, <1>3, <1>4, <1>5 DEF SegmentsAreRecordedOnce, StampsFit
<1>7. WordsKeepTheirTime
  BY <1>1 DEF WordsKeepTheirTime, WordsFit
<1> QED BY <1>6, <1>7 DEF SpokenIsRecorded

\* A segment is recorded.
LEMMA RecordFits ==
  ASSUME NEW r \in Relays, NEW q \in Relays, NEW b \in Nat, NEW over, NEW w,
         StampsFit(r, b), NoneMissing(r, b, over),
         q.said = Append(r.said, [stamp |-> r.current, words |-> w]),
         q.current = NoSegment, q.open = IF r.open = 0 THEN 0 ELSE r.open - 1
  PROVE  StampsFit(q, b) /\ NoneMissing(q, b, over)
<1> DEFINE u == [stamp |-> r.current, words |-> w]
           n == Len(r.said)
<1>1. /\ r.said \in Seq(Utts) /\ r.current \in Nat /\ r.open \in Nat /\ q.said \in Seq(Utts)
      /\ \A i \in DOMAIN r.said : r.said[i].stamp \in Nat
  BY RelayIs
<1>2. /\ n \in Nat /\ DOMAIN q.said = 1..(n + 1) /\ DOMAIN r.said = 1..n
      /\ \A i \in 1..n : q.said[i] = r.said[i]
      /\ q.said[n + 1] = u /\ u.stamp = r.current
  <2>1. r.said \in Seq(Utts) /\ q.said = Append(r.said, u)
    BY <1>1
  <2>2. u.stamp = r.current
    OBVIOUS
  <2>3. u \in Utts
    <3>1. n + 1 \in DOMAIN q.said /\ q.said[n + 1] = u
      BY <1>1
    <3> HIDE DEF u
    <3> QED BY <1>1, <3>1
  <2> HIDE DEF u
  <2> QED BY <1>1, <2>1, <2>2, <2>3
<1> HIDE DEF u, n
<1>3. \A i \in 1..(n + 1) : i \in 1..n \/ i = n + 1
  BY <1>2
<1>4. \A i \in DOMAIN q.said : q.said[i].stamp <= b
  BY <1>1, <1>2, <1>3 DEF StampsFit
<1>5. ASSUME NEW i \in DOMAIN q.said, NEW j \in DOMAIN q.said, i < j, q.said[j].stamp # NoSegment
      PROVE  q.said[i].stamp < q.said[j].stamp
  <2>1. i \in 1..n
    BY <1>2, <1>5
  <2>2. CASE j \in 1..n
    BY <1>2, <1>5, <2>1, <2>2 DEF StampsFit
  <2>3. CASE j = n + 1
    BY <1>2, <1>5, <2>1, <2>3 DEF StampsFit
  <2> QED BY <1>2, <1>3, <2>2, <2>3
<1>6. q.open <= 0
  BY <1>1 DEF StampsFit, NoSegment
<1>7. StampsFit(q, b)
  BY <1>4, <1>5, <1>6 DEF StampsFit, NoSegment
<1>8. NoneMissing(q, b, over)
  <2> SUFFICES ASSUME NEW s \in 1..b, ~ over
               PROVE  \E i \in DOMAIN q.said : q.said[i].stamp = s
    BY DEF NoneMissing
  <2>1. CASE s = r.current
    BY <1>2, <2>1
  <2>2. CASE s # r.current
    <3>1. PICK i \in DOMAIN r.said : r.said[i].stamp = s
      BY <2>2 DEF NoneMissing
    <3>2. i \in DOMAIN q.said /\ q.said[i] = r.said[i]
      BY <1>2, <3>1
    <3> QED BY <3>1, <3>2
  <2> QED BY <2>1, <2>2
<1> QED BY <1>7, <1>8

\* flushUntranscribed
LEMMA FlushIs ==
  ASSUME NEW r \in Relays
  PROVE  LET q == flushUntranscribed(r)
         IN  /\ q \in Relays /\ ~ q.watchdog /\ q.current = NoSegment
             /\ q.sock = r.sock /\ q.out = r.out /\ q.heard = r.heard /\ q.answers = r.answers
             /\ r.current = NoSegment =>
                  q.said = r.said /\ q.open = r.open /\ q.partial = r.partial
             /\ r.current # NoSegment =>
                  /\ q.said = Append(r.said, [stamp |-> r.current, words |-> {}])
                  /\ q.open = (IF r.open = 0 THEN 0 ELSE r.open - 1) /\ q.partial = {}
<1>1. [stamp |-> r.current, words |-> {}] \in Utts /\ Append(r.said, [stamp |-> r.current, words |-> {}]) \in Seq(Utts)
  <2>1. r.current \in Nat /\ r.said \in Seq(Utts)
    BY DEF Relays
  <2>2. [stamp |-> r.current, words |-> {}] \in Utts
    BY <2>1 DEF Utts
  <2> QED BY <2>1, <2>2
<1> DEFINE u == [stamp |-> r.current, words |-> {}]
<1>2. CASE r.current = NoSegment
  BY <1>2 DEF flushUntranscribed, Relays
<1>3. CASE r.current # NoSegment
  <2>1. flushUntranscribed(r) =
          Said([[r EXCEPT !.watchdog = FALSE] EXCEPT !.current = NoSegment, !.partial = {}], r.current, {})
    BY <1>3 DEF flushUntranscribed
  <2> DEFINE p == [[r EXCEPT !.watchdog = FALSE] EXCEPT !.current = NoSegment, !.partial = {}]
  <2>2. /\ p \in Relays /\ ~ p.watchdog /\ p.current = NoSegment
        /\ p.sock = r.sock /\ p.out = r.out /\ p.heard = r.heard /\ p.answers = r.answers
        /\ p.said = r.said /\ p.open = r.open /\ p.partial = {}
    BY DEF Relays, NoSegment
  <2>3. Said(p, r.current, {}) =
          [p EXCEPT !.said = Append(p.said, u), !.open = IF p.open = 0 THEN 0 ELSE p.open - 1]
    BY DEF Said
  <2>4. (IF p.open = 0 THEN 0 ELSE p.open - 1) \in Nat /\ Append(p.said, u) \in Seq(Utts)
    BY <1>1, <2>2 DEF Relays
  <2> HIDE DEF p, u
  <2>5. LET q == Said(p, r.current, {})
        IN  /\ q \in Relays /\ ~ q.watchdog /\ q.current = NoSegment
            /\ q.sock = r.sock /\ q.out = r.out /\ q.heard = r.heard /\ q.answers = r.answers
            /\ q.said = Append(r.said, u)
            /\ q.open = (IF r.open = 0 THEN 0 ELSE r.open - 1) /\ q.partial = {}
    BY <2>2, <2>3, <2>4 DEF Relays
  <2> QED BY <1>3, <2>1, <2>5 DEF p, u
<1> QED BY <1>2, <1>3

\* The segment under way is recorded, if there is one.
LEMMA FlushFits ==
  ASSUME NEW r \in Relays, NEW b \in Nat, NEW over, StampsFit(r, b), NoneMissing(r, b, over)
  PROVE  StampsFit(flushUntranscribed(r), b) /\ NoneMissing(flushUntranscribed(r), b, over)
<1> DEFINE q == flushUntranscribed(r)
<1>1. /\ q \in Relays /\ q.current = NoSegment
      /\ r.current = NoSegment => q.said = r.said /\ q.open = r.open
      /\ r.current # NoSegment =>
           /\ q.said = Append(r.said, [stamp |-> r.current, words |-> {}])
           /\ q.open = IF r.open = 0 THEN 0 ELSE r.open - 1
  BY FlushIs
<1> HIDE DEF q
<1>2. CASE r.current = NoSegment
  <2>1. StampsFit(q, b) /\ NoneMissing(q, b, over)
    BY <1>1, <1>2 DEF StampsFit, NoneMissing
  <2> QED BY <2>1 DEF q
<1>3. CASE r.current # NoSegment
  <2>1. StampsFit(q, b) /\ NoneMissing(q, b, over)
    BY <1>1, <1>3, RecordFits
  <2> QED BY <2>1 DEF q
<1> QED BY <1>2, <1>3

\* The words of what was said are its own still when a segment is recorded without.
LEMMA FlushWords ==
  ASSUME NEW r \in Relays, NEW x, WordsFit(r, x)
  PROVE  \A i \in DOMAIN flushUntranscribed(r).said :
           LET u == flushUntranscribed(r).said[i]
           IN  u.words \subseteq {u.stamp} /\ (u.stamp # NoSegment \/ x)
<1> DEFINE q == flushUntranscribed(r)
<1>1. /\ q \in Relays
      /\ r.current = NoSegment => q.said = r.said
      /\ r.current # NoSegment => q.said = Append(r.said, [stamp |-> r.current, words |-> {}])
  BY FlushIs
<1> HIDE DEF q
<1>2. r.said \in Seq(Utts)
  BY DEF Relays
<1>3. ASSUME NEW i \in DOMAIN q.said, r.current # NoSegment
      PROVE  (i \in DOMAIN r.said /\ q.said[i] = r.said[i]) \/ q.said[i] = [stamp |-> r.current, words |-> {}]
  BY <1>1, <1>2, <1>3
<1>4. ASSUME NEW i \in DOMAIN q.said
      PROVE  q.said[i].words \subseteq {q.said[i].stamp} /\ (q.said[i].stamp # NoSegment \/ x)
  BY <1>1, <1>3 DEF WordsFit
<1> QED BY <1>4 DEF q

\* What is true stays so as the budget runs out and the round closes.
LEMMA VoiceWeakens ==
  ASSUME NEW r, NEW b, NEW x, NEW cl, NEW car, NEW talking, NEW x2, NEW cl2, NEW car2, NEW talking2,
         VoiceIn(r, b, x, cl, car, talking), x => x2, cl => cl2, car => car2, talking2 => talking
  PROVE  VoiceIn(r, b, x2, cl2, car2, talking2)
<1>1. NoneMissing(r, b, x2 \/ cl2)
  BY DEF VoiceIn, NoneMissing
<1>2. WordsFit(r, x) => WordsFit(r, x2)
  BY DEF WordsFit
<1> QED BY <1>1, <1>2 DEF VoiceIn

\* A relay with no open socket, the rest as it was.
LEMMA CutFits ==
  ASSUME NEW r, NEW q \in Relays, NEW b, NEW x, NEW cl, NEW car, NEW talking,
         VoiceIn(r, b, x, cl, car, talking),
         q.current = r.current, q.out = r.out, q.partial = r.partial, q.said = r.said,
         q.open = r.open, q.watchdog => r.watchdog,
         q.sock \in {"none", "errored"}, q.heard = {}, q.answers = <<>>
  PROVE  VoiceIn(q, b, x, cl, car, talking)
<1>1. SockFits(q)
  BY DEF SockFits
<1>2. StampsFit(q, b) /\ NoneMissing(q, b, x \/ cl)
  BY DEF VoiceIn, StampsFit, NoneMissing
<1>3. TalkFits(r, b) => TalkFits(q, b)
  BY DEF TalkFits
<1>4. WordsFit(r, x) => WordsFit(q, x)
  BY DEF WordsFit
<1> QED BY <1>1, <1>2, <1>3, <1>4 DEF VoiceIn

\* The segment under way is over without its words.
LEMMA FlushCutFits ==
  ASSUME NEW r, NEW q \in Relays, NEW b \in Nat, NEW x, NEW cl, NEW car, NEW talking,
         VoiceIn(r, b, x, cl, car, talking),
         LET f == flushUntranscribed(r)
         IN  q.current = f.current /\ q.out = f.out /\ q.partial = f.partial /\ q.said = f.said
             /\ q.open = f.open,
         r.current # NoSegment,
         q.sock = "none", q.heard = {}, q.answers = <<>>
  PROVE  VoiceIn(q, b, x, cl, car, FALSE)
<1> DEFINE f == flushUntranscribed(r)
<1>1. r \in Relays /\ StampsFit(r, b) /\ NoneMissing(r, b, x \/ cl)
  BY DEF VoiceIn
<1>2. f.current = NoSegment /\ f.out = r.out /\ f.partial = {}
  BY <1>1, FlushIs
<1>3. StampsFit(f, b) /\ NoneMissing(f, b, x \/ cl)
  BY <1>1, FlushFits
<1>4. WordsFit(r, x) => \A i \in DOMAIN f.said :
        f.said[i].words \subseteq {f.said[i].stamp} /\ (f.said[i].stamp # NoSegment \/ x)
  BY <1>1, FlushWords
<1> HIDE DEF f
<1>5. /\ q.current = NoSegment /\ q.out = r.out /\ q.partial = {} /\ q.said = f.said
      /\ q.open = f.open
  BY <1>2 DEF f
<1>6. SockFits(q)
  BY <1>5 DEF SockFits
<1>7. StampsFit(q, b) /\ NoneMissing(q, b, x \/ cl)
  BY <1>2, <1>3, <1>5 DEF StampsFit, NoneMissing
<1>8. WordsFit(r, x) => WordsFit(q, x)
  BY <1>4, <1>5 DEF WordsFit
<1> QED BY <1>6, <1>7, <1>8 DEF VoiceIn

\* Cut
LEMMA CutIs ==
  ASSUME NEW r \in Relays
  PROVE  LET q == Cut(r)
         IN  /\ q \in Relays /\ q.sock = "none" /\ q.heard = {} /\ q.answers = <<>>
             /\ q.current = r.current /\ q.out = r.out /\ q.partial = r.partial
             /\ q.watchdog = r.watchdog /\ q.said = r.said /\ q.open = r.open
<1>1. <<>> \in Seq(SUBSET Nat)
  OBVIOUS
<1> QED BY <1>1 DEF Cut, Relays

\* The service hears a message.
LEMMA HearsIs ==
  ASSUME NEW r \in Relays, NEW m \in Messages
  PROVE  LET q == Hears(r, m)
         IN  /\ q \in Relays /\ q.sock = r.sock /\ q.current = r.current /\ q.out = r.out
             /\ q.partial = r.partial /\ q.watchdog = r.watchdog /\ q.said = r.said
             /\ q.open = r.open
             /\ m.commit => q.answers = Append(r.answers, r.heard) /\ q.heard = {}
             /\ ~ m.commit => q.answers = r.answers /\ q.heard = r.heard \cup {m.of}
<1>1. r.answers \in Seq(SUBSET Nat) /\ r.heard \in SUBSET Nat /\ m.of \in Nat
  BY DEF Relays, Messages
<1>2. Append(r.answers, r.heard) \in Seq(SUBSET Nat) /\ r.heard \cup {m.of} \in SUBSET Nat
  BY <1>1
<1> DEFINE a == Append(r.answers, r.heard)
           h == r.heard \cup {m.of}
<1>3. CASE m.commit
  <2>1. Hears(r, m) = [r EXCEPT !.answers = a, !.heard = {}]
    BY <1>3 DEF Hears
  <2>2. a \in Seq(SUBSET Nat)
    BY <1>2
  <2> HIDE DEF a
  <2>3. LET q == Hears(r, m)
        IN  /\ q \in Relays /\ q.sock = r.sock /\ q.current = r.current /\ q.out = r.out
            /\ q.partial = r.partial /\ q.watchdog = r.watchdog /\ q.said = r.said
            /\ q.open = r.open /\ q.answers = a /\ q.heard = {}
    BY <2>1, <2>2 DEF Relays
  <2> QED BY <1>3, <2>3 DEF a
<1>4. CASE ~ m.commit
  <2>1. Hears(r, m) = [r EXCEPT !.heard = h]
    BY <1>4 DEF Hears
  <2>2. h \in SUBSET Nat
    BY <1>2
  <2> HIDE DEF h
  <2>3. LET q == Hears(r, m)
        IN  /\ q \in Relays /\ q.sock = r.sock /\ q.current = r.current /\ q.out = r.out
            /\ q.partial = r.partial /\ q.watchdog = r.watchdog /\ q.said = r.said
            /\ q.open = r.open /\ q.answers = r.answers /\ q.heard = h
    BY <2>1, <2>2 DEF Relays
  <2> QED BY <1>4, <2>3 DEF h
<1> QED BY <1>3, <1>4

\* A message goes into the buffer; the oldest one may be dropped.
LEMMA BufferIs ==
  ASSUME NEW r \in Relays, NEW m \in Messages
  PROVE  LET q == Buffered(r, m)
         IN  /\ q \in Relays /\ q.sock = r.sock /\ q.current = r.current
             /\ q.partial = r.partial /\ q.watchdog = r.watchdog /\ q.said = r.said
             /\ q.open = r.open /\ q.answers = r.answers /\ q.heard = r.heard
             /\ \E d \in {0, 1} :
                  /\ Len(q.out) = Len(r.out) + 1 - d
                  /\ \A i \in 1..Len(q.out) :
                       q.out[i] = IF i + d = Len(r.out) + 1 THEN m ELSE r.out[i + d]
<1> DEFINE all == Append(r.out, m)
           o == IF Len(all) > OutCap THEN Tail(all) ELSE all
<1>1. r.out \in Seq(Messages) /\ Len(r.out) \in Nat
  BY DEF Relays
<1>2. /\ all \in Seq(Messages) /\ Len(all) = Len(r.out) + 1 /\ all # <<>>
      /\ \A i \in 1..Len(all) : all[i] = IF i = Len(r.out) + 1 THEN m ELSE r.out[i]
  BY <1>1
<1> HIDE DEF all
<1>3. /\ Tail(all) \in Seq(Messages) /\ Len(Tail(all)) = Len(r.out)
      /\ \A i \in 1..Len(Tail(all)) : Tail(all)[i] = all[i + 1] /\ i + 1 \in 1..Len(all)
  BY <1>1, <1>2
<1>4. o \in Seq(Messages)
  BY <1>2, <1>3
<1>5. \E d \in {0, 1} :
        /\ Len(o) = Len(r.out) + 1 - d
        /\ \A i \in 1..Len(o) : o[i] = IF i + d = Len(r.out) + 1 THEN m ELSE r.out[i + d]
  <2>1. CASE o = all
    BY <1>1, <1>2, <2>1
  <2>2. CASE o = Tail(all)
    BY <1>1, <1>2, <1>3, <2>2
  <2> QED BY <2>1, <2>2
<1>6. Buffered(r, m) = [r EXCEPT !.out = o]
  BY DEF Buffered, all
<1> HIDE DEF o
<1>7. LET q == Buffered(r, m)
      IN  /\ q \in Relays /\ q.sock = r.sock /\ q.current = r.current
          /\ q.partial = r.partial /\ q.watchdog = r.watchdog /\ q.said = r.said
          /\ q.open = r.open /\ q.answers = r.answers /\ q.heard = r.heard /\ q.out = o
  BY <1>4, <1>6 DEF Relays
<1> QED BY <1>5, <1>7

\* A message is heard now or goes into the buffer.
Sends(r, m, q) == q = Buffered(r, m) \/ (r.sock = "open" /\ q = Hears(r, m))

LEMMA SentIs == ASSUME NEW r, NEW m PROVE Sends(r, m, Sent(r, m))
BY DEF Sent, Sends

\* A chunk of the segment that is being spoken.
LEMMA ChunkFits ==
  ASSUME NEW r, NEW b \in Nat, NEW x, NEW car, VoiceIn(r, b, x, FALSE, car, TRUE), ~ x,
         r.current # NoSegment, NEW q, Sends(r, Chunk(b), q)
  PROVE  VoiceIn(q, b, x, FALSE, car, TRUE)
<1> DEFINE m == Chunk(b)
<1>1. m \in Messages /\ m.of = b /\ ~ m.commit
  BY DEF Chunk, Messages
<1>2. /\ r \in Relays /\ SockFits(r) /\ StampsFit(r, b) /\ NoneMissing(r, b, x \/ FALSE)
      /\ ~ car => WordsFit(r, x) /\ TalkFits(r, b)
  BY DEF VoiceIn
<1>3. r.out \in Seq(Messages) /\ Len(r.out) \in Nat /\ DOMAIN r.out = 1..Len(r.out)
  BY <1>2 DEF Relays
<1>a. Sends(r, m, q)
  OBVIOUS
<1> HIDE DEF m
<1>4. CASE r.sock = "open" /\ q = Hears(r, m)
  <2>1. q = Hears(r, m)
    BY <1>4
  <2>2. /\ q \in Relays /\ q.sock = r.sock /\ q.current = r.current /\ q.out = r.out
        /\ q.partial = r.partial /\ q.watchdog = r.watchdog /\ q.said = r.said
        /\ q.open = r.open /\ q.answers = r.answers /\ q.heard = r.heard \cup {b}
    BY <1>1, <1>2, <2>1, HearsIs
  <2>3. SockFits(q) /\ StampsFit(q, b) /\ NoneMissing(q, b, x \/ FALSE)
    BY <1>2, <1>4, <2>2 DEF SockFits, StampsFit, NoneMissing
  <2>4. ASSUME ~ car
        PROVE  TalkFits(q, b) /\ WordsFit(q, x)
    <3>1. WordsFit(r, x) /\ TalkFits(r, b)
      BY <1>2, <2>4
    <3>2. TalkFits(q, b)
      BY <2>2, <3>1 DEF TalkFits
    <3>3. q.heard \subseteq {q.current}
      BY <2>2, <3>1 DEF WordsFit, TalkFits
    <3>4. q.answers = <<>> /\ q.current # NoSegment
      BY <2>2, <3>1 DEF TalkFits
    <3>5. WordsFit(q, x)
      BY <2>2, <3>1, <3>3, <3>4 DEF WordsFit
    <3> QED BY <3>2, <3>5
  <2>5. VoiceIn(q, b, x, FALSE, car, TRUE)
    BY <2>2, <2>3, <2>4 DEF VoiceIn
  <2> QED BY <2>5
<1>5. CASE q = Buffered(r, m)
  <2>1. /\ q \in Relays /\ q.sock = r.sock /\ q.current = r.current
        /\ q.partial = r.partial /\ q.watchdog = r.watchdog /\ q.said = r.said
        /\ q.open = r.open /\ q.answers = r.answers /\ q.heard = r.heard
        /\ \E d \in {0, 1} :
             /\ Len(q.out) = Len(r.out) + 1 - d
             /\ \A i \in 1..Len(q.out) :
                  q.out[i] = IF i + d = Len(r.out) + 1 THEN m ELSE r.out[i + d]
    BY <1>1, <1>2, <1>5, BufferIs
  <2>2. SockFits(q) /\ StampsFit(q, b) /\ NoneMissing(q, b, x \/ FALSE)
    BY <1>2, <1>5, <2>1 DEF SockFits, StampsFit, NoneMissing
  <2>3. ASSUME ~ car
        PROVE  TalkFits(q, b) /\ WordsFit(q, x)
    <3>1. WordsFit(r, x) /\ TalkFits(r, b)
      BY <1>2, <2>3
    <3>2. DOMAIN q.out = 1..Len(q.out)
      BY <2>1 DEF Relays
    <3>3. \A i \in DOMAIN q.out : ~ q.out[i].commit /\ (q.current # NoSegment => q.out[i].of = q.current)
      <4>1. PICK d \in {0, 1} :
             /\ Len(q.out) = Len(r.out) + 1 - d
             /\ \A i \in 1..Len(q.out) :
                  q.out[i] = IF i + d = Len(r.out) + 1 THEN m ELSE r.out[i + d]
        BY <2>1
      <4>2. \A j \in DOMAIN r.out : ~ r.out[j].commit /\ (r.current # NoSegment => r.out[j].of = r.current)
        BY <3>1 DEF TalkFits, WordsFit
      <4>3. ASSUME NEW i \in 1..Len(q.out)
            PROVE  q.out[i] = m \/ \E j \in DOMAIN r.out : q.out[i] = r.out[j]
        <5>1. i + d = Len(r.out) + 1 \/ i + d \in DOMAIN r.out
          <6>1. Len(q.out) = Len(r.out) + 1 - d /\ d \in Nat /\ i \in Nat /\ i >= 1 /\ i <= Len(q.out)
            BY <1>3, <4>1
          <6> QED BY <1>3, <6>1
        <5>2. q.out[i] = IF i + d = Len(r.out) + 1 THEN m ELSE r.out[i + d]
          BY <4>1
        <5> QED BY <5>1, <5>2
      <4>4. r.current = b
        BY <3>1 DEF TalkFits
      <4> QED BY <1>1, <2>1, <3>2, <4>2, <4>3, <4>4
    <3>4. TalkFits(q, b)
      BY <2>1, <3>1, <3>3 DEF TalkFits
    <3> QED BY <2>1, <3>1, <3>3, <3>4 DEF WordsFit
  <2>4. VoiceIn(q, b, x, FALSE, car, TRUE)
    BY <2>1, <2>2, <2>3 DEF VoiceIn
  <2> QED BY <2>4
<1> QED BY <1>a, <1>4, <1>5 DEF Sends

\* The words of the segment are asked for.
LEMMA CommitFits ==
  ASSUME NEW r, NEW b \in Nat, NEW x, NEW car, NEW q \in Relays, NEW s,
         VoiceIn(r, b, x, FALSE, car, TRUE), r.current # NoSegment,
         Sends(r, Commit(b), s),
         q.sock = s.sock, q.current = s.current, q.out = s.out, q.heard = s.heard,
         q.answers = s.answers, q.partial = s.partial, q.said = s.said, q.open = s.open
  PROVE  VoiceIn(q, b, x, FALSE, car, FALSE)
<1> DEFINE m == Commit(b)
<1>1. m \in Messages /\ m.commit
  BY DEF Commit, Messages
<1>2. /\ r \in Relays /\ SockFits(r) /\ StampsFit(r, b) /\ NoneMissing(r, b, x \/ FALSE)
      /\ ~ car => WordsFit(r, x) /\ (~ x => TalkFits(r, b))
  BY DEF VoiceIn
<1>3. /\ r.out \in Seq(Messages) /\ Len(r.out) \in Nat /\ DOMAIN r.out = 1..Len(r.out)
      /\ r.answers \in Seq(SUBSET Nat) /\ r.heard \in SUBSET Nat
  BY <1>2 DEF Relays
<1>4. /\ q.sock = s.sock /\ q.current = s.current /\ q.out = s.out /\ q.heard = s.heard
      /\ q.answers = s.answers /\ q.partial = s.partial /\ q.said = s.said /\ q.open = s.open
  OBVIOUS
<1>a. Sends(r, m, s)
  OBVIOUS
<1> HIDE DEF m
<1>5. CASE r.sock = "open" /\ s = Hears(r, m)
  <2>1. s = Hears(r, m)
    BY <1>5
  <2>2. /\ s.sock = r.sock /\ s.current = r.current /\ s.out = r.out
        /\ s.partial = r.partial /\ s.said = r.said
        /\ s.open = r.open /\ s.answers = Append(r.answers, r.heard) /\ s.heard = {}
    BY <1>1, <1>2, <2>1, HearsIs
  <2>3. SockFits(q) /\ StampsFit(q, b) /\ NoneMissing(q, b, x \/ FALSE)
    BY <1>2, <1>4, <1>5, <2>2 DEF SockFits, StampsFit, NoneMissing
  <2>4. ASSUME ~ car
        PROVE  WordsFit(q, x)
    <3>1. WordsFit(r, x) /\ (~ x => r.answers = <<>>)
      BY <1>2, <2>4 DEF TalkFits
    <3>2. /\ Len(q.answers) = Len(r.answers) + 1 /\ Len(r.answers) \in Nat
          /\ DOMAIN q.answers = 1..(Len(r.answers) + 1) /\ DOMAIN r.answers = 1..Len(r.answers)
          /\ \A k \in 1..Len(r.answers) : q.answers[k] = r.answers[k]
          /\ q.answers[Len(r.answers) + 1] = r.heard
      BY <1>3, <1>4, <2>2
    <3>3. ASSUME NEW k \in DOMAIN q.answers
          PROVE  q.answers[k] \subseteq {q.current} /\ (k > 1 => q.answers[k] = {})
      <4>1. CASE k \in 1..Len(r.answers)
        BY <1>4, <2>2, <3>1, <3>2, <4>1 DEF WordsFit
      <4>2. CASE k = Len(r.answers) + 1
        <5>1. q.answers[k] \subseteq {q.current}
          BY <1>4, <2>2, <3>1, <3>2, <4>2 DEF WordsFit
        <5>2. ASSUME k > 1
              PROVE  q.answers[k] = {}
          <6>1. Len(r.answers) >= 1
            BY <3>2, <4>2, <5>2
          <6>2. r.answers # <<>>
            BY <6>1
          <6> QED BY <3>1, <3>2, <4>2, <6>2 DEF WordsFit
        <5> QED BY <5>1, <5>2
      <4> QED BY <3>2, <4>1, <4>2
    <3>4. ASSUME Len(q.answers) >= 2
          PROVE  x
      BY <3>1, <3>2, <3>4
    <3>5. q.current # NoSegment /\ q.heard = {} /\ q.partial = r.partial /\ q.current = r.current
          /\ q.said = r.said /\ q.out = r.out
      BY <1>4, <2>2
    <3> QED BY <3>1, <3>3, <3>4, <3>5 DEF WordsFit
  <2> QED BY <2>3, <2>4 DEF VoiceIn
<1>6. CASE s = Buffered(r, m)
  <2>1. /\ s.sock = r.sock /\ s.current = r.current
        /\ s.partial = r.partial /\ s.said = r.said
        /\ s.open = r.open /\ s.answers = r.answers /\ s.heard = r.heard
        /\ \E d \in {0, 1} :
             /\ Len(s.out) = Len(r.out) + 1 - d
             /\ \A i \in 1..Len(s.out) :
                  s.out[i] = IF i + d = Len(r.out) + 1 THEN m ELSE r.out[i + d]
    BY <1>1, <1>2, <1>6, BufferIs
  <2>2. SockFits(q) /\ StampsFit(q, b) /\ NoneMissing(q, b, x \/ FALSE)
    BY <1>2, <1>4, <1>6, <2>1 DEF SockFits, StampsFit, NoneMissing
  <2>3. ASSUME ~ car
        PROVE  WordsFit(q, x)
    <3>1. WordsFit(r, x) /\ (~ x => \A i \in DOMAIN r.out : ~ r.out[i].commit)
      BY <1>2, <2>3 DEF TalkFits
    <3>2. PICK d \in {0, 1} :
             /\ Len(q.out) = Len(r.out) + 1 - d
             /\ \A i \in 1..Len(q.out) :
                  q.out[i] = IF i + d = Len(r.out) + 1 THEN m ELSE r.out[i + d]
      BY <1>4, <2>1
    <3>3. DOMAIN q.out = 1..Len(q.out) /\ d \in Nat
      BY DEF Relays
    <3>4. ASSUME NEW i \in DOMAIN q.out
          PROVE  \/ i + d = Len(r.out) + 1 /\ q.out[i] = m
                 \/ i + d \in DOMAIN r.out /\ q.out[i] = r.out[i + d]
      <4>1. Len(q.out) = Len(r.out) + 1 - d /\ d \in Nat /\ i \in Nat /\ i >= 1 /\ i <= Len(q.out)
        BY <1>3, <3>2, <3>3
      <4>2. i + d = Len(r.out) + 1 \/ i + d \in DOMAIN r.out
        BY <1>3, <4>1
      <4>3. q.out[i] = IF i + d = Len(r.out) + 1 THEN m ELSE r.out[i + d]
        BY <3>2, <3>3
      <4>4. i + d \in DOMAIN r.out => i + d # Len(r.out) + 1
        BY <1>3
      <4> QED BY <4>2, <4>3, <4>4
    <3>5. \A i \in DOMAIN q.out : ~ q.out[i].commit => q.out[i].of = q.current
      BY <1>1, <1>4, <2>1, <3>1, <3>4 DEF WordsFit
    <3>6. ASSUME NEW i \in DOMAIN q.out, NEW j \in DOMAIN q.out, i < j, q.out[i].commit
          PROVE  q.out[j].commit /\ x
      <4>1. i + d < j + d /\ i + d \in Nat /\ j + d \in Nat /\ i + d # Len(r.out) + 1
        <5>1. i \in Nat /\ j \in Nat /\ j <= Len(q.out) /\ Len(q.out) \in Nat
          BY <1>3, <3>2, <3>3
        <5> QED BY <1>3, <3>2, <3>3, <3>6, <5>1
      <4>2. i + d \in DOMAIN r.out /\ q.out[i] = r.out[i + d]
        BY <3>4, <4>1
      <4>3. x
        BY <3>1, <3>6, <4>2
      <4>4. CASE q.out[j] = m
        BY <1>1, <4>3, <4>4
      <4>5. CASE j + d \in DOMAIN r.out /\ q.out[j] = r.out[j + d]
        BY <3>1, <3>6, <4>1, <4>2, <4>5 DEF WordsFit
      <4> QED BY <3>4, <4>4, <4>5
    <3>7. q.answers = r.answers /\ q.heard = r.heard /\ q.partial = r.partial /\ q.said = r.said
          /\ q.current = r.current
      BY <1>4, <2>1
    <3> QED BY <3>1, <3>5, <3>6, <3>7 DEF WordsFit
  <2> QED BY <2>2, <2>3 DEF VoiceIn
<1> QED BY <1>a, <1>5, <1>6 DEF Sends

\* What the service knows after n messages of a buffer that waited for it.
HeardIs(r, q, n, x) ==
  /\ q \in Relays /\ q.sock = r.sock /\ q.current = r.current /\ q.out = r.out
  /\ q.partial = r.partial /\ q.watchdog = r.watchdog /\ q.said = r.said /\ q.open = r.open
  /\ WordsFit(r, x) =>
       /\ q.heard \subseteq {r.current}
       /\ \A k \in DOMAIN q.answers : q.answers[k] \subseteq {r.current} /\ (k > 1 => q.answers[k] = {})
       /\ q.answers # <<>> => q.heard = {} /\ \E k \in 1..n : r.out[k].commit
       /\ Len(q.answers) >= 2 => x

\* One message more.
LEMMA HearsNext ==
  ASSUME NEW r \in Relays, NEW x, r.current # NoSegment, NEW n \in 1..Len(r.out), NEW q,
         HeardIs(r, q, n - 1, x)
  PROVE  HeardIs(r, Hears(q, r.out[n]), n, x)
<1> DEFINE m == r.out[n]
           p == Hears(q, m)
<1>1. r.out \in Seq(Messages) /\ DOMAIN r.out = 1..Len(r.out) /\ Len(r.out) \in Nat /\ n \in Nat
  BY DEF Relays
<1>2. m \in Messages /\ q \in Relays
  BY <1>1 DEF HeardIs
<1>3. /\ p \in Relays /\ p.sock = q.sock /\ p.current = q.current /\ p.out = q.out
      /\ p.partial = q.partial /\ p.watchdog = q.watchdog /\ p.said = q.said
      /\ p.open = q.open
      /\ m.commit => p.answers = Append(q.answers, q.heard) /\ p.heard = {}
      /\ ~ m.commit => p.answers = q.answers /\ p.heard = q.heard \cup {m.of}
  BY <1>2, HearsIs
<1>4. q.answers \in Seq(SUBSET Nat)
  BY <1>2 DEF Relays
<1> HIDE DEF p
<1>5. ASSUME WordsFit(r, x)
      PROVE  /\ p.heard \subseteq {r.current}
             /\ \A k \in DOMAIN p.answers : p.answers[k] \subseteq {r.current} /\ (k > 1 => p.answers[k] = {})
             /\ p.answers # <<>> => p.heard = {} /\ \E k \in 1..n : r.out[k].commit
             /\ Len(p.answers) >= 2 => x
  <2>1. /\ q.heard \subseteq {r.current}
        /\ \A k \in DOMAIN q.answers : q.answers[k] \subseteq {r.current} /\ (k > 1 => q.answers[k] = {})
        /\ q.answers # <<>> => q.heard = {} /\ \E k \in 1..(n - 1) : r.out[k].commit
        /\ Len(q.answers) >= 2 => x
    BY <1>5 DEF HeardIs
  <2>2. ASSUME q.answers # <<>>
        PROVE  m.commit /\ x
    <3>1. PICK k \in 1..(n - 1) : r.out[k].commit
      BY <2>1, <2>2
    <3>2. k \in DOMAIN r.out /\ n \in DOMAIN r.out /\ k < n
      BY <1>1, <3>1
    <3> QED BY <1>5, <3>1, <3>2 DEF WordsFit
  <2>3. CASE ~ m.commit
    <3>1. q.answers = <<>> /\ p.answers = <<>>
      BY <1>3, <2>2, <2>3
    <3>2. m.of = r.current
      BY <1>1, <1>5, <2>3 DEF WordsFit
    <3> QED BY <1>3, <2>1, <2>3, <3>1, <3>2
  <2>4. CASE m.commit
    <3> DEFINE l == Len(q.answers)
    <3>1. /\ l \in Nat /\ Len(p.answers) = l + 1 /\ DOMAIN p.answers = 1..(l + 1)
          /\ DOMAIN q.answers = 1..l
          /\ \A k \in 1..l : p.answers[k] = q.answers[k]
          /\ p.answers[l + 1] = q.heard
      BY <1>3, <1>4, <2>4
    <3>2. l >= 1 => q.answers # <<>>
      OBVIOUS
    <3> HIDE DEF l
    <3>3. ASSUME NEW k \in DOMAIN p.answers
          PROVE  p.answers[k] \subseteq {r.current} /\ (k > 1 => p.answers[k] = {})
      <4>1. CASE k \in 1..l
        BY <2>1, <3>1, <4>1
      <4>2. CASE k = l + 1
        <5>1. k > 1 => q.heard = {}
          BY <2>1, <3>1, <3>2, <4>2
        <5> QED BY <2>1, <3>1, <4>2, <5>1
      <4> QED BY <3>1, <4>1, <4>2
    <3>4. Len(p.answers) >= 2 => x
      BY <2>2, <3>1, <3>2
    <3>5. n \in 1..n
      BY <1>1
    <3>6. \E k \in 1..n : r.out[k].commit
      BY <2>4, <3>5
    <3> QED BY <1>3, <2>4, <3>3, <3>4, <3>6
  <2> QED BY <2>3, <2>4
<1>6. HeardIs(r, p, n, x)
  BY <1>3, <1>5 DEF HeardIs
<1> QED BY <1>6 DEF p

\* The buffer is heard message by message.
LEMMA HeardInTurn ==
  ASSUME NEW r \in Relays, NEW n \in 0..Len(r.out)
  PROVE  \E a : /\ HearsFirst(r, n) = a[n]
                /\ a[0] = r /\ \A i \in 1..n : a[i] = Hears(a[i - 1], r.out[i])
<1> DEFINE step == [p \in Relays \X (1..n) |-> Hears(p[1], r.out[p[2]])]
           body(g) == [i \in 0..n |-> IF i = 0 THEN r ELSE Hears(g[i - 1], r.out[i])]
           a == CHOOSE g : g = body(g)
<1>0. n \in Nat /\ \A i \in 1..n : r.out[i] \in Messages
  BY DEF Relays
<1>1. ASSUME NEW p \in Relays, NEW i \in 1..n
      PROVE  Hears(p, r.out[i]) \in Relays
  BY <1>0, HearsIs
<1>2. step \in [Relays \X (1..n) -> Relays]
  BY <1>1
<1>3. PICK f : IteratesTo(f, n, Relays, r, step)
  <2> HIDE DEF step
  <2> QED BY <1>0, <1>2, Iterates
<1>4. ASSUME NEW g, g \in [0..n -> Relays], NEW i \in 1..n
      PROVE  step[<<g[i - 1], i>>] = Hears(g[i - 1], r.out[i])
  <2>1. g[i - 1] \in Relays
    BY <1>0, <1>4
  <2> QED BY <2>1
<1>5. f = body(f)
  <2>1. f \in [0..n -> Relays] /\ f[0] = r
    BY <1>3 DEF IteratesTo
  <2>2. \A i \in 1..n : f[i] = Hears(f[i - 1], r.out[i])
    <3> HIDE DEF step
    <3> QED BY <1>3, <1>4 DEF IteratesTo
  <2> HIDE DEF step
  <2> QED BY <1>0, <2>1, <2>2
<1>6. a = body(a)
  <2> HIDE DEF body
  <2> QED BY <1>5, Zenon
<1>7. HearsFirst(r, n) = a[n]
  BY DEF HearsFirst
<1> HIDE DEF a
<1>8. a[0] = r /\ \A i \in 1..n : a[i] = Hears(a[i - 1], r.out[i])
  <2>1. \A i \in 0..n : a[i] = IF i = 0 THEN r ELSE Hears(a[i - 1], r.out[i])
    BY <1>6
  <2>2. a[0] = r
    <3>1. 0 \in 0..n
      BY <1>0
    <3>2. 0 = 0 => a[0] = r
      BY <2>1, <3>1, Zenon
    <3> QED BY <3>2
  <2>3. ASSUME NEW i \in 1..n
        PROVE  a[i] = Hears(a[i - 1], r.out[i])
    <3>1. i \in 0..n /\ i # 0
      BY <1>0
    <3> QED BY <2>1, <3>1, Zenon
  <2> QED BY <2>2, <2>3
<1> QED BY <1>7, <1>8

\* And after the first n.
LEMMA FirstAreHeard ==
  ASSUME NEW r \in Relays, NEW x, r.current # NoSegment, r.heard = {}, r.answers = <<>>,
         NEW n \in 0..Len(r.out)
  PROVE  HeardIs(r, HearsFirst(r, n), n, x)
<1>0. n \in Nat /\ Len(r.out) \in Nat
  BY DEF Relays
<1>7. PICK a : /\ HearsFirst(r, n) = a[n]
               /\ a[0] = r /\ \A i \in 1..n : a[i] = Hears(a[i - 1], r.out[i])
  BY HeardInTurn
<1>8. a[0] = r /\ \A i \in 1..n : a[i] = Hears(a[i - 1], r.out[i])
  BY <1>7
<1>9. HeardIs(r, a[n], n, x)
  <2> DEFINE G == {i \in 0..n : HeardIs(r, a[i], i, x)}
  <2>1. 0 \in G
    <3>1. HeardIs(r, r, 0, x)
      BY DEF HeardIs
    <3> QED BY <1>0, <1>8, <3>1
  <2>2. ASSUME NEW i \in 1..n, i - 1 \in G
        PROVE  i \in G
    <3>1. HeardIs(r, a[i - 1], i - 1, x)
      BY <2>2
    <3>2. HeardIs(r, Hears(a[i - 1], r.out[i]), i, x)
      <4>1. i \in 1..Len(r.out)
        BY <1>0
      <4> QED BY <3>1, <4>1, HearsNext
    <3> QED BY <1>0, <1>8, <3>2
  <2>3. 0..n \subseteq G
    <3> HIDE DEF G
    <3> QED BY <1>0, <2>1, <2>2, Upward
  <2>4. n \in 0..n
    BY <1>0
  <2> QED BY <2>3, <2>4
<1> QED BY <1>7, <1>9

\* What is left of the buffer.
LEMMA RestIs ==
  ASSUME NEW s \in Seq(Messages), NEW n \in 0..Len(s)
  PROVE  LET o == SubSeq(s, n + 1, Len(s))
         IN  /\ o \in Seq(Messages) /\ DOMAIN o = 1..Len(o) /\ Len(o) = Len(s) - n
             /\ \A i \in 1..Len(o) : i + n \in DOMAIN s /\ o[i] = s[i + n]
<1> DEFINE l == Len(s)
           o == SubSeq(s, n + 1, l)
<1>1. l \in Nat /\ DOMAIN s = 1..l /\ n \in Nat /\ n <= l
  OBVIOUS
<1>2. \A i \in (n + 1)..l : s[i] \in Messages
  BY <1>1
<1> HIDE DEF l
<1>3. /\ o \in Seq(Messages) /\ Len(o) = IF n + 1 <= l THEN l - (n + 1) + 1 ELSE 0
      /\ \A i \in 1..(l - (n + 1) + 1) : o[i] = s[(n + 1) + i - 1]
  <2>1. n + 1 \in Int /\ l \in Int
    BY <1>1
  <2> QED BY <1>2, <2>1, SubSeqProperties
<1>4. DOMAIN o = 1..Len(o)
  BY <1>3
<1> HIDE DEF o
<1>5. Len(o) = l - n /\ l - (n + 1) + 1 = l - n
  BY <1>1, <1>3
<1>6. ASSUME NEW i \in 1..Len(o)
      PROVE  i + n \in DOMAIN s /\ o[i] = s[i + n]
  <2>1. i \in 1..(l - (n + 1) + 1) /\ (n + 1) + i - 1 = i + n /\ i + n \in 1..l
    BY <1>1, <1>5
  <2> QED BY <1>1, <1>3, <2>1
<1> QED BY <1>3, <1>4, <1>5, <1>6 DEF o, l

\* A new segment begins.
LEMMA SpeechStartsKeeps == ASSUME VoiceInv, SpeechStarts PROVE VoiceInv'
<1> DEFINE s == began + 1
           talking == mic.phase = "speaking"
<1>1. /\ mic \in Mics /\ began \in Nat /\ spent \in Nat
      /\ VoiceIn(relay, began, exhausted, voiceClosed, carried, talking)
  BY DEF VoiceInv, Mics
<1>2. /\ began' = s /\ mic' = [mic EXCEPT !.phase = "speaking"] /\ OnSpeechStart(s)
      /\ UNCHANGED <<spent, voiceClosed>>
  BY DEF SpeechStarts
<1>3. mic' \in Mics /\ s \in Nat /\ exhausted' = exhausted
  BY <1>1, <1>2 DEF Mics, exhausted
<1>4. /\ relay \in Relays /\ SockFits(relay) /\ StampsFit(relay, began)
      /\ NoneMissing(relay, began, exhausted \/ voiceClosed)
      /\ ~ carried => WordsFit(relay, exhausted)
  BY <1>1 DEF VoiceIn
<1>5. relay.current \in Nat /\ \A i \in DOMAIN relay.said : relay.said[i].stamp \in Nat
  BY <1>4, RelayIs
<1> HIDE DEF talking
<1>6. CASE voiceClosed \/ exhausted
  <2>1. relay' = relay /\ carried' = carried
    BY <1>2, <1>6 DEF OnSpeechStart
  <2>2. StampsFit(relay, s)
    BY <1>1, <1>4, <1>5 DEF StampsFit
  <2>3. NoneMissing(relay, s, exhausted \/ voiceClosed)
    BY <1>6 DEF NoneMissing
  <2>4. VoiceIn(relay, s, exhausted, voiceClosed, carried, mic'.phase = "speaking")
    BY <1>4, <1>6, <2>2, <2>3 DEF VoiceIn
  <2> QED BY <1>1, <1>2, <1>3, <2>1, <2>4 DEF VoiceInv, Mics
<1>7. CASE ~ (voiceClosed \/ exhausted)
  <2> DEFINE f == flushUntranscribed(relay)
             started == [f EXCEPT !.current = s, !.partial = {}, !.open = @ + 1]
             q == Cut(started)
  <2>1. /\ f \in Relays /\ f.current = NoSegment /\ f.out = relay.out /\ ~ f.watchdog
    BY <1>4, FlushIs
  <2>2. StampsFit(f, began) /\ NoneMissing(f, began, exhausted \/ voiceClosed)
    BY <1>1, <1>4, FlushFits
  <2>3. ~ carried => \A i \in DOMAIN f.said :
          f.said[i].words \subseteq {f.said[i].stamp} /\ (f.said[i].stamp # NoSegment \/ exhausted)
    BY <1>4, FlushWords
  <2>4. f.open \in Nat /\ f.open <= 0 /\ \A i \in DOMAIN f.said : f.said[i].stamp \in Nat
    BY <2>1, <2>2, RelayIs DEF StampsFit
  <2>5. /\ carried' = (carried \/ relay.out # <<>>)
        /\ relay' = [q EXCEPT !.sock = "connecting"] \/ relay' = q
    BY <1>2, <1>7 DEF OnSpeechStart
  <2> HIDE DEF f
  <2>6. /\ started \in Relays /\ started.current = s /\ started.out = f.out /\ started.partial = {}
        /\ started.said = f.said /\ started.open = f.open + 1 /\ ~ started.watchdog
    <3> DEFINE o == f.open + 1
    <3>1. o \in Nat /\ s \in Nat /\ {} \in SUBSET Nat
      BY <1>3, <2>4
    <3>2. started = [f EXCEPT !.current = s, !.partial = {}, !.open = o]
      OBVIOUS
    <3> HIDE DEF o, s, started
    <3>3. /\ started \in Relays /\ started.current = s /\ started.out = f.out /\ started.partial = {}
          /\ started.said = f.said /\ started.open = o /\ started.watchdog = f.watchdog
      BY <2>1, <3>1, <3>2 DEF Relays
    <3> QED BY <2>1, <3>3 DEF o
  <2> HIDE DEF started
  <2>7. /\ q \in Relays /\ q.sock = "none" /\ q.heard = {} /\ q.answers = <<>>
        /\ q.current = s /\ q.out = f.out /\ q.partial = {}
        /\ ~ q.watchdog /\ q.said = f.said /\ q.open = f.open + 1
    BY <2>6, CutIs
  <2> HIDE DEF q
  <2>8. /\ relay' \in Relays /\ relay'.sock \in {"none", "connecting"} /\ relay'.heard = {}
        /\ relay'.answers = <<>> /\ relay'.current = s /\ relay'.out = relay.out
        /\ relay'.partial = {} /\ ~ relay'.watchdog /\ relay'.said = f.said
        /\ relay'.open = f.open + 1
    BY <2>1, <2>5, <2>7 DEF Relays
  <2>9. s # NoSegment /\ s > began
    BY <1>1 DEF NoSegment
  <2>10. SockFits(relay')
    BY <2>8, <2>9 DEF SockFits
  <2>11. StampsFit(relay', s)
    BY <1>1, <1>3, <2>2, <2>4, <2>8, <2>9 DEF StampsFit
  <2>12. NoneMissing(relay', s, exhausted \/ voiceClosed)
    BY <1>1, <2>1, <2>2, <2>8 DEF NoneMissing, NoSegment
  <2>13. ASSUME ~ carried'
         PROVE  WordsFit(relay', exhausted) /\ TalkFits(relay', s)
    <3>1. relay.out = <<>> /\ ~ carried
      BY <2>5, <2>13
    <3> QED BY <2>3, <2>8, <2>9, <3>1 DEF WordsFit, TalkFits
  <2>14. VoiceIn(relay', s, exhausted, voiceClosed, carried', mic'.phase = "speaking")
    BY <2>8, <2>10, <2>11, <2>12, <2>13 DEF VoiceIn
  <2> QED BY <1>1, <1>2, <1>3, <2>14 DEF VoiceInv, Mics
<1> QED BY <1>6, <1>7

\* A chunk of sound.
LEMMA SpeaksKeeps == ASSUME VoiceInv, Speaks PROVE VoiceInv'
<1>1. /\ mic.phase = "speaking" /\ OnAudio(began)
      /\ UNCHANGED <<mic, began, carried, voiceClosed>>
      /\ began \in Nat /\ spent \in Nat
      /\ VoiceIn(relay, began, exhausted, voiceClosed, carried, TRUE)
  BY DEF Speaks, VoiceInv
<1>2. CASE UNCHANGED <<relay, spent>>
  <2>1. VoiceIn(relay', began', exhausted', voiceClosed', carried', mic'.phase = "speaking")
    BY <1>1, <1>2 DEF exhausted
  <2> QED BY <1>1, <1>2, <2>1 DEF VoiceInv
<1>3. CASE ~ UNCHANGED <<relay, spent>>
  <2>1. /\ ~ voiceClosed /\ ~ exhausted /\ relay.current # NoSegment
        /\ spent' = spent + 1 /\ Sends(relay, Chunk(began), relay')
    BY <1>1, <1>3, SentIs DEF OnAudio, SendThrows, Sends
  <2>2. VoiceIn(relay, began, exhausted, FALSE, carried, TRUE)
    BY <1>1, <2>1 DEF VoiceIn, NoneMissing
  <2>3. VoiceIn(relay', began, exhausted, FALSE, carried, TRUE)
    BY <1>1, <2>1, <2>2, ChunkFits
  <2>4. VoiceIn(relay', began', exhausted', voiceClosed', carried', mic'.phase = "speaking")
    <3>1. WordsFit(relay', exhausted) => WordsFit(relay', exhausted')
      BY <2>1 DEF WordsFit
    <3>2. NoneMissing(relay', began, exhausted' \/ voiceClosed)
      BY <2>1, <2>3 DEF VoiceIn, NoneMissing
    <3>3. /\ relay' \in Relays /\ SockFits(relay') /\ StampsFit(relay', began)
          /\ ~ carried => WordsFit(relay', exhausted) /\ TalkFits(relay', began)
      BY <2>1, <2>3 DEF VoiceIn
    <3>4. VoiceIn(relay', began, exhausted', voiceClosed, carried, mic'.phase = "speaking")
      BY <3>1, <3>2, <3>3 DEF VoiceIn
    <3> QED BY <1>1, <3>4
  <2> QED BY <1>1, <2>1, <2>4 DEF VoiceInv
<1> QED BY <1>2, <1>3

\* A segment is over.
LEMMA SpeechEndsKeeps == ASSUME VoiceInv, SpeechEnds PROVE VoiceInv'
<1>1. /\ mic.phase = "speaking" /\ OnSpeechEnd(began)
      /\ UNCHANGED <<began, spent, carried, voiceClosed>>
      /\ began \in Nat /\ spent \in Nat /\ mic \in Mics
      /\ VoiceIn(relay, began, exhausted, voiceClosed, carried, TRUE)
  BY DEF SpeechEnds, VoiceInv
<1>2. mic' \in Mics /\ mic'.phase = "idle"
  BY <1>1 DEF SpeechEnds, Mics
<1>3. exhausted' = exhausted /\ relay \in Relays /\ SockFits(relay)
  BY <1>1 DEF exhausted, VoiceIn
<1>4. VoiceIn(relay', began, exhausted, voiceClosed, carried, FALSE)
  <2>1. CASE voiceClosed \/ relay.current = NoSegment
    <3>1. relay' = relay
      BY <1>1, <2>1 DEF OnSpeechEnd
    <3> QED BY <1>1, <3>1 DEF VoiceIn
  <2>2. CASE ~ (voiceClosed \/ relay.current = NoSegment) /\ relay.sock = "none"
    <3>1. relay' = flushUntranscribed(relay)
      BY <1>1, <2>2 DEF OnSpeechEnd
    <3>2. relay' \in Relays /\ relay'.sock = "none" /\ relay'.heard = {} /\ relay'.answers = <<>>
      BY <1>3, <2>2, <3>1, FlushIs DEF SockFits
    <3> QED BY <1>1, <2>2, <3>1, <3>2, FlushCutFits
  <2>3. CASE ~ (voiceClosed \/ relay.current = NoSegment) /\ relay.sock # "none"
    <3>1. PICK q : Sends(relay, Commit(began), q) /\ relay' = [q EXCEPT !.watchdog = TRUE]
      <4>1. \/ relay' = [Sent(relay, Commit(began)) EXCEPT !.watchdog = TRUE]
            \/ relay' = [Buffered(relay, Commit(began)) EXCEPT !.watchdog = TRUE]
        BY <1>1, <2>3 DEF OnSpeechEnd
      <4> QED BY <4>1, SentIs DEF Sends
    <3>2. q \in Relays
      <4>1. Commit(began) \in Messages
        BY <1>1 DEF Commit, Messages
      <4>2. CASE q = Hears(relay, Commit(began))
        BY <1>3, <4>1, <4>2, HearsIs
      <4>3. CASE q = Buffered(relay, Commit(began))
        BY <1>3, <4>1, <4>3, BufferIs
      <4> QED BY <3>1, <4>2, <4>3 DEF Sends
    <3>3. /\ relay' \in Relays /\ relay'.sock = q.sock /\ relay'.current = q.current
          /\ relay'.out = q.out /\ relay'.heard = q.heard /\ relay'.answers = q.answers
          /\ relay'.partial = q.partial /\ relay'.said = q.said /\ relay'.open = q.open
      BY <3>1, <3>2 DEF Relays
    <3>4. VoiceIn(relay, began, exhausted, FALSE, carried, TRUE) /\ relay.current # NoSegment
          /\ ~ voiceClosed
      BY <1>1, <2>3 DEF VoiceIn, NoneMissing
    <3>5. VoiceIn(relay', began, exhausted, FALSE, carried, FALSE)
      BY <1>1, <3>1, <3>3, <3>4, CommitFits
    <3> QED BY <3>4, <3>5 DEF VoiceIn, NoneMissing
  <2> QED BY <2>1, <2>2, <2>3
<1>5. VoiceIn(relay', began', exhausted', voiceClosed', carried', mic'.phase = "speaking")
  BY <1>1, <1>2, <1>3, <1>4
<1> QED BY <1>1, <1>2, <1>5 DEF VoiceInv, Mics

\* The socket opens.
LEMMA SocketOpensKeeps == ASSUME VoiceInv, Opens PROVE VoiceInv'
<1> DEFINE talking == mic.phase = "speaking"
<1>0. PICK n \in 0..Len(relay.out) :
        relay' = [HearsFirst(relay, n) EXCEPT !.sock = "open",
                                              !.out = SubSeq(relay.out, n + 1, Len(relay.out))]
  BY DEF Opens
<1> DEFINE q == HearsFirst(relay, n)
           o == SubSeq(relay.out, n + 1, Len(relay.out))
<1>1. /\ relay.sock = "connecting" /\ relay' = [q EXCEPT !.sock = "open", !.out = o]
      /\ UNCHANGED <<mic, began, spent, carried, voiceClosed>>
      /\ VoiceIn(relay, began, exhausted, voiceClosed, carried, talking)
  BY <1>0 DEF Opens, VoiceInv
<1>2. /\ relay \in Relays /\ SockFits(relay) /\ StampsFit(relay, began)
      /\ NoneMissing(relay, began, exhausted \/ voiceClosed)
      /\ ~ carried => WordsFit(relay, exhausted) /\ (talking /\ ~ exhausted /\ ~ voiceClosed => TalkFits(relay, began))
  BY <1>1 DEF VoiceIn
<1>3. relay.current # NoSegment /\ relay.heard = {} /\ relay.answers = <<>>
  BY <1>1, <1>2 DEF SockFits
<1>4. HeardIs(relay, q, n, exhausted)
  BY <1>2, <1>3, FirstAreHeard
<1>a. /\ o \in Seq(Messages) /\ DOMAIN o = 1..Len(o)
      /\ \A i \in 1..Len(o) : i + n \in DOMAIN relay.out /\ o[i] = relay.out[i + n]
  <2>1. relay.out \in Seq(Messages)
    BY <1>2 DEF Relays
  <2> QED BY <2>1, RestIs
<1>b. DOMAIN relay.out = 1..Len(relay.out) /\ Len(relay.out) \in Nat /\ n \in Nat /\ n <= Len(relay.out)
      /\ Len(o) \in Nat
  <2>1. DOMAIN relay.out = 1..Len(relay.out) /\ Len(relay.out) \in Nat
    BY <1>2 DEF Relays
  <2> QED BY <1>a, <2>1
<1> HIDE DEF q, o, talking
<1>5. /\ relay' \in Relays /\ relay'.sock = "open" /\ relay'.out = o
      /\ relay'.current = relay.current /\ relay'.partial = relay.partial
      /\ relay'.watchdog = relay.watchdog /\ relay'.said = relay.said /\ relay'.open = relay.open
      /\ relay'.heard = q.heard /\ relay'.answers = q.answers
  <2>1. q \in Relays /\ o \in Seq(Messages)
    BY <1>4, <1>a DEF HeardIs
  <2>2. /\ relay' \in Relays /\ relay'.sock = "open" /\ relay'.out = o
        /\ relay'.current = q.current /\ relay'.partial = q.partial
        /\ relay'.watchdog = q.watchdog /\ relay'.said = q.said /\ relay'.open = q.open
        /\ relay'.heard = q.heard /\ relay'.answers = q.answers
    BY <1>1, <2>1 DEF Relays
  <2> QED BY <1>4, <2>2 DEF HeardIs
<1>6. SockFits(relay') /\ StampsFit(relay', began) /\ NoneMissing(relay', began, exhausted \/ voiceClosed)
  BY <1>2, <1>3, <1>5 DEF SockFits, StampsFit, NoneMissing
<1>7. ASSUME ~ carried
      PROVE  WordsFit(relay', exhausted)
  <2>1. WordsFit(relay, exhausted)
    BY <1>2, <1>7
  <2>2. /\ q.heard \subseteq {relay.current}
        /\ \A k \in DOMAIN q.answers : q.answers[k] \subseteq {relay.current} /\ (k > 1 => q.answers[k] = {})
        /\ q.answers # <<>> => q.heard = {}
        /\ Len(q.answers) >= 2 => exhausted
    BY <1>4, <2>1 DEF HeardIs
  <2>3. \A i \in DOMAIN o : relay.current # NoSegment /\ ~ o[i].commit => o[i].of = relay.current
    BY <1>a, <2>1 DEF WordsFit
  <2>4. ASSUME NEW i \in DOMAIN o, NEW j \in DOMAIN o, i < j, o[i].commit
        PROVE  o[j].commit /\ exhausted
    <3>1. i + n \in DOMAIN relay.out /\ j + n \in DOMAIN relay.out /\ i + n < j + n
          /\ o[i] = relay.out[i + n] /\ o[j] = relay.out[j + n]
      BY <1>a, <1>b, <2>4
    <3> QED BY <2>1, <2>4, <3>1 DEF WordsFit
  <2> QED BY <1>3, <1>5, <2>1, <2>2, <2>3, <2>4 DEF WordsFit
<1>8. ASSUME ~ carried, talking, ~ exhausted, ~ voiceClosed
      PROVE  TalkFits(relay', began)
  <2>1. WordsFit(relay, exhausted) /\ TalkFits(relay, began)
    BY <1>2, <1>8
  <2>2. q.answers # <<>> => \E k \in 1..n : relay.out[k].commit
    BY <1>4, <2>1 DEF HeardIs
  <2>4. q.answers = <<>>
    <3>1. \A k \in 1..n : k \in DOMAIN relay.out
      BY <1>b
    <3> QED BY <2>1, <2>2, <3>1 DEF TalkFits
  <2>5. \A i \in DOMAIN o : ~ o[i].commit
    BY <1>a, <2>1 DEF TalkFits
  <2> QED BY <1>5, <2>1, <2>4, <2>5 DEF TalkFits
<1>9. VoiceIn(relay', began, exhausted, voiceClosed, carried, talking)
  BY <1>5, <1>6, <1>7, <1>8 DEF VoiceIn
<1>10. VoiceIn(relay', began', exhausted', voiceClosed', carried', mic'.phase = "speaking")
  BY <1>1, <1>9 DEF exhausted, talking
<1> QED BY <1>1, <1>10 DEF VoiceInv

\* Words as they come.
LEMMA SendsPartialKeeps == ASSUME VoiceInv, SendsPartial PROVE VoiceInv'
<1> DEFINE talking == mic.phase = "speaking"
<1>1. /\ relay.sock = "open" /\ relay' = [relay EXCEPT !.partial = relay.heard]
      /\ UNCHANGED <<mic, began, spent, carried, voiceClosed>>
      /\ VoiceIn(relay, began, exhausted, voiceClosed, carried, talking)
  BY DEF SendsPartial, VoiceInv
<1> HIDE DEF talking
<1>2. relay \in Relays
  BY <1>1 DEF VoiceIn
<1>3. /\ relay' \in Relays /\ relay'.sock = relay.sock /\ relay'.out = relay.out
      /\ relay'.current = relay.current /\ relay'.partial = relay.heard
      /\ relay'.watchdog = relay.watchdog /\ relay'.said = relay.said /\ relay'.open = relay.open
      /\ relay'.heard = relay.heard /\ relay'.answers = relay.answers
  BY <1>1, <1>2 DEF Relays
<1>4. /\ SockFits(relay) => SockFits(relay')
      /\ StampsFit(relay, began) => StampsFit(relay', began)
      /\ NoneMissing(relay, began, exhausted \/ voiceClosed)
           => NoneMissing(relay', began, exhausted \/ voiceClosed)
      /\ TalkFits(relay, began) => TalkFits(relay', began)
  BY <1>3 DEF SockFits, StampsFit, NoneMissing, TalkFits
<1>5. WordsFit(relay, exhausted) => WordsFit(relay', exhausted)
  BY <1>3 DEF WordsFit
<1>6. VoiceIn(relay', began, exhausted, voiceClosed, carried, talking)
  BY <1>1, <1>3, <1>4, <1>5 DEF VoiceIn
<1>7. VoiceIn(relay', began', exhausted', voiceClosed', carried', mic'.phase = "speaking")
  BY <1>1, <1>6 DEF exhausted, talking
<1> QED BY <1>1, <1>7 DEF VoiceInv

\* The words, or none.
LEMMA SendsWordsKeeps == ASSUME VoiceInv, SendsWords PROVE VoiceInv'
<1> DEFINE talking == mic.phase = "speaking"
<1>1. PICK words \in {Head(relay.answers), relay.partial, {}} :
        relay' = Said([relay EXCEPT !.answers = Tail(@), !.watchdog = FALSE,
                                    !.current = NoSegment, !.partial = {}],
                      relay.current, words)
  BY DEF SendsWords
<1>2. /\ relay.sock = "open" /\ relay.answers # <<>>
      /\ UNCHANGED <<mic, began, spent, carried, voiceClosed>> /\ began \in Nat
      /\ VoiceIn(relay, began, exhausted, voiceClosed, carried, talking)
  BY DEF SendsWords, VoiceInv
<1> HIDE DEF talking
<1>3. /\ relay \in Relays /\ SockFits(relay) /\ StampsFit(relay, began)
      /\ NoneMissing(relay, began, exhausted \/ voiceClosed)
      /\ ~ carried => WordsFit(relay, exhausted) /\ (talking /\ ~ exhausted /\ ~ voiceClosed => TalkFits(relay, began))
  BY <1>2 DEF VoiceIn
<1> DEFINE u == [stamp |-> relay.current, words |-> words]
           tail == Tail(relay.answers)
           n == Len(relay.answers)
<1>4. /\ relay.answers \in Seq(SUBSET Nat) /\ n \in Nat /\ n >= 1 /\ Head(relay.answers) = relay.answers[1]
      /\ tail \in Seq(SUBSET Nat) /\ Len(tail) = n - 1
      /\ \A k \in 1..(n - 1) : tail[k] = relay.answers[k + 1] /\ k + 1 \in 1..n
      /\ DOMAIN relay.answers = 1..n
  BY <1>2, <1>3 DEF Relays
<1>5. u \in Utts /\ u.stamp = relay.current /\ u.words = words
  <2>1. words \in SUBSET Nat /\ relay.current \in Nat
    BY <1>3, <1>4 DEF Relays
  <2> QED BY <2>1 DEF Utts
<1>6. /\ relay' \in Relays /\ relay'.sock = "open" /\ relay'.out = relay.out
      /\ relay'.current = NoSegment /\ relay'.partial = {} /\ ~ relay'.watchdog
      /\ relay'.said = Append(relay.said, u) /\ relay'.heard = relay.heard
      /\ relay'.open = (IF relay.open = 0 THEN 0 ELSE relay.open - 1)
      /\ relay'.answers = tail
  <2> DEFINE p == [relay EXCEPT !.answers = tail, !.watchdog = FALSE,
                                !.current = NoSegment, !.partial = {}]
             o == IF p.open = 0 THEN 0 ELSE p.open - 1
             said2 == Append(p.said, u)
  <2>1. relay' = [p EXCEPT !.said = said2, !.open = o]
    BY <1>1 DEF Said
  <2> HIDE DEF u, tail
  <2>2. /\ p \in Relays /\ p.sock = "open" /\ p.out = relay.out /\ p.current = NoSegment
        /\ p.partial = {} /\ ~ p.watchdog /\ p.said = relay.said /\ p.heard = relay.heard
        /\ p.open = relay.open /\ p.answers = tail
    BY <1>2, <1>3, <1>4 DEF Relays, NoSegment
  <2> HIDE DEF p
  <2>3. o \in Nat /\ said2 \in Seq(Utts)
    BY <1>5, <2>2 DEF Relays
  <2>4. o = (IF relay.open = 0 THEN 0 ELSE relay.open - 1) /\ said2 = Append(relay.said, u)
    BY <2>2
  <2> HIDE DEF o, said2
  <2> QED BY <2>1, <2>2, <2>3, <2>4 DEF Relays
<1>7. StampsFit(relay', began) /\ NoneMissing(relay', began, exhausted \/ voiceClosed)
  BY <1>2, <1>3, <1>6, RecordFits
<1> HIDE DEF u, tail, n
<1>8. SockFits(relay')
  BY <1>2, <1>3, <1>6 DEF SockFits
<1>9. ASSUME ~ carried
      PROVE  WordsFit(relay', exhausted)
  <2>1. WordsFit(relay, exhausted)
    BY <1>3, <1>9
  <2>2. relay.heard = {} /\ (relay.current = NoSegment => exhausted)
    BY <1>2, <2>1 DEF WordsFit
  <2>3. words \subseteq {relay.current} /\ (relay.current = NoSegment => words = {})
    BY <1>1, <1>4, <2>1 DEF WordsFit
  <2>4. ASSUME NEW i \in DOMAIN relay'.said
        PROVE  /\ relay'.said[i].words \subseteq {relay'.said[i].stamp}
               /\ relay'.said[i].stamp # NoSegment \/ exhausted
    <3>1. (i \in DOMAIN relay.said /\ relay'.said[i] = relay.said[i]) \/ relay'.said[i] = u
      <4>1. relay.said \in Seq(Utts)
        BY <1>3, RelayIs
      <4> QED BY <1>6, <4>1
    <3> QED BY <1>5, <2>1, <2>2, <2>3, <3>1 DEF WordsFit
  <2>5. ASSUME NEW k \in DOMAIN tail
        PROVE  tail[k] = {}
    <3>1. k \in 1..(n - 1)
      BY <1>4
    <3>2. k + 1 \in DOMAIN relay.answers /\ k + 1 > 1 /\ tail[k] = relay.answers[k + 1]
      BY <1>4, <3>1
    <3> QED BY <2>1, <3>2 DEF WordsFit
  <2>6. tail # <<>> \/ Len(tail) >= 2 => exhausted
    <3>1. tail # <<>> => Len(tail) >= 1
      BY <1>4
    <3>2. tail # <<>> \/ Len(tail) >= 2 => n >= 2
      BY <1>4, <3>1
    <3>3. n >= 2 => exhausted
      BY <2>1 DEF WordsFit, n
    <3> QED BY <3>2, <3>3
  <2>7. /\ relay'.out = relay.out /\ relay'.current = NoSegment
        /\ \A i, j \in DOMAIN relay.out : i < j /\ relay.out[i].commit => relay.out[j].commit /\ exhausted
    BY <1>6, <2>1 DEF WordsFit
  <2> QED BY <1>6, <2>2, <2>4, <2>5, <2>6, <2>7 DEF WordsFit
<1>10. ~ carried => ~ (talking /\ ~ exhausted /\ ~ voiceClosed)
  BY <1>2, <1>3 DEF TalkFits
<1>11. VoiceIn(relay', began, exhausted, voiceClosed, carried, talking)
  BY <1>6, <1>7, <1>8, <1>9, <1>10 DEF VoiceIn
<1>12. VoiceIn(relay', began', exhausted', voiceClosed', carried', mic'.phase = "speaking")
  BY <1>2, <1>11 DEF exhausted, talking
<1> QED BY <1>2, <1>12 DEF VoiceInv

\* The socket is given up, errs, or the round ends.
LEMMA CutsKeep == ASSUME VoiceInv, Closes \/ Errs \/ VoiceCloses PROVE VoiceInv'
<1> DEFINE talking == mic.phase = "speaking"
           q == Cut(relay)
<1>1. /\ relay' \in {q, [q EXCEPT !.sock = "errored"], [q EXCEPT !.watchdog = FALSE]}
      /\ UNCHANGED <<mic, began, spent, carried>> /\ (voiceClosed => voiceClosed')
      /\ VoiceIn(relay, began, exhausted, voiceClosed, carried, talking)
  BY DEF Closes, Errs, VoiceCloses, VoiceInv
<1> HIDE DEF talking
<1>2. relay \in Relays
  BY <1>1 DEF VoiceIn
<1>3. /\ q \in Relays /\ q.sock = "none" /\ q.heard = {} /\ q.answers = <<>>
      /\ q.current = relay.current /\ q.out = relay.out /\ q.partial = relay.partial
      /\ q.watchdog = relay.watchdog /\ q.said = relay.said /\ q.open = relay.open
  BY <1>2, CutIs
<1> HIDE DEF q
<1>4. /\ relay' \in Relays /\ relay'.sock \in {"none", "errored"} /\ relay'.heard = {}
      /\ relay'.answers = <<>> /\ relay'.current = relay.current /\ relay'.out = relay.out
      /\ relay'.partial = relay.partial /\ (relay'.watchdog => relay.watchdog)
      /\ relay'.said = relay.said /\ relay'.open = relay.open
  BY <1>1, <1>3 DEF Relays
<1>5. VoiceIn(relay', began, exhausted, voiceClosed, carried, talking)
  BY <1>1, <1>4, CutFits
<1>6. VoiceIn(relay', began, exhausted, voiceClosed', carried, talking)
  BY <1>1, <1>5, VoiceWeakens
<1>7. VoiceIn(relay', began', exhausted', voiceClosed', carried', mic'.phase = "speaking")
  BY <1>1, <1>6 DEF exhausted, talking
<1> QED BY <1>1, <1>7 DEF VoiceInv

\* Nobody answered for eight seconds.
LEMMA WatchdogKeeps == ASSUME VoiceInv, WatchdogFires PROVE VoiceInv'
<1> DEFINE talking == mic.phase = "speaking"
           f == flushUntranscribed(relay)
<1>1. /\ relay.watchdog /\ UNCHANGED <<mic, began, spent, carried, voiceClosed>> /\ began \in Nat
      /\ relay' = IF relay.current = NoSegment THEN [relay EXCEPT !.watchdog = FALSE] ELSE Cut(f)
      /\ VoiceIn(relay, began, exhausted, voiceClosed, carried, talking)
  BY DEF WatchdogFires, VoiceInv
<1> HIDE DEF talking
<1>2. /\ relay \in Relays
      /\ ~ carried => ~ (talking /\ ~ exhausted /\ ~ voiceClosed)
  BY <1>1 DEF VoiceIn, TalkFits
<1>3. VoiceIn(relay', began, exhausted, voiceClosed, carried, talking)
  <2>1. CASE relay.current = NoSegment
    <3>1. /\ relay' \in Relays /\ relay'.sock = relay.sock /\ relay'.out = relay.out
          /\ relay'.current = relay.current /\ relay'.partial = relay.partial
          /\ relay'.said = relay.said /\ relay'.open = relay.open
          /\ relay'.heard = relay.heard /\ relay'.answers = relay.answers
      BY <1>1, <1>2, <2>1 DEF Relays
    <3>2. /\ SockFits(relay) => SockFits(relay')
          /\ StampsFit(relay, began) => StampsFit(relay', began)
          /\ NoneMissing(relay, began, exhausted \/ voiceClosed)
               => NoneMissing(relay', began, exhausted \/ voiceClosed)
      BY <3>1 DEF SockFits, StampsFit, NoneMissing
    <3>3. WordsFit(relay, exhausted) => WordsFit(relay', exhausted)
      BY <3>1 DEF WordsFit
    <3> QED BY <1>1, <1>2, <3>1, <3>2, <3>3 DEF VoiceIn
  <2>2. CASE relay.current # NoSegment
    <3>1. relay' = Cut(f) /\ f \in Relays
      BY <1>1, <1>2, <2>2, FlushIs
    <3> HIDE DEF f
    <3>2. /\ relay' \in Relays /\ relay'.sock = "none" /\ relay'.heard = {} /\ relay'.answers = <<>>
          /\ relay'.current = f.current /\ relay'.out = f.out /\ relay'.partial = f.partial
          /\ relay'.said = f.said /\ relay'.open = f.open
      BY <3>1, CutIs
    <3>3. VoiceIn(relay', began, exhausted, voiceClosed, carried, FALSE)
      BY <1>1, <2>2, <3>2, FlushCutFits DEF f
    <3> QED BY <1>2, <3>3 DEF VoiceIn
  <2> QED BY <2>1, <2>2
<1>4. VoiceIn(relay', began', exhausted', voiceClosed', carried', mic'.phase = "speaking")
  BY <1>1, <1>3 DEF exhausted, talking
<1> QED BY <1>1, <1>4 DEF VoiceInv

\* The page's own steps begin no segment.
LEMMA MicKeeps ==
  ASSUME VoiceInv, UNCHANGED <<began, relay, spent, carried, voiceClosed>>,
         mic' \in Mics, mic'.phase = "speaking" => mic.phase = "speaking"
  PROVE  VoiceInv'
<1>1. VoiceIn(relay, began, exhausted, voiceClosed, carried, mic.phase = "speaking")
  BY DEF VoiceInv
<1>2. VoiceIn(relay, began, exhausted, voiceClosed, carried, mic'.phase = "speaking")
  BY <1>1 DEF VoiceIn
<1>3. VoiceIn(relay', began', exhausted', voiceClosed', carried', mic'.phase = "speaking")
  BY <1>2 DEF exhausted
<1> QED BY <1>3 DEF VoiceInv, Mics

\* Nothing was said.
LEMMA VoiceStarts == VoiceInit => VoiceInv
<1> SUFFICES ASSUME VoiceInit PROVE VoiceInv
  OBVIOUS
<1>1. mic \in [phase : {"idle", "maybe", "speaking"}, muted : BOOLEAN, linked : BOOLEAN]
      /\ began = 0 /\ spent = 0 /\ mic.phase # "speaking"
  BY DEF VoiceInit, NewMic
<1>2. /\ relay.current = NoSegment /\ relay.sock = "none" /\ relay.out = <<>> /\ relay.heard = {}
      /\ relay.answers = <<>> /\ relay.partial = {} /\ relay.said = <<>> /\ relay.open = 0
  BY DEF VoiceInit
<1>3. relay \in Relays
  <2>1. <<>> \in Seq(Messages) /\ <<>> \in Seq(SUBSET Nat) /\ <<>> \in Seq(Utts)
    OBVIOUS
  <2> QED BY <2>1 DEF VoiceInit, Relays, NoSegment
<1>4. SockFits(relay) /\ StampsFit(relay, began) /\ NoneMissing(relay, began, exhausted \/ voiceClosed)
      /\ WordsFit(relay, exhausted)
  BY <1>1, <1>2 DEF SockFits, StampsFit, NoneMissing, WordsFit, NoSegment
<1> QED BY <1>1, <1>3, <1>4 DEF VoiceInv, VoiceIn, Mics

\* Every step of the channel keeps it.
LEMMA VoiceStep == VoiceInv /\ [VoiceNext]_voiceVars => VoiceInv'
<1> SUFFICES ASSUME VoiceInv, VoiceNext \/ UNCHANGED voiceVars
             PROVE  VoiceInv'
  OBVIOUS
<1>1. CASE \/ UNCHANGED voiceVars \/ MaybeSpeech \/ Transient \/ Mutes \/ Unmutes \/ LinkDrops
           \/ PageReloads
  <2>1. UNCHANGED <<began, relay, spent, carried, voiceClosed>>
    BY <1>1 DEF voiceVars, MaybeSpeech, Transient, Mutes, Unmutes, LinkDrops, PageReloads
  <2>2. mic \in Mics
    BY DEF VoiceInv, Mics
  <2>3. mic' \in Mics /\ (mic'.phase = "speaking" => mic.phase = "speaking")
    <3>1. CASE MaybeSpeech \/ Transient \/ Mutes
      BY <2>2, <3>1 DEF MaybeSpeech, Transient, Mutes, Mics
    <3>2. CASE Unmutes \/ LinkDrops
      BY <2>2, <3>2 DEF Unmutes, LinkDrops, Mics
    <3>3. CASE UNCHANGED voiceVars
      BY <2>2, <3>3 DEF voiceVars
    <3>4. CASE PageReloads
      BY <3>4 DEF PageReloads, NewMic, Mics
    <3> QED BY <1>1, <3>1, <3>2, <3>3, <3>4
  <2> QED BY <2>1, <2>3, MicKeeps
<1>2. CASE /\ VoiceNext
           /\ ~ (MaybeSpeech \/ Transient \/ Mutes \/ Unmutes \/ LinkDrops \/ PageReloads)
  BY <1>2, SpeechStartsKeeps, SpeaksKeeps, SpeechEndsKeeps, SocketOpensKeeps, SendsPartialKeeps,
     SendsWordsKeeps, CutsKeep, WatchdogKeeps DEF VoiceNext
<1> QED BY <1>1, <1>2

---------------------------------------------------------------------------
(* The round's page.                                                       *)

Sounds == [turn : Nat, stage : {"none", "loading", "sounding", "over"}, playing : BOOLEAN]
Playbacks == [audio : Sounds, held : Nat, replaced : BOOLEAN, ackCut : BOOLEAN]

\* What voice.js holds: a turn waits only for a sentence, a courtesy noise waits
\* only in silence, and what sounds unknown to the page was replaced once.
PlaybackIn(p, ts, speaking) ==
  /\ p \in Playbacks
  /\ p.audio.turn # 0 \/ Audible(p.audio) => p.audio.turn \in DOMAIN ts
  /\ p.held # 0 => p.held \in DOMAIN ts /\ speaking
  /\ p.ackCut => p.replaced
  /\ Audible(p.audio) /\ ~ p.audio.playing => p.replaced
  /\ p.held # 0 /\ ts[p.held] = "ack" => ~ p.audio.playing

PlaybackFits(p) == PlaybackIn(p, turns, speech.speaking)

\* The polls: each asks for what follows the page's last turn, and unless
\* something failed the page has what no poke and no poll will bring.
PollFits ==
  /\ poll \in [stage : {"idle", "asked", "answered"}, since : Nat, upTo : Nat, timeUp : BOOLEAN]
  /\ poll.stage # "idle" => poll.since = Len(shown)
  /\ poll.since <= Len(turns) /\ poll.upTo <= Len(turns)
  /\ poll.stage = "answered" => poll.since <= poll.upTo
  /\ {pokeMissed, poke, stale, doorbell} \subseteq BOOLEAN
  /\ pokeMissed => poll.stage # "idle"
  /\ ~ stale /\ ~ poke =>
       /\ poll.stage = "idle" => Len(shown) = Len(turns)
       /\ poll.stage = "answered" => pokeMissed \/ poll.upTo = Len(turns)

ShownFits == shown \in Seq(Nat) /\ Len(shown) <= Len(turns) /\ \A i \in DOMAIN shown : shown[i] = i

SpeechFits == speech \in [speaking : BOOLEAN, muted : BOOLEAN, voice : BOOLEAN]

PageInv == turns \in Seq(Kinds) /\ SpeechFits /\ PlaybackFits(Playback) /\ PollFits /\ ShownFits

\* It is what the property asks for.
LEMMA PageKeeps == PageInv => TurnsReachTheCandidate
<1> SUFFICES ASSUME PageInv PROVE TurnsReachTheCandidate
  OBVIOUS
<1>1. TurnsAreHeard
  BY DEF PageInv, PlaybackFits, PlaybackIn, Playback, TurnsAreHeard
<1>2. lastSeq = Len(shown)
  BY DEF PageInv, ShownFits, lastSeq, Last
<1>3. TurnsAreShown
  BY <1>2 DEF PageInv, PollFits, ShownFits, TurnsAreShown
<1> QED BY <1>1, <1>3 DEF TurnsReachTheCandidate

\* A turn is put on.
LEMMA PlayNowFits ==
  ASSUME turns \in Seq(Kinds), NEW p, PlaybackFits(p), p.held = 0, NEW t \in DOMAIN turns,
         turns[t] = "ack" => ~ p.audio.playing
  PROVE  PlaybackFits(playNow(p, t, turns[t]))
<1> DEFINE q == playNow(p, t, turns[t])
<1> DEFINE a == [turn |-> t, stage |-> "loading", playing |-> p.audio.stage # "loading"]
           r == p.replaced \/ p.audio.stage = "loading"
           c == p.ackCut \/ (turns[t] = "ack" /\ Audible(p.audio) /\ turns[p.audio.turn] = "turn")
<1>0. p \in Playbacks /\ t \in Nat /\ p.replaced \in BOOLEAN /\ p.ackCut \in BOOLEAN
  BY DEF PlaybackFits, PlaybackIn, Playbacks
<1>a. a \in Sounds
  BY <1>0 DEF Sounds
<1>b. r \in BOOLEAN /\ c \in BOOLEAN
  BY <1>0
<1>c. q = [p EXCEPT !.audio = a, !.replaced = r, !.ackCut = c]
  BY DEF playNow
<1>d. a.turn = t /\ a.stage = "loading" /\ (a.playing <=> p.audio.stage # "loading")
  OBVIOUS
<1>e. (r <=> p.replaced \/ p.audio.stage = "loading")
      /\ (c <=> p.ackCut \/ (turns[t] = "ack" /\ Audible(p.audio) /\ turns[p.audio.turn] = "turn"))
  OBVIOUS
<1> HIDE DEF a, r, c, q
<1>1. q \in Playbacks /\ q.held = 0 /\ q.audio = a /\ q.replaced = r /\ q.ackCut = c
  BY <1>0, <1>a, <1>b, <1>c DEF Playbacks
<1>2. q.ackCut => q.replaced
  BY <1>1, <1>e DEF PlaybackFits, PlaybackIn
<1>3. Audible(q.audio) /\ ~ q.audio.playing => q.replaced
  BY <1>1, <1>d, <1>e
<1>4. q.audio.turn \in DOMAIN turns
  BY <1>1, <1>d
<1>5. PlaybackFits(q)
  BY <1>1, <1>2, <1>3, <1>4 DEF PlaybackFits, PlaybackIn
<1> QED BY <1>5 DEF q

\* speak
LEMMA SpeakFits ==
  ASSUME turns \in Seq(Kinds), SpeechFits, NEW p, PlaybackFits(p), NEW t \in DOMAIN turns
  PROVE  PlaybackFits(speak(p, t))
<1>1. p \in Playbacks /\ p.audio.playing \in BOOLEAN /\ t \in Nat /\ t # 0
  BY DEF PlaybackFits, PlaybackIn, Playbacks, Sounds
<1>2. CASE ~ speech.voice \/ (turns[t] = "ack" /\ (p.audio.playing \/ p.held # 0))
  BY <1>2 DEF speak
<1>3. CASE /\ ~ (~ speech.voice \/ (turns[t] = "ack" /\ (p.audio.playing \/ p.held # 0)))
           /\ speech.speaking
  <2> DEFINE q == [p EXCEPT !.held = t]
  <2>1. /\ q \in Playbacks /\ q.held = t /\ q.audio = p.audio /\ q.replaced = p.replaced
        /\ q.ackCut = p.ackCut
    BY <1>1 DEF Playbacks
  <2>2. speak(p, t) = q
    BY <1>3 DEF speak
  <2> HIDE DEF q
  <2>3. PlaybackFits(q)
    BY <1>1, <1>3, <2>1 DEF PlaybackFits, PlaybackIn
  <2> QED BY <2>2, <2>3
<1>4. CASE /\ ~ (~ speech.voice \/ (turns[t] = "ack" /\ (p.audio.playing \/ p.held # 0)))
           /\ ~ speech.speaking
  <2>1. speak(p, t) = playNow(p, t, turns[t])
    BY <1>4 DEF speak
  <2>2. p.held = 0
    BY <1>4 DEF PlaybackFits, PlaybackIn
  <2> QED BY <1>4, <2>1, <2>2, PlayNowFits
<1> QED BY <1>2, <1>3, <1>4

\* The new turns are spoken.
LEMMA HeardFits ==
  ASSUME turns \in Seq(Kinds), SpeechFits, PlaybackFits(Playback),
         NEW from \in Nat, NEW n \in Nat, from + n <= Len(turns)
  PROVE  PlaybackFits(Heard(from, n))
<1> DEFINE Fits == {p \in Playbacks : PlaybackFits(p)}
           step == [p \in Fits \X (1..n) |-> speak(p[1], from + p[2])]
           body(g) == [i \in 0..n |-> IF i = 0 THEN Playback ELSE speak(g[i - 1], from + i)]
           a == CHOOSE g : g = body(g)
<1>0. Playback \in Fits
  BY DEF PlaybackFits, PlaybackIn
<1>1. ASSUME NEW p \in Fits, NEW i \in 1..n
      PROVE  speak(p, from + i) \in Fits
  <2>1. from + i \in DOMAIN turns
    OBVIOUS
  <2>2. PlaybackFits(speak(p, from + i))
    BY <2>1, SpeakFits
  <2> QED BY <2>2 DEF PlaybackFits, PlaybackIn
<1> HIDE DEF Fits
<1>2. step \in [Fits \X (1..n) -> Fits]
  BY <1>1
<1>3. PICK f : IteratesTo(f, n, Fits, Playback, step)
  <2> HIDE DEF step
  <2> QED BY <1>0, <1>2, Iterates
<1>4. ASSUME NEW g, g \in [0..n -> Fits], NEW i \in 1..n
      PROVE  step[<<g[i - 1], i>>] = speak(g[i - 1], from + i)
  <2>1. g[i - 1] \in Fits
    BY <1>4
  <2> QED BY <2>1
<1>5. f = body(f)
  <2>1. f \in [0..n -> Fits] /\ f[0] = Playback
    BY <1>3 DEF IteratesTo
  <2>2. \A i \in 1..n : f[i] = speak(f[i - 1], from + i)
    <3> HIDE DEF step
    <3> QED BY <1>3, <1>4 DEF IteratesTo
  <2> HIDE DEF step
  <2> QED BY <2>1, <2>2
<1>6. a = body(a)
  <2> HIDE DEF body
  <2> QED BY <1>5, Zenon
<1>7. Heard(from, n) = a[n]
  BY DEF Heard
<1> HIDE DEF a
<1>8. a[0] = Playback /\ \A i \in 1..n : a[i] = speak(a[i - 1], from + i)
  <2>1. \A i \in 0..n : a[i] = IF i = 0 THEN Playback ELSE speak(a[i - 1], from + i)
    BY <1>6
  <2> QED BY <2>1
<1>9. a[n] \in Fits
  <2> DEFINE G == {i \in 0..n : a[i] \in Fits}
  <2>1. 0 \in G
    BY <1>0, <1>8
  <2>2. ASSUME NEW i \in 1..n, i - 1 \in G
        PROVE  i \in G
    <3>1. a[i - 1] \in Fits
      BY <2>2
    <3>2. speak(a[i - 1], from + i) \in Fits
      BY <3>1, <1>1
    <3> QED BY <1>8, <3>2
  <2>3. 0..n \subseteq G
    <3> HIDE DEF G
    <3> QED BY <2>1, <2>2, Upward
  <2>4. n \in G
    BY <2>3
  <2> QED BY <2>4
<1> QED BY <1>7, <1>9 DEF Fits

\* What voice.js holds after a step is what the step says.
LEMMA PlaysFits ==
  ASSUME NEW p, Plays(p), PlaybackIn(p, turns', speech'.speaking)
  PROVE  PlaybackFits(Playback)'
<1>1. Playback' = [audio |-> p.audio, held |-> p.held, replaced |-> p.replaced, ackCut |-> p.ackCut]
  BY DEF Plays, Playback
<1>2. p \in Playbacks
  BY DEF PlaybackIn
<1>3. Playback' = p
  BY <1>1, <1>2 DEF Playbacks
<1> QED BY <1>3 DEF PlaybackFits

\* It goes on, while turns are added and while a sentence is not cut short.
LEMMA PlaybackStays ==
  ASSUME PageInv, UNCHANGED <<audio, held, replaced, ackCut>>,
         turns' = turns \/ (\E sort \in Kinds : turns' = Append(turns, sort)),
         speech.speaking => speech'.speaking
  PROVE  PlaybackFits(Playback)'
<1>1. PlaybackIn(Playback, turns, speech.speaking) /\ turns \in Seq(Kinds)
  BY DEF PageInv, PlaybackFits
<1>2. \A i \in DOMAIN turns : i \in DOMAIN turns' /\ turns'[i] = turns[i]
  BY <1>1
<1>3. PlaybackIn(Playback, turns', speech'.speaking)
  BY <1>1, <1>2 DEF PlaybackIn
<1>4. Playback' = Playback
  BY DEF Playback
<1> QED BY <1>3, <1>4 DEF PlaybackFits

\* The turn that was held is played.
LEMMA PlayHeldFits ==
  ASSUME turns \in Seq(Kinds), NEW p, PlaybackFits(p)
  PROVE  PlaybackFits(playHeldTurn(p)) /\ playHeldTurn(p).held = 0
<1>1. CASE p.held = 0
  BY <1>1 DEF playHeldTurn
<1>2. CASE p.held # 0
  <2> DEFINE q == [p EXCEPT !.held = 0]
  <2>1. p \in Playbacks
    BY DEF PlaybackFits, PlaybackIn
  <2>2. /\ q \in Playbacks /\ q.held = 0 /\ q.audio = p.audio /\ q.replaced = p.replaced
        /\ q.ackCut = p.ackCut
    BY <2>1 DEF Playbacks
  <2>3. playHeldTurn(p) = playNow(q, p.held, turns[p.held])
    BY <1>2 DEF playHeldTurn
  <2> HIDE DEF q
  <2>4. PlaybackFits(q)
    BY <2>2 DEF PlaybackFits, PlaybackIn
  <2>5. p.held \in DOMAIN turns /\ (turns[p.held] = "ack" => ~ q.audio.playing)
    BY <1>2, <2>2 DEF PlaybackFits, PlaybackIn
  <2>6. PlaybackFits(playNow(q, p.held, turns[p.held]))
    BY <2>2, <2>4, <2>5, PlayNowFits
  <2>7. playNow(q, p.held, turns[p.held]).held = 0
    BY <2>2 DEF playNow, Playbacks
  <2> QED BY <2>3, <2>6, <2>7
<1> QED BY <1>1, <1>2

\* Nothing held can be said at any time.
LEMMA NothingHeldFits ==
  ASSUME NEW p, PlaybackFits(p), p.held = 0, NEW speaking
  PROVE  PlaybackIn(p, turns, speaking)
BY DEF PlaybackFits, PlaybackIn

\* endSession silences.
LEMMA StoppedFits ==
  ASSUME NEW p, PlaybackFits(p), NEW speaking
  PROVE  PlaybackIn(Stopped(p), turns, speaking)
<1> DEFINE q == Stopped(p)
<1>1. p \in Playbacks
  BY DEF PlaybackFits, PlaybackIn
<1>2. /\ q \in Playbacks /\ q.held = 0 /\ q.audio.stage = "over" /\ q.replaced = p.replaced
      /\ q.ackCut = p.ackCut /\ q.audio.turn = p.audio.turn
  BY <1>1 DEF Stopped, Playbacks, Sounds
<1> HIDE DEF q
<1>3. PlaybackIn(q, turns, speaking)
  BY <1>2 DEF PlaybackFits, PlaybackIn, Audible
<1> QED BY <1>3 DEF q

\* What is asked for.
LEMMA AskedIs ==
  ASSUME NEW seen \in Nat
  PROVE  /\ Asked(seen) = [stage |-> "asked", since |-> seen, upTo |-> 0, timeUp |-> FALSE]
         /\ Asked(seen) \in
              [stage : {"idle", "asked", "answered"}, since : Nat, upTo : Nat, timeUp : BOOLEAN]
<1> DEFINE polls == [stage : {"idle", "asked", "answered"}, since : Nat, upTo : Nat, timeUp : BOOLEAN]
           again == [stage |-> "asked", since |-> seen, upTo |-> 0, timeUp |-> FALSE]
<1>1. NoPoll \in polls /\ NoPoll.upTo = 0 /\ NoPoll.timeUp = FALSE
  BY DEF NoPoll
<1>2. /\ Asked(seen) \in polls /\ Asked(seen).stage = "asked" /\ Asked(seen).since = seen
      /\ Asked(seen).upTo = 0 /\ Asked(seen).timeUp = FALSE
  BY <1>1 DEF Asked
<1>3. again \in polls
  OBVIOUS
<1>4. \A x, y \in polls :
        x.stage = y.stage /\ x.since = y.since /\ x.upTo = y.upTo /\ x.timeUp = y.timeUp => x = y
  OBVIOUS
<1>5. Asked(seen) = again
  BY <1>2, <1>3, <1>4
<1> QED BY <1>2, <1>5

\* The polls and what is shown, left alone by a step of the sound.
LEMMA PollsStay ==
  ASSUME PageInv, UNCHANGED <<turns, poke, doorbell, poll, pokeMissed, shown, stale>>
  PROVE  PollFits' /\ ShownFits' /\ turns' \in Seq(Kinds)
BY DEF PageInv, PollFits, ShownFits

\* A new turn is on its way, by the doorbell or, without it, by the interval.
LEMMA ServerSpeaksKeeps ==
  ASSUME PageInv, NEW sort \in Kinds, ServerSpeaks(sort)
  PROVE  PageInv'
<1>1. /\ turns \in Seq(Kinds) /\ turns' = Append(turns, sort) /\ PollFits /\ ShownFits /\ SpeechFits
      /\ poke' = (poke \/ doorbell) /\ stale' = (stale \/ ~ doorbell)
      /\ UNCHANGED <<doorbell, poll, pokeMissed, shown, speech, audio, held, replaced, ackCut>>
  BY DEF PageInv, ServerSpeaks
<1>2. turns' \in Seq(Kinds) /\ Len(turns') = Len(turns) + 1 /\ Len(turns) \in Nat
  BY <1>1
<1>3. poke' \/ stale'
  BY <1>1 DEF PollFits
<1>4. poll.upTo \in Nat /\ Len(shown) \in Nat
  BY <1>1 DEF PollFits, ShownFits
<1>5. PollFits'
  <2>1. {poke', stale'} \subseteq BOOLEAN
    BY <1>1 DEF PollFits
  <2> QED BY <1>1, <1>2, <1>3, <1>4, <2>1 DEF PollFits
<1>6. ShownFits'
  BY <1>1, <1>2, <1>4 DEF ShownFits
<1>7. PlaybackFits(Playback)'
  BY <1>1, PlaybackStays
<1> QED BY <1>1, <1>2, <1>5, <1>6, <1>7 DEF PageInv, SpeechFits

\* The steps of a poll that put nothing on the page, and the end of the loops.
PollingStep ==
  \/ Polls \/ ServesPoll \/ PollFails \/ DoorbellDies \/ AsksToEnd \/ SeesItEnded

\* A turn that waits has a poke, a poll, or a failure to wait for.
LEMMA PollingKeeps == ASSUME PageInv, PollingStep PROVE PageInv'
<1>1. /\ UNCHANGED <<turns, shown, speech, audio, held, replaced, ackCut>>
      /\ turns \in Seq(Kinds) /\ SpeechFits /\ PollFits /\ ShownFits /\ Len(turns) \in Nat
      /\ Len(shown) \in Nat /\ Len(shown) <= Len(turns)
  BY DEF PageInv, ShownFits, PollingStep, Polls, ServesPoll, PollFails, DoorbellDies, AsksToEnd,
         SeesItEnded
<1>2. lastSeq = Len(shown)
  BY <1>1 DEF ShownFits, lastSeq, Last
<1>3. PollFits'
  <2> DEFINE polls == [stage : {"idle", "asked", "answered"}, since : Nat, upTo : Nat, timeUp : BOOLEAN]
             again == [stage |-> "asked", since |-> Len(shown), upTo |-> 0, timeUp |-> FALSE]
  <2>1. Asked(lastSeq) = again /\ again \in polls
    <3> HIDE DEF polls
    <3>1. Asked(lastSeq) = again
      BY <1>1, <1>2, AskedIs
    <3>2. Asked(Len(shown)) \in polls
      BY <1>1, AskedIs DEF polls
    <3> QED BY <1>2, <3>1, <3>2
  <2>2. NoPoll \in polls /\ NoPoll.stage = "idle" /\ NoPoll.since = 0 /\ NoPoll.upTo = 0
    BY DEF NoPoll
  <2>3. CASE Polls
    <3>1. CASE poll.stage = "idle"
      <4>1. poll' = again /\ pokeMissed' = pokeMissed /\ stale' = stale /\ doorbell' = doorbell
            /\ poke' \in {poke, FALSE}
        BY <2>1, <2>3, <3>1 DEF Polls, pollMessages
      <4>2. /\ poll' \in polls /\ poll'.stage = "asked" /\ poll'.since = Len(shown)
            /\ poll'.since <= Len(turns) /\ poll'.upTo <= Len(turns)
        BY <1>1, <2>1, <4>1
      <4> QED BY <1>1, <4>1, <4>2 DEF PollFits
    <3>2. CASE poll.stage # "idle"
      <4>1. poll' = poll /\ pokeMissed' = TRUE /\ stale' = stale /\ doorbell' = doorbell
            /\ poke' \in {poke, FALSE}
        BY <2>3, <3>2 DEF Polls, pollMessages
      <4> QED BY <1>1, <3>2, <4>1 DEF PollFits
    <3> QED BY <3>1, <3>2
  <2>4. CASE ServesPoll
    <3>1. /\ poll' = [poll EXCEPT !.stage = "answered", !.upTo = Len(turns),
                                  !.timeUp = clock # "running"]
          /\ UNCHANGED <<pokeMissed, stale, doorbell, poke>> /\ poll.stage = "asked"
      BY <2>4 DEF ServesPoll
    <3>2. poll \in polls /\ poll.since = Len(shown)
      BY <1>1, <3>1 DEF PollFits
    <3>3. poll' \in polls /\ poll'.stage = "answered" /\ poll'.since = Len(shown) /\ poll'.upTo = Len(turns)
      BY <1>1, <3>1, <3>2
    <3> QED BY <1>1, <3>1, <3>3 DEF PollFits
  <2>5. CASE PollFails
    <3>1. /\ poll' = IF pokeMissed THEN again ELSE NoPoll
          /\ pokeMissed' = FALSE /\ stale' = TRUE /\ UNCHANGED <<doorbell, poke>>
      BY <2>1, <2>5 DEF PollFails, PollOver
    <3>2. /\ poll' \in polls /\ poll'.stage # "answered"
          /\ poll'.stage = "idle" \/ poll'.since = Len(shown)
          /\ poll'.since <= Len(turns) /\ poll'.upTo <= Len(turns)
      <4>1. CASE pokeMissed
        BY <1>1, <2>1, <3>1, <4>1
      <4>2. CASE ~ pokeMissed
        BY <1>1, <2>2, <3>1, <4>2
      <4> QED BY <4>1, <4>2
    <3> QED BY <1>1, <3>1, <3>2 DEF PollFits
  <2>6. CASE DoorbellDies \/ AsksToEnd \/ SeesItEnded
    <3>1. /\ doorbell' = FALSE /\ poke' = FALSE /\ stale' = (stale \/ poke)
          /\ UNCHANGED <<poll, pokeMissed>>
      BY <2>6 DEF DoorbellDies, AsksToEnd, SeesItEnded, LoopsStop
    <3>2. stale' \in BOOLEAN /\ (~ stale' => ~ stale /\ ~ poke)
      BY <1>1, <3>1 DEF PollFits
    <3> QED BY <1>1, <3>1, <3>2 DEF PollFits
  <2> QED BY <2>3, <2>4, <2>5, <2>6 DEF PollingStep
<1>4. PlaybackFits(Playback)'
  BY <1>1, PlaybackStays
<1> QED BY <1>1, <1>3, <1>4 DEF PageInv, ShownFits, SpeechFits

\* The steps of the sound and of the speech.
LEMMA SoundKeeps ==
  ASSUME PageInv, SoundStarts \/ SoundStops \/ HoldExpires \/ SentenceStarts \/ SentenceEnds \/ Toggles
  PROVE  PageInv'
<1>1. /\ UNCHANGED <<turns, poke, doorbell, poll, pokeMissed, shown, stale>>
      /\ turns \in Seq(Kinds) /\ SpeechFits /\ PlaybackFits(Playback)
  BY DEF PageInv, SoundStarts, SoundStops, HoldExpires, SentenceStarts, SentenceEnds, Toggles
<1>2. SpeechFits'
  <2>1. ASSUME NEW muted \in BOOLEAN
        PROVE  /\ [speech EXCEPT !.speaking = FALSE, !.muted = muted] \in
                     [speaking : BOOLEAN, muted : BOOLEAN, voice : BOOLEAN]
               /\ [speech EXCEPT !.speaking = TRUE] \in
                     [speaking : BOOLEAN, muted : BOOLEAN, voice : BOOLEAN]
               /\ [speech EXCEPT !.muted = ~ @] \in
                     [speaking : BOOLEAN, muted : BOOLEAN, voice : BOOLEAN]
    BY <1>1 DEF SpeechFits
  <2> QED BY <1>1, <2>1 DEF SpeechFits, SoundStarts, SoundStops, HoldExpires, SentenceStarts,
                            SentenceEnds, Toggles
<1>3. PlaybackFits(Playback)'
  <2>1. CASE SentenceStarts \/ Toggles
    <3>1. speech.speaking => speech'.speaking
      BY <1>1, <2>1 DEF SentenceStarts, Toggles, SpeechFits
    <3> QED BY <1>1, <2>1, <3>1, PlaybackStays DEF SentenceStarts, Toggles
  <2>2. CASE HoldExpires \/ SentenceEnds
    <3>1. Plays(playHeldTurn(Playback))
      BY <2>2 DEF HoldExpires, SentenceEnds
    <3>2. PlaybackIn(playHeldTurn(Playback), turns', speech'.speaking)
      BY <1>1, PlayHeldFits, NothingHeldFits
    <3> QED BY <3>1, <3>2, PlaysFits
  <2>3. CASE SoundStarts \/ SoundStops
    <3> DEFINE p == [Playback EXCEPT !.audio = audio']
    <3>1. Playback \in Playbacks /\ audio \in Sounds
      BY <1>1 DEF PlaybackFits, PlaybackIn, Playback, Playbacks
    <3>2. audio' \in Sounds /\ audio'.turn = audio.turn /\ (audio'.playing => audio.playing)
      BY <2>3, <3>1 DEF SoundStarts, SoundStops, Sounds
    <3>3. Audible(audio) /\ (Audible(audio') => audio'.playing = audio.playing)
      BY <2>3, <3>1 DEF SoundStarts, SoundStops, Sounds, Audible
    <3>4. /\ Playback' \in Playbacks /\ Playback'.audio = audio' /\ Playback.audio = audio
          /\ Playback'.held = Playback.held /\ Playback'.replaced = Playback.replaced
          /\ Playback'.ackCut = Playback.ackCut
      BY <2>3, <3>1, <3>2 DEF SoundStarts, SoundStops, Playback, Playbacks
    <3>5. turns' = turns /\ speech' = speech
      BY <2>3 DEF SoundStarts, SoundStops
    <3>6. PlaybackIn(Playback', turns, speech.speaking)
      <4> HIDE DEF p
      <4> QED BY <1>1, <3>2, <3>3, <3>4 DEF PlaybackFits, PlaybackIn
    <3> QED BY <3>5, <3>6 DEF PlaybackFits
  <2> QED BY <2>1, <2>2, <2>3
<1> QED BY <1>1, <1>2, <1>3, PollsStay DEF PageInv

\* The answer of a poll.
LEMMA PollReturnsKeeps == ASSUME PageInv, PollReturns PROVE PageInv'
<1> DEFINE n == poll.upTo - poll.since
           new == [i \in 1..n |-> poll.since + i]
           spoken == Heard(poll.since, Len(new))
           ends == poll.timeUp /\ ending = "no"
<1>1. /\ turns \in Seq(Kinds) /\ SpeechFits /\ PlaybackFits(Playback) /\ PollFits /\ ShownFits
      /\ poll.stage = "answered"
  BY DEF PageInv, PollReturns
<1>2. /\ poll.since \in Nat /\ poll.upTo \in Nat /\ poll.since = Len(shown)
      /\ poll.since <= poll.upTo /\ poll.upTo <= Len(turns) /\ Len(turns) \in Nat
  BY <1>1 DEF PollFits
<1>3. n \in Nat /\ poll.since + n = poll.upTo /\ new \in Seq(Nat) /\ Len(new) = n
      /\ \A i \in 1..n : new[i] = poll.since + i
  BY <1>2
<1>4. PlaybackFits(spoken)
  <2>1. PlaybackFits(Heard(poll.since, n))
    <3> HIDE DEF n
    <3> QED BY <1>1, <1>2, <1>3, HeardFits
  <2> QED BY <1>3, <2>1
<1>5. /\ shown' = shown \o new
      /\ Plays(IF ends THEN Stopped(spoken) ELSE spoken)
      /\ speech' = IF ends THEN [speech EXCEPT !.muted = TRUE, !.speaking = FALSE] ELSE speech
      /\ PollOver(poll.upTo) /\ UNCHANGED <<turns, poke, doorbell, stale>>
  BY DEF PollReturns
<1> HIDE DEF n, new, spoken, ends
<1>6. SpeechFits'
  <2>1. [speech EXCEPT !.muted = TRUE, !.speaking = FALSE] \in
          [speaking : BOOLEAN, muted : BOOLEAN, voice : BOOLEAN]
    BY <1>1 DEF SpeechFits
  <2> QED BY <1>1, <1>5, <2>1 DEF SpeechFits
<1>7. PlaybackFits(Playback)'
  <2>1. CASE ends
    <3>1. PlaybackIn(Stopped(spoken), turns', speech'.speaking)
      BY <1>4, <1>5, StoppedFits
    <3> QED BY <1>5, <2>1, <3>1, PlaysFits
  <2>2. CASE ~ ends
    <3>1. PlaybackIn(spoken, turns', speech'.speaking)
      BY <1>4, <1>5, <2>2 DEF PlaybackFits
    <3> QED BY <1>5, <2>2, <3>1, PlaysFits
  <2> QED BY <2>1, <2>2
<1>8. ShownFits' /\ Len(shown') = poll.upTo
  <2>1. shown \in Seq(Nat) /\ Len(shown) \in Nat
    BY <1>1 DEF ShownFits
  <2>2. shown' \in Seq(Nat) /\ Len(shown') = Len(shown) + n
    <3>1. shown' = shown \o new
      BY <1>5
    <3>2. shown \in Seq(Nat) /\ new \in Seq(Nat)
      BY <1>3, <2>1
    <3>3. shown \o new \in Seq(Nat) /\ Len(shown \o new) = Len(shown) + Len(new)
      BY <3>2
    <3> QED BY <1>3, <3>1, <3>3
  <2>3. ASSUME NEW i \in 1..Len(shown')
        PROVE  shown'[i] = i
    <3>1. CASE i \in 1..Len(shown)
      BY <1>1, <1>3, <1>5, <2>1, <3>1 DEF ShownFits
    <3>2. CASE i \notin 1..Len(shown)
      <4>1. i - Len(shown) \in 1..n /\ shown'[i] = new[i - Len(shown)]
        BY <1>3, <1>5, <2>1, <2>2, <3>2
      <4> QED BY <1>2, <1>3, <2>1, <4>1
    <3> QED BY <3>1, <3>2
  <2>4. Len(shown') = poll.upTo
    BY <1>2, <1>3, <2>2
  <2>5. DOMAIN shown' = 1..Len(shown')
    BY <2>2
  <2> QED BY <1>2, <1>5, <2>2, <2>3, <2>4, <2>5 DEF ShownFits
<1>9. PollFits'
  <2> DEFINE polls == [stage : {"idle", "asked", "answered"}, since : Nat, upTo : Nat, timeUp : BOOLEAN]
             again == [stage |-> "asked", since |-> poll.upTo, upTo |-> 0, timeUp |-> FALSE]
  <2>1. Asked(poll.upTo) = again /\ again \in polls
    BY <1>2, AskedIs
  <2>2. NoPoll \in polls /\ NoPoll.stage = "idle" /\ NoPoll.since = 0 /\ NoPoll.upTo = 0
    BY DEF NoPoll
  <2>3. poll' = (IF pokeMissed THEN again ELSE NoPoll) /\ pokeMissed' = FALSE
    BY <1>5, <2>1 DEF PollOver
  <2>4. /\ poll' \in polls /\ poll'.stage # "answered"
        /\ poll'.stage = "idle" \/ poll'.since = Len(shown')
        /\ poll'.since <= Len(turns) /\ poll'.upTo <= Len(turns)
    <3>1. CASE pokeMissed
      BY <1>2, <1>8, <2>1, <2>3, <3>1
    <3>2. CASE ~ pokeMissed
      BY <1>2, <2>2, <2>3, <3>2
    <3> QED BY <3>1, <3>2
  <2> HIDE DEF polls, again
  <2>5. poll' \in [stage : {"idle", "asked", "answered"}, since : Nat, upTo : Nat, timeUp : BOOLEAN]
    BY <2>4 DEF polls
  <2>6. pokeMissed' => poll'.stage # "idle"
    BY <2>3
  <2>7. ~ stale' /\ ~ poke' /\ poll'.stage = "idle" => Len(shown') = Len(turns')
    BY <1>1, <1>2, <1>5, <1>8, <2>1, <2>3 DEF PollFits, again
  <2> QED BY <1>1, <1>5, <2>3, <2>4, <2>5, <2>6, <2>7 DEF PollFits
<1>10. turns' \in Seq(Kinds)
  BY <1>1, <1>5
<1> QED BY <1>6, <1>7, <1>8, <1>9, <1>10 DEF PageInv

\* The candidate ends the round.
LEMMA PressesEndKeeps == ASSUME PageInv, PressesEnd PROVE PageInv'
<1>1. /\ UNCHANGED <<turns, poke, doorbell, poll, pokeMissed, shown, stale>>
      /\ Plays(Stopped(Playback)) /\ PlaybackFits(Playback)
      /\ speech' = [speech EXCEPT !.muted = TRUE, !.speaking = FALSE]
  BY DEF PressesEnd, PageInv
<1>2. PlaybackIn(Stopped(Playback), turns', speech'.speaking)
  BY <1>1, StoppedFits
<1>3. PlaybackFits(Playback)'
  BY <1>1, <1>2, PlaysFits
<1>4. SpeechFits'
  BY <1>1 DEF PageInv, SpeechFits
<1> QED BY <1>1, <1>3, <1>4, PollsStay DEF PageInv

\* Nothing was said.
LEMMA PageStarts == RoundPageInit => PageInv
<1> SUFFICES ASSUME RoundPageInit PROVE PageInv
  OBVIOUS
<1>1. PlaybackFits(Playback)
  BY DEF RoundPageInit, PlaybackFits, PlaybackIn, Playback, Playbacks, Sounds, Silent, Audible
<1>2. turns = <<>> /\ shown = <<>> /\ poll = NoPoll /\ ~ pokeMissed /\ ~ poke /\ ~ stale
      /\ {pokeMissed, poke, stale, doorbell} \subseteq BOOLEAN
  BY DEF RoundPageInit
<1>3. turns \in Seq(Kinds) /\ shown \in Seq(Nat) /\ Len(turns) = 0 /\ Len(shown) = 0
  BY <1>2
<1>4. NoPoll.stage = "idle" /\ NoPoll.since = 0 /\ NoPoll.upTo = 0 /\ NoPoll \in
        [stage : {"idle", "asked", "answered"}, since : Nat, upTo : Nat, timeUp : BOOLEAN]
  BY DEF NoPoll
<1>5. PollFits
  BY <1>2, <1>3, <1>4 DEF PollFits
<1>6. ShownFits
  BY <1>2, <1>3 DEF ShownFits
<1>7. SpeechFits
  <2>1. speech \in [speaking : {FALSE}, muted : {FALSE}, voice : BOOLEAN]
    BY DEF RoundPageInit
  <2> QED BY <2>1 DEF SpeechFits
<1> QED BY <1>1, <1>3, <1>5, <1>6, <1>7 DEF PageInv

\* Every step of the page keeps it.
LEMMA PageStep == PageInv /\ [RoundPageNext]_roundPageVars => PageInv'
<1> SUFFICES ASSUME PageInv, RoundPageNext \/ UNCHANGED roundPageVars
             PROVE  PageInv'
  OBVIOUS
<1>1. CASE UNCHANGED roundPageVars \/ TimeIsUp \/ ServerEnds \/ EndAnswered
  <2>1. UNCHANGED <<turns, poke, doorbell, poll, pokeMissed, shown, stale, speech, audio, held,
                    replaced, ackCut>>
    BY <1>1 DEF roundPageVars, TimeIsUp, ServerEnds, EndAnswered
  <2>2. PlaybackFits(Playback)'
    BY <2>1, PlaybackStays
  <2> QED BY <2>1, <2>2, PollsStay DEF PageInv, SpeechFits
<1>2. CASE RoundPageNext /\ ~ (TimeIsUp \/ ServerEnds \/ EndAnswered)
  BY <1>2, ServerSpeaksKeeps, PollingKeeps, SoundKeeps, PollReturnsKeeps, PressesEndKeeps
     DEF RoundPageNext, PollingStep
<1> QED BY <1>1, <1>2

---------------------------------------------------------------------------
(* What the voice channel holds.                                           *)

\* All that a relay holds is of the first n segments, and its buffer has room.
RelayHeld(r, n) ==
  /\ \A i \in DOMAIN r.out : r.out[i].of \in 1..n
  /\ Len(r.out) <= OutCap
  /\ r.heard \subseteq 1..n /\ r.partial \subseteq 1..n
  /\ \A k \in DOMAIN r.answers : r.answers[k] \subseteq 1..n
  /\ \A i \in DOMAIN r.said : r.said[i].words \subseteq 1..n

\* The bounds on the channel, beside what VoiceInv says of it.
VoiceHeld ==
  /\ RelayHeld(relay, began)
  /\ began <= MaxSegments /\ spent <= VoiceCap
  /\ carried \in BOOLEAN /\ voiceClosed \in BOOLEAN
  /\ voiceFaults \in 0..MaxVoiceFaults

\* A sequence of what is also in a smaller set.
LEMMA SeqNarrows ==
  ASSUME NEW S, NEW T, NEW s \in Seq(S), \A i \in 1..Len(s) : s[i] \in T
  PROVE  s \in Seq(T)
OBVIOUS

\* On the channel.
LEMMA VoiceHolds == VoiceInv /\ VoiceHeld => VoiceTypeOK
<1> SUFFICES ASSUME VoiceInv, VoiceHeld PROVE VoiceTypeOK
  OBVIOUS
<1>1. /\ mic \in Mics /\ began \in Nat /\ spent \in Nat
      /\ relay \in Relays /\ StampsFit(relay, began)
      /\ RelayHeld(relay, began) /\ began <= MaxSegments /\ spent <= VoiceCap
  BY DEF VoiceInv, VoiceIn, VoiceHeld
<1>2. /\ relay.out \in Seq(Messages) /\ relay.answers \in Seq(SUBSET Nat) /\ relay.said \in Seq(Utts)
      /\ relay.current \in Nat /\ relay.open \in Nat /\ relay.watchdog \in BOOLEAN
      /\ relay.sock \in {"none", "connecting", "open", "errored"}
  BY <1>1 DEF Relays
<1>3. 1..began \subseteq Segments
  BY <1>1, VoiceBoundsAssumption DEF Segments
<1>4. relay.current \in {NoSegment} \cup Segments
  BY <1>1, <1>2, VoiceBoundsAssumption DEF StampsFit, NoSegment, Segments
<1>5. relay.open \in 0..MaxSegments
  BY <1>1, <1>2, VoiceBoundsAssumption DEF StampsFit, NoSegment
<1>6. relay.out \in Seq([of : Segments, commit : BOOLEAN])
  <2> DEFINE T == [of : Segments, commit : BOOLEAN]
  <2>1. \A i \in 1..Len(relay.out) : relay.out[i] \in T
    <3>1. \A i \in 1..Len(relay.out) : relay.out[i] \in Messages /\ relay.out[i].of \in Segments
      BY <1>1, <1>2, <1>3 DEF RelayHeld
    <3> QED BY <3>1 DEF Messages
  <2> HIDE DEF T
  <2>2. relay.out \in Seq(T)
    BY <1>2, <2>1, SeqNarrows
  <2> QED BY <2>2 DEF T
<1>7. relay.answers \in Seq(SUBSET Segments)
  <2>1. \A i \in 1..Len(relay.answers) : relay.answers[i] \in SUBSET Segments
    BY <1>1, <1>2, <1>3 DEF RelayHeld
  <2> QED BY <1>2, <2>1, SeqNarrows
<1>8. ASSUME NEW i \in DOMAIN relay.said
      PROVE  relay.said[i] \in [stamp : {NoSegment} \cup Segments, words : SUBSET Segments]
  <2>1. relay.said[i] \in Utts
    BY <1>2
  <2>2. relay.said[i].stamp <= MaxSegments
    BY <1>1, <2>1, VoiceBoundsAssumption DEF StampsFit, Utts
  <2>3. relay.said[i].stamp \in {NoSegment} \cup Segments
    BY <2>1, <2>2, VoiceBoundsAssumption DEF Utts, NoSegment, Segments
  <2>4. relay.said[i].words \in SUBSET Segments
    BY <1>1, <1>3 DEF RelayHeld
  <2> QED BY <2>1, <2>3, <2>4 DEF Utts
<1>9. Len(relay.out) <= OutCap /\ relay.heard \subseteq Segments /\ relay.partial \subseteq Segments
  BY <1>1, <1>3 DEF RelayHeld
<1>10. /\ mic \in [phase : {"idle", "maybe", "speaking"}, muted : BOOLEAN, linked : BOOLEAN]
       /\ began \in 0..MaxSegments /\ spent \in 0..VoiceCap
       /\ voiceFaults \in 0..MaxVoiceFaults
  BY <1>1, VoiceBoundsAssumption, VoiceCapAssumption DEF Mics, VoiceHeld
<1>11. {relay.watchdog, carried, voiceClosed} \subseteq BOOLEAN
  BY <1>2 DEF VoiceHeld
<1> QED BY <1>2, <1>4, <1>5, <1>6, <1>7, <1>8, <1>9, <1>10, <1>11 DEF VoiceTypeOK

\* Silence.
LEMMA VoiceHeldStarts == VoiceInit => VoiceHeld
<1> SUFFICES ASSUME VoiceInit PROVE VoiceHeld
  OBVIOUS
<1>1. /\ relay.out = <<>> /\ relay.heard = {} /\ relay.partial = {} /\ relay.answers = <<>>
      /\ relay.said = <<>>
  BY DEF VoiceInit
<1>2. RelayHeld(relay, began)
  BY <1>1, VoiceBoundsAssumption DEF RelayHeld
<1>3. began = 0 /\ spent = 0 /\ voiceFaults = 0
  BY DEF VoiceInit
<1>4. carried \in BOOLEAN /\ voiceClosed \in BOOLEAN
  BY DEF VoiceInit
<1> QED BY <1>2, <1>3, <1>4, VoiceBoundsAssumption, VoiceCapAssumption DEF VoiceHeld

\* A relay that holds as much in these, or less.
LEMMA HeldStays ==
  ASSUME NEW r, NEW q, NEW n \in Nat, NEW k \in Nat, n <= k, RelayHeld(r, n),
         q.out \in {r.out, <<>>}, q.heard \in {r.heard, {}}, q.partial \in {r.partial, r.heard, {}},
         q.answers \in {r.answers, <<>>}, q.said = r.said
  PROVE  RelayHeld(q, k)
<1>1. 1..n \subseteq 1..k
  OBVIOUS
<1>2. DOMAIN <<>> = {} /\ Len(<<>>) = 0
  OBVIOUS
<1>3. (\A i \in DOMAIN q.out : q.out[i].of \in 1..k) /\ Len(q.out) <= OutCap
  BY <1>1, <1>2, VoiceBoundsAssumption DEF RelayHeld
<1>4. q.heard \subseteq 1..k /\ q.partial \subseteq 1..k
  BY <1>1 DEF RelayHeld
<1>5. \A i \in DOMAIN q.answers : q.answers[i] \subseteq 1..k
  BY <1>1, <1>2 DEF RelayHeld
<1>6. \A i \in DOMAIN q.said : q.said[i].words \subseteq 1..k
  BY <1>1 DEF RelayHeld
<1> QED BY <1>3, <1>4, <1>5, <1>6 DEF RelayHeld

\* One utterance more, of words that were heard.
LEMMA HeldSaid ==
  ASSUME NEW r \in Relays, NEW q \in Relays, NEW n \in Nat, RelayHeld(r, n), NEW c \in Nat,
         NEW w, w \subseteq 1..n, q.said = Append(r.said, [stamp |-> c, words |-> w]),
         q.out = r.out, q.heard = r.heard, q.partial = {},
         \A k \in DOMAIN q.answers : q.answers[k] \subseteq 1..n
  PROVE  RelayHeld(q, n)
<1> DEFINE u == [stamp |-> c, words |-> w]
<1>1. u.words = w
  OBVIOUS
<1>2. r.said \in Seq(Utts) /\ q.said = Append(r.said, u)
  BY DEF Relays
<1> HIDE DEF u
<1>3. ASSUME NEW i \in DOMAIN q.said
      PROVE  q.said[i].words \subseteq 1..n
  <2>1. (i \in DOMAIN r.said /\ q.said[i] = r.said[i]) \/ q.said[i] = u
    BY <1>2, <1>3
  <2> QED BY <1>1, <2>1 DEF RelayHeld
<1> QED BY <1>3 DEF RelayHeld

\* The segment under way recorded without words.
LEMMA FlushHeld ==
  ASSUME NEW r \in Relays, NEW n \in Nat, RelayHeld(r, n)
  PROVE  RelayHeld(flushUntranscribed(r), n)
<1> DEFINE q == flushUntranscribed(r)
<1>1. /\ q \in Relays /\ q.out = r.out /\ q.heard = r.heard /\ q.answers = r.answers
      /\ r.current = NoSegment => q.said = r.said /\ q.partial = r.partial
      /\ r.current # NoSegment =>
           q.said = Append(r.said, [stamp |-> r.current, words |-> {}]) /\ q.partial = {}
  BY FlushIs
<1>2. r.current \in Nat /\ {} \subseteq 1..n
  BY DEF Relays
<1> HIDE DEF q
<1>3. CASE r.current = NoSegment
  <2>1. RelayHeld(q, n)
    BY <1>1, <1>3, HeldStays
  <2> QED BY <2>1 DEF q
<1>4. CASE r.current # NoSegment
  <2>1. RelayHeld(q, n)
    <3>1. \A k \in DOMAIN q.answers : q.answers[k] \subseteq 1..n
      BY <1>1 DEF RelayHeld
    <3> QED BY <1>1, <1>2, <1>4, <3>1, HeldSaid
  <2> QED BY <2>1 DEF q
<1> QED BY <1>3, <1>4

\* A message that is heard.
LEMMA HearsHeld ==
  ASSUME NEW r \in Relays, NEW n \in Nat, RelayHeld(r, n), NEW m \in Messages, m.of \in 1..n
  PROVE  RelayHeld(Hears(r, m), n)
<1> DEFINE q == Hears(r, m)
<1>1. /\ q \in Relays /\ q.out = r.out /\ q.partial = r.partial /\ q.said = r.said
      /\ m.commit => q.answers = Append(r.answers, r.heard) /\ q.heard = {}
      /\ ~ m.commit => q.answers = r.answers /\ q.heard = r.heard \cup {m.of}
  BY HearsIs
<1>2. r.answers \in Seq(SUBSET Nat)
  BY DEF Relays
<1> HIDE DEF q
<1>3. q.heard \subseteq 1..n
  BY <1>1 DEF RelayHeld
<1>4. ASSUME NEW k \in DOMAIN q.answers
      PROVE  q.answers[k] \subseteq 1..n
  <2>1. (k \in DOMAIN r.answers /\ q.answers[k] = r.answers[k]) \/ q.answers[k] = r.heard
    BY <1>1, <1>2, <1>4
  <2> QED BY <2>1 DEF RelayHeld
<1>5. RelayHeld(q, n)
  BY <1>1, <1>3, <1>4 DEF RelayHeld
<1> QED BY <1>5 DEF q

\* A message that is sent, now or later.
LEMMA SentHeld ==
  ASSUME NEW r \in Relays, NEW n \in Nat, RelayHeld(r, n), NEW m \in Messages, m.of \in 1..n,
         NEW q, Sends(r, m, q)
  PROVE  q \in Relays /\ RelayHeld(q, n)
<1>1. CASE q = Hears(r, m)
  BY <1>1, HearsHeld, HearsIs
<1>2. CASE q = Buffered(r, m)
  <2> DEFINE all == Append(r.out, m)
  <2>1. /\ q \in Relays /\ q.partial = r.partial /\ q.said = r.said /\ q.answers = r.answers
        /\ q.heard = r.heard
    BY <1>2, BufferIs
  <2>2. q.out = IF Len(all) > OutCap THEN Tail(all) ELSE all
    <3>1. q = [r EXCEPT !.out = IF Len(all) > OutCap THEN Tail(all) ELSE all]
      BY <1>2 DEF Buffered
    <3> HIDE DEF all
    <3> QED BY <3>1 DEF Relays
  <2>3. r.out \in Seq(Messages) /\ Len(r.out) \in Nat /\ Len(r.out) <= OutCap
    BY DEF Relays, RelayHeld
  <2>4. /\ all \in Seq(Messages) /\ Len(all) = Len(r.out) + 1 /\ DOMAIN all = 1..Len(all)
        /\ \A i \in DOMAIN all : all[i] = IF i = Len(r.out) + 1 THEN m ELSE r.out[i]
        /\ DOMAIN r.out = 1..Len(r.out)
    BY <2>3
  <2> HIDE DEF all
  <2>5. \A i \in DOMAIN all : all[i].of \in 1..n
    BY <2>3, <2>4 DEF RelayHeld
  <2>6. /\ Len(Tail(all)) = Len(r.out)
        /\ \A i \in DOMAIN Tail(all) : i + 1 \in DOMAIN all /\ Tail(all)[i] = all[i + 1]
    BY <2>3, <2>4
  <2>7. (\A i \in DOMAIN q.out : q.out[i].of \in 1..n) /\ Len(q.out) <= OutCap
    <3>1. CASE Len(all) > OutCap
      BY <2>2, <2>3, <2>5, <2>6, <3>1
    <3>2. CASE ~ (Len(all) > OutCap)
      BY <2>2, <2>3, <2>4, <2>5, <3>2, VoiceBoundsAssumption
    <3> QED BY <3>1, <3>2
  <2>8. RelayHeld(q, n)
    BY <2>1, <2>7 DEF RelayHeld
  <2> QED BY <2>1, <2>8
<1> QED BY <1>1, <1>2 DEF Sends

\* The first of the buffer reach the service.
LEMMA FirstHeld ==
  ASSUME NEW r \in Relays, NEW n \in Nat, RelayHeld(r, n), NEW l \in 0..Len(r.out)
  PROVE  HearsFirst(r, l) \in Relays /\ RelayHeld(HearsFirst(r, l), n)
<1>1. PICK a : /\ HearsFirst(r, l) = a[l]
               /\ a[0] = r /\ \A i \in 1..l : a[i] = Hears(a[i - 1], r.out[i])
  BY HeardInTurn
<1>2. l \in Nat /\ \A i \in 1..l : r.out[i] \in Messages /\ r.out[i].of \in 1..n
  BY DEF Relays, RelayHeld
<1> DEFINE G == {i \in 0..l : a[i] \in Relays /\ RelayHeld(a[i], n)}
<1>3. 0 \in G
  BY <1>1, <1>2
<1>4. ASSUME NEW i \in 1..l, i - 1 \in G
      PROVE  i \in G
  <2>1. a[i - 1] \in Relays /\ RelayHeld(a[i - 1], n)
    BY <1>4
  <2>2. Hears(a[i - 1], r.out[i]) \in Relays /\ RelayHeld(Hears(a[i - 1], r.out[i]), n)
    BY <1>2, <2>1, HearsHeld, HearsIs
  <2> QED BY <1>1, <1>2, <2>2
<1>5. 0..l \subseteq G
  <2> HIDE DEF G
  <2> QED BY <1>2, <1>3, <1>4, Upward
<1>6. l \in 0..l
  BY <1>2
<1> QED BY <1>1, <1>5, <1>6

\* A word of the service, of what was heard.
LEMMA WordsHeld ==
  ASSUME NEW r \in Relays, NEW n \in Nat, RelayHeld(r, n), r.answers # <<>>,
         NEW w \in {Head(r.answers), r.partial, {}}
  PROVE  RelayHeld(Said([r EXCEPT !.answers = Tail(@), !.watchdog = FALSE,
                                  !.current = NoSegment, !.partial = {}], r.current, w), n)
<1> DEFINE p == [r EXCEPT !.answers = Tail(r.answers), !.watchdog = FALSE,
                          !.current = NoSegment, !.partial = {}]
           u == [stamp |-> r.current, words |-> w]
           q == Said(p, r.current, w)
<1>1. r.answers \in Seq(SUBSET Nat) /\ Tail(r.answers) \in Seq(SUBSET Nat) /\ r.current \in Nat
      /\ r.said \in Seq(Utts) /\ r.open \in Nat
  BY DEF Relays
<1>2. \A k \in DOMAIN Tail(r.answers) : k + 1 \in DOMAIN r.answers /\ Tail(r.answers)[k] = r.answers[k + 1]
  BY <1>1
<1>3. 1 \in DOMAIN r.answers /\ Head(r.answers) = r.answers[1]
  BY <1>1
<1>4. w \subseteq 1..n
  BY <1>3 DEF RelayHeld
<1>5. u \in Utts /\ u.words = w
  BY <1>1, <1>4 DEF Utts
<1>6. p \in Relays /\ p.answers = Tail(r.answers) /\ p.partial = {} /\ p.out = r.out /\ p.heard = r.heard
      /\ p.said = r.said /\ p.open = r.open
  BY <1>1 DEF Relays, NoSegment
<1>7. q = [p EXCEPT !.said = Append(p.said, u), !.open = IF p.open = 0 THEN 0 ELSE p.open - 1]
  BY DEF Said
<1> HIDE DEF p, u
<1>8. q.said = Append(r.said, u) /\ q.answers = Tail(r.answers) /\ q.partial = {} /\ q.out = r.out
      /\ q.heard = r.heard
  BY <1>6, <1>7 DEF Relays
<1> HIDE DEF q
<1>9. ASSUME NEW i \in DOMAIN q.said
      PROVE  q.said[i].words \subseteq 1..n
  <2>1. (i \in DOMAIN r.said /\ q.said[i] = r.said[i]) \/ q.said[i] = u
    BY <1>1, <1>5, <1>8, <1>9
  <2> QED BY <1>4, <1>5, <2>1 DEF RelayHeld
<1>10. \A k \in DOMAIN q.answers : q.answers[k] \subseteq 1..n
  BY <1>2, <1>8 DEF RelayHeld
<1>11. RelayHeld(q, n)
  BY <1>8, <1>9, <1>10 DEF RelayHeld
<1> QED BY <1>11 DEF q, p

\* A relay whose socket is gone.
LEMMA CutHeld ==
  ASSUME NEW r \in Relays, NEW n \in Nat, RelayHeld(r, n)
  PROVE  Cut(r) \in Relays /\ RelayHeld(Cut(r), n)
<1> DEFINE q == Cut(r)
<1>1. q \in Relays /\ q.heard = {} /\ q.answers = <<>> /\ q.out = r.out /\ q.partial = r.partial
      /\ q.said = r.said
  BY CutIs
<1> HIDE DEF q
<1>2. RelayHeld(q, n)
  BY <1>1, HeldStays
<1> QED BY <1>1, <1>2 DEF q

\* A segment begins, with the relay as the last one left it.
LEMMA StartsHeld ==
  ASSUME VoiceInv, VoiceHeld, OnSpeechStart(began + 1)
  PROVE  /\ RelayHeld(relay', began + 1)
         /\ carried' \in BOOLEAN
         /\ voiceFaults' = voiceFaults \/ VoiceFault
<1> DEFINE n == began + 1
<1>1. relay \in Relays /\ began \in Nat /\ n \in Nat /\ RelayHeld(relay, began) /\ RelayHeld(relay, n)
  <2>1. relay \in Relays /\ began \in Nat /\ RelayHeld(relay, began)
    BY DEF VoiceInv, VoiceIn, VoiceHeld
  <2>2. n \in Nat /\ began <= n
    BY <2>1
  <2> HIDE DEF n
  <2> QED BY <2>1, <2>2, HeldStays
<1>2. CASE voiceClosed \/ exhausted
  BY <1>1, <1>2 DEF OnSpeechStart, VoiceHeld
<1>3. CASE ~ (voiceClosed \/ exhausted)
  <2> DEFINE f == flushUntranscribed(relay)
             started == [f EXCEPT !.current = n, !.partial = {}, !.open = f.open + 1]
             q == Cut(started)
  <2>1. f \in Relays /\ RelayHeld(f, n)
    BY <1>1, FlushIs, FlushHeld
  <2>2. /\ carried' = (carried \/ relay.out # <<>>)
        /\ relay' = [q EXCEPT !.sock = "connecting"] \/ relay' = q
        /\ voiceFaults' = voiceFaults \/ VoiceFault
    BY <1>3 DEF OnSpeechStart
  <2> HIDE DEF f
  <2> HIDE DEF n
  <2>3. started \in Relays /\ started.out = f.out /\ started.heard = f.heard /\ started.partial = {}
        /\ started.answers = f.answers /\ started.said = f.said
    <3>1. PICK o \in Nat : o = f.open + 1
      BY <2>1 DEF Relays
    <3>2. started = [f EXCEPT !.current = n, !.partial = {}, !.open = o]
      BY <3>1
    <3>3. n \in Nat
      BY <1>1
    <3> HIDE DEF started
    <3> QED BY <2>1, <3>2, <3>3 DEF Relays
  <2> HIDE DEF started
  <2>4. RelayHeld(started, n)
    BY <1>1, <2>1, <2>3, HeldStays
  <2>5. q \in Relays /\ RelayHeld(q, n)
    BY <1>1, <2>3, <2>4, CutHeld
  <2> HIDE DEF q
  <2>6. relay'.out = q.out /\ relay'.heard = q.heard /\ relay'.partial = q.partial
        /\ relay'.answers = q.answers /\ relay'.said = q.said
    BY <2>2, <2>5 DEF Relays
  <2>7. RelayHeld(relay', n)
    BY <1>1, <2>5, <2>6, HeldStays
  <2>8. carried' \in BOOLEAN
    BY <2>2, Zenon
  <2> QED BY <2>2, <2>7, <2>8 DEF n
<1> QED BY <1>2, <1>3

\* A chunk of sound arrives.
LEMMA AudioHeld ==
  ASSUME VoiceInv, VoiceHeld, OnAudio(began)
  PROVE  /\ RelayHeld(relay', began) /\ spent' <= VoiceCap
         /\ voiceFaults' = voiceFaults \/ VoiceFault
<1>1. relay \in Relays /\ began \in Nat /\ spent \in Nat /\ RelayHeld(relay, began)
      /\ StampsFit(relay, began) /\ spent <= VoiceCap
  BY DEF VoiceInv, VoiceIn, VoiceHeld
<1>2. CASE voiceClosed \/ exhausted \/ relay.current = NoSegment
  BY <1>1, <1>2 DEF OnAudio
<1>3. CASE ~ (voiceClosed \/ exhausted \/ relay.current = NoSegment)
  <2>1. spent' = spent + 1 /\ Sends(relay, Chunk(began), relay') /\ ~ (spent >= VoiceCap)
        /\ (voiceFaults' = voiceFaults \/ VoiceFault)
    BY <1>3, SentIs DEF OnAudio, exhausted, SendThrows, Sends
  <2>2. began \in 1..began
    BY <1>1, <1>3 DEF StampsFit, NoSegment, Relays
  <2>3. Chunk(began) \in Messages /\ Chunk(began).of \in 1..began
    BY <1>1, <2>2 DEF Chunk, Messages
  <2>4. RelayHeld(relay', began)
    BY <1>1, <2>1, <2>3, SentHeld
  <2> QED BY <1>1, <2>1, <2>4, VoiceCapAssumption
<1> QED BY <1>2, <1>3

\* The words are asked for.
LEMMA EndHeld ==
  ASSUME VoiceInv, VoiceHeld, OnSpeechEnd(began)
  PROVE  RelayHeld(relay', began) /\ (voiceFaults' = voiceFaults \/ VoiceFault)
<1>1. relay \in Relays /\ began \in Nat /\ RelayHeld(relay, began) /\ StampsFit(relay, began)
  BY DEF VoiceInv, VoiceIn, VoiceHeld
<1>2. CASE voiceClosed \/ relay.current = NoSegment
  BY <1>1, <1>2 DEF OnSpeechEnd
<1>3. CASE ~ (voiceClosed \/ relay.current = NoSegment) /\ relay.sock = "none"
  BY <1>1, <1>3, FlushHeld DEF OnSpeechEnd
<1>4. CASE ~ (voiceClosed \/ relay.current = NoSegment) /\ relay.sock # "none"
  <2>1. PICK s : Sends(relay, Commit(began), s) /\ relay' = [s EXCEPT !.watchdog = TRUE]
    <3>1. \/ relay' = [Sent(relay, Commit(began)) EXCEPT !.watchdog = TRUE]
          \/ relay' = [Buffered(relay, Commit(began)) EXCEPT !.watchdog = TRUE]
      BY <1>4 DEF OnSpeechEnd
    <3> QED BY <3>1, SentIs DEF Sends
  <2> DEFINE q == [s EXCEPT !.watchdog = TRUE]
  <2>2. began \in 1..began
    BY <1>1, <1>4 DEF StampsFit, NoSegment, Relays
  <2>3. Commit(began) \in Messages /\ Commit(began).of \in 1..began
    BY <1>1, <2>2 DEF Commit, Messages
  <2>4. s \in Relays /\ RelayHeld(s, began)
    BY <1>1, <2>1, <2>3, SentHeld
  <2>5. q.out = s.out /\ q.heard = s.heard /\ q.partial = s.partial /\ q.answers = s.answers
        /\ q.said = s.said
    BY <2>4 DEF Relays
  <2> HIDE DEF q
  <2>6. RelayHeld(q, began)
    BY <1>1, <2>4, <2>5, HeldStays
  <2>7. voiceFaults' = voiceFaults \/ VoiceFault
    BY <1>4 DEF OnSpeechEnd, SendThrows
  <2> QED BY <2>1, <2>6, <2>7 DEF q
<1> QED BY <1>2, <1>3, <1>4

\* A step of the channel that only takes from the relay.
LEMMA OtherVoiceHeld ==
  ASSUME VoiceInv, VoiceHeld, RelayHeld(relay', began), began' = began, spent' = spent,
         carried' = carried, voiceClosed' \in BOOLEAN,
         voiceFaults' = voiceFaults \/ VoiceFault
  PROVE  VoiceHeld'
<1>1. voiceFaults' \in 0..MaxVoiceFaults
  BY VoiceBoundsAssumption DEF VoiceHeld, VoiceFault
<1>2. RelayHeld(relay, began)'
  BY DEF RelayHeld
<1> QED BY <1>1, <1>2 DEF VoiceHeld

\* Every step on the channel.
LEMMA VoiceHeldStep == VoiceInv /\ VoiceHeld /\ [VoiceNext]_voiceVars => VoiceHeld'
<1> SUFFICES ASSUME VoiceInv, VoiceHeld, [VoiceNext]_voiceVars PROVE VoiceHeld'
  OBVIOUS
<1>a. relay \in Relays /\ began \in Nat /\ spent \in Nat /\ RelayHeld(relay, began)
      /\ voiceClosed \in BOOLEAN
  BY DEF VoiceInv, VoiceIn, VoiceHeld
<1>b. ASSUME relay' = relay, began' = began, spent' = spent, carried' = carried,
             voiceClosed' = voiceClosed, voiceFaults' = voiceFaults \/ VoiceFault
      PROVE  VoiceHeld'
  BY <1>a, <1>b, OtherVoiceHeld
<1>1. CASE UNCHANGED voiceVars
  BY <1>1, <1>b DEF voiceVars
<1>2. CASE MaybeSpeech \/ Transient \/ Mutes \/ Unmutes \/ LinkDrops \/ PageReloads
  BY <1>2, <1>b DEF MaybeSpeech, Transient, Mutes, Unmutes, LinkDrops, PageReloads
<1>3. CASE SpeechStarts
  <2>1. began < MaxSegments /\ began' = began + 1 /\ OnSpeechStart(began + 1)
        /\ UNCHANGED <<spent, voiceClosed>>
    BY <1>3 DEF SpeechStarts
  <2>2. /\ RelayHeld(relay', began') /\ carried' \in BOOLEAN
        /\ voiceFaults' = voiceFaults \/ VoiceFault
    BY <2>1, StartsHeld
  <2>3. RelayHeld(relay, began)'
    BY <2>2 DEF RelayHeld
  <2>4. voiceFaults' \in 0..MaxVoiceFaults
    BY <2>2, VoiceBoundsAssumption DEF VoiceHeld, VoiceFault
  <2>5. began' <= MaxSegments
    BY <1>a, <2>1, VoiceBoundsAssumption
  <2> QED BY <2>1, <2>2, <2>3, <2>4, <2>5 DEF VoiceHeld
<1>4. CASE Speaks
  <2>1. OnAudio(began) /\ UNCHANGED <<began, carried, voiceClosed>>
    BY <1>4 DEF Speaks
  <2>2. /\ RelayHeld(relay', began') /\ spent' <= VoiceCap
        /\ voiceFaults' = voiceFaults \/ VoiceFault
    BY <2>1, AudioHeld
  <2>3. RelayHeld(relay, began)'
    BY <2>2 DEF RelayHeld
  <2>4. voiceFaults' \in 0..MaxVoiceFaults
    BY <2>2, VoiceBoundsAssumption DEF VoiceHeld, VoiceFault
  <2> QED BY <2>1, <2>2, <2>3, <2>4 DEF VoiceHeld
<1>5. CASE SpeechEnds
  BY <1>5, <1>a, EndHeld, OtherVoiceHeld DEF SpeechEnds
<1>6. CASE Opens
  <2>0. PICK n \in 0..Len(relay.out) :
          relay' = [HearsFirst(relay, n) EXCEPT !.sock = "open",
                                                !.out = SubSeq(relay.out, n + 1, Len(relay.out))]
    BY <1>6 DEF Opens
  <2> DEFINE q == HearsFirst(relay, n)
             o == SubSeq(relay.out, n + 1, Len(relay.out))
  <2>1. q \in Relays /\ RelayHeld(q, began)
    BY <1>a, FirstHeld
  <2>2. relay' = [q EXCEPT !.sock = "open", !.out = o]
        /\ UNCHANGED <<began, spent, carried, voiceClosed>>
        /\ (voiceFaults' = voiceFaults \/ VoiceFault)
    BY <1>6, <2>0 DEF Opens
  <2>5. /\ o \in Seq(Messages) /\ DOMAIN o = 1..Len(o) /\ Len(o) = Len(relay.out) - n
        /\ \A i \in 1..Len(o) : i + n \in DOMAIN relay.out /\ o[i] = relay.out[i + n]
    <3>1. relay.out \in Seq(Messages)
      BY <1>a DEF Relays
    <3> QED BY <3>1, RestIs
  <2>6. Len(o) <= OutCap /\ \A i \in DOMAIN o : o[i].of \in 1..began
    <3>1. Len(relay.out) \in Nat /\ n \in Nat /\ Len(relay.out) <= OutCap
      BY <1>a DEF RelayHeld, Relays
    <3>2. Len(o) <= OutCap
      BY <2>5, <3>1, VoiceBoundsAssumption
    <3> QED BY <1>a, <2>5, <3>2 DEF RelayHeld
  <2> HIDE DEF q, o
  <2>3. relay'.out = o /\ relay'.heard = q.heard /\ relay'.partial = q.partial
        /\ relay'.answers = q.answers /\ relay'.said = q.said
    BY <2>1, <2>2, <2>5 DEF Relays
  <2>4. RelayHeld(relay', began)
    BY <1>a, <2>1, <2>3, <2>6 DEF RelayHeld
  <2> QED BY <1>a, <2>2, <2>4, OtherVoiceHeld
<1>7. CASE SendsPartial
  <2>1. relay' = [relay EXCEPT !.partial = relay.heard]
        /\ UNCHANGED <<began, spent, carried, voiceClosed, voiceFaults>>
    BY <1>7 DEF SendsPartial
  <2>2. relay'.out = relay.out /\ relay'.heard = relay.heard /\ relay'.partial = relay.heard
        /\ relay'.answers = relay.answers /\ relay'.said = relay.said
    BY <1>a, <2>1 DEF Relays
  <2>3. RelayHeld(relay', began)
    BY <1>a, <2>2, HeldStays
  <2> QED BY <1>a, <2>1, <2>3, OtherVoiceHeld
<1>8. CASE SendsWords
  <2>1. PICK w \in {Head(relay.answers), relay.partial, {}} :
          relay' = Said([relay EXCEPT !.answers = Tail(@), !.watchdog = FALSE,
                                      !.current = NoSegment, !.partial = {}], relay.current, w)
    BY <1>8 DEF SendsWords
  <2>2. relay.answers # <<>> /\ UNCHANGED <<began, spent, carried, voiceClosed, voiceFaults>>
    BY <1>8 DEF SendsWords
  <2>3. RelayHeld(relay', began)
    BY <1>a, <2>1, <2>2, WordsHeld
  <2> QED BY <1>a, <2>2, <2>3, OtherVoiceHeld
<1>9. CASE Closes
  BY <1>9, <1>a, CutHeld, OtherVoiceHeld DEF Closes
<1>10. CASE Errs
  <2> DEFINE q == Cut(relay)
  <2>1. q \in Relays /\ RelayHeld(q, began)
    BY <1>a, CutHeld
  <2>2. relay' = [q EXCEPT !.sock = "errored"] /\ VoiceFault
        /\ UNCHANGED <<began, spent, carried, voiceClosed>>
    BY <1>10 DEF Errs
  <2> HIDE DEF q
  <2>3. relay'.out = q.out /\ relay'.heard = q.heard /\ relay'.partial = q.partial
        /\ relay'.answers = q.answers /\ relay'.said = q.said
    BY <2>1, <2>2 DEF Relays
  <2>4. RelayHeld(relay', began)
    BY <1>a, <2>1, <2>3, HeldStays
  <2> QED BY <1>a, <2>2, <2>4, OtherVoiceHeld
<1>11. CASE WatchdogFires
  <2>1. UNCHANGED <<began, spent, carried, voiceClosed, voiceFaults>>
    BY <1>11 DEF WatchdogFires
  <2>2. RelayHeld(relay', began)
    <3>1. CASE relay.current = NoSegment
      <4>1. relay' = [relay EXCEPT !.watchdog = FALSE]
        BY <1>11, <3>1 DEF WatchdogFires
      <4>2. relay'.out = relay.out /\ relay'.heard = relay.heard /\ relay'.partial = relay.partial
            /\ relay'.answers = relay.answers /\ relay'.said = relay.said
        BY <1>a, <4>1 DEF Relays
      <4> QED BY <1>a, <4>2, HeldStays
    <3>2. CASE relay.current # NoSegment
      <4>1. relay' = Cut(flushUntranscribed(relay))
        BY <1>11, <3>2 DEF WatchdogFires
      <4>2. flushUntranscribed(relay) \in Relays /\ RelayHeld(flushUntranscribed(relay), began)
        BY <1>a, FlushIs, FlushHeld
      <4> QED BY <1>a, <4>1, <4>2, CutHeld
    <3> QED BY <3>1, <3>2
  <2> QED BY <1>a, <2>1, <2>2, OtherVoiceHeld
<1>12. CASE VoiceCloses
  <2> DEFINE q == Cut(relay)
  <2>1. q \in Relays /\ RelayHeld(q, began)
    BY <1>a, CutHeld
  <2>2. relay' = [q EXCEPT !.watchdog = FALSE] /\ voiceClosed' = TRUE
        /\ UNCHANGED <<began, spent, carried, voiceFaults>>
    BY <1>12 DEF VoiceCloses
  <2> HIDE DEF q
  <2>3. relay'.out = q.out /\ relay'.heard = q.heard /\ relay'.partial = q.partial
        /\ relay'.answers = q.answers /\ relay'.said = q.said
    BY <2>1, <2>2 DEF Relays
  <2>4. RelayHeld(relay', began)
    BY <1>a, <2>1, <2>3, HeldStays
  <2>5. voiceClosed' \in BOOLEAN
    BY <2>2
  <2> QED BY <2>2, <2>4, <2>5, OtherVoiceHeld
<1> QED BY <1>1, <1>2, <1>3, <1>4, <1>5, <1>6, <1>7, <1>8, <1>9, <1>10, <1>11, <1>12 DEF VoiceNext

---------------------------------------------------------------------------
(* What the round's page holds.                                            *)

\* The bounds on the page, beside what PageInv says of it.
PageHeld ==
  /\ Len(turns) <= MaxTurns
  /\ clock \in {"running", "time_up", "ended"}
  /\ loops \in BOOLEAN
  /\ ending \in {"no", "flushing", "grading", "card", "closed", "lost"}
  /\ pageFaults \in 0..MaxPageFaults

\* On the page.
LEMMA PageHolds == PageInv /\ PageHeld => RoundPageTypeOK
<1> SUFFICES ASSUME PageInv, PageHeld PROVE RoundPageTypeOK
  OBVIOUS
<1>1. /\ turns \in Seq(Kinds) /\ Len(turns) \in Nat /\ Len(turns) <= MaxTurns
      /\ DOMAIN turns \subseteq 1..MaxTurns
  BY PageBoundsAssumption DEF PageInv, PageHeld
<1>2. /\ shown \in Seq(Nat) /\ Len(shown) <= Len(turns) /\ \A i \in DOMAIN shown : shown[i] = i
      /\ DOMAIN shown = 1..Len(shown) /\ Len(shown) \in Nat
  BY DEF PageInv, ShownFits
<1>3. shown \in Seq(1..MaxTurns)
  <2>1. \A i \in 1..Len(shown) : shown[i] \in 1..MaxTurns
    BY <1>1, <1>2, PageBoundsAssumption
  <2> QED BY <1>2, <2>1, SeqNarrows
<1>4. poll \in [stage : {"idle", "asked", "answered"}, since : 0..MaxTurns, upTo : 0..MaxTurns,
                timeUp : BOOLEAN]
  <2>1. poll \in [stage : {"idle", "asked", "answered"}, since : Nat, upTo : Nat, timeUp : BOOLEAN]
        /\ poll.since <= Len(turns) /\ poll.upTo <= Len(turns)
    BY DEF PageInv, PollFits
  <2>2. poll.since \in 0..MaxTurns /\ poll.upTo \in 0..MaxTurns
    BY <1>1, <2>1, PageBoundsAssumption
  <2> QED BY <2>1, <2>2
<1>5. Playback \in Playbacks /\ (audio.turn # 0 => audio.turn \in DOMAIN turns)
      /\ (held # 0 => held \in DOMAIN turns)
  BY DEF PageInv, PlaybackFits, PlaybackIn, Playback
<1>6. audio \in Sounds /\ held \in Nat /\ replaced \in BOOLEAN /\ ackCut \in BOOLEAN
  BY <1>5 DEF Playback, Playbacks
<1>7. held \in 0..MaxTurns /\ audio.turn \in 0..MaxTurns
  BY <1>1, <1>5, <1>6, PageBoundsAssumption DEF Sounds
<1>8. audio \in [turn : 0..MaxTurns, stage : {"none", "loading", "sounding", "over"},
                 playing : BOOLEAN]
  BY <1>6, <1>7 DEF Sounds
<1>9. {poke, doorbell, pokeMissed, stale, loops, replaced, ackCut} \subseteq BOOLEAN
  BY <1>6 DEF PageInv, PollFits, PageHeld
<1>10. speech \in [speaking : BOOLEAN, muted : BOOLEAN, voice : BOOLEAN]
  BY DEF PageInv, SpeechFits
<1> QED BY <1>1, <1>3, <1>4, <1>7, <1>8, <1>9, <1>10 DEF RoundPageTypeOK, PageHeld

\* The page is opened.
LEMMA PageHeldStarts == RoundPageInit => PageHeld
<1> SUFFICES ASSUME RoundPageInit PROVE PageHeld
  OBVIOUS
<1>1. turns = <<>> /\ pageFaults = 0 /\ clock = "running" /\ ending = "no"
  BY DEF RoundPageInit
<1>2. loops \in BOOLEAN
  BY DEF RoundPageInit
<1> QED BY <1>1, <1>2, PageBoundsAssumption DEF PageHeld

\* Every step of the page.
LEMMA PageHeldStep == PageInv /\ PageHeld /\ [RoundPageNext]_roundPageVars => PageHeld'
<1> SUFFICES ASSUME PageInv, PageHeld, [RoundPageNext]_roundPageVars PROVE PageHeld'
  OBVIOUS
<1>a. ASSUME Len(turns') <= MaxTurns, clock' \in {clock, "time_up", "ended"}, loops' \in {loops, FALSE},
             ending' \in {ending, "flushing", "grading", "card", "closed", "lost"},
             pageFaults' = pageFaults \/ PageFault
      PROVE  PageHeld'
  <2>1. pageFaults' \in 0..MaxPageFaults
    BY <1>a, PageBoundsAssumption DEF PageHeld, PageFault
  <2>2. loops' \in BOOLEAN
    <3>1. CASE loops' = FALSE
      BY <3>1
    <3>2. CASE loops' = loops
      BY <3>2 DEF PageHeld
    <3> QED BY <1>a, <3>1, <3>2, Zenon
  <2> QED BY <1>a, <2>1, <2>2 DEF PageHeld
<1>b. Len(turns) <= MaxTurns /\ turns \in Seq(Kinds)
  BY DEF PageHeld, PageInv
<1>1. CASE UNCHANGED roundPageVars
  BY <1>1, <1>a, <1>b DEF roundPageVars
<1>2. ASSUME NEW sort \in Kinds, ServerSpeaks(sort)
      PROVE  PageHeld'
  <2>1. turns' = Append(turns, sort) /\ Len(turns) < MaxTurns
        /\ UNCHANGED <<clock, loops, ending, pageFaults>>
    BY <1>2 DEF ServerSpeaks
  <2>2. Len(turns') <= MaxTurns
    <3>1. Len(turns') = Len(turns) + 1 /\ Len(turns) \in Nat
      BY <1>b, <2>1
    <3> QED BY <2>1, <3>1, PageBoundsAssumption
  <2> QED BY <2>1, <2>2, <1>a
<1>3. CASE Polls
  BY <1>3, <1>a, <1>b DEF Polls
<1>4. CASE ServesPoll
  BY <1>4, <1>a, <1>b DEF ServesPoll
<1>5. CASE PollReturns
  <2>1. UNCHANGED <<turns, clock, loops, pageFaults>> /\ ending' \in {ending, "flushing"}
    BY <1>5 DEF PollReturns
  <2> QED BY <2>1, <1>a, <1>b
<1>6. CASE PollFails \/ DoorbellDies
  BY <1>6, <1>a, <1>b DEF PollFails, DoorbellDies
<1>7. CASE SoundStarts \/ SoundStops \/ HoldExpires \/ SentenceStarts \/ SentenceEnds \/ Toggles
  BY <1>7, <1>a, <1>b DEF SoundStarts, SoundStops, HoldExpires, SentenceStarts, SentenceEnds, Toggles
<1>8. CASE TimeIsUp \/ ServerEnds
  BY <1>8, <1>a, <1>b DEF TimeIsUp, ServerEnds
<1>9. CASE PressesEnd
  BY <1>9, <1>a, <1>b DEF PressesEnd
<1>10. CASE AsksToEnd \/ SeesItEnded
  BY <1>10, <1>a, <1>b DEF AsksToEnd, SeesItEnded, LoopsStop
<1>11. CASE EndAnswered
  <2>1. UNCHANGED <<turns, loops>> /\ clock' \in {clock, "ended"} /\ ending' \in {"closed", "card", "lost"}
        /\ (pageFaults' = pageFaults \/ PageFault)
    BY <1>11 DEF EndAnswered
  <2> QED BY <2>1, <1>a, <1>b
<1> QED BY <1>1, <1>2, <1>3, <1>4, <1>5, <1>6, <1>7, <1>8, <1>9, <1>10, <1>11 DEF RoundPageNext

---------------------------------------------------------------------------
(* What the initiative holds.                                              *)

\* The moments spoken of, the hints that were silenced, and the latest move.
InitiativeHeld ==
  /\ kind \in {"one_failing_test", "all_failing"}
  /\ Len(trace) <= MaxEvents
  /\ fired \subseteq Moments
  /\ wrapUp \in BOOLEAN /\ redirected \in BOOLEAN
  /\ strikes \in [Positions -> 0..2]
  /\ move.what \in {"nothing", "stuck", "redirect"} \union Moments

\* Unasked.
LEMMA InitiativeHolds == InitiativeInv /\ InitiativeHeld => InitiativeTypeOK
<1> SUFFICES ASSUME InitiativeInv, InitiativeHeld PROVE InitiativeTypeOK
  OBVIOUS
<1>1. trace \in Seq(Events)
  BY DEF InitiativeInv
<1> HIDE DEF Events
<1>2. Len(trace) \in 0..MaxEvents /\ \A i \in DOMAIN trace : trace[i] \in Events
  BY <1>1, EventsAssumption DEF InitiativeHeld
<1> QED BY <1>2 DEF InitiativeHeld, InitiativeTypeOK

\* Nothing happened.
LEMMA InitiativeHeldStarts == InitiativeInit => InitiativeHeld
<1> SUFFICES ASSUME InitiativeInit PROVE InitiativeHeld
  OBVIOUS
<1>1. kind \in {"one_failing_test", "all_failing"} /\ Len(trace) = 0 /\ fired = {}
      /\ strikes \in [Positions -> 0..2]
  BY DEF InitiativeInit
<1>2. wrapUp \in BOOLEAN /\ redirected \in BOOLEAN
  BY DEF InitiativeInit
<1>3. move.what = "nothing"
  BY DEF InitiativeInit, Nothing
<1> QED BY <1>1, <1>2, <1>3, EventsAssumption DEF InitiativeHeld

\* Every event and every tick.
LEMMA InitiativeHeldStep == InitiativeInv /\ InitiativeHeld /\ [InitiativeNext]_initiativeVars => InitiativeHeld'
<1> SUFFICES ASSUME InitiativeInv, InitiativeHeld, [InitiativeNext]_initiativeVars PROVE InitiativeHeld'
  OBVIOUS
<1>a. ASSUME kind' = kind, Len(trace') <= MaxEvents, fired' \subseteq Moments,
             wrapUp' = wrapUp \/ wrapUp' = TRUE, redirected' = redirected \/ redirected' = TRUE,
             strikes' \in [Positions -> 0..2],
             move'.what \in {"nothing", "stuck", "redirect"} \union Moments
      PROVE  InitiativeHeld'
  <2>1. wrapUp' \in BOOLEAN /\ redirected' \in BOOLEAN
    BY <1>a DEF InitiativeHeld
  <2> QED BY <1>a, <2>1 DEF InitiativeHeld
<1>b. /\ trace \in Seq(Events) /\ Len(trace) <= MaxEvents /\ fired \subseteq Moments
      /\ strikes \in [Positions -> 0..2]
      /\ move.what \in {"nothing", "stuck", "redirect"} \union Moments
  BY DEF InitiativeInv, InitiativeHeld
<1>0. CASE UNCHANGED initiativeVars
  BY <1>0, <1>a, <1>b DEF initiativeVars
<1>1. CASE CandidateActs
  <2>1. PICK e \in Events : trace' = Append(trace, e)
    BY <1>1 DEF CandidateActs
  <2>2. Len(trace) < MaxEvents /\ UNCHANGED <<kind, fired, wrapUp, redirected, strikes, move>>
    BY <1>1 DEF CandidateActs
  <2>3. Len(trace') <= MaxEvents
    <3>1. Len(trace') = Len(trace) + 1 /\ Len(trace) \in Nat
      BY <1>b, <2>1
    <3> QED BY <2>2, <3>1, EventsAssumption
  <2> QED BY <1>a, <1>b, <2>2, <2>3
<1>2. CASE TickWraps
  BY <1>2, <1>a, <1>b DEF TickWraps
<1>3. CASE TickUrgent
  <2>1. UrgentMoment \in Moments
    BY <1>3 DEF TickUrgent, UrgentMoment, Moments
  <2>2. fired' = fired \union {UrgentMoment} /\ move' = [what |-> UrgentMoment, at |-> Len(trace)]
        /\ UNCHANGED <<kind, trace, wrapUp, redirected, strikes>>
    BY <1>3 DEF TickUrgent
  <2>3. move'.what = UrgentMoment
    BY <2>2
  <2> QED BY <1>a, <1>b, <2>1, <2>2, <2>3
<1>4. CASE TickHelps
  <2>1. move' = [what |-> "stuck", since |-> DetectStuck.since, at |-> Len(trace)]
        /\ UNCHANGED <<kind, trace, fired, wrapUp, redirected, strikes>>
    BY <1>4 DEF TickHelps
  <2>2. move'.what = "stuck"
    BY <2>1
  <2> QED BY <1>a, <1>b, <2>1, <2>2
<1>5. CASE HintIsSilenced
  <2>1. /\ strikes[move.since] < 2
        /\ strikes' = [strikes EXCEPT ![move.since] = strikes[move.since] + 1]
        /\ move' = Nothing
        /\ UNCHANGED <<kind, trace, fired, wrapUp, redirected>>
    BY <1>5 DEF HintIsSilenced
  <2>2. strikes' \in [Positions -> 0..2]
    <3>1. CASE move.since \in Positions
      <4>1. strikes[move.since] + 1 \in 0..2
        BY <1>b, <2>1, <3>1
      <4> QED BY <1>b, <2>1, <4>1
    <3>2. CASE move.since \notin Positions
      BY <1>b, <2>1, <3>2
    <3> QED BY <3>1, <3>2
  <2>3. move'.what = "nothing"
    BY <2>1 DEF Nothing
  <2> QED BY <1>a, <1>b, <2>1, <2>2, <2>3
<1>6. CASE TickRedirects
  <2>1. PICK w : move' = [what |-> "redirect", since |-> w, at |-> Len(trace)]
    BY <1>6 DEF TickRedirects
  <2>2. redirected' = TRUE /\ UNCHANGED <<kind, trace, fired, wrapUp, strikes>>
    BY <1>6 DEF TickRedirects
  <2>3. move'.what = "redirect"
    BY <2>1
  <2> QED BY <1>a, <1>b, <2>2, <2>3
<1>7. CASE TickMoment
  <2>1. PICK m \in Moments : fired' = fired \union {m} /\ move' = [what |-> m, at |-> Len(trace)]
    BY <1>7 DEF TickMoment
  <2>2. UNCHANGED <<kind, trace, wrapUp, redirected, strikes>>
    BY <1>7 DEF TickMoment
  <2>3. move'.what = m
    BY <2>1
  <2> QED BY <1>a, <1>b, <2>1, <2>2, <2>3
<1> QED BY <1>0, <1>1, <1>2, <1>3, <1>4, <1>5, <1>6, <1>7 DEF InitiativeNext

---------------------------------------------------------------------------
(* What the conversation holds.                                            *)

\* No line is later than the clock, and the conversation has its bound.
TalkHeld ==
  /\ Len(talk) <= MaxTalk
  /\ \A i \in DOMAIN talk : talk[i].at <= MaxHour

RoutingHeld ==
  /\ gates \in 0..MaxChecks /\ owed \in BOOLEAN
  /\ routed \in [words : SUBSET DOMAIN talk, long : BOOLEAN,
                 path : {"none", "asked", "answered", "gate"}]

\* The bounds on the conversation, beside what SpeechInv says of it.
SpeechHeld ==
  /\ TalkHeld /\ RoutingHeld
  /\ buffered \subseteq [line : DOMAIN talk, shape : Shapes]
  /\ wrapping \in BOOLEAN /\ hour <= MaxHour

\* In the conversation.
LEMMA ConversationHolds == SpeechInv /\ SpeechHeld => SpeakingTypeOK
<1> SUFFICES ASSUME SpeechInv, SpeechHeld PROVE SpeakingTypeOK
  OBVIOUS
<1>1. talk \in Seq(Lines) /\ hour \in Nat /\ found \subseteq KeyFiles
      /\ turn \in [lane : Lanes \cup {"none"}, forbidden : SUBSET Leaks,
                   governed : BOOLEAN, exempt : BOOLEAN]
  BY DEF SpeechInv, SpeechTypes
<1>2. ASSUME NEW i \in DOMAIN talk
      PROVE  talk[i] \in [kind : {"words", "turn", "ack", "time"}, help : BOOLEAN,
                    stance : Stances, leak : Leaks, governed : BOOLEAN,
                    exempt : BOOLEAN, at : 0..MaxHour]
  <2>1. talk[i] \in Lines
    BY <1>1
  <2>2. talk[i].at \in 0..MaxHour
    BY <2>1, SpeakingBoundsAssumption DEF Lines, SpeechHeld, TalkHeld
  <2> QED BY <2>1, <2>2 DEF Lines
<1>3. hour \in 0..MaxHour
  BY <1>1, SpeakingBoundsAssumption DEF SpeechHeld
<1> QED BY <1>1, <1>2, <1>3 DEF SpeakingTypeOK, SpeechHeld, TalkHeld, RoutingHeld

\* Nobody has spoken.
LEMMA SpeechHeldStarts == SpeakingInit => SpeechHeld
<1> SUFFICES ASSUME SpeakingInit PROVE SpeechHeld
  OBVIOUS
<1>1. talk = <<>> /\ buffered = {} /\ gates = 0 /\ hour = 0 /\ routed = NoRouting
  BY DEF SpeakingInit
<1>2. owed \in BOOLEAN /\ wrapping \in BOOLEAN
  BY DEF SpeakingInit
<1>3. NoRouting \in [words : SUBSET DOMAIN talk, long : BOOLEAN,
                     path : {"none", "asked", "answered", "gate"}]
  BY DEF NoRouting
<1> QED BY <1>1, <1>2, <1>3, SpeakingBoundsAssumption DEF SpeechHeld, TalkHeld, RoutingHeld

\* One line more, said now.
LEMMA SayHeld ==
  ASSUME SpeechInv, SpeechHeld, NEW l \in Lines, l.at <= MaxHour, Say(l)
  PROVE  /\ TalkHeld' /\ DOMAIN talk \subseteq DOMAIN talk' /\ Len(talk') \in DOMAIN talk'
<1>1. talk \in Seq(Lines) /\ Len(talk) < MaxTalk /\ talk' = Append(talk, l)
      /\ \A i \in DOMAIN talk : talk[i].at <= MaxHour
  BY DEF SpeechInv, SpeechTypes, SpeechHeld, TalkHeld, Say
<1>2. Len(talk') = Len(talk) + 1 /\ DOMAIN talk = 1..Len(talk) /\ DOMAIN talk' = 1..Len(talk')
      /\ talk'[Len(talk')] = l /\ \A i \in DOMAIN talk : talk'[i] = talk[i]
  BY <1>1, OneMoreLine
<1>3. Len(talk) \in Nat
  BY <1>1
<1>4. Len(talk') <= MaxTalk
  BY <1>1, <1>2, <1>3, SpeakingBoundsAssumption
<1>5. \A i \in DOMAIN talk' : i \in DOMAIN talk \/ i = Len(talk')
  BY <1>2, <1>3
<1>6. \A i \in DOMAIN talk' : talk'[i].at <= MaxHour
  BY <1>1, <1>2, <1>5
<1>7. DOMAIN talk \subseteq DOMAIN talk' /\ Len(talk') \in DOMAIN talk'
  BY <1>2, <1>3
<1> QED BY <1>4, <1>6, <1>7 DEF TalkHeld

\* A line without words of the model.
LEMMA PlainLine ==
  ASSUME NEW k \in {"words", "ack", "time"}, NEW leak \in {"none", "term"}, hour \in Nat, hour <= MaxHour
  PROVE  Line(k, "states", leak) \in Lines /\ Line(k, "states", leak).at <= MaxHour
<1>1. Line(k, "states", leak) \in Lines
  BY LineFacts
<1>2. Line(k, "states", leak).at \in {0, hour}
  BY DEF Line
<1> QED BY <1>1, <1>2, SpeakingBoundsAssumption

\* What is routed was said.
LEMMA RouteHeld ==
  ASSUME RoutingHeld, NEW lines, NEW segments, \A s \in segments : s.line \in DOMAIN talk',
         routeUtterance(lines, segments)
  PROVE  RoutingHeld'
<1>1. PICK long \in Length(segments), path \in {"asked", "answered", "gate"} :
        /\ routed' = [words |-> {s.line : s \in segments}, long |-> long, path |-> path]
        /\ path = "gate" => gates < MaxChecks
        /\ gates' = gates + IF path = "gate" THEN 1 ELSE 0
        /\ owed' = (owed \/ path # "gate")
  BY DEF routeUtterance
<1>2. Length(segments) \subseteq BOOLEAN
  BY DEF Length
<1>3. long \in BOOLEAN
  BY <1>2
<1>4. {s.line : s \in segments} \in SUBSET DOMAIN talk'
  OBVIOUS
<1>5. routed' \in [words : SUBSET DOMAIN talk', long : BOOLEAN,
                   path : {"none", "asked", "answered", "gate"}]
  <2> DEFINE w == {s.line : s \in segments}
  <2>1. w \in SUBSET DOMAIN talk' /\ routed' = [words |-> w, long |-> long, path |-> path]
    BY <1>1, <1>4
  <2> HIDE DEF w
  <2> QED BY <1>3, <2>1
<1>6. gates' \in 0..MaxChecks
  BY <1>1, SpeakingBoundsAssumption DEF RoutingHeld
<1>7. owed' \in BOOLEAN
  BY <1>1
<1> QED BY <1>5, <1>6, <1>7 DEF RoutingHeld

\* Nothing is routed, and a check may be over.
LEMMA NoRouteHeld ==
  ASSUME RoutingHeld, routed' = NoRouting, gates' \in {gates, gates - 1}, gates' # gates => gates > 0,
         owed' \in BOOLEAN
  PROVE  RoutingHeld'
<1>1. NoRouting \in [words : SUBSET DOMAIN talk', long : BOOLEAN,
                     path : {"none", "asked", "answered", "gate"}]
  BY DEF NoRouting
<1>2. gates' \in 0..MaxChecks
  BY SpeakingBoundsAssumption DEF RoutingHeld
<1> QED BY <1>1, <1>2 DEF RoutingHeld

\* Every step of the conversation.
LEMMA SpeechHeldStep == SpeechInv /\ SpeechHeld /\ [SpeakingNext]_speakingVars => SpeechHeld'
<1> SUFFICES ASSUME SpeechInv, SpeechHeld, [SpeakingNext]_speakingVars PROVE SpeechHeld'
  OBVIOUS
<1>a. /\ talk \in Seq(Lines) /\ hour \in Nat /\ hour <= MaxHour /\ TalkHeld /\ RoutingHeld
      /\ buffered \subseteq [line : DOMAIN talk, shape : Shapes]
      /\ wrapping \in BOOLEAN /\ owed \in BOOLEAN
  BY DEF SpeechInv, SpeechTypes, SpeechHeld, RoutingHeld
<1>b. ASSUME talk' = talk, buffered' \in {buffered, {}}, RoutingHeld', wrapping' \in BOOLEAN,
             hour' = hour \/ (hour < MaxHour /\ hour' = hour + 1)
      PROVE  SpeechHeld'
  <2>1. hour' <= MaxHour
    BY <1>a, <1>b, SpeakingBoundsAssumption
  <2>2. TalkHeld'
    BY <1>a, <1>b DEF TalkHeld
  <2>3. buffered' \subseteq [line : DOMAIN talk', shape : Shapes]
    BY <1>a, <1>b
  <2> QED BY <1>b, <2>1, <2>2, <2>3 DEF SpeechHeld
<1>c. ASSUME NEW l \in Lines, l.at <= MaxHour, Say(l), RoutingHeld', UNCHANGED <<wrapping, hour>>,
             buffered' = buffered \/ \E shape \in Shapes :
               buffered' = buffered \cup {[line |-> Len(talk'), shape |-> shape]}
      PROVE  SpeechHeld'
  <2>1. TalkHeld' /\ DOMAIN talk \subseteq DOMAIN talk' /\ Len(talk') \in DOMAIN talk'
    BY <1>c, SayHeld
  <2>2. buffered' \subseteq [line : DOMAIN talk', shape : Shapes]
    BY <1>a, <1>c, <2>1
  <2> QED BY <1>a, <1>c, <2>1, <2>2 DEF SpeechHeld
<1>0. CASE UNCHANGED speakingVars
  <2>1. RoutingHeld'
    BY <1>0, <1>a DEF speakingVars, RoutingHeld
  <2> QED BY <1>0, <1>a, <1>b, <2>1 DEF speakingVars
<1>1. CASE SpeakSegment
  <2>1. PICK leak \in {"none", "term"} : Say(Line("words", "states", leak))
    BY <1>1 DEF SpeakSegment, SayWords
  <2>2. Line("words", "states", leak) \in Lines /\ Line("words", "states", leak).at <= MaxHour
    BY <1>a, PlainLine
  <2>3. RoutingHeld'
    BY <1>1, <1>a, NoRouteHeld DEF SpeakSegment
  <2>4. UNCHANGED <<wrapping, hour>> /\ \E shape \in Shapes :
               buffered' = buffered \cup {[line |-> Len(talk'), shape |-> shape]}
    BY <1>1 DEF SpeakSegment
  <2> QED BY <2>1, <2>2, <2>3, <2>4, <1>c
<1>2. CASE FlushSpeech
  <2>1. routeUtterance(talk, buffered) /\ buffered' = {} /\ UNCHANGED <<talk, wrapping, hour>>
    BY <1>2 DEF FlushSpeech
  <2>2. \A s \in buffered : s.line \in DOMAIN talk'
    BY <1>a, <2>1
  <2>3. RoutingHeld'
    BY <1>a, <2>1, <2>2, RouteHeld
  <2> QED BY <1>a, <1>b, <2>1, <2>3
<1>3. CASE TypeWords
  <2>1. PICK leak \in {"none", "term"} : Say(Line("words", "states", leak))
    BY <1>3 DEF TypeWords, SayWords
  <2>2. Line("words", "states", leak) \in Lines /\ Line("words", "states", leak).at <= MaxHour
    BY <1>a, PlainLine
  <2>3. PICK shape \in Shapes : routeUtterance(talk', {[line |-> Len(talk'), shape |-> shape]})
    BY <1>3 DEF TypeWords
  <2>4. Len(talk') \in DOMAIN talk'
    BY <2>1, <2>2, SayHeld
  <2>5. RoutingHeld'
    <3> DEFINE segments == {[line |-> Len(talk'), shape |-> shape]}
    <3>1. \A s \in segments : s.line \in DOMAIN talk'
      BY <2>4
    <3> HIDE DEF segments
    <3> QED BY <1>a, <2>3, <3>1, RouteHeld DEF segments
  <2> QED BY <1>3, <2>1, <2>2, <2>5, <1>c DEF TypeWords
<1>4. ASSUME NEW f \in KeyFiles, Visit(f)
      PROVE  SpeechHeld'
  <2>1. UNCHANGED <<talk, buffered, gates, owed, wrapping, hour>> /\ routed' = NoRouting
    BY <1>4 DEF Visit
  <2>2. RoutingHeld'
    BY <1>a, <2>1, NoRouteHeld
  <2> QED BY <1>a, <1>b, <2>1, <2>2
<1>5. CASE Reply
  <2>1. UNCHANGED <<talk, buffered, gates, wrapping, hour>> /\ routed' = NoRouting /\ owed' = FALSE
    BY <1>5 DEF Reply
  <2>2. RoutingHeld'
    BY <1>a, <2>1, NoRouteHeld
  <2> QED BY <1>a, <1>b, <2>1, <2>2
<1>6. ASSUME NEW lane \in Lanes, Initiate(lane)
      PROVE  SpeechHeld'
  <2>1. UNCHANGED <<talk, buffered, gates, owed, wrapping, hour>> /\ routed' = NoRouting
    BY <1>6 DEF Initiate
  <2>2. RoutingHeld'
    BY <1>a, <2>1, NoRouteHeld
  <2> QED BY <1>a, <1>b, <2>1, <2>2
<1>7. CASE Judge
  <2>1. UNCHANGED <<talk, buffered, wrapping, hour>> /\ routed' = NoRouting
        /\ gates > 0 /\ gates' = gates - 1
    BY <1>7 DEF Judge
  <2>2. PICK addressed \in BOOLEAN : owed' = (owed \/ addressed)
    BY <1>7 DEF Judge
  <2>3. owed' \in BOOLEAN
    BY <2>2
  <2>4. RoutingHeld'
    BY <1>a, <2>1, <2>3, NoRouteHeld
  <2> QED BY <1>a, <1>b, <2>1, <2>4
<1>8. CASE Utter
  <2>1. PICK stance \in Stances, leak \in Leaks : Say(Guarded(stance, leak))
    BY <1>8 DEF Utter
  <2>2. Guarded(stance, leak) \in Lines /\ Guarded(stance, leak).at <= MaxHour
    <3>1. Guarded(stance, leak) \in Lines
      BY <1>a, GuardedFacts DEF SpeechInv, SpeechTypes
    <3>2. Guarded(stance, leak).at = hour
      BY <1>a DEF Guarded, Line
    <3> QED BY <1>a, <3>1, <3>2
  <2>3. UNCHANGED <<buffered, gates, owed, wrapping, hour>> /\ routed' = NoRouting
    BY <1>8 DEF Utter
  <2>4. RoutingHeld'
    BY <1>a, <2>3, NoRouteHeld
  <2> QED BY <1>c, <2>1, <2>2, <2>3, <2>4
<1>9. CASE KeepSilent
  <2>1. UNCHANGED <<talk, buffered, gates, owed, wrapping, hour>> /\ routed' = NoRouting
    BY <1>9 DEF KeepSilent
  <2>2. RoutingHeld'
    BY <1>a, <2>1, NoRouteHeld
  <2> QED BY <1>a, <1>b, <2>1, <2>2
<1>10. CASE Ack \/ AnnounceTime
  <2>1. PICK k \in {"ack", "time"} : Say(Line(k, "states", "none"))
    BY <1>10 DEF Ack, AnnounceTime
  <2>2. Line(k, "states", "none") \in Lines /\ Line(k, "states", "none").at <= MaxHour
    BY <1>a, PlainLine
  <2>3. UNCHANGED <<buffered, gates, owed, wrapping, hour>> /\ routed' = NoRouting
    BY <1>10 DEF Ack, AnnounceTime
  <2>4. RoutingHeld'
    BY <1>a, <2>3, NoRouteHeld
  <2> QED BY <1>c, <2>1, <2>2, <2>3, <2>4
<1>11. CASE WrapUp
  <2>1. UNCHANGED <<talk, buffered, gates, owed, hour>> /\ routed' = NoRouting
        /\ wrapping' = ~ wrapping
    BY <1>11 DEF WrapUp
  <2>2. RoutingHeld'
    BY <1>a, <2>1, NoRouteHeld
  <2>3. wrapping' \in BOOLEAN
    BY <2>1
  <2> QED BY <1>a, <1>b, <2>1, <2>2, <2>3
<1>12. CASE HourPasses
  <2>1. UNCHANGED <<talk, buffered, gates, owed, wrapping>> /\ routed' = NoRouting
        /\ hour < MaxHour /\ hour' = hour + 1
    BY <1>12 DEF HourPasses
  <2>2. RoutingHeld'
    BY <1>a, <2>1, NoRouteHeld
  <2> QED BY <1>a, <1>b, <2>1, <2>2
<1> QED BY <1>0, <1>1, <1>2, <1>3, <1>4, <1>5, <1>6, <1>7, <1>8, <1>9, <1>10, <1>11, <1>12
        DEF SpeakingNext
=============================================================================
