----------------------- MODULE InterviewerTurnsProofs -----------------------
(***************************************************************************)
(* Proofs about InterviewerTurns, for any set of words, any episodes and   *)
(* any number of initiatives.                                              *)
(*                                                                         *)
(* The argument: at most one call is out, so what a turn read of the wrap  *)
(* and help books when it was dispatched still holds when it is booked;    *)
(* and turns being judged or queued are pairwise apart, so that moving one *)
(* moves each of its words exactly once.                                   *)
(***************************************************************************)
EXTENDS InterviewerTurns, TLAPS

---------------------------------------------------------------------------
(* The inductive invariant.                                                *)

\* What the call that is out assumed about the wrap-up is still so.
WrapBooks ==
  /\ wrapAsked \in 0..WRAP_UP_QUESTIONS
  /\ wrapClosed => wrapAsked = WRAP_UP_QUESTIONS
  /\ wrapAsked > 0 => wrapUp
  /\ \A c \in calls :
       /\ c.carries \/ c.lane = "question" => wrapAsked < WRAP_UP_QUESTIONS /\ wrapUp
       /\ c.lane = "closing" => ~ wrapClosed /\ wrapAsked = WRAP_UP_QUESTIONS
       /\ ~ (c.carries /\ c.lane = "question")

\* What it assumed about the budgets of help is still so.
HelpBooks ==
  /\ redirects <= 1
  /\ redirects + adriftRedactions <= MAX_REDACTIONS
  /\ ~ adriftFired => redirects = 0 /\ adriftRedactions < MAX_REDACTIONS
  /\ \A e \in Episodes : stuckRedactions[e] <= MAX_REDACTIONS
  /\ \A c \in calls :
       /\ c.lane = "redirect" => ~ adriftFired
       /\ c.lane \in Episodes => stuckRedactions[c.lane] < MAX_REDACTIONS

\* Turns under way share no words.
TurnsApart ==
  /\ \A a, b \in checking : a # b => a \cap b = {}
  /\ \A i, j \in 1..Len(queue) : i # j => queue[i] \cap queue[j] = {}

Inv == TypeOK /\ OneVoice /\ WrapBooks /\ HelpBooks /\ TurnsApart /\ WordsAccounted

---------------------------------------------------------------------------
(* Queues of turns.                                                        *)

\* What pushing and dropping do to the words of a queue.
LEMMA JoinedAppend ==
  ASSUME NEW q \in Seq(SUBSET Words), NEW turn \in SUBSET Words
  PROVE  Joined(Append(q, turn)) = Joined(q) \cup turn
<1>1. /\ Len(Append(q, turn)) = Len(q) + 1
      /\ \A i \in 1..Len(q) : Append(q, turn)[i] = q[i]
      /\ Append(q, turn)[Len(q) + 1] = turn
  OBVIOUS
<1>2. 1..(Len(q) + 1) = 1..Len(q) \cup {Len(q) + 1}
  OBVIOUS
<1> QED
  BY <1>1, <1>2, Zenon DEF Joined

LEMMA JoinedTail ==
  ASSUME NEW q \in Seq(SUBSET Words), q # <<>>
  PROVE  Joined(q) = Head(q) \cup Joined(Tail(q))
<1>1. /\ Len(Tail(q)) = Len(q) - 1 /\ Head(q) = q[1] /\ Len(q) >= 1
      /\ \A i \in 1..Len(Tail(q)) : Tail(q)[i] = q[i + 1]
  OBVIOUS
<1>2. ASSUME NEW w \in Joined(q)
      PROVE  w \in Head(q) \cup Joined(Tail(q))
  <2>1. PICK i \in 1..Len(q) : w \in q[i]
    BY <1>2 DEF Joined
  <2>2. CASE i = 1
    BY <2>1, <2>2, <1>1
  <2>3. CASE i # 1
    <3>1. i - 1 \in 1..Len(Tail(q)) /\ Tail(q)[i - 1] = q[i]
      BY <2>3, <1>1
    <3> QED
      BY <3>1, <2>1 DEF Joined
  <2> QED
    BY <2>2, <2>3
<1>3. ASSUME NEW w \in Head(q) \cup Joined(Tail(q))
      PROVE  w \in Joined(q)
  <2>1. CASE w \in Head(q)
    BY <2>1, <1>1 DEF Joined
  <2>2. CASE w \in Joined(Tail(q))
    <3>1. PICK i \in 1..Len(Tail(q)) : w \in Tail(q)[i]
      BY <2>2 DEF Joined
    <3>2. i + 1 \in 1..Len(q) /\ w \in q[i + 1]
      BY <3>1, <1>1
    <3> QED
      BY <3>2 DEF Joined
  <2> QED
    BY <1>3, <2>1, <2>2
<1> QED
  BY <1>2, <1>3

\* The dropped turn shares no words with those that stay.
LEMMA HeadApart ==
  ASSUME NEW q \in Seq(SUBSET Words), q # <<>>,
         \A i, j \in 1..Len(q) : i # j => q[i] \cap q[j] = {}
  PROVE  Head(q) \cap Joined(Tail(q)) = {}
<1>1. /\ Len(Tail(q)) = Len(q) - 1 /\ Head(q) = q[1] /\ Len(q) >= 1
      /\ \A i \in 1..Len(Tail(q)) : Tail(q)[i] = q[i + 1]
  OBVIOUS
<1>2. ASSUME NEW w \in Joined(Tail(q)), w \in Head(q)
      PROVE  FALSE
  <2>1. PICK i \in 1..Len(Tail(q)) : w \in Tail(q)[i]
    BY <1>2 DEF Joined
  <2>2. i + 1 \in 1..Len(q) /\ 1 \in 1..Len(q) /\ i + 1 # 1 /\ w \in q[i + 1] /\ w \in q[1]
    BY <2>1, <1>1, <1>2
  <2> QED
    BY <2>2
<1> QED
  BY <1>2

\* Push keeps the queue's type and cap, and keeps its turns apart when the
\* new one is apart from them; its words are then queued or newly evicted.
LEMMA PushKeeps ==
  ASSUME TypeOK, TurnsApart, NEW turn \in SUBSET Words, turn \cap Queued = {},
         Push(turn)
  PROVE  /\ queue' \in Seq(SUBSET Words) /\ Len(queue') <= QUEUE_CAP
         /\ evicted' \in SUBSET Words
         /\ \A i, j \in 1..Len(queue') : i # j => queue'[i] \cap queue'[j] = {}
         /\ \/ Queued' = Queued \cup turn /\ evicted' = evicted
            \/ \E old \in SUBSET Words :
                 /\ old \cap Queued' = {}
                 /\ old \cup Queued' = Queued \cup turn
                 /\ evicted' = evicted \cup old
<1> DEFINE items == Append(queue, turn)
<1>1. /\ queue \in Seq(SUBSET Words) /\ Len(queue) \in Nat /\ Len(queue) <= QUEUE_CAP
      /\ evicted \in SUBSET Words
  BY DEF TypeOK
<1>2. items \in Seq(SUBSET Words) /\ Len(items) = Len(queue) + 1 /\ items # <<>>
  BY <1>1
<1>3. Joined(items) = Queued \cup turn
  BY <1>1, JoinedAppend DEF Queued
<1>4. ASSUME NEW i \in 1..Len(items), NEW j \in 1..Len(items), i # j
      PROVE  items[i] \cap items[j] = {}
  <2>1. \A k \in 1..Len(queue) : items[k] = queue[k] /\ queue[k] \subseteq Queued
    BY <1>1 DEF Queued, Joined
  <2>2. items[Len(queue) + 1] = turn
    BY <1>1
  <2>3. CASE i \in 1..Len(queue) /\ j \in 1..Len(queue)
    BY <2>3, <2>1, <1>4 DEF TurnsApart
  <2>4. CASE i = Len(queue) + 1
    <3>1. j \in 1..Len(queue)
      BY <2>4, <1>4, <1>2, <1>1
    <3> QED
      BY <3>1, <2>4, <2>1, <2>2
  <2>5. CASE j = Len(queue) + 1
    <3>1. i \in 1..Len(queue)
      BY <2>5, <1>4, <1>2, <1>1
    <3> QED
      BY <3>1, <2>5, <2>1, <2>2
  <2> QED
    BY <2>3, <2>4, <2>5, <1>1, <1>2
<1>5. CASE Len(items) > QUEUE_CAP
  <2>1. queue' = Tail(items) /\ evicted' = evicted \cup Head(items)
    BY <1>5 DEF Push
  <2>2. /\ Tail(items) \in Seq(SUBSET Words) /\ Len(Tail(items)) = Len(items) - 1
        /\ Head(items) \in SUBSET Words
        /\ \A i \in 1..Len(Tail(items)) : Tail(items)[i] = items[i + 1]
    BY <1>2
  <2>3. Head(items) \cap Joined(Tail(items)) = {}
    BY <1>2, <1>4, HeadApart
  <2>4. Joined(items) = Head(items) \cup Joined(Tail(items))
    BY <1>2, JoinedTail
  <2>5. Queued' = Joined(Tail(items))
    BY <2>1 DEF Queued
  <2>6. Len(queue') <= QUEUE_CAP
    BY <2>1, <2>2, <1>1, <1>2
  <2>7. \A i, j \in 1..Len(queue') : i # j => queue'[i] \cap queue'[j] = {}
    <3> SUFFICES ASSUME NEW i \in 1..Len(Tail(items)), NEW j \in 1..Len(Tail(items)), i # j
                 PROVE  Tail(items)[i] \cap Tail(items)[j] = {}
      BY <2>1
    <3>1. i + 1 \in 1..Len(items) /\ j + 1 \in 1..Len(items) /\ i + 1 # j + 1
      BY <2>2, <1>2, <1>1
    <3> QED
      BY <3>1, <1>4, <2>2
  <2> HIDE DEF items
  <2> QED
    BY <1>1, <1>3, <2>1, <2>2, <2>3, <2>4, <2>5, <2>6, <2>7
<1>6. CASE ~ (Len(items) > QUEUE_CAP)
  <2>1. queue' = items /\ evicted' = evicted
    BY <1>6 DEF Push
  <2>2. Len(items) <= QUEUE_CAP
    BY <1>6, <1>1, <1>2 DEF QUEUE_CAP
  <2>3. Queued' = Queued \cup turn
    BY <2>1, <1>3 DEF Queued
  <2> HIDE DEF items
  <2> QED
    BY <1>1, <1>2, <1>4, <2>1, <2>2, <2>3
<1> QED
  BY <1>5, <1>6

---------------------------------------------------------------------------
(* The call.                                                               *)

\* A dispatched turn is the only call out, and is put to the model once.
LEMMA Dispatch ==
  ASSUME TypeOK, OneVoice, ~ ended, ~ busy,
         NEW turn \in SUBSET Words, NEW lane \in Lanes,
         RunInterviewer(turn, lane)
  PROVE  /\ calls' = {[words |-> turn, lane |-> lane, carries |-> Carries(turn)]}
         /\ calls' \subseteq Call
         /\ busy' = TRUE
         /\ put' \in [Words -> Nat]
         /\ \A w \in Words : put'[w] = put[w] + At(w, turn)
<1> DEFINE c == [words |-> turn, lane |-> lane, carries |-> Carries(turn)]
<1>1. calls = {}
  BY DEF OneVoice
<1>2. Carries(turn) \in BOOLEAN
  BY DEF Carries
<1>3. c \in Call
  BY <1>2 DEF Call
<1>4. /\ calls' = {c} /\ busy' = TRUE
      /\ put' = [w \in Words |-> put[w] + IF w \in turn THEN 1 ELSE 0]
  BY <1>1 DEF RunInterviewer
<1>5. put \in [Words -> Nat]
  BY DEF TypeOK
<1>6. put' \in [Words -> Nat] /\ \A w \in Words : put'[w] = put[w] + At(w, turn)
  BY <1>4, <1>5 DEF At
<1> QED
  BY <1>3, <1>4, <1>6

\* Only one of the calls' books can be open: the call that is booked was the
\* only one.
LEMMA Last ==
  ASSUME OneVoice, NEW c \in calls, calls' = calls \ {c}
  PROVE  calls = {c} /\ calls' = {}
  BY DEF OneVoice

\* The lane of a wrap-up turn, and what it stands for.
LEMMA LanesApart ==
  /\ Occasions \subseteq Lanes /\ Episodes \subseteq Lanes
  /\ WrapLane \in {"question", "closing"}
  /\ Episodes \cap Occasions = {}
  BY EpisodesAssumption DEF Lanes, Occasions, WrapLane

---------------------------------------------------------------------------
(* Where the words are.                                                    *)

\* A word is in one place only, so the places are apart, and nobody's words
\* are anywhere but in the places.
LEMMA Apart ==
  ASSUME TypeOK, WordsAccounted
  PROVE  /\ held \cap UNION checking = {} /\ held \cap Queued = {}
         /\ unsaid \cap held = {} /\ unsaid \cap UNION checking = {}
         /\ unsaid \cap Queued = {} /\ Queued \cap UNION checking = {}
         /\ (unsaid \cup held \cup (UNION checking) \cup Queued) \cap evicted = {}
         /\ Queued \subseteq Words /\ UNION checking \subseteq Words
<1>1. Queued \subseteq Words
  <2>1. \A i \in 1..Len(queue) : queue[i] \subseteq Words
    BY DEF TypeOK
  <2> QED
    BY <2>1 DEF Queued, Joined
<1>2. UNION checking \subseteq Words
  BY DEF TypeOK
<1>3. ASSUME NEW w \in Words
      PROVE  ~ \/ w \in held \cap UNION checking \/ w \in held \cap Queued
               \/ w \in unsaid \cap held \/ w \in unsaid \cap UNION checking
               \/ w \in unsaid \cap Queued \/ w \in Queued \cap UNION checking
               \/ w \in (unsaid \cup held \cup (UNION checking) \cup Queued) \cap evicted
  <2>1. put[w] \in Nat
    BY DEF TypeOK
  <2>2. Whereabouts(w) <= 1
    BY DEF WordsAccounted
  <2> QED
    BY <2>1, <2>2 DEF Whereabouts, At
<1> QED
  BY <1>1, <1>2, <1>3 DEF TypeOK

\* Taking a turn out of those being judged takes out just its words.
LEMMA TakeOut ==
  ASSUME TurnsApart, NEW turn \in checking, checking' = checking \ {turn}
  PROVE  /\ turn \cap UNION checking' = {}
         /\ turn \cup UNION checking' = UNION checking
         /\ \A a, b \in checking' : a # b => a \cap b = {}
  BY DEF TurnsApart

\* Moving words from one place to another.  The sums are compared word by word.
LEMMA Moved ==
  ASSUME TypeOK, WordsAccounted, ended => ended', ended' \in BOOLEAN,
         put' \in [Words -> Nat],
         \A w \in Words :
           /\ Whereabouts(w)' <= Whereabouts(w)
           /\ ~ ended' => Whereabouts(w)' = Whereabouts(w)
  PROVE  WordsAccounted'
<1> SUFFICES ASSUME NEW w \in Words
             PROVE  Whereabouts(w)' <= 1 /\ (~ ended' => Whereabouts(w)' = 1)
  BY DEF WordsAccounted
<1>1. Whereabouts(w) <= 1 /\ (~ ended => Whereabouts(w) = 1)
  BY DEF WordsAccounted
<1>2. put[w] \in Nat /\ put'[w] \in Nat
  BY DEF TypeOK
<1>3. Whereabouts(w) \in Nat /\ Whereabouts(w)' \in Nat
  BY <1>2 DEF Whereabouts, At
<1> QED
  BY <1>1, <1>3

\* A pushed turn's words join those queued or evicted.
LEMMA PushMoves ==
  ASSUME TypeOK, TurnsApart, NEW turn \in SUBSET Words, Push(turn),
         turn \cap Queued = {}, (turn \cup Queued) \cap evicted = {},
         NEW w \in Words
  PROVE  At(w, Queued') + At(w, evicted') = At(w, Queued) + At(w, evicted) + At(w, turn)
  BY PushKeeps DEF At

\* A routed turn joins those being judged, or is pushed; after the end it is lost.
LEMMA RouteKeeps ==
  ASSUME TypeOK, TurnsApart, NEW turn \in SUBSET Words, Route(turn),
         turn \cap UNION checking = {}, turn \cap Queued = {},
         (turn \cup Queued) \cap evicted = {}
  PROVE  /\ checking' \subseteq SUBSET Words
         /\ queue' \in Seq(SUBSET Words) /\ Len(queue') <= QUEUE_CAP
         /\ evicted' \subseteq Words /\ settling' \in BOOLEAN
         /\ TurnsApart'
         /\ \A w \in Words :
              At(w, UNION checking') + At(w, Queued') + At(w, evicted')
                = At(w, UNION checking) + At(w, Queued) + At(w, evicted)
                    + IF ended THEN 0 ELSE At(w, turn)
<1>1. CASE ended
  <2>1. UNCHANGED <<checking, queue, evicted, settling>>
    BY <1>1 DEF Route
  <2>2. Queued' = Queued /\ TurnsApart'
    BY <2>1 DEF Queued, TurnsApart
  <2>3. ASSUME NEW w \in Words
        PROVE  At(w, UNION checking') + At(w, Queued') + At(w, evicted')
                 = At(w, UNION checking) + At(w, Queued) + At(w, evicted) + 0
    <3>1. At(w, UNION checking) + At(w, Queued) + At(w, evicted) \in Nat
      BY DEF At
    <3> QED
      BY <2>1, <2>2, <3>1
  <2>4. /\ checking' \subseteq SUBSET Words
        /\ queue' \in Seq(SUBSET Words) /\ Len(queue') <= QUEUE_CAP
        /\ evicted' \subseteq Words /\ settling' \in BOOLEAN
    BY <2>1 DEF TypeOK
  <2> QED
    BY <1>1, <2>2, <2>3, <2>4
<1>2. CASE ~ ended /\ Push(turn) /\ Pump(busy) /\ UNCHANGED checking
  <2>1. settling' \in BOOLEAN
    BY <1>2 DEF Pump, TypeOK
  <2>2. /\ queue' \in Seq(SUBSET Words) /\ Len(queue') <= QUEUE_CAP
        /\ evicted' \in SUBSET Words
        /\ \A i, j \in 1..Len(queue') : i # j => queue'[i] \cap queue'[j] = {}
    BY <1>2, PushKeeps
  <2>3. TurnsApart'
    BY <1>2, <2>2 DEF TurnsApart
  <2>4. ASSUME NEW w \in Words
        PROVE  At(w, UNION checking') + At(w, Queued') + At(w, evicted')
                 = At(w, UNION checking) + At(w, Queued) + At(w, evicted) + At(w, turn)
    <3>1. At(w, Queued') + At(w, evicted') = At(w, Queued) + At(w, evicted) + At(w, turn)
      BY <1>2, PushMoves
    <3>2. UNION checking' = UNION checking
      BY <1>2
    <3> QED
      BY <3>1, <3>2 DEF At
  <2> QED
    BY <1>2, <2>1, <2>2, <2>3, <2>4 DEF TypeOK
<1>3. CASE /\ ~ ended /\ checking' = checking \cup {turn}
           /\ UNCHANGED <<queue, evicted, settling>>
  <2>1. TurnsApart'
    BY <1>3 DEF TurnsApart
  <2>2. UNION checking' = (UNION checking) \cup turn /\ Queued' = Queued
    BY <1>3 DEF Queued
  <2>3. ASSUME NEW w \in Words
        PROVE  At(w, UNION checking') + At(w, Queued') + At(w, evicted')
                 = At(w, UNION checking) + At(w, Queued) + At(w, evicted) + At(w, turn)
    BY <1>3, <2>2 DEF At
  <2> QED
    BY <1>3, <2>1, <2>3 DEF TypeOK
<1> QED
  BY <1>1, <1>2, <1>3 DEF Route

---------------------------------------------------------------------------
(* What a step leaves alone stays as it was.                               *)

LEMMA VoiceSame == ASSUME OneVoice, UNCHANGED <<busy, calls>> PROVE OneVoice'
  BY DEF OneVoice

LEMMA WrapSame == ASSUME WrapBooks, UNCHANGED <<wrap, calls>> PROVE WrapBooks'
  BY DEF WrapBooks, wrap

LEMMA HelpSame == ASSUME HelpBooks, UNCHANGED <<help, calls>> PROVE HelpBooks'
  BY DEF HelpBooks, help

LEMMA WordsSame ==
  ASSUME TypeOK, TurnsApart, WordsAccounted, ended => ended', ended' \in BOOLEAN,
         UNCHANGED <<unsaid, words, put, evicted, dismissed>>
  PROVE  TurnsApart' /\ WordsAccounted'
<1>1. TurnsApart'
  BY DEF TurnsApart, words
<1>2. \A w \in Words : Whereabouts(w)' = Whereabouts(w)
  BY DEF Whereabouts, Queued, words
<1>3. \A w \in Words : Whereabouts(w) \in Nat
  BY DEF Whereabouts, At, TypeOK
<1>4. \A w \in Words :
        /\ Whereabouts(w)' <= Whereabouts(w)
        /\ ~ ended' => Whereabouts(w)' = Whereabouts(w)
  BY <1>2, <1>3
<1>5. put' \in [Words -> Nat]
  BY DEF TypeOK
<1>6. WordsAccounted'
  BY <1>4, <1>5, Moved
<1> QED
  BY <1>1, <1>6

---------------------------------------------------------------------------
(* The candidate's steps.                                                  *)

\* Nothing speaks and nothing is booked when the candidate does.
LEMMA TypeKeeps ==
  ASSUME Inv, NEW w \in Words, Type(w)
  PROVE  Inv'
<1>1. /\ w \in unsaid /\ unsaid' = unsaid \ {w} /\ Route({w})
      /\ UNCHANGED <<arrived, ended, held, busy, calls, wrap, help, put, dismissed,
                     initiatives>>
  BY DEF Type
<1>2. TypeOK /\ TurnsApart /\ WordsAccounted
  BY DEF Inv
<1>3. /\ {w} \cap UNION checking = {} /\ {w} \cap Queued = {}
      /\ ({w} \cup Queued) \cap evicted = {}
  BY <1>1, <1>2, Apart
<1>4. /\ checking' \subseteq SUBSET Words
      /\ queue' \in Seq(SUBSET Words) /\ Len(queue') <= QUEUE_CAP
      /\ evicted' \subseteq Words /\ settling' \in BOOLEAN
      /\ TurnsApart'
      /\ \A x \in Words :
           At(x, UNION checking') + At(x, Queued') + At(x, evicted')
             = At(x, UNION checking) + At(x, Queued) + At(x, evicted)
                 + IF ended THEN 0 ELSE At(x, {w})
  BY <1>1, <1>2, <1>3, RouteKeeps
<1>5. TypeOK'
  BY <1>1, <1>2, <1>4 DEF TypeOK, wrap, help
<1>6. WordsAccounted'
  <2>1. ASSUME NEW x \in Words
        PROVE  /\ Whereabouts(x)' <= Whereabouts(x)
               /\ ~ ended' => Whereabouts(x)' = Whereabouts(x)
    <3>1. At(x, unsaid) = At(x, unsaid') + At(x, {w})
      BY <1>1 DEF At
    <3>2. put[x] \in Nat /\ put' = put
      BY <1>1, <1>2 DEF TypeOK
    <3>3. /\ At(x, {w}) \in Nat /\ At(x, unsaid') \in Nat /\ At(x, held) \in Nat
          /\ At(x, UNION checking) \in Nat /\ At(x, Queued) \in Nat
          /\ At(x, evicted) \in Nat /\ At(x, dismissed) \in Nat
          /\ At(x, UNION checking') \in Nat /\ At(x, Queued') \in Nat
          /\ At(x, evicted') \in Nat
      BY DEF At
    <3>4. /\ Whereabouts(x) = At(x, unsaid) + At(x, held) + At(x, UNION checking)
               + At(x, Queued) + put[x] + At(x, evicted) + At(x, dismissed)
          /\ Whereabouts(x)' = At(x, unsaid') + At(x, held) + At(x, UNION checking')
               + At(x, Queued') + put[x] + At(x, evicted') + At(x, dismissed)
      BY <1>1 DEF Whereabouts
    <3>5. At(x, UNION checking') + At(x, Queued') + At(x, evicted')
            = At(x, UNION checking) + At(x, Queued) + At(x, evicted)
                + IF ended THEN 0 ELSE At(x, {w})
      BY <1>4
    <3>6. CASE ended
      <4>1. At(x, UNION checking') + At(x, Queued') + At(x, evicted')
              = At(x, UNION checking) + At(x, Queued) + At(x, evicted)
        BY <3>3, <3>5, <3>6
      <4> QED
        BY <1>1, <3>1, <3>2, <3>3, <3>4, <3>6, <4>1
    <3>7. CASE ~ ended
      <4>1. At(x, UNION checking') + At(x, Queued') + At(x, evicted')
              = At(x, UNION checking) + At(x, Queued) + At(x, evicted) + At(x, {w})
        BY <3>3, <3>5, <3>7
      <4> QED
        BY <3>1, <3>2, <3>3, <3>4, <4>1
    <3> QED
      BY <3>6, <3>7
  <2> QED
    BY <1>1, <1>2, <1>5, <2>1, Moved DEF TypeOK
<1>7. OneVoice' /\ WrapBooks' /\ HelpBooks'
  BY <1>1, VoiceSame, WrapSame, HelpSame DEF Inv
<1> QED
  BY <1>4, <1>5, <1>6, <1>7 DEF Inv

LEMMA SpeakKeeps ==
  ASSUME Inv, NEW w \in Words, Speak(w)
  PROVE  Inv'
<1>1. /\ w \in unsaid /\ unsaid' = unsaid \ {w} /\ held' = held \cup {w}
      /\ UNCHANGED <<arrived, ended, checking, queue, settling, busy, calls, wrap, help,
                     put, evicted, dismissed, initiatives>>
  BY DEF Speak
<1>2. TypeOK /\ TurnsApart /\ WordsAccounted
  BY DEF Inv
<1>3. TypeOK'
  BY <1>1, <1>2 DEF TypeOK, wrap, help
<1>4. TurnsApart' /\ Queued' = Queued
  BY <1>1, <1>2 DEF TurnsApart, Queued
<1>5. w \notin held
  BY <1>1, <1>2, Apart
<1>6. WordsAccounted'
  <2>1. ASSUME NEW x \in Words
        PROVE  Whereabouts(x)' = Whereabouts(x) /\ Whereabouts(x) \in Nat
    <3>1. At(x, unsaid) + At(x, held) = At(x, unsaid') + At(x, held')
      BY <1>1, <1>5 DEF At
    <3>2. put[x] \in Nat
      BY <1>2 DEF TypeOK
    <3>3. /\ At(x, unsaid) \in Nat /\ At(x, held) \in Nat /\ At(x, unsaid') \in Nat
          /\ At(x, held') \in Nat /\ At(x, UNION checking) \in Nat
          /\ At(x, Queued) \in Nat /\ At(x, evicted) \in Nat /\ At(x, dismissed) \in Nat
      BY DEF At
    <3>4. Whereabouts(x)' = At(x, unsaid') + At(x, held') + At(x, UNION checking)
            + At(x, Queued) + put[x] + At(x, evicted) + At(x, dismissed)
      BY <1>1, <1>4 DEF Whereabouts
    <3> QED
      BY <3>1, <3>2, <3>3, <3>4 DEF Whereabouts
  <2>2. \A x \in Words :
          /\ Whereabouts(x)' <= Whereabouts(x)
          /\ ~ ended' => Whereabouts(x)' = Whereabouts(x)
    BY <2>1
  <2> QED
    BY <1>1, <1>2, <1>3, <2>2, Moved DEF TypeOK
<1>7. OneVoice' /\ WrapBooks' /\ HelpBooks'
  BY <1>1, VoiceSame, WrapSame, HelpSame DEF Inv
<1> QED
  BY <1>3, <1>4, <1>6, <1>7 DEF Inv

LEMMA FlushKeeps ==
  ASSUME Inv, Flush
  PROVE  Inv'
<1>1. /\ ~ ended /\ held' = {} /\ Route(held)
      /\ UNCHANGED <<room, busy, calls, wrap, help, put, dismissed, initiatives>>
  BY DEF Flush
<1>2. TypeOK /\ TurnsApart /\ WordsAccounted /\ held \in SUBSET Words
  BY DEF Inv, TypeOK
<1>3. /\ held \cap UNION checking = {} /\ held \cap Queued = {}
      /\ (held \cup Queued) \cap evicted = {}
  BY <1>2, Apart
<1>4. /\ checking' \subseteq SUBSET Words
      /\ queue' \in Seq(SUBSET Words) /\ Len(queue') <= QUEUE_CAP
      /\ evicted' \subseteq Words /\ settling' \in BOOLEAN
      /\ TurnsApart'
      /\ \A x \in Words :
           At(x, UNION checking') + At(x, Queued') + At(x, evicted')
             = At(x, UNION checking) + At(x, Queued) + At(x, evicted) + At(x, held)
  BY <1>1, <1>2, <1>3, RouteKeeps
<1>5. TypeOK'
  BY <1>1, <1>2, <1>4 DEF TypeOK, room, wrap, help
<1>6. WordsAccounted'
  <2>1. ASSUME NEW x \in Words
        PROVE  Whereabouts(x)' = Whereabouts(x) /\ Whereabouts(x) \in Nat
    <3>1. At(x, held') = 0
      BY <1>1 DEF At
    <3>2. put[x] \in Nat
      BY <1>2 DEF TypeOK
    <3>3. /\ At(x, unsaid) \in Nat /\ At(x, held) \in Nat
          /\ At(x, UNION checking) \in Nat /\ At(x, Queued) \in Nat
          /\ At(x, evicted) \in Nat /\ At(x, dismissed) \in Nat
          /\ At(x, UNION checking') \in Nat /\ At(x, Queued') \in Nat
          /\ At(x, evicted') \in Nat
      BY DEF At
    <3>4. Whereabouts(x)' = At(x, unsaid) + At(x, held') + At(x, UNION checking')
            + At(x, Queued') + put[x] + At(x, evicted') + At(x, dismissed)
      BY <1>1 DEF Whereabouts, room
    <3>5. At(x, UNION checking') + At(x, Queued') + At(x, evicted')
            = At(x, UNION checking) + At(x, Queued) + At(x, evicted) + At(x, held)
      BY <1>4
    <3>6. Whereabouts(x) = At(x, unsaid) + At(x, held) + At(x, UNION checking)
            + At(x, Queued) + put[x] + At(x, evicted) + At(x, dismissed)
      BY DEF Whereabouts
    <3> QED
      BY <3>1, <3>2, <3>3, <3>4, <3>5, <3>6
  <2>2. \A x \in Words :
          /\ Whereabouts(x)' <= Whereabouts(x)
          /\ ~ ended' => Whereabouts(x)' = Whereabouts(x)
    BY <2>1
  <2> QED
    BY <1>1, <1>2, <1>5, <2>2, Moved DEF TypeOK, room
<1>7. OneVoice' /\ WrapBooks' /\ HelpBooks'
  BY <1>1, VoiceSame, WrapSame, HelpSame DEF Inv
<1> QED
  BY <1>4, <1>5, <1>6, <1>7 DEF Inv

---------------------------------------------------------------------------
(* The interviewer's steps.                                                *)

\* The books read when a turn is dispatched are those its call stands on.
LEMMA DispatchKeepsBooks ==
  ASSUME Inv, ~ ended, ~ busy, NEW turn \in SUBSET Words, NEW lane \in Lanes,
         RunInterviewer(turn, lane),
         UNCHANGED <<wrapAsked, wrapClosed, help>>, wrapUp => wrapUp',
         lane = "question" => turn = {} /\ wrapUp' /\ wrapAsked < WRAP_UP_QUESTIONS,
         lane = "closing" => ~ wrapClosed /\ wrapAsked = WRAP_UP_QUESTIONS,
         lane = "redirect" => ~ adriftFired,
         lane \in Episodes => stuckRedactions[lane] < MAX_REDACTIONS
  PROVE  OneVoice' /\ WrapBooks' /\ HelpBooks'
<1> DEFINE c == [words |-> turn, lane |-> lane, carries |-> Carries(turn)]
<1>1. calls' = {c} /\ busy' = TRUE
  BY Dispatch DEF Inv
<1>2. OneVoice'
  BY <1>1 DEF OneVoice
<1>3. WrapBooks'
  <2>1. Carries(turn) =>
          turn # {} /\ wrapUp /\ ~ wrapClosed /\ wrapAsked < WRAP_UP_QUESTIONS
    BY DEF Carries
  <2>2. /\ wrapAsked \in 0..WRAP_UP_QUESTIONS
        /\ wrapClosed => wrapAsked = WRAP_UP_QUESTIONS
        /\ wrapAsked > 0 => wrapUp
    BY DEF Inv, WrapBooks
  <2>3. c.lane = lane /\ c.carries = Carries(turn)
    OBVIOUS
  <2> HIDE DEF c
  <2>4. /\ c.carries \/ c.lane = "question" => wrapAsked < WRAP_UP_QUESTIONS /\ wrapUp'
        /\ c.lane = "closing" => ~ wrapClosed /\ wrapAsked = WRAP_UP_QUESTIONS
        /\ ~ (c.carries /\ c.lane = "question")
    BY <2>1, <2>3
  <2> QED
    BY <1>1, <2>2, <2>4 DEF WrapBooks
<1>4. HelpBooks'
  <2>1. c.lane = lane
    OBVIOUS
  <2> HIDE DEF c
  <2> QED
    BY <1>1, <2>1 DEF Inv, HelpBooks, help
<1> QED
  BY <1>2, <1>3, <1>4

LEMMA ArriveKeeps ==
  ASSUME Inv, Arrive
  PROVE  Inv'
<1>1. /\ ~ ended /\ arrived' = TRUE /\ RunInterviewer({}, "opening")
      /\ UNCHANGED <<ended, unsaid, words, settling, wrap, help, evicted, dismissed,
                     initiatives>>
  BY DEF Arrive
<1>2. TypeOK /\ OneVoice /\ TurnsApart /\ WordsAccounted
  BY DEF Inv
<1>3. "opening" \in Lanes /\ "opening" \notin Episodes
  BY LanesApart DEF Occasions
<1>4. CASE busy
  <2>1. UNCHANGED <<busy, calls, put>>
    BY <1>1, <1>4 DEF RunInterviewer
  <2>2. TypeOK'
    BY <1>1, <1>2, <2>1 DEF TypeOK, words, wrap, help
  <2>3. TurnsApart' /\ WordsAccounted'
    BY <1>1, <1>2, <2>1, <2>2, WordsSame DEF TypeOK
  <2> QED
    BY <1>1, <2>1, <2>2, <2>3, VoiceSame, WrapSame, HelpSame DEF Inv
<1>5. CASE ~ busy
  <2>1. /\ calls' \subseteq Call /\ busy' = TRUE
        /\ put' \in [Words -> Nat]
        /\ \A w \in Words : put'[w] = put[w] + At(w, {})
    BY <1>1, <1>2, <1>3, <1>5, Dispatch
  <2>2. put' = put
    BY <1>2, <2>1 DEF TypeOK, At
  <2>3. TypeOK'
    BY <1>1, <1>2, <2>1 DEF TypeOK, words, wrap, help
  <2>4. TurnsApart' /\ WordsAccounted'
    BY <1>1, <1>2, <2>2, <2>3, WordsSame DEF TypeOK
  <2>5. OneVoice' /\ WrapBooks' /\ HelpBooks'
    BY <1>1, <1>3, <1>5, DispatchKeepsBooks DEF wrap
  <2> QED
    BY <2>3, <2>4, <2>5 DEF Inv
<1> QED
  BY <1>4, <1>5

LEMMA SettleKeeps ==
  ASSUME Inv, Settle
  PROVE  Inv'
<1>1. /\ settling' = FALSE
      /\ UNCHANGED <<room, held, checking, wrap, help, evicted, dismissed, initiatives>>
  BY DEF Settle
<1>2. TypeOK /\ OneVoice /\ TurnsApart /\ WordsAccounted
  BY DEF Inv
<1>3. CASE ended \/ busy \/ queue = <<>>
  <2>1. UNCHANGED <<queue, busy, calls, put>>
    BY <1>3 DEF Settle
  <2>2. TypeOK'
    BY <1>1, <1>2, <2>1 DEF TypeOK, room, wrap, help
  <2>3. TurnsApart' /\ WordsAccounted'
    BY <1>1, <1>2, <2>1, <2>2, WordsSame DEF TypeOK, room, words
  <2> QED
    BY <1>1, <2>1, <2>2, <2>3, VoiceSame, WrapSame, HelpSame DEF Inv
<1>4. CASE ~ ended /\ ~ busy /\ queue # <<>>
  <2>1. queue' = <<>> /\ RunInterviewer(Queued, "reply")
    BY <1>4 DEF Settle
  <2>2. Queued \in SUBSET Words
    BY <1>2, Apart
  <2>3. "reply" \in Lanes /\ "reply" \notin Episodes
    BY LanesApart DEF Occasions
  <2>4. /\ calls' \subseteq Call /\ busy' = TRUE
        /\ put' \in [Words -> Nat]
        /\ \A w \in Words : put'[w] = put[w] + At(w, Queued)
    BY <1>2, <1>4, <2>1, <2>2, <2>3, Dispatch
  <2>5. queue' \in Seq(SUBSET Words) /\ Len(queue') = 0 /\ Len(queue') <= QUEUE_CAP
    BY <2>1 DEF QUEUE_CAP
  <2>6. TypeOK'
    <3>1. calls' \subseteq Call /\ busy' \in BOOLEAN /\ put' \in [Words -> Nat]
      BY <2>4
    <3> QED
      BY <1>1, <1>2, <2>5, <3>1 DEF TypeOK, room, wrap, help
  <2>7. TurnsApart' /\ Queued' = {}
    BY <1>1, <1>2, <2>5 DEF TurnsApart, Queued, Joined
  <2>8. WordsAccounted'
    <3>1. ASSUME NEW x \in Words
          PROVE  Whereabouts(x)' = Whereabouts(x) /\ Whereabouts(x) \in Nat
      <4>1. At(x, Queued') = 0 /\ put'[x] = put[x] + At(x, Queued)
        BY <2>4, <2>7 DEF At
      <4>2. put[x] \in Nat
        BY <1>2 DEF TypeOK
      <4>3. /\ At(x, unsaid) \in Nat /\ At(x, held) \in Nat
            /\ At(x, UNION checking) \in Nat /\ At(x, Queued) \in Nat
            /\ At(x, evicted) \in Nat /\ At(x, dismissed) \in Nat
        BY DEF At
      <4>4. Whereabouts(x)' = At(x, unsaid) + At(x, held) + At(x, UNION checking)
              + At(x, Queued') + put'[x] + At(x, evicted) + At(x, dismissed)
        BY <1>1 DEF Whereabouts, room
      <4>5. Whereabouts(x) = At(x, unsaid) + At(x, held) + At(x, UNION checking)
              + At(x, Queued) + put[x] + At(x, evicted) + At(x, dismissed)
        BY DEF Whereabouts
      <4> QED
        BY <4>1, <4>2, <4>3, <4>4, <4>5
    <3>2. \A x \in Words :
            /\ Whereabouts(x)' <= Whereabouts(x)
            /\ ~ ended' => Whereabouts(x)' = Whereabouts(x)
      BY <3>1
    <3> QED
      BY <1>1, <1>2, <2>4, <2>6, <3>2, Moved DEF TypeOK, room
  <2>9. OneVoice' /\ WrapBooks' /\ HelpBooks'
    BY <1>1, <1>4, <2>1, <2>2, <2>3, DispatchKeepsBooks DEF wrap
  <2> QED
    BY <2>6, <2>7, <2>8, <2>9 DEF Inv
<1> QED
  BY <1>3, <1>4

LEMMA EndKeeps ==
  ASSUME Inv, End
  PROVE  Inv'
<1>1. /\ ended' = TRUE
      /\ UNCHANGED <<arrived, unsaid, words, settling, busy, calls, wrap, help, put,
                     evicted, dismissed, initiatives>>
  BY DEF End
<1>2. TypeOK'
  BY <1>1 DEF Inv, TypeOK, words, wrap, help
<1>3. TurnsApart' /\ WordsAccounted'
  BY <1>1, WordsSame DEF Inv
<1> QED
  BY <1>1, <1>2, <1>3, VoiceSame, WrapSame, HelpSame DEF Inv

\* A tick's turn has no words in it, so only the books can be at fault: what
\* it takes up is what they allow.
LEMMA TickKeeps ==
  ASSUME Inv, Tick
  PROVE  Inv'
<1>1. /\ ~ ended /\ ~ busy /\ wrapUp' \in BOOLEAN /\ (wrapUp => wrapUp')
      /\ UNCHANGED <<arrived, unsaid, words, settling, wrapAsked, wrapClosed, help,
                     evicted, dismissed>>
  BY DEF Tick, WrapSignal, Inv, TypeOK
<1>2. TypeOK /\ OneVoice /\ TurnsApart /\ WordsAccounted /\ WrapBooks
  BY DEF Inv
<1>3. CASE UNCHANGED <<busy, calls, put, initiatives>> /\ ended' \in BOOLEAN
  <2>1. TypeOK'
    BY <1>1, <1>2, <1>3 DEF TypeOK, words, help
  <2>2. TurnsApart' /\ WordsAccounted'
    BY <1>1, <1>2, <1>3, WordsSame
  <2>3. WrapBooks'
    BY <1>1, <1>2, <1>3 DEF WrapBooks
  <2> QED
    BY <1>1, <1>3, <2>1, <2>2, <2>3, VoiceSame, HelpSame DEF Inv
<1>4. ASSUME initiatives < MaxInitiatives, initiatives' = initiatives + 1, ended' = ended,
             NEW lane \in Lanes, RunInterviewer({}, lane),
             lane = "question" => wrapUp' /\ wrapAsked < WRAP_UP_QUESTIONS,
             lane = "closing" => ~ wrapClosed /\ wrapAsked = WRAP_UP_QUESTIONS,
             lane = "redirect" => ~ adriftFired,
             lane \in Episodes => stuckRedactions[lane] < MAX_REDACTIONS
      PROVE  Inv'
  <2>1. /\ calls' \subseteq Call /\ busy' = TRUE
        /\ put' \in [Words -> Nat]
        /\ \A w \in Words : put'[w] = put[w] + At(w, {})
    BY <1>1, <1>2, <1>4, Dispatch
  <2>2. put' = put
    BY <1>2, <2>1 DEF TypeOK, At
  <2>3. TypeOK'
    <3>1. busy' \in BOOLEAN /\ initiatives' \in 0..MaxInitiatives
      BY <1>2, <1>4, <2>1, BoundAssumption DEF TypeOK
    <3> QED
      BY <1>1, <1>2, <1>4, <2>1, <3>1 DEF TypeOK, words, help
  <2>4. TurnsApart' /\ WordsAccounted'
    BY <1>1, <1>2, <1>4, <2>2, <2>3, WordsSame DEF TypeOK
  <2>5. OneVoice' /\ WrapBooks' /\ HelpBooks'
    BY <1>1, <1>4, DispatchKeepsBooks
  <2> QED
    BY <2>3, <2>4, <2>5 DEF Inv
<1>5. \/ UNCHANGED <<busy, calls, put, initiatives>> /\ ended' \in BOOLEAN
      \/ /\ initiatives < MaxInitiatives /\ initiatives' = initiatives + 1
         /\ ended' = ended
         /\ \E lane \in Offered : RunInterviewer({}, lane)
  BY <1>1, <1>2 DEF Tick, AutoFinalize, TypeOK
<1>6. ASSUME NEW lane \in Offered
      PROVE  /\ lane \in Lanes
             /\ lane = "question" => wrapUp' /\ wrapAsked < WRAP_UP_QUESTIONS
             /\ lane = "closing" => ~ wrapClosed /\ wrapAsked = WRAP_UP_QUESTIONS
             /\ lane = "redirect" => ~ adriftFired
             /\ lane \in Episodes => stuckRedactions[lane] < MAX_REDACTIONS
  <2>1. wrapAsked \in 0..WRAP_UP_QUESTIONS
    BY <1>2 DEF WrapBooks
  <2>2. CASE wrapUp'
    <3>1. lane = WrapLane /\ ~ wrapClosed
      BY <1>6, <2>2 DEF Offered
    <3>2. /\ lane \in {"question", "closing"}
          /\ lane = "question" => wrapAsked < WRAP_UP_QUESTIONS
          /\ lane = "closing" => wrapAsked = WRAP_UP_QUESTIONS
      BY <2>1, <3>1 DEF WrapLane, WRAP_UP_QUESTIONS
    <3> QED
      BY <2>2, <3>1, <3>2, LanesApart DEF Occasions
  <2>3. CASE ~ wrapUp'
    <3>1. \/ lane = "other"
          \/ lane = "redirect" /\ ~ adriftFired
          \/ lane \in Episodes /\ stuckRedactions[lane] < MAX_REDACTIONS
      BY <1>6, <2>3 DEF Offered
    <3> QED
      BY <3>1, LanesApart DEF Occasions
  <2> QED
    BY <2>2, <2>3
<1> QED
  BY <1>3, <1>4, <1>5, <1>6

\* At the end of a call what it stood on is spent, and it was the only one.
LEMMA FinishKeeps ==
  ASSUME Inv, NEW c \in calls, Finish(c)
  PROVE  Inv'
<1>1. /\ calls' = calls \ {c} /\ busy' = FALSE
      /\ \/ \E asks \in BOOLEAN : Spoken(c, asks)
         \/ Redacted(c)
         \/ UNCHANGED <<wrap, help>>
      /\ UNCHANGED queue /\ Pump(FALSE)
      /\ UNCHANGED <<room, held, checking, put, evicted, dismissed, initiatives>>
  BY DEF Finish
<1>2. TypeOK /\ OneVoice /\ WrapBooks /\ HelpBooks /\ TurnsApart /\ WordsAccounted
  BY DEF Inv
<1>3. calls' = {}
  BY <1>1, <1>2, Last
<1>4. OneVoice'
  BY <1>1, <1>3 DEF OneVoice
<1>5. c.lane \in Lanes /\ c.carries \in BOOLEAN
  BY <1>2 DEF TypeOK, Call
<1>6. /\ c.carries \/ c.lane = "question" => wrapAsked < WRAP_UP_QUESTIONS /\ wrapUp
      /\ c.lane = "closing" => ~ wrapClosed /\ wrapAsked = WRAP_UP_QUESTIONS
      /\ c.lane = "redirect" => ~ adriftFired
      /\ c.lane \in Episodes => stuckRedactions[c.lane] < MAX_REDACTIONS
  BY <1>2 DEF WrapBooks, HelpBooks
<1>7. /\ wrapAsked \in 0..WRAP_UP_QUESTIONS /\ wrapAsked \in Nat
      /\ wrapClosed => wrapAsked = WRAP_UP_QUESTIONS
      /\ wrapAsked > 0 => wrapUp
      /\ redirects \in Nat /\ adriftRedactions \in Nat /\ redirects <= 1
      /\ redirects + adriftRedactions <= MAX_REDACTIONS
      /\ ~ adriftFired => redirects = 0 /\ adriftRedactions < MAX_REDACTIONS
      /\ stuckRedactions \in [Episodes -> Nat]
      /\ \A e \in Episodes : stuckRedactions[e] <= MAX_REDACTIONS
      /\ adriftFired \in BOOLEAN /\ wrapClosed \in BOOLEAN /\ wrapUp \in BOOLEAN
  BY <1>2 DEF TypeOK, WrapBooks, HelpBooks, WRAP_UP_QUESTIONS
<1> DEFINE Books ==
      /\ wrapUp' \in BOOLEAN /\ wrapClosed' \in BOOLEAN /\ wrapAsked' \in Nat
      /\ adriftFired' \in BOOLEAN /\ adriftRedactions' \in Nat /\ redirects' \in Nat
      /\ stuckRedactions' \in [Episodes -> Nat]
      /\ wrapAsked' \in 0..WRAP_UP_QUESTIONS
      /\ wrapClosed' => wrapAsked' = WRAP_UP_QUESTIONS
      /\ wrapAsked' > 0 => wrapUp'
      /\ redirects' <= 1
      /\ redirects' + adriftRedactions' <= MAX_REDACTIONS
      /\ ~ adriftFired' => redirects' = 0 /\ adriftRedactions' < MAX_REDACTIONS
      /\ \A e \in Episodes : stuckRedactions'[e] <= MAX_REDACTIONS
<1>8. Books
  <2>1. ASSUME NEW asks \in BOOLEAN, Spoken(c, asks)
        PROVE  Books
    <3>1. /\ wrapAsked' = wrapAsked
               + (IF c.lane = "question" \/ (c.carries /\ asks) THEN 1 ELSE 0)
          /\ wrapClosed' = (wrapClosed \/ c.lane = "closing")
          /\ adriftFired' = (adriftFired \/ c.lane = "redirect")
          /\ redirects' = redirects + (IF c.lane = "redirect" THEN 1 ELSE 0)
          /\ UNCHANGED <<wrapUp, adriftRedactions, stuckRedactions>>
      BY <2>1 DEF Spoken
    <3>2. CASE c.lane = "question" \/ (c.carries /\ asks)
      BY <1>6, <1>7, <3>1, <3>2 DEF WRAP_UP_QUESTIONS, MAX_REDACTIONS
    <3>3. CASE ~ (c.lane = "question" \/ (c.carries /\ asks))
      <4>1. wrapAsked' = wrapAsked /\ wrapUp' = wrapUp
        BY <1>7, <3>1, <3>3
      <4>2. /\ wrapClosed' \in BOOLEAN
            /\ wrapClosed' => wrapAsked' = WRAP_UP_QUESTIONS
        BY <1>6, <1>7, <3>1, <4>1, Zenon
      <4>3. CASE c.lane = "redirect"
        <5>1. redirects = 0 /\ adriftRedactions < MAX_REDACTIONS
          BY <1>6, <1>7, <4>3
        <5>2. redirects' = 1 /\ adriftFired' = TRUE /\ adriftRedactions' = adriftRedactions
          <6>1. redirects' = 1 /\ adriftRedactions' = adriftRedactions
            BY <3>1, <4>3, <5>1
          <6>2. adriftFired' = TRUE
            BY <3>1, <4>3, Zenon
          <6> QED
            BY <6>1, <6>2
        <5>3. redirects' + adriftRedactions' <= MAX_REDACTIONS
          BY <1>7, <5>1, <5>2 DEF MAX_REDACTIONS
        <5> QED
          BY <1>7, <3>1, <4>1, <4>2, <5>2, <5>3
      <4>4. CASE c.lane # "redirect"
        <5>1. redirects' = redirects /\ adriftFired' = adriftFired
          BY <1>7, <3>1, <4>4
        <5> QED
          BY <1>7, <3>1, <4>1, <4>2, <5>1
      <4> QED
        BY <4>3, <4>4
    <3> QED
      BY <3>2, <3>3
  <2>2. ASSUME Redacted(c)
        PROVE  Books
    <3>1. /\ IF c.lane = "redirect"
             THEN /\ adriftRedactions' = adriftRedactions + 1
                  /\ adriftFired' = (adriftFired \/ GivenUp(adriftRedactions'))
             ELSE UNCHANGED <<adriftRedactions, adriftFired>>
          /\ stuckRedactions' =
               [e \in Episodes |-> stuckRedactions[e] + IF c.lane = e THEN 1 ELSE 0]
          /\ UNCHANGED <<wrapUp, wrapAsked, wrapClosed, redirects>>
      BY <2>2 DEF Redacted, wrap
    <3>2. /\ stuckRedactions' \in [Episodes -> Nat]
          /\ \A e \in Episodes : stuckRedactions'[e] <= MAX_REDACTIONS
      <4>1. ASSUME NEW e \in Episodes
            PROVE  /\ stuckRedactions[e] + (IF c.lane = e THEN 1 ELSE 0) \in Nat
                   /\ stuckRedactions[e] + (IF c.lane = e THEN 1 ELSE 0) <= MAX_REDACTIONS
        BY <1>6, <1>7 DEF MAX_REDACTIONS
      <4> QED
        BY <3>1, <4>1
    <3>3. CASE c.lane = "redirect"
      <4>1. redirects = 0 /\ adriftRedactions < MAX_REDACTIONS
        BY <1>6, <1>7, <3>3
      <4>2. /\ adriftRedactions' = adriftRedactions + 1 /\ redirects' = redirects
            /\ adriftFired' = (adriftFired \/ GivenUp(adriftRedactions'))
        BY <3>1, <3>3
      <4>3. adriftFired' \in BOOLEAN
        BY <1>7, <4>2, Zenon
      <4>4. /\ redirects' + adriftRedactions' <= MAX_REDACTIONS
            /\ adriftRedactions' >= MAX_REDACTIONS \/ adriftRedactions' < MAX_REDACTIONS
        BY <1>7, <4>1, <4>2 DEF MAX_REDACTIONS
      <4>5. ~ adriftFired' => adriftRedactions' < MAX_REDACTIONS
        BY <4>2, <4>4 DEF GivenUp
      <4>6. adriftRedactions' \in Nat
        BY <1>7, <4>2
      <4> QED
        BY <1>7, <3>1, <3>2, <4>1, <4>2, <4>3, <4>4, <4>5, <4>6
    <3>4. CASE c.lane # "redirect"
      BY <1>7, <3>1, <3>2, <3>4
    <3> QED
      BY <3>3, <3>4
  <2>3. ASSUME UNCHANGED <<wrap, help>>
        PROVE  Books
    BY <1>7, <2>3 DEF wrap, help
  <2> QED
    BY <1>1, <2>1, <2>2, <2>3
<1>9. WrapBooks' /\ HelpBooks'
  BY <1>3, <1>8 DEF WrapBooks, HelpBooks
<1>10. TypeOK'
  <2>1. settling' \in BOOLEAN /\ busy' \in BOOLEAN /\ calls' \subseteq Call
    BY <1>1, <1>2, <1>3 DEF Pump, TypeOK
  <2> QED
    BY <1>1, <1>2, <1>8, <2>1 DEF TypeOK, room
<1>11. TurnsApart' /\ WordsAccounted'
  BY <1>1, <1>2, WordsSame DEF words, room, TypeOK
<1> QED
  BY <1>4, <1>9, <1>10, <1>11 DEF Inv

---------------------------------------------------------------------------
(* The intent check's answers.                                             *)

\* What every answer has in common: the judged turn leaves those being judged,
\* and its words are apart from all others on their way.
LEMMA JudgedTurn ==
  ASSUME Inv, NEW turn \in checking, checking' = checking \ {turn}
  PROVE  /\ turn \in SUBSET Words
         /\ checking' \subseteq SUBSET Words
         /\ turn \cap Queued = {} /\ (turn \cup Queued) \cap evicted = {}
         /\ \A a, b \in checking' : a # b => a \cap b = {}
         /\ \A w \in Words :
              At(w, UNION checking) = At(w, UNION checking') + At(w, turn)
<1>1. TypeOK /\ TurnsApart /\ WordsAccounted
  BY DEF Inv
<1>2. turn \in SUBSET Words /\ checking' \subseteq SUBSET Words
  BY <1>1 DEF TypeOK
<1>3. /\ turn \cap UNION checking' = {}
      /\ turn \cup UNION checking' = UNION checking
      /\ \A a, b \in checking' : a # b => a \cap b = {}
  BY <1>1, TakeOut
<1>4. /\ Queued \cap UNION checking = {}
      /\ (unsaid \cup held \cup (UNION checking) \cup Queued) \cap evicted = {}
  BY <1>1, Apart
<1>5. turn \cap Queued = {} /\ (turn \cup Queued) \cap evicted = {}
  BY <1>3, <1>4
<1>6. \A w \in Words : At(w, UNION checking) = At(w, UNION checking') + At(w, turn)
  BY <1>3 DEF At
<1> QED
  BY <1>2, <1>3, <1>5, <1>6

\* A judged turn's words move to one other place: the sums agree.
LEMMA JudgedMoves ==
  ASSUME Inv, NEW turn \in checking, checking' = checking \ {turn},
         UNCHANGED <<unsaid, held, ended>>,
         put' \in [Words -> Nat],
         \A w \in Words :
           At(w, Queued') + put'[w] + At(w, evicted') + At(w, dismissed')
             = At(w, Queued) + put[w] + At(w, evicted) + At(w, dismissed) + At(w, turn)
  PROVE  WordsAccounted'
<1>1. ASSUME NEW w \in Words
      PROVE  Whereabouts(w)' = Whereabouts(w) /\ Whereabouts(w) \in Nat
  <2>1. /\ At(w, UNION checking) = At(w, UNION checking') + At(w, turn)
    BY JudgedTurn
  <2>2. At(w, Queued') + put'[w] + At(w, evicted') + At(w, dismissed')
          = At(w, Queued) + put[w] + At(w, evicted) + At(w, dismissed) + At(w, turn)
    OBVIOUS
  <2>3. put[w] \in Nat /\ put'[w] \in Nat
    BY DEF Inv, TypeOK
  <2>4. /\ At(w, unsaid) \in Nat /\ At(w, held) \in Nat
        /\ At(w, UNION checking) \in Nat /\ At(w, Queued) \in Nat
        /\ At(w, evicted) \in Nat /\ At(w, dismissed) \in Nat
        /\ At(w, UNION checking') \in Nat /\ At(w, Queued') \in Nat
        /\ At(w, evicted') \in Nat /\ At(w, dismissed') \in Nat /\ At(w, turn) \in Nat
    BY DEF At
  <2>5. Whereabouts(w)' = At(w, unsaid) + At(w, held) + At(w, UNION checking')
          + At(w, Queued') + put'[w] + At(w, evicted') + At(w, dismissed')
    BY DEF Whereabouts
  <2>6. Whereabouts(w) = At(w, unsaid) + At(w, held) + At(w, UNION checking)
          + At(w, Queued) + put[w] + At(w, evicted) + At(w, dismissed)
    BY DEF Whereabouts
  <2>7. Whereabouts(w) \in Nat
    BY <2>3, <2>4, <2>6
  <2>8. Whereabouts(w)' = Whereabouts(w)
    <3>1. \A a, b, c, d, e, f, g, c1, d1, e1, f1, g1, t \in Nat :
            c = c1 + t /\ d1 + e1 + f1 + g1 = d + e + f + g + t
              => a + b + c1 + d1 + e1 + f1 + g1 = a + b + c + d + e + f + g
      OBVIOUS
    <3> QED
      BY <2>1, <2>2, <2>3, <2>4, <2>5, <2>6, <3>1
  <2> QED
    BY <2>7, <2>8
<1>2. \A w \in Words :
        /\ Whereabouts(w)' <= Whereabouts(w)
        /\ ~ ended' => Whereabouts(w)' = Whereabouts(w)
  BY <1>1
<1> QED
  BY <1>2, Moved DEF Inv, TypeOK

\* Dismissed words were in no other place before, so they were not there yet.
LEMMA Dismissal ==
  ASSUME Inv, NEW turn \in checking, checking' = checking \ {turn},
         dismissed' = dismissed \cup turn,
         UNCHANGED <<unsaid, held, ended, queue, put, evicted>>
  PROVE  dismissed' \subseteq Words /\ TurnsApart' /\ WordsAccounted'
<1>1. /\ turn \in SUBSET Words
      /\ \A a, b \in checking' : a # b => a \cap b = {}
  BY JudgedTurn
<1>2. TurnsApart' /\ Queued' = Queued
  BY <1>1 DEF Inv, TurnsApart, Queued
<1>3. ASSUME NEW w \in Words
      PROVE  At(w, dismissed') = At(w, dismissed) + At(w, turn)
  <2>1. ~ (w \in turn /\ w \in dismissed)
    <3>1. Whereabouts(w) <= 1 /\ put[w] \in Nat
      BY DEF Inv, WordsAccounted, TypeOK
    <3>2. w \in turn => w \in UNION checking
      OBVIOUS
    <3> QED
      BY <3>1, <3>2 DEF Whereabouts, At
  <2> QED
    BY <2>1 DEF At
<1>4. \A w \in Words :
        At(w, Queued') + put'[w] + At(w, evicted') + At(w, dismissed')
          = At(w, Queued) + put[w] + At(w, evicted) + At(w, dismissed) + At(w, turn)
  <2> TAKE w \in Words
  <2>1. put[w] \in Nat
    BY DEF Inv, TypeOK
  <2>2. /\ At(w, Queued) \in Nat /\ At(w, evicted) \in Nat /\ At(w, dismissed) \in Nat
        /\ At(w, turn) \in Nat
    BY DEF At
  <2>3. /\ At(w, Queued') = At(w, Queued) /\ put'[w] = put[w]
        /\ At(w, evicted') = At(w, evicted)
        /\ At(w, dismissed') = At(w, dismissed) + At(w, turn)
    BY <1>2, <1>3
  <2> QED
    BY <2>1, <2>2, <2>3
<1>5. put' \in [Words -> Nat] /\ dismissed' \subseteq Words
  BY <1>1 DEF Inv, TypeOK
<1>6. WordsAccounted'
  BY <1>4, <1>5, JudgedMoves
<1> QED
  BY <1>2, <1>5, <1>6

LEMMA SilentKeeps ==
  ASSUME Inv, NEW turn \in checking, JudgedSilent(turn)
  PROVE  Inv'
<1>1. /\ checking' = checking \ {turn} /\ dismissed' = dismissed \cup turn
      /\ UNCHANGED <<room, held, queue, settling, busy, calls, wrap, help, put, evicted,
                     initiatives>>
  BY DEF JudgedSilent
<1>2. dismissed' \subseteq Words /\ TurnsApart' /\ WordsAccounted'
  BY <1>1, Dismissal DEF room
<1>3. TypeOK'
  BY <1>1, <1>2 DEF Inv, TypeOK, room, wrap, help
<1> QED
  BY <1>1, <1>2, <1>3, VoiceSame, WrapSame, HelpSame DEF Inv

LEMMA AddressedKeeps ==
  ASSUME Inv, NEW turn \in checking, JudgedAddressed(turn)
  PROVE  Inv'
<1>1. /\ checking' = checking \ {turn} /\ Push(turn) /\ Pump(busy)
      /\ UNCHANGED <<room, held, busy, calls, wrap, help, put, dismissed, initiatives>>
  BY DEF JudgedAddressed
<1>2. TypeOK /\ TurnsApart
  BY DEF Inv
<1>3. /\ turn \in SUBSET Words /\ checking' \subseteq SUBSET Words
      /\ turn \cap Queued = {} /\ (turn \cup Queued) \cap evicted = {}
      /\ \A a, b \in checking' : a # b => a \cap b = {}
  BY <1>1, JudgedTurn
<1>4. /\ queue' \in Seq(SUBSET Words) /\ Len(queue') <= QUEUE_CAP
      /\ evicted' \in SUBSET Words
      /\ \A i, j \in 1..Len(queue') : i # j => queue'[i] \cap queue'[j] = {}
  BY <1>1, <1>2, <1>3, PushKeeps
<1>5. settling' \in BOOLEAN
  BY <1>1, <1>2 DEF Pump, TypeOK
<1>6. TypeOK'
  BY <1>1, <1>2, <1>3, <1>4, <1>5 DEF TypeOK, room, wrap, help
<1>7. TurnsApart'
  BY <1>3, <1>4 DEF TurnsApart
<1>8. \A w \in Words :
        At(w, Queued') + put'[w] + At(w, evicted') + At(w, dismissed')
          = At(w, Queued) + put[w] + At(w, evicted) + At(w, dismissed) + At(w, turn)
  <2> TAKE w \in Words
  <2>1. At(w, Queued') + At(w, evicted') = At(w, Queued) + At(w, evicted) + At(w, turn)
    BY <1>1, <1>2, <1>3, PushMoves
  <2>2. put[w] \in Nat
    BY <1>2 DEF TypeOK
  <2>3. /\ At(w, Queued) \in Nat /\ At(w, evicted) \in Nat /\ At(w, dismissed) \in Nat
        /\ At(w, turn) \in Nat /\ At(w, Queued') \in Nat /\ At(w, evicted') \in Nat
    BY DEF At
  <2> QED
    BY <1>1, <2>1, <2>2, <2>3
<1>9. put' \in [Words -> Nat]
  BY <1>6 DEF TypeOK
<1>10. WordsAccounted'
  BY <1>1, <1>8, <1>9, JudgedMoves DEF room
<1> QED
  BY <1>1, <1>6, <1>7, <1>10, VoiceSame, WrapSame, HelpSame DEF Inv

LEMMA EngagingKeeps ==
  ASSUME Inv, NEW turn \in checking, JudgedEngaging(turn)
  PROVE  Inv'
<1>1. /\ checking' = checking \ {turn}
      /\ UNCHANGED <<room, held, queue, settling, wrap, help, evicted, initiatives>>
  BY DEF JudgedEngaging
<1>2. TypeOK /\ OneVoice /\ TurnsApart
  BY DEF Inv
<1>3. CASE dismissed' = dismissed \cup turn /\ UNCHANGED <<busy, calls, put>>
  <2>1. dismissed' \subseteq Words /\ TurnsApart' /\ WordsAccounted'
    BY <1>1, <1>3, Dismissal DEF room
  <2>2. TypeOK'
    BY <1>1, <1>2, <1>3, <2>1 DEF TypeOK, room, wrap, help
  <2> QED
    BY <1>1, <1>3, <2>1, <2>2, VoiceSame, WrapSame, HelpSame DEF Inv
<1>4. CASE /\ ~ busy /\ queue = <<>> /\ ~ ended
           /\ RunInterviewer(turn, "engage") /\ UNCHANGED dismissed
  <2>1. /\ turn \in SUBSET Words /\ checking' \subseteq SUBSET Words
        /\ \A a, b \in checking' : a # b => a \cap b = {}
    BY <1>1, JudgedTurn
  <2>2. "engage" \in Lanes /\ "engage" \notin Episodes
    BY LanesApart DEF Occasions
  <2>3. /\ calls' \subseteq Call /\ busy' = TRUE
        /\ put' \in [Words -> Nat]
        /\ \A w \in Words : put'[w] = put[w] + At(w, turn)
    BY <1>2, <1>4, <2>1, <2>2, Dispatch
  <2>4. TypeOK'
    <3>1. busy' \in BOOLEAN
      BY <2>3
    <3> QED
      BY <1>1, <1>2, <1>4, <2>1, <2>3, <3>1 DEF TypeOK, room, wrap, help
  <2>5. TurnsApart' /\ Queued' = Queued
    BY <1>1, <1>2, <2>1 DEF TurnsApart, Queued
  <2>6. \A w \in Words :
          At(w, Queued') + put'[w] + At(w, evicted') + At(w, dismissed')
            = At(w, Queued) + put[w] + At(w, evicted) + At(w, dismissed) + At(w, turn)
    <3> TAKE w \in Words
    <3>1. put[w] \in Nat /\ put'[w] = put[w] + At(w, turn)
      BY <1>2, <2>3 DEF TypeOK
    <3>2. /\ At(w, Queued) \in Nat /\ At(w, evicted) \in Nat
          /\ At(w, dismissed) \in Nat /\ At(w, turn) \in Nat
      BY DEF At
    <3> QED
      BY <1>1, <1>4, <2>5, <3>1, <3>2
  <2>7. WordsAccounted'
    BY <1>1, <2>3, <2>6, JudgedMoves DEF room
  <2>8. OneVoice' /\ WrapBooks' /\ HelpBooks'
    BY <1>1, <1>4, <2>1, <2>2, DispatchKeepsBooks DEF wrap
  <2> QED
    BY <2>4, <2>5, <2>7, <2>8 DEF Inv
<1> QED
  BY <1>3, <1>4 DEF JudgedEngaging

---------------------------------------------------------------------------
(* The theorems.                                                           *)

\* Every step keeps the invariant, and it holds at the start.
THEOREM Inductive == (Init => Inv) /\ (Inv /\ [Next]_vars => Inv')
<1>1. Init => Inv
  <2> SUFFICES ASSUME Init PROVE Inv
    OBVIOUS
  <2>1. Queued = {}
    BY DEF Init, Queued, Joined
  <2>2. TypeOK
    <3>1. queue \in Seq(SUBSET Words) /\ Len(queue) <= QUEUE_CAP
      BY DEF Init, QUEUE_CAP
    <3>2. put \in [Words -> Nat] /\ stuckRedactions \in [Episodes -> Nat]
      BY DEF Init
    <3>3. /\ wrapAsked \in Nat /\ adriftRedactions \in Nat /\ redirects \in Nat
          /\ initiatives \in 0..MaxInitiatives
      BY BoundAssumption DEF Init
    <3> QED
      BY <3>1, <3>2, <3>3 DEF Init, TypeOK
  <2>3. OneVoice /\ TurnsApart
    BY DEF Init, OneVoice, TurnsApart
  <2>4. WrapBooks /\ HelpBooks
    BY DEF Init, WrapBooks, HelpBooks, WRAP_UP_QUESTIONS, MAX_REDACTIONS
  <2>5. WordsAccounted
    <3>1. ASSUME NEW w \in Words
          PROVE  Whereabouts(w) <= 1 /\ Whereabouts(w) = 1
      <4>1. /\ At(w, unsaid) = 1 /\ At(w, held) = 0 /\ At(w, UNION checking) = 0
            /\ At(w, Queued) = 0 /\ put[w] = 0 /\ At(w, evicted) = 0
            /\ At(w, dismissed) = 0
        BY <2>1 DEF Init, At
      <4> QED
        BY <4>1 DEF Whereabouts
    <3> QED
      BY <3>1, Zenon DEF WordsAccounted
  <2> QED
    BY <2>2, <2>3, <2>4, <2>5 DEF Inv
<1>2. ASSUME Inv, [Next]_vars
      PROVE  Inv'
  <2>1. CASE Arrive
    BY <1>2, <2>1, ArriveKeeps
  <2>2. ASSUME NEW w \in Words, Type(w)
        PROVE  Inv'
    BY <1>2, <2>2, TypeKeeps
  <2>3. ASSUME NEW w \in Words, Speak(w)
        PROVE  Inv'
    BY <1>2, <2>3, SpeakKeeps
  <2>4. CASE Flush
    BY <1>2, <2>4, FlushKeeps
  <2>5. ASSUME NEW turn \in checking,
               JudgedSilent(turn) \/ JudgedAddressed(turn) \/ JudgedEngaging(turn)
        PROVE  Inv'
    BY <1>2, <2>5, SilentKeeps, AddressedKeeps, EngagingKeeps
  <2>6. CASE Settle
    BY <1>2, <2>6, SettleKeeps
  <2>7. CASE Tick
    BY <1>2, <2>7, TickKeeps
  <2>8. ASSUME NEW c \in calls, Finish(c)
        PROVE  Inv'
    BY <1>2, <2>8, FinishKeeps
  <2>9. CASE End
    BY <1>2, <2>9, EndKeeps
  <2>10. CASE UNCHANGED vars
    <3>1. TypeOK'
      BY <1>2, <2>10 DEF vars, Inv, TypeOK
    <3>2. TurnsApart' /\ WordsAccounted'
      BY <1>2, <2>10, <3>1, WordsSame DEF vars, Inv, words, TypeOK
    <3>3. OneVoice' /\ WrapBooks' /\ HelpBooks'
      BY <1>2, <2>10, VoiceSame, WrapSame, HelpSame DEF vars, Inv, wrap, help
    <3> QED
      BY <3>1, <3>2, <3>3 DEF Inv
  <2> QED
    BY <1>2, <2>1, <2>2, <2>3, <2>4, <2>5, <2>6, <2>7, <2>8, <2>9, <2>10 DEF Next
<1> QED
  BY <1>1, <1>2

\* The inductive invariant holds throughout.
THEOREM Invariance == Spec => []Inv
<1>1. Init => Inv
  BY Inductive
<1>2. Inv /\ [Next]_vars => Inv'
  BY Inductive
<1> QED
  BY <1>1, <1>2, PTL DEF Spec

\* Every variable keeps its type; in particular at most two turns wait.
THEOREM TypeCorrect == Spec => []TypeOK
<1>1. Inv => TypeOK
  BY DEF Inv
<1> QED
  BY <1>1, Invariance, PTL

\* However replies, late checks and initiative coincide, one model call is out
\* at a time, and interviewerBusy says so.
THEOREM OneVoiceAlways == Spec => []OneVoice
<1>1. Inv => OneVoice
  BY DEF Inv
<1> QED
  BY <1>1, Invariance, PTL

\* No word of the candidate is lost between buffer, checks, queue and model, and
\* none reaches the model twice.
THEOREM NoWordLost == Spec => []WordsAccounted
<1>1. Inv => WordsAccounted
  BY DEF Inv
<1> QED
  BY <1>1, Invariance, PTL

\* The wrap-up asks three questions, carried or its own, before it signs off.
THEOREM WrapUp == Spec => []WrapRunsItsCourse
<1>1. Inv => WrapRunsItsCourse
  BY DEF Inv, WrapBooks, WrapRunsItsCourse, WRAP_UP_QUESTIONS
<1> QED
  BY <1>1, Invariance, PTL

\* The redirect and the hints of a stuck episode keep to their budgets.
THEOREM Help == Spec => []HelpIsBudgeted
<1>1. Inv => HelpIsBudgeted
  BY DEF Inv, HelpBooks, HelpIsBudgeted
<1> QED
  BY <1>1, Invariance, PTL
=============================================================================
