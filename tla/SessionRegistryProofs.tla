------------------------ MODULE SessionRegistryProofs ------------------------
(***************************************************************************)
(* Proofs about SessionRegistry, for any users, directories and slots, any *)
(* number of sessions and any number of the app's tasks, however they      *)
(* overlap.                                                                *)
(*                                                                         *)
(* A task writes and sweeps by the registry it loaded.  What is kept of    *)
(* the file is therefore kept of every registry a task holds: each names   *)
(* every running session that is not exposed, and gives that session's     *)
(* slot to nobody else.                                                    *)
(***************************************************************************)
EXTENDS SessionRegistry, FiniteSetTheorems, WellFoundedInduction, TLAPS

---------------------------------------------------------------------------
(* The inductive invariant.                                                *)

JobOK(j) ==
  /\ j.at \in {"probing", "launching", "stamping"}
  /\ j.request \in Request
  /\ j.snap \subseteq Entry
  /\ j.seen \in [Named(j.snap) -> Answer]
  /\ j.at = "launching" => j.request.op = "launch"
  /\ j = [at |-> j.at, request |-> j.request, snap |-> j.snap, seen |-> j.seen]

\* TypeOK's part about the tasks, with the shape of their records.
TasksOK ==
  /\ task = [t \in Tasks |-> task[t]]
  /\ \A t \in Tasks : task[t] = Idle \/ (up /\ JobOK(task[t]))

\* TypeOK's part about the rest.
RoomsOK ==
  /\ entries \subseteq Entry
  /\ state \in [Sids -> {"none", "booting", "serving", "ended", "gone"}]
  /\ home \in [Sids -> Place \cup {NoPlace}]
  /\ \A s \in Sids : home[s] = NoPlace <=> ~ Running(s)
  /\ containers \subseteq Sids
  /\ ghosts \subseteq {s \in Sids : state[s] = "gone"}
  /\ old \subseteq {s \in Sids : Running(s)}
  /\ up \in BOOLEAN
  /\ crossed \subseteq {s \in Sids : Running(s)}
  /\ harmed \subseteq Sids

TypeInv == RoomsOK /\ TasksOK

\* A session whose place in the registry is kept.
Kept(s) == Running(s) /\ s \notin Exposed

\* The session has an entry in a registry, and who has its sid or its slot
\* there is itself, stamped only if its round is over.
HoldsIn(s, registry) ==
  /\ \E e \in registry : Names(e, s)
  /\ \A e \in registry :
       e.sid = s \/ e.slot = home[s].slot =>
         Names(e, s) /\ (e.ended => state[s] = "ended")

\* A registry that may be written: every entry is of a session that was
\* launched, and every session that is not exposed holds its place in it.
Sound(registry) ==
  /\ \A e \in registry : state[e.sid] # "none"
  /\ \A s \in Sids : Kept(s) => HoldsIn(s, registry)

\* What a task holds may be written, a session that was heard to have ended
\* has, and of those a kill was meant for only exposed ones still run.
TrueJob(j) ==
  /\ j.at = "probing" =>
       /\ Sound(j.snap)
       /\ \A s \in Named(j.snap) : j.seen[s] = "ended" => state[s] \in {"ended", "gone"}
  /\ j.at = "stamping" =>
       \A s \in Named(j.snap) : state[s] # "none" /\ ~ Kept(s)

AnswersAreTrue == \A t \in Tasks : TrueJob(task[t])

Inv == /\ TypeInv
       /\ Sound(entries)
       /\ AnswersAreTrue
       /\ RoomsAreApart
       /\ HealthyRoomsAreSpared

---------------------------------------------------------------------------
(* Numbers.                                                                *)

\* The lowest of a set of numbers is one of them (allocateSlot's loop).
LEMMA MinIsIn ==
  ASSUME NEW n \in Nat, NEW S, S \subseteq 1..n, S # {}
  PROVE  Min(S) \in S
<1> DEFINE T == {1..x : x \in S}
<1>1. T \subseteq SUBSET (1..n) /\ T # {}
  <2>1. \A x \in S : 1..x \subseteq 1..n
    BY SMT
  <2>2. T # {}
    <3>1. PICK x \in S : TRUE
      OBVIOUS
    <3>2. 1..x \in T
      OBVIOUS
    <3>3. QED
      BY <3>2
  <2>3. QED
    BY <2>1, <2>2
<1>2. IsFiniteSet(1..n)
  BY FS_Interval
<1>3. IsWellFoundedOn(StrictSubsetOrdering(1..n), SUBSET (1..n))
  <2>1. FiniteSubsetsOf(1..n) = SUBSET (1..n)
    BY <1>2, FS_FiniteSubsetsOfFinite
  <2>2. QED
    BY <2>1, FS_StrictSubsetOrderingWellFounded, Zenon
<1>4. \E t \in T : \A u \in T : ~ (<<u, t>> \in StrictSubsetOrdering(1..n))
  <2> HIDE DEF T
  <2> QED BY <1>1, <1>3, WFMin, Zenon
<1>5. PICK x \in S : \A y \in S : ~ (<<1..y, 1..x>> \in StrictSubsetOrdering(1..n))
  BY <1>4
<1>6. \A y \in S : x =< y
  <2>1. SUFFICES ASSUME NEW y \in S, y < x
                 PROVE  FALSE
    OBVIOUS
  <2>2. /\ 1..y \in SUBSET (1..n) /\ 1..x \in SUBSET (1..n)
        /\ 1..y \subseteq 1..x /\ x \in 1..x /\ x \notin 1..y
    BY <2>1
  <2>3. QED
    BY <1>5, <2>2 DEF StrictSubsetOrdering
<1>7. QED
  BY <1>6 DEF Min

---------------------------------------------------------------------------
(* Tasks.                                                                  *)

\* A task that goes on leaves the other tasks as they are.
LEMMA TaskMoves ==
  ASSUME TasksOK, up' = up, NEW t \in Tasks, NEW j,
         j = Idle \/ (up /\ JobOK(j)),
         task' = [task EXCEPT ![t] = j]
  PROVE  /\ TasksOK'
         /\ \A u \in Tasks : task'[u] = IF u = t THEN j ELSE task[u]
<1>1. \A u \in Tasks : task'[u] = IF u = t THEN j ELSE task[u]
  BY DEF TasksOK
<1>2. task' = [u \in Tasks |-> task'[u]]
  BY DEF TasksOK
<1>3. \A u \in Tasks : task'[u] = Idle \/ (up' /\ JobOK(task'[u]))
  BY <1>1, Zenon DEF TasksOK
<1>4. QED
  BY <1>1, <1>2, <1>3, Zenon DEF TasksOK, JobOK

\* What is known of a task that is not idle.
LEMMA JobsAreTyped ==
  ASSUME TasksOK, NEW t \in Tasks, task[t].at # "idle"
  PROVE  up /\ JobOK(task[t])
BY DEF TasksOK, Idle

\* A task that has finished leaves the others as they are.
LEMMA DoneIsIdle ==
  ASSUME TasksOK, up' = up, NEW t \in Tasks, Done(t)
  PROVE  /\ TasksOK'
         /\ \A u \in Tasks : task'[u] = IF u = t THEN Idle ELSE task[u]
BY TaskMoves, Zenon DEF Done

---------------------------------------------------------------------------
(* Reconciling.                                                            *)

\* Reconciling keeps entries entries.
LEMMA OutcomeIsEntries ==
  ASSUME NEW t \in Tasks, JobOK(task[t])
  PROVE  Outcome(t) \subseteq Entry
<1> DEFINE snap == task[t].snap
           seen == task[t].seen
<1>1. \A e \in Entry, b \in BOOLEAN : [e EXCEPT !.ended = b] \in Entry
  BY DEF Entry
<1>2. \A e \in Entry : e.ended \in BOOLEAN
  BY DEF Entry
<1>3. ASSUME NEW e \in Entry
      PROVE  Stamped(e, seen) \in Entry
  <2>1. (e.ended \/ seen[e.sid] = "ended") \in BOOLEAN
    BY <1>2
  <2>2. Stamped(e, seen) = [e EXCEPT !.ended = (e.ended \/ seen[e.sid] = "ended")]
    BY DEF Stamped
  <2>3. QED
    BY <1>1, <2>1, <2>2
<1>4. snap \subseteq Entry
  BY DEF JobOK
<1> HIDE DEF snap, seen
<1>5. ReconcileEntries(snap, seen) \subseteq Entry
  BY <1>3, <1>4 DEF ReconcileEntries
<1>6. QED
  BY <1>5 DEF Outcome, snap, seen

\* What a stamp leaves of an entry.
LEMMA StampKeeps ==
  ASSUME NEW e \in Entry, NEW seen
  PROVE  /\ Stamped(e, seen).sid = e.sid
         /\ Stamped(e, seen).user = e.user
         /\ Stamped(e, seen).slot = e.slot
         /\ Stamped(e, seen).dir = e.dir
         /\ Stamped(e, seen).ended <=> (e.ended \/ seen[e.sid] = "ended")
BY DEF Entry, Stamped

\* Of what a task loaded, reconciled with what the probes said, the same holds:
\* the entry of a session that is not exposed stays, stamped only if it ended.
LEMMA OutcomeIsSound ==
  ASSUME Inv, NEW t \in Tasks, task[t].at = "probing"
  PROVE  /\ Sound(Outcome(t))
         /\ \A s \in Named(task[t].snap) \ Named(Outcome(t)) : ~ Kept(s)
<1> DEFINE snap == task[t].snap
           seen == task[t].seen
<1>1. JobOK(task[t])
  BY JobsAreTyped DEF Inv, TypeInv
<1>2. \A e \in snap : e \in Entry /\ e.sid \in Sids
  BY <1>1 DEF JobOK, Entry
<1>3. \A e \in snap : seen[e.sid] = "ended" => state[e.sid] \in {"ended", "gone"}
  BY DEF Inv, AnswersAreTrue, TrueJob, Named
<1>4. Sound(snap)
  BY DEF Inv, AnswersAreTrue, TrueJob
<1> DEFINE Of(e, x) ==
      /\ e.sid = x.sid
      /\ e.user = x.user
      /\ e.slot = x.slot
      /\ e.dir = x.dir
      /\ e.ended <=> (x.ended \/ seen[x.sid] = "ended")
<1>5. \A x \in snap : Of(Stamped(x, seen), x)
  BY <1>2, StampKeeps
<1>6. \A e \in Outcome(t) : \E x \in snap : e = Stamped(x, seen)
  BY DEF Outcome, ReconcileEntries
<1>7. ASSUME NEW x \in snap, Kept(x.sid)
      PROVE  Stamped(x, seen) \in Outcome(t)
  BY <1>7 DEF Outcome, ReconcileEntries, PidAlive, Kept, Exposed
<1> HIDE DEF snap, seen, Of
<1>8. \A e \in Outcome(t) : \E x \in snap : Of(e, x)
  BY <1>5, <1>6
<1>9. \A e \in Outcome(t) : state[e.sid] # "none"
  BY <1>4, <1>8 DEF Sound, Of
<1>10. ASSUME NEW s \in Sids, Kept(s)
       PROVE  HoldsIn(s, Outcome(t))
  <2>1. HoldsIn(s, snap)
    BY <1>4, <1>10 DEF Sound
  <2>2. \E e \in Outcome(t) : Names(e, s)
    <3>1. PICK x \in snap : Names(x, s)
      BY <2>1 DEF HoldsIn
    <3>2. Stamped(x, seen) \in Outcome(t) /\ Of(Stamped(x, seen), x)
      BY <1>5, <1>7, <1>10, <3>1 DEF Names
    <3>3. QED
      BY <3>1, <3>2 DEF Names, Of
  <2>3. ASSUME NEW e \in Outcome(t), e.sid = s \/ e.slot = home[s].slot
        PROVE  Names(e, s) /\ (e.ended => state[s] = "ended")
    <3>1. PICK x \in snap : Of(e, x)
      BY <1>8
    <3>2. Names(x, s) /\ (x.ended => state[s] = "ended")
      BY <2>1, <2>3, <3>1 DEF HoldsIn, Of
    <3>3. Names(e, s)
      BY <3>1, <3>2 DEF Names, Of
    <3>4. seen[x.sid] = "ended" => state[s] = "ended"
      BY <1>3, <1>10, <3>2 DEF Names, Kept, Running
    <3>5. QED
      BY <3>1, <3>2, <3>3, <3>4 DEF Of
  <2>4. QED
    BY <2>2, <2>3 DEF HoldsIn
<1>11. ASSUME NEW s \in Named(snap), s \notin Named(Outcome(t)), Kept(s)
       PROVE  FALSE
  <2>1. PICK x \in snap : x.sid = s
    BY DEF Named
  <2>2. Stamped(x, seen) \in Outcome(t) /\ Of(Stamped(x, seen), x)
    BY <1>5, <1>7, <1>11, <2>1
  <2>3. QED
    BY <1>11, <2>1, <2>2 DEF Named, Of
<1>12. QED
  BY <1>9, <1>10, <1>11 DEF Sound, snap

---------------------------------------------------------------------------
(* Sessions.                                                               *)

\* What a step may do to sessions and leave every registry as true as it was.
Onward ==
  \A s \in Sids :
    /\ state[s] # "none" => state'[s] # "none"
    /\ state[s] \in {"ended", "gone"} => state'[s] \in {"ended", "gone"}
    /\ state[s] = "gone" => state'[s] = "gone"

NoneArrives ==
  \A s \in Sids : Running(s)' =>
    Running(s) /\ home'[s] = home[s] /\ (s \in Exposed => s \in Exposed')

\* Then a kept session was one before.
LEMMA KeptBefore ==
  ASSUME Onward, NoneArrives, NEW s \in Sids, Kept(s)'
  PROVE  /\ Kept(s) /\ home'[s] = home[s]
         /\ state[s] = "ended" => state'[s] = "ended"
         /\ AtWork(s)' => AtWork(s)
BY DEF Kept, Onward, NoneArrives, Running, AtWork

\* Of a registry that may be written, the same holds while sessions only go on.
LEMMA SoundStays ==
  ASSUME NEW registry, registry \subseteq Entry, Sound(registry), Onward, NoneArrives
  PROVE  /\ \A e \in registry : state'[e.sid] # "none"
         /\ \A s \in Sids : Kept(s)' =>
              /\ \E e \in registry : Names(e, s)'
              /\ \A e \in registry :
                   e.sid = s \/ e.slot = home'[s].slot =>
                     Names(e, s)' /\ (e.ended => state'[s] = "ended")
<1>1. \A e \in registry : state'[e.sid] # "none"
  BY DEF Sound, Onward, Entry
<1>2. ASSUME NEW s \in Sids, Kept(s)'
      PROVE  /\ \E e \in registry : Names(e, s)'
             /\ \A e \in registry :
                  e.sid = s \/ e.slot = home'[s].slot =>
                    Names(e, s)' /\ (e.ended => state'[s] = "ended")
  <2>1. Kept(s) /\ home'[s] = home[s] /\ (state[s] = "ended" => state'[s] = "ended")
    BY <1>2, KeptBefore
  <2>2. HoldsIn(s, registry)
    BY <2>1 DEF Sound
  <2>3. QED
    BY <2>1, <2>2 DEF HoldsIn, Names
<1>3. QED
  BY <1>1, <1>2

LEMMA FileStays ==
  ASSUME NEW registry, registry \subseteq Entry, Sound(registry), Onward, NoneArrives,
         entries' = registry
  PROVE  Sound(entries)'
BY SoundStays DEF Sound, HoldsIn

\* What tasks hold and were told stays true while sessions only go on.
LEMMA AnswersStay ==
  ASSUME TasksOK, AnswersAreTrue, Onward, NoneArrives,
         \A t \in Tasks : task'[t] = task[t] \/ TrueJob(task[t])'
  PROVE  AnswersAreTrue'
<1> SUFFICES ASSUME NEW t \in Tasks, task'[t] = task[t]
             PROVE  TrueJob(task[t])'
  BY DEF AnswersAreTrue
<1>1. TrueJob(task[t])
  BY DEF AnswersAreTrue
<1>2. task[t].at # "idle" => task[t].snap \subseteq Entry /\ Named(task[t].snap) \subseteq Sids
  BY JobsAreTyped DEF JobOK, Named, Entry
<1>3. ASSUME task[t].at = "probing"
      PROVE  Sound(task[t].snap)'
  <2>1. Sound(task[t].snap) /\ task[t].snap \subseteq Entry
    BY <1>1, <1>2, <1>3 DEF TrueJob
  <2>2. QED
    BY <2>1, SoundStays DEF Sound, HoldsIn
<1>4. ASSUME task[t].at = "probing"
      PROVE  \A s \in Named(task[t].snap) :
               task[t].seen[s] = "ended" => state'[s] \in {"ended", "gone"}
  BY <1>1, <1>2, <1>4 DEF TrueJob, Onward
<1>5. ASSUME task[t].at = "stamping"
      PROVE  \A s \in Named(task[t].snap) : state'[s] # "none" /\ ~ Kept(s)'
  BY <1>1, <1>2, <1>5, KeptBefore DEF TrueJob, Onward
<1>6. QED
  BY <1>3, <1>4, <1>5 DEF TrueJob

\* Rooms that were apart stay apart while sessions only go on.
LEMMA ApartStays ==
  ASSUME RoomsAreApart, Onward, NoneArrives
  PROVE  RoomsAreApart'
<1> SUFFICES ASSUME NEW s \in Sids, NEW r \in Sids, s # r,
                    s \notin Exposed', Running(s)', Running(r)'
             PROVE  /\ home'[s].slot # home'[r].slot
                    /\ AtWork(s)' /\ AtWork(r)' /\ r \notin Exposed'
                         => home'[s].dir # home'[r].dir
  BY DEF RoomsAreApart, AtWork, Running
<1>1. Kept(s) /\ home'[s] = home[s] /\ (AtWork(s)' => AtWork(s))
  BY KeptBefore DEF Kept
<1>2. Running(r) /\ home'[r] = home[r]
  BY DEF NoneArrives
<1>3. r \notin Exposed' => r \notin Exposed /\ (AtWork(r)' => AtWork(r))
  BY KeptBefore DEF Kept
<1>4. QED
  BY <1>1, <1>2, <1>3 DEF RoomsAreApart, Kept

\* Who listens on a port pair that a registry gives to an entry is that
\* entry's session, or an exposed one.
LEMMA ListenerIsOwn ==
  ASSUME NEW registry, Sound(registry), NEW e \in registry,
         NEW s \in ListeningOn(e.slot), s \notin Exposed
  PROVE  Names(e, s) /\ (e.ended => state[s] = "ended")
<1>1. s \in Sids /\ Kept(s) /\ home[s].slot = e.slot
  BY DEF ListeningOn, Running, Kept
<1>2. QED
  BY <1>1 DEF Sound, HoldsIn

\* Sessions that vanish leave the rest as they were.
LEMMA VanishedAreGone ==
  ASSUME RoomsOK, NEW set, \A s \in set : state[s] # "none", Vanish(set)
  PROVE  /\ state' \in [Sids -> {"none", "booting", "serving", "ended", "gone"}]
         /\ home' \in [Sids -> Place \cup {NoPlace}]
         /\ \A s \in Sids : home'[s] = NoPlace <=> ~ Running(s)'
         /\ old' \subseteq {s \in Sids : Running(s)'}
         /\ crossed' \subseteq {s \in Sids : Running(s)'}
         /\ \A s \in Sids : state[s] = "gone" => state'[s] = "gone"
         /\ \A s \in Sids \cap set : state'[s] = "gone"
         /\ Onward
         /\ NoneArrives
BY DEF RoomsOK, Vanish, Running, Onward, NoneArrives, Exposed

---------------------------------------------------------------------------
(* The type invariant.                                                     *)

\* Listening sessions are running ones.
LEMMA ListenersRun ==
  \A n : \A s \in ListeningOn(n) : s \in Sids /\ Running(s) /\ state[s] # "none"
BY DEF ListeningOn, Running

\* A task that loads, or is answered, keeps its record's shape.
LEMMA LoadTyped ==
  ASSUME TypeInv, NEW t \in Tasks, NEW request \in Request, Load(t, request)
  PROVE  /\ TypeInv'
         /\ \A u \in Tasks : task'[u] =
              IF u = t THEN [at |-> "probing", request |-> request, snap |-> entries,
                             seen |-> [s \in Named(entries) |-> "unasked"]]
                       ELSE task[u]
<1> DEFINE j == [at |-> "probing", request |-> request, snap |-> entries,
                 seen |-> [s \in Named(entries) |-> "unasked"]]
<1>1. JobOK(j)
  BY DEF JobOK, Answer, TypeInv, RoomsOK
<1>2. up /\ up' = up /\ task' = [task EXCEPT ![t] = j]
  BY DEF Load
<1> HIDE DEF j
<1>3. TasksOK' /\ \A u \in Tasks : task'[u] = IF u = t THEN j ELSE task[u]
  BY <1>1, <1>2, TaskMoves DEF TypeInv
<1>4. RoomsOK'
  BY DEF Load, TypeInv, RoomsOK, Running
<1>5. QED
  BY <1>3, <1>4 DEF TypeInv, j

\* An answer to a probe changes what that task has seen.
LEMMA ProbeTyped ==
  ASSUME TypeInv, NEW t \in Tasks, NEW e, Probe(t, e)
  PROVE  /\ TypeInv'
         /\ \E answer \in Answer :
              /\ answer = "ended" => state[e.sid] = "ended"
              /\ \A u \in Tasks : task'[u] =
                   IF u = t THEN [at |-> "probing", request |-> task[t].request,
                                  snap |-> task[t].snap,
                                  seen |-> [task[t].seen EXCEPT ![e.sid] = answer]]
                            ELSE task[u]
<1>1. PICK answer \in Answer :
        /\ answer = "ended" => state[e.sid] = "ended"
        /\ task' = [task EXCEPT ![t].seen[e.sid] = answer]
  BY DEF Probe, Answer
<1> DEFINE j == [at |-> "probing", request |-> task[t].request,
                 snap |-> task[t].snap,
                 seen |-> [task[t].seen EXCEPT ![e.sid] = answer]]
<1>2. up /\ JobOK(task[t]) /\ task[t].at = "probing"
  BY JobsAreTyped DEF TypeInv, Probe, Loaded
<1>3. JobOK(j)
  BY <1>2 DEF JobOK
<1>4. task' = [task EXCEPT ![t] = j]
  <2>1. task[t] = [at |-> "probing", request |-> task[t].request,
                   snap |-> task[t].snap, seen |-> task[t].seen]
    BY <1>2 DEF JobOK
  <2>2. [task[t] EXCEPT !.seen[e.sid] = answer] = j
    BY <2>1
  <2>3. QED
    BY <1>1, <2>2
<1> HIDE DEF j
<1>5. TasksOK' /\ \A u \in Tasks : task'[u] = IF u = t THEN j ELSE task[u]
  BY <1>2, <1>3, <1>4, TaskMoves DEF TypeInv, Probe
<1>6. RoomsOK'
  BY DEF Probe, TypeInv, RoomsOK, Running
<1>7. QED
  BY <1>1, <1>5, <1>6 DEF TypeInv, j

\* After the reconcile of a launch.
LEMMA ReconcileTyped ==
  ASSUME TypeInv, NEW t \in Tasks, Reconcile(t)
  PROVE  /\ TypeInv'
         /\ \A u \in Tasks : task'[u] = task[u] \/ task'[u].at = "launching"
<1> DEFINE j == [at |-> "launching", request |-> task[t].request, snap |-> {}, seen |-> <<>>]
<1>1. up /\ JobOK(task[t]) /\ task[t].request.op = "launch"
  BY JobsAreTyped DEF TypeInv, Reconcile, Probed
<1>2. <<>> \in [Named({}) -> Answer]
  <2>1. Named({}) = {} /\ DOMAIN <<>> = {}
    BY DEF Named
  <2>2. <<>> = [s \in {} |-> "live"]
    BY <2>1
  <2>3. QED
    BY <2>1, <2>2
<1>3. JobOK(j)
  BY <1>1, <1>2 DEF JobOK
<1>4. task' = [task EXCEPT ![t] = j]
  BY DEF Reconcile
<1>5. j.at = "launching"
  OBVIOUS
<1> HIDE DEF j
<1>6. TasksOK' /\ \A u \in Tasks : task'[u] = IF u = t THEN j ELSE task[u]
  BY <1>1, <1>3, <1>4, TaskMoves DEF TypeInv, Reconcile
<1>7. entries' \subseteq Entry
  BY <1>1, OutcomeIsEntries DEF Reconcile, Persist, TypeInv, RoomsOK
<1>8. RoomsOK'
  BY <1>7 DEF Reconcile, TypeInv, RoomsOK, Running
<1>9. QED
  BY <1>5, <1>6, <1>8 DEF TypeInv

\* The block that launches: the session it makes, or nothing.
LEMMA LaunchTyped ==
  ASSUME TypeInv, NEW t \in Tasks, Launch(t)
  PROVE  /\ TypeInv'
         /\ \A u \in Tasks : task'[u] = IF u = t THEN Idle ELSE task[u]
         /\ old' = old
         /\ \/ UNCHANGED <<entries, state, home, crossed>>
            \/ \E s \in Sids, n \in Slots, u \in Users, d \in Dirs :
                 /\ state[s] = "none"
                 /\ \A e \in entries : e.slot # n
                 /\ \A e \in entries : e.dir = d => e.ended
                 /\ state' = [state EXCEPT ![s] = "booting"]
                 /\ home' = [home EXCEPT ![s] = [user |-> u, slot |-> n, dir |-> d]]
                 /\ entries' = entries \cup
                      {[sid |-> s, user |-> u, slot |-> n, dir |-> d, ended |-> FALSE]}
                 /\ crossed' = IF Overlapped(t) THEN crossed \cup {s} ELSE crossed
<1>1. JobOK(task[t]) /\ task[t].at = "launching"
  BY JobsAreTyped DEF TypeInv, Launch
<1>2. task[t].request.op = "launch" /\ task[t].request \in Request
  BY <1>1 DEF JobOK
<1>3. TasksOK' /\ \A u \in Tasks : task'[u] = IF u = t THEN Idle ELSE task[u]
  BY DoneIsIdle DEF Launch, TypeInv
<1> DEFINE u == task[t].request.user
           d == task[t].request.dir
           fresh == {s \in Sids : state[s] = "none"}
<1>4. u \in Users /\ d \in Dirs
  BY <1>2 DEF Request
<1> DEFINE Made(repeat) ==
      /\ MayLaunch(u, d, repeat) /\ FreeSlots # {} /\ fresh # {}
      /\ state' = [state EXCEPT ![Min(fresh)] = "booting"]
      /\ home' = [home EXCEPT ![Min(fresh)] = [user |-> u, slot |-> Min(FreeSlots), dir |-> d]]
      /\ entries' = entries \cup
           {[sid |-> Min(fresh), user |-> u, slot |-> Min(FreeSlots), dir |-> d, ended |-> FALSE]}
      /\ crossed' = IF Overlapped(t) THEN crossed \cup {Min(fresh)} ELSE crossed
<1>5. CASE UNCHANGED <<entries, state, home, crossed>>
  <2>1. RoomsOK'
    BY <1>5 DEF Launch, TypeInv, RoomsOK, Running
  <2>2. QED
    BY <1>3, <1>5, <2>1 DEF TypeInv, Launch
<1>6. CASE \E repeat \in BOOLEAN : Made(repeat)
  <2> DEFINE s == Min(fresh)
             n == Min(FreeSlots)
  <2>0. PICK repeat \in BOOLEAN : Made(repeat)
    BY <1>6
  <2>1. /\ MayLaunch(u, d, repeat) /\ FreeSlots # {} /\ fresh # {}
        /\ state' = [state EXCEPT ![s] = "booting"]
        /\ home' = [home EXCEPT ![s] = [user |-> u, slot |-> n, dir |-> d]]
        /\ entries' = entries \cup
             {[sid |-> s, user |-> u, slot |-> n, dir |-> d, ended |-> FALSE]}
        /\ crossed' = IF Overlapped(t) THEN crossed \cup {s} ELSE crossed
    BY <2>0
  <2>2. s \in Sids /\ state[s] = "none"
    <3>1. fresh \subseteq 1..MaxSessions /\ MaxSessions \in Nat
      BY CapsAssumption DEF Sids
    <3>2. s \in fresh
      <4> HIDE DEF fresh
      <4> QED BY <2>1, <3>1, MinIsIn
    <3>3. QED
      BY <3>2
  <2>3. n \in Slots /\ \A e \in entries : e.slot # n
    <3>1. FreeSlots \subseteq 1..MaxSlots /\ MaxSlots \in Nat
      BY CapsAssumption DEF FreeSlots, Slots
    <3>2. n \in FreeSlots
      BY <2>1, <3>1, MinIsIn
    <3>3. QED
      BY <3>2 DEF FreeSlots
  <2>4. \A e \in entries : e.dir = d => e.ended
    <3>1. \A e \in entries : ~ (e.dir = d /\ ~ e.ended)
      BY <2>1 DEF MayLaunch
    <3>2. QED
      BY <3>1
  <2> HIDE DEF s, n, u, d, fresh, Made
  <2>5. [sid |-> s, user |-> u, slot |-> n, dir |-> d, ended |-> FALSE] \in Entry
    BY <1>4, <2>2, <2>3 DEF Entry
  <2>6. [user |-> u, slot |-> n, dir |-> d] \in Place
    BY <1>4, <2>3 DEF Place
  <2>7. [user |-> u, slot |-> n, dir |-> d] # NoPlace
    <3>1. n # 0
      BY <2>3, CapsAssumption DEF Slots
    <3>2. NoPlace.slot = 0
      BY DEF NoPlace
    <3>3. QED
      BY <3>1, <3>2
  <2>8. UNCHANGED <<containers, ghosts, old, up, harmed>>
    BY DEF Launch
  <2>9. RoomsOK'
    BY <2>1, <2>2, <2>5, <2>6, <2>7, <2>8 DEF TypeInv, RoomsOK, Running
  <2>10. QED
    BY <1>3, <1>4, <2>1, <2>2, <2>3, <2>4, <2>8, <2>9 DEF TypeInv
<1>7. UNCHANGED <<entries, state, home, crossed>> \/ \E repeat \in BOOLEAN : Made(repeat)
  BY DEF Launch
<1>8. QED
  BY <1>5, <1>6, <1>7

\* A kill: nothing to kill, or an entry of the outcome and whoever listens there.
LEMMA KillTyped ==
  ASSUME TypeInv, NEW t \in Tasks, Kill(t)
  PROVE  /\ TypeInv'
         /\ \/ /\ UNCHANGED <<state, home, old, crossed, harmed>>
               /\ \A u \in Tasks : task'[u] = IF u = t THEN Idle ELSE task[u]
            \/ \E e \in Outcome(t) :
                 /\ Vanish(ListeningOn(e.slot))
                 /\ Broken(ListeningOn(e.slot) \ {e.sid})
                 /\ \/ \A u \in Tasks : task'[u] = IF u = t THEN Idle ELSE task[u]
                    \/ /\ ListeningOn(e.slot) # {}
                       /\ \A u \in Tasks : task'[u] =
                            IF u = t THEN [at |-> "stamping", request |-> task[t].request,
                                           snap |-> {e}, seen |-> [s \in {e.sid} |-> "live"]]
                                     ELSE task[u]
<1>1. up /\ JobOK(task[t]) /\ up' = up
  BY JobsAreTyped DEF TypeInv, Kill, Probed
<1>2. Outcome(t) \subseteq Entry
  BY <1>1, OutcomeIsEntries
<1>3. entries' \subseteq Entry /\ UNCHANGED <<ghosts, up>>
  BY <1>2 DEF Kill, Persist, TypeInv, RoomsOK
<1>4. CASE Done(t) /\ UNCHANGED <<state, home, containers, old, crossed, harmed>>
  <2>1. TasksOK' /\ \A u \in Tasks : task'[u] = IF u = t THEN Idle ELSE task[u]
    BY <1>1, <1>4, DoneIsIdle DEF TypeInv
  <2>2. RoomsOK'
    BY <1>3, <1>4 DEF TypeInv, RoomsOK, Running
  <2>3. QED
    BY <1>4, <2>1, <2>2 DEF TypeInv
<1>5. ASSUME NEW e \in Outcome(t),
             IF ListeningOn(e.slot) = {}
             THEN Done(t)
             ELSE task' = [task EXCEPT ![t].at = "stamping", ![t].snap = {e},
                                       ![t].seen = [s \in {e.sid} |-> "live"]],
             Vanish(ListeningOn(e.slot)),
             containers' = containers \ ListeningOn(e.slot),
             Broken(ListeningOn(e.slot) \ {e.sid})
      PROVE  /\ TypeInv'
             /\ \/ \A u \in Tasks : task'[u] = IF u = t THEN Idle ELSE task[u]
                \/ /\ ListeningOn(e.slot) # {}
                   /\ \A u \in Tasks : task'[u] =
                        IF u = t THEN [at |-> "stamping", request |-> task[t].request,
                                       snap |-> {e}, seen |-> [s \in {e.sid} |-> "live"]]
                                 ELSE task[u]
  <2> DEFINE j == [at |-> "stamping", request |-> task[t].request,
                   snap |-> {e}, seen |-> [s \in {e.sid} |-> "live"]]
  <2>1. RoomsOK'
    <3>1. harmed' \subseteq Sids
      BY <1>5, ListenersRun DEF Broken, TypeInv, RoomsOK
    <3>2. QED
      BY <1>3, <1>5, <3>1, ListenersRun, VanishedAreGone DEF TypeInv, RoomsOK
  <2>2. CASE Done(t)
    BY <1>1, <2>1, <2>2, DoneIsIdle DEF TypeInv
  <2>3. CASE ListeningOn(e.slot) # {}
    <3>1. JobOK(j)
      <4>1. e \in Entry /\ Named({e}) = {e.sid}
        BY <1>2 DEF Named
      <4>2. [s \in {e.sid} |-> "live"] \in [{e.sid} -> Answer]
        BY DEF Answer
      <4>3. QED
        BY <1>1, <4>1, <4>2 DEF JobOK
    <3>2. task' = [task EXCEPT ![t] = j]
      <4>1. task[t] = [at |-> task[t].at, request |-> task[t].request,
                       snap |-> task[t].snap, seen |-> task[t].seen]
        BY <1>1 DEF JobOK
      <4> DEFINE heard == [s \in {e.sid} |-> "live"]
      <4>2. task' = [task EXCEPT ![t].at = "stamping", ![t].snap = {e}, ![t].seen = heard]
        BY <1>5, <2>3
      <4> HIDE DEF heard
      <4>3. PICK p, q : /\ p = [task[t] EXCEPT !.at = "stamping"]
                        /\ q = [p EXCEPT !.snap = {e}]
        OBVIOUS
      <4>4. [task[t] EXCEPT !.at = "stamping", !.snap = {e}, !.seen = heard]
              = [at |-> "stamping", request |-> task[t].request, snap |-> {e}, seen |-> heard]
        <5>1. p = [at |-> "stamping", request |-> task[t].request,
                   snap |-> task[t].snap, seen |-> task[t].seen]
          BY <4>1, <4>3
        <5>2. q = [at |-> "stamping", request |-> task[t].request,
                   snap |-> {e}, seen |-> task[t].seen]
          BY <4>3, <5>1
        <5>3. PICK k : k = [q EXCEPT !.seen = heard]
          OBVIOUS
        <5>4. k = [at |-> "stamping", request |-> task[t].request, snap |-> {e}, seen |-> heard]
          BY <5>2, <5>3
        <5>5. [task[t] EXCEPT !.at = "stamping", !.snap = {e}, !.seen = heard]
                = [[[task[t] EXCEPT !.at = "stamping"] EXCEPT !.snap = {e}] EXCEPT !.seen = heard]
          OBVIOUS
        <5>6. QED
          BY <4>3, <5>3, <5>4, <5>5
      <4>5. t \in DOMAIN task
        BY DEF TypeInv, TasksOK
      <4>6. task' = [task EXCEPT ![t] =
                [task[t] EXCEPT !.at = "stamping", !.snap = {e}, !.seen = heard]]
        BY <4>2, <4>5
      <4>7. QED
        BY <4>4, <4>6 DEF heard
    <3> HIDE DEF j
    <3>3. TasksOK' /\ \A u \in Tasks : task'[u] = IF u = t THEN j ELSE task[u]
      BY <1>1, <3>1, <3>2, TaskMoves DEF TypeInv
    <3>4. QED
      BY <2>1, <2>3, <3>3 DEF TypeInv, j
  <2>4. QED
    BY <1>5, <2>2, <2>3
<1>6. QED
  BY <1>4, <1>5 DEF Kill

\* Looks, stamps and sweeps.
LEMMA LookTyped ==
  ASSUME TypeInv, NEW t \in Tasks, Look(t)
  PROVE  TypeInv' /\ \A u \in Tasks : task'[u] = IF u = t THEN Idle ELSE task[u]
<1>1. TasksOK' /\ \A u \in Tasks : task'[u] = IF u = t THEN Idle ELSE task[u]
  BY DoneIsIdle DEF TypeInv, Look
<1>2. Outcome(t) \subseteq Entry
  BY JobsAreTyped, OutcomeIsEntries DEF TypeInv, Look, Probed
<1>3. RoomsOK'
  BY <1>2 DEF Look, Persist, TypeInv, RoomsOK, Running
<1>4. QED
  BY <1>1, <1>3 DEF TypeInv

\* The steps of a task keep the types.
LEMMA StampTyped ==
  ASSUME TypeInv, NEW t \in Tasks, StampKilled(t)
  PROVE  TypeInv' /\ \A u \in Tasks : task'[u] = IF u = t THEN Idle ELSE task[u]
<1>1. TasksOK' /\ \A u \in Tasks : task'[u] = IF u = t THEN Idle ELSE task[u]
  BY DoneIsIdle DEF TypeInv, StampKilled
<1>2. \A e \in Entry : [e EXCEPT !.ended = TRUE] \in Entry
  BY DEF Entry
<1>3. entries' \subseteq Entry
  BY <1>2 DEF StampKilled, TypeInv, RoomsOK
<1>4. RoomsOK'
  BY <1>3 DEF StampKilled, TypeInv, RoomsOK, Running
<1>5. QED
  BY <1>1, <1>4 DEF TypeInv

LEMMA SweepTyped ==
  ASSUME TypeInv, NEW t \in Tasks, Sweep(t)
  PROVE  TypeInv' /\ \A u \in Tasks : task'[u] = IF u = t THEN Idle ELSE task[u]
<1>1. TasksOK' /\ \A u \in Tasks : task'[u] = IF u = t THEN Idle ELSE task[u]
  BY DoneIsIdle DEF TypeInv, Sweep
<1>2. Outcome(t) \subseteq Entry
  BY JobsAreTyped, OutcomeIsEntries DEF TypeInv, Sweep, Probed
<1>3. PICK lingered \in SUBSET {e \in Outcome(t) : e.ended} :
        LET dropped == Named(task[t].snap) \ Named(Outcome(t))
            orphans == containers \ Named(task[t].snap)
            shut == UNION {ListeningOn(e.slot) : e \in lingered}
        IN  /\ containers' = containers \ (dropped \cup orphans \cup shut)
            /\ Vanish(shut)
            /\ Broken((containers \cap (dropped \cup orphans)) \cup shut)
  BY DEF Sweep
<1> DEFINE shut == UNION {ListeningOn(e.slot) : e \in lingered}
<1>4. shut \subseteq Sids /\ \A s \in shut : state[s] # "none"
  BY ListenersRun
<1>5. Vanish(shut) /\ containers' \subseteq containers
  BY <1>3
<1>6. harmed' \subseteq harmed \cup containers \cup shut
  BY <1>3 DEF Broken
<1>7. entries' \subseteq Entry /\ UNCHANGED <<ghosts, up>>
  BY <1>2 DEF Sweep, Persist, TypeInv, RoomsOK
<1> HIDE DEF shut
<1>8. RoomsOK'
  BY <1>4, <1>5, <1>6, <1>7, VanishedAreGone DEF TypeInv, RoomsOK
<1>9. QED
  BY <1>1, <1>8 DEF TypeInv

\* What a session does on its own, or what happens to it.
SessionStep(s) ==
  \/ StartContainer(s)
  \/ Listen(s)
  \/ End(s)
  \/ TearDown(s)
  \/ Reap(s)
  \/ Crash(s)
  \/ GhostFades(s)
  \/ Ages(s)

\* It leaves the registry and the tasks alone, and sessions only go on.
LEMMA SessionStepTyped ==
  ASSUME TypeInv, NEW s \in Sids, SessionStep(s)
  PROVE  TypeInv' /\ Onward /\ NoneArrives /\ UNCHANGED <<entries, task, up, harmed>>
<1>1. UNCHANGED <<entries, task, up, harmed>>
  BY DEF SessionStep, StartContainer, Listen, End, TearDown, Reap, Crash, GhostFades, Ages
<1>2. TasksOK'
  BY <1>1 DEF TypeInv, TasksOK, JobOK
<1>3. CASE Reap(s) \/ Crash(s)
  <2>1. Vanish({s}) /\ Running(s) /\ state[s] # "none"
    BY <1>3 DEF Reap, Crash, Running
  <2>2. /\ state' \in [Sids -> {"none", "booting", "serving", "ended", "gone"}]
        /\ home' \in [Sids -> Place \cup {NoPlace}]
        /\ \A r \in Sids : home'[r] = NoPlace <=> ~ Running(r)'
        /\ \A r \in Sids : state[r] = "gone" => state'[r] = "gone"
        /\ old' \subseteq {r \in Sids : Running(r)'}
        /\ crossed' \subseteq {r \in Sids : Running(r)'}
        /\ state'[s] = "gone"
        /\ Onward
        /\ NoneArrives
    BY <2>1, VanishedAreGone DEF TypeInv
  <2>3. containers' \subseteq containers /\ ghosts' \subseteq ghosts \cup {s}
    BY <1>3 DEF Reap, Crash
  <2>4. RoomsOK'
    BY <1>1, <2>2, <2>3 DEF TypeInv, RoomsOK
  <2>5. QED
    BY <1>1, <1>2, <2>2, <2>4 DEF TypeInv
<1>4. CASE Listen(s)
  BY <1>1, <1>2, <1>4
     DEF TypeInv, RoomsOK, Listen, Become, Running, Onward, NoneArrives, Exposed
<1>5. CASE End(s)
  BY <1>1, <1>2, <1>5 DEF TypeInv, RoomsOK, End, Become, Running, Onward, NoneArrives, Exposed
<1>6. CASE StartContainer(s) \/ TearDown(s) \/ GhostFades(s) \/ Ages(s)
  BY <1>1, <1>2, <1>6
     DEF TypeInv, RoomsOK, StartContainer, TearDown, GhostFades, Ages, Running,
         Onward, NoneArrives, Exposed
<1>7. QED
  BY <1>3, <1>4, <1>5, <1>6 DEF SessionStep

\* The app stops or starts: only what it was doing is lost.
LEMMA AppStepTyped ==
  ASSUME TypeInv, Stop \/ Restart
  PROVE  /\ TypeInv'
         /\ UNCHANGED <<entries, state, home, old, crossed, harmed>>
         /\ \A t \in Tasks : task'[t] = task[t] \/ task'[t] = Idle
<1>1. UNCHANGED <<entries, state, home, containers, ghosts, old, crossed, harmed>>
      /\ up' \in BOOLEAN
  BY DEF Stop, Restart
<1>2. RoomsOK'
  BY <1>1 DEF TypeInv, RoomsOK, Running
<1>3. CASE Stop
  BY <1>1, <1>2, <1>3 DEF Stop, TypeInv, TasksOK
<1>4. CASE Restart
  <2>1. \A t \in Tasks : task[t] = Idle
    BY <1>4 DEF Restart, TypeInv, TasksOK
  <2>2. TasksOK'
    BY <1>4, <2>1 DEF Restart, TypeInv, TasksOK
  <2>3. QED
    BY <1>1, <1>2, <1>4, <2>2 DEF Restart, TypeInv
<1>5. QED
  BY <1>3, <1>4

\* A step that changes nothing keeps everything.
LEMMA StutterTyped ==
  ASSUME TypeInv, UNCHANGED vars
  PROVE  TypeInv'
BY DEF TypeInv, RoomsOK, TasksOK, JobOK, Running, vars

LEMMA NextTyped ==
  ASSUME TypeInv, [Next]_vars
  PROVE  TypeInv'
<1>1. ASSUME NEW t \in Tasks, NEW request \in Request, Load(t, request)
      PROVE  TypeInv'
  BY <1>1, LoadTyped
<1>2. ASSUME NEW t \in Tasks, TaskStep(t)
      PROVE  TypeInv'
  BY <1>2, ProbeTyped, LookTyped, ReconcileTyped, LaunchTyped, KillTyped,
     StampTyped, SweepTyped, Zenon DEF TaskStep
<1>3. ASSUME NEW s \in Sids, SessionStep(s)
      PROVE  TypeInv'
  BY <1>3, SessionStepTyped
<1>4. QED
  BY <1>1, <1>2, <1>3, AppStepTyped, StutterTyped DEF Next, SessionStep

\* And the first state has them.
LEMMA TypeInitially == Init => TypeInv
BY DEF Init, TypeInv, RoomsOK, TasksOK, Running

\* These are the types the run checks.
LEMMA TypedIsTypeOK == TypeInv => TypeOK
BY DEF TypeInv, RoomsOK, TasksOK, JobOK, TypeOK

\* Each variable keeps its type, however many tasks overlap.
THEOREM TypeCorrect == Spec => []TypeOK
<1>1. TypeInv /\ [Next]_vars => TypeInv'
  BY NextTyped
<1>2. QED
  BY <1>1, TypeInitially, TypedIsTypeOK, PTL DEF Spec

---------------------------------------------------------------------------
(* The invariant: each step keeps every registry sound.                    *)

\* A step that leaves the sessions alone is an onward one.
LEMMA StillIsOnward ==
  UNCHANGED <<state, home, old, crossed>> => Onward /\ NoneArrives
BY DEF Onward, NoneArrives, Running, Exposed

\* A step that leaves the file alone too, and what tasks hold true.
LEMMA QuietKeeps ==
  ASSUME Inv, TypeInv', Onward, NoneArrives, UNCHANGED <<entries, harmed>>,
         \A u \in Tasks : task'[u] = task[u] \/ TrueJob(task[u])'
  PROVE  Inv'
<1>1. AnswersAreTrue'
  BY AnswersStay DEF Inv, TypeInv
<1>2. Sound(entries)'
  BY FileStays DEF Inv, TypeInv, RoomsOK
<1>3. QED
  BY <1>1, <1>2, ApartStays DEF Inv, HealthyRoomsAreSpared

\* A task that loads has the file's registry.
LEMMA LoadKeeps ==
  ASSUME Inv, NEW t \in Tasks, NEW request \in Request, Load(t, request)
  PROVE  Inv'
<1>1. /\ TypeInv'
      /\ \A u \in Tasks : task'[u] =
           IF u = t THEN [at |-> "probing", request |-> request, snap |-> entries,
                          seen |-> [s \in Named(entries) |-> "unasked"]]
                    ELSE task[u]
  BY LoadTyped, Zenon DEF Inv
<1>2. UNCHANGED <<entries, state, home, old, crossed, harmed>>
  BY DEF Load
<1>3. TrueJob(task[t])'
  <2>1. Sound(entries)'
    BY <1>2 DEF Inv, Sound, HoldsIn, Names, Kept, Running, Exposed
  <2>2. /\ task'[t].at = "probing"
        /\ task'[t].snap = entries'
        /\ task'[t].seen = [s \in Named(entries) |-> "unasked"]
    BY <1>1, <1>2
  <2>3. Sound(task[t].snap)'
    BY <2>1, <2>2
  <2>4. QED
    BY <1>2, <2>2, <2>3 DEF TrueJob
<1>4. \A u \in Tasks : task'[u] = task[u] \/ TrueJob(task[u])'
  <2>1. \A u \in Tasks : u # t => task'[u] = task[u]
    BY <1>1
  <2>2. QED
    BY <1>3, <2>1
<1>5. QED
  BY <1>1, <1>2, <1>4, QuietKeeps, StillIsOnward

\* An answer is true when it is given.
LEMMA ProbeKeeps ==
  ASSUME Inv, NEW t \in Tasks, NEW e, Probe(t, e)
  PROVE  Inv'
<1>1. TypeInv'
  BY ProbeTyped DEF Inv
<1>2. PICK answer \in Answer :
        /\ answer = "ended" => state[e.sid] = "ended"
        /\ \A u \in Tasks : task'[u] =
             IF u = t THEN [at |-> "probing", request |-> task[t].request,
                            snap |-> task[t].snap,
                            seen |-> [task[t].seen EXCEPT ![e.sid] = answer]]
                      ELSE task[u]
  BY ProbeTyped DEF Inv
<1>3. UNCHANGED <<entries, state, home, old, crossed, harmed>>
  BY DEF Probe
<1>4. TrueJob(task[t])'
  <2>1. TrueJob(task[t]) /\ task[t].at = "probing"
    BY DEF Inv, AnswersAreTrue, Probe, Loaded
  <2>2. task[t].seen \in [Named(task[t].snap) -> Answer]
    BY JobsAreTyped, <2>1 DEF Inv, TypeInv, JobOK
  <2>3. task'[t].at = "probing" /\ task'[t].snap = task[t].snap
        /\ task'[t].seen = [task[t].seen EXCEPT ![e.sid] = answer]
    BY <1>2
  <2>4. \A s \in Named(task[t].snap) :
          task'[t].seen[s] = "ended" => state[s] \in {"ended", "gone"}
    BY <1>2, <2>1, <2>2, <2>3 DEF TrueJob
  <2>5. Sound(task[t].snap)'
    BY <1>3, <2>1, <2>3 DEF TrueJob, Sound, HoldsIn, Names, Kept, Running, Exposed
  <2>6. QED
    BY <1>3, <2>3, <2>4, <2>5 DEF TrueJob
<1>5. \A u \in Tasks : task'[u] = task[u] \/ TrueJob(task[u])'
  <2>1. \A u \in Tasks : u # t => task'[u] = task[u]
    BY <1>2
  <2>2. QED
    BY <1>4, <2>1
<1>6. QED
  BY <1>1, <1>3, <1>5, QuietKeeps, StillIsOnward

\* A task that has heard from every entry writes what may be written, however
\* old the registry is that it loaded.
LEMMA WrittenKeeps ==
  ASSUME Inv, TypeInv', NEW t \in Tasks, NEW op, Probed(t, op),
         Persist(task[t].snap, Outcome(t)),
         Onward, NoneArrives, HealthyRoomsAreSpared',
         \A u \in Tasks : task'[u] = task[u] \/ TrueJob(task[u])'
  PROVE  Inv'
<1>1. Sound(Outcome(t))
  BY OutcomeIsSound DEF Probed
<1>2. Outcome(t) \subseteq Entry
  BY JobsAreTyped, OutcomeIsEntries DEF Inv, TypeInv, Probed
<1>3. Sound(entries)'
  <2>1. CASE entries' = Outcome(t)
    BY <1>1, <1>2, <2>1, FileStays
  <2>2. CASE entries' = entries
    BY <2>2, FileStays DEF Inv, TypeInv, RoomsOK
  <2>3. QED
    BY <2>1, <2>2 DEF Persist
<1>4. AnswersAreTrue'
  BY AnswersStay DEF Inv, TypeInv
<1>5. QED
  BY <1>3, <1>4, ApartStays DEF Inv

\* A look and a launch's reconcile write what they found.
LEMMA LookKeeps ==
  ASSUME Inv, NEW t \in Tasks, Look(t)
  PROVE  Inv'
<1>1. TypeInv' /\ \A u \in Tasks : task'[u] = IF u = t THEN Idle ELSE task[u]
  BY LookTyped, Zenon DEF Inv
<1>2. \A u \in Tasks : task'[u] = task[u] \/ TrueJob(task[u])'
  BY <1>1 DEF TrueJob, Idle
<1>3. UNCHANGED <<state, home, old, crossed, harmed>> /\ Probed(t, "look")
      /\ Persist(task[t].snap, Outcome(t))
  BY DEF Look
<1>4. QED
  BY <1>1, <1>2, <1>3, WrittenKeeps, StillIsOnward DEF Inv, HealthyRoomsAreSpared

\* What reconciling writes was true when it was read.
LEMMA ReconcileKeeps ==
  ASSUME Inv, NEW t \in Tasks, Reconcile(t)
  PROVE  Inv'
<1>1. TypeInv' /\ \A u \in Tasks : task'[u] = task[u] \/ task'[u].at = "launching"
  BY ReconcileTyped, Zenon DEF Inv
<1>2. \A u \in Tasks : task'[u] = task[u] \/ TrueJob(task[u])'
  BY <1>1 DEF TrueJob
<1>3. UNCHANGED <<state, home, old, crossed, harmed>> /\ Probed(t, "launch")
      /\ Persist(task[t].snap, Outcome(t))
  BY DEF Reconcile
<1>4. QED
  BY <1>1, <1>2, <1>3, WrittenKeeps, StillIsOnward DEF Inv, HealthyRoomsAreSpared

\* A launch adds the entry of a session that was not there, in a slot that no
\* entry holds and on a directory no unended entry has.  If another task holds
\* a registry, or a running session has lost its row, the new one is exposed;
\* if not, every running session is listed, and the slot is no running session's.
LEMMA LaunchKeeps ==
  ASSUME Inv, NEW t \in Tasks, Launch(t)
  PROVE  Inv'
<1>1. /\ TypeInv' /\ \A u \in Tasks : task'[u] = IF u = t THEN Idle ELSE task[u]
      /\ old' = old
  BY LaunchTyped, Zenon DEF Inv
<1>2. harmed' = harmed /\ task[t].at = "launching"
  BY DEF Launch
<1>3. \A u \in Tasks : task'[u] = task[u] \/ task'[u] = Idle
  BY <1>1
<1>4. CASE UNCHANGED <<entries, state, home, crossed>>
  <2>1. \A u \in Tasks : task'[u] = task[u] \/ TrueJob(task[u])'
    BY <1>3 DEF TrueJob, Idle
  <2>2. QED
    BY <1>1, <1>2, <1>4, <2>1, QuietKeeps, StillIsOnward
<1>5. ASSUME NEW s \in Sids, NEW n \in Slots, NEW u \in Users, NEW d \in Dirs,
             state[s] = "none",
             \A e \in entries : e.slot # n,
             \A e \in entries : e.dir = d => e.ended,
             state' = [state EXCEPT ![s] = "booting"],
             home' = [home EXCEPT ![s] = [user |-> u, slot |-> n, dir |-> d]],
             entries' = entries \cup
               {[sid |-> s, user |-> u, slot |-> n, dir |-> d, ended |-> FALSE]},
             crossed' = IF Overlapped(t) THEN crossed \cup {s} ELSE crossed
      PROVE  Inv'
  <2>1. \A r \in Sids : r # s => state'[r] = state[r] /\ home'[r] = home[r]
    BY <1>5 DEF Inv, TypeInv, RoomsOK
  <2>2. state'[s] = "booting" /\ home'[s] = [user |-> u, slot |-> n, dir |-> d]
    BY <1>5 DEF Inv, TypeInv, RoomsOK
  <2>3. home'[s].slot = n /\ home'[s].dir = d
    BY <2>2
  <2>4. \A r \in Sids : r # s => (r \in Exposed' <=> r \in Exposed)
    BY <1>1, <1>5 DEF Exposed
  <2>5. \A r \in Sids : r # s =>
          /\ Running(r)' <=> Running(r)
          /\ AtWork(r)' <=> AtWork(r)
          /\ Kept(r)' <=> Kept(r)
    BY <2>1, <2>4 DEF Running, AtWork, Kept
  <2>6. Overlapped(t) => ~ Kept(s)'
    BY <1>5 DEF Kept, Exposed
  <2>7. PICK new : /\ new = [sid |-> s, user |-> u, slot |-> n, dir |-> d, ended |-> FALSE]
                   /\ entries' = entries \cup {new}
    BY <1>5
  <2>8. new.sid = s /\ new.user = u /\ new.slot = n /\ new.dir = d /\ new.ended = FALSE
    BY <2>7
  <2>9. Names(new, s)'
    BY <2>2, <2>8 DEF Names
  <2>10. \A e \in entries : e.sid # s /\ e.sid \in Sids
    BY <1>5 DEF Inv, TypeInv, RoomsOK, Sound, Entry
  <2>11. ASSUME NEW registry, registry \subseteq Entry, Sound(registry),
                NEW r \in Sids, r # s, Kept(r)'
         PROVE  /\ \E e \in registry : Names(e, r)'
                /\ \A e \in registry :
                     e.sid = r \/ e.slot = home'[r].slot =>
                       Names(e, r)' /\ (e.ended => state'[r] = "ended")
    <3>1. Kept(r) /\ home'[r] = home[r] /\ state'[r] = state[r]
      BY <2>1, <2>5, <2>11
    <3>2. HoldsIn(r, registry)
      BY <2>11, <3>1 DEF Sound
    <3>3. QED
      BY <3>1, <3>2 DEF HoldsIn, Names
  <2>12. \A r \in Sids : Listed(r) => home[r].slot # n
    BY <1>5 DEF Listed, Names
  <2>13. Sound(entries)'
    <3>1. \A e \in entries' : state'[e.sid] # "none"
      BY <2>1, <2>2, <2>7, <2>8, <2>10 DEF Inv, Sound
    <3>2. HoldsIn(s, entries)'
      <4>1. \A e \in entries' : e.sid = s \/ e.slot = home'[s].slot => e = new
        BY <1>5, <2>3, <2>7, <2>10
      <4>2. QED
        BY <2>7, <2>8, <2>9, <4>1 DEF HoldsIn
    <3>3. ASSUME NEW r \in Sids, r # s, Kept(r)'
          PROVE  HoldsIn(r, entries)'
      <4>1. entries \subseteq Entry /\ Sound(entries)
        BY DEF Inv, TypeInv, RoomsOK
      <4>2. /\ \E e \in entries : Names(e, r)'
            /\ \A e \in entries :
                 e.sid = r \/ e.slot = home'[r].slot =>
                   Names(e, r)' /\ (e.ended => state'[r] = "ended")
        BY <2>11, <3>3, <4>1
      <4>3. home[r] = home'[r] /\ Kept(r)
        BY <2>1, <2>5, <3>3
      <4>4. Listed(r)
        BY <4>1, <4>3 DEF Sound, HoldsIn, Listed
      <4>5. new.sid # r /\ new.slot # home'[r].slot
        BY <2>8, <2>12, <3>3, <4>3, <4>4
      <4>6. QED
        BY <2>7, <4>2, <4>5 DEF HoldsIn
    <3>4. QED
      BY <3>1, <3>2, <3>3 DEF Sound
  <2>14. AnswersAreTrue'
    <3>1. SUFFICES ASSUME NEW w \in Tasks, task'[w] = task[w], w # t
                   PROVE  TrueJob(task[w])'
      <4>1. \A w \in Tasks : task'[w] = Idle => TrueJob(task[w])'
        BY DEF TrueJob, Idle
      <4>2. task'[t] = Idle
        BY <1>1
      <4>3. QED
        BY <1>3, <4>1, <4>2 DEF AnswersAreTrue
    <3>2. TrueJob(task[w])
      BY DEF Inv, AnswersAreTrue
    <3>3. task[w].at # "idle" =>
            task[w].snap \subseteq Entry /\ Named(task[w].snap) \subseteq Sids
      BY JobsAreTyped DEF JobOK, Named, Entry, Inv, TypeInv
    <3>4. ASSUME task[w].at = "probing"
          PROVE  Sound(task[w].snap)'
      <4>1. Overlapped(t)
        BY <3>1, <3>4 DEF Overlapped
      <4>2. ~ Kept(s)'
        BY <2>6, <4>1
      <4>3. Sound(task[w].snap) /\ task[w].snap \subseteq Entry
        BY <3>2, <3>3, <3>4 DEF TrueJob
      <4>4. \A e \in task[w].snap : state'[e.sid] # "none"
        BY <2>1, <2>2, <4>3 DEF Sound, Entry
      <4>5. \A r \in Sids : Kept(r)' =>
              /\ \E e \in task[w].snap : Names(e, r)'
              /\ \A e \in task[w].snap :
                   e.sid = r \/ e.slot = home'[r].slot =>
                     Names(e, r)' /\ (e.ended => state'[r] = "ended")
        BY <2>11, <4>2, <4>3
      <4>6. QED
        BY <3>1, <4>4, <4>5 DEF Sound, HoldsIn
    <3>5. ASSUME task[w].at = "probing"
          PROVE  \A r \in Named(task[w].snap) :
                   task[w].seen[r] = "ended" => state'[r] \in {"ended", "gone"}
      BY <1>5, <2>1, <3>2, <3>3, <3>5 DEF TrueJob
    <3>6. ASSUME task[w].at = "stamping"
          PROVE  \A r \in Named(task[w].snap) : state'[r] # "none" /\ ~ Kept(r)'
      BY <1>5, <2>1, <2>5, <3>2, <3>3, <3>6 DEF TrueJob
    <3>7. QED
      BY <3>1, <3>4, <3>5, <3>6 DEF TrueJob
  <2>15. RoomsAreApart'
    <3>1. ASSUME NEW r \in Sids, r # s, Kept(r)'
          PROVE  /\ home'[r].slot # home'[s].slot
                 /\ AtWork(r)' => home'[r].dir # home'[s].dir
      <4>1. Kept(r) /\ home'[r] = home[r] /\ (AtWork(r)' <=> AtWork(r))
        BY <2>1, <2>5, <3>1
      <4>2. PICK e \in entries : Names(e, r) /\ (e.ended => state[r] = "ended")
        BY <4>1 DEF Inv, Sound, HoldsIn, Names
      <4>3. e.slot = home[r].slot /\ e.dir = home[r].dir
        BY <4>2 DEF Names
      <4>4. AtWork(r) => ~ e.ended
        BY <4>2 DEF AtWork
      <4>5. QED
        BY <1>5, <2>3, <4>1, <4>3, <4>4
    <3>2. ASSUME NEW r \in Sids, r # s, Kept(s)', Running(r)'
          PROVE  home'[r].slot # home'[s].slot
      <4>1. Running(r) /\ home'[r] = home[r]
        BY <2>1, <2>5, <3>2
      <4>2. Listed(r)
        BY <2>6, <3>2, <4>1 DEF Overlapped
      <4>3. QED
        BY <2>3, <2>12, <4>1, <4>2
    <3>3. SUFFICES ASSUME NEW a \in Sids, NEW b \in Sids, a # b, a \notin Exposed',
                          Running(a)', Running(b)'
                   PROVE  /\ home'[a].slot # home'[b].slot
                          /\ AtWork(a)' /\ AtWork(b)' /\ b \notin Exposed'
                               => home'[a].dir # home'[b].dir
      BY DEF RoomsAreApart, AtWork, Running
    <3>4. CASE a = s
      BY <3>1, <3>2, <3>3, <3>4 DEF Kept
    <3>5. CASE b = s
      BY <3>1, <3>3, <3>5 DEF Kept
    <3>6. CASE a # s /\ b # s
      BY <2>1, <2>4, <2>5, <3>3, <3>6 DEF Inv, RoomsAreApart
    <3>7. QED
      BY <3>4, <3>5, <3>6
  <2>16. QED
    BY <1>1, <1>2, <2>13, <2>14, <2>15 DEF Inv, HealthyRoomsAreSpared
<1>6. QED
  BY <1>4, <1>5, LaunchTyped DEF Inv

\* A kill ends whoever listens where the entry it found says: that entry's
\* session, or exposed ones.
LEMMA KillKeeps ==
  ASSUME Inv, NEW t \in Tasks, Kill(t)
  PROVE  Inv'
<1>1. /\ Probed(t, "kill") /\ task[t].at = "probing"
      /\ Persist(task[t].snap, Outcome(t))
  BY DEF Kill, Probed
<1>2. TypeInv'
  BY KillTyped DEF Inv
<1>3. CASE /\ UNCHANGED <<state, home, old, crossed, harmed>>
           /\ \A u \in Tasks : task'[u] = IF u = t THEN Idle ELSE task[u]
  <2>1. \A u \in Tasks : task'[u] = task[u] \/ TrueJob(task[u])'
    BY <1>3 DEF TrueJob, Idle
  <2>2. QED
    BY <1>1, <1>2, <1>3, <2>1, WrittenKeeps, StillIsOnward DEF Inv, HealthyRoomsAreSpared
<1>4. ASSUME NEW e \in Outcome(t),
             Vanish(ListeningOn(e.slot)),
             Broken(ListeningOn(e.slot) \ {e.sid}),
             \/ \A u \in Tasks : task'[u] = IF u = t THEN Idle ELSE task[u]
             \/ /\ ListeningOn(e.slot) # {}
                /\ \A u \in Tasks : task'[u] =
                     IF u = t THEN [at |-> "stamping", request |-> task[t].request,
                                    snap |-> {e}, seen |-> [s \in {e.sid} |-> "live"]]
                              ELSE task[u]
      PROVE  Inv'
  <2>1. /\ Onward
        /\ NoneArrives
        /\ \A s \in Sids \cap ListeningOn(e.slot) : state'[s] = "gone"
    BY <1>4, ListenersRun, VanishedAreGone DEF Inv, TypeInv
  <2>2. Sound(Outcome(t)) /\ Outcome(t) \subseteq Entry /\ e.sid \in Sids
    BY <1>1, OutcomeIsSound, JobsAreTyped, OutcomeIsEntries DEF Inv, TypeInv, Entry
  <2>3. ASSUME ListeningOn(e.slot) # {}
        PROVE  state'[e.sid] # "none" /\ ~ Kept(e.sid)'
    <3>1. state'[e.sid] # "none"
      BY <2>1, <2>2 DEF Sound, Onward
    <3>2. ASSUME Kept(e.sid)'
          PROVE  FALSE
      <4>1. Kept(e.sid)
        BY <2>1, <2>2, <3>2, KeptBefore
      <4>2. home[e.sid].slot = e.slot
        <5>1. Names(e, e.sid)
          BY <2>2, <4>1 DEF Sound, HoldsIn
        <5>2. [user |-> e.user, slot |-> e.slot, dir |-> e.dir].slot = e.slot
          OBVIOUS
        <5>3. QED
          BY <5>1, <5>2 DEF Names
      <4>3. PICK r \in ListeningOn(e.slot) : TRUE
        BY <2>3
      <4>4. r \in Sids /\ Running(r) /\ home[r].slot = e.slot
        BY <4>3 DEF ListeningOn, Running
      <4>5. r = e.sid
        BY <2>2, <4>1, <4>2, <4>4 DEF Inv, RoomsAreApart, Kept
      <4>6. state'[e.sid] = "gone"
        BY <2>1, <4>3, <4>4, <4>5
      <4>7. QED
        BY <3>2, <4>6 DEF Kept, Running
    <3>3. QED
      BY <3>1, <3>2
  <2>4. \A u \in Tasks : task'[u] = task[u] \/ TrueJob(task[u])'
    <3>1. CASE \A u \in Tasks : task'[u] = IF u = t THEN Idle ELSE task[u]
      BY <3>1 DEF TrueJob, Idle
    <3>2. CASE /\ ListeningOn(e.slot) # {}
               /\ \A u \in Tasks : task'[u] =
                    IF u = t THEN [at |-> "stamping", request |-> task[t].request,
                                   snap |-> {e}, seen |-> [s \in {e.sid} |-> "live"]]
                             ELSE task[u]
      <4>1. task'[t].at = "stamping" /\ Named(task'[t].snap) = {e.sid}
        BY <3>2 DEF Named
      <4>2. TrueJob(task[t])'
        BY <2>3, <3>2, <4>1 DEF TrueJob
      <4>3. QED
        BY <3>2, <4>2
    <3>3. QED
      BY <1>4, <3>1, <3>2
  <2>5. HealthyRoomsAreSpared'
    <3>1. ASSUME NEW s \in ListeningOn(e.slot), s \notin Exposed
          PROVE  s = e.sid
      BY <2>2, <3>1, ListenerIsOwn DEF Names
    <3>2. QED
      BY <1>4, <3>1 DEF Broken, Inv, HealthyRoomsAreSpared
  <2>6. QED
    BY <1>1, <1>2, <2>1, <2>4, <2>5, WrittenKeeps
<1>5. QED
  BY <1>3, <1>4, KillTyped DEF Inv

\* The stamp falls on entries of sessions that are gone, or exposed.
LEMMA StampKilledKeeps ==
  ASSUME Inv, NEW t \in Tasks, StampKilled(t)
  PROVE  Inv'
<1>1. TypeInv' /\ \A u \in Tasks : task'[u] = IF u = t THEN Idle ELSE task[u]
  BY StampTyped, Zenon DEF Inv
<1>2. UNCHANGED <<state, home, old, crossed, harmed>>
  BY DEF StampKilled
<1>3. AnswersAreTrue'
  <2>1. \A u \in Tasks : task'[u] = task[u] \/ TrueJob(task[u])'
    BY <1>1 DEF TrueJob, Idle
  <2>2. QED
    BY <1>2, <2>1, AnswersStay, StillIsOnward DEF Inv, TypeInv
<1> DEFINE dead == Named(task[t].snap)
           St(e) == IF e.sid \in dead THEN [e EXCEPT !.ended = TRUE] ELSE e
<1>4. \A s \in dead : ~ Kept(s)
  BY DEF Inv, AnswersAreTrue, TrueJob, StampKilled
<1>5. entries' = {St(e) : e \in entries}
  BY DEF StampKilled
<1>6. \A e \in Entry : /\ St(e).sid = e.sid /\ St(e).user = e.user
                       /\ St(e).slot = e.slot /\ St(e).dir = e.dir
                       /\ St(e).ended <=> (e.ended \/ e.sid \in dead)
  BY DEF Entry
<1>7. entries \subseteq Entry
  BY DEF Inv, TypeInv, RoomsOK
<1> HIDE DEF dead, St
<1>8. Sound(entries)'
  <2>1. \A e \in entries' : \E x \in entries : e = St(x)
    BY <1>5
  <2>2. \A e \in entries' : state'[e.sid] # "none"
    BY <1>2, <1>6, <1>7, <2>1 DEF Inv, Sound
  <2>3. ASSUME NEW s \in Sids, Kept(s)'
        PROVE  HoldsIn(s, entries)'
    <3>1. Kept(s) /\ s \notin dead /\ UNCHANGED <<state, home>>
      BY <1>2, <1>4, <2>3 DEF Kept, Running, Exposed
    <3>2. HoldsIn(s, entries)
      BY <3>1 DEF Inv, Sound
    <3>3. \E e \in entries' : Names(e, s)'
      <4>1. PICK e \in entries : Names(e, s)
        BY <3>2 DEF HoldsIn
      <4>2. PICK y \in entries' : y = St(e)
        BY <1>5
      <4>3. y.sid = e.sid /\ y.user = e.user /\ y.slot = e.slot /\ y.dir = e.dir
        BY <1>6, <1>7, <4>2
      <4>4. Names(y, s)'
        BY <3>1, <4>1, <4>3 DEF Names
      <4>5. QED
        BY <4>4
    <3>4. ASSUME NEW e \in entries', e.sid = s \/ e.slot = home[s].slot
          PROVE  Names(e, s)' /\ (e.ended => state[s] = "ended")
      <4>1. PICK x \in entries : e = St(x)
        BY <2>1
      <4>2. Names(x, s) /\ (x.ended => state[s] = "ended")
        BY <1>6, <1>7, <3>2, <3>4, <4>1 DEF HoldsIn
      <4>3. x.sid \notin dead
        BY <3>1, <4>2 DEF Names
      <4>4. QED
        BY <1>6, <1>7, <3>1, <4>1, <4>2, <4>3 DEF Names
    <3>5. QED
      BY <3>1, <3>3, <3>4 DEF HoldsIn
  <2>4. QED
    BY <2>2, <2>3 DEF Sound
<1>9. QED
  BY <1>1, <1>2, <1>3, <1>8, ApartStays, StillIsOnward DEF Inv, HealthyRoomsAreSpared

\* A sweep takes no session at work that is not exposed: a container it removes
\* is of a session that does not run, or that no registry needs to name, and
\* what it shuts down has been heard to have ended.
LEMMA SweepKeeps ==
  ASSUME Inv, NEW t \in Tasks, Sweep(t)
  PROVE  Inv'
<1>1. TypeInv' /\ \A u \in Tasks : task'[u] = IF u = t THEN Idle ELSE task[u]
  BY SweepTyped, Zenon DEF Inv
<1>2. \A u \in Tasks : task'[u] = task[u] \/ TrueJob(task[u])'
  BY <1>1 DEF TrueJob, Idle
<1>3. Probed(t, "sweep") /\ task[t].at = "probing" /\ Persist(task[t].snap, Outcome(t))
  BY DEF Sweep, Probed
<1>4. PICK lingered \in SUBSET {e \in Outcome(t) : e.ended} :
        LET dropped == Named(task[t].snap) \ Named(Outcome(t))
            orphans == containers \ Named(task[t].snap)
            shut == UNION {ListeningOn(e.slot) : e \in lingered}
        IN  /\ containers' = containers \ (dropped \cup orphans \cup shut)
            /\ Vanish(shut)
            /\ Broken((containers \cap (dropped \cup orphans)) \cup shut)
  BY DEF Sweep
<1> DEFINE snap == task[t].snap
           dropped == Named(snap) \ Named(Outcome(t))
           orphans == containers \ Named(snap)
           shut == UNION {ListeningOn(e.slot) : e \in lingered}
           Safe(s) == AtWork(s) /\ s \notin Exposed
<1>5. Vanish(shut)
  BY <1>4
<1>6. harmed' = harmed \cup {s \in (containers \cap (dropped \cup orphans)) \cup shut : Safe(s)}
  BY <1>4 DEF Broken
<1>7. \A s \in shut : s \in Sids /\ state[s] # "none"
  BY ListenersRun
<1>8. Sound(snap) /\ Sound(Outcome(t)) /\ snap \subseteq Entry
  BY <1>3, OutcomeIsSound, JobsAreTyped
     DEF Inv, AnswersAreTrue, TrueJob, TypeInv, JobOK
<1>9. \A s \in shut : ~ Safe(s)
  <2>1. SUFFICES ASSUME NEW e \in lingered, NEW s \in ListeningOn(e.slot), s \notin Exposed
                 PROVE  ~ AtWork(s)
    OBVIOUS
  <2>2. e \in Outcome(t) /\ e.ended
    BY <1>4
  <2>3. e.ended => state[s] = "ended"
    BY <1>8, <2>1, <2>2, ListenerIsOwn
  <2>4. QED
    BY <2>2, <2>3 DEF AtWork
<1>10. \A s \in dropped : ~ Safe(s)
  BY <1>3, OutcomeIsSound DEF Kept, AtWork, Running
<1>11. \A s \in orphans : ~ Safe(s)
  <2>1. SUFFICES ASSUME NEW s \in containers, AtWork(s), s \notin Exposed
                 PROVE  s \in Named(snap)
    OBVIOUS
  <2>2. s \in Sids /\ Kept(s)
    BY <2>1 DEF Inv, TypeInv, RoomsOK, AtWork, Running, Kept
  <2>3. PICK e \in snap : Names(e, s)
    BY <1>8, <2>2 DEF Sound, HoldsIn
  <2>4. QED
    BY <2>3 DEF Names, Named
<1>12. HealthyRoomsAreSpared'
  <2> HIDE DEF snap, dropped, orphans, shut, Safe
  <2> QED BY <1>6, <1>9, <1>10, <1>11 DEF Inv, HealthyRoomsAreSpared
<1>13. Onward /\ NoneArrives
  BY <1>5, <1>7, VanishedAreGone DEF Inv, TypeInv
<1>14. QED
  BY <1>1, <1>2, <1>3, <1>12, <1>13, WrittenKeeps

\* Sessions and the app's stops leave the registry as it is.
LEMMA OthersKeep ==
  ASSUME Inv, Stop \/ Restart \/ (\E s \in Sids : SessionStep(s)) \/ UNCHANGED vars
  PROVE  Inv'
<1>1. TypeInv'
  BY AppStepTyped, SessionStepTyped, StutterTyped DEF Inv
<1>2. /\ Onward /\ NoneArrives
      /\ UNCHANGED <<entries, harmed>>
      /\ \A t \in Tasks : task'[t] = task[t] \/ task'[t] = Idle
  <2>1. CASE Stop \/ Restart
    BY <2>1, AppStepTyped, StillIsOnward DEF Inv
  <2>2. CASE \E s \in Sids : SessionStep(s)
    BY <2>2, SessionStepTyped DEF Inv
  <2>3. CASE UNCHANGED vars
    BY <2>3, StillIsOnward DEF vars
  <2>4. QED
    BY <2>1, <2>2, <2>3
<1>3. \A t \in Tasks : task'[t] = task[t] \/ TrueJob(task[t])'
  BY <1>2 DEF TrueJob, Idle
<1>4. QED
  BY <1>1, <1>2, <1>3, QuietKeeps

\* The invariant is inductive, however tasks overlap.
LEMMA InvInductive ==
  ASSUME Inv, [Next]_vars
  PROVE  Inv'
<1>1. ASSUME NEW t \in Tasks, NEW request \in Request, Load(t, request)
      PROVE  Inv'
  BY <1>1, LoadKeeps
<1>2. ASSUME NEW t \in Tasks, TaskStep(t)
      PROVE  Inv'
  BY <1>2, ProbeKeeps, LookKeeps, ReconcileKeeps, LaunchKeeps, KillKeeps,
     StampKilledKeeps, SweepKeeps DEF TaskStep
<1>3. QED
  BY <1>1, <1>2, OthersKeep DEF Next, SessionStep

\* No room, no task.
LEMMA InvInitially == Init => Inv
<1> SUFFICES ASSUME Init
             PROVE  Inv
  OBVIOUS
<1>1. \A s \in Sids : ~ Running(s)
  BY DEF Init, Running
<1>2. \A t \in Tasks : TrueJob(task[t])
  BY DEF Init, TrueJob, Idle
<1>3. QED
  BY <1>1, <1>2, TypeInitially
     DEF Init, Inv, Sound, Kept, AnswersAreTrue, RoomsAreApart, AtWork, Running,
         HealthyRoomsAreSpared

\* The inductive invariant: what holds of the file holds of every registry that
\* a request or a sweep still holds.
THEOREM RegistryInvariant == Spec => []Inv
<1>1. Inv /\ [Next]_vars => Inv'
  BY InvInductive
<1>2. QED
  BY <1>1, InvInitially, PTL DEF Spec

---------------------------------------------------------------------------
(* What it gives.                                                          *)

\* A session that runs and is not exposed is in the registry, as itself.
THEOREM RoomsListed == Spec => []RoomsAreListed
<1>1. Inv => RoomsAreListed
  BY DEF Inv, Sound, HoldsIn, Kept, Listed, RoomsAreListed
<1>2. QED
  BY <1>1, RegistryInvariant, PTL

\* No session has the ports of one that is not exposed, and two at work, neither
\* exposed, have different directories.
THEOREM RoomsApart == Spec => []RoomsAreApart
<1>1. Inv => RoomsAreApart
  BY DEF Inv
<1>2. QED
  BY <1>1, RegistryInvariant, PTL

\* No sweep, and no kill meant for another, breaks a session that is booting or
\* in its round, unless it is exposed.
THEOREM RoomsSpared == Spec => []HealthyRoomsAreSpared
<1>1. Inv => HealthyRoomsAreSpared
  BY DEF Inv
<1>2. QED
  BY <1>1, RegistryInvariant, PTL
=============================================================================
