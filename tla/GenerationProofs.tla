--------------------------- MODULE GenerationProofs ---------------------------
(***************************************************************************)
(* Proofs about Generation, for any plan items and reps, any number of     *)
(* build slots, children, pids and sessions.                               *)
(*                                                                         *)
(* The argument: a round that is built again has no child left, because    *)
(* the guard of every request reads the pid of a child at work in the      *)
(* round's marker (and a request that fell between the agent's end and its *)
(* child's close, or after a sweep took that marker, is on record); so     *)
(* whatever a close or a sweep does to a directory, it does to no agent.   *)
(* And a directory a session was launched on keeps its artifact, since     *)
(* only a rebuild can wipe it.                                             *)
(***************************************************************************)
EXTENDS Generation, TLAPS

---------------------------------------------------------------------------
(* The inductive invariant.                                                *)

HasKid(p, r) == kids[p].phase # "none" /\ kids[p].round = r

\* A round has one child at most; while its agent works the marker holds its
\* pid and nothing has marked the round failed.
KidsAlone ==
  \A r \in Rounds \ (hasty \cup freed) :
    /\ \A p, q \in Pids : HasKid(p, r) /\ HasKid(q, r) => p = q
    /\ \A p \in Pids : AtWork(p, r) => marker[r] = p /\ "failed" \notin flags[r]

\* Only reps have a blueprint to draft.
RepsAreDrafted == \A p \in Pids : kids[p].phase = "drafting" => kids[p].round \in Reps

\* A round nothing was asked for yet has neither child nor session.
Untouched ==
  /\ \A r \in Rounds : status[r] \in {"pending", "absent"} =>
       ~ Launched(r) /\ \A p \in Pids : ~ HasKid(p, r)
  /\ \A r \in admitted \cup (Reps \ locked) : status[r] = "absent"

\* The build log of a first failure is there before its retry.
LedgerKept == \A r \in Rounds : autos[r] <= IF r \in ledger THEN 1 ELSE 0

\* The sessions a round is said to have had were sessions on it.
SessionsAreOn ==
  \A r \in Rounds :
    /\ used[r] # 0 => rooms[used[r]] # NoRoom /\ rooms[used[r]].round = r
    /\ sid[r] # 0 => rooms[sid[r]] # NoRoom /\ rooms[sid[r]].round = r
    /\ status[r] = "done" => Launched(r)

\* What a session was launched on stays, unless a rebuild wiped it.
ArtifactsStay ==
  \A r \in Rounds \ wiped :
    /\ Launched(r) => "validated" \in flags[r]
    /\ Launched(r) /\ r \in Plans => status[r] \in {"ready", "done", "skipped"}

Inv == /\ TypeOK
       /\ KidsAlone
       /\ RepsAreDrafted
       /\ Untouched
       /\ LedgerKept
       /\ SessionsAreOn
       /\ ArtifactsStay
       /\ ReadyIsValidated

---------------------------------------------------------------------------
(* Children.                                                               *)

\* What a pid that is taken holds.
LEMMA KidShape ==
  ASSUME TypeOK, NEW p \in Pids
  PROVE  /\ kids[p] = NoKid <=> kids[p].phase = "none"
         /\ kids[p].phase # "none" =>
              kids[p] \in Kid /\ kids[p].round \in Rounds /\ kids[p].own \in BOOLEAN
         /\ kids[p].phase \notin {"none", "exited"} =>
              kids[p] \in [phase : {"drafting", "building", "finishing", "failing", "archiving"},
                           round : Rounds, own : BOOLEAN]
<1>1. kids[p] \in Kid \cup {NoKid}
  BY DEF TypeOK
<1>2. ASSUME NEW k \in Kid
      PROVE  k.phase # "none" /\ k.round \in Rounds /\ k.own \in BOOLEAN
  BY <1>2 DEF Kid
<1>3. ASSUME NEW k \in Kid, k.phase # "exited"
      PROVE  k \in [phase : {"drafting", "building", "finishing", "failing", "archiving"},
                    round : Rounds, own : BOOLEAN]
  BY <1>3 DEF Kid
<1>4. NoKid.phase = "none"
  BY DEF NoKid
<1> QED
  BY <1>1, <1>2, <1>3, <1>4

\* What spawning leaves, and where.
LEMMA SpawnType ==
  ASSUME TypeOK, up, NEW r \in Rounds, NEW p \in Pids, Spawn(r, p)
  PROVE  /\ kids' \in [Pids -> Kid \cup {NoKid}]
         /\ \A q \in Pids : kids'[q].phase # "none" => (kids'[q].own => up)
         /\ kids'[p].phase \in {"drafting", "building"} /\ kids'[p].round = r
         /\ kids'[p].phase = "drafting" => r \in Reps
         /\ \A q \in Pids : q # p => kids'[q] = kids[q]
         /\ marker' \in [Rounds -> 0..MaxPids] /\ marker'[r] = p
         /\ flags' \in [Rounds -> SUBSET {"validated", "failed"}] /\ flags'[r] = {}
         /\ used' \in [Rounds -> 0..MaxRooms] /\ used'[r] = 0
         /\ \A x \in Rounds : x # r =>
              marker'[x] = marker[x] /\ flags'[x] = flags[x] /\ used'[x] = used[x]
         /\ live' \subseteq Rounds
<1> DEFINE kid == [phase |-> IF r \in Reps \ drafted THEN "drafting" ELSE "building",
                   round |-> r, own |-> TRUE]
<1>1. /\ kid \in Kid /\ kid.phase \in {"drafting", "building"} /\ kid.round = r
      /\ kid.phase = "drafting" => r \in Reps
  BY DEF Kid
<1>2. kids' = [kids EXCEPT ![p] = kid] /\ kids \in [Pids -> Kid \cup {NoKid}]
  BY DEF Spawn, TypeOK
<1>3. \A q \in Pids : kids[q].phase # "none" => (kids[q].own => up)
  BY DEF TypeOK
<1> HIDE DEF kid
<1>4. /\ kids' \in [Pids -> Kid \cup {NoKid}]
      /\ kids'[p] = kid
      /\ \A q \in Pids : q # p => kids'[q] = kids[q]
  BY <1>1, <1>2
<1>5. p \in 0..MaxPids
  BY BoundsAssumption DEF Pids
<1>6. /\ marker' = [marker EXCEPT ![r] = p] /\ marker \in [Rounds -> 0..MaxPids]
      /\ flags' = [flags EXCEPT ![r] = {}] /\ flags \in [Rounds -> SUBSET {"validated", "failed"}]
      /\ used' = [used EXCEPT ![r] = 0] /\ used \in [Rounds -> 0..MaxRooms]
      /\ live' = live \cup {r} /\ live \subseteq Rounds
  BY DEF Spawn, TypeOK
<1>7. 0 \in 0..MaxRooms
  BY BoundsAssumption
<1> QED
  BY <1>1, <1>3, <1>4, <1>5, <1>6, <1>7

\* A child spawned for a round that has no other is its only child.
LEMMA SpawnAlone ==
  ASSUME TypeOK, KidsAlone, up, NEW r \in Rounds, NEW p \in Pids, Spawn(r, p),
         kids[p] = NoKid \/ kids[p].round = r,
         hasty \subseteq hasty', freed \subseteq freed',
         r \notin hasty' \cup freed' => \A q \in Pids : q # p => ~ HasKid(q, r)
  PROVE  KidsAlone'
<1>1. /\ kids'[p].phase \in {"drafting", "building"} /\ kids'[p].round = r
      /\ \A q \in Pids : q # p => kids'[q] = kids[q]
      /\ marker'[r] = p /\ flags'[r] = {}
      /\ \A x \in Rounds : x # r => marker'[x] = marker[x] /\ flags'[x] = flags[x]
  BY SpawnType
<1> SUFFICES ASSUME NEW x \in Rounds, x \notin hasty' \cup freed'
             PROVE  /\ \A a, b \in Pids : HasKid(a, x)' /\ HasKid(b, x)' => a = b
                    /\ \A a \in Pids : AtWork(a, x)' => marker'[x] = a /\ "failed" \notin flags'[x]
  BY DEF KidsAlone
<1>2. CASE x = r
  <2>1. \A q \in Pids : q # p => ~ HasKid(q, r)'
    BY <1>1, <1>2 DEF HasKid
  <2>2. \A q \in Pids : AtWork(q, r)' => HasKid(q, r)'
    BY DEF HasKid, AtWork
  <2> QED
    BY <1>1, <1>2, <2>1, <2>2
<1>3. CASE x # r
  <2>1. /\ \A a, b \in Pids : HasKid(a, x) /\ HasKid(b, x) => a = b
        /\ \A a \in Pids : AtWork(a, x) => marker[x] = a /\ "failed" \notin flags[x]
    BY DEF KidsAlone
  <2>2. \A a \in Pids : /\ HasKid(a, x)' => a # p /\ HasKid(a, x)
                        /\ AtWork(a, x)' => a # p /\ AtWork(a, x)
    BY <1>1, <1>3 DEF HasKid, AtWork
  <2> QED
    BY <1>1, <1>3, <2>1, <2>2
<1> QED
  BY <1>2, <1>3

\* A child that goes on, or goes, brings no other child to any round.
LEMMA KidMoves ==
  ASSUME TypeOK, KidsAlone, NEW p \in Pids, NEW r \in Rounds, HasKid(p, r),
         \A q \in Pids : q # p => kids'[q] = kids[q],
         kids'[p].phase # "none" => kids'[p].round = r,
         kids'[p].phase \in {"drafting", "building"} =>
           /\ kids[p].phase \in {"drafting", "building"}
           /\ marker'[r] = marker[r]
           /\ "failed" \in flags'[r] => "failed" \in flags[r],
         \A x \in Rounds : x # r => marker'[x] = marker[x] /\ flags'[x] = flags[x],
         UNCHANGED <<hasty, freed>>
  PROVE  KidsAlone'
<1> SUFFICES ASSUME NEW x \in Rounds, x \notin hasty \cup freed
             PROVE  /\ \A a, b \in Pids : HasKid(a, x)' /\ HasKid(b, x)' => a = b
                    /\ \A a \in Pids : AtWork(a, x)' => marker'[x] = a /\ "failed" \notin flags'[x]
  BY DEF KidsAlone
<1>1. /\ \A a, b \in Pids : HasKid(a, x) /\ HasKid(b, x) => a = b
      /\ \A a \in Pids : AtWork(a, x) => marker[x] = a /\ "failed" \notin flags[x]
  BY DEF KidsAlone
<1>2. \A a \in Pids : /\ HasKid(a, x)' => HasKid(a, x)
                      /\ AtWork(a, x)' => AtWork(a, x) /\ HasKid(a, x)
  BY DEF HasKid, AtWork
<1>3. ASSUME NEW a \in Pids, AtWork(a, x)'
      PROVE  marker'[x] = a /\ "failed" \notin flags'[x]
  <2>1. marker[x] = a /\ "failed" \notin flags[x]
    BY <1>1, <1>2, <1>3
  <2>2. CASE a = p
    <3>1. x = r /\ kids'[p].phase \in {"drafting", "building"}
      BY <1>3, <2>2 DEF AtWork
    <3> QED
      BY <2>1, <2>2, <3>1
  <2>3. CASE a # p
    <3>1. x # r
      BY <1>1, <1>2, <1>3, <2>3
    <3> QED
      BY <2>1, <3>1
  <2> QED
    BY <2>2, <2>3
<1> QED
  BY <1>1, <1>2, <1>3

---------------------------------------------------------------------------
(* Requests that build.                                                    *)

\* Whatever asks for a child for a round that no agent works on, and that has
\* had no session or is wiped knowingly, keeps the invariant.
LEMMA AskKeeps ==
  ASSUME Inv, up, NEW r \in Rounds, Ask(r),
         ~ MarkerAlive(r) \/ \A q \in Pids : ~ HasKid(q, r),
         UNCHANGED <<sid, drafted, up, locked, rooms, autos, marks, freed>>,
         \/ status' = [status EXCEPT ![r] = "generating"]
         \/ status' = status /\ status[r] \notin {"pending", "absent", "ready"},
         stale' \subseteq stale, ledger \subseteq ledger', ledger' \subseteq Rounds,
         admitted' \subseteq admitted, r \notin admitted',
         r \in Plans \cup locked \/ status' = status,
         wiped \subseteq wiped', wiped' \subseteq Rounds,
         r \in wiped' \/ ~ Launched(r)
  PROVE  Inv'
<1>1. PICK p \in Free : Spawn(r, p)
  BY DEF Ask
<1>2. /\ p \in Pids /\ kids[p] = NoKid /\ TypeOK
      /\ hasty' = (IF Trailing(r) THEN hasty \cup {r} ELSE hasty)
      /\ asked < MaxRequests /\ asked' = asked + 1
  BY DEF Free, Ask, Inv
<1>3. /\ kids' \in [Pids -> Kid \cup {NoKid}]
      /\ \A q \in Pids : kids'[q].phase # "none" => (kids'[q].own => up)
      /\ kids'[p].phase \in {"drafting", "building"} /\ kids'[p].round = r
      /\ kids'[p].phase = "drafting" => r \in Reps
      /\ \A q \in Pids : q # p => kids'[q] = kids[q]
      /\ marker' \in [Rounds -> 0..MaxPids]
      /\ flags' \in [Rounds -> SUBSET {"validated", "failed"}]
      /\ used' \in [Rounds -> 0..MaxRooms] /\ used'[r] = 0
      /\ \A x \in Rounds : x # r => flags'[x] = flags[x] /\ used'[x] = used[x]
      /\ live' \subseteq Rounds
  BY <1>1, <1>2, SpawnType
<1>4. /\ status \in [Rounds -> {"absent", "pending", "generating", "ready", "failed", "done",
                                "skipped"}]
      /\ status' \in [Rounds -> {"absent", "pending", "generating", "ready", "failed", "done",
                                 "skipped"}]
      /\ status'[r] \notin {"pending", "absent", "ready", "skipped"} \/ status' = status
      /\ status'[r] \notin {"pending", "absent", "ready"}
      /\ status'[r] = status[r] \/ status'[r] = "generating"
      /\ \A x \in Rounds : x # r => status'[x] = status[x]
  BY DEF Inv, TypeOK
<1>5. TypeOK'
  <2>1. asked' \in 0..MaxRequests
    BY <1>2, BoundsAssumption DEF TypeOK
  <2>2. hasty' \subseteq Rounds
    BY <1>2 DEF TypeOK
  <2>3. /\ \A x \in Rounds : status'[x] \in {"pending", "skipped"} => x \in Plans
        /\ \A x \in Rounds : status'[x] = "absent" => x \in Reps
    BY <1>4, <1>2 DEF TypeOK
  <2>4. /\ admitted' \subseteq locked' /\ locked' \subseteq Reps /\ up' = TRUE
        /\ stale' \subseteq Plans /\ drafted' \subseteq Reps
        /\ sid' \in [Rounds -> 0..MaxRooms] /\ rooms' \in [Sids -> Room \cup {NoRoom}]
        /\ autos' \in [Rounds -> Nat] /\ marks' \in 0..MaxMarks /\ freed' \subseteq Rounds
    BY <1>2 DEF TypeOK
  <2> QED
    BY <1>3, <1>4, <2>1, <2>2, <2>3, <2>4 DEF TypeOK
<1>6. KidsAlone'
  <2>1. hasty \subseteq hasty' /\ freed \subseteq freed'
    BY <1>2
  <2>2. ASSUME r \notin hasty' \cup freed', NEW q \in Pids, HasKid(q, r)
        PROVE  FALSE
    <3>1. ~ Trailing(r) /\ r \notin hasty /\ r \notin freed
      BY <1>2, <2>1, <2>2
    <3>2. AtWork(q, r)
      BY <2>2, <3>1 DEF HasKid, Trailing, AtWork
    <3>3. marker[r] = q
      BY <3>1, <3>2 DEF Inv, KidsAlone
    <3>4. MarkerAlive(r)
      BY <3>2, <3>3 DEF MarkerAlive, Alive, AtWork, Pids
    <3> QED
      BY <2>2, <3>4
  <2> QED
    BY <1>1, <1>2, <2>1, <2>2, SpawnAlone DEF Inv
<1>7. RepsAreDrafted'
  BY <1>3 DEF Inv, RepsAreDrafted
<1>8. \A x \in Rounds : Launched(x)' = Launched(x)
  BY DEF Launched
<1>9. Untouched'
  <2>1. ASSUME NEW x \in Rounds, status'[x] \in {"pending", "absent"}
        PROVE  ~ Launched(x)' /\ \A q \in Pids : ~ HasKid(q, x)'
    <3>1. x # r /\ status[x] \in {"pending", "absent"}
      BY <1>4, <2>1
    <3>2. ~ Launched(x) /\ \A q \in Pids : ~ HasKid(q, x)
      BY <3>1 DEF Inv, Untouched
    <3> QED
      BY <1>3, <1>8, <3>1, <3>2 DEF HasKid
  <2>2. ASSUME NEW x \in admitted' \cup (Reps \ locked')
        PROVE  status'[x] = "absent"
    <3>1. x \in Rounds /\ x \in admitted \cup (Reps \ locked)
      BY <1>2, <2>2 DEF TypeOK, Rounds
    <3>2. status[x] = "absent"
      BY <3>1 DEF Inv, Untouched
    <3>3. x # r \/ status' = status
      BY <2>2, RoundsAssumption DEF Rounds
    <3> QED
      BY <1>4, <3>1, <3>2, <3>3
  <2> QED
    BY <2>1, <2>2 DEF Untouched
<1>10. LedgerKept'
  BY DEF Inv, LedgerKept, TypeOK
<1>11. SessionsAreOn'
  BY <1>3, <1>4, <1>8 DEF Inv, SessionsAreOn
<1>12. ArtifactsStay' /\ ReadyIsValidated'
  <2> SUFFICES ASSUME NEW x \in Rounds, x \notin wiped'
               PROVE  /\ Launched(x)' => "validated" \in flags'[x]
                      /\ Launched(x)' /\ x \in Plans =>
                           status'[x] \in {"ready", "done", "skipped"}
                      /\ status'[x] = "ready" => "validated" \in flags'[x]
    BY DEF ArtifactsStay, ReadyIsValidated
  <2>1. CASE x = r
    BY <1>4, <1>8, <2>1
  <2>2. CASE x # r
    BY <1>3, <1>4, <1>8, <2>2 DEF Inv, ArtifactsStay, ReadyIsValidated
  <2> QED
    BY <2>1, <2>2
<1> QED
  BY <1>5, <1>6, <1>7, <1>9, <1>10, <1>11, <1>12 DEF Inv

\* An item that was never built has neither agent nor session.
LEMMA GenerateKeeps == ASSUME Inv, NEW r \in Rounds, Generate(r) PROVE Inv'
<1>1. status[r] = "pending" /\ r \in Plans
  BY DEF Generate
<1>2. ~ Launched(r) /\ \A q \in Pids : ~ HasKid(q, r)
  BY <1>1 DEF Inv, Untouched
<1>3. r \notin admitted
  BY <1>1, RoundsAssumption DEF Inv, TypeOK
<1>4. ledger \subseteq Rounds /\ wiped \subseteq Rounds
  BY DEF Inv, TypeOK
<1> QED
  BY <1>2, <1>3, <1>4, AskKeeps DEF Generate

\* A stored failure is of an item no session was launched on.
LEMMA RetryKeeps == ASSUME Inv, NEW r \in Rounds, Retry(r) PROVE Inv'
<1>1. status[r] = "failed" /\ r \in Plans
  BY DEF Retry
<1>2. r \in wiped \/ ~ Launched(r)
  BY <1>1 DEF Inv, ArtifactsStay
<1>3. r \notin admitted
  BY <1>1, RoundsAssumption DEF Inv, TypeOK
<1>4. ledger \subseteq Rounds /\ wiped \subseteq Rounds
  BY DEF Inv, TypeOK
<1> QED
  BY <1>2, <1>3, <1>4, AskKeeps DEF Retry

\* A rebuild wipes what may have been launched, on record.
LEMMA RebuildKeeps == ASSUME Inv, NEW r \in Rounds, Rebuild(r) PROVE Inv'
<1>1. /\ r \in Plans /\ ledger \subseteq Rounds /\ wiped \subseteq Rounds
      /\ wiped' = IF Launched(r) THEN wiped \cup {r} ELSE wiped
  BY DEF Rebuild, Inv, TypeOK
<1>2. r \in wiped' \/ ~ Launched(r)
  BY <1>1
<1>3. r \notin admitted
  BY <1>1, RoundsAssumption DEF Inv, TypeOK
<1>4. wiped \subseteq wiped' /\ wiped' \subseteq Rounds
  BY <1>1
<1> QED
  BY <1>1, <1>2, <1>3, <1>4, AskKeeps DEF Rebuild

\* A rep whose request was admitted has never been built.
LEMMA CreateKeeps == ASSUME Inv, NEW r \in Rounds, Create(r) PROVE Inv'
<1>1. r \in admitted /\ status[r] = "absent"
  BY DEF Create, Inv, Untouched
<1>2. ~ Launched(r) /\ \A q \in Pids : ~ HasKid(q, r)
  BY <1>1 DEF Inv, Untouched
<1>3. ledger \subseteq Rounds /\ wiped \subseteq Rounds
  BY DEF Inv, TypeOK
<1>4. admitted' \subseteq admitted /\ r \notin admitted' /\ r \in locked
  BY <1>1 DEF Create, Inv, TypeOK
<1> QED
  BY <1>2, <1>3, <1>4, AskKeeps DEF Create

\* A rep that reads as failed has no artifact, so no session was launched.
LEMMA RetryRepKeeps == ASSUME Inv, NEW r \in Rounds, RetryRep(r) PROVE Inv'
<1>1. ReadsAs(r) = "failed"
  BY DEF RetryRep
<1>2. Built(r) = "failed"
  BY <1>1 DEF ReadsAs
<1>3. status[r] \in {"generating", "failed"} /\ "validated" \notin flags[r]
  BY <1>2 DEF Built
<1>4. r \in wiped \/ ~ Launched(r)
  BY <1>3 DEF Inv, ArtifactsStay
<1>5. r \notin admitted /\ ledger \subseteq Rounds /\ wiped \subseteq Rounds
  BY <1>3 DEF Inv, Untouched, TypeOK
<1> QED
  BY <1>3, <1>4, <1>5, AskKeeps DEF RetryRep

---------------------------------------------------------------------------
(* Steps that build nothing and launch nothing.                            *)

\* A step that brings no child and takes no artifact away keeps all but the
\* types and the books of who works where.
LEMMA RestKeeps ==
  ASSUME Inv, UNCHANGED <<status, sid, rooms, autos, ledger, wiped>>,
         admitted' \subseteq admitted, locked' = locked,
         \A x \in Rounds : used'[x] \in {used[x], 0},
         \A x \in Rounds : "validated" \in flags[x] => "validated" \in flags'[x],
         \A q \in Pids, x \in Rounds : HasKid(q, x)' => \E k \in Pids : HasKid(k, x)
  PROVE  Untouched' /\ LedgerKept' /\ SessionsAreOn' /\ ArtifactsStay' /\ ReadyIsValidated'
<1>1. \A x \in Rounds : Launched(x)' = Launched(x)
  BY DEF Launched
<1>2. Untouched'
  BY <1>1 DEF Inv, Untouched
<1>3. LedgerKept'
  BY DEF Inv, LedgerKept
<1>4. SessionsAreOn'
  BY <1>1 DEF Inv, SessionsAreOn
<1>5. ArtifactsStay' /\ ReadyIsValidated'
  BY <1>1 DEF Inv, ArtifactsStay, ReadyIsValidated
<1> QED
  BY <1>2, <1>3, <1>4, <1>5

\* And who works where is as it was when neither children, markers nor marks
\* of failure change.
LEMMA AloneUnchanged ==
  ASSUME KidsAlone, RepsAreDrafted, UNCHANGED <<kids, marker, flags>>,
         hasty \subseteq hasty', freed \subseteq freed'
  PROVE  KidsAlone' /\ RepsAreDrafted'
BY DEF KidsAlone, RepsAreDrafted, HasKid, AtWork

\* A round moved to another shape keeps its build.
LEMMA AdaptKeeps == ASSUME Inv, NEW r \in Rounds, Adapt(r) PROVE Inv'
<1>1. /\ r \in Plans /\ stale' = stale \cup {r}
      /\ UNCHANGED <<status, sid, marker, flags, used, ledger, drafted, kids, up, live, admitted,
                     locked, rooms, asked, autos, marks, hasty, freed, wiped>>
  BY DEF Adapt, disk, app, told
<1>2. TypeOK'
  BY <1>1 DEF Inv, TypeOK
<1>3. KidsAlone' /\ RepsAreDrafted'
  BY <1>1, AloneUnchanged DEF Inv
<1>4. \A q \in Pids, x \in Rounds : HasKid(q, x)' => HasKid(q, x)
  BY <1>1 DEF HasKid
<1>5. Untouched' /\ LedgerKept' /\ SessionsAreOn' /\ ArtifactsStay' /\ ReadyIsValidated'
  BY <1>1, <1>4, RestKeeps
<1> QED
  BY <1>2, <1>3, <1>5 DEF Inv

\* A rep is admitted before it is created; its row is not stored yet.
LEMMA AdmitKeeps == ASSUME Inv, NEW r \in Rounds, Admit(r) PROVE Inv'
<1>1. /\ r \in Reps \ locked
      /\ locked' = locked \cup {r} /\ admitted' = admitted \cup {r}
      /\ UNCHANGED <<status, stale, sid, marker, flags, used, ledger, drafted, kids, up, live,
                     rooms, asked, autos, marks, hasty, freed, wiped>>
  BY DEF Admit, disk, told
<1>2. TypeOK'
  BY <1>1 DEF Inv, TypeOK
<1>3. KidsAlone' /\ RepsAreDrafted'
  BY <1>1, AloneUnchanged DEF Inv
<1>4. /\ \A x \in Rounds : Launched(x)' = Launched(x)
      /\ \A q \in Pids, x \in Rounds : HasKid(q, x)' = HasKid(q, x)
  BY <1>1 DEF Launched, HasKid
<1>5. Untouched'
  BY <1>1, <1>4 DEF Inv, Untouched
<1>6. LedgerKept' /\ SessionsAreOn'
  BY <1>1, <1>4 DEF Inv, LedgerKept, SessionsAreOn
<1>7. ArtifactsStay' /\ ReadyIsValidated'
  BY <1>1, <1>4 DEF Inv, ArtifactsStay, ReadyIsValidated
<1> QED
  BY <1>2, <1>3, <1>5, <1>6, <1>7 DEF Inv

\* Skipping a plan item changes its row and nothing in its directory.
LEMMA SkipKeeps == ASSUME Inv, NEW r \in Rounds, Skip(r) PROVE Inv'
<1>1. /\ r \in Plans /\ status' = [status EXCEPT ![r] = "skipped"]
      /\ UNCHANGED <<stale, sid, marker, flags, used, ledger, drafted, kids, up, live, admitted,
                     locked, rooms, asked, autos, marks, hasty, freed, wiped>>
  BY DEF Skip, disk, app, told
<1>2. /\ status' \in [Rounds -> {"absent", "pending", "generating", "ready", "failed", "done",
                                 "skipped"}]
      /\ status'[r] = "skipped"
      /\ \A x \in Rounds : x # r => status'[x] = status[x]
  BY <1>1 DEF Inv, TypeOK
<1>3. TypeOK'
  <2>1. /\ \A x \in Rounds : status'[x] \in {"pending", "skipped"} => x \in Plans
        /\ \A x \in Rounds : status'[x] = "absent" => x \in Reps
    BY <1>1, <1>2 DEF Inv, TypeOK
  <2> QED
    BY <1>1, <1>2, <2>1 DEF Inv, TypeOK
<1>4. KidsAlone' /\ RepsAreDrafted'
  BY <1>1, AloneUnchanged DEF Inv
<1>5. /\ \A x \in Rounds : Launched(x)' = Launched(x)
      /\ \A q \in Pids, x \in Rounds : HasKid(q, x)' = HasKid(q, x)
  BY <1>1 DEF Launched, HasKid
<1>6. Untouched'
  <2>1. r \notin admitted \cup (Reps \ locked) /\ admitted \cup (Reps \ locked) \subseteq Rounds
    BY <1>1, RoundsAssumption DEF Inv, TypeOK, Rounds
  <2> QED
    BY <1>1, <1>2, <1>5, <2>1 DEF Inv, Untouched
<1>7. LedgerKept' /\ SessionsAreOn'
  BY <1>1, <1>2, <1>5 DEF Inv, LedgerKept, SessionsAreOn
<1>8. ArtifactsStay' /\ ReadyIsValidated'
  BY <1>1, <1>2, <1>5 DEF Inv, ArtifactsStay, ReadyIsValidated
<1> QED
  BY <1>3, <1>4, <1>6, <1>7, <1>8 DEF Inv

\* What a round reads as, and when it comes to read as ready.
LEMMA ReadingsHold ==
  ASSUME Inv, NEW r \in Rounds
  PROVE  /\ ReadsAs(r) \in {"absent", "pending", "generating", "ready", "failed", "done",
                            "skipped"}
         /\ ReadsAs(r) \in {"pending", "absent", "skipped"} => ReadsAs(r) = status[r]
         /\ status[r] \in {"pending", "absent"} => ReadsAs(r) = status[r]
         /\ ReadsAs(r) = "done" => Launched(r)
         /\ SidOf(r) \in 0..MaxRooms
         /\ SidOf(r) # 0 => rooms[SidOf(r)] # NoRoom /\ rooms[SidOf(r)].round = r
         /\ r \notin wiped /\ ReadsAs(r) = "ready" => "validated" \in flags[r]
         /\ r \notin wiped /\ r \in Plans /\ status[r] \in {"ready", "done", "skipped"} =>
              ReadsAs(r) \in {"ready", "done", "skipped"}
<1>1. /\ status[r] \in {"absent", "pending", "generating", "ready", "failed", "done", "skipped"}
      /\ used[r] \in 0..MaxRooms /\ sid[r] \in 0..MaxRooms
  BY DEF Inv, TypeOK
<1>2. /\ Built(r) \in {"absent", "pending", "generating", "ready", "failed", "done", "skipped"}
      /\ Built(r) = status[r] \/ status[r] \in {"generating", "failed"}
      /\ Built(r) \in {"pending", "absent", "skipped", "done"} => Built(r) = status[r]
      /\ Built(r) = "ready" => status[r] = "ready" \/ "validated" \in flags[r]
  BY <1>1 DEF Built
<1>3. SidOf(r) \in {used[r], sid[r]}
  BY DEF SidOf
<1>4. /\ SidOf(r) \in 0..MaxRooms
      /\ SidOf(r) # 0 => rooms[SidOf(r)] # NoRoom /\ rooms[SidOf(r)].round = r
  BY <1>1, <1>3 DEF Inv, SessionsAreOn
<1>5. Graded(SidOf(r)) => Launched(r)
  <2>1. SidOf(r) # 0 => SidOf(r) \in Sids
    BY <1>4, BoundsAssumption DEF Sids
  <2> QED
    BY <1>4, <2>1 DEF Graded, Launched
<1>6. Rerun(r) => status[r] = "done" /\ Launched(r)
  BY <1>2 DEF Rerun, Inv, SessionsAreOn
<1>7. \/ ReadsAs(r) = "done" /\ status[r] \notin {"pending", "absent"} /\ Graded(SidOf(r))
      \/ ReadsAs(r) = IF Rerun(r) THEN "ready" ELSE Built(r)
  BY DEF ReadsAs
<1>8. ReadsAs(r) = "done" => Launched(r)
  <2>1. CASE ReadsAs(r) = "done" /\ Graded(SidOf(r))
    BY <1>5, <2>1
  <2>2. CASE ReadsAs(r) = IF Rerun(r) THEN "ready" ELSE Built(r)
    <3>1. ReadsAs(r) = "done" => status[r] = "done"
      BY <1>2, <2>2
    <3> QED
      BY <3>1 DEF Inv, SessionsAreOn
  <2> QED
    BY <1>7, <2>1, <2>2
<1>9. /\ ReadsAs(r) \in {"absent", "pending", "generating", "ready", "failed", "done",
                         "skipped"}
      /\ ReadsAs(r) \in {"pending", "absent", "skipped"} => ReadsAs(r) = status[r]
      /\ status[r] \in {"pending", "absent"} => ReadsAs(r) = status[r]
  BY <1>2, <1>6, <1>7
<1>10. ASSUME r \notin wiped, ReadsAs(r) = "ready"
       PROVE  "validated" \in flags[r]
  <2>1. CASE Rerun(r)
    BY <1>6, <1>10, <2>1 DEF Inv, ArtifactsStay
  <2>2. CASE ~ Rerun(r)
    <3>1. Built(r) = "ready"
      BY <1>7, <1>10, <2>2
    <3> QED
      BY <1>2, <1>10, <3>1 DEF Inv, ReadyIsValidated
  <2> QED
    BY <2>1, <2>2
<1>11. status[r] \in {"ready", "done", "skipped"} => ReadsAs(r) \in {"ready", "done", "skipped"}
  BY <1>2, <1>7
<1> QED
  BY <1>4, <1>8, <1>9, <1>10, <1>11

\* A refresh re-reads every row; what it stores as ready is there.
LEMMA RefreshKeeps == ASSUME Inv, Refresh PROVE Inv'
<1>1. /\ status' = [r \in Rounds |-> ReadsAs(r)] /\ sid' = [r \in Rounds |-> SidOf(r)]
      /\ UNCHANGED <<stale, marker, flags, used, ledger, drafted, kids, up, live, admitted,
                     locked, rooms, asked, autos, marks, hasty, freed, wiped>>
  BY DEF Refresh, disk, app, told
<1>2. TypeOK'
  <2>1. /\ status' \in [Rounds -> {"absent", "pending", "generating", "ready", "failed", "done",
                                   "skipped"}]
        /\ sid' \in [Rounds -> 0..MaxRooms]
    BY <1>1, ReadingsHold
  <2>2. /\ \A x \in Rounds : status'[x] \in {"pending", "skipped"} => x \in Plans
        /\ \A x \in Rounds : status'[x] = "absent" => x \in Reps
    BY <1>1, ReadingsHold DEF Inv, TypeOK
  <2> QED
    BY <1>1, <2>1, <2>2 DEF Inv, TypeOK
<1>3. KidsAlone' /\ RepsAreDrafted'
  BY <1>1, AloneUnchanged DEF Inv
<1>4. /\ \A x \in Rounds : Launched(x)' = Launched(x)
      /\ \A q \in Pids, x \in Rounds : HasKid(q, x)' = HasKid(q, x)
  BY <1>1 DEF Launched, HasKid
<1>5. Untouched'
  <2>1. \A x \in Rounds : status'[x] \in {"pending", "absent"} => status[x] \in {"pending", "absent"}
    BY <1>1, ReadingsHold
  <2>2. \A x \in admitted \cup (Reps \ locked) : x \in Rounds /\ status[x] = "absent" /\ status'[x] = "absent"
    BY <1>1, ReadingsHold DEF Inv, TypeOK, Untouched, Rounds
  <2> QED
    BY <1>1, <1>4, <2>1, <2>2 DEF Inv, Untouched
<1>6. LedgerKept'
  BY <1>1 DEF Inv, LedgerKept
<1>7. SessionsAreOn'
  BY <1>1, <1>4, ReadingsHold DEF Inv, SessionsAreOn
<1>8. ArtifactsStay' /\ ReadyIsValidated'
  <2> SUFFICES ASSUME NEW x \in Rounds, x \notin wiped
               PROVE  /\ Launched(x) => "validated" \in flags[x]
                      /\ Launched(x) /\ x \in Plans => ReadsAs(x) \in {"ready", "done", "skipped"}
                      /\ ReadsAs(x) = "ready" => "validated" \in flags[x]
    BY <1>1, <1>4 DEF ArtifactsStay, ReadyIsValidated
  <2> QED
    BY ReadingsHold DEF Inv, ArtifactsStay
<1> QED
  BY <1>2, <1>3, <1>5, <1>6, <1>7, <1>8 DEF Inv

---------------------------------------------------------------------------
(* The child process.                                                      *)

\* A step of a child: it stays its round's, takes no artifact away, and leaves
\* the marker and the marks of failure alone for as long as its agent works.
LEMMA ChildKeeps ==
  ASSUME Inv, NEW p \in Pids, NEW r \in Rounds, HasKid(p, r),
         UNCHANGED <<status, stale, sid, used, ledger, up, admitted, locked, rooms,
                     asked, autos, hasty, freed, wiped>>,
         live' \subseteq live, marks' \in 0..MaxMarks, drafted' \subseteq Reps,
         kids' \in [Pids -> Kid \cup {NoKid}],
         \A q \in Pids : q # p => kids'[q] = kids[q],
         kids'[p].phase # "none" => kids'[p].round = r /\ kids'[p].own = kids[p].own,
         kids'[p].phase = "drafting" => kids[p].phase = "drafting",
         kids'[p].phase \in {"drafting", "building"} =>
           /\ kids[p].phase \in {"drafting", "building"}
           /\ marker'[r] = marker[r]
           /\ "failed" \in flags'[r] => "failed" \in flags[r],
         marker' \in [Rounds -> 0..MaxPids],
         flags' \in [Rounds -> SUBSET {"validated", "failed"}],
         "validated" \in flags[r] => "validated" \in flags'[r],
         \A x \in Rounds : x # r => marker'[x] = marker[x] /\ flags'[x] = flags[x]
  PROVE  Inv'
<1>1. TypeOK'
  <2>1. \A q \in Pids : kids'[q].phase # "none" => (kids'[q].own => up)
    BY DEF Inv, TypeOK, HasKid
  <2> QED
    BY <2>1 DEF Inv, TypeOK
<1>2. KidsAlone'
  BY KidMoves DEF Inv
<1>3. RepsAreDrafted'
  <2>1. kids'[p].phase = "drafting" => kids'[p].round \in Reps
    BY DEF Inv, RepsAreDrafted, HasKid
  <2> QED
    BY <2>1 DEF Inv, RepsAreDrafted
<1>4. \A q \in Pids, x \in Rounds : HasKid(q, x)' => HasKid(q, x)
  BY DEF HasKid
<1>5. Untouched' /\ LedgerKept' /\ SessionsAreOn' /\ ArtifactsStay' /\ ReadyIsValidated'
  BY <1>4, RestKeeps
<1> QED
  BY <1>1, <1>2, <1>3, <1>5 DEF Inv

\* A child at some phase before its exit is a child of some round, and can
\* become one at another.
LEMMA BecomeType ==
  ASSUME TypeOK, NEW p \in Pids, kids[p].phase \notin {"none", "exited"},
         NEW phase \in {"drafting", "building", "finishing", "failing", "archiving"},
         Become(p, phase)
  PROVE  /\ kids[p].round \in Rounds /\ HasKid(p, kids[p].round)
         /\ kids' \in [Pids -> Kid \cup {NoKid}]
         /\ \A q \in Pids : q # p => kids'[q] = kids[q]
         /\ kids'[p].phase = phase
         /\ kids'[p].round = kids[p].round /\ kids'[p].own = kids[p].own
<1>1. /\ kids[p] \in [phase : {"drafting", "building", "finishing", "failing", "archiving"},
                      round : Rounds, own : BOOLEAN]
      /\ kids \in [Pids -> Kid \cup {NoKid}]
  BY KidShape DEF TypeOK
<1> DEFINE kid == [kids[p] EXCEPT !.phase = phase]
<1>2. /\ kid \in [phase : {"drafting", "building", "finishing", "failing", "archiving"},
                  round : Rounds, own : BOOLEAN]
      /\ kid.phase = phase /\ kid.round = kids[p].round /\ kid.own = kids[p].own
  BY <1>1
<1>3. kid \in Kid
  BY <1>2 DEF Kid
<1>4. kids' = [kids EXCEPT ![p] = kid]
  BY DEF Become
<1> HIDE DEF kid
<1> QED
  BY <1>1, <1>2, <1>3, <1>4 DEF HasKid

\* A child that ends is heard of by the app that spawned it, or is gone.
LEMMA EndedType ==
  ASSUME TypeOK, NEW p \in Pids, kids[p].phase \notin {"none", "exited"},
         NEW code \in Codes, kids' = Ended(p, code)
  PROVE  /\ kids[p].round \in Rounds /\ HasKid(p, kids[p].round)
         /\ kids' \in [Pids -> Kid \cup {NoKid}]
         /\ \A q \in Pids : q # p => kids'[q] = kids[q]
         /\ kids'[p].phase \in {"none", "exited"}
         /\ kids'[p].phase # "none" =>
              kids'[p].round = kids[p].round /\ kids'[p].own = kids[p].own
<1>1. /\ kids[p] \in [phase : {"drafting", "building", "finishing", "failing", "archiving"},
                      round : Rounds, own : BOOLEAN]
      /\ kids \in [Pids -> Kid \cup {NoKid}]
  BY KidShape DEF TypeOK
<1>2. CASE kids[p].own
  <2> DEFINE kid == [phase |-> "exited", round |-> kids[p].round, own |-> TRUE, code |-> code]
  <2>1. /\ kid \in Kid /\ kid.phase = "exited" /\ kid.round = kids[p].round
        /\ kid.own = kids[p].own
    BY <1>1, <1>2 DEF Kid
  <2>2. kids' = [kids EXCEPT ![p] = kid]
    BY <1>2 DEF Ended
  <2> HIDE DEF kid
  <2> QED
    BY <1>1, <2>1, <2>2 DEF HasKid
<1>3. CASE ~ kids[p].own
  <2>1. kids' = [kids EXCEPT ![p] = NoKid]
    BY <1>3 DEF Ended
  <2> QED
    BY <1>1, <2>1 DEF HasKid, NoKid
<1> QED
  BY <1>2, <1>3

\* Every step of a child that writes and goes on.
LEMMA ChildStepKeeps == ASSUME Inv, NEW p \in Pids, ChildStep(p) PROVE Inv'
<1> DEFINE r == kids[p].round
<1>1. /\ TypeOK /\ marks \in 0..MaxMarks /\ drafted \subseteq Reps
      /\ marker \in [Rounds -> 0..MaxPids]
      /\ flags \in [Rounds -> SUBSET {"validated", "failed"}]
  BY DEF Inv, TypeOK
<1>2. 0 \in 0..MaxPids
  BY BoundsAssumption
<1>3. CASE Draft(p)
  <2>1. /\ kids[p].phase = "drafting" /\ Become(p, "building")
        /\ drafted' = drafted \cup {r}
        /\ UNCHANGED <<marker, flags, status, stale, sid, used, ledger, up, live, admitted, locked,
                       rooms, asked, autos, marks, hasty, freed, wiped>>
    BY <1>3 DEF Draft, At, ByChild, app, told
  <2>2. r \in Reps
    BY <2>1 DEF Inv, RepsAreDrafted
  <2>3. /\ r \in Rounds /\ HasKid(p, r)
        /\ kids' \in [Pids -> Kid \cup {NoKid}]
        /\ \A q \in Pids : q # p => kids'[q] = kids[q]
        /\ kids'[p].phase = "building" /\ kids'[p].round = r /\ kids'[p].own = kids[p].own
    BY <1>1, <2>1, BecomeType
  <2> HIDE DEF r
  <2> QED
    BY <1>1, <2>1, <2>2, <2>3, ChildKeeps
<1>4. CASE DraftFails(p)
  <2>1. /\ kids[p].phase = "drafting" /\ Become(p, "failing")
        /\ marker' = [marker EXCEPT ![r] = 0]
        /\ flags' = [flags EXCEPT ![r] = @ \cup {"failed"}]
        /\ UNCHANGED <<drafted, status, stale, sid, used, ledger, up, live, admitted, locked,
                       rooms, asked, autos, marks, hasty, freed, wiped>>
    BY <1>4 DEF DraftFails, At, ByChild, app, told
  <2>2. /\ r \in Rounds /\ HasKid(p, r)
        /\ kids' \in [Pids -> Kid \cup {NoKid}]
        /\ \A q \in Pids : q # p => kids'[q] = kids[q]
        /\ kids'[p].phase = "failing" /\ kids'[p].round = r /\ kids'[p].own = kids[p].own
    BY <1>1, <2>1, BecomeType
  <2> HIDE DEF r
  <2>3. /\ marker' \in [Rounds -> 0..MaxPids]
        /\ flags' \in [Rounds -> SUBSET {"validated", "failed"}]
        /\ "validated" \in flags[r] => "validated" \in flags'[r]
        /\ \A x \in Rounds : x # r => marker'[x] = marker[x] /\ flags'[x] = flags[x]
    BY <1>1, <1>2, <2>1, <2>2
  <2> QED
    BY <1>1, <2>1, <2>2, <2>3, ChildKeeps
<1>5. CASE Rule(p)
  <2>1. PICK verdict \in {"finishing", "failing"} : Become(p, verdict)
    BY <1>5 DEF Rule
  <2>2. /\ kids[p].phase = "building"
        /\ marker' = [marker EXCEPT ![r] = 0]
        /\ UNCHANGED <<flags, drafted, status, stale, sid, used, ledger, up, live, admitted, locked,
                       rooms, asked, autos, marks, hasty, freed, wiped>>
    BY <1>5 DEF Rule, At, ByChild, app, told
  <2>3. /\ r \in Rounds /\ HasKid(p, r)
        /\ kids' \in [Pids -> Kid \cup {NoKid}]
        /\ \A q \in Pids : q # p => kids'[q] = kids[q]
        /\ kids'[p].phase = verdict /\ kids'[p].round = r /\ kids'[p].own = kids[p].own
    BY <1>1, <2>1, <2>2, BecomeType
  <2> HIDE DEF r
  <2>4. /\ marker' \in [Rounds -> 0..MaxPids]
        /\ \A x \in Rounds : x # r => marker'[x] = marker[x]
    BY <1>1, <1>2, <2>2, <2>3
  <2> QED
    BY <1>1, <2>1, <2>2, <2>3, <2>4, ChildKeeps
<1>6. CASE Validate(p)
  <2>1. /\ kids[p].phase = "finishing" /\ Become(p, "archiving")
        /\ flags' = [flags EXCEPT ![r] = @ \cup {"validated"}]
        /\ UNCHANGED <<marker, drafted, status, stale, sid, used, ledger, up, live, admitted, locked,
                       rooms, asked, autos, marks, hasty, freed, wiped>>
    BY <1>6 DEF Validate, At, ByChild, app, told
  <2>2. /\ r \in Rounds /\ HasKid(p, r)
        /\ kids' \in [Pids -> Kid \cup {NoKid}]
        /\ \A q \in Pids : q # p => kids'[q] = kids[q]
        /\ kids'[p].phase = "archiving" /\ kids'[p].round = r /\ kids'[p].own = kids[p].own
    BY <1>1, <2>1, BecomeType
  <2> HIDE DEF r
  <2>3. /\ flags' \in [Rounds -> SUBSET {"validated", "failed"}]
        /\ "validated" \in flags'[r]
        /\ \A x \in Rounds : x # r => flags'[x] = flags[x]
    BY <1>1, <2>1, <2>2
  <2> QED
    BY <1>1, <2>1, <2>2, <2>3, ChildKeeps
<1>7. CASE Exit(p) \/ Die(p)
  <2>1. PICK code \in Codes : kids' = Ended(p, code)
    BY <1>7 DEF Exit, Die, Codes
  <2>2. /\ kids[p].phase \notin {"none", "exited"}
        /\ UNCHANGED <<marker, flags, drafted, status, stale, sid, used, ledger, up, live, admitted,
                       locked, rooms, asked, autos, marks, hasty, freed, wiped>>
    BY <1>7 DEF Exit, Die, At, Alive, ByChild, app, told
  <2>3. /\ r \in Rounds /\ HasKid(p, r)
        /\ kids' \in [Pids -> Kid \cup {NoKid}]
        /\ \A q \in Pids : q # p => kids'[q] = kids[q]
        /\ kids'[p].phase \in {"none", "exited"}
        /\ kids'[p].phase # "none" => kids'[p].round = r /\ kids'[p].own = kids[p].own
    BY <1>1, <2>1, <2>2, EndedType
  <2> HIDE DEF r
  <2> QED
    BY <1>1, <2>2, <2>3, ChildKeeps
<1> QED
  BY <1>3, <1>4, <1>5, <1>6, <1>7 DEF ChildStep

\* An agent's own validation adds a mark of success.
LEMMA ValidatesItselfKeeps ==
  ASSUME Inv, NEW p \in Pids, ValidatesItself(p)
  PROVE  Inv'
<1> DEFINE r == kids[p].round
<1>1. /\ kids[p].phase = "building" /\ marks < MaxMarks /\ marks' = marks + 1
      /\ flags' = [flags EXCEPT ![r] = @ \cup {"validated"}]
      /\ UNCHANGED <<marker, drafted, kids, status, stale, sid, used, ledger, up, live, admitted,
                     locked, rooms, asked, autos, hasty, freed, wiped>>
  BY DEF ValidatesItself, At, app
<1>2. r \in Rounds /\ HasKid(p, r)
  BY <1>1, KidShape DEF Inv, HasKid
<1>3. /\ kids \in [Pids -> Kid \cup {NoKid}] /\ drafted \subseteq Reps
      /\ marker \in [Rounds -> 0..MaxPids]
      /\ flags \in [Rounds -> SUBSET {"validated", "failed"}]
      /\ marks' \in 0..MaxMarks
  BY <1>1, BoundsAssumption DEF Inv, TypeOK
<1> HIDE DEF r
<1>4. /\ flags' \in [Rounds -> SUBSET {"validated", "failed"}]
      /\ "validated" \in flags'[r]
      /\ "failed" \in flags'[r] => "failed" \in flags[r]
      /\ \A x \in Rounds : x # r => flags'[x] = flags[x]
  BY <1>1, <1>2, <1>3
<1> QED
  BY <1>1, <1>2, <1>3, <1>4, ChildKeeps DEF HasKid

---------------------------------------------------------------------------
(* The app, when a child closes, over orphans, and when it goes.           *)

\* The one automatic attempt is a child in place of the one that closed; else
\* the closed child is gone and its round is marked.
LEMMA CloseKeeps == ASSUME Inv, NEW p \in Pids, Close(p) PROVE Inv'
<1> DEFINE r == kids[p].round
           unsaid == /\ kids[p].code # "ok"
                     /\ "validated" \notin flags[r]
                     /\ r \in Reps => "failed" \notin flags[r]
<1>1. /\ up /\ kids[p].phase = "exited" /\ TypeOK
      /\ UNCHANGED <<status, stale, sid, drafted, up, admitted, locked, rooms, asked, marks,
                     hasty, freed, wiped>>
  BY DEF Close, At, Inv
<1>2. r \in Rounds /\ HasKid(p, r)
  BY <1>1, KidShape DEF HasKid
<1>3. CASE unsaid /\ MayRetryOnce(r, kids[p].code)
  <2>1. /\ r \notin ledger /\ "validated" \notin flags[r]
        /\ ledger' = ledger \cup {r} /\ Spawn(r, p) /\ autos' = [autos EXCEPT ![r] = @ + 1]
    BY <1>3 DEF Close, MayRetryOnce
  <2> HIDE DEF r, unsaid
  <2>2. /\ kids' \in [Pids -> Kid \cup {NoKid}]
        /\ \A q \in Pids : kids'[q].phase # "none" => (kids'[q].own => up)
        /\ kids'[p].phase \in {"drafting", "building"} /\ kids'[p].round = r
        /\ kids'[p].phase = "drafting" => r \in Reps
        /\ \A q \in Pids : q # p => kids'[q] = kids[q]
        /\ marker' \in [Rounds -> 0..MaxPids]
        /\ flags' \in [Rounds -> SUBSET {"validated", "failed"}]
        /\ used' \in [Rounds -> 0..MaxRooms] /\ used'[r] = 0
        /\ \A x \in Rounds : x # r => flags'[x] = flags[x] /\ used'[x] = used[x]
        /\ live' \subseteq Rounds
    BY <1>1, <1>2, <2>1, SpawnType
  <2>3. /\ autos \in [Rounds -> Nat] /\ autos' \in [Rounds -> Nat]
        /\ autos'[r] = autos[r] + 1
        /\ \A x \in Rounds : x # r => autos'[x] = autos[x]
    BY <1>1, <1>2, <2>1 DEF TypeOK
  <2>4. TypeOK'
    <3>1. ledger' \subseteq Rounds
      BY <1>1, <1>2, <2>1 DEF TypeOK
    <3> QED
      BY <1>1, <2>2, <2>3, <3>1 DEF TypeOK
  <2>5. KidsAlone'
    <3>1. r \notin hasty \cup freed => \A q \in Pids : q # p => ~ HasKid(q, r)
      BY <1>2 DEF Inv, KidsAlone
    <3>2. kids[p].round = r
      BY <1>2 DEF HasKid
    <3> QED
      BY <1>1, <1>2, <2>1, <3>1, <3>2, SpawnAlone DEF Inv
  <2>6. RepsAreDrafted'
    BY <2>2 DEF Inv, RepsAreDrafted
  <2>7. \A x \in Rounds : Launched(x)' = Launched(x)
    BY <1>1 DEF Launched
  <2>8. Untouched'
    <3>1. \A q \in Pids, x \in Rounds : HasKid(q, x)' => HasKid(q, x)
      BY <1>2, <2>2 DEF HasKid
    <3> QED
      BY <1>1, <2>7, <3>1 DEF Inv, Untouched
  <2>9. LedgerKept'
    <3>1. autos[r] <= 0
      BY <1>2, <2>1 DEF Inv, LedgerKept
    <3> QED
      BY <1>2, <2>1, <2>3, <3>1 DEF Inv, LedgerKept
  <2>10. SessionsAreOn'
    BY <1>1, <2>2, <2>7 DEF Inv, SessionsAreOn
  <2>11. ArtifactsStay' /\ ReadyIsValidated'
    <3>1. r \in wiped \/ (~ Launched(r) /\ status[r] # "ready")
      BY <1>2, <2>1 DEF Inv, ArtifactsStay, ReadyIsValidated
    <3> QED
      BY <1>1, <2>2, <2>7, <3>1 DEF Inv, ArtifactsStay, ReadyIsValidated
  <2> QED
    BY <2>4, <2>5, <2>6, <2>8, <2>9, <2>10, <2>11 DEF Inv
<1>4. CASE ~ (unsaid /\ MayRetryOnce(r, kids[p].code))
  <2>1. /\ live' = live \ {r}
        /\ marker' = [marker EXCEPT ![r] = 0]
        /\ flags' = [flags EXCEPT ![r] = IF unsaid THEN @ \cup {"failed"} ELSE @]
        /\ kids' = [kids EXCEPT ![p] = NoKid]
        /\ UNCHANGED <<used, ledger, autos>>
    BY <1>4 DEF Close
  <2> HIDE DEF r, unsaid
  <2>2. /\ kids' \in [Pids -> Kid \cup {NoKid}]
        /\ kids'[p].phase = "none"
        /\ \A q \in Pids : q # p => kids'[q] = kids[q]
    BY <1>1, <2>1 DEF TypeOK, NoKid
  <2>3. /\ marker' \in [Rounds -> 0..MaxPids]
        /\ flags' \in [Rounds -> SUBSET {"validated", "failed"}]
        /\ "validated" \in flags[r] => "validated" \in flags'[r]
        /\ \A x \in Rounds : x # r => marker'[x] = marker[x] /\ flags'[x] = flags[x]
    BY <1>1, <1>2, <2>1, BoundsAssumption DEF TypeOK
  <2>4. marks' \in 0..MaxMarks /\ drafted' \subseteq Reps /\ live' \subseteq live
    BY <1>1, <2>1 DEF TypeOK
  <2> QED
    BY <1>1, <1>2, <2>1, <2>2, <2>3, <2>4, ChildKeeps
<1> QED
  BY <1>3, <1>4

\* A sweep touches the directory of no agent at work, unless it is on record.
LEMMA SweepKeeps ==
  ASSUME Inv, SweepOrphans, up' = TRUE, UNCHANGED live
  PROVE  Inv'
<1>1. /\ UNCHANGED <<status, stale, sid, used, ledger, drafted, kids, admitted, locked, rooms,
                     asked, autos, marks, hasty, wiped>>
      /\ freed' = freed \cup {r \in Orphans : Finished(r) /\ MarkerAlive(r)}
      /\ \A x \in Rounds :
           /\ marker'[x] = IF x \in Orphans /\ (Finished(x) \/ SweptAsFailed(x))
                           THEN 0 ELSE marker[x]
           /\ flags'[x] = IF x \in Orphans /\ SweptAsFailed(x) THEN {"failed"} ELSE flags[x]
  BY DEF SweepOrphans
<1>2. TypeOK'
  <2>1. marker' \in [Rounds -> 0..MaxPids]
    <3>1. \A x \in Rounds : (IF x \in Orphans /\ (Finished(x) \/ SweptAsFailed(x))
                             THEN 0 ELSE marker[x]) \in 0..MaxPids
      BY BoundsAssumption DEF Inv, TypeOK
    <3> QED
      BY <3>1 DEF SweepOrphans
  <2>2. flags' \in [Rounds -> SUBSET {"validated", "failed"}]
    <3>1. \A x \in Rounds : (IF x \in Orphans /\ SweptAsFailed(x) THEN {"failed"} ELSE flags[x])
                              \in SUBSET {"validated", "failed"}
      BY DEF Inv, TypeOK
    <3> QED
      BY <3>1 DEF SweepOrphans
  <2>3. freed' \subseteq Rounds
    BY <1>1 DEF Inv, TypeOK, Orphans
  <2>4. live' \subseteq Rounds
    BY DEF Inv, TypeOK
  <2> QED
    BY <1>1, <2>1, <2>2, <2>3, <2>4 DEF Inv, TypeOK
<1>3. KidsAlone'
  <2> SUFFICES ASSUME NEW x \in Rounds, x \notin hasty \cup freed'
               PROVE  /\ \A a, b \in Pids : HasKid(a, x)' /\ HasKid(b, x)' => a = b
                      /\ \A a \in Pids : AtWork(a, x)' => marker'[x] = a /\ "failed" \notin flags'[x]
    BY <1>1 DEF KidsAlone
  <2>1. x \notin hasty \cup freed
    BY <1>1
  <2>2. \A a \in Pids : /\ HasKid(a, x)' = HasKid(a, x)
                        /\ AtWork(a, x)' = AtWork(a, x)
    BY <1>1 DEF HasKid, AtWork
  <2>3. ASSUME NEW a \in Pids, AtWork(a, x)
        PROVE  marker'[x] = a /\ "failed" \notin flags'[x]
    <3>1. marker[x] = a /\ "failed" \notin flags[x]
      BY <2>1, <2>3 DEF Inv, KidsAlone
    <3>2. MarkerAlive(x)
      BY <2>3, <3>1 DEF MarkerAlive, Alive, AtWork, Pids
    <3>3. ~ SweptAsFailed(x)
      BY <3>2 DEF SweptAsFailed
    <3>4. ~ (x \in Orphans /\ Finished(x))
      BY <1>1, <3>2
    <3> QED
      BY <1>1, <3>1, <3>3, <3>4
  <2> QED
    BY <2>1, <2>2, <2>3 DEF Inv, KidsAlone
<1>4. RepsAreDrafted'
  BY <1>1 DEF Inv, RepsAreDrafted
<1>5. \A x \in Rounds : "validated" \in flags[x] => "validated" \in flags'[x]
  <2>1. \A x \in Rounds : SweptAsFailed(x) => flags[x] = {}
    BY DEF SweptAsFailed, Finished
  <2> QED
    BY <1>1, <2>1
<1>6. \A q \in Pids, x \in Rounds : HasKid(q, x)' => HasKid(q, x)
  BY <1>1 DEF HasKid
<1>7. Untouched' /\ LedgerKept' /\ SessionsAreOn' /\ ArtifactsStay' /\ ReadyIsValidated'
  BY <1>1, <1>5, <1>6, RestKeeps
<1> QED
  BY <1>2, <1>3, <1>4, <1>7 DEF Inv

\* The app's memory goes; every child at work stays at work.
LEMMA StopKeeps == ASSUME Inv, Stop PROVE Inv'
<1>1. /\ up' = FALSE /\ live' = {} /\ admitted' = {}
      /\ \A p \in Pids : kids'[p] = IF kids[p].phase \in {"none", "exited"} THEN NoKid
                                    ELSE [kids[p] EXCEPT !.own = FALSE]
      /\ UNCHANGED <<status, stale, sid, marker, flags, used, ledger, drafted, locked, rooms,
                     asked, autos, marks, hasty, freed, wiped>>
  BY DEF Stop, At, disk, told
<1>2. \A p \in Pids :
        /\ kids'[p] \in Kid \cup {NoKid}
        /\ kids'[p].phase # "none" =>
             /\ kids'[p].phase = kids[p].phase
             /\ kids'[p].round = kids[p].round
             /\ kids'[p].own = FALSE
  <2> SUFFICES ASSUME NEW p \in Pids
               PROVE  /\ kids'[p] \in Kid \cup {NoKid}
                      /\ kids'[p].phase # "none" =>
                           /\ kids'[p].phase = kids[p].phase
                           /\ kids'[p].round = kids[p].round
                           /\ kids'[p].own = FALSE
    OBVIOUS
  <2>1. CASE kids[p].phase \in {"none", "exited"}
    <3>1. kids'[p] = NoKid
      BY <1>1, <2>1
    <3>2. NoKid.phase = "none"
      BY DEF NoKid
    <3> QED
      BY <3>1, <3>2
  <2>2. CASE kids[p].phase \notin {"none", "exited"}
    <3>1. kids[p] \in [phase : {"drafting", "building", "finishing", "failing", "archiving"},
                       round : Rounds, own : BOOLEAN]
      BY <2>2, KidShape DEF Inv
    <3>2. kids'[p] = [kids[p] EXCEPT !.own = FALSE]
      BY <1>1, <2>2
    <3>3. /\ kids'[p] \in [phase : {"drafting", "building", "finishing", "failing", "archiving"},
                           round : Rounds, own : BOOLEAN]
          /\ kids'[p].phase = kids[p].phase /\ kids'[p].round = kids[p].round
          /\ kids'[p].own = FALSE
      BY <3>1, <3>2
    <3> QED
      BY <3>3 DEF Kid
  <2> QED
    BY <2>1, <2>2
<1>3. TypeOK'
  <2>1. kids' \in [Pids -> Kid \cup {NoKid}]
    <3>1. kids' = [p \in Pids |-> kids'[p]]
      BY DEF Stop
    <3> QED
      BY <1>2, <3>1
  <2>2. \A p \in Pids : kids'[p].phase # "none" => (kids'[p].own => up')
    BY <1>2
  <2> QED
    BY <1>1, <2>1, <2>2 DEF Inv, TypeOK
<1>4. \A p \in Pids, x \in Rounds : /\ HasKid(p, x)' => HasKid(p, x)
                                    /\ AtWork(p, x)' => AtWork(p, x)
  BY <1>2 DEF HasKid, AtWork
<1>5. KidsAlone' /\ RepsAreDrafted'
  BY <1>1, <1>2, <1>4 DEF Inv, KidsAlone, RepsAreDrafted
<1>6. Untouched' /\ LedgerKept' /\ SessionsAreOn' /\ ArtifactsStay' /\ ReadyIsValidated'
  BY <1>1, <1>4, RestKeeps
<1> QED
  BY <1>3, <1>5, <1>6 DEF Inv

---------------------------------------------------------------------------
(* Sessions.                                                               *)

\* A session is launched on a validated artifact only.
LEMMA LaunchKeeps ==
  ASSUME Inv, NEW r \in Rounds, NEW s \in Sids, Launch(r, s)
  PROVE  Inv'
<1>1. /\ rooms[s] = NoRoom
      /\ rooms' = [rooms EXCEPT ![s] = [state |-> "booting", round |-> r]]
      /\ IF r \in Plans THEN status[r] = "ready" ELSE ReadsAs(r) = "ready" /\ used[r] = 0
      /\ UNCHANGED <<status, stale, sid, marker, flags, used, ledger, drafted, kids, up, live,
                     admitted, locked, asked, autos, marks, hasty, freed, wiped>>
  BY DEF Launch, disk, app, told
<1> DEFINE room == [state |-> "booting", round |-> r]
<1>2. /\ room \in Room /\ room.round = r /\ room # NoRoom
      /\ rooms \in [Sids -> Room \cup {NoRoom}]
  <2>1. room.state # NoRoom.state
    BY DEF NoRoom
  <2> QED
    BY <2>1 DEF Inv, TypeOK, Room
<1> HIDE DEF room
<1>3. /\ rooms' \in [Sids -> Room \cup {NoRoom}]
      /\ rooms'[s] = room
      /\ \A t \in Sids : t # s => rooms'[t] = rooms[t]
  BY <1>1, <1>2 DEF room
<1>4. TypeOK'
  BY <1>1, <1>3 DEF Inv, TypeOK
<1>5. KidsAlone' /\ RepsAreDrafted'
  BY <1>1, AloneUnchanged DEF Inv
<1>6. \A x \in Rounds : Launched(x)' = (Launched(x) \/ x = r)
  BY <1>1, <1>2, <1>3 DEF Launched
<1>7. /\ r \in Plans => status[r] = "ready"
      /\ status[r] \notin {"pending", "absent"}
      /\ r \notin wiped => "validated" \in flags[r]
  <2>1. ReadsAs(r) = "ready" => status[r] \notin {"pending", "absent"}
    BY ReadingsHold
  <2>2. r \notin wiped /\ ReadsAs(r) = "ready" => "validated" \in flags[r]
    BY ReadingsHold
  <2>3. r \notin wiped /\ status[r] = "ready" => "validated" \in flags[r]
    BY DEF Inv, ReadyIsValidated
  <2> QED
    BY <1>1, <2>1, <2>2, <2>3
<1>8. Untouched'
  <2>1. \A q \in Pids, x \in Rounds : HasKid(q, x)' = HasKid(q, x)
    BY <1>1 DEF HasKid
  <2> QED
    BY <1>1, <1>6, <1>7, <2>1 DEF Inv, Untouched
<1>9. LedgerKept'
  BY <1>1 DEF Inv, LedgerKept
<1>10. SessionsAreOn'
  <2>1. \A x \in Rounds :
          /\ used[x] # 0 => used[x] \in Sids /\ used[x] # s
          /\ sid[x] # 0 => sid[x] \in Sids /\ sid[x] # s
    BY <1>1, BoundsAssumption DEF Inv, TypeOK, SessionsAreOn, Sids
  <2> QED
    BY <1>1, <1>3, <1>6, <2>1 DEF Inv, SessionsAreOn
<1>11. ArtifactsStay' /\ ReadyIsValidated'
  BY <1>1, <1>6, <1>7 DEF Inv, ArtifactsStay, ReadyIsValidated
<1> QED
  BY <1>4, <1>5, <1>8, <1>9, <1>10, <1>11 DEF Inv

\* A session goes on: it stays on its round.
LEMMA RoomKeeps ==
  ASSUME Inv, NEW s \in Sids, rooms[s].state \in {"booting", "open"},
         NEW state \in {"open", "graded", "dropped"},
         rooms' = [rooms EXCEPT ![s].state = state],
         used' \in [Rounds -> 0..MaxRooms],
         \A x \in Rounds : used'[x] = used[x] \/ (x = rooms[s].round /\ used'[x] = s),
         UNCHANGED <<status, stale, sid, marker, flags, ledger, drafted, kids, up, live,
                     admitted, locked, asked, autos, marks, hasty, freed, wiped>>
  PROVE  Inv'
<1>1. /\ rooms \in [Sids -> Room \cup {NoRoom}]
      /\ rooms[s] \in Room
  BY DEF Inv, TypeOK, NoRoom
<1> DEFINE room == [rooms[s] EXCEPT !.state = state]
<1>2. room \in Room /\ room.round = rooms[s].round /\ room.state # "none"
  BY <1>1 DEF Room
<1>3. rooms' = [rooms EXCEPT ![s] = room]
  OBVIOUS
<1> HIDE DEF room
<1>4. /\ rooms' \in [Sids -> Room \cup {NoRoom}]
      /\ \A t \in Sids : /\ rooms[t] # NoRoom => rooms'[t] # NoRoom
                         /\ rooms'[t] # NoRoom => rooms[t] # NoRoom
                         /\ rooms'[t].round = rooms[t].round
  <2>1. room # NoRoom /\ rooms[s] # NoRoom
    BY <1>2 DEF NoRoom
  <2> QED
    BY <1>1, <1>2, <1>3, <2>1
<1>5. TypeOK'
  BY <1>4 DEF Inv, TypeOK
<1>6. KidsAlone' /\ RepsAreDrafted'
  BY AloneUnchanged DEF Inv
<1>7. /\ \A x \in Rounds : Launched(x)' = Launched(x)
      /\ \A q \in Pids, x \in Rounds : HasKid(q, x)' = HasKid(q, x)
  BY <1>4 DEF Launched, HasKid
<1>8. Untouched' /\ LedgerKept' /\ ArtifactsStay' /\ ReadyIsValidated'
  BY <1>7 DEF Inv, Untouched, LedgerKept, ArtifactsStay, ReadyIsValidated
<1>9. SessionsAreOn'
  <2> SUFFICES ASSUME NEW x \in Rounds
               PROVE  /\ used'[x] # 0 => rooms'[used'[x]] # NoRoom /\ rooms'[used'[x]].round = x
                      /\ sid[x] # 0 => rooms'[sid[x]] # NoRoom /\ rooms'[sid[x]].round = x
                      /\ status[x] = "done" => Launched(x)
    BY <1>7 DEF SessionsAreOn
  <2>1. /\ used[x] # 0 => used[x] \in Sids /\ rooms[used[x]] # NoRoom /\ rooms[used[x]].round = x
        /\ sid[x] # 0 => sid[x] \in Sids /\ rooms[sid[x]] # NoRoom /\ rooms[sid[x]].round = x
        /\ status[x] = "done" => Launched(x)
    BY BoundsAssumption DEF Inv, TypeOK, SessionsAreOn, Sids
  <2>2. CASE used'[x] = used[x]
    BY <1>4, <2>1, <2>2
  <2>3. CASE x = rooms[s].round /\ used'[x] = s
    <3>1. rooms[s] # NoRoom
      BY DEF NoRoom
    <3> QED
      BY <1>4, <2>1, <2>3, <3>1
  <2> QED
    BY <2>2, <2>3
<1> QED
  BY <1>5, <1>6, <1>8, <1>9 DEF Inv

\* A session opens on a round that is ready.
LEMMA OpenKeeps == ASSUME Inv, NEW s \in Sids, Open(s) PROVE Inv'
<1>1. /\ rooms[s].state = "booting"
      /\ rooms' = [rooms EXCEPT ![s].state = "open"]
      /\ used' = [used EXCEPT ![rooms[s].round] = s]
      /\ used \in [Rounds -> 0..MaxRooms] /\ s \in 0..MaxRooms
      /\ UNCHANGED <<status, stale, sid, marker, flags, ledger, drafted, kids, up, live,
                     admitted, locked, asked, autos, marks, hasty, freed, wiped>>
  BY BoundsAssumption DEF Open, app, told, Inv, TypeOK, Sids
<1>2. /\ used' \in [Rounds -> 0..MaxRooms]
      /\ \A x \in Rounds : used'[x] = used[x] \/ (x = rooms[s].round /\ used'[x] = s)
  BY <1>1
<1> QED
  BY <1>1, <1>2, RoomKeeps

\* A session that ends leaves its round.
LEMMA EndRoomKeeps == ASSUME Inv, NEW s \in Sids, EndRoom(s) PROVE Inv'
<1>1. /\ rooms[s].state \in {"booting", "open"}
      /\ \E state \in {"graded", "dropped"} : rooms' = [rooms EXCEPT ![s].state = state]
      /\ used \in [Rounds -> 0..MaxRooms]
      /\ UNCHANGED <<status, stale, sid, marker, flags, used, ledger, drafted, kids, up, live,
                     admitted, locked, asked, autos, marks, hasty, freed, wiped>>
  BY DEF EndRoom, disk, app, told, Inv, TypeOK
<1> QED
  BY <1>1, RoomKeeps

---------------------------------------------------------------------------
(* The theorems.                                                           *)

\* No step of the app, of a child or of a session breaks the invariant.
LEMMA StepKeeps == Inv /\ [Next]_vars => Inv'
<1> SUFFICES ASSUME Inv, [Next]_vars PROVE Inv'
  OBVIOUS
<1>1. CASE \E r \in Rounds :
             \/ Generate(r) \/ Retry(r) \/ Rebuild(r) \/ Skip(r) \/ Adapt(r) \/ Admit(r)
             \/ Create(r) \/ RetryRep(r) \/ \E s \in Sids : Launch(r, s)
  BY <1>1, GenerateKeeps, RetryKeeps, RebuildKeeps, SkipKeeps, AdaptKeeps, AdmitKeeps,
     CreateKeeps, RetryRepKeeps, LaunchKeeps
<1>2. CASE \E p \in Pids : ChildStep(p) \/ ValidatesItself(p) \/ Close(p)
  BY <1>2, ChildStepKeeps, ValidatesItselfKeeps, CloseKeeps
<1>3. CASE Refresh
  BY <1>3, RefreshKeeps
<1>4. CASE Sweep
  BY <1>4, SweepKeeps DEF Sweep, Inv, TypeOK
<1>5. CASE Stop
  BY <1>5, StopKeeps
<1>6. CASE Start
  BY <1>6, SweepKeeps DEF Start
<1>7. CASE \E s \in Sids : Open(s) \/ EndRoom(s)
  BY <1>7, OpenKeeps, EndRoomKeeps
<1>8. CASE UNCHANGED vars
  <2>1. UNCHANGED <<status, stale, sid, marker, flags, used, ledger, drafted, kids, up, live,
                    admitted, locked, rooms, asked, autos, marks, hasty, freed, wiped>>
    BY <1>8 DEF vars, disk, app, told
  <2>2. TypeOK'
    BY <2>1 DEF Inv, TypeOK
  <2>3. KidsAlone' /\ RepsAreDrafted'
    BY <2>1, AloneUnchanged DEF Inv
  <2>4. \A q \in Pids, x \in Rounds : HasKid(q, x)' => HasKid(q, x)
    BY <2>1 DEF HasKid
  <2>5. Untouched' /\ LedgerKept' /\ SessionsAreOn' /\ ArtifactsStay' /\ ReadyIsValidated'
    BY <2>1, <2>4, RestKeeps
  <2> QED
    BY <2>2, <2>3, <2>5 DEF Inv
<1> QED
  BY <1>1, <1>2, <1>3, <1>4, <1>5, <1>6, <1>7, <1>8 DEF Next

\* The app starts with nothing built.
LEMMA InitHolds == Init => Inv
<1> SUFFICES ASSUME Init PROVE Inv
  OBVIOUS
<1>1. /\ \A p \in Pids : kids[p].phase = "none"
      /\ \A s \in Sids : rooms[s] = NoRoom
      /\ kids \in [Pids -> Kid \cup {NoKid}]
      /\ rooms \in [Sids -> Room \cup {NoRoom}]
  BY DEF Init, NoKid
<1>2. /\ status \in [Rounds -> {"absent", "pending", "generating", "ready", "failed", "done",
                                "skipped"}]
      /\ \A r \in Rounds : status[r] = IF r \in Plans THEN "pending" ELSE "absent"
      /\ sid = [r \in Rounds |-> 0] /\ marker = [r \in Rounds |-> 0]
      /\ used = [r \in Rounds |-> 0] /\ autos = [r \in Rounds |-> 0]
      /\ flags = [r \in Rounds |-> {}]
  BY DEF Init
<1>3. TypeOK
  <2>1. /\ sid \in [Rounds -> 0..MaxRooms] /\ marker \in [Rounds -> 0..MaxPids]
        /\ used \in [Rounds -> 0..MaxRooms] /\ autos \in [Rounds -> Nat]
        /\ flags \in [Rounds -> SUBSET {"validated", "failed"}]
    BY <1>2, BoundsAssumption
  <2>2. asked \in 0..MaxRequests /\ marks \in 0..MaxMarks
    BY BoundsAssumption DEF Init
  <2>3. /\ \A r \in Rounds : status[r] \in {"pending", "skipped"} => r \in Plans
        /\ \A r \in Rounds : status[r] = "absent" => r \in Reps
    BY <1>2 DEF Rounds
  <2>4. /\ up \in BOOLEAN /\ live = {} /\ admitted = {} /\ locked = {} /\ stale = {}
        /\ ledger = {} /\ drafted = {} /\ hasty = {} /\ freed = {} /\ wiped = {}
    BY DEF Init
  <2> QED
    BY <1>1, <1>2, <2>1, <2>2, <2>3, <2>4 DEF TypeOK
<1>4. KidsAlone /\ RepsAreDrafted
  BY <1>1 DEF KidsAlone, RepsAreDrafted, HasKid, AtWork
<1>5. Untouched
  <2>1. admitted = {} /\ \A r \in Reps : r \in Rounds /\ r \notin Plans
    BY RoundsAssumption DEF Init, Rounds
  <2> QED
    BY <1>1, <1>2, <2>1 DEF Untouched, Launched, HasKid
<1>6. LedgerKept
  BY <1>2 DEF LedgerKept
<1>7. SessionsAreOn
  BY <1>2 DEF SessionsAreOn
<1>8. ArtifactsStay /\ ReadyIsValidated
  BY <1>1, <1>2 DEF ArtifactsStay, ReadyIsValidated, Launched
<1> QED
  BY <1>3, <1>4, <1>5, <1>6, <1>7, <1>8 DEF Inv

\* The invariant holds of every reachable state.
THEOREM GenerationInvariant == Spec => []Inv
<1>1. Init => Inv
  BY InitHolds
<1>2. Inv /\ [Next]_vars => Inv'
  BY StepKeeps
<1> QED
  BY <1>1, <1>2, PTL DEF Spec

\* The app's rows, the directories and the children keep to their types.
THEOREM TypeCorrect == Spec => []TypeOK
<1>1. Inv => TypeOK
  BY DEF Inv
<1> QED
  BY <1>1, GenerationInvariant, PTL

\* No directory ever has two agents, whatever was stopped, swept, retried or
\* rebuilt, outside the two histories the property names.
THEOREM OneAgent == Spec => []OneAgentPerRound
<1>1. Inv => OneAgentPerRound
  BY DEF Inv, KidsAlone, OneAgentPerRound, HasKid, AtWork
<1> QED
  BY <1>1, GenerationInvariant, PTL

\* A round whose agent still writes is never marked failed (the sweep's test of
\* the marker's pid, the close handler's of its own child).
THEOREM HealthyBuildsGoOn == Spec => []NoHealthyBuildFails
<1>1. Inv => NoHealthyBuildFails
  BY DEF Inv, KidsAlone, NoHealthyBuildFails
<1> QED
  BY <1>1, GenerationInvariant, PTL

\* The log of the first failure bounds automatic retries to one for each
\* round, however often the app is restarted.
THEOREM RetriedOnce == Spec => []OneAutomaticRetry
<1>1. Inv => OneAutomaticRetry
  BY DEF Inv, TypeOK, LedgerKept, OneAutomaticRetry
<1> QED
  BY <1>1, GenerationInvariant, PTL

\* What is stored as ready is there, unless a rebuild wiped a round that had
\* been launched.
THEOREM ReadyIsThere == Spec => []ReadyIsValidated
<1>1. Inv => ReadyIsValidated
  BY DEF Inv
<1> QED
  BY <1>1, GenerationInvariant, PTL
=============================================================================
