------------------------------ MODULE Generation ------------------------------
(***************************************************************************)
(* How rounds get built: plan items and practice reps, each generated into *)
(* a problem directory of its own by a detached child process              *)
(* (server/src/app.ts, queue.ts, generation-state.ts, reps.ts and the      *)
(* generate-for and rep-build commands of cli.ts).                         *)
(*                                                                         *)
(* What the app and a child know of each other is the directory: the       *)
(* .generating marker with the child's pid, .validated, .failed, .used.    *)
(* The statuses in queue.json and reps.json are read back from it          *)
(* (reconcileWithDisk).  The app dies and restarts under its children; the *)
(* children die, and their pids are used again by later ones.              *)
(*                                                                         *)
(* A step of the app is the code between two awaits; a step of a child     *)
(* ends where it next touches the directory.                               *)
(***************************************************************************)
EXTENDS Naturals, FiniteSets

CONSTANTS
  Plans,        \* the items of one plan's queue
  Reps,         \* practice reps
  MaxBuilds,    \* maxConcurrentBuilds
  MaxRequests,  \* bound on builds asked for; automatic retries come on top
  MaxPids,      \* bound on children and their pids at one time
  MaxRooms,     \* bound on sessions launched
  MaxMarks,     \* bound on agents' own validations that pass
  MaxEvents     \* bound on builds asked for, sessions and such marks together

ASSUME RoundsAssumption == Plans \cap Reps = {}
ASSUME BoundsAssumption ==
  /\ MaxBuilds \in Nat \ {0}
  /\ MaxRequests \in Nat
  /\ MaxPids \in Nat \ {0}
  /\ MaxRooms \in Nat
  /\ MaxMarks \in Nat
  /\ MaxEvents \in Nat

VARIABLES
  status,    \* the stored status of each round
  stale,     \* plan items an adaptation has flagged since they were built
  sid,       \* the session stored with each round, 0 for none
  marker,    \* the pid in .generating, 0 when there is none
  flags,     \* which of .validated and .failed are in the directory
  used,      \* the session named by .used, 0 when there is none
  ledger,    \* rounds whose .build.1.log exists
  drafted,   \* reps whose blueprint exists
  kids,      \* the child behind each pid
  up,        \* the app runs
  live,      \* liveGenerations, the app's memory of children it spawned
  admitted,  \* reps whose request has the lock and awaits its imports
  locked,    \* reps whose directory exists, which is their lock
  rooms,     \* sessions
  asked,     \* builds asked for so far
  autos,     \* automatic retries of each round so far
  marks,     \* validations by agents so far
  hasty,     \* rounds built again before an earlier child's close was heard
  freed,     \* rounds whose marker a sweep took while its agent worked
  wiped      \* rounds rebuilt although a session had been launched on them

disk == <<marker, flags, used, ledger, drafted>>
app == <<up, live, admitted>>
told == <<asked, autos, marks, hasty, freed, wiped>>
vars == <<status, stale, sid, disk, kids, app, locked, rooms, told>>

Rounds == Plans \cup Reps
Pids == 1..MaxPids
Sids == 1..MaxRooms
NoKid == [phase |-> "none"]
NoRoom == [state |-> "none"]

Codes == {"ok", "fail", "config"}
Kid ==
  [phase : {"drafting", "building", "finishing", "failing", "archiving"},
   round : Rounds, own : BOOLEAN]
    \cup [phase : {"exited"}, round : Rounds, own : {TRUE}, code : Codes]
Room == [state : {"booting", "open", "graded", "dropped"}, round : Rounds]

Alive(p) == kids[p].phase \notin {"none", "exited"}

\* A child whose agent may be writing into the round's directory.
AtWork(p, r) == kids[p].phase \in {"drafting", "building"} /\ kids[p].round = r

TypeOK ==
  /\ status \in [Rounds ->
       {"absent", "pending", "generating", "ready", "failed", "done", "skipped"}]
  /\ \A r \in Rounds : status[r] \in {"pending", "skipped"} => r \in Plans
  /\ \A r \in Rounds : status[r] = "absent" => r \in Reps
  /\ stale \subseteq Plans
  /\ sid \in [Rounds -> 0..MaxRooms]
  /\ marker \in [Rounds -> 0..MaxPids]
  /\ flags \in [Rounds -> SUBSET {"validated", "failed"}]
  /\ used \in [Rounds -> 0..MaxRooms]
  /\ ledger \subseteq Rounds
  /\ drafted \subseteq Reps
  /\ kids \in [Pids -> Kid \cup {NoKid}]
  /\ \A p \in Pids : kids[p].phase # "none" => (kids[p].own => up)
  /\ up \in BOOLEAN
  /\ live \subseteq Rounds /\ (~ up => live = {})
  /\ admitted \subseteq locked /\ locked \subseteq Reps
  /\ rooms \in [Sids -> Room \cup {NoRoom}]
  /\ asked \in 0..MaxRequests
  /\ autos \in [Rounds -> Nat]
  /\ marks \in 0..MaxMarks
  /\ hasty \subseteq Rounds
  /\ freed \subseteq Rounds
  /\ wiped \subseteq Rounds

Init ==
  /\ status = [r \in Rounds |-> IF r \in Plans THEN "pending" ELSE "absent"]
  /\ stale = {}
  /\ sid = [r \in Rounds |-> 0]
  /\ marker = [r \in Rounds |-> 0]
  /\ flags = [r \in Rounds |-> {}]
  /\ used = [r \in Rounds |-> 0]
  /\ ledger = {}
  /\ drafted = {}
  /\ kids = [p \in Pids |-> NoKid]
  /\ up = TRUE
  /\ live = {}
  /\ admitted = {}
  /\ locked = {}
  /\ rooms = [s \in Sids |-> NoRoom]
  /\ asked = 0
  /\ autos = [r \in Rounds |-> 0]
  /\ marks = 0
  /\ hasty = {}
  /\ freed = {}
  /\ wiped = {}

---------------------------------------------------------------------------
(* reconcileWithDisk: what a stored round reads as, given its directory.   *)

Built(r) ==
  IF status[r] \notin {"generating", "failed"} THEN status[r]
  ELSE IF "validated" \in flags[r] THEN "ready"
  ELSE IF "failed" \in flags[r] THEN "failed"
  ELSE status[r]

\* .used names a later session than the one the round was done with.
Rerun(r) == used[r] # 0 /\ Built(r) = "done" /\ used[r] # sid[r]

SidOf(r) ==
  IF used[r] # 0 /\ (Built(r) \in {"ready", "generating"} \/ Rerun(r)) THEN used[r] ELSE sid[r]

Graded(s) == s # 0 /\ rooms[s].state = "graded"

ReadsAs(r) ==
  LET now == IF Rerun(r) THEN "ready" ELSE Built(r)
  IN  IF status[r] \notin {"pending", "absent"} /\ now # "done" /\ Graded(SidOf(r))
      THEN "done" ELSE now

\* countLiveBuilds
LiveBuilds == Cardinality({r \in Rounds : ReadsAs(r) = "generating"})

\* /api/state: every queue and reps.json reconciled, and saved.
Refresh ==
  /\ up
  /\ status' = [r \in Rounds |-> ReadsAs(r)]
  /\ sid' = [r \in Rounds |-> SidOf(r)]
  /\ UNCHANGED <<stale, disk, kids, app, locked, rooms, told>>

---------------------------------------------------------------------------
(* Spawning.                                                               *)

Free == {p \in Pids : kids[p] = NoKid}

\* spawnGeneration and spawnRepBuild, into a directory that was just wiped or
\* did not exist: rmSync, mkdirSync, spawn, writeGeneratingMarker.
Spawn(r, p) ==
  /\ kids' = [kids EXCEPT ![p] =
       [phase |-> IF r \in Reps \ drafted THEN "drafting" ELSE "building",
        round |-> r, own |-> TRUE]]
  /\ marker' = [marker EXCEPT ![r] = p]
  /\ flags' = [flags EXCEPT ![r] = {}]
  /\ used' = [used EXCEPT ![r] = 0]
  /\ live' = live \cup {r}

\* A child that is past its agent, its marker gone, but whose close the app
\* has not handled: no guard on a request can see it.
Trailing(r) ==
  \E p \in Pids : kids[p].phase \notin {"none", "drafting", "building"} /\ kids[p].round = r

\* What every request that builds comes to: a slot free, and a child.
SlotFree == LiveBuilds < MaxBuilds
Events == asked + marks + Cardinality({s \in Sids : rooms[s] # NoRoom})
Ask(r) ==
  /\ asked < MaxRequests /\ Events < MaxEvents
  /\ asked' = asked + 1
  /\ hasty' = IF Trailing(r) THEN hasty \cup {r} ELSE hasty
  /\ \E p \in Free : Spawn(r, p)

\* A live pid in .generating: the double-agent guard.
MarkerNever(r) == FALSE
MarkerAlive(r) == marker[r] # 0 /\ Alive(marker[r])

\* A session was started on the round, whatever became of it.
Launched(r) == \E s \in Sids : rooms[s] # NoRoom /\ rooms[s].round = r

\* One at a time within a queue, by its stored statuses.
QueueBusy == \E r \in Plans : status[r] = "generating"

\* /api/generate
Generate(r) ==
  /\ up /\ r \in Plans
  /\ status[r] = "pending"
  /\ ~ QueueBusy
  /\ SlotFree
  /\ Ask(r)
  /\ status' = [status EXCEPT ![r] = "generating"]
  /\ UNCHANGED <<stale, sid, ledger, drafted, up, admitted, locked, rooms, autos, marks, freed, wiped>>

\* /api/retry: rotateBuildLog, wipe, and back to generating.
Retry(r) ==
  /\ up /\ r \in Plans
  /\ status[r] = "failed"
  /\ ~ MarkerAlive(r)
  /\ SlotFree
  /\ Ask(r)
  /\ status' = [status EXCEPT ![r] = "generating"]
  /\ ledger' = ledger \cup {r}
  /\ UNCHANGED <<stale, sid, drafted, up, admitted, locked, rooms, autos, marks, freed, wiped>>

\* /api/rebuild, of a ready item an adaptation has flagged, and which may well
\* have been launched: it reads as ready until its round has been judged.
RebuildAsIs(r) ==
  /\ up
  /\ status[r] = "ready" /\ r \in stale
  /\ ~ MarkerAlive(r)
  /\ ~ QueueBusy
  /\ SlotFree
  /\ Ask(r)
  /\ stale' = stale \ {r}
  /\ wiped' = IF Launched(r) THEN wiped \cup {r} ELSE wiped
  /\ UNCHANGED <<status, sid, ledger, drafted, up, admitted, locked, rooms, autos, marks, freed>>
Rebuild(r) ==
  /\ up
  /\ status[r] = "ready" /\ r \in stale
  /\ ~ MarkerAlive(r)
  /\ ~ QueueBusy
  /\ SlotFree
  /\ Ask(r)
  /\ status' = [status EXCEPT ![r] = "generating"]
  /\ stale' = stale \ {r}
  /\ wiped' = IF Launched(r) THEN wiped \cup {r} ELSE wiped
  /\ UNCHANGED <<sid, ledger, drafted, up, admitted, locked, rooms, autos, marks, freed>>

\* /api/skip
Skip(r) ==
  /\ up /\ r \in Plans
  /\ status' = [status EXCEPT ![r] = "skipped"]
  /\ UNCHANGED <<stale, sid, disk, kids, app, locked, rooms, told>>

\* applyAdaptation re-points or flags a ready item.
Adapt(r) ==
  /\ up /\ r \in Plans
  /\ status[r] = "ready"
  /\ stale' = stale \cup {r}
  /\ UNCHANGED <<status, sid, disk, kids, app, locked, rooms, told>>

\* /api/practice up to its first await: admission, the slot, the lock.
Admit(r) ==
  /\ up /\ r \in Reps \ locked
  /\ SlotFree
  /\ locked' = locked \cup {r}
  /\ admitted' = admitted \cup {r}
  /\ UNCHANGED <<status, stale, sid, disk, kids, up, live, rooms, told>>

\* The rest of it, after the imports.
Create(r) ==
  /\ up /\ r \in admitted
  /\ Ask(r)
  /\ status' = [status EXCEPT ![r] = "generating"]
  /\ admitted' = admitted \ {r}
  /\ UNCHANGED <<stale, sid, ledger, drafted, up, locked, rooms, autos, marks, freed, wiped>>

\* /api/practice/retry: the stored status stays as it is.
RetryRep(r) ==
  /\ up /\ r \in Reps
  /\ ReadsAs(r) = "failed"
  /\ ~ MarkerAlive(r)
  /\ SlotFree
  /\ Ask(r)
  /\ ledger' = ledger \cup {r}
  /\ UNCHANGED <<status, stale, sid, drafted, up, admitted, locked, rooms, autos, marks, freed, wiped>>

---------------------------------------------------------------------------
(* The child process.                                                      *)

At(p, phase) == kids[p].phase = phase
Become(p, phase) == kids' = [kids EXCEPT ![p].phase = phase]

\* The process exits; the app that spawned it, if it still runs, will hear.
ZombieFor(p, code) ==
  [kids EXCEPT ![p] = [phase |-> "exited", round |-> @.round, own |-> @.own, code |-> code]]
Ended(p, code) ==
  IF kids[p].own THEN
    [kids EXCEPT ![p] = [phase |-> "exited", round |-> @.round, own |-> TRUE, code |-> code]]
  ELSE [kids EXCEPT ![p] = NoKid]

ByChild == <<status, stale, sid, used, ledger, app, locked, rooms, told>>

\* rep-build drafts the blueprint, then generates.
Draft(p) ==
  /\ At(p, "drafting")
  /\ drafted' = drafted \cup {kids[p].round}
  /\ Become(p, "building")
  /\ UNCHANGED <<marker, flags, ByChild>>

\* It fails to: the child clears the marker and writes .failed itself.
DraftFails(p) ==
  /\ At(p, "drafting")
  /\ marker' = [marker EXCEPT ![kids[p].round] = 0]
  /\ flags' = [flags EXCEPT ![kids[p].round] = @ \cup {"failed"}]
  /\ Become(p, "failing")
  /\ UNCHANGED <<drafted, ByChild>>

\* VALIDATE_CMD: the agent runs the validator where it works, and that command
\* writes .validated when it passes.  Nothing takes the mark away again.
ValidatesItself(p) ==
  /\ At(p, "building")
  /\ marks < MaxMarks /\ Events < MaxEvents
  /\ "validated" \notin flags[kids[p].round]
  /\ flags' = [flags EXCEPT ![kids[p].round] = @ \cup {"validated"}]
  /\ marks' = marks + 1
  /\ UNCHANGED <<status, stale, sid, marker, used, ledger, drafted, kids, app, locked,
                 rooms, asked, autos, hasty, freed, wiped>>

\* generateInto: the agent, its repair pass and the validator are through (see
\* BuildGate), and the child clears its marker, before it writes .validated.
Rule(p) ==
  /\ At(p, "building")
  /\ marker' = [marker EXCEPT ![kids[p].round] = 0]
  /\ \E verdict \in {"finishing", "failing"} : Become(p, verdict)
  /\ UNCHANGED <<flags, drafted, ByChild>>

Validate(p) ==
  /\ At(p, "finishing")
  /\ flags' = [flags EXCEPT ![kids[p].round] = @ \cup {"validated"}]
  /\ Become(p, "archiving")
  /\ UNCHANGED <<marker, drafted, ByChild>>

Exit(p) ==
  /\ \/ At(p, "archiving") /\ kids' = Ended(p, "ok")
     \/ At(p, "failing") /\ kids' = Ended(p, "fail")
  /\ UNCHANGED <<marker, flags, drafted, ByChild>>

\* A signal, an exception, or exit 64 for a configuration that cannot build.
Die(p) ==
  /\ Alive(p)
  /\ \/ kids' = Ended(p, "fail")
     \/ At(p, "building") /\ kids' = Ended(p, "config")
  /\ UNCHANGED <<marker, flags, drafted, ByChild>>

---------------------------------------------------------------------------
(* The app, when a child of its own closes, and over orphans.              *)

\* autoRetryOnce's conditions, with the closed child's marker cleared.
RetryEveryTime(r, code) == code # "config" /\ LiveBuilds <= MaxBuilds
MayRetryOnce(r, code) ==
  /\ code # "config"
  /\ r \notin ledger
  /\ LiveBuilds <= MaxBuilds

\* The close handlers.  A rep whose draft failed has its .failed already.
Close(p) ==
  /\ up /\ At(p, "exited")
  /\ LET r == kids[p].round
         unsaid == /\ kids[p].code # "ok"
                   /\ "validated" \notin flags[r]
                   /\ r \in Reps => "failed" \notin flags[r]
     IN  IF unsaid /\ MayRetryOnce(r, kids[p].code)
         THEN /\ ledger' = ledger \cup {r}
              /\ Spawn(r, p)
              /\ autos' = [autos EXCEPT ![r] = @ + 1]
         ELSE /\ live' = live \ {r}
              /\ marker' = [marker EXCEPT ![r] = 0]
              /\ flags' = [flags EXCEPT ![r] = IF unsaid THEN @ \cup {"failed"} ELSE @]
              /\ kids' = [kids EXCEPT ![p] = NoKid]
              /\ UNCHANGED <<used, ledger, autos>>
  /\ UNCHANGED <<status, stale, sid, drafted, up, admitted, locked, rooms, asked, marks, hasty, freed, wiped>>

\* sweepOrphanedGenerations and sweepReps: rounds stored as generating that
\* this app has no child for.
Orphans == {r \in Rounds : status[r] = "generating" /\ r \notin live}
Finished(r) == flags[r] # {}
FailIfUnknown(r) == ~ Finished(r)
FailIfDead(r) == ~ Finished(r) /\ marker[r] # 0 /\ ~ MarkerAlive(r)
SweptAsFailed(r) == ~ Finished(r) /\ ~ MarkerAlive(r)
SweepOrphans ==
  /\ marker' = [r \in Rounds |->
       IF r \in Orphans /\ (Finished(r) \/ SweptAsFailed(r)) THEN 0 ELSE marker[r]]
  /\ flags' = [r \in Rounds |->
       IF r \in Orphans /\ SweptAsFailed(r) THEN {"failed"} ELSE flags[r]]
  /\ freed' = freed \cup {r \in Orphans : Finished(r) /\ MarkerAlive(r)}
  /\ UNCHANGED <<status, stale, sid, used, ledger, drafted, kids, admitted, locked, rooms,
                 asked, autos, marks, hasty, wiped>>

\* Every ten minutes.
Sweep ==
  /\ up
  /\ SweepOrphans
  /\ UNCHANGED <<up, live>>

\* The app stops: its memory goes, its detached children stay.
Stop ==
  /\ up
  /\ up' = FALSE
  /\ live' = {}
  /\ admitted' = {}
  /\ kids' = [p \in Pids |->
       IF At(p, "none") \/ At(p, "exited") THEN NoKid ELSE [kids[p] EXCEPT !.own = FALSE]]
  /\ UNCHANGED <<status, stale, sid, disk, locked, rooms, told>>

\* It starts, and sweeps once before it listens.
Start ==
  /\ ~ up
  /\ up' = TRUE
  /\ SweepOrphans
  /\ UNCHANGED live

---------------------------------------------------------------------------
(* Sessions on a round's directory.                                        *)

Occupied(r) == \E s \in Sids : rooms[s].state \in {"booting", "open"} /\ rooms[s].round = r

\* /api/launch and /api/practice/launch.
Launch(r, s) ==
  /\ up
  /\ IF r \in Plans THEN status[r] = "ready" ELSE ReadsAs(r) = "ready" /\ used[r] = 0
  /\ ~ Occupied(r)
  /\ Events < MaxEvents
  /\ rooms[s] = NoRoom /\ \A t \in 1..(s - 1) : rooms[t] # NoRoom
  /\ rooms' = [rooms EXCEPT ![s] = [state |-> "booting", round |-> r]]
  /\ UNCHANGED <<status, stale, sid, disk, kids, app, locked, told>>

\* onReady: markUsed.
Open(s) ==
  /\ rooms[s].state = "booting"
  /\ rooms' = [rooms EXCEPT ![s].state = "open"]
  /\ used' = [used EXCEPT ![rooms[s].round] = s]
  /\ UNCHANGED <<status, stale, sid, marker, flags, ledger, drafted, kids, app, locked, told>>

\* The round ends with a judged assessment, or without one.
EndRoom(s) ==
  /\ \/ rooms[s].state = "open" /\ rooms' = [rooms EXCEPT ![s].state = "graded"]
     \/ rooms[s].state \in {"booting", "open"} /\ rooms' = [rooms EXCEPT ![s].state = "dropped"]
  /\ UNCHANGED <<status, stale, sid, disk, kids, app, locked, told>>

---------------------------------------------------------------------------
ChildStep(p) ==
  \/ Draft(p)
  \/ DraftFails(p)
  \/ Rule(p)
  \/ Validate(p)
  \/ Exit(p)
  \/ Die(p)

Next ==
  \/ \E r \in Rounds :
       \/ Generate(r)
       \/ Retry(r)
       \/ Rebuild(r)
       \/ Skip(r)
       \/ Adapt(r)
       \/ Admit(r)
       \/ Create(r)
       \/ RetryRep(r)
       \/ \E s \in Sids : Launch(r, s)
  \/ \E p \in Pids :
       \/ ChildStep(p)
       \/ ValidatesItself(p)
       \/ Close(p)
  \/ Refresh
  \/ Sweep
  \/ Stop
  \/ Start
  \/ \E s \in Sids :
       \/ Open(s)
       \/ EndRoom(s)

\* Every model call a child makes has a timeout, a closed child is heard of,
\* the sweep's timer fires, and an app that is down is started again.
Fairness ==
  /\ \A p \in Pids : WF_vars(ChildStep(p)) /\ WF_vars(Close(p))
  /\ WF_vars(Sweep)
  /\ WF_vars(Start)

Spec == Init /\ [][Next]_vars
FairSpec == Spec /\ Fairness

---------------------------------------------------------------------------
(* Properties.                                                             *)

\* app.ts, /api/retry: "retrying then would spawn a second agent into the same
\* directory": no round ever has two agents, whatever was stopped, swept,
\* retried or rebuilt in between.  Two histories are excepted: a request to
\* build that fell between the end of an agent's work and the close of its
\* process, and an agent that had validated its own work when a sweep after a
\* restart took its round for finished.
OneAgentPerRound ==
  \A r \in Rounds \ (hasty \cup freed), p, q \in Pids : AtWork(p, r) /\ AtWork(q, r) => p = q

\* app.ts, sweepOrphanedGenerations: a round whose agent is still writing is
\* never marked failed, by a sweep after a restart or by the close of an
\* earlier child (with the same exceptions).
NoHealthyBuildFails ==
  \A r \in Rounds \ (hasty \cup freed), p \in Pids : AtWork(p, r) => "failed" \notin flags[r]

\* autoRetryOnce: "The .build.1.log ledger bounds this to ONE automatic attempt
\* per problem dir, ever -- stateless and restart-safe".
OneAutomaticRetry == \A r \in Rounds : autos[r] <= 1

\* What is stored as ready has a validated artifact in its directory, although
\* another process writes that directory and three requests wipe it.  Excepted
\* is a round wiped by a rebuild after it had been launched: a row keeps the
\* session of its lost artifact, reads as done by that session's verdict, and
\* as ready again when the next session opens on the empty directory.
ReadyIsValidated ==
  \A r \in Rounds \ wiped : status[r] = "ready" => "validated" \in flags[r]

\* Every build is decided: a round that reads as generating comes to read as
\* something else, whichever of the child and the app dies when ("a silent
\* stuck 'generating' row").
BuildsAreDecided ==
  \A r \in Rounds : ReadsAs(r) = "generating" ~> ReadsAs(r) # "generating"

\* generate.ts on the agent's own validation: "the post-exit validateProblem
\* stays the authoritative ruling": a round that was ruled against does not
\* read as ready.
RulingDecides ==
  \A p \in Pids : At(p, "failing") => ReadsAs(kids[p].round) # "ready"
=============================================================================
