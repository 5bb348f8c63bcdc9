--------------------------- MODULE SessionRegistry ---------------------------
(***************************************************************************)
(* Many rounds on one machine (IP_MULTI_SESSION): how the app launches     *)
(* session processes into a fixed number of slots and keeps, in            *)
(* sessions-live.json, the registry of them                                *)
(* (server/src/session-registry.ts, session-sweep.ts and, in app.ts,       *)
(* reconcileRegistryNow, multiLaunch, session-live, session-kill and the   *)
(* ten-minute sweep).                                                      *)
(*                                                                         *)
(* The app is one Node process: each request or sweep is a task, and a     *)
(* step of it is the code between two awaits.  A task loads the registry,  *)
(* awaits one probe per entry, and goes on with the registry it loaded.    *)
(* Session processes boot, listen, end, crash and exit on their own.       *)
(***************************************************************************)
EXTENDS Naturals, FiniteSetsExt

CONSTANTS
  Callers,      \* tasks that carry requests: launches, kills and looks
  Keepers,      \* tasks that carry sweeps; a task may be both
  Users,
  Admins,       \* users exempt from the per-user cap
  Dirs,         \* problem directories
  MaxSessions,  \* bound on sessions ever launched
  MaxSlots,     \* maxConcurrentSessions: also the number of port pairs
  MaxPerUser,   \* maxSessionsPerUser
  MaxStray      \* bound on sessions past the hard limit, and stale pids, at one time

ASSUME AdminsAssumption == Admins \subseteq Users
ASSUME CapsAssumption ==
  MaxSessions \in Nat /\ MaxStray \in Nat /\ MaxSlots \in Nat \ {0} /\ MaxPerUser \in Nat \ {0}

VARIABLES
  entries,     \* the registry file
  state,       \* each session process
  home,        \* the user, slot and directory of each while it runs
  containers,  \* sessions whose IDE container exists
  ghosts,      \* dead sessions whose pid still looks alive to pidAlive
  old,         \* those that run since more than SESSION_HARD_TTL_MS ago
  up,          \* the app runs
  task,        \* what each task is doing
  crossed,     \* history: those that run since a launch another task overlapped
  harmed       \* history: sessions at work, not exposed, that the app broke

vars == <<entries, state, home, containers, ghosts, old, up, task, crossed, harmed>>

Tasks == Callers \cup Keepers  \* what the app can have under way at once
Sids == 1..MaxSessions
Slots == 1..MaxSlots

Place == [user : Users, slot : Slots, dir : Dirs]
NoPlace == [slot |-> 0]
Entry == [sid : Sids, user : Users, slot : Slots, dir : Dirs, ended : BOOLEAN]
Request ==
  [op : {"look", "sweep"}] \cup [op : {"kill"}, user : Users]
    \cup [op : {"launch"}, user : Users, dir : Dirs]
Answer == {"unasked", "unreachable", "live", "ended"}
Idle == [at |-> "idle"]

Named(snap) == {e.sid : e \in snap}

Running(s) == state[s] \in {"booting", "serving", "ended"}
AtWork(s) == state[s] \in {"booting", "serving"}

Names(e, s) ==
  e.sid = s /\ [user |-> e.user, slot |-> e.slot, dir |-> e.dir] = home[s]
Listed(s) == \E e \in entries : Names(e, s)

TypeOK ==
  /\ entries \subseteq Entry
  /\ state \in [Sids -> {"none", "booting", "serving", "ended", "gone"}]
  /\ home \in [Sids -> Place \cup {NoPlace}]
  /\ \A s \in Sids : home[s] = NoPlace <=> ~ Running(s)
  /\ containers \subseteq Sids
  /\ ghosts \subseteq {s \in Sids : state[s] = "gone"}
  /\ old \subseteq {s \in Sids : Running(s)}
  /\ up \in BOOLEAN
  /\ \A t \in Tasks :
       \/ task[t] = Idle
       \/ /\ up
          /\ task[t].at \in {"probing", "launching", "stamping"}
          /\ task[t].request \in Request
          /\ task[t].snap \subseteq Entry
          /\ task[t].seen \in [Named(task[t].snap) -> Answer]
  /\ crossed \subseteq {s \in Sids : Running(s)}
  /\ harmed \subseteq Sids

ListeningOn(n) == {s \in Sids : state[s] \in {"serving", "ended"} /\ home[s].slot = n}

Become(s, to) == state' = [state EXCEPT ![s] = to]

\* process.exit, of whole sets of sessions.
Vanish(set) ==
  /\ state' = [s \in Sids |-> IF s \in set THEN "gone" ELSE state[s]]
  /\ home' = [s \in Sids |-> IF s \in set THEN NoPlace ELSE home[s]]
  /\ old' = old \ set
  /\ crossed' = crossed \ set

\* What no promise is made to: a session whose launch another task's probes
\* overlapped, or that found a row already lost, and one older than the limit.
Exposed == crossed \cup old
Broken(set) == harmed' = harmed \cup {s \in set : AtWork(s) /\ s \notin Exposed}

---------------------------------------------------------------------------
(* Reconciling what was loaded with what the probes said.                  *)

\* pidAlive(e.pid), and the entry younger than SESSION_HARD_TTL_MS.
PidAlive(s) == (Running(s) /\ s \notin old) \/ s \in ghosts

Stamped(e, seen) == [e EXCEPT !.ended = @ \/ seen[e.sid] = "ended"]
DropUnreachable(snap, seen) ==
  {Stamped(e, seen) : e \in {x \in snap : seen[x.sid] \in {"live", "ended"}}}
NeverDrop(snap, seen) == {Stamped(e, seen) : e \in snap}
ReconcileEntries(snap, seen) ==
  {Stamped(e, seen) :
     e \in {x \in snap : seen[x.sid] \in {"live", "ended"} \/ PidAlive(x.sid)}}

\* saveRegistry, when something changed: the file becomes the loaded entries
\* less the dropped ones, whatever has been written to it since.
Persist(snap, kept) == entries' = IF kept # snap THEN kept ELSE entries

---------------------------------------------------------------------------
Init ==
  /\ entries = {}
  /\ state = [s \in Sids |-> "none"]
  /\ home = [s \in Sids |-> NoPlace]
  /\ containers = {}
  /\ ghosts = {}
  /\ old = {}
  /\ up = TRUE
  /\ task = [t \in Tasks |-> Idle]
  /\ crossed = {}
  /\ harmed = {}

---------------------------------------------------------------------------
(* Tasks of the app.                                                       *)

\* loadRegistry, and a probe sent to each entry's port.
Load(t, request) ==
  /\ up
  /\ task[t] = Idle
  /\ t \in IF request.op = "sweep" THEN Keepers ELSE Callers
  /\ task' = [task EXCEPT ![t] =
       [at |-> "probing", request |-> request, snap |-> entries,
        seen |-> [s \in Named(entries) |-> "unasked"]]]
  /\ UNCHANGED <<entries, state, home, containers, ghosts, old, up, crossed, harmed>>

Loaded(t) == IF task[t].at = "probing" THEN task[t].snap ELSE {}

\* A probe is answered by the session that listens on the entry's port, and
\* counts only if that is the entry's own; it may also time out.
Probe(t, e) ==
  /\ e \in Loaded(t)
  /\ task[t].seen[e.sid] = "unasked"
  /\ \E answer \in
       {"unreachable"}
         \cup (IF state[e.sid] = "serving" THEN {"live"} ELSE {})
         \cup (IF state[e.sid] = "ended" THEN {"ended"} ELSE {}) :
       task' = [task EXCEPT ![t].seen[e.sid] = answer]
  /\ UNCHANGED <<entries, state, home, containers, ghosts, old, up, crossed, harmed>>

\* Every probe of a task for op is back.
Probed(t, op) ==
  /\ task[t].at = "probing"
  /\ task[t].request.op = op
  /\ \A s \in DOMAIN task[t].seen : task[t].seen[s] # "unasked"

Outcome(t) == ReconcileEntries(task[t].snap, task[t].seen)
Done(t) == task' = [task EXCEPT ![t] = Idle]

\* /api/session-live: a reconcile and no more.
Look(t) ==
  /\ Probed(t, "look")
  /\ Persist(task[t].snap, Outcome(t))
  /\ Done(t)
  /\ UNCHANGED <<state, home, containers, ghosts, old, up, crossed, harmed>>

\* multiLaunch's reconcile; the rest waits for the launch chain.
Reconcile(t) ==
  /\ Probed(t, "launch")
  /\ Persist(task[t].snap, Outcome(t))
  /\ task' = [task EXCEPT ![t] =
       [at |-> "launching", request |-> @.request, snap |-> {}, seen |-> <<>>]]
  /\ UNCHANGED <<state, home, containers, ghosts, old, up, crossed, harmed>>

\* launchVerdict2
MayLaunch(u, d, repeat) ==
  LET live == {e \in entries : ~ e.ended}
  IN  /\ ~ \E e \in entries : e.dir = d /\ (~ repeat \/ ~ e.ended)
      /\ u \notin Admins => Cardinality({e \in live : e.user = u}) < MaxPerUser
      /\ Cardinality(live) < MaxSlots

\* allocateSlot: the lowest port pair no entry holds, those of rounds that
\* have ended but still serve their card included.
FreeSlotsFromZero == (0..MaxSlots) \ {e.slot : e \in entries}
FreeOfLive == Slots \ {e.slot : e \in {x \in entries : ~ x.ended}}
FreeSlots == Slots \ {e.slot : e \in entries}

\* A registry loaded before the launch may yet be written or swept by, or has
\* already cost another running session its row.
Overlapped(t) ==
  \/ \E u \in Tasks \ {t} : task[u].at = "probing"
  \/ \E r \in Sids : Running(r) /\ ~ Listed(r)

\* The serialized block: load, verdict, slot, spawn, append, save; for a first
\* round on the directory or for a repeat of one.
Launch(t) ==
  /\ task[t].at = "launching"
  /\ \E repeat \in BOOLEAN :
     LET u == task[t].request.user
         d == task[t].request.dir
         fresh == {s \in Sids : state[s] = "none"}
     IN  IF MayLaunch(u, d, repeat) /\ FreeSlots # {} /\ fresh # {}
         THEN LET s == Min(fresh)
                  n == Min(FreeSlots)
              IN  /\ state' = [state EXCEPT ![s] = "booting"]
                  /\ home' = [home EXCEPT ![s] = [user |-> u, slot |-> n, dir |-> d]]
                  /\ entries' = entries \cup
                       {[sid |-> s, user |-> u, slot |-> n, dir |-> d, ended |-> FALSE]}
                  /\ crossed' = IF Overlapped(t) THEN crossed \cup {s} ELSE crossed
         ELSE UNCHANGED <<entries, state, home, crossed>>
  /\ Done(t)
  /\ UNCHANGED <<containers, ghosts, old, up, harmed>>

\* /api/session-kill: reconcile, then /api/abandon to the port of the user's
\* live entry, or of any entry an admin names; whoever listens there discards its round and exits.
Kill(t) ==
  /\ Probed(t, "kill")
  /\ Persist(task[t].snap, Outcome(t))
  /\ LET u == task[t].request.user
         mine == {e \in Outcome(t) : u \in Admins \/ (e.user = u /\ ~ e.ended)}
     IN  \/ /\ mine = {}
            /\ Done(t)
            /\ UNCHANGED <<state, home, containers, old, crossed, harmed>>
         \/ \E e \in mine :
              /\ IF ListeningOn(e.slot) = {}
                 THEN Done(t)
                 ELSE task' = [task EXCEPT ![t].at = "stamping", ![t].snap = {e},
                                           ![t].seen = [s \in {e.sid} |-> "live"]]
              /\ Vanish(ListeningOn(e.slot))
              /\ containers' = containers \ ListeningOn(e.slot)
              /\ Broken(ListeningOn(e.slot) \ {e.sid})
  /\ UNCHANGED <<ghosts, up>>

\* It answered: the registry is loaded again and the entry stamped.
StampKilled(t) ==
  /\ task[t].at = "stamping"
  /\ entries' = {IF e.sid \in Named(task[t].snap) THEN [e EXCEPT !.ended = TRUE] ELSE e :
                   e \in entries}
  /\ Done(t)
  /\ UNCHANGED <<state, home, containers, ghosts, old, up, crossed, harmed>>

\* The sweep: persist, docker rm -f for the dropped and for containers the
\* loaded registry does not name, and /api/shutdown to the ports of entries
\* stamped more than ENDED_LINGER_MS ago.
SweepByAge(t) ==
  /\ Probed(t, "sweep")
  /\ Persist(task[t].snap, Outcome(t))
  /\ \E lingered \in SUBSET Outcome(t) :
       LET dropped == Named(task[t].snap) \ Named(Outcome(t))
           orphans == containers \ Named(task[t].snap)
           shut == UNION {ListeningOn(e.slot) : e \in lingered}
       IN  /\ containers' = containers \ (dropped \cup orphans \cup shut)
           /\ Vanish(shut)
           /\ Broken((containers \cap (dropped \cup orphans)) \cup shut)
  /\ Done(t)
  /\ UNCHANGED <<ghosts, up>>
Sweep(t) ==
  /\ Probed(t, "sweep")
  /\ Persist(task[t].snap, Outcome(t))
  /\ \E lingered \in SUBSET {e \in Outcome(t) : e.ended} :
       LET dropped == Named(task[t].snap) \ Named(Outcome(t))
           orphans == containers \ Named(task[t].snap)
           shut == UNION {ListeningOn(e.slot) : e \in lingered}
       IN  /\ containers' = containers \ (dropped \cup orphans \cup shut)
           /\ Vanish(shut)
           /\ Broken((containers \cap (dropped \cup orphans)) \cup shut)
  /\ Done(t)
  /\ UNCHANGED <<ghosts, up>>

\* The app stops, in mid-task or not: what it was doing is forgotten, the file
\* and the detached sessions are not; and it starts again.
Stop ==
  /\ up
  /\ up' = FALSE
  /\ task' = [t \in Tasks |-> Idle]
  /\ UNCHANGED <<entries, state, home, containers, ghosts, old, crossed, harmed>>

Restart ==
  /\ ~ up
  /\ up' = TRUE
  /\ UNCHANGED <<entries, state, home, containers, ghosts, old, task, crossed, harmed>>

---------------------------------------------------------------------------
(* Session processes.                                                      *)

\* docker run, after assertPortFree.
StartContainer(s) ==
  /\ state[s] = "booting"
  /\ s \notin containers
  /\ ListeningOn(home[s].slot) = {}
  /\ containers' = containers \cup {s}
  /\ UNCHANGED <<entries, state, home, ghosts, old, up, task, crossed, harmed>>

Listen(s) ==
  /\ state[s] = "booting"
  /\ s \in containers
  /\ ListeningOn(home[s].slot) = {}
  /\ Become(s, "serving")
  /\ UNCHANGED <<entries, home, containers, ghosts, old, up, task, crossed, harmed>>

\* The round ends; the process stays to grade it and to serve the card.
End(s) ==
  /\ state[s] = "serving"
  /\ Become(s, "ended")
  /\ UNCHANGED <<entries, home, containers, ghosts, old, up, task, crossed, harmed>>

\* teardownContainer, once it is graded.
TearDown(s) ==
  /\ state[s] = "ended"
  /\ s \in containers
  /\ containers' = containers \ {s}
  /\ UNCHANGED <<entries, state, home, ghosts, old, up, task, crossed, harmed>>

\* The session's own reaper: discarded, or ended and graded; then process.exit.
Reap(s) ==
  /\ state[s] \in {"serving", "ended"}
  /\ Vanish({s})
  /\ containers' = containers \ {s}
  /\ UNCHANGED <<entries, ghosts, up, task, harmed>>

\* The process dies: a failed boot, a port in use, a crash.  Its container
\* stays, and its pid may come to name another process.
Crash(s) ==
  /\ Running(s)
  /\ Vanish({s})
  /\ \/ UNCHANGED ghosts
     \/ /\ Cardinality(ghosts \cup (old \ {s})) < MaxStray
        /\ ghosts' = ghosts \cup ({s} \ old)
  /\ UNCHANGED <<entries, containers, up, task, harmed>>

\* That other process exits, or the entry outlives the hard limit.
GhostFades(s) ==
  /\ s \in ghosts
  /\ ghosts' = ghosts \ {s}
  /\ UNCHANGED <<entries, state, home, containers, old, up, task, crossed, harmed>>

\* Three hours pass since its launch.  A session that runs is never kept from
\* getting that old: its own limit, IP_SESSION_MAX_MS, is as long, counts from
\* a later moment, is looked at once a minute, and leaves time to grade.
Ages(s) ==
  /\ Running(s)
  /\ Cardinality(old \cup ghosts) < MaxStray
  /\ old' = old \cup {s}
  /\ UNCHANGED <<entries, state, home, containers, ghosts, up, task, crossed, harmed>>

---------------------------------------------------------------------------
TaskStep(t) ==
  \/ \E e \in Loaded(t) : Probe(t, e)
  \/ Look(t)
  \/ Reconcile(t)
  \/ Launch(t)
  \/ Kill(t)
  \/ StampKilled(t)
  \/ Sweep(t)

Next ==
  \/ \E t \in Tasks :
       \/ \E request \in Request : Load(t, request)
       \/ TaskStep(t)
  \/ Stop
  \/ Restart
  \/ \E s \in Sids :
       \/ StartContainer(s)
       \/ Listen(s)
       \/ End(s)
       \/ TearDown(s)
       \/ Reap(s)
       \/ Crash(s)
       \/ GhostFades(s)
       \/ Ages(s)

\* A task under way goes on (a probe times out after a second), sweeps keep
\* coming whatever else is asked of the app (setInterval), and neither another
\* process nor the hard limit keeps an entry for ever.
Fairness ==
  /\ \A t \in Tasks : WF_vars(TaskStep(t))
  /\ \A t \in Keepers : SF_vars(Load(t, [op |-> "sweep"]))
  /\ \A s \in Sids : WF_vars(GhostFades(s))

Spec == Init /\ [][Next]_vars
FairSpec == Spec /\ Fairness

---------------------------------------------------------------------------
(* Properties.                                                             *)

\* However requests and sweeps overlap, a session that runs is in the registry
\* as itself, which is what routes its candidate to it, counts it against the
\* caps and holds its slot: only an exposed one loses its row.
RoomsAreListed == \A s \in Sids \ Exposed : Running(s) => Listed(s)

\* No session has the pair of ports of one that is not exposed, and no two at
\* work, neither exposed, have the same problem directory mounted.
RoomsAreApart ==
  \A s \in Sids \ Exposed, r \in Sids : s # r =>
    /\ Running(s) /\ Running(r) => home[s].slot # home[r].slot
    /\ AtWork(s) /\ AtWork(r) /\ r \notin Exposed => home[s].dir # home[r].dir

\* No sweep removes the container of, or shuts down, a session that is booting
\* or in its round, and no kill ends one in place of the one it names, unless
\* that session is exposed (reconcileEntries' "keep, never rm a healthy boot").
HealthyRoomsAreSpared == harmed = {}

\* Sessions that have gone, however they went, give their slots back and leave
\* no container behind: once the app stays up, again and again nothing is held
\* for any of them (reconcileEntries' drop, the sweep's rm-container and
\* orphan-container actions).
GoneRoomsAreFreed ==
  <>[]up =>
  []<>(\A s \in Sids :
         state[s] = "gone" => s \notin containers /\ s \notin Named(entries))

\* app.ts and session-sweep.ts: "the launch path appends the entry before
\* spawning, so a just-born container always has its entry": every session that
\* runs and is not past the hard limit is in the registry.
EveryRoomIsListed == \A s \in Sids \ old : Running(s) => Listed(s)
=============================================================================
