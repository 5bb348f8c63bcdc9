------------------------------ MODULE Workspaces ------------------------------
(***************************************************************************)
(* The directory of a practice round from one run to the next              *)
(* (server/src/artifact.ts, retention.ts, pool.ts, snapshotWorkspace in    *)
(* workspace-view.ts, the practice-again route of app.ts and the session's *)
(* onReady in cli.ts).                                                     *)
(*                                                                         *)
(* A run edits the directory in place.  Before the next one the app puts   *)
(* the pristine tree back, from the archive made at validation or, for     *)
(* rounds older than archives, from the copy the last session took when it *)
(* started.  .used names the last session, .runs.jsonl all of them, and a  *)
(* tarball keeps what each run left behind.  The app, which resets and     *)
(* reaps, and the session, which takes its copy and marks the directory,   *)
(* are two processes and either may die between two writes.                *)
(***************************************************************************)
EXTENDS Naturals, FiniteSets

CONSTANTS
  MaxSessions,         \* bound on the sessions that run in the directory
  MaxWorkspaceFaults   \* bound on deaths, failed tars and archives that rot

ASSUME WorkspaceAssumption == MaxSessions \in Nat \ {0} /\ MaxWorkspaceFaults \in Nat

VARIABLES
  tree,        \* what the working tree holds: see Trees
  archive,     \* what the pristine archive holds
  snapshot,    \* what .session-snapshot holds
  usedBy,      \* the session .used names, 0 for none
  aged,        \* .used is older than the retention period
  runs,        \* sessions with a row in .runs.jsonl
  ragged,      \* .runs.jsonl ends in half a line
  saved,       \* what each session's tarball in <dir>.runs holds
  reset,       \* how far the app is with a repeat
  session,     \* the session in the directory and how far it is
  lastSession, \* sessions started so far
  assessed,    \* sessions judged and carded
  ran,         \* sessions that marked the directory
  edited,      \* sessions whose candidate changed the tree
  uninsured,   \* sessions whose tarball was not written whole
  cutShort,    \* a session died while it took its copy, or the app as it dropped one
  slimmed,     \* runs whose tree retention removed
  slimUnder,   \* retention slimmed the tree a new session was to start on
  workspaceFaults

disk == <<tree, archive, snapshot, usedBy, aged, runs, ragged, saved>>
told == <<ran, edited, uninsured, cutShort, slimmed, slimUnder>>
workspaceVars ==
  <<disk, reset, session, lastSession, assessed, told, workspaceFaults>>

Sessions == 1..MaxSessions

\* What the build left and what it archived count as the same tree here:
\* BuildGate says when they are.
\* A tree is as generated, has lost some or all of its files, or carries the
\* work of a session.
AsIs(is) == [is |-> is, by |-> 0]
Worked(s) == [is |-> "worked", by |-> s]
Pristine == AsIs("pristine")
Partial == AsIs("partial")
Empty == AsIs("empty")
None == AsIs("none")
Unreadable == AsIs("unreadable")
Trees == {Pristine, Partial, Empty} \cup {Worked(s) : s \in Sessions}
Copies == Trees \cup {None, Unreadable}

Idle == [stage |-> "idle"]
Nobody == [stage |-> "none"]
Boots == {"starting", "copying", "booting", "banked", "marked"}

WorkspaceTypeOK ==
  /\ tree \in Trees
  /\ archive \in Copies /\ snapshot \in Copies
  /\ usedBy \in 0..MaxSessions
  /\ {aged, ragged, cutShort, slimUnder} \subseteq BOOLEAN
  /\ runs \subseteq Sessions
  /\ saved \in [Sessions -> Copies]
  /\ reset \in {Idle} \cup
       [stage : {"preserving", "wiping", "filling", "healing", "spawning"},
        from : {"pristine", "snapshot"}]
  /\ session \in {Nobody} \cup [stage : Boots \cup {"up"}, sid : Sessions]
  /\ lastSession \in 0..MaxSessions
  /\ {assessed, ran, edited, uninsured, slimmed} \subseteq SUBSET Sessions
  /\ workspaceFaults \in 0..MaxWorkspaceFaults

\* A validated round, whose archive may have failed; or one that ran once
\* before archives and the ledger of runs existed.
WorkspaceInit ==
  /\ aged = FALSE
  /\ runs = {} /\ ragged = FALSE
  /\ saved = [s \in Sessions |-> None]
  /\ reset = Idle /\ session = Nobody
  /\ uninsured = {} /\ cutShort = FALSE /\ slimmed = {} /\ slimUnder = FALSE
  /\ workspaceFaults = 0
  /\ \/ /\ tree = Pristine /\ archive \in {None, Pristine} /\ snapshot = None
        /\ usedBy = 0 /\ lastSession = 0
        /\ assessed = {} /\ ran = {} /\ edited = {}
     \/ /\ tree = Worked(1) /\ archive = None /\ snapshot = Pristine
        /\ usedBy = 1 /\ lastSession = 1
        /\ assessed = {1} /\ ran = {1} /\ edited = {1}

WorkspaceFault ==
  /\ workspaceFaults < MaxWorkspaceFaults
  /\ workspaceFaults' = workspaceFaults + 1

---------------------------------------------------------------------------
(* Starting a run.                                                         *)

SessionStarts ==
  /\ lastSession < MaxSessions
  /\ lastSession' = lastSession + 1
  /\ session' = [stage |-> "starting", sid |-> lastSession + 1]

\* POST /api/practice/launch: launchVerdict refuses a directory that was used.
FirstLaunch ==
  /\ reset = Idle /\ session = Nobody
  /\ usedBy = 0
  /\ SessionStarts
  /\ UNCHANGED <<disk, reset, assessed, told, workspaceFaults>>

\* `cli.ts validate` on the directory: it never archives a used one.
ValidatesAgain ==
  /\ reset = Idle
  /\ usedBy = 0 /\ archive = None /\ tree # Empty
  /\ archive' = tree
  /\ UNCHANGED <<tree, snapshot, usedBy, aged, runs, ragged, saved, reset, session,
                 lastSession, assessed, told, workspaceFaults>>

hasUsableSnapshot == snapshot \notin {None, Empty}

\* POST /api/practice/repeat: repeatVerdict, then, inside the launch chain,
\* the checks both restores make before they destroy anything.
AsksToRepeat ==
  /\ reset = Idle /\ session = Nobody
  /\ lastSession < MaxSessions
  /\ usedBy # 0
  /\ \/ archive \notin {None, Unreadable} /\ reset' = [stage |-> "preserving", from |-> "pristine"]
     \/ archive = None /\ hasUsableSnapshot /\ reset' = [stage |-> "preserving", from |-> "snapshot"]
  /\ UNCHANGED <<disk, session, lastSession, assessed, told, workspaceFaults>>

KeptAgain(s) == [saved EXCEPT ![s] = tree]

\* preserveRunTree never writes a tarball twice.
Kept(s) == IF saved[s] = None THEN [saved EXCEPT ![s] = tree] ELSE saved

\* It is insurance: a tarball that fails stops nothing.  It is written in place,
\* so a failed one may be there, and is then taken for the real one.
TarFails ==
  /\ saved[usedBy] = None
  /\ \E t \in {None, Partial} : saved' = [saved EXCEPT ![usedBy] = t]
  /\ uninsured' = uninsured \cup {usedBy}

Preserves ==
  /\ reset.stage = "preserving"
  /\ reset' = [reset EXCEPT !.stage = "wiping"]
  /\ \/ /\ saved' = Kept(usedBy)
        /\ UNCHANGED <<uninsured, workspaceFaults>>
     \/ TarFails /\ WorkspaceFault
  /\ UNCHANGED <<tree, archive, snapshot, usedBy, aged, runs, ragged, session, lastSession,
                 assessed, ran, edited, cutShort, slimmed, slimUnder>>

\* The wipe before an archive drops the last session's copy, the other keeps it.
Wipes ==
  /\ reset.stage = "wiping"
  /\ reset' = [reset EXCEPT !.stage = "filling"]
  /\ tree' = Empty
  /\ snapshot' = IF reset.from = "pristine" THEN None ELSE snapshot
  /\ UNCHANGED <<archive, usedBy, aged, runs, ragged, saved, session, lastSession, assessed,
                 told, workspaceFaults>>

Fills ==
  /\ reset.stage = "filling"
  /\ tree' = IF reset.from = "pristine" THEN archive ELSE snapshot
  /\ reset' = [reset EXCEPT !.stage = IF reset.from = "pristine" THEN "spawning" ELSE "healing"]
  /\ UNCHANGED <<archive, snapshot, usedBy, aged, runs, ragged, saved, session, lastSession,
                 assessed, told, workspaceFaults>>

\* restoreFromSnapshot drops the copy and makes the archive that was missing;
\* a tar that fails is not noticed.
Heals ==
  /\ reset.stage = "healing"
  /\ reset' = [reset EXCEPT !.stage = "spawning"]
  /\ snapshot' = None
  /\ \/ archive' = tree /\ UNCHANGED workspaceFaults
     \/ WorkspaceFault /\ UNCHANGED archive
  /\ UNCHANGED <<tree, usedBy, aged, runs, ragged, saved, session, lastSession, assessed, told>>

Spawns ==
  /\ reset.stage = "spawning"
  /\ reset' = Idle
  /\ SessionStarts
  /\ UNCHANGED <<disk, assessed, told, workspaceFaults>>

\* The app dies inside the reset, or the extraction fails: files half removed,
\* half written or half dropped.  Nothing is spawned.
AppDies ==
  /\ reset # Idle
  /\ WorkspaceFault
  /\ reset' = Idle
  /\ tree' \in CASE reset.stage = "wiping" -> {tree, Partial}
                 [] reset.stage = "filling" -> {Empty, Partial}
                 [] OTHER -> {tree}
  /\ snapshot' \in IF reset.stage = "healing" THEN {snapshot, Partial, None} ELSE {snapshot}
  /\ cutShort' = (cutShort \/ (snapshot' # snapshot /\ snapshot' = Partial))
  /\ \/ UNCHANGED <<saved, uninsured>>
     \/ reset.stage = "preserving" /\ TarFails
  /\ UNCHANGED <<archive, usedBy, aged, runs, ragged, session, lastSession, assessed,
                 ran, edited, slimmed, slimUnder>>

---------------------------------------------------------------------------
(* The session.                                                            *)

Goes(stage) == session' = [session EXCEPT !.stage = stage]

\* snapshotWorkspace removes the last copy, then takes a new one.
CopyStarts ==
  /\ session.stage = "starting"
  /\ Goes("copying")
  /\ snapshot' = Empty
  /\ UNCHANGED <<tree, archive, usedBy, aged, runs, ragged, saved, reset, lastSession,
                 assessed, told, workspaceFaults>>

CopyEnds ==
  /\ session.stage = "copying"
  /\ Goes("booting")
  /\ snapshot' = tree
  /\ UNCHANGED <<tree, archive, usedBy, aged, runs, ragged, saved, reset, lastSession,
                 assessed, told, workspaceFaults>>

\* appendRun gives half a line its newline first, so the new row is readable.
RunRows(s) == runs \cup {s}

\* onReady, first: backfillRunFromUsed
\* As if any marker named a session.
OutgoingUnchecked == usedBy \notin runs

OutgoingRow == usedBy # 0 /\ usedBy \notin runs

Banks ==
  /\ session.stage = "booting"
  /\ Goes("banked")
  /\ IF OutgoingRow
     THEN runs' = RunRows(usedBy) /\ ragged' = FALSE
     ELSE UNCHANGED <<runs, ragged>>
  /\ UNCHANGED <<tree, archive, snapshot, usedBy, aged, saved, reset, lastSession, assessed,
                 told, workspaceFaults>>

\* second: markUsed
Marks ==
  /\ session.stage = "banked"
  /\ Goes("marked")
  /\ usedBy' = session.sid
  /\ aged' = FALSE
  /\ ran' = ran \cup {session.sid}
  /\ UNCHANGED <<tree, archive, snapshot, runs, ragged, saved, reset, lastSession, assessed,
                 edited, uninsured, cutShort, slimmed, slimUnder, workspaceFaults>>

\* third: appendRun
Enters ==
  /\ session.stage = "marked"
  /\ Goes("up")
  /\ runs' = RunRows(session.sid)
  /\ ragged' = FALSE
  /\ UNCHANGED <<tree, archive, snapshot, usedBy, aged, saved, reset, lastSession, assessed,
                 told, workspaceFaults>>

Edits ==
  /\ session.stage = "up"
  /\ tree # Worked(session.sid)
  /\ tree' = Worked(session.sid)
  /\ edited' = edited \cup {session.sid}
  /\ UNCHANGED <<archive, snapshot, usedBy, aged, runs, ragged, saved, reset, session,
                 lastSession, assessed, ran, uninsured, cutShort, slimmed, slimUnder,
                 workspaceFaults>>

SessionEnds ==
  /\ session.stage = "up"
  /\ session' = Nobody
  /\ \E s \in {{}, {session.sid}} : assessed' = assessed \cup s
  /\ UNCHANGED <<disk, reset, lastSession, told, workspaceFaults>>

\* It dies: in its copy, or with a row half written.
SessionDies ==
  /\ session # Nobody
  /\ WorkspaceFault
  /\ session' = Nobody
  /\ snapshot' \in IF session.stage = "copying" THEN {Empty, Partial} ELSE {snapshot}
  /\ ragged' \in IF session.stage \in {"booting", "marked"} THEN {ragged, TRUE} ELSE {ragged}
  /\ cutShort' = (cutShort \/ snapshot' = Partial)
  /\ UNCHANGED <<tree, archive, usedBy, aged, runs, saved, reset, lastSession, assessed,
                 ran, edited, uninsured, slimmed, slimUnder>>

---------------------------------------------------------------------------
(* Time and retention.                                                     *)

Ages ==
  /\ usedBy # 0 /\ ~ aged
  /\ aged' = TRUE
  /\ UNCHANGED <<tree, archive, snapshot, usedBy, runs, ragged, saved, reset, session,
                 lastSession, assessed, told, workspaceFaults>>

\* planReaping and applyReaping, from the app's timer: never inside a reset,
\* which does not yield.  They do not ask whether a session is live.
Reaped(s) == s # 0 /\ s \in assessed

Slims ==
  /\ reset = Idle
  /\ Reaped(usedBy) /\ aged
  /\ tree # Empty \/ snapshot # None
  /\ tree' = Empty
  /\ snapshot' = None
  /\ slimmed' = IF tree.is = "worked" THEN slimmed \cup {tree.by} ELSE slimmed
  /\ slimUnder' = (slimUnder \/ session # Nobody)
  /\ UNCHANGED <<archive, usedBy, aged, runs, ragged, saved, reset, session, lastSession,
                 assessed, ran, edited, uninsured, cutShort, workspaceFaults>>

ArchiveRots ==
  /\ archive \notin {None, Unreadable} /\ reset = Idle
  /\ WorkspaceFault
  /\ archive' = Unreadable
  /\ UNCHANGED <<tree, snapshot, usedBy, aged, runs, ragged, saved, reset, session,
                 lastSession, assessed, told>>

WorkspaceNext ==
  \/ FirstLaunch \/ ValidatesAgain \/ AsksToRepeat
  \/ Preserves \/ Wipes \/ Fills \/ Heals \/ Spawns \/ AppDies
  \/ CopyStarts \/ CopyEnds \/ Banks \/ Marks \/ Enters \/ Edits
  \/ SessionEnds \/ SessionDies
  \/ Ages \/ Slims \/ ArchiveRots

---------------------------------------------------------------------------
(* What the directory keeps.                                               *)

\* dirRanSession, which rejudging asks.
dirRanSession(s) == usedBy = s \/ s \in runs

\* Every session that marked the directory is found from it afterwards,
\* although .used is overwritten by the next one, the row that repeats it is
\* written second, and a session may die before or inside either write.
EverySessionIsFound == \A s \in ran : dirRanSession(s)

\* What a candidate wrote is in the tree until a tarball holds it, whatever
\* the app died of between the tarball, the wipe and the extraction.  It may
\* be gone only when its tarball was not written whole (which is not fatal,
\* and never repaired), or by retention, which removes the tree of a judged round alone.
WorkIsKept ==
  \A s \in edited :
    \/ tree = Worked(s) \/ saved[s] = Worked(s)
    \/ s \in uninsured
    \/ s \in slimmed /\ s \in assessed

\* A session boots on the tree as it was generated, however an earlier reset
\* was cut short.  There are two exceptions: a copy left half made counts as
\* usable, and retention may slim a round that was just reset, because .used
\* still names the old session until the new one is up.
StartsPristine ==
  session.stage \in Boots => tree = Pristine \/ cutShort \/ slimUnder

\* What the directory of a round keeps from one run to the next.
RepeatsAreSafe == EverySessionIsFound /\ WorkIsKept /\ StartsPristine
=============================================================================
