-------------------------------- MODULE Copies --------------------------------
(***************************************************************************)
(* The copies of what is on disk: rows in Postgres (server/src/db.ts,      *)
(* sweepSessionsToDb in app.ts) and archives in a bucket (backup.ts).      *)
(*                                                                         *)
(* The app sweeps the directory of cards now and then.  A card whose mtime *)
(* is past a watermark kept in memory becomes a row of a request that      *)
(* nobody waits for.  Meanwhile session processes and rejudge write cards, *)
(* and each write leaves a file cut short for a while.                     *)
(*                                                                         *)
(* A backup stamps an archive, uploads it, lists the bucket and deletes    *)
(* what exceeds the number to keep.  A timer and an operator may start it  *)
(* at one time.  The two copies share nothing, and run apart here.         *)
(***************************************************************************)
EXTENDS Naturals, FiniteSets

CONSTANTS
  Cards,       \* sids with a card, in the order the cards are first written
  MaxWrites,   \* bound on the clock at which a write begins
  MaxSwept,    \* bound on sweeps
  MaxLosses,   \* bound on requests that fail and restarts of the app
  Backups,     \* the times archives are stamped with
  Keep         \* archives to keep

ASSUME CardsAssumption == Cards \subseteq Nat
ASSUME BackupsAssumption == Backups \subseteq Nat
ASSUME KeepAssumption == Keep \in Nat \ {0}
ASSUME MirrorBoundsAssumption == MaxSwept \in Nat /\ MaxLosses \in Nat

VARIABLES
  cardFiles,       \* each card: version (0: no file), mtime, whether it is whole
  now,        \* the clock, which each write advances
  watermark,  \* feedbackWatermark
  sweep,      \* the sweep under way: files listed, highest mtime seen, rows
  requests,   \* upserts that are out
  table,      \* Postgres: the version of each card's row
  lapsed,     \* history: cards written during a sweep, or whose request failed
              \* or landed after a newer one
  swept, losses

mirrorVars == <<cardFiles, now, watermark, sweep, requests, table, lapsed, swept, losses>>

VARIABLES
  bucket,     \* archives in the bucket
  uploaded,   \* history: archives that were uploaded
  backups        \* each backup: what it is at, and the listing it has

backupVars == <<bucket, uploaded, backups>>

NotSweeping == [open |-> FALSE, files |-> {}, seen |-> 0, rows |-> {}]
Upsert == [card : Cards, version : Nat]

MirrorTypeOK ==
  /\ cardFiles \in [Cards -> [version : Nat, mtime : Nat, whole : BOOLEAN]]
  /\ now \in Nat /\ watermark \in Nat
  /\ sweep.open \in BOOLEAN /\ sweep.files \subseteq Cards /\ sweep.rows \subseteq Upsert
  /\ requests \subseteq SUBSET Upsert
  /\ table \in [Cards -> Nat]
  /\ lapsed \subseteq Cards
  /\ swept \in 0..MaxSwept /\ losses \in 0..MaxLosses

MirrorInit ==
  /\ cardFiles = [c \in Cards |-> [version |-> 0, mtime |-> 0, whole |-> TRUE]]
  /\ now = 0 /\ watermark = 0
  /\ sweep = NotSweeping /\ requests = {}
  /\ table = [c \in Cards |-> 0]
  /\ lapsed = {} /\ swept = 0 /\ losses = 0

---------------------------------------------------------------------------
(* The mirror.                                                             *)

WrittenNow(c) == lapsed' = IF sweep.open THEN lapsed \cup {c} ELSE lapsed

\* finalize, or rejudge --record, writes a card in place.
WriteBegins(c) ==
  /\ cardFiles[c].whole /\ \A d \in Cards : d < c => cardFiles[d].mtime > 0
  /\ now < MaxWrites
  /\ now' = now + 1
  /\ cardFiles' = [cardFiles EXCEPT ![c].mtime = now + 1, ![c].whole = FALSE]
  /\ WrittenNow(c)
  /\ UNCHANGED <<watermark, sweep, requests, table, swept, losses>>
WriteEnds(c) ==
  /\ ~ cardFiles[c].whole
  /\ now' = now + 1
  /\ cardFiles' = [cardFiles EXCEPT ![c].version = @ + 1, ![c].mtime = now + 1, ![c].whole = TRUE]
  /\ WrittenNow(c)
  /\ UNCHANGED <<watermark, sweep, requests, table, swept, losses>>

SweepLists ==
  /\ ~ sweep.open /\ swept < MaxSwept
  /\ sweep' = [open |-> TRUE, seen |-> watermark, rows |-> {},
               files |-> {c \in Cards : cardFiles[c].mtime > 0}]
  /\ swept' = swept + 1
  /\ UNCHANGED <<cardFiles, now, watermark, requests, table, lapsed, losses>>

\* A file that is not whole makes no row, but its mtime counts.
SweepReads ==
  /\ \E c \in sweep.files :
       LET new == cardFiles[c].mtime > watermark
       IN  sweep' = [sweep EXCEPT
             !.files = @ \ {c},
             !.seen = IF cardFiles[c].mtime > @ THEN cardFiles[c].mtime ELSE @,
             !.rows = IF new /\ cardFiles[c].whole
                      THEN @ \cup {[card |-> c, version |-> cardFiles[c].version]} ELSE @]
  /\ UNCHANGED <<cardFiles, now, watermark, requests, table, lapsed, swept, losses>>

\* The watermark moves before anything is known of the request.
SweepPosts ==
  /\ sweep.open /\ sweep.files = {}
  /\ watermark' = sweep.seen
  /\ requests' = IF sweep.rows = {} THEN requests ELSE requests \cup {sweep.rows}
  /\ sweep' = NotSweeping
  /\ UNCHANGED <<cardFiles, now, table, lapsed, swept, losses>>

\* Requests that are out together land in any order.
RequestLands(q) ==
  /\ table' = [c \in Cards |->
       IF \E x \in q : x.card = c THEN (CHOOSE x \in q : x.card = c).version ELSE table[c]]
  /\ lapsed' = lapsed \cup {x.card : x \in {x \in q : table[x.card] > x.version}}
  /\ requests' = requests \ {q}
  /\ UNCHANGED <<cardFiles, now, watermark, sweep, swept, losses>>

\* One that fails is logged, and not sent again.
RequestFails(q) ==
  /\ losses < MaxLosses
  /\ losses' = losses + 1
  /\ lapsed' = lapsed \cup {x.card : x \in q}
  /\ requests' = requests \ {q}
  /\ UNCHANGED <<cardFiles, now, watermark, sweep, table, swept>>

\* A restart that remembers how far it had got.
RestartsWhereItWas ==
  /\ losses < MaxLosses
  /\ losses' = losses + 1
  /\ sweep' = NotSweeping /\ requests' = {}
  /\ UNCHANGED <<cardFiles, now, watermark, table, lapsed, swept>>

\* The app restarts: what was out is lost, and every card is swept again.
Restarts ==
  /\ losses < MaxLosses
  /\ losses' = losses + 1
  /\ watermark' = 0 /\ sweep' = NotSweeping /\ requests' = {}
  /\ UNCHANGED <<cardFiles, now, table, lapsed, swept>>

MirrorNext ==
  \/ \E c \in Cards : WriteBegins(c) \/ WriteEnds(c)
  \/ SweepLists \/ SweepReads \/ SweepPosts \/ Restarts
  \/ \E q \in requests : RequestLands(q) \/ RequestFails(q)

---------------------------------------------------------------------------
(* The backups.                                                            *)

BackupTypeOK ==
  /\ bucket \subseteq Backups /\ uploaded \subseteq Backups
  /\ backups \in [Backups -> [at : {"waits", "tarred", "up", "listed", "done"},
                           listing : SUBSET Backups]]

BackupInit ==
  /\ bucket = {} /\ uploaded = {}
  /\ backups = [b \in Backups |-> [at |-> "waits", listing |-> {}]]

\* planRetention: the oldest of what is listed go, the newest stay.
Doomed(listing) == {b \in listing : Cardinality({x \in listing : x > b}) >= Keep}

Tars(b) ==
  /\ backups[b].at = "waits"
  /\ \A x \in Backups : x < b => backups[x].at # "waits"
  /\ backups' = [backups EXCEPT ![b].at = "tarred"]
  /\ UNCHANGED <<bucket, uploaded>>

Uploads(b) ==
  /\ backups[b].at = "tarred"
  /\ bucket' = bucket \cup {b} /\ uploaded' = uploaded \cup {b}
  /\ backups' = [backups EXCEPT ![b].at = "up"]

\* A tar or an upload that fails ends the run; so does its death.
GivesUp(b) ==
  /\ backups[b].at \in {"tarred", "up", "listed"}
  /\ backups' = [backups EXCEPT ![b].at = "done"]
  /\ UNCHANGED <<bucket, uploaded>>

Lists(b) ==
  /\ backups[b].at = "up"
  /\ backups' = [backups EXCEPT ![b].at = "listed", ![b].listing = bucket]
  /\ UNCHANGED <<bucket, uploaded>>

Prunes(b) ==
  /\ backups[b].at = "listed"
  /\ bucket' = bucket \ Doomed(backups[b].listing)
  /\ backups' = [backups EXCEPT ![b].at = "done", ![b].listing = {}]
  /\ UNCHANGED uploaded

BackupNext == \E b \in Backups : Tars(b) \/ Uploads(b) \/ GivesUp(b) \/ Lists(b) \/ Prunes(b)

---------------------------------------------------------------------------
(* What the copies promise.                                                *)

\* Every card behind the watermark has its latest version in the table or on
\* the way there, through restarts of the app, unless it was written during a
\* sweep, its request failed, or one with an older version landed later.
MirrorHasItAll ==
  \A c \in Cards \ lapsed :
    cardFiles[c].whole /\ cardFiles[c].version > 0 /\ cardFiles[c].mtime <= watermark
      => \/ table[c] = cardFiles[c].version
         \/ \E q \in requests : [card |-> c, version |-> cardFiles[c].version] \in q

\* The newest archives that were ever uploaded are in the bucket, whatever
\* backups overlap: a listing that is old names fewer, and dooms fewer.
NewestStay ==
  \A b \in uploaded : Cardinality({x \in uploaded : x > b}) < Keep => b \in bucket

\* Both copies hold what they are trusted with.
CopiesHold == MirrorHasItAll /\ NewestStay
=============================================================================
