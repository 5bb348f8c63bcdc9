---------------------------- MODULE AppPartsProofs ----------------------------
(***************************************************************************)
(* Proofs about what the app keeps, as parts of AppPartsMC: the directory  *)
(* of a round (Workspaces), a plan that changes (Adaptation), one build    *)
(* (BuildGate), what judged rounds leave behind (Memory), a verdict's      *)
(* receipts (Verdict), the mirror and the backups (Copies), the mail to    *)
(* new users (Greeting), the ledger of subscriptions (Subscriptions), the  *)
(* timeline of a plan (Runway) and the rounds a customer may run           *)
(* (Allowance), for any sessions, shapes, rounds, cards, people,           *)
(* subscriptions, days and limits.                                         *)
(*                                                                         *)
(* Each part has an inductive invariant of its own, kept by the steps of   *)
(* that part and, since no other part touches its variables, by all.       *)
(***************************************************************************)
EXTENDS AppPartsMC, FiniteSetTheorems, TLAPS

---------------------------------------------------------------------------
(* The directory of a round.                                               *)

FlagsFit ==
  aged \in BOOLEAN /\ ragged \in BOOLEAN /\ cutShort \in BOOLEAN /\ slimUnder \in BOOLEAN

ResetShapes ==
  {Idle} \cup [stage : {"preserving", "wiping", "filling", "healing", "spawning"},
               from : {"pristine", "snapshot"}]

SessionShapes == {Nobody} \cup [stage : Boots \cup {"up"}, sid : Sessions]

WorkspaceTypes ==
  /\ tree \in Trees
  /\ archive \in {Pristine, Partial, None, Unreadable}
  /\ snapshot \in {Pristine, Partial, Empty, None}
  /\ usedBy \in 0..MaxSessions
  /\ runs \subseteq Sessions
  /\ saved \in [Sessions -> Copies]
  /\ reset \in ResetShapes
  /\ session \in SessionShapes
  /\ lastSession \in 0..MaxSessions
  /\ assessed \subseteq Sessions /\ ran \subseteq Sessions /\ edited \subseteq Sessions
  /\ uninsured \subseteq Sessions /\ slimmed \subseteq Sessions
  /\ workspaceFaults \in 0..MaxWorkspaceFaults

\* Work in the tree is that of the session .used names, and no copy holds work;
\* a copy that is not whole is known to have been cut short.
TreesFit ==
  /\ tree.is = "worked" => tree = Worked(usedBy)
  /\ usedBy = 0 => tree = Pristine
  /\ archive = Partial \/ snapshot = Partial => cutShort

\* The app and the session take turns; ids count up, and .used names the
\* session that is up.
TurnsAreTaken ==
  /\ reset # Idle => session = Nobody /\ usedBy # 0
  /\ usedBy <= lastSession
  /\ session # Nobody => session.sid <= lastSession /\ saved[session.sid] = None
  /\ session.stage \in {"marked", "up"} => usedBy = session.sid
  /\ \A s \in Sessions : s > lastSession => saved[s] = None

\* A reset has something whole to fill from, and a session to start on.
ResetFits ==
  /\ reset.stage \in {"preserving", "wiping", "filling"} =>
       /\ reset.from = "pristine" => archive \in {Pristine, Partial}
       /\ reset.from = "snapshot" => snapshot \in {Pristine, Partial}
  /\ reset.stage \in {"healing", "spawning"} =>
       tree = Pristine \/ (tree = Partial /\ cutShort)
  /\ session.stage \in Boots =>
       tree = Pristine \/ (tree = Partial /\ cutShort) \/ (tree = Empty /\ slimUnder)

\* The row of the session .used names is banked before it names another.
FoundBefore ==
  /\ EverySessionIsFound
  /\ session.stage = "banked" => usedBy = 0 \/ usedBy \in runs

\* The work of s is in its tarball, or known not to be.
Accounted(s) ==
  saved[s] = Worked(s) \/ s \in uninsured \/ (s \in slimmed /\ s \in assessed)

\* Before the tree is wiped all work is in tarballs; and a tarball that is there
\* already is that of a session that edits no more.
WorkFits ==
  /\ WorkIsKept
  /\ reset.stage \in {"wiping", "filling", "healing", "spawning"} =>
       \A s \in edited : Accounted(s)
  /\ \A s \in edited : saved[s] # None => Accounted(s)

WorkspaceInv ==
  /\ FlagsFit
  /\ WorkspaceTypes
  /\ TreesFit
  /\ TurnsAreTaken
  /\ ResetFits
  /\ FoundBefore
  /\ WorkFits

\* Trees that differ, and what tells them apart.
LEMMA TreeFacts ==
  /\ Pristine \in Trees /\ Partial \in Trees /\ Empty \in Trees
  /\ Pristine.is # "worked" /\ Partial.is # "worked" /\ Empty.is # "worked"
  /\ Pristine # Partial /\ Pristine # Empty /\ Pristine # None /\ Pristine # Unreadable
  /\ Partial # Empty /\ Partial # None /\ Partial # Unreadable
  /\ Empty # None /\ Empty # Unreadable /\ None # Unreadable
  /\ None \notin Trees /\ Unreadable \notin Trees
  /\ Copies = Trees \cup {None, Unreadable}
  /\ \A s \in Sessions : Worked(s) \in Trees /\ Worked(s).is = "worked" /\ Worked(s).by = s
  /\ \A t \in Trees : t.is = "worked" => t.by \in Sessions /\ t = Worked(t.by)
  /\ \A t \in Trees : t.is # "worked" => t \in {Pristine, Partial, Empty}
<1> USE DEF AsIs, Worked, Pristine, Partial, Empty, None, Unreadable
<1>1. /\ Pristine \in Trees /\ Partial \in Trees /\ Empty \in Trees
      /\ Copies = Trees \cup {None, Unreadable}
  BY DEF Trees, Copies
<1>2. /\ Pristine.is = "pristine" /\ Partial.is = "partial" /\ Empty.is = "empty"
      /\ None.is = "none" /\ Unreadable.is = "unreadable"
  OBVIOUS
<1>3. \A s \in Sessions : Worked(s) \in Trees /\ Worked(s).is = "worked" /\ Worked(s).by = s
  BY DEF Trees
<1>4. \A t \in Trees : t \in {Pristine, Partial, Empty} \/ \E s \in Sessions : t = Worked(s)
  BY DEF Trees
<1> HIDE DEF AsIs, Worked, Pristine, Partial, Empty, None, Unreadable
<1>5. None \notin Trees /\ Unreadable \notin Trees
  BY <1>2, <1>3, <1>4
<1>6. \A t \in Trees : t.is = "worked" => t.by \in Sessions /\ t = Worked(t.by)
  BY <1>2, <1>3, <1>4
<1>7. \A t \in Trees : t.is # "worked" => t \in {Pristine, Partial, Empty}
  BY <1>3, <1>4
<1> QED BY <1>1, <1>2, <1>3, <1>6, <1>7, <1>5

\* What the app and the session are at.
LEMMA ShapeFacts ==
  /\ Idle.stage = "idle" /\ Nobody.stage = "none"
  /\ Idle \in ResetShapes /\ Nobody \in SessionShapes
  /\ \A x \in ResetShapes \ {Idle} :
       /\ x.stage \in {"preserving", "wiping", "filling", "healing", "spawning"}
       /\ x.from \in {"pristine", "snapshot"}
  /\ \A x \in SessionShapes \ {Nobody} :
       x.stage \in {"starting", "copying", "booting", "banked", "marked", "up"} /\ x.sid \in Sessions
BY DEF Idle, Nobody, ResetShapes, SessionShapes, Boots

\* A reset and a session at their next stage.
LEMMA ResetGoesOn ==
  ASSUME reset \in ResetShapes \ {Idle},
         NEW stage \in {"preserving", "wiping", "filling", "healing", "spawning"},
         reset' = [reset EXCEPT !.stage = stage]
  PROVE  /\ reset' \in ResetShapes \ {Idle}
         /\ reset'.stage = stage /\ reset'.from = reset.from
BY DEF Idle, ResetShapes

LEMMA SessionGoesOn ==
  ASSUME session \in SessionShapes \ {Nobody}, NEW stage \in Boots \cup {"up"}, Goes(stage)
  PROVE  /\ session' \in SessionShapes \ {Nobody}
         /\ session'.stage = stage /\ session'.sid = session.sid
BY DEF Nobody, SessionShapes, Goes, Boots

\* A session that starts has an id that none had.
LEMMA SessionIsNew ==
  ASSUME WorkspaceTypes, SessionStarts
  PROVE  /\ session' \in SessionShapes \ {Nobody}
         /\ session'.stage = "starting" /\ session'.sid = lastSession + 1
         /\ lastSession' = lastSession + 1 /\ lastSession + 1 \in Sessions
<1>1. lastSession + 1 \in Sessions /\ session' = [stage |-> "starting", sid |-> lastSession + 1]
      /\ lastSession' = lastSession + 1
  BY WorkspaceAssumption DEF WorkspaceTypes, SessionStarts, Sessions
<1> QED BY <1>1 DEF SessionShapes, Nobody, Boots

\* A reset as it begins.
LEMMA ResetBegins ==
  \A from \in {"pristine", "snapshot"} :
    [stage |-> "preserving", from |-> from] \in ResetShapes \ {Idle}
BY DEF ResetShapes, Idle

\* One lemma for every action on the directory. The first launch finds it whole.
LEMMA FirstLaunchKeepsRound == WorkspaceInv /\ FirstLaunch => WorkspaceInv'
<1> SUFFICES ASSUME WorkspaceInv, FirstLaunch PROVE WorkspaceInv'
  OBVIOUS
<1> USE TreeFacts, ShapeFacts, WorkspaceAssumption DEF WorkspaceInv, FirstLaunch, disk, told
<1>1. session' \in SessionShapes \ {Nobody} /\ session'.stage = "starting" /\ session'.sid = lastSession + 1
      /\ lastSession' = lastSession + 1 /\ lastSession + 1 \in Sessions
  BY SessionIsNew DEF WorkspaceTypes, Boots
<1>2. FlagsFit'
  BY <1>1 DEF FlagsFit
<1>3. WorkspaceTypes'
  BY <1>1 DEF WorkspaceTypes, TreesFit, TurnsAreTaken, ResetFits, Sessions, Boots
<1>4. TreesFit'
  BY <1>1 DEF WorkspaceTypes, TreesFit, TurnsAreTaken, ResetFits, Boots
<1>5. TurnsAreTaken'
  BY <1>1 DEF WorkspaceTypes, TurnsAreTaken, Sessions
<1>6. ResetFits'
  BY <1>1 DEF WorkspaceTypes, TreesFit, TurnsAreTaken, ResetFits, Boots
<1>7. FoundBefore'
  BY <1>1 DEF WorkspaceTypes, TurnsAreTaken, FoundBefore, EverySessionIsFound, dirRanSession
<1>8. WorkFits'
  BY <1>1 DEF WorkspaceTypes, TreesFit, TurnsAreTaken, ResetFits, WorkFits, WorkIsKept, Accounted, Boots
<1> QED BY <1>2, <1>3, <1>4, <1>5, <1>6, <1>7, <1>8

\* Validating again archives what is there only before a session has used it.
LEMMA ValidatesAgainKeepsRound == WorkspaceInv /\ ValidatesAgain => WorkspaceInv'
<1> SUFFICES ASSUME WorkspaceInv, ValidatesAgain PROVE WorkspaceInv'
  OBVIOUS
<1> USE TreeFacts, ShapeFacts, WorkspaceAssumption DEF WorkspaceInv, ValidatesAgain, told
<1>1. FlagsFit'
  BY DEF FlagsFit
<1>2. WorkspaceTypes'
  BY DEF WorkspaceTypes, TreesFit, TurnsAreTaken, ResetFits, Sessions, Boots
<1>3. TreesFit'
  BY DEF WorkspaceTypes, TreesFit, TurnsAreTaken, ResetFits, Boots
<1>4. TurnsAreTaken'
  BY DEF WorkspaceTypes, TurnsAreTaken, Sessions
<1>5. ResetFits'
  BY DEF WorkspaceTypes, TreesFit, TurnsAreTaken, ResetFits, Boots
<1>6. FoundBefore'
  BY DEF WorkspaceTypes, TurnsAreTaken, FoundBefore, EverySessionIsFound, dirRanSession
<1>7. WorkFits'
  BY DEF WorkspaceTypes, TreesFit, TurnsAreTaken, ResetFits, WorkFits, WorkIsKept, Accounted, Boots
<1> QED BY <1>1, <1>2, <1>3, <1>4, <1>5, <1>6, <1>7

\* A repeat starts from a source that can be read.
LEMMA AsksToRepeatKeepsRound == WorkspaceInv /\ AsksToRepeat => WorkspaceInv'
<1> SUFFICES ASSUME WorkspaceInv, AsksToRepeat PROVE WorkspaceInv'
  OBVIOUS
<1> USE TreeFacts, ShapeFacts, WorkspaceAssumption DEF WorkspaceInv, AsksToRepeat, hasUsableSnapshot, disk, told
<1>1. reset' \in ResetShapes \ {Idle} /\ reset'.stage = "preserving"
      /\ reset'.from \in {"pristine", "snapshot"}
      /\ (reset'.from = "pristine" => archive \notin {None, Unreadable})
      /\ (reset'.from = "snapshot" => snapshot \notin {None, Empty})
  BY ResetBegins DEF WorkspaceTypes, Boots
<1>2. FlagsFit'
  BY <1>1 DEF FlagsFit
<1>3. WorkspaceTypes'
  BY <1>1 DEF WorkspaceTypes, TreesFit, TurnsAreTaken, ResetFits, Sessions, Boots
<1>4. TreesFit'
  BY <1>1 DEF WorkspaceTypes, TreesFit, TurnsAreTaken, ResetFits, Boots
<1>5. TurnsAreTaken'
  BY <1>1 DEF WorkspaceTypes, TurnsAreTaken, Sessions
<1>6. ResetFits'
  BY <1>1 DEF WorkspaceTypes, TreesFit, TurnsAreTaken, ResetFits, Boots
<1>7. FoundBefore'
  BY <1>1 DEF WorkspaceTypes, TurnsAreTaken, FoundBefore, EverySessionIsFound, dirRanSession
<1>8. WorkFits'
  BY <1>1 DEF WorkspaceTypes, TreesFit, TurnsAreTaken, ResetFits, WorkFits, WorkIsKept, Accounted, Boots
<1> QED BY <1>2, <1>3, <1>4, <1>5, <1>6, <1>7, <1>8

\* The work in the tree is copied before it is wiped.
LEMMA PreservesKeepsRound == WorkspaceInv /\ Preserves => WorkspaceInv'
<1> SUFFICES ASSUME WorkspaceInv, Preserves PROVE WorkspaceInv'
  OBVIOUS
<1> USE TreeFacts, ShapeFacts, WorkspaceAssumption DEF WorkspaceInv, Preserves, Kept, TarFails, WorkspaceFault
<1>1. reset' \in ResetShapes \ {Idle} /\ reset'.stage = "wiping" /\ reset'.from = reset.from
  BY ResetGoesOn DEF WorkspaceTypes, Boots
<1>2. usedBy \in Sessions /\ session = Nobody
  BY DEF WorkspaceTypes, TurnsAreTaken, Sessions
<1>3. /\ saved' \in [Sessions -> Copies] /\ uninsured' \subseteq Sessions
       /\ workspaceFaults' \in 0..MaxWorkspaceFaults
  <2>1. saved' \in [Sessions -> Copies]
    BY <1>2 DEF WorkspaceTypes
  <2> QED BY <2>1, <1>2 DEF WorkspaceTypes
<1>4. \/ /\ saved[usedBy] # None /\ saved' = saved /\ uninsured' = uninsured
       \/ /\ saved[usedBy] = None /\ saved'[usedBy] = tree /\ uninsured' = uninsured
          /\ \A s \in Sessions \ {usedBy} : saved'[s] = saved[s]
       \/ /\ saved[usedBy] = None /\ uninsured' = uninsured \cup {usedBy}
          /\ \A s \in Sessions \ {usedBy} : saved'[s] = saved[s]
  BY <1>2 DEF WorkspaceTypes
<1>5. FlagsFit'
  BY <1>1 DEF FlagsFit
<1>6. WorkspaceTypes'
  BY <1>1, <1>3 DEF WorkspaceTypes
<1>7. TreesFit'
  BY <1>1 DEF WorkspaceTypes, TreesFit, TurnsAreTaken, ResetFits, Boots
<1>8. TurnsAreTaken'
  BY <1>1 DEF WorkspaceTypes, TurnsAreTaken, Sessions
<1>9. ResetFits'
  BY <1>1 DEF WorkspaceTypes, TreesFit, TurnsAreTaken, ResetFits, Boots
<1>10. FoundBefore'
  BY <1>1 DEF WorkspaceTypes, TurnsAreTaken, FoundBefore, EverySessionIsFound, dirRanSession
<1>11. WorkFits'
  <2>1. \A s \in edited : Accounted(s)'
    <3>1. SUFFICES ASSUME NEW s \in edited PROVE Accounted(s)'
      OBVIOUS
    <3>2. s \in Sessions /\ assessed' = assessed /\ slimmed' = slimmed /\ tree' = tree
      BY DEF WorkspaceTypes
    <3>3. CASE Accounted(s)
      BY <1>2, <1>4, <3>2, <3>3 DEF Accounted, WorkFits
    <3>4. CASE ~ Accounted(s)
      <4>1. tree = Worked(s) /\ saved[s] = None
        BY <3>4 DEF WorkFits, WorkIsKept, Accounted
      <4>2. s = usedBy
        BY <4>1, <3>2, <1>2 DEF TreesFit
      <4> QED BY <4>1, <4>2, <1>4, <3>2 DEF Accounted
    <3> QED BY <3>3, <3>4
  <2>2. edited' = edited OBVIOUS
  <2> QED BY <2>1, <2>2 DEF WorkFits, WorkIsKept, Accounted
<1> QED BY <1>5, <1>6, <1>7, <1>8, <1>9, <1>10, <1>11

\* A wiped tree has its source and its copies still.
LEMMA WipesKeepsRound == WorkspaceInv /\ Wipes => WorkspaceInv'
<1> SUFFICES ASSUME WorkspaceInv, Wipes PROVE WorkspaceInv'
  OBVIOUS
<1> USE TreeFacts, ShapeFacts, WorkspaceAssumption DEF WorkspaceInv, Wipes, told
<1>1. reset' \in ResetShapes \ {Idle} /\ reset'.stage = "filling" /\ reset'.from = reset.from
  BY ResetGoesOn DEF WorkspaceTypes, Boots
<1>2. FlagsFit'
  BY <1>1 DEF FlagsFit
<1>3. WorkspaceTypes'
  BY <1>1 DEF WorkspaceTypes, TreesFit, TurnsAreTaken, ResetFits, Sessions, Boots
<1>4. TreesFit'
  BY <1>1 DEF WorkspaceTypes, TreesFit, TurnsAreTaken, ResetFits, Boots
<1>5. TurnsAreTaken'
  BY <1>1 DEF WorkspaceTypes, TurnsAreTaken, Sessions
<1>6. ResetFits'
  BY <1>1 DEF WorkspaceTypes, TreesFit, TurnsAreTaken, ResetFits, Boots
<1>7. FoundBefore'
  BY <1>1 DEF WorkspaceTypes, TurnsAreTaken, FoundBefore, EverySessionIsFound, dirRanSession
<1>8. WorkFits'
  BY <1>1 DEF WorkspaceTypes, TreesFit, TurnsAreTaken, ResetFits, WorkFits, WorkIsKept, Accounted, Boots
<1> QED BY <1>2, <1>3, <1>4, <1>5, <1>6, <1>7, <1>8

\* What fills the tree is the pristine tree, whole.
LEMMA FillsKeepsRound == WorkspaceInv /\ Fills => WorkspaceInv'
<1> SUFFICES ASSUME WorkspaceInv, Fills PROVE WorkspaceInv'
  OBVIOUS
<1> USE TreeFacts, ShapeFacts, WorkspaceAssumption DEF WorkspaceInv, Fills, told
<1>1. reset' \in ResetShapes \ {Idle} /\ reset'.stage \in {"spawning", "healing"}
  <2>1. reset \in ResetShapes \ {Idle} BY DEF WorkspaceTypes
  <2>2. PICK stage \in {"spawning", "healing"} :
          stage = IF reset.from = "pristine" THEN "spawning" ELSE "healing"
    OBVIOUS
  <2>3. reset' = [reset EXCEPT !.stage = stage] BY <2>2
  <2>4. reset' \in ResetShapes \ {Idle} /\ reset'.stage = stage /\ reset'.from = reset.from
    BY <2>1, <2>3, ResetGoesOn
  <2> QED BY <2>2, <2>4
<1>2. tree' \in {Pristine, Partial} /\ (tree' = Partial => cutShort) /\ session = Nobody /\ usedBy # 0
  BY DEF WorkspaceTypes, ResetFits, TreesFit, TurnsAreTaken
<1>3. FlagsFit'
  BY <1>1 DEF FlagsFit
<1>4. WorkspaceTypes'
  BY <1>1 DEF WorkspaceTypes, TreesFit, TurnsAreTaken, ResetFits, Sessions, Boots
<1>5. TreesFit'
  BY <1>1 DEF WorkspaceTypes, TreesFit, TurnsAreTaken, ResetFits, Boots
<1>6. TurnsAreTaken'
  BY <1>1 DEF WorkspaceTypes, TurnsAreTaken, Sessions
<1>7. ResetFits'
  BY <1>1, <1>2 DEF ResetFits, Boots
<1>8. FoundBefore'
  BY <1>1 DEF WorkspaceTypes, TurnsAreTaken, FoundBefore, EverySessionIsFound, dirRanSession
<1>9. WorkFits'
  BY <1>1 DEF WorkspaceTypes, TreesFit, TurnsAreTaken, ResetFits, WorkFits, WorkIsKept, Accounted, Boots
<1> QED BY <1>3, <1>4, <1>5, <1>6, <1>7, <1>8, <1>9

\* A snapshot that was short is made again from a whole tree.
LEMMA HealsKeepsRound == WorkspaceInv /\ Heals => WorkspaceInv'
<1> SUFFICES ASSUME WorkspaceInv, Heals PROVE WorkspaceInv'
  OBVIOUS
<1> USE TreeFacts, ShapeFacts, WorkspaceAssumption DEF WorkspaceInv, Heals, WorkspaceFault, told
<1>1. reset' \in ResetShapes \ {Idle} /\ reset'.stage = "spawning" /\ reset'.from = reset.from
  BY ResetGoesOn DEF WorkspaceTypes, Boots
<1>2. FlagsFit'
  BY <1>1 DEF FlagsFit
<1>3. WorkspaceTypes'
  BY <1>1 DEF WorkspaceTypes, TreesFit, TurnsAreTaken, ResetFits, Sessions, Boots
<1>4. TreesFit'
  BY <1>1 DEF WorkspaceTypes, TreesFit, TurnsAreTaken, ResetFits, Boots
<1>5. TurnsAreTaken'
  BY <1>1 DEF WorkspaceTypes, TurnsAreTaken, Sessions
<1>6. ResetFits'
  BY <1>1 DEF WorkspaceTypes, TreesFit, TurnsAreTaken, ResetFits, Boots
<1>7. FoundBefore'
  BY <1>1 DEF WorkspaceTypes, TurnsAreTaken, FoundBefore, EverySessionIsFound, dirRanSession
<1>8. WorkFits'
  BY <1>1 DEF WorkspaceTypes, TreesFit, TurnsAreTaken, ResetFits, WorkFits, WorkIsKept, Accounted, Boots
<1> QED BY <1>2, <1>3, <1>4, <1>5, <1>6, <1>7, <1>8

\* The session is launched on the tree that was filled.
LEMMA SpawnsKeepsRound == WorkspaceInv /\ Spawns => WorkspaceInv'
<1> SUFFICES ASSUME WorkspaceInv, Spawns PROVE WorkspaceInv'
  OBVIOUS
<1> USE TreeFacts, ShapeFacts, WorkspaceAssumption DEF WorkspaceInv, Spawns, disk, told
<1>1. session' \in SessionShapes \ {Nobody} /\ session'.stage = "starting" /\ session'.sid = lastSession + 1
      /\ lastSession' = lastSession + 1 /\ lastSession + 1 \in Sessions
  BY SessionIsNew DEF WorkspaceTypes, Boots
<1>2. FlagsFit'
  BY <1>1 DEF FlagsFit
<1>3. WorkspaceTypes'
  BY <1>1 DEF WorkspaceTypes, TreesFit, TurnsAreTaken, ResetFits, Sessions, Boots
<1>4. TreesFit'
  BY <1>1 DEF WorkspaceTypes, TreesFit, TurnsAreTaken, ResetFits, Boots
<1>5. TurnsAreTaken'
  BY <1>1 DEF WorkspaceTypes, TurnsAreTaken, Sessions
<1>6. ResetFits'
  BY <1>1 DEF WorkspaceTypes, TreesFit, TurnsAreTaken, ResetFits, Boots
<1>7. FoundBefore'
  BY <1>1 DEF WorkspaceTypes, TurnsAreTaken, FoundBefore, EverySessionIsFound, dirRanSession
<1>8. WorkFits'
  BY <1>1 DEF WorkspaceTypes, TreesFit, TurnsAreTaken, ResetFits, WorkFits, WorkIsKept, Accounted, Boots
<1> QED BY <1>2, <1>3, <1>4, <1>5, <1>6, <1>7, <1>8

\* Whatever step the app dies in, the source and the copies are there.
LEMMA AppDiesKeepsRound == WorkspaceInv /\ AppDies => WorkspaceInv'
<1> SUFFICES ASSUME WorkspaceInv, AppDies PROVE WorkspaceInv'
  OBVIOUS
<1> USE TreeFacts, ShapeFacts, WorkspaceAssumption DEF WorkspaceInv, AppDies, TarFails, WorkspaceFault
<1>1. /\ tree' \in Trees
      /\ snapshot' \in {Pristine, Partial, Empty, None}
      /\ saved' \in [Sessions -> Copies] /\ uninsured' \subseteq Sessions
  <2>1. usedBy \in Sessions
    BY DEF WorkspaceTypes, TurnsAreTaken, Sessions
  <2>2. tree' \in Trees BY DEF WorkspaceTypes
  <2>3. snapshot' \in {Pristine, Partial, Empty, None} BY DEF WorkspaceTypes
  <2>4. saved' \in [Sessions -> Copies] /\ uninsured' \subseteq Sessions
    BY <2>1 DEF WorkspaceTypes
  <2> QED BY <2>2, <2>3, <2>4
<1>2. reset' = Idle /\ workspaceFaults' \in 0..MaxWorkspaceFaults
  BY DEF WorkspaceTypes
<1>3. FlagsFit'
  BY DEF FlagsFit
<1>4. WorkspaceTypes'
  BY <1>1, <1>2 DEF WorkspaceTypes
<1>5. TreesFit'
  BY DEF WorkspaceTypes, TreesFit, TurnsAreTaken, ResetFits, Boots
<1>6. TurnsAreTaken'
  BY DEF WorkspaceTypes, TurnsAreTaken, Sessions
<1>7. ResetFits'
  BY DEF WorkspaceTypes, TreesFit, TurnsAreTaken, ResetFits, Boots
<1>8. FoundBefore'
  BY DEF WorkspaceTypes, TurnsAreTaken, FoundBefore, EverySessionIsFound, dirRanSession
<1>9. WorkFits'
  BY DEF WorkspaceTypes, TreesFit, TurnsAreTaken, ResetFits, WorkFits, WorkIsKept, Accounted, Boots
<1> QED BY <1>3, <1>4, <1>5, <1>6, <1>7, <1>8, <1>9

\* A copy under way is not taken for a whole one.
LEMMA CopyStartsKeepsRound == WorkspaceInv /\ CopyStarts => WorkspaceInv'
<1> SUFFICES ASSUME WorkspaceInv, CopyStarts PROVE WorkspaceInv'
  OBVIOUS
<1> USE TreeFacts, ShapeFacts, WorkspaceAssumption DEF WorkspaceInv, CopyStarts, told
<1>1. session' \in SessionShapes \ {Nobody} /\ session'.stage = "copying" /\ session'.sid = session.sid
  BY SessionGoesOn DEF WorkspaceTypes, Boots
<1>2. FlagsFit'
  BY <1>1 DEF FlagsFit
<1>3. WorkspaceTypes'
  BY <1>1 DEF WorkspaceTypes, TreesFit, TurnsAreTaken, ResetFits, Sessions, Boots
<1>4. TreesFit'
  BY <1>1 DEF WorkspaceTypes, TreesFit, TurnsAreTaken, ResetFits, Boots
<1>5. TurnsAreTaken'
  BY <1>1 DEF WorkspaceTypes, TurnsAreTaken, Sessions
<1>6. ResetFits'
  BY <1>1 DEF WorkspaceTypes, TreesFit, TurnsAreTaken, ResetFits, Boots
<1>7. FoundBefore'
  BY <1>1 DEF WorkspaceTypes, TurnsAreTaken, FoundBefore, EverySessionIsFound, dirRanSession
<1>8. WorkFits'
  BY <1>1 DEF WorkspaceTypes, TreesFit, TurnsAreTaken, ResetFits, WorkFits, WorkIsKept, Accounted, Boots
<1> QED BY <1>2, <1>3, <1>4, <1>5, <1>6, <1>7, <1>8

\* A copy that ended holds the work it was made of.
LEMMA CopyEndsKeepsRound == WorkspaceInv /\ CopyEnds => WorkspaceInv'
<1> SUFFICES ASSUME WorkspaceInv, CopyEnds PROVE WorkspaceInv'
  OBVIOUS
<1> USE TreeFacts, ShapeFacts, WorkspaceAssumption DEF WorkspaceInv, CopyEnds, told
<1>1. session' \in SessionShapes \ {Nobody} /\ session'.stage = "booting" /\ session'.sid = session.sid
  BY SessionGoesOn DEF WorkspaceTypes, Boots
<1>2. FlagsFit'
  BY <1>1 DEF FlagsFit
<1>3. WorkspaceTypes'
  BY <1>1 DEF WorkspaceTypes, TreesFit, TurnsAreTaken, ResetFits, Sessions, Boots
<1>4. TreesFit'
  BY <1>1 DEF WorkspaceTypes, TreesFit, TurnsAreTaken, ResetFits, Boots
<1>5. TurnsAreTaken'
  BY <1>1 DEF WorkspaceTypes, TurnsAreTaken, Sessions
<1>6. ResetFits'
  BY <1>1 DEF WorkspaceTypes, TreesFit, TurnsAreTaken, ResetFits, Boots
<1>7. FoundBefore'
  BY <1>1 DEF WorkspaceTypes, TurnsAreTaken, FoundBefore, EverySessionIsFound, dirRanSession
<1>8. WorkFits'
  BY <1>1 DEF WorkspaceTypes, TreesFit, TurnsAreTaken, ResetFits, WorkFits, WorkIsKept, Accounted, Boots
<1> QED BY <1>2, <1>3, <1>4, <1>5, <1>6, <1>7, <1>8

\* What was cut short is put aside with the session it belongs to.
LEMMA BanksKeepsRound == WorkspaceInv /\ Banks => WorkspaceInv'
<1> SUFFICES ASSUME WorkspaceInv, Banks PROVE WorkspaceInv'
  OBVIOUS
<1> USE TreeFacts, ShapeFacts, WorkspaceAssumption DEF WorkspaceInv, Banks, OutgoingRow, RunRows, told
<1>1. session' \in SessionShapes \ {Nobody} /\ session'.stage = "banked" /\ session'.sid = session.sid
  BY SessionGoesOn DEF WorkspaceTypes, Boots
<1>2. runs' \subseteq Sessions
  <2>1. CASE OutgoingRow
    <3>1. usedBy \in Sessions BY <2>1 DEF WorkspaceTypes, Sessions
    <3>2. runs' = runs \cup {usedBy} BY <2>1
    <3>3. runs \subseteq Sessions BY DEF WorkspaceTypes
    <3> QED BY <3>1, <3>2, <3>3
  <2>2. CASE ~ OutgoingRow
    BY <2>2 DEF WorkspaceTypes
  <2> QED BY <2>1, <2>2
<1>3. FlagsFit'
  BY <1>1 DEF FlagsFit
<1>4. WorkspaceTypes'
  BY <1>1, <1>2 DEF WorkspaceTypes
<1>5. TreesFit'
  BY <1>1 DEF WorkspaceTypes, TreesFit, TurnsAreTaken, ResetFits, Boots
<1>6. TurnsAreTaken'
  BY <1>1 DEF WorkspaceTypes, TurnsAreTaken, Sessions
<1>7. ResetFits'
  BY <1>1 DEF WorkspaceTypes, TreesFit, TurnsAreTaken, ResetFits, Boots
<1>8. FoundBefore'
  BY <1>1 DEF WorkspaceTypes, TurnsAreTaken, FoundBefore, EverySessionIsFound, dirRanSession
<1>9. WorkFits'
  BY <1>1 DEF WorkspaceTypes, TreesFit, TurnsAreTaken, ResetFits, WorkFits, WorkIsKept, Accounted, Boots
<1> QED BY <1>3, <1>4, <1>5, <1>6, <1>7, <1>8, <1>9

\* The session writes its mark before it touches the tree.
LEMMA MarksKeepsRound == WorkspaceInv /\ Marks => WorkspaceInv'
<1> SUFFICES ASSUME WorkspaceInv, Marks PROVE WorkspaceInv'
  OBVIOUS
<1> USE TreeFacts, ShapeFacts, WorkspaceAssumption DEF WorkspaceInv, Marks
<1>1. session' \in SessionShapes \ {Nobody} /\ session'.stage = "marked" /\ session'.sid = session.sid
  BY SessionGoesOn DEF WorkspaceTypes, Boots
<1>2. session.stage = "banked" /\ session # Nobody /\ session.sid \in Sessions
      /\ session.sid \in 1..MaxSessions /\ session.sid <= lastSession
      /\ session.sid # 0 /\ session.sid \in 0..MaxSessions
  BY DEF WorkspaceTypes, TurnsAreTaken, Sessions
<1>3. tree \in {Pristine, Partial, Empty} /\ tree.is # "worked"
  BY <1>2 DEF ResetFits, Boots
<1>4. /\ usedBy' = session.sid /\ ran' = ran \cup {session.sid}
       /\ UNCHANGED <<tree, archive, snapshot, runs, ragged, saved, reset, lastSession, assessed,
                       edited, uninsured, cutShort, slimmed, slimUnder, workspaceFaults>>
  OBVIOUS
<1>5. FlagsFit'
  BY <1>1 DEF FlagsFit
<1>6. WorkspaceTypes'
  BY <1>1, <1>2, <1>4 DEF WorkspaceTypes
<1>7. TreesFit'
  BY <1>2, <1>3, <1>4 DEF TreesFit
<1>8. TurnsAreTaken'
  BY <1>1 DEF WorkspaceTypes, TurnsAreTaken, Sessions
<1>9. ResetFits'
  BY <1>1 DEF WorkspaceTypes, TreesFit, TurnsAreTaken, ResetFits, Boots
<1>10. FoundBefore'
  <2>1. usedBy = 0 \/ usedBy \in runs BY <1>2 DEF FoundBefore
  <2>2. \A s \in ran : s \in runs
    BY <2>1 DEF FoundBefore, EverySessionIsFound, dirRanSession, WorkspaceTypes, Sessions
  <2> QED BY <1>1, <1>4, <2>2 DEF FoundBefore, EverySessionIsFound, dirRanSession
<1>11. WorkFits'
  BY <1>1 DEF WorkspaceTypes, TreesFit, TurnsAreTaken, ResetFits, WorkFits, WorkIsKept, Accounted, Boots
<1> QED BY <1>5, <1>6, <1>7, <1>8, <1>9, <1>10, <1>11

\* A session is up in the tree it was launched on.
LEMMA EntersKeepsRound == WorkspaceInv /\ Enters => WorkspaceInv'
<1> SUFFICES ASSUME WorkspaceInv, Enters PROVE WorkspaceInv'
  OBVIOUS
<1> USE TreeFacts, ShapeFacts, WorkspaceAssumption DEF WorkspaceInv, Enters, RunRows, told
<1>1. session' \in SessionShapes \ {Nobody} /\ session'.stage = "up" /\ session'.sid = session.sid
  BY SessionGoesOn DEF WorkspaceTypes, Boots
<1>2. FlagsFit'
  BY <1>1 DEF FlagsFit
<1>3. WorkspaceTypes'
  BY <1>1 DEF WorkspaceTypes, TreesFit, TurnsAreTaken, ResetFits, Sessions, Boots
<1>4. TreesFit'
  BY <1>1 DEF WorkspaceTypes, TreesFit, TurnsAreTaken, ResetFits, Boots
<1>5. TurnsAreTaken'
  BY <1>1 DEF WorkspaceTypes, TurnsAreTaken, Sessions
<1>6. ResetFits'
  BY <1>1 DEF WorkspaceTypes, TreesFit, TurnsAreTaken, ResetFits, Boots
<1>7. FoundBefore'
  BY <1>1 DEF WorkspaceTypes, TurnsAreTaken, FoundBefore, EverySessionIsFound, dirRanSession
<1>8. WorkFits'
  BY <1>1 DEF WorkspaceTypes, TreesFit, TurnsAreTaken, ResetFits, WorkFits, WorkIsKept, Accounted, Boots
<1> QED BY <1>2, <1>3, <1>4, <1>5, <1>6, <1>7, <1>8

\* Edits are of the session that is up.
LEMMA EditsKeepsRound == WorkspaceInv /\ Edits => WorkspaceInv'
<1> SUFFICES ASSUME WorkspaceInv, Edits PROVE WorkspaceInv'
  OBVIOUS
<1> USE TreeFacts, ShapeFacts, WorkspaceAssumption DEF WorkspaceInv, Edits
<1>1. FlagsFit'
  BY DEF FlagsFit
<1>2. WorkspaceTypes'
  BY DEF WorkspaceTypes, TreesFit, TurnsAreTaken, ResetFits, Sessions, Boots
<1>3. TreesFit'
  <2>1. usedBy = session.sid /\ usedBy # 0 /\ tree' = Worked(usedBy)
    BY DEF WorkspaceTypes, TurnsAreTaken, Sessions
  <2> QED BY <2>1 DEF TreesFit
<1>4. TurnsAreTaken'
  BY DEF WorkspaceTypes, TurnsAreTaken, Sessions
<1>5. ResetFits'
  <2>1. reset.stage = "idle" /\ session.stage = "up"
    BY DEF TurnsAreTaken
  <2> QED BY <2>1 DEF ResetFits, Boots
<1>6. FoundBefore'
  BY DEF WorkspaceTypes, TurnsAreTaken, FoundBefore, EverySessionIsFound, dirRanSession
<1>7. WorkFits'
  BY DEF WorkspaceTypes, TreesFit, TurnsAreTaken, ResetFits, WorkFits, WorkIsKept, Accounted, Boots
<1> QED BY <1>1, <1>2, <1>3, <1>4, <1>5, <1>6, <1>7

\* What a session leaves is in the tree, under its name.
LEMMA SessionEndsKeepsRound == WorkspaceInv /\ SessionEnds => WorkspaceInv'
<1> SUFFICES ASSUME WorkspaceInv, SessionEnds PROVE WorkspaceInv'
  OBVIOUS
<1> USE TreeFacts, ShapeFacts, WorkspaceAssumption DEF WorkspaceInv, SessionEnds, disk, told
<1>1. FlagsFit'
  BY DEF FlagsFit
<1>2. WorkspaceTypes'
  BY DEF WorkspaceTypes, TreesFit, TurnsAreTaken, ResetFits, Sessions, Boots
<1>3. TreesFit'
  BY DEF WorkspaceTypes, TreesFit, TurnsAreTaken, ResetFits, Boots
<1>4. TurnsAreTaken'
  BY DEF WorkspaceTypes, TurnsAreTaken, Sessions
<1>5. ResetFits'
  BY DEF WorkspaceTypes, TreesFit, TurnsAreTaken, ResetFits, Boots
<1>6. FoundBefore'
  BY DEF WorkspaceTypes, TurnsAreTaken, FoundBefore, EverySessionIsFound, dirRanSession
<1>7. WorkFits'
  BY DEF WorkspaceTypes, TreesFit, TurnsAreTaken, ResetFits, WorkFits, WorkIsKept, Accounted, Boots
<1> QED BY <1>1, <1>2, <1>3, <1>4, <1>5, <1>6, <1>7

\* So it is when the process dies.
LEMMA SessionDiesKeepsRound == WorkspaceInv /\ SessionDies => WorkspaceInv'
<1> SUFFICES ASSUME WorkspaceInv, SessionDies PROVE WorkspaceInv'
  OBVIOUS
<1> USE TreeFacts, ShapeFacts, WorkspaceAssumption DEF WorkspaceInv, SessionDies, WorkspaceFault
<1>1. FlagsFit'
  BY DEF FlagsFit
<1>2. WorkspaceTypes'
  BY DEF WorkspaceTypes, TreesFit, TurnsAreTaken, ResetFits, Sessions, Boots
<1>3. TreesFit'
  BY DEF WorkspaceTypes, TreesFit, TurnsAreTaken, ResetFits, Boots
<1>4. TurnsAreTaken'
  BY DEF WorkspaceTypes, TurnsAreTaken, Sessions
<1>5. ResetFits'
  BY DEF WorkspaceTypes, TreesFit, TurnsAreTaken, ResetFits, Boots
<1>6. FoundBefore'
  BY DEF WorkspaceTypes, TurnsAreTaken, FoundBefore, EverySessionIsFound, dirRanSession
<1>7. WorkFits'
  BY DEF WorkspaceTypes, TreesFit, TurnsAreTaken, ResetFits, WorkFits, WorkIsKept, Accounted, Boots
<1> QED BY <1>1, <1>2, <1>3, <1>4, <1>5, <1>6, <1>7

\* Time passing changes no copy.
LEMMA AgesKeepsRound == WorkspaceInv /\ Ages => WorkspaceInv'
<1> SUFFICES ASSUME WorkspaceInv, Ages PROVE WorkspaceInv'
  OBVIOUS
<1> USE TreeFacts, ShapeFacts, WorkspaceAssumption DEF WorkspaceInv, Ages, told
<1>1. FlagsFit'
  BY DEF FlagsFit
<1>2. WorkspaceTypes'
  BY DEF WorkspaceTypes, TreesFit, TurnsAreTaken, ResetFits, Sessions, Boots
<1>3. TreesFit'
  BY DEF WorkspaceTypes, TreesFit, TurnsAreTaken, ResetFits, Boots
<1>4. TurnsAreTaken'
  BY DEF WorkspaceTypes, TurnsAreTaken, Sessions
<1>5. ResetFits'
  BY DEF WorkspaceTypes, TreesFit, TurnsAreTaken, ResetFits, Boots
<1>6. FoundBefore'
  BY DEF WorkspaceTypes, TurnsAreTaken, FoundBefore, EverySessionIsFound, dirRanSession
<1>7. WorkFits'
  BY DEF WorkspaceTypes, TreesFit, TurnsAreTaken, ResetFits, WorkFits, WorkIsKept, Accounted, Boots
<1> QED BY <1>1, <1>2, <1>3, <1>4, <1>5, <1>6, <1>7

\* Retention drops what can be made again only.
LEMMA SlimsKeepsRound == WorkspaceInv /\ Slims => WorkspaceInv'
<1> SUFFICES ASSUME WorkspaceInv, Slims PROVE WorkspaceInv'
  OBVIOUS
<1> USE TreeFacts, ShapeFacts, WorkspaceAssumption DEF WorkspaceInv, Slims, Reaped
<1>1. FlagsFit'
  BY DEF FlagsFit
<1>2. WorkspaceTypes'
  BY DEF WorkspaceTypes, TreesFit, TurnsAreTaken, ResetFits, Sessions, Boots
<1>3. TreesFit'
  BY DEF WorkspaceTypes, TreesFit, TurnsAreTaken, ResetFits, Boots
<1>4. TurnsAreTaken'
  BY DEF WorkspaceTypes, TurnsAreTaken, Sessions
<1>5. ResetFits'
  BY DEF WorkspaceTypes, TreesFit, TurnsAreTaken, ResetFits, Boots
<1>6. FoundBefore'
  BY DEF WorkspaceTypes, TurnsAreTaken, FoundBefore, EverySessionIsFound, dirRanSession
<1>7. WorkFits'
  BY DEF WorkspaceTypes, TreesFit, TurnsAreTaken, ResetFits, WorkFits, WorkIsKept, Accounted, Boots
<1> QED BY <1>1, <1>2, <1>3, <1>4, <1>5, <1>6, <1>7

\* An archive that cannot be read leaves the snapshot to repeat from.
LEMMA ArchiveRotsKeepsRound == WorkspaceInv /\ ArchiveRots => WorkspaceInv'
<1> SUFFICES ASSUME WorkspaceInv, ArchiveRots PROVE WorkspaceInv'
  OBVIOUS
<1> USE TreeFacts, ShapeFacts, WorkspaceAssumption DEF WorkspaceInv, ArchiveRots, WorkspaceFault, told
<1>1. FlagsFit'
  BY DEF FlagsFit
<1>2. WorkspaceTypes'
  BY DEF WorkspaceTypes, TreesFit, TurnsAreTaken, ResetFits, Sessions, Boots
<1>3. TreesFit'
  BY DEF WorkspaceTypes, TreesFit, TurnsAreTaken, ResetFits, Boots
<1>4. TurnsAreTaken'
  BY DEF WorkspaceTypes, TurnsAreTaken, Sessions
<1>5. ResetFits'
  BY DEF WorkspaceTypes, TreesFit, TurnsAreTaken, ResetFits, Boots
<1>6. FoundBefore'
  BY DEF WorkspaceTypes, TurnsAreTaken, FoundBefore, EverySessionIsFound, dirRanSession
<1>7. WorkFits'
  BY DEF WorkspaceTypes, TreesFit, TurnsAreTaken, ResetFits, WorkFits, WorkIsKept, Accounted, Boots
<1> QED BY <1>1, <1>2, <1>3, <1>4, <1>5, <1>6, <1>7

\* The invariant is inductive.
LEMMA WorkspaceStep == WorkspaceInv /\ [WorkspaceNext]_workspaceVars => WorkspaceInv'
<1>1. WorkspaceInv /\ WorkspaceNext => WorkspaceInv'
  BY FirstLaunchKeepsRound, ValidatesAgainKeepsRound, AsksToRepeatKeepsRound,
     PreservesKeepsRound, WipesKeepsRound, FillsKeepsRound, HealsKeepsRound,
     SpawnsKeepsRound, AppDiesKeepsRound, CopyStartsKeepsRound, CopyEndsKeepsRound,
     BanksKeepsRound, MarksKeepsRound, EntersKeepsRound, EditsKeepsRound,
     SessionEndsKeepsRound, SessionDiesKeepsRound, AgesKeepsRound, SlimsKeepsRound,
     ArchiveRotsKeepsRound
     DEF WorkspaceNext
<1>2. WorkspaceInv /\ UNCHANGED workspaceVars => WorkspaceInv'
  <2> SUFFICES ASSUME WorkspaceInv, UNCHANGED workspaceVars PROVE WorkspaceInv'
    OBVIOUS
  <2> USE DEF workspaceVars, disk, told, WorkspaceInv
  <2>1. FlagsFit' /\ WorkspaceTypes'
    BY DEF FlagsFit, WorkspaceTypes
  <2>2. TreesFit' /\ TurnsAreTaken' /\ ResetFits'
    BY DEF TreesFit, TurnsAreTaken, ResetFits
  <2>3. FoundBefore' /\ WorkFits'
    BY DEF FoundBefore, EverySessionIsFound, dirRanSession, WorkFits, WorkIsKept, Accounted
  <2> QED BY <2>1, <2>2, <2>3
<1> QED BY <1>1, <1>2

\* A round that was validated, or that ran once before there were archives.
LEMMA WorkspaceStarts == WorkspaceInit => WorkspaceInv
<1> SUFFICES ASSUME WorkspaceInit PROVE WorkspaceInv
  OBVIOUS
<1> USE TreeFacts, ShapeFacts, WorkspaceAssumption DEF WorkspaceInit
<1>1. 1 \in Sessions /\ Sessions \subseteq Nat
  BY DEF Sessions
<1>2. saved \in [Sessions -> Copies] /\ \A s \in Sessions : saved[s] = None
  OBVIOUS
<1>3. FlagsFit
  BY DEF FlagsFit
<1>4. WorkspaceTypes
  BY <1>1, <1>2 DEF WorkspaceTypes
<1>5. TreesFit
  BY <1>1 DEF TreesFit
<1>6. TurnsAreTaken
  BY <1>1, <1>2 DEF TurnsAreTaken
<1>7. ResetFits /\ FoundBefore
  BY <1>1 DEF ResetFits, FoundBefore, EverySessionIsFound, dirRanSession, Boots
<1>8. WorkFits
  BY <1>1, <1>2 DEF WorkFits, WorkIsKept, Accounted
<1> QED BY <1>3, <1>4, <1>5, <1>6, <1>7, <1>8 DEF WorkspaceInv

\* And it says what the run checks.
LEMMA WorkspaceKeeps == WorkspaceInv => RepeatsAreSafe
<1> SUFFICES ASSUME WorkspaceInv PROVE StartsPristine
  BY DEF WorkspaceInv, FoundBefore, WorkFits, RepeatsAreSafe
<1> QED BY DEF WorkspaceInv, ResetFits, StartsPristine

---------------------------------------------------------------------------
(* A plan that changes.                                                    *)

\* The shape that item i has once the plan is looked at.
HeldBy(i) == IF i \in Behind THEN record.to[i] ELSE queue[i].shape

\* The shape that difference d means item i to have.
Heading(d, i) == IF d.to[i] # 0 THEN d.to[i] ELSE d.basis.at[i]

\* A difference knows shapes the plan still has, and while the plan has no
\* others leads every item that waits to one of those that hold.
DifferenceFits(d) ==
  /\ d.drop \in shapes \cup {0}
  /\ d.basis.shapes \subseteq shapes
  /\ \A i \in Slots : d.to[i] # 0 => d.from[i] = d.basis.at[i] /\ d.from[i] # d.to[i]
  /\ d.basis.shapes = shapes =>
       \A i \in Slots : queue[i].status = "pending" =>
         Heading(d, i) \in (shapes \ (retired \cup {d.drop})) \cup {d.new}

\* What a crash kept from the queue is still in the last record.
RecordFits ==
  /\ \A i \in Slots : record.to[i] # 0 => record.from[i] # record.to[i]
  /\ ~ outdated =>
       \A i \in Slots : queue[i].status = "pending" => HeldBy(i) \notin retired

\* A build under way is of the shape its item has, too.
BuildsFit ==
  \A i \in Slots :
    queue[i].status \in {"generating", "ready"} =>
      built[i] = queue[i].shape \/ queue[i].stale

AdaptInv ==
  /\ AdaptTypeOK
  /\ \A d \in previews : DifferenceFits(d)
  /\ RecordFits
  /\ NothingWaitsRetired
  /\ BuildsFit

\* The lowest of a set of numbers.
LEMMA HasLowest ==
  ASSUME NEW n \in Nat, NEW S, S \subseteq 1..n, S # {}
  PROVE  \E x \in S : \A y \in S : x <= y
<1> DEFINE T == {1..x : x \in S}
<1>1. T \subseteq SUBSET (1..n) /\ T # {}
  <2>1. \A x \in S : 1..x \subseteq 1..n
    BY SMT
  <2>2. PICK x \in S : TRUE
    OBVIOUS
  <2>3. 1..x \in T
    OBVIOUS
  <2> QED BY <2>1, <2>3
<1>2. IsWellFoundedOn(StrictSubsetOrdering(1..n), SUBSET (1..n))
  <2>1. IsFiniteSet(1..n)
    BY FS_Interval
  <2>2. FiniteSubsetsOf(1..n) = SUBSET (1..n)
    BY <2>1, FS_FiniteSubsetsOfFinite
  <2> QED BY <2>1, <2>2, FS_StrictSubsetOrderingWellFounded, Zenon
<1>3. \E t \in T : \A u \in T : ~ (<<u, t>> \in StrictSubsetOrdering(1..n))
  <2> HIDE DEF T
  <2> QED BY <1>1, <1>2, WFMin, Zenon
<1>4. PICK x \in S : \A y \in S : ~ (<<1..y, 1..x>> \in StrictSubsetOrdering(1..n))
  BY <1>3
<1>5. ASSUME NEW y \in S, y < x PROVE FALSE
  <2>1. /\ 1..y \in SUBSET (1..n) /\ 1..x \in SUBSET (1..n)
        /\ 1..y \subseteq 1..x /\ x \in 1..x /\ x \notin 1..y
    BY <1>5
  <2> QED BY <1>4, <2>1 DEF StrictSubsetOrdering
<1> QED BY <1>5

\* And the highest, which is the lowest counted from the other end.
LEMMA HasHighest ==
  ASSUME NEW n \in Nat, NEW S, S \subseteq 1..n, S # {}
  PROVE  \E x \in S : \A y \in S : y <= x
<1> DEFINE R == {n + 1 - x : x \in S}
<1>1. R \subseteq 1..n /\ R # {}
  <2>1. \A x \in S : n + 1 - x \in 1..n
    OBVIOUS
  <2>2. PICK x \in S : TRUE
    OBVIOUS
  <2>3. n + 1 - x \in R
    OBVIOUS
  <2> QED BY <2>1, <2>3
<1>2. PICK z \in R : \A y \in R : z <= y
  <2> HIDE DEF R
  <2> QED BY <1>1, HasLowest
<1>3. PICK x \in S : z = n + 1 - x
  BY <1>2
<1>4. \A y \in S : n + 1 - y \in R
  OBVIOUS
<1>5. \A y \in S : n + 1 - x <= n + 1 - y
  BY <1>2, <1>3, <1>4
<1>6. x \in Nat /\ \A y \in S : y \in Nat
  OBVIOUS
<1>7. ASSUME NEW y \in S PROVE y <= x
  <2>1. y \in Nat /\ n + 1 - x <= n + 1 - y
    BY <1>5, <1>6
  <2> QED BY <1>6, <2>1, SMT
<1> QED BY <1>7

\* Whatever its turn, an item gets one of the shapes dealt out.
LEMMA NthIsIn ==
  ASSUME NEW n \in Nat, NEW S, S \subseteq 1..n, S # {}, NEW k \in Nat
  PROVE  Nth(S, k) \in S
<1> DEFINE Below(x) == {y \in S : y < x}
           r == k % Cardinality(S)
           A == {x \in S : Cardinality(Below(x)) >= r}
<1>1. IsFiniteSet(S) /\ Cardinality(S) \in Nat \ {0}
  <2>1. IsFiniteSet(1..n)
    BY FS_Interval
  <2>2. IsFiniteSet(S)
    BY <2>1, FS_Subset
  <2>3. Cardinality(S) \in Nat /\ Cardinality(S) # 0
    BY <2>2, FS_CardinalityType, FS_EmptySet
  <2> QED BY <2>2, <2>3
<1>2. r \in 0..(Cardinality(S) - 1)
  BY <1>1
<1>3. \A x : Cardinality(Below(x)) \in Nat /\ IsFiniteSet(Below(x))
  BY <1>1, FS_Subset, FS_CardinalityType
<1>4. A # {}
  <2>1. PICK x \in S : \A y \in S : y <= x
    BY HasHighest
  <2>2. \A y \in S : y < x <=> y # x
    BY <2>1
  <2>3. Below(x) = S \ {x}
    BY <2>2
  <2>4. Cardinality(Below(x)) = Cardinality(S) - 1
    BY <1>1, <2>3, FS_RemoveElement
  <2> QED BY <1>1, <1>2, <2>4
<1>5. PICK m \in A : \A y \in A : m <= y
  BY <1>4, HasLowest
<1>6. ASSUME Cardinality(Below(m)) > r PROVE FALSE
  <2>1. Below(m) # {} /\ Below(m) \subseteq 1..n
    <3>1. Cardinality(Below(m)) # 0
      BY <1>2, <1>6
    <3> QED BY <3>1, FS_EmptySet
  <2>2. PICK p \in Below(m) : \A y \in Below(m) : y <= p
    BY <2>1, HasHighest
  <2>3. Below(p) = Below(m) \ {p}
    <3>1. m \in S /\ p \in S /\ p < m
      BY <1>5, <2>2
    <3>2. \A y \in S : y < p => y < m /\ y # p
      BY <3>1
    <3>3. \A y \in S : y < m /\ y # p => y < p
      <4> TAKE y \in S
      <4>1. y < m => y <= p
        BY <2>2
      <4>2. y \in Nat /\ p \in Nat
        BY <3>1
      <4> QED BY <4>1, <4>2
    <3> QED BY <3>2, <3>3
  <2>4. Cardinality(Below(p)) = Cardinality(Below(m)) - 1
    BY <1>3, <2>2, <2>3, FS_RemoveElement
  <2>5. p \in A
    BY <1>2, <1>3, <1>6, <2>2, <2>4
  <2> QED BY <1>5, <2>2, <2>5
<1>7. m \in S /\ Cardinality(Below(m)) = r
  BY <1>2, <1>3, <1>5, <1>6
<1>8. Nth(S, k) = CHOOSE x \in S : Cardinality(Below(x)) = r
  BY DEF Nth
<1> QED BY <1>7, <1>8, Zenon

\* What a difference means an item to have is a shape, and one that holds when
\* the item is not built.
LEMMA TargetFits ==
  ASSUME AdaptTypeOK, NEW new \in 1..MaxShapes, NEW drop, NEW i \in Slots
  PROVE  /\ Target(i, new, drop) \in 1..MaxShapes
         /\ Reshapeable(queue, i) => Target(i, new, drop) \in ActiveWith(new, drop)
<1> DEFINE Before == {j \in Slots : j < i /\ Reshapeable(queue, j)}
<1>1. Cardinality(Before) \in Nat
  BY AdaptAssumption, FS_Subset, FS_CardinalityType
<1>2. ActiveWith(new, drop) \subseteq 1..MaxShapes /\ ActiveWith(new, drop) # {}
  BY DEF AdaptTypeOK, ActiveWith
<1>3. Nth(ActiveWith(new, drop), Cardinality(Before)) \in ActiveWith(new, drop)
  <2> HIDE DEF Before
  <2> QED BY <1>1, <1>2, NthIsIn, AdaptAssumption
<1>4. queue[i].shape \in 1..MaxShapes
  BY DEF AdaptTypeOK, Item
<1> QED BY <1>2, <1>3, <1>4 DEF Target

\* What every item of a queue is.
LEMMA ItemFacts ==
  AdaptTypeOK =>
    \A i \in Slots :
      /\ queue[i] \in Item
      /\ queue[i].status \in {"pending", "generating", "ready", "failed", "done"}
      /\ queue[i].shape \in 1..MaxShapes /\ queue[i].stale \in BOOLEAN
BY DEF AdaptTypeOK, Item

\* One item of the queue changed.
LEMMA ItemIsMoved ==
  \A q \in Item, sh \in 1..MaxShapes :
    LET c == [q EXCEPT !.shape = sh] IN
    c \in Item /\ c.status = q.status /\ c.shape = sh /\ c.stale = q.stale
BY DEF Item

Differences ==
  [new : 1..MaxShapes, drop : 0..MaxShapes, from : Pointers, to : Pointers,
   flagged : SUBSET Slots, basis : [shapes : SUBSET (1..MaxShapes), at : Pointers]]

\* A difference as it is computed.
LEMMA DifferenceIsFit ==
  ASSUME AdaptTypeOK, NEW new \in 1..MaxShapes, NEW drop \in (shapes \ retired) \cup {0}
  PROVE  /\ Difference(new, drop) \in Differences
         /\ DifferenceFits(Difference(new, drop))
<1> DEFINE D == Difference(new, drop)
<1>1. \A i \in Slots : Target(i, new, drop) \in 1..MaxShapes
  BY TargetFits
<1>2. D = [new |-> new, drop |-> drop, from |-> D.from, to |-> D.to, flagged |-> D.flagged,
           basis |-> [shapes |-> shapes, at |-> D.basis.at]]
      /\ D.flagged \subseteq Slots
  BY DEF Difference, Basis
<1>3. /\ D.from \in Pointers /\ D.to \in Pointers /\ D.basis.at \in Pointers
      /\ \A i \in Slots :
           /\ D.basis.at[i] = queue[i].shape
           /\ D.to[i] # 0 => D.from[i] = D.basis.at[i] /\ D.from[i] # D.to[i]
           /\ Heading(D, i) = Target(i, new, drop)
  <2>1. D.from = [i \in Slots |-> IF Target(i, new, drop) # queue[i].shape
                                  THEN queue[i].shape ELSE 0]
        /\ D.to = [i \in Slots |-> IF Target(i, new, drop) # queue[i].shape
                                   THEN Target(i, new, drop) ELSE 0]
        /\ D.basis.at = [i \in Slots |-> queue[i].shape]
    BY DEF Difference, Basis
  <2>2. \A i \in Slots : queue[i].shape \in 1..MaxShapes
    BY ItemFacts
  <2> HIDE DEF D
  <2> QED BY <1>1, <2>1, <2>2, AdaptAssumption DEF Pointers, Heading
<1>4. shapes \subseteq 1..MaxShapes /\ drop \in 0..MaxShapes
  BY AdaptAssumption DEF AdaptTypeOK
<1>5. \A i \in Slots : queue[i].status = "pending" =>
        Heading(D, i) \in (shapes \ (retired \cup {drop})) \cup {new}
  BY <1>3, TargetFits DEF ActiveWith, Reshapeable
<1> HIDE DEF D
<1>6. D.basis \in [shapes : SUBSET (1..MaxShapes), at : Pointers] /\ D.basis.shapes = shapes
      /\ D.new = new /\ D.drop = drop
  <2>1. PICK at : at = D.basis.at
    OBVIOUS
  <2>2. D.basis = [shapes |-> shapes, at |-> at]
    BY <1>2, <2>1
  <2> QED BY <1>2, <1>3, <1>4, <2>1, <2>2
<1>7. D \in Differences
  BY <1>2, <1>3, <1>4, <1>6 DEF Differences
<1>8. DifferenceFits(D)
  BY <1>3, <1>4, <1>5, <1>6 DEF DifferenceFits
<1> QED BY <1>7, <1>8 DEF D

\* One lemma for every action on a plan. A preview is of the plan as it stands.
LEMMA PreviewKeepsPlan == AdaptInv /\ Previews => AdaptInv'
<1> SUFFICES ASSUME AdaptInv, Previews PROVE AdaptInv'
  OBVIOUS
<1>1. PICK new \in 1..MaxShapes, drop \in (shapes \ retired) \cup {0} :
        previews' = previews \cup {Difference(new, drop)}
  BY DEF Previews
<1>2. UNCHANGED <<shapes, retired, record, queue, built, outdated, looked>>
  BY DEF Previews
<1>3. Difference(new, drop) \in Differences /\ DifferenceFits(Difference(new, drop))
  BY DifferenceIsFit DEF AdaptInv
<1>4. AdaptTypeOK'
  BY <1>1, <1>2, <1>3 DEF AdaptInv, AdaptTypeOK, Differences
<1>5. \A d : DifferenceFits(d) => DifferenceFits(d)'
  BY <1>2 DEF DifferenceFits, Heading
<1>6. \A d \in previews' : DifferenceFits(d)'
  BY <1>1, <1>3, <1>5 DEF AdaptInv
<1>7. RecordFits' /\ NothingWaitsRetired' /\ BuildsFit'
  BY <1>2 DEF AdaptInv, RecordFits, HeldBy, Behind, Reshapeable, NothingWaitsRetired, BuildsFit
<1> QED BY <1>4, <1>6, <1>7 DEF AdaptInv

\* A preview less is no harm.
LEMMA DiscardKeepsPlan == ASSUME AdaptInv, NEW d \in previews, Discards(d) PROVE AdaptInv'
<1> USE DEF AdaptInv, Discards
<1>1. AdaptTypeOK'
  BY DEF AdaptTypeOK
<1>2. \A e \in previews' : DifferenceFits(e)'
  BY DEF DifferenceFits, Heading
<1>3. RecordFits' /\ NothingWaitsRetired' /\ BuildsFit'
  BY DEF RecordFits, HeldBy, Behind, Reshapeable, NothingWaitsRetired, BuildsFit
<1> QED BY <1>1, <1>2, <1>3

\* What target.json holds once a difference is applied, whether or not
\* queue.json follows.
LEMMA TargetIsCommitted ==
  ASSUME AdaptInv, NEW d \in previews, CommitsTarget(d)
  PROVE  /\ shapes' \subseteq 1..MaxShapes /\ retired' \subseteq shapes'
         /\ record' \in [from : Pointers, to : Pointers]
         /\ outdated' \in BOOLEAN
         /\ \A e \in previews' : e \in Differences
         /\ \A e \in previews' : DifferenceFits(e)'
         /\ \A i \in Slots : record'.to[i] = IF Applied(d, i) THEN d.to[i] ELSE 0
         /\ \A i \in Slots : record'.to[i] # 0 =>
              record'.from[i] = d.basis.at[i] /\ record'.from[i] # record'.to[i]
         /\ ~ outdated' =>
              /\ ~ outdated
              /\ \A i \in Slots : d.basis.at[i] = queue[i].shape
              /\ \A i \in Slots : queue[i].status = "pending" => Heading(d, i) \notin retired'
<1>1. /\ d \in Differences /\ d.new \in 1..MaxShapes /\ d.drop \in 0..MaxShapes
      /\ d.from \in Pointers /\ d.to \in Pointers
      /\ DifferenceFits(d)
  BY DEF AdaptInv, AdaptTypeOK, Differences
<1>2. /\ d.new \notin shapes
      /\ shapes' = shapes \cup {d.new} /\ retired' = retired \cup ({d.drop} \ {0})
      /\ outdated' = (outdated \/ d.basis # Basis) /\ previews' = previews \ {d}
  BY DEF CommitsTarget
<1>3. shapes \subseteq 1..MaxShapes /\ retired \subseteq shapes /\ outdated \in BOOLEAN
  BY DEF AdaptInv, AdaptTypeOK
<1>4. shapes' \subseteq 1..MaxShapes /\ retired' \subseteq shapes' /\ d.new \notin retired'
  BY <1>1, <1>2, <1>3, AdaptAssumption DEF DifferenceFits
<1>5. outdated' \in BOOLEAN
  BY <1>2, <1>3
<1>6. /\ record' \in [from : Pointers, to : Pointers]
      /\ \A i \in Slots : record'.to[i] = IF Applied(d, i) THEN d.to[i] ELSE 0
      /\ \A i \in Slots : record'.from[i] = IF Applied(d, i) THEN d.from[i] ELSE 0
  <2>1. PICK from, to :
          /\ from = [i \in Slots |-> IF Applied(d, i) THEN d.from[i] ELSE 0]
          /\ to = [i \in Slots |-> IF Applied(d, i) THEN d.to[i] ELSE 0]
          /\ record' = [from |-> from, to |-> to]
    BY DEF CommitsTarget
  <2>2. from \in Pointers /\ to \in Pointers
    BY <1>1, <2>1, AdaptAssumption DEF Pointers
  <2> QED BY <2>1, <2>2
<1>7. \A i \in Slots : record'.to[i] # 0 =>
        record'.from[i] = d.basis.at[i] /\ record'.from[i] # record'.to[i]
  BY <1>1, <1>6 DEF DifferenceFits, Applied
<1>8. \A e \in previews' : e \in Differences
  BY <1>2 DEF AdaptInv, AdaptTypeOK, Differences
<1>9. \A e \in previews' : DifferenceFits(e)'
  <2> SUFFICES ASSUME NEW e \in previews' PROVE DifferenceFits(e)'
    OBVIOUS
  <2>1. DifferenceFits(e)
    BY <1>2 DEF AdaptInv
  <2>2. e.basis.shapes # shapes'
    BY <1>2, <2>1 DEF DifferenceFits
  <2> QED BY <1>2, <2>1, <2>2 DEF DifferenceFits
<1>10. ASSUME ~ outdated'
       PROVE  /\ ~ outdated
              /\ \A i \in Slots : d.basis.at[i] = queue[i].shape
              /\ \A i \in Slots : queue[i].status = "pending" => Heading(d, i) \notin retired'
  <2>1. ~ outdated /\ d.basis = Basis
    BY <1>2, <1>10
  <2>2. d.basis.shapes = shapes /\ \A i \in Slots : d.basis.at[i] = queue[i].shape
    BY <2>1 DEF Basis
  <2>3. \A i \in Slots : queue[i].status = "pending" =>
          Heading(d, i) \in (shapes \ (retired \cup {d.drop})) \cup {d.new}
    BY <1>1, <2>2 DEF DifferenceFits
  <2> QED BY <1>2, <1>4, <2>1, <2>2, <2>3
<1> QED BY <1>4, <1>5, <1>6, <1>7, <1>8, <1>9, <1>10

\* Applying moves each item off its retired shape and marks what is built.
LEMMA ApplyKeepsPlan == ASSUME AdaptInv, NEW d \in previews, Applies(d) PROVE AdaptInv'
<1>1. CommitsTarget(d) /\ queue' = After(d) /\ UNCHANGED <<built, looked>>
  BY DEF Applies
<1>2. d \in Differences /\ d.to \in Pointers
  BY DEF AdaptInv, AdaptTypeOK, Differences
<1>3. \A i \in Slots :
        /\ queue'[i] \in Item
        /\ queue'[i].status = queue[i].status
        /\ queue'[i].shape = IF Applied(d, i) THEN d.to[i] ELSE queue[i].shape
        /\ queue'[i].stale = (queue[i].stale \/ (queue[i].status = "ready"
                                /\ (Applied(d, i) \/ i \in d.flagged)))
  <2> TAKE i \in Slots
  <2>1. PICK sh, st :
          /\ sh = IF Applied(d, i) THEN d.to[i] ELSE queue[i].shape
          /\ st = (queue[i].stale \/ (queue[i].status = "ready" /\ (Applied(d, i) \/ i \in d.flagged)))
    OBVIOUS
  <2>2. queue'[i] = [queue[i] EXCEPT !.shape = sh, !.stale = st]
    BY <1>1, <2>1 DEF After
  <2>3. queue[i] \in Item /\ queue[i].shape \in 1..MaxShapes /\ queue[i].stale \in BOOLEAN
    BY ItemFacts DEF AdaptInv
  <2>4. sh \in 1..MaxShapes
    <3>1. d.to[i] \in 0..MaxShapes
      BY <1>2 DEF Pointers
    <3> QED BY <2>1, <2>3, <3>1, AdaptAssumption DEF Applied
  <2>5. st \in BOOLEAN
    BY <2>1
  <2>6. PICK q, c : q = queue[i] /\ c = [q EXCEPT !.shape = sh, !.stale = st]
    OBVIOUS
  <2>7. c \in Item /\ c.status = q.status /\ c.shape = sh /\ c.stale = st
    <3>1. q \in Item
      BY <2>3, <2>6
    <3>2. c = [status |-> q.status, shape |-> sh, stale |-> st]
      BY <2>6, <3>1 DEF Item
    <3>3. q.status \in {"pending", "generating", "ready", "failed", "done"}
      BY <3>1 DEF Item
    <3> QED BY <2>4, <2>5, <3>2, <3>3 DEF Item
  <2>8. queue'[i] = c
    BY <2>2, <2>6, Zenon
  <2> QED BY <2>1, <2>6, <2>7, <2>8
<1>4. queue' \in [Slots -> Item]
  BY <1>1, <1>3 DEF After
<1>5. AdaptTypeOK'
  BY <1>1, <1>4, TargetIsCommitted DEF AdaptInv, AdaptTypeOK, Differences
<1>6. \A e \in previews' : DifferenceFits(e)'
  BY <1>1, TargetIsCommitted
<1>7. \A i \in Slots : HeldBy(i)' = queue'[i].shape
  <2>1. \A i \in Slots : record'.to[i] # 0 => queue'[i].shape # record'.from[i]
    BY <1>1, <1>3, TargetIsCommitted
  <2> QED BY <2>1 DEF HeldBy, Behind
<1>8. ~ outdated' => \A i \in Slots : queue'[i].status = "pending" => queue'[i].shape \notin retired'
  <2> SUFFICES ASSUME ~ outdated', NEW i \in Slots, queue'[i].status = "pending"
               PROVE  queue'[i].shape \notin retired'
    OBVIOUS
  <2>1. d.basis.at[i] = queue[i].shape /\ Heading(d, i) \notin retired'
    BY <1>1, <1>3, TargetIsCommitted
  <2>2. queue'[i].shape = Heading(d, i)
    BY <1>3, <2>1 DEF Applied, Movable, Reshapeable, Heading
  <2> QED BY <2>1, <2>2
<1>9. RecordFits'
  <2>1. \A i \in Slots : record'.to[i] # 0 => record'.from[i] # record'.to[i]
    BY <1>1, TargetIsCommitted
  <2> QED BY <1>7, <1>8, <2>1 DEF RecordFits
<1>10. NothingWaitsRetired'
  BY <1>8 DEF NothingWaitsRetired
<1>11. BuildsFit'
  BY <1>1, <1>3 DEF AdaptInv, BuildsFit, Applied, Movable, Reshapeable
<1> QED BY <1>5, <1>6, <1>9, <1>10, <1>11 DEF AdaptInv

\* The record holds what the queue did not get.
LEMMA DeathKeepsPlan == ASSUME AdaptInv, NEW d \in previews, DiesApplying(d) PROVE AdaptInv'
<1>1. CommitsTarget(d) /\ UNCHANGED <<queue, built>> /\ looked' = FALSE
  BY DEF DiesApplying
<1>2. AdaptTypeOK'
  BY <1>1, TargetIsCommitted DEF AdaptInv, AdaptTypeOK, Differences
<1>3. \A e \in previews' : DifferenceFits(e)'
  BY <1>1, TargetIsCommitted
<1>4. RecordFits'
  <2>1. \A i \in Slots : record'.to[i] # 0 => record'.from[i] # record'.to[i]
    BY <1>1, TargetIsCommitted
  <2>2. ASSUME ~ outdated', NEW i \in Slots, queue'[i].status = "pending"
        PROVE  HeldBy(i)' \notin retired'
    <3>1. d.basis.at[i] = queue[i].shape /\ Heading(d, i) \notin retired'
          /\ (Applied(d, i) <=> d.to[i] # 0)
      BY <1>1, <2>2, TargetIsCommitted DEF Applied, Movable, Reshapeable
    <3>2. CASE d.to[i] # 0
      <4>1. i \in Behind'
        BY <1>1, <2>2, <3>1, <3>2, TargetIsCommitted DEF Behind, Reshapeable
      <4> QED BY <1>1, <3>1, <3>2, <4>1, TargetIsCommitted DEF HeldBy, Heading
    <3>3. CASE d.to[i] = 0
      <4>1. i \notin Behind'
        BY <1>1, <3>1, <3>3, TargetIsCommitted DEF Behind
      <4> QED BY <1>1, <3>1, <3>3, <4>1 DEF HeldBy, Heading
    <3> QED BY <3>2, <3>3
  <2> QED BY <2>1, <2>2 DEF RecordFits
<1>5. NothingWaitsRetired' /\ BuildsFit'
  BY <1>1 DEF AdaptInv, NothingWaitsRetired, BuildsFit
<1> QED BY <1>2, <1>3, <1>4, <1>5 DEF AdaptInv

\* Looking again writes nothing but what was read.
LEMMA LookKeepsPlan == AdaptInv /\ Looks => AdaptInv'
<1> SUFFICES ASSUME AdaptInv, Looks PROVE AdaptInv'
  OBVIOUS
<1>1. UNCHANGED <<shapes, retired, record, built, previews, outdated>> /\ looked' = TRUE
  BY DEF Looks
<1>2. \A i \in Slots :
        /\ queue'[i] \in Item
        /\ queue'[i].status = queue[i].status /\ queue'[i].stale = queue[i].stale
        /\ queue'[i].shape = HeldBy(i)
  <2> TAKE i \in Slots
  <2>1. queue'[i] = IF i \in Behind THEN [queue[i] EXCEPT !.shape = HeldBy(i)] ELSE queue[i]
    BY DEF Looks, HeldBy
  <2>2. queue[i] \in Item
    BY ItemFacts DEF AdaptInv
  <2>3. HeldBy(i) \in 1..MaxShapes
    BY ItemFacts, AdaptAssumption DEF AdaptInv, AdaptTypeOK, HeldBy, Behind, Pointers
  <2> QED BY <2>1, <2>2, <2>3, ItemIsMoved DEF HeldBy
<1>3. queue' \in [Slots -> Item]
  BY <1>2 DEF Looks
<1>4. AdaptTypeOK'
  BY <1>1, <1>3 DEF AdaptInv, AdaptTypeOK
<1>5. \A d \in previews' : DifferenceFits(d)'
  BY <1>1, <1>2 DEF AdaptInv, DifferenceFits, Heading
<1>6. \A i \in Slots : HeldBy(i)' = HeldBy(i)
  <2>1. \A i \in Slots : i \notin Behind'
    BY <1>1, <1>2 DEF AdaptInv, RecordFits, HeldBy, Behind, Reshapeable
  <2> QED BY <1>2, <2>1 DEF HeldBy
<1>7. RecordFits' /\ NothingWaitsRetired'
  BY <1>1, <1>2, <1>6 DEF AdaptInv, RecordFits, NothingWaitsRetired
<1>8. BuildsFit'
  BY <1>1, <1>2 DEF AdaptInv, BuildsFit, HeldBy, Behind, Reshapeable
<1> QED BY <1>4, <1>5, <1>7, <1>8 DEF AdaptInv

\* The builds and launches meanwhile: an item that waits still waited before,
\* and one that is built is built as it is.
LEMMA ItemMovesKeepPlan ==
  ASSUME AdaptInv, queue' \in [Slots -> Item], built' \in [Slots -> 0..MaxShapes],
         UNCHANGED <<shapes, retired, record, previews, outdated, looked>>,
         \A i \in Slots :
           /\ queue'[i].shape = queue[i].shape
           /\ queue'[i].status = "pending" => queue[i].status = "pending",
         BuildsFit'
  PROVE  AdaptInv'
<1>1. AdaptTypeOK'
  BY DEF AdaptInv, AdaptTypeOK
<1>2. \A d \in previews' : DifferenceFits(d)'
  BY DEF AdaptInv, DifferenceFits, Heading
<1>3. \A i \in Slots : queue'[i].status = "pending" => HeldBy(i)' = HeldBy(i)
  BY DEF HeldBy, Behind, Reshapeable
<1>4. RecordFits'
  BY <1>3 DEF AdaptInv, RecordFits
<1>5. NothingWaitsRetired'
  BY DEF AdaptInv, NothingWaitsRetired
<1> QED BY <1>1, <1>2, <1>4, <1>5 DEF AdaptInv

\* One item with another status.
LEMMA StatusIsSet ==
  \A q \in Item, s \in {"pending", "generating", "ready", "failed", "done"} :
    LET c == [q EXCEPT !.status = s] IN
    c \in Item /\ c.status = s /\ c.shape = q.shape /\ c.stale = q.stale
BY DEF Item

\* An item whose status is set.
LEMMA SetsFacts ==
  ASSUME AdaptTypeOK, NEW i \in Slots,
         NEW s \in {"pending", "generating", "ready", "failed", "done"}, Sets(i, s)
  PROVE  /\ queue' \in [Slots -> Item]
         /\ \A j \in Slots :
              /\ queue'[j].shape = queue[j].shape /\ queue'[j].stale = queue[j].stale
              /\ queue'[j].status = IF j = i THEN s ELSE queue[j].status
<1>1. \A j \in Slots : queue[j] \in Item
  BY ItemFacts
<1>2. PICK c : c = [queue[i] EXCEPT !.status = s]
  OBVIOUS
<1>3. c \in Item /\ c.status = s /\ c.shape = queue[i].shape /\ c.stale = queue[i].stale
  BY <1>1, <1>2, StatusIsSet
<1>4. queue' = [queue EXCEPT ![i] = c] /\ queue \in [Slots -> Item]
  BY <1>2 DEF Sets, AdaptTypeOK
<1> QED BY <1>3, <1>4

\* A build is of the shape the item has.
LEMMA BuildKeepsPlan == ASSUME AdaptInv, NEW i \in Slots, Builds(i) PROVE AdaptInv'
<1>1. /\ queue[i].status \in {"pending", "failed"} /\ Sets(i, "generating")
      /\ built' = [built EXCEPT ![i] = queue[i].shape]
      /\ UNCHANGED <<shapes, retired, record, previews, outdated, looked>>
  BY DEF Builds
<1>2. queue' \in [Slots -> Item]
      /\ \A j \in Slots :
           /\ queue'[j].shape = queue[j].shape /\ queue'[j].stale = queue[j].stale
           /\ queue'[j].status = IF j = i THEN "generating" ELSE queue[j].status
  BY <1>1, SetsFacts DEF AdaptInv
<1>3. built' \in [Slots -> 0..MaxShapes]
      /\ \A j \in Slots : built'[j] = IF j = i THEN queue[i].shape ELSE built[j]
  BY <1>1, ItemFacts, AdaptAssumption DEF AdaptInv, AdaptTypeOK
<1>4. BuildsFit'
  BY <1>2, <1>3 DEF AdaptInv, BuildsFit
<1>5. \A j \in Slots : queue'[j].shape = queue[j].shape
                       /\ (queue'[j].status = "pending" => queue[j].status = "pending")
  BY <1>2
<1> QED BY <1>1, <1>2, <1>3, <1>4, <1>5, ItemMovesKeepPlan

\* A rebuild takes the mark away with what was built.
LEMMA RebuildKeepsPlan == ASSUME AdaptInv, NEW i \in Slots, RebuildsIt(i) PROVE AdaptInv'
<1>1. /\ queue' = [queue EXCEPT ![i].status = "generating", ![i].stale = FALSE]
      /\ built' = [built EXCEPT ![i] = queue[i].shape]
      /\ UNCHANGED <<shapes, retired, record, previews, outdated, looked>>
  BY DEF RebuildsIt
<1>2. PICK c : c = [queue[i] EXCEPT !.status = "generating", !.stale = FALSE]
  OBVIOUS
<1>3. c \in Item /\ c.status = "generating" /\ c.shape = queue[i].shape
  <2>1. queue[i] \in Item
    BY ItemFacts DEF AdaptInv
  <2> QED BY <1>2, <2>1 DEF Item
<1>4. queue' = [queue EXCEPT ![i] = c]
  BY <1>1, <1>2, Zenon
<1>5. queue' \in [Slots -> Item] /\ \A j \in Slots : queue'[j] = IF j = i THEN c ELSE queue[j]
  BY <1>3, <1>4 DEF AdaptInv, AdaptTypeOK
<1>6. built' \in [Slots -> 0..MaxShapes]
      /\ \A j \in Slots : built'[j] = IF j = i THEN queue[i].shape ELSE built[j]
  BY <1>1, ItemFacts, AdaptAssumption DEF AdaptInv, AdaptTypeOK
<1>7. BuildsFit'
  BY <1>3, <1>5, <1>6 DEF AdaptInv, BuildsFit
<1>8. \A j \in Slots : queue'[j].shape = queue[j].shape
                       /\ (queue'[j].status = "pending" => queue[j].status = "pending")
  BY <1>3, <1>5
<1> QED BY <1>1, <1>5, <1>6, <1>7, <1>8, ItemMovesKeepPlan

\* A build ends on the item it was begun for.
LEMMA EndKeepsPlan ==
  ASSUME AdaptInv, NEW i \in Slots, Finishes(i) \/ IsPlayed(i)
  PROVE  AdaptInv'
<1>1. /\ UNCHANGED <<shapes, retired, record, built, previews, outdated, looked>>
      /\ queue[i].status \in {"generating", "ready"}
  BY DEF Finishes, IsPlayed
<1>2. PICK s \in {"ready", "failed", "done"} : Sets(i, s)
  BY DEF Finishes, IsPlayed
<1>3. queue' \in [Slots -> Item]
      /\ \A j \in Slots :
           /\ queue'[j].shape = queue[j].shape /\ queue'[j].stale = queue[j].stale
           /\ queue'[j].status = IF j = i THEN s ELSE queue[j].status
  BY <1>2, SetsFacts DEF AdaptInv
<1>4. built' \in [Slots -> 0..MaxShapes]
  BY <1>1 DEF AdaptInv, AdaptTypeOK
<1>5. BuildsFit'
  BY <1>1, <1>3 DEF AdaptInv, BuildsFit
<1>6. \A j \in Slots : queue'[j].shape = queue[j].shape
                       /\ (queue'[j].status = "pending" => queue[j].status = "pending")
  BY <1>2, <1>3
<1> QED BY <1>1, <1>3, <1>4, <1>5, <1>6, ItemMovesKeepPlan

\* The invariant is inductive.
LEMMA AdaptStep == AdaptInv /\ [AdaptNext]_adaptVars => AdaptInv'
<1>1. ASSUME AdaptInv, UNCHANGED adaptVars PROVE AdaptInv'
  <2> USE <1>1 DEF AdaptInv, adaptVars
  <2>1. AdaptTypeOK'
    BY DEF AdaptTypeOK
  <2>2. \A d \in previews' : DifferenceFits(d)'
    BY DEF DifferenceFits, Heading
  <2>3. RecordFits' /\ NothingWaitsRetired' /\ BuildsFit'
    BY DEF RecordFits, HeldBy, Behind, Reshapeable, NothingWaitsRetired, BuildsFit
  <2> QED BY <2>1, <2>2, <2>3
<1> QED BY <1>1, PreviewKeepsPlan, DiscardKeepsPlan, ApplyKeepsPlan, DeathKeepsPlan,
           LookKeepsPlan, BuildKeepsPlan, RebuildKeepsPlan, EndKeepsPlan DEF AdaptNext

\* A first plan has nothing to match.
LEMMA AdaptStarts == AdaptInit => AdaptInv
<1> SUFFICES ASSUME AdaptInit PROVE AdaptInv
  OBVIOUS
<1> USE AdaptAssumption DEF AdaptInit
<1>1. \A i \in Slots : Nth(FirstShapes, i - 1) \in FirstShapes
  <2>1. \A i \in Slots : i - 1 \in Nat
    OBVIOUS
  <2> QED BY <2>1, NthIsIn
<1>2. queue \in [Slots -> Item] /\ \A i \in Slots : queue[i].status = "pending"
  BY <1>1 DEF Item
<1>3. record \in [from : Pointers, to : Pointers] /\ \A i \in Slots : record.to[i] = 0
  BY DEF Pointers
<1>4. AdaptTypeOK
  <2>1. outdated \in BOOLEAN /\ looked \in BOOLEAN
    OBVIOUS
  <2>2. shapes \subseteq 1..MaxShapes /\ retired \subseteq shapes /\ \A d \in previews : FALSE
    OBVIOUS
  <2>3. built \in [Slots -> 0..MaxShapes]
    <3>1. 0 \in 0..MaxShapes
      OBVIOUS
    <3> QED BY <3>1
  <2> QED BY <1>2, <1>3, <2>1, <2>2, <2>3 DEF AdaptTypeOK
<1>5. RecordFits /\ NothingWaitsRetired /\ BuildsFit
  BY <1>2, <1>3 DEF RecordFits, HeldBy, Behind, NothingWaitsRetired, BuildsFit
<1> QED BY <1>4, <1>5 DEF AdaptInv

\* And it says what the run checks.
LEMMA AdaptKeeps == AdaptInv => PlanStaysMatched
BY DEF AdaptInv, BuildsFit, PlanStaysMatched, MismatchIsFlagged

---------------------------------------------------------------------------
(* One build.                                                              *)

\* What was ruled well, with the exception HandedOutAsRuled names.
RuledWell ==
  /\ work.manifest = "parses"
  /\ \/ ~ Throws(work, work.suite) /\ FailuresOf(work, work.suite) = {}
     \/ work.suite = NoRun /\ reported /\ ~ order.sourced

\* From the stamps to the next repair, the contract and the topics hold.
StampsHold ==
  /\ gate \in {"stamped", "weak", "stripped", "rejected", "accepted", "marked", "done"} =>
       /\ order.sourced => work.contract /\ (work.manifest = "parses" => work.stamped)
       /\ work.manifest = "parses" /\ ~ repaired => work.topics \subseteq {"plan"}
  /\ gate \in {"accepted", "marked", "done"} => RuledWell

\* What the ruling found, and what the strip left of it.
RulingHolds ==
  /\ gate \in {"repairing", "repaired"} => repaired
  /\ gate = "weak" =>
       /\ work.manifest = "parses" /\ found \subseteq Dims
       /\ \A d \in DOMAIN work.said : work.said[d] = "poor" => d \in found
  /\ gate = "stripped" =>
       work.manifest = "parses" /\ \A d \in DOMAIN work.said : work.said[d] # "poor"
  /\ gate \in {"rejected", "refused"} => ~ found \subseteq Dims
  /\ gate = "refused" => repaired \/ work.manifest # "parses"

\* Who marks first archives first.
ArchiveHolds ==
  /\ mark = "none" => kept = "none"
  /\ mark = "child" => gate \in {"marked", "done"} /\ kept # "older"
  /\ mark = "child" /\ gate = "marked" => kept = "none"
  /\ gate \in {"marked", "done"} => mark # "none"

GateInv ==
  /\ GateTypeOK
  /\ StampsHold
  /\ RulingHolds
  /\ ArchiveHolds

\* What a directory in Directories is made of.
LEMMA DirectoryFacts ==
  \A w \in Directories :
    /\ w.manifest \in {"none", "torn", "parses"} /\ w.kind \in CheckKinds
    /\ w.sound \in BOOLEAN /\ w.bug \in {"named", "nameless", "missing"}
    /\ w.said \in Rubrics /\ w.topics \in SUBSET {"plan", "other"}
    /\ w.stamped \in BOOLEAN /\ w.contract \in BOOLEAN /\ w.suite \in SuiteRuns \cup {NoRun}
    /\ DOMAIN w.said \subseteq Dims
BY DEF Directories, Rubrics, NoDims

\* A directory put together from its parts.
LEMMA DirectoryIsMade ==
  ASSUME NEW mf \in {"none", "torn", "parses"}, NEW kd \in CheckKinds, NEW sd \in BOOLEAN,
         NEW bg \in {"named", "nameless", "missing"}, NEW sa \in Rubrics,
         NEW tp \in SUBSET {"plan", "other"}, NEW st \in BOOLEAN, NEW ct \in BOOLEAN,
         NEW su \in SuiteRuns \cup {NoRun}
  PROVE  [manifest |-> mf, kind |-> kd, sound |-> sd, bug |-> bg, said |-> sa, topics |-> tp,
          stamped |-> st, contract |-> ct, suite |-> su] \in Directories
BY DEF Directories

\* A directory with one aspect changed is a directory.
LEMMA WriteFits ==
  ASSUME NEW w \in Directories, NEW a \in DOMAIN Aspects, NEW v \in Aspects[a]
  PROVE  [w EXCEPT ![a] = v] \in Directories
<1>1. a \in {"manifest", "kind", "sound", "bug", "said", "topics", "stamped", "contract", "suite"}
  BY DEF Aspects
<1>2. CASE a = "manifest"
  BY <1>2 DEF Directories, Aspects
<1>3. CASE a = "kind"
  BY <1>3 DEF Directories, Aspects
<1>4. CASE a = "sound"
  BY <1>4 DEF Directories, Aspects
<1>5. CASE a = "bug"
  BY <1>5 DEF Directories, Aspects
<1>6. CASE a = "said"
  BY <1>6 DEF Directories, Aspects
<1>7. CASE a = "topics"
  BY <1>7 DEF Directories, Aspects
<1>8. CASE a = "stamped"
  BY <1>8 DEF Directories, Aspects
<1>9. CASE a = "contract"
  BY <1>9 DEF Directories, Aspects
<1>10. CASE a = "suite"
  BY <1>10 DEF Directories, Aspects
<1> QED BY <1>1, <1>2, <1>3, <1>4, <1>5, <1>6, <1>7, <1>8, <1>9, <1>10

\* The stamps put the data set's contract back, and are of no effect on a round
\* that was invented.
LEMMA RestampFits ==
  ASSUME NEW w \in Directories, NEW s \in SuiteRuns \cup {NoRun}, order.sourced \in BOOLEAN
  PROVE  LET r == Restamped(w, s) IN
         /\ r \in Directories
         /\ r.manifest = w.manifest /\ r.topics = w.topics
         /\ order.sourced => r.contract /\ (r.manifest = "parses" => r.stamped)
<1>1. CASE ~ order.sourced
  BY <1>1 DEF Restamped
<1>2. CASE order.sourced
  <2>1. PICK st, su : /\ st = (w.stamped \/ w.manifest = "parses")
                      /\ su = IF w.contract THEN w.suite ELSE s
    OBVIOUS
  <2>2. Restamped(w, s) = [w EXCEPT !.contract = TRUE, !.stamped = st, !.suite = su]
    BY <1>2, <2>1 DEF Restamped
  <2>3. Restamped(w, s) =
          [manifest |-> w.manifest, kind |-> w.kind, sound |-> w.sound, bug |-> w.bug,
           said |-> w.said, topics |-> w.topics, stamped |-> st, contract |-> TRUE, suite |-> su]
    BY <2>2 DEF Directories
  <2>4. st \in BOOLEAN
    BY <2>1
  <2>5. su \in SuiteRuns \cup {NoRun}
    BY <2>1, DirectoryFacts
  <2>6. Restamped(w, s) \in Directories
    BY <2>3, <2>4, <2>5, DirectoryFacts DEF Directories
  <2> QED BY <2>1, <2>3, <2>6
<1> QED BY <1>1, <1>2

\* A filtered manifest names topics of the plan only.
LEMMA FilterFits ==
  ASSUME NEW w \in Directories
  PROVE  LET r == Filtered(w) IN
         /\ r \in Directories
         /\ r.manifest = w.manifest /\ r.contract = w.contract /\ r.stamped = w.stamped
         /\ r.manifest = "parses" => r.topics \subseteq {"plan"}
<1>1. CASE w.manifest # "parses"
  BY <1>1 DEF Filtered
<1>2. CASE w.manifest = "parses"
  <2>1. PICK tp : tp = w.topics \cap {"plan"}
    OBVIOUS
  <2>2. Filtered(w) = [w EXCEPT !.topics = tp]
    BY <1>2, <2>1 DEF Filtered
  <2>3. Filtered(w) =
          [manifest |-> w.manifest, kind |-> w.kind, sound |-> w.sound, bug |-> w.bug,
           said |-> w.said, topics |-> tp, stamped |-> w.stamped, contract |-> w.contract,
           suite |-> w.suite]
    BY <2>2 DEF Directories
  <2>4. Filtered(w) \in Directories
    BY <2>1, <2>3, DirectoryFacts DEF Directories
  <2> QED BY <2>1, <2>3, <2>4
<1> QED BY <1>1, <1>2

\* What a ruling can find.
LEMMA FailuresFit ==
  ASSUME NEW w \in Directories, NEW s
  PROVE  /\ FailuresOf(w, s) \subseteq Failures
         /\ FailuresOf(w, s) \subseteq Dims =>
              /\ w.manifest = "parses"
              /\ FailuresOf(w, s) = {d \in DOMAIN w.said : w.said[d] = "poor"}
<1>1. DOMAIN w.said \subseteq Dims
  BY DirectoryFacts
<1>2. ManifestFailures(w) \subseteq {d \in DOMAIN w.said : w.said[d] = "poor"}
                                      \cup {"rubric", "size", "bug"}
      /\ {d \in DOMAIN w.said : w.said[d] = "poor"} \subseteq ManifestFailures(w)
  BY DEF ManifestFailures
<1>3. CASE w.manifest # "parses"
  BY <1>3, GateAssumption DEF FailuresOf, Failures
<1>4. CASE w.manifest = "parses"
  <2>1. /\ ManifestFailures(w) \subseteq FailuresOf(w, s)
        /\ FailuresOf(w, s) \subseteq ManifestFailures(w) \cup {"suite"}
    BY <1>4 DEF FailuresOf
  <2> QED BY <1>1, <1>2, <1>4, <2>1, GateAssumption DEF Failures
<1> QED BY <1>3, <1>4

\* The agent writes: nothing is stamped or ruled on meanwhile.
LEMMA WritesKeepsGate == GateInv /\ Writes => GateInv'
<1> SUFFICES ASSUME GateInv, Writes PROVE GateInv'
  OBVIOUS
<1>1. /\ gate \in {"building", "repairing"} /\ kept' = Outdated
      /\ UNCHANGED <<order, reported, gate, repaired, found, mark>>
  BY DEF Writes, AgentAtWork
<1>2. work' \in Directories
  <2>1. PICK a \in DOMAIN Aspects : \E v \in Aspects[a] : work' = [work EXCEPT ![a] = v]
    BY DEF Writes, Free
  <2>2. PICK v \in Aspects[a] : work' = [work EXCEPT ![a] = v]
    BY <2>1
  <2>3. work \in Directories
    BY DEF GateInv, GateTypeOK
  <2>4. [work EXCEPT ![a] = v] \in Directories
    BY <2>3, WriteFits, Zenon
  <2> QED BY <2>2, <2>4
<1>3. GateTypeOK'
  BY <1>1, <1>2 DEF GateInv, GateTypeOK, Outdated
<1>4. StampsHold' /\ RulingHolds' /\ ArchiveHolds'
  BY <1>1 DEF GateInv, StampsHold, RulingHolds, ArchiveHolds, Outdated
<1> QED BY <1>3, <1>4 DEF GateInv

\* Whether the agent reported is a flag.
LEMMA ReportIsFlag ==
  ASSUME reported \in BOOLEAN, LeavesReport(work)
  PROVE  reported' \in BOOLEAN /\ (reported => reported')
BY DEF LeavesReport

\* What the agent validates itself is ruled on again.
LEMMA ValidatesKeepsGate == GateInv /\ ValidatesItself => GateInv'
<1> SUFFICES ASSUME GateInv, ValidatesItself PROVE GateInv'
  OBVIOUS
<1>1. /\ gate \in {"building", "repairing"}
      /\ UNCHANGED <<order, work, gate, repaired, found>>
      /\ \/ mark' = (IF mark = "none" THEN "agent" ELSE mark) /\ Archive
         \/ UNCHANGED <<mark, kept>>
  BY DEF ValidatesItself, AgentAtWork
<1>2. reported' \in BOOLEAN
  BY ReportIsFlag DEF ValidatesItself, GateInv, GateTypeOK
<1>3. mark' \in {"none", "agent", "child"} /\ kept' \in {"none", "same", "older"}
  BY <1>1 DEF GateInv, GateTypeOK, Archive
<1>4. GateTypeOK'
  BY <1>1, <1>2, <1>3 DEF GateInv, GateTypeOK
<1>5. StampsHold' /\ RulingHolds'
  BY <1>1 DEF GateInv, StampsHold, RulingHolds
<1>6. ArchiveHolds'
  BY <1>1, <1>3 DEF GateInv, ArchiveHolds
<1> QED BY <1>4, <1>5, <1>6 DEF GateInv

\* When the agent ends, what it left is stamped before it is ruled on.
LEMMA AgentEndsKeepsGate == GateInv /\ (AgentEnds \/ RepairEnds) => GateInv'
<1> SUFFICES ASSUME GateInv, AgentEnds \/ RepairEnds PROVE GateInv'
  OBVIOUS
<1>1. \/ gate = "building" /\ gate' = "built"
      \/ gate = "repairing" /\ gate' = "repaired"
  BY DEF AgentEnds, RepairEnds
<1>2. UNCHANGED <<order, work, reported, repaired, found, mark, kept>>
  BY DEF AgentEnds, RepairEnds
<1>3. GateTypeOK'
  BY <1>1, <1>2 DEF GateInv, GateTypeOK, Gates
<1>4. StampsHold' /\ RulingHolds' /\ ArchiveHolds'
  BY <1>1, <1>2 DEF GateInv, StampsHold, RulingHolds, ArchiveHolds
<1> QED BY <1>3, <1>4 DEF GateInv

\* The contract of a dataset replaces the one that was written.
LEMMA StampsKeepsGate == GateInv /\ Stamps => GateInv'
<1> SUFFICES ASSUME GateInv, Stamps PROVE GateInv'
  OBVIOUS
<1>1. /\ gate \in {"built", "repaired"} /\ gate' = "stamped"
      /\ kept' = IF work' = work THEN kept ELSE Outdated
      /\ UNCHANGED <<order, reported, repaired, found, mark>>
      /\ gate = "repaired" => repaired
  BY DEF Stamps, GateInv, RulingHolds
<1>2. work \in Directories /\ order.sourced \in BOOLEAN
  BY DEF GateInv, GateTypeOK
<1>3. PICK s \in SuiteRuns \cup {NoRun} :
        work' = IF gate = "built" THEN Filtered(Restamped(work, s)) ELSE Restamped(work, s)
  <2>1. work.suite \in SuiteRuns \cup {NoRun}
    BY <1>2, DirectoryFacts
  <2> QED BY <2>1 DEF Stamps
<1>4. PICK r : r = Restamped(work, s)
  OBVIOUS
<1>5. /\ r \in Directories
      /\ order.sourced => r.contract /\ (r.manifest = "parses" => r.stamped)
  BY <1>2, <1>4, RestampFits
<1>6. /\ work' \in Directories
      /\ order.sourced => work'.contract /\ (work'.manifest = "parses" => work'.stamped)
      /\ gate = "built" /\ work'.manifest = "parses" => work'.topics \subseteq {"plan"}
  BY <1>3, <1>4, <1>5, FilterFits
<1>7. kept' \in {"none", "same", "older"} /\ (kept = "none" => kept' = "none")
  BY <1>1 DEF GateInv, GateTypeOK, Outdated
<1>8. GateTypeOK'
  BY <1>1, <1>6, <1>7 DEF GateInv, GateTypeOK, Gates
<1>9. StampsHold'
  BY <1>1, <1>6 DEF StampsHold
<1>10. RulingHolds' /\ ArchiveHolds'
  BY <1>1, <1>7 DEF GateInv, RulingHolds, ArchiveHolds
<1> QED BY <1>8, <1>9, <1>10 DEF GateInv

\* What a passing ruling saw is the suite, or an earlier run's report.
LEMMA PassIsRuledWell ==
  ASSUME GateInv, gate \in {"stamped", "stripped"}, UNCHANGED <<order, work>>, reported => reported',
         NEW s \in SeenBy(work), ~ Throws(work, s), FailuresOf(work, s) = {}
  PROVE  RuledWell'
<1>1. work.manifest = "parses" /\ order.sourced \in BOOLEAN
  BY DEF FailuresOf, GateInv, GateTypeOK
<1>2. CASE s = work.suite
  <2>1. ~ Throws(work, work.suite) /\ FailuresOf(work, work.suite) = {}
    BY <1>2
  <2>2. (~ Throws(work, work.suite) /\ FailuresOf(work, work.suite) = {})'
    BY <2>1 DEF Throws, RunsSuite, FailuresOf, ManifestFailures, SuiteHolds
  <2> QED BY <1>1, <2>2 DEF RuledWell
<1>3. CASE s # work.suite
  <2>1. work.suite = NoRun /\ ~ work.stamped /\ reported
    BY <1>3 DEF SeenBy
  <2>2. ~ order.sourced
    BY <1>1, <2>1 DEF GateInv, StampsHold
  <2> QED BY <1>1, <2>1, <2>2 DEF RuledWell
<1> QED BY <1>2, <1>3

\* The ruling says which expectations failed.
LEMMA RulesKeepsGate == GateInv /\ Rules => GateInv'
<1> SUFFICES ASSUME GateInv, Rules PROVE GateInv'
  OBVIOUS
<1>1. /\ gate \in {"stamped", "stripped"} /\ LeavesReport(work)
      /\ UNCHANGED <<order, work, repaired, mark, kept>>
  BY DEF Rules
<1>2. reported' \in BOOLEAN /\ (reported => reported') /\ work \in Directories
  BY <1>1, ReportIsFlag DEF GateInv, GateTypeOK
<1>3. PICK s \in SeenBy(work) :
        \/ gate' = "dead" /\ found' = found
        \/ /\ ~ Throws(work, s)
           /\ found' = FailuresOf(work, s)
           /\ gate' = IF FailuresOf(work, s) = {} THEN "accepted"
                      ELSE IF FailuresOf(work, s) \subseteq Dims /\ gate = "stamped" THEN "weak"
                      ELSE "rejected"
  BY DEF Rules
<1>4. GateTypeOK'
  <2>1. gate' \in Gates
    BY <1>3 DEF Gates
  <2>2. found' \subseteq Failures
    BY <1>2, <1>3, FailuresFit DEF GateInv, GateTypeOK
  <2> QED BY <1>1, <1>2, <2>1, <2>2 DEF GateInv, GateTypeOK
<1>5. StampsHold'
  <2>1. gate' = "accepted" => RuledWell'
    BY <1>1, <1>2, <1>3, PassIsRuledWell
  <2>2. gate' \in {"accepted", "weak", "rejected", "dead"}
    BY <1>3
  <2> QED BY <1>1, <2>1, <2>2 DEF GateInv, StampsHold
<1>6. RulingHolds'
  <2>1. gate' = "weak" => /\ work.manifest = "parses" /\ found' \subseteq Dims
                          /\ \A d \in DOMAIN work.said : work.said[d] = "poor" => d \in found'
    BY <1>2, <1>3, FailuresFit
  <2>2. gate' = "rejected" => ~ found' \subseteq Dims
    <3> SUFFICES ASSUME gate' = "rejected", found' \subseteq Dims PROVE FALSE
      OBVIOUS
    <3>1. gate = "stripped" /\ found' = FailuresOf(work, s) /\ found' # {}
      BY <1>1, <1>3
    <3>2. found' = {d \in DOMAIN work.said : work.said[d] = "poor"}
      BY <1>2, <3>1, FailuresFit
    <3> QED BY <3>1, <3>2 DEF GateInv, RulingHolds
  <2>3. gate' \in {"accepted", "weak", "rejected", "dead"}
    BY <1>3
  <2> QED BY <1>1, <2>1, <2>2, <2>3 DEF RulingHolds
<1>7. ArchiveHolds'
  BY <1>1, <1>3 DEF GateInv, ArchiveHolds
<1> QED BY <1>4, <1>5, <1>6, <1>7 DEF GateInv

\* The strip takes out every expectation the ruling failed on.
LEMMA StripsKeepsGate == GateInv /\ Strips => GateInv'
<1> SUFFICES ASSUME GateInv, Strips PROVE GateInv'
  OBVIOUS
<1>1. /\ gate = "weak" /\ gate' = "stripped" /\ kept' = Outdated
      /\ UNCHANGED <<order, reported, repaired, found, mark>>
  BY DEF Strips
<1>2. work \in Directories
  BY DEF GateInv, GateTypeOK
<1>3. PICK sa : /\ sa = [d \in DOMAIN work.said |-> IF d \in found THEN "absent" ELSE work.said[d]]
                /\ work' = [work EXCEPT !.said = sa]
  BY DEF Strips
<1>4. work' = [manifest |-> work.manifest, kind |-> work.kind, sound |-> work.sound,
               bug |-> work.bug, said |-> sa, topics |-> work.topics,
               stamped |-> work.stamped, contract |-> work.contract, suite |-> work.suite]
  BY <1>2, <1>3 DEF Directories
<1>5. sa \in Rubrics
  BY <1>2, <1>3, DirectoryFacts DEF Rubrics, NoDims
<1>6. work' \in Directories
  BY <1>2, <1>4, <1>5, DirectoryFacts DEF Directories
<1>7. GateTypeOK'
  BY <1>1, <1>6 DEF GateInv, GateTypeOK, Gates, Outdated
<1>8. StampsHold'
  BY <1>1, <1>4 DEF GateInv, StampsHold
<1>9. RulingHolds'
  <2>1. \A d \in DOMAIN sa : sa[d] # "poor"
    BY <1>1, <1>3 DEF GateInv, RulingHolds
  <2> QED BY <1>1, <1>4, <2>1 DEF GateInv, RulingHolds
<1>10. ArchiveHolds'
  BY <1>1 DEF GateInv, ArchiveHolds, Outdated
<1> QED BY <1>7, <1>8, <1>9, <1>10 DEF GateInv

\* One repair, and then the build is refused.
LEMMA RulingKeepsGate == GateInv /\ (Repairs \/ Refuses) => GateInv'
<1> SUFFICES ASSUME GateInv, Repairs \/ Refuses PROVE GateInv'
  OBVIOUS
<1>1. /\ gate = "rejected"
      /\ \/ gate' = "repairing" /\ repaired' = TRUE
         \/ gate' = "refused" /\ UNCHANGED repaired /\ (repaired \/ work.manifest # "parses")
      /\ UNCHANGED <<order, work, reported, found, mark, kept>>
  BY DEF Repairs, Refuses
<1>2. repaired' \in BOOLEAN
  BY <1>1 DEF GateInv, GateTypeOK
<1>3. GateTypeOK'
  BY <1>1, <1>2 DEF GateInv, GateTypeOK, Gates
<1>4. StampsHold' /\ RulingHolds' /\ ArchiveHolds'
  BY <1>1 DEF GateInv, StampsHold, RulingHolds, ArchiveHolds
<1> QED BY <1>3, <1>4 DEF GateInv

\* The mark and the archive are of the directory as it was ruled on.
LEMMA MarkKeepsGate == GateInv /\ (WritesMark \/ Archives) => GateInv'
<1> SUFFICES ASSUME GateInv, WritesMark \/ Archives PROVE GateInv'
  OBVIOUS
<1>1. /\ \/ /\ gate = "accepted" /\ gate' = "marked" /\ UNCHANGED kept
            /\ mark' = IF mark = "none" THEN "child" ELSE mark
         \/ gate = "marked" /\ gate' = "done" /\ UNCHANGED mark /\ Archive
      /\ UNCHANGED <<order, work, reported, repaired, found>>
  BY DEF WritesMark, Archives
<1>2. mark' \in {"none", "agent", "child"} /\ kept' \in {"none", "same", "older"}
  BY <1>1 DEF GateInv, GateTypeOK, Archive
<1>3. GateTypeOK'
  BY <1>1, <1>2 DEF GateInv, GateTypeOK, Gates
<1>4. StampsHold'
  <2>1. RuledWell
    BY <1>1 DEF GateInv, StampsHold
  <2>2. RuledWell'
    BY <1>1, <2>1 DEF RuledWell, Throws, RunsSuite, FailuresOf, ManifestFailures, SuiteHolds
  <2> QED BY <1>1, <2>2 DEF GateInv, StampsHold
<1>5. RulingHolds'
  BY <1>1 DEF RulingHolds
<1>6. ArchiveHolds'
  BY <1>1, <1>2 DEF GateInv, ArchiveHolds, Archive
<1> QED BY <1>3, <1>4, <1>5, <1>6 DEF GateInv

\* The invariant is inductive.
LEMMA GateStep == GateInv /\ [GateNext]_gateVars => GateInv'
<1>1. ASSUME GateInv, UNCHANGED gateVars PROVE GateInv'
  <2> USE <1>1 DEF GateInv, gateVars
  <2>1. GateTypeOK'
    BY DEF GateTypeOK
  <2>2. StampsHold'
    BY DEF StampsHold, RuledWell, Throws, RunsSuite, FailuresOf, ManifestFailures, SuiteHolds
  <2>3. RulingHolds' /\ ArchiveHolds'
    BY DEF RulingHolds, ArchiveHolds
  <2> QED BY <2>1, <2>2, <2>3
<1> QED BY <1>1, WritesKeepsGate, ValidatesKeepsGate, AgentEndsKeepsGate, StampsKeepsGate,
           RulesKeepsGate, StripsKeepsGate, RulingKeepsGate, MarkKeepsGate DEF GateNext

\* An empty manifest in an orderly directory.
LEMMA GateStarts == GateInit => GateInv
<1> SUFFICES ASSUME GateInit PROVE GateInv
  OBVIOUS
<1>1. order \in [kind : CheckKinds, sourced : BOOLEAN]
  <2>1. Ordered \subseteq CheckKinds /\ "all_failing" \in CheckKinds
    BY GateAssumption DEF CheckKinds
  <2>2. CASE order = [kind |-> "all_failing", sourced |-> TRUE]
    BY <2>1, <2>2
  <2>3. CASE order \in [kind : Ordered, sourced : {FALSE}]
    BY <2>1, <2>3
  <2> QED BY <2>2, <2>3 DEF GateInit
<1>2. PICK sa, fl, nm, tp : /\ sa = [d \in Dims |-> "good"] /\ tp = {"plan"}
                            /\ fl = CASE order.kind = "one_failing_test" -> 1
                                      [] order.kind = "all_failing" -> MinTests
                                      [] OTHER -> 0
                            /\ nm = (order.kind = "one_failing_test")
  OBVIOUS
<1>3. work = [manifest |-> "none", kind |-> order.kind, sound |-> TRUE, bug |-> "named",
              said |-> sa, topics |-> tp, stamped |-> order.sourced, contract |-> order.sourced,
              suite |-> [failed |-> fl, total |-> MinTests, named |-> nm]]
  BY <1>2 DEF GateInit, Proper
<1>4. sa \in Rubrics /\ tp \in SUBSET {"plan", "other"}
  BY <1>2 DEF Rubrics
<1>5. [failed |-> fl, total |-> MinTests, named |-> nm] \in SuiteRuns
  <2>1. nm \in BOOLEAN
    BY <1>2
  <2>2. fl \in 0..MinTests /\ (nm => fl = 1)
    <3>1. fl \in {0, 1, MinTests}
      <4>1. CASE order.kind = "one_failing_test"
        BY <1>2, <4>1
      <4>2. CASE order.kind = "all_failing"
        BY <1>2, <4>2
      <4>3. CASE order.kind \notin {"one_failing_test", "all_failing"}
        BY <1>2, <4>3
      <4> QED BY <4>1, <4>2, <4>3
    <3>2. nm => fl = 1
      BY <1>2
    <3> QED BY <3>1, <3>2, GateAssumption
  <2>3. MinTests \in 1..MinTests /\ fl <= MinTests
    BY <2>2, GateAssumption
  <2> QED BY <2>1, <2>2, <2>3 DEF SuiteRuns
<1>6. work \in Directories
  BY <1>1, <1>3, <1>4, <1>5 DEF Directories
<1>7. GateTypeOK
  BY <1>1, <1>6 DEF GateInit, GateTypeOK, Gates
<1>8. StampsHold /\ RulingHolds /\ ArchiveHolds
  BY DEF GateInit, StampsHold, RulingHolds, ArchiveHolds
<1> QED BY <1>7, <1>8 DEF GateInv

\* And it says what the run checks.
LEMMA GateKeeps == GateInv => BuildsAreSound
<1> SUFFICES ASSUME GateInv PROVE BuildsAreSound
  OBVIOUS
<1>1. HandedOutAsRuled /\ ContractIsTheDataSets /\ TopicsAreThePlans
  BY DEF GateInv, StampsHold, RuledWell, HandedOutAsRuled, ContractIsTheDataSets,
         TopicsAreThePlans
<1>2. NothingGradableIsRefused /\ ArchiveIsAsRuled
  BY DEF GateInv, RulingHolds, ArchiveHolds, NothingGradableIsRefused, ArchiveIsAsRuled
<1> QED BY <1>1, <1>2 DEF BuildsAreSound

---------------------------------------------------------------------------
(* What judged rounds leave behind.                                        *)

StoreRows == [round : Rounds, verdict : Verdicts]
Stores == [records : Seq(StoreRows), closedAfter : SUBSET Rounds, torn : BOOLEAN]
Jobs == [at : Steps, round : Rounds, result : Results, records : BOOLEAN,
         seen : Stores, rows : SUBSET Row, owned : BOOLEAN]

\* Every round is there once.
Once(records) ==
  \A i, j \in 1..Len(records) : records[i].round = records[j].round => i = j

\* The clean rounds after the last one in which the gap fired.
CleanAfter(records) ==
  {i \in 1..Len(records) :
     records[i].verdict = "fine" /\ \A j \in Fired(records) : j < i}
RoundsOfThese(records, S) == {records[i].round : i \in S}

MemoryTypes ==
  /\ kinds \in [Rounds -> {"unplayed", "real", "harness", "sample"}]
  /\ over \subseteq Rounds
  /\ assessments \in [Rounds -> Results \cup {"none"}]
  /\ memory \in Stores
  /\ topics \subseteq Row /\ planTopics \subseteq Row
  /\ cards \in [Rounds -> Card]
  /\ inHand \in [Processes -> Jobs \cup {NoWork}]
  /\ overlapped \in BOOLEAN
  /\ early \subseteq Rounds /\ cardless \subseteq Rounds /\ cut \subseteq Rounds
  /\ deaths \in 0..MaxDeaths /\ rejudges \in 0..MaxRejudges

\* Rounds a store may hold: assessed, or their record was lost in a way that is
\* excepted.  No step takes one away.
Holdable == {r \in Rounds : assessments[r] \in Verdicts} \cup early \cup cut

\* A store, on disk or read by a process, when the rounds are of kinds ks and
\* those in good may be held: a gap is closed in it as ClosingIsEarned has it.
StoreFits(store, ks, good) ==
  /\ \A i \in 1..Len(store.records) :
       ks[store.records[i].round] = "real" /\ store.records[i].round \in good
  /\ store.closedAfter # {} /\ Once(store.records) =>
       Cardinality(RoundsOfThese(store.records, CleanAfter(store.records))) >= Streak

LedgerFits(L, ks) ==
  /\ \A x \in L : ks[x.round] = "real"
  /\ \A x, y \in L : x.round = y.round => x = y

Depositing == {"saves", "topics", "topicsRead", "plan", "planRead"}

\* A process that has a round in hand: only a real round's result goes into the
\* store and the ledgers, and the store it writes was read whole.
JobFits(p, ks, good) ==
  p # NoWork =>
    /\ ks[p.round] # "unplayed" /\ (p.records => ks[p.round] # "sample")
    /\ StoreFits(p.seen, ks, good) /\ LedgerFits(p.rows, ks)
    /\ p.at = "loads" /\ p.records /\ p.result # "failed" => p.round \in good
    /\ p.at \in Depositing => ks[p.round] = "real" /\ p.result \in Verdicts /\ p.round \in good
    /\ p.at = "saves" => ~ p.seen.torn

InStore(store, r) == \E i \in 1..Len(store.records) : store.records[i].round = r

\* The rounds about to enter the ledger of topics are in the store.
Held(p) ==
  /\ p.at \in {"topics", "topicsRead"} => overlapped \/ memory.torn \/ InStore(memory, p.round)
  /\ p.at = "topicsRead" =>
       overlapped \/ memory.torn \/ \A x \in p.rows : InStore(memory, x.round)

Fits ==
  /\ StoreFits(memory, kinds, Holdable)
  /\ \A w \in Processes : JobFits(inHand[w], kinds, Holdable) /\ Held(inHand[w])
  /\ LedgerFits(topics, kinds) /\ LedgerFits(planTopics, kinds)
  /\ DepositsSurvive

Excused == cardless \cup early \cup cut

\* No record of an unplayed round; a judge that fails finds none to replace, or
\* one that is excepted.
JudgedFits ==
  /\ \A r \in Rounds : kinds[r] = "unplayed" => assessments[r] = "none"
  /\ LET p == inHand["session"] IN
       p.at = "judges" => p.round \in early \cup cut \/ assessments[p.round] \notin Verdicts
  /\ LET p == inHand["rejudge"] IN
       p.at = "writes" /\ p.result = "failed" =>
         p.round \in early \cup cut \/ assessments[p.round] \notin Verdicts

\* A round that is over has its owner on its card, or is excused; and so has one
\* whose card rejudge has read.
CardsFit ==
  /\ \A r \in over : kinds[r] # "unplayed"
                     /\ (kinds[r] # "sample" => cards[r].owned \/ r \in Excused)
  /\ \A r \in Rounds :
       ShownToTheFounder(r) => kinds[r] \notin {"unplayed", "sample"} /\ r \in Excused
  /\ LET p == inHand["session"] IN
       p # NoWork => p.round \notin over /\ (~ p.records => kinds[p.round] = "sample")
  /\ LET p == inHand["rejudge"] IN
       p # NoWork =>
         /\ p.round \in over \cup early /\ kinds[p.round] # "sample"
         /\ p.at = "cardRead" => p.owned \/ p.round \in Excused

MemoryInv == MemoryTypes /\ Fits /\ JudgedFits /\ CardsFit

\* The rounds of different entries are as many as the entries.
LEMMA OnceIsCounted ==
  ASSUME NEW records \in Seq(StoreRows), Once(records), NEW S \in SUBSET (1..Len(records))
  PROVE  /\ IsFiniteSet(S) /\ IsFiniteSet(RoundsOfThese(records, S))
         /\ Cardinality(RoundsOfThese(records, S)) = Cardinality(S)
<1>1. Len(records) \in Nat
  OBVIOUS
<1>2. IsFiniteSet(1..Len(records))
  BY <1>1, FS_Interval
<1>3. IsFiniteSet(S)
  BY <1>2, FS_Subset
<1> DEFINE f == [i \in S |-> records[i].round]
           T == RoundsOfThese(records, S)
<1>4. f \in Surjection(S, T)
  BY DEF Surjection, RoundsOfThese
<1>5. f \in Injection(S, T)
  <2>1. f \in [S -> T]
    BY DEF RoundsOfThese
  <2>2. ASSUME NEW i \in S, NEW j \in S, f[i] = f[j] PROVE i = j
    <3>1. i \in 1..Len(records) /\ j \in 1..Len(records) /\ records[i].round = records[j].round
      BY <2>2
    <3> QED BY <3>1 DEF Once
  <2> HIDE DEF f, T
  <2> QED BY <2>1, <2>2 DEF Injection, IsInjective
<1> HIDE DEF f, T
<1>6. IsFiniteSet(T) /\ Cardinality(T) = Cardinality(S)
  BY <1>3, <1>4, <1>5, FS_Surjection
<1> QED BY <1>3, <1>6 DEF T

\* A gap that closes was clean in a streak of rounds after the last in which it
\* fired.
LEMMA RemediatedIsEarned ==
  ASSUME NEW records \in Seq(StoreRows), Once(records), Remediated(records)
  PROVE  Cardinality(RoundsOfThese(records, CleanAfter(records))) >= Streak
<1> DEFINE recent == Latest(Triggered(records), Streak)
           From(S, i) == {j \in S : i <= j}
<1>1. /\ Cardinality(recent) = Streak
      /\ \A i \in recent : records[i].verdict = "fine"
      /\ recent \subseteq Triggered(records) /\ Triggered(records) \subseteq 1..Len(records)
      /\ Len(records) \in Nat
  BY DEF Remediated, Latest, Triggered
<1>2. \A j \in Fired(records) : j \in Triggered(records) /\ j \notin recent /\ j \in 1..Len(records)
  <2> HIDE DEF recent
  <2> QED BY <1>1 DEF Fired, Triggered
<1>3. IsFiniteSet(Triggered(records))
  <2>1. Len(records) \in Nat
    OBVIOUS
  <2>2. IsFiniteSet(1..Len(records))
    BY <2>1, FS_Interval
  <2> QED BY <1>1, <2>2, FS_Subset
<1>4. ASSUME NEW i \in recent, NEW j \in Fired(records), i < j PROVE FALSE
  <2>1. From(Triggered(records), j) \subseteq From(Triggered(records), i)
    BY <1>1, <1>2, <1>4
  <2>2. /\ IsFiniteSet(From(Triggered(records), i)) /\ IsFiniteSet(From(Triggered(records), j))
        /\ Cardinality(From(Triggered(records), j)) <= Cardinality(From(Triggered(records), i))
    BY <1>3, <2>1, FS_Subset
  <2>3. Cardinality(From(Triggered(records), i)) <= Streak
    BY DEF Latest
  <2>4. Cardinality(From(Triggered(records), j)) <= Streak
    BY <2>2, <2>3, FS_CardinalityType, StreakAssumption
  <2> QED BY <1>2, <2>4 DEF Latest
<1>5. \A i \in recent, j \in Fired(records) : j < i
  <2> SUFFICES ASSUME NEW i \in recent, NEW j \in Fired(records) PROVE j < i
    OBVIOUS
  <2>1. i \in Nat /\ j \in Nat /\ i # j
    <3> HIDE DEF recent
    <3> QED BY <1>1, <1>2
  <2> QED BY <1>4, <2>1
<1> HIDE DEF recent
<1>6. recent \subseteq CleanAfter(records)
  BY <1>1, <1>5 DEF CleanAfter
<1>7. IsFiniteSet(CleanAfter(records))
      /\ Cardinality(RoundsOfThese(records, CleanAfter(records))) = Cardinality(CleanAfter(records))
  BY OnceIsCounted DEF CleanAfter
<1>8. Cardinality(recent) <= Cardinality(CleanAfter(records)) /\ Cardinality(CleanAfter(records)) \in Nat
  BY <1>6, <1>7, FS_Subset, FS_CardinalityType
<1> QED BY <1>1, <1>7, <1>8, StreakAssumption

\* A store with one more round.
LEMMA WithRoundFits ==
  ASSUME NEW store \in Stores, NEW ks, NEW good, StoreFits(store, ks, good),
         NEW r \in Rounds, NEW v \in Verdicts, ks[r] = "real", r \in good
  PROVE  LET new == WithRound(store, r, v) IN
         /\ new \in Stores /\ StoreFits(new, ks, good) /\ ~ new.torn
         /\ InStore(new, r) /\ \A s \in Rounds : InStore(store, s) => InStore(new, s)
<1> DEFINE row == [round |-> r, verdict |-> v]
           old == store.records
           records == Append(old, row)
           before == IF v = "weak" THEN {} ELSE store.closedAfter
           closed == IF before = {} /\ Remediated(records) THEN {r} ELSE before
           new == WithRound(store, r, v)
<1>1. /\ row \in StoreRows /\ row.round = r /\ row.verdict = v
      /\ old \in Seq(StoreRows) /\ store.closedAfter \subseteq Rounds
  BY DEF StoreRows, Stores
<1>2. /\ records \in Seq(StoreRows) /\ Len(records) = Len(old) + 1 /\ Len(old) \in Nat
      /\ records[Len(old) + 1] = row
      /\ \A i \in 1..Len(old) : records[i] = old[i]
  <2> HIDE DEF row, old
  <2> QED BY <1>1
<1>3. new = [records |-> records, torn |-> FALSE, closedAfter |-> closed]
  BY DEF WithRound
<1> HIDE DEF row, old, records, new
<1>4. closed \subseteq Rounds
  BY <1>1
<1>5. new \in Stores /\ ~ new.torn /\ new.records = records /\ new.closedAfter = closed
  <2> HIDE DEF closed
  <2> QED BY <1>2, <1>3, <1>4 DEF Stores
<1>6. \A i \in 1..Len(records) :
        ks[records[i].round] = "real" /\ records[i].round \in good
  <2> TAKE i \in 1..Len(records)
  <2>1. i \in 1..Len(old) \/ i = Len(old) + 1
    BY <1>2
  <2> QED BY <1>1, <1>2, <2>1 DEF StoreFits, old
<1>7. ASSUME closed # {}, Once(records)
      PROVE  Cardinality(RoundsOfThese(records, CleanAfter(records))) >= Streak
  <2>1. CASE before = {}
    BY <1>2, <1>7, <2>1, RemediatedIsEarned
  <2>2. CASE before # {}
    <3>1. v # "weak" /\ store.closedAfter # {}
      BY <2>2
    <3>2. Once(old)
      BY <1>2, <1>7 DEF Once
    <3>3. Fired(records) = Fired(old)
      BY <1>1, <1>2, <3>1 DEF Fired
    <3>4. CleanAfter(old) \subseteq CleanAfter(records)
      BY <1>2, <3>3 DEF CleanAfter
    <3>5. RoundsOfThese(old, CleanAfter(old)) \subseteq RoundsOfThese(records, CleanAfter(records))
      BY <1>2, <3>4 DEF RoundsOfThese, CleanAfter
    <3>6. IsFiniteSet(RoundsOfThese(records, CleanAfter(records)))
      BY <1>2, <1>7, OnceIsCounted DEF CleanAfter
    <3>7. Cardinality(RoundsOfThese(old, CleanAfter(old))) >= Streak
      BY <3>1, <3>2 DEF StoreFits, old
    <3>8. /\ Cardinality(RoundsOfThese(old, CleanAfter(old)))
               <= Cardinality(RoundsOfThese(records, CleanAfter(records)))
          /\ Cardinality(RoundsOfThese(records, CleanAfter(records))) \in Nat
          /\ Cardinality(RoundsOfThese(old, CleanAfter(old))) \in Nat
      BY <3>5, <3>6, FS_Subset, FS_CardinalityType
    <3> QED BY <3>7, <3>8, StreakAssumption
  <2> QED BY <2>1, <2>2
<1>8. StoreFits(new, ks, good)
  <2> HIDE DEF closed
  <2> QED BY <1>5, <1>6, <1>7 DEF StoreFits
<1>9. InStore(new, r)
  BY <1>1, <1>2, <1>5 DEF InStore
<1>10. \A s \in Rounds : InStore(store, s) => InStore(new, s)
  BY <1>2, <1>5 DEF InStore, old
<1> QED BY <1>5, <1>8, <1>9, <1>10 DEF new

\* What fits keeps fitting when kinds change for unplayed rounds only, and no
\* round stops being one that may be held.
StillPlayed(ks, good, ks2, good2) ==
  /\ \A r \in Rounds : ks[r] # "unplayed" => ks2[r] = ks[r]
  /\ good \subseteq good2

\* So do a store, a ledger and a process.
LEMMA StoreStillFits ==
  ASSUME NEW ks, NEW good, NEW ks2, NEW good2, StillPlayed(ks, good, ks2, good2),
         NEW store \in Stores, StoreFits(store, ks, good)
  PROVE  StoreFits(store, ks2, good2)
<1>1. \A i \in 1..Len(store.records) : store.records[i].round \in Rounds
  <2>1. store.records \in Seq(StoreRows)
    BY DEF Stores
  <2> TAKE i \in 1..Len(store.records)
  <2>2. store.records[i] \in StoreRows
    BY <2>1
  <2> QED BY <2>2 DEF StoreRows
<1>2. \A i \in 1..Len(store.records) :
        ks2[store.records[i].round] = "real" /\ store.records[i].round \in good2
  BY <1>1 DEF StoreFits, StillPlayed
<1> QED BY <1>2 DEF StoreFits

LEMMA LedgerStillFits ==
  ASSUME NEW ks, NEW good, NEW ks2, NEW good2, StillPlayed(ks, good, ks2, good2),
         NEW L \in SUBSET Row, LedgerFits(L, ks)
  PROVE  LedgerFits(L, ks2)
<1>1. \A x \in L : x.round \in Rounds
  BY DEF Row
<1> QED BY <1>1 DEF LedgerFits, StillPlayed

LEMMA JobStillFits ==
  ASSUME NEW ks, NEW good, NEW ks2, NEW good2, StillPlayed(ks, good, ks2, good2),
         NEW p \in Jobs \cup {NoWork}, JobFits(p, ks, good)
  PROVE  JobFits(p, ks2, good2)
<1> SUFFICES ASSUME p # NoWork PROVE JobFits(p, ks2, good2)
  BY DEF JobFits
<1>1. p.round \in Rounds /\ p.seen \in Stores /\ p.rows \in SUBSET Row
  BY DEF Jobs
<1>2. ks2[p.round] = ks[p.round] /\ (p.round \in good => p.round \in good2)
  BY <1>1 DEF JobFits, StillPlayed
<1>3. StoreFits(p.seen, ks2, good2) /\ LedgerFits(p.rows, ks2)
  BY <1>1, StoreStillFits, LedgerStillFits DEF JobFits
<1> QED BY <1>2, <1>3 DEF JobFits

\* A ledger in which a real round's rows were replaced.
LEMMA UpsertedFits ==
  ASSUME NEW ks, NEW L \in SUBSET Row, LedgerFits(L, ks), NEW r \in Rounds, ks[r] = "real",
         NEW from \in Processes
  PROVE  Upserted(L, r, from) \subseteq Row /\ LedgerFits(Upserted(L, r, from), ks)
<1> DEFINE row == [round |-> r, from |-> from]
<1>1. row \in Row /\ row.round = r
  BY DEF Row
<1>2. \A x \in Upserted(L, r, from) : (x \in L /\ x.round # r) \/ x = row
  BY DEF Upserted
<1> HIDE DEF row
<1> QED BY <1>1, <1>2 DEF LedgerFits

\* What a process has in hand after a step.
AJob(at, p, result, seen, rows, owned) ==
  [at |-> at, round |-> p.round, result |-> result, records |-> p.records,
   seen |-> seen, rows |-> rows, owned |-> owned]

LEMMA JobMade ==
  \A p \in Jobs, at \in Steps, result \in Results, seen \in Stores, rows \in SUBSET Row,
     owned \in BOOLEAN :
    LET q == AJob(at, p, result, seen, rows, owned) IN
    /\ q \in Jobs /\ q # NoWork
    /\ q.at = at /\ q.round = p.round /\ q.result = result /\ q.records = p.records
    /\ q.seen = seen /\ q.rows = rows /\ q.owned = owned
BY DEF Jobs, AJob, NoWork, Steps

LEMMA JobParts ==
  \A p \in Jobs :
    /\ p # NoWork /\ p.at \in Steps /\ p.round \in Rounds /\ p.result \in Results
    /\ p.records \in BOOLEAN /\ p.seen \in Stores /\ p.rows \in SUBSET Row /\ p.owned \in BOOLEAN
    /\ \A at : NextAt(p, at) = AJob(at, p, p.result, p.seen, p.rows, p.owned)
    /\ \A x : [p EXCEPT !.result = x] = AJob(p.at, p, x, p.seen, p.rows, p.owned)
<1> SUFFICES ASSUME NEW p \in Jobs
             PROVE
    /\ p # NoWork /\ p.at \in Steps /\ p.round \in Rounds /\ p.result \in Results
    /\ p.records \in BOOLEAN /\ p.seen \in Stores /\ p.rows \in SUBSET Row /\ p.owned \in BOOLEAN
    /\ \A at : NextAt(p, at) = AJob(at, p, p.result, p.seen, p.rows, p.owned)
    /\ \A x : [p EXCEPT !.result = x] = AJob(p.at, p, x, p.seen, p.rows, p.owned)
  OBVIOUS
<1>1. p # NoWork
  BY DEF Jobs, NoWork, Steps
<1> QED BY <1>1 DEF Jobs, NextAt, AJob

\* A job at its next step with one thing more in hand.
LEMMA JobGoesOn ==
  \A p \in Jobs, at \in Steps : \A x :
    /\ x \in Results => [NextAt(p, at) EXCEPT !.result = x] = AJob(at, p, x, p.seen, p.rows, p.owned)
    /\ x \in Stores => [NextAt(p, at) EXCEPT !.seen = x] = AJob(at, p, p.result, x, p.rows, p.owned)
    /\ x \in SUBSET Row => [NextAt(p, at) EXCEPT !.rows = x] = AJob(at, p, p.result, p.seen, x, p.owned)
    /\ x \in BOOLEAN => [NextAt(p, at) EXCEPT !.owned = x] = AJob(at, p, p.result, p.seen, p.rows, x)
<1> SUFFICES ASSUME NEW p \in Jobs, NEW at \in Steps, NEW x,
                    NEW f, f = AJob(at, p, p.result, p.seen, p.rows, p.owned)
             PROVE
    /\ x \in Results => [f EXCEPT !.result = x] = AJob(at, p, x, p.seen, p.rows, p.owned)
    /\ x \in Stores => [f EXCEPT !.seen = x] = AJob(at, p, p.result, x, p.rows, p.owned)
    /\ x \in SUBSET Row => [f EXCEPT !.rows = x] = AJob(at, p, p.result, p.seen, x, p.owned)
    /\ x \in BOOLEAN => [f EXCEPT !.owned = x] = AJob(at, p, p.result, p.seen, p.rows, x)
  BY JobParts
<1> QED BY DEF AJob

\* What a step that hands q to a process leaves as it fits.
LEMMA HandedOn ==
  \A w \in Processes, q \in Jobs \cup {NoWork} :
    /\ MemoryInv /\ inHand' = [inHand EXCEPT ![w] = q]
    /\ StillPlayed(kinds, Holdable, kinds', Holdable') /\ JobFits(q, kinds', Holdable')
    =>
    /\ inHand' \in [Processes -> Jobs \cup {NoWork}]
    /\ \A v \in Processes : JobFits(inHand'[v], kinds', Holdable')
    /\ memory' = memory => StoreFits(memory', kinds', Holdable')
    /\ topics' = topics => LedgerFits(topics', kinds')
    /\ planTopics' = planTopics => LedgerFits(planTopics', kinds')
    /\ UNCHANGED <<memory, overlapped>> /\ Held(q) => \A v \in Processes : Held(inHand[v])'
    /\ UNCHANGED <<memory, overlapped, topics>> => DepositsSurvive'
<1> SUFFICES ASSUME NEW w \in Processes, NEW q \in Jobs \cup {NoWork},
                    MemoryInv, inHand' = [inHand EXCEPT ![w] = q],
                    StillPlayed(kinds, Holdable, kinds', Holdable'), JobFits(q, kinds', Holdable')
             PROVE
    /\ inHand' \in [Processes -> Jobs \cup {NoWork}]
    /\ \A v \in Processes : JobFits(inHand'[v], kinds', Holdable')
    /\ memory' = memory => StoreFits(memory', kinds', Holdable')
    /\ topics' = topics => LedgerFits(topics', kinds')
    /\ planTopics' = planTopics => LedgerFits(planTopics', kinds')
    /\ UNCHANGED <<memory, overlapped>> /\ Held(q) => \A v \in Processes : Held(inHand[v])'
    /\ UNCHANGED <<memory, overlapped, topics>> => DepositsSurvive'
  OBVIOUS
<1>1. /\ inHand \in [Processes -> Jobs \cup {NoWork}] /\ memory \in Stores
      /\ topics \in SUBSET Row /\ planTopics \in SUBSET Row
  BY DEF MemoryInv, MemoryTypes
<1>2. /\ inHand' \in [Processes -> Jobs \cup {NoWork}] /\ inHand'[w] = q
      /\ \A v \in Processes : v # w => inHand'[v] = inHand[v]
  BY <1>1
<1>3. \A v \in Processes : JobFits(inHand'[v], kinds', Holdable')
  <2> TAKE v \in Processes
  <2>1. CASE v = w
    BY <1>2, <2>1
  <2>2. CASE v # w
    <3>1. inHand[v] \in Jobs \cup {NoWork} /\ JobFits(inHand[v], kinds, Holdable)
      BY <1>1 DEF MemoryInv, Fits
    <3>2. JobFits(inHand[v], kinds', Holdable')
      BY <3>1, JobStillFits
    <3> QED BY <1>2, <2>2, <3>2
  <2> QED BY <2>1, <2>2
<1>4. StoreFits(memory, kinds', Holdable') /\ LedgerFits(topics, kinds') /\ LedgerFits(planTopics, kinds')
  <2>1. StoreFits(memory, kinds, Holdable) /\ LedgerFits(topics, kinds) /\ LedgerFits(planTopics, kinds)
    BY DEF MemoryInv, Fits
  <2> QED BY <1>1, <2>1, StoreStillFits, LedgerStillFits
<1>5. UNCHANGED <<memory, overlapped>> /\ Held(q) => \A v \in Processes : Held(inHand[v])'
  <2> SUFFICES ASSUME UNCHANGED <<memory, overlapped>>, Held(q), NEW v \in Processes
               PROVE  Held(inHand[v])'
    OBVIOUS
  <2>1. inHand'[v] = q \/ inHand'[v] = inHand[v]
    BY <1>2
  <2>2. Held(inHand[v])
    BY DEF MemoryInv, Fits
  <2> QED BY <2>1, <2>2 DEF Held
<1>6. UNCHANGED <<memory, overlapped, topics>> => DepositsSurvive'
  BY DEF MemoryInv, Fits, DepositsSurvive
<1> QED BY <1>2, <1>3, <1>4, <1>5, <1>6

\* A process that goes on past its judge, or is done.
LEMMA OrderedStill ==
  \A w \in Processes, q \in Jobs \cup {NoWork} :
    /\ MemoryInv /\ inHand' = [inHand EXCEPT ![w] = q] /\ inHand[w] \in Jobs
    /\ UNCHANGED <<kinds, over, assessments, cards, early, cardless, cut>>
    /\ q # NoWork => /\ q.round = inHand[w].round /\ q.records = inHand[w].records
                     /\ q.at \notin {"judges", "writes", "cardRead"}
    => JudgedFits' /\ CardsFit'
<1> SUFFICES ASSUME NEW w \in Processes, NEW q \in Jobs \cup {NoWork},
                    MemoryInv, inHand' = [inHand EXCEPT ![w] = q], inHand[w] \in Jobs,
                    UNCHANGED <<kinds, over, assessments, cards, early, cardless, cut>>,
                    q # NoWork => /\ q.round = inHand[w].round /\ q.records = inHand[w].records
                                  /\ q.at \notin {"judges", "writes", "cardRead"}
             PROVE  JudgedFits' /\ CardsFit'
  OBVIOUS
<1>1. inHand \in [Processes -> Jobs \cup {NoWork}] /\ inHand[w] # NoWork
  BY JobParts DEF MemoryInv, MemoryTypes
<1>2. \A v \in Processes : inHand'[v] = inHand[v] \/ (v = w /\ inHand'[v] = q)
  BY <1>1
<1>3. /\ inHand'["session"] = inHand["session"] \/ (w = "session" /\ inHand'["session"] = q)
      /\ inHand'["rejudge"] = inHand["rejudge"] \/ (w = "rejudge" /\ inHand'["rejudge"] = q)
  BY <1>2 DEF Processes
<1>4. q = NoWork => q.at = "idle"
  BY DEF NoWork
<1>5. JudgedFits'
  BY <1>3, <1>4 DEF MemoryInv, JudgedFits
<1>6. CardsFit'
  BY <1>1, <1>3, <1>4 DEF MemoryInv, CardsFit, ShownToTheFounder, Excused
<1> QED BY <1>5, <1>6

\* One lemma for every action. A round that starts was in nothing before.
LEMMA StartsKeepsMemory == \A r \in Rounds : MemoryInv /\ RoundStarts(r) => MemoryInv'
<1> SUFFICES ASSUME NEW r \in Rounds, MemoryInv, RoundStarts(r) PROVE MemoryInv'
  OBVIOUS
<1>1. PICK kind \in {"real", "harness", "sample"} :
        /\ kinds' = [kinds EXCEPT ![r] = kind]
        /\ inHand' = [inHand EXCEPT !["session"] = Work(r, kind # "sample")]
  BY DEF RoundStarts
<1>2. /\ inHand["session"] = NoWork /\ kinds[r] = "unplayed"
      /\ UNCHANGED <<over, assessments, memory, topics, planTopics, cards, overlapped,
                     early, cardless, cut, deaths, rejudges>>
  BY DEF RoundStarts
<1>3. PICK q : q = Work(r, kind # "sample")
  OBVIOUS
<1>4. Blank \in Stores /\ Blank.records = <<>> /\ Blank.closedAfter = {}
  BY DEF Blank, Stores
<1>5. /\ q \in Jobs /\ q # NoWork /\ q.at = "judges" /\ q.round = r /\ q.seen = Blank
      /\ q.rows = {} /\ (q.records <=> kind # "sample")
  BY <1>3, <1>4 DEF Work, Jobs, Steps, Results, NoWork
<1>6. /\ kinds' \in [Rounds -> {"unplayed", "real", "harness", "sample"}] /\ kinds'[r] = kind
      /\ \A s \in Rounds : s # r => kinds'[s] = kinds[s]
  BY <1>1 DEF MemoryInv, MemoryTypes
<1>7. StillPlayed(kinds, Holdable, kinds', Holdable') /\ Holdable' = Holdable
  BY <1>2, <1>6 DEF StillPlayed, Holdable
<1>8. JobFits(q, kinds', Holdable')
  <2>1. StoreFits(Blank, kinds', Holdable')
    BY <1>4 DEF StoreFits
  <2>2. LedgerFits({}, kinds')
    BY DEF LedgerFits
  <2> QED BY <1>5, <1>6, <2>1, <2>2 DEF JobFits, Depositing
<1>9. Held(q)
  BY <1>5 DEF Held
<1>10. "session" \in Processes /\ inHand' = [inHand EXCEPT !["session"] = q]
  BY <1>1, <1>3 DEF Processes
<1>11. inHand' \in [Processes -> Jobs \cup {NoWork}] /\ Fits'
  BY <1>2, <1>5, <1>7, <1>8, <1>9, <1>10, HandedOn DEF Fits
<1>12. MemoryTypes'
  BY <1>2, <1>6, <1>11 DEF MemoryInv, MemoryTypes
<1>13. inHand'["session"] = q /\ inHand'["rejudge"] = inHand["rejudge"]
  BY <1>10 DEF MemoryInv, MemoryTypes, Processes
<1>14. assessments[r] = "none" /\ "none" \notin Verdicts
  BY <1>2 DEF MemoryInv, JudgedFits, Verdicts
<1>15. JudgedFits'
  BY <1>2, <1>5, <1>6, <1>13, <1>14 DEF MemoryInv, JudgedFits
<1>16. CardsFit'
  <2>1. over \subseteq Rounds /\ early \subseteq Rounds
    BY DEF MemoryInv, MemoryTypes
  <2>2. r \notin over
    BY <1>2 DEF MemoryInv, CardsFit
  <2>3. \A s \in Rounds :
          ShownToTheFounder(s)' => kinds'[s] \notin {"unplayed", "sample"} /\ s \in Excused'
    <3> SUFFICES ASSUME NEW s \in Rounds, ShownToTheFounder(s)
                 PROVE  kinds'[s] \notin {"unplayed", "sample"} /\ s \in Excused
      BY <1>2 DEF ShownToTheFounder, Excused
    <3>1. kinds[s] \notin {"unplayed", "sample"} /\ s \in Excused
      BY DEF MemoryInv, CardsFit
    <3> QED BY <1>2, <1>6, <3>1
  <2>4. inHand["rejudge"] # NoWork =>
          inHand["rejudge"].round # r /\ inHand["rejudge"].round \in Rounds
    BY <1>2, JobParts DEF MemoryInv, MemoryTypes, Fits, JobFits, Processes
  <2>5. \A s \in over : kinds'[s] = kinds[s]
    BY <1>6, <2>1, <2>2
  <2> QED BY <1>2, <1>5, <1>6, <1>13, <2>1, <2>2, <2>3, <2>4, <2>5
          DEF MemoryInv, CardsFit, Excused
<1> QED BY <1>11, <1>12, <1>15, <1>16 DEF MemoryInv

\* finalize writes its answer over what is there; only a rejudge of a round that
\* is not over can have put something good there.
LEMMA SessionJudgesKeepsMemory == MemoryInv /\ SessionJudges => MemoryInv'
<1> SUFFICES ASSUME MemoryInv, SessionJudges PROVE MemoryInv'
  OBVIOUS
<1>1. PICK p : p = inHand["session"]
  OBVIOUS
<1>2. PICK result \in Results :
        /\ ~ p.records => result = "fine"
        /\ inHand' = [inHand EXCEPT !["session"] = [NextAt(p, "loads") EXCEPT !.result = result]]
        /\ assessments' = IF p.records THEN [assessments EXCEPT ![p.round] = result]
                          ELSE assessments
  BY <1>1 DEF SessionJudges
<1>3. /\ p.at = "judges"
      /\ UNCHANGED <<kinds, over, memory, topics, planTopics, cards, overlapped,
                     early, cardless, cut, deaths, rejudges>>
  BY <1>1 DEF SessionJudges
<1>4. "session" \in Processes /\ p \in Jobs /\ JobFits(p, kinds, Holdable)
  BY <1>1, <1>3 DEF MemoryInv, MemoryTypes, Fits, Processes, NoWork
<1>5. PICK q : q = AJob("loads", p, result, p.seen, p.rows, p.owned)
  OBVIOUS
<1>6. inHand' = [inHand EXCEPT !["session"] = q] /\ "loads" \in Steps
  BY <1>2, <1>4, <1>5, JobGoesOn DEF Steps
<1>7. /\ q \in Jobs /\ q # NoWork /\ q.at = "loads" /\ q.round = p.round /\ q.result = result
      /\ q.records = p.records /\ q.seen = p.seen /\ q.rows = p.rows
  BY <1>4, <1>5, <1>6, JobMade, JobParts
<1>8. /\ assessments' \in [Rounds -> Results \cup {"none"}]
      /\ \A s \in Rounds : s # p.round => assessments'[s] = assessments[s]
      /\ p.records => assessments'[p.round] = result
      /\ ~ p.records => assessments' = assessments
  BY <1>2, <1>4, JobParts DEF MemoryInv, MemoryTypes
<1>9. p.round \in early \cup cut \/ assessments[p.round] \notin Verdicts
  BY <1>1, <1>3 DEF MemoryInv, JudgedFits
<1>10. Holdable \subseteq Holdable' /\ (p.records /\ result # "failed" => p.round \in Holdable')
  <2>1. result # "failed" => result \in Verdicts
    BY DEF Results
  <2> QED BY <1>3, <1>4, <1>8, <1>9, <2>1, JobParts DEF Holdable
<1>11. StillPlayed(kinds, Holdable, kinds', Holdable')
  BY <1>3, <1>10 DEF StillPlayed
<1>12. JobFits(p, kinds', Holdable') /\ p # NoWork
  BY <1>4, <1>11, JobStillFits, JobParts
<1>13. JobFits(q, kinds', Holdable')
  BY <1>7, <1>10, <1>12 DEF JobFits, Depositing
<1>14. Held(q)
  BY <1>7 DEF Held
<1>15. inHand' \in [Processes -> Jobs \cup {NoWork}] /\ Fits'
  BY <1>3, <1>4, <1>6, <1>7, <1>11, <1>13, <1>14, HandedOn DEF Fits
<1>16. MemoryTypes'
  BY <1>3, <1>8, <1>15 DEF MemoryInv, MemoryTypes
<1>17. inHand'["session"] = q /\ inHand'["rejudge"] = inHand["rejudge"]
  BY <1>6 DEF MemoryInv, MemoryTypes, Processes
<1>18. JudgedFits'
  <2>1. kinds[p.round] # "unplayed" /\ p.round \notin over
    BY <1>1, <1>4, <1>12 DEF JobFits, MemoryInv, CardsFit
  <2>2. inHand["rejudge"].at = "writes" =>
          /\ inHand["rejudge"] \in Jobs /\ inHand["rejudge"] # NoWork
    BY DEF MemoryInv, MemoryTypes, Processes, NoWork
  <2>3. inHand["rejudge"].at = "writes" =>
          inHand["rejudge"].round \in early \/ inHand["rejudge"].round # p.round
    BY <2>1, <2>2 DEF MemoryInv, CardsFit
  <2>4. inHand["rejudge"].at = "writes" => inHand["rejudge"].round \in Rounds
    BY <2>2, JobParts
  <2> QED BY <1>3, <1>7, <1>8, <1>17, <2>1, <2>3, <2>4 DEF MemoryInv, JudgedFits
<1>19. CardsFit'
  BY <1>1, <1>3, <1>7, <1>12, <1>17 DEF MemoryInv, CardsFit, ShownToTheFounder, Excused
<1> QED BY <1>15, <1>16, <1>18, <1>19 DEF MemoryInv

\* A rejudge starts on a round that is over, or is remembered as early.
LEMMA RejudgesKeepsMemory == \A r \in Rounds : MemoryInv /\ Rejudges(r) => MemoryInv'
<1> SUFFICES ASSUME NEW r \in Rounds, MemoryInv, Rejudges(r) PROVE MemoryInv'
  OBVIOUS
<1>1. PICK deposits \in BOOLEAN : inHand' = [inHand EXCEPT !["rejudge"] = Work(r, deposits)]
  BY DEF Rejudges
<1>2. /\ inHand["rejudge"] = NoWork /\ rejudges < MaxRejudges /\ rejudges' = rejudges + 1
      /\ kinds[r] \in {"real", "harness"}
      /\ early' = IF r \in over THEN early ELSE early \cup {r}
      /\ UNCHANGED <<kinds, over, assessments, memory, topics, planTopics, cards, overlapped,
                     cardless, cut, deaths>>
  BY DEF Rejudges
<1>3. PICK q : q = Work(r, deposits)
  OBVIOUS
<1>4. Blank \in Stores /\ Blank.records = <<>> /\ Blank.closedAfter = {}
  BY DEF Blank, Stores
<1>5. /\ q \in Jobs /\ q # NoWork /\ q.at = "judges" /\ q.round = r /\ q.seen = Blank
      /\ q.rows = {}
  BY <1>3, <1>4 DEF Work, Jobs, Steps, Results, NoWork
<1>6. early \subseteq early' /\ early' \subseteq Rounds /\ r \in over \cup early'
      /\ Holdable \subseteq Holdable' /\ Excused \subseteq Excused'
  BY <1>2 DEF MemoryInv, MemoryTypes, Holdable, Excused
<1>7. StillPlayed(kinds, Holdable, kinds', Holdable')
  BY <1>2, <1>6 DEF StillPlayed
<1>8. JobFits(q, kinds', Holdable')
  <2>1. StoreFits(Blank, kinds', Holdable')
    BY <1>4 DEF StoreFits
  <2>2. LedgerFits({}, kinds')
    BY DEF LedgerFits
  <2> QED BY <1>2, <1>5, <2>1, <2>2 DEF JobFits, Depositing
<1>9. Held(q)
  BY <1>5 DEF Held
<1>10. "rejudge" \in Processes /\ inHand' = [inHand EXCEPT !["rejudge"] = q]
  BY <1>1, <1>3 DEF Processes
<1>11. inHand' \in [Processes -> Jobs \cup {NoWork}] /\ Fits'
  BY <1>2, <1>5, <1>7, <1>8, <1>9, <1>10, HandedOn DEF Fits
<1>12. MemoryTypes'
  BY <1>2, <1>6, <1>11, MemoryBoundsAssumption DEF MemoryInv, MemoryTypes
<1>13. inHand'["rejudge"] = q /\ inHand'["session"] = inHand["session"]
  BY <1>10 DEF MemoryInv, MemoryTypes, Processes
<1>14. JudgedFits'
  BY <1>2, <1>5, <1>6, <1>13 DEF MemoryInv, JudgedFits
<1>15. CardsFit'
  BY <1>2, <1>5, <1>6, <1>13 DEF MemoryInv, CardsFit, ShownToTheFounder
<1> QED BY <1>11, <1>12, <1>14, <1>15 DEF MemoryInv

\* A judge that fails goes on to write only where it found no good record.
LEMMA RejudgeJudgesKeepsMemory == MemoryInv /\ RejudgeJudges => MemoryInv'
<1> SUFFICES ASSUME MemoryInv, RejudgeJudges PROVE MemoryInv'
  OBVIOUS
<1>1. PICK p : p = inHand["rejudge"]
  OBVIOUS
<1>2. PICK result \in Results :
        inHand' = [inHand EXCEPT !["rejudge"] =
                     IF KeepsRecord(p.round, result)
                     THEN Onward([p EXCEPT !.result = result])
                     ELSE NextAt([p EXCEPT !.result = result], "writes")]
  BY <1>1 DEF RejudgeJudges
<1>3. /\ p.at = "judges"
      /\ UNCHANGED <<kinds, over, assessments, memory, topics, planTopics, cards, overlapped,
                     early, cardless, cut, deaths, rejudges>>
  BY <1>1 DEF RejudgeJudges
<1>4. "rejudge" \in Processes /\ p \in Jobs /\ JobFits(p, kinds, Holdable)
  BY <1>1, <1>3 DEF MemoryInv, MemoryTypes, Fits, Processes, NoWork
<1>5. PICK f : f = [p EXCEPT !.result = result]
  OBVIOUS
<1>6. /\ f \in Jobs /\ f.round = p.round /\ f.result = result /\ f.records = p.records
      /\ f.seen = p.seen /\ f.rows = p.rows
  <2>1. f = AJob(p.at, p, result, p.seen, p.rows, p.owned)
    BY <1>4, <1>5, JobParts
  <2>2. p.at \in Steps /\ p.seen \in Stores /\ p.rows \in SUBSET Row /\ p.owned \in BOOLEAN
    BY <1>4, JobParts
  <2> QED BY <1>4, <2>1, <2>2, JobMade
<1>7. PICK q : q = IF KeepsRecord(p.round, result) THEN Onward(f) ELSE NextAt(f, "writes")
  OBVIOUS
<1>8. inHand' = [inHand EXCEPT !["rejudge"] = q]
  BY <1>2, <1>5, <1>7
<1>9. PICK at \in {"loads", "writes"} : at = IF KeepsRecord(p.round, result) THEN "loads" ELSE "writes"
  OBVIOUS
<1>10. q = NoWork \/ q = NextAt(f, at)
  BY <1>7, <1>9 DEF Onward
<1>11. q # NoWork =>
         /\ q \in Jobs /\ q.at = at /\ q.round = p.round /\ q.result = result
         /\ q.records = p.records /\ q.seen = p.seen /\ q.rows = p.rows
  BY <1>6, <1>9, <1>10, JobMade, JobParts DEF Steps
<1>12. /\ at = "loads" => result = "failed"
       /\ at = "writes" /\ result = "failed" => assessments[p.round] \notin Verdicts
  BY <1>9 DEF KeepsRecord
<1>13. Holdable' = Holdable /\ StillPlayed(kinds, Holdable, kinds', Holdable')
  BY <1>3 DEF StillPlayed, Holdable
<1>14. JobFits(q, kinds', Holdable') /\ Held(q)
  <2>1. p # NoWork
    BY <1>4, JobParts
  <2>2. q = NoWork => q.at = "idle"
    BY DEF NoWork
  <2> QED BY <1>3, <1>4, <1>9, <1>11, <1>12, <1>13, <2>1, <2>2 DEF JobFits, Depositing, Held
<1>15. q \in Jobs \cup {NoWork}
  BY <1>11
<1>16. inHand' \in [Processes -> Jobs \cup {NoWork}] /\ Fits'
  BY <1>3, <1>4, <1>8, <1>13, <1>14, <1>15, HandedOn DEF Fits
<1>17. MemoryTypes'
  BY <1>3, <1>16 DEF MemoryInv, MemoryTypes
<1>18. inHand'["rejudge"] = q /\ inHand'["session"] = inHand["session"]
  BY <1>8 DEF MemoryInv, MemoryTypes, Processes
<1>19. q = NoWork => q.at = "idle"
  BY DEF NoWork
<1>20. JudgedFits'
  BY <1>3, <1>11, <1>12, <1>18, <1>19 DEF MemoryInv, JudgedFits
<1>21. CardsFit'
  <2>1. p # NoWork
    BY <1>4, JobParts
  <2> QED BY <1>1, <1>3, <1>9, <1>11, <1>18, <2>1 DEF MemoryInv, CardsFit, ShownToTheFounder, Excused
<1> QED BY <1>16, <1>17, <1>20, <1>21 DEF MemoryInv

LEMMA RejudgeWritesKeepsMemory == MemoryInv /\ RejudgeWrites => MemoryInv'
<1> SUFFICES ASSUME MemoryInv, RejudgeWrites PROVE MemoryInv'
  OBVIOUS
<1>1. PICK p : p = inHand["rejudge"]
  OBVIOUS
<1>2. /\ p.at = "writes" /\ assessments' = [assessments EXCEPT ![p.round] = p.result]
      /\ inHand' = [inHand EXCEPT !["rejudge"] = Onward(p)]
      /\ UNCHANGED <<kinds, over, memory, topics, planTopics, cards, overlapped,
                     early, cardless, cut, deaths, rejudges>>
  BY <1>1 DEF RejudgeWrites
<1>3. "rejudge" \in Processes /\ p \in Jobs /\ p # NoWork /\ JobFits(p, kinds, Holdable)
  BY <1>1, <1>2 DEF MemoryInv, MemoryTypes, Fits, Processes, NoWork
<1>4. PICK q : q = Onward(p)
  OBVIOUS
<1>5. q # NoWork =>
         /\ q \in Jobs /\ q.at = "loads" /\ q.round = p.round /\ q.result = p.result
         /\ q.records = p.records /\ q.seen = p.seen /\ q.rows = p.rows
  BY <1>3, <1>4, JobMade, JobParts DEF Onward, Steps
<1>6. /\ p.round \in Rounds /\ p.result \in Results
      /\ assessments' \in [Rounds -> Results \cup {"none"}]
      /\ assessments'[p.round] = p.result
      /\ \A s \in Rounds : s # p.round => assessments'[s] = assessments[s]
  BY <1>2, <1>3, JobParts DEF MemoryInv, MemoryTypes
<1>7. p.result = "failed" => p.round \in early \cup cut \/ assessments[p.round] \notin Verdicts
  BY <1>1, <1>2 DEF MemoryInv, JudgedFits
<1>8. Holdable \subseteq Holdable' /\ (p.result # "failed" => p.round \in Holdable')
  <2>1. p.result # "failed" => p.result \in Verdicts
    BY <1>6 DEF Results
  <2> QED BY <1>2, <1>6, <1>7, <2>1 DEF Holdable
<1>9. StillPlayed(kinds, Holdable, kinds', Holdable')
  BY <1>2, <1>8 DEF StillPlayed
<1>10. JobFits(p, kinds', Holdable')
  BY <1>3, <1>9, JobStillFits
<1>11. JobFits(q, kinds', Holdable') /\ Held(q) /\ q \in Jobs \cup {NoWork}
  <2>1. q = NoWork => q.at = "idle"
    BY DEF NoWork
  <2> QED BY <1>3, <1>5, <1>8, <1>10, <2>1 DEF JobFits, Depositing, Held
<1>12. inHand' \in [Processes -> Jobs \cup {NoWork}] /\ Fits'
  BY <1>2, <1>3, <1>4, <1>9, <1>11, HandedOn DEF Fits
<1>13. MemoryTypes'
  BY <1>2, <1>6, <1>12 DEF MemoryInv, MemoryTypes
<1>14. inHand'["rejudge"] = q /\ inHand'["session"] = inHand["session"]
  BY <1>2, <1>4 DEF MemoryInv, MemoryTypes, Processes
<1>15. q = NoWork => q.at = "idle"
  BY DEF NoWork
<1>16. p.round \in over \cup early /\ kinds[p.round] # "sample" /\ kinds[p.round] # "unplayed"
  BY <1>1, <1>3 DEF MemoryInv, CardsFit, JobFits
<1>17. JudgedFits'
  <2>1. inHand["session"].at = "judges" =>
          /\ inHand["session"] # NoWork /\ inHand["session"].round \in Rounds
    BY JobParts DEF MemoryInv, MemoryTypes, Processes, NoWork
  <2>2. inHand["session"].at = "judges" =>
          inHand["session"].round \in early \/ inHand["session"].round # p.round
    BY <1>16, <2>1 DEF MemoryInv, CardsFit
  <2> QED BY <1>2, <1>5, <1>6, <1>14, <1>15, <1>16, <2>1, <2>2 DEF MemoryInv, JudgedFits
<1>18. CardsFit'
  BY <1>2, <1>5, <1>14, <1>16 DEF MemoryInv, CardsFit, ShownToTheFounder, Excused
<1> QED BY <1>12, <1>13, <1>17, <1>18 DEF MemoryInv

\* A process that ends before its card; a store cut short is never written back.
LEMMA EndsEarlyFits ==
  \A w \in Processes :
    /\ MemoryInv /\ EndsEarly(w) /\ inHand[w] \in Jobs
    /\ UNCHANGED <<kinds, assessments, topics, planTopics, cards, overlapped,
                   early, cut, rejudges>>
    =>
    /\ inHand' \in [Processes -> Jobs \cup {NoWork}] /\ Holdable' = Holdable
    /\ \A v \in Processes : JobFits(inHand'[v], kinds', Holdable')
    /\ LedgerFits(topics', kinds') /\ LedgerFits(planTopics', kinds')
    /\ memory' = memory => Fits'
    /\ over' \subseteq Rounds /\ cardless' \subseteq Rounds
    /\ JudgedFits' /\ CardsFit'
<1> SUFFICES ASSUME NEW w \in Processes, MemoryInv, EndsEarly(w), inHand[w] \in Jobs,
                    UNCHANGED <<kinds, assessments, topics, planTopics, cards, overlapped,
                                early, cut, rejudges>>
             PROVE
    /\ inHand' \in [Processes -> Jobs \cup {NoWork}] /\ Holdable' = Holdable
    /\ \A v \in Processes : JobFits(inHand'[v], kinds', Holdable')
    /\ LedgerFits(topics', kinds') /\ LedgerFits(planTopics', kinds')
    /\ memory' = memory => Fits'
    /\ over' \subseteq Rounds /\ cardless' \subseteq Rounds
    /\ JudgedFits' /\ CardsFit'
  OBVIOUS
<1>1. PICK p : p = inHand[w]
  OBVIOUS
<1>2. /\ inHand' = [inHand EXCEPT ![w] = NoWork]
      /\ over' = IF w = "session" THEN over \cup {p.round} ELSE over
      /\ cardless' = IF w = "session" /\ p.records THEN cardless \cup {p.round} ELSE cardless
  BY <1>1 DEF EndsEarly
<1>3. p \in Jobs /\ p # NoWork /\ p.round \in Rounds /\ JobFits(p, kinds, Holdable)
  BY <1>1, JobParts DEF MemoryInv, Fits
<1>4. Holdable' = Holdable /\ StillPlayed(kinds, Holdable, kinds', Holdable')
  BY DEF StillPlayed, Holdable
<1>5. JobFits(NoWork, kinds', Holdable') /\ Held(NoWork) /\ NoWork.at = "idle"
  BY DEF JobFits, Held, NoWork
<1>6. /\ inHand' \in [Processes -> Jobs \cup {NoWork}]
      /\ \A v \in Processes : JobFits(inHand'[v], kinds', Holdable')
      /\ LedgerFits(topics', kinds') /\ LedgerFits(planTopics', kinds')
      /\ memory' = memory => Fits'
  BY <1>2, <1>4, <1>5, HandedOn DEF Fits
<1>7. over' \subseteq Rounds /\ cardless' \subseteq Rounds
  BY <1>2, <1>3 DEF MemoryInv, MemoryTypes
<1>8. /\ inHand'["session"] = NoWork \/ (inHand'["session"] = inHand["session"] /\ w # "session")
      /\ inHand'["rejudge"] = NoWork \/ inHand'["rejudge"] = inHand["rejudge"]
  BY <1>2 DEF MemoryInv, MemoryTypes, Processes
<1>9. JudgedFits'
  BY <1>5, <1>8 DEF MemoryInv, JudgedFits
<1>10. CardsFit'
  <2>1. CASE w # "session"
    BY <1>2, <1>8, <2>1 DEF MemoryInv, CardsFit, ShownToTheFounder, Excused
  <2>2. CASE w = "session"
    <3>1. kinds[p.round] # "unplayed" /\ (kinds[p.round] # "sample" => p.round \in cardless')
      BY <1>1, <1>2, <1>3, <2>2 DEF MemoryInv, CardsFit, JobFits
    <3>2. /\ inHand'["session"] = NoWork /\ over \subseteq over' /\ Excused \subseteq Excused'
          /\ \A r \in over' : r \in over \/ r = p.round
      BY <1>2, <1>8, <2>2 DEF Excused
    <3> QED BY <1>8, <3>1, <3>2 DEF MemoryInv, CardsFit, ShownToTheFounder, Excused
  <2> QED BY <2>1, <2>2
<1> QED BY <1>4, <1>6, <1>7, <1>9, <1>10

LEMMA LoadsTornKeepsMemory == \A w \in Processes : MemoryInv /\ LoadsTorn(w) => MemoryInv'
<1> SUFFICES ASSUME NEW w \in Processes, MemoryInv, LoadsTorn(w) PROVE MemoryInv'
  OBVIOUS
<1>1. /\ inHand[w].at = "loads" /\ EndsEarly(w)
      /\ UNCHANGED <<kinds, assessments, memory, topics, planTopics, cards, overlapped,
                     early, cut, deaths, rejudges>>
  BY DEF LoadsTorn
<1>2. inHand[w] \in Jobs
  BY <1>1 DEF MemoryInv, MemoryTypes, NoWork
<1>3. /\ inHand' \in [Processes -> Jobs \cup {NoWork}] /\ Fits' /\ JudgedFits' /\ CardsFit'
      /\ over' \subseteq Rounds /\ cardless' \subseteq Rounds
  BY <1>1, <1>2, EndsEarlyFits
<1>4. MemoryTypes'
  BY <1>1, <1>3 DEF MemoryInv, MemoryTypes
<1> QED BY <1>3, <1>4 DEF MemoryInv

\* A death may cut the store short.
LEMMA DiesKeepsMemory == \A w \in Processes : MemoryInv /\ ProcessDies(w) => MemoryInv'
<1> SUFFICES ASSUME NEW w \in Processes, MemoryInv, ProcessDies(w) PROVE MemoryInv'
  OBVIOUS
<1> DEFINE Torn == [records |-> <<>>, closedAfter |-> {}, torn |-> TRUE]
<1>1. /\ inHand[w] # NoWork /\ deaths < MaxDeaths /\ deaths' = deaths + 1 /\ EndsEarly(w)
      /\ UNCHANGED <<kinds, assessments, topics, planTopics, cards, overlapped,
                     early, cut, rejudges>>
  BY DEF ProcessDies
<1>2. memory' = memory \/ memory' = Torn
  BY DEF ProcessDies, Blank
<1>3. inHand[w] \in Jobs
  BY <1>1 DEF MemoryInv, MemoryTypes
<1>4. /\ inHand' \in [Processes -> Jobs \cup {NoWork}] /\ Holdable' = Holdable
      /\ \A v \in Processes : JobFits(inHand'[v], kinds', Holdable')
      /\ LedgerFits(topics', kinds') /\ LedgerFits(planTopics', kinds')
      /\ memory' = memory => Fits'
      /\ JudgedFits' /\ CardsFit' /\ over' \subseteq Rounds /\ cardless' \subseteq Rounds
  BY <1>1, <1>3, EndsEarlyFits
<1>5. Torn \in Stores /\ Torn.torn /\ Torn.records = <<>> /\ Torn.closedAfter = {}
  BY DEF Stores
<1>6. StoreFits(Torn, kinds', Holdable')
  BY <1>5 DEF StoreFits
<1> HIDE DEF Torn
<1>7. MemoryTypes'
  <2>1. memory' \in Stores /\ deaths' \in 0..MaxDeaths
    BY <1>1, <1>2, <1>5, MemoryBoundsAssumption DEF MemoryInv, MemoryTypes
  <2> QED BY <1>1, <1>4, <2>1 DEF MemoryInv, MemoryTypes
<1>8. Fits'
  <2>1. CASE memory' = memory
    BY <1>4, <2>1
  <2>2. CASE memory' = Torn
    <3>1. memory'.torn /\ StoreFits(memory', kinds', Holdable')
      BY <1>5, <1>6, <2>2
    <3>2. (\A v \in Processes : Held(inHand[v])') /\ DepositsSurvive'
      BY <3>1 DEF Held, DepositsSurvive
    <3> QED BY <1>4, <3>1, <3>2 DEF Fits
  <2> QED BY <1>2, <2>1, <2>2
<1> QED BY <1>4, <1>7, <1>8 DEF MemoryInv

\* A process that has read a whole store.
LEMMA LoadsKeepsMemory == \A w \in Processes : MemoryInv /\ Loads(w) => MemoryInv'
<1> SUFFICES ASSUME NEW w \in Processes, MemoryInv, Loads(w) PROVE MemoryInv'
  OBVIOUS
<1>1. PICK p : p = inHand[w]
  OBVIOUS
<1>2. PICK next \in {"saves", "card"} : next = IF Deposits(p) THEN "saves" ELSE "card"
  OBVIOUS
<1>3. /\ p.at = "loads" /\ ~ memory.torn
      /\ inHand' = [inHand EXCEPT ![w] = [NextAt(p, next) EXCEPT !.seen = memory]]
      /\ UNCHANGED <<kinds, over, assessments, memory, topics, planTopics, cards, overlapped,
                     early, cardless, cut, deaths, rejudges>>
  BY <1>1, <1>2 DEF Loads
<1>4. p \in Jobs /\ p # NoWork /\ JobFits(p, kinds, Holdable) /\ p.round \in Rounds
      /\ p.result \in Results
  BY <1>1, <1>3, JobParts DEF MemoryInv, MemoryTypes, Fits, NoWork
<1>5. memory \in Stores /\ StoreFits(memory, kinds, Holdable)
  BY DEF MemoryInv, MemoryTypes, Fits
<1>6. PICK q : q = AJob(next, p, p.result, memory, p.rows, p.owned)
  OBVIOUS
<1>7. inHand' = [inHand EXCEPT ![w] = q] /\ next \in Steps
  <2>1. next \in Steps
    BY <1>2 DEF Steps
  <2>2. [NextAt(p, next) EXCEPT !.seen = memory] = q
    BY <1>4, <1>5, <1>6, <2>1, JobGoesOn
  <2> QED BY <1>3, <2>1, <2>2
<1>8. /\ q \in Jobs /\ q # NoWork /\ q.at = next /\ q.round = p.round /\ q.result = p.result
      /\ q.records = p.records /\ q.seen = memory /\ q.rows = p.rows
  BY <1>4, <1>5, <1>6, <1>7, JobMade, JobParts
<1>9. next = "saves" => kinds[p.round] = "real" /\ p.result \in Verdicts /\ p.round \in Holdable
  <2>1. kinds[p.round] \in {"unplayed", "real", "harness", "sample"}
    BY <1>4 DEF MemoryInv, MemoryTypes
  <2> QED BY <1>2, <1>3, <1>4, <2>1 DEF JobFits, Deposits, Memorable, Results
<1>10. Holdable' = Holdable /\ StillPlayed(kinds, Holdable, kinds', Holdable')
  BY <1>3 DEF StillPlayed, Holdable
<1>11. JobFits(q, kinds', Holdable') /\ Held(q)
  BY <1>2, <1>3, <1>4, <1>5, <1>8, <1>9, <1>10 DEF JobFits, Depositing, Held
<1>12. inHand' \in [Processes -> Jobs \cup {NoWork}] /\ Fits'
  BY <1>3, <1>7, <1>8, <1>10, <1>11, HandedOn DEF Fits
<1>13. MemoryTypes'
  BY <1>3, <1>12 DEF MemoryInv, MemoryTypes
<1>14. JudgedFits' /\ CardsFit'
  BY <1>1, <1>2, <1>3, <1>4, <1>7, <1>8, OrderedStill
<1> QED BY <1>12, <1>13, <1>14 DEF MemoryInv

\* The store is written whole, from what was read: no round that was there is
\* missing unless another process wrote it since.
LEMMA SavesKeepsMemory == \A w \in Processes : MemoryInv /\ Saves(w) => MemoryInv'
<1> SUFFICES ASSUME NEW w \in Processes, MemoryInv, Saves(w) PROVE MemoryInv'
  OBVIOUS
<1>1. PICK p : p = inHand[w]
  OBVIOUS
<1>2. PICK new : new = WithRound(p.seen, p.round, p.result)
  OBVIOUS
<1>3. /\ p.at = "saves" /\ memory' = new /\ overlapped' = (overlapped \/ p.seen # memory)
      /\ inHand' = [inHand EXCEPT ![w] = [NextAt(p, "topics") EXCEPT !.seen = new]]
      /\ UNCHANGED <<kinds, over, assessments, topics, planTopics, cards,
                     early, cardless, cut, deaths, rejudges>>
  BY <1>1, <1>2 DEF Saves
<1>4. p \in Jobs /\ p # NoWork /\ JobFits(p, kinds, Holdable) /\ p.round \in Rounds
      /\ p.result \in Results /\ p.seen \in Stores
  BY <1>1, <1>3, JobParts DEF MemoryInv, MemoryTypes, Fits, NoWork
<1>5. /\ kinds[p.round] = "real" /\ p.result \in Verdicts /\ p.round \in Holdable /\ ~ p.seen.torn
      /\ StoreFits(p.seen, kinds, Holdable)
  BY <1>3, <1>4 DEF JobFits, Depositing
<1>6. /\ new \in Stores /\ StoreFits(new, kinds, Holdable) /\ ~ new.torn
      /\ InStore(new, p.round) /\ \A s \in Rounds : InStore(p.seen, s) => InStore(new, s)
  BY <1>2, <1>4, <1>5, WithRoundFits
<1>7. PICK q : q = AJob("topics", p, p.result, new, p.rows, p.owned)
  OBVIOUS
<1>8. inHand' = [inHand EXCEPT ![w] = q] /\ "topics" \in Steps
  BY <1>3, <1>4, <1>6, <1>7, JobGoesOn DEF Steps
<1>9. /\ q \in Jobs /\ q # NoWork /\ q.at = "topics" /\ q.round = p.round /\ q.result = p.result
      /\ q.records = p.records /\ q.seen = new /\ q.rows = p.rows
  BY <1>4, <1>6, <1>7, <1>8, JobMade, JobParts
<1>10. Holdable' = Holdable /\ StillPlayed(kinds, Holdable, kinds', Holdable')
  BY <1>3 DEF StillPlayed, Holdable
<1>11. JobFits(q, kinds', Holdable')
  BY <1>3, <1>4, <1>5, <1>6, <1>9, <1>10 DEF JobFits, Depositing
<1>12. /\ inHand' \in [Processes -> Jobs \cup {NoWork}]
       /\ \A v \in Processes : JobFits(inHand'[v], kinds', Holdable')
       /\ LedgerFits(topics', kinds') /\ LedgerFits(planTopics', kinds')
  BY <1>3, <1>8, <1>9, <1>10, <1>11, HandedOn
<1>13. \A s \in Rounds : ~ overlapped' /\ (overlapped \/ memory.torn \/ InStore(memory, s))
                          => InStore(memory', s)
  BY <1>3, <1>5, <1>6
<1>14. topics \subseteq Row
  BY DEF MemoryInv, MemoryTypes
<1>15. DepositsSurvive'
  <2> SUFFICES ASSUME ~ overlapped', NEW x \in topics PROVE InStore(memory', x.round)
    BY <1>3 DEF DepositsSurvive, InStore
  <2>1. x.round \in Rounds
    BY <1>14 DEF Row
  <2>2. overlapped \/ memory.torn \/ InStore(memory, x.round)
    BY DEF MemoryInv, Fits, DepositsSurvive, InStore
  <2> QED BY <1>13, <2>1, <2>2
<1>16. \A v \in Processes : Held(inHand[v])'
  <2> SUFFICES ASSUME NEW v \in Processes PROVE Held(inHand[v])'
    OBVIOUS
  <2>1. inHand \in [Processes -> Jobs \cup {NoWork}]
    BY DEF MemoryInv, MemoryTypes
  <2>2. CASE v = w
    BY <1>3, <1>6, <1>8, <1>9, <2>1, <2>2 DEF Held
  <2>3. CASE v # w
    <3>1. PICK h \in Jobs \cup {NoWork} : h = inHand[v] /\ h = inHand'[v]
      BY <1>8, <2>1, <2>3
    <3>2. Held(h)
      BY <3>1 DEF MemoryInv, Fits
    <3>3. CASE h = NoWork
      BY <3>1, <3>3 DEF Held, NoWork
    <3>4. CASE h \in Jobs
      <4>1. h.round \in Rounds /\ \A x \in h.rows : x.round \in Rounds
        BY <3>4, JobParts DEF Row
      <4> QED BY <1>13, <3>1, <3>2, <4>1 DEF Held
    <3> QED BY <3>1, <3>3, <3>4
  <2> QED BY <2>2, <2>3
<1>17. Fits'
  BY <1>3, <1>6, <1>10, <1>12, <1>15, <1>16 DEF Fits
<1>18. MemoryTypes'
  BY <1>3, <1>6, <1>12 DEF MemoryInv, MemoryTypes
<1>19. JudgedFits' /\ CardsFit'
  BY <1>1, <1>3, <1>4, <1>8, <1>9, OrderedStill
<1> QED BY <1>17, <1>18, <1>19 DEF MemoryInv

\* A ledger is read whole.
LEMMA ReadsKeepsMemory ==
  \A w \in Processes : MemoryInv /\ (ReadsTopics(w) \/ ReadsPlan(w)) => MemoryInv'
<1> SUFFICES ASSUME NEW w \in Processes, MemoryInv, ReadsTopics(w) \/ ReadsPlan(w)
             PROVE  MemoryInv'
  OBVIOUS
<1>1. PICK p : p = inHand[w]
  OBVIOUS
<1>2. PICK next \in {"topicsRead", "planRead"}, rows \in {topics, planTopics} :
        /\ inHand' = [inHand EXCEPT ![w] = [NextAt(p, next) EXCEPT !.rows = rows]]
        /\ p.at \in {"topics", "plan"}
        /\ next = "topicsRead" => p.at = "topics" /\ rows = topics
        /\ UNCHANGED <<kinds, over, assessments, memory, topics, planTopics, cards, overlapped,
                       early, cardless, cut, deaths, rejudges>>
  BY <1>1 DEF ReadsTopics, ReadsPlan
<1>3. p \in Jobs /\ p # NoWork /\ JobFits(p, kinds, Holdable) /\ Held(p)
  BY <1>1, <1>2, JobParts DEF MemoryInv, MemoryTypes, Fits, NoWork
<1>4. rows \in SUBSET Row /\ LedgerFits(rows, kinds)
  BY <1>2 DEF MemoryInv, MemoryTypes, Fits
<1>5. PICK q : q = AJob(next, p, p.result, p.seen, rows, p.owned)
  OBVIOUS
<1>6. inHand' = [inHand EXCEPT ![w] = q] /\ next \in Steps
  <2>1. next \in Steps
    BY <1>2 DEF Steps
  <2>2. [NextAt(p, next) EXCEPT !.rows = rows] = q
    BY <1>3, <1>4, <1>5, <2>1, JobGoesOn
  <2> QED BY <1>2, <2>1, <2>2
<1>7. /\ q \in Jobs /\ q # NoWork /\ q.at = next /\ q.round = p.round /\ q.result = p.result
      /\ q.records = p.records /\ q.seen = p.seen /\ q.rows = rows
  BY <1>3, <1>4, <1>5, <1>6, JobMade, JobParts
<1>8. Holdable' = Holdable /\ StillPlayed(kinds, Holdable, kinds', Holdable')
  BY <1>2 DEF StillPlayed, Holdable
<1>9. JobFits(q, kinds', Holdable')
  BY <1>2, <1>3, <1>4, <1>7, <1>8 DEF JobFits, Depositing
<1>10. Held(q)
  <2>1. overlapped \/ memory.torn \/ \A x \in topics : InStore(memory, x.round)
    BY DEF MemoryInv, Fits, DepositsSurvive, InStore
  <2> QED BY <1>2, <1>3, <1>7, <2>1 DEF Held
<1>11. inHand' \in [Processes -> Jobs \cup {NoWork}] /\ Fits'
  BY <1>2, <1>6, <1>7, <1>8, <1>9, <1>10, HandedOn DEF Fits
<1>12. MemoryTypes'
  BY <1>2, <1>11 DEF MemoryInv, MemoryTypes
<1>13. JudgedFits' /\ CardsFit'
  BY <1>1, <1>2, <1>3, <1>6, <1>7, OrderedStill
<1> QED BY <1>11, <1>12, <1>13 DEF MemoryInv

\* Rows enter a ledger for rounds that are in the store.
LEMMA PublishesKeepsMemory ==
  \A w \in Processes : MemoryInv /\ (SavesTopics(w) \/ SavesPlan(w)) => MemoryInv'
<1> SUFFICES ASSUME NEW w \in Processes, MemoryInv, SavesTopics(w) \/ SavesPlan(w)
             PROVE  MemoryInv'
  OBVIOUS
<1>1. PICK p : p = inHand[w]
  OBVIOUS
<1>2. PICK L : L = Upserted(p.rows, p.round, w)
  OBVIOUS
<1>3. PICK next \in {"plan", "card"} :
        /\ inHand' = [inHand EXCEPT ![w] = [NextAt(p, next) EXCEPT !.rows = {}]]
        /\ p.at \in {"topicsRead", "planRead"}
        /\ topics' = topics \/ (topics' = L /\ p.at = "topicsRead")
        /\ planTopics' \in {planTopics, L}
        /\ UNCHANGED <<kinds, over, assessments, memory, cards, overlapped,
                       early, cardless, cut, deaths, rejudges>>
  BY <1>1, <1>2 DEF SavesTopics, SavesPlan
<1>4. p \in Jobs /\ p # NoWork /\ JobFits(p, kinds, Holdable) /\ Held(p)
  BY <1>1, <1>3, JobParts DEF MemoryInv, MemoryTypes, Fits, NoWork
<1>5. p.round \in Rounds /\ p.rows \in SUBSET Row /\ kinds[p.round] = "real"
      /\ LedgerFits(p.rows, kinds)
  BY <1>3, <1>4, JobParts DEF JobFits, Depositing
<1>6. L \subseteq Row /\ LedgerFits(L, kinds)
  BY <1>2, <1>5, UpsertedFits
<1>7. PICK q : q = AJob(next, p, p.result, p.seen, {}, p.owned)
  OBVIOUS
<1>8. inHand' = [inHand EXCEPT ![w] = q] /\ next \in Steps
  <2>1. next \in Steps
    BY <1>3 DEF Steps
  <2>2. [NextAt(p, next) EXCEPT !.rows = {}] = q
    BY <1>4, <1>7, <2>1, JobGoesOn
  <2> QED BY <1>3, <2>1, <2>2
<1>9. /\ q \in Jobs /\ q # NoWork /\ q.at = next /\ q.round = p.round /\ q.result = p.result
      /\ q.records = p.records /\ q.seen = p.seen /\ q.rows = {}
  BY <1>4, <1>7, <1>8, JobMade, JobParts
<1>10. Holdable' = Holdable /\ StillPlayed(kinds, Holdable, kinds', Holdable')
  BY <1>3 DEF StillPlayed, Holdable
<1>11. JobFits(q, kinds', Holdable') /\ Held(q)
  <2>1. LedgerFits({}, kinds')
    BY DEF LedgerFits
  <2> QED BY <1>3, <1>4, <1>9, <1>10, <2>1 DEF JobFits, Depositing, Held
<1>12. /\ inHand' \in [Processes -> Jobs \cup {NoWork}]
       /\ \A v \in Processes : JobFits(inHand'[v], kinds', Holdable')
       /\ StoreFits(memory', kinds', Holdable') /\ \A v \in Processes : Held(inHand[v])'
  BY <1>3, <1>8, <1>9, <1>10, <1>11, HandedOn
<1>13. DepositsSurvive'
  <2>1. CASE topics' = topics
    BY <1>3, <2>1 DEF MemoryInv, Fits, DepositsSurvive
  <2>2. CASE topics' = L /\ p.at = "topicsRead"
    <3>1. \A x \in L : x \in p.rows \/ x.round = p.round
      BY <1>2 DEF Upserted
    <3>2. overlapped \/ memory.torn
          \/ (InStore(memory, p.round) /\ \A x \in p.rows : InStore(memory, x.round))
      BY <1>4, <2>2 DEF Held
    <3> QED BY <1>3, <2>2, <3>1, <3>2 DEF DepositsSurvive, InStore
  <2> QED BY <1>3, <2>1, <2>2
<1>14. LedgerFits(topics', kinds') /\ LedgerFits(planTopics', kinds')
       /\ topics' \subseteq Row /\ planTopics' \subseteq Row
  BY <1>3, <1>6 DEF MemoryInv, MemoryTypes, Fits
<1>15. Fits'
  BY <1>12, <1>13, <1>14 DEF Fits
<1>16. MemoryTypes'
  BY <1>3, <1>12, <1>14 DEF MemoryInv, MemoryTypes
<1>17. JudgedFits' /\ CardsFit'
  BY <1>1, <1>3, <1>4, <1>8, <1>9, OrderedStill
<1> QED BY <1>15, <1>16, <1>17 DEF MemoryInv

\* The card names its owner and is the last file.
LEMMA SessionCardKeepsMemory == MemoryInv /\ SessionCard => MemoryInv'
<1> SUFFICES ASSUME MemoryInv, SessionCard PROVE MemoryInv'
  OBVIOUS
<1>1. PICK p : p = inHand["session"]
  OBVIOUS
<1>2. PICK b : b = NewlyClosed(p.seen, p.round)
  OBVIOUS
<1>3. /\ p.at = "card" /\ over' = over \cup {p.round}
      /\ inHand' = [inHand EXCEPT !["session"] = NoWork]
      /\ cards' = IF p.records
                  THEN [cards EXCEPT ![p.round] =
                          [present |-> TRUE, owned |-> TRUE, celebrates |-> b]]
                  ELSE cards
      /\ UNCHANGED <<kinds, assessments, memory, topics, planTopics, overlapped,
                     early, cardless, cut, deaths, rejudges>>
  BY <1>1, <1>2 DEF SessionCard, CardOf
<1>4. "session" \in Processes /\ p \in Jobs /\ p # NoWork /\ JobFits(p, kinds, Holdable)
      /\ p.round \in Rounds /\ p.records \in BOOLEAN
  BY <1>1, <1>3, JobParts DEF MemoryInv, MemoryTypes, Fits, Processes, NoWork
<1>5. b \in BOOLEAN
  BY <1>2 DEF NewlyClosed
<1>6. /\ cards' \in [Rounds -> Card]
      /\ \A r \in Rounds : r # p.round => cards'[r] = cards[r]
      /\ p.records => cards'[p.round].owned
      /\ ~ p.records => cards' = cards
  BY <1>3, <1>4, <1>5 DEF MemoryInv, MemoryTypes, Card
<1>7. Holdable' = Holdable /\ StillPlayed(kinds, Holdable, kinds', Holdable')
  BY <1>3 DEF StillPlayed, Holdable
<1>8. JobFits(NoWork, kinds', Holdable') /\ Held(NoWork) /\ NoWork.at = "idle"
  BY DEF JobFits, Held, NoWork
<1>9. inHand' \in [Processes -> Jobs \cup {NoWork}] /\ Fits'
  BY <1>3, <1>4, <1>7, <1>8, HandedOn DEF Fits
<1>10. MemoryTypes'
  BY <1>3, <1>4, <1>6, <1>9 DEF MemoryInv, MemoryTypes
<1>11. inHand'["session"] = NoWork /\ inHand'["rejudge"] = inHand["rejudge"]
  BY <1>3 DEF MemoryInv, MemoryTypes, Processes
<1>12. JudgedFits'
  BY <1>3, <1>8, <1>11 DEF MemoryInv, JudgedFits
<1>13. CardsFit'
  <2>1. /\ kinds[p.round] # "unplayed" /\ (~ p.records <=> kinds[p.round] = "sample")
        /\ over \subseteq Rounds
    BY <1>1, <1>4 DEF MemoryInv, MemoryTypes, CardsFit, JobFits
  <2>2. Excused' = Excused
    BY <1>3 DEF Excused
  <2>3. \A r \in over' : kinds'[r] # "unplayed"
                         /\ (kinds'[r] # "sample" => cards'[r].owned \/ r \in Excused')
    BY <1>3, <1>6, <2>1, <2>2 DEF MemoryInv, CardsFit
  <2>4. \A r \in Rounds :
          ShownToTheFounder(r)' => kinds'[r] \notin {"unplayed", "sample"} /\ r \in Excused'
    BY <1>3, <1>6, <2>1, <2>2 DEF MemoryInv, CardsFit, ShownToTheFounder
  <2> QED BY <1>3, <1>8, <1>11, <2>2, <2>3, <2>4 DEF MemoryInv, CardsFit
<1> QED BY <1>9, <1>10, <1>12, <1>13 DEF MemoryInv

\* rejudge reads the owner of a round that is over, or was early.
LEMMA ReadsCardKeepsMemory == MemoryInv /\ RejudgeReadsCard => MemoryInv'
<1> SUFFICES ASSUME MemoryInv, RejudgeReadsCard PROVE MemoryInv'
  OBVIOUS
<1>1. PICK p : p = inHand["rejudge"]
  OBVIOUS
<1>2. PICK o : o = cards[p.round].owned
  OBVIOUS
<1>3. /\ p.at = "card"
      /\ inHand' = [inHand EXCEPT !["rejudge"] = [NextAt(p, "cardRead") EXCEPT !.owned = o]]
      /\ UNCHANGED <<kinds, over, assessments, memory, topics, planTopics, cards, overlapped,
                     early, cardless, cut, deaths, rejudges>>
  BY <1>1, <1>2 DEF RejudgeReadsCard
<1>4. "rejudge" \in Processes /\ p \in Jobs /\ p # NoWork /\ JobFits(p, kinds, Holdable)
      /\ p.round \in Rounds
  BY <1>1, <1>3, JobParts DEF MemoryInv, MemoryTypes, Fits, Processes, NoWork
<1>5. o \in BOOLEAN
  BY <1>2, <1>4 DEF MemoryInv, MemoryTypes, Card
<1>6. PICK q : q = AJob("cardRead", p, p.result, p.seen, p.rows, o)
  OBVIOUS
<1>7. inHand' = [inHand EXCEPT !["rejudge"] = q] /\ "cardRead" \in Steps
  <2>1. "cardRead" \in Steps
    BY DEF Steps
  <2>2. PICK f : f = NextAt(p, "cardRead")
    OBVIOUS
  <2>3. f = AJob("cardRead", p, p.result, p.seen, p.rows, p.owned)
    BY <1>4, <2>2, JobParts
  <2>4. [f EXCEPT !.owned = o] = q
    BY <1>6, <2>3 DEF AJob
  <2> QED BY <1>3, <2>1, <2>2, <2>4
<1>8. /\ q \in Jobs /\ q # NoWork /\ q.at = "cardRead" /\ q.round = p.round
      /\ q.records = p.records /\ q.seen = p.seen /\ q.rows = p.rows /\ q.owned = o
  BY <1>4, <1>5, <1>6, <1>7, JobMade, JobParts
<1>9. Holdable' = Holdable /\ StillPlayed(kinds, Holdable, kinds', Holdable')
  BY <1>3 DEF StillPlayed, Holdable
<1>10. JobFits(q, kinds', Holdable') /\ Held(q)
  BY <1>3, <1>4, <1>8, <1>9 DEF JobFits, Depositing, Held
<1>11. inHand' \in [Processes -> Jobs \cup {NoWork}] /\ Fits'
  BY <1>3, <1>4, <1>7, <1>8, <1>9, <1>10, HandedOn DEF Fits
<1>12. MemoryTypes'
  BY <1>3, <1>11 DEF MemoryInv, MemoryTypes
<1>13. inHand'["rejudge"] = q /\ inHand'["session"] = inHand["session"]
  BY <1>7 DEF MemoryInv, MemoryTypes, Processes
<1>14. JudgedFits'
  BY <1>3, <1>8, <1>13 DEF MemoryInv, JudgedFits
<1>15. CardsFit'
  <2>1. p.round \in over \cup early /\ kinds[p.round] # "sample"
    BY <1>1, <1>4 DEF MemoryInv, CardsFit
  <2>2. o \/ p.round \in Excused
    BY <1>2, <2>1 DEF MemoryInv, CardsFit, Excused
  <2>3. Excused' = Excused /\ \A r \in Rounds : ShownToTheFounder(r)' = ShownToTheFounder(r)
    BY <1>3 DEF Excused, ShownToTheFounder
  <2>4. /\ \A r \in over' : kinds'[r] # "unplayed"
                            /\ (kinds'[r] # "sample" => cards'[r].owned \/ r \in Excused')
        /\ \A r \in Rounds :
             ShownToTheFounder(r)' => kinds'[r] \notin {"unplayed", "sample"} /\ r \in Excused'
    BY <1>3, <2>3 DEF MemoryInv, CardsFit
  <2>5. inHand'["session"] # NoWork =>
          /\ inHand'["session"].round \notin over'
          /\ ~ inHand'["session"].records => kinds'[inHand'["session"].round] = "sample"
    BY <1>3, <1>13 DEF MemoryInv, CardsFit
  <2>6. /\ q.round \in over' \cup early' /\ kinds'[q.round] # "sample"
        /\ q.owned \/ q.round \in Excused'
    BY <1>3, <1>8, <2>1, <2>2, <2>3
  <2> QED BY <1>13, <2>4, <2>5, <2>6 DEF CardsFit
<1> QED BY <1>11, <1>12, <1>14, <1>15 DEF MemoryInv

LEMMA RejudgeCardKeepsMemory == MemoryInv /\ RejudgeCard => MemoryInv'
<1> SUFFICES ASSUME MemoryInv, RejudgeCard PROVE MemoryInv'
  OBVIOUS
<1>1. PICK p : p = inHand["rejudge"]
  OBVIOUS
<1>2. PICK b : b = NewlyClosed(p.seen, p.round)
  OBVIOUS
<1>3. /\ p.at = "cardRead"
      /\ inHand' = [inHand EXCEPT !["rejudge"] = NoWork]
      /\ cards' = [cards EXCEPT ![p.round] =
                     [present |-> TRUE, owned |-> p.owned, celebrates |-> b]]
      /\ UNCHANGED <<kinds, over, assessments, memory, topics, planTopics, overlapped,
                     early, cardless, cut, deaths, rejudges>>
  BY <1>1, <1>2 DEF RejudgeCard, CardOf
<1>4. "rejudge" \in Processes /\ p \in Jobs /\ p # NoWork /\ JobFits(p, kinds, Holdable)
      /\ p.round \in Rounds /\ p.owned \in BOOLEAN
  BY <1>1, <1>3, JobParts DEF MemoryInv, MemoryTypes, Fits, Processes, NoWork
<1>5. b \in BOOLEAN
  BY <1>2 DEF NewlyClosed
<1>6. /\ cards' \in [Rounds -> Card]
      /\ \A r \in Rounds : r # p.round => cards'[r] = cards[r]
      /\ cards'[p.round].owned = p.owned
  BY <1>3, <1>4, <1>5 DEF MemoryInv, MemoryTypes, Card
<1>7. Holdable' = Holdable /\ StillPlayed(kinds, Holdable, kinds', Holdable')
  BY <1>3 DEF StillPlayed, Holdable
<1>8. JobFits(NoWork, kinds', Holdable') /\ Held(NoWork) /\ NoWork.at = "idle"
  BY DEF JobFits, Held, NoWork
<1>9. inHand' \in [Processes -> Jobs \cup {NoWork}] /\ Fits'
  BY <1>3, <1>4, <1>7, <1>8, HandedOn DEF Fits
<1>10. MemoryTypes'
  BY <1>3, <1>6, <1>9 DEF MemoryInv, MemoryTypes
<1>11. inHand'["rejudge"] = NoWork /\ inHand'["session"] = inHand["session"]
  BY <1>3 DEF MemoryInv, MemoryTypes, Processes
<1>12. JudgedFits'
  BY <1>3, <1>8, <1>11 DEF MemoryInv, JudgedFits
<1>13. CardsFit'
  <2>1. /\ kinds[p.round] \notin {"unplayed", "sample"} /\ (p.owned \/ p.round \in Excused)
        /\ over \subseteq Rounds
    BY <1>1, <1>3, <1>4 DEF MemoryInv, MemoryTypes, CardsFit, JobFits
  <2>2. Excused' = Excused
    BY <1>3 DEF Excused
  <2>3. \A r \in over' : kinds'[r] # "unplayed"
                         /\ (kinds'[r] # "sample" => cards'[r].owned \/ r \in Excused')
    BY <1>3, <1>6, <2>1, <2>2 DEF MemoryInv, CardsFit
  <2>4. \A r \in Rounds :
          ShownToTheFounder(r)' => kinds'[r] \notin {"unplayed", "sample"} /\ r \in Excused'
    BY <1>3, <1>6, <2>1, <2>2 DEF MemoryInv, CardsFit, ShownToTheFounder
  <2> QED BY <1>3, <1>8, <1>11, <2>2, <2>3, <2>4 DEF MemoryInv, CardsFit
<1> QED BY <1>9, <1>10, <1>12, <1>13 DEF MemoryInv

\* What a dying rejudge cuts short is excepted.
LEMMA DiesWritingKeepsMemory == MemoryInv /\ RejudgeDiesWriting => MemoryInv'
<1> SUFFICES ASSUME MemoryInv, RejudgeDiesWriting PROVE MemoryInv'
  OBVIOUS
<1>1. PICK p : p = inHand["rejudge"]
  OBVIOUS
<1>2. /\ p.at \in {"writes", "cardRead"} /\ cut' = cut \cup {p.round}
      /\ inHand' = [inHand EXCEPT !["rejudge"] = NoWork]
      /\ assessments' = assessments \/ assessments' = [assessments EXCEPT ![p.round] = "none"]
      /\ cards' = cards \/ cards' = [cards EXCEPT ![p.round] = NoCard]
      /\ deaths < MaxDeaths /\ deaths' = deaths + 1
      /\ UNCHANGED <<kinds, over, memory, topics, planTopics, overlapped,
                     early, cardless, rejudges>>
  BY <1>1 DEF RejudgeDiesWriting
<1>3. "rejudge" \in Processes /\ p \in Jobs /\ p # NoWork /\ JobFits(p, kinds, Holdable)
      /\ p.round \in Rounds
  BY <1>1, <1>2, JobParts DEF MemoryInv, MemoryTypes, Fits, Processes, NoWork
<1>4. /\ assessments' \in [Rounds -> Results \cup {"none"}]
      /\ \A r \in Rounds : assessments'[r] = assessments[r] \/ assessments'[r] = "none"
      /\ \A r \in Rounds : r # p.round => assessments'[r] = assessments[r]
  BY <1>2, <1>3 DEF MemoryInv, MemoryTypes
<1>5. NoCard \in Card /\ ~ NoCard.present
  BY DEF NoCard, Card
<1>6. /\ cards' \in [Rounds -> Card]
      /\ \A r \in Rounds : r # p.round => cards'[r] = cards[r]
      /\ cards'[p.round] = cards[p.round] \/ ~ cards'[p.round].present
  BY <1>2, <1>3, <1>5 DEF MemoryInv, MemoryTypes
<1>7. Holdable \subseteq Holdable' /\ StillPlayed(kinds, Holdable, kinds', Holdable')
  BY <1>2, <1>4 DEF StillPlayed, Holdable
<1>8. JobFits(NoWork, kinds', Holdable') /\ Held(NoWork) /\ NoWork.at = "idle"
  BY DEF JobFits, Held, NoWork
<1>9. inHand' \in [Processes -> Jobs \cup {NoWork}] /\ Fits'
  BY <1>2, <1>3, <1>7, <1>8, HandedOn DEF Fits
<1>10. MemoryTypes'
  <2>1. deaths' \in 0..MaxDeaths /\ cut' \subseteq Rounds
    BY <1>2, <1>3, MemoryBoundsAssumption DEF MemoryInv, MemoryTypes
  <2> QED BY <1>2, <1>4, <1>6, <1>9, <2>1 DEF MemoryInv, MemoryTypes
<1>11. inHand'["rejudge"] = NoWork /\ inHand'["session"] = inHand["session"]
  BY <1>2 DEF MemoryInv, MemoryTypes, Processes
<1>12. JudgedFits'
  <2>1. inHand["session"].at = "judges" => inHand["session"].round \in Rounds
    BY JobParts DEF MemoryInv, MemoryTypes, Processes, NoWork
  <2>2. "none" \notin Verdicts
    BY DEF Verdicts
  <2> QED BY <1>2, <1>4, <1>8, <1>11, <2>1, <2>2 DEF MemoryInv, JudgedFits
<1>13. CardsFit'
  <2>1. /\ kinds[p.round] \notin {"unplayed", "sample"} /\ over \subseteq Rounds
    BY <1>1, <1>3 DEF MemoryInv, MemoryTypes, CardsFit, JobFits
  <2>2. Excused \subseteq Excused' /\ p.round \in Excused'
    BY <1>2 DEF Excused
  <2>3. \A r \in over' : kinds'[r] # "unplayed"
                         /\ (kinds'[r] # "sample" => cards'[r].owned \/ r \in Excused')
    BY <1>2, <1>6, <2>1, <2>2 DEF MemoryInv, CardsFit
  <2>4. \A r \in Rounds :
          ShownToTheFounder(r)' => kinds'[r] \notin {"unplayed", "sample"} /\ r \in Excused'
    BY <1>2, <1>6, <2>1, <2>2 DEF MemoryInv, CardsFit, ShownToTheFounder
  <2> QED BY <1>2, <1>8, <1>11, <2>2, <2>3, <2>4 DEF MemoryInv, CardsFit
<1> QED BY <1>9, <1>10, <1>12, <1>13 DEF MemoryInv

\* The invariant is inductive.
LEMMA MemoryStep == MemoryInv /\ [MemoryNext]_memoryVars => MemoryInv'
<1>1. ASSUME MemoryInv, UNCHANGED memoryVars PROVE MemoryInv'
  <2> USE <1>1 DEF memoryVars
  <2>1. MemoryTypes'
    BY DEF MemoryInv, MemoryTypes
  <2>2. Holdable' = Holdable /\ DepositsSurvive' /\ \A w \in Processes : Held(inHand[w])'
    BY DEF Holdable, MemoryInv, Fits, DepositsSurvive, Held
  <2>3. Fits'
    BY <2>2 DEF MemoryInv, Fits
  <2>4. JudgedFits' /\ CardsFit'
    BY DEF MemoryInv, JudgedFits, CardsFit, ShownToTheFounder, Excused
  <2> QED BY <2>1, <2>3, <2>4 DEF MemoryInv
<1> QED BY <1>1, StartsKeepsMemory, SessionJudgesKeepsMemory, RejudgesKeepsMemory,
           RejudgeJudgesKeepsMemory, RejudgeWritesKeepsMemory, LoadsTornKeepsMemory,
           LoadsKeepsMemory, SavesKeepsMemory, ReadsKeepsMemory, PublishesKeepsMemory,
           SessionCardKeepsMemory, ReadsCardKeepsMemory, RejudgeCardKeepsMemory,
           DiesKeepsMemory, DiesWritingKeepsMemory DEF MemoryNext

\* A player nothing is known of.
LEMMA MemoryStarts == MemoryInit => MemoryInv
<1> SUFFICES ASSUME MemoryInit PROVE MemoryInv
  OBVIOUS
<1>1. Blank \in Stores /\ Blank.records = <<>> /\ Blank.closedAfter = {} /\ ~ Blank.torn
  BY DEF Blank, Stores
<1>2. NoCard \in Card /\ ~ NoCard.present
  BY DEF NoCard, Card
<1>3. MemoryTypes
  <2> USE DEF MemoryInit
  <2>1. /\ kinds \in [Rounds -> {"unplayed", "real", "harness", "sample"}]
        /\ assessments \in [Rounds -> Results \cup {"none"}]
        /\ cards \in [Rounds -> Card]
    BY <1>2
  <2>2. /\ over \subseteq Rounds /\ topics \subseteq Row /\ planTopics \subseteq Row
        /\ early \subseteq Rounds /\ cardless \subseteq Rounds /\ cut \subseteq Rounds
    OBVIOUS
  <2>3. memory \in Stores /\ overlapped \in BOOLEAN /\ inHand \in [Processes -> Jobs \cup {NoWork}]
    BY <1>1
  <2>4. deaths \in 0..MaxDeaths /\ rejudges \in 0..MaxRejudges
    BY MemoryBoundsAssumption
  <2> QED BY <2>1, <2>2, <2>3, <2>4 DEF MemoryTypes
<1>4. /\ inHand["session"] = NoWork /\ inHand["rejudge"] = NoWork /\ NoWork.at = "idle"
      /\ \A w \in Processes : inHand[w] = NoWork
  BY DEF MemoryInit, Processes, NoWork
<1>5. Fits
  <2>1. StoreFits(memory, kinds, Holdable)
    BY <1>1 DEF MemoryInit, StoreFits
  <2>2. \A w \in Processes : JobFits(inHand[w], kinds, Holdable) /\ Held(inHand[w])
    BY <1>4 DEF JobFits, Held
  <2>3. LedgerFits(topics, kinds) /\ LedgerFits(planTopics, kinds) /\ DepositsSurvive
    BY DEF MemoryInit, LedgerFits, DepositsSurvive
  <2> QED BY <2>1, <2>2, <2>3 DEF Fits
<1>6. JudgedFits
  BY <1>4 DEF MemoryInit, JudgedFits
<1>7. CardsFit
  BY <1>2, <1>4 DEF MemoryInit, CardsFit, ShownToTheFounder
<1> QED BY <1>3, <1>5, <1>6, <1>7 DEF MemoryInv

\* No round recorded twice in the gap store has each there once.
LEMMA DoubledOrOnce == memory \in Stores /\ Doubled = {} => Once(memory.records)
<1> SUFFICES ASSUME memory \in Stores, Doubled = {},
                    NEW i \in 1..Len(memory.records), NEW j \in 1..Len(memory.records),
                    memory.records[i].round = memory.records[j].round, i # j
             PROVE  FALSE
  BY DEF Once
<1> DEFINE r == memory.records[i].round
           All == {k \in 1..Len(memory.records) : memory.records[k].round = r}
<1>1. memory.records \in Seq(StoreRows) /\ Len(memory.records) \in Nat
  BY DEF Stores
<1>2. r \in Rounds
  <2>1. memory.records[i] \in StoreRows
    BY <1>1
  <2> QED BY <2>1 DEF StoreRows
<1>3. {i, j} \subseteq All
  OBVIOUS
<1>4. IsFiniteSet(All)
  <2>1. IsFiniteSet(1..Len(memory.records))
    BY <1>1, FS_Interval
  <2> QED BY <2>1, FS_Subset
<1>5. Cardinality({i, j}) = 2
  <2>1. IsFiniteSet({i}) /\ Cardinality({i}) = 1
    BY FS_Singleton
  <2>2. {i, j} = {i} \cup {j} /\ j \notin {i}
    OBVIOUS
  <2>3. Cardinality({i} \cup {j}) = Cardinality({i}) + 1
    BY <2>1, <2>2, FS_AddElement, Zenon
  <2>4. Cardinality({i, j}) = Cardinality({i}) + 1
    BY <2>2, <2>3, Zenon
  <2>5. Cardinality({i, j}) = 1 + 1
    BY <2>1, <2>4, Zenon
  <2> HIDE DEF r, All
  <2> QED BY ONLY <2>5
<1>6. Cardinality(All) >= 2 /\ Cardinality(All) \in Nat
  <2> HIDE DEF All
  <2>1. Cardinality({i, j}) <= Cardinality(All) /\ Cardinality(All) \in Nat
    BY <1>3, <1>4, FS_Subset, FS_CardinalityType
  <2> QED BY <1>5, <2>1
<1>7. r \in Doubled
  BY <1>2, <1>6 DEF Doubled
<1> QED BY <1>7

\* And it says what the run checks.
LEMMA MemoryKeeps == MemoryInv => MemoryIsEarned
<1> SUFFICES ASSUME MemoryInv PROVE MemoryIsEarned
  OBVIOUS
<1>1. ClosingIsEarned
  BY DoubledOrOnce DEF MemoryInv, Fits, MemoryTypes, StoreFits, ClosingIsEarned, RoundsOfThese,
     CleanAfter
<1>2. OnlyJudgedRoundsOfTheirOwn /\ LedgersCountOnce
  BY DEF MemoryInv, Fits, StoreFits, LedgerFits, OnlyJudgedRoundsOfTheirOwn, LedgersCountOnce
<1>3. DepositsSurvive
  BY DEF MemoryInv, Fits
<1>4. CardsFindTheirPlayer
  BY DEF MemoryInv, CardsFit, CardsFindTheirPlayer, ShownToTheFounder, Excused
<1>5. \A r \in Rounds : AssessedStays(r)
  BY DEF MemoryInv, Fits, StoreFits, AssessedStays, Holdable
<1> QED BY <1>1, <1>2, <1>3, <1>4, <1>5 DEF MemoryIsEarned

---------------------------------------------------------------------------
(* The receipts of a verdict.                                              *)

Entries == [type : {"session_start", "utterance", "work", "interviewer", "stt", "session_end"},
            ts : Nat, words : BOOLEAN,
            outage : {"no", "whole", "straddled", "ended"}, state : {"up", "down"}]
VerdictRows == [dimension : Dimensions, graded : BOOLEAN, evidence : SUBSET Seconds,
                stripped : SUBSET Seconds, unreceipted : BOOLEAN,
                quotes : SUBSET [at : Seconds, of : Nat]]

VerdictTypes ==
  /\ setting \in [interviewer : BOOLEAN, panes : BOOLEAN]
  /\ clock \in Nat
  /\ trace \in Seq(Entries)
  /\ segment \in [on : BOOLEAN, since : Nat, outage : BOOLEAN]
  /\ reading \in [call : {"none", "first", "after_timeout", "after_slop"},
                  shown : SUBSET Nat, length : Nat]
  /\ verdict \in [status : {"none", "assessed", "unassessed"}, rows : SUBSET VerdictRows,
                  cited : SUBSET Seconds]
  /\ reads \in Nat

\* A moment in an outage as the markers have it, and one outside every outage:
\* each was over by then, or not yet begun.
Covered(tr, ts) ==
  \E k \in Markers(tr) : /\ Opening(tr, k) /\ tr[k].ts <= ts
                         /\ \A m \in Closing(tr, k) : ts <= tr[m].ts
Uncovered(tr, ts) ==
  \A k \in Markers(tr) : Opening(tr, k) =>
    ts <= tr[k].ts \/ \E m \in Closing(tr, k) : tr[m].ts <= ts
HeardIn(tr, ts, outage) == IF outage THEN Covered(tr, ts) ELSE Uncovered(tr, ts)

\* Reports of the link alternate, in the order of their time, and every segment
\* heard is labelled by the outage in which it began.
TraceFits(tr, time) ==
  /\ \A i \in DOMAIN tr : tr[i].ts <= time
  /\ \A i, j \in Markers(tr) : i < j => tr[i].ts <= tr[j].ts
  /\ \A i \in Markers(tr) : tr[i].state = "down" => Opening(tr, i)
  /\ \A i \in Utterances(tr) : HeardIn(tr, tr[i].ts, tr[i].outage \in {"whole", "ended"})

SegmentFits ==
  /\ segment.on =>
       /\ segment.since <= clock /\ setting.interviewer
       /\ HeardIn(trace, segment.since, segment.outage)
  /\ ~ setting.interviewer => Utterances(trace) = {}

ReadingFits ==
  /\ reading.length <= Len(trace)
  /\ reading.shown = {i \in renderTimeline(trace) : i <= reading.length}
  /\ reads = 0 => reading.length = 0 /\ reading.call = "none" /\ verdict.rows = {}
  /\ reading.call # "none" => verdict.rows = {}

VerdictInv ==
  /\ VerdictTypes
  /\ TraceFits(trace, clock)
  /\ SegmentFits
  /\ ReadingFits
  /\ ReceiptsAreReal /\ HonestCitationsStand /\ SilenceIsNotGraded

\* The largest and the smallest of a set of indices.
LEMMA MaxIsHighest ==
  ASSUME NEW n \in Nat, NEW S, S \subseteq 1..n, S # {}
  PROVE  Max(S) \in S /\ \A y \in S : y <= Max(S)
<1>1. \A x, y \in S : x \in Nat /\ (y <= x <=> x >= y)
  OBVIOUS
<1>2. \E x \in S : \A y \in S : x >= y
  BY <1>1, HasHighest
<1>3. Max(S) \in S /\ \A y \in S : Max(S) >= y
  BY <1>2 DEF Max
<1> QED BY <1>1, <1>3

LEMMA MinIsLowest ==
  ASSUME NEW n \in Nat, NEW S, S \subseteq 1..n, S # {}
  PROVE  Min(S) \in S /\ \A y \in S : Min(S) <= y
<1>1. \E x \in S : \A y \in S : x <= y
  BY HasLowest
<1> QED BY <1>1 DEF Min

\* What every entry of a trace is.
LEMMA TraceFacts ==
  ASSUME NEW tr \in Seq(Entries)
  PROVE  /\ Len(tr) \in Nat /\ DOMAIN tr = 1..Len(tr)
         /\ \A i \in DOMAIN tr : tr[i] \in Entries /\ tr[i].ts \in Nat
         /\ Markers(tr) \subseteq 1..Len(tr) /\ Utterances(tr) \subseteq 1..Len(tr)
<1>1. Len(tr) \in Nat /\ DOMAIN tr = 1..Len(tr)
  OBVIOUS
<1>2. \A i \in DOMAIN tr : tr[i] \in Entries
  OBVIOUS
<1> QED BY <1>1, <1>2 DEF Entries, Markers, Utterances

\* The last marker before another, and after a marker those that close it.
LEMMA MarkerFacts ==
  ASSUME NEW tr \in Seq(Entries)
  PROVE  /\ Markers(tr) # {} =>
              /\ Max(Markers(tr)) \in Markers(tr)
              /\ \A j \in Markers(tr) : j <= Max(Markers(tr))
         /\ \A i \in Markers(tr) : Closing(tr, i) # {} =>
              /\ Min(Closing(tr, i)) \in Closing(tr, i)
              /\ \A j \in Closing(tr, i) : Min(Closing(tr, i)) <= j
         /\ \A i \in Markers(tr) : {j \in Markers(tr) : j < i} # {} =>
              Max({j \in Markers(tr) : j < i}) \in {j \in Markers(tr) : j < i}
<1>1. Len(tr) \in Nat /\ Markers(tr) \subseteq 1..Len(tr)
  BY TraceFacts
<1>2. ASSUME Markers(tr) # {}
      PROVE  Max(Markers(tr)) \in Markers(tr) /\ \A j \in Markers(tr) : j <= Max(Markers(tr))
  BY <1>1, <1>2, MaxIsHighest
<1>3. ASSUME NEW i \in Markers(tr), Closing(tr, i) # {}
      PROVE  /\ Min(Closing(tr, i)) \in Closing(tr, i)
             /\ \A j \in Closing(tr, i) : Min(Closing(tr, i)) <= j
  <2>1. Closing(tr, i) \subseteq 1..Len(tr)
    BY <1>1 DEF Closing
  <2> QED BY <1>1, <1>3, <2>1, MinIsLowest
<1>4. ASSUME NEW i \in Markers(tr), {j \in Markers(tr) : j < i} # {}
      PROVE  Max({j \in Markers(tr) : j < i}) \in {j \in Markers(tr) : j < i}
  <2>1. {j \in Markers(tr) : j < i} \subseteq 1..Len(tr)
    BY <1>1
  <2> QED BY <1>1, <1>4, <2>1, MaxIsHighest
<1> QED BY <1>2, <1>3, <1>4

\* A trace with one more entry.
LEMMA AppendFacts ==
  ASSUME NEW tr \in Seq(Entries), NEW e \in Entries
  PROVE  LET new == Append(tr, e) IN
         /\ new \in Seq(Entries) /\ Len(new) = Len(tr) + 1
         /\ new[Len(tr) + 1] = e /\ \A i \in DOMAIN tr : new[i] = tr[i]
         /\ Markers(new) = Markers(tr) \cup (IF e.type = "stt" THEN {Len(tr) + 1} ELSE {})
         /\ \A i \in Markers(tr) : /\ Opening(new, i) <=> Opening(tr, i)
                                   /\ Closing(tr, i) = Closing(new, i) \ {Len(tr) + 1}
<1> DEFINE new == Append(tr, e)
<1>1. /\ new \in Seq(Entries) /\ Len(new) = Len(tr) + 1 /\ Len(tr) \in Nat
      /\ new[Len(tr) + 1] = e /\ \A i \in 1..Len(tr) : new[i] = tr[i]
      /\ DOMAIN tr = 1..Len(tr) /\ DOMAIN new = 1..(Len(tr) + 1)
  OBVIOUS
<1> HIDE DEF new
<1>2. \A i : i \in Markers(new) <=>
               i \in Markers(tr) \/ (i = Len(tr) + 1 /\ e.type = "stt")
  BY <1>1 DEF Markers
<1>3. Markers(new) = Markers(tr) \cup (IF e.type = "stt" THEN {Len(tr) + 1} ELSE {})
  BY <1>2
<1>4. \A i \in Markers(tr) : i \in 1..Len(tr) /\ new[i] = tr[i]
  BY <1>1, TraceFacts
<1>5. \A i \in Markers(tr) : {j \in Markers(new) : j < i} = {j \in Markers(tr) : j < i}
  <2> TAKE i \in Markers(tr)
  <2>1. \A j : j \in Markers(new) /\ j < i <=> j \in Markers(tr) /\ j < i
    BY <1>1, <1>2, <1>4
  <2> QED BY <2>1
<1>6. \A i \in Markers(tr) : Opening(new, i) <=> Opening(tr, i)
  <2> TAKE i \in Markers(tr)
  <2> DEFINE before == {j \in Markers(tr) : j < i}
  <2>1. before # {} => new[Max(before)] = tr[Max(before)]
    BY <1>4, MarkerFacts
  <2>2. new[i] = tr[i]
    BY <1>4
  <2> QED BY <1>5, <2>1, <2>2 DEF Opening
<1>7. \A i \in Markers(tr) : Closing(tr, i) = Closing(new, i) \ {Len(tr) + 1}
  <2> TAKE i \in Markers(tr)
  <2>1. \A j : j \in Closing(tr, i) <=> j \in Closing(new, i) /\ j # Len(tr) + 1
    BY <1>1, <1>2, <1>4 DEF Closing
  <2> QED BY <2>1
<1> QED BY <1>1, <1>3, <1>6, <1>7 DEF new

\* A segment stays in an outage, or outside, when a marker of now arrives.
LEMMA HeardStays ==
  ASSUME NEW tr \in Seq(Entries), NEW e \in Entries, NEW ts \in Nat,
         e.type = "stt" => ts <= e.ts, NEW outage \in BOOLEAN, HeardIn(tr, ts, outage)
  PROVE  HeardIn(Append(tr, e), ts, outage)
<1> DEFINE new == Append(tr, e)
           last == Len(tr) + 1
<1>1. /\ Markers(new) = Markers(tr) \cup (IF e.type = "stt" THEN {last} ELSE {})
      /\ new[last] = e /\ Len(tr) \in Nat
      /\ \A i \in Markers(tr) : /\ Opening(new, i) <=> Opening(tr, i)
                                /\ Closing(tr, i) = Closing(new, i) \ {last}
                                /\ i \in 1..Len(tr) /\ new[i] = tr[i]
  BY AppendFacts, TraceFacts
<1> HIDE DEF new
<1>2. \A i \in Markers(tr) : \A m \in Closing(tr, i) : new[m] = tr[m]
  BY <1>1 DEF Closing
<1>3. \A i \in Markers(tr) : \A m \in Closing(new, i) : m \in Markers(new)
  BY DEF Closing
<1>4. CASE outage
  <2>1. PICK k \in Markers(tr) : /\ Opening(tr, k) /\ tr[k].ts <= ts
                                 /\ \A m \in Closing(tr, k) : ts <= tr[m].ts
    BY <1>4 DEF HeardIn, Covered
  <2>2. \A m \in Closing(new, k) : ts <= new[m].ts
    <3> TAKE m \in Closing(new, k)
    <3>1. CASE m = last
      <4>1. e.type = "stt"
        BY <1>1, <1>3, <3>1
      <4> QED BY <1>1, <3>1, <4>1
    <3>2. CASE m # last
      <4>1. m \in Closing(tr, k)
        BY <1>1, <3>2
      <4> QED BY <1>2, <2>1, <4>1
    <3> QED BY <3>1, <3>2
  <2> QED BY <1>1, <1>4, <2>1, <2>2 DEF HeardIn, Covered, new
<1>5. CASE ~ outage
  <2> SUFFICES ASSUME NEW k \in Markers(new), Opening(new, k)
               PROVE  ts <= new[k].ts \/ \E m \in Closing(new, k) : new[m].ts <= ts
    BY <1>5 DEF HeardIn, Uncovered, new
  <2>1. CASE k = last /\ k \notin Markers(tr)
    BY <1>1, <2>1
  <2>2. CASE k \in Markers(tr)
    <3>1. ts <= tr[k].ts \/ \E m \in Closing(tr, k) : tr[m].ts <= ts
      BY <1>1, <1>5, <2>2 DEF HeardIn, Uncovered
    <3> QED BY <1>1, <1>2, <2>2, <3>1
  <2> QED BY <1>1, <2>1, <2>2
<1> QED BY <1>4, <1>5

\* An entry of the present, or of a segment labelled as it began, keeps the
\* trace in order.
LEMMA AppendFits ==
  ASSUME NEW tr \in Seq(Entries), NEW time \in Nat, TraceFits(tr, time),
         NEW e \in Entries, e.ts <= time,
         e.type = "stt" =>
           /\ e.ts = time
           /\ (e.state = "down") #
                (Markers(tr) # {} /\ tr[Max(Markers(tr))].state = "down"),
         e.type = "utterance" => HeardIn(tr, e.ts, e.outage \in {"whole", "ended"})
  PROVE  /\ TraceFits(Append(tr, e), time)
         /\ \A ts \in 0..time, b \in BOOLEAN : HeardIn(tr, ts, b) => HeardIn(Append(tr, e), ts, b)
<1> DEFINE new == Append(tr, e)
           last == Len(tr) + 1
<1>1. /\ Markers(new) = Markers(tr) \cup (IF e.type = "stt" THEN {last} ELSE {})
      /\ new[last] = e /\ Len(tr) \in Nat /\ DOMAIN tr = 1..Len(tr)
      /\ DOMAIN new = 1..last
      /\ \A i \in 1..Len(tr) : new[i] = tr[i] /\ tr[i].ts \in Nat /\ tr[i] \in Entries
      /\ Markers(tr) \subseteq 1..Len(tr)
      /\ \A i \in Markers(tr) : Opening(new, i) <=> Opening(tr, i)
  <2>1. new \in Seq(Entries) /\ Len(new) = last
    BY AppendFacts
  <2> QED BY <2>1, AppendFacts, TraceFacts
<1>2. \A ts \in 0..time, b \in BOOLEAN : HeardIn(tr, ts, b) => HeardIn(new, ts, b)
  BY HeardStays
<1> HIDE DEF new
<1>3. \A i \in DOMAIN new : new[i].ts <= time
  BY <1>1 DEF TraceFits
<1>4. \A i, j \in Markers(new) : i < j => new[i].ts <= new[j].ts
  BY <1>1 DEF TraceFits
<1>5. \A i \in Markers(new) : new[i].state = "down" => Opening(new, i)
  <2> SUFFICES ASSUME NEW i \in Markers(new), new[i].state = "down" PROVE Opening(new, i)
    OBVIOUS
  <2>1. CASE i \in Markers(tr)
    BY <1>1, <2>1 DEF TraceFits
  <2>2. CASE i = last /\ e.type = "stt"
    <3> DEFINE before == {j \in Markers(new) : j < i}
    <3>1. before = Markers(tr)
      <4>1. \A j : j \in Markers(new) /\ j < i <=> j \in Markers(tr)
        BY <1>1, <2>2
      <4> QED BY <4>1
    <3>2. before = {} \/ new[Max(before)].state # "down"
      <4> HIDE DEF before
      <4>1. Markers(tr) # {} => Max(Markers(tr)) \in 1..Len(tr)
        BY <1>1, MarkerFacts
      <4> QED BY <1>1, <2>2, <3>1, <4>1
    <3>3. before # {} => new[Max(before)] \in Entries
      <4> HIDE DEF before
      <4>1. Markers(tr) # {} => Max(Markers(tr)) \in 1..Len(tr)
        BY <1>1, MarkerFacts
      <4> QED BY <1>1, <3>1, <4>1
    <3> QED BY <3>2, <3>3 DEF Opening, Entries
  <2> QED BY <1>1, <2>1, <2>2
<1>6. \A i \in Utterances(new) : HeardIn(new, new[i].ts, new[i].outage \in {"whole", "ended"})
  <2> SUFFICES ASSUME NEW i \in Utterances(new)
               PROVE  HeardIn(new, new[i].ts, new[i].outage \in {"whole", "ended"})
    OBVIOUS
  <2>1. new[i].ts \in 0..time /\ (i \in 1..Len(tr) \/ i = last) /\ new[i].type = "utterance"
    <3>1. i \in DOMAIN new /\ new[i].type = "utterance"
      BY DEF Utterances
    <3>2. e.ts \in Nat
      BY DEF Entries
    <3> QED BY <1>1, <1>3, <3>1, <3>2
  <2>2. HeardIn(tr, new[i].ts, new[i].outage \in {"whole", "ended"})
    BY <1>1, <2>1 DEF TraceFits, Utterances
  <2>3. (new[i].outage \in {"whole", "ended"}) \in BOOLEAN
    OBVIOUS
  <2> QED BY <1>2, <2>1, <2>2, <2>3
<1>7. TraceFits(new, time)
  BY <1>3, <1>4, <1>5, <1>6 DEF TraceFits
<1> QED BY <1>2, <1>7 DEF new

\* The interval of an outage holds what was said in it, and nothing else but at
\* its ends.
LEMMA HeardIsDown ==
  ASSUME NEW tr \in Seq(Entries), NEW time \in Nat, TraceFits(tr, time), NEW ts \in Nat
  PROVE  /\ HeardIn(tr, ts, TRUE) => Down(tr, ts)
         /\ HeardIn(tr, ts, FALSE) /\ Down(tr, ts) => \E m \in Markers(tr) : tr[m].ts = ts
<1>1. \A i \in Markers(tr) : tr[i].ts \in Nat /\ i \in Nat
  BY TraceFacts
<1>2. ASSUME HeardIn(tr, ts, TRUE) PROVE Down(tr, ts)
  <2>1. PICK k \in Markers(tr) : /\ Opening(tr, k) /\ tr[k].ts <= ts
                                 /\ \A m \in Closing(tr, k) : ts <= tr[m].ts
    BY <1>2 DEF HeardIn, Covered
  <2>2. Closing(tr, k) = {} \/ ts <= tr[Min(Closing(tr, k))].ts
    BY <2>1, MarkerFacts
  <2> QED BY <1>1, <2>1, <2>2 DEF Down
<1>3. ASSUME HeardIn(tr, ts, FALSE), Down(tr, ts)
      PROVE  \E m \in Markers(tr) : tr[m].ts = ts
  <2>1. PICK k \in Markers(tr) :
          /\ Opening(tr, k) /\ ts >= tr[k].ts
          /\ Closing(tr, k) = {} \/ ts <= tr[Min(Closing(tr, k))].ts
    BY <1>3 DEF Down
  <2>2. ts <= tr[k].ts \/ \E m \in Closing(tr, k) : tr[m].ts <= ts
    BY <1>3, <2>1 DEF HeardIn, Uncovered
  <2>3. CASE ts <= tr[k].ts
    BY <1>1, <2>1, <2>3
  <2>4. ASSUME NEW m \in Closing(tr, k), tr[m].ts <= ts PROVE \E x \in Markers(tr) : tr[x].ts = ts
    <3> DEFINE first == Min(Closing(tr, k))
    <3>1. first \in Closing(tr, k) /\ first <= m
      BY MarkerFacts
    <3> HIDE DEF first
    <3>2. first \in Markers(tr) /\ m \in Markers(tr)
      BY <3>1 DEF Closing
    <3>3. tr[first].ts <= tr[m].ts
      BY <1>1, <3>1, <3>2 DEF TraceFits
    <3>4. ts <= tr[first].ts
      BY <2>1, <2>4 DEF first
    <3> QED BY <1>1, <2>4, <3>2, <3>3, <3>4
  <2> QED BY <2>2, <2>3, <2>4
<1> QED BY <1>2, <1>3

\* The timeline of what a trace had is the same when it grows, but for markers.
LEMMA TimelineStays ==
  ASSUME NEW tr \in Seq(Entries), NEW e \in Entries, e.type # "stt"
  PROVE  \A i \in DOMAIN tr : i \in renderTimeline(Append(tr, e)) <=> i \in renderTimeline(tr)
<1> DEFINE new == Append(tr, e)
           last == Len(tr) + 1
<1>1. Len(tr) \in Nat /\ DOMAIN tr = 1..Len(tr) /\ Markers(tr) \subseteq 1..Len(tr)
  BY TraceFacts
<1>2. \A i \in 1..Len(tr) : new[i] = tr[i]
  BY <1>1
<1>3. \A i \in Markers(tr) : /\ Opening(new, i) <=> Opening(tr, i)
                             /\ Closing(tr, i) = Closing(new, i) \ {last}
  BY AppendFacts
<1>4. Markers(new) = Markers(tr)
  <2>1. Markers(new) = Markers(tr) \cup (IF e.type = "stt" THEN {last} ELSE {})
    BY AppendFacts
  <2> HIDE DEF new
  <2> QED BY <2>1
<1>5. DOMAIN new = 1..last
  BY <1>1
<1> HIDE DEF new
<1>6. \A i \in Markers(tr) : Closing(new, i) = Closing(tr, i)
  <2>1. \A i \in Markers(tr) : last \notin Closing(new, i)
    BY <1>1, <1>4 DEF Closing
  <2> QED BY <1>3, <2>1
<1>7. \A i \in Markers(tr) : Closing(tr, i) # {} => new[Min(Closing(tr, i))] = tr[Min(Closing(tr, i))]
  <2>1. \A i \in Markers(tr) : \A m \in Closing(tr, i) : m \in 1..Len(tr)
    BY <1>1 DEF Closing
  <2> QED BY <1>2, <2>1, MarkerFacts
<1>8. \A ts : Down(new, ts) <=> Down(tr, ts)
  BY <1>1, <1>2, <1>3, <1>4, <1>6, <1>7 DEF Down
<1>9. \A x : isPhantomUtterance(new, x) <=> isPhantomUtterance(tr, x)
  BY <1>8 DEF isPhantomUtterance
<1>10. \A i \in DOMAIN tr : i \in DOMAIN new /\ new[i] = tr[i]
  BY <1>1, <1>2, <1>5
<1>11. \A i \in DOMAIN tr : i \in renderTimeline(new) <=> i \in renderTimeline(tr)
  BY <1>9, <1>10 DEF renderTimeline
<1> QED BY <1>11 DEF new

\* Before its verdict a round has nothing to receipt.
LEMMA NoRowsYet ==
  /\ VerdictInv /\ (Talking \/ reading.call # "none") => verdict.rows = {}
  /\ verdict'.rows = {} => ReceiptsAreReal' /\ HonestCitationsStand' /\ SilenceIsNotGraded'
<1>1. VerdictInv /\ (Talking \/ reading.call # "none") => verdict.rows = {}
  BY DEF VerdictInv, ReadingFits, Talking
<1>2. verdict'.rows = {} => ReceiptsAreReal' /\ HonestCitationsStand' /\ SilenceIsNotGraded'
  BY DEF ReceiptsAreReal, HonestCitationsStand, SilenceIsNotGraded
<1> QED BY <1>1, <1>2

\* One lemma for every action. Time leaves the order of the trace.
LEMMA PassesKeepsVerdict == VerdictInv /\ Passes => VerdictInv'
<1> SUFFICES ASSUME VerdictInv, Passes PROVE VerdictInv'
  OBVIOUS
<1>1. /\ Talking /\ clock' = clock + 1
      /\ UNCHANGED <<setting, trace, segment, reading, verdict, reads>>
  BY DEF Passes
<1>2. VerdictTypes'
  BY <1>1 DEF VerdictInv, VerdictTypes
<1>3. TraceFits(trace', clock')
  <2>1. \A i \in DOMAIN trace : trace[i].ts \in Nat
    BY TraceFacts DEF VerdictInv, VerdictTypes
  <2> QED BY <1>1, <2>1 DEF VerdictInv, VerdictTypes, TraceFits
<1>4. SegmentFits' /\ ReadingFits'
  BY <1>1 DEF VerdictInv, VerdictTypes, SegmentFits, ReadingFits
<1> QED BY <1>1, <1>2, <1>3, <1>4, NoRowsYet DEF VerdictInv

\* An entry arrives in a round that has no verdict.
LEMMA ArrivalFits ==
  VerdictInv => \A e \in Entries :
      /\ trace' = Append(trace, e) /\ e.ts <= clock
      /\ e.type = "stt" =>
           /\ e.ts = clock
           /\ (e.state = "down") #
                (Markers(trace) # {} /\ trace[Max(Markers(trace))].state = "down")
      /\ e.type = "utterance" => setting.interviewer
                                 /\ HeardIn(trace, e.ts, e.outage \in {"whole", "ended"})
      => /\ trace' \in Seq(Entries) /\ TraceFits(trace', clock) /\ Len(trace') = Len(trace) + 1
         /\ \A ts \in 0..clock, b \in BOOLEAN : HeardIn(trace, ts, b) => HeardIn(trace', ts, b)
         /\ ~ setting.interviewer => Utterances(trace') = {}
<1> SUFFICES ASSUME VerdictInv, NEW e \in Entries,
                    trace' = Append(trace, e), e.ts <= clock,
                    e.type = "stt" =>
                      /\ e.ts = clock
                      /\ (e.state = "down") #
                           (Markers(trace) # {} /\ trace[Max(Markers(trace))].state = "down"),
                    e.type = "utterance" => setting.interviewer
                                 /\ HeardIn(trace, e.ts, e.outage \in {"whole", "ended"})
             PROVE  /\ trace' \in Seq(Entries) /\ TraceFits(trace', clock)
                    /\ Len(trace') = Len(trace) + 1
                    /\ \A ts \in 0..clock, b \in BOOLEAN :
                         HeardIn(trace, ts, b) => HeardIn(trace', ts, b)
                    /\ ~ setting.interviewer => Utterances(trace') = {}
  OBVIOUS
<1>1. trace \in Seq(Entries) /\ clock \in Nat /\ TraceFits(trace, clock)
  BY DEF VerdictInv, VerdictTypes
<1>2. PICK tr, time : tr = trace /\ time = clock
  OBVIOUS
<1>3. /\ TraceFits(Append(tr, e), time)
      /\ \A ts \in 0..time, b \in BOOLEAN : HeardIn(tr, ts, b) => HeardIn(Append(tr, e), ts, b)
  BY <1>1, <1>2, AppendFits
<1>4. trace' \in Seq(Entries) /\ Len(trace') = Len(trace) + 1
  BY <1>1
<1>5. ASSUME ~ setting.interviewer, NEW i \in Utterances(trace') PROVE FALSE
  <2>1. i \in DOMAIN trace' /\ trace'[i].type = "utterance"
    BY DEF Utterances
  <2>2. i \in 1..Len(trace) \/ i = Len(trace) + 1
    BY <1>1, <2>1
  <2>3. CASE i \in 1..Len(trace)
    <3>1. trace'[i] = trace[i] /\ i \in DOMAIN trace
      BY <1>1, <2>3
    <3>2. i \in Utterances(trace)
      BY <2>1, <3>1 DEF Utterances
    <3> QED BY <1>5, <3>2 DEF VerdictInv, SegmentFits
  <2>4. CASE i = Len(trace) + 1
    <3>1. trace'[i] = e
      BY <1>1, <2>4
    <3> QED BY <1>5, <2>1, <3>1
  <2> QED BY <2>2, <2>3, <2>4
<1> QED BY <1>2, <1>3, <1>4, <1>5

\* What a round's steps, before the judging, share: the microphone and the
\* speech service, the interviewer, and the work that may arrive in the judging.
LEMMA InterviewerSpeaksKeepsVerdict == VerdictInv /\ InterviewerSpeaks => VerdictInv'
<1> SUFFICES ASSUME VerdictInv, InterviewerSpeaks PROVE VerdictInv'
  OBVIOUS
<1>1. PICK e : e = Entry("interviewer", clock)
  OBVIOUS
<1>2. /\ Talking /\ trace' = Append(trace, e)
      /\ UNCHANGED <<setting, clock, segment, reading, verdict, reads>>
  BY <1>1 DEF InterviewerSpeaks, Arrives
<1>3. e \in Entries /\ e.ts = clock /\ e.type = "interviewer"
  BY <1>1 DEF Entry, Entries, VerdictInv, VerdictTypes
<1>4. /\ trace' \in Seq(Entries) /\ TraceFits(trace', clock) /\ Len(trace') = Len(trace) + 1
      /\ \A ts \in 0..clock, b \in BOOLEAN : HeardIn(trace, ts, b) => HeardIn(trace', ts, b)
      /\ ~ setting.interviewer => Utterances(trace') = {}
  BY <1>2, <1>3, ArrivalFits DEF VerdictInv, VerdictTypes
<1>5. VerdictTypes'
  BY <1>2, <1>4 DEF VerdictInv, VerdictTypes
<1>6. SegmentFits'
  BY <1>2, <1>4 DEF VerdictInv, VerdictTypes, SegmentFits
<1>7. ReadingFits'
  BY <1>2, <1>4, TraceFacts DEF VerdictInv, VerdictTypes, ReadingFits, Talking, renderTimeline
<1> QED BY <1>2, <1>4, <1>5, <1>6, <1>7, NoRowsYet DEF VerdictInv

\* A report of the link is of now and differs from the last one.
LEMMA ReportsKeepsVerdict ==
  \A state \in {"up", "down"} : VerdictInv /\ Reports(state) => VerdictInv'
<1> SUFFICES ASSUME NEW state \in {"up", "down"}, VerdictInv, Reports(state) PROVE VerdictInv'
  OBVIOUS
<1>1. PICK e : e = [Entry("stt", clock) EXCEPT !.state = state]
  OBVIOUS
<1>2. /\ Talking /\ trace' = Append(trace, e) /\ (state = "down") # Outage
      /\ UNCHANGED <<setting, clock, segment, reading, verdict, reads>>
  BY <1>1 DEF Reports, Arrives
<1>3. e = [type |-> "stt", ts |-> clock, words |-> FALSE, outage |-> "no", state |-> state]
  BY <1>1 DEF Entry
<1>4. e \in Entries /\ e.ts = clock /\ e.type = "stt" /\ e.state = state
  BY <1>3 DEF Entries, VerdictInv, VerdictTypes
<1>5. /\ trace' \in Seq(Entries) /\ TraceFits(trace', clock) /\ Len(trace') = Len(trace) + 1
      /\ \A ts \in 0..clock, b \in BOOLEAN : HeardIn(trace, ts, b) => HeardIn(trace', ts, b)
      /\ ~ setting.interviewer => Utterances(trace') = {}
  <2>1. (e.state = "down") # (Markers(trace) # {} /\ trace[Max(Markers(trace))].state = "down")
    BY <1>2, <1>4 DEF Outage
  <2>2. e.ts <= clock
    BY <1>4 DEF VerdictInv, VerdictTypes
  <2> QED BY <1>2, <1>4, <2>1, <2>2, ArrivalFits
<1>6. VerdictTypes'
  BY <1>2, <1>5 DEF VerdictInv, VerdictTypes
<1>7. SegmentFits'
  BY <1>2, <1>5 DEF VerdictInv, VerdictTypes, SegmentFits
<1>8. ReadingFits'
  BY <1>2, <1>5, TraceFacts DEF VerdictInv, VerdictTypes, ReadingFits, Talking, renderTimeline
<1> QED BY <1>2, <1>5, <1>6, <1>7, <1>8, NoRowsYet DEF VerdictInv

\* Whether a segment begins in an outage is as the markers have it.
LEMMA BeginsAsHeard ==
  VerdictInv => Outage \in BOOLEAN /\ HeardIn(trace, clock, Outage)
<1> SUFFICES ASSUME VerdictInv PROVE Outage \in BOOLEAN /\ HeardIn(trace, clock, Outage)
  OBVIOUS
<1>1. trace \in Seq(Entries) /\ clock \in Nat /\ TraceFits(trace, clock)
  BY DEF VerdictInv, VerdictTypes
<1> DEFINE last == Max(Markers(trace))
<1>2. \A i \in Markers(trace) : i \in 1..Len(trace) /\ trace[i].ts <= clock /\ trace[i] \in Entries
  BY <1>1, TraceFacts DEF TraceFits
<1>3. Markers(trace) # {} => last \in Markers(trace) /\ \A j \in Markers(trace) : j <= last
  BY <1>1, MarkerFacts
<1>4. Outage <=> Markers(trace) # {} /\ trace[last].state = "down"
  BY DEF Outage
<1>5. Outage \in BOOLEAN
  BY DEF Outage
<1> HIDE DEF last
<1>6. CASE Outage
  <2>1. Opening(trace, last) /\ trace[last].ts <= clock /\ last \in Markers(trace)
    BY <1>1, <1>2, <1>3, <1>4, <1>6 DEF TraceFits
  <2>2. Closing(trace, last) = {}
    BY <1>2, <1>3, <2>1 DEF Closing
  <2> QED BY <1>5, <1>6, <2>1, <2>2 DEF HeardIn, Covered
<1>7. CASE ~ Outage
  <2> SUFFICES ASSUME NEW k \in Markers(trace), Opening(trace, k)
               PROVE  \E m \in Closing(trace, k) : trace[m].ts <= clock
    BY <1>5, <1>7 DEF HeardIn, Uncovered
  <2>1. last \in Markers(trace) /\ k <= last /\ trace[last].state # "down"
    BY <1>3, <1>4, <1>7
  <2>2. trace[last].state = "up"
    BY <1>2, <2>1 DEF Entries
  <2>3. k # last
    BY <2>1 DEF Opening
  <2>4. last \in Closing(trace, k)
    BY <1>2, <2>1, <2>2, <2>3 DEF Closing
  <2> QED BY <1>2, <2>1, <2>4
<1> QED BY <1>5, <1>6, <1>7

\* A segment is remembered with the outage it begins in.
LEMMA SegmentStartsKeepsVerdict == VerdictInv /\ SegmentStarts => VerdictInv'
<1> SUFFICES ASSUME VerdictInv, SegmentStarts PROVE VerdictInv'
  OBVIOUS
<1>1. /\ Talking /\ setting.interviewer
      /\ UNCHANGED <<setting, clock, trace, reading, verdict, reads>>
      /\ segment' = [on |-> TRUE, since |-> clock, outage |-> Outage]
  BY DEF SegmentStarts
<1>2. PICK b \in BOOLEAN : b = Outage
  BY BeginsAsHeard
<1>3. /\ segment' \in [on : BOOLEAN, since : Nat, outage : BOOLEAN]
      /\ segment'.since = clock /\ segment'.outage = b
  BY <1>1, <1>2 DEF VerdictInv, VerdictTypes
<1>4. VerdictTypes'
  BY <1>1, <1>3 DEF VerdictInv, VerdictTypes
<1>5. SegmentFits'
  <2>1. HeardIn(trace, clock, b) /\ clock <= clock
    BY <1>2, BeginsAsHeard DEF VerdictInv, VerdictTypes
  <2> QED BY <1>1, <1>3, <2>1 DEF VerdictInv, SegmentFits
<1>6. ReadingFits' /\ TraceFits(trace', clock')
  BY <1>1 DEF VerdictInv, ReadingFits
<1> QED BY <1>1, <1>4, <1>5, <1>6, NoRowsYet DEF VerdictInv

\* Its entry has the moment and the label it began with.
LEMMA SegmentEndsKeepsVerdict ==
  \A words \in BOOLEAN : VerdictInv /\ SegmentEnds(words) => VerdictInv'
<1> SUFFICES ASSUME NEW words \in BOOLEAN, VerdictInv, SegmentEnds(words) PROVE VerdictInv'
  OBVIOUS
<1>1. PICK out : out = CASE segment.outage /\ Outage -> "whole"
                         [] ~ segment.outage /\ Outage -> "straddled"
                         [] segment.outage /\ ~ Outage -> "ended"
                         [] OTHER -> "no"
  OBVIOUS
<1>2. PICK e : e = [Entry("utterance", segment.since) EXCEPT !.words = words, !.outage = out]
  OBVIOUS
<1>3. /\ Talking /\ trace' = Append(trace, e) /\ segment.on /\ segment' = NoSegment
      /\ UNCHANGED <<setting, clock, reading, verdict, reads>>
  BY <1>1, <1>2 DEF SegmentEnds, Arrives
<1>4. e = [type |-> "utterance", ts |-> segment.since, words |-> words, outage |-> out,
           state |-> "up"]
  BY <1>2 DEF Entry
<1>5. /\ segment.since \in Nat /\ segment.outage \in BOOLEAN /\ segment.since <= clock
      /\ setting.interviewer /\ HeardIn(trace, segment.since, segment.outage)
  BY <1>3 DEF VerdictInv, VerdictTypes, SegmentFits
<1>6. /\ out \in {"no", "whole", "straddled", "ended"}
      /\ (out \in {"whole", "ended"}) = segment.outage
  <2>1. CASE segment.outage /\ Outage
    BY <1>1, <1>5, <2>1
  <2>2. CASE ~ segment.outage /\ Outage
    BY <1>1, <1>5, <2>2
  <2>3. CASE segment.outage /\ ~ Outage
    BY <1>1, <1>5, <2>3
  <2>4. CASE ~ segment.outage /\ ~ Outage
    BY <1>1, <1>5, <2>4
  <2> QED BY <2>1, <2>2, <2>3, <2>4
<1>7. /\ e \in Entries /\ e.ts = segment.since /\ e.type = "utterance" /\ e.outage = out
  BY <1>4, <1>5, <1>6 DEF Entries
<1>8. /\ trace' \in Seq(Entries) /\ TraceFits(trace', clock) /\ Len(trace') = Len(trace) + 1
      /\ ~ setting.interviewer => Utterances(trace') = {}
  <2>1. HeardIn(trace, e.ts, e.outage \in {"whole", "ended"})
    BY <1>5, <1>6, <1>7
  <2> QED BY <1>3, <1>5, <1>7, <2>1, ArrivalFits
<1>9. VerdictTypes' /\ SegmentFits'
  BY <1>3, <1>8 DEF VerdictInv, VerdictTypes, SegmentFits, NoSegment
<1>10. ReadingFits'
  BY <1>3, <1>8, TraceFacts DEF VerdictInv, VerdictTypes, ReadingFits, Talking, renderTimeline
<1> QED BY <1>3, <1>8, <1>9, <1>10, NoRowsYet DEF VerdictInv

\* Work that arrives while the judge reads leaves what it was shown.
LEMMA WorksKeepsVerdict == \A ts \in 0..clock : VerdictInv /\ Works(ts) => VerdictInv'
<1> SUFFICES ASSUME NEW ts \in 0..clock, VerdictInv, Works(ts) PROVE VerdictInv'
  OBVIOUS
<1>1. PICK e : e = Entry("work", ts)
  OBVIOUS
<1>2. /\ Talking \/ reading.call # "none"
      /\ trace' = Append(trace, e) /\ ts <= clock
      /\ UNCHANGED <<setting, clock, segment, reading, verdict, reads>>
  BY <1>1 DEF Works, Arrives
<1>3. e \in Entries /\ e.ts = ts /\ e.type = "work"
  BY <1>1 DEF Entry, Entries, VerdictInv, VerdictTypes
<1>4. /\ trace' \in Seq(Entries) /\ TraceFits(trace', clock) /\ Len(trace') = Len(trace) + 1
      /\ \A t \in 0..clock, b \in BOOLEAN : HeardIn(trace, t, b) => HeardIn(trace', t, b)
      /\ ~ setting.interviewer => Utterances(trace') = {}
  BY <1>2, <1>3, ArrivalFits DEF VerdictInv, VerdictTypes
<1>5. VerdictTypes'
  BY <1>2, <1>4 DEF VerdictInv, VerdictTypes
<1>6. SegmentFits'
  BY <1>2, <1>4 DEF VerdictInv, VerdictTypes, SegmentFits
<1>7. ReadingFits'
  <2>1. trace \in Seq(Entries) /\ reading.length \in Nat /\ reading.length <= Len(trace)
    BY DEF VerdictInv, VerdictTypes, ReadingFits
  <2>2. /\ DOMAIN trace = 1..Len(trace) /\ Len(trace) \in Nat
        /\ DOMAIN trace' = 1..(Len(trace) + 1)
    BY <1>4, <2>1, TraceFacts
  <2>3. \A i \in DOMAIN trace : i \in renderTimeline(trace') <=> i \in renderTimeline(trace)
    BY <1>2, <1>3, <2>1, TimelineStays
  <2>4. \A i : i \in renderTimeline(trace') /\ i <= reading.length
               <=> i \in renderTimeline(trace) /\ i <= reading.length
    <3>1. \A i : i \in renderTimeline(trace') => i \in 1..(Len(trace) + 1)
      BY <2>2 DEF renderTimeline
    <3>2. \A i : i \in renderTimeline(trace) => i \in 1..Len(trace)
      BY <2>2 DEF renderTimeline
    <3> QED BY <2>1, <2>2, <2>3, <3>1, <3>2
  <2>5. reading'.shown = {i \in renderTimeline(trace') : i <= reading'.length}
    BY <1>2, <2>4 DEF VerdictInv, ReadingFits
  <2> QED BY <1>2, <1>4, <2>1, <2>2, <2>5 DEF VerdictInv, ReadingFits
<1> QED BY <1>2, <1>4, <1>5, <1>6, <1>7, NoRowsYet DEF VerdictInv

\* The judge is shown the whole timeline of the trace as it stands.
LEMMA PromptedFits ==
  \A tr \in Seq(Entries) : Prompted(tr) =>
    /\ reading' \in [call : {"none", "first", "after_timeout", "after_slop"},
                     shown : SUBSET Nat, length : Nat]
    /\ reading'.call = "first" /\ reading'.length = Len(tr)
    /\ reading'.shown = {i \in renderTimeline(tr) : i <= reading'.length}
<1> SUFFICES ASSUME NEW tr \in Seq(Entries), Prompted(tr)
             PROVE
    /\ reading' \in [call : {"none", "first", "after_timeout", "after_slop"},
                     shown : SUBSET Nat, length : Nat]
    /\ reading'.call = "first" /\ reading'.length = Len(tr)
    /\ reading'.shown = {i \in renderTimeline(tr) : i <= reading'.length}
  OBVIOUS
<1>1. reading' = [call |-> "first", shown |-> renderTimeline(tr), length |-> Len(tr)]
  BY DEF Prompted
<1>2. Len(tr) \in Nat /\ renderTimeline(tr) \subseteq 1..Len(tr)
  BY TraceFacts DEF renderTimeline
<1>3. renderTimeline(tr) \subseteq Nat
        /\ renderTimeline(tr) = {i \in renderTimeline(tr) : i <= Len(tr)}
  BY <1>2
<1> QED BY <1>1, <1>2, <1>3

\* The judge is shown the trace with its end.
LEMMA EndSessionKeepsVerdict == VerdictInv /\ EndSession => VerdictInv'
<1> SUFFICES ASSUME VerdictInv, EndSession PROVE VerdictInv'
  OBVIOUS
<1>1. PICK e : e = Entry("session_end", clock)
  OBVIOUS
<1>2. /\ Talking /\ trace' = Append(trace, e) /\ Prompted(trace') /\ reads' = 1
      /\ segment' = NoSegment /\ UNCHANGED <<setting, clock, verdict>>
  BY <1>1 DEF EndSession, Arrives
<1>3. e \in Entries /\ e.ts = clock /\ e.type = "session_end"
  BY <1>1 DEF Entry, Entries, VerdictInv, VerdictTypes
<1>4. /\ trace' \in Seq(Entries) /\ TraceFits(trace', clock)
      /\ ~ setting.interviewer => Utterances(trace') = {}
  BY <1>2, <1>3, ArrivalFits DEF VerdictInv, VerdictTypes
<1>5. /\ reading' \in [call : {"none", "first", "after_timeout", "after_slop"},
                       shown : SUBSET Nat, length : Nat]
      /\ reading'.call = "first" /\ reading'.length = Len(trace')
      /\ reading'.shown = {i \in renderTimeline(trace') : i <= reading'.length}
  BY <1>2, <1>4, PromptedFits
<1>6. VerdictTypes' /\ SegmentFits'
  BY <1>2, <1>4, <1>5 DEF VerdictInv, VerdictTypes, SegmentFits, NoSegment
<1>7. verdict'.rows = {}
  BY <1>2, NoRowsYet
<1>8. ReadingFits'
  <2>1. reading'.length <= Len(trace')
    BY <1>4, <1>5, TraceFacts
  <2> QED BY <1>2, <1>5, <1>7, <2>1 DEF ReadingFits
<1> QED BY <1>2, <1>4, <1>6, <1>7, <1>8, NoRowsYet DEF VerdictInv

\* A judge asked again starts without a verdict.
LEMMA RejudgeKeepsVerdict == VerdictInv /\ Rejudge => VerdictInv'
<1> SUFFICES ASSUME VerdictInv, Rejudge PROVE VerdictInv'
  OBVIOUS
<1>1. /\ reads \in 1..(MaxReads - 1) /\ Prompted(trace) /\ reads' = reads + 1
      /\ verdict' = NoVerdict /\ UNCHANGED <<setting, clock, trace, segment>>
  BY DEF Rejudge
<1>2. trace \in Seq(Entries) /\ Len(trace) \in Nat
  BY DEF VerdictInv, VerdictTypes
<1>3. /\ reading' \in [call : {"none", "first", "after_timeout", "after_slop"},
                       shown : SUBSET Nat, length : Nat]
      /\ reading'.call = "first" /\ reading'.length = Len(trace)
      /\ reading'.shown = {i \in renderTimeline(trace) : i <= reading'.length}
  BY <1>1, <1>2, PromptedFits
<1>4. /\ verdict' \in [status : {"none", "assessed", "unassessed"}, rows : SUBSET VerdictRows,
                       cited : SUBSET Seconds]
      /\ verdict'.rows = {}
  BY <1>1 DEF NoVerdict
<1>5. reads \in Nat /\ reads' \in Nat /\ reads' # 0
  BY <1>1 DEF VerdictInv, VerdictTypes
<1>6. VerdictTypes' /\ SegmentFits' /\ TraceFits(trace', clock')
  BY <1>1, <1>3, <1>4, <1>5 DEF VerdictInv, VerdictTypes, SegmentFits
<1>7. ReadingFits'
  BY <1>1, <1>2, <1>3, <1>4, <1>5 DEF ReadingFits
<1> QED BY <1>4, <1>6, <1>7, NoRowsYet DEF VerdictInv

\* The second a line carries is near enough to the line.
LEMMA ShownIsNear ==
  ASSUME NEW ts \in Nat, NEW s \in Nat, (ts + 1) \div 2 = s
  PROVE  (IF ts > 2 * s THEN ts - 2 * s ELSE 2 * s - ts) <= Tolerance
<1>1. 2 * s <= ts + 1 /\ ts + 1 <= 2 * s + 1
  OBVIOUS
<1>2. Tolerance >= 1 /\ Tolerance \in Nat
  BY VerdictAssumption
<1> QED BY <1>1, <1>2

\* A moment finds an event of the candidate's near it, where there is one.
LEMMA OffsetFacts ==
  ASSUME NEW tr \in Seq(Entries), NEW s \in Nat
  PROVE  /\ \A i \in eventAtOffset(tr, s) : i \in Citable(tr) /\ Distance(tr[i], s) <= Tolerance
         /\ (\E i \in Citable(tr) : Distance(tr[i], s) <= Tolerance) => eventAtOffset(tr, s) # {}
<1> DEFINE near == {i \in Citable(tr) : Distance(tr[i], s) <= Tolerance}
           best == {i \in near : \A j \in near : Distance(tr[i], s) <= Distance(tr[j], s)}
<1>1. eventAtOffset(tr, s) = IF best = {} THEN {} ELSE {Min(best)}
  BY DEF eventAtOffset
<1>2. Citable(tr) \subseteq 1..Len(tr) /\ Len(tr) \in Nat /\ \A i \in Citable(tr) : tr[i].ts \in Nat
  BY TraceFacts DEF Citable
<1>3. \A i \in Citable(tr) : Distance(tr[i], s) \in Nat
  <2> TAKE i \in Citable(tr)
  <2>1. tr[i].ts \in Nat /\ 2 * s \in Nat
    BY <1>2
  <2> QED BY <2>1 DEF Distance
<1>4. best # {} => Min(best) \in best
  <2>1. best \subseteq 1..Len(tr)
    BY <1>2
  <2> HIDE DEF best
  <2> QED BY <1>2, <2>1, MinIsLowest
<1>5. ASSUME near # {} PROVE best # {}
  <2> DEFINE R == {Distance(tr[i], s) + 1 : i \in near}
  <2>1. R \subseteq 1..(Tolerance + 1) /\ R # {}
    <3>1. \A i \in near : Distance(tr[i], s) + 1 \in 1..(Tolerance + 1)
      BY <1>3, VerdictAssumption
    <3> HIDE DEF near
    <3> QED BY <1>5, <3>1
  <2>2. PICK x \in R : \A y \in R : x <= y
    <3> HIDE DEF R
    <3>1. Tolerance + 1 \in Nat
      BY VerdictAssumption
    <3> QED BY <2>1, <3>1, HasLowest
  <2>3. PICK i \in near : x = Distance(tr[i], s) + 1
    OBVIOUS
  <2>4. \A j \in near : Distance(tr[i], s) <= Distance(tr[j], s)
    <3> TAKE j \in near
    <3>1. Distance(tr[i], s) + 1 <= Distance(tr[j], s) + 1
      BY <2>2, <2>3
    <3> QED BY <1>3, <3>1
  <2> QED BY <2>4
<1> HIDE DEF best
<1>6. \A i \in eventAtOffset(tr, s) : i \in best
  BY <1>1, <1>4
<1>7. \A i \in best : i \in Citable(tr) /\ Distance(tr[i], s) <= Tolerance
  BY DEF best
<1>8. (\E i \in Citable(tr) : Distance(tr[i], s) <= Tolerance) => eventAtOffset(tr, s) # {}
  BY <1>1, <1>5
<1> QED BY <1>6, <1>7, <1>8

\* A row of the card: its quotes, its evidence, and what it may grade.
LEMMA CardRowFits ==
  ASSUME NEW tr \in Seq(Entries), NEW d \in Dimensions, NEW graded \in BOOLEAN,
         NEW cited \in SUBSET Seconds
  PROVE  LET row == CardRow(tr, d, graded, cited) IN
         /\ row \in VerdictRows /\ row.dimension = d
         /\ \A q \in row.quotes : q.at \in Seconds /\ q.of \in eventAtOffset(tr, q.at)
         /\ row.graded => \A s \in cited : eventAtOffset(tr, s) # {} =>
              s \in row.evidence /\ \E q \in row.quotes : q.at = s
<1> DEFINE stays == IF graded THEN {s \in cited : eventAtOffset(tr, s) # {}} ELSE {}
           quotes == UNION {[at : {s}, of : eventAtOffset(tr, s)] : s \in stays}
<1>1. PICK k, st, un, qs : /\ k = stays /\ qs = quotes
                           /\ st = IF graded THEN cited \ stays ELSE {}
                           /\ un = (graded /\ stays = {})
  OBVIOUS
<1>2. CardRow(tr, d, graded, cited) =
        [dimension |-> d, graded |-> graded, evidence |-> k, stripped |-> st,
         unreceipted |-> un, quotes |-> qs]
  BY <1>1 DEF CardRow
<1>3. k \subseteq Seconds /\ st \subseteq Seconds /\ un \in BOOLEAN
  BY <1>1
<1>4. Seconds \subseteq Nat
  BY VerdictAssumption DEF Seconds
<1>5. \A q \in qs : q \in [at : Seconds, of : Nat] /\ q.at \in Seconds
                    /\ q.of \in eventAtOffset(tr, q.at)
  <2> TAKE q \in qs
  <2>1. PICK s \in k : q \in [at : {s}, of : eventAtOffset(tr, s)]
    BY <1>1
  <2>2. q = [at |-> s, of |-> q.of] /\ q.of \in eventAtOffset(tr, s)
    BY <2>1
  <2>3. q.of \in Nat
    <3>1. q.of \in Citable(tr) /\ s \in Nat
      BY <1>3, <1>4, <2>2, OffsetFacts
    <3> QED BY <3>1, TraceFacts DEF Citable
  <2> QED BY <1>3, <2>2, <2>3
<1>6. graded => \A s \in cited : eventAtOffset(tr, s) # {} =>
        s \in k /\ \E q \in qs : q.at = s
  <2> SUFFICES ASSUME graded, NEW s \in cited, eventAtOffset(tr, s) # {}
               PROVE  s \in k /\ \E q \in qs : q.at = s
    OBVIOUS
  <2>1. s \in k
    BY <1>1
  <2>2. PICK o \in eventAtOffset(tr, s) : TRUE
    OBVIOUS
  <2>3. [at |-> s, of |-> o] \in qs
    <3>1. [at |-> s, of |-> o] \in [at : {s}, of : eventAtOffset(tr, s)]
      OBVIOUS
    <3> QED BY <1>1, <2>1, <3>1
  <2> QED BY <2>1, <2>3
<1> HIDE DEF stays, quotes
<1>7. [dimension |-> d, graded |-> graded, evidence |-> k, stripped |-> st,
       unreceipted |-> un, quotes |-> qs] \in VerdictRows
  BY <1>3, <1>5 DEF VerdictRows
<1> QED BY <1>2, <1>5, <1>6, <1>7

\* What the clamp leaves of a row.
LEMMA ClampedFits ==
  \A tr, row : row \in VerdictRows =>
    LET c == Clamped(tr, row) IN
    /\ c \in VerdictRows /\ c.dimension = row.dimension
    /\ c.graded => c = row /\ row.dimension \notin Silent(tr)
    /\ c.quotes \subseteq row.quotes
<1> SUFFICES ASSUME NEW tr, NEW row \in VerdictRows, NEW c, c = Clamped(tr, row)
             PROVE  /\ c \in VerdictRows /\ c.dimension = row.dimension
                    /\ c.graded => c = row /\ row.dimension \notin Silent(tr)
                    /\ c.quotes \subseteq row.quotes
  OBVIOUS
<1>1. CASE row.dimension \in Silent(tr) /\ row.graded
  <2>1. PICK r1 : r1 = [row EXCEPT !.graded = FALSE]
    OBVIOUS
  <2>2. PICK r2 : r2 = [r1 EXCEPT !.evidence = {}]
    OBVIOUS
  <2>3. c = [r2 EXCEPT !.quotes = {}]
    BY <1>1, <2>1, <2>2 DEF Clamped
  <2>4. r1 = [dimension |-> row.dimension, graded |-> FALSE, evidence |-> row.evidence,
              stripped |-> row.stripped, unreceipted |-> row.unreceipted, quotes |-> row.quotes]
    BY <2>1 DEF VerdictRows
  <2>5. r2 = [dimension |-> row.dimension, graded |-> FALSE, evidence |-> {},
              stripped |-> row.stripped, unreceipted |-> row.unreceipted, quotes |-> row.quotes]
    BY <2>2, <2>4
  <2>6. c = [dimension |-> row.dimension, graded |-> FALSE, evidence |-> {},
             stripped |-> row.stripped, unreceipted |-> row.unreceipted, quotes |-> {}]
    BY <2>3, <2>5
  <2>7. /\ row.dimension \in Dimensions /\ row.stripped \in SUBSET Seconds
        /\ row.unreceipted \in BOOLEAN
    BY DEF VerdictRows
  <2>8. c \in VerdictRows
    BY <2>6, <2>7 DEF VerdictRows
  <2> QED BY <2>6, <2>8
<1>2. CASE ~ (row.dimension \in Silent(tr) /\ row.graded)
  BY <1>2 DEF Clamped
<1> QED BY <1>1, <1>2

\* The rows of a verdict hold their receipts.
LEMMA AssessKeepsReceipts ==
  ASSUME VerdictInv, reading.call # "none", UNCHANGED <<setting, clock, trace, segment, reads>>,
         NEW graded \in BOOLEAN, NEW cited \in SUBSET Seconds, Assess(graded, cited)
  PROVE  VerdictInv'
<1>1. trace \in Seq(Entries) /\ setting.interviewer \in BOOLEAN
  BY DEF VerdictInv, VerdictTypes
<1>2. PICK rows : rows = {Clamped(trace, CardRow(trace, d, graded, cited)) : d \in Dimensions}
  OBVIOUS
<1>3. /\ verdict' = [status |-> "assessed", cited |-> cited, rows |-> rows]
      /\ reading' = [call |-> "none", shown |-> reading.shown, length |-> reading.length]
  BY <1>2 DEF Assess, NotReading
<1>4. \A row \in rows : \E d \in Dimensions :
        /\ row \in VerdictRows /\ row.dimension = d
        /\ row.graded => d \notin Silent(trace)
        /\ \A q \in row.quotes : q.at \in Seconds /\ q.of \in eventAtOffset(trace, q.at)
        /\ row.graded => \A s \in cited : eventAtOffset(trace, s) # {} =>
             s \in row.evidence /\ \E q \in row.quotes : q.at = s
  <2> TAKE row \in rows
  <2>1. PICK d \in Dimensions : row = Clamped(trace, CardRow(trace, d, graded, cited))
    BY <1>2
  <2>2. PICK card : card = CardRow(trace, d, graded, cited)
    OBVIOUS
  <2>3. /\ card \in VerdictRows /\ card.dimension = d
        /\ \A q \in card.quotes : q.at \in Seconds /\ q.of \in eventAtOffset(trace, q.at)
        /\ card.graded => \A s \in cited : eventAtOffset(trace, s) # {} =>
             s \in card.evidence /\ \E q \in card.quotes : q.at = s
    BY <1>1, <2>2, CardRowFits
  <2>4. /\ row \in VerdictRows /\ row.dimension = card.dimension
        /\ row.graded => row = card /\ card.dimension \notin Silent(trace)
        /\ row.quotes \subseteq card.quotes
    BY <2>1, <2>2, <2>3, ClampedFits
  <2> QED BY <2>3, <2>4
<1>5. Seconds \subseteq Nat
  BY VerdictAssumption DEF Seconds
<1>6. VerdictTypes'
  <2>1. rows \subseteq VerdictRows
    BY <1>4
  <2>2. verdict' \in [status : {"none", "assessed", "unassessed"}, rows : SUBSET VerdictRows,
                      cited : SUBSET Seconds]
    BY <1>3, <2>1
  <2>3. reading' \in [call : {"none", "first", "after_timeout", "after_slop"},
                      shown : SUBSET Nat, length : Nat]
    BY <1>3 DEF VerdictInv, VerdictTypes
  <2> QED BY <2>2, <2>3 DEF VerdictInv, VerdictTypes
<1>7. SegmentFits' /\ ReadingFits' /\ TraceFits(trace', clock')
  BY <1>3 DEF VerdictInv, SegmentFits, ReadingFits
<1>8. ReceiptsAreReal'
  <2> SUFFICES ASSUME NEW row \in rows, NEW q \in row.quotes
               PROVE  /\ isCandidateEvent(trace[q.of])
                      /\ Distance(trace[q.of], q.at) <= Tolerance
                      /\ q.of \in reading.shown \/ q.of > reading.length
    BY <1>3 DEF ReceiptsAreReal
  <2>1. q.at \in Nat /\ q.of \in eventAtOffset(trace, q.at)
    BY <1>4, <1>5
  <2>2. q.of \in Citable(trace) /\ Distance(trace[q.of], q.at) <= Tolerance
    BY <1>1, <2>1, OffsetFacts
  <2>3. q.of \in renderTimeline(trace) /\ q.of \in Nat /\ isCandidateEvent(trace[q.of])
    BY <1>1, <2>2, TraceFacts DEF Citable, renderTimeline, isCandidateEvent
  <2>4. q.of \in reading.shown \/ q.of > reading.length
    BY <2>3 DEF VerdictInv, VerdictTypes, ReadingFits
  <2> QED BY <2>2, <2>3, <2>4
<1>9. HonestCitationsStand'
  <2> SUFFICES ASSUME NEW row \in rows, NEW s \in cited, row.graded,
                      NEW i \in reading.shown, isCandidateEvent(trace[i]), Shown(trace[i]) = s
               PROVE  s \in row.evidence /\ \E q \in row.quotes : q.at = s
    BY <1>3 DEF HonestCitationsStand
  <2>1. s \in Nat /\ i \in renderTimeline(trace)
    BY <1>5 DEF VerdictInv, ReadingFits
  <2>2. i \in Citable(trace) /\ trace[i].ts \in Nat
    BY <1>1, <2>1, TraceFacts DEF renderTimeline, Citable
  <2>3. Distance(trace[i], s) <= Tolerance
    BY <2>1, <2>2, ShownIsNear DEF Distance, Shown
  <2>4. eventAtOffset(trace, s) # {}
    BY <1>1, <2>1, <2>2, <2>3, OffsetFacts
  <2> QED BY <1>4, <2>4
<1>10. SilenceIsNotGraded'
  <2> SUFFICES ASSUME ~ setting.interviewer, NEW row \in rows
               PROVE  /\ row.dimension = "communicate" => ~ row.graded
                      /\ row.dimension = "clarify" /\ setting.panes => ~ row.graded
    BY <1>3 DEF SilenceIsNotGraded
  <2>1. Utterances(trace) = {}
    BY DEF VerdictInv, SegmentFits
  <2> QED BY <1>4, <2>1 DEF Silent
<1> QED BY <1>6, <1>7, <1>8, <1>9, <1>10 DEF VerdictInv

\* Whatever the judge replies.
LEMMA RepliesKeepsVerdict ==
  \A reply \in {"whole", "unsolved", "slop", "invalid", "timeout", "failed"} :
    VerdictInv /\ Replies(reply) => VerdictInv'
<1> SUFFICES ASSUME NEW reply \in {"whole", "unsolved", "slop", "invalid", "timeout", "failed"},
                    VerdictInv, Replies(reply)
             PROVE  VerdictInv'
  OBVIOUS
<1>1. reading.call # "none" /\ UNCHANGED <<setting, clock, trace, segment, reads>>
  BY DEF Replies
<1>2. \/ Assess(FALSE, {})
      \/ \E cited \in {{}} \cup {{s} : s \in Seconds} : Assess(TRUE, cited)
      \/ \E call \in {"after_timeout", "after_slop"} : Ask(call)
      \/ GiveUp
  BY DEF Replies
<1>3. CASE Assess(FALSE, {})
  BY <1>1, <1>3, AssessKeepsReceipts
<1>4. ASSUME NEW cited \in {{}} \cup {{s} : s \in Seconds}, Assess(TRUE, cited)
      PROVE  VerdictInv'
  <2>1. cited \in SUBSET Seconds
    OBVIOUS
  <2> QED BY <1>1, <1>4, <2>1, AssessKeepsReceipts
<1>5. ASSUME NEW call \in {"after_timeout", "after_slop"}, Ask(call) PROVE VerdictInv'
  <2>1. UNCHANGED verdict /\ reading' = [call |-> call, shown |-> reading.shown,
                                         length |-> reading.length]
    BY <1>5 DEF Ask, VerdictInv, VerdictTypes
  <2>2. VerdictTypes'
    <3>1. reading' \in [call : {"none", "first", "after_timeout", "after_slop"},
                        shown : SUBSET Nat, length : Nat]
      BY <2>1 DEF VerdictInv, VerdictTypes
    <3> QED BY <1>1, <2>1, <3>1 DEF VerdictInv, VerdictTypes
  <2>3. SegmentFits' /\ ReadingFits' /\ TraceFits(trace', clock')
    BY <1>1, <2>1 DEF VerdictInv, SegmentFits, ReadingFits
  <2> QED BY <1>1, <2>1, <2>2, <2>3, NoRowsYet DEF VerdictInv
<1>6. CASE GiveUp
  <2>1. /\ verdict' = [status |-> "unassessed", rows |-> {}, cited |-> {}]
        /\ reading' = [call |-> "none", shown |-> reading.shown, length |-> reading.length]
    BY <1>6 DEF GiveUp, NoVerdict, NotReading
  <2>2. VerdictTypes'
    <3>1. reading' \in [call : {"none", "first", "after_timeout", "after_slop"},
                        shown : SUBSET Nat, length : Nat]
      BY <2>1 DEF VerdictInv, VerdictTypes
    <3>2. verdict' \in [status : {"none", "assessed", "unassessed"}, rows : SUBSET VerdictRows,
                        cited : SUBSET Seconds]
      BY <2>1
    <3> QED BY <1>1, <3>1, <3>2 DEF VerdictInv, VerdictTypes
  <2>3. SegmentFits' /\ ReadingFits' /\ TraceFits(trace', clock')
    BY <1>1, <2>1 DEF VerdictInv, SegmentFits, ReadingFits
  <2> QED BY <2>1, <2>2, <2>3, NoRowsYet DEF VerdictInv
<1> QED BY <1>2, <1>3, <1>4, <1>5, <1>6

\* The invariant is inductive.
LEMMA VerdictStep == VerdictInv /\ [VerdictNext]_verdictVars => VerdictInv'
<1>1. ASSUME VerdictInv, UNCHANGED verdictVars PROVE VerdictInv'
  <2>1. VerdictTypes' /\ SegmentFits' /\ ReadingFits' /\ TraceFits(trace', clock')
    BY <1>1 DEF VerdictInv, verdictVars, VerdictTypes, SegmentFits, ReadingFits
  <2>2. ReceiptsAreReal' /\ HonestCitationsStand' /\ SilenceIsNotGraded'
    BY <1>1 DEF VerdictInv, verdictVars, ReceiptsAreReal, HonestCitationsStand, SilenceIsNotGraded
  <2> QED BY <2>1, <2>2 DEF VerdictInv
<1> QED BY <1>1, PassesKeepsVerdict, InterviewerSpeaksKeepsVerdict, SegmentStartsKeepsVerdict,
           EndSessionKeepsVerdict, RejudgeKeepsVerdict, WorksKeepsVerdict, ReportsKeepsVerdict,
           SegmentEndsKeepsVerdict, RepliesKeepsVerdict DEF VerdictNext

\* A round that starts.
LEMMA VerdictStarts == VerdictInit => VerdictInv
<1> SUFFICES ASSUME VerdictInit PROVE VerdictInv
  OBVIOUS
<1>1. PICK e : e = [type |-> "session_start", ts |-> 0, words |-> FALSE, outage |-> "no",
                    state |-> "up"]
  OBVIOUS
<1>2. trace = <<e>> /\ clock = 0 /\ e \in Entries
  BY <1>1 DEF VerdictInit, Entry, Entries
<1>3. DOMAIN trace = {1} /\ trace[1] = e /\ trace \in Seq(Entries) /\ Len(trace) = 1
  BY <1>2
<1>4. Markers(trace) = {} /\ Utterances(trace) = {}
  BY <1>1, <1>3 DEF Markers, Utterances
<1>5. VerdictTypes
  <2>1. segment \in [on : BOOLEAN, since : Nat, outage : BOOLEAN]
    BY DEF VerdictInit, NoSegment
  <2>2. reading \in [call : {"none", "first", "after_timeout", "after_slop"},
                     shown : SUBSET Nat, length : Nat]
    BY DEF VerdictInit
  <2>3. verdict \in [status : {"none", "assessed", "unassessed"}, rows : SUBSET VerdictRows,
                     cited : SUBSET Seconds]
    BY DEF VerdictInit, NoVerdict
  <2> QED BY <1>2, <1>3, <2>1, <2>2, <2>3 DEF VerdictInit, VerdictTypes
<1>6. TraceFits(trace, clock)
  BY <1>1, <1>2, <1>3, <1>4 DEF TraceFits
<1>7. SegmentFits
  BY <1>4 DEF VerdictInit, SegmentFits, NoSegment
<1>8. ReadingFits
  <2>1. \A i \in renderTimeline(trace) : i = 1
    BY <1>3 DEF renderTimeline
  <2> QED BY <1>3, <2>1 DEF VerdictInit, ReadingFits, NoVerdict
<1>9. ReceiptsAreReal /\ HonestCitationsStand /\ SilenceIsNotGraded
  BY DEF VerdictInit, NoVerdict, ReceiptsAreReal, HonestCitationsStand, SilenceIsNotGraded
<1> QED BY <1>5, <1>6, <1>7, <1>8, <1>9 DEF VerdictInv

\* And it says what the run checks: what was heard wholly in an outage is down.
LEMMA VerdictKeeps == VerdictInv => ReceiptsHold
<1> SUFFICES ASSUME VerdictInv PROVE ReceiptsHold
  OBVIOUS
<1>1. LostSpeechIsShown
  <2> SUFFICES ASSUME NEW i \in 1..reading.length, trace[i].type = "utterance", ~ trace[i].words
               PROVE  /\ trace[i].outage = "whole" => i \in reading.shown
                      /\ i \in reading.shown =>
                           trace[i].outage # "no" \/
                           \E m \in Markers(trace) : trace[m].ts = trace[i].ts
    BY DEF LostSpeechIsShown
  <2>1. /\ trace \in Seq(Entries) /\ TraceFits(trace, clock) /\ clock \in Nat
        /\ reading.length \in Nat /\ reading.length <= Len(trace)
        /\ reading.shown = {j \in renderTimeline(trace) : j <= reading.length}
    BY DEF VerdictInv, VerdictTypes, ReadingFits
  <2>2. i \in DOMAIN trace /\ i <= reading.length /\ trace[i].ts \in Nat /\ trace[i] \in Entries
    BY <2>1, TraceFacts
  <2>3. HeardIn(trace, trace[i].ts, trace[i].outage \in {"whole", "ended"})
    BY <2>1, <2>2 DEF TraceFits, Utterances
  <2>4. i \in reading.shown <=> Down(trace, trace[i].ts)
    BY <2>1, <2>2 DEF renderTimeline, isPhantomUtterance
  <2>5. CASE trace[i].outage = "whole"
    <3>1. HeardIn(trace, trace[i].ts, TRUE)
      BY <2>3, <2>5
    <3> QED BY <2>1, <2>2, <2>4, <2>5, <3>1, HeardIsDown
  <2>6. CASE trace[i].outage = "no"
    <3>1. HeardIn(trace, trace[i].ts, FALSE)
      BY <2>3, <2>6 DEF HeardIn
    <3> QED BY <2>1, <2>2, <2>4, <2>6, <3>1, HeardIsDown
  <2> QED BY <2>5, <2>6
<1> QED BY <1>1 DEF VerdictInv, ReceiptsHold

---------------------------------------------------------------------------
(* The mirror of the cards.                                                *)

\* A set of rows holds one version of a card at most, and no version to come.
RowsFit(rows) ==
  /\ rows \subseteq Upsert
  /\ \A x, y \in rows : x.card = y.card => x = y
  /\ \A x \in rows : x.version <= cardFiles[x.card].version

CardsAndClock ==
  /\ cardFiles \in [Cards -> [version : Nat, mtime : Nat, whole : BOOLEAN]]
  /\ now \in Nat /\ watermark \in Nat /\ watermark <= now
  /\ \A c \in Cards : cardFiles[c].mtime <= now /\ (cardFiles[c].version > 0 => cardFiles[c].mtime > 0)
  /\ table \in [Cards -> Nat]
  /\ \A c \in Cards : table[c] <= cardFiles[c].version
  /\ lapsed \subseteq Cards

\* The sweep: files it has yet to read have no row, and of those it has read
\* every card that is new and was not written since is in its rows.
SweepFits ==
  /\ sweep = [open |-> sweep.open, files |-> sweep.files, seen |-> sweep.seen, rows |-> sweep.rows]
  /\ sweep.open \in BOOLEAN
  /\ sweep.files \subseteq Cards
  /\ sweep.seen \in Nat /\ sweep.seen <= now
  /\ RowsFit(sweep.rows)
  /\ \A x \in sweep.rows : x.card \notin sweep.files
  /\ ~ sweep.open => sweep.files = {}
  /\ sweep.open => \A c \in Cards \ (lapsed \cup sweep.files) :
       cardFiles[c].whole /\ cardFiles[c].mtime > watermark
         => [card |-> c, version |-> cardFiles[c].version] \in sweep.rows

RequestsFit == \A q \in requests : RowsFit(q)

MirrorInv ==
  /\ CardsAndClock
  /\ SweepFits
  /\ RequestsFit
  /\ MirrorHasItAll

\* Writing a file keeps the rows fit: its version does not fall.
LEMMA RowsStayFit ==
  ASSUME NEW rows, RowsFit(rows), CardsAndClock, CardsAndClock',
         \A c \in Cards : cardFiles[c].version <= cardFiles'[c].version
  PROVE  RowsFit(rows)'
<1>1. \A x \in rows : x.card \in Cards /\ x.version \in Nat
  BY DEF RowsFit, Upsert
<1>2. \A c \in Cards : cardFiles[c].version \in Nat /\ cardFiles'[c].version \in Nat
  BY DEF CardsAndClock
<1> QED BY <1>1, <1>2 DEF RowsFit

\* A write touches one card: its mtime is the clock's, and the version is as it
\* was until the file is whole again.
LEMMA MirrorWrites ==
  ASSUME MirrorInv, NEW c \in Cards, WriteBegins(c) \/ WriteEnds(c)
  PROVE  MirrorInv'
<1> USE DEF MirrorInv
<1>1. /\ cardFiles' \in [Cards -> [version : Nat, mtime : Nat, whole : BOOLEAN]]
      /\ \A d \in Cards \ {c} : cardFiles'[d] = cardFiles[d]
      /\ cardFiles'[c].mtime = now + 1
      /\ cardFiles'[c].version \in {cardFiles[c].version, cardFiles[c].version + 1}
  BY DEF WriteBegins, WriteEnds, CardsAndClock
<1>2. /\ now' = now + 1 /\ watermark' = watermark /\ table' = table
      /\ sweep' = sweep /\ requests' = requests
      /\ lapsed' = IF sweep.open THEN lapsed \cup {c} ELSE lapsed
  BY DEF WriteBegins, WriteEnds, WrittenNow
<1>3. CardsAndClock'
  BY <1>1, <1>2 DEF CardsAndClock
<1>4. \A d \in Cards : cardFiles[d].version <= cardFiles'[d].version
  BY <1>1 DEF CardsAndClock
<1>5. \A rows : RowsFit(rows) => RowsFit(rows)'
  BY <1>3, <1>4, RowsStayFit
<1>6. SweepFits'
  <2>1. sweep.open => \A d \in Cards \ (lapsed' \cup sweep.files) :
            d # c /\ d \notin lapsed /\ cardFiles'[d] = cardFiles[d]
    BY <1>1, <1>2
  <2>2. now <= now' BY <1>2 DEF CardsAndClock
  <2>3. RowsFit(sweep.rows)'
    <3>1. RowsFit(sweep.rows) BY DEF SweepFits
    <3>2. PICK rows : rows = sweep.rows OBVIOUS
    <3>3. RowsFit(rows)' BY <3>1, <3>2, <1>5
    <3> QED BY <3>2, <3>3, <1>2 DEF RowsFit
  <2> QED BY <1>2, <2>1, <2>2, <2>3 DEF SweepFits, CardsAndClock
<1>7. RequestsFit'
  BY <1>2, <1>5 DEF RequestsFit, RowsFit
<1>8. MirrorHasItAll'
  <2>1. SUFFICES ASSUME NEW d \in Cards \ lapsed', cardFiles'[d].whole,
                        cardFiles'[d].version > 0, cardFiles'[d].mtime <= watermark'
                 PROVE  \/ table'[d] = cardFiles'[d].version
                        \/ \E q \in requests' : [card |-> d, version |-> cardFiles'[d].version] \in q
    BY DEF MirrorHasItAll
  <2>2. d # c
    BY <2>1, <1>1, <1>2 DEF CardsAndClock
  <2>3. d \notin lapsed /\ cardFiles'[d] = cardFiles[d]
    BY <2>2, <1>1, <1>2
  <2> QED BY <2>1, <2>3, <1>2 DEF MirrorHasItAll
<1> QED BY <1>3, <1>6, <1>7, <1>8

\* What leaves the files and the clock alone keeps fit rows fit.
LEMMA RowsKeep ==
  ASSUME NEW rows, RowsFit(rows), UNCHANGED cardFiles
  PROVE  RowsFit(rows)'
BY DEF RowsFit

\* A sweep begins with every card that was ever written still to be read.
LEMMA MirrorLists == MirrorInv /\ SweepLists => MirrorInv'
<1> SUFFICES ASSUME MirrorInv, SweepLists PROVE MirrorInv'
  OBVIOUS
<1> USE DEF MirrorInv, SweepLists
<1>1. sweep'.open = TRUE /\ sweep'.seen = watermark /\ sweep'.rows = {}
      /\ sweep'.files = {c \in Cards : cardFiles[c].mtime > 0}
      /\ sweep' = [open |-> sweep'.open, files |-> sweep'.files, seen |-> sweep'.seen,
                   rows |-> sweep'.rows]
  OBVIOUS
<1>2. CardsAndClock'
  BY DEF CardsAndClock
<1>3. SweepFits'
  <2>1. \A c \in Cards \ (lapsed' \cup sweep'.files) : ~ (cardFiles'[c].mtime > watermark')
    BY <1>1 DEF CardsAndClock
  <2> QED BY <1>1, <2>1 DEF SweepFits, CardsAndClock, RowsFit
<1>4. RequestsFit'
  BY DEF RequestsFit, RowsFit
<1>5. MirrorHasItAll'
  BY DEF MirrorHasItAll
<1> QED BY <1>2, <1>3, <1>4, <1>5

\* It reads one card: a row if the card is new and whole.
LEMMA MirrorReads == MirrorInv /\ SweepReads => MirrorInv'
<1> SUFFICES ASSUME MirrorInv, SweepReads PROVE MirrorInv'
  OBVIOUS
<1> USE DEF MirrorInv
<1>1. PICK c \in sweep.files :
        sweep' = [sweep EXCEPT
             !.files = @ \ {c},
             !.seen = IF cardFiles[c].mtime > @ THEN cardFiles[c].mtime ELSE @,
             !.rows = IF cardFiles[c].mtime > watermark /\ cardFiles[c].whole
                      THEN @ \cup {[card |-> c, version |-> cardFiles[c].version]} ELSE @]
  BY DEF SweepReads
<1>2. UNCHANGED <<cardFiles, now, watermark, requests, table, lapsed, swept, losses>>
  BY DEF SweepReads
<1> DEFINE row == [card |-> c, version |-> cardFiles[c].version]
<1>3. c \in Cards /\ sweep.open = TRUE /\ row \in Upsert
  BY DEF SweepFits, CardsAndClock, Upsert
<1>4. /\ sweep'.open = TRUE /\ sweep'.files = sweep.files \ {c}
      /\ sweep'.seen = IF cardFiles[c].mtime > sweep.seen THEN cardFiles[c].mtime ELSE sweep.seen
      /\ sweep'.rows = IF cardFiles[c].mtime > watermark /\ cardFiles[c].whole
                       THEN sweep.rows \cup {row} ELSE sweep.rows
      /\ sweep' = [open |-> sweep'.open, files |-> sweep'.files, seen |-> sweep'.seen,
                   rows |-> sweep'.rows]
  BY <1>1, <1>3 DEF SweepFits
<1>5. CardsAndClock'
  BY <1>2 DEF CardsAndClock
<1>6. RowsFit(sweep.rows \cup {row}) /\ RowsFit(sweep.rows)
  <2>1. RowsFit(sweep.rows) /\ \A x \in sweep.rows : x.card # c
    BY DEF SweepFits
  <2>2. row.card = c /\ row.version <= cardFiles[c].version
    BY <1>3 DEF CardsAndClock
  <2> HIDE DEF row
  <2> QED BY <1>3, <2>1, <2>2 DEF RowsFit
<1>7. RowsFit(sweep.rows)'
  BY <1>2, <1>4, <1>6 DEF RowsFit
<1>8. \A x \in sweep'.rows : x.card \notin sweep'.files
  BY <1>4 DEF SweepFits
<1>9. \A d \in Cards \ (lapsed' \cup sweep'.files) :
        cardFiles'[d].whole /\ cardFiles'[d].mtime > watermark'
          => [card |-> d, version |-> cardFiles'[d].version] \in sweep'.rows
  <2>1. SUFFICES ASSUME NEW d \in Cards \ (lapsed' \cup sweep'.files),
                        cardFiles'[d].whole, cardFiles'[d].mtime > watermark'
                 PROVE  [card |-> d, version |-> cardFiles'[d].version] \in sweep'.rows
    OBVIOUS
  <2>2. CASE d = c BY <2>1, <2>2, <1>2, <1>4
  <2>3. CASE d # c
    <3>1. d \in Cards \ (lapsed \cup sweep.files) BY <2>1, <2>3, <1>2, <1>4
    <3>2. [card |-> d, version |-> cardFiles[d].version] \in sweep.rows
      BY <3>1, <2>1, <1>2, <1>3 DEF SweepFits
    <3> QED BY <3>2, <1>2, <1>4
  <2> QED BY <2>2, <2>3
<1>10. SweepFits'
  <2>1. sweep'.seen \in Nat /\ sweep'.seen <= now'
    BY <1>2, <1>3, <1>4 DEF SweepFits, CardsAndClock
  <2>2. sweep'.files \subseteq Cards BY <1>4 DEF SweepFits
  <2> QED BY <1>4, <1>7, <1>8, <1>9, <2>1, <2>2 DEF SweepFits
<1>11. RequestsFit'
  BY <1>2 DEF RequestsFit, RowsFit
<1>12. MirrorHasItAll'
  BY <1>2 DEF MirrorHasItAll
<1> QED BY <1>5, <1>10, <1>11, <1>12

\* A sweep that is not under way fits.
LEMMA NotSweepingFits ==
  ASSUME CardsAndClock', sweep' = NotSweeping
  PROVE  SweepFits'
<1>1. /\ sweep'.open = FALSE /\ sweep'.files = {} /\ sweep'.seen = 0 /\ sweep'.rows = {}
      /\ sweep' = [open |-> sweep'.open, files |-> sweep'.files, seen |-> sweep'.seen,
                   rows |-> sweep'.rows]
  BY DEF NotSweeping
<1>2. 0 <= now' BY DEF CardsAndClock
<1>3. RowsFit(sweep.rows)' BY <1>1 DEF RowsFit
<1>4. sweep'.open \in BOOLEAN /\ ~ sweep'.open BY <1>1
<1>5. sweep'.seen \in Nat /\ sweep'.seen <= now' BY <1>1, <1>2
<1>6. \A x \in sweep'.rows : x.card \notin sweep'.files BY <1>1
<1> QED BY <1>1, <1>3, <1>4, <1>5, <1>6 DEF SweepFits

\* The watermark moves to what was seen: all that is new is in the request.
LEMMA MirrorPosts == MirrorInv /\ SweepPosts => MirrorInv'
<1> SUFFICES ASSUME MirrorInv, SweepPosts PROVE MirrorInv'
  OBVIOUS
<1> USE DEF MirrorInv, SweepPosts
<1>1. CardsAndClock'
  BY DEF CardsAndClock, SweepFits
<1>2. SweepFits'
  BY <1>1, NotSweepingFits, sweep' = NotSweeping
<1>3. requests \subseteq requests' /\ (sweep.rows # {} => sweep.rows \in requests')
  OBVIOUS
<1>4. RequestsFit'
  BY DEF RequestsFit, SweepFits, RowsFit
<1>5. MirrorHasItAll'
  <2>1. SUFFICES ASSUME NEW c \in Cards \ lapsed, cardFiles[c].whole,
                        cardFiles[c].version > 0, cardFiles[c].mtime <= watermark'
                 PROVE  \/ table[c] = cardFiles[c].version
                        \/ \E q \in requests' : [card |-> c, version |-> cardFiles[c].version] \in q
    BY DEF MirrorHasItAll
  <2>2. CASE cardFiles[c].mtime <= watermark
    BY <2>1, <2>2, <1>3 DEF MirrorHasItAll
  <2>3. CASE ~ (cardFiles[c].mtime <= watermark)
    <3>1. cardFiles[c].mtime > watermark
      BY <2>3 DEF CardsAndClock
    <3>2. [card |-> c, version |-> cardFiles[c].version] \in sweep.rows
      BY <2>1, <3>1 DEF SweepFits
    <3> QED BY <3>2, <1>3
  <2> QED BY <2>2, <2>3
<1> QED BY <1>1, <1>2, <1>4, <1>5

\* A request that lands puts the versions it has in the table.
LEMMA MirrorLands == ASSUME MirrorInv, NEW q \in requests, RequestLands(q) PROVE MirrorInv'
<1> USE DEF MirrorInv, RequestLands
<1>1. RowsFit(q)
  BY DEF RequestsFit
<1>2. \A x \in q : /\ x.card \in Cards /\ x.version \in Nat
                   /\ x.version <= cardFiles[x.card].version
                   /\ table'[x.card] = x.version
                   /\ (table[x.card] > x.version => x.card \in lapsed')
  BY <1>1 DEF RowsFit, Upsert
<1>3. \A c \in Cards : (\A x \in q : x.card # c) => table'[c] = table[c]
  OBVIOUS
<1>4. CardsAndClock'
  <2>1. \A c \in Cards : table'[c] \in Nat /\ table'[c] <= cardFiles[c].version
    BY <1>2, <1>3 DEF CardsAndClock
  <2>2. lapsed' \subseteq Cards
    BY <1>2 DEF CardsAndClock
  <2> QED BY <2>1, <2>2 DEF CardsAndClock
<1>5. SweepFits'
  <2>1. lapsed \subseteq lapsed' OBVIOUS
  <2> QED BY <2>1 DEF SweepFits, RowsFit
<1>6. RequestsFit'
  BY DEF RequestsFit, RowsFit
<1>7. MirrorHasItAll'
  <2>1. SUFFICES ASSUME NEW c \in Cards \ lapsed', cardFiles[c].whole,
                        cardFiles[c].version > 0, cardFiles[c].mtime <= watermark
                 PROVE  \/ table'[c] = cardFiles[c].version
                        \/ \E r \in requests' : [card |-> c, version |-> cardFiles[c].version] \in r
    BY DEF MirrorHasItAll
  <2>2. CASE table[c] = cardFiles[c].version
    <3>1. CASE \A x \in q : x.card # c
      BY <3>1, <2>2, <1>3
    <3>2. CASE \E x \in q : x.card = c
      <4>1. PICK x \in q : x.card = c BY <3>2
      <4>2. ~ (table[c] > x.version) /\ x.version <= cardFiles[c].version
            /\ table'[c] = x.version /\ x.version \in Nat
        BY <4>1, <1>2, <2>1
      <4>3. cardFiles[c].version \in Nat
        BY DEF CardsAndClock
      <4>4. x.version = cardFiles[c].version
        BY <4>2, <4>3, <2>2
      <4> QED BY <4>2, <4>4
    <3> QED BY <3>1, <3>2
  <2>3. CASE \E r \in requests : [card |-> c, version |-> cardFiles[c].version] \in r
    <3>1. PICK r \in requests : [card |-> c, version |-> cardFiles[c].version] \in r
      BY <2>3
    <3>2. CASE r = q
      BY <3>1, <3>2, <1>2
    <3>3. CASE r # q
      BY <3>1, <3>3
    <3> QED BY <3>2, <3>3
  <2> QED BY <2>1, <2>2, <2>3 DEF MirrorHasItAll
<1> QED BY <1>4, <1>5, <1>6, <1>7

\* One that fails leaves its cards behind, and is known to.
LEMMA MirrorFails == ASSUME MirrorInv, NEW q \in requests, RequestFails(q) PROVE MirrorInv'
<1> USE DEF MirrorInv, RequestFails
<1>1. \A x \in q : x.card \in Cards /\ x.card \in lapsed'
  BY DEF RequestsFit, RowsFit, Upsert
<1>2. CardsAndClock'
  BY <1>1 DEF CardsAndClock
<1>3. SweepFits'
  <2>1. lapsed \subseteq lapsed' OBVIOUS
  <2> QED BY <2>1 DEF SweepFits, RowsFit
<1>4. RequestsFit'
  BY DEF RequestsFit, RowsFit
<1>5. MirrorHasItAll'
  <2>1. SUFFICES ASSUME NEW c \in Cards \ lapsed', cardFiles[c].whole,
                        cardFiles[c].version > 0, cardFiles[c].mtime <= watermark,
                        table[c] # cardFiles[c].version
                 PROVE  \E r \in requests' : [card |-> c, version |-> cardFiles[c].version] \in r
    BY DEF MirrorHasItAll
  <2>2. PICK r \in requests : [card |-> c, version |-> cardFiles[c].version] \in r
    BY <2>1 DEF MirrorHasItAll
  <2>3. r # q BY <2>1, <2>2, <1>1
  <2> QED BY <2>2, <2>3
<1> QED BY <1>2, <1>3, <1>4, <1>5

\* A restart forgets what was out, and the watermark with it: no card that was
\* ever written is behind it.
LEMMA MirrorRestarts == MirrorInv /\ Restarts => MirrorInv'
<1> SUFFICES ASSUME MirrorInv, Restarts PROVE MirrorInv'
  OBVIOUS
<1> USE DEF MirrorInv, Restarts
<1>1. CardsAndClock'
  BY DEF CardsAndClock
<1>2. SweepFits'
  BY <1>1, NotSweepingFits, sweep' = NotSweeping
<1>3. RequestsFit'
  BY DEF RequestsFit
<1>4. MirrorHasItAll'
  BY DEF MirrorHasItAll, CardsAndClock
<1> QED BY <1>1, <1>2, <1>3, <1>4

\* The invariant is inductive, whichever order the writes arrive in.
LEMMA MirrorStep == MirrorInv /\ [MirrorNext]_mirrorVars => MirrorInv'
<1>1. CASE UNCHANGED mirrorVars
  BY <1>1 DEF MirrorInv, CardsAndClock, SweepFits, RowsFit, RequestsFit, MirrorHasItAll, mirrorVars
<1>2. CASE MirrorNext
  BY <1>2, MirrorWrites, MirrorLists, MirrorReads, MirrorPosts, MirrorLands, MirrorFails,
     MirrorRestarts DEF MirrorNext
<1> QED BY <1>1, <1>2

\* An empty mirror.
LEMMA MirrorStarts == MirrorInit => MirrorInv
<1> SUFFICES ASSUME MirrorInit PROVE MirrorInv
  OBVIOUS
<1> USE DEF MirrorInit, NotSweeping
<1>1. CardsAndClock BY DEF CardsAndClock
<1>2. SweepFits
  <2>1. sweep = [open |-> sweep.open, files |-> sweep.files, seen |-> sweep.seen, rows |-> sweep.rows]
    OBVIOUS
  <2> QED BY <2>1, <1>1 DEF SweepFits, RowsFit, CardsAndClock
<1>3. RequestsFit BY DEF RequestsFit
<1>4. MirrorHasItAll BY DEF MirrorHasItAll
<1> QED BY <1>1, <1>2, <1>3, <1>4 DEF MirrorInv

---------------------------------------------------------------------------
(* The backups.                                                            *)

\* Fewer are newer than b among some archives than among more.
LEMMA FewerAreNewer ==
  ASSUME NEW S, IsFiniteSet(S), NEW T, T \subseteq S, NEW b
  PROVE  /\ Cardinality({x \in T : x > b}) \in Nat
         /\ Cardinality({x \in S : x > b}) \in Nat
         /\ Cardinality({x \in T : x > b}) <= Cardinality({x \in S : x > b})
<1>1. IsFiniteSet({x \in S : x > b})
  BY FS_Subset
<1>2. {x \in T : x > b} \subseteq {x \in S : x > b}
  OBVIOUS
<1> QED BY <1>1, <1>2, FS_Subset, FS_CardinalityType

BackupsInv ==
  /\ BackupTypeOK
  /\ IsFiniteSet(uploaded)
  /\ bucket \subseteq uploaded
  /\ \A b \in Backups : backups[b].listing \subseteq uploaded
  /\ NewestStay

\* What is on disk are backups.
LEMMA BackupTypes == BackupTypeOK /\ [BackupNext]_backupVars => BackupTypeOK'
<1> SUFFICES ASSUME BackupTypeOK, [BackupNext]_backupVars PROVE BackupTypeOK'
  OBVIOUS
<1> USE DEF BackupTypeOK
<1>1. CASE UNCHANGED backupVars BY <1>1 DEF backupVars
<1>2. ASSUME NEW b \in Backups,
             Tars(b) \/ Uploads(b) \/ GivesUp(b) \/ Lists(b) \/ Prunes(b)
      PROVE  BackupTypeOK'
  BY <1>2 DEF Tars, Uploads, GivesUp, Lists, Prunes
<1> QED BY <1>1, <1>2 DEF BackupNext

\* An upload adds an archive: no older one is nearer to the newest for it.
LEMMA UploadKeepsNewest == ASSUME BackupsInv, NEW b \in Backups, Uploads(b) PROVE BackupsInv'
<1> USE DEF BackupsInv
<1>1. BackupTypeOK' BY BackupTypes DEF BackupNext
<1>2. uploaded' = uploaded \cup {b} /\ bucket' = bucket \cup {b}
  BY DEF Uploads
<1>3. IsFiniteSet(uploaded') BY <1>2, FS_AddElement
<1>4. \A c \in Backups : backups'[c].listing = backups[c].listing
  BY DEF Uploads, BackupTypeOK
<1>5. NewestStay'
  <2>1. SUFFICES ASSUME NEW c \in uploaded', Cardinality({x \in uploaded' : x > c}) < Keep
                 PROVE  c \in bucket'
    BY DEF NewestStay
  <2>2. CASE c = b BY <2>2, <1>2
  <2>3. CASE c \in uploaded
    <3>1. uploaded \subseteq uploaded' BY <1>2
    <3>2. /\ Cardinality({x \in uploaded : x > c}) \in Nat
          /\ Cardinality({x \in uploaded' : x > c}) \in Nat
          /\ Cardinality({x \in uploaded : x > c}) <= Cardinality({x \in uploaded' : x > c})
      BY <3>1, <1>3, FewerAreNewer
    <3>3. Cardinality({x \in uploaded : x > c}) < Keep
      BY <2>1, <3>2, KeepAssumption
    <3> QED BY <3>3, <2>3, <1>2 DEF NewestStay
  <2> QED BY <2>1, <2>2, <2>3, <1>2
<1> QED BY <1>1, <1>2, <1>3, <1>4, <1>5

\* What a listing dooms is no newest one of all that were uploaded.
LEMMA PruneKeepsNewest == ASSUME BackupsInv, NEW b \in Backups, Prunes(b) PROVE BackupsInv'
<1> USE DEF BackupsInv
<1>1. BackupTypeOK' BY BackupTypes DEF BackupNext
<1>2. uploaded' = uploaded /\ bucket' = bucket \ Doomed(backups[b].listing)
  BY DEF Prunes
<1>3. \A c \in Backups : backups'[c].listing \subseteq backups[c].listing
  BY DEF Prunes, BackupTypeOK
<1>4. NewestStay'
  <2>1. SUFFICES ASSUME NEW c \in uploaded, Cardinality({x \in uploaded : x > c}) < Keep
                 PROVE  c \in bucket'
    BY <1>2 DEF NewestStay
  <2>2. backups[b].listing \subseteq uploaded /\ IsFiniteSet(uploaded)
    OBVIOUS
  <2>3. /\ Cardinality({x \in backups[b].listing : x > c}) \in Nat
        /\ Cardinality({x \in uploaded : x > c}) \in Nat
        /\ Cardinality({x \in backups[b].listing : x > c})
             <= Cardinality({x \in uploaded : x > c})
    BY <2>2, FewerAreNewer
  <2>4. c \notin Doomed(backups[b].listing)
    BY <2>1, <2>3, KeepAssumption DEF Doomed
  <2> QED BY <2>1, <2>4, <1>2 DEF NewestStay
<1> QED BY <1>1, <1>2, <1>3, <1>4

\* A sweep deletes none of the newest.
LEMMA BackupStep == BackupsInv /\ [BackupNext]_backupVars => BackupsInv'
<1> SUFFICES ASSUME BackupsInv, [BackupNext]_backupVars PROVE BackupsInv'
  OBVIOUS
<1>1. CASE UNCHANGED backupVars
  BY <1>1 DEF BackupsInv, BackupTypeOK, NewestStay, backupVars
<1>2. ASSUME NEW b \in Backups, Tars(b) \/ GivesUp(b) \/ Lists(b)
      PROVE  BackupsInv'
  <2>1. BackupTypeOK' BY <1>2, BackupTypes DEF BackupNext, BackupsInv
  <2>2. UNCHANGED <<bucket, uploaded>>
    BY <1>2 DEF Tars, GivesUp, Lists
  <2>3. \A c \in Backups : backups'[c].listing \in {backups[c].listing, bucket}
    BY <1>2 DEF Tars, GivesUp, Lists, BackupsInv, BackupTypeOK
  <2> QED BY <2>1, <2>2, <2>3 DEF BackupsInv, NewestStay
<1> QED BY <1>1, <1>2, UploadKeepsNewest, PruneKeepsNewest DEF BackupNext

\* No backup yet.
LEMMA BackupStarts == BackupInit => BackupsInv
<1> SUFFICES ASSUME BackupInit PROVE BackupsInv
  OBVIOUS
<1>1. IsFiniteSet(uploaded) BY FS_EmptySet DEF BackupInit
<1> QED BY <1>1 DEF BackupInit, BackupsInv, BackupTypeOK, NewestStay

---------------------------------------------------------------------------
(* The mail to new users.                                                  *)

\* Whether a mail to u would be the first, as far as the mailer is right.
Unheard(u) == mails[u] = 0 \/ u \in unsure

\* A claim is held by the sweep that has the user in hand, and nobody else.
ClaimsAreHeld ==
  /\ \A s \in Sweeps : sweeps[s].at \in {"idle", "next"} => sweeps[s].hand = {}
  /\ \A s, t \in Sweeps : s # t => sweeps[s].hand \cap sweeps[t].hand = {}
  /\ \A s \in Sweeps : \A u \in sweeps[s].hand :
       /\ claims[u] = "sent"
       /\ u \notin seeded \ pending
       /\ sweeps[s].at \in {"send", "release"} => Unheard(u)

GreetingTypes ==
  /\ age \in [People -> {"unborn", "young", "due", "past"}]
  /\ claims \in [People -> {"none", "sent", "suppressed"}]
  /\ sweeps \in [Sweeps -> [at : {"idle", "next", "send", "log", "release"},
                            todo : SUBSET People, hand : SUBSET People]]
  /\ mails \in [People -> Nat]
  /\ seeding \subseteq People /\ seeded \subseteq People

\* Whoever is not claimed, or is suppressed, heard nothing.
GreetingInv ==
  /\ GreetingTypes
  /\ ClaimsAreHeld
  /\ \A u \in People : claims[u] # "sent" => Unheard(u)
  /\ OnceEach
  /\ SeededStayClaimed

\* What a sweep is at and has in hand stay what they may be.
LEMMA SweepSteps ==
  ASSUME NEW s \in Sweeps, GreetingTypes,
         \/ Drops(s)
         \/ \E at \in {"next", "send", "log", "release"} : SweepIsAt(s, at)
  PROVE  sweeps' \in [Sweeps -> [at : {"idle", "next", "send", "log", "release"},
                                todo : SUBSET People, hand : SUBSET People]]
BY DEF GreetingTypes, Drops, SweepIsAt

\* Whoever sweeps, the claim is made before the mail.
LEMMA GreetingStep == GreetingInv /\ [GreetingNext]_greetingVars => GreetingInv'
<1> SUFFICES ASSUME GreetingInv, [GreetingNext]_greetingVars PROVE GreetingInv'
  OBVIOUS
<1> USE DEF GreetingInv, Unheard, history
<1>1. CASE UNCHANGED greetingVars
  BY <1>1 DEF greetingVars, GreetingTypes, ClaimsAreHeld, OnceEach, SeededStayClaimed
<1>2. ASSUME NEW s \in Sweeps, Begins(s) PROVE GreetingInv'
  <2>1. GreetingTypes' BY <1>2 DEF Begins, NoSweep, GreetingTypes
  <2>2. ClaimsAreHeld' BY <1>2 DEF Begins, NoSweep, GreetingTypes, ClaimsAreHeld
  <2>3. \A u \in People : claims'[u] # "sent" => Unheard(u)'
    BY <1>2 DEF Begins, NoSweep, GreetingTypes, ClaimsAreHeld
  <2>4. OnceEach' BY <1>2 DEF Begins, NoSweep, GreetingTypes, ClaimsAreHeld, OnceEach
  <2>5. SeededStayClaimed' BY <1>2 DEF Begins, NoSweep, GreetingTypes, ClaimsAreHeld, SeededStayClaimed
  <2> QED BY <2>1, <2>2, <2>3, <2>4, <2>5
<1>3. ASSUME NEW s \in Sweeps, ClaimsNext(s) PROVE GreetingInv'
  <2>1. GreetingTypes' BY <1>3 DEF ClaimsNext, Claims, Inserted, GreetingTypes
  <2>2. ClaimsAreHeld' BY <1>3 DEF ClaimsNext, Claims, Inserted, GreetingTypes, ClaimsAreHeld
  <2>3. \A u \in People : claims'[u] # "sent" => Unheard(u)'
    BY <1>3 DEF ClaimsNext, Claims, Inserted, GreetingTypes, ClaimsAreHeld
  <2>4. OnceEach' BY <1>3 DEF ClaimsNext, Claims, Inserted, GreetingTypes, ClaimsAreHeld, OnceEach
  <2>5. SeededStayClaimed' BY <1>3 DEF ClaimsNext, Claims, Inserted, GreetingTypes, ClaimsAreHeld, SeededStayClaimed
  <2> QED BY <2>1, <2>2, <2>3, <2>4, <2>5
<1>4. ASSUME NEW s \in Sweeps, ClaimErrs(s) PROVE GreetingInv'
  <2>1. GreetingTypes' BY <1>4 DEF ClaimErrs, Inserted, GreetingTypes
  <2>2. ClaimsAreHeld' BY <1>4 DEF ClaimErrs, Inserted, GreetingTypes, ClaimsAreHeld
  <2>3. \A u \in People : claims'[u] # "sent" => Unheard(u)'
    BY <1>4 DEF ClaimErrs, Inserted, GreetingTypes, ClaimsAreHeld
  <2>4. OnceEach' BY <1>4 DEF ClaimErrs, Inserted, GreetingTypes, ClaimsAreHeld, OnceEach
  <2>5. SeededStayClaimed' BY <1>4 DEF ClaimErrs, Inserted, GreetingTypes, ClaimsAreHeld, SeededStayClaimed
  <2> QED BY <2>1, <2>2, <2>3, <2>4, <2>5
<1>5. ASSUME NEW s \in Sweeps, Sends(s) PROVE GreetingInv'
  <2>1. GreetingTypes' BY <1>5 DEF Sends, SweepIsAt, MailArrives, GreetingTypes
  <2>2. ClaimsAreHeld' BY <1>5 DEF Sends, SweepIsAt, MailArrives, GreetingTypes, ClaimsAreHeld
  <2>3. \A u \in People : claims'[u] # "sent" => Unheard(u)'
    BY <1>5 DEF Sends, SweepIsAt, MailArrives, GreetingTypes, ClaimsAreHeld
  <2>4. OnceEach' BY <1>5 DEF Sends, SweepIsAt, MailArrives, GreetingTypes, ClaimsAreHeld, OnceEach
  <2>5. SeededStayClaimed' BY <1>5 DEF Sends, SweepIsAt, MailArrives, GreetingTypes, ClaimsAreHeld, SeededStayClaimed
  <2> QED BY <2>1, <2>2, <2>3, <2>4, <2>5
<1>6. ASSUME NEW s \in Sweeps, SendErrs(s) PROVE GreetingInv'
  <2>1. GreetingTypes' BY <1>6, SweepSteps DEF SendErrs, MailArrives, GreetingTypes
  <2>2. ClaimsAreHeld' BY <1>6 DEF SendErrs, SweepIsAt, MailArrives, GreetingTypes, ClaimsAreHeld
  <2>3. \A u \in People : claims'[u] # "sent" => Unheard(u)'
    BY <1>6 DEF SendErrs, SweepIsAt, MailArrives, GreetingTypes, ClaimsAreHeld
  <2>4. OnceEach' BY <1>6 DEF SendErrs, SweepIsAt, MailArrives, GreetingTypes, ClaimsAreHeld, OnceEach
  <2>5. SeededStayClaimed' BY <1>6 DEF SendErrs, SweepIsAt, MailArrives, GreetingTypes, ClaimsAreHeld, SeededStayClaimed
  <2> QED BY <2>1, <2>2, <2>3, <2>4, <2>5
<1>7. ASSUME NEW s \in Sweeps, Notes(s) PROVE GreetingInv'
  <2>1. GreetingTypes' BY <1>7 DEF Notes, Drops, GreetingTypes
  <2>2. ClaimsAreHeld' BY <1>7 DEF Notes, Drops, GreetingTypes, ClaimsAreHeld
  <2>3. \A u \in People : claims'[u] # "sent" => Unheard(u)'
    BY <1>7 DEF Notes, Drops, GreetingTypes, ClaimsAreHeld
  <2>4. OnceEach' BY <1>7 DEF Notes, Drops, GreetingTypes, ClaimsAreHeld, OnceEach
  <2>5. SeededStayClaimed' BY <1>7 DEF Notes, Drops, GreetingTypes, ClaimsAreHeld, SeededStayClaimed
  <2> QED BY <2>1, <2>2, <2>3, <2>4, <2>5
<1>8. ASSUME NEW s \in Sweeps, NoteErrs(s) PROVE GreetingInv'
  <2>1. GreetingTypes' BY <1>8 DEF NoteErrs, SweepIsAt, GreetingTypes
  <2>2. ClaimsAreHeld' BY <1>8 DEF NoteErrs, SweepIsAt, GreetingTypes, ClaimsAreHeld
  <2>3. \A u \in People : claims'[u] # "sent" => Unheard(u)'
    BY <1>8 DEF NoteErrs, SweepIsAt, GreetingTypes, ClaimsAreHeld
  <2>4. OnceEach' BY <1>8 DEF NoteErrs, SweepIsAt, GreetingTypes, ClaimsAreHeld, OnceEach
  <2>5. SeededStayClaimed' BY <1>8 DEF NoteErrs, SweepIsAt, GreetingTypes, ClaimsAreHeld, SeededStayClaimed
  <2> QED BY <2>1, <2>2, <2>3, <2>4, <2>5
<1>9. ASSUME NEW s \in Sweeps, Releases(s) PROVE GreetingInv'
  <2>1. GreetingTypes' BY <1>9, SweepSteps DEF Releases, GreetingTypes
  <2>2. ClaimsAreHeld' BY <1>9 DEF Releases, Drops, GreetingTypes, ClaimsAreHeld
  <2>3. \A u \in People : claims'[u] # "sent" => Unheard(u)'
    BY <1>9 DEF Releases, Drops, GreetingTypes, ClaimsAreHeld
  <2>4. OnceEach' BY <1>9 DEF Releases, Drops, GreetingTypes, ClaimsAreHeld, OnceEach
  <2>5. SeededStayClaimed' BY <1>9 DEF Releases, Drops, GreetingTypes, ClaimsAreHeld, SeededStayClaimed
  <2> QED BY <2>1, <2>2, <2>3, <2>4, <2>5
<1>10. ASSUME NEW s \in Sweeps, ReleaseErrs(s) PROVE GreetingInv'
  <2>1. GreetingTypes' BY <1>10, SweepSteps DEF ReleaseErrs, GreetingTypes
  <2>2. ClaimsAreHeld' BY <1>10 DEF ReleaseErrs, Drops, GreetingTypes, ClaimsAreHeld
  <2>3. \A u \in People : claims'[u] # "sent" => Unheard(u)'
    BY <1>10 DEF ReleaseErrs, Drops, GreetingTypes, ClaimsAreHeld
  <2>4. OnceEach' BY <1>10 DEF ReleaseErrs, Drops, GreetingTypes, ClaimsAreHeld, OnceEach
  <2>5. SeededStayClaimed' BY <1>10 DEF ReleaseErrs, Drops, GreetingTypes, ClaimsAreHeld, SeededStayClaimed
  <2> QED BY <2>1, <2>2, <2>3, <2>4, <2>5
<1>11. ASSUME NEW s \in Sweeps, Ends(s) PROVE GreetingInv'
  <2>1. GreetingTypes' BY <1>11 DEF Ends, NoSweep, GreetingTypes
  <2>2. ClaimsAreHeld' BY <1>11 DEF Ends, NoSweep, GreetingTypes, ClaimsAreHeld
  <2>3. \A u \in People : claims'[u] # "sent" => Unheard(u)'
    BY <1>11 DEF Ends, NoSweep, GreetingTypes, ClaimsAreHeld
  <2>4. OnceEach' BY <1>11 DEF Ends, NoSweep, GreetingTypes, ClaimsAreHeld, OnceEach
  <2>5. SeededStayClaimed' BY <1>11 DEF Ends, NoSweep, GreetingTypes, ClaimsAreHeld, SeededStayClaimed
  <2> QED BY <2>1, <2>2, <2>3, <2>4, <2>5
<1>12. ASSUME NEW s \in Sweeps, Dies(s) PROVE GreetingInv'
  <2>1. GreetingTypes' BY <1>12 DEF Dies, NoSweep, GreetingTypes
  <2>2. ClaimsAreHeld' BY <1>12 DEF Dies, NoSweep, GreetingTypes, ClaimsAreHeld
  <2>3. \A u \in People : claims'[u] # "sent" => Unheard(u)'
    BY <1>12 DEF Dies, NoSweep, GreetingTypes, ClaimsAreHeld
  <2>4. OnceEach' BY <1>12 DEF Dies, NoSweep, GreetingTypes, ClaimsAreHeld, OnceEach
  <2>5. SeededStayClaimed' BY <1>12 DEF Dies, NoSweep, GreetingTypes, ClaimsAreHeld, SeededStayClaimed
  <2> QED BY <2>1, <2>2, <2>3, <2>4, <2>5
<1>13. ASSUME NEW u \in People, GrowsOlder(u) PROVE GreetingInv'
  BY <1>13 DEF GrowsOlder, GreetingTypes, ClaimsAreHeld, OnceEach, SeededStayClaimed
<1>14. CASE SeedLists
  BY <1>14 DEF SeedLists, GreetingTypes, ClaimsAreHeld, OnceEach, SeededStayClaimed
<1>15. CASE SeedClaims
  <2>1. GreetingTypes' BY <1>15 DEF SeedClaims, GreetingTypes
  <2>2. \A s \in Sweeps : sweeps[s].hand \subseteq pending'
    BY <1>15 DEF SeedClaims
  <2>3. ClaimsAreHeld' BY <1>15, <2>2 DEF SeedClaims, GreetingTypes, ClaimsAreHeld
  <2>4. \A u \in People : claims'[u] # "sent" => Unheard(u)'
    BY <1>15 DEF SeedClaims, GreetingTypes
  <2>5. OnceEach' /\ SeededStayClaimed'
    BY <1>15 DEF SeedClaims, GreetingTypes, OnceEach, SeededStayClaimed
  <2> QED BY <2>1, <2>3, <2>4, <2>5
<1> QED
  BY <1>1, <1>2, <1>3, <1>4, <1>5, <1>6, <1>7, <1>8, <1>9, <1>10, <1>11, <1>12, <1>13,
     <1>14, <1>15 DEF GreetingNext

\* Nobody has been greeted.
LEMMA GreetingStarts == GreetingInit => GreetingInv
BY DEF GreetingInit, GreetingInv, GreetingTypes, ClaimsAreHeld, OnceEach, SeededStayClaimed,
       NoSweep, Unheard

\* Nobody suppressed was written to: a part of the invariant says it.
LEMMA GreetingKeeps == GreetingInv => GreetedOnce
BY DEF GreetingInv, GreetingTypes, GreetedOnce, SuppressedHeardNothing, Unheard

---------------------------------------------------------------------------
(* The ledger of subscriptions.                                            *)

BillingRows == [sub : Subs \cup {NoSub}, status : Statuses, period : Nat, at : Nat]

BillingTypes ==
  /\ stripe \in [Subs -> BillingRows]
  /\ changes \in Nat
  /\ mail \subseteq [type : EventTypes, row : BillingRows]
  /\ calls \subseteq [type : EventTypes \cup {"confirm"}, row : BillingRows, got : BillingRows]
  /\ top \in BillingRows
  /\ torn \in BOOLEAN /\ overtaken \in BOOLEAN /\ lost \in BOOLEAN
  /\ billingFaults \in Nat

\* A row that Stripe once gave out: there is none newer of its subscription
\* than what Stripe has now.
Given(row) ==
  /\ row.sub \in Subs
  /\ row.at \in 1..changes
  /\ row.at <= stripe[row.sub].at
  /\ row.at = stripe[row.sub].at => row = stripe[row.sub]

\* Each change is of one subscription, and the last one is there.
StripeCounts ==
  /\ \A s \in Subs : stripe[s] = NoRow \/ (stripe[s].sub = s /\ stripe[s].at \in 1..changes)
  /\ \A s, t \in Subs : stripe[s].at = stripe[t].at /\ stripe[s].at > 0 => s = t
  /\ changes > 0 => \E s \in Subs : stripe[s].at = changes

\* Whatever is under way or on the ledger is what Stripe gave out.
RowsAreGiven ==
  /\ \A e \in mail : Given(e.row)
  /\ \A c \in calls : Given(c.row) /\ (c.got = NoRow \/ Given(c.got))
  /\ top = NoRow \/ Given(top)

\* The last change is on top of the ledger, or still to be delivered as it was.
NewestIsOwed ==
  changes > 0 /\ ~ overtaken /\ ~ lost
    => \/ top.at = changes
       \/ \E e \in mail : e.type \in Snapshots /\ e.row.at = changes

BillingInv == BillingTypes /\ StripeCounts /\ RowsAreGiven /\ NewestIsOwed

\* Where Stripe stands still, what it gave out stays so.
LEMMA GivenStays ==
  ASSUME UNCHANGED <<stripe, changes>>, NEW row, Given(row)
  PROVE  Given(row)'
BY DEF Given

\* A change is newer than all that was given out, and is sent as it is.
LEMMA MovesAreOwed ==
  ASSUME BillingInv, NEW s \in Subs, NEW status \in Statuses, NEW period \in Nat,
         NEW types \in SUBSET EventTypes, types \cap Snapshots # {},
         Moves(s, status, period, types)
  PROVE  BillingInv'
<1> USE DEF BillingInv
<1>1. PICK row : row = [sub |-> s, status |-> status, period |-> period, at |-> changes + 1]
  OBVIOUS
<1>2. /\ changes' = changes + 1
      /\ stripe' = [stripe EXCEPT ![s] = row]
      /\ mail' = mail \cup {Event(t, row) : t \in types}
      /\ UNCHANGED <<calls, top, torn, overtaken, lost, billingFaults>>
  BY <1>1 DEF Moves
<1>3. row \in BillingRows /\ row.sub = s /\ row.at = changes + 1 /\ s # NoSub
  BY <1>1, SubsAssumption DEF BillingRows, BillingTypes, NoSub
<1>4. row # NoRow
  BY <1>3 DEF NoRow
<1>5. BillingTypes'
  <2>1. mail' \subseteq [type : EventTypes, row : BillingRows]
    BY <1>2, <1>3 DEF BillingTypes, Event
  <2> QED BY <1>2, <1>3, <2>1 DEF BillingTypes
<1>6. /\ stripe'[s] = row
      /\ \A t \in Subs \ {s} : stripe'[t] = stripe[t]
  BY <1>2 DEF BillingTypes
<1>7. \A t \in Subs : stripe[t].at \in 0..changes
  BY DEF StripeCounts, NoRow, BillingTypes
<1>8. StripeCounts'
  <2>1. \A t \in Subs : stripe'[t] = NoRow \/ (stripe'[t].sub = t /\ stripe'[t].at \in 1..changes')
    BY <1>2, <1>3, <1>6 DEF StripeCounts, BillingTypes
  <2>2. \A t, u \in Subs : stripe'[t].at = stripe'[u].at /\ stripe'[t].at > 0 => t = u
    BY <1>2, <1>3, <1>6, <1>7 DEF StripeCounts, BillingTypes
  <2>3. stripe'[s].at = changes'
    BY <1>2, <1>3, <1>6
  <2> QED BY <2>1, <2>2, <2>3 DEF StripeCounts
<1>9. ASSUME NEW r, Given(r) PROVE Given(r)'
  <2>1. r.sub \in Subs /\ r.at \in 1..changes'
    BY <1>2, <1>9 DEF Given, BillingTypes
  <2>2. CASE r.sub = s
    BY <2>1, <2>2, <1>2, <1>3, <1>6, <1>9 DEF Given, BillingTypes
  <2>3. CASE r.sub # s
    <3>1. stripe'[r.sub] = stripe[r.sub] BY <2>1, <2>3, <1>6
    <3> QED BY <3>1, <2>1, <1>9 DEF Given
  <2> QED BY <2>2, <2>3
<1>10. Given(row)'
  BY <1>2, <1>3, <1>6 DEF Given, BillingTypes
<1>11. \A e \in mail' : Given(e.row)'
  <2>1. SUFFICES ASSUME NEW e \in mail' PROVE Given(e.row)'
    OBVIOUS
  <2>2. CASE e \in mail
    BY <2>2, <1>9 DEF RowsAreGiven
  <2>3. CASE e \notin mail
    <3>1. PICK t \in types : e = Event(t, row) BY <2>1, <2>3, <1>2
    <3>2. e.row = row BY <3>1 DEF Event
    <3> QED BY <3>2, <1>10
  <2> QED BY <2>2, <2>3
<1>12. RowsAreGiven'
  <2>1. \A c \in calls' : Given(c.row)' /\ (c.got = NoRow \/ Given(c.got)')
    BY <1>2, <1>9 DEF RowsAreGiven
  <2>2. PICK t : t = top OBVIOUS
  <2>3. t = NoRow \/ Given(t)' BY <2>2, <1>9 DEF RowsAreGiven
  <2>4. top' = t BY <2>2, <1>2
  <2>5. top' = NoRow \/ Given(top)'
    BY <2>3, <2>4 DEF Given
  <2> QED BY <1>11, <2>1, <2>5 DEF RowsAreGiven
<1>13. NewestIsOwed'
  <2>1. PICK t \in types : t \in Snapshots OBVIOUS
  <2>2. Event(t, row) \in mail' BY <2>1, <1>2
  <2>3. Event(t, row).type = t /\ Event(t, row).row = row
    BY DEF Event
  <2> QED BY <2>1, <2>2, <2>3, <1>2, <1>3 DEF NewestIsOwed
<1> QED BY <1>5, <1>8, <1>12, <1>13

\* A row that reaches the ledger whole is its top, and no older than the last
\* one unless the ledger is known to be overtaken.
LEMMA RowLands ==
  ASSUME BillingTypes, NEW row \in BillingRows, Records(row)
  PROVE  /\ top' \in {top, row}
         /\ top' \in BillingRows
         /\ torn' \in BOOLEAN /\ overtaken' \in BOOLEAN /\ lost' \in BOOLEAN
         /\ billingFaults' \in Nat
         /\ ~ overtaken' /\ ~ lost' => ~ overtaken /\ ~ lost /\ top' = row /\ ~ (row.at < top.at)
<1>1. CASE AppendFails
  BY <1>1 DEF AppendFails, BillingFault, BillingTypes
<1>2. CASE torn /\ torn' = FALSE /\ lost' = TRUE /\ UNCHANGED <<top, overtaken, billingFaults>>
  BY <1>2 DEF BillingTypes
<1>3. CASE /\ ~ torn
           /\ top' = row
           /\ overtaken' = (overtaken \/ row.at < top.at)
           /\ UNCHANGED <<torn, lost, billingFaults>>
  <2>1. CASE row.at < top.at
    <3>1. overtaken' = TRUE BY <1>3, <2>1
    <3> QED BY <1>3, <3>1 DEF BillingTypes
  <2>2. CASE ~ (row.at < top.at)
    <3>1. overtaken' = overtaken BY <1>3, <2>2 DEF BillingTypes
    <3> QED BY <1>3, <2>2, <3>1 DEF BillingTypes
  <2> QED BY <2>1, <2>2
<1> QED BY <1>1, <1>2, <1>3 DEF Records, Appends

\* While Stripe stands still its records count as before.
LEMMA StripeStands ==
  ASSUME BillingInv, UNCHANGED <<stripe, changes>>
  PROVE  /\ StripeCounts'
         /\ \A row : Given(row) => Given(row)'
<1>1. StripeCounts' BY DEF BillingInv, StripeCounts
<1>2. \A row : Given(row) => Given(row)' BY GivenStays
<1> QED BY <1>1, <1>2

\* One lemma for every action. An event delivered is no newer than the processor.
LEMMA DeliveredKeeps == ASSUME BillingInv, NEW e, Delivered(e) PROVE BillingInv'
<1> USE DEF BillingInv
<1>1. /\ e \in mail /\ e.type \in EventTypes /\ e.row \in BillingRows /\ Given(e.row)
      /\ Records(e.row)
      /\ mail' = mail \ {e}
      /\ UNCHANGED <<stripe, changes, calls>>
  BY DEF Delivered, HANDLED_EVENTS, RowsAreGiven, BillingTypes
<1>2. /\ top' \in {top, e.row} /\ top' \in BillingRows
      /\ torn' \in BOOLEAN /\ overtaken' \in BOOLEAN /\ lost' \in BOOLEAN
      /\ billingFaults' \in Nat
      /\ ~ overtaken' /\ ~ lost'
           => ~ overtaken /\ ~ lost /\ top' = e.row /\ ~ (e.row.at < top.at)
  BY <1>1, RowLands
<1>3. BillingTypes' BY <1>1, <1>2 DEF BillingTypes
<1>4. StripeCounts' BY <1>1, StripeStands
<1>5. RowsAreGiven' BY <1>1, <1>2, StripeStands DEF RowsAreGiven, Given
<1>6. NewestIsOwed'
  <2>1. SUFFICES ASSUME changes > 0, ~ overtaken', ~ lost'
                 PROVE  \/ top'.at = changes
                        \/ \E f \in mail' : f.type \in Snapshots /\ f.row.at = changes
    BY <1>1 DEF NewestIsOwed
  <2>2. ~ overtaken /\ ~ lost /\ top' = e.row /\ ~ (e.row.at < top.at)
    BY <2>1, <1>2
  <2>3. e.row.at \in 0..changes BY <1>1 DEF Given, BillingTypes
  <2>4. CASE top.at = changes
    BY <2>2, <2>3, <2>4, <1>1 DEF BillingTypes
  <2>5. CASE \E f \in mail : f.type \in Snapshots /\ f.row.at = changes
    BY <2>2, <2>5, <1>1
  <2> QED BY <2>1, <2>2, <2>4, <2>5 DEF NewestIsOwed
<1> QED BY <1>3, <1>4, <1>5, <1>6

\* The ledger with row on top keeps owing what it owed: the row is the last
\* change or the ledger is overtaken.
LEMMA AgainKeeps == ASSUME BillingInv, NEW e, DeliveredAgainLater(e) PROVE BillingInv'
<1> USE DEF BillingInv
<1>1. /\ e \in mail /\ e.row \in BillingRows /\ Given(e.row)
      /\ top' = e.row
      /\ overtaken' = (overtaken \/ e.row.at < top.at)
      /\ billingFaults' = billingFaults + 1
      /\ UNCHANGED <<stripe, changes, mail, calls, torn, lost>>
  BY DEF DeliveredAgainLater, BillingFault, RowsAreGiven, BillingTypes
<1>2. overtaken' \in BOOLEAN /\ (~ overtaken' => ~ overtaken /\ ~ (e.row.at < top.at))
  <2>1. CASE e.row.at < top.at BY <1>1, <2>1
  <2>2. CASE ~ (e.row.at < top.at) BY <1>1, <2>2 DEF BillingTypes
  <2> QED BY <2>1, <2>2
<1>3. BillingTypes' BY <1>1, <1>2 DEF BillingTypes
<1>4. StripeCounts' BY <1>1, StripeStands
<1>5. RowsAreGiven' BY <1>1, StripeStands DEF RowsAreGiven, Given
<1>6. NewestIsOwed'
  <2>1. e.row.at \in 0..changes BY <1>1 DEF Given, BillingTypes
  <2> QED BY <1>1, <1>2, <2>1 DEF NewestIsOwed, BillingTypes
<1> QED BY <1>3, <1>4, <1>5, <1>6

\* Asking Stripe, its answer, and what fails on the way leave the ledger alone
\* and take nothing from the mail but events that only name a subscription.
LEMMA CallsKeep ==
  ASSUME BillingInv, UNCHANGED <<stripe, changes, top, overtaken>>,
         torn' \in BOOLEAN, lost' = lost, billingFaults' \in Nat,
         mail' \subseteq [type : EventTypes, row : BillingRows],
         \A e \in mail' : Given(e.row),
         \A e \in mail : e.type \in Snapshots => e \in mail',
         calls' \subseteq [type : EventTypes \cup {"confirm"}, row : BillingRows, got : BillingRows],
         \A c \in calls' : Given(c.row) /\ (c.got = NoRow \/ Given(c.got))
  PROVE  BillingInv'
<1> USE DEF BillingInv
<1>1. BillingTypes' BY DEF BillingTypes
<1>2. StripeCounts' BY StripeStands
<1>3. RowsAreGiven' BY DEF RowsAreGiven, Given
<1>4. NewestIsOwed' BY DEF NewestIsOwed
<1> QED BY <1>1, <1>2, <1>3, <1>4

\* No row is a value of the ledger.
LEMMA NoRowIsARow == NoRow \in BillingRows
BY DEF NoRow, BillingRows, Statuses

\* An event older than the row asks the processor.
LEMMA AsksKeep == ASSUME BillingInv, NEW e, Asks(e) PROVE BillingInv'
<1> USE DEF BillingInv
<1>1. /\ e \in mail /\ e.type \in EventTypes /\ e.row \in BillingRows /\ Given(e.row)
      /\ e.type \notin Snapshots
      /\ mail' = mail \ {e}
      /\ calls' = calls \cup {[type |-> e.type, row |-> e.row, got |-> NoRow]}
      /\ UNCHANGED <<stripe, changes, top, torn, overtaken, lost, billingFaults>>
  BY DEF Asks, RowsAreGiven, BillingTypes
<1>2. mail' \subseteq [type : EventTypes, row : BillingRows] /\ \A f \in mail' : Given(f.row)
  BY <1>1 DEF RowsAreGiven, BillingTypes
<1>3. \A f \in mail : f.type \in Snapshots => f \in mail'
  BY <1>1
<1>4. calls' \subseteq [type : EventTypes \cup {"confirm"}, row : BillingRows, got : BillingRows]
  BY <1>1, NoRowIsARow DEF BillingTypes
<1>5. \A c \in calls' : Given(c.row) /\ (c.got = NoRow \/ Given(c.got))
  BY <1>1 DEF RowsAreGiven
<1> QED BY <1>1, <1>2, <1>3, <1>4, <1>5, CallsKeep DEF BillingTypes

\* So does a return from the checkout.
LEMMA ReturnKeeps == ASSUME BillingInv, NEW s \in Subs, ReturnsFromCheckout(s) PROVE BillingInv'
<1> USE DEF BillingInv
<1>1. /\ stripe[s].sub = s /\ stripe[s] \in BillingRows
      /\ calls' = calls \cup {[type |-> "confirm", row |-> stripe[s], got |-> NoRow]}
      /\ UNCHANGED <<stripe, changes, mail, top, torn, overtaken, lost, billingFaults>>
  BY DEF ReturnsFromCheckout, BillingTypes
<1>2. Given(stripe[s])
  BY <1>1, SubsAssumption DEF Given, StripeCounts, NoRow, NoSub, BillingTypes, BillingRows
<1>3. calls' \subseteq [type : EventTypes \cup {"confirm"}, row : BillingRows, got : BillingRows]
  BY <1>1, NoRowIsARow DEF BillingTypes
<1>4. \A c \in calls' : Given(c.row) /\ (c.got = NoRow \/ Given(c.got))
  BY <1>1, <1>2 DEF RowsAreGiven
<1> QED BY <1>1, <1>3, <1>4, CallsKeep DEF BillingTypes, RowsAreGiven

\* An answer is as new as the processor was.
LEMMA AnswerKeeps == ASSUME BillingInv, NEW c, Answered(c) PROVE BillingInv'
<1> USE DEF BillingInv
<1>1. /\ c \in calls /\ Given(c.row) /\ c.row \in BillingRows
      /\ c = [type |-> c.type, row |-> c.row, got |-> c.got]
      /\ c.type \in EventTypes \cup {"confirm"}
      /\ calls' = (calls \ {c}) \cup {[c EXCEPT !.got = stripe[c.row.sub]]}
      /\ UNCHANGED <<stripe, changes, mail, top, torn, overtaken, lost, billingFaults>>
  BY DEF Answered, BillingTypes, RowsAreGiven
<1>2. stripe[c.row.sub] \in BillingRows /\ (stripe[c.row.sub] = NoRow \/ Given(stripe[c.row.sub]))
  <2>1. c.row.sub \in Subs BY <1>1 DEF Given
  <2> QED BY <2>1 DEF Given, StripeCounts, BillingTypes, BillingRows
<1>3. PICK d : d = [c EXCEPT !.got = stripe[c.row.sub]]
  OBVIOUS
<1>4. d = [type |-> c.type, row |-> c.row, got |-> stripe[c.row.sub]]
  BY <1>1, <1>3
<1>5. calls' \subseteq [type : EventTypes \cup {"confirm"}, row : BillingRows, got : BillingRows]
  BY <1>1, <1>2, <1>3, <1>4 DEF BillingTypes
<1>6. \A x \in calls' : Given(x.row) /\ (x.got = NoRow \/ Given(x.got))
  BY <1>1, <1>2, <1>3, <1>4 DEF RowsAreGiven
<1> QED BY <1>1, <1>5, <1>6, CallsKeep DEF BillingTypes, RowsAreGiven

\* What is recorded is not older than the row.
LEMMA RecordedKeeps == ASSUME BillingInv, NEW c, Recorded(c) PROVE BillingInv'
<1> USE DEF BillingInv
<1>1. /\ c \in calls /\ Given(c.got) /\ c.got \in BillingRows
      /\ Records(c.got)
      /\ calls' = calls \ {c}
      /\ UNCHANGED <<stripe, changes, mail>>
  BY DEF Recorded, BillingTypes, RowsAreGiven
<1>2. /\ top' \in {top, c.got} /\ top' \in BillingRows
      /\ torn' \in BOOLEAN /\ overtaken' \in BOOLEAN /\ lost' \in BOOLEAN
      /\ billingFaults' \in Nat
      /\ ~ overtaken' /\ ~ lost'
           => ~ overtaken /\ ~ lost /\ top' = c.got /\ ~ (c.got.at < top.at)
  BY <1>1, RowLands
<1>3. BillingTypes' BY <1>1, <1>2 DEF BillingTypes
<1>4. StripeCounts' BY <1>1, StripeStands
<1>5. RowsAreGiven' BY <1>1, <1>2, StripeStands DEF RowsAreGiven, Given
<1>6. NewestIsOwed'
  <2>1. c.got.at \in 0..changes BY <1>1 DEF Given, BillingTypes
  <2> QED BY <1>1, <1>2, <2>1 DEF NewestIsOwed, BillingTypes
<1> QED BY <1>3, <1>4, <1>5, <1>6

\* Calls that nobody answers are owed to Stripe again.
LEMMA OwedIsMail ==
  ASSUME BillingInv, NEW cs \in SUBSET calls
  PROVE  /\ Owed(cs) \subseteq [type : EventTypes, row : BillingRows]
         /\ \A e \in Owed(cs) : Given(e.row)
<1> SUFFICES ASSUME NEW e \in Owed(cs)
             PROVE  e \in [type : EventTypes, row : BillingRows] /\ Given(e.row)
  OBVIOUS
<1>1. PICK c \in cs : c.type # "confirm" /\ e = [type |-> c.type, row |-> c.row]
  BY DEF Owed, Event
<1>2. c.type \in EventTypes /\ c.row \in BillingRows /\ Given(c.row)
  BY <1>1 DEF BillingInv, BillingTypes, RowsAreGiven
<1> QED BY <1>1, <1>2

\* A failed retrieval writes nothing.
LEMMA FailureKeeps == ASSUME BillingInv, NEW c, RetrieveFails(c) PROVE BillingInv'
<1> USE DEF BillingInv
<1>1. /\ c \in calls
      /\ calls' = calls \ {c} /\ mail' = mail \cup Owed({c})
      /\ billingFaults' = billingFaults + 1
      /\ UNCHANGED <<stripe, changes, top, torn, overtaken, lost>>
  BY DEF RetrieveFails, BillingFault
<1>2. mail' \subseteq [type : EventTypes, row : BillingRows] /\ \A e \in mail' : Given(e.row)
  BY <1>1, OwedIsMail DEF BillingTypes, RowsAreGiven
<1>3. calls' \subseteq [type : EventTypes \cup {"confirm"}, row : BillingRows, got : BillingRows]
      /\ \A x \in calls' : Given(x.row) /\ (x.got = NoRow \/ Given(x.got))
  BY <1>1 DEF BillingTypes, RowsAreGiven
<1>4. torn' \in BOOLEAN /\ billingFaults' \in Nat
  BY <1>1 DEF BillingTypes
<1> QED BY <1>1, <1>2, <1>3, <1>4, CallsKeep

\* A crash loses the calls, not the rows.
LEMMA CrashKeeps == ASSUME BillingInv, BillingCrash PROVE BillingInv'
<1> USE DEF BillingInv
<1>1. /\ torn' \in {torn, TRUE}
      /\ calls' = {} /\ mail' = mail \cup Owed(calls)
      /\ billingFaults' = billingFaults + 1
      /\ UNCHANGED <<stripe, changes, top, overtaken, lost>>
  BY DEF BillingCrash, BillingFault
<1>2. mail' \subseteq [type : EventTypes, row : BillingRows] /\ \A e \in mail' : Given(e.row)
  BY <1>1, OwedIsMail DEF BillingTypes, RowsAreGiven
<1>3. torn' \in BOOLEAN
  <2>1. torn \in BOOLEAN BY DEF BillingTypes
  <2> QED BY <2>1, <1>1
<1>4. billingFaults' \in Nat
  BY <1>1 DEF BillingTypes
<1> QED BY <1>1, <1>2, <1>3, <1>4, CallsKeep

\* Each thing that happens to a subscription sends it as it is.
LEMMA StripeKeeps ==
  ASSUME BillingInv, NEW s \in Subs,
         Subscribes(s) \/ Renews(s) \/ CardFails(s) \/ DunningGivesUp(s) \/ Cancels(s)
  PROVE  BillingInv'
<1>1. stripe[s].period \in Nat /\ stripe[s].period + 1 \in Nat
  BY DEF BillingInv, BillingTypes, BillingRows
<1>2. PICK status \in Statuses, period \in Nat, types \in SUBSET EventTypes :
        types \cap Snapshots # {} /\ Moves(s, status, period, types)
  <2> USE DEF Statuses, EventTypes, Snapshots
  <2>1. CASE Subscribes(s)
    <3>1. Moves(s, "active", 1, {"checkout.session.completed", "customer.subscription.created"})
      BY <2>1 DEF Subscribes
    <3> QED BY <3>1
  <2>2. CASE Renews(s)
    <3>1. Moves(s, "active", stripe[s].period + 1,
                {"customer.subscription.updated", "invoice.payment_succeeded"})
      BY <2>2 DEF Renews
    <3> QED BY <3>1, <1>1
  <2>3. CASE CardFails(s) BY <2>3, <1>1 DEF CardFails
  <2>4. CASE DunningGivesUp(s) BY <2>4, <1>1 DEF DunningGivesUp
  <2>5. CASE Cancels(s) BY <2>5, <1>1 DEF Cancels
  <2> QED BY <2>1, <2>2, <2>3, <2>4, <2>5
<1> QED BY <1>2, MovesAreOwed

\* The invariant is inductive.
LEMMA BillingStep == BillingInv /\ [BillingNext]_billingVars => BillingInv'
<1> SUFFICES ASSUME BillingInv, [BillingNext]_billingVars PROVE BillingInv'
  OBVIOUS
<1>1. CASE UNCHANGED billingVars
  <2>1. UNCHANGED <<stripe, changes, mail, calls, top, torn, overtaken, lost, billingFaults>>
    BY <1>1 DEF billingVars
  <2> QED BY <2>1, CallsKeep DEF BillingInv, BillingTypes, RowsAreGiven
<1>2. CASE BillingNext
  BY <1>2, StripeKeeps, ReturnKeeps, DeliveredKeeps, AgainKeeps, AsksKeep, AnswerKeeps,
     RecordedKeeps, FailureKeeps, CrashKeeps DEF BillingNext
<1> QED BY <1>1, <1>2

\* No subscription.
LEMMA BillingStarts == BillingInit => BillingInv
<1> SUFFICES ASSUME BillingInit PROVE BillingInv
  OBVIOUS
<1>1. \A s \in Subs : stripe[s].at = 0 /\ stripe[s] = NoRow
  BY DEF BillingInit, NoRow
<1>2. BillingTypes
  BY NoRowIsARow DEF BillingInit, BillingTypes
<1> QED BY <1>1, <1>2 DEF BillingInit, BillingInv, StripeCounts, RowsAreGiven, NewestIsOwed

\* No row is ahead of the processor.
LEMMA NothingIsNewer == BillingInv => \A s \in Subs : stripe[s].at \in 0..changes
<1> SUFFICES ASSUME BillingInv, NEW s \in Subs PROVE stripe[s].at \in 0..changes
  OBVIOUS
<1>1. changes \in Nat BY DEF BillingInv, BillingTypes
<1>2. CASE stripe[s] = NoRow
  <2>1. stripe[s].at = 0 BY <1>2 DEF NoRow
  <2> QED BY <1>1, <2>1
<1>3. CASE stripe[s].at \in 1..changes
  BY <1>1, <1>3
<1> QED BY <1>2, <1>3 DEF BillingInv, StripeCounts

\* What is on top when nothing is owed is what Stripe last said, in every field.
LEMMA BillingKeeps == BillingInv => SettledAgrees
<1> SUFFICES ASSUME BillingInv, mail = {}, calls = {}, changes > 0, ~ overtaken, ~ lost
             PROVE  PeriodOf(top) = PeriodOf(stripe[Newest])
  BY DEF SettledAgrees
<1> USE DEF BillingInv
<1>1. top.at = changes /\ changes \in Nat
  BY DEF NewestIsOwed, BillingTypes
<1>2. Given(top)
  BY <1>1 DEF RowsAreGiven, NoRow
<1>3. \A s \in Subs : stripe[s].at \in 0..changes
  BY NothingIsNewer
<1>4. top.sub \in Subs /\ stripe[top.sub].at = changes /\ top = stripe[top.sub]
  BY <1>1, <1>2, <1>3 DEF Given
<1>5. \A s \in Subs : stripe[s].at = changes => s = top.sub
  BY <1>1, <1>4 DEF StripeCounts
<1>6. Newest = top.sub
  BY <1>4, <1>5 DEF Newest
<1> QED BY <1>4, <1>6

---------------------------------------------------------------------------
(* The timeline of a plan.                                                 *)

\* The larger of two numbers, and the smaller.
LEMMA OfTwo ==
  ASSUME NEW x \in Int, NEW y \in Int
  PROVE  /\ Max({x, y}) = IF x >= y THEN x ELSE y
         /\ Min({x, y}) = IF x <= y THEN x ELSE y
<1>1. Max({x, y}) = IF x >= y THEN x ELSE y
  <2> DEFINE m == IF x >= y THEN x ELSE y
  <2>1. m \in {x, y} /\ \A z \in {x, y} : m >= z
    OBVIOUS
  <2>2. \A w \in {x, y} : (\A z \in {x, y} : w >= z) => w = m
    OBVIOUS
  <2>3. Max({x, y}) \in {x, y} /\ \A z \in {x, y} : Max({x, y}) >= z
    BY <2>1, Zenon DEF Max
  <2> HIDE DEF m
  <2> QED BY <2>2, <2>3
<1>2. Min({x, y}) = IF x <= y THEN x ELSE y
  <2> DEFINE m == IF x <= y THEN x ELSE y
  <2>1. m \in {x, y} /\ \A z \in {x, y} : m <= z
    OBVIOUS
  <2>2. \A w \in {x, y} : (\A z \in {x, y} : w <= z) => w = m
    OBVIOUS
  <2>3. Min({x, y}) \in {x, y} /\ \A z \in {x, y} : Min({x, y}) <= z
    BY <2>1, Zenon DEF Min
  <2> HIDE DEF m
  <2> QED BY <2>2, <2>3
<1> QED BY <1>1, <1>2

\* What holds at the start, and from one round to the next, holds at every one.
LEMMA Upward ==
  ASSUME NEW N \in Nat, NEW G, 0 \in G, \A n \in 1..N : n - 1 \in G => n \in G
  PROVE  0..N \subseteq G
<1> DEFINE Good == {m \in 1..(N + 1) : \A k \in 0..(m - 1) : k \in G}
<1>1. 1 \in Good
  OBVIOUS
<1>2. PICK m \in Good : \A k \in Good : k <= m
  <2>1. Good \subseteq 1..(N + 1) /\ Good # {} /\ N + 1 \in Nat
    <3>1. Good \subseteq 1..(N + 1)
      OBVIOUS
    <3>2. Good # {}
      BY <1>1
    <3> QED BY <3>1, <3>2
  <2> HIDE DEF Good
  <2> QED BY <2>1, HasHighest
<1>3. ASSUME m # N + 1
      PROVE  FALSE
  <2>1. m \in 1..N
    BY <1>3
  <2>2. m - 1 \in G
    BY <1>2, <2>1
  <2>3. m \in G
    BY <2>1, <2>2
  <2>4. \A k \in 0..m : k \in G
    BY <1>2, <2>1, <2>3
  <2>5. m + 1 \in Good
    BY <2>1, <2>4
  <2> QED BY <1>2, <2>1, <2>5
<1> QED BY <1>2, <1>3

\* f is what the record was after each of n rounds.
IteratesTo(f, n, S, base, step) ==
  /\ f \in [0..n -> S] /\ f[0] = base
  /\ \A i \in 1..n : f[i] = step[<<f[i - 1], i>>]

\* There is such a function.
LEMMA Iterates ==
  ASSUME NEW S, NEW base \in S, NEW N \in Nat, NEW step \in [S \X (1..N) -> S]
  PROVE  \E f : IteratesTo(f, N, S, base, step)
<1> DEFINE Up(m) == \E f : IteratesTo(f, m, S, base, step)
           G == {m \in 0..N : Up(m)}
<1>1. 0 \in G
  <2>1. IteratesTo([i \in 0..0 |-> base], 0, S, base, step)
    BY DEF IteratesTo
  <2> QED BY <2>1
<1>2. ASSUME NEW m \in 1..N, m - 1 \in G
      PROVE  m \in G
  <2>1. PICK f : IteratesTo(f, m - 1, S, base, step)
    BY <1>2
  <2> DEFINE g == [i \in 0..m |-> IF i = m THEN step[<<f[m - 1], m>>] ELSE f[i]]
  <2>2. f[m - 1] \in S
    BY <2>1 DEF IteratesTo
  <2>3. step[<<f[m - 1], m>>] \in S
    BY <2>2
  <2>4. ASSUME NEW n \in 1..m
        PROVE  g[n] = step[<<g[n - 1], n>>]
    <3>1. g[n - 1] = f[n - 1]
      OBVIOUS
    <3>2. CASE n = m
      <4>1. g[n] = step[<<f[m - 1], m>>]
        BY <3>2
      <4>2. <<g[n - 1], n>> = <<f[m - 1], m>>
        BY <3>1, <3>2
      <4> HIDE DEF g
      <4> QED BY <4>1, <4>2
    <3>3. CASE n # m
      <4>1. n \in 1..(m - 1) /\ g[n] = f[n]
        BY <3>3
      <4> HIDE DEF g
      <4> QED BY <3>1, <4>1, <2>1 DEF IteratesTo
    <3> QED BY <3>2, <3>3
  <2>5. g \in [0..m -> S]
    BY <2>1, <2>3 DEF IteratesTo
  <2>6. g[0] = base
    BY <2>1 DEF IteratesTo
  <2>7. IteratesTo(g, m, S, base, step)
    <3> HIDE DEF g
    <3> QED BY <2>4, <2>5, <2>6 DEF IteratesTo
  <2> QED BY <2>7
<1>3. 0..N \subseteq G
  <2> HIDE DEF G
  <2> QED BY <1>1, <1>2, Upward
<1> QED BY <1>3

\* The least and the greatest day of a set.
LEMMA EndsAre ==
  ASSUME NEW n \in Nat, NEW S, S \subseteq 1..n, S # {}
  PROVE  /\ Min(S) \in S /\ \A x \in S : Min(S) <= x
         /\ Max(S) \in S /\ \A x \in S : x <= Max(S)
  BY MaxIsHighest, MinIsLowest

\* Items, rounds and dates are what they are taken for.
LEMMA DatesFit ==
  ASSUME RunwayTypeOK
  PROVE  /\ Len(RoundOf) \in Nat \ {0} /\ Items = 1..Len(RoundOf) /\ IsFiniteSet(Items)
         /\ \A i \in Items : RoundOf[i] \in PlanRounds
         /\ thisDay \in 1..LastRunDay /\ LastRunDay \in Nat
         /\ plan.loop \in 0..LastRunDay
         /\ \A r \in PlanRounds : plan.dated[r] \in 0..LastRunDay /\ specDeadline(r) \in 0..LastRunDay
         /\ \A i \in Items : deadlineOf(i) \in 0..LastRunDay
         /\ upcoming \subseteq thisDay..LastRunDay
         /\ remaining \subseteq Items /\ future \subseteq remaining
<1>1. LastRunDay \in Nat \ {0} /\ thisDay \in 1..LastRunDay
  BY RunwayAssumption DEF RunwayTypeOK, RunDays
<1>2. Len(RoundOf) \in Nat \ {0} /\ Items = 1..Len(RoundOf)
  <2>1. RoundOf \in Seq(Range(RoundOf)) /\ RoundOf # <<>>
    BY RunwayAssumption
  <2> QED BY <2>1 DEF Items
<1>3. \A i \in Items : RoundOf[i] \in PlanRounds
  BY DEF Items, PlanRounds, Range
<1>4. plan.loop \in 0..LastRunDay /\ \A r \in PlanRounds : plan.dated[r] \in 0..LastRunDay
  BY <1>1 DEF RunwayTypeOK, RunDays, NoDate
<1>5. \A r \in PlanRounds : specDeadline(r) \in 0..LastRunDay
  BY <1>4 DEF specDeadline
<1>6. \A i \in Items : deadlineOf(i) \in 0..LastRunDay
  BY <1>3, <1>5 DEF deadlineOf
<1>7. upcoming \subseteq thisDay..LastRunDay
  BY DEF upcoming
<1>8. IsFiniteSet(Items)
  BY <1>2, FS_Interval
<1>9. remaining \subseteq Items /\ future \subseteq remaining
  BY DEF remaining, future
<1> QED BY <1>1, <1>2, <1>3, <1>4, <1>5, <1>6, <1>7, <1>8, <1>9

\* Of a set of items there is a first one; the page has one way to be the first.
LEMMA FirstItem ==
  ASSUME RunwayTypeOK, NEW S, S \subseteq Items, S # {}
  PROVE  Min(S) \in S /\ \A i \in S : Min(S) <= i
BY DatesFit, EndsAre

\* What is shown for today is the most startable of what remains, or nothing.
LEMMA TodayFits ==
  ASSUME RunwayTypeOK
  PROVE  /\ remaining = {} => todayItem = NoItem
         /\ remaining # {} =>
              /\ todayItem \in remaining
              /\ \A j \in remaining :
                   \/ Urgency[queued[todayItem]] < Urgency[queued[j]]
                   \/ Urgency[queued[todayItem]] = Urgency[queued[j]] /\ todayItem <= j
<1>1. ASSUME remaining # {}
      PROVE  \E i \in remaining : \A j \in remaining :
               \/ Urgency[queued[i]] < Urgency[queued[j]]
               \/ Urgency[queued[i]] = Urgency[queued[j]] /\ i <= j
  <2> DEFINE U(i) == Urgency[queued[i]]
             V == {U(i) : i \in remaining}
  <2>1. \A i \in remaining : U(i) \in 1..4 /\ i \in Nat
    BY DatesFit DEF remaining, Live, Urgency
  <2>2. PICK u \in V : \A v \in V : u <= v
    <3>1. V \subseteq 1..4 /\ V # {} /\ 4 \in Nat
      BY <1>1, <2>1
    <3> HIDE DEF V
    <3> QED BY <3>1, HasLowest
  <2> DEFINE A == {i \in remaining : U(i) = u}
  <2>3. A \subseteq Items /\ A # {}
    BY <2>2, DatesFit
  <2>4. PICK i \in A : \A j \in A : i <= j
    <3> HIDE DEF A
    <3> QED BY <2>3, FirstItem
  <2>5. ASSUME NEW j \in remaining
        PROVE  U(i) < U(j) \/ (U(i) = U(j) /\ i <= j)
    <3>1. U(i) = u /\ U(j) \in V /\ U(i) \in 1..4 /\ U(j) \in 1..4 /\ u <= U(j)
      BY <2>1, <2>2, <2>4
    <3>2. CASE U(j) = u
      <4>1. j \in A
        BY <3>2
      <4>2. i <= j /\ U(i) = U(j)
        BY <3>1, <3>2, <4>1, <2>4
      <4> HIDE DEF U
      <4> QED BY <4>2
    <3>3. CASE U(j) # u
      <4> HIDE DEF U
      <4> QED BY <3>1, <3>3
    <3> QED BY <3>2, <3>3
  <2> QED BY <2>4, <2>5
<1>2. CASE remaining = {}
  BY <1>2 DEF todayItem
<1>3. CASE remaining # {}
  <2> DEFINE First(i) == \A j \in remaining :
               \/ Urgency[queued[i]] < Urgency[queued[j]]
               \/ Urgency[queued[i]] = Urgency[queued[j]] /\ i <= j
  <2>1. todayItem = CHOOSE i \in remaining : First(i)
    BY <1>3 DEF todayItem
  <2>2. \E i \in remaining : First(i)
    BY <1>1, <1>3
  <2> HIDE DEF First
  <2>3. todayItem \in remaining /\ First(todayItem)
    BY <2>1, <2>2, Zenon
  <2> USE DEF First
  <2> QED BY <1>3, <2>3
<1> QED BY <1>2, <1>3

\* What the page offers to start is what it shows for today.
LEMMA NextIsToday ==
  ASSUME RunwayTypeOK, nextUp # NoItem
  PROVE  nextUp = todayItem \/ queued[todayItem] \in {"generating", "failed"}
<1> DEFINE open == {i \in remaining : queued[i] \in {"ready", "pending"}}
           ready == {i \in open : queued[i] = "ready"}
<1>1. nextUp = IF ready # {} THEN Min(ready) ELSE IF open # {} THEN Min(open) ELSE NoItem
  BY DEF nextUp
<1>2. ready \subseteq Items /\ open \subseteq Items
  BY DatesFit
<1>3. open # {}
  BY <1>1
<1>4. remaining # {}
  BY <1>3
<1> DEFINE First(i, j) == \/ Urgency[queued[i]] < Urgency[queued[j]]
                          \/ Urgency[queued[i]] = Urgency[queued[j]] /\ i <= j
<1>5. todayItem \in remaining /\ \A j \in remaining : First(todayItem, j)
  BY <1>4, TodayFits
<1>6. \A i \in remaining : queued[i] \in Live /\ i \in Nat
  BY DatesFit DEF remaining
<1>7. CASE ready # {}
  <2>1. nextUp \in ready /\ \A i \in ready : nextUp <= i
    BY <1>1, <1>2, <1>7, FirstItem
  <2>2. First(todayItem, nextUp) /\ queued[nextUp] = "ready" /\ queued[todayItem] \in Live
    BY <1>5, <1>6, <2>1
  <2>3. queued[todayItem] = "ready" /\ todayItem <= nextUp
    BY <2>2 DEF Urgency, Live
  <2>4. nextUp <= todayItem
    BY <1>5, <2>1, <2>3
  <2> QED BY <1>5, <1>6, <2>1, <2>3, <2>4
<1>8. CASE ready = {}
  <2>1. nextUp \in open /\ \A i \in open : nextUp <= i
    BY <1>1, <1>2, <1>3, <1>8, FirstItem
  <2>2. CASE queued[todayItem] \in {"generating", "failed"}
    BY <2>2
  <2>3. CASE queued[todayItem] \notin {"generating", "failed"}
    <3>1. queued[todayItem] = "pending" /\ todayItem \in open
      BY <1>5, <1>6, <1>8, <2>3 DEF Live
    <3>2. queued[nextUp] = "pending"
      BY <1>8, <2>1
    <3>3. First(todayItem, nextUp)
      BY <1>5, <2>1
    <3>4. todayItem <= nextUp
      BY <3>1, <3>2, <3>3 DEF Urgency
    <3> QED BY <1>5, <1>6, <2>1, <3>1, <3>4
  <2> QED BY <2>2, <2>3
<1> QED BY <1>7, <1>8

\* The items of a segment have the places from 1 on, one each.
LEMMA Places ==
  ASSUME RunwayTypeOK, NEW S, S \subseteq Items
  PROVE  /\ Cardinality(S) \in Nat
         /\ \A i \in S : PlaceIn(S, i) \in 1..Cardinality(S) /\ ItemAt(S, PlaceIn(S, i)) = i
         /\ \A k \in 1..Cardinality(S) : ItemAt(S, k) \in S /\ PlaceIn(S, ItemAt(S, k)) = k
<1> DEFINE n == Cardinality(S)
           Upto(i) == {j \in S : Key(j) <= Key(i)}
<1>1. \A i \in S : i \in 1..Len(RoundOf) /\ Key(i) \in Nat
  BY DatesFit DEF Key
<1>2. \A i, j \in S : Key(i) = Key(j) => i = j
  BY <1>1, DatesFit DEF Key
<1>3. IsFiniteSet(S) /\ n \in Nat
  BY DatesFit, FS_Subset, FS_CardinalityType
<1>4. ASSUME NEW i \in S
      PROVE  IsFiniteSet(Upto(i)) /\ PlaceIn(S, i) = Cardinality(Upto(i)) /\ PlaceIn(S, i) \in 1..n
  <2>1. Upto(i) \subseteq S /\ i \in Upto(i)
    BY <1>1
  <2>2. PlaceIn(S, i) = Cardinality(Upto(i))
    BY DEF PlaceIn
  <2> HIDE DEF Upto
  <2>3. IsFiniteSet(Upto(i)) /\ Cardinality(Upto(i)) <= n /\ Cardinality(Upto(i)) \in Nat
    BY <1>3, <2>1, FS_Subset, FS_CardinalityType
  <2>4. Cardinality(Upto(i)) # 0
    BY <2>1, <2>3, FS_EmptySet
  <2> HIDE DEF n
  <2> QED BY <1>3, <2>2, <2>3, <2>4
<1>5. ASSUME NEW i \in S, NEW j \in S, Key(i) < Key(j)
      PROVE  PlaceIn(S, i) # PlaceIn(S, j)
  <2>1. Upto(i) \subseteq Upto(j) /\ j \in Upto(j) /\ j \notin Upto(i)
    BY <1>1, <1>5
  <2> HIDE DEF Upto
  <2>2. IsFiniteSet(Upto(j))
    BY <1>4
  <2>3. Cardinality(Upto(j)) # Cardinality(Upto(i))
    BY <2>1, <2>2, FS_Subset
  <2> QED BY <1>4, <2>3
<1>6. \A i, j \in S : PlaceIn(S, i) = PlaceIn(S, j) => i = j
  <2> SUFFICES ASSUME NEW i \in S, NEW j \in S, i # j
               PROVE  PlaceIn(S, i) # PlaceIn(S, j)
    OBVIOUS
  <2>1. Key(i) < Key(j) \/ Key(j) < Key(i)
    BY <1>1, <1>2
  <2> QED BY <1>5, <2>1
<1> DEFINE f == [i \in S |-> PlaceIn(S, i)]
<1>7. f \in Injection(S, 1..n)
  <2>1. f \in [S -> 1..n] /\ \A i, j \in S : f[i] = f[j] => i = j
    BY <1>4, <1>6
  <2> QED BY <2>1 DEF Injection, IsInjective
<1>8. IsFiniteSet(1..n) /\ Cardinality(1..n) = n
  BY <1>3, FS_Interval
<1>9. f \in Surjection(S, 1..n)
  BY <1>3, <1>7, <1>8, FS_Injection
<1>10. \A k \in 1..n : \E i \in S : PlaceIn(S, i) = k
  BY <1>9 DEF Surjection
<1>11. ASSUME NEW k \in 1..n
       PROVE  ItemAt(S, k) \in S /\ PlaceIn(S, ItemAt(S, k)) = k
  BY <1>10, Zenon DEF ItemAt
<1>12. ASSUME NEW i \in S
       PROVE  PlaceIn(S, i) \in 1..n /\ ItemAt(S, PlaceIn(S, i)) = i
  <2>1. PlaceIn(S, i) \in 1..n
    BY <1>4
  <2>2. ItemAt(S, PlaceIn(S, i)) \in S /\ PlaceIn(S, ItemAt(S, PlaceIn(S, i))) = PlaceIn(S, i)
    BY <1>11, <2>1
  <2> QED BY <1>6, <2>1, <2>2
<1> QED BY <1>3, <1>11, <1>12

OffsetDays == Nat \ {0}
Dealings ==
  [schedule : UNION {[D -> Items] : D \in SUBSET OffsetDays}, interviews : SUBSET OffsetDays,
   cursor : OffsetDays]

Taken(acc) == DOMAIN acc.schedule \cup acc.interviews

\* a is acc with the item on day o, which was free.
ClaimedSlots(a, acc, o, item) ==
  /\ o \notin Taken(acc)
  /\ DOMAIN a.schedule = DOMAIN acc.schedule \cup {o}
  /\ a.schedule[o] = item
  /\ \A p \in DOMAIN acc.schedule : a.schedule[p] = acc.schedule[p]

\* claim takes the day that is wanted when it is free, a free one up to the end
\* otherwise, and none when there is none.
LEMMA ClaimIs ==
  ASSUME NEW acc \in Dealings, NEW want \in OffsetDays, NEW end \in OffsetDays, NEW item \in Items,
         NEW a, a = claim(acc, want, end, item)
  PROVE  /\ a \in Dealings /\ a.interviews = acc.interviews /\ a.cursor = acc.cursor
         /\ \/ a = acc /\ ~ (want <= end /\ want \notin Taken(acc))
            \/ \E o \in OffsetDays :
                 /\ ClaimedSlots(a, acc, o, item)
                 /\ o <= end /\ (o >= want \/ o = end)
                 /\ want <= end /\ want \notin Taken(acc) => o = want
<1> DEFINE from == Min({want, end})
           free == {o \in from..end : o \notin Taken(acc)}
           o == Min(free)
           schedule == [p \in DOMAIN acc.schedule \cup {o} |-> IF p = o THEN item ELSE acc.schedule[p]]
<1>1. from \in OffsetDays /\ from = IF want <= end THEN want ELSE end
  BY OfTwo DEF OffsetDays
<1>2. a = IF free = {} THEN acc ELSE [acc EXCEPT !.schedule = schedule]
  BY DEF claim, Taken
<1>3. free \subseteq 1..end /\ end \in Nat
  BY <1>1 DEF OffsetDays
<1>4. PICK D \in SUBSET OffsetDays : acc.schedule \in [D -> Items]
  BY DEF Dealings
<1>5. CASE free = {}
  <2>1. a = acc
    BY <1>2, <1>5
  <2>2. want <= end => want \in Taken(acc)
    BY <1>1, <1>5 DEF OffsetDays
  <2> QED BY <2>1, <2>2
<1>6. CASE free # {}
  <2>1. o \in free /\ \A p \in free : o <= p
    <3> HIDE DEF free
    <3> QED BY <1>3, <1>6, EndsAre
  <2>2. o \in OffsetDays /\ from <= o /\ o <= end /\ o \notin Taken(acc)
    BY <1>1, <1>3, <2>1 DEF OffsetDays
  <2>3. want <= end /\ want \notin Taken(acc) => o = want
    <3> SUFFICES ASSUME want <= end, want \notin Taken(acc)
                 PROVE  o = want
      OBVIOUS
    <3>1. want \in free
      BY <1>1 DEF OffsetDays
    <3> HIDE DEF free
    <3> QED BY <1>1, <2>1, <2>2, <3>1 DEF OffsetDays
  <2> HIDE DEF o, free, from
  <2>4. DOMAIN acc.schedule = D /\ schedule \in [D \cup {o} -> Items] /\ D \cup {o} \in SUBSET OffsetDays
    BY <1>4, <2>2
  <2> HIDE DEF schedule
  <2>5. a = [acc EXCEPT !.schedule = schedule]
    BY <1>2, <1>6
  <2>6. /\ a \in Dealings /\ a.schedule = schedule /\ a.interviews = acc.interviews
        /\ a.cursor = acc.cursor
    BY <2>4, <2>5 DEF Dealings
  <2>7. ClaimedSlots(a, acc, o, item)
    BY <2>2, <2>4, <2>6 DEF ClaimedSlots, schedule, Taken
  <2>8. o >= want \/ o = end
    BY <1>1, <2>2 DEF OffsetDays
  <2> QED BY <2>2, <2>3, <2>6, <2>7, <2>8
<1> QED BY <1>5, <1>6

\* Every item of the segment has its own day, that many steps on.
Stepwise(acc, seg, from, step, end) ==
  \A k \in 1..Cardinality(seg) : from + k * step <= end /\ from + k * step \notin Taken(acc)

\* out is acc with the first k items of the segment put on days of their own.
PutIs(out, acc, seg, from, step, end, k) ==
  /\ out \in Dealings /\ out.interviews = acc.interviews /\ out.cursor = acc.cursor
  /\ DOMAIN acc.schedule \subseteq DOMAIN out.schedule
  /\ \A o \in DOMAIN acc.schedule : out.schedule[o] = acc.schedule[o]
  /\ \A o \in DOMAIN out.schedule \ DOMAIN acc.schedule :
       /\ o <= end /\ (o > from \/ o = end) /\ o \notin acc.interviews
       /\ out.schedule[o] \in seg /\ PlaceIn(seg, out.schedule[o]) <= k
  /\ \A o, p \in DOMAIN out.schedule \ DOMAIN acc.schedule :
       out.schedule[o] = out.schedule[p] => o = p
  /\ Stepwise(acc, seg, from, step, end) =>
       /\ \A j \in 1..k : /\ from + j * step \in DOMAIN out.schedule
                          /\ out.schedule[from + j * step] = ItemAt(seg, j)
       /\ \A o \in DOMAIN out.schedule \ DOMAIN acc.schedule : \E j \in 1..k : o = from + j * step

\* A later turn is further on.
LEMMA StepsApart ==
  ASSUME NEW step \in Nat \ {0}, NEW j \in Nat, NEW k \in Nat, j < k
  PROVE  j * step < k * step /\ j * step \in Nat /\ k * step \in Nat
<1>1. k - j \in Nat /\ k - j >= 1
  OBVIOUS
<1>2. j * step \in Nat /\ k * step \in Nat /\ (k - j) * step >= 1
  BY <1>1
<1>3. k * step = j * step + (k - j) * step
  OBVIOUS
<1> QED BY <1>2, <1>3

\* One turn of the loop.
LEMMA PutStep ==
  ASSUME RunwayTypeOK, NEW acc \in Dealings, NEW seg, seg \subseteq Items, NEW from \in Nat,
         NEW step \in Nat \ {0}, NEW end \in OffsetDays, NEW k \in 1..Cardinality(seg),
         NEW b, PutIs(b, acc, seg, from, step, end, k - 1),
         NEW a, a = claim(b, from + k * step, end, ItemAt(seg, k))
  PROVE  PutIs(a, acc, seg, from, step, end, k)
<1> DEFINE want == from + k * step
           item == ItemAt(seg, k)
<1>1. Cardinality(seg) \in Nat /\ item \in seg /\ item \in Items /\ PlaceIn(seg, item) = k
  BY Places
<1>2. k \in Nat \ {0} /\ k - 1 \in Nat /\ k - 1 < k /\ k \in 0..Cardinality(seg)
  BY <1>1
<1>3. want \in OffsetDays /\ want > from
  <2>1. 0 * step < k * step /\ k * step \in Nat
    BY <1>2, StepsApart
  <2>2. 0 * step = 0
    OBVIOUS
  <2> QED BY <2>1, <2>2 DEF OffsetDays
<1>4. b \in Dealings /\ b.interviews = acc.interviews /\ b.cursor = acc.cursor
  BY DEF PutIs
<1> HIDE DEF want, item
<1>5. a = claim(b, want, end, item)
  BY DEF want, item
<1>6. /\ a \in Dealings /\ a.interviews = b.interviews /\ a.cursor = b.cursor
      /\ \/ a = b /\ ~ (want <= end /\ want \notin Taken(b))
         \/ \E o \in OffsetDays :
              /\ ClaimedSlots(a, b, o, item)
              /\ o <= end /\ (o >= want \/ o = end)
              /\ want <= end /\ want \notin Taken(b) => o = want
  BY <1>1, <1>3, <1>4, <1>5, ClaimIs
<1>7. ASSUME Stepwise(acc, seg, from, step, end)
      PROVE  want <= end /\ want \notin Taken(b)
  <2>1. want <= end /\ want \notin Taken(acc)
    BY <1>7 DEF Stepwise, want
  <2>2. ASSUME want \in DOMAIN b.schedule
        PROVE  FALSE
    <3>1. want \in DOMAIN b.schedule \ DOMAIN acc.schedule
      BY <2>1, <2>2 DEF Taken
    <3>2. PICK j \in 1..(k - 1) : want = from + j * step
      BY <1>7, <3>1 DEF PutIs
    <3>3. j * step < k * step /\ j * step \in Nat /\ k * step \in Nat
      BY <3>2, <1>2, StepsApart
    <3> QED BY <3>2, <3>3 DEF want
  <2> QED BY <1>4, <2>1, <2>2 DEF Taken
<1>8. CASE a = b /\ ~ (want <= end /\ want \notin Taken(b))
  <2>1. ~ Stepwise(acc, seg, from, step, end)
    BY <1>7, <1>8
  <2>2. \A i \in seg : PlaceIn(seg, i) <= k - 1 => PlaceIn(seg, i) <= k
    BY <1>2, Places
  <2> QED BY <1>8, <2>1, <2>2 DEF PutIs
<1>9. ASSUME NEW o \in OffsetDays, ClaimedSlots(a, b, o, item), o <= end, o >= want \/ o = end,
             want <= end /\ want \notin Taken(b) => o = want
      PROVE  PutIs(a, acc, seg, from, step, end, k)
  <2> DEFINE New(x) == DOMAIN x.schedule \ DOMAIN acc.schedule
  <2>1. /\ o \notin DOMAIN b.schedule /\ o \notin acc.interviews
        /\ DOMAIN a.schedule = DOMAIN b.schedule \cup {o} /\ a.schedule[o] = item
        /\ \A p \in DOMAIN b.schedule : a.schedule[p] = b.schedule[p]
    BY <1>4, <1>9 DEF ClaimedSlots, Taken
  <2>2. DOMAIN acc.schedule \subseteq DOMAIN b.schedule
    BY DEF PutIs
  <2>3. New(a) = New(b) \cup {o}
    BY <2>1, <2>2
  <2>4. /\ DOMAIN acc.schedule \subseteq DOMAIN a.schedule
        /\ \A p \in DOMAIN acc.schedule : a.schedule[p] = acc.schedule[p]
    BY <2>1, <2>2 DEF PutIs
  <2>5. \A p \in New(b) : /\ p <= end /\ (p > from \/ p = end) /\ p \notin acc.interviews
                          /\ a.schedule[p] = b.schedule[p]
                          /\ a.schedule[p] \in seg /\ PlaceIn(seg, a.schedule[p]) <= k - 1
    BY <2>1 DEF PutIs
  <2>6. \A p \in New(a) : /\ p <= end /\ (p > from \/ p = end) /\ p \notin acc.interviews
                          /\ a.schedule[p] \in seg /\ PlaceIn(seg, a.schedule[p]) <= k
    <3>1. o > from \/ o = end
      BY <1>3, <1>9 DEF OffsetDays
    <3>2. \A i \in seg : PlaceIn(seg, i) <= k - 1 => PlaceIn(seg, i) <= k
      BY <1>2, Places
    <3>3. a.schedule[o] \in seg /\ PlaceIn(seg, a.schedule[o]) <= k
      BY <1>1, <1>2, <2>1
    <3> HIDE DEF New
    <3> QED BY <1>9, <2>1, <2>3, <2>5, <3>1, <3>2, <3>3
  <2>7. \A p \in New(b) : a.schedule[p] # item
    <3> HIDE DEF New
    <3> QED BY <1>1, <1>2, <2>5
  <2>8. \A p, q \in New(b) : a.schedule[p] = a.schedule[q] => p = q
    BY <2>1 DEF PutIs
  <2>9. \A p, q \in New(a) : a.schedule[p] = a.schedule[q] => p = q
    <3> HIDE DEF New
    <3> QED BY <2>1, <2>3, <2>7, <2>8
  <2>10. ASSUME Stepwise(acc, seg, from, step, end)
         PROVE  /\ \A j \in 1..k : /\ from + j * step \in DOMAIN a.schedule
                                   /\ a.schedule[from + j * step] = ItemAt(seg, j)
                /\ \A p \in New(a) : \E j \in 1..k : p = from + j * step
    <3>1. o = from + k * step
      BY <1>7, <1>9, <2>10 DEF want
    <3>2. ASSUME NEW j \in 1..k
          PROVE  /\ from + j * step \in DOMAIN a.schedule
                 /\ a.schedule[from + j * step] = ItemAt(seg, j)
      <4>1. CASE j = k
        BY <2>1, <3>1, <4>1 DEF item
      <4>2. CASE j # k
        <5>1. j \in 1..(k - 1)
          BY <1>2, <4>2
        <5>2. /\ from + j * step \in DOMAIN b.schedule
              /\ b.schedule[from + j * step] = ItemAt(seg, j)
          BY <2>10, <5>1 DEF PutIs
        <5> QED BY <2>1, <5>2
      <4> QED BY <4>1, <4>2
    <3>3. ASSUME NEW p \in New(a)
          PROVE  \E j \in 1..k : p = from + j * step
      <4>1. CASE p = o
        BY <1>2, <3>1, <4>1
      <4>2. CASE p # o
        <5>1. p \in New(b)
          BY <2>3, <4>2
        <5>2. PICK j \in 1..(k - 1) : p = from + j * step
          BY <2>10, <5>1 DEF PutIs
        <5> QED BY <1>2, <5>2
      <4> QED BY <4>1, <4>2
    <3> QED BY <3>2, <3>3
  <2> QED BY <1>4, <1>6, <2>4, <2>6, <2>9, <2>10 DEF PutIs
<1> QED BY <1>6, <1>8, <1>9

\* The whole loop.
LEMMA PutOutIs ==
  ASSUME RunwayTypeOK, NEW acc \in Dealings, NEW seg, seg \subseteq Items, NEW from \in Nat,
         NEW step \in Nat \ {0}, NEW end \in OffsetDays
  PROVE  PutIs(PutOut(acc, seg, from, step, end), acc, seg, from, step, end, Cardinality(seg))
<1> DEFINE n == Cardinality(seg)
           turn(b, k) == claim(b, from + k * step, end, ItemAt(seg, k))
           turns == [p \in Dealings \X (1..n) |-> turn(p[1], p[2])]
           body(g) == [k \in 0..n |-> IF k = 0 THEN acc ELSE turn(g[k - 1], k)]
           out == CHOOSE g : g = body(g)
<1>1. n \in Nat /\ \A k \in 1..n : ItemAt(seg, k) \in Items
  BY Places
<1>2. ASSUME NEW b \in Dealings, NEW k \in 1..n
      PROVE  turn(b, k) \in Dealings
  <2>1. from + k * step \in OffsetDays
    <3>1. k \in Nat /\ 0 < k
      BY <1>1
    <3>2. 0 * step < k * step /\ k * step \in Nat
      BY <3>1, StepsApart
    <3>3. 0 * step = 0
      OBVIOUS
    <3> QED BY <3>2, <3>3 DEF OffsetDays
  <2> QED BY <1>1, <2>1, ClaimIs
<1>3. PutOut(acc, seg, from, step, end) = out[n]
  BY DEF PutOut
<1>4. PutIs(acc, acc, seg, from, step, end, 0)
  BY DEF PutIs
<1>5. ASSUME NEW k \in 1..n, NEW b, PutIs(b, acc, seg, from, step, end, k - 1)
      PROVE  PutIs(turn(b, k), acc, seg, from, step, end, k)
  BY <1>5, PutStep
<1> HIDE DEF turn, n
<1>6. turns \in [Dealings \X (1..n) -> Dealings]
  BY <1>2
<1>7. PICK f : IteratesTo(f, n, Dealings, acc, turns)
  <2> HIDE DEF turns
  <2> QED BY <1>1, <1>6, Iterates
<1>8. f \in [0..n -> Dealings] /\ f[0] = acc /\ \A k \in 1..n : f[k] = turn(f[k - 1], k)
  <2>1. f \in [0..n -> Dealings] /\ f[0] = acc /\ \A k \in 1..n : f[k] = turns[<<f[k - 1], k>>]
    BY <1>7 DEF IteratesTo
  <2>2. ASSUME NEW k \in 1..n
        PROVE  turns[<<f[k - 1], k>>] = turn(f[k - 1], k)
    <3>1. f[k - 1] \in Dealings
      BY <1>1, <2>1
    <3> QED BY <3>1
  <2> HIDE DEF turns
  <2> QED BY <2>1, <2>2
<1>9. f = body(f)
  BY <1>1, <1>8
<1>10. out = body(out)
  <2> HIDE DEF body
  <2> QED BY <1>9, Zenon
<1> HIDE DEF out
<1>11. out[0] = acc /\ \A k \in 1..n : out[k] = turn(out[k - 1], k)
  <2>1. \A k \in 0..n : out[k] = IF k = 0 THEN acc ELSE turn(out[k - 1], k)
    BY <1>10
  <2> QED BY <1>1, <2>1
<1> DEFINE G == {k \in 0..n : PutIs(out[k], acc, seg, from, step, end, k)}
<1>12. 0 \in G
  BY <1>1, <1>4, <1>11
<1>13. ASSUME NEW k \in 1..n, k - 1 \in G
       PROVE  k \in G
  <2>1. PutIs(out[k - 1], acc, seg, from, step, end, k - 1)
    BY <1>13
  <2>2. PutIs(out[k], acc, seg, from, step, end, k)
    BY <1>5, <1>11, <2>1
  <2> QED BY <1>1, <2>2
<1>14. n \in G
  <2> HIDE DEF G
  <2>1. 0..n \subseteq G
    BY <1>1, <1>12, <1>13, Upward
  <2> QED BY <1>1, <2>1
<1> QED BY <1>3, <1>14 DEF n

\* That many items, each that many days after the one before, fit into the days,
\* and leave the last one when they are fewer.
LEMMA SpreadFits ==
  ASSUME NEW days \in Nat, NEW n \in Nat
  PROVE  /\ Spread(days, n) \in Nat \ {0}
         /\ n <= days => \A k \in 1..n : k * Spread(days, n) <= days
         /\ n < days => \A k \in 1..n : k * Spread(days, n) < days
<1> DEFINE q == days \div (n + 1)
<1>1. q \in Nat /\ (n + 1) * q <= days
  OBVIOUS
<1>2. Max({1, q}) = IF 1 >= q THEN 1 ELSE q
  BY <1>1, OfTwo
<1> HIDE DEF q
<1>3. Spread(days, n) = IF n = 0 \/ 1 >= q THEN 1 ELSE q
  BY <1>2 DEF Spread, q
<1>4. ASSUME n <= days, NEW k \in 1..n
      PROVE  /\ k * Spread(days, n) <= days
             /\ n < days => k * Spread(days, n) < days
  <2>1. CASE Spread(days, n) = 1
    BY <1>4, <2>1
  <2>2. CASE Spread(days, n) # 1
    <3>1. q \in Nat \ {0} /\ Spread(days, n) = q
      BY <1>1, <1>3, <2>2
    <3>2. k \in Nat /\ n + 1 \in Nat /\ k < n + 1
      OBVIOUS
    <3>3. k * q < (n + 1) * q /\ k * q \in Nat /\ (n + 1) * q \in Nat
      BY <3>1, <3>2, StepsApart
    <3> QED BY <1>1, <3>1, <3>3
  <2> QED BY <2>1, <2>2
<1> QED BY <1>1, <1>3, <1>4

\* The interviews that are up to a day.
Came(d) == {u \in upcoming : u <= d}

Covers(schedule, i) == \E o \in DOMAIN schedule : schedule[o] = i

\* How the days up to one have been dealt.
DealtUpto(acc, d) ==
  /\ acc \in Dealings
  /\ acc.interviews = {u - thisDay + 1 : u \in Came(d)}
  /\ Came(d) = {} => acc.cursor = 1 /\ DOMAIN acc.schedule = {}
  /\ Came(d) # {} => acc.cursor = Max(Came(d)) - thisDay + 2
  /\ \A o \in DOMAIN acc.schedule :
       /\ o \notin acc.interviews /\ o < acc.cursor /\ acc.schedule[o] \in future
       /\ \/ deadlineOf(acc.schedule[o]) \in Came(d) /\ OnTime(o, deadlineOf(acc.schedule[o]))
          \/ Passed(acc.schedule[o])
  /\ \A o, p \in DOMAIN acc.schedule : acc.schedule[o] = acc.schedule[p] => o = p
  /\ hasSpecDates /\ HasRoom =>
       \A i \in future :
         deadlineOf(i) \in Came(d) \/ (Passed(i) /\ Came(d) # {}) => Covers(acc.schedule, i)

\* An interview day is one more than those before it.
LEMMA CameIs ==
  ASSUME RunwayTypeOK
  PROVE  /\ \A u \in upcoming : u \in Nat /\ u >= thisDay /\ u <= LastRunDay /\ u \in 1..LastRunDay
         /\ \A d : Came(d) \subseteq 1..LastRunDay /\ Came(d) \subseteq upcoming
         /\ \A d \in upcoming :
              /\ Came(d) = Came(d - 1) \cup {d} /\ d \notin Came(d - 1)
              /\ {u \in upcoming : u < d} = Came(d - 1)
              /\ \A u \in Came(d - 1) : u < d
         /\ \A d \in Nat \ {0} : d \notin upcoming => Came(d) = Came(d - 1)
         /\ Came(0) = {}
<1>1. \A u \in upcoming : u \in Nat /\ u >= thisDay /\ u <= LastRunDay /\ u \in 1..LastRunDay
  BY DatesFit
<1>2. \A u, d : u \in Came(d) <=> u \in upcoming /\ u <= d
  BY DEF Came
<1>3. ASSUME NEW d \in upcoming
      PROVE  /\ Came(d) = Came(d - 1) \cup {d} /\ d \notin Came(d - 1)
             /\ {u \in upcoming : u < d} = Came(d - 1)
             /\ \A u \in Came(d - 1) : u < d
  <2>1. \A u \in upcoming : (u <= d <=> u <= d - 1 \/ u = d) /\ (u < d <=> u <= d - 1) /\ ~ (d <= d - 1)
    BY <1>1
  <2>2. d <= d
    BY <1>1
  <2> QED BY <1>2, <2>1, <2>2
<1>4. ASSUME NEW d \in Nat \ {0}, d \notin upcoming
      PROVE  Came(d) = Came(d - 1)
  <2>1. \A u \in upcoming : (u <= d <=> u <= d - 1)
    BY <1>1, <1>4
  <2> QED BY <1>2, <2>1
<1>5. Came(0) = {}
  <2>1. \A u \in upcoming : ~ (u <= 0)
    BY <1>1
  <2> QED BY <1>2, <2>1
<1>6. \A d : Came(d) \subseteq 1..LastRunDay /\ Came(d) \subseteq upcoming
  BY <1>1, <1>2
<1> QED BY <1>1, <1>3, <1>4, <1>5, <1>6

\* Where the window before an interview begins and ends.
LEMMA WindowIs ==
  ASSUME RunwayTypeOK, NEW d \in upcoming, NEW acc, DealtUpto(acc, d - 1)
  PROVE  /\ d \in 1..LastRunDay /\ d >= thisDay /\ daysLeft(d) = d - thisDay + 1
         /\ Came(d) = Came(d - 1) \cup {d} /\ Max(Came(d)) = d /\ d \notin Came(d - 1)
         /\ acc.cursor \in OffsetDays /\ acc.cursor <= daysLeft(d)
         /\ Window(d) = daysLeft(d) - acc.cursor
         /\ acc.cursor = 1 <=> Came(d - 1) = {}
         /\ Came(d - 1) = {} <=> d = Min(upcoming)
         /\ \A o \in acc.interviews : o < acc.cursor
<1>1. d \in thisDay..LastRunDay /\ d \in Nat /\ upcoming \subseteq thisDay..LastRunDay
      /\ thisDay \in 1..LastRunDay /\ LastRunDay \in Nat
      /\ \A u \in upcoming : u \in Nat /\ u >= thisDay /\ u <= LastRunDay
  BY DatesFit
<1>2. daysLeft(d) = d - thisDay + 1
  BY <1>1 DEF daysLeft
<1>3. Came(d) = Came(d - 1) \cup {d} /\ d \notin Came(d - 1)
  BY CameIs
<1>4. Came(d) \subseteq 1..LastRunDay /\ Came(d - 1) \subseteq 1..LastRunDay
      /\ upcoming \subseteq 1..LastRunDay /\ upcoming # {}
  BY CameIs
<1>5. Max(Came(d)) = d
  <2>1. Max(Came(d)) \in Came(d) /\ \A x \in Came(d) : x <= Max(Came(d))
    BY <1>1, <1>3, <1>4, EndsAre
  <2>2. \A x \in Came(d - 1) : x < d
    BY CameIs
  <2>3. d <= Max(Came(d))
    BY <1>3, <2>1
  <2>4. Max(Came(d)) \notin Came(d - 1)
    BY <1>1, <1>4, <2>2, <2>3
  <2> QED BY <1>3, <2>1, <2>4
<1>6. CASE Came(d - 1) = {}
  <2>1. acc.cursor = 1 /\ acc.interviews = {}
    BY <1>6 DEF DealtUpto
  <2>2. {u \in upcoming : u < d} = {}
    BY <1>6, CameIs
  <2>3. Window(d) = d - thisDay
    BY <2>2 DEF Window
  <2>4. Min(upcoming) \in upcoming /\ \A x \in upcoming : Min(upcoming) <= x
    BY <1>1, <1>4, EndsAre
  <2>5. d = Min(upcoming)
    <3>1. ~ (Min(upcoming) < d)
      BY <2>2, <2>4
    <3>2. Min(upcoming) <= d /\ Min(upcoming) \in Nat
      BY <1>1, <2>4
    <3> QED BY <1>1, <3>1, <3>2
  <2> QED BY <1>1, <1>2, <1>3, <1>5, <1>6, <2>1, <2>3, <2>5 DEF OffsetDays
<1>7. CASE Came(d - 1) # {}
  <2> DEFINE last == Max(Came(d - 1))
  <2>1. last \in Came(d - 1) /\ \A x \in Came(d - 1) : x <= last
    BY <1>1, <1>4, <1>7, EndsAre
  <2>2. last \in upcoming /\ last < d /\ last \in thisDay..LastRunDay
    BY <1>1, <2>1, CameIs
  <2>3. acc.cursor = last - thisDay + 2
    BY <1>7 DEF DealtUpto
  <2>4. {u \in upcoming : u < d} = Came(d - 1)
    BY CameIs
  <2>5. Window(d) = d - last - 1
    BY <1>7, <2>4 DEF Window
  <2>6. d # Min(upcoming)
    <3>1. Min(upcoming) <= last
      BY <1>1, <1>4, <2>2, EndsAre
    <3> QED BY <1>1, <2>2, <3>1
  <2>7. ASSUME NEW o \in acc.interviews
        PROVE  o < acc.cursor
    <3>1. PICK u \in Came(d - 1) : o = u - thisDay + 1
      BY DEF DealtUpto
    <3>2. u <= last /\ u \in Nat
      BY <1>4, <2>1, <3>1
    <3> HIDE DEF last
    <3> QED BY <1>1, <2>2, <2>3, <3>1, <3>2
  <2> HIDE DEF last
  <2> QED BY <1>1, <1>2, <1>3, <1>5, <1>7, <2>2, <2>3, <2>5, <2>6, <2>7 DEF OffsetDays
<1> QED BY <1>6, <1>7

\* The days before an interview are dealt.
LEMMA DealtToIs ==
  ASSUME RunwayTypeOK, NEW d \in upcoming, NEW acc, DealtUpto(acc, d - 1)
  PROVE  DealtUpto(DealtTo(acc, d), d)
<1> DEFINE at == daysLeft(d)
           seg == Segment(d, acc.cursor = 1)
           n == Cardinality(seg)
           end == Max({acc.cursor, at - 1})
           interval == Spread(end - acc.cursor + 1, n)
           marked == [acc EXCEPT !.interviews = @ \cup {at}, !.cursor = at + 1]
           a == DealtTo(acc, d)
<1>1. /\ d \in 1..LastRunDay /\ d >= thisDay /\ at = d - thisDay + 1 /\ thisDay \in Nat
      /\ Came(d) = Came(d - 1) \cup {d} /\ Max(Came(d)) = d /\ d \notin Came(d - 1)
      /\ acc.cursor \in OffsetDays /\ acc.cursor <= at
      /\ Window(d) = at - acc.cursor
      /\ acc.cursor = 1 <=> Came(d - 1) = {}
      /\ Came(d - 1) = {} <=> d = Min(upcoming)
      /\ \A o \in acc.interviews : o < acc.cursor
  BY WindowIs, DatesFit
<1>2. at \in OffsetDays /\ d \in Nat
  BY <1>1 DEF OffsetDays
<1>3. seg = Sharing(d) /\ seg \subseteq future /\ seg \subseteq Items
  BY <1>1, DatesFit DEF Segment, Sharing
<1>4. /\ marked \in Dealings /\ marked.schedule = acc.schedule
      /\ marked.interviews = acc.interviews \cup {at} /\ marked.cursor = at + 1
  <2>1. acc \in Dealings /\ at + 1 \in OffsetDays
    BY <1>2 DEF DealtUpto, OffsetDays
  <2> HIDE DEF at
  <2> QED BY <1>2, <2>1 DEF Dealings
<1>5. a = PutOut(marked, seg, acc.cursor - 1, interval, end)
  BY DEF DealtTo
<1>6. end = (IF acc.cursor >= at - 1 THEN acc.cursor ELSE at - 1) /\ end \in OffsetDays
  <2> HIDE DEF at
  <2>1. acc.cursor \in Int /\ at - 1 \in Int
    BY <1>1, <1>2 DEF OffsetDays
  <2> QED BY <1>1, <1>2, <2>1, OfTwo DEF OffsetDays
<1>7. n \in Nat
  BY <1>3, Places
<1> HIDE DEF at, seg, n, end, marked, a
<1>8. end - acc.cursor + 1 \in Nat /\ acc.cursor - 1 \in Nat
  BY <1>1, <1>2, <1>6 DEF OffsetDays
<1>9. /\ interval \in Nat \ {0}
      /\ n <= end - acc.cursor + 1 => \A k \in 1..n : k * interval <= end - acc.cursor + 1
      /\ n < end - acc.cursor + 1 => \A k \in 1..n : k * interval < end - acc.cursor + 1
  BY <1>7, <1>8, SpreadFits
<1> HIDE DEF interval
<1>10. PutIs(a, marked, seg, acc.cursor - 1, interval, end, n)
  BY <1>3, <1>4, <1>5, <1>6, <1>8, <1>9, PutOutIs DEF n
<1>11. a \in Dealings /\ a.interviews = acc.interviews \cup {at} /\ a.cursor = at + 1
  BY <1>4, <1>10 DEF PutIs
<1>12. a.interviews = {u - thisDay + 1 : u \in Came(d)}
  <2>1. acc.interviews = {u - thisDay + 1 : u \in Came(d - 1)}
    BY DEF DealtUpto
  <2> QED BY <1>1, <1>11, <2>1
<1>13. Came(d) # {} /\ a.cursor = Max(Came(d)) - thisDay + 2
  BY <1>1, <1>2, <1>11
<1> DEFINE Old == DOMAIN acc.schedule
           New == DOMAIN a.schedule \ DOMAIN acc.schedule
<1>14. Old \subseteq DOMAIN a.schedule /\ \A o \in Old : a.schedule[o] = acc.schedule[o]
  BY <1>4, <1>10 DEF PutIs
<1>15. ASSUME NEW o \in Old
       PROVE  /\ o \in OffsetDays /\ o \notin a.interviews /\ o < acc.cursor
              /\ a.schedule[o] \in future
              /\ \/ deadlineOf(a.schedule[o]) \in Came(d - 1) /\ OnTime(o, deadlineOf(a.schedule[o]))
                 \/ Passed(a.schedule[o])
  <2>1. o \in OffsetDays
    BY DEF DealtUpto, Dealings
  <2>2. /\ o \notin acc.interviews /\ o < acc.cursor /\ acc.schedule[o] \in future
        /\ \/ deadlineOf(acc.schedule[o]) \in Came(d - 1) /\ OnTime(o, deadlineOf(acc.schedule[o]))
           \/ Passed(acc.schedule[o])
    BY DEF DealtUpto
  <2>3. o # at
    BY <1>1, <1>2, <2>1, <2>2 DEF OffsetDays
  <2> QED BY <1>11, <1>14, <2>1, <2>2, <2>3
<1>16. ASSUME NEW o \in New
       PROVE  /\ o \in OffsetDays /\ acc.cursor <= o /\ o < at
              /\ o \notin a.interviews /\ a.schedule[o] \in seg
  <2>1. o <= end /\ (o > acc.cursor - 1 \/ o = end) /\ o \notin marked.interviews /\ a.schedule[o] \in seg
    BY <1>4, <1>10 DEF PutIs
  <2>2. o \in OffsetDays
    BY <1>11 DEF Dealings
  <2>3. o \notin a.interviews /\ o # at
    BY <1>4, <1>11, <2>1
  <2> QED BY <1>1, <1>2, <1>6, <2>1, <2>2, <2>3 DEF OffsetDays
<1>23. ASSUME n <= at - acc.cursor, n >= 1
       PROVE  /\ end - acc.cursor + 1 = at - acc.cursor
              /\ Stepwise(marked, seg, acc.cursor - 1, interval, end)
  <2>1. acc.cursor < at /\ end = at - 1 /\ end - acc.cursor + 1 = at - acc.cursor
    <3>1. acc.cursor \in Int /\ at \in Int /\ acc.cursor < at
      BY <1>1, <1>2, <1>7, <1>23 DEF OffsetDays
    <3>2. end = at - 1
      BY <1>6, <3>1
    <3> QED BY <3>1, <3>2
  <2>2. ASSUME NEW k \in 1..n
        PROVE  /\ acc.cursor - 1 + k * interval <= end
               /\ acc.cursor - 1 + k * interval \notin Taken(marked)
    <3>1. k * interval <= at - acc.cursor
      BY <1>9, <1>23, <2>1
    <3>2. k * interval \in Nat /\ k * interval >= 1
      <4>1. 0 * interval < k * interval /\ k * interval \in Nat
        BY <1>7, <1>9, StepsApart
      <4>2. 0 * interval = 0
        BY <1>9
      <4> QED BY <4>1, <4>2
    <3> DEFINE want == acc.cursor - 1 + k * interval
    <3>3. want <= end /\ want >= acc.cursor /\ want < at /\ want \in Int
      BY <1>1, <1>2, <2>1, <3>1, <3>2 DEF OffsetDays
    <3> HIDE DEF want
    <3>4. want \notin DOMAIN acc.schedule
      BY <1>1, <1>15, <3>3 DEF OffsetDays
    <3>5. want \notin acc.interviews /\ want # at
      <4>1. acc.interviews \subseteq OffsetDays
        BY DEF DealtUpto, Dealings
      <4> QED BY <1>1, <1>2, <3>3, <4>1 DEF OffsetDays
    <3> QED BY <1>4, <3>3, <3>4, <3>5 DEF Taken, want
  <2> QED BY <2>1, <2>2 DEF Stepwise, n
\* With a day to spare, the last one before the interview stays free.
<1>24. ASSUME NEW o \in New, RoomToSpare(d)
       PROVE  thisDay + o < d
  <2>1. n < at - acc.cursor
    BY <1>1, <1>3, <1>24 DEF RoomToSpare, n
  <2>2. n >= 1
    <3>1. a.schedule[o] \in seg
      BY <1>16
    <3>2. PlaceIn(seg, a.schedule[o]) \in 1..n
      BY <1>3, <3>1, Places DEF n
    <3> QED BY <1>7, <3>2
  <2>3. /\ end - acc.cursor + 1 = at - acc.cursor
        /\ Stepwise(marked, seg, acc.cursor - 1, interval, end)
    <3>1. n <= at - acc.cursor
      BY <1>1, <1>2, <1>7, <2>1 DEF OffsetDays
    <3> QED BY <1>23, <2>2, <3>1
  <2>4. PICK j \in 1..n : o = acc.cursor - 1 + j * interval
    BY <1>4, <1>10, <2>3 DEF PutIs
  <2>5. j * interval < at - acc.cursor /\ j * interval \in Nat
    <3>1. j * interval < at - acc.cursor
      BY <1>9, <2>1, <2>3
    <3>2. j \in Nat /\ j * interval \in Nat
      BY <1>9
    <3> QED BY <3>1, <3>2
  <2> DEFINE step == j * interval
  <2>6. step < at - acc.cursor /\ step \in Nat /\ o = acc.cursor - 1 + step
    BY <2>4, <2>5
  <2> HIDE DEF step
  <2> QED BY <1>1, <1>2, <2>6 DEF OffsetDays
<1>17. \A i \in future : deadlineOf(i) \in Nat /\ (Passed(i) <=> deadlineOf(i) \in 1..(thisDay - 1))
  BY DatesFit DEF Passed
<1>18. ASSUME NEW o \in DOMAIN a.schedule
       PROVE  /\ o \notin a.interviews /\ o < a.cursor /\ a.schedule[o] \in future
              /\ \/ deadlineOf(a.schedule[o]) \in Came(d) /\ OnTime(o, deadlineOf(a.schedule[o]))
                 \/ Passed(a.schedule[o])
  <2>1. CASE o \in Old
    BY <1>1, <1>2, <1>11, <1>15, <2>1 DEF OffsetDays
  <2>2. CASE o \notin Old
    <3>1. o \in OffsetDays /\ o < at /\ o \notin a.interviews /\ a.schedule[o] \in seg
      BY <1>16, <2>2
    <3>2. a.schedule[o] \in future /\ (deadlineOf(a.schedule[o]) = d \/ Passed(a.schedule[o]))
      BY <1>3, <3>1 DEF seg, Segment
    <3>3. thisDay + o <= d /\ o < at + 1
      BY <1>1, <1>2, <3>1 DEF OffsetDays
    <3>4. OnTime(o, d)
      BY <1>24, <2>2, <3>3 DEF OnTime
    <3> QED BY <1>1, <1>11, <3>1, <3>2, <3>3, <3>4
  <2> QED BY <2>1, <2>2
<1>19. ASSUME NEW o \in Old, NEW p \in New
       PROVE  a.schedule[o] # a.schedule[p]
  <2>1. Came(d - 1) # {}
    BY DEF DealtUpto
  <2>2. deadlineOf(a.schedule[p]) = d
    BY <1>1, <1>16, <2>1 DEF seg, Segment
  <2>3. deadlineOf(a.schedule[o]) # d
    BY <1>1, <1>2, <1>15, <1>17
  <2> QED BY <2>2, <2>3
<1>20. ASSUME NEW o \in DOMAIN a.schedule, NEW p \in DOMAIN a.schedule, a.schedule[o] = a.schedule[p]
       PROVE  o = p
  <2>1. CASE o \in Old /\ p \in Old
    BY <1>14, <1>20, <2>1 DEF DealtUpto
  <2>2. CASE o \in New /\ p \in New
    BY <1>4, <1>10, <1>20, <2>2 DEF PutIs
  <2>3. CASE (o \in Old /\ p \in New) \/ (o \in New /\ p \in Old)
    BY <1>19, <1>20, <2>3
  <2> QED BY <2>1, <2>2, <2>3
<1>21. ASSUME hasSpecDates, HasRoom, NEW i \in future,
              deadlineOf(i) \in Came(d) \/ (Passed(i) /\ Came(d) # {})
       PROVE  Covers(a.schedule, i)
  <2>1. CASE deadlineOf(i) \in Came(d - 1) \/ (Passed(i) /\ Came(d - 1) # {})
    <3>1. PICK o \in Old : acc.schedule[o] = i
      BY <1>21, <2>1 DEF DealtUpto, Covers
    <3> QED BY <1>14, <3>1 DEF Covers
  <2>2. CASE ~ (deadlineOf(i) \in Came(d - 1) \/ (Passed(i) /\ Came(d - 1) # {}))
    <3>1. i \in seg
      BY <1>1, <1>21, <2>2 DEF seg, Segment
    <3> DEFINE j == PlaceIn(seg, i)
    <3>2. j \in 1..n /\ ItemAt(seg, j) = i
      BY <1>3, <3>1, Places DEF n
    <3>3. n <= at - acc.cursor
      <4>1. Cardinality(Sharing(d)) <= Window(d)
        BY <1>21 DEF HasRoom
      <4> QED BY <1>1, <1>3, <4>1 DEF n
    <3> HIDE DEF j
    <3>4. n >= 1
      BY <1>7, <3>2
    <3>6. Stepwise(marked, seg, acc.cursor - 1, interval, end)
      BY <1>23, <3>3, <3>4
    <3>7. /\ acc.cursor - 1 + j * interval \in DOMAIN a.schedule
          /\ a.schedule[acc.cursor - 1 + j * interval] = ItemAt(seg, j)
      BY <1>10, <3>2, <3>6 DEF PutIs
    <3> QED BY <3>2, <3>7 DEF Covers
  <2> QED BY <2>1, <2>2
<1>22. DealtUpto(a, d)
  BY <1>11, <1>12, <1>13, <1>18, <1>20, <1>21 DEF DealtUpto
<1> QED BY <1>22 DEF a

\* Whatever came before, the next window is dealt to a record of the same kind.
LEMMA DealtToFits ==
  ASSUME RunwayTypeOK, NEW acc \in Dealings, NEW d \in 1..LastRunDay
  PROVE  DealtTo(acc, d) \in Dealings
<1> DEFINE at == daysLeft(d)
           seg == Segment(d, acc.cursor = 1)
           end == Max({acc.cursor, at - 1})
           interval == Spread(end - acc.cursor + 1, Cardinality(seg))
           marked == [acc EXCEPT !.interviews = @ \cup {at}, !.cursor = at + 1]
<1>1. at \in OffsetDays /\ at + 1 \in OffsetDays /\ at - 1 \in Int
  BY DatesFit DEF daysLeft, OffsetDays
<1>2. acc.cursor \in OffsetDays
  BY DEF Dealings
<1>3. seg \subseteq Items /\ Cardinality(seg) \in Nat
  <2>1. seg \subseteq Items
    BY DatesFit DEF Segment
  <2> HIDE DEF seg
  <2> QED BY <2>1, Places
<1> HIDE DEF at
<1>4. marked \in Dealings
  BY <1>1 DEF Dealings
<1>5. end \in OffsetDays /\ end - acc.cursor + 1 \in Nat /\ acc.cursor - 1 \in Nat
  <2>1. end = IF acc.cursor >= at - 1 THEN acc.cursor ELSE at - 1
    BY <1>1, <1>2, OfTwo DEF OffsetDays
  <2> HIDE DEF end
  <2> QED BY <1>1, <1>2, <2>1 DEF OffsetDays
<1> HIDE DEF seg, end, marked
<1>6. interval \in Nat \ {0}
  BY <1>3, <1>5, SpreadFits
<1>7. DealtTo(acc, d) = PutOut(marked, seg, acc.cursor - 1, interval, end)
  BY DEF DealtTo, at, seg, end, marked
<1> HIDE DEF interval
<1>8. PutIs(DealtTo(acc, d), marked, seg, acc.cursor - 1, interval, end, Cardinality(seg))
  BY <1>3, <1>4, <1>5, <1>6, <1>7, PutOutIs
<1> QED BY <1>8 DEF PutIs

\* A deal of the days: everything is put on a day of its own, in time.
DealIs(schedule, interviews) ==
  /\ DOMAIN schedule \subseteq 1..LastRunDay
  /\ interviews = {u - thisDay + 1 : u \in upcoming}
  /\ \A o \in DOMAIN schedule :
       /\ o \notin interviews /\ schedule[o] \in future /\ deadlineOf(schedule[o]) # NoDate
       /\ deadlineOf(schedule[o]) >= thisDay => OnTime(o, deadlineOf(schedule[o]))
  /\ \A o, p \in DOMAIN schedule : schedule[o] = schedule[p] => o = p
  /\ HasRoom => \A i \in future : deadlineOf(i) # NoDate => Covers(schedule, i)

\* With a date for each round.
LEMMA ByRoundIs ==
  ASSUME RunwayTypeOK, hasSpecDates, upcoming # {}
  PROVE  DealIs(DealtByRound.schedule, DealtByRound.interviews)
<1> DEFINE n == LastRunDay
           turn(b, d) == IF d \in upcoming THEN DealtTo(b, d) ELSE b
           turns == [p \in Dealings \X (1..n) |-> turn(p[1], p[2])]
           body(g) == [d \in 0..n |-> IF d = 0 THEN NothingDealt
                                      ELSE IF d \in upcoming THEN DealtTo(g[d - 1], d) ELSE g[d - 1]]
           through == CHOOSE g : g = body(g)
<1>1. n \in Nat
  BY DatesFit
<1>2. NothingDealt \in Dealings /\ NothingDealt.interviews = {} /\ NothingDealt.cursor = 1
      /\ DOMAIN NothingDealt.schedule = {}
  <2>1. <<>> \in [{} -> Items] /\ {} \in SUBSET OffsetDays /\ 1 \in OffsetDays /\ DOMAIN <<>> = {}
    BY DEF OffsetDays
  <2> QED BY <2>1 DEF NothingDealt, Dealings
<1>3. DealtByRound = through[n]
  BY DEF DealtByRound
<1>4. \A b \in Dealings, d \in 1..n : turn(b, d) \in Dealings
  BY DealtToFits
<1> HIDE DEF n
<1>5. turns \in [Dealings \X (1..n) -> Dealings]
  <2> HIDE DEF turn
  <2> QED BY <1>4
<1>6. PICK f : IteratesTo(f, n, Dealings, NothingDealt, turns)
  <2> HIDE DEF turns
  <2> QED BY <1>1, <1>2, <1>5, Iterates
<1>7. f \in [0..n -> Dealings] /\ f[0] = NothingDealt /\ \A d \in 1..n : f[d] = turn(f[d - 1], d)
  <2>1. f \in [0..n -> Dealings] /\ f[0] = NothingDealt /\ \A d \in 1..n : f[d] = turns[<<f[d - 1], d>>]
    <3> HIDE DEF turns
    <3> QED BY <1>6 DEF IteratesTo
  <2>2. ASSUME NEW d \in 1..n
        PROVE  turns[<<f[d - 1], d>>] = turn(f[d - 1], d)
    <3>1. f[d - 1] \in Dealings
      BY <1>1, <2>1
    <3> HIDE DEF turn
    <3> QED BY <3>1
  <2> HIDE DEF turns
  <2> QED BY <2>1, <2>2
<1>8. f = body(f)
  BY <1>1, <1>7
<1>9. through = body(through)
  <2> HIDE DEF body
  <2> QED BY <1>8, Zenon
<1> HIDE DEF through
<1>10. through[0] = NothingDealt /\ \A d \in 1..n : through[d] = turn(through[d - 1], d)
  <2>1. \A d \in 0..n : through[d] = IF d = 0 THEN NothingDealt ELSE turn(through[d - 1], d)
    BY <1>9
  <2> HIDE DEF turn
  <2> QED BY <1>1, <2>1
<1> DEFINE G == {d \in 0..n : DealtUpto(through[d], d)}
<1>11. 0 \in G
  <2>1. DealtUpto(NothingDealt, 0)
    <3>1. Came(0) = {}
      BY CameIs
    <3>2. \A i \in future : deadlineOf(i) \notin Came(0)
      BY <3>1
    <3> HIDE DEF n
    <3> QED BY <1>2, <3>1, <3>2 DEF DealtUpto
  <2> QED BY <1>1, <1>10, <2>1
<1>12. ASSUME NEW d \in 1..n, d - 1 \in G
       PROVE  d \in G
  <2>1. DealtUpto(through[d - 1], d - 1) /\ through[d] = turn(through[d - 1], d)
    BY <1>10, <1>12
  <2>2. CASE d \in upcoming
    <3>1. DealtUpto(through[d], d)
      BY <2>1, <2>2, DealtToIs
    <3> QED BY <1>1, <3>1
  <2>3. CASE d \notin upcoming
    <3>1. through[d] = through[d - 1] /\ Came(d) = Came(d - 1)
      <4>1. d \in Nat \ {0}
        BY <1>1
      <4> QED BY <2>1, <2>3, <4>1, CameIs
    <3>2. DealtUpto(through[d], d)
      BY <2>1, <3>1 DEF DealtUpto
    <3> QED BY <1>1, <3>2
  <2> QED BY <2>2, <2>3
<1>13. DealtUpto(through[n], n)
  <2> HIDE DEF G
  <2>1. 0..n \subseteq G
    BY <1>1, <1>11, <1>12, Upward
  <2> USE DEF G
  <2> QED BY <1>1, <2>1
<1> DEFINE acc == DealtByRound
<1>14. DealtUpto(acc, n)
  BY <1>3, <1>13
<1> HIDE DEF acc
<1>15. Came(n) = upcoming /\ upcoming # {}
  BY CameIs DEF Came, n
<1>16. acc.cursor \in Nat /\ acc.cursor <= n + 1
  <2>1. upcoming \subseteq 1..n /\ thisDay \in 1..n
    BY CameIs, DatesFit DEF n
  <2>2. Max(upcoming) \in 1..n /\ Max(upcoming) \in upcoming
    BY <1>1, <1>15, <2>1, EndsAre
  <2>3. Max(upcoming) >= thisDay
    BY <2>2, CameIs
  <2>4. acc.cursor = Max(upcoming) - thisDay + 2
    BY <1>14, <1>15 DEF DealtUpto
  <2> QED BY <1>1, <2>1, <2>2, <2>3, <2>4
<1>17. ASSUME NEW o \in DOMAIN acc.schedule
       PROVE  /\ o \in 1..n /\ o \notin acc.interviews /\ acc.schedule[o] \in future
              /\ deadlineOf(acc.schedule[o]) # NoDate
              /\ deadlineOf(acc.schedule[o]) >= thisDay => OnTime(o, deadlineOf(acc.schedule[o]))
  <2> DEFINE i == acc.schedule[o]
  <2>1. /\ o \notin acc.interviews /\ o < acc.cursor /\ i \in future
        /\ (deadlineOf(i) \in Came(n) /\ OnTime(o, deadlineOf(i))) \/ Passed(i)
    BY <1>14 DEF DealtUpto
  <2>2. o \in OffsetDays
    BY <1>14 DEF DealtUpto, Dealings
  <2>3. o \in 1..n
    BY <1>1, <1>16, <2>1, <2>2 DEF OffsetDays
  <2> HIDE DEF i
  <2>4. Passed(i) => deadlineOf(i) # NoDate /\ ~ (deadlineOf(i) >= thisDay)
    BY DatesFit DEF Passed, NoDate
  <2>5. deadlineOf(i) \in Came(n) => deadlineOf(i) # NoDate
    BY <1>15, CameIs DEF NoDate
  <2> QED BY <2>1, <2>3, <2>4, <2>5 DEF i
<1>18. ASSUME NEW i \in future, deadlineOf(i) # NoDate
       PROVE  deadlineOf(i) \in Came(n) \/ (Passed(i) /\ Came(n) # {})
  <2>1. i \in Items /\ RoundOf[i] \in PlanRounds /\ deadlineOf(i) \in 0..LastRunDay
        /\ deadlineOf(i) = specDeadline(RoundOf[i]) /\ thisDay \in 1..LastRunDay /\ LastRunDay \in Nat
    BY DatesFit DEF deadlineOf
  <2>2. CASE deadlineOf(i) >= thisDay
    <3>1. deadlineOf(i) \in thisDay..LastRunDay
      BY <2>1, <2>2
    <3> QED BY <1>15, <2>1, <3>1 DEF upcoming
  <2>3. CASE ~ (deadlineOf(i) >= thisDay)
    <3>1. deadlineOf(i) \in 1..(thisDay - 1)
      BY <1>18, <2>1, <2>3 DEF NoDate
    <3> QED BY <1>15, <3>1 DEF Passed
  <2> QED BY <2>2, <2>3
<1>19. /\ acc.interviews = {u - thisDay + 1 : u \in upcoming}
       /\ \A o, p \in DOMAIN acc.schedule : acc.schedule[o] = acc.schedule[p] => o = p
  BY <1>14, <1>15 DEF DealtUpto
<1>20. HasRoom => \A i \in future : deadlineOf(i) # NoDate => Covers(acc.schedule, i)
  BY <1>14, <1>18 DEF DealtUpto
<1>21. DealIs(acc.schedule, acc.interviews)
  BY <1>17, <1>19, <1>20 DEF DealIs, n
<1> QED BY <1>21 DEF acc

\* The latest of the dates.
LEMMA LoopEndFits ==
  ASSUME RunwayTypeOK
  PROVE  daysLeft(loopEnd) \in 1..LastRunDay
<1> DEFINE D == {plan.loop} \cup {plan.dated[r] : r \in PlanRounds}
           E == {x + 1 : x \in D}
<1>1. D \subseteq 0..LastRunDay /\ plan.loop \in D /\ LastRunDay \in Nat /\ thisDay \in 1..LastRunDay
  BY DatesFit
<1>2. loopEnd = Max(D)
  BY DEF loopEnd
<1> HIDE DEF D
<1>3. PICK e \in E : \A y \in E : y <= e
  <2>1. E \subseteq 1..(LastRunDay + 1) /\ plan.loop + 1 \in E /\ LastRunDay + 1 \in Nat
    <3>1. \A x \in D : x + 1 \in 1..(LastRunDay + 1)
      BY <1>1
    <3>2. E \subseteq 1..(LastRunDay + 1)
      BY <3>1
    <3>3. plan.loop + 1 \in E
      BY <1>1
    <3> QED BY <1>1, <3>2, <3>3
  <2> HIDE DEF E
  <2> QED BY <2>1, HasHighest
<1>4. PICK x \in D : e = x + 1
  OBVIOUS
<1>5. \A y \in D : y + 1 \in E
  OBVIOUS
<1> HIDE DEF E
<1>6. \A y \in D : x >= y
  BY <1>1, <1>3, <1>4, <1>5
<1>7. Max(D) \in D
  BY <1>6, Zenon DEF Max
<1>8. loopEnd \in 0..LastRunDay
  BY <1>1, <1>2, <1>7
<1> QED BY <1>1, <1>8 DEF daysLeft

\* With every date past, what is left is for tomorrow.
LEMMA LeftoversAre ==
  ASSUME RunwayTypeOK, hasSpecDates, upcoming = {}
  PROVE  DealIs(DealtByRound.schedule, DealtByRound.interviews)
<1> DEFINE S == {i \in future : deadlineOf(i) # NoDate}
           end == daysLeft(loopEnd)
           a == DealtByRound
<1>1. a = PutOut(NothingDealt, S, 0, 1, end)
  BY DEF DealtByRound, Leftovers
<1>2. end \in 1..LastRunDay /\ end \in OffsetDays
  BY LoopEndFits DEF OffsetDays
<1>3. S \subseteq Items /\ 1 \in Nat \ {0}
  BY DatesFit
<1>4. NothingDealt \in Dealings /\ NothingDealt.interviews = {} /\ DOMAIN NothingDealt.schedule = {}
  <2>1. <<>> \in [{} -> Items] /\ {} \in SUBSET OffsetDays /\ 1 \in OffsetDays /\ DOMAIN <<>> = {}
    BY DEF OffsetDays
  <2> QED BY <2>1 DEF NothingDealt, Dealings
<1> HIDE DEF S, end, a
<1>5. PutIs(a, NothingDealt, S, 0, 1, end, Cardinality(S))
  BY <1>1, <1>2, <1>3, <1>4, PutOutIs
<1>6. a \in Dealings /\ a.interviews = {}
  BY <1>4, <1>5 DEF PutIs
<1>7. ASSUME NEW o \in DOMAIN a.schedule
      PROVE  o \in 1..LastRunDay /\ a.schedule[o] \in S
  <2>1. o \in OffsetDays
    BY <1>6 DEF Dealings
  <2>2. o <= end /\ a.schedule[o] \in S
    BY <1>4, <1>5 DEF PutIs
  <2> QED BY <1>2, <2>1, <2>2, DatesFit DEF OffsetDays
<1>8. ASSUME NEW i \in S
      PROVE  i \in future /\ deadlineOf(i) # NoDate /\ ~ (deadlineOf(i) >= thisDay)
  <2>1. i \in future /\ deadlineOf(i) # NoDate
    BY DEF S
  <2>2. RoundOf[i] \in PlanRounds /\ deadlineOf(i) \in 0..LastRunDay
        /\ deadlineOf(i) = specDeadline(RoundOf[i]) /\ thisDay \in 1..LastRunDay /\ LastRunDay \in Nat
    BY <2>1, DatesFit DEF deadlineOf
  <2>3. ASSUME deadlineOf(i) >= thisDay
        PROVE  FALSE
    <3>1. deadlineOf(i) \in thisDay..LastRunDay
      BY <2>2, <2>3
    <3>2. deadlineOf(i) \in upcoming
      BY <2>2, <3>1 DEF upcoming
    <3> QED BY <3>2
  <2> QED BY <2>1, <2>3
<1>9. \A o, p \in DOMAIN a.schedule : a.schedule[o] = a.schedule[p] => o = p
  BY <1>4, <1>5 DEF PutIs
<1>10. ASSUME HasRoom, NEW i \in future, deadlineOf(i) # NoDate
       PROVE  Covers(a.schedule, i)
  <2>1. i \in S /\ Cardinality(S) <= 1
    BY <1>10 DEF HasRoom, S
  <2>2. PlaceIn(S, i) \in 1..Cardinality(S) /\ ItemAt(S, PlaceIn(S, i)) = i /\ Cardinality(S) \in Nat
    BY <1>3, <2>1, Places
  <2>3. Cardinality(S) = 1 /\ PlaceIn(S, i) = 1
    BY <2>1, <2>2
  <2>4. Stepwise(NothingDealt, S, 0, 1, end)
    BY <1>2, <1>4, <2>3 DEF Stepwise, Taken, OffsetDays
  <2>5. 0 + 1 * 1 \in DOMAIN a.schedule /\ a.schedule[0 + 1 * 1] = ItemAt(S, 1)
    BY <1>5, <2>3, <2>4 DEF PutIs
  <2> QED BY <2>2, <2>3, <2>5 DEF Covers
<1>11. DealIs(a.schedule, a.interviews)
  <2>1. a.interviews = {u - thisDay + 1 : u \in upcoming}
    BY <1>6
  <2> QED BY <1>6, <1>7, <1>8, <1>9, <1>10, <2>1 DEF DealIs
<1> QED BY <1>11 DEF a

\* With one date for the loop.
LEMMA DealtIs ==
  ASSUME RunwayTypeOK, ~ hasSpecDates, plan.loop # NoDate
  PROVE  /\ futureDays \in Nat \ {0} /\ (plan.loop > thisDay => thisDay + futureDays = plan.loop)
         /\ \A i \in Items : deadlineOf(i) = plan.loop
         /\ DOMAIN Dealt \subseteq 1..futureDays
         /\ \A o \in DOMAIN Dealt : Dealt[o] \in future
         /\ \A o, p \in DOMAIN Dealt : Dealt[o] = Dealt[p] => o = p
         /\ HasRoom => \A i \in future : Covers(Dealt, i)
         /\ plan.loop > thisDay /\ RoomToSpare(plan.loop) => \A o \in DOMAIN Dealt : o < futureDays
<1> DEFINE n == Cardinality(future)
           interval == Spread(futureDays, n)
           Upto(i) == {j \in future : j <= i}
           rank(i) == Cardinality(Upto(i))
           Slot(i) == Min({futureDays, rank(i) * interval})
           At(o) == {i \in future : Slot(i) = o}
<1>1. plan.loop \in 1..LastRunDay /\ thisDay \in 1..LastRunDay /\ LastRunDay \in Nat
  BY DatesFit DEF NoDate
<1>2. /\ futureDays \in Nat \ {0} /\ (plan.loop > thisDay => thisDay + futureDays = plan.loop)
      /\ futureDays = Max({1, plan.loop - thisDay})
  <2>1. daysLeft(plan.loop) - 1 = IF plan.loop < thisDay THEN 0 ELSE plan.loop - thisDay
    BY <1>1 DEF daysLeft
  <2>2. daysLeft(plan.loop) - 1 \in Int /\ plan.loop - thisDay \in Int
    BY <1>1, <2>1
  <2>3. futureDays = IF 1 >= daysLeft(plan.loop) - 1 THEN 1 ELSE daysLeft(plan.loop) - 1
    BY <2>2, OfTwo DEF futureDays
  <2>4. Max({1, plan.loop - thisDay}) = IF 1 >= plan.loop - thisDay THEN 1 ELSE plan.loop - thisDay
    BY <2>2, OfTwo
  <2> QED BY <1>1, <2>1, <2>3, <2>4
<1>3. \A i \in Items : deadlineOf(i) = plan.loop
  BY DatesFit DEF deadlineOf, specDeadline, hasSpecDates
<1>4. future \subseteq Items /\ IsFiniteSet(future) /\ n \in Nat /\ \A i \in future : i \in Nat
  <2>1. future \subseteq Items /\ IsFiniteSet(Items) /\ \A i \in Items : i \in Nat
    BY DatesFit
  <2> QED BY <2>1, FS_Subset, FS_CardinalityType
<1>5. /\ interval \in Nat \ {0} /\ (n <= futureDays => \A k \in 1..n : k * interval <= futureDays)
      /\ n < futureDays => \A k \in 1..n : k * interval < futureDays
  BY <1>2, <1>4, SpreadFits
<1>6. ASSUME NEW i \in future
      PROVE  IsFiniteSet(Upto(i)) /\ rank(i) \in 1..n
  <2>1. Upto(i) \subseteq future /\ i \in Upto(i)
    BY <1>4
  <2> HIDE DEF Upto
  <2>2. IsFiniteSet(Upto(i)) /\ rank(i) \in Nat /\ rank(i) <= n /\ rank(i) # 0
    BY <1>4, <2>1, FS_Subset, FS_CardinalityType, FS_EmptySet
  <2> HIDE DEF n, rank
  <2> QED BY <1>4, <2>2
<1>7. ASSUME NEW i \in future, NEW j \in future, i < j
      PROVE  rank(i) < rank(j)
  <2>1. Upto(i) \subseteq Upto(j) /\ j \in Upto(j) /\ j \notin Upto(i)
    BY <1>4, <1>7
  <2> HIDE DEF Upto
  <2>2. rank(i) <= rank(j) /\ rank(i) # rank(j)
    BY <1>6, <2>1, FS_Subset
  <2> HIDE DEF rank
  <2> QED BY <1>4, <1>6, <2>2
<1> HIDE DEF rank, interval, n, Upto
<1>13. \A i \in future : rank(i) \in 1..n
  BY <1>6
<1>14. \A i \in future : rank(i) \in Nat /\ 0 < rank(i)
  BY <1>4, <1>13
<1>8. ASSUME NEW i \in future
      PROVE  /\ rank(i) * interval \in Nat \ {0}
             /\ Slot(i) = IF futureDays <= rank(i) * interval THEN futureDays ELSE rank(i) * interval
             /\ Slot(i) \in 1..futureDays
  <2>1. rank(i) \in Nat /\ 0 < rank(i)
    BY <1>14
  <2>2. 0 * interval < rank(i) * interval /\ rank(i) * interval \in Nat
    BY <1>5, <2>1, StepsApart
  <2>3. 0 * interval = 0
    BY <1>5
  <2>4. PICK want \in Nat \ {0} : want = rank(i) * interval
    BY <2>2, <2>3
  <2>5. Slot(i) = Min({futureDays, want})
    BY <2>4
  <2> HIDE DEF Slot
  <2>6. Min({futureDays, want}) = IF futureDays <= want THEN futureDays ELSE want
    <3>1. want \in Int /\ futureDays \in Int
      BY <1>2
    <3> QED BY <3>1, OfTwo
  <2>7. Min({futureDays, want}) \in 1..futureDays
    BY <1>2, <2>6
  <2> QED BY <2>4, <2>5, <2>6, <2>7
<1>9. Dealt = [o \in {Slot(i) : i \in future} |-> Max(At(o))]
  BY DEF Dealt, interval, n, rank, Upto
<1> HIDE DEF Slot
<1>10. ASSUME NEW o \in DOMAIN Dealt
       PROVE  o \in 1..futureDays /\ Dealt[o] \in future /\ Slot(Dealt[o]) = o
  <2>1. Dealt[o] = Max(At(o)) /\ o \in {Slot(i) : i \in future}
    BY <1>9
  <2>2. PICK i \in future : o = Slot(i)
    BY <2>1
  <2>3. At(o) \subseteq 1..Len(RoundOf) /\ At(o) # {} /\ Len(RoundOf) \in Nat
    BY <1>4, <2>2, DatesFit
  <2> HIDE DEF At
  <2>4. Max(At(o)) \in At(o)
    BY <2>3, EndsAre
  <2> QED BY <1>8, <2>1, <2>2, <2>4 DEF At
<1>11. \A o, p \in DOMAIN Dealt : Dealt[o] = Dealt[p] => o = p
  BY <1>10
<1>12. ASSUME HasRoom, NEW i \in future
       PROVE  Covers(Dealt, i)
  <2>1. n <= futureDays
    BY <1>2, <1>12 DEF HasRoom, n
  <2>2. \A j \in future : Slot(j) = rank(j) * interval
    <3> SUFFICES ASSUME NEW j \in future
                 PROVE  Slot(j) = rank(j) * interval
      OBVIOUS
    <3>1. PICK want \in Nat : want = rank(j) * interval
      BY <1>8
    <3>2. Slot(j) = IF futureDays <= want THEN futureDays ELSE want
      BY <1>8, <3>1
    <3>3. want <= futureDays
      BY <1>5, <1>13, <2>1, <3>1
    <3> QED BY <1>2, <3>1, <3>2, <3>3
  <2>3. \A j, k \in future : rank(j) < rank(k) => Slot(j) # Slot(k)
    <3> SUFFICES ASSUME NEW j \in future, NEW k \in future, rank(j) < rank(k)
                 PROVE  Slot(j) # Slot(k)
      OBVIOUS
    <3>1. rank(j) \in Nat /\ rank(k) \in Nat
      BY <1>14
    <3>2. rank(j) * interval < rank(k) * interval /\ rank(j) * interval \in Nat /\ rank(k) * interval \in Nat
      BY <1>5, <3>1, StepsApart
    <3> QED BY <2>2, <3>2
  <2>4. \A j \in future : Slot(j) = Slot(i) => j = i
    BY <1>4, <1>7, <2>3
  <2>5. Slot(i) \in DOMAIN Dealt
    BY <1>9
  <2>6. Dealt[Slot(i)] = i
    BY <1>10, <2>4, <2>5
  <2> QED BY <2>5, <2>6 DEF Covers
<1>15. ASSUME plan.loop > thisDay, RoomToSpare(plan.loop), NEW o \in DOMAIN Dealt
       PROVE  o < futureDays
  <2>1. upcoming = {plan.loop}
    <3>1. PlanRounds # {}
      <4>1. 1 \in Items
        BY DatesFit
      <4> QED BY <4>1, DatesFit
    <3>3. \A r \in PlanRounds : specDeadline(r) = plan.loop
      BY DEF specDeadline, hasSpecDates
    <3>2. {specDeadline(r) : r \in PlanRounds} = {plan.loop}
      BY <3>1, <3>3
    <3> QED BY <1>1, <1>15, <3>2 DEF upcoming
  <2>2. Window(plan.loop) = plan.loop - thisDay
    <3>1. {d \in upcoming : d < plan.loop} = {}
      BY <1>1, <2>1
    <3> QED BY <3>1 DEF Window
  <2>3. Sharing(plan.loop) = future
    BY <1>3, <1>4 DEF Sharing
  <2>4. n < futureDays
    BY <1>1, <1>2, <1>15, <2>2, <2>3 DEF RoomToSpare, n
  <2>5. Dealt[o] \in future /\ Slot(Dealt[o]) = o
    BY <1>10
  <2>6. PICK want \in Nat : want = rank(Dealt[o]) * interval
    BY <1>8, <2>5
  <2>7. want < futureDays
    BY <1>5, <1>13, <2>4, <2>5, <2>6
  <2>8. Slot(Dealt[o]) = IF futureDays <= want THEN futureDays ELSE want
    BY <1>8, <2>5, <2>6
  <2> QED BY <1>2, <2>5, <2>7, <2>8
<1> QED BY <1>2, <1>3, <1>10, <1>11, <1>12, <1>15

\* The days that get a row: the first few, so that those without are later.
LEMMA VisibleIs ==
  ASSUME NEW last \in Nat \ {0}, NEW I, I \subseteq OffsetDays, NEW V, V = Visible(last, I)
  PROVE  /\ V \subseteq (1..last) \ I /\ IsFiniteSet(V) /\ Cardinality(V) <= FUTURE_DAYS_SHOWN
         /\ \A o \in ((1..last) \ I) \ V : o > FUTURE_DAYS_SHOWN /\ \A p \in V : p < o
         /\ I = {} => 1 \in V
<1> DEFINE Open(o) == (1..o) \ I
<1>0. FUTURE_DAYS_SHOWN \in Nat \ {0}
  BY RunwayAssumption
<1>1. V = {o \in (1..last) \ I : Cardinality(Open(o)) <= FUTURE_DAYS_SHOWN}
  BY DEF Visible
<1>2. \A o \in Nat : /\ IsFiniteSet(Open(o)) /\ Cardinality(Open(o)) \in Nat
                     /\ Cardinality(Open(o)) <= o
  <2> SUFFICES ASSUME NEW o \in Nat
               PROVE  /\ IsFiniteSet(Open(o)) /\ Cardinality(Open(o)) \in Nat
                      /\ Cardinality(Open(o)) <= o
    OBVIOUS
  <2>1. IsFiniteSet(1..o) /\ Cardinality(1..o) = o
    BY FS_Interval
  <2>2. Open(o) \subseteq 1..o
    OBVIOUS
  <2> HIDE DEF Open
  <2> QED BY <2>1, <2>2, FS_Subset, FS_CardinalityType
<1>3. V \subseteq 1..last /\ V \subseteq (1..last) \ I
  BY <1>1
<1>4. IsFiniteSet(V) /\ Cardinality(V) <= FUTURE_DAYS_SHOWN
  <2>1. CASE V = {}
    BY <1>0, <2>1, FS_EmptySet
  <2>2. CASE V # {}
    <3>1. Max(V) \in V /\ \A x \in V : x <= Max(V)
      BY <1>3, <2>2, EndsAre
    <3> DEFINE m == Max(V)
    <3>2. m \in 1..last /\ Cardinality(Open(m)) <= FUTURE_DAYS_SHOWN /\ m \in Nat
      BY <1>1, <1>3, <3>1
    <3>3. V \subseteq Open(m)
      BY <1>3, <3>1
    <3> HIDE DEF m, Open
    <3>4. IsFiniteSet(V) /\ Cardinality(V) <= Cardinality(Open(m)) /\ Cardinality(V) \in Nat
      BY <1>2, <3>2, <3>3, FS_Subset, FS_CardinalityType
    <3> QED BY <1>0, <1>2, <3>2, <3>4
  <2> QED BY <2>1, <2>2
<1>5. ASSUME NEW o \in ((1..last) \ I) \ V
      PROVE  o > FUTURE_DAYS_SHOWN /\ \A p \in V : p < o
  <2>1. o \in Nat /\ ~ (Cardinality(Open(o)) <= FUTURE_DAYS_SHOWN)
    BY <1>1
  <2>2. ASSUME NEW p \in V
        PROVE  p < o
    <3>1. p \in Nat /\ Cardinality(Open(p)) <= FUTURE_DAYS_SHOWN
      BY <1>1
    <3>2. ASSUME ~ (p < o)
          PROVE  FALSE
      <4>1. Open(o) \subseteq Open(p)
        BY <2>1, <3>1, <3>2
      <4> HIDE DEF Open
      <4>2. Cardinality(Open(o)) <= Cardinality(Open(p))
        BY <1>2, <3>1, <4>1, FS_Subset
      <4> QED BY <1>0, <1>2, <2>1, <3>1, <4>2
    <3> QED BY <3>2
  <2>3. o > FUTURE_DAYS_SHOWN
    <3> HIDE DEF Open
    <3> QED BY <1>0, <1>2, <2>1
  <2> QED BY <2>2, <2>3
<1>6. ASSUME I = {}
      PROVE  1 \in V
  <2>1. Cardinality(Open(1)) <= 1
    <3> HIDE DEF Open
    <3> QED BY <1>2
  <2>2. Cardinality(Open(1)) \in Nat
    <3> HIDE DEF Open
    <3> QED BY <1>2
  <2> HIDE DEF Open
  <2>3. Cardinality(Open(1)) <= FUTURE_DAYS_SHOWN
    BY <1>0, <2>1, <2>2
  <2> QED BY <1>1, <1>6, <2>3
<1> QED BY <1>3, <1>4, <1>5, <1>6

\* A deal of the days, and what the page makes of it.
RowsOf(schedule, shown, emitted) ==
  [days |-> Restrict(schedule, DOMAIN schedule \cap shown),
   beyond |-> {schedule[o] : o \in DOMAIN schedule \ shown},
   hidden |-> {schedule[o] : o \in {p \in DOMAIN schedule : p > emitted}},
   unscheduled |-> {i \in future : deadlineOf(i) = NoDate}]

\* What the rows rest on.
Deal(schedule, I, last) ==
  /\ DOMAIN schedule \subseteq 1..last /\ I \subseteq 1..LastRunDay
  /\ \A o \in DOMAIN schedule :
       /\ o \notin I /\ schedule[o] \in future /\ deadlineOf(schedule[o]) # NoDate
       /\ deadlineOf(schedule[o]) >= thisDay /\ (hasSpecDates \/ deadlineOf(schedule[o]) > thisDay) =>
            OnTime(o, deadlineOf(schedule[o]))
  /\ \A o, p \in DOMAIN schedule : schedule[o] = schedule[p] => o = p
  /\ HasRoom => \A i \in future : deadlineOf(i) # NoDate => Covers(schedule, i)
  /\ \A x \in I : hasSpecDates /\ \E u \in upcoming : x = u - thisDay + 1

\* The rows made of a deal keep what the timeline promises.
LEMMA RowsAreHonest ==
  ASSUME RunwayTypeOK, remaining # {},
         NEW schedule, NEW I, NEW last \in Nat \ {0}, Deal(schedule, I, last),
         NEW shown, shown = Visible(last, I),
         NEW rows, rows = RowsOf(schedule, shown, Max(shown \cup I))
  PROVE  EachItemOnce(rows) /\ InTime(rows) /\ NothingDropsOut(rows)
<1> DEFINE emitted == Max(shown \cup I)
           On(x) == \E o \in DOMAIN schedule : o \in shown /\ schedule[o] = x
           Off(x) == \E o \in DOMAIN schedule : o \notin shown /\ schedule[o] = x
           Late(x) == \E o \in DOMAIN schedule : o > emitted /\ schedule[o] = x
<1>1. /\ DOMAIN schedule \subseteq 1..last /\ I \subseteq 1..LastRunDay
      /\ LastRunDay \in Nat /\ FUTURE_DAYS_SHOWN \in Nat
      /\ \A o \in DOMAIN schedule : o \notin I
  BY RunwayAssumption DEF Deal
<1>2. /\ shown \subseteq (1..last) \ I /\ IsFiniteSet(shown) /\ Cardinality(shown) <= FUTURE_DAYS_SHOWN
      /\ \A o \in ((1..last) \ I) \ shown : o > FUTURE_DAYS_SHOWN /\ \A p \in shown : p < o
      /\ I = {} => 1 \in shown
  <2>1. I \subseteq OffsetDays
    BY <1>1 DEF OffsetDays
  <2> QED BY <2>1, VisibleIs
<1>3. shown \subseteq 1..last /\ (I = {} => 1 \in shown)
  BY <1>2
<1>4. emitted \in shown \cup I /\ \A x \in shown \cup I : x <= emitted
  <2> DEFINE S == shown \cup I
  <2>1. \A x \in S : x \in 1..(last + LastRunDay)
    BY <1>1, <1>3
  <2>2. S # {}
    BY <1>3
  <2>3. S \subseteq 1..(last + LastRunDay) /\ last + LastRunDay \in Nat
    BY <1>1, <2>1
  <2> HIDE DEF S
  <2>4. Max(S) \in S /\ \A x \in S : x <= Max(S)
    BY <2>2, <2>3, EndsAre
  <2> QED BY <2>4 DEF S
<1> HIDE DEF emitted
<1>5. emitted \in Nat /\ \A o \in DOMAIN schedule : o \in Nat
  BY <1>1, <1>3, <1>4
<1>6. /\ rows.days = [o \in DOMAIN schedule \cap shown |-> schedule[o]]
      /\ rows.beyond = {schedule[o] : o \in DOMAIN schedule \ shown}
      /\ rows.hidden = {schedule[o] : o \in {p \in DOMAIN schedule : p > emitted}}
      /\ rows.unscheduled = {i \in future : deadlineOf(i) = NoDate}
  BY DEF RowsOf, Restrict, emitted
<1>7. /\ DOMAIN rows.days = DOMAIN schedule \cap shown
      /\ \A o \in DOMAIN rows.days : rows.days[o] = schedule[o]
  BY <1>6
<1>8. \A x : x \in Range(rows.days) <=> On(x)
  BY <1>7 DEF Range
<1>9. \A x : x \in rows.beyond <=> Off(x)
  BY <1>6
<1>10. \A x : x \in rows.hidden <=> Late(x)
  BY <1>6
<1>11. \A x : x \in rows.unscheduled <=> x \in future /\ deadlineOf(x) = NoDate
  BY <1>6
<1>12. \A o \in DOMAIN schedule : schedule[o] \in future /\ deadlineOf(schedule[o]) # NoDate
  BY DEF Deal
<1>13. \A o, p \in DOMAIN schedule : schedule[o] = schedule[p] => o = p
  BY DEF Deal
<1>14. \A o \in DOMAIN schedule : o > emitted => o \notin shown
  <2>1. \A o \in shown : ~ (o > emitted)
    BY <1>3, <1>4, <1>5
  <2> QED BY <2>1
<1>15. todayItem \in remaining /\ \A x : x \in future <=> x \in remaining /\ x # todayItem
  BY TodayFits DEF future
<1>16. EachItemOnce(rows)
  <2>1. \A o, p \in DOMAIN rows.days : rows.days[o] = rows.days[p] => o = p
    <3> SUFFICES ASSUME NEW o \in DOMAIN rows.days, NEW p \in DOMAIN rows.days,
                        rows.days[o] = rows.days[p]
                 PROVE  o = p
      OBVIOUS
    <3>1. o \in DOMAIN schedule /\ p \in DOMAIN schedule /\ schedule[o] = schedule[p]
      BY <1>7
    <3> QED BY <1>13, <3>1
  <2>2. \A x : On(x) \/ Late(x) => x \in future /\ deadlineOf(x) # NoDate
    BY <1>12
  <2>3. \A x : ~ (On(x) /\ Late(x))
    BY <1>13, <1>14
  <2> HIDE DEF On, Late
  <2>4. \A x : /\ x \in Range(rows.days) => x \in future /\ x \notin rows.unscheduled /\ x \notin rows.hidden
               /\ x \in rows.hidden => x \in future /\ x \notin rows.unscheduled
               /\ x \in rows.unscheduled => x \in future
    BY <1>8, <1>10, <1>11, <2>2, <2>3
  <2> QED BY <1>15, <2>1, <2>4 DEF EachItemOnce, OnPage
<1>17. InTime(rows)
  BY <1>7 DEF InTime, Deal
<1>18. NothingDropsOut(rows)
  <2> SUFFICES ASSUME HasRoom
               PROVE  /\ remaining \subseteq OnPage(rows) \cup rows.beyond
                      /\ Cardinality(DOMAIN rows.days) <= FUTURE_DAYS_SHOWN
                      /\ rows.beyond # rows.hidden =>
                           \E dl \in upcoming : hasSpecDates /\ dl >= thisDay + FUTURE_DAYS_SHOWN
    BY DEF NothingDropsOut
  <2>1. ASSUME NEW i \in remaining
        PROVE  i \in OnPage(rows) \cup rows.beyond
    <3>1. CASE i = todayItem
      BY <3>1 DEF OnPage
    <3>2. CASE i # todayItem /\ deadlineOf(i) = NoDate
      BY <1>11, <1>15, <3>2 DEF OnPage
    <3>3. CASE i # todayItem /\ deadlineOf(i) # NoDate
      <4>1. i \in future
        BY <1>15, <3>3
      <4>2. Covers(schedule, i)
        BY <3>3, <4>1 DEF Deal
      <4>3. On(i) \/ Off(i)
        BY <4>2 DEF Covers
      <4> HIDE DEF On, Off
      <4> QED BY <1>8, <1>9, <4>3 DEF OnPage
    <3> QED BY <3>1, <3>2, <3>3
  <2>2. Cardinality(DOMAIN rows.days) <= FUTURE_DAYS_SHOWN
    <3>1. DOMAIN rows.days \subseteq shown
      BY <1>7
    <3>2. Cardinality(DOMAIN rows.days) <= Cardinality(shown) /\ Cardinality(DOMAIN rows.days) \in Nat
          /\ Cardinality(shown) \in Nat
      BY <1>2, <3>1, FS_Subset, FS_CardinalityType
    <3>3. Cardinality(shown) <= FUTURE_DAYS_SHOWN
      BY <1>2
    <3> QED BY <1>1, <3>2, <3>3
  <2>3. ASSUME rows.beyond # rows.hidden
        PROVE  \E dl \in upcoming : hasSpecDates /\ dl >= thisDay + FUTURE_DAYS_SHOWN
    <3>1. \E x : ~ (Off(x) <=> Late(x))
      <4> HIDE DEF Off, Late
      <4> QED BY <1>9, <1>10, <2>3
    <3>2. PICK o \in DOMAIN schedule : o \notin shown /\ ~ (o > emitted)
      BY <1>14, <3>1
    <3>3. o \in ((1..last) \ I) \ shown
      BY <1>1, <3>2
    <3>4. o > FUTURE_DAYS_SHOWN /\ \A p \in shown : p < o
      BY <1>2, <3>3
    <3>5. emitted \notin shown /\ emitted # o
      <4>1. emitted >= o
        BY <1>5, <3>2
      <4>2. \A p \in shown : p # emitted
        BY <1>5, <3>4, <4>1
      <4> QED BY <1>1, <1>4, <4>2
    <3>6. emitted \in I
      BY <1>4, <3>5
    <3>7. PICK u \in upcoming : hasSpecDates /\ emitted = u - thisDay + 1
      BY <3>6 DEF Deal
    <3>8. u \in Nat /\ thisDay \in Nat /\ o \in Nat
      BY <1>5, CameIs, DatesFit
    <3>9. u >= thisDay + FUTURE_DAYS_SHOWN
      BY <1>1, <1>5, <3>2, <3>4, <3>5, <3>7, <3>8
    <3> QED BY <3>7, <3>9
  <2> QED BY <2>1, <2>2, <2>3
<1> QED BY <1>16, <1>17, <1>18

\* With nothing dealt, all that remains is today's or has no day.
LEMMA NoRowsAreHonest ==
  ASSUME RunwayTypeOK, remaining = {} \/ (~ hasSpecDates /\ plan.loop = NoDate),
         NEW rows,
         rows = [days |-> <<>>, beyond |-> {}, hidden |-> {}, unscheduled |-> future]
  PROVE  EachItemOnce(rows) /\ InTime(rows) /\ NothingDropsOut(rows)
<1>1. /\ DOMAIN rows.days = {} /\ Range(rows.days) = {}
      /\ rows.beyond = {} /\ rows.hidden = {} /\ rows.unscheduled = future
  BY DEF Range
<1>2. future = remaining \ {todayItem} /\ (remaining # {} => todayItem \in remaining)
      /\ (remaining = {} => todayItem = NoItem)
  BY TodayFits DEF future
<1>3. OnPage(rows) = {todayItem} \cup future
  BY <1>1 DEF OnPage
<1>4. EachItemOnce(rows)
  BY <1>1, <1>2, <1>3 DEF EachItemOnce
<1>5. InTime(rows)
  BY <1>1 DEF InTime
<1>6. NothingDropsOut(rows)
  <2>1. Cardinality(DOMAIN rows.days) <= FUTURE_DAYS_SHOWN
    BY <1>1, FS_EmptySet, RunwayAssumption
  <2> QED BY <1>1, <1>2, <1>3, <2>1 DEF NothingDropsOut
<1> QED BY <1>4, <1>5, <1>6

\* The rows of the page, whichever way the days were dealt.
LEMMA PageIsHonest ==
  ASSUME RunwayTypeOK
  PROVE  EachItemOnce(Rows) /\ InTime(Rows) /\ NothingDropsOut(Rows)
<1> DEFINE undated == ~ hasSpecDates /\ plan.loop = NoDate
           dealt == IF hasSpecDates THEN DealtByRound
                    ELSE [schedule |-> Dealt, interviews |-> {}, cursor |-> 1]
           last == IF hasSpecDates THEN Max(DOMAIN dealt.schedule \cup dealt.interviews \cup {1})
                   ELSE futureDays
           shown == Visible(last, dealt.interviews)
           emitted == Max(shown \cup dealt.interviews)
<1>1. Rows = IF remaining = {} \/ undated
             THEN [days |-> <<>>, beyond |-> {}, hidden |-> {}, unscheduled |-> future]
             ELSE RowsOf(dealt.schedule, shown, emitted)
  BY DEF Rows, RowsOf
<1>2. CASE remaining = {} \/ undated
  <2> HIDE DEF dealt
  <2> QED BY <1>1, <1>2, NoRowsAreHonest
<1>3. CASE remaining # {} /\ ~ undated
  <2>1. last \in Nat \ {0} /\ Deal(dealt.schedule, dealt.interviews, last)
    <3>1. CASE hasSpecDates
      <4>1. dealt = DealtByRound
        BY <3>1
      <4> HIDE DEF dealt
      <4>2. DealIs(dealt.schedule, dealt.interviews)
        BY <3>1, <4>1, ByRoundIs, LeftoversAre
      <4>3. DOMAIN dealt.schedule \subseteq 1..LastRunDay /\ dealt.interviews \subseteq 1..LastRunDay
        <5>1. \A u \in upcoming : u - thisDay + 1 \in 1..LastRunDay
          BY CameIs, DatesFit
        <5> QED BY <4>2, <5>1 DEF DealIs
      <4> DEFINE S == DOMAIN dealt.schedule \cup dealt.interviews \cup {1}
      <4>4. S \subseteq 1..LastRunDay /\ S # {} /\ LastRunDay \in Nat
        BY <4>3, DatesFit
      <4>5. last = Max(S)
        BY <3>1
      <4>6. DOMAIN dealt.schedule \subseteq S
        OBVIOUS
      <4> HIDE DEF S, last
      <4>7. last \in S /\ \A x \in S : x <= last
        BY <4>4, <4>5, EndsAre
      <4>8. last \in Nat \ {0} /\ DOMAIN dealt.schedule \subseteq 1..last
        <5>1. last \in Nat \ {0} /\ \A x \in S : x \in Nat /\ x >= 1
          BY <4>4, <4>7
        <5>2. \A x \in S : x \in 1..last
          BY <4>7, <5>1
        <5> QED BY <4>6, <5>1, <5>2
      <4> QED BY <3>1, <4>2, <4>3, <4>8 DEF Deal, DealIs
    <3>2. CASE ~ hasSpecDates
      <4>1. dealt.schedule = Dealt /\ dealt.interviews = {} /\ last = futureDays
        BY <3>2
      <4> HIDE DEF dealt, last
      <4>2. plan.loop # NoDate
        BY <1>3, <3>2
      <4>3. /\ futureDays \in Nat \ {0} /\ (plan.loop > thisDay => thisDay + futureDays = plan.loop)
            /\ \A i \in Items : deadlineOf(i) = plan.loop
            /\ DOMAIN Dealt \subseteq 1..futureDays
            /\ \A o \in DOMAIN Dealt : Dealt[o] \in future
            /\ \A o, p \in DOMAIN Dealt : Dealt[o] = Dealt[p] => o = p
            /\ HasRoom => \A i \in future : Covers(Dealt, i)
            /\ plan.loop > thisDay /\ RoomToSpare(plan.loop) =>
                 \A o \in DOMAIN Dealt : o < futureDays
        BY <3>2, <4>2, DealtIs
      <4>4. ASSUME NEW o \in DOMAIN Dealt
            PROVE  /\ deadlineOf(Dealt[o]) # NoDate
                   /\ deadlineOf(Dealt[o]) > thisDay => OnTime(o, deadlineOf(Dealt[o]))
        <5>1. deadlineOf(Dealt[o]) = plan.loop /\ o \in 1..futureDays
          BY <4>3, DatesFit
        <5>2. plan.loop > thisDay => thisDay + o <= plan.loop
          BY <4>3, <5>1, DatesFit
        <5>3. plan.loop > thisDay /\ RoomToSpare(plan.loop) => thisDay + o < plan.loop
          BY <4>3, <5>1, DatesFit
        <5> QED BY <4>2, <5>1, <5>2, <5>3 DEF OnTime
      <4> QED BY <3>2, <4>1, <4>3, <4>4 DEF Deal
    <3> QED BY <3>1, <3>2
  <2>2. Rows = RowsOf(dealt.schedule, shown, emitted)
    <3> HIDE DEF dealt, last, shown
    <3> QED BY <1>1, <1>3
  <2> HIDE DEF dealt, last
  <2> QED BY <1>3, <2>1, <2>2, RowsAreHonest
<1> QED BY <1>2, <1>3

\* The timeline is honest whatever the dates, the day and the queue.
LEMMA RunwayKeeps ==
  RunwayTypeOK => RunwayIsHonest
BY PageIsHonest, NextIsToday DEF RunwayIsHonest, TodayIsNext

\* A plan and its queue stay ones.
LEMMA RunwayStarts ==
  RunwayInit => RunwayTypeOK
<1> SUFFICES ASSUME RunwayInit
             PROVE  RunwayTypeOK
  OBVIOUS
<1>1. RoundDates \subseteq RunDays \cup {NoDate} /\ LoopDates \subseteq RunDays \cup {NoDate}
      /\ 1 \in RunDays /\ MaxMoves \in Nat
  BY RunwayAssumption DEF RunDays, NoDate
<1> QED BY <1>1 DEF RunwayInit, RunwayTypeOK, Live

\* No night and no move of an item makes it anything else.
LEMMA RunwayStep ==
  RunwayTypeOK /\ [RunwayNext]_runwayVars => RunwayTypeOK'
<1> SUFFICES ASSUME RunwayTypeOK, RunwayNext \/ UNCHANGED runwayVars
             PROVE  RunwayTypeOK'
  OBVIOUS
<1>0. LastRunDay \in Nat /\ MaxMoves \in Nat
  BY RunwayAssumption
<1>1. CASE NightPasses
  BY <1>0, <1>1 DEF NightPasses, RunwayTypeOK, RunDays
<1>2. ASSUME NEW i \in Items, ItemMoves(i)
      PROVE  RunwayTypeOK'
  BY <1>0, <1>2 DEF ItemMoves, RunwayTypeOK
<1>3. CASE UNCHANGED runwayVars
  BY <1>3 DEF runwayVars, RunwayTypeOK
<1> QED BY <1>1, <1>2, <1>3 DEF RunwayNext

---------------------------------------------------------------------------
(* The allowance.                                                          *)

Booting == seat # NoSeat /\ ~ seat.up

\* A run that a gate let through is counted before it has written its row.
Coming == IF Booting THEN 1 ELSE 0
ComingRow == IF Booting /\ seat.round \in Practice THEN 1 ELSE 0

\* The day the paid rounds are counted from; without a subscription, the one that
\* would be counted from if it was bought today.
CountedFrom == IF since > 0 THEN since ELSE today

AllowanceInv ==
  /\ AllowanceTypeOK
  /\ since <= today
  /\ \A r \in Offered : \A d \in Days : d > today => rounds[r].runs[d] = 0
  /\ ~ exempt => since = 0 /\ ~ hasGrant /\ countRoundsRun + Coming <= FreeRounds + missed
  /\ ~ hasGrant => Cardinality(RunsSince(CountedFrom)) + ComingRow <= PaidRounds + missed

\* The counts are functions of the stored rounds.
RowsIn(R, day) ==
  {run \in Practice \X Days \X (1..MaxRuns) : run[2] >= day /\ run[3] <= R[run[1]].runs[run[2]]}
RanIn(R) == {r \in Planned : \E d \in Days : R[r].runs[d] > 0}

\* The rows are finitely many, and those since a later day are fewer.
LEMMA RunsFit ==
  ASSUME NEW R
  PROVE  /\ \A day \in Nat : IsFiniteSet(RowsIn(R, day)) /\ Cardinality(RowsIn(R, day)) \in Nat
         /\ IsFiniteSet(RanIn(R)) /\ Cardinality(RanIn(R)) \in Nat
         /\ \A from, to \in Nat : from <= to =>
              Cardinality(RowsIn(R, to)) <= Cardinality(RowsIn(R, from))
<1> DEFINE Pairs == (Practice \X Days) \X (1..MaxRuns)
           All == Practice \X Days \X (1..MaxRuns)
           f == [p \in Pairs |-> <<p[1][1], p[1][2], p[2]>>]
<1>1. IsFiniteSet(Practice) /\ IsFiniteSet(Planned) /\ IsFiniteSet(Days) /\ IsFiniteSet(1..MaxRuns)
      /\ LastDay \in Nat /\ MaxRuns \in Nat
  <2>1. LastDay \in Nat /\ MaxRuns \in Nat
    BY LimitsAssumption
  <2> QED BY <2>1, FS_Interval, OfferedAssumption DEF Days
<1>2. IsFiniteSet(Pairs)
  <2>1. IsFiniteSet(Practice \X Days)
    BY <1>1, FS_Product
  <2> QED BY <1>1, <2>1, FS_Product
<1>3. f \in Surjection(Pairs, All)
  <2>1. f \in [Pairs -> All]
    OBVIOUS
  <2>2. ASSUME NEW t \in All
        PROVE  \E p \in Pairs : f[p] = t
    <3>1. PICK a \in Practice, b \in Days, c \in 1..MaxRuns : t = <<a, b, c>>
      OBVIOUS
    <3>2. <<<<a, b>>, c>> \in Pairs /\ f[<<<<a, b>>, c>>] = <<a, b, c>>
      OBVIOUS
    <3> QED BY <3>1, <3>2
  <2> HIDE DEF f, Pairs, All
  <2> QED BY <2>1, <2>2 DEF Surjection
<1>4. IsFiniteSet(All)
  <2> HIDE DEF f, Pairs, All
  <2> QED BY <1>2, <1>3, FS_Surjection
<1>5. \A day \in Nat : IsFiniteSet(RowsIn(R, day)) /\ Cardinality(RowsIn(R, day)) \in Nat
  <2> SUFFICES ASSUME NEW day \in Nat
               PROVE  IsFiniteSet(RowsIn(R, day)) /\ Cardinality(RowsIn(R, day)) \in Nat
    OBVIOUS
  <2>1. RowsIn(R, day) \subseteq All
    BY DEF RowsIn
  <2> HIDE DEF All
  <2> QED BY <1>4, <2>1, FS_Subset, FS_CardinalityType
<1>6. IsFiniteSet(RanIn(R)) /\ Cardinality(RanIn(R)) \in Nat
  <2>1. RanIn(R) \subseteq Planned
    BY DEF RanIn
  <2> QED BY <1>1, <2>1, FS_Subset, FS_CardinalityType
<1>7. ASSUME NEW from \in Nat, NEW to \in Nat, from <= to
      PROVE  Cardinality(RowsIn(R, to)) <= Cardinality(RowsIn(R, from))
  <2>1. RowsIn(R, to) \subseteq RowsIn(R, from)
    <3> SUFFICES ASSUME NEW t \in All, t[2] >= to
                 PROVE  t[2] >= from
      BY DEF RowsIn
    <3>1. t[2] \in Nat
      BY <1>1 DEF Days
    <3> HIDE DEF All
    <3> QED BY <1>7, <3>1
  <2> QED BY <1>5, <2>1, FS_Subset
<1> QED BY <1>5, <1>6, <1>7

\* What the code counts, by the stored rounds.
LEMMA CountsAre ==
  /\ \A day : RunsSince(day) = RowsIn(rounds, day)
  /\ since \in Nat =>
       /\ countRoundsRun \in Nat /\ Cardinality(RowsIn(rounds, since)) <= countRoundsRun
       /\ since = 0 => countRoundsRun = Cardinality(RowsIn(rounds, 0)) + Cardinality(RanIn(rounds))
       /\ ~ Spent /\ ~ hasGrant => countRoundsRun < RoundLimit
<1>1. \A day : RunsSince(day) = RowsIn(rounds, day)
  BY DEF RunsSince, RowsIn
<1>2. ASSUME since \in Nat
      PROVE  /\ countRoundsRun \in Nat /\ Cardinality(RowsIn(rounds, since)) <= countRoundsRun
             /\ since = 0 => countRoundsRun = Cardinality(RowsIn(rounds, 0)) + Cardinality(RanIn(rounds))
             /\ ~ Spent /\ ~ hasGrant => countRoundsRun < RoundLimit
  <2>1. Cardinality(RowsIn(rounds, since)) \in Nat
    BY <1>2, RunsFit
  <2>2. Cardinality(ItemsRun) \in Nat
    <3>1. ItemsRun \subseteq Planned /\ IsFiniteSet(Planned)
      BY OfferedAssumption DEF ItemsRun
    <3> QED BY <3>1, FS_Subset, FS_CardinalityType
  <2>3. countRoundsRun = Cardinality(RowsIn(rounds, since)) + Cardinality(ItemsRun)
    BY <1>1 DEF countRoundsRun
  <2>4. since = 0 => ItemsRun = RanIn(rounds)
    BY DEF ItemsRun, RanIn, ItemCounts, HasRun
  <2>5. countBuilds \in Nat
    <3> DEFINE B == {r \in Offered : Kicked(r) /\ IF r \in Practice THEN InWindow(rounds[r].born) ELSE ItemCounts(r)}
    <3>1. IsFiniteSet(Offered)
      BY OfferedAssumption, FS_Union DEF Offered
    <3>2. B \subseteq Offered /\ countBuilds = Cardinality(B)
      BY DEF countBuilds
    <3> HIDE DEF B
    <3> QED BY <3>1, <3>2, FS_Subset, FS_CardinalityType
  <2>6. countRoundsRun \in Nat
    BY <2>1, <2>2, <2>3
  <2>7. roundsUsed = IF countRoundsRun >= countBuilds THEN countRoundsRun ELSE countBuilds
    BY <2>5, <2>6, OfTwo DEF roundsUsed
  <2>8. RoundLimit \in Nat
    BY LimitsAssumption DEF RoundLimit
  <2>9. ~ Spent /\ ~ hasGrant => countRoundsRun < RoundLimit
    BY <2>5, <2>6, <2>7, <2>8 DEF Spent
  <2> QED BY <2>1, <2>2, <2>3, <2>4, <2>6, <2>9
<1> QED BY <1>1, <1>2

\* The counts are of the runs, and of nothing else that is stored.
LEMMA RunsDecide ==
  ASSUME NEW R, NEW Q, \A r \in Offered : R[r].runs = Q[r].runs
  PROVE  (\A day : RowsIn(R, day) = RowsIn(Q, day)) /\ RanIn(R) = RanIn(Q)
<1>1. \A r \in Practice : R[r].runs = Q[r].runs
  BY DEF Offered
<1>2. \A r \in Planned : R[r].runs = Q[r].runs
  BY DEF Offered
<1> QED BY <1>1, <1>2 DEF RowsIn, RanIn

\* The invariant by the stored rounds.
AllowedBy(R, aseat, day, from, granted, let, loose) ==
  LET coming == aseat # NoSeat /\ ~ aseat.up
      counted == IF from > 0 THEN from ELSE day
  IN  /\ from <= day
      /\ \A r \in Offered : \A d \in Days : d > day => R[r].runs[d] = 0
      /\ ~ let =>
           /\ from = 0 /\ ~ granted
           /\ Cardinality(RowsIn(R, 0)) + Cardinality(RanIn(R)) + (IF coming THEN 1 ELSE 0) <= FreeRounds + loose
      /\ ~ granted =>
           Cardinality(RowsIn(R, counted)) + (IF coming /\ aseat.round \in Practice THEN 1 ELSE 0)
             <= PaidRounds + loose

\* It is the same invariant.
LEMMA AllowedByIs ==
  AllowanceInv <=>
    AllowanceTypeOK /\ AllowedBy(rounds, seat, today, since, hasGrant, exempt, missed)
<1> SUFFICES ASSUME AllowanceTypeOK
             PROVE  AllowanceInv <=> AllowedBy(rounds, seat, today, since, hasGrant, exempt, missed)
  BY DEF AllowanceInv
<1>1. since \in Nat
  BY LimitsAssumption DEF AllowanceTypeOK
<1>2. /\ \A day : RunsSince(day) = RowsIn(rounds, day)
      /\ since = 0 => countRoundsRun = Cardinality(RowsIn(rounds, 0)) + Cardinality(RanIn(rounds))
  BY <1>1, CountsAre
<1> QED BY <1>2 DEF AllowanceInv, AllowedBy, Coming, ComingRow, Booting, CountedFrom

\* A step that runs nothing and brings nobody to a room.
LEMMA QuietAllowance ==
  ASSUME NEW R, NEW Q, NEW aseat, NEW bseat, NEW day, NEW from, NEW granted, NEW let,
         NEW loose \in Nat, AllowedBy(R, aseat, day, from, granted, let, loose),
         \A r \in Offered : R[r].runs = Q[r].runs, bseat \in {aseat, NoSeat},
         day \in Nat, from \in Nat
  PROVE  AllowedBy(Q, bseat, day, from, granted, let, loose)
<1> DEFINE counted == IF from > 0 THEN from ELSE day
           c0 == Cardinality(RowsIn(R, 0)) + Cardinality(RanIn(R))
           c1 == Cardinality(RowsIn(R, counted))
<1>1. (\A x : RowsIn(Q, x) = RowsIn(R, x)) /\ RanIn(Q) = RanIn(R)
  BY RunsDecide
<1>2. c0 \in Nat /\ c1 \in Nat
  BY RunsFit
<1>3. c0 = Cardinality(RowsIn(Q, 0)) + Cardinality(RanIn(Q)) /\ c1 = Cardinality(RowsIn(Q, counted))
  BY <1>1
<1>4. FreeRounds \in Nat /\ PaidRounds \in Nat
  BY LimitsAssumption
<1> HIDE DEF c0, c1
<1>5. CASE bseat = aseat
  <2> USE DEF c0, c1
  <2> QED BY <1>3, <1>5 DEF AllowedBy
<1>6. CASE bseat = NoSeat
  <2>1. ~ let => from = 0 /\ ~ granted /\ c0 <= FreeRounds + loose
    <3>1. ~ let => from = 0 /\ ~ granted /\ c0 + (IF aseat # NoSeat /\ ~ aseat.up THEN 1 ELSE 0) <= FreeRounds + loose
      BY DEF AllowedBy, c0
    <3> QED BY <1>2, <1>4, <3>1
  <2>2. ~ granted => c1 <= PaidRounds + loose
    <3>1. ~ granted => c1 + (IF (aseat # NoSeat /\ ~ aseat.up) /\ aseat.round \in Practice THEN 1 ELSE 0) <= PaidRounds + loose
      BY DEF AllowedBy, c1
    <3> QED BY <1>2, <1>4, <3>1
  <2>3. c0 + 0 = c0 /\ c1 + 0 = c1
    BY <1>2
  <2> QED BY <1>3, <1>6, <2>1, <2>2, <2>3 DEF AllowedBy
<1> QED BY <1>5, <1>6

RoundRecords ==
  [status : {"none", "pending", "generating", "ready", "failed", "done", "skipped"},
   born : 0..LastDay, doneAt : 0..LastDay, runs : [Days -> 0..MaxRuns]]

\* The rounds' records, the room and the clock stay what they are.
LEMMA AllowanceFits ==
  AllowanceTypeOK /\ AllowanceNext => AllowanceTypeOK'
<1> SUFFICES ASSUME AllowanceTypeOK, AllowanceNext
             PROVE  AllowanceTypeOK'
  OBVIOUS
<1>0. /\ rounds \in [Offered -> RoundRecords] /\ today \in 1..LastDay /\ LastDay \in Nat /\ MaxRuns \in Nat
      /\ today \in 0..LastDay /\ \A r \in Practice : r \in Offered /\ \A p \in Planned : p \in Offered
  BY LimitsAssumption DEF AllowanceTypeOK, RoundRecords, Days, Offered
<1>1. ASSUME NEW r \in Offered, AsksFor(r) PROVE AllowanceTypeOK'
  BY <1>1 DEF AsksFor, AllowanceTypeOK
<1>2. ASSUME NEW r \in Offered, IsRecorded(r) PROVE AllowanceTypeOK'
  <2>1. rounds' \in [Offered -> RoundRecords]
    BY <1>0, <1>2 DEF IsRecorded, RoundRecords
  <2> QED BY <1>2, <2>1 DEF IsRecorded, AllowanceTypeOK, RoundRecords
<1>3. ASSUME NEW r \in Offered, IsBuilt(r) PROVE AllowanceTypeOK'
  <2>1. rounds' \in [Offered -> RoundRecords]
    BY <1>0, <1>3 DEF IsBuilt, RoundRecords
  <2> QED BY <1>3, <2>1 DEF IsBuilt, AllowanceTypeOK, RoundRecords
<1>4. ASSUME NEW r \in Offered, BuildEnds(r) PROVE AllowanceTypeOK'
  <2>1. rounds' \in [Offered -> RoundRecords]
    BY <1>0, <1>4 DEF BuildEnds, RoundRecords
  <2> QED BY <1>4, <2>1 DEF BuildEnds, AllowanceTypeOK, RoundRecords
<1>5. ASSUME NEW r \in Offered, IsSkipped(r) PROVE AllowanceTypeOK'
  <2>1. rounds' \in [Offered -> RoundRecords]
    BY <1>0, <1>5 DEF IsSkipped, RoundRecords
  <2> QED BY <1>5, <2>1 DEF IsSkipped, AllowanceTypeOK, RoundRecords
<1>6. ASSUME NEW r \in Offered, Launches(r) \/ Repeats(r) PROVE AllowanceTypeOK'
  <2>1. /\ seat' = [round |-> r, up |-> FALSE]
        /\ UNCHANGED <<rounds, waiting, today, since, action, buyable, exempt, broken>>
        /\ missed' \in 0..MaxMissed
    <3>1. StartsAt(r) /\ UNCHANGED <<rounds, waiting, today, since, action, buyable, exempt, broken>>
      BY <1>6 DEF Launches, Repeats
    <3>2. missed \in 0..MaxMissed /\ MaxMissed \in Nat
      BY LimitsAssumption DEF AllowanceTypeOK
    <3> QED BY <3>1, <3>2 DEF StartsAt
  <2>2. seat' \in [round : Offered, up : BOOLEAN]
    BY <2>1
  <2> QED BY <2>1, <2>2 DEF AllowanceTypeOK
<1>7. CASE RoundIsUp
  <2>1. seat.round \in Offered /\ seat \in [round : Offered, up : BOOLEAN]
    BY <1>7 DEF RoundIsUp, AllowanceTypeOK
  <2> DEFINE r == seat.round
  <2>2. rounds[r] \in RoundRecords /\ rounds[r].runs \in [Days -> 0..MaxRuns] /\ today \in Days
        /\ rounds[r].runs[today] \in 0..MaxRuns /\ rounds[r].runs[today] < MaxRuns
    BY <1>0, <1>7, <2>1 DEF RoundIsUp, RoundRecords, Days
  <2>3. [rounds[r].runs EXCEPT ![today] = @ + 1] \in [Days -> 0..MaxRuns]
    BY <1>0, <2>2
  <2>4. [rounds[r] EXCEPT !.runs[today] = @ + 1, !.status = IF @ = "done" THEN "ready" ELSE @] \in RoundRecords
    BY <2>2, <2>3 DEF RoundRecords
  <2>5. rounds' = [rounds EXCEPT ![r] =
          [rounds[r] EXCEPT !.runs[today] = @ + 1, !.status = IF @ = "done" THEN "ready" ELSE @]]
    BY <1>0, <1>7, <2>1 DEF RoundIsUp
  <2>6. rounds' \in [Offered -> RoundRecords]
    BY <1>0, <2>1, <2>4, <2>5
  <2>7. seat' \in [round : Offered, up : BOOLEAN]
    BY <1>7, <2>1 DEF RoundIsUp
  <2> QED BY <1>7, <2>6, <2>7 DEF RoundIsUp, AllowanceTypeOK, RoundRecords
<1>8. CASE Leaves
  <2>1. rounds' \in [Offered -> RoundRecords]
    <3>1. seat.round \in Offered
      BY <1>8 DEF Leaves, AllowanceTypeOK
    <3>2. rounds[seat.round] \in RoundRecords
      BY <1>0, <3>1
    <3>3. [rounds[seat.round] EXCEPT !.status = "done", !.doneAt = today] \in RoundRecords
      BY <1>0, <3>2 DEF RoundRecords
    <3>4. CASE UNCHANGED rounds
      BY <1>0, <3>4
    <3>5. CASE rounds' = [rounds EXCEPT ![seat.round].status = "done", ![seat.round].doneAt = today]
      <4>1. rounds' = [rounds EXCEPT ![seat.round] =
              [rounds[seat.round] EXCEPT !.status = "done", !.doneAt = today]]
        BY <1>0, <3>1, <3>5
      <4> QED BY <1>0, <3>1, <3>3, <4>1
    <3> QED BY <1>8, <3>4, <3>5 DEF Leaves
  <2> QED BY <1>8, <2>1 DEF Leaves, AllowanceTypeOK, RoundRecords
<1>9. CASE DayPasses
  <2>1. today' \in Days
    BY <1>0, <1>9 DEF DayPasses, Days
  <2> QED BY <1>9, <2>1 DEF DayPasses, AllowanceTypeOK
<1>10. ASSUME NEW a \in {"not_yet", "would_pay"}, Answers(a) PROVE AllowanceTypeOK'
  BY <1>10 DEF Answers, AllowanceTypeOK, Grants
<1>11. CASE Pays
  BY <1>0, <1>11 DEF Pays, AllowanceTypeOK
<1>12. CASE Lapses
  BY <1>0, <1>12 DEF Lapses, AllowanceTypeOK
<1>13. CASE GateBreaks
  BY <1>13 DEF GateBreaks, AllowanceTypeOK
<1> QED BY <1>1, <1>2, <1>3, <1>4, <1>5, <1>6, <1>7, <1>8, <1>9, <1>10, <1>11, <1>12, <1>13
        DEF AllowanceNext

\* A room is entered past a gate that counts one run fewer than it allows, or one
\* that fails.
LEMMA GateAllows ==
  ASSUME AllowanceTypeOK, AllowedBy(rounds, seat, today, since, hasGrant, exempt, missed),
         NEW r \in Offered, StartsAt(r), RoomFree
  PROVE  AllowedBy(rounds, [round |-> r, up |-> FALSE], today, since, hasGrant, exempt, missed')
<1> DEFINE c0 == Cardinality(RowsIn(rounds, 0)) + Cardinality(RanIn(rounds))
           counted == IF since > 0 THEN since ELSE today
           c1 == Cardinality(RowsIn(rounds, counted))
<1>1. since \in Nat /\ today \in Nat /\ 0 <= today /\ counted \in Nat
  BY LimitsAssumption DEF AllowanceTypeOK, Days
<1>2. /\ countRoundsRun \in Nat /\ Cardinality(RowsIn(rounds, since)) <= countRoundsRun
      /\ since = 0 => countRoundsRun = c0
      /\ ~ Spent /\ ~ hasGrant => countRoundsRun < RoundLimit
  BY <1>1, CountsAre
<1>3. c0 \in Nat /\ c1 \in Nat /\ Cardinality(RowsIn(rounds, since)) \in Nat
      /\ c1 <= Cardinality(RowsIn(rounds, since))
  BY <1>1, RunsFit
<1>4. FreeRounds \in Nat /\ PaidRounds \in Nat /\ FreeRounds <= PaidRounds
  BY LimitsAssumption
<1>10. missed \in Nat /\ missed' = (IF Spent THEN missed + 1 ELSE missed)
  BY LimitsAssumption DEF AllowanceTypeOK, StartsAt
<1>11. RoomFree /\ (~ hasGrant => c1 <= PaidRounds + missed) /\ (~ exempt => c0 <= FreeRounds + missed)
  BY <1>3, <1>4, <1>10 DEF AllowedBy, RoomFree
<1>5. /\ since <= today
      /\ \A q \in Offered : \A d \in Days : d > today => rounds[q].runs[d] = 0
      /\ ~ exempt => since = 0 /\ ~ hasGrant
  BY DEF AllowedBy
<1> HIDE DEF c0, c1, counted
<1>6. ~ hasGrant => c1 + 1 <= PaidRounds + missed'
  <2>1. CASE Spent
    BY <1>3, <1>4, <1>10, <1>11, <2>1
  <2>2. CASE ~ Spent
    <3>1. RoundLimit = (IF since > 0 THEN PaidRounds ELSE FreeRounds)
      BY DEF RoundLimit
    <3> QED BY <1>1, <1>2, <1>3, <1>4, <1>10, <2>2, <3>1
  <2> QED BY <2>1, <2>2
<1>8. ~ exempt => c0 + 1 <= FreeRounds + missed'
  <2>1. CASE Spent
    BY <1>3, <1>4, <1>10, <1>11, <2>1
  <2>2. CASE ~ Spent
    BY <1>1, <1>2, <1>3, <1>4, <1>5, <1>10, <2>2 DEF RoundLimit
  <2> QED BY <2>1, <2>2
<1>7. NoSeat.round = 0 /\ [round |-> r, up |-> FALSE] # NoSeat
  BY OfferedAssumption DEF NoSeat, Offered
<1>9. ~ hasGrant =>
        c1 + (IF [round |-> r, up |-> FALSE] # NoSeat /\ ~ [round |-> r, up |-> FALSE].up
                 /\ [round |-> r, up |-> FALSE].round \in Practice THEN 1 ELSE 0) <= PaidRounds + missed'
  BY <1>3, <1>4, <1>6, <1>10, <1>11
<1> QED BY <1>5, <1>7, <1>8, <1>9 DEF AllowedBy, c0, c1, counted

\* A run adds one row, or is the first of an item.
LEMMA RunCounts ==
  ASSUME AllowanceTypeOK, RoundIsUp,
         AllowedBy(rounds, seat, today, since, hasGrant, exempt, missed)
  PROVE  AllowedBy(rounds', seat', today, since, hasGrant, exempt, missed)
<1> DEFINE r == seat.round
           n == rounds[r].runs[today] + 1
           counted == IF since > 0 THEN since ELSE today
<1>1. /\ r \in Offered /\ seat \in [round : Offered, up : BOOLEAN] /\ ~ seat.up /\ seat # NoSeat
      /\ seat' = [seat EXCEPT !.up = TRUE] /\ seat'.up
  BY DEF RoundIsUp, AllowanceTypeOK
<1>2. /\ rounds \in [Offered -> RoundRecords] /\ today \in Days /\ LastDay \in Nat /\ MaxRuns \in Nat
      /\ today \in Nat /\ since \in Nat /\ counted \in Nat
  BY LimitsAssumption DEF AllowanceTypeOK, RoundRecords, Days
<1>3. /\ \A q \in Offered : q # r => rounds'[q].runs = rounds[q].runs
      /\ rounds'[r].runs = [rounds[r].runs EXCEPT ![today] = n]
      /\ n \in 1..MaxRuns
  BY <1>1, <1>2 DEF RoundIsUp, RoundRecords
<1>4. \A d \in Days : rounds[r].runs[d] \in 0..MaxRuns
  BY <1>1, <1>2 DEF RoundRecords
<1>5. \A d \in Days : rounds'[r].runs[d] = IF d = today THEN n ELSE rounds[r].runs[d]
  BY <1>1, <1>2, <1>3 DEF RoundRecords
<1> HIDE DEF n
<1>6. rounds[r].runs[today] = n - 1
  BY <1>2, <1>3, <1>4 DEF n
<1>7. ASSUME NEW from \in Nat, from <= today
      PROVE  RowsIn(rounds', from) = IF r \in Practice THEN RowsIn(rounds, from) \cup {<<r, today, n>>}
                                     ELSE RowsIn(rounds, from)
  <2>1. ASSUME NEW q \in Practice, NEW d \in Days, NEW k \in 1..MaxRuns
        PROVE  k <= rounds'[q].runs[d] <=>
                 k <= rounds[q].runs[d] \/ (q = r /\ d = today /\ k = n)
    <3>1. q \in Offered /\ k \in Nat /\ d \in Nat
      BY <1>2 DEF Offered, Days
    <3>2. CASE q # r
      BY <1>3, <3>1, <3>2
    <3>3. CASE q = r /\ d # today
      BY <1>5, <3>3
    <3>4. CASE q = r /\ d = today
      BY <1>3, <1>5, <1>6, <3>1, <3>4
    <3> QED BY <3>2, <3>3, <3>4
  <2>2. <<r, today, n>>[2] >= from
    BY <1>7, <1>2
  <2>3. CASE r \in Practice
    <3>1. <<r, today, n>> \in Practice \X Days \X (1..MaxRuns)
      BY <1>2, <1>3, <2>3
    <3>2. ASSUME NEW t \in Practice \X Days \X (1..MaxRuns)
          PROVE  t \in RowsIn(rounds', from) <=> t \in RowsIn(rounds, from) \/ t = <<r, today, n>>
      <4>1. PICK q \in Practice, d \in Days, k \in 1..MaxRuns : t = <<q, d, k>>
        OBVIOUS
      <4>2. t \in RowsIn(rounds', from) <=> d >= from /\ k <= rounds'[q].runs[d]
        BY <4>1 DEF RowsIn
      <4>3. t \in RowsIn(rounds, from) <=> d >= from /\ k <= rounds[q].runs[d]
        BY <4>1 DEF RowsIn
      <4>4. t = <<r, today, n>> <=> q = r /\ d = today /\ k = n
        BY <4>1
      <4>5. today >= from
        BY <1>2, <1>7
      <4> QED BY <2>1, <4>2, <4>3, <4>4, <4>5
    <3>3. /\ RowsIn(rounds', from) \subseteq Practice \X Days \X (1..MaxRuns)
          /\ RowsIn(rounds, from) \subseteq Practice \X Days \X (1..MaxRuns)
      BY DEF RowsIn
    <3> QED BY <2>3, <3>1, <3>2, <3>3
  <2>4. CASE r \notin Practice
    <3>1. \A q \in Practice : \A d \in Days, k \in 1..MaxRuns :
            k <= rounds'[q].runs[d] <=> k <= rounds[q].runs[d]
      BY <2>1, <2>4
    <3> QED BY <2>4, <3>1 DEF RowsIn
  <2> QED BY <2>3, <2>4
<1>8. RanIn(rounds') \subseteq RanIn(rounds) \cup (IF r \in Practice THEN {} ELSE {r})
  <2>1. ASSUME NEW q \in Planned, q # r, NEW d \in Days, rounds'[q].runs[d] > 0
        PROVE  rounds[q].runs[d] > 0
    BY <1>3, <2>1 DEF Offered
  <2>2. r \in Practice => r \notin Planned
    BY OfferedAssumption
  <2> QED BY <2>1, <2>2 DEF RanIn
<1> DEFINE rows0 == Cardinality(RowsIn(rounds, 0))
           rows1 == Cardinality(RowsIn(rounds, counted))
           items == Cardinality(RanIn(rounds))
           one == IF r \in Practice THEN 1 ELSE 0
<1>9. ASSUME NEW from \in Nat, from <= today
      PROVE  /\ Cardinality(RowsIn(rounds', from)) \in Nat /\ Cardinality(RowsIn(rounds, from)) \in Nat
             /\ Cardinality(RowsIn(rounds', from)) <= Cardinality(RowsIn(rounds, from)) + one
  <2>1. IsFiniteSet(RowsIn(rounds, from)) /\ Cardinality(RowsIn(rounds, from)) \in Nat
        /\ Cardinality(RowsIn(rounds', from)) \in Nat
    BY RunsFit
  <2> DEFINE rows == RowsIn(rounds, from)
             row == <<r, today, n>>
  <2>2. RowsIn(rounds', from) = IF r \in Practice THEN rows \cup {row} ELSE rows
    BY <1>7, <1>9
  <2> HIDE DEF r, n, rows, row
  <2>3. Cardinality(rows \cup {row}) = IF row \in rows THEN Cardinality(rows) ELSE Cardinality(rows) + 1
    BY <2>1, FS_AddElement DEF rows
  <2>4. Cardinality(rows) \in Nat
    BY <2>1 DEF rows
  <2>5. Cardinality(rows \cup {row}) <= Cardinality(rows) + 1
    BY <2>3, <2>4
  <2>6. Cardinality(RowsIn(rounds', from)) <= Cardinality(rows) + one
    <3>1. CASE r \in Practice
      BY <2>2, <2>5, <3>1
    <3>2. CASE r \notin Practice
      BY <2>2, <2>4, <3>2
    <3> QED BY <3>1, <3>2
  <2> QED BY <2>1, <2>6 DEF rows
<1>10. /\ Cardinality(RanIn(rounds')) \in Nat /\ items \in Nat
       /\ Cardinality(RanIn(rounds')) <= items + (1 - one)
  <2>1. IsFiniteSet(RanIn(rounds)) /\ items \in Nat /\ Cardinality(RanIn(rounds')) \in Nat
    BY RunsFit
  <2>2. CASE r \in Practice
    <3>1. RanIn(rounds') \subseteq RanIn(rounds)
      BY <1>8, <2>2
    <3>2. Cardinality(RanIn(rounds')) <= items
      BY <2>1, <3>1, FS_Subset
    <3> QED BY <2>1, <2>2, <3>2
  <2>3. CASE r \notin Practice
    <3>1. RanIn(rounds') \subseteq RanIn(rounds) \cup {r}
      BY <1>8, <2>3
    <3>2. IsFiniteSet(RanIn(rounds) \cup {r}) /\ Cardinality(RanIn(rounds) \cup {r}) <= items + 1
          /\ Cardinality(RanIn(rounds) \cup {r}) \in Nat
      <4> HIDE DEF r, items
      <4>1. /\ IsFiniteSet(RanIn(rounds) \cup {r})
            /\ Cardinality(RanIn(rounds) \cup {r}) =
                 IF r \in RanIn(rounds) THEN Cardinality(RanIn(rounds)) ELSE Cardinality(RanIn(rounds)) + 1
        BY <2>1, FS_AddElement
      <4>2. Cardinality(RanIn(rounds)) \in Nat /\ items = Cardinality(RanIn(rounds))
        BY <2>1 DEF items
      <4> QED BY <4>1, <4>2
    <3>3. Cardinality(RanIn(rounds')) <= Cardinality(RanIn(rounds) \cup {r})
      BY <3>1, <3>2, FS_Subset
    <3> QED BY <2>1, <2>3, <3>2, <3>3
  <2> QED BY <2>2, <2>3
<1>11. /\ since <= today
       /\ \A q \in Offered : \A d \in Days : d > today => rounds[q].runs[d] = 0
       /\ ~ exempt => since = 0 /\ ~ hasGrant /\ rows0 + items + 1 <= FreeRounds + missed
       /\ ~ hasGrant => rows1 + one <= PaidRounds + missed
  BY <1>1 DEF AllowedBy
<1>12. counted <= today /\ 0 <= today /\ 0 \in Nat
  BY <1>2, <1>11
<1>13. /\ rows0 \in Nat /\ Cardinality(RowsIn(rounds', 0)) <= rows0 + one
       /\ Cardinality(RowsIn(rounds', 0)) \in Nat
  BY <1>9, <1>12
<1>14. /\ rows1 \in Nat /\ Cardinality(RowsIn(rounds', counted)) <= rows1 + one
       /\ Cardinality(RowsIn(rounds', counted)) \in Nat
  BY <1>2, <1>9, <1>12
<1>15. \A q \in Offered : \A d \in Days : d > today => rounds'[q].runs[d] = 0
  <2> SUFFICES ASSUME NEW q \in Offered, NEW d \in Days, d > today
               PROVE  rounds'[q].runs[d] = 0
    OBVIOUS
  <2>1. d # today
    BY <1>2
  <2> QED BY <1>3, <1>5, <1>11, <2>1
<1> HIDE DEF rows0, rows1, items, counted, r
<1>16. FreeRounds \in Nat /\ PaidRounds \in Nat /\ one \in {0, 1} /\ missed \in Nat
  BY LimitsAssumption DEF AllowanceTypeOK
<1> HIDE DEF one
<1>17. ~ exempt => Cardinality(RowsIn(rounds', 0)) + Cardinality(RanIn(rounds')) + 0 <= FreeRounds + missed
  BY <1>10, <1>11, <1>13, <1>16
<1>18. ~ hasGrant => Cardinality(RowsIn(rounds', counted)) + 0 <= PaidRounds + missed
  BY <1>11, <1>14, <1>16
<1> QED BY <1>1, <1>11, <1>15, <1>17, <1>18 DEF AllowedBy, counted

\* Later days are counted from, or fewer.
LEMMA LaterAllows ==
  ASSUME AllowanceTypeOK, AllowedBy(rounds, seat, today, since, hasGrant, exempt, missed),
         NEW day \in Nat, NEW from \in Nat, NEW granted, NEW let,
         today <= day, from <= day,
         granted \in BOOLEAN, hasGrant => granted,
         ~ let => ~ exempt /\ from = 0 /\ ~ granted,
         (IF since > 0 THEN since ELSE today) <= (IF from > 0 THEN from ELSE day)
  PROVE  AllowedBy(rounds, seat, day, from, granted, let, missed)
<1> DEFINE counted == IF since > 0 THEN since ELSE today
           count == IF from > 0 THEN from ELSE day
           one == IF (seat # NoSeat /\ ~ seat.up) /\ seat.round \in Practice THEN 1 ELSE 0
<1>1. since \in Nat /\ today \in Nat /\ counted \in Nat /\ count \in Nat /\ counted <= count
  BY LimitsAssumption DEF AllowanceTypeOK, Days
<1>2. \A d \in Days : d \in Nat
  BY LimitsAssumption DEF Days
<1>3. \A q \in Offered : \A d \in Days : d > day => rounds[q].runs[d] = 0
  BY <1>1, <1>2 DEF AllowedBy
<1>4. ~ hasGrant => Cardinality(RowsIn(rounds, counted)) + one <= PaidRounds + missed
  BY DEF AllowedBy
<1> HIDE DEF counted, count, one
<1>5. /\ Cardinality(RowsIn(rounds, count)) <= Cardinality(RowsIn(rounds, counted))
      /\ Cardinality(RowsIn(rounds, count)) \in Nat /\ Cardinality(RowsIn(rounds, counted)) \in Nat
  BY <1>1, RunsFit
<1>6. one \in Nat /\ PaidRounds \in Nat /\ missed \in Nat
  BY LimitsAssumption DEF one, AllowanceTypeOK
<1>7. ~ granted => Cardinality(RowsIn(rounds, count)) + one <= PaidRounds + missed
  BY <1>4, <1>5, <1>6
<1>8. ~ let => from = 0 /\ ~ granted
               /\ Cardinality(RowsIn(rounds, 0)) + Cardinality(RanIn(rounds))
                    + (IF seat # NoSeat /\ ~ seat.up THEN 1 ELSE 0) <= FreeRounds + missed
  BY DEF AllowedBy
<1> QED BY <1>3, <1>7, <1>8 DEF AllowedBy, count, one

\* Every step keeps the invariant.
LEMMA AllowanceStep ==
  AllowanceInv /\ [AllowanceNext]_allowanceVars => AllowanceInv'
<1> SUFFICES ASSUME AllowanceInv, AllowanceNext \/ UNCHANGED allowanceVars
             PROVE  AllowanceInv'
  OBVIOUS
<1> DEFINE Allowed == AllowedBy(rounds, seat, today, since, hasGrant, exempt, missed)
<1>1. AllowanceTypeOK /\ Allowed
  BY AllowedByIs
<1>2. AllowanceTypeOK'
  <2>1. CASE UNCHANGED allowanceVars
    BY <1>1, <2>1 DEF allowanceVars, AllowanceTypeOK
  <2> QED BY <1>1, <2>1, AllowanceFits
<1>3. Allowed' <=> AllowedBy(rounds', seat', today', since', hasGrant', exempt', missed')
  BY DEF AllowedBy, RowsIn, RanIn, NoSeat, Offered, Days
<1>4. SUFFICES Allowed'
  <2>1. AllowanceInv' <=> AllowanceTypeOK' /\ Allowed'
    BY AllowedByIs, PTL
  <2> QED BY <1>2, <1>4, <2>1
<1>5. since \in Nat /\ today \in Nat /\ today >= 1 /\ since <= today /\ missed \in Nat
  BY <1>1, LimitsAssumption DEF AllowanceTypeOK, Days, AllowedBy
<1>6. rounds \in [Offered -> RoundRecords]
  BY <1>1 DEF AllowanceTypeOK, RoundRecords
<1> HIDE DEF Allowed
<1>7. ASSUME \A r \in Offered : rounds[r].runs = rounds'[r].runs, seat' \in {seat, NoSeat},
             UNCHANGED <<today, since, action, buyable, exempt, missed>>
      PROVE  Allowed'
  <2>1. hasGrant' = hasGrant
    BY <1>7 DEF hasGrant, Grants
  <2>2. AllowedBy(rounds', seat', today, since, hasGrant, exempt, missed)
    BY <1>1, <1>5, <1>7, QuietAllowance DEF Allowed
  <2> QED BY <1>3, <1>7, <2>1, <2>2
<1>8. ASSUME NEW r \in Offered, AsksFor(r) PROVE Allowed'
  BY <1>7, <1>8 DEF AsksFor
<1>9. ASSUME NEW r \in Offered, IsRecorded(r) PROVE Allowed'
  BY <1>6, <1>7, <1>9 DEF IsRecorded, RoundRecords
<1>10. ASSUME NEW r \in Offered, IsBuilt(r) PROVE Allowed'
  BY <1>6, <1>7, <1>10 DEF IsBuilt, RoundRecords
<1>11. ASSUME NEW r \in Offered, BuildEnds(r) PROVE Allowed'
  BY <1>6, <1>7, <1>11 DEF BuildEnds, RoundRecords
<1>12. ASSUME NEW r \in Offered, IsSkipped(r) PROVE Allowed'
  BY <1>6, <1>7, <1>12 DEF IsSkipped, RoundRecords
<1>13. ASSUME NEW r \in Offered, Launches(r) \/ Repeats(r) PROVE Allowed'
  <2>1. /\ StartsAt(r) /\ RoomFree /\ seat' = [round |-> r, up |-> FALSE]
        /\ UNCHANGED <<rounds, today, since, action, buyable, exempt>>
    BY <1>13 DEF Launches, Repeats, StartsAt
  <2>2. hasGrant' = hasGrant
    BY <2>1 DEF hasGrant, Grants
  <2>3. AllowedBy(rounds, [round |-> r, up |-> FALSE], today, since, hasGrant, exempt, missed')
    BY <1>1, <2>1, GateAllows DEF Allowed
  <2> QED BY <1>3, <2>1, <2>2, <2>3
<1>14. CASE RoundIsUp
  <2>1. hasGrant' = hasGrant /\ UNCHANGED <<today, since, exempt, missed>>
    BY <1>14 DEF RoundIsUp, hasGrant, Grants
  <2>2. AllowedBy(rounds', seat', today, since, hasGrant, exempt, missed)
    BY <1>1, <1>14, RunCounts DEF Allowed
  <2> QED BY <1>3, <2>1, <2>2
<1>15. CASE Leaves
  <2>1. \A r \in Offered : rounds[r].runs = rounds'[r].runs
    BY <1>6, <1>15 DEF Leaves, RoundRecords
  <2> QED BY <1>7, <1>15, <2>1 DEF Leaves
<1>16. CASE DayPasses
  <2>1. hasGrant' = hasGrant /\ today' = today + 1 /\ UNCHANGED <<rounds, seat, since, exempt, missed>>
    BY <1>16 DEF DayPasses, hasGrant, Grants
  <2>2. AllowedBy(rounds, seat, today + 1, since, hasGrant, exempt, missed)
    <3>1. hasGrant \in BOOLEAN
      BY DEF hasGrant, Grants
    <3>2. ~ exempt => since = 0 /\ ~ hasGrant
      BY <1>1 DEF Allowed, AllowedBy
    <3>3. (IF since > 0 THEN since ELSE today) <= (IF since > 0 THEN since ELSE today + 1)
          /\ today <= today + 1 /\ since <= today + 1 /\ today + 1 \in Nat
      BY <1>5
    <3> QED BY <1>1, <1>5, <3>1, <3>2, <3>3, LaterAllows DEF Allowed
  <2> QED BY <1>3, <2>1, <2>2
<1>17. ASSUME NEW a \in {"not_yet", "would_pay"}, Answers(a) PROVE Allowed'
  <2>1. /\ UNCHANGED <<rounds, seat, today, since, buyable, missed>> /\ action' = a
        /\ exempt' = (exempt \/ Grants(a)) /\ action \notin {a, "would_pay"}
    BY <1>17 DEF Answers
  <2>2. hasGrant' = Grants(a) /\ hasGrant' \in BOOLEAN /\ (hasGrant => hasGrant')
    BY <2>1 DEF hasGrant, Grants
  <2>3. ~ exempt' => ~ exempt /\ since = 0 /\ ~ hasGrant'
    BY <1>1, <2>1, <2>2 DEF Allowed, AllowedBy
  <2>4. (IF since > 0 THEN since ELSE today) <= (IF since > 0 THEN since ELSE today) /\ today <= today
    BY <1>5
  <2>5. AllowedBy(rounds, seat, today, since, hasGrant', exempt', missed)
    <3> DEFINE g == hasGrant'
               x == exempt'
    <3>1. g \in BOOLEAN /\ (hasGrant => g) /\ (~ x => ~ exempt /\ since = 0 /\ ~ g)
      BY <2>2, <2>3
    <3> HIDE DEF g, x
    <3>2. AllowedBy(rounds, seat, today, since, g, x, missed)
      BY <1>1, <1>5, <2>4, <3>1, LaterAllows DEF Allowed
    <3> QED BY <3>2 DEF g, x
  <2> QED BY <1>3, <2>1, <2>5
<1>18. CASE Pays
  <2>1. hasGrant' = hasGrant /\ since' = today /\ exempt' = TRUE /\ UNCHANGED <<rounds, seat, today, missed>>
    BY <1>18 DEF Pays, hasGrant, Grants
  <2>2. AllowedBy(rounds, seat, today, today, hasGrant, TRUE, missed)
    <3>1. hasGrant \in BOOLEAN
      BY DEF hasGrant, Grants
    <3>2. (IF since > 0 THEN since ELSE today) <= (IF today > 0 THEN today ELSE today) /\ today <= today
      BY <1>5
    <3> QED BY <1>1, <1>5, <3>1, <3>2, LaterAllows DEF Allowed
  <2> QED BY <1>3, <2>1, <2>2
<1>19. CASE Lapses
  <2>1. hasGrant' = hasGrant /\ since' = 0 /\ since > 0 /\ UNCHANGED <<rounds, seat, today, exempt, missed>>
    BY <1>19 DEF Lapses, hasGrant, Grants
  <2>2. AllowedBy(rounds, seat, today, 0, hasGrant, exempt, missed)
    <3>1. hasGrant \in BOOLEAN
      BY DEF hasGrant, Grants
    <3>2. ~ exempt => since = 0 /\ ~ hasGrant
      BY <1>1 DEF Allowed, AllowedBy
    <3>3. (IF since > 0 THEN since ELSE today) <= (IF 0 > 0 THEN 0 ELSE today) /\ today <= today /\ 0 <= today
          /\ 0 \in Nat
      BY <1>5
    <3> QED BY <1>1, <1>5, <3>1, <3>2, <3>3, LaterAllows DEF Allowed
  <2> QED BY <1>3, <2>1, <2>2
<1>20. CASE UNCHANGED allowanceVars
  BY <1>7, <1>20 DEF allowanceVars
<1>21. CASE GateBreaks
  BY <1>7, <1>21 DEF GateBreaks
<1> QED BY <1>8, <1>9, <1>10, <1>11, <1>12, <1>13, <1>14, <1>15, <1>16, <1>17, <1>18, <1>19, <1>20, <1>21
        DEF AllowanceNext

\* Nobody has run anything yet.
LEMMA AllowanceStarts ==
  AllowanceInit => AllowanceInv
<1> SUFFICES ASSUME AllowanceInit
             PROVE  AllowanceInv
  OBVIOUS
<1>1. LastDay \in Nat /\ 1 \in Days /\ MaxRuns \in Nat /\ FreeRounds \in Nat /\ PaidRounds \in Nat
      /\ \A d \in Days : d \in Nat
  BY LimitsAssumption DEF Days
<1>2. rounds \in [Offered -> RoundRecords]
  BY <1>1 DEF AllowanceInit, RoundRecords
<1>3. AllowanceTypeOK
  <2>1. /\ waiting = {} /\ seat = NoSeat /\ today = 1 /\ since = 0 /\ action = "none"
        /\ buyable \in BOOLEAN /\ exempt = FALSE /\ broken = FALSE /\ missed = 0
    BY DEF AllowanceInit
  <2>2. 0 \in 0..LastDay /\ 0 \in 0..MaxMissed
    BY <1>1, LimitsAssumption
  <2>3. {buyable, exempt, broken} \subseteq BOOLEAN
    <3>1. exempt \in BOOLEAN /\ broken \in BOOLEAN
      BY <2>1
    <3> QED BY <2>1, <3>1, Zenon
  <2> QED BY <1>1, <1>2, <2>1, <2>2, <2>3 DEF AllowanceTypeOK, RoundRecords
<1>4. \A r \in Offered : \A d \in Days : rounds[r].runs[d] = 0
  BY DEF AllowanceInit
<1>5. RanIn(rounds) = {}
  BY <1>4 DEF RanIn, Offered
<1>6. \A day : RowsIn(rounds, day) = {}
  BY <1>4, <1>1 DEF RowsIn, Offered
<1>7. Cardinality({}) = 0
  BY FS_EmptySet
<1>8. since = 0 /\ today = 1 /\ seat = NoSeat /\ ~ hasGrant /\ missed = 0
  BY DEF AllowanceInit, hasGrant, Grants
<1>9. AllowedBy(rounds, seat, today, since, hasGrant, exempt, missed)
  BY <1>1, <1>4, <1>5, <1>6, <1>7, <1>8 DEF AllowedBy
<1> QED BY <1>3, <1>9, AllowedByIs

\* The rounds a customer runs are bounded.
LEMMA AllowanceKeeps ==
  AllowanceInv => AllowanceIsBounded
<1> SUFFICES ASSUME AllowanceInv
             PROVE  AllowanceIsBounded
  OBVIOUS
<1>1. since \in Nat /\ FreeRounds \in Nat /\ PaidRounds \in Nat /\ missed \in Nat
  BY LimitsAssumption DEF AllowanceInv, AllowanceTypeOK
<1>2. countRoundsRun \in Nat /\ Cardinality(RunsSince(since)) \in Nat
  BY <1>1, CountsAre, RunsFit
<1>3. Coming \in {0, 1} /\ ComingRow \in {0, 1}
  BY DEF Coming, ComingRow
<1>4. ~ exempt => countRoundsRun <= FreeRounds + missed
  BY <1>1, <1>2, <1>3 DEF AllowanceInv
<1>5. since > 0 /\ ~ hasGrant => Cardinality(RunsSince(since)) <= PaidRounds + missed
  <2>1. since > 0 => CountedFrom = since
    BY DEF CountedFrom
  <2> QED BY <1>1, <1>2, <1>3, <2>1 DEF AllowanceInv
<1> QED BY <1>4, <1>5 DEF AllowanceIsBounded

---------------------------------------------------------------------------
(* All parts.                                                              *)

everyVar ==
  <<part, billingVars, allowanceVars, workspaceVars, adaptVars, memoryVars, greetingVars,
    mirrorVars, backupVars, verdictVars, runwayVars, gateVars>>

\* A step of the app is one of each part, or leaves the part alone.
LEMMA PartsStep ==
  [Next]_everyVar =>
    /\ [WorkspaceNext]_workspaceVars
    /\ [AdaptNext]_adaptVars
    /\ [GateNext]_gateVars
    /\ [BillingNext]_billingVars
    /\ [GreetingNext]_greetingVars
    /\ [MirrorNext]_mirrorVars
    /\ [BackupNext]_backupVars
    /\ [MemoryNext]_memoryVars
    /\ [VerdictNext]_verdictVars
    /\ [AllowanceNext]_allowanceVars
    /\ [RunwayNext]_runwayVars
<1> SUFFICES ASSUME [Next]_everyVar
             PROVE  /\ WorkspaceNext \/ UNCHANGED workspaceVars
                    /\ AdaptNext \/ UNCHANGED adaptVars
                    /\ GateNext \/ UNCHANGED gateVars
                    /\ BillingNext \/ UNCHANGED billingVars
                    /\ GreetingNext \/ UNCHANGED greetingVars
                    /\ MirrorNext \/ UNCHANGED mirrorVars
                    /\ BackupNext \/ UNCHANGED backupVars
                    /\ MemoryNext \/ UNCHANGED memoryVars
                    /\ VerdictNext \/ UNCHANGED verdictVars
                    /\ AllowanceNext \/ UNCHANGED allowanceVars
                    /\ RunwayNext \/ UNCHANGED runwayVars
  OBVIOUS
<1>1. CASE UNCHANGED everyVar
  BY <1>1 DEF everyVar
<1>2. CASE Next
  BY <1>2, Zenon DEF Next, Others
<1> QED BY <1>1, <1>2

\* The invariants of the parts together, which hold whatever part runs.
PreparedInv == WorkspaceInv /\ AdaptInv /\ GateInv
UpkeepInv == BillingInv /\ GreetingInv /\ MirrorInv /\ BackupsInv
EarnedInv == MemoryInv /\ VerdictInv
OffersInv == AllowanceInv /\ RunwayTypeOK

\* What was prepared is kept: a round is handed out as it was ruled on and done
\* again from what was generated, every session and all work is found, and a plan
\* that changes leaves no item on a retired shape and marks what no longer matches.
THEOREM PreparedWork == Spec => []PreparedWorkIsKept
<1>1. Init => PreparedInv
  BY WorkspaceStarts, AdaptStarts, GateStarts DEF Init, PreparedInv
<1>2. PreparedInv /\ [Next]_everyVar => PreparedInv'
  BY PartsStep, WorkspaceStep, AdaptStep, GateStep DEF PreparedInv
<1>3. PreparedInv => PreparedWorkIsKept
  BY WorkspaceKeeps, AdaptKeeps, GateKeeps DEF PreparedInv, PreparedWorkIsKept
<1> QED BY <1>1, <1>2, <1>3, PTL DEF Spec, everyVar

\* Upkeep is safe: for all sweeps, subscriptions, cards and backups.
THEOREM Upkeep == Spec => []UpkeepIsSafe
<1>1. Init => UpkeepInv
  BY BillingStarts, GreetingStarts, MirrorStarts, BackupStarts DEF Init, UpkeepInv
<1>2. UpkeepInv /\ [Next]_everyVar => UpkeepInv'
  BY PartsStep, BillingStep, GreetingStep, MirrorStep, BackupStep DEF UpkeepInv
<1>3. UpkeepInv => UpkeepIsSafe
  BY BillingKeeps, GreetingKeeps DEF UpkeepInv, UpkeepIsSafe, CopiesHold, MirrorInv, BackupsInv
<1> QED BY <1>1, <1>2, <1>3, PTL DEF Spec, everyVar

\* What is offered is the candidate's: for any rounds, limits and orders of
\* builds, runs, repeats and payments nobody runs more rounds than the allowance
\* has and the gate missed while it was failing; and for any queue, dates and day
\* no item stands after its round, nor on its day while the way to it has a day
\* to spare, and none is dropped where every window has a day for each.
THEOREM OffersHonest == Spec => []OffersAreHonest
<1>1. Init => OffersInv
  BY AllowanceStarts, RunwayStarts DEF Init, OffersInv
<1>2. OffersInv /\ [Next]_everyVar => OffersInv'
  BY PartsStep, AllowanceStep, RunwayStep DEF OffersInv
<1>3. OffersInv => OffersAreHonest
  BY AllowanceKeeps, RunwayKeeps DEF OffersInv, OffersAreHonest
<1> QED BY <1>1, <1>2, <1>3, PTL DEF Spec, everyVar

\* What is said of a player has a ground: a receipt quotes what the candidate
\* did, lost speech is shown, and what the memory keeps is of real rounds that
\* were judged, in one row of a ledger each, whichever process wrote it and
\* wherever one died.  While a round is in the gap store twice nothing is said of
\* its closings; a store that was written over or cut short may lose rounds the
\* ledger has; and records and cards are answered for only where no rejudge came
\* before the end or died writing, and cards only where the round wrote its own.
THEOREM SaidIsEarned == Spec => []WhatIsSaidIsEarned
<1>1. Init => EarnedInv
  BY MemoryStarts, VerdictStarts DEF Init, EarnedInv
<1>2. EarnedInv /\ [Next]_everyVar => EarnedInv'
  BY PartsStep, MemoryStep, VerdictStep DEF EarnedInv
<1>3. EarnedInv => WhatIsSaidIsEarned
  BY MemoryKeeps, VerdictKeeps DEF EarnedInv, WhatIsSaidIsEarned
<1> QED BY <1>1, <1>2, <1>3, PTL DEF Spec, everyVar

---------------------------------------------------------------------------
(* What the variables hold.                                                *)

\* The ledger: rows are of a subscription, a change and a period there was.
RealRows == {row \in LedgerRow : row.period <= row.at}

BillingBounds ==
  /\ stripe \in [Subs -> RealRows \cup {NoRow}]
  /\ changes \in 0..MaxChanges
  /\ mail \subseteq [type : EventTypes, row : RealRows]
  /\ calls \subseteq [type : EventTypes \cup {"confirm"}, row : RealRows,
                      got : RealRows \cup {NoRow}]
  /\ top \in RealRows \cup {NoRow}
  /\ torn \in BOOLEAN /\ overtaken \in BOOLEAN /\ lost \in BOOLEAN
  /\ billingFaults \in 0..MaxBillingFaults

\* A change makes one more row.
LEMMA MovesFit ==
  ASSUME BillingBounds, NEW s \in Subs, NEW status \in Statuses, NEW period \in Nat \ {0},
         period <= changes + 1, NEW types \in SUBSET EventTypes, Moves(s, status, period, types)
  PROVE  BillingBounds'
<1> DEFINE row == [sub |-> s, status |-> status, period |-> period, at |-> changes + 1]
<1>1. /\ changes < MaxChanges /\ changes' = changes + 1 /\ stripe' = [stripe EXCEPT ![s] = row]
      /\ mail' = mail \cup {Event(t, row) : t \in types}
      /\ UNCHANGED <<calls, top, torn, overtaken, lost, billingFaults>>
  BY DEF Moves
<1>2. MaxChanges \in Nat /\ changes \in Nat
  BY BillingBoundsAssumption DEF BillingBounds
<1>3. changes' \in 0..MaxChanges
  BY <1>1, <1>2
<1>4. row \in RealRows
  <2>1. period \in 1..(MaxChanges + 1) /\ changes + 1 \in 1..MaxChanges
    BY <1>1, <1>2
  <2>2. row \in LedgerRow
    BY <2>1 DEF LedgerRow
  <2> QED BY <2>2 DEF RealRows
<1> HIDE DEF row
<1>5. stripe' \in [Subs -> RealRows \cup {NoRow}]
  BY <1>1, <1>4 DEF BillingBounds
<1>6. mail' \subseteq [type : EventTypes, row : RealRows]
  <2>1. \A t \in types : Event(t, row) \in [type : EventTypes, row : RealRows]
    BY <1>4 DEF Event
  <2> QED BY <1>1, <2>1 DEF BillingBounds
<1> QED BY <1>1, <1>3, <1>5, <1>6 DEF BillingBounds

\* Stripe makes the changes one by one.
LEMMA StripeFits ==
  ASSUME BillingInv, BillingBounds, NEW s \in Subs,
         Subscribes(s) \/ Renews(s) \/ CardFails(s) \/ DunningGivesUp(s) \/ Cancels(s)
  PROVE  BillingBounds'
<1>1. changes \in Nat
  BY BillingBoundsAssumption DEF BillingBounds
<1>2. s # 0
  BY SubsAssumption
<1>3. ASSUME stripe[s].sub = s
      PROVE  stripe[s].period \in Nat \ {0} /\ stripe[s].period + 1 \in Nat \ {0}
             /\ stripe[s].period <= changes + 1 /\ stripe[s].period + 1 <= changes + 1
  <2>1. stripe[s] # NoRow
    BY <1>2, <1>3 DEF NoRow, NoSub
  <2>2. stripe[s] \in RealRows
    BY <2>1 DEF BillingBounds
  <2>3. /\ stripe[s].period \in 1..(MaxChanges + 1) /\ stripe[s].at \in 1..MaxChanges
        /\ stripe[s].period <= stripe[s].at
    BY <2>2 DEF RealRows, LedgerRow
  <2>4. stripe[s].at <= changes
    BY <2>1 DEF BillingInv, StripeCounts
  <2> QED BY <1>1, <2>3, <2>4, BillingBoundsAssumption
<1>4. CASE Subscribes(s)
  <2>1. Moves(s, "active", 1, {"checkout.session.completed", "customer.subscription.created"})
    BY <1>4 DEF Subscribes
  <2>2. /\ "active" \in Statuses /\ 1 \in Nat \ {0} /\ 1 <= changes + 1
        /\ {"checkout.session.completed", "customer.subscription.created"} \in SUBSET EventTypes
    BY <1>1 DEF Statuses, EventTypes
  <2> QED BY <2>1, <2>2, MovesFit
<1>5. CASE Renews(s)
  <2>1. Moves(s, "active", stripe[s].period + 1,
              {"customer.subscription.updated", "invoice.payment_succeeded"}) /\ stripe[s].sub = s
    BY <1>5 DEF Renews
  <2>2. /\ "active" \in Statuses
        /\ {"customer.subscription.updated", "invoice.payment_succeeded"} \in SUBSET EventTypes
    BY DEF Statuses, EventTypes
  <2> QED BY <1>3, <2>1, <2>2, MovesFit
<1>6. CASE CardFails(s)
  <2>1. Moves(s, "past_due", stripe[s].period,
              {"customer.subscription.updated", "invoice.payment_failed"}) /\ stripe[s].sub = s
    BY <1>6 DEF CardFails
  <2>2. /\ "past_due" \in Statuses
        /\ {"customer.subscription.updated", "invoice.payment_failed"} \in SUBSET EventTypes
    BY DEF Statuses, EventTypes
  <2> QED BY <1>3, <2>1, <2>2, MovesFit
<1>7. CASE DunningGivesUp(s)
  <2>1. Moves(s, "unpaid", stripe[s].period, {"customer.subscription.updated"}) /\ stripe[s].sub = s
    BY <1>7 DEF DunningGivesUp
  <2>2. "unpaid" \in Statuses /\ {"customer.subscription.updated"} \in SUBSET EventTypes
    BY DEF Statuses, EventTypes
  <2> QED BY <1>3, <2>1, <2>2, MovesFit
<1>8. CASE Cancels(s)
  <2>1. Moves(s, "canceled", stripe[s].period, {"customer.subscription.deleted"}) /\ stripe[s].sub = s
    BY <1>8 DEF Cancels
  <2>2. "canceled" \in Statuses /\ {"customer.subscription.deleted"} \in SUBSET EventTypes
    BY DEF Statuses, EventTypes
  <2> QED BY <1>3, <2>1, <2>2, MovesFit
<1> QED BY <1>4, <1>5, <1>6, <1>7, <1>8

\* A row put on the ledger, or not.
LEMMA RecordsFit ==
  ASSUME BillingBounds, NEW row \in RealRows, Records(row)
  PROVE  /\ top' \in RealRows \cup {NoRow} /\ torn' \in BOOLEAN /\ overtaken' \in BOOLEAN
         /\ lost' \in BOOLEAN /\ billingFaults' \in 0..MaxBillingFaults
<1>1. CASE Appends(row)
  BY <1>1 DEF Appends, BillingBounds
<1>2. CASE AppendFails
  BY <1>2, BillingBoundsAssumption DEF AppendFails, BillingFault, BillingBounds
<1> QED BY <1>1, <1>2 DEF Records

\* Whatever arrives, is asked or fails, the rows are real ones.
LEMMA BillingFits ==
  BillingInv /\ BillingBounds /\ [BillingNext]_billingVars => BillingBounds'
<1> SUFFICES ASSUME BillingInv, BillingBounds, BillingNext \/ UNCHANGED billingVars
             PROVE  BillingBounds'
  OBVIOUS
<1> DEFINE Mails == [type : EventTypes, row : RealRows]
           Calls == [type : EventTypes \cup {"confirm"}, row : RealRows, got : RealRows \cup {NoRow}]
<1>1. mail \subseteq Mails /\ calls \subseteq Calls
  BY DEF BillingBounds
<1>2. \A C \in SUBSET calls : Owed(C) \subseteq Mails
  <2> SUFFICES ASSUME NEW C \in SUBSET calls, NEW c \in C, c.type # "confirm"
               PROVE  Event(c.type, c.row) \in Mails
    BY DEF Owed
  <2> QED BY <1>1 DEF Event
<1>3. CASE UNCHANGED billingVars
  BY <1>3 DEF billingVars, BillingBounds
<1>4. ASSUME NEW s \in Subs, ReturnsFromCheckout(s) PROVE BillingBounds'
  <2>1. stripe[s] \in RealRows
    <3>1. stripe[s] # NoRow
      BY <1>4, SubsAssumption DEF ReturnsFromCheckout, NoRow, NoSub
    <3> QED BY <3>1 DEF BillingBounds
  <2>2. [type |-> "confirm", row |-> stripe[s], got |-> NoRow] \in Calls
    BY <2>1
  <2> QED BY <1>1, <1>4, <2>2 DEF ReturnsFromCheckout, BillingBounds
<1>5. ASSUME NEW e \in mail, Delivered(e) PROVE BillingBounds'
  <2>1. e.row \in RealRows /\ e.type \in EventTypes
    BY <1>1
  <2>2. Records(e.row)
    BY <1>5, <2>1 DEF Delivered, HANDLED_EVENTS
  <2> QED BY <1>5, <2>1, <2>2, RecordsFit DEF Delivered, BillingBounds
<1>6. ASSUME NEW e \in mail, DeliveredAgainLater(e) PROVE BillingBounds'
  <2>1. e.row \in RealRows
    BY <1>1
  <2>2. billingFaults' \in 0..MaxBillingFaults
    BY <1>6, BillingBoundsAssumption DEF DeliveredAgainLater, BillingFault, BillingBounds
  <2> QED BY <1>6, <2>1, <2>2 DEF DeliveredAgainLater, BillingBounds
<1>7. ASSUME NEW e \in mail, Asks(e) PROVE BillingBounds'
  <2>1. [type |-> e.type, row |-> e.row, got |-> NoRow] \in Calls
    BY <1>1
  <2> QED BY <1>1, <1>7, <2>1 DEF Asks, BillingBounds
<1>8. ASSUME NEW c \in calls, Answered(c) PROVE BillingBounds'
  <2>1. c \in Calls /\ c.row.sub \in Subs
    BY <1>1 DEF RealRows, LedgerRow
  <2>2. [c EXCEPT !.got = stripe[c.row.sub]] \in Calls
    BY <2>1 DEF BillingBounds
  <2> QED BY <1>1, <1>8, <2>2 DEF Answered, BillingBounds
<1>9. ASSUME NEW c \in calls, Recorded(c) PROVE BillingBounds'
  <2>1. c.got \in RealRows
    BY <1>1, <1>9 DEF Recorded
  <2> QED BY <1>1, <1>9, <2>1, RecordsFit DEF Recorded, BillingBounds
<1>10. ASSUME NEW c \in calls, RetrieveFails(c) PROVE BillingBounds'
  <2>1. Owed({c}) \subseteq Mails
    BY <1>2
  <2>2. billingFaults' \in 0..MaxBillingFaults
    BY <1>10, BillingBoundsAssumption DEF RetrieveFails, BillingFault, BillingBounds
  <2> QED BY <1>1, <1>10, <2>1, <2>2 DEF RetrieveFails, BillingBounds
<1>11. CASE BillingCrash
  <2>1. Owed(calls) \subseteq Mails
    BY <1>2
  <2>2. billingFaults' \in 0..MaxBillingFaults
    BY <1>11, BillingBoundsAssumption DEF BillingCrash, BillingFault, BillingBounds
  <2>3. torn' \in BOOLEAN
    BY <1>11, Zenon DEF BillingCrash, BillingBounds
  <2> QED BY <1>1, <1>11, <2>1, <2>2, <2>3 DEF BillingCrash, BillingBounds
<1> QED BY <1>3, <1>4, <1>5, <1>6, <1>7, <1>8, <1>9, <1>10, <1>11, StripeFits DEF BillingNext

\* The mail: what history remembers is of people, and bounds are kept.
MailBounds ==
  /\ pending \subseteq People /\ unsure \subseteq People
  /\ begun \in 0..MaxSweeps /\ mailFaults \in 0..MaxMailFaults

\* Sweeps and seeds remember people.
LEMMA MailFits ==
  GreetingInv /\ MailBounds /\ [GreetingNext]_greetingVars => MailBounds'
<1> SUFFICES ASSUME GreetingInv, MailBounds, GreetingNext \/ UNCHANGED greetingVars
             PROVE  MailBounds'
  OBVIOUS
<1>1. \A s \in Sweeps : sweeps[s].hand \subseteq People
  BY DEF GreetingInv, GreetingTypes
<1>2. /\ begun < MaxSweeps /\ begun' = begun + 1 => begun' \in 0..MaxSweeps
      /\ SomethingFails => mailFaults' \in 0..MaxMailFaults
  BY GreetingBoundsAssumption DEF MailBounds, SomethingFails
<1>3. CASE UNCHANGED greetingVars
  BY <1>3 DEF greetingVars, MailBounds
<1>4. ASSUME NEW u \in People, GrowsOlder(u) PROVE MailBounds'
  BY <1>4 DEF GrowsOlder, MailBounds, history
<1>5. ASSUME NEW s \in Sweeps,
             \/ Begins(s) \/ ClaimsNext(s) \/ ClaimErrs(s) \/ Sends(s)
             \/ Notes(s) \/ Releases(s) \/ ReleaseErrs(s) \/ Ends(s) \/ Dies(s)
      PROVE  MailBounds'
  BY <1>2, <1>5 DEF Begins, ClaimsNext, ClaimErrs, Sends, Notes, Releases, ReleaseErrs, Ends, Dies,
     MailBounds, history
<1>6. ASSUME NEW s \in Sweeps, SendErrs(s) \/ NoteErrs(s) PROVE MailBounds'
  <2>1. unsure' \subseteq People
    BY <1>1, <1>6 DEF SendErrs, NoteErrs, MailBounds
  <2> QED BY <1>2, <1>6, <2>1 DEF SendErrs, NoteErrs, MailBounds
<1>7. CASE SeedLists \/ SeedClaims
  <2>1. pending' \subseteq People
    BY <1>1, <1>7 DEF SeedLists, SeedClaims, MailBounds, history
  <2> QED BY <1>7, <2>1 DEF SeedLists, SeedClaims, MailBounds, history
<1> QED BY <1>3, <1>4, <1>5, <1>6, <1>7 DEF GreetingNext

\* The mirror's counters.
MirrorBounds == swept \in 0..MaxSwept /\ losses \in 0..MaxLosses

\* Sweeps and losses are counted within their bounds.
LEMMA MirrorFits ==
  MirrorBounds /\ [MirrorNext]_mirrorVars => MirrorBounds'
<1> SUFFICES ASSUME MirrorBounds, MirrorNext \/ UNCHANGED mirrorVars
             PROVE  MirrorBounds'
  OBVIOUS
<1>1. UNCHANGED <<swept, losses>>
      \/ (swept < MaxSwept /\ swept' = swept + 1 /\ losses' = losses)
      \/ (losses < MaxLosses /\ losses' = losses + 1 /\ swept' = swept)
  <2>1. CASE UNCHANGED mirrorVars
    BY <2>1 DEF mirrorVars
  <2>2. ASSUME NEW c \in Cards, WriteBegins(c) \/ WriteEnds(c) PROVE UNCHANGED <<swept, losses>>
    BY <2>2 DEF WriteBegins, WriteEnds
  <2>3. CASE SweepLists
    BY <2>3 DEF SweepLists
  <2>4. CASE SweepReads \/ SweepPosts
    BY <2>4, Zenon DEF SweepReads, SweepPosts
  <2>5. CASE Restarts
    BY <2>5 DEF Restarts
  <2>6. ASSUME NEW q \in requests, RequestLands(q) PROVE UNCHANGED <<swept, losses>>
    BY <2>6, Zenon DEF RequestLands
  <2>7. ASSUME NEW q \in requests, RequestFails(q)
        PROVE  losses < MaxLosses /\ losses' = losses + 1 /\ swept' = swept
    BY <2>7, Zenon DEF RequestFails
  <2> QED BY <2>1, <2>2, <2>3, <2>4, <2>5, <2>6, <2>7 DEF MirrorNext
<1> QED BY <1>1, MirrorBoundsAssumption DEF MirrorBounds

\* The round and its card: within the bounds of the clock, the trace and the reads.
VerdictBounds ==
  /\ clock <= MaxClock /\ segment.since <= clock
  /\ Len(trace) \in 1..MaxTrace /\ reads \in 0..MaxReads
  /\ \A row \in verdict.rows : \A q \in row.quotes : q.of \in 1..Len(trace)

\* A quote is of an event there was.
LEMMA AssessFits ==
  ASSUME VerdictInv, VerdictBounds, NEW graded \in BOOLEAN, NEW cited \in SUBSET Seconds,
         Assess(graded, cited)
  PROVE  \A row \in verdict'.rows : \A q \in row.quotes : q.of \in 1..Len(trace)
<1>1. /\ trace \in Seq(Entries)
      /\ verdict'.rows = {Clamped(trace, CardRow(trace, d, graded, cited)) : d \in Dimensions}
  BY DEF Assess, VerdictInv, VerdictTypes
<1> SUFFICES ASSUME NEW d \in Dimensions,
                    NEW q \in Clamped(trace, CardRow(trace, d, graded, cited)).quotes
             PROVE  q.of \in 1..Len(trace)
  BY <1>1
<1>2. PICK row : row = CardRow(trace, d, graded, cited)
  OBVIOUS
<1>3. row \in VerdictRows /\ \A p \in row.quotes : p.at \in Seconds /\ p.of \in eventAtOffset(trace, p.at)
  BY <1>1, <1>2, CardRowFits
<1>4. q \in row.quotes
  BY <1>2, <1>3, ClampedFits
<1>5. q.at \in Seconds /\ q.at \in Nat /\ q.of \in eventAtOffset(trace, q.at)
  <2>1. Seconds \subseteq Nat
    BY VerdictAssumption DEF Seconds
  <2> QED BY <1>3, <1>4, <2>1
<1>6. q.of \in Citable(trace)
  BY <1>1, <1>5, OffsetFacts
<1> QED BY <1>1, <1>6, TraceFacts DEF Citable

\* Events, judgings and replies stay within the bounds.
LEMMA VerdictFits ==
  VerdictInv /\ VerdictBounds /\ [VerdictNext]_verdictVars => VerdictBounds'
<1> SUFFICES ASSUME VerdictInv, VerdictBounds, VerdictNext \/ UNCHANGED verdictVars
             PROVE  VerdictBounds'
  OBVIOUS
<1>1. /\ clock \in Nat /\ segment.since \in Nat /\ Len(trace) \in Nat /\ reads \in Nat
      /\ trace \in Seq(Entries) /\ MaxTrace \in Nat /\ MaxReads \in Nat \ {0} /\ MaxClock \in Nat
      /\ 0 <= clock
  BY VerdictAssumption, VerdictBoundsAssumption DEF VerdictInv, VerdictTypes
<1>2. ASSUME NEW e, Arrives(e)
      PROVE  /\ Len(trace') \in 1..MaxTrace
             /\ \A row \in verdict.rows : \A q \in row.quotes : q.of \in 1..Len(trace')
  <2>1. Len(trace') = Len(trace) + 1 /\ Len(trace) < MaxTrace
    BY <1>1, <1>2 DEF Arrives
  <2>2. Len(trace') \in 1..MaxTrace /\ \A n \in 1..Len(trace) : n \in 1..Len(trace')
    BY <1>1, <2>1
  <2> QED BY <2>2 DEF VerdictBounds
<1>3. NoSegment.since = 0 /\ NoVerdict.rows = {}
  BY DEF NoSegment, NoVerdict
<1>4. CASE UNCHANGED verdictVars
  BY <1>4 DEF verdictVars, VerdictBounds
<1>5. CASE Passes
  BY <1>1, <1>5 DEF Passes, VerdictBounds
<1>6. CASE InterviewerSpeaks
  BY <1>2, <1>6 DEF InterviewerSpeaks, VerdictBounds
<1>7. CASE SegmentStarts
  BY <1>1, <1>7 DEF SegmentStarts, VerdictBounds
<1>8. CASE EndSession
  <2>1. segment'.since = 0 /\ reads' = 1 /\ 1 \in 0..MaxReads /\ UNCHANGED <<clock, verdict>>
    BY <1>1, <1>3, <1>8 DEF EndSession
  <2>2. Arrives(Entry("session_end", clock))
    BY <1>8 DEF EndSession
  <2> QED BY <1>1, <1>2, <2>1, <2>2 DEF VerdictBounds
<1>9. CASE Rejudge
  <2>1. reads' \in 0..MaxReads /\ verdict'.rows = {} /\ UNCHANGED <<clock, trace, segment>>
    BY <1>1, <1>3, <1>9 DEF Rejudge
  <2> QED BY <2>1 DEF VerdictBounds
<1>10. ASSUME NEW ts \in 0..clock, Works(ts) PROVE VerdictBounds'
  BY <1>2, <1>10 DEF Works, VerdictBounds
<1>11. ASSUME NEW state \in {"up", "down"}, Reports(state) PROVE VerdictBounds'
  BY <1>2, <1>11 DEF Reports, VerdictBounds
<1>12. ASSUME NEW words \in BOOLEAN, SegmentEnds(words) PROVE VerdictBounds'
  <2>1. segment'.since = 0 /\ UNCHANGED <<clock, verdict, reads>> /\ \E e : Arrives(e)
    BY <1>3, <1>12 DEF SegmentEnds
  <2> QED BY <1>1, <1>2, <2>1 DEF VerdictBounds
<1>13. ASSUME NEW reply \in {"whole", "unsolved", "slop", "invalid", "timeout", "failed"}, Replies(reply)
       PROVE  VerdictBounds'
  <2>1. UNCHANGED <<clock, trace, segment, reads>>
    BY <1>13 DEF Replies
  <2>2. \/ \E graded \in BOOLEAN, cited \in SUBSET Seconds : Assess(graded, cited)
        \/ \E call : Ask(call)
        \/ GiveUp
    <3>1. {} \in SUBSET Seconds /\ \A s \in Seconds : {s} \in SUBSET Seconds
      OBVIOUS
    <3> QED BY <1>13, <3>1 DEF Replies
  <2>3. \A row \in verdict'.rows : \A q \in row.quotes : q.of \in 1..Len(trace)
    <3>1. CASE \E graded \in BOOLEAN, cited \in SUBSET Seconds : Assess(graded, cited)
      BY <3>1, AssessFits
    <3>2. CASE \E call : Ask(call)
      BY <3>2 DEF Ask, VerdictBounds
    <3>3. CASE GiveUp
      BY <3>3 DEF GiveUp, NoVerdict
    <3> QED BY <2>2, <3>1, <3>2, <3>3
  <2> QED BY <2>1, <2>3 DEF VerdictBounds
<1> QED BY <1>4, <1>5, <1>6, <1>7, <1>8, <1>9, <1>10, <1>11, <1>12, <1>13 DEF VerdictNext

\* What the parts of the app hold beside their invariants.
HeldInv ==
  /\ PreparedInv /\ UpkeepInv /\ OffersInv /\ EarnedInv
  /\ part \in Parts
  /\ BillingBounds /\ MailBounds /\ MirrorBounds /\ VerdictBounds

\* They hold at the start,
LEMMA HeldStarts == Init => HeldInv
<1> SUFFICES ASSUME Init
             PROVE  HeldInv
  OBVIOUS
<1>1. BillingBounds
  <2>1. BillingInit
    BY DEF Init
  <2>2. 0 \in 0..MaxChanges /\ 0 \in 0..MaxBillingFaults
    BY BillingBoundsAssumption
  <2> QED BY <2>1, <2>2 DEF BillingInit, BillingBounds
<1>2. MailBounds
  BY GreetingBoundsAssumption DEF Init, GreetingInit, MailBounds
<1>3. MirrorBounds
  BY MirrorBoundsAssumption DEF Init, MirrorInit, MirrorBounds
<1>4. VerdictBounds
  <2>1. VerdictInit
    BY DEF Init
  <2>2. Len(trace) = 1 /\ segment.since = 0 /\ verdict.rows = {} /\ clock = 0 /\ reads = 0
    BY <2>1 DEF VerdictInit, NoSegment, NoVerdict
  <2> QED BY <2>2, VerdictAssumption, VerdictBoundsAssumption DEF VerdictBounds
<1>5. PreparedInv /\ UpkeepInv /\ OffersInv /\ EarnedInv
  BY WorkspaceStarts, AdaptStarts, GateStarts, BillingStarts, GreetingStarts, MirrorStarts,
     BackupStarts, AllowanceStarts, RunwayStarts, MemoryStarts, VerdictStarts
     DEF Init, PreparedInv, UpkeepInv, OffersInv, EarnedInv
<1> QED BY <1>1, <1>2, <1>3, <1>4, <1>5 DEF HeldInv, Init

\* and every step keeps them.
LEMMA HeldStep == HeldInv /\ [Next]_everyVar => HeldInv'
<1> SUFFICES ASSUME HeldInv, [Next]_everyVar
             PROVE  HeldInv'
  OBVIOUS
<1>1. part' = part
  BY DEF Next, everyVar
<1>2. BillingBounds' /\ MailBounds' /\ MirrorBounds' /\ VerdictBounds'
  BY PartsStep, BillingFits, MailFits, MirrorFits, VerdictFits DEF HeldInv, UpkeepInv, EarnedInv
<1>3. PreparedInv' /\ OffersInv'
  BY PartsStep, WorkspaceStep, AdaptStep, GateStep, AllowanceStep, RunwayStep
     DEF HeldInv, PreparedInv, OffersInv
<1>4. UpkeepInv' /\ EarnedInv'
  BY PartsStep, BillingStep, GreetingStep, MirrorStep, BackupStep, MemoryStep, VerdictStep
     DEF HeldInv, UpkeepInv, EarnedInv
<1> QED BY <1>1, <1>2, <1>3, <1>4 DEF HeldInv

\* What each part holds is what it can hold.
LEMMA BillingHolds == BillingBounds => BillingTypeOK
<1> SUFFICES ASSUME BillingBounds
             PROVE  BillingTypeOK
  OBVIOUS
<1>1. RealRows \subseteq LedgerRow
  BY DEF RealRows
<1>2. {torn, overtaken, lost} \subseteq BOOLEAN
  BY Zenon DEF BillingBounds
<1> QED BY <1>1, <1>2 DEF BillingBounds, BillingTypeOK

LEMMA WorkspaceHolds == WorkspaceInv => WorkspaceTypeOK
<1> SUFFICES ASSUME WorkspaceInv
             PROVE  WorkspaceTypeOK
  OBVIOUS
<1>1. {aged, ragged, cutShort, slimUnder} \subseteq BOOLEAN
  BY Zenon DEF WorkspaceInv, FlagsFit
<1>2. {assessed, ran, edited, uninsured, slimmed} \subseteq SUBSET Sessions
  BY DEF WorkspaceInv, WorkspaceTypes
<1>3. archive \in Copies /\ snapshot \in Copies
  BY DEF WorkspaceInv, WorkspaceTypes, Copies, Trees
<1> QED BY <1>1, <1>2, <1>3 DEF WorkspaceInv, WorkspaceTypes, WorkspaceTypeOK, ResetShapes, SessionShapes

LEMMA MemoryHolds == MemoryInv => MemoryTypeOK
<1> SUFFICES ASSUME MemoryInv
             PROVE  MemoryTypeOK
  OBVIOUS
<1>1. MemoryTypes
  BY DEF MemoryInv
<1>2. /\ \A i \in 1..Len(memory.records) : memory.records[i] \in [round : Rounds, verdict : Verdicts]
      /\ memory.closedAfter \subseteq Rounds /\ memory.torn \in BOOLEAN
  <2>1. memory \in Stores
    BY <1>1 DEF MemoryTypes
  <2>2. memory.records \in Seq(StoreRows) /\ memory.closedAfter \subseteq Rounds /\ memory.torn \in BOOLEAN
    BY <2>1 DEF Stores
  <2>3. PICK recs \in Seq(StoreRows) : recs = memory.records
    BY <2>2
  <2>4. \A i \in 1..Len(recs) : recs[i] \in StoreRows
    OBVIOUS
  <2> QED BY <2>2, <2>3, <2>4 DEF StoreRows
<1>3. \A w \in Processes :
        inHand[w] = NoWork \/
          (inHand[w].at \in Steps /\ inHand[w].round \in Rounds /\ inHand[w].result \in Results)
  BY <1>1 DEF MemoryTypes, Jobs
<1> QED BY <1>1, <1>2, <1>3 DEF MemoryTypes, MemoryTypeOK

LEMMA GreetingHolds == GreetingInv /\ MailBounds => GreetingTypeOK
BY DEF GreetingInv, GreetingTypes, MailBounds, GreetingTypeOK

LEMMA MirrorHolds == MirrorInv /\ MirrorBounds => MirrorTypeOK
<1> SUFFICES ASSUME MirrorInv, MirrorBounds
             PROVE  MirrorTypeOK
  OBVIOUS
<1>1. requests \subseteq SUBSET Upsert /\ sweep.rows \subseteq Upsert
  BY DEF MirrorInv, RequestsFit, SweepFits, RowsFit
<1> QED BY <1>1 DEF MirrorInv, CardsAndClock, SweepFits, MirrorBounds, MirrorTypeOK

LEMMA VerdictHolds == VerdictInv /\ VerdictBounds => VerdictTypeOK
<1> SUFFICES ASSUME VerdictInv, VerdictBounds
             PROVE  VerdictTypeOK
  OBVIOUS
<1>1. VerdictTypes /\ TraceFits(trace, clock) /\ ReadingFits
  BY DEF VerdictInv
<1>2. clock \in 0..MaxClock /\ Len(trace) \in 1..MaxTrace /\ reads \in 0..MaxReads
      /\ clock \in Nat /\ MaxClock \in Nat /\ MaxTrace \in Nat
  BY <1>1, VerdictAssumption, VerdictBoundsAssumption DEF VerdictBounds, VerdictTypes
<1>3. ASSUME NEW i \in DOMAIN trace
      PROVE  trace[i] \in [type : {"session_start", "utterance", "work", "interviewer", "stt",
                                   "session_end"},
                           ts : 0..MaxClock, words : BOOLEAN,
                           outage : {"no", "whole", "straddled", "ended"}, state : {"up", "down"}]
  <2>1. trace[i] \in Entries /\ trace[i].ts <= clock
    BY <1>1 DEF VerdictTypes, TraceFits
  <2>2. trace[i].ts \in 0..MaxClock
    BY <1>2, <2>1 DEF Entries
  <2> QED BY <2>1, <2>2 DEF Entries
<1>4. segment \in [on : BOOLEAN, since : 0..MaxClock, outage : BOOLEAN]
  <2>1. segment \in [on : BOOLEAN, since : Nat, outage : BOOLEAN]
    BY <1>1 DEF VerdictTypes
  <2>2. segment.since \in 0..MaxClock
    BY <1>2, <2>1 DEF VerdictBounds
  <2> QED BY <2>1, <2>2
<1>5. reading.call \in {"none", "first", "after_timeout", "after_slop"}
      /\ reading.shown \subseteq 1..reading.length /\ reading.length \in 0..MaxTrace
  <2>1. reading.length \in Nat /\ reading.length <= Len(trace) /\ DOMAIN trace = 1..Len(trace)
        /\ reading.shown = {i \in renderTimeline(trace) : i <= reading.length}
        /\ reading.call \in {"none", "first", "after_timeout", "after_slop"}
    BY <1>1 DEF VerdictTypes, ReadingFits
  <2>2. renderTimeline(trace) \subseteq 1..Len(trace)
    BY <2>1 DEF renderTimeline
  <2> QED BY <1>2, <2>1, <2>2
<1>6. verdict.status \in {"none", "assessed", "unassessed"} /\ verdict.cited \subseteq Seconds
      /\ verdict.rows \subseteq VerdictRows
  BY <1>1 DEF VerdictTypes
<1>7. ASSUME NEW row \in verdict.rows
      PROVE  row \in [dimension : Dimensions, graded : BOOLEAN, evidence : SUBSET Seconds,
                      stripped : SUBSET Seconds, unreceipted : BOOLEAN,
                      quotes : SUBSET [at : Seconds, of : 1..MaxTrace]]
  <2>1. row \in VerdictRows
    BY <1>6
  <2>2. ASSUME NEW q \in row.quotes
        PROVE  q \in [at : Seconds, of : 1..MaxTrace]
    <3>1. q \in [at : Seconds, of : Nat]
      BY <2>1 DEF VerdictRows
    <3>2. q.of \in 1..MaxTrace
      BY <1>2 DEF VerdictBounds
    <3> QED BY <3>1, <3>2
  <2> QED BY <2>1, <2>2 DEF VerdictRows
<1> QED BY <1>1, <1>2, <1>3, <1>4, <1>5, <1>6, <1>7 DEF VerdictTypes, VerdictTypeOK

\* Every part of the app holds what the program can put there: for any sessions,
\* shapes, rounds, cards, people, subscriptions and days, and any bounds on them.
THEOREM PartsTypes == Spec => []TypeOK
<1>1. HeldInv => TypeOK
  <2> SUFFICES ASSUME HeldInv
               PROVE  TypeOK
    OBVIOUS
  <2>1. BillingTypeOK /\ WorkspaceTypeOK /\ MemoryTypeOK /\ GreetingTypeOK /\ MirrorTypeOK /\ VerdictTypeOK
    BY BillingHolds, WorkspaceHolds, MemoryHolds, GreetingHolds, MirrorHolds, VerdictHolds
       DEF HeldInv, PreparedInv, UpkeepInv, EarnedInv
  <2>2. AllowanceTypeOK /\ AdaptTypeOK /\ BackupTypeOK /\ RunwayTypeOK /\ GateTypeOK
    BY DEF HeldInv, PreparedInv, UpkeepInv, OffersInv, AllowanceInv, AdaptInv, BackupsInv, GateInv
  <2> QED BY <2>1, <2>2 DEF TypeOK, HeldInv
<1> QED BY <1>1, HeldStarts, HeldStep, PTL DEF Spec, everyVar
=============================================================================
