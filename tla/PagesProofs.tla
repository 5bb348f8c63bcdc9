------------------------------ MODULE PagesProofs ------------------------------
(***************************************************************************)
(* Proofs about what the candidate meets, as parts of PagesMC: the doors   *)
(* into a round (Doorway), the card at the gate (PaywallCard), the editor  *)
(* (PanesEditor), the two desks (PracticeDesk, PlanDesk); and, with the    *)
(* parts of ConversationProofs, the properties of them all: for any number *)
(* of tabs, rounds, wishes, changes, answers, plans, turns and segments.   *)
(*                                                                         *)
(* Each part has an inductive invariant of its own, kept by the steps of   *)
(* that part and, since no other part touches its variables, by all.       *)
(***************************************************************************)
EXTENDS PagesMC, ConversationProofs, FiniteSetTheorems, TLAPS

---------------------------------------------------------------------------
(* The doors.                                                              *)

Entries ==
  [Sids -> [listed : BOOLEAN, mine : BOOLEAN, ended_at : BOOLEAN, process : Processes]]

DoorTypes ==
  /\ entries \in Entries
  /\ cookie \in Sids \cup {NoSid} /\ latest \in Sids \cup {NoSid}
  /\ tabs \in [Tabs -> [view : {"home", "warmup", "round", "ended"}, sid : Sids \cup {NoSid}]]
  /\ tries \subseteq [tab : Tabs, sid : Sids, door : {"launch", "sample"}]
  /\ opened \subseteq Sids

\* What this browser opened or waits for is its own; and it was launched, as was
\* what is listed.
OwnRounds ==
  /\ \A s \in Sids : entries[s].listed => entries[s].process # "none"
  /\ \A s \in opened : entries[s].mine /\ entries[s].process # "none"
  /\ \A y \in tries : entries[y.sid].mine /\ entries[y.sid].process # "none"

\* The cookie, while there is one, is that of the latest link.
CookieFits == cookie # NoSid => cookie = latest /\ cookie \in opened

\* Rounds come, end and die; whose they are stays.
RoundsGoOn ==
  /\ entries' \in Entries
  /\ \A s \in Sids :
       /\ entries[s].process # "none" =>
            entries'[s].mine = entries[s].mine /\ entries'[s].process # "none"
       /\ entries'[s].listed => entries'[s].process # "none"

DoorInv == DoorTypes /\ OwnRounds /\ CookieFits /\ CallsStayInside /\ TabsShowOwnRounds

\* The router leads where the cookie says, or, with authentication on, nowhere.
LEMMA RouteFits ==
  ASSUME NEW c
  PROVE  Route(c) \in Sids \cup {Nowhere} /\ (authEnabled => Route(c) \in {c, Nowhere})
<1>1. Cardinality(Live) = 1 => (CHOOSE s \in Live : TRUE) \in Live
  BY FS_EmptySet
<1>2. Live \subseteq Sids /\ Listed \subseteq Sids
  BY DEF Live, Listed
<1> QED BY <1>1, <1>2 DEF Route

\* The page that is served is that of the cookie's round or of none.
LEMMA PageFits ==
  ASSUME NEW c
  PROVE  /\ Page(c) \in [view : {"home", "warmup", "round", "ended"}, sid : Sids \cup {NoSid}]
         /\ authEnabled => Page(c).sid \in {c, NoSid}
<1>1. Route(c) \in Sids \cup {NoSid} /\ (authEnabled => Route(c) \in {c, NoSid})
  BY RouteFits DEF Nowhere
<1>2. CASE Route(c) = Nowhere
  BY <1>2 DEF Page
<1>3. CASE Route(c) # Nowhere /\ Answers(Route(c))
  BY <1>1, <1>3 DEF Page
<1>4. CASE Route(c) # Nowhere /\ ~ Answers(Route(c))
  BY <1>1, <1>4 DEF Page
<1> QED BY <1>2, <1>3, <1>4

\* Rounds only come, and stay whose they are: what this browser opened or waits
\* for stays its own.
LEMMA OwnStays ==
  ASSUME DoorTypes, OwnRounds,
         RoundsGoOn,
         opened' \subseteq opened \cup {s \in Sids : entries'[s].mine /\ entries'[s].process # "none"},
         \A y \in tries' \ tries : entries'[y.sid].mine /\ entries'[y.sid].process # "none"
  PROVE  OwnRounds'
<1>1. \A y \in tries : y.sid \in Sids
  BY DEF DoorTypes
<1>2. opened \subseteq Sids
  BY DEF DoorTypes
<1> QED BY <1>1, <1>2 DEF OwnRounds, RoundsGoOn

\* What reconciling leaves of an entry.
LEMMA ReconciledFits ==
  ASSUME DoorTypes
  PROVE  /\ Reconciled \in Entries
         /\ \A s \in Sids : Reconciled[s].mine = entries[s].mine
                            /\ Reconciled[s].process = entries[s].process
                            /\ (Reconciled[s].listed => entries[s].listed)
<1>1. ASSUME NEW s \in Sids
      PROVE  Reconciled[s] = [listed |-> entries[s].listed /\ entries[s].process # "dead",
                              mine |-> entries[s].mine,
                              ended_at |-> entries[s].ended_at \/ entries[s].process = "card",
                              process |-> entries[s].process]
  <2>1. PICK l \in BOOLEAN, m \in BOOLEAN, e \in BOOLEAN, q \in Processes :
          entries[s] = [listed |-> l, mine |-> m, ended_at |-> e, process |-> q]
    <3>1. entries[s] \in [listed : BOOLEAN, mine : BOOLEAN, ended_at : BOOLEAN, process : Processes]
      BY DEF DoorTypes, Entries
    <3> QED BY <3>1
  <2>2. Reconciled[s] =
          [[listed |-> l, mine |-> m, ended_at |-> e, process |-> q]
             EXCEPT !.ended_at = @ \/ entries[s].process = "card",
                    !.listed = @ /\ entries[s].process # "dead"]
    BY <2>1 DEF Reconciled
  <2>3. Reconciled[s] =
          [listed |-> l /\ entries[s].process # "dead", mine |-> m,
           ended_at |-> e \/ entries[s].process = "card", process |-> q]
    BY <2>2
  <2> QED BY <2>1, <2>3
<1>2. DOMAIN Reconciled = Sids /\ Reconciled = [s \in Sids |-> Reconciled[s]]
  BY DEF Reconciled
<1> HIDE DEF Reconciled
<1>3. \A s \in Sids : entries[s].mine \in BOOLEAN /\ entries[s].process \in Processes
  BY DEF DoorTypes, Entries
<1>4. ASSUME NEW s \in Sids
      PROVE  Reconciled[s] \in
               [listed : BOOLEAN, mine : BOOLEAN, ended_at : BOOLEAN, process : Processes]
  <2>1. PICK l : l \in BOOLEAN /\ l = (entries[s].listed /\ entries[s].process # "dead")
    BY Zenon
  <2>2. PICK e : e \in BOOLEAN /\ e = (entries[s].ended_at \/ entries[s].process = "card")
    BY Zenon
  <2>3. Reconciled[s] = [listed |-> l, mine |-> entries[s].mine, ended_at |-> e,
                         process |-> entries[s].process]
    BY <1>1, <2>1, <2>2, Zenon
  <2> QED BY <1>3, <2>1, <2>2, <2>3
<1> QED BY <1>1, <1>2, <1>4 DEF Entries

\* Following a link keeps all that is promised of the doors.
LEMMA FollowingFits ==
  ASSUME DoorInv, NEW t \in Tabs, NEW s \in Sids, Follows(t, s),
         entries[s].mine, entries[s].process # "none",
         tries' \subseteq tries,
         RoundsGoOn,
         UNCHANGED <<authEnabled, call>>
  PROVE  DoorInv'
<1> USE DEF DoorInv
<1>1. CASE s \in Listed
  <2>1. cookie' = s /\ latest' = s /\ opened' = opened \cup {s}
        /\ tabs' = [tabs EXCEPT ![t] = Page(s)]
    BY <1>1 DEF Follows
  <2>2. Page(s) \in [view : {"home", "warmup", "round", "ended"}, sid : Sids \cup {NoSid}]
        /\ (authEnabled => Page(s).sid \in {s, NoSid})
    BY PageFits
  <2>3. DoorTypes'
    BY <2>1, <2>2 DEF DoorTypes, RoundsGoOn
  <2>4. OwnRounds'
    <3>1. opened' \subseteq opened \cup {r \in Sids : entries'[r].mine /\ entries'[r].process # "none"}
      BY <2>1 DEF RoundsGoOn
    <3> QED BY <3>1, OwnStays
  <2>5. CookieFits'
    BY <2>1 DEF CookieFits
  <2>6. CallsStayInside'
    BY <2>1 DEF CallsStayInside
  <2>7. TabsShowOwnRounds'
    <3> SUFFICES ASSUME authEnabled, NEW u \in Tabs, tabs'[u].sid # NoSid
                 PROVE  entries'[tabs'[u].sid].mine /\ tabs'[u].sid \in opened'
      BY DEF TabsShowOwnRounds
    <3>1. tabs'[u].sid \in opened'
      BY <2>1, <2>2 DEF DoorTypes, TabsShowOwnRounds
    <3> QED BY <3>1, <2>4 DEF OwnRounds
  <2> QED BY <2>3, <2>4, <2>5, <2>6, <2>7
<1>2. CASE s \notin Listed
  <2>1. UNCHANGED <<cookie, latest, opened>>
        /\ tabs' = [tabs EXCEPT ![t] = [view |-> "ended", sid |-> NoSid]]
    BY <1>2 DEF Follows
  <2>2. DoorTypes'
    BY <2>1 DEF DoorTypes, RoundsGoOn
  <2>3. OwnRounds'
    BY <2>1, OwnStays
  <2>4. CookieFits'
    BY <2>1 DEF CookieFits
  <2>5. CallsStayInside'
    BY <2>1 DEF CallsStayInside
  <2>6. TabsShowOwnRounds'
    <3> SUFFICES ASSUME authEnabled, NEW u \in Tabs, tabs'[u].sid # NoSid
                 PROVE  entries'[tabs'[u].sid].mine /\ tabs'[u].sid \in opened'
      BY DEF TabsShowOwnRounds
    <3>1. tabs'[u].sid \in opened'
      BY <2>1 DEF DoorTypes, TabsShowOwnRounds
    <3> QED BY <3>1, <2>3 DEF OwnRounds
  <2> QED BY <2>2, <2>3, <2>4, <2>5, <2>6
<1> QED BY <1>1, <1>2

\* Rounds come, end and die, and the browser's side stays as it is, but for what
\* it waits for.
LEMMA BrowserWaits ==
  ASSUME DoorInv,
         UNCHANGED <<cookie, tabs, authEnabled, opened, latest, call>>,
         tries' \subseteq [tab : Tabs, sid : Sids, door : {"launch", "sample"}],
         \A y \in tries' \ tries : entries'[y.sid].mine /\ entries'[y.sid].process # "none",
         RoundsGoOn
  PROVE  DoorInv'
<1> USE DEF DoorInv
<1>1. DoorTypes'
  BY DEF DoorTypes, RoundsGoOn
<1>2. OwnRounds'
  BY OwnStays
<1>3. CookieFits' /\ CallsStayInside'
  BY DEF CookieFits, CallsStayInside
<1>4. TabsShowOwnRounds'
  BY <1>2 DEF TabsShowOwnRounds, OwnRounds
<1> QED BY <1>1, <1>2, <1>3, <1>4

\* A round that is spawned was none before.
LEMMA SpawnedFits ==
  ASSUME DoorTypes, OwnRounds, NEW s \in Sids, NEW mine \in BOOLEAN, Spawned(s, mine)
  PROVE  /\ RoundsGoOn
         /\ entries'[s].mine = mine /\ entries'[s].process # "none"
<1>1. entries[s].process = "none"
  BY SidsAssumption DEF Spawned
<1>2. entries' = [Reconciled EXCEPT ![s] =
       [listed |-> TRUE, mine |-> mine, ended_at |-> FALSE, process |-> "booting"]]
  BY DEF Spawned
<1>3. Reconciled \in Entries
      /\ \A r \in Sids : Reconciled[r].mine = entries[r].mine
                         /\ Reconciled[r].process = entries[r].process
                         /\ (Reconciled[r].listed => entries[r].process # "none")
  BY ReconciledFits DEF OwnRounds
<1> HIDE DEF Reconciled
<1> QED BY <1>1, <1>2, <1>3 DEF Entries, Processes, RoundsGoOn

\* The doors of a site nobody has visited yet.
LEMMA DoorStarts == DoorwayInit => DoorInv
BY DEF DoorwayInit, DoorInv, DoorTypes, OwnRounds, CookieFits, CallsStayInside, NoCall,
       Entries, TabsShowOwnRounds, Home, Processes

\* Every step at the doors.
LEMMA DoorStep == DoorInv /\ [DoorwayNext]_doorwayVars => DoorInv'
<1> SUFFICES ASSUME DoorInv, [DoorwayNext]_doorwayVars PROVE DoorInv'
  OBVIOUS
<1> USE DEF DoorInv
<1>0. CASE UNCHANGED doorwayVars
  <2> USE <1>0 DEF doorwayVars
  <2>1. DoorTypes' BY DEF DoorTypes
  <2>2. OwnRounds' BY DEF OwnRounds
  <2>3. CookieFits' /\ CallsStayInside' BY DEF CookieFits, CallsStayInside
  <2>4. TabsShowOwnRounds' BY DEF TabsShowOwnRounds
  <2> QED BY <2>1, <2>2, <2>3, <2>4
<1>1. ASSUME NEW t \in Tabs, NEW s \in Sids, NEW door \in {"launch", "sample"},
             LaunchesRound(t, s, door)
      PROVE  DoorInv'
  <2>1. Spawned(s, TRUE) /\ tries' = tries \cup {[tab |-> t, sid |-> s, door |-> door]}
        /\ UNCHANGED <<cookie, tabs, authEnabled, opened, latest, call>>
    BY <1>1 DEF LaunchesRound
  <2>2. tries' \subseteq [tab : Tabs, sid : Sids, door : {"launch", "sample"}]
    BY <2>1 DEF DoorTypes
  <2>3. \A y \in tries' \ tries : y.sid = s
    BY <2>1
  <2> QED BY <2>1, <2>2, <2>3, SpawnedFits, BrowserWaits
<1>2. ASSUME NEW t \in Tabs, NEW s \in Sids, FollowsLink(t, s)
      PROVE  DoorInv'
  <2>1. Follows(t, s) /\ entries[s].mine /\ (s \in Live \/ s \in opened)
        /\ tries' = Elsewhere(t) /\ UNCHANGED <<entries, authEnabled, call>>
    BY <1>2 DEF FollowsLink
  <2>2. tries' \subseteq tries
    BY <2>1 DEF Elsewhere
  <2>3. s \in Live => entries[s].process # "none"
    BY DEF Live, Listed, OwnRounds
  <2>4. RoundsGoOn
    BY <2>1 DEF RoundsGoOn, DoorTypes, OwnRounds
  <2>5. entries[s].process # "none"
    BY <2>1, <2>3 DEF OwnRounds
  <2> QED BY <2>1, <2>2, <2>4, <2>5, FollowingFits

<1>3. ASSUME NEW y \in tries, Ticks(y)
      PROVE  DoorInv'
  <2>1. entries' = Reconciled /\ UNCHANGED <<authEnabled, call>>
    BY <1>3 DEF Ticks
  <2>2. RoundsGoOn
    BY <2>1, ReconciledFits DEF RoundsGoOn, OwnRounds
  <2>3. CASE /\ tries' \subseteq tries
             /\ UNCHANGED <<cookie, tabs, opened, latest>>
    BY <2>1, <2>2, <2>3, BrowserWaits DEF DoorTypes
  <2>4. CASE Follows(y.tab, y.sid) /\ tries' = Elsewhere(y.tab)
    <3>1. y.tab \in Tabs /\ y.sid \in Sids /\ entries[y.sid].mine /\ entries[y.sid].process # "none"
      BY DEF DoorTypes, OwnRounds
    <3> QED BY <2>1, <2>2, <2>4, <3>1, FollowingFits DEF Elsewhere
  <2> QED BY <1>3, <2>3, <2>4 DEF Ticks
<1>4. ASSUME NEW y \in tries, PollsSample(y)
      PROVE  DoorInv'
  <2>1. Follows(y.tab, y.sid) /\ tries' = Elsewhere(y.tab)
        /\ UNCHANGED <<entries, authEnabled, call>>
    BY <1>4 DEF PollsSample
  <2>2. y.tab \in Tabs /\ y.sid \in Sids /\ entries[y.sid].mine /\ entries[y.sid].process # "none"
    BY DEF DoorTypes, OwnRounds
  <2>3. RoundsGoOn
    BY <2>1 DEF RoundsGoOn, DoorTypes, OwnRounds
  <2> QED BY <2>1, <2>2, <2>3, FollowingFits DEF Elsewhere
<1>5. ASSUME NEW y \in tries, GivesUp(y)
      PROVE  DoorInv'
  <2>1. tries' \subseteq tries /\ UNCHANGED <<entries, cookie, tabs, authEnabled, opened, latest, call>>
    BY <1>5 DEF GivesUp
  <2>2. RoundsGoOn
    BY <2>1 DEF RoundsGoOn, DoorTypes, OwnRounds
  <2> QED BY <2>1, <2>2, BrowserWaits DEF DoorTypes
<1>6. ASSUME NEW t \in Tabs, GoesHome(t) \/ AsksAgain(t)
      PROVE  DoorInv'
  <2>1. UNCHANGED <<entries, cookie, tries, authEnabled, opened, latest, call>>
    BY <1>6 DEF GoesHome, AsksAgain
  <2>2. PICK view \in [view : {"home", "warmup", "round", "ended"}, sid : Sids \cup {NoSid}] :
          tabs' = [tabs EXCEPT ![t] = view] /\ (authEnabled => view.sid \in {cookie, NoSid})
    <3>1. CASE GoesHome(t)
      <4>1. tabs' = [tabs EXCEPT ![t] = Home]
        BY <3>1 DEF GoesHome
      <4>2. /\ Home \in [view : {"home", "warmup", "round", "ended"}, sid : Sids \cup {NoSid}]
            /\ Home.sid = NoSid
        BY DEF Home
      <4> QED BY <4>1, <4>2
    <3>2. CASE AsksAgain(t)
      BY <3>2, PageFits DEF AsksAgain
    <3> QED BY <1>6, <3>1, <3>2
  <2>3. DoorTypes'
    BY <2>1, <2>2 DEF DoorTypes
  <2>4. OwnRounds' /\ CookieFits' /\ CallsStayInside'
    BY <2>1 DEF OwnRounds, CookieFits, CallsStayInside
  <2>5. TabsShowOwnRounds'
    BY <2>1, <2>2 DEF DoorTypes, TabsShowOwnRounds, CookieFits, OwnRounds
  <2> QED BY <2>3, <2>4, <2>5
<1>7. ASSUME NEW t \in Tabs, Calls(t)
      PROVE  DoorInv'
  <2>1. UNCHANGED <<entries, cookie, tabs, tries, authEnabled, opened, latest>>
    BY <1>7 DEF Calls
  <2>2. PICK to : to \in {Route(cookie), Nowhere}
                  /\ call' = [from |-> tabs[t].sid, to |-> to, latest |-> latest]
    BY <1>7 DEF Calls
  <2>3. DoorTypes' /\ OwnRounds' /\ CookieFits'
    BY <2>1 DEF DoorTypes, OwnRounds, CookieFits
  <2>4. TabsShowOwnRounds'
    BY <2>1 DEF TabsShowOwnRounds
  <2>5. authEnabled => to \in {cookie, NoSid}
    BY <2>2, RouteFits DEF Nowhere
  <2>6. CallsStayInside'
    BY <2>1, <2>2, <2>5 DEF CallsStayInside, CookieFits
  <2> QED BY <2>3, <2>4, <2>6
<1>8. ASSUME NEW s \in Sids, IsKilled(s) \/ OthersOpen(s) \/ Moves(s)
      PROVE  DoorInv'
  <2>1. UNCHANGED <<cookie, tabs, tries, authEnabled, opened, latest, call>>
    BY <1>8 DEF IsKilled, OthersOpen, Moves
  <2>2. RoundsGoOn
    <3>1. CASE IsKilled(s)
      BY <3>1 DEF IsKilled, RoundsGoOn, DoorTypes, OwnRounds, Entries, Processes
    <3>2. CASE OthersOpen(s)
      BY <3>2, SpawnedFits DEF OthersOpen
    <3>3. CASE Moves(s)
      <4>1. PICK p \in {"up", "dead", "card"} :
              entries' = [entries EXCEPT ![s].process = p] /\ entries[s].process # "none"
        BY <3>3 DEF Moves
      <4> QED BY <4>1 DEF RoundsGoOn, DoorTypes, OwnRounds, Entries, Processes
    <3> QED BY <1>8, <3>1, <3>2, <3>3
  <2> QED BY <2>1, <2>2, BrowserWaits DEF DoorTypes
<1>9. ASSUME Sweeps PROVE DoorInv'
  <2>1. entries' = Reconciled /\ UNCHANGED <<cookie, tabs, tries, authEnabled, opened, latest, call>>
    BY <1>9 DEF Sweeps
  <2>2. RoundsGoOn
    BY <2>1, ReconciledFits DEF RoundsGoOn, OwnRounds
  <2> QED BY <2>1, <2>2, BrowserWaits DEF DoorTypes
<1>10. ASSUME CookieExpires PROVE DoorInv'
  <2> USE <1>10 DEF CookieExpires
  <2>1. DoorTypes' BY DEF DoorTypes
  <2>2. OwnRounds' BY DEF OwnRounds
  <2>3. CookieFits' /\ CallsStayInside' BY DEF CookieFits, CallsStayInside
  <2>4. TabsShowOwnRounds' BY DEF TabsShowOwnRounds
  <2> QED BY <2>1, <2>2, <2>3, <2>4
<1> QED BY <1>0, <1>1, <1>2, <1>3, <1>4, <1>5, <1>6, <1>7, <1>8, <1>9, <1>10 DEF DoorwayNext

---------------------------------------------------------------------------
(* The card at the gate.                                                   *)

WishShapes ==
  [door : Doors, retry : BOOLEAN, promised : BOOLEAN, again : Nat,
   stage : {"sent", "gated", "admitted", "refused", "declined", "gone"}]

CardTypes ==
  /\ wishes \in Seq(WishShapes)
  /\ card \in {"shut", "price", "favor"}
  /\ opener \in Nat /\ paywallIntent \in Nat /\ pendingIntent \in Nat /\ paidFor \in Nat
  /\ beacons \subseteq GateAnswers
  /\ opening \in BOOLEAN /\ billing_enabled \in BOOLEAN /\ granted \in BOOLEAN
  /\ place \in {"page", "stripe", "returned"}
  /\ paying \in {"none", "paid", "known"}

\* An open card is that of the wish it holds back; off the page there is none, and
\* nothing is asked.
CardFits ==
  /\ card # "shut" =>
       /\ opener \in DOMAIN wishes /\ wishes[opener].stage = "gated"
       /\ paywallIntent = opener
  /\ paywallIntent \in DOMAIN wishes \cup {None} /\ pendingIntent \in DOMAIN wishes \cup {None}
  /\ card = "favor" => ~ billing_enabled
  /\ opening => billing_enabled
  /\ place # "page" =>
       card = "shut" /\ \A w \in DOMAIN wishes : wishes[w].stage # "sent"

\* The server lets the customer through, or will when an answer arrives.
Through ==
  \/ granted \/ paying = "known"
  \/ \E b \in beacons : grantsAccess(b)

\* Nobody is promised a way through before there is one.
PromisesAreBacked ==
  /\ card = "favor" => Through
  /\ \A w \in DOMAIN wishes : wishes[w].promised =>
       Through /\ wishes[w].stage \notin {"refused", "gated"}

\* What waits for a purchase is gone from the page, and was not asked again yet.
PendingFits ==
  /\ opening => card = "price"
  /\ pendingIntent # None => wishes[pendingIntent].stage = "gone"
  /\ place = "returned" => paying # "none" /\ paidFor = pendingIntent
  /\ paying = "none" \/ place = "returned" =>
       \A w \in DOMAIN wishes : wishes[w].again = None

\* What is asked again is what was paid for, gone from the page, and asked again once.
AgainFits ==
  \A v \in DOMAIN wishes : wishes[v].again # None =>
    /\ wishes[v].again = paidFor
    /\ wishes[v].again \in DOMAIN wishes /\ wishes[wishes[v].again].stage = "gone"
    /\ \A u \in DOMAIN wishes : wishes[u].again = wishes[v].again => u = v

\* Wishes go on: none is dropped, and one that is gone stays gone.
WishesGoOn ==
  /\ wishes' \in Seq(WishShapes)
  /\ DOMAIN wishes' = DOMAIN wishes
  /\ \A v \in DOMAIN wishes :
       /\ wishes'[v].again = wishes[v].again
       /\ wishes[v].stage = "gone" => wishes'[v].stage = "gone"

CardPromises == PromisesAreBacked /\ PendingFits /\ AgainFits
CardInv == CardTypes /\ CardFits /\ (cardLapses = {} => CardPromises)

\* A wish that comes to another stage, and one the card let through.
LEMMA Restaged ==
  ASSUME NEW r \in WishShapes,
         NEW s \in {"sent", "gated", "admitted", "refused", "declined", "gone"}
  PROVE  /\ [r EXCEPT !.stage = s] \in WishShapes
         /\ [r EXCEPT !.stage = s].again = r.again
         /\ [r EXCEPT !.stage = s].promised = r.promised
         /\ [r EXCEPT !.stage = s].stage = s
BY DEF WishShapes

\* A wish that is sent again is the same wish, sent.
LEMMA LetThrough ==
  ASSUME NEW r \in WishShapes
  PROVE  SentAgain(r) \in WishShapes /\ SentAgain(r).again = r.again
         /\ SentAgain(r).stage = "sent"
BY DEF WishShapes, Doors, SentAgain

\* One wish changes.
LEMMA OneWishChanges ==
  ASSUME wishes \in Seq(WishShapes), NEW w \in DOMAIN wishes, NEW x \in WishShapes,
         x.again = wishes[w].again, wishes[w].stage = "gone" => x.stage = "gone",
         wishes' = [wishes EXCEPT ![w] = x]
  PROVE  /\ WishesGoOn
         /\ wishes'[w] = x
         /\ \A v \in DOMAIN wishes : v # w => wishes'[v] = wishes[v]
<1>1. wishes' \in Seq(WishShapes)
  OBVIOUS
<1> QED BY <1>1 DEF WishesGoOn

\* One more is asked for.
LEMMA OneWishMore ==
  ASSUME wishes \in Seq(WishShapes), NEW x \in WishShapes, wishes' = Append(wishes, x)
  PROVE  /\ wishes' \in Seq(WishShapes)
         /\ DOMAIN wishes' = DOMAIN wishes \cup {Len(wishes) + 1}
         /\ wishes'[Len(wishes) + 1] = x
         /\ \A v \in DOMAIN wishes : v # Len(wishes) + 1 /\ wishes'[v] = wishes[v]
         /\ None \notin DOMAIN wishes
BY DEF None

\* The way through does not close.
LEMMA ThroughStays ==
  ASSUME Through, granted => granted', paying = "known" => paying' = "known",
         beacons \subseteq beacons', UNCHANGED billing_enabled
  PROVE  Through'
BY DEF Through, grantsAccess

\* Wishes that go on leave what waits and what was asked again as it was.
LEMMA PendingStays ==
  ASSUME PendingFits, CardFits, WishesGoOn, UNCHANGED <<pendingIntent, place, paidFor>>,
         paying' = "none" => paying = "none", opening' => card' = "price"
  PROVE  PendingFits'
BY DEF PendingFits, CardFits, WishesGoOn

\* As long as wishes go on and nothing is paid, what was sent again is paid for.
LEMMA AgainStays ==
  ASSUME AgainFits, WishesGoOn, UNCHANGED paidFor
  PROVE  AgainFits'
BY DEF AgainFits, WishesGoOn

\* As long as wishes stay what they are.
LEMMA WishesStay ==
  ASSUME wishes \in Seq(WishShapes), UNCHANGED wishes
  PROVE  WishesGoOn
BY DEF WishesGoOn

\* The card before the first wish.
LEMMA CardStarts == PaywallCardInit => CardInv
<1> SUFFICES ASSUME PaywallCardInit PROVE CardInv
  OBVIOUS
<1> USE DEF PaywallCardInit
<1>1. CardTypes
  <2>1. wishes \in Seq(WishShapes) OBVIOUS
  <2>2. billing_enabled \in BOOLEAN BY Zenon
  <2> QED BY <2>1, <2>2 DEF CardTypes, None
<1>2. CardFits BY DEF CardFits
<1>3. DOMAIN wishes = {} OBVIOUS
<1>4. CardPromises BY <1>3 DEF CardPromises, PromisesAreBacked, PendingFits, AgainFits, None
<1> QED BY <1>1, <1>2, <1>4 DEF CardInv

\* Answers and purchases that reach the server.
LEMMA ServerHears ==
  ASSUME CardInv, NEW b \in GateAnswers,
         BeaconArrives(b) \/ BeaconIsLost(b) \/ WebhookLands
  PROVE  CardInv'
<1> USE DEF CardInv
<1>1. WishesGoOn /\ UNCHANGED wishes
  BY WishesStay DEF CardTypes, BeaconArrives, BeaconIsLost, WebhookLands
<1>2. UNCHANGED <<card, opening, opener, paywallIntent, pendingIntent, place, billing_enabled,
                  paidFor>>
  BY DEF BeaconArrives, BeaconIsLost, WebhookLands, cardView, intents, account
<1>3. CardTypes'
  <2>1. beacons' \subseteq GateAnswers /\ paying' \in {"none", "paid", "known"}
    BY DEF CardTypes, BeaconArrives, BeaconIsLost, WebhookLands, account
  <2>2. granted' \in BOOLEAN
    <3>1. PICK g \in BOOLEAN : g = (granted \/ grantsAccess(b))
      BY Zenon
    <3>2. granted' = granted \/ granted' = (granted \/ grantsAccess(b))
      BY DEF BeaconArrives, BeaconIsLost, WebhookLands, account
    <3> QED BY <3>1, <3>2, Zenon DEF CardTypes
  <2> QED BY <1>1, <1>2, <2>1, <2>2 DEF CardTypes
<1>4. CardFits'
  BY <1>1, <1>2 DEF CardFits
<1>5. ASSUME cardLapses' = {} PROVE CardPromises'
  <2>1. cardLapses = {} /\ ~ BeaconIsLost(b)
    BY <1>5 DEF BeaconArrives, BeaconIsLost, WebhookLands, troubles
  <2>2. Through => Through'
    <3>1. CASE BeaconArrives(b)
      <4>1. beacons' = beacons \ {b} /\ granted' = (granted \/ grantsAccess(b))
            /\ UNCHANGED <<billing_enabled, paying>>
        BY <3>1 DEF BeaconArrives
      <4> QED BY <4>1, Zenon DEF Through, grantsAccess
    <3>2. CASE WebhookLands
      BY <3>2 DEF WebhookLands, Through
    <3> QED BY <2>1, <3>1, <3>2
  <2>3. PromisesAreBacked'
    BY <1>1, <1>2, <2>1, <2>2 DEF CardPromises, PromisesAreBacked
  <2>4. paying' = "none" => paying = "none"
    BY DEF BeaconArrives, BeaconIsLost, WebhookLands, account
  <2>5. PendingFits' /\ AgainFits'
    BY <1>1, <1>2, <2>1, <2>4, PendingStays, AgainStays DEF CardPromises, PendingFits
  <2> QED BY <2>3, <2>5 DEF CardPromises
<1> QED BY <1>3, <1>4, <1>5

\* A wish, its admission, and its refusal at the gate.
LEMMA WishIsMade ==
  ASSUME CardInv, NEW door \in Doors, Asks(door)
  PROVE  CardInv'
<1> USE DEF CardInv
<1> DEFINE x == Wish(door, FALSE, FALSE, None)
<1>1. x \in WishShapes /\ x.again = None /\ ~ x.promised
  BY DEF Wish, WishShapes, None
<1>2. wishes' = Append(wishes, x) /\ place = "page"
      /\ UNCHANGED <<card, opening, opener, paywallIntent, pendingIntent, beacons, place,
                     billing_enabled, granted, paying, paidFor, cardLapses>>
  BY DEF Asks, cardView, intents, account, troubles
<1> HIDE DEF x
<1>3. /\ wishes' \in Seq(WishShapes)
      /\ DOMAIN wishes' = DOMAIN wishes \cup {Len(wishes) + 1}
      /\ wishes'[Len(wishes) + 1] = x
      /\ \A v \in DOMAIN wishes : v # Len(wishes) + 1 /\ wishes'[v] = wishes[v]
      /\ None \notin DOMAIN wishes
  BY <1>1, <1>2, OneWishMore DEF CardTypes
<1>4. CardTypes'
  BY <1>2, <1>3 DEF CardTypes
<1>5. CardFits'
  BY <1>2, <1>3 DEF CardFits
<1>6. ASSUME cardLapses' = {} PROVE CardPromises'
  <2>1. CardPromises
    BY <1>2, <1>6
  <2>2. Through <=> Through'
    BY <1>2 DEF Through, grantsAccess
  <2>3. PromisesAreBacked'
    BY <1>1, <1>2, <1>3, <2>1, <2>2 DEF CardPromises, PromisesAreBacked
  <2>4. PendingFits'
    BY <1>1, <1>2, <1>3, <2>1 DEF CardPromises, PendingFits, CardFits
  <2>5. AgainFits'
    BY <1>1, <1>2, <1>3, <2>1 DEF CardPromises, AgainFits
  <2> QED BY <2>3, <2>4, <2>5 DEF CardPromises
<1> QED BY <1>4, <1>5, <1>6

\* A wish the server lets through.
LEMMA WishIsAdmitted ==
  ASSUME CardInv, NEW w, IsAdmitted(w)
  PROVE  CardInv'
<1> USE DEF CardInv
<1>1. w \in DOMAIN wishes /\ wishes[w].stage = "sent" /\ wishes[w] \in WishShapes
  BY DEF IsAdmitted, CardTypes
<1>2. PICK x \in WishShapes : /\ wishes' = [wishes EXCEPT ![w] = x]
                              /\ x.again = wishes[w].again /\ x.promised = wishes[w].promised
                              /\ x.stage = "admitted"
  BY <1>1, Restaged DEF IsAdmitted
<1>3. UNCHANGED <<card, opening, opener, paywallIntent, pendingIntent, beacons, place,
                  billing_enabled, granted, paying, paidFor, cardLapses>>
  BY DEF IsAdmitted, cardView, intents, account, troubles
<1>4. /\ WishesGoOn /\ wishes'[w] = x
      /\ \A v \in DOMAIN wishes : v # w => wishes'[v] = wishes[v]
  BY <1>1, <1>2, OneWishChanges DEF CardTypes
<1>5. CardTypes'
  BY <1>3, <1>4 DEF CardTypes, WishesGoOn
<1>6. CardFits'
  BY <1>1, <1>2, <1>3, <1>4 DEF CardFits, WishesGoOn
<1>7. ASSUME cardLapses' = {} PROVE CardPromises'
  <2>1. Through <=> Through'
    BY <1>3 DEF Through, grantsAccess
  <2>2. PromisesAreBacked'
    BY <1>2, <1>3, <1>4, <1>7, <2>1 DEF CardPromises, PromisesAreBacked, WishesGoOn
  <2>3. PendingFits' /\ AgainFits'
    BY <1>3, <1>4, <1>7, PendingStays, AgainStays DEF CardPromises, PendingFits
  <2> QED BY <2>2, <2>3 DEF CardPromises
<1> QED BY <1>5, <1>6, <1>7

\* A wish that meets the gate: the card opens, or the wish is turned away.
LEMMA WishMeetsTheGate ==
  ASSUME CardInv, NEW w, MeetsTheGate(w)
  PROVE  CardInv'
<1> USE DEF CardInv
<1>1. w \in DOMAIN wishes /\ wishes[w].stage = "sent" /\ wishes[w] \in WishShapes
      /\ Gated /\ place = "page"
  BY DEF MeetsTheGate, CardTypes, CardFits
<1>2. PICK x \in WishShapes : /\ wishes' = [wishes EXCEPT ![w] = x]
                              /\ x.again = wishes[w].again /\ x.promised = wishes[w].promised
                              /\ x.stage \in {"gated", "refused"}
                              /\ IF x.stage = "gated"
                                 THEN paywallIntent' = w /\ opener' = w /\ card' = "price"
                                      /\ card = "shut"
                                 ELSE UNCHANGED <<card, opener, paywallIntent>>
  <2>1. CASE card = "shut" /\ ~ wishes[w].retry
    BY <1>1, <2>1, Restaged DEF MeetsTheGate
  <2>2. CASE ~ (card = "shut" /\ ~ wishes[w].retry)
    BY <1>1, <2>2, Restaged DEF MeetsTheGate
  <2> QED BY <2>1, <2>2
<1>3. UNCHANGED <<opening, pendingIntent, beacons, place, billing_enabled, granted, paying, paidFor>>
      /\ cardLapses \subseteq cardLapses' /\ (Overtakes(w) => cardLapses' # {})
  BY DEF MeetsTheGate, account
<1>4. /\ WishesGoOn /\ wishes'[w] = x
      /\ \A v \in DOMAIN wishes : v # w => wishes'[v] = wishes[v]
  BY <1>1, <1>2, OneWishChanges DEF CardTypes
<1>5. w \in Nat
  BY <1>1 DEF CardTypes
<1>6. CardTypes'
  BY <1>2, <1>3, <1>4, <1>5 DEF CardTypes, WishesGoOn
<1>7. CardFits'
  BY <1>1, <1>2, <1>3, <1>4 DEF CardFits, WishesGoOn
<1>8. ASSUME cardLapses' = {} PROVE CardPromises'
  <2>1. CardPromises /\ ~ Overtakes(w)
    BY <1>3, <1>8
  <2>2. Through <=> Through'
    BY <1>3 DEF Through, grantsAccess
  <2>3. ~ wishes[w].promised
    BY <1>1, <2>1 DEF Overtakes, Gated, CardPromises, PromisesAreBacked, Through
  <2>4. PromisesAreBacked'
    BY <1>2, <1>3, <1>4, <2>1, <2>2, <2>3 DEF CardPromises, PromisesAreBacked, WishesGoOn
  <2>5. opening' => card' = "price"
    BY <1>2, <1>3, <2>1 DEF CardPromises, PendingFits
  <2>6. PendingFits' /\ AgainFits'
    BY <1>3, <1>4, <2>1, <2>5, PendingStays, AgainStays DEF CardPromises
  <2> QED BY <2>4, <2>6 DEF CardPromises
<1> QED BY <1>6, <1>7, <1>8

\* The card is taken down: nothing else of what is promised changes but the wish it
\* held back.
LEMMA CardComesDown ==
  ASSUME CardInv, NEW through \in BOOLEAN, card # "shut", Teardown(through)
  PROVE  /\ WishesGoOn /\ opener' = None /\ card' = "shut"
         /\ \A v \in DOMAIN wishes :
              /\ v # opener => wishes'[v] = wishes[v]
              /\ v = opener => wishes'[v].stage = (IF through THEN "sent" ELSE "declined")
              /\ v = opener /\ ~ through => wishes'[v].promised = wishes[v].promised
<1> USE DEF CardInv
<1>1. opener \in DOMAIN wishes /\ wishes[opener].stage = "gated" /\ wishes[opener] \in WishShapes
  BY DEF CardFits, CardTypes
<1>2. opener' = None /\ card' = "shut"
  BY DEF Teardown
<1>3. PICK x \in WishShapes :
        /\ wishes' = [wishes EXCEPT ![opener] = x]
        /\ x.again = wishes[opener].again
        /\ x.stage = (IF through THEN "sent" ELSE "declined")
        /\ ~ through => x.promised = wishes[opener].promised
  <2>1. CASE through
    <3>1. wishes' = [wishes EXCEPT ![opener] = SentAgain(wishes[opener])]
      BY <2>1, Zenon DEF Teardown
    <3> QED BY <1>1, <2>1, <3>1, LetThrough
  <2>2. CASE ~ through
    <3>1. wishes' = [wishes EXCEPT ![opener] = [wishes[opener] EXCEPT !.stage = "declined"]]
      BY <2>2, Zenon DEF Teardown
    <3> DEFINE x == [wishes[opener] EXCEPT !.stage = "declined"]
    <3>2. x \in WishShapes /\ x.again = wishes[opener].again
          /\ x.promised = wishes[opener].promised /\ x.stage = "declined"
      BY <1>1, Restaged
    <3> HIDE DEF x
    <3>3. wishes' = [wishes EXCEPT ![opener] = x]
      BY <3>1 DEF x
    <3> QED BY <2>2, <3>2, <3>3
  <2> QED BY <2>1, <2>2
<1>4. /\ WishesGoOn /\ wishes'[opener] = x
      /\ \A v \in DOMAIN wishes : v # opener => wishes'[v] = wishes[v]
  BY <1>1, <1>3, OneWishChanges DEF CardTypes
<1> QED BY <1>2, <1>3, <1>4

\* Whichever way it comes down, off a checkout, through only if there is a way.
LEMMA ComingDownFits ==
  ASSUME CardInv, NEW through \in BOOLEAN, card # "shut", Teardown(through),
         beacons \subseteq beacons', beacons' \subseteq GateAnswers,
         UNCHANGED <<opening, paywallIntent, pendingIntent, place, billing_enabled, granted,
                     paying, paidFor>>,
         cardLapses' = {} => cardLapses = {} /\ ~ opening /\ (through => Through')
  PROVE  CardInv'
<1> USE DEF CardInv
<1>1. /\ WishesGoOn /\ opener' = None /\ card' = "shut"
      /\ \A v \in DOMAIN wishes :
           /\ v # opener => wishes'[v] = wishes[v]
           /\ v = opener => wishes'[v].stage = (IF through THEN "sent" ELSE "declined")
           /\ v = opener /\ ~ through => wishes'[v].promised = wishes[v].promised
  BY CardComesDown
<1>2. place = "page"
  BY DEF CardFits, CardTypes
<1>3. CardTypes'
  BY <1>1 DEF CardTypes, WishesGoOn, None
<1>4. CardFits'
  BY <1>1, <1>2 DEF CardFits, WishesGoOn
<1>5. ASSUME cardLapses' = {} PROVE CardPromises'
  <2>1. CardPromises /\ ~ opening /\ (through => Through')
    BY <1>5
  <2>2. Through => Through'
    BY ThroughStays
  <2>3. PromisesAreBacked'
    BY <1>1, <2>1, <2>2 DEF CardPromises, PromisesAreBacked, WishesGoOn
  <2>4. PendingFits' /\ AgainFits'
    BY <1>1, <2>1, PendingStays, AgainStays DEF CardPromises
  <2> QED BY <2>3, <2>4 DEF CardPromises
<1> QED BY <1>3, <1>4, <1>5

\* What stands on the card while wishes wait.
LEMMA CardIsAnswered ==
  ASSUME CardInv, Declines \/ Escapes \/ LeavesTheFavor \/ Subscribes
  PROVE  CardInv'
<1> USE DEF CardInv
<1>1. CASE Declines
  <2>1. beacons' = beacons \cup {"not_yet"} /\ card = "price" /\ ~ opening
        /\ UNCHANGED <<opening, paywallIntent, pendingIntent, place, billing_enabled, granted,
                       paying, paidFor, cardLapses>>
    BY <1>1 DEF Declines, intents, account, troubles
  <2>2. beacons' \subseteq GateAnswers
    BY <2>1 DEF CardTypes, GateAnswers
  <2>3. CASE billing_enabled
    <3>1. Teardown(FALSE)
      BY <1>1, <2>3 DEF Declines
    <3> QED BY <2>1, <2>2, <3>1, ComingDownFits
  <2>4. CASE ~ billing_enabled
    <3>1. card' = "favor" /\ UNCHANGED <<wishes, opener>>
      BY <1>1, <2>4 DEF Declines
    <3>2. Through'
      BY <2>1, <2>4 DEF Through, grantsAccess
    <3>3. CardTypes' /\ CardFits'
      BY <2>1, <2>2, <2>4, <3>1 DEF CardTypes, CardFits
    <3>4. ASSUME cardLapses' = {} PROVE CardPromises'
      BY <2>1, <3>1, <3>2, <3>4 DEF CardPromises, PromisesAreBacked, PendingFits, AgainFits
    <3> QED BY <3>3, <3>4
  <2> QED BY <2>3, <2>4
<1>2. CASE Escapes
  <2>1. /\ beacons' = beacons \cup {"not_yet"} /\ card = "price" /\ Teardown(~ billing_enabled)
        /\ cardLapses' = cardLapses \cup (IF opening THEN {"escaped"} ELSE {})
        /\ UNCHANGED <<opening, paywallIntent, pendingIntent, place, billing_enabled, granted,
                       paying, paidFor>>
    BY <1>2 DEF Escapes, intents, account
  <2>2. beacons' \subseteq GateAnswers
    BY <2>1 DEF CardTypes, GateAnswers
  <2>3. ~ billing_enabled => Through'
    BY <2>1 DEF Through, grantsAccess
  <2>4. PICK through \in BOOLEAN : through = (~ billing_enabled)
    OBVIOUS
  <2>5. Teardown(through)
    BY <2>1, <2>4, Zenon
  <2> QED BY <2>1, <2>2, <2>3, <2>4, <2>5, ComingDownFits
<1>3. CASE LeavesTheFavor
  <2>1. /\ card = "favor" /\ Teardown(TRUE)
        /\ UNCHANGED <<opening, paywallIntent, pendingIntent, beacons, place, billing_enabled,
                       granted, paying, paidFor, cardLapses>>
    BY <1>3 DEF LeavesTheFavor, intents, account, troubles
  <2>2. cardLapses = {} => ~ opening /\ Through
    BY <2>1 DEF CardPromises, PromisesAreBacked, PendingFits
  <2>3. Through => Through'
    BY <2>1, ThroughStays
  <2>4. beacons' \subseteq GateAnswers
    BY <2>1 DEF CardTypes
  <2> QED BY <2>1, <2>2, <2>3, <2>4, ComingDownFits
<1>4. CASE Subscribes
  <2>1. /\ card = "price" /\ beacons' = beacons \cup {"would_pay"}
        /\ opening' = billing_enabled
        /\ card' = (IF billing_enabled THEN "price" ELSE "favor")
        /\ UNCHANGED <<wishes, opener, paywallIntent, pendingIntent, place, billing_enabled,
                       granted, paying, paidFor, cardLapses>>
    BY <1>4 DEF Subscribes, intents, account, troubles
  <2>2. Through'
    BY <2>1 DEF Through, grantsAccess
  <2>3. beacons' \subseteq GateAnswers
    BY <2>1 DEF CardTypes, GateAnswers
  <2>4. CardTypes' /\ CardFits'
    BY <2>1, <2>3 DEF CardTypes, CardFits
  <2>5. ASSUME cardLapses' = {} PROVE CardPromises'
    BY <2>1, <2>2, <2>5 DEF CardPromises, PromisesAreBacked, PendingFits, AgainFits
  <2> QED BY <2>4, <2>5
<1> QED BY <1>1, <1>2, <1>3, <1>4

\* The page is left for checkout, or loaded again: what waited is gone.
LEMMA PageIsLeft ==
  ASSUME CardInv, CheckoutOpens \/ IsReloaded
  PROVE  CardInv'
<1> USE DEF CardInv
<1>1. PICK S \in SUBSET {"sent", "gated"} :
        /\ wishes' = [w \in DOMAIN wishes |->
             IF wishes[w].stage \in S THEN [wishes[w] EXCEPT !.stage = "gone"] ELSE wishes[w]]
        /\ "gated" \in S /\ (CheckoutOpens => "sent" \in S)
  <2>1. CASE CheckoutOpens
    <3>1. wishes' = [w \in DOMAIN wishes |->
             IF wishes[w].stage \in {"sent", "gated"} THEN [wishes[w] EXCEPT !.stage = "gone"]
             ELSE wishes[w]]
      BY <2>1 DEF CheckoutOpens
    <3>2. {"sent", "gated"} \in SUBSET {"sent", "gated"} /\ "gated" \in {"sent", "gated"}
          /\ "sent" \in {"sent", "gated"}
      OBVIOUS
    <3> QED BY <3>1, <3>2, Zenon
  <2>2. CASE IsReloaded /\ ~ CheckoutOpens
    <3>1. wishes' = [w \in DOMAIN wishes |->
             IF wishes[w].stage \in {"gated"} THEN [wishes[w] EXCEPT !.stage = "gone"] ELSE wishes[w]]
      BY <2>2 DEF IsReloaded
    <3> QED BY <2>2, <3>1
  <2> QED BY <2>1, <2>2
<1>2. \A w \in DOMAIN wishes :
        /\ wishes'[w] \in WishShapes /\ wishes'[w].again = wishes[w].again
        /\ wishes'[w].promised = wishes[w].promised
        /\ wishes'[w].stage = IF wishes[w].stage \in S THEN "gone" ELSE wishes[w].stage
  <2> SUFFICES ASSUME NEW w \in DOMAIN wishes
               PROVE  /\ wishes'[w] \in WishShapes /\ wishes'[w].again = wishes[w].again
                      /\ wishes'[w].promised = wishes[w].promised
                      /\ wishes'[w].stage = IF wishes[w].stage \in S THEN "gone" ELSE wishes[w].stage
    OBVIOUS
  <2>1. wishes[w] \in WishShapes
    BY DEF CardTypes
  <2>2. CASE wishes[w].stage \in S
    <3> DEFINE x == [wishes[w] EXCEPT !.stage = "gone"]
    <3>1. x \in WishShapes /\ x.again = wishes[w].again
          /\ x.promised = wishes[w].promised /\ x.stage = "gone"
      BY <2>1, Restaged
    <3> HIDE DEF x
    <3>2. wishes'[w] = x
      BY <1>1, <2>2 DEF x
    <3> QED BY <2>2, <3>1, <3>2
  <2>3. CASE wishes[w].stage \notin S
    BY <1>1, <2>1, <2>3
  <2> QED BY <2>2, <2>3
<1>3. wishes' \in Seq(WishShapes) /\ DOMAIN wishes' = DOMAIN wishes
  <2>1. DOMAIN wishes = 1..Len(wishes) /\ Len(wishes) \in Nat
    BY DEF CardTypes
  <2>2. wishes' \in [1..Len(wishes) -> WishShapes]
    BY <1>1, <1>2, <2>1
  <2> QED BY <1>1, <2>1, <2>2
<1>4. WishesGoOn
  BY <1>2, <1>3 DEF WishesGoOn
<1>5. /\ card' = "shut" /\ opener' = None /\ opening' = FALSE
      /\ UNCHANGED <<beacons, billing_enabled, granted, paying, paidFor, cardLapses>>
      /\ \/ CheckoutOpens /\ place' = "stripe" /\ pendingIntent' = paywallIntent
            /\ paywallIntent' = paywallIntent /\ opening
         \/ UNCHANGED <<place, pendingIntent>> /\ paywallIntent' = None /\ place = "page"
  BY DEF CheckoutOpens, IsReloaded, account, troubles
<1>6. CardTypes'
  <2>1. paywallIntent' \in Nat /\ pendingIntent' \in Nat /\ place' \in {"page", "stripe", "returned"}
    BY <1>5 DEF CardTypes, None
  <2> QED BY <1>3, <1>5, <2>1 DEF CardTypes, None
<1>7. CardFits'
  BY <1>1, <1>2, <1>3, <1>5 DEF CardFits
<1>8. ASSUME cardLapses' = {} PROVE CardPromises'
  <2>1. CardPromises
    BY <1>5, <1>8
  <2>2. Through => Through'
    BY <1>5 DEF Through, grantsAccess
  <2>3. PromisesAreBacked'
    BY <1>2, <1>3, <1>5, <2>1, <2>2 DEF CardPromises, PromisesAreBacked
  <2>4. AgainFits'
    BY <1>4, <1>5, <2>1, AgainStays DEF CardPromises
  <2>5. PendingFits'
    <3>1. CASE place' = "stripe" /\ pendingIntent' = paywallIntent /\ opening
      <4>1. paywallIntent \in DOMAIN wishes /\ wishes[paywallIntent].stage = "gated"
        BY <2>1, <3>1 DEF CardPromises, PendingFits, CardFits
      <4> QED BY <1>1, <1>2, <1>3, <1>5, <2>1, <3>1, <4>1 DEF CardPromises, PendingFits
    <3>2. CASE UNCHANGED <<place, pendingIntent>>
      BY <1>4, <1>5, <2>1, <3>2, PendingStays DEF CardPromises
    <3> QED BY <1>5, <3>1, <3>2
  <2> QED BY <2>3, <2>4, <2>5 DEF CardPromises
<1> QED BY <1>6, <1>7, <1>8

\* Away from the page and back.
LEMMA CheckoutEnds ==
  ASSUME CardInv, CheckoutFails \/ Pays \/ ComesBackUnpaid
  PROVE  CardInv'
<1> USE DEF CardInv
<1>1. WishesGoOn /\ UNCHANGED wishes
  BY WishesStay DEF CardTypes, CheckoutFails, Pays, ComesBackUnpaid
<1>2. UNCHANGED <<card, opener, beacons, billing_enabled, granted, cardLapses>>
  BY DEF CheckoutFails, Pays, ComesBackUnpaid, cardView, intents, account, troubles
<1>3. CASE CheckoutFails
  <2>1. opening' = FALSE /\ UNCHANGED <<paywallIntent, pendingIntent, place, paying, paidFor>>
    BY <1>3 DEF CheckoutFails, intents, account
  <2>2. CardTypes' /\ CardFits'
    BY <1>1, <1>2, <2>1 DEF CardTypes, CardFits
  <2>3. ASSUME cardLapses' = {} PROVE CardPromises'
    BY <1>1, <1>2, <2>1, <2>3
       DEF CardPromises, PromisesAreBacked, PendingFits, AgainFits, Through, grantsAccess
  <2> QED BY <2>2, <2>3
<1>4. CASE Pays
  <2>1. /\ place = "stripe" /\ paying = "none" /\ paying' = "paid" /\ paidFor' = pendingIntent
        /\ place' = "returned" /\ paywallIntent' = None
        /\ UNCHANGED <<opening, pendingIntent>>
    BY <1>4 DEF Pays, cardView
  <2>2. CardTypes' /\ CardFits'
    BY <1>1, <1>2, <2>1 DEF CardTypes, CardFits, None
  <2>3. ASSUME cardLapses' = {} PROVE CardPromises'
    <3>1. CardPromises BY <1>2, <2>3
    <3>2. Through => Through' BY <1>2, <2>1 DEF Through, grantsAccess
    <3>3. PromisesAreBacked'
      BY <1>1, <1>2, <3>1, <3>2 DEF CardPromises, PromisesAreBacked
    <3>4. PendingFits' /\ AgainFits'
      BY <1>1, <1>2, <2>1, <3>1 DEF CardPromises, PendingFits, AgainFits
    <3> QED BY <3>3, <3>4 DEF CardPromises
  <2> QED BY <2>2, <2>3
<1>5. CASE ComesBackUnpaid
  <2>1. /\ place = "stripe" /\ place' = "page" /\ paywallIntent' = None
        /\ pendingIntent' \in {None, pendingIntent}
        /\ UNCHANGED <<opening, paying, paidFor>>
    BY <1>5 DEF ComesBackUnpaid, cardView, account
  <2>2. CardTypes' /\ CardFits'
    BY <1>1, <1>2, <2>1 DEF CardTypes, CardFits, None
  <2>3. ASSUME cardLapses' = {} PROVE CardPromises'
    <3>1. CardPromises BY <1>2, <2>3
    <3>2. Through => Through' BY <1>2, <2>1 DEF Through, grantsAccess
    <3>3. PromisesAreBacked'
      BY <1>1, <1>2, <3>1, <3>2 DEF CardPromises, PromisesAreBacked
    <3>4. PendingFits' /\ AgainFits'
      BY <1>1, <1>2, <2>1, <3>1 DEF CardPromises, PendingFits, AgainFits
    <3> QED BY <3>3, <3>4 DEF CardPromises
  <2> QED BY <2>2, <2>3
<1> QED BY <1>3, <1>4, <1>5

\* What was paid for is asked again, once.
LEMMA WishIsResumed ==
  ASSUME CardInv, Resumes
  PROVE  CardInv'
<1> USE DEF CardInv
<1>1. /\ place = "returned" /\ place' = "page" /\ pendingIntent' = None
      /\ UNCHANGED <<card, opening, opener, paywallIntent, beacons, billing_enabled, granted,
                     paidFor>>
      /\ paying' \in {"known", paying}
      /\ cardLapses' = {} => cardLapses = {} /\ paying' = "known"
  BY DEF Resumes, cardView, troubles
<1>2. CASE pendingIntent = None \/ UNCHANGED wishes
  <2>1. UNCHANGED wishes
    BY <1>2 DEF Resumes
  <2>2. CardTypes' /\ CardFits'
    BY <1>1, <2>1 DEF CardTypes, CardFits, None
  <2>3. ASSUME cardLapses' = {} PROVE CardPromises'
    <3>1. CardPromises BY <1>1, <2>3
    <3>2. Through' BY <1>1, <2>3 DEF Through
    <3> QED BY <1>1, <2>1, <3>1, <3>2
            DEF CardPromises, PromisesAreBacked, PendingFits, AgainFits
  <2> QED BY <2>2, <2>3
<1>3. CASE pendingIntent # None /\ wishes' = Append(wishes, Replayed(pendingIntent))
  <2> DEFINE x == Replayed(pendingIntent)
  <2>1. pendingIntent \in DOMAIN wishes /\ wishes[pendingIntent] \in WishShapes
    BY <1>3 DEF CardFits, CardTypes
  <2>2. x \in WishShapes /\ x.again = pendingIntent /\ x.stage = "sent"
    BY <2>1 DEF Replayed, Wish, WishShapes, CardTypes
  <2> HIDE DEF x
  <2>3. /\ wishes' \in Seq(WishShapes)
        /\ DOMAIN wishes' = DOMAIN wishes \cup {Len(wishes) + 1}
        /\ wishes'[Len(wishes) + 1] = x
        /\ \A v \in DOMAIN wishes : v # Len(wishes) + 1 /\ wishes'[v] = wishes[v]
        /\ None \notin DOMAIN wishes
    BY <1>3, <2>2, OneWishMore DEF CardTypes, x
  <2>4. CardTypes'
    BY <1>1, <2>3 DEF CardTypes, None
  <2>5. CardFits'
    BY <1>1, <2>3 DEF CardFits
  <2>6. ASSUME cardLapses' = {} PROVE CardPromises'
    <3>1. /\ CardPromises /\ wishes[pendingIntent].stage = "gone" /\ paidFor = pendingIntent
          /\ paying' = "known"
          /\ \A w \in DOMAIN wishes : wishes[w].again = None
      BY <1>1, <1>3, <2>6 DEF CardPromises, PendingFits
    <3>2. Through'
      BY <3>1 DEF Through
    <3>3. PromisesAreBacked'
      BY <1>1, <2>2, <2>3, <3>1, <3>2 DEF CardPromises, PromisesAreBacked
    <3>4. PendingFits'
      BY <1>1, <2>3, <3>1 DEF CardPromises, PendingFits
    <3>5. AgainFits'
      BY <1>1, <1>3, <2>1, <2>2, <2>3, <3>1 DEF AgainFits
    <3> QED BY <3>3, <3>4, <3>5 DEF CardPromises
  <2> QED BY <2>4, <2>5, <2>6
<1> QED BY <1>2, <1>3 DEF Resumes

\* Every step of the card.
LEMMA CardStep == CardInv /\ [PaywallCardNext]_cardVars => CardInv'
<1> SUFFICES ASSUME CardInv, [PaywallCardNext]_cardVars PROVE CardInv'
  OBVIOUS
<1>1. CASE UNCHANGED cardVars
  <2> USE <1>1 DEF cardVars, CardInv
  <2>1. CardTypes' BY DEF CardTypes
  <2>2. CardFits' BY DEF CardFits
  <2>3. CardPromises => CardPromises'
    BY DEF CardPromises, PromisesAreBacked, PendingFits, AgainFits, Through, grantsAccess
  <2> QED BY <2>1, <2>2, <2>3
<1>2. CASE PaywallCardNext
  <2>1. CASE (\E b \in GateAnswers : BeaconArrives(b) \/ BeaconIsLost(b)) \/ WebhookLands
    <3>1. "not_yet" \in GateAnswers BY DEF GateAnswers
    <3> QED BY <2>1, <3>1, ServerHears
  <2>2. CASE \E door \in Doors : Asks(door)
    BY <2>2, WishIsMade
  <2>3. CASE \E w \in Wishes : IsAdmitted(w) \/ MeetsTheGate(w)
    BY <2>3, WishIsAdmitted, WishMeetsTheGate
  <2>4. CASE \/ Declines \/ Escapes \/ LeavesTheFavor \/ Subscribes
             \/ CheckoutOpens \/ CheckoutFails
             \/ Pays \/ ComesBackUnpaid \/ Resumes \/ IsReloaded
    BY <2>4, CardIsAnswered, PageIsLeft, CheckoutEnds, WishIsResumed
  <2> QED BY <1>2, <2>1, <2>2, <2>3, <2>4 DEF PaywallCardNext
<1> QED BY <1>1, <1>2

\* What the card promises follows.
LEMMA CardKeeps == CardInv => GateKeepsItsWord
<1> SUFFICES ASSUME CardInv PROVE GateKeepsItsWord
  OBVIOUS
<1>1. PromisesAreKept
  BY DEF CardInv, CardPromises, PromisesAreBacked, PromisesAreKept
<1>2. PaidIsResumed
  BY DEF CardInv, CardPromises, AgainFits, PaidIsResumed
<1> QED BY <1>1, <1>2 DEF GateKeepsItsWord

---------------------------------------------------------------------------
(* The editor.                                                             *)

RequestShapes ==
  [kind : {"save", "file_save", "edit"}, upTo : Nat, changes : Nat, tracked : BOOLEAN,
   for : SUBSET Flows, accepted : BOOLEAN]

EditorTypes ==
  /\ typed \in Nat /\ unreported \in Nat /\ onDisk \in Nat /\ reported \in Nat
  /\ saveTimer \in BOOLEAN /\ editTimer \in BOOLEAN
  /\ overlapped \in BOOLEAN /\ loose \in BOOLEAN
  /\ requests \subseteq RequestShapes
  /\ flow \in [Flows -> [stage : {"idle", "flushing", "over"}, pressed : Nat]]
  /\ verdict \in [graded : Nat, shown : Nat, done : BOOLEAN]
  /\ roundEnded \in {"no", "page", "clock"}
  /\ panesFaults \in Nat

SavesIn(R) == {q \in R : q.kind = "save"}
EditsIn(R) == {q \in R : q.kind = "edit"}
Submitted == flow["end"].pressed

\* Submit was pressed on a version there was; the page ends the round by it.
FlowFits ==
  /\ flow["end"].stage # "idle" => Submitted <= typed
  /\ roundEnded = "page" => flow["end"].stage = "over"
  /\ \A q \in requests : "end" \in q.for => flow["end"].stage # "idle"
  /\ verdict.done => roundEnded # "no"

\* A set of saves: one at most, of a version between the disk's and the editor's.
OneSave(S, lo, hi) ==
  /\ \A q \in S : q.tracked /\ lo <= q.upTo /\ q.upTo <= hi
  /\ \A q, r \in S : q = r

\* The saves, as long as none failed and no two were under way.
SavesFit ==
  /\ onDisk <= typed /\ OneSave(SavesIn(requests), onDisk, typed)
  /\ roundEnded = "no" =>
       saveTimer \/ onDisk = typed \/ \E q \in SavesIn(requests) : q.upTo = typed
  /\ flow["end"].stage # "idle" /\ roundEnded # "clock" =>
       \A q \in SavesIn(requests) : q.upTo >= Submitted
  /\ flow["end"].stage # "idle" /\ roundEnded = "no" =>
       onDisk >= Submitted \/ \E q \in SavesIn(requests) : "end" \in q.for
  /\ roundEnded = "page" => onDisk >= Submitted
  /\ roundEnded = "page" /\ verdict.done => verdict.graded >= Submitted

\* The changes an edit event carries, and those of the first hi that none does.
Carried(q) == (q.upTo - q.changes + 1)..q.upTo
SentOf(E, hi) == {n \in 1..hi : \A q \in E : n \notin Carried(q)}

\* A set of edit events that carry changes of their own.
OwnChanges(E, hi) ==
  /\ \A q \in E : q.changes <= q.upTo /\ q.upTo <= hi
  /\ \A q, r \in E : q # r => Carried(q) \cap Carried(r) = {}

\* The edit events, as long as none failed: what is neither with one nor with the
\* page was reported.
EditsFit ==
  /\ unreported <= typed /\ (unreported > 0 => editTimer)
  /\ OwnChanges(EditsIn(requests), typed - unreported)
  /\ reported = Cardinality(SentOf(EditsIn(requests), typed - unreported))

\* After Submit, as long as it found no event that nobody waits for, what is
\* under way and not waited for is newer.
SubmitWaits ==
  flow["end"].stage # "idle" =>
    /\ typed - unreported >= Submitted
    /\ \A q \in EditsIn(requests) : "end" \in q.for \/ q.upTo - q.changes >= Submitted

EditorInv ==
  /\ EditorTypes /\ FlowFits
  /\ panesFaults = 0 /\ ~ overlapped => SavesFit
  /\ panesFaults = 0 /\ roundEnded = "no" => EditsFit
  /\ panesFaults = 0 /\ roundEnded = "no" /\ ~ loose => SubmitWaits
  /\ panesFaults = 0 /\ roundEnded = "page" /\ ~ loose => verdict.shown >= Submitted

\* s is the request q, further on its way or waited for by more.
IsStill(s, q) ==
  /\ s.kind = q.kind /\ s.upTo = q.upTo /\ s.changes = q.changes /\ s.tracked = q.tracked
  /\ q.for \subseteq s.for

\* S are the requests of R, no two of them the same.
AreThose(S, R) ==
  /\ \A s \in S : \E q \in R : IsStill(s, q)
  /\ \A q \in R : \E s \in S : IsStill(s, q)
  /\ \A s, t \in S : s # t => \E q, r \in R : q # r /\ IsStill(s, q) /\ IsStill(t, r)

\* What becomes of a request.
LEMMA RequestFacts ==
  ASSUME NEW q \in RequestShapes, NEW f \in Flows
  PROVE  /\ [q EXCEPT !.for = @ \cup {f}] \in RequestShapes
         /\ [q EXCEPT !.for = @ \cup {f}].for = q.for \cup {f}
         /\ IsStill([q EXCEPT !.for = @ \cup {f}], q)
         /\ [q EXCEPT !.accepted = TRUE] \in RequestShapes
         /\ [q EXCEPT !.accepted = TRUE].for = q.for
         /\ IsStill([q EXCEPT !.accepted = TRUE], q)
         /\ [q EXCEPT !.kind = "file_save"] \in RequestShapes
         /\ [q EXCEPT !.kind = "file_save"].for = q.for
         /\ [q EXCEPT !.kind = "file_save"].kind = "file_save"
         /\ [q EXCEPT !.kind = "file_save", !.accepted = FALSE] \in RequestShapes
         /\ [q EXCEPT !.kind = "file_save", !.accepted = FALSE].for = q.for
         /\ [q EXCEPT !.kind = "file_save", !.accepted = FALSE].kind = "file_save"
BY DEF RequestShapes, IsStill

\* A request as the page writes it: it carries what was typed by then.
LEMMA NewRequest ==
  ASSUME typed \in Nat, NEW k \in {"save", "edit"}, NEW n \in Nat, NEW t \in BOOLEAN
  PROVE  /\ Request(k, n, t) \in RequestShapes
         /\ Request(k, n, t).kind = k /\ Request(k, n, t).upTo = typed
         /\ Request(k, n, t).changes = n /\ Request(k, n, t).tracked = t
         /\ Request(k, n, t).for = {}
BY DEF Request, RequestShapes

\* The same requests carry the same changes.
LEMMA SameChanges ==
  ASSUME NEW S \in SUBSET RequestShapes, NEW R \in SUBSET RequestShapes, AreThose(S, R),
         NEW hi \in Nat
  PROVE  /\ SentOf(S, hi) = SentOf(R, hi)
         /\ OwnChanges(R, hi) => OwnChanges(S, hi)
<1>1. \A s, q : IsStill(s, q) => Carried(s) = Carried(q)
  BY DEF IsStill, Carried
<1>2. SentOf(S, hi) = SentOf(R, hi)
  BY <1>1 DEF SentOf, AreThose
<1>3. ASSUME OwnChanges(R, hi) PROVE OwnChanges(S, hi)
  <2>1. \A s \in S : s.changes <= s.upTo /\ s.upTo <= hi
    BY <1>3 DEF OwnChanges, AreThose, IsStill
  <2>2. ASSUME NEW s \in S, NEW t \in S, s # t PROVE Carried(s) \cap Carried(t) = {}
    <3>1. PICK q \in R, r \in R : q # r /\ IsStill(s, q) /\ IsStill(t, r)
      BY <2>2 DEF AreThose
    <3> QED BY <1>1, <1>3, <3>1 DEF OwnChanges
  <2> QED BY <2>1, <2>2 DEF OwnChanges
<1> QED BY <1>2, <1>3

\* One more event, that carries what was not reported.
LEMMA OneMoreEvent ==
  ASSUME NEW E \in SUBSET RequestShapes, NEW q \in RequestShapes, NEW lo \in Nat, NEW hi \in Nat,
         lo <= hi, OwnChanges(E, lo), q.upTo = hi, q.changes = hi - lo
  PROVE  /\ SentOf(E \cup {q}, hi) = SentOf(E, lo)
         /\ OwnChanges(E \cup {q}, hi)
<1>1. Carried(q) = (lo + 1)..hi
  BY DEF Carried
<1>2. \A r \in E : r.upTo \in Nat /\ r.changes \in Nat
  BY DEF RequestShapes
<1>3. \A r \in E : Carried(r) \subseteq 1..lo
  BY <1>2 DEF Carried, OwnChanges
<1>4. SentOf(E \cup {q}, hi) = SentOf(E, lo)
  BY <1>1, <1>3 DEF SentOf
<1>5. \A r \in E \cup {q} : r.changes <= r.upTo /\ r.upTo <= hi
  BY <1>2 DEF OwnChanges
<1>6. \A r \in E : Carried(r) \cap Carried(q) = {}
  BY <1>1, <1>3
<1>7. OwnChanges(E \cup {q}, hi)
  BY <1>5, <1>6 DEF OwnChanges
<1> QED BY <1>4, <1>7

\* One event less, whose changes are reported now.
LEMMA OneEventLess ==
  ASSUME NEW E \in SUBSET RequestShapes, NEW q \in E, NEW hi \in Nat, OwnChanges(E, hi)
  PROVE  /\ OwnChanges(E \ {q}, hi)
         /\ Cardinality(SentOf(E \ {q}, hi)) = Cardinality(SentOf(E, hi)) + q.changes
<1>1. q.upTo \in Nat /\ q.changes \in Nat /\ q.changes <= q.upTo /\ q.upTo <= hi
  BY DEF RequestShapes, OwnChanges
<1>2. SentOf(E \ {q}, hi) = SentOf(E, hi) \cup Carried(q)
  <2>1. Carried(q) \subseteq 1..hi
    BY <1>1 DEF Carried
  <2>2. \A r \in E \ {q} : Carried(r) \cap Carried(q) = {}
    BY DEF OwnChanges
  <2> QED BY <2>1, <2>2 DEF SentOf
<1>3. SentOf(E, hi) \cap Carried(q) = {}
  BY DEF SentOf
<1>4. IsFiniteSet(1..hi) /\ IsFiniteSet(Carried(q)) /\ Cardinality(Carried(q)) = q.changes
  <2>1. q.upTo - q.changes + 1 \in Int /\ q.upTo \in Int
    BY <1>1
  <2>2. IsFiniteSet(Carried(q))
        /\ Cardinality(Carried(q)) = IF q.upTo - q.changes + 1 > q.upTo THEN 0
                                     ELSE q.upTo - (q.upTo - q.changes + 1) + 1
    BY <2>1, FS_Interval DEF Carried
  <2>3. IsFiniteSet(1..hi)
    BY FS_Interval
  <2> QED BY <1>1, <2>2, <2>3
<1>5. IsFiniteSet(SentOf(E, hi))
  <2>1. SentOf(E, hi) \subseteq 1..hi
    BY DEF SentOf
  <2> QED BY <1>4, <2>1, FS_Subset
<1>6. Cardinality(SentOf(E, hi) \cup Carried(q))
        = Cardinality(SentOf(E, hi)) + Cardinality(Carried(q)) - Cardinality(SentOf(E, hi) \cap Carried(q))
  BY <1>4, <1>5, FS_Union
<1>7. Cardinality(SentOf(E, hi) \cap Carried(q)) = 0
  BY <1>3, FS_EmptySet
<1>8. Cardinality(SentOf(E, hi)) \in Nat
  BY <1>5, FS_CardinalityType
<1>9. OwnChanges(E \ {q}, hi)
  BY DEF OwnChanges
<1>10. Cardinality(SentOf(E \ {q}, hi)) = Cardinality(SentOf(E, hi)) + q.changes
  <2>1. Cardinality(SentOf(E \ {q}, hi)) = Cardinality(SentOf(E, hi)) + q.changes - 0
    BY <1>2, <1>4, <1>6, <1>7, Zenon
  <2>2. q.changes - 0 = q.changes
    BY <1>1
  <2> QED BY <2>1, <2>2, Zenon
<1> QED BY <1>9, <1>10

\* Where no event carries anything of the first n changes, these were sent.
LEMMA FirstAreSent ==
  ASSUME NEW E \in SUBSET RequestShapes, NEW n \in Nat, NEW hi \in Nat, n <= hi,
         \A q \in E : q.upTo - q.changes >= n
  PROVE  Cardinality(SentOf(E, hi)) >= n
<1>1. \A q \in E : q.upTo \in Nat /\ q.changes \in Nat
  BY DEF RequestShapes
<1>2. 1..n \subseteq SentOf(E, hi)
  BY <1>1 DEF SentOf, Carried
<1>3. SentOf(E, hi) \subseteq 1..hi
  BY DEF SentOf
<1>4. IsFiniteSet(1..hi) /\ Cardinality(1..n) = n
  BY FS_Interval
<1>5. IsFiniteSet(SentOf(E, hi))
  BY <1>3, <1>4, FS_Subset
<1>6. Cardinality(1..n) <= Cardinality(SentOf(E, hi))
  BY <1>2, <1>5, FS_Subset
<1>7. Cardinality(SentOf(E, hi)) \in Nat
  BY <1>5, FS_CardinalityType
<1> QED BY <1>4, <1>6, <1>7

\* The saves among requests that are still the same.
LEMMA SameSaves ==
  ASSUME NEW S, NEW R, AreThose(S, R), NEW lo, NEW hi
  PROVE  /\ AreThose(EditsIn(S), EditsIn(R))
         /\ OneSave(SavesIn(R), lo, hi) => OneSave(SavesIn(S), lo, hi)
         /\ \A q \in SavesIn(R) : \E s \in SavesIn(S) : IsStill(s, q)
         /\ \A s \in SavesIn(S) : \E q \in SavesIn(R) : IsStill(s, q)
<1>1. ASSUME NEW k
      PROVE  LET T == {s \in S : s.kind = k}
                 Q == {q \in R : q.kind = k}
             IN  AreThose(T, Q)
  <2> DEFINE T == {s \in S : s.kind = k}
             Q == {q \in R : q.kind = k}
  <2>1. \A s \in T : \E q \in Q : IsStill(s, q)
    <3> TAKE s \in T
    <3>1. PICK q \in R : IsStill(s, q)
      BY DEF AreThose
    <3>2. q \in Q
      BY <3>1 DEF IsStill
    <3> QED BY <3>1, <3>2
  <2>2. \A q \in Q : \E s \in T : IsStill(s, q)
    <3> TAKE q \in Q
    <3>1. PICK s \in S : IsStill(s, q)
      BY DEF AreThose
    <3>2. s \in T
      BY <3>1 DEF IsStill
    <3> QED BY <3>1, <3>2
  <2>3. ASSUME NEW s \in T, NEW t \in T, s # t
        PROVE  \E q, r \in Q : q # r /\ IsStill(s, q) /\ IsStill(t, r)
    <3>1. PICK q \in R, r \in R : q # r /\ IsStill(s, q) /\ IsStill(t, r)
      BY <2>3 DEF AreThose
    <3>2. q \in Q /\ r \in Q
      BY <3>1 DEF IsStill
    <3> QED BY <3>1, <3>2
  <2> QED BY <2>1, <2>2, <2>3 DEF AreThose
<1>2. AreThose(EditsIn(S), EditsIn(R)) /\ AreThose(SavesIn(S), SavesIn(R))
  BY <1>1 DEF EditsIn, SavesIn
<1>3. /\ \A q \in SavesIn(R) : \E s \in SavesIn(S) : IsStill(s, q)
      /\ \A s \in SavesIn(S) : \E q \in SavesIn(R) : IsStill(s, q)
      /\ \A s, t \in SavesIn(S) : s # t => \E q, r \in SavesIn(R) : q # r
  BY <1>2 DEF AreThose
<1>4. OneSave(SavesIn(R), lo, hi) => OneSave(SavesIn(S), lo, hi)
  BY <1>3 DEF OneSave, IsStill
<1> QED BY <1>2, <1>3, <1>4

\* Waiting for what is tracked changes no request otherwise.
LEMMA AwaitedFacts ==
  ASSUME NEW R \in SUBSET RequestShapes, NEW f \in Flows
  PROVE  /\ Awaited(R, f) \in SUBSET RequestShapes
         /\ AreThose(Awaited(R, f), R)
         /\ \A s \in Awaited(R, f) : s.tracked => f \in s.for
         /\ \A s \in Awaited(R, f), g \in Flows : g \in s.for => g = f \/ \E q \in R : g \in q.for
<1> DEFINE now(q) == IF q.tracked THEN [q EXCEPT !.for = @ \cup {f}] ELSE q
<1>1. ASSUME NEW q \in R
      PROVE  /\ now(q) \in RequestShapes /\ IsStill(now(q), q)
             /\ q.for \subseteq now(q).for /\ now(q).for \subseteq q.for \cup {f}
             /\ now(q).tracked = q.tracked /\ q.tracked \in BOOLEAN
             /\ q.tracked => f \in now(q).for
  <2>1. q.tracked \in BOOLEAN
    BY DEF RequestShapes
  <2>2. CASE q.tracked
    <3> DEFINE s == [q EXCEPT !.for = @ \cup {f}]
    <3>1. s \in RequestShapes /\ s.for = q.for \cup {f} /\ IsStill(s, q)
      BY RequestFacts
    <3>2. now(q) = s
      BY <2>2
    <3> HIDE DEF now, s
    <3>3. s.tracked = q.tracked
      BY <3>1 DEF IsStill
    <3> QED BY <2>1, <3>1, <3>2, <3>3
  <2>3. CASE ~ q.tracked
    BY <2>1, <2>3 DEF IsStill
  <2> QED BY <2>1, <2>2, <2>3
<1>2. Awaited(R, f) = {now(q) : q \in R}
  BY DEF Awaited
<1>3. \A s \in Awaited(R, f) : \E q \in R : s = now(q)
  BY <1>2
<1>4. \A q \in R : now(q) \in Awaited(R, f)
  BY <1>2
<1> HIDE DEF now
<1>5. Awaited(R, f) \in SUBSET RequestShapes
  BY <1>1, <1>3
<1>6. AreThose(Awaited(R, f), R)
  BY <1>1, <1>3, <1>4 DEF AreThose
<1>7. \A s \in Awaited(R, f) : s.tracked => f \in s.for
  BY <1>1, <1>3
<1>8. \A s \in Awaited(R, f), g \in Flows : g \in s.for => g = f \/ \E q \in R : g \in q.for
  BY <1>1, <1>3
<1> QED BY <1>5, <1>6, <1>7, <1>8

\* A request that is accepted stays what it was.
LEMMA AcceptedFacts ==
  ASSUME NEW R \in SUBSET RequestShapes, NEW q \in R
  PROVE  AreThose((R \ {q}) \cup {[q EXCEPT !.accepted = TRUE]}, R)
<1> DEFINE s == [q EXCEPT !.accepted = TRUE]
<1>1. IsStill(s, q)
  BY RequestFacts DEF Flows
<1>2. \A r : IsStill(r, r)
  BY DEF IsStill
<1> HIDE DEF s
<1>3. AreThose((R \ {q}) \cup {s}, R)
  BY <1>1, <1>2 DEF AreThose
<1> QED BY <1>3 DEF s

\* The editor of a page just loaded.
LEMMA EditorStarts == PanesInit => EditorInv
<1> SUFFICES ASSUME PanesInit PROVE EditorInv
  OBVIOUS
<1>1. flow["end"] = NoFlow /\ "end" \in Flows
  BY DEF PanesInit, Flows
<1>2. EditorTypes
  BY DEF EditorTypes, PanesInit, NoFlow, NotJudged
<1>3. FlowFits
  BY <1>1 DEF FlowFits, PanesInit, NoFlow, NotJudged, Submitted
<1>4. SavesFit
  BY <1>1 DEF SavesFit, OneSave, SavesIn, PanesInit, NoFlow, NotJudged, Submitted
<1>5. EditsFit
  <2>1. EditsIn(requests) = {} /\ typed - unreported = 0
    BY DEF EditsIn, PanesInit
  <2>2. SentOf({}, 0) = {} /\ OwnChanges({}, 0)
    BY DEF SentOf, OwnChanges
  <2>3. Cardinality(SentOf({}, 0)) = 0
    BY <2>2, FS_EmptySet
  <2> QED BY <2>1, <2>2, <2>3 DEF EditsFit, PanesInit
<1>6. SubmitWaits
  BY <1>1 DEF SubmitWaits, NoFlow
<1> QED BY <1>2, <1>3, <1>4, <1>5, <1>6 DEF EditorInv, PanesInit

\* Other requests and changes than those the judge counts.
LEMMA EditsSame ==
  ASSUME EditsFit, unreported' = unreported, typed' = typed, reported' = reported,
         unreported > 0 => editTimer', EditsIn(requests') = EditsIn(requests)
  PROVE  EditsFit'
BY DEF EditsFit

\* A change is typed.
LEMMA TypesKeeps == ASSUME EditorInv, Types PROVE EditorInv'
<1> USE DEF Types
<1>0. typed \in Nat /\ unreported \in Nat /\ onDisk \in Nat /\ reported \in Nat
      /\ requests \subseteq RequestShapes /\ flow["end"].pressed \in Nat
  BY DEF EditorInv, EditorTypes, Flows
<1>1. EditorTypes'
  BY <1>0 DEF EditorInv, EditorTypes
<1>2. FlowFits'
  BY <1>0 DEF EditorInv, FlowFits, Submitted
<1>3. \A q \in requests : q.upTo \in Nat
  BY <1>0 DEF RequestShapes
<1>4. panesFaults = 0 /\ ~ overlapped => SavesFit'
  <2> SUFFICES ASSUME panesFaults = 0, ~ overlapped PROVE SavesFit'
    OBVIOUS
  <2>1. SavesFit
    BY DEF EditorInv
  <2>2. OneSave(SavesIn(requests), onDisk, typed + 1)
    BY <1>0, <1>3, <2>1 DEF SavesFit, OneSave, SavesIn
  <2> QED BY <1>0, <2>1, <2>2 DEF SavesFit, Submitted
<1>5. panesFaults = 0 => EditsFit'
  <2> SUFFICES ASSUME panesFaults = 0 PROVE EditsFit'
    OBVIOUS
  <2>1. EditsFit
    BY DEF EditorInv
  <2>2. typed' - unreported' = typed - unreported
    BY <1>0
  <2> QED BY <1>0, <2>1, <2>2 DEF EditsFit
<1>6. panesFaults = 0 /\ ~ loose => SubmitWaits'
  <2>1. typed' - unreported' = typed - unreported
    BY <1>0
  <2> QED BY <2>1 DEF EditorInv, SubmitWaits, Submitted
<1> QED BY <1>1, <1>2, <1>4, <1>5, <1>6 DEF EditorInv

\* The save timer fires.
LEMMA SaveTimerKeeps == ASSUME EditorInv, SaveTimerFires PROVE EditorInv'
<1> USE DEF SaveTimerFires
<1> DEFINE n == Request("save", 0, TRUE)
<1>0. typed \in Nat /\ unreported \in Nat /\ onDisk \in Nat /\ reported \in Nat
      /\ requests \subseteq RequestShapes /\ flow["end"].pressed \in Nat
      /\ overlapped \in BOOLEAN /\ loose \in BOOLEAN
  BY DEF EditorInv, EditorTypes, Flows
<1>1. n \in RequestShapes /\ n.kind = "save" /\ n.upTo = typed /\ n.tracked /\ n.for = {}
  BY <1>0, NewRequest
<1>9. requests' = requests \cup {n}
  OBVIOUS
<1> HIDE DEF n
<1>2. PICK o \in BOOLEAN : o = (overlapped \/ Saving)
  OBVIOUS
<1>3. EditorTypes'
  <2>1. overlapped' \in BOOLEAN
    BY <1>2
  <2>2. requests' \subseteq RequestShapes
    BY <1>0, <1>1, <1>9
  <2> QED BY <2>1, <2>2 DEF EditorInv, EditorTypes
<1>4. FlowFits'
  BY <1>1, <1>9 DEF EditorInv, FlowFits, Submitted
<1>5. EditsIn(requests') = EditsIn(requests)
  BY <1>1, <1>9 DEF EditsIn
<1>6. ASSUME panesFaults = 0, ~ overlapped' PROVE SavesFit'
  <2>1. SavesFit /\ ~ Saving
    BY <1>6 DEF EditorInv
  <2>2. SavesIn(requests') = {n} /\ SavesIn(requests) = {}
    BY <1>1, <1>9, <2>1 DEF SavesIn, Saving
  <2>3. FlowFits
    BY DEF EditorInv
  <2>4. OneSave({n}, onDisk, typed)
    BY <1>0, <1>1, <2>1 DEF OneSave, SavesFit
  <2>5. OneSave(SavesIn(requests'), onDisk', typed')
    BY <2>2, <2>4
  <2>6. n \in SavesIn(requests') /\ n.upTo = typed'
    BY <1>1, <2>2
  <2>7. \A q \in SavesIn(requests') : q.upTo = typed
    BY <1>1, <2>2
  <2> QED BY <1>0, <2>1, <2>2, <2>3, <2>5, <2>6, <2>7 DEF SavesFit, FlowFits, Submitted
<1>7. panesFaults = 0 /\ roundEnded = "no" => EditsFit'
  BY <1>5, EditsSame DEF EditorInv, EditsFit
<1>8. panesFaults = 0 /\ roundEnded = "no" /\ ~ loose => SubmitWaits'
  BY <1>5 DEF EditorInv, SubmitWaits, Submitted
<1> QED BY <1>3, <1>4, <1>6, <1>7, <1>8 DEF EditorInv, Submitted

\* The event timer fires.
LEMMA EditTimerKeeps == ASSUME EditorInv, EditTimerFires PROVE EditorInv'
<1> USE DEF EditTimerFires
<1> DEFINE n == Request("edit", unreported, FALSE)
<1>0. typed \in Nat /\ unreported \in Nat /\ onDisk \in Nat /\ reported \in Nat
      /\ requests \subseteq RequestShapes /\ flow["end"].pressed \in Nat
      /\ overlapped \in BOOLEAN /\ loose \in BOOLEAN
  BY DEF EditorInv, EditorTypes, Flows
<1>1. n \in RequestShapes /\ n.kind = "edit" /\ n.upTo = typed /\ n.for = {}
      /\ n.changes = unreported
  BY <1>0, NewRequest
<1>9. requests' = requests \cup {n}
  OBVIOUS
<1> HIDE DEF n
<1>2. EditorTypes'
  <2>1. requests' \subseteq RequestShapes
    BY <1>0, <1>1, <1>9
  <2> QED BY <2>1 DEF EditorInv, EditorTypes
<1>3. FlowFits'
  BY <1>1, <1>9 DEF EditorInv, FlowFits, Submitted
<1>4. EditsIn(requests') = EditsIn(requests) \cup {n} /\ SavesIn(requests') = SavesIn(requests)
  BY <1>1, <1>9 DEF EditsIn, SavesIn
<1>5. panesFaults = 0 /\ ~ overlapped => SavesFit'
  BY <1>4 DEF EditorInv, SavesFit, Submitted
<1>6. ASSUME panesFaults = 0, roundEnded = "no" PROVE EditsFit'
  <2>1. EditsFit
    BY <1>6 DEF EditorInv
  <2> DEFINE lo == typed - unreported
             Ed == EditsIn(requests)
  <2>2. lo \in Nat /\ lo <= typed /\ typed - lo = unreported
    BY <1>0, <2>1 DEF EditsFit
  <2>3. Ed \in SUBSET RequestShapes
    BY <1>0 DEF EditsIn
  <2>4. OwnChanges(Ed, lo) /\ reported = Cardinality(SentOf(Ed, lo))
    BY <2>1 DEF EditsFit
  <2> HIDE DEF lo, Ed
  <2>5. SentOf(Ed \cup {n}, typed) = SentOf(Ed, lo) /\ OwnChanges(Ed \cup {n}, typed)
    BY <1>0, <1>1, <2>2, <2>3, <2>4, OneMoreEvent
  <2>6. typed' - unreported' = typed /\ typed' = typed /\ unreported' = 0
    BY <1>0
  <2>7. EditsIn(requests') = Ed \cup {n}
    BY <1>4 DEF Ed
  <2>8. ~ (unreported' > 0) /\ unreported' <= typed' /\ reported' = reported
    BY <1>0
  <2>9. OwnChanges(EditsIn(requests'), typed' - unreported')
    BY <2>5, <2>6, <2>7
  <2>10. reported' = Cardinality(SentOf(EditsIn(requests'), typed' - unreported'))
    BY <2>4, <2>5, <2>6, <2>7, <2>8
  <2> QED BY <2>8, <2>9, <2>10 DEF EditsFit
<1>7. ASSUME panesFaults = 0, roundEnded = "no", ~ loose PROVE SubmitWaits'
  <2>1. SubmitWaits /\ FlowFits /\ EditsFit
    BY <1>7 DEF EditorInv
  <2>2. CASE flow["end"].stage = "idle"
    BY <2>2 DEF SubmitWaits
  <2>3. CASE flow["end"].stage # "idle"
    <3>1. n.upTo - n.changes >= Submitted /\ typed' - unreported' >= Submitted
      BY <1>0, <1>1, <2>1, <2>3 DEF SubmitWaits, FlowFits, Submitted
    <3> QED BY <1>4, <2>1, <2>3, <3>1 DEF SubmitWaits, Submitted
  <2> QED BY <2>2, <2>3
<1> QED BY <1>2, <1>3, <1>5, <1>6, <1>7 DEF EditorInv, Submitted

\* A request fails: from now on nothing is promised.
LEMMA FailsKeeps == ASSUME EditorInv, NEW q \in requests, Fails(q) PROVE EditorInv'
<1> USE DEF Fails
<1>1. panesFaults' # 0
  BY DEF EditorInv, EditorTypes
<1>2. EditorTypes'
  BY DEF EditorInv, EditorTypes
<1>3. FlowFits'
  BY DEF EditorInv, FlowFits, Submitted
<1> QED BY <1>1, <1>2, <1>3 DEF EditorInv

\* The suite is over.
LEMMA RunsSuiteKeeps == ASSUME EditorInv, RunsSuite PROVE EditorInv'
<1> USE DEF RunsSuite
<1>0. flow'["end"] = flow["end"] /\ flow' \in [Flows -> [stage : {"idle", "flushing", "over"}, pressed : Nat]]
  BY DEF EditorInv, EditorTypes, Flows
<1>1. EditorTypes'
  BY <1>0 DEF EditorInv, EditorTypes
<1>2. FlowFits'
  BY <1>0 DEF EditorInv, FlowFits, Submitted
<1>3. SavesFit => SavesFit'
  BY <1>0 DEF SavesFit, Submitted
<1>4. EditsFit => EditsFit'
  BY DEF EditsFit
<1>5. SubmitWaits => SubmitWaits'
  BY <1>0 DEF SubmitWaits, Submitted
<1> QED BY <1>0, <1>1, <1>2, <1>3, <1>4, <1>5 DEF EditorInv, Submitted

\* The clock ends the round.
LEMMA ClockEndsKeeps == ASSUME EditorInv, ClockEnds PROVE EditorInv'
<1> USE DEF ClockEnds
<1>0. verdict' \in [graded : Nat, shown : Nat, done : BOOLEAN] /\ verdict'.done = verdict.done
  BY DEF EditorInv, EditorTypes
<1>1. EditorTypes'
  BY <1>0 DEF EditorInv, EditorTypes
<1>2. FlowFits'
  BY DEF EditorInv, FlowFits, Submitted
<1>3. SavesFit => SavesFit'
  BY DEF SavesFit, Submitted
<1> QED BY <1>1, <1>2, <1>3 DEF EditorInv, Submitted

\* The round is graded.
LEMMA GradesKeeps == ASSUME EditorInv, Grades PROVE EditorInv'
<1> USE DEF Grades
<1>0. verdict' \in [graded : Nat, shown : Nat, done : BOOLEAN] /\ verdict'.graded = onDisk
      /\ verdict'.shown = verdict.shown
  BY DEF EditorInv, EditorTypes
<1>1. EditorTypes'
  BY <1>0 DEF EditorInv, EditorTypes
<1>2. FlowFits'
  BY DEF EditorInv, FlowFits, Submitted
<1>3. SavesFit => SavesFit'
  BY <1>0 DEF SavesFit, Submitted
<1> QED BY <1>0, <1>1, <1>2, <1>3 DEF EditorInv, Submitted

\* The round ends by Submit.
LEMMA EndsRoundKeeps == ASSUME EditorInv, EndsRound PROVE EditorInv'
<1> USE DEF EndsRound
<1>0. /\ flow' \in [Flows -> [stage : {"idle", "flushing", "over"}, pressed : Nat]]
      /\ flow'["end"].pressed = flow["end"].pressed /\ flow'["end"].stage = "over"
      /\ flow["end"].stage = "flushing" /\ \A q \in requests : "end" \notin q.for
      /\ requests \subseteq RequestShapes /\ flow["end"].pressed \in Nat
      /\ typed \in Nat /\ unreported \in Nat /\ reported \in Nat
  BY DEF EditorInv, EditorTypes, Flows, Flushed
<1>1. roundEnded \in {"no", "clock"}
  BY <1>0 DEF EditorInv, EditorTypes, FlowFits
<1>2. CASE roundEnded = "no"
  <2>0. /\ verdict' \in [graded : Nat, shown : Nat, done : BOOLEAN] /\ verdict'.done = verdict.done
        /\ verdict'.shown = reported /\ roundEnded' = "page" /\ ~ verdict.done
    BY <1>2 DEF EditorInv, EditorTypes, FlowFits
  <2>1. EditorTypes'
    BY <1>0, <2>0 DEF EditorInv, EditorTypes
  <2>2. FlowFits'
    BY <1>0, <2>0 DEF EditorInv, FlowFits, Submitted
  <2>3. SavesFit => SavesFit'
    <3>1. \A q \in SavesIn(requests) : "end" \notin q.for
      BY <1>0 DEF SavesIn
    <3> QED BY <1>0, <1>2, <2>0, <3>1 DEF SavesFit, Submitted
  <2>4. ASSUME panesFaults = 0, ~ loose PROVE verdict'.shown >= Submitted
    <3>1. EditsFit /\ SubmitWaits
      BY <1>2, <2>4 DEF EditorInv
    <3> DEFINE hi == typed - unreported
               Ed == EditsIn(requests)
    <3>2. hi \in Nat /\ hi >= Submitted /\ Submitted \in Nat
      BY <1>0, <3>1 DEF EditsFit, SubmitWaits, Submitted
    <3>3. Ed \in SUBSET RequestShapes /\ \A q \in Ed : q.upTo - q.changes >= Submitted
      BY <1>0, <3>1 DEF EditsIn, SubmitWaits
    <3>4. reported = Cardinality(SentOf(Ed, hi))
      BY <3>1 DEF EditsFit
    <3> HIDE DEF hi, Ed
    <3>5. Cardinality(SentOf(Ed, hi)) >= Submitted
      BY <3>2, <3>3, FirstAreSent
    <3> QED BY <2>0, <3>4, <3>5
  <2> QED BY <1>0, <2>0, <2>1, <2>2, <2>3, <2>4 DEF EditorInv, Submitted
<1>3. CASE roundEnded = "clock"
  <2>0. roundEnded' = "clock" /\ verdict' = verdict
    BY <1>3
  <2>1. EditorTypes'
    BY <1>0, <2>0 DEF EditorInv, EditorTypes
  <2>2. FlowFits'
    BY <1>0, <2>0 DEF EditorInv, FlowFits, Submitted
  <2>3. SavesFit => SavesFit'
    BY <1>0, <1>3, <2>0 DEF SavesFit, Submitted
  <2> QED BY <2>0, <2>1, <2>2, <2>3 DEF EditorInv
<1> QED BY <1>1, <1>2, <1>3

\* A request passes the server's check, or is refused.
LEMMA ArrivesKeeps == ASSUME EditorInv, NEW q \in requests, Arrives(q) PROVE EditorInv'
<1> USE DEF Arrives
<1>0. /\ requests \subseteq RequestShapes /\ q \in RequestShapes
      /\ roundEnded \in {"no", "page", "clock"}
  BY DEF EditorInv, EditorTypes
<1>1. CASE roundEnded = "no"
  <2> DEFINE R == (requests \ {q}) \cup {[q EXCEPT !.accepted = TRUE]}
  <2>1. requests' = R
    BY <1>1
  <2>2. AreThose(R, requests)
    BY <1>0, AcceptedFacts
  <2>3. R \in SUBSET RequestShapes /\ [q EXCEPT !.accepted = TRUE].for = q.for
    BY <1>0, RequestFacts DEF Flows
  <2>4. \A r \in R : r \in requests \/ r.for = q.for
    BY <2>3
  <2> HIDE DEF R
  <2>5. EditorTypes'
    BY <2>1, <2>3 DEF EditorInv, EditorTypes
  <2>6. FlowFits'
    BY <2>1, <2>4 DEF EditorInv, FlowFits, Submitted
  <2>7. SavesFit => SavesFit'
    <3> SUFFICES ASSUME SavesFit PROVE SavesFit'
      OBVIOUS
    <3>1. OneSave(SavesIn(R), onDisk, typed)
      BY <2>2, SameSaves DEF SavesFit
    <3>2. /\ \A r \in SavesIn(requests) : \E s \in SavesIn(R) : s.upTo = r.upTo /\ r.for \subseteq s.for
          /\ \A s \in SavesIn(R) : \E r \in SavesIn(requests) : s.upTo = r.upTo
      BY <2>2, SameSaves DEF IsStill
    <3> QED BY <1>1, <2>1, <3>1, <3>2 DEF SavesFit, Submitted
  <2>8. EditsFit => EditsFit'
    <3> SUFFICES ASSUME EditsFit, typed \in Nat, unreported \in Nat PROVE EditsFit'
      BY DEF EditorInv, EditorTypes
    <3>1. typed - unreported \in Nat
      BY DEF EditsFit
    <3>2. EditsIn(R) \in SUBSET RequestShapes /\ EditsIn(requests) \in SUBSET RequestShapes
      BY <1>0, <2>3 DEF EditsIn
    <3>3. AreThose(EditsIn(R), EditsIn(requests))
      BY <2>2, SameSaves
    <3>4. /\ SentOf(EditsIn(R), typed - unreported) = SentOf(EditsIn(requests), typed - unreported)
          /\ OwnChanges(EditsIn(R), typed - unreported)
      BY <3>1, <3>2, <3>3, SameChanges DEF EditsFit
    <3> QED BY <2>1, <3>4 DEF EditsFit
  <2>9. SubmitWaits => SubmitWaits'
    <3>1. \A s \in EditsIn(R) : \E r \in EditsIn(requests) : IsStill(s, r)
      BY <2>2, SameSaves DEF AreThose
    <3> QED BY <2>1, <3>1 DEF SubmitWaits, Submitted, IsStill
  <2> QED BY <1>1, <2>5, <2>6, <2>7, <2>8, <2>9 DEF EditorInv, Submitted
<1>2. CASE roundEnded # "no"
  <2> DEFINE s == [q EXCEPT !.kind = "file_save"]
  <2>1. s \in RequestShapes /\ s.for = q.for /\ s.kind = "file_save"
    BY <1>0, RequestFacts DEF Flows
  <2>2. requests' \subseteq (requests \ {q}) \cup {s}
    BY <1>2
  <2> HIDE DEF s
  <2>3. EditorTypes'
    BY <2>1, <2>2 DEF EditorInv, EditorTypes
  <2>4. FlowFits'
    BY <2>1, <2>2 DEF EditorInv, FlowFits, Submitted
  <2>5. SavesFit => SavesFit'
    <3>1. SavesIn(requests') \subseteq SavesIn(requests)
      BY <2>1, <2>2 DEF SavesIn
    <3> QED BY <1>2, <3>1 DEF SavesFit, OneSave, Submitted
  <2> QED BY <1>2, <2>3, <2>4, <2>5 DEF EditorInv, Submitted
<1> QED BY <1>1, <1>2

\* A request takes effect.
LEMMA TakesEffectKeeps == ASSUME EditorInv, NEW q \in requests, TakesEffect(q) PROVE EditorInv'
<1> USE DEF TakesEffect
<1> DEFINE s == [q EXCEPT !.kind = "file_save", !.accepted = FALSE]
<1>0. /\ requests \subseteq RequestShapes /\ q \in RequestShapes
      /\ roundEnded \in {"no", "page", "clock"}
      /\ typed \in Nat /\ unreported \in Nat /\ onDisk \in Nat /\ reported \in Nat
      /\ flow["end"].pressed \in Nat
      /\ q.upTo \in Nat /\ q.changes \in Nat
  BY DEF EditorInv, EditorTypes, Flows, RequestShapes
<1>1. s \in RequestShapes /\ s.for = q.for /\ s.kind = "file_save"
  BY <1>0, RequestFacts DEF Flows
<1>2. /\ requests' \subseteq (requests \ {q}) \cup {s}
      /\ requests \ {q} \subseteq requests'
  OBVIOUS
<1> HIDE DEF s
<1>3. EditorTypes'
  <2>1. onDisk' \in Nat /\ reported' \in Nat
    BY <1>0
  <2> QED BY <1>1, <1>2, <2>1 DEF EditorInv, EditorTypes
<1>4. FlowFits'
  BY <1>1, <1>2 DEF EditorInv, FlowFits, Submitted
<1>5. EditsIn(requests') = EditsIn(requests) \ {q} /\ SavesIn(requests') = SavesIn(requests) \ {q}
  BY <1>1, <1>2 DEF EditsIn, SavesIn
<1>6. ASSUME SavesFit PROVE SavesFit'
  <2>1. CASE q.kind = "save"
    <3>1. q \in SavesIn(requests) /\ onDisk' = q.upTo
      BY <2>1 DEF SavesIn
    <3>2. SavesIn(requests') = {}
      BY <1>5, <1>6, <3>1 DEF SavesFit, OneSave
    <3>3. onDisk <= q.upTo /\ q.upTo <= typed
      BY <1>6, <3>1 DEF SavesFit, OneSave
    <3>4. onDisk' <= typed' /\ OneSave(SavesIn(requests'), onDisk', typed')
      BY <3>1, <3>2, <3>3 DEF OneSave
    <3>5. roundEnded' = "no" => saveTimer' \/ onDisk' = typed'
      <4>1. \A r \in SavesIn(requests) : r = q
        BY <1>6, <3>1 DEF SavesFit, OneSave
      <4> QED BY <1>0, <1>6, <3>1, <3>3, <4>1 DEF SavesFit
    <3>6. flow'["end"].stage # "idle" /\ roundEnded' = "no" => onDisk' >= Submitted'
      BY <1>6, <3>1 DEF SavesFit, Submitted
    <3>7. roundEnded' = "page" => onDisk' >= Submitted'
      BY <1>0, <1>6, <3>1, <3>3 DEF SavesFit, Submitted
    <3>8. roundEnded' = "page" /\ verdict'.done => verdict'.graded >= Submitted'
      BY <1>6 DEF SavesFit, Submitted
    <3> QED BY <3>2, <3>4, <3>5, <3>6, <3>7, <3>8 DEF SavesFit
  <2>2. CASE q.kind # "save"
    <3>1. SavesIn(requests') = SavesIn(requests) /\ onDisk' = onDisk
      BY <1>5, <2>2 DEF SavesIn
    <3> QED BY <1>6, <3>1 DEF SavesFit, Submitted
  <2> QED BY <2>1, <2>2
<1>7. ASSUME EditsFit PROVE EditsFit'
  <2>1. CASE q.kind = "edit"
    <3> DEFINE hi == typed - unreported
               Ed == EditsIn(requests)
    <3>1. hi \in Nat /\ Ed \in SUBSET RequestShapes /\ q \in Ed /\ OwnChanges(Ed, hi)
          /\ reported = Cardinality(SentOf(Ed, hi))
      BY <1>0, <1>7, <2>1 DEF EditsIn, EditsFit
    <3>2. EditsIn(requests') = Ed \ {q} /\ hi' = hi
      BY <1>5
    <3> HIDE DEF hi, Ed
    <3>3. /\ OwnChanges(Ed \ {q}, hi)
          /\ Cardinality(SentOf(Ed \ {q}, hi)) = Cardinality(SentOf(Ed, hi)) + q.changes
      BY <3>1, OneEventLess
    <3>4. reported' = Cardinality(SentOf(Ed \ {q}, hi))
      BY <2>1, <3>1, <3>3
    <3> QED BY <1>7, <3>2, <3>3, <3>4 DEF EditsFit, hi
  <2>2. CASE q.kind # "edit"
    <3>1. EditsIn(requests') = EditsIn(requests) /\ reported' = reported
      BY <1>5, <2>2 DEF EditsIn
    <3> QED BY <1>7, <3>1 DEF EditsFit
  <2> QED BY <2>1, <2>2
<1>8. SubmitWaits => SubmitWaits'
  BY <1>5 DEF SubmitWaits, Submitted
<1> QED BY <1>3, <1>4, <1>6, <1>7, <1>8 DEF EditorInv, Submitted

\* Run or Submit is pressed, or the time is up.
LEMMA PressesKeeps == ASSUME EditorInv, NEW f \in Flows, Presses(f) PROVE EditorInv'
<1> USE DEF Presses
<1> DEFINE e == Request("edit", unreported, TRUE)
           v == Request("save", 0, TRUE)
           Ev == IF editTimer THEN {e} ELSE {}
           Sv == IF saveTimer THEN {v} ELSE {}
           R == requests \cup Ev \cup Sv
<1>0. /\ requests \subseteq RequestShapes
      /\ roundEnded \in {"no", "page", "clock"}
      /\ typed \in Nat /\ unreported \in Nat /\ onDisk \in Nat /\ reported \in Nat
      /\ flow["end"].pressed \in Nat /\ flow["end"].stage = "idle"
      /\ saveTimer \in BOOLEAN /\ editTimer \in BOOLEAN
      /\ overlapped \in BOOLEAN /\ loose \in BOOLEAN
  BY DEF EditorInv, EditorTypes, Flows
<1>1. /\ e \in RequestShapes /\ e.kind = "edit" /\ e.upTo = typed /\ e.tracked /\ e.for = {}
      /\ e.changes = unreported
      /\ v \in RequestShapes /\ v.kind = "save" /\ v.upTo = typed /\ v.tracked /\ v.for = {}
  <2>1. /\ e \in RequestShapes /\ e.kind = "edit" /\ e.upTo = typed /\ e.tracked /\ e.for = {}
        /\ e.changes = unreported
    BY <1>0, NewRequest
  <2>2. v \in RequestShapes /\ v.kind = "save" /\ v.upTo = typed /\ v.tracked /\ v.for = {}
    <3>1. typed \in Nat /\ 0 \in Nat /\ TRUE \in BOOLEAN
      BY <1>0
    <3> QED BY ONLY <3>1, NewRequest
  <2> QED BY <2>1, <2>2
<1>2. requests' = Awaited(R, f) /\ (~ overlapped' => ~ overlapped /\ (Sv = {} \/ ~ Saving))
  OBVIOUS
<1>3. overlapped' \in BOOLEAN
  <2>1. PICK o \in BOOLEAN : o = (overlapped \/ (Sv # {} /\ Saving))
    OBVIOUS
  <2> QED BY <2>1
<1>4. loose' \in BOOLEAN
      /\ (~ loose' => ~ loose /\ (f = "end" => \A q \in requests : q.kind = "edit" => q.tracked))
  <2>1. PICK o \in BOOLEAN : o = (loose \/ (f = "end" /\ \E q \in requests : q.kind = "edit" /\ ~ q.tracked))
    OBVIOUS
  <2>2. loose' = o
    BY <2>1
  <2> QED BY <2>1, <2>2
<1>5. /\ flow' \in [Flows -> [stage : {"idle", "flushing", "over"}, pressed : Nat]]
      /\ IF f = "end" THEN flow'["end"].pressed = typed /\ flow'["end"].stage = "flushing"
         ELSE flow'["end"] = flow["end"]
  BY <1>0 DEF EditorInv, EditorTypes, Flows
<1>6. Ev \subseteq {e} /\ Sv \subseteq {v} /\ (editTimer => Ev = {e}) /\ (saveTimer => Sv = {v})
      /\ (~ editTimer => Ev = {}) /\ (~ saveTimer => Sv = {})
  OBVIOUS
<1>7. R = requests \cup Ev \cup Sv
  OBVIOUS
<1> HIDE DEF e, v, Ev, Sv, R
<1>8. R \in SUBSET RequestShapes
  BY <1>0, <1>1, <1>6, <1>7
<1>9. /\ requests' \in SUBSET RequestShapes /\ AreThose(requests', R)
      /\ \A s \in requests' : s.tracked => f \in s.for
      /\ \A s \in requests', g \in Flows : g \in s.for => g = f \/ \E q \in R : g \in q.for
  BY <1>2, <1>8, AwaitedFacts
<1>10. EditorTypes'
  BY <1>0, <1>3, <1>4, <1>5, <1>9 DEF EditorInv, EditorTypes
<1>11. FlowFits'
  <2>1. roundEnded # "page"
    BY <1>0 DEF EditorInv, FlowFits
  <2>2. \A q \in R : "end" \notin q.for
    BY <1>0, <1>1, <1>6, <1>7 DEF EditorInv, FlowFits
  <2>3. \A q \in requests' : "end" \in q.for => f = "end"
    BY <1>9, <2>2 DEF Flows
  <2>4. flow'["end"].stage # "idle" => Submitted' <= typed'
    BY <1>0, <1>5 DEF Submitted
  <2> QED BY <1>0, <1>5, <2>1, <2>3, <2>4 DEF EditorInv, FlowFits
<1>12. ASSUME panesFaults = 0, ~ overlapped' PROVE SavesFit'
  <2>1. SavesFit
    BY <1>2, <1>12 DEF EditorInv
  <2>2. SavesIn(R) = SavesIn(requests) \cup Sv
    BY <1>1, <1>6, <1>7 DEF SavesIn
  <2>3. OneSave(SavesIn(R), onDisk, typed)
    <3>1. CASE Sv = {}
      BY <2>1, <2>2, <3>1 DEF SavesFit
    <3>2. CASE Sv # {}
      <4>1. SavesIn(requests) = {}
        BY <1>2, <1>12, <3>2 DEF SavesIn, Saving
      <4>2. SavesIn(R) \subseteq {v}
        BY <1>6, <2>2, <4>1
      <4> QED BY <1>0, <1>1, <2>1, <4>2 DEF OneSave, SavesFit
    <3> QED BY <3>1, <3>2
  <2>4. roundEnded = "no" => onDisk = typed \/ \E q \in SavesIn(R) : q.upTo = typed
    BY <1>1, <1>6, <2>1, <2>2 DEF SavesFit
  <2> DEFINE N == SavesIn(requests')
  <2>5. /\ OneSave(N, onDisk, typed)
        /\ \A q \in SavesIn(R) : \E s \in N : s.upTo = q.upTo
        /\ \A s \in N : \E q \in SavesIn(R) : s.upTo = q.upTo
    <3>1. OneSave(N, onDisk, typed)
      BY <1>9, <2>3, SameSaves
    <3>2. /\ \A q \in SavesIn(R) : \E s \in N : IsStill(s, q)
          /\ \A s \in N : \E q \in SavesIn(R) : IsStill(s, q)
      BY <1>9, SameSaves
    <3> HIDE DEF N
    <3> QED BY <3>1, <3>2 DEF IsStill
  <2>6. roundEnded = "no" => onDisk = typed \/ \E q \in N : q.upTo = typed
    BY <2>4, <2>5
  <2>7. \A q \in N : q \in requests' /\ q.tracked /\ f \in q.for /\ q.upTo \in Nat
    BY <1>9, <2>5 DEF SavesIn, OneSave, RequestShapes
  <2> HIDE DEF N
  <2>8. /\ onDisk <= typed
        /\ roundEnded # "page"
    BY <1>0, <2>1 DEF SavesFit, EditorInv, FlowFits
  <2>9. ASSUME flow'["end"].stage # "idle", roundEnded' # "clock"
        PROVE  /\ \A q \in N : q.upTo >= Submitted'
               /\ onDisk' >= Submitted' \/ \E q \in N : "end" \in q.for
    <3>1. f = "end" /\ Submitted' = typed /\ roundEnded = "no"
      BY <1>0, <1>5, <2>8, <2>9 DEF Submitted
    <3>2. \A q \in N : q.upTo >= typed
      <4>1. CASE onDisk = typed
        BY <1>0, <2>5, <2>7, <4>1 DEF OneSave
      <4>2. CASE \E q \in N : q.upTo = typed
        BY <1>0, <2>5, <4>2 DEF OneSave
      <4> QED BY <2>6, <3>1, <4>1, <4>2
    <3> QED BY <1>0, <2>6, <2>7, <3>1, <3>2
  <2>10. SavesIn(requests)' = N
    BY DEF N
  <2>11. onDisk' = onDisk /\ typed' = typed /\ roundEnded' = roundEnded /\ saveTimer' = FALSE
    OBVIOUS
  <2> QED BY <2>5, <2>6, <2>8, <2>9, <2>10, <2>11 DEF SavesFit
<1>13. ASSUME panesFaults = 0, roundEnded = "no" PROVE EditsFit'
  <2>1. EditsFit
    BY <1>13 DEF EditorInv
  <2> DEFINE lo == typed - unreported
             Ed == EditsIn(requests)
  <2>2. lo \in Nat /\ lo <= typed /\ typed - lo = unreported
    BY <1>0, <2>1 DEF EditsFit
  <2>3. Ed \in SUBSET RequestShapes
    BY <1>0 DEF EditsIn
  <2>4. OwnChanges(Ed, lo) /\ reported = Cardinality(SentOf(Ed, lo))
    BY <2>1 DEF EditsFit
  <2>5. EditsIn(R) = Ed \cup Ev
    BY <1>1, <1>6, <1>7 DEF EditsIn
  <2>6. ~ editTimer => lo = typed
    BY <1>0, <2>1 DEF EditsFit
  <2> HIDE DEF lo, Ed
  <2>7. SentOf(EditsIn(R), typed) = SentOf(Ed, lo) /\ OwnChanges(EditsIn(R), typed)
    <3>1. CASE editTimer
      <4>1. EditsIn(R) = Ed \cup {e}
        BY <1>6, <2>5, <3>1
      <4>2. SentOf(Ed \cup {e}, typed) = SentOf(Ed, lo) /\ OwnChanges(Ed \cup {e}, typed)
        BY <1>0, <1>1, <2>2, <2>3, <2>4, OneMoreEvent
      <4> QED BY <4>1, <4>2
    <3>2. CASE ~ editTimer
      <4>1. EditsIn(R) = Ed /\ lo = typed
        BY <1>6, <2>5, <2>6, <3>2
      <4> QED BY <2>4, <4>1
    <3> QED BY <3>1, <3>2
  <2>8. AreThose(EditsIn(requests'), EditsIn(R))
    BY <1>9, SameSaves
  <2>9. EditsIn(requests') \in SUBSET RequestShapes /\ EditsIn(R) \in SUBSET RequestShapes
    BY <1>8, <1>9 DEF EditsIn
  <2>10. /\ SentOf(EditsIn(requests'), typed) = SentOf(EditsIn(R), typed)
         /\ OwnChanges(EditsIn(requests'), typed)
    BY <1>0, <2>7, <2>8, <2>9, SameChanges
  <2>11. typed' - unreported' = typed /\ unreported' <= typed' /\ reported' = reported
         /\ ~ (unreported' > 0)
    BY <1>0
  <2>12. OwnChanges(EditsIn(requests'), typed' - unreported')
    BY <2>10, <2>11
  <2>13. reported' = Cardinality(SentOf(EditsIn(requests'), typed' - unreported'))
    BY <2>4, <2>7, <2>10, <2>11
  <2> QED BY <2>11, <2>12, <2>13 DEF EditsFit
<1>14. ASSUME panesFaults = 0, roundEnded = "no", ~ loose' PROVE SubmitWaits'
  <2>1. CASE f # "end"
    BY <1>0, <1>5, <2>1 DEF SubmitWaits
  <2>2. CASE f = "end"
    <3>1. \A q \in R : q.kind = "edit" => q.tracked
      BY <1>1, <1>4, <1>6, <1>7, <1>14, <2>2
    <3>2. \A s \in requests' : s.kind = "edit" => s.tracked
      <4> TAKE s \in requests'
      <4>1. PICK q \in R : IsStill(s, q)
        BY <1>9 DEF AreThose
      <4> QED BY <3>1, <4>1 DEF IsStill
    <3>3. \A s \in EditsIn(requests') : "end" \in s.for
      BY <1>9, <2>2, <3>2 DEF EditsIn
    <3>4. typed' - unreported' >= Submitted'
      BY <1>0, <1>5, <2>2 DEF Submitted
    <3> QED BY <3>3, <3>4 DEF SubmitWaits
  <2> QED BY <2>1, <2>2
<1>15. roundEnded # "page" /\ roundEnded' = roundEnded /\ panesFaults' = panesFaults
  BY <1>0 DEF EditorInv, FlowFits
<1> QED BY <1>10, <1>11, <1>12, <1>13, <1>14, <1>15 DEF EditorInv

\* The invariant of the editor is kept by every step of it.
LEMMA EditorStep == EditorInv /\ [PanesNext]_panesVars => EditorInv'
<1> SUFFICES ASSUME EditorInv, [PanesNext]_panesVars PROVE EditorInv'
  OBVIOUS
<1>1. CASE UNCHANGED panesVars
  BY <1>1 DEF panesVars, EditorInv, EditorTypes, FlowFits, SavesFit, EditsFit, SubmitWaits, Submitted
<1>2. CASE PanesNext
  BY <1>2, TypesKeeps, SaveTimerKeeps, EditTimerKeeps, PressesKeeps, ArrivesKeeps, TakesEffectKeeps,
     FailsKeeps, RunsSuiteKeeps, EndsRoundKeeps, ClockEndsKeeps, GradesKeeps DEF PanesNext
<1> QED BY <1>1, <1>2

\* What the invariant says of the request that grades is the property.
LEMMA EditorKeeps == EditorInv => SubmittedIsGraded
BY DEF EditorInv, SubmittedIsGraded, SavesFit, Submitted

---------------------------------------------------------------------------
(* The practice door.                                                      *)

DeskTypes ==
  /\ {given, answers, kept.answers, gate.answers} \subseteq [DeskGaps -> Nat]
  /\ phase \in {"input", "clarifying", "confirm", "started"}
  /\ busy \in BOOLEAN /\ draftsStale \in BOOLEAN /\ recheckDirty \in BOOLEAN
  /\ kept.stale \in BOOLEAN
  /\ \A c \in clarifies : c.first \in BOOLEAN

Agree(r, s) == \A g \in ShapeGaps : r[g] = s[g]

\* The page and what it keeps know every answer.
AnswersFit == answers = given /\ kept.answers = given

\* A draft that is not marked was read with the answers of the page.
DraftsFit ==
  /\ draftsStale \/ Agree(draft.read, given)
  /\ kept.stale \/ Agree(kept.draft.read, given)

\* One reading at a time is under way.  A first one holds the screen, a re-check
\* is busy; and it was asked with the answers, or they are known to be newer.
ReadingsFit ==
  /\ \A c, d \in clarifies : c = d
  /\ \A c \in clarifies :
       /\ IF c.first THEN phase \in {"clarifying", "started"} ELSE busy
       /\ Agree(c.answers, given) \/ (draftsStale /\ recheckDirty)

DeskInv ==
  /\ DeskTypes
  /\ lapses = {} => AnswersFit /\ DraftsFit /\ ReadingsFit
  /\ StaleDraftsNeverShip

\* What asking the clarifier does: as long as nothing else was under way and no
\* answer was left out, the one reading is asked with the answers of the page.
LEMMA ClarifyFacts ==
  ASSUME DeskTypes, NEW ans \in [DeskGaps -> Nat], NEW snap, Clarify(ans, snap)
  PROVE  /\ answers' = ans
         /\ phase' \in {"input", "clarifying", "confirm", "started"} /\ busy' \in BOOLEAN
         /\ \A c \in clarifies' : c.first \in BOOLEAN
         /\ lapses' = {} =>
              /\ lapses = {} /\ ans = answers
              /\ \A c, d \in clarifies' : c = d
              /\ \A c \in clarifies' :
                   c.answers = ans /\ IF c.first THEN phase' = "clarifying" ELSE busy'
<1> USE DEF Clarify
<1> DEFINE c0 == [n |-> asked + 1, answers |-> ans, first |-> phase # "confirm",
                  notes |-> IF phase \in {"input", "clarifying"} THEN notes ELSE sourceText,
                  snapshot |-> snap]
<1>1. c0.answers = ans /\ c0.first = (phase # "confirm") /\ c0.first \in BOOLEAN
  OBVIOUS
<1>2. clarifies' = clarifies \cup {c0}
  OBVIOUS
<1> HIDE DEF c0
<1>3. IF c0.first THEN phase' = "clarifying" ELSE busy' = TRUE
  BY <1>1
<1>4. \A c \in clarifies' : c.first \in BOOLEAN
  BY <1>1, <1>2 DEF DeskTypes
<1>5. phase' \in {"input", "clarifying", "confirm", "started"} /\ busy' \in BOOLEAN
  BY DEF DeskTypes
<1>6. ASSUME lapses' = {} PROVE lapses = {} /\ clarifies = {} /\ ans = answers
  <2>1. lapses = {} /\ clarifies = {} /\ \A g \in DeskGaps : ans[g] = answers[g]
    BY <1>6
  <2>2. answers \in [DeskGaps -> Nat]
    BY DEF DeskTypes
  <2> QED BY <2>1, <2>2
<1> QED BY <1>1, <1>2, <1>3, <1>4, <1>5, <1>6

\* And that keeps the invariant of the desk.
LEMMA ClarifyKeeps ==
  ASSUME DeskInv, NEW ans \in [DeskGaps -> Nat], NEW snap, Clarify(ans, snap),
         given' = given, draft' = draft, draftsStale' = draftsStale, kept' = kept,
         recheckDirty' \in BOOLEAN, gate'.answers \in [DeskGaps -> Nat], posts' = posts
  PROVE  DeskInv'
<1>1. DeskTypes
  BY DEF DeskInv
<1>2. /\ answers' = ans
      /\ phase' \in {"input", "clarifying", "confirm", "started"} /\ busy' \in BOOLEAN
      /\ \A c \in clarifies' : c.first \in BOOLEAN
      /\ lapses' = {} =>
           /\ lapses = {} /\ ans = answers
           /\ \A c, d \in clarifies' : c = d
           /\ \A c \in clarifies' :
                c.answers = ans /\ IF c.first THEN phase' = "clarifying" ELSE busy'
  BY <1>1, ClarifyFacts
<1>3. DeskTypes'
  BY <1>1, <1>2 DEF DeskTypes
<1>4. lapses' = {} => AnswersFit' /\ DraftsFit'
  BY <1>2 DEF DeskInv, AnswersFit, DraftsFit
<1>5. lapses' = {} => ReadingsFit'
  BY <1>2 DEF DeskInv, AnswersFit, ReadingsFit, Agree
<1>6. StaleDraftsNeverShip'
  BY DEF DeskInv, StaleDraftsNeverShip
<1> QED BY <1>3, <1>4, <1>5, <1>6 DEF DeskInv

\* The desk before the first word.
LEMMA DeskStarts == PracticeDeskInit => DeskInv
<1> SUFFICES ASSUME PracticeDeskInit PROVE DeskInv
  OBVIOUS
<1> USE DEF PracticeDeskInit
<1>1. NoReplies \in [DeskGaps -> Nat]
  BY DEF NoReplies
<1>2. kept.answers = NoReplies /\ kept.stale = FALSE /\ kept.draft = NoDraft /\ gate.answers = NoReplies
  BY DEF Screen, NoGate
<1>3. NoDraft.read = NoReplies
  BY DEF NoDraft
<1>4. DeskTypes
  BY <1>1, <1>2 DEF DeskTypes
<1>5. AnswersFit /\ DraftsFit /\ ReadingsFit
  BY <1>2, <1>3 DEF AnswersFit, DraftsFit, ReadingsFit, Agree
<1>6. StaleDraftsNeverShip
  BY DEF StaleDraftsNeverShip
<1> QED BY <1>4, <1>5, <1>6 DEF DeskInv

\* What the screen keeps of itself.
LEMMA KeptIsTheScreen ==
  ASSUME Keeps
  PROVE  kept'.answers = answers' /\ kept'.draft = draft' /\ kept'.stale = draftsStale'
BY DEF Keeps, Screen

\* A round that is asked for with the answers as they are.
LEMMA PostKeeps ==
  ASSUME StaleDraftsNeverShip, NEW spec, NEW lost, lost = {} => Agree(spec, given),
         posts' = posts \/ posts' = posts \cup {Post(spec, lost)}
  PROVE  StaleDraftsNeverShip'
<1> DEFINE p0 == Post(spec, lost)
<1>1. p0.spec = spec /\ p0.truth = given /\ p0.lapses = lost
  BY DEF Post
<1> HIDE DEF p0
<1>2. posts' \subseteq posts \cup {p0}
  BY DEF p0
<1> QED BY <1>1, <1>2 DEF StaleDraftsNeverShip, Agree

\* A gap is answered.
LEMMA AnswersGapKeeps == ASSUME DeskInv, NEW g \in DeskGaps, AnswersGap(g) PROVE DeskInv'
<1> USE DEF AnswersGap
<1>1. DeskTypes /\ StaleDraftsNeverShip
  BY DEF DeskInv
<1>2. GivenSoFar \in Nat
  <2>1. IsFiniteSet(1..MaxAnswers)
    BY AnswersAssumption, FS_Interval
  <2>2. IsFiniteSet({n \in 1..MaxAnswers : \E h \in DeskGaps : given[h] >= n})
    BY <2>1, FS_Subset
  <2> QED BY <2>2, FS_CardinalityType DEF GivenSoFar
<1>3. PICK a \in Nat : answers' = [answers EXCEPT ![g] = a] /\ given' = [given EXCEPT ![g] = a]
  <2>1. GivenSoFar + 1 \in Nat
    BY <1>2
  <2>2. /\ answers' = [answers EXCEPT ![g] = GivenSoFar + 1]
        /\ given' = [given EXCEPT ![g] = GivenSoFar + 1]
    BY Zenon
  <2> QED BY <2>1, <2>2
<1>4. kept'.answers = answers' /\ kept'.draft = draft' /\ kept'.stale = draftsStale'
  BY KeptIsTheScreen
<1>5. /\ answers' \in [DeskGaps -> Nat] /\ given' \in [DeskGaps -> Nat]
      /\ answers = given => answers' = given'
      /\ \A h \in DeskGaps : h # g => given'[h] = given[h]
  BY <1>1, <1>3 DEF DeskTypes
<1>6. /\ draftsStale' \in BOOLEAN /\ recheckDirty' \in BOOLEAN
      /\ draftsStale => draftsStale'
      /\ recheckDirty => recheckDirty'
      /\ g \in ShapeGaps => draftsStale' /\ (busy => recheckDirty')
  BY <1>1 DEF DeskTypes
<1>7. DeskTypes'
  BY <1>1, <1>4, <1>5, <1>6 DEF DeskTypes
<1>8. ASSUME lapses = {} PROVE AnswersFit' /\ DraftsFit' /\ ReadingsFit'
  <2>1. AnswersFit /\ DraftsFit /\ ReadingsFit
    BY <1>8 DEF DeskInv
  <2>2. AnswersFit'
    BY <1>4, <1>5, <2>1 DEF AnswersFit
  <2>3. \A r : g \notin ShapeGaps /\ Agree(r, given) => Agree(r, given)'
    BY <1>5 DEF Agree, DeskGaps
  <2>4. draftsStale' \/ Agree(draft'.read, given')
    BY <1>6, <2>1, <2>3 DEF DraftsFit
  <2>5. DraftsFit'
    BY <1>4, <2>4 DEF DraftsFit
  <2>6. ReadingsFit'
    BY <1>6, <2>1, <2>3 DEF ReadingsFit
  <2> QED BY <2>2, <2>5, <2>6
<1>9. StaleDraftsNeverShip'
  BY <1>1 DEF StaleDraftsNeverShip
<1> QED BY <1>7, <1>8, <1>9 DEF DeskInv

\* A reading lands.
LEMMA LandsKeeps ==
  ASSUME DeskInv, NEW c \in clarifies, NEW blind \in BOOLEAN, LandsReading(c, blind)
  PROVE  DeskInv'
<1> USE DEF LandsReading
<1>1. DeskTypes /\ StaleDraftsNeverShip
  BY DEF DeskInv
<1>2. kept'.answers = answers' /\ kept'.draft = draft' /\ kept'.stale = draftsStale'
  BY KeptIsTheScreen
<1> DEFINE read == IF blind THEN NoReplies ELSE c.answers
           lost == lapses \union (IF blind THEN {"blind"} ELSE {})
<1>3. /\ clarifies' = clarifies \ {c} /\ lapses' = lost /\ answers' = answers /\ given' = given
      /\ gate' = gate /\ draft'.read = read /\ busy' = FALSE /\ recheckDirty' = FALSE
      /\ phase' \in {phase, "confirm"}
      /\ IF recheckDirty THEN draftsStale' = draftsStale ELSE draftsStale' = FALSE
      /\ posts' = posts \/ (~ recheckDirty /\ posts' = posts \cup {Post(read, lost)})
  OBVIOUS
<1>4. lost = {} => lapses = {} /\ ~ blind /\ read = c.answers
  OBVIOUS
<1> HIDE DEF read, lost, LandsReading
<1>5. draftsStale' \in BOOLEAN
  BY <1>1, <1>3 DEF DeskTypes
<1>6. DeskTypes'
  BY <1>1, <1>2, <1>3, <1>5 DEF DeskTypes
<1>7. lost = {} => Agree(read, given) \/ (draftsStale /\ recheckDirty)
  BY <1>4 DEF DeskInv, ReadingsFit
<1>8. ASSUME lapses' = {} PROVE AnswersFit' /\ DraftsFit' /\ ReadingsFit'
  <2>1. lost = {} /\ AnswersFit /\ DraftsFit /\ ReadingsFit
    BY <1>3, <1>4, <1>8 DEF DeskInv
  <2>2. AnswersFit'
    BY <1>2, <1>3, <2>1 DEF AnswersFit
  <2>3. draftsStale' \/ Agree(draft'.read, given')
    BY <1>1, <1>3, <1>7, <2>1 DEF DeskTypes
  <2>4. DraftsFit'
    BY <1>2, <2>3 DEF DraftsFit
  <2>5. ReadingsFit'
    BY <1>3, <2>1 DEF ReadingsFit
  <2> QED BY <2>2, <2>4, <2>5
<1>9. StaleDraftsNeverShip'
  <2>1. CASE posts' = posts
    BY <1>1, <2>1 DEF StaleDraftsNeverShip
  <2>2. CASE ~ recheckDirty /\ posts' = posts \cup {Post(read, lost)}
    BY <1>1, <1>7, <2>2, PostKeeps
  <2> QED BY <1>3, <2>1, <2>2
<1> QED BY <1>6, <1>8, <1>9 DEF DeskInv

\* Steps that leave the answers and the draft as they are.
LEMMA ScreenKeeps ==
  ASSUME DeskInv, phase' \in {"input", "clarifying", "confirm", "started"},
         busy' \in BOOLEAN, recheckDirty' \in BOOLEAN, draftsStale' \in BOOLEAN,
         gate'.answers \in [DeskGaps -> Nat], clarifies' \subseteq clarifies,
         given' = given, answers' = answers, draft' = draft, draftsStale => draftsStale',
         kept' = kept \/ Keeps, lapses' = lapses,
         lapses = {} /\ ReadingsFit => ReadingsFit',
         posts' = posts \/ (~ draftsStale /\ posts' = posts \cup {Post(draft.read, lapses)})
  PROVE  DeskInv'
<1>1. DeskTypes /\ StaleDraftsNeverShip
  BY DEF DeskInv
<1>2. kept' = kept \/ (kept'.answers = answers' /\ kept'.draft = draft' /\ kept'.stale = draftsStale')
  BY KeptIsTheScreen
<1>3. DeskTypes'
  BY <1>1, <1>2 DEF DeskTypes
<1>4. lapses' = {} => AnswersFit' /\ DraftsFit' /\ ReadingsFit'
  BY <1>2 DEF DeskInv, AnswersFit, DraftsFit
<1>5. lapses = {} /\ ~ draftsStale => Agree(draft.read, given)
  BY DEF DeskInv, DraftsFit
<1>6. StaleDraftsNeverShip'
  <2>1. CASE posts' = posts
    BY <1>1, <2>1 DEF StaleDraftsNeverShip
  <2>2. CASE ~ draftsStale /\ posts' = posts \cup {Post(draft.read, lapses)}
    BY <1>1, <1>5, <2>2, PostKeeps
  <2> QED BY <2>1, <2>2
<1> QED BY <1>3, <1>4, <1>6 DEF DeskInv

\* The composer.
LEMMA ComposerKeeps ==
  ASSUME DeskInv, EditsNotes \/ Generates \/ GeneratesByKey \/ GoesBack \/ Corrects
  PROVE  DeskInv'
<1>1. DeskTypes /\ NoReplies \in [DeskGaps -> Nat]
  BY DEF DeskInv, NoReplies
<1>2. answers \in [DeskGaps -> Nat] /\ gate.answers \in [DeskGaps -> Nat]
      /\ busy \in BOOLEAN /\ draftsStale \in BOOLEAN /\ recheckDirty \in BOOLEAN
      /\ phase \in {"input", "clarifying", "confirm", "started"}
  BY <1>1 DEF DeskTypes
<1>3. CASE EditsNotes
  BY <1>2, <1>3, ScreenKeeps DEF EditsNotes, ReadingsFit
<1>4. CASE Generates
  <2>1. CASE HasDraft /\ notes = sourceText
    BY <1>2, <1>4, <2>1, ScreenKeeps DEF Generates, ReadingsFit
  <2>2. CASE ~ (HasDraft /\ notes = sourceText)
    <3>1. Clarify(answers, NoSnapshot) /\ phase # "confirm"
      BY <1>4, <2>2 DEF Generates
    <3>2. phase' = "clarifying"
      BY <3>1 DEF Clarify
    <3>3. UNCHANGED <<given, draft, draftsStale, kept, recheckDirty, gate, posts>>
      BY <1>4, <3>2 DEF Generates
    <3> QED BY <1>2, <3>1, <3>3, ClarifyKeeps
  <2> QED BY <2>1, <2>2
<1>5. CASE GeneratesByKey
  BY <1>1, <1>2, <1>5, ClarifyKeeps DEF GeneratesByKey
<1>6. CASE GoesBack
  BY <1>2, <1>6, ScreenKeeps DEF GoesBack, ReadingsFit
<1>7. CASE Corrects
  <2>1. Clarify(answers, Snapshot(gaps))
        /\ UNCHANGED <<given, draft, draftsStale, kept, recheckDirty, gate, posts>>
    BY <1>7 DEF Corrects
  <2> QED BY <1>2, <2>1, ClarifyKeeps
<1> QED BY <1>3, <1>4, <1>5, <1>6, <1>7

\* A re-check, by the timer or by Start.
LEMMA RecheckKeeps ==
  ASSUME DeskInv, RunRecheck,
         UNCHANGED <<draftsStale, gaps, draft, notes, sourceText, gate, kept, given, posts>>
  PROVE  DeskInv'
<1>1. answers \in [DeskGaps -> Nat] /\ gate.answers \in [DeskGaps -> Nat]
      /\ busy \in BOOLEAN /\ draftsStale \in BOOLEAN /\ recheckDirty \in BOOLEAN
      /\ phase \in {"input", "clarifying", "confirm", "started"}
  BY DEF DeskInv, DeskTypes
<1>2. CASE busy
  <2>1. recheckDirty' = TRUE /\ UNCHANGED <<phase, busy, answers, clarifies, asked, lapses>>
    BY <1>2 DEF RunRecheck
  <2> QED BY <1>1, <2>1, ScreenKeeps DEF ReadingsFit
<1>3. CASE ~ busy
  <2>1. Clarify(answers, NoSnapshot) /\ recheckDirty' = recheckDirty
    BY <1>3 DEF RunRecheck
  <2> QED BY <1>1, <2>1, ClarifyKeeps
<1> QED BY <1>2, <1>3

\* A request of the clarifier that brings no reading, and the paywall.
LEMMA NoReadingKeeps ==
  ASSUME DeskInv,
         (\E c \in clarifies : ClarifyFails(c) \/ ClarifyIsGated(c))
           \/ GateProceeds \/ GateIsDismissed
  PROVE  DeskInv'
<1>1. NoReplies \in [DeskGaps -> Nat] /\ NoGate.answers = NoReplies
  BY DEF NoReplies, NoGate
<1>2. answers \in [DeskGaps -> Nat] /\ gate.answers \in [DeskGaps -> Nat]
      /\ busy \in BOOLEAN /\ draftsStale \in BOOLEAN /\ recheckDirty \in BOOLEAN
      /\ phase \in {"input", "clarifying", "confirm", "started"}
  BY DEF DeskInv, DeskTypes
<1>3. FallBack \in {"input", "clarifying", "confirm", "started"}
  BY DEF FallBack
<1>4. \A c \in clarifies : lapses = {} /\ ReadingsFit => clarifies \ {c} = {}
  BY DEF ReadingsFit
<1>5. ASSUME NEW c \in clarifies, ClarifyFails(c) PROVE DeskInv'
  <2>1. /\ phase' = FallBack /\ busy' = FALSE /\ recheckDirty' = recheckDirty /\ gate' = gate
        /\ clarifies' = clarifies \ {c}
        /\ UNCHANGED <<given, answers, draft, kept, lapses, posts>>
    BY <1>5 DEF ClarifyFails
  <2>2. draftsStale' \in BOOLEAN /\ (draftsStale => draftsStale')
    <3>1. PICK d \in BOOLEAN : d = (draftsStale \/ (~ c.snapshot.on /\ ~ c.first))
      OBVIOUS
    <3> QED BY <1>5, <3>1 DEF ClarifyFails
  <2>3. lapses = {} /\ ReadingsFit => ReadingsFit'
    BY <1>4, <2>1 DEF ReadingsFit
  <2> QED BY <1>2, <1>3, <2>1, <2>2, <2>3, ScreenKeeps
<1>6. ASSUME NEW c \in clarifies, ClarifyIsGated(c) PROVE DeskInv'
  <2>1. /\ phase' = FallBack /\ busy' = FALSE /\ recheckDirty' = recheckDirty
        /\ gate'.answers = answers
        /\ clarifies' = clarifies \ {c} /\ Keeps
        /\ UNCHANGED <<draftsStale, given, answers, draft, lapses, posts>>
    BY <1>6 DEF ClarifyIsGated
  <2>2. lapses = {} /\ ReadingsFit => ReadingsFit'
    BY <1>4, <2>1 DEF ReadingsFit
  <2> QED BY <1>2, <1>3, <2>1, <2>2, ScreenKeeps
<1>7. CASE GateProceeds
  <2>1. Clarify(gate.answers, gate.snapshot) /\ gate' = NoGate
        /\ UNCHANGED <<given, draft, draftsStale, kept, recheckDirty, posts>>
    BY <1>7 DEF GateProceeds
  <2> QED BY <1>1, <1>2, <2>1, ClarifyKeeps
<1>8. CASE GateIsDismissed
  BY <1>1, <1>2, <1>8, ScreenKeeps DEF GateIsDismissed, ReadingsFit
<1> QED BY <1>5, <1>6, <1>7, <1>8

\* Start.
LEMMA StartKeeps == ASSUME DeskInv, PressesStart \/ StartIsAccepted PROVE DeskInv'
<1>1. answers \in [DeskGaps -> Nat] /\ gate.answers \in [DeskGaps -> Nat]
      /\ busy \in BOOLEAN /\ draftsStale \in BOOLEAN /\ recheckDirty \in BOOLEAN
      /\ phase \in {"input", "clarifying", "confirm", "started"}
  BY DEF DeskInv, DeskTypes
<1>2. CASE PressesStart
  <2>1. UNCHANGED <<draftsStale, gaps, draft, notes, sourceText, gate, kept, given, deskFaults>>
    BY <1>2 DEF PressesStart
  <2>2. CASE MustRecheck
    <3>1. posts' = posts
      BY <1>2, <2>2 DEF PressesStart
    <3>2. CASE busy
      <4>1. UNCHANGED <<recheckTimer, recheckDirty, phase, busy, answers, clarifies, asked, lapses>>
        BY <1>2, <2>2, <3>2 DEF PressesStart
      <4> QED BY <1>1, <2>1, <3>1, <4>1, ScreenKeeps DEF ReadingsFit
    <3>3. CASE ~ busy
      <4>1. RunRecheck
        BY <1>2, <2>2, <3>3 DEF PressesStart
      <4> QED BY <2>1, <3>1, <4>1, RecheckKeeps
    <3> QED BY <3>2, <3>3
  <2>3. CASE ~ MustRecheck
    <3>1. ~ draftsStale
      BY <2>3 DEF MustRecheck
    <3>2. /\ posts' = posts \cup {Post(draft.read, lapses)}
          /\ UNCHANGED <<startQueued, recheckTimer, recheckDirty, phase, busy, answers, clarifies,
                         asked, lapses>>
      BY <1>2, <2>3 DEF PressesStart
    <3> QED BY <1>1, <2>1, <3>1, <3>2, ScreenKeeps DEF ReadingsFit
  <2> QED BY <2>2, <2>3
<1>3. CASE StartIsAccepted
  BY <1>1, <1>3, ScreenKeeps DEF StartIsAccepted, ReadingsFit
<1> QED BY <1>2, <1>3

\* A reload, and leaving.
LEMMA ReloadKeeps == ASSUME DeskInv, Reloads \/ LeavesDesk PROVE DeskInv'
<1>1. DeskTypes /\ StaleDraftsNeverShip
  BY DEF DeskInv
<1>2. NoReplies \in [DeskGaps -> Nat] /\ NoGate.answers = NoReplies /\ NoDraft.read = NoReplies
  BY DEF NoReplies, NoGate, NoDraft
<1>3. StaleDraftsNeverShip'
  BY <1>1 DEF Reloads, LeavesDesk, StaleDraftsNeverShip
<1>4. CASE Reloads
  <2>1. /\ phase' \in {"input", "clarifying", "confirm", "started"}
        /\ answers' = kept.answers /\ draft' = kept.draft /\ draftsStale' = kept.stale
        /\ busy' = FALSE /\ recheckDirty' = FALSE
        /\ clarifies' = {} /\ gate' = NoGate
        /\ UNCHANGED <<kept, posts, given, lapses>>
    BY <1>4 DEF Reloads
  <2>2. DeskTypes'
    BY <1>1, <1>2, <2>1 DEF DeskTypes
  <2>3. lapses' = {} => AnswersFit' /\ DraftsFit' /\ ReadingsFit'
    BY <2>1 DEF DeskInv, AnswersFit, DraftsFit, ReadingsFit
  <2> QED BY <1>3, <2>2, <2>3 DEF DeskInv
<1>5. CASE LeavesDesk
  <2>1. /\ phase' = "input" /\ draft' = NoDraft /\ draftsStale' = FALSE
        /\ answers' = NoReplies /\ given' = NoReplies
        /\ busy' = FALSE /\ recheckDirty' = FALSE
        /\ lapses' = lapses \union (IF clarifies = {} THEN {} ELSE {"overlap"})
        /\ UNCHANGED <<clarifies, gate, posts>> /\ Keeps
    BY <1>5 DEF LeavesDesk
  <2>2. kept'.answers = answers' /\ kept'.draft = draft' /\ kept'.stale = draftsStale'
    BY <2>1, KeptIsTheScreen
  <2>3. DeskTypes'
    BY <1>1, <1>2, <2>1, <2>2 DEF DeskTypes
  <2>4. lapses' = {} => clarifies' = {}
    BY <2>1
  <2>5. lapses' = {} => AnswersFit' /\ DraftsFit' /\ ReadingsFit'
    BY <1>2, <2>1, <2>2, <2>4 DEF AnswersFit, DraftsFit, ReadingsFit, Agree
  <2> QED BY <1>3, <2>3, <2>5 DEF DeskInv
<1> QED BY <1>4, <1>5

\* The invariant of the practice door is kept by every step of it.
LEMMA DeskStep == DeskInv /\ [PracticeDeskNext]_deskVars => DeskInv'
<1> SUFFICES ASSUME DeskInv, [PracticeDeskNext]_deskVars PROVE DeskInv'
  OBVIOUS
<1>1. CASE UNCHANGED deskVars
  BY <1>1 DEF deskVars, DeskInv, DeskTypes, AnswersFit, DraftsFit, ReadingsFit, StaleDraftsNeverShip,
     Agree
<1>2. CASE EditsNotes \/ Generates \/ GeneratesByKey \/ GoesBack \/ Corrects
  BY <1>2, ComposerKeeps
<1>3. CASE \E g \in DeskGaps : AnswersGap(g)
  BY <1>3, AnswersGapKeeps
<1>4. CASE RecheckTimerFires
  BY <1>4, RecheckKeeps DEF RecheckTimerFires
<1>5. CASE \E c \in clarifies : Lands(c) \/ LandsBlind(c)
  BY <1>5, LandsKeeps DEF Lands, LandsBlind
<1>6. CASE (\E c \in clarifies : ClarifyFails(c) \/ ClarifyIsGated(c)) \/ GateProceeds \/ GateIsDismissed
  BY <1>6, NoReadingKeeps
<1>7. CASE PressesStart \/ StartIsAccepted
  BY <1>7, StartKeeps
<1>8. CASE Reloads \/ LeavesDesk
  BY <1>8, ReloadKeeps
<1> QED BY <1>1, <1>2, <1>3, <1>4, <1>5, <1>6, <1>7, <1>8 DEF PracticeDeskNext

---------------------------------------------------------------------------
(* Planning by conversation.                                               *)

ProposalShapes == [of : Plans \cup {"none"}, n : Nat]
DirShapes ==
  [exists : BOOLEAN, rounds : ProposalShapes, topics : ProposalShapes,
   conversation : Seq(ProposalShapes), laid : Nat, built : BOOLEAN]
TurnShapes ==
  [kind : {"turn", "load"}, of : Plans, n : Nat, visit : BOOLEAN,
   stage : {"thinking", "answered", "failed"}, proposal : ProposalShapes, reply : BOOLEAN]
AcceptShapes ==
  [n : Nat, of : Plans, shown : ProposalShapes, stage : {"sent", "saved", "naming", "done"},
   read : ProposalShapes, topics : ProposalShapes, quiet : BOOLEAN]

CreationShapes ==
  [of : Plans, visit : BOOLEAN, stage : {"asked", "made", "refused", "gated"}]

PlanTypes ==
  /\ creations \subseteq CreationShapes
  /\ planDir \in [Plans -> DirShapes]
  /\ page \in [tid : Plans \cup {"none"}, busy : BOOLEAN, shown : ProposalShapes]
  /\ planTurns \subseteq TurnShapes /\ accepts \subseteq AcceptShapes
  /\ sentTurns \in Nat /\ sentAccepts \in Nat /\ opens \in Nat
  /\ born \subseteq Plans /\ worked \subseteq born
  /\ planLapses \subseteq {"late", "missed", "twice"}

\* What is stored with a plan, and what is on its way to it, are of that plan; a
\* plan that was not created has nothing.
OfPlan(x, p) == x.of = p \/ x.of = "none"
PlansApart ==
  /\ \A p \in Plans : \A i \in DOMAIN planDir[p].conversation :
       OfPlan(planDir[p].conversation[i], p)
  /\ \A r \in planTurns :
       /\ r.of \in born /\ OfPlan(r.proposal, r.of)
       /\ r.stage # "answered" => r.proposal = NoProposal
  /\ \A a \in accepts : a.of \in born
  /\ \A c \in creations : c.of \in born <=> c.stage = "made"
  /\ \A c, e \in creations : c.of = e.of => c = e
  /\ \A p \in Plans \ born : planDir[p] = NoDir
  /\ page.tid \in born \cup {"none"}

\* While no reply came late, what the page shows and asks for is of its plan;
\* while it waits for a plan it asked for, it has none open, and nothing was
\* said of that one.
VisitFits ==
  /\ page.tid = "none" => page.shown = NoProposal
  /\ \A c \in creations : c.visit =>
       /\ page.tid = "none"
       /\ c.stage # "gated" => page.busy
       /\ planDir[c.of].conversation = <<>>
       /\ \A r \in planTurns : r.of # c.of
  /\ \A c, e \in creations : c.visit /\ e.visit => c = e
  /\ OfPlan(page.shown, page.tid)
  /\ \A r \in planTurns : r.visit => page.tid = r.of
  /\ \A a \in accepts : OfPlan(a.shown, a.of)
  /\ \A p \in Plans : OfPlan(planDir[p].rounds, p)

\* x is the proposal that directory d stored last, or d was deleted since.
IsGone(d) == ~ d.exists /\ LatestProposal(d.conversation) = NoProposal
InStep(x, d) == x = LatestProposal(d.conversation) \/ IsGone(d)

\* What a page that shows x will show when r is answered, as far as it is decided.
ToShow(r, x) ==
  IF r.stage = "answered" /\ (r.kind = "load" \/ r.proposal # NoProposal) THEN r.proposal ELSE x

\* While no reply came late or was lost, the page is busy with one request of
\* its visit, and in step with the store unless an earlier visit's is under way.
PageInStep ==
  /\ \A r \in planTurns : r.reply /\ (r.kind = "load" => r.stage = "answered")
  /\ \A r, s \in planTurns : r.visit /\ s.visit => r = s
  /\ \A r \in planTurns : r.visit => page.busy
  /\ page.tid # "none" =>
       /\ (\A r \in planTurns : r.of # page.tid) => InStep(page.shown, planDir[page.tid])
       /\ (\A r \in planTurns : r.of = page.tid => r.visit) =>
            \A r \in planTurns : r.of = page.tid => InStep(ToShow(r, page.shown), planDir[page.tid])

\* An accept that saw no turn under way still sees none, and what it took from
\* the page is what it finds or found in the store.
AcceptsInStep ==
  \A a \in accepts : a.quiet =>
    /\ \A r \in planTurns : r.of = a.of => r.stage # "thinking"
    /\ IF a.stage \in {"sent", "saved"} THEN InStep(a.shown, planDir[a.of])
       ELSE a.read = a.shown \/ IsGone(planDir[a.of])

\* While no two accepts of a plan overlap, who lays a queue finds none laid.
QueuesFit ==
  /\ \A a, b \in accepts : a.of = b.of => a = b
  /\ \A a \in accepts : a.stage = "naming" => planDir[a.of].laid = 0
  /\ \A p \in worked : planDir[p].laid # 0 /\ planDir[p].built

PlanInv ==
  /\ PlanTypes /\ PlansApart
  /\ "late" \notin planLapses => VisitFits
  /\ planLapses \intersect {"late", "missed"} = {} => PageInStep /\ AcceptsInStep
  /\ "twice" \notin planLapses => QueuesFit

\* The latest proposal is one that is stored, where one is.
LEMMA LatestIsStored ==
  ASSUME NEW c \in Seq(ProposalShapes)
  PROVE  LatestProposal(c) = NoProposal \/ \E i \in DOMAIN c : LatestProposal(c) = c[i]
<1> DEFINE carrying == {i \in DOMAIN c : c[i] # NoProposal}
<1>1. CASE carrying = {}
  BY <1>1 DEF LatestProposal
<1>2. CASE carrying # {}
  <2>1. \E i \in carrying : \A j \in carrying : j <= i
    <3>1. Len(c) \in Nat /\ carrying \subseteq 1..Len(c)
      OBVIOUS
    <3> HIDE DEF carrying
    <3> QED BY <1>2, <3>1, HighestExists
  <2>2. (CHOOSE i \in carrying : \A j \in carrying : j <= i) \in carrying
    BY <2>1, Zenon
  <2>3. LatestProposal(c) = c[CHOOSE i \in carrying : \A j \in carrying : j <= i]
    BY <1>2 DEF LatestProposal
  <2> QED BY <2>2, <2>3
<1> QED BY <1>1, <1>2

\* What is stored next is the latest, unless it carries none.
LEMMA LatestAfter ==
  ASSUME NEW c \in Seq(ProposalShapes), NEW x \in ProposalShapes
  PROVE  LatestProposal(Append(c, x)) = IF x # NoProposal THEN x ELSE LatestProposal(c)
<1> DEFINE d == Append(c, x)
           C == {i \in DOMAIN c : c[i] # NoProposal}
           D == {i \in DOMAIN d : d[i] # NoProposal}
           top(E) == CHOOSE i \in E : \A j \in E : j <= i
<1>1. /\ DOMAIN c = 1..Len(c) /\ DOMAIN d = 1..(Len(c) + 1) /\ Len(c) \in Nat
      /\ \A i \in 1..Len(c) : d[i] = c[i]
      /\ d[Len(c) + 1] = x
  OBVIOUS
<1>2. /\ LatestProposal(c) = IF C = {} THEN NoProposal ELSE c[top(C)]
      /\ LatestProposal(d) = IF D = {} THEN NoProposal ELSE d[top(D)]
  BY DEF LatestProposal
<1> HIDE DEF d
<1>3. CASE x # NoProposal
  <2>1. Len(c) + 1 \in D /\ \A j \in D : j <= Len(c) + 1
    BY <1>1, <1>3
  <2>2. \A i \in D : (\A j \in D : j <= i) => i = Len(c) + 1
    BY <1>1, <2>1
  <2> HIDE DEF D
  <2>3. top(D) = Len(c) + 1
    BY <2>1, <2>2
  <2>4. D # {}
    BY <2>1
  <2> QED BY <1>1, <1>2, <1>3, <2>3, <2>4 DEF d
<1>4. CASE x = NoProposal
  <2>1. C = D
    BY <1>1, <1>4
  <2>2. \A i \in C : d[i] = c[i]
    BY <1>1
  <2>3. C # {} => top(C) \in C
    <3>1. C \subseteq 1..Len(c)
      BY <1>1
    <3> HIDE DEF C
    <3>2. C # {} => \E i \in C : \A j \in C : j <= i
      BY <1>1, <3>1, HighestExists
    <3> QED BY <3>2, Zenon
  <2> HIDE DEF C, D
  <2> QED BY <1>2, <1>4, <2>1, <2>2, <2>3 DEF d
<1> QED BY <1>3, <1>4

\* A conversation without turns proposes nothing.
LEMMA NothingIsLatest == LatestProposal(<<>>) = NoProposal
BY DEF LatestProposal

\* The absent plan, proposal and directory are none of the real ones.
LEMMA NamesApart == "none" \notin Plans /\ NoProposal \in ProposalShapes /\ NoDir \in DirShapes
<1>1. NoProposal \in ProposalShapes
  BY DEF NoProposal, ProposalShapes
<1>2. NoDir \in DirShapes
  BY <1>1 DEF NoDir, DirShapes
<1> QED BY <1>1, <1>2, PlansAssumption

\* What is under way when the page is left.
LEMMA OutdatedFacts ==
  ASSUME NEW R \in SUBSET TurnShapes
  PROVE  /\ Outdated(R) \in SUBSET TurnShapes
         /\ \A s \in Outdated(R) :
              ~ s.visit /\ \E r \in R : /\ s.of = r.of /\ s.kind = r.kind /\ s.stage = r.stage
                                        /\ s.proposal = r.proposal /\ s.reply = r.reply
<1> DEFINE old(r) == [r EXCEPT !.visit = FALSE]
<1>1. \A r \in R : /\ old(r) \in TurnShapes /\ ~ old(r).visit
                   /\ old(r).of = r.of /\ old(r).kind = r.kind /\ old(r).stage = r.stage
                   /\ old(r).proposal = r.proposal /\ old(r).reply = r.reply
  BY DEF TurnShapes
<1>2. \A s \in Outdated(R) : \E r \in R : s = old(r)
  BY DEF Outdated
<1> HIDE DEF old
<1> QED BY <1>1, <1>2

LEMMA OutdatedCreations ==
  ASSUME NEW C \in SUBSET CreationShapes
  PROVE  /\ Outdated(C) \in SUBSET CreationShapes
         /\ \A s \in Outdated(C) : ~ s.visit
         /\ \A s \in Outdated(C) : \E c \in C : s.of = c.of /\ s.stage = c.stage
         /\ (\A c, e \in C : c.of = e.of => c = e) =>
              \A c, e \in Outdated(C) : c.of = e.of => c = e
<1> DEFINE old(c) == [c EXCEPT !.visit = FALSE]
<1>1. \A c \in C : /\ old(c) \in CreationShapes /\ ~ old(c).visit
                   /\ old(c).of = c.of /\ old(c).stage = c.stage
  BY DEF CreationShapes
<1>2. \A s \in Outdated(C) : \E c \in C : s = old(c)
  BY DEF Outdated
<1> HIDE DEF old
<1> QED BY <1>1, <1>2

\* A turn that is sent.
LEMMA TurnFacts ==
  ASSUME sentTurns \in Nat, NEW p \in Plans
  PROVE  /\ Turn(p) \in TurnShapes
         /\ Turn(p).of = p /\ Turn(p).kind = "turn" /\ Turn(p).visit /\ Turn(p).stage = "thinking"
         /\ Turn(p).proposal = NoProposal /\ Turn(p).reply
BY NamesApart DEF Turn, TurnShapes

\* What a turn that is sent does to the accepts.
Disturbed(p) == {[a EXCEPT !.quiet = @ /\ a.of # p] : a \in accepts}

\* A turn of another plan leaves an accept as it is, one of its own only unquiets it.
LEMMA DisturbedFacts ==
  ASSUME accepts \in SUBSET AcceptShapes, NEW p \in Plans
  PROVE  /\ Disturbed(p) \in SUBSET AcceptShapes
         /\ \A b \in Disturbed(p) : \E a \in accepts :
              /\ b.of = a.of /\ b.shown = a.shown /\ b.stage = a.stage /\ b.read = a.read
              /\ b.quiet => a.quiet /\ a.of # p
         /\ (\A a, b \in accepts : a.of = b.of => a = b) =>
              \A a, b \in Disturbed(p) : a.of = b.of => a = b
<1> DEFINE aft(a) == [a EXCEPT !.quiet = @ /\ a.of # p]
<1>1. ASSUME NEW a \in accepts
      PROVE  /\ aft(a) \in AcceptShapes
             /\ aft(a).of = a.of /\ aft(a).shown = a.shown /\ aft(a).stage = a.stage
             /\ aft(a).read = a.read
             /\ aft(a).quiet => a.quiet /\ a.of # p
  <2>1. a \in AcceptShapes
    OBVIOUS
  <2>2. PICK q \in BOOLEAN : q = (a.quiet /\ a.of # p)
    OBVIOUS
  <2>3. aft(a) = [a EXCEPT !.quiet = q]
    BY <2>2
  <2> HIDE DEF aft
  <2> QED BY <2>1, <2>2, <2>3 DEF AcceptShapes
<1>2. \A b \in Disturbed(p) : \E a \in accepts : b = aft(a)
  BY DEF Disturbed
<1> HIDE DEF aft
<1> QED BY <1>1, <1>2

\* What the invariant says of what is there.
LEMMA PlanFacts ==
  ASSUME PlanInv
  PROVE  /\ page \in [tid : Plans \cup {"none"}, busy : BOOLEAN, shown : ProposalShapes]
         /\ page.tid \in born \cup {"none"} /\ page.busy \in BOOLEAN /\ page.shown \in ProposalShapes
         /\ planTurns \in SUBSET TurnShapes /\ accepts \in SUBSET AcceptShapes
         /\ \A r \in planTurns : r.of \in born /\ r.of \in Plans /\ r.proposal \in ProposalShapes
         /\ \A a \in accepts : a.of \in born /\ a.of \in Plans /\ a.shown \in ProposalShapes
         /\ born \subseteq Plans /\ worked \subseteq born
         /\ \A p \in Plans : planDir[p] \in DirShapes /\ planDir[p].conversation \in Seq(ProposalShapes)
         /\ sentTurns \in Nat /\ sentAccepts \in Nat /\ opens \in Nat
         /\ creations \in SUBSET CreationShapes
         /\ \A c \in creations : c.of \in Plans
BY DEF PlanInv, PlanTypes, PlansApart, TurnShapes, AcceptShapes, DirShapes, CreationShapes

\* Nothing is in step with the page that waits for nothing, and is left.
LEMMA LeavingKeeps ==
  ASSUME PlanInv, page' = NoPage, planTurns' = Outdated(planTurns), accepts' \subseteq accepts,
         creations' = Outdated(creations),
         UNCHANGED <<planDir, sentTurns, sentAccepts, opens, born, worked, planLapses>>
  PROVE  PlanInv'
<1>1. planTurns \in SUBSET TurnShapes
  BY PlanFacts
<1>2. /\ planTurns' \in SUBSET TurnShapes
      /\ \A s \in planTurns' :
           ~ s.visit /\ \E r \in planTurns : /\ s.of = r.of /\ s.kind = r.kind /\ s.stage = r.stage
                                             /\ s.proposal = r.proposal /\ s.reply = r.reply
  BY <1>1, OutdatedFacts
<1>3. NoPage.tid = "none" /\ NoPage.shown = NoProposal /\ NoProposal.of = "none"
      /\ NoPage \in [tid : Plans \cup {"none"}, busy : BOOLEAN, shown : ProposalShapes]
  BY NamesApart DEF NoPage, NoProposal
<1>10. /\ creations' \in SUBSET CreationShapes
       /\ \A s \in creations' : ~ s.visit
       /\ \A s \in creations' : \E c \in creations : s.of = c.of /\ s.stage = c.stage
       /\ \A c, e \in creations' : c.of = e.of => c = e
  BY PlanFacts, OutdatedCreations DEF PlanInv, PlansApart
<1>4. PlanTypes'
  BY <1>2, <1>3, <1>10 DEF PlanInv, PlanTypes
<1>5. PlansApart'
  BY <1>2, <1>3, <1>10 DEF PlanInv, PlansApart
<1>6. VisitFits => VisitFits'
  BY <1>2, <1>3, <1>10 DEF VisitFits, OfPlan
<1>7. PageInStep => PageInStep'
  BY <1>2, <1>3 DEF PageInStep
<1>8. AcceptsInStep => AcceptsInStep'
  BY <1>2 DEF AcceptsInStep
<1>9. QueuesFit => QueuesFit'
  BY DEF QueuesFit
<1> QED BY <1>4, <1>5, <1>6, <1>7, <1>8, <1>9 DEF PlanInv

\* One directory changes.
LEMMA OneDirChanges ==
  ASSUME NEW f \in [Plans -> DirShapes], NEW p \in Plans, NEW d \in DirShapes, NEW g,
         g = [f EXCEPT ![p] = d]
  PROVE  /\ g \in [Plans -> DirShapes] /\ g[p] = d
         /\ \A q \in Plans : q # p => g[q] = f[q]
OBVIOUS

\* A plan is asked for.
LEMMA AsksKeeps == ASSUME PlanInv, NEW p \in Plans, AsksForPlan(p) PROVE PlanInv'
<1> DEFINE c0 == [of |-> p, visit |-> TRUE, stage |-> "asked"]
<1>1. /\ page.tid = "none" /\ ~ page.busy /\ p \notin born
      /\ \A c \in creations : c.of # p /\ c.stage # "gated"
      /\ page' = [page EXCEPT !.busy = TRUE] /\ creations' = creations \cup {c0}
      /\ UNCHANGED <<planDir, planTurns, accepts, sentTurns, sentAccepts, opens, born, worked,
                     planLapses>>
  BY DEF AsksForPlan
<1>2. c0 \in CreationShapes /\ c0.of = p /\ c0.visit /\ c0.stage = "asked"
  BY DEF CreationShapes
<1> HIDE DEF c0
<1>3. /\ page' \in [tid : Plans \cup {"none"}, busy : BOOLEAN, shown : ProposalShapes]
      /\ page'.tid = "none" /\ page'.busy /\ page'.shown = page.shown
  BY <1>1, PlanFacts
<1>4. PlanTypes'
  BY <1>1, <1>2, <1>3 DEF PlanInv, PlanTypes
<1>5. PlansApart'
  BY <1>1, <1>2, <1>3 DEF PlanInv, PlansApart
<1>6. VisitFits => VisitFits'
  <2> SUFFICES ASSUME VisitFits PROVE VisitFits'
    OBVIOUS
  <2>1. \A c \in creations : ~ c.visit
    BY <1>1 DEF VisitFits
  <2>2. planDir[p].conversation = <<>> /\ \A r \in planTurns : r.of # p
    BY <1>1 DEF PlanInv, PlansApart, NoDir
  <2>3. \A c \in creations' : c.visit => c = c0
    BY <1>1, <2>1
  <2> QED BY <1>1, <1>2, <1>3, <2>2, <2>3 DEF VisitFits
<1>7. PageInStep => PageInStep'
  BY <1>1, <1>3 DEF PageInStep
<1>8. AcceptsInStep => AcceptsInStep'
  BY <1>1 DEF AcceptsInStep
<1>9. QueuesFit => QueuesFit'
  BY <1>1 DEF QueuesFit
<1> QED BY <1>1, <1>4, <1>5, <1>6, <1>7, <1>8, <1>9 DEF PlanInv

\* A creation goes on.
LEMMA CreationGoesOn ==
  ASSUME PlanInv, NEW c \in creations, NEW stage \in {"asked", "made", "refused", "gated"}
  PROVE  LET e == [c EXCEPT !.stage = stage] IN
           /\ e \in CreationShapes /\ e.of = c.of /\ e.visit = c.visit /\ e.stage = stage
           /\ c.visit \in BOOLEAN
<1>1. c \in CreationShapes
  BY PlanFacts
<1> QED BY <1>1 DEF CreationShapes

\* A plan is made.
LEMMA MadeKeeps == ASSUME PlanInv, NEW c \in creations, PlanIsMade(c) PROVE PlanInv'
<1> DEFINE p == c.of
           e == [c EXCEPT !.stage = "made"]
           d == [planDir[p] EXCEPT !.exists = TRUE]
<1>1. /\ c.stage = "asked" /\ born' = born \cup {p}
      /\ planDir' = [planDir EXCEPT ![p] = d] /\ creations' = (creations \ {c}) \cup {e}
      /\ UNCHANGED <<page, planTurns, accepts, sentTurns, sentAccepts, opens, worked, planLapses>>
  BY DEF PlanIsMade
<1>2. e \in CreationShapes /\ e.of = p /\ e.visit = c.visit /\ e.stage = "made"
  BY CreationGoesOn
<1>3. p \in Plans /\ p \notin born /\ p = c.of
  BY <1>1, PlanFacts DEF PlanInv, PlansApart
<1> HIDE DEF e
<1>4. d \in DirShapes /\ d.conversation = <<>> /\ d.rounds = NoProposal /\ planDir[p].conversation = <<>>
  <2>1. planDir[p] = NoDir
    BY <1>3 DEF PlanInv, PlansApart
  <2>2. NoDir \in DirShapes /\ NoDir.conversation = <<>> /\ NoDir.rounds = NoProposal
    BY NamesApart DEF NoDir
  <2> QED BY <2>1, <2>2 DEF DirShapes
<1> HIDE DEF d, p
<1>5. /\ planDir' \in [Plans -> DirShapes] /\ planDir'[p] = d
      /\ \A q \in Plans : q # p => planDir'[q] = planDir[q]
  <2>1. planDir \in [Plans -> DirShapes]
    BY DEF PlanInv, PlanTypes
  <2>2. planDir' = [planDir EXCEPT ![p] = d]
    BY <1>1
  <2> QED BY ONLY <1>3, <1>4, <2>1, <2>2, OneDirChanges
<1>6. \A q \in Plans : planDir'[q].conversation = planDir[q].conversation
  BY <1>4, <1>5
<1>7. \A q \in born : q # p /\ q \in Plans /\ planDir'[q] = planDir[q]
  BY <1>3, <1>5, PlanFacts
<1>8. PlanTypes'
  BY <1>1, <1>2, <1>3, <1>5 DEF PlanInv, PlanTypes
<1>9. PlansApart'
  <2>1. \A a \in creations' : a.of \in born' <=> a.stage = "made"
    BY <1>1, <1>2, <1>3 DEF PlanInv, PlansApart
  <2>2. \A a, b \in creations' : a.of = b.of => a = b
    BY <1>1, <1>2, <1>3 DEF PlanInv, PlansApart
  <2> QED BY <1>1, <1>5, <1>6, <2>1, <2>2 DEF PlanInv, PlansApart
<1>10. VisitFits => VisitFits'
  <2> SUFFICES ASSUME VisitFits PROVE VisitFits'
    OBVIOUS
  <2>1. \A a \in creations' : a.visit =>
          page.tid = "none" /\ (a.stage # "gated" => page.busy)
          /\ planDir[a.of].conversation = <<>> /\ \A r \in planTurns : r.of # a.of
    BY <1>1, <1>2, <1>3 DEF VisitFits
  <2>2. \A a, b \in creations' : a.visit /\ b.visit => a = b
    BY <1>1, <1>2 DEF VisitFits
  <2>3. \A a \in creations' : a.of \in Plans
    BY <1>1, <1>2, <1>3, PlanFacts
  <2>4. \A q \in Plans : OfPlan(planDir'[q].rounds, q)
    BY <1>4, <1>5 DEF VisitFits, OfPlan, NoProposal
  <2> QED BY <1>1, <1>6, <2>1, <2>2, <2>3, <2>4 DEF VisitFits
<1>11. PageInStep => PageInStep'
  <2>1. page.tid # "none" => page.tid \in born
    BY DEF PlanInv, PlansApart
  <2> QED BY <1>1, <1>7, <2>1 DEF PageInStep
<1>12. AcceptsInStep => AcceptsInStep'
  BY <1>1, <1>7, PlanFacts DEF AcceptsInStep
<1>13. QueuesFit => QueuesFit'
  BY <1>1, <1>7, PlanFacts DEF QueuesFit
<1> QED BY <1>1, <1>8, <1>9, <1>10, <1>11, <1>12, <1>13 DEF PlanInv

\* A request for a plan is refused, lost or asked again.
LEMMA HearsKeeps ==
  ASSUME PlanInv, NEW c \in creations,
         PlanIsRefused(c) \/ RefusalLands(c) \/ CreationIsLost(c) \/ CardLetsThrough(c)
         \/ CardIsDismissed(c)
  PROVE  PlanInv'
<1> DEFINE e(stage) == [c EXCEPT !.stage = stage]
<1>1. \A stage \in {"asked", "made", "refused", "gated"} :
        /\ e(stage) \in CreationShapes /\ e(stage).of = c.of /\ e(stage).visit = c.visit
        /\ e(stage).stage = stage /\ c.visit \in BOOLEAN
  BY CreationGoesOn
<1>2. /\ c.stage # "made" \/ creations' = creations \ {c}
      /\ \/ creations' = creations \ {c}
         \/ creations' = (creations \ {c}) \cup {e("asked")}
         \/ creations' = (creations \ {c}) \cup {e("refused")}
         \/ creations' = (creations \ {c}) \cup {e("gated")}
      /\ UNCHANGED <<planDir, planTurns, accepts, sentTurns, sentAccepts, opens, born, worked>>
  BY DEF PlanIsRefused, RefusalLands, CreationIsLost, CardLetsThrough, CardIsDismissed
<1>3. PICK b \in BOOLEAN :
        /\ page' = [page EXCEPT !.busy = b]
        /\ planLapses' = planLapses \/ planLapses' = planLapses \cup {"late"}
        /\ "late" \in planLapses' \/ c.visit \/ page' = page
        /\ \/ creations' = creations \ {c}
           \/ b /\ creations' = (creations \ {c}) \cup {e("asked")}
           \/ c.stage = "asked" /\ page' = page /\ creations' = (creations \ {c}) \cup {e("refused")}
           \/ creations' = (creations \ {c}) \cup {e("gated")}
  <2>0. page = [page EXCEPT !.busy = page.busy] /\ page.busy \in BOOLEAN
    BY PlanFacts
  <2>1. CASE PlanIsRefused(c)
    BY <2>0, <2>1 DEF PlanIsRefused
  <2>2. CASE RefusalLands(c)
    BY <2>2 DEF RefusalLands, HearsOf
  <2>3. CASE CreationIsLost(c)
    BY <2>3 DEF CreationIsLost, HearsOf
  <2>4. CASE CardLetsThrough(c)
    BY <2>4 DEF CardLetsThrough, HearsOf
  <2>5. CASE CardIsDismissed(c)
    BY <2>0, <2>5 DEF CardIsDismissed
  <2> QED BY <2>1, <2>2, <2>3, <2>4, <2>5
<1> HIDE DEF e
<1>4. /\ page' \in [tid : Plans \cup {"none"}, busy : BOOLEAN, shown : ProposalShapes]
      /\ page'.tid = page.tid /\ page'.busy = b /\ page'.shown = page.shown
  BY <1>3, PlanFacts
<1>5. /\ creations' \in SUBSET CreationShapes
      /\ \A x \in creations' : x \in creations \ {c} \/ (x.of = c.of /\ x.visit = c.visit)
      /\ \A x, y \in creations' : x \in creations \ {c} \/ y \in creations \ {c} \/ x = y
      /\ \A x \in creations' \ creations : x.stage # "made"
  BY <1>1, <1>2, PlanFacts
<1>6. PlanTypes'
  BY <1>2, <1>3, <1>4, <1>5 DEF PlanInv, PlanTypes
<1>7. PlansApart'
  <2>1. \A x \in creations' : x.of \in born <=> x.stage = "made"
    <3>1. creations' = creations \ {c} \/ c.of \notin born
      BY <1>2 DEF PlanInv, PlansApart
    <3> QED BY <1>2, <1>5, <3>1 DEF PlanInv, PlansApart
  <2>2. \A x, y \in creations' : x.of = y.of => x = y
    BY <1>5 DEF PlanInv, PlansApart
  <2> QED BY <1>2, <1>4, <2>1, <2>2 DEF PlanInv, PlansApart
<1>8. ASSUME "late" \notin planLapses' PROVE VisitFits'
  <2>1. VisitFits /\ (c.visit \/ page' = page)
    BY <1>3, <1>8 DEF PlanInv
  <2>2. CASE c.visit
    <3>1. page.tid = "none" /\ \A x \in creations \ {c} : ~ x.visit
      BY <2>1, <2>2 DEF VisitFits
    <3>2. \A x, y \in creations' : x.visit /\ y.visit => x = y
      BY <1>5, <3>1
    <3>3. \A x \in creations' : x.visit =>
            /\ x.stage # "gated" => page'.busy
            /\ planDir[x.of].conversation = <<>> /\ \A r \in planTurns : r.of # x.of
      <4>1. page' = page => (c.stage = "asked" => page'.busy)
        BY <2>1, <2>2 DEF VisitFits
      <4>2. \A x \in creations' : x.visit => x.of = c.of /\ (x.stage # "gated" => page'.busy)
        BY <1>1, <1>3, <1>4, <3>1, <4>1
      <4> QED BY <2>1, <2>2, <4>2 DEF VisitFits
    <3> QED BY <1>2, <1>4, <2>1, <3>1, <3>2, <3>3 DEF VisitFits
  <2>3. CASE ~ c.visit
    <3>1. \A x \in creations' : x.visit => x \in creations
      BY <1>5, <2>3
    <3> QED BY <1>2, <2>1, <2>3, <3>1 DEF VisitFits
  <2> QED BY <2>2, <2>3
<1>9. ASSUME planLapses' \intersect {"late", "missed"} = {} PROVE PageInStep' /\ AcceptsInStep'
  <2>1. PageInStep /\ AcceptsInStep /\ VisitFits /\ (c.visit \/ page' = page)
    BY <1>3, <1>9 DEF PlanInv
  <2>2. page' = page \/ \A r \in planTurns : ~ r.visit
    <3>1. c.visit => page.tid = "none"
      BY <2>1 DEF VisitFits
    <3>2. \A r \in planTurns : r.of # "none"
      BY PlanFacts, NamesApart
    <3> QED BY <2>1, <3>1, <3>2 DEF VisitFits
  <2>3. PageInStep'
    BY <1>2, <1>4, <2>1, <2>2 DEF PageInStep
  <2>4. AcceptsInStep'
    BY <1>2, <2>1 DEF AcceptsInStep
  <2> QED BY <2>3, <2>4
<1>10. QueuesFit => QueuesFit'
  BY <1>2 DEF QueuesFit
<1>11. "twice" \notin planLapses' => "twice" \notin planLapses
  BY <1>3
<1> QED BY <1>6, <1>7, <1>8, <1>9, <1>10, <1>11 DEF PlanInv

\* The page opens the plan it created.
LEMMA CreationLandsKeeps == ASSUME PlanInv, NEW c \in creations, CreationLands(c) PROVE PlanInv'
<1> DEFINE p == c.of
           t == Turn(p)
<1>0. /\ c.stage = "made" /\ p \in Plans /\ p \in born /\ p # "none" /\ p = c.of
      /\ NoProposal.of = "none" /\ c.visit \in BOOLEAN
  BY PlanFacts, NamesApart, CreationGoesOn DEF CreationLands, PlanInv, PlansApart, NoProposal
<1>1. t \in TurnShapes /\ t.of = p /\ t.kind = "turn" /\ t.visit /\ t.stage = "thinking"
      /\ t.proposal = NoProposal /\ t.reply
  BY <1>0, PlanFacts, TurnFacts
<1>2. planTurns' = planTurns \cup {t} /\ accepts' = Disturbed(p) /\ sentTurns' \in Nat
  BY PlanFacts DEF CreationLands, SendsTurn, Disturbed
<1>3. /\ page' = [page EXCEPT !.tid = p, !.busy = TRUE] /\ creations' = creations \ {c}
      /\ planLapses' = planLapses \cup (IF c.visit THEN {} ELSE {"late"})
      /\ UNCHANGED <<planDir, sentAccepts, opens, born, worked>>
  BY DEF CreationLands, HearsOf
<1> HIDE DEF t, p
<1>4. /\ page' \in [tid : Plans \cup {"none"}, busy : BOOLEAN, shown : ProposalShapes]
      /\ page'.tid = p /\ page'.busy /\ page'.shown = page.shown
  BY <1>0, <1>3, PlanFacts
<1>5. /\ accepts' \in SUBSET AcceptShapes
      /\ \A b \in accepts' : \E a \in accepts :
           /\ b.of = a.of /\ b.shown = a.shown /\ b.stage = a.stage /\ b.read = a.read
           /\ b.quiet => a.quiet /\ a.of # p
      /\ (\A a, b \in accepts : a.of = b.of => a = b) => \A a, b \in accepts' : a.of = b.of => a = b
  BY <1>0, <1>2, PlanFacts, DisturbedFacts
<1>6. PlanTypes'
  <2>1. planLapses' \subseteq {"late", "missed", "twice"}
    BY <1>3 DEF PlanInv, PlanTypes
  <2> QED BY <1>1, <1>2, <1>3, <1>4, <1>5, <2>1, PlanFacts DEF PlanInv, PlanTypes
<1>7. PlansApart'
  BY <1>0, <1>1, <1>2, <1>3, <1>4, <1>5 DEF PlanInv, PlansApart, OfPlan
<1>8. ASSUME "late" \notin planLapses'
      PROVE  /\ VisitFits /\ VisitFits' /\ page.shown = NoProposal /\ planDir[p].conversation = <<>>
             /\ \A r \in planTurns : ~ r.visit /\ r.of # p
  <2>1. VisitFits /\ c.visit
    BY <1>3, <1>8 DEF PlanInv
  <2>2. page.tid = "none" /\ page.shown = NoProposal /\ planDir[p].conversation = <<>>
        /\ (\A r \in planTurns : r.of # p) /\ \A x \in creations \ {c} : ~ x.visit
    BY <1>0, <2>1 DEF VisitFits
  <2>3. \A r \in planTurns : ~ r.visit
    BY <2>1, <2>2, PlanFacts, NamesApart DEF VisitFits
  <2>4. \A r \in planTurns' : r.visit => r.of = p
    BY <1>1, <1>2, <2>3
  <2>5. \A a \in accepts' : OfPlan(a.shown, a.of)
    BY <1>5, <2>1 DEF VisitFits
  <2>6. VisitFits'
    BY <1>0, <1>3, <1>4, <2>1, <2>2, <2>4, <2>5 DEF VisitFits, OfPlan
  <2> QED BY <2>1, <2>2, <2>3, <2>6
<1>9. ASSUME planLapses' \intersect {"late", "missed"} = {} PROVE PageInStep' /\ AcceptsInStep'
  <2>1. PageInStep /\ AcceptsInStep
    BY <1>3, <1>9 DEF PlanInv
  <2>2. /\ page'.shown = NoProposal /\ planDir'[p].conversation = <<>>
        /\ \A r \in planTurns : ~ r.visit /\ r.of # p
    BY <1>3, <1>4, <1>8, <1>9
  <2>3. ToShow(t, page'.shown) = NoProposal
    BY <1>1, <2>2 DEF ToShow
  <2>4. InStep(NoProposal, planDir'[p])
    BY <2>2, NothingIsLatest DEF InStep
  <2>5. PageInStep'
    BY <1>1, <1>2, <1>4, <2>1, <2>2, <2>3, <2>4 DEF PageInStep
  <2>6. AcceptsInStep'
    BY <1>1, <1>2, <1>3, <1>5, <2>1 DEF AcceptsInStep
  <2> QED BY <2>5, <2>6
<1>10. QueuesFit => QueuesFit'
  BY <1>3, <1>5 DEF QueuesFit
<1>11. "twice" \notin planLapses' => "twice" \notin planLapses
  BY <1>3
<1> QED BY <1>6, <1>7, <1>8, <1>9, <1>10, <1>11 DEF PlanInv

\* The candidate speaks to the planner.
LEMMA SaysKeeps == ASSUME PlanInv, Says PROVE PlanInv'
<1> USE DEF Says, SendsTurn
<1> DEFINE p == page.tid
           t == Turn(p)
<1>0. p \in Plans /\ p \in born /\ p # "none"
  BY PlanFacts
<1>1. t \in TurnShapes /\ t.of = p /\ t.kind = "turn" /\ t.visit /\ t.stage = "thinking"
      /\ t.proposal = NoProposal /\ t.reply
  BY <1>0, PlanFacts, TurnFacts
<1>2. planTurns' = planTurns \cup {t} /\ accepts' = Disturbed(p)
  BY DEF Disturbed
<1>3. /\ page' \in [tid : Plans \cup {"none"}, busy : BOOLEAN, shown : ProposalShapes]
      /\ page'.tid = p /\ page'.busy /\ page'.shown = page.shown /\ ~ page.busy
  BY PlanFacts
<1>4. NoProposal.of = "none"
  BY DEF NoProposal
<1> HIDE DEF t, p
<1>5. /\ accepts' \in SUBSET AcceptShapes
      /\ \A b \in accepts' : \E a \in accepts :
           /\ b.of = a.of /\ b.shown = a.shown /\ b.stage = a.stage /\ b.read = a.read
           /\ b.quiet => a.quiet /\ a.of # p
      /\ (\A a, b \in accepts : a.of = b.of => a = b) => \A a, b \in accepts' : a.of = b.of => a = b
  BY <1>0, <1>2, PlanFacts, DisturbedFacts
<1>6. p = page.tid
  BY DEF p
<1>7. PlanTypes'
  BY <1>1, <1>2, <1>3, <1>5, PlanFacts DEF PlanInv, PlanTypes
<1>8. PlansApart'
  BY <1>0, <1>1, <1>2, <1>3, <1>4, <1>5 DEF PlanInv, PlansApart, OfPlan
<1>9. VisitFits => VisitFits'
  BY <1>0, <1>1, <1>2, <1>3, <1>4, <1>5, <1>6 DEF VisitFits, OfPlan
<1>10. PageInStep => PageInStep'
  <2> SUFFICES ASSUME PageInStep PROVE PageInStep'
    OBVIOUS
  <2>1. \A r \in planTurns : ~ r.visit
    BY <1>3 DEF PageInStep
  <2>2. ToShow(t, page'.shown) = page.shown
    BY <1>1, <1>3 DEF ToShow
  <2>3. (\A r \in planTurns' : r.of = p => r.visit) => \A r \in planTurns : r.of # p
    BY <1>2, <2>1
  <2>4. (\A r \in planTurns : r.of # p) => InStep(page.shown, planDir[p])
    BY <1>0, <1>6 DEF PageInStep
  <2>5. (\A r \in planTurns' : r.of = p => r.visit) =>
           \A r \in planTurns' : r.of = p => InStep(ToShow(r, page'.shown), planDir'[p])
    BY <1>2, <2>2, <2>3, <2>4
  <2>6. ~ \A r \in planTurns' : r.of # p
    BY <1>1, <1>2
  <2> QED BY <1>1, <1>2, <1>3, <2>1, <2>5, <2>6 DEF PageInStep
<1>11. AcceptsInStep => AcceptsInStep'
  BY <1>1, <1>2, <1>5 DEF AcceptsInStep
<1>12. QueuesFit => QueuesFit'
  BY <1>5 DEF QueuesFit
<1> QED BY <1>7, <1>8, <1>9, <1>10, <1>11, <1>12 DEF PlanInv

\* A plan is opened again.
LEMMA OpensKeeps == ASSUME PlanInv, NEW p \in Plans, OpensPlan(p) PROVE PlanInv'
<1> USE DEF OpensPlan
<1> DEFINE t == [kind |-> "load", of |-> p, n |-> opens + 1, visit |-> TRUE, stage |-> "answered",
                 proposal |-> LatestProposal(planDir[p].conversation), reply |-> TRUE]
           x == LatestProposal(planDir[p].conversation)
<1>0. x \in ProposalShapes /\ OfPlan(x, p)
  <2>1. planDir[p].conversation \in Seq(ProposalShapes)
    BY PlanFacts
  <2>2. x = NoProposal \/ \E i \in DOMAIN planDir[p].conversation : x = planDir[p].conversation[i]
    BY <2>1, LatestIsStored
  <2>3. NoProposal \in ProposalShapes /\ NoProposal.of = "none"
    BY NamesApart DEF NoProposal
  <2> HIDE DEF x
  <2> QED BY <2>1, <2>2, <2>3 DEF PlanInv, PlansApart, OfPlan
<1>1. t \in TurnShapes /\ t.of = p /\ t.kind = "load" /\ t.visit /\ t.stage = "answered"
      /\ t.proposal = x /\ t.reply
  <2> HIDE DEF x
  <2>1. t = [kind |-> "load", of |-> p, n |-> opens + 1, visit |-> TRUE, stage |-> "answered",
                 proposal |-> x, reply |-> TRUE]
    BY DEF x
  <2> QED BY <1>0, <2>1, PlanFacts DEF TurnShapes
<1>2. planTurns' = Outdated(planTurns) \cup {t}
  OBVIOUS
<1>3. /\ page' \in [tid : Plans \cup {"none"}, busy : BOOLEAN, shown : ProposalShapes]
      /\ page'.tid = p /\ page'.busy /\ page'.shown = NoProposal /\ p # "none"
      /\ NoProposal.of = "none" /\ page.tid = "none"
  BY NamesApart DEF NoProposal
<1>4. p \in born
  BY DEF PlanInv, PlansApart, NoDir
<1>5. x = LatestProposal(planDir[p].conversation)
  OBVIOUS
<1> HIDE DEF t, x
<1>6. /\ Outdated(planTurns) \in SUBSET TurnShapes
      /\ \A s \in Outdated(planTurns) :
           ~ s.visit /\ \E r \in planTurns : /\ s.of = r.of /\ s.kind = r.kind /\ s.stage = r.stage
                                             /\ s.proposal = r.proposal /\ s.reply = r.reply
  BY PlanFacts, OutdatedFacts
<1>13. /\ creations' \in SUBSET CreationShapes
       /\ \A s \in creations' : ~ s.visit
       /\ \A s \in creations' : \E c \in creations : s.of = c.of /\ s.stage = c.stage
       /\ \A c, e \in creations' : c.of = e.of => c = e
  BY PlanFacts, OutdatedCreations DEF PlanInv, PlansApart
<1>7. PlanTypes'
  BY <1>1, <1>2, <1>3, <1>6, <1>13, PlanFacts DEF PlanInv, PlanTypes
<1>8. PlansApart'
  BY <1>0, <1>1, <1>2, <1>3, <1>4, <1>6, <1>13 DEF PlanInv, PlansApart
<1>9. VisitFits => VisitFits'
  BY <1>1, <1>2, <1>3, <1>6, <1>13 DEF VisitFits, OfPlan
<1>10. PageInStep => PageInStep'
  <2> SUFFICES ASSUME PageInStep PROVE PageInStep'
    OBVIOUS
  <2>1. InStep(ToShow(t, page'.shown), planDir'[p])
    BY <1>1, <1>5 DEF ToShow, InStep
  <2>2. \A r \in planTurns' : r.visit => r = t
    BY <1>2, <1>6
  <2>3. \A r \in planTurns' : r.reply /\ (r.kind = "load" => r.stage = "answered")
    BY <1>1, <1>2, <1>6 DEF PageInStep
  <2>4. ~ \A r \in planTurns' : r.of # p
    BY <1>1, <1>2
  <2> QED BY <1>3, <2>1, <2>2, <2>3, <2>4 DEF PageInStep
<1>11. AcceptsInStep => AcceptsInStep'
  BY <1>1, <1>2, <1>6 DEF AcceptsInStep
<1>12. QueuesFit => QueuesFit'
  BY DEF QueuesFit
<1> QED BY <1>7, <1>8, <1>9, <1>10, <1>11, <1>12 DEF PlanInv

\* A turn is stored, or answered with an error.
LEMMA TurnEndsKeeps ==
  ASSUME PlanInv, NEW r \in planTurns,
         TurnFails(r) \/ \E proposes \in BOOLEAN : TurnLands(r, proposes)
  PROVE  PlanInv'
<1>0. r \in TurnShapes /\ r.of \in Plans /\ r.of \in born /\ r.stage = "thinking" /\ r.of # "none"
      /\ r.proposal = NoProposal
  BY PlanFacts, NamesApart DEF TurnFails, TurnLands, PlanInv, PlansApart
<1>1. NoProposal.of = "none" /\ NoProposal \in ProposalShapes
  BY NamesApart DEF NoProposal
<1> DEFINE failed == [r EXCEPT !.stage = "failed"]
           answered(x) == [r EXCEPT !.stage = "answered", !.proposal = x]
           d(x) == [planDir[r.of] EXCEPT !.conversation = Append(@, x)]
\* What becomes of the request, and of the plan it is of.
<1>2. PICK s, x :
        /\ s \in TurnShapes /\ s.of = r.of /\ s.kind = r.kind /\ s.visit = r.visit /\ s.reply = r.reply
        /\ s.stage \in {"answered", "failed"} /\ s.proposal = x
        /\ s.stage = "failed" => x = NoProposal
        /\ x \in ProposalShapes /\ OfPlan(x, r.of)
        /\ planTurns' = (planTurns \ {r}) \cup (IF r.reply THEN {s} ELSE {})
        /\ IF s.stage = "answered" THEN planDir' = [planDir EXCEPT ![r.of] = d(x)] ELSE planDir' = planDir
        /\ UNCHANGED <<creations, page, accepts, sentTurns, sentAccepts, opens, born, worked, planLapses>>
  <2>1. CASE TurnFails(r)
    <3>1. /\ failed \in TurnShapes /\ failed.of = r.of /\ failed.kind = r.kind
          /\ failed.visit = r.visit /\ failed.reply = r.reply
          /\ failed.stage = "failed" /\ failed.proposal = r.proposal
      BY <1>0 DEF TurnShapes
    <3>2. /\ planTurns' = (planTurns \ {r}) \cup (IF r.reply THEN {failed} ELSE {})
          /\ planDir' = planDir
          /\ UNCHANGED <<creations, page, accepts, sentTurns, sentAccepts, opens, born, worked, planLapses>>
      BY <2>1 DEF TurnFails
    <3> HIDE DEF failed
    <3> QED BY <1>0, <1>1, <3>1, <3>2 DEF OfPlan
  <2>2. ASSUME NEW proposes \in BOOLEAN, TurnLands(r, proposes)
        PROVE  \E x : /\ x \in ProposalShapes /\ OfPlan(x, r.of)
                      /\ planTurns' = (planTurns \ {r}) \cup (IF r.reply THEN {answered(x)} ELSE {})
                      /\ planDir' = [planDir EXCEPT ![r.of] = d(x)]
                      /\ UNCHANGED <<creations, page, accepts, sentTurns, sentAccepts, opens, born, worked, planLapses>>
    <3> DEFINE x == IF proposes THEN [of |-> r.of, n |-> r.n] ELSE NoProposal
    <3>1. x \in ProposalShapes /\ OfPlan(x, r.of)
      BY <1>0, <1>1 DEF ProposalShapes, OfPlan, TurnShapes
    <3>2. /\ planTurns' = (planTurns \ {r}) \cup (IF r.reply THEN {answered(x)} ELSE {})
          /\ planDir' = [planDir EXCEPT ![r.of] = d(x)]
          /\ UNCHANGED <<creations, page, accepts, sentTurns, sentAccepts, opens, born, worked, planLapses>>
      BY <2>2 DEF TurnLands
    <3> QED BY <3>1, <3>2
  <2>3. ASSUME NEW x \in ProposalShapes
        PROVE  /\ answered(x) \in TurnShapes /\ answered(x).of = r.of /\ answered(x).kind = r.kind
               /\ answered(x).visit = r.visit /\ answered(x).reply = r.reply
               /\ answered(x).stage = "answered" /\ answered(x).proposal = x
    BY <1>0 DEF TurnShapes
  <2> HIDE DEF answered, d
  <2> QED BY <2>1, <2>2, <2>3
<1>3. /\ planDir' \in [Plans -> DirShapes]
      /\ \A q \in Plans : q # r.of => planDir'[q] = planDir[q]
      /\ \A q \in Plans : /\ planDir'[q].exists = planDir[q].exists
                          /\ planDir'[q].rounds = planDir[q].rounds
                          /\ planDir'[q].laid = planDir[q].laid /\ planDir'[q].built = planDir[q].built
      /\ LatestProposal(planDir'[r.of].conversation)
           = IF x # NoProposal THEN x ELSE LatestProposal(planDir[r.of].conversation)
      /\ \A i \in DOMAIN planDir'[r.of].conversation : OfPlan(planDir'[r.of].conversation[i], r.of)
  <2>0. planDir \in [Plans -> DirShapes] /\ planDir[r.of].conversation \in Seq(ProposalShapes)
        /\ planDir[r.of] \in DirShapes
    BY <1>0, PlanFacts DEF PlanInv, PlanTypes
  <2>1. \A i \in DOMAIN planDir[r.of].conversation : OfPlan(planDir[r.of].conversation[i], r.of)
    BY <1>0 DEF PlanInv, PlansApart
  <2>2. CASE s.stage = "failed"
    <3>1. planDir' = planDir /\ x = NoProposal
      BY <1>2, <2>2
    <3> QED BY <2>0, <2>1, <3>1
  <2>3. CASE s.stage = "answered"
    <3> DEFINE c == Append(planDir[r.of].conversation, x)
    <3>1. c \in Seq(ProposalShapes)
          /\ LatestProposal(c) = IF x # NoProposal THEN x ELSE LatestProposal(planDir[r.of].conversation)
      BY <1>2, <2>0, LatestAfter
    <3>2. \A i \in DOMAIN c : OfPlan(c[i], r.of)
      BY <1>2, <2>0, <2>1
    <3>3. d(x) = [planDir[r.of] EXCEPT !.conversation = c]
      OBVIOUS
    <3> HIDE DEF c
    <3>4. /\ d(x) \in DirShapes /\ d(x).conversation = c
          /\ d(x).exists = planDir[r.of].exists /\ d(x).rounds = planDir[r.of].rounds
          /\ d(x).laid = planDir[r.of].laid /\ d(x).built = planDir[r.of].built
      BY <2>0, <3>1, <3>3 DEF DirShapes
    <3>5. planDir' = [planDir EXCEPT ![r.of] = d(x)]
      BY <1>2, <2>3
    <3> HIDE DEF d
    <3>6. /\ planDir' \in [Plans -> DirShapes] /\ planDir'[r.of] = d(x)
          /\ \A q \in Plans : q # r.of => planDir'[q] = planDir[q]
      BY ONLY <1>0, <2>0, <3>4, <3>5, OneDirChanges
    <3> QED BY <3>1, <3>2, <3>4, <3>6
  <2> QED BY <1>2, <2>2, <2>3
<1> HIDE DEF failed, answered, d
<1>4. planTurns' \in SUBSET TurnShapes /\ planTurns' \subseteq (planTurns \ {r}) \cup {s}
  BY <1>2, PlanFacts
<1>5. PlanTypes'
  BY <1>2, <1>3, <1>4 DEF PlanInv, PlanTypes
<1>6. PlansApart'
  <2>1. \A q \in Plans : \A i \in DOMAIN planDir'[q].conversation : OfPlan(planDir'[q].conversation[i], q)
    BY <1>3 DEF PlanInv, PlansApart
  <2>2. \A q \in planTurns' : /\ q.of \in born /\ OfPlan(q.proposal, q.of)
                              /\ q.stage # "answered" => q.proposal = NoProposal
    BY <1>0, <1>2, <1>4 DEF PlanInv, PlansApart
  <2>3. \A q \in Plans \ born : planDir'[q] = NoDir
    BY <1>0, <1>3 DEF PlanInv, PlansApart
  <2> QED BY <1>2, <2>1, <2>2, <2>3 DEF PlanInv, PlansApart
<1>7. VisitFits => VisitFits'
  <2> SUFFICES ASSUME VisitFits PROVE VisitFits'
    OBVIOUS
  <2>1. \A c \in creations : c.of \in Plans /\ (c.visit => r.of # c.of)
    BY PlanFacts DEF VisitFits
  <2>2. \A c \in creations : c.visit =>
          planDir'[c.of].conversation = <<>> /\ \A q \in planTurns' : q.of # c.of
    BY <1>2, <1>3, <1>4, <2>1 DEF VisitFits
  <2>3. \A q \in planTurns' : q.visit => page.tid = q.of
    BY <1>0, <1>2, <1>4 DEF VisitFits
  <2> QED BY <1>2, <1>3, <2>2, <2>3 DEF VisitFits
<1>8. PageInStep => PageInStep'
  <2> SUFFICES ASSUME PageInStep PROVE PageInStep'
    OBVIOUS
  <2>1. r.kind # "load" /\ r.reply
    BY <1>0 DEF PageInStep
  <2>2. planTurns' = (planTurns \ {r}) \cup {s}
    BY <1>2, <2>1
  <2>3. \A q \in planTurns' : /\ q.reply /\ (q.kind = "load" => q.stage = "answered")
                              /\ q.visit => page.busy
    BY <1>2, <2>1, <2>2 DEF PageInStep
  <2>4. \A p, q \in planTurns' : p.visit /\ q.visit => p = q
    BY <1>2, <2>2 DEF PageInStep
  <2>5. ASSUME page.tid # "none", \A q \in planTurns' : q.of # page.tid
        PROVE  InStep(page.shown, planDir'[page.tid])
    <3>1. \A q \in planTurns : q.of # page.tid
      BY <1>2, <2>2, <2>5
    <3> QED BY <1>3, <2>5, <3>1, PlanFacts DEF PageInStep
  <2>6. ASSUME page.tid # "none", \A q \in planTurns' : q.of = page.tid => q.visit,
               NEW q \in planTurns', q.of = page.tid
        PROVE  InStep(ToShow(q, page.shown), planDir'[page.tid])
    <3>1. \A p \in planTurns : p.of = page.tid => p.visit
      BY <1>2, <2>2, <2>6
    <3>2. CASE q # s
      <4>1. q \in planTurns /\ InStep(ToShow(q, page.shown), planDir[page.tid])
        BY <2>2, <2>6, <3>1, <3>2 DEF PageInStep
      <4>2. r.of # page.tid
        BY <1>2, <2>2, <2>4, <2>6, <3>2
      <4> QED BY <1>3, <2>6, <4>1, <4>2, PlanFacts
    <3>3. CASE q = s
      <4>1. r.of = page.tid /\ InStep(ToShow(r, page.shown), planDir[page.tid])
        BY <1>2, <2>6, <3>1, <3>3 DEF PageInStep
      <4>2. ToShow(r, page.shown) = page.shown
        BY <1>0 DEF ToShow
      <4>3. ToShow(s, page.shown) = IF x # NoProposal THEN x ELSE page.shown
        BY <1>2, <2>1 DEF ToShow
      <4> QED BY <1>0, <1>3, <3>3, <4>1, <4>2, <4>3 DEF InStep, IsGone
    <3> QED BY <3>2, <3>3
  <2>7. page' = page
    BY <1>2
  <2> QED BY <2>3, <2>4, <2>5, <2>6, <2>7 DEF PageInStep
<1>9. AcceptsInStep => AcceptsInStep'
  <2> SUFFICES ASSUME AcceptsInStep, NEW a \in accepts, a.quiet
               PROVE  /\ \A q \in planTurns' : q.of = a.of => q.stage # "thinking"
                      /\ planDir'[a.of] = planDir[a.of]
    BY <1>2 DEF AcceptsInStep
  <2>1. r.of # a.of
    BY <1>0 DEF AcceptsInStep
  <2> QED BY <1>2, <1>3, <1>4, <2>1, PlanFacts DEF AcceptsInStep
<1>10. QueuesFit => QueuesFit'
  BY <1>2, <1>3, PlanFacts DEF QueuesFit
<1> QED BY <1>2, <1>5, <1>6, <1>7, <1>8, <1>9, <1>10 DEF PlanInv

\* A reply lands on the page.
LEMMA ReplyLandsKeeps == ASSUME PlanInv, NEW r \in planTurns, ReplyLands(r) PROVE PlanInv'
<1> DEFINE begins == /\ r.kind = "load" /\ planDir[r.of].conversation = <<>>
                     /\ page.tid # "none" /\ sentTurns < MaxPlanTurns
           x == IF r.kind = "load" \/ r.proposal # NoProposal THEN r.proposal ELSE page.shown
           t == Turn(page.tid)
<1>0. r \in TurnShapes /\ r.of \in Plans /\ r.of \in born /\ r.of # "none" /\ x \in ProposalShapes
      /\ page.tid \in born \cup {"none"} /\ NoProposal.of = "none"
  BY PlanFacts, NamesApart DEF NoProposal
<1>1. /\ r.stage \in {"answered", "failed"}
      /\ planLapses' = planLapses \cup (IF r.visit THEN {} ELSE {"late"})
      /\ page' = [page EXCEPT !.busy = begins, !.shown = x]
      /\ IF begins THEN SendsTurn(page.tid, planTurns \ {r})
                   ELSE planTurns' = planTurns \ {r} /\ UNCHANGED <<sentTurns, accepts>>
      /\ UNCHANGED <<creations, planDir, sentAccepts, opens, born, worked>>
  BY DEF ReplyLands
<1>2. begins \in BOOLEAN /\ (begins => page.tid \in Plans /\ r.kind = "load")
  BY <1>0, PlanFacts
<1>3. begins => /\ t \in TurnShapes /\ t.of = page.tid /\ t.kind = "turn" /\ t.visit
                /\ t.stage = "thinking" /\ t.proposal = NoProposal /\ t.reply
  BY <1>2, PlanFacts, TurnFacts
<1>4. /\ planTurns' = (planTurns \ {r}) \cup (IF begins THEN {t} ELSE {})
      /\ accepts' = IF begins THEN Disturbed(page.tid) ELSE accepts
      /\ sentTurns' \in Nat
  <2>1. CASE begins
    <3>1. SendsTurn(page.tid, planTurns \ {r})
      BY <1>1, <2>1
    <3>2. sentTurns' \in Nat
      BY <3>1, PlanFacts DEF SendsTurn
    <3> QED BY <2>1, <3>1, <3>2 DEF SendsTurn, Disturbed
  <2>2. CASE ~ begins
    BY <1>1, <2>2, PlanFacts
  <2> QED BY <2>1, <2>2
<1>5. x = IF r.kind = "load" \/ r.proposal # NoProposal THEN r.proposal ELSE page.shown
  OBVIOUS
<1> HIDE DEF begins, x, t
<1>6. /\ page' \in [tid : Plans \cup {"none"}, busy : BOOLEAN, shown : ProposalShapes]
      /\ page'.tid = page.tid /\ page'.busy = begins /\ page'.shown = x
  BY <1>0, <1>1, <1>2, PlanFacts
<1>7. /\ accepts' \in SUBSET AcceptShapes
      /\ \A b \in accepts' : \E a \in accepts :
           /\ b.of = a.of /\ b.shown = a.shown /\ b.stage = a.stage /\ b.read = a.read
           /\ b.quiet => a.quiet /\ (begins => a.of # page.tid)
      /\ (\A a, b \in accepts : a.of = b.of => a = b) => \A a, b \in accepts' : a.of = b.of => a = b
  <2>1. CASE begins
    BY <1>2, <1>4, <2>1, PlanFacts, DisturbedFacts
  <2>2. CASE ~ begins
    BY <1>4, <2>2, PlanFacts
  <2> QED BY <1>2, <2>1, <2>2
<1>8. PlanTypes'
  <2>1. planTurns' \subseteq TurnShapes
    BY <1>2, <1>3, <1>4, PlanFacts
  <2>2. planLapses' \subseteq {"late", "missed", "twice"}
    BY <1>1 DEF PlanInv, PlanTypes
  <2> QED BY <1>1, <1>4, <1>6, <1>7, <2>1, <2>2 DEF PlanInv, PlanTypes
<1>9. PlansApart'
  <2>1. \A q \in planTurns' : /\ q.of \in born /\ OfPlan(q.proposal, q.of)
                              /\ q.stage # "answered" => q.proposal = NoProposal
    BY <1>0, <1>2, <1>3, <1>4, NamesApart, PlanFacts DEF PlanInv, PlansApart, OfPlan
  <2> QED BY <1>0, <1>1, <1>6, <1>7, <2>1 DEF PlanInv, PlansApart
<1>10. ASSUME "late" \notin planLapses' PROVE r.visit /\ VisitFits /\ VisitFits' /\ page.tid = r.of
  <2>1. r.visit /\ "late" \notin planLapses /\ r.visit \in BOOLEAN
    BY <1>0, <1>1, <1>10 DEF TurnShapes
  <2>2. VisitFits /\ page.tid = r.of
    BY <2>1 DEF PlanInv, VisitFits
  <2>3. OfPlan(x, page.tid)
    BY <1>5, <2>2 DEF PlanInv, PlansApart, VisitFits
  <2>4. \A q \in planTurns' : q.visit => page.tid = q.of
    BY <1>3, <1>4, <2>2 DEF VisitFits
  <2>5. \A a \in accepts' : OfPlan(a.shown, a.of)
    BY <1>7, <2>2 DEF VisitFits
  <2> QED BY <1>0, <1>1, <1>6, <2>1, <2>2, <2>3, <2>4, <2>5 DEF VisitFits
<1>11. ASSUME planLapses' \intersect {"late", "missed"} = {} PROVE PageInStep' /\ AcceptsInStep'
  <2>1. r.visit /\ page.tid = r.of /\ page.tid # "none"
    BY <1>0, <1>10, <1>11
  <2>2. planLapses \intersect {"late", "missed"} = {}
    BY <1>1, <1>11
  <2>3. PageInStep /\ AcceptsInStep
    BY <2>2 DEF PlanInv
  \* The reply shows what was to be shown.
  <2>4. x = ToShow(r, page.shown)
    <3>1. CASE r.stage = "answered"
      BY <1>5, <3>1 DEF ToShow
    <3>2. CASE r.stage = "failed"
      <4>1. r.kind # "load" /\ r.proposal = NoProposal
        BY <2>3, <3>2 DEF PageInStep, PlanInv, PlansApart
      <4> QED BY <1>5, <3>2, <4>1 DEF ToShow
    <3> QED BY <1>1, <3>1, <3>2
  <2>5. \A q \in planTurns \ {r} : ~ q.visit
    BY <2>1, <2>3 DEF PageInStep
  <2>6. (\A q \in planTurns \ {r} : q.of = page.tid => q.visit) => InStep(x, planDir[page.tid])
    BY <2>1, <2>3, <2>4 DEF PageInStep
  <2>7. planDir' = planDir
    BY <1>1
  <2>8. PageInStep'
    <3>1. \A q \in planTurns' : /\ q.reply /\ (q.kind = "load" => q.stage = "answered")
                                /\ q.visit => begins
      BY <1>2, <1>3, <1>4, <2>3, <2>5 DEF PageInStep
    <3>2. \A p, q \in planTurns' : p.visit /\ q.visit => p = q
      BY <1>4, <2>5
    <3>3. (\A q \in planTurns' : q.of # page.tid) => InStep(x, planDir[page.tid])
      BY <1>4, <2>6
    <3>4. begins => ToShow(t, x) = x
      BY <1>3 DEF ToShow
    <3>5. ASSUME \A q \in planTurns' : q.of = page.tid => q.visit, NEW q \in planTurns', q.of = page.tid
          PROVE  InStep(ToShow(q, x), planDir[page.tid])
      <4>1. begins /\ q = t
        BY <1>2, <1>4, <2>5, <3>5
      <4>2. InStep(x, planDir[page.tid])
        BY <1>4, <2>6, <3>5
      <4> QED BY <3>4, <4>1, <4>2
    <3> QED BY <1>6, <2>7, <3>1, <3>2, <3>3, <3>5 DEF PageInStep
  <2>9. AcceptsInStep'
    <3>1. \A q \in planTurns', b \in accepts' : b.quiet /\ q.of = b.of => q.stage # "thinking"
      BY <1>2, <1>3, <1>4, <1>7, <2>3 DEF AcceptsInStep
    <3> QED BY <1>7, <2>3, <2>7, <3>1 DEF AcceptsInStep
  <2> QED BY <2>8, <2>9
<1>12. QueuesFit => QueuesFit'
  BY <1>1, <1>7 DEF QueuesFit
<1>13. "twice" \notin planLapses' => "twice" \notin planLapses
  BY <1>1
<1> QED BY <1>8, <1>9, <1>10, <1>11, <1>12, <1>13 DEF PlanInv

\* A reply is lost.
LEMMA ReplyIsLostKeeps == ASSUME PlanInv, NEW r \in planTurns, ReplyIsLost(r) PROVE PlanInv'
<1> DEFINE s == [r EXCEPT !.reply = FALSE]
<1>0. r \in TurnShapes
  BY PlanFacts
<1>1. s \in TurnShapes /\ s.of = r.of /\ s.visit = r.visit /\ s.stage = r.stage /\ s.proposal = r.proposal
  BY <1>0 DEF TurnShapes
<1>2. planTurns' \subseteq planTurns \cup {s}
  BY DEF ReplyIsLost
<1> HIDE DEF s
<1>3. /\ page' = [page EXCEPT !.busy = FALSE]
      /\ planLapses' = planLapses \cup {"missed"} \cup (IF r.visit THEN {} ELSE {"late"})
      /\ UNCHANGED <<creations, planDir, accepts, sentTurns, sentAccepts, opens, born, worked>>
  BY DEF ReplyIsLost
<1>4. /\ page' \in [tid : Plans \cup {"none"}, busy : BOOLEAN, shown : ProposalShapes]
      /\ page'.tid = page.tid /\ page'.shown = page.shown
  BY <1>3, PlanFacts
<1>5. PlanTypes'
  BY <1>1, <1>2, <1>3, <1>4 DEF PlanInv, PlanTypes
<1>6. PlansApart'
  BY <1>1, <1>2, <1>3, <1>4 DEF PlanInv, PlansApart
<1>7. ASSUME "late" \notin planLapses' PROVE VisitFits'
  <2>1. VisitFits /\ r.visit
    BY <1>0, <1>3, <1>7 DEF PlanInv, TurnShapes
  <2>2. page.tid # "none" /\ \A c \in creations : ~ c.visit
    BY <2>1, PlanFacts, NamesApart DEF VisitFits
  <2> QED BY <1>1, <1>2, <1>3, <1>4, <2>1, <2>2 DEF VisitFits
<1>8. QueuesFit => QueuesFit'
  BY <1>3 DEF QueuesFit
<1> QED BY <1>3, <1>5, <1>6, <1>7, <1>8 DEF PlanInv

\* The candidate confirms.
LEMMA ConfirmsKeeps == ASSUME PlanInv, Confirms PROVE PlanInv'
<1> DEFINE still == ~ \E r \in planTurns : r.of = page.tid
           a0 == [n |-> sentAccepts + 1, of |-> page.tid, shown |-> page.shown, stage |-> "sent",
                  read |-> NoProposal, topics |-> NoProposal, quiet |-> still]
<1>0. page.tid # "none" /\ page.tid \in Plans /\ page.tid \in born
  BY PlanFacts DEF Confirms
<1>1. /\ a0 \in AcceptShapes /\ a0.of = page.tid /\ a0.shown = page.shown /\ a0.stage = "sent"
      /\ a0.quiet => \A r \in planTurns : r.of # page.tid
  <2>1. PICK q \in BOOLEAN : q = still
    OBVIOUS
  <2>2. a0 = [n |-> sentAccepts + 1, of |-> page.tid, shown |-> page.shown, stage |-> "sent",
              read |-> NoProposal, topics |-> NoProposal, quiet |-> q]
    BY <2>1
  <2>3. q => \A r \in planTurns : r.of # page.tid
    BY <2>1
  <2> HIDE DEF a0, still
  <2>4. a0 \in AcceptShapes
    BY <1>0, <2>2, PlanFacts, NamesApart DEF AcceptShapes
  <2> QED BY <2>2, <2>3, <2>4
<1>2. /\ accepts' = accepts \cup {a0}
      /\ planLapses' = planLapses \cup (IF \E a \in accepts : a.of = page.tid THEN {"twice"} ELSE {})
      /\ sentAccepts' = sentAccepts + 1
      /\ UNCHANGED <<creations, planDir, page, planTurns, sentTurns, opens, born, worked>>
  BY DEF Confirms
<1> HIDE DEF a0, still
<1>3. PlanTypes'
  <2>1. planLapses' \subseteq {"late", "missed", "twice"}
    BY <1>2 DEF PlanInv, PlanTypes
  <2>2. sentAccepts' \in Nat
    BY <1>2, PlanFacts
  <2> QED BY <1>1, <1>2, <2>1, <2>2 DEF PlanInv, PlanTypes
<1>4. PlansApart'
  BY <1>0, <1>1, <1>2 DEF PlanInv, PlansApart
<1>5. VisitFits => VisitFits'
  BY <1>1, <1>2 DEF VisitFits
<1>6. PageInStep => PageInStep'
  BY <1>2 DEF PageInStep
<1>7. PageInStep /\ AcceptsInStep => AcceptsInStep'
  <2> SUFFICES ASSUME PageInStep, AcceptsInStep PROVE AcceptsInStep'
    OBVIOUS
  <2>1. a0.quiet => /\ \A r \in planTurns : r.of = a0.of => r.stage # "thinking"
                    /\ InStep(a0.shown, planDir[a0.of])
    BY <1>0, <1>1 DEF PageInStep
  <2> QED BY <1>1, <1>2, <2>1 DEF AcceptsInStep
<1>8. ASSUME "twice" \notin planLapses' PROVE QueuesFit'
  <2>1. QueuesFit /\ \A a \in accepts : a.of # page.tid
    BY <1>2, <1>8 DEF PlanInv
  <2> QED BY <1>1, <1>2, <2>1 DEF QueuesFit
<1>9. /\ "late" \notin planLapses' => "late" \notin planLapses
      /\ planLapses' \intersect {"late", "missed"} = {} => planLapses \intersect {"late", "missed"} = {}
  BY <1>2
<1> QED BY <1>3, <1>4, <1>5, <1>6, <1>7, <1>8, <1>9 DEF PlanInv

\* One accept goes on.
LEMMA AcceptGoesOn ==
  ASSUME accepts \in SUBSET AcceptShapes, NEW a \in accepts, NEW b \in AcceptShapes, b.of = a.of,
         accepts' = (accepts \ {a}) \cup {b}
  PROVE  /\ accepts' \in SUBSET AcceptShapes
         /\ \A c \in accepts' : c = b \/ c \in accepts \ {a}
         /\ (\A c, d \in accepts : c.of = d.of => c = d) =>
              /\ \A c, d \in accepts' : c.of = d.of => c = d
              /\ \A c \in accepts' : c.of = a.of => c = b
OBVIOUS

\* An accept arrives.
LEMMA ArrivingKeeps == ASSUME PlanInv, NEW a \in accepts, AcceptArrives(a) PROVE PlanInv'
<1> DEFINE b == [a EXCEPT !.stage = "saved", !.topics = planDir[a.of].topics]
           d == [planDir[a.of] EXCEPT !.rounds = a.shown]
<1>0. /\ a \in AcceptShapes /\ a.of \in Plans /\ a.of \in born /\ planDir[a.of] \in DirShapes
      /\ planDir[a.of].topics \in ProposalShapes /\ planDir \in [Plans -> DirShapes]
      /\ a.shown \in ProposalShapes
  BY PlanFacts DEF DirShapes, PlanInv, PlanTypes
<1>1. a.stage = "sent" /\ UNCHANGED <<creations, page, planTurns, sentTurns, sentAccepts, opens, born, worked, planLapses>>
  BY DEF AcceptArrives
<1>2. CASE ~ planDir[a.of].exists
  <2>1. accepts' \subseteq accepts /\ planDir' = planDir
    BY <1>2 DEF AcceptArrives
  <2>2. PlanTypes' /\ PlansApart'
    BY <1>1, <2>1 DEF PlanInv, PlanTypes, PlansApart
  <2>3. /\ VisitFits => VisitFits'
        /\ PageInStep => PageInStep'
        /\ AcceptsInStep => AcceptsInStep'
        /\ QueuesFit => QueuesFit'
    BY <1>1, <2>1 DEF VisitFits, PageInStep, AcceptsInStep, QueuesFit
  <2> QED BY <1>1, <2>2, <2>3 DEF PlanInv
<1>3. CASE planDir[a.of].exists
  <2>1. planDir' = [planDir EXCEPT ![a.of] = d] /\ accepts' = (accepts \ {a}) \cup {b}
    BY <1>3 DEF AcceptArrives, To
  <2>2. /\ b \in AcceptShapes /\ b.of = a.of /\ b.stage = "saved" /\ b.shown = a.shown
        /\ b.read = a.read /\ b.quiet = a.quiet
    <3> DEFINE x == planDir[a.of].topics
    <3>1. b = [a EXCEPT !.stage = "saved", !.topics = x] /\ x \in ProposalShapes
      BY <1>0
    <3> HIDE DEF x
    <3> QED BY <1>0, <3>1 DEF AcceptShapes
  <2>3. /\ d \in DirShapes /\ d.exists = planDir[a.of].exists /\ d.rounds = a.shown
        /\ d.conversation = planDir[a.of].conversation /\ d.laid = planDir[a.of].laid
        /\ d.built = planDir[a.of].built
    BY <1>0 DEF DirShapes
  <2> HIDE DEF b, d
  <2>4. /\ planDir' \in [Plans -> DirShapes] /\ planDir'[a.of] = d
        /\ \A q \in Plans : q # a.of => planDir'[q] = planDir[q]
    BY ONLY <1>0, <2>1, <2>3, OneDirChanges
  <2>5. /\ accepts' \in SUBSET AcceptShapes
        /\ \A c \in accepts' : c = b \/ c \in accepts \ {a}
        /\ (\A c, e \in accepts : c.of = e.of => c = e) =>
             /\ \A c, e \in accepts' : c.of = e.of => c = e
             /\ \A c \in accepts' : c.of = a.of => c = b
    BY <2>1, <2>2, PlanFacts, AcceptGoesOn
  <2>6. \A x : \A q \in Plans : InStep(x, planDir'[q]) <=> InStep(x, planDir[q])
    BY <2>3, <2>4 DEF InStep, IsGone
  <2>7. \A q \in Plans : IsGone(planDir'[q]) <=> IsGone(planDir[q])
    BY <2>3, <2>4 DEF IsGone
  <2>8. PlanTypes'
    BY <1>1, <2>4, <2>5 DEF PlanInv, PlanTypes
  <2>9. PlansApart'
    <3>1. \A q \in Plans : planDir'[q].conversation = planDir[q].conversation
      BY <2>3, <2>4
    <3>2. \A q \in Plans \ born : planDir'[q] = NoDir
      BY <1>0, <2>4 DEF PlanInv, PlansApart
    <3>3. \A c \in accepts' : c.of \in born
      BY <1>0, <2>2, <2>5, PlanFacts
    <3> QED BY <1>1, <3>1, <3>2, <3>3 DEF PlanInv, PlansApart
  <2>10. VisitFits => VisitFits'
    <3> SUFFICES ASSUME VisitFits PROVE VisitFits'
      OBVIOUS
    <3>1. \A c \in accepts' : OfPlan(c.shown, c.of)
      BY <2>2, <2>5 DEF VisitFits
    <3>2. \A q \in Plans : OfPlan(planDir'[q].rounds, q)
      BY <2>3, <2>4 DEF VisitFits
    <3>3. \A c \in creations : planDir'[c.of].conversation = planDir[c.of].conversation
      BY <2>3, <2>4, PlanFacts
    <3> QED BY <1>1, <3>1, <3>2, <3>3 DEF VisitFits
  <2>11. PageInStep => PageInStep'
    BY <1>1, <2>6, PlanFacts DEF PageInStep
  <2>12. AcceptsInStep => AcceptsInStep'
    BY <1>0, <1>1, <2>2, <2>5, <2>6, <2>7, PlanFacts DEF AcceptsInStep
  <2>13. QueuesFit => QueuesFit'
    BY <1>0, <1>1, <2>2, <2>3, <2>4, <2>5, PlanFacts DEF QueuesFit
  <2> QED BY <1>1, <2>8, <2>9, <2>10, <2>11, <2>12, <2>13 DEF PlanInv
<1> QED BY <1>2, <1>3

\* An accept reads what is stored.
LEMMA ReadingKeeps == ASSUME PlanInv, NEW a \in accepts, AcceptReads(a) PROVE PlanInv'
<1> DEFINE x == LatestProposal(planDir[a.of].conversation)
           g == IF LaysQueue(a) THEN "naming" ELSE "done"
           b == [a EXCEPT !.read = x, !.stage = g]
           d == [planDir[a.of] EXCEPT !.exists = TRUE, !.topics = x, !.rounds = a.shown]
<1>0. /\ a \in AcceptShapes /\ a.of \in Plans /\ a.of \in born /\ planDir[a.of] \in DirShapes
      /\ planDir \in [Plans -> DirShapes] /\ a.shown \in ProposalShapes
  BY PlanFacts DEF PlanInv, PlanTypes
<1>1. x \in ProposalShapes
  <2>1. planDir[a.of].conversation \in Seq(ProposalShapes)
    BY <1>0, PlanFacts
  <2>2. x = NoProposal \/ \E i \in DOMAIN planDir[a.of].conversation : x = planDir[a.of].conversation[i]
    BY <2>1, LatestIsStored
  <2> HIDE DEF x
  <2> QED BY <2>1, <2>2, NamesApart
<1>2. /\ a.stage = "saved"
      /\ UNCHANGED <<creations, page, planTurns, sentTurns, sentAccepts, opens, born, worked, planLapses>>
      /\ accepts' = (accepts \ {a}) \cup {b}
  BY DEF AcceptReads, To
<1>3. planDir' = planDir \/ (x # NoProposal /\ planDir' = [planDir EXCEPT ![a.of] = d])
  BY DEF AcceptReads
<1>4. g \in {"naming", "done"} /\ (g = "naming" => planDir[a.of].laid = 0)
  BY DEF LaysQueue
<1>5. x = LatestProposal(planDir[a.of].conversation)
  OBVIOUS
<1> HIDE DEF x, g
<1>6. /\ b \in AcceptShapes /\ b.of = a.of /\ b.stage = g /\ b.shown = a.shown
      /\ b.read = x /\ b.quiet = a.quiet
  BY <1>0, <1>1, <1>4 DEF AcceptShapes
<1>7. /\ d \in DirShapes /\ d.exists /\ d.rounds = a.shown
      /\ d.conversation = planDir[a.of].conversation /\ d.laid = planDir[a.of].laid
      /\ d.built = planDir[a.of].built
  BY <1>0, <1>1 DEF DirShapes
<1> HIDE DEF b, d
<1>8. /\ planDir' \in [Plans -> DirShapes]
      /\ \A q \in Plans : q # a.of => planDir'[q] = planDir[q]
      /\ planDir'[a.of] = planDir[a.of] \/ (x # NoProposal /\ planDir'[a.of] = d)
  <2>1. CASE planDir' = planDir
    BY <1>0, <2>1
  <2>2. CASE x # NoProposal /\ planDir' = [planDir EXCEPT ![a.of] = d]
    <3>1. planDir' = [planDir EXCEPT ![a.of] = d]
      BY <2>2
    <3>2. /\ planDir' \in [Plans -> DirShapes] /\ planDir'[a.of] = d
          /\ \A q \in Plans : q # a.of => planDir'[q] = planDir[q]
      BY ONLY <1>0, <1>7, <3>1, OneDirChanges
    <3> QED BY <2>2, <3>2
  <2> QED BY <1>3, <2>1, <2>2
<1>9. /\ accepts' \in SUBSET AcceptShapes
      /\ \A c \in accepts' : c = b \/ c \in accepts \ {a}
      /\ (\A c, e \in accepts : c.of = e.of => c = e) =>
           /\ \A c, e \in accepts' : c.of = e.of => c = e
           /\ \A c \in accepts' : c.of = a.of => c = b
  BY <1>2, <1>6, PlanFacts, AcceptGoesOn
<1>10. \A q \in Plans : /\ planDir'[q].conversation = planDir[q].conversation
                        /\ planDir'[q].laid = planDir[q].laid /\ planDir'[q].built = planDir[q].built
                        /\ IsGone(planDir'[q]) <=> IsGone(planDir[q])
  BY <1>5, <1>7, <1>8 DEF IsGone
<1>11. \A y : \A q \in Plans : InStep(y, planDir'[q]) <=> InStep(y, planDir[q])
  BY <1>10 DEF InStep
<1>12. PlanTypes'
  BY <1>2, <1>8, <1>9 DEF PlanInv, PlanTypes
<1>13. PlansApart'
  <2>1. \A q \in Plans \ born : planDir'[q] = NoDir
    BY <1>0, <1>8 DEF PlanInv, PlansApart
  <2>2. \A c \in accepts' : c.of \in born
    BY <1>0, <1>6, <1>9, PlanFacts
  <2> QED BY <1>2, <1>10, <2>1, <2>2 DEF PlanInv, PlansApart
<1>14. VisitFits => VisitFits'
  <2> SUFFICES ASSUME VisitFits PROVE VisitFits'
    OBVIOUS
  <2>1. \A c \in accepts' : OfPlan(c.shown, c.of)
    BY <1>6, <1>9 DEF VisitFits
  <2>2. \A q \in Plans : OfPlan(planDir'[q].rounds, q)
    BY <1>7, <1>8 DEF VisitFits
  <2>3. \A c \in creations : planDir'[c.of].conversation = planDir[c.of].conversation
    BY <1>10, PlanFacts
  <2> QED BY <1>2, <2>1, <2>2, <2>3 DEF VisitFits
<1>15. PageInStep => PageInStep'
  BY <1>2, <1>11, PlanFacts DEF PageInStep
<1>16. AcceptsInStep => AcceptsInStep'
  <2> SUFFICES ASSUME AcceptsInStep PROVE AcceptsInStep'
    OBVIOUS
  <2>1. b.quiet => /\ \A r \in planTurns : r.of = b.of => r.stage # "thinking"
                   /\ b.read = b.shown \/ IsGone(planDir'[b.of])
    <3> SUFFICES ASSUME a.quiet
                 PROVE  /\ \A r \in planTurns : r.of = a.of => r.stage # "thinking"
                        /\ x = a.shown \/ IsGone(planDir'[a.of])
      BY <1>6
    <3>1. /\ \A r \in planTurns : r.of = a.of => r.stage # "thinking"
          /\ InStep(a.shown, planDir[a.of])
      BY <1>2 DEF AcceptsInStep
    <3>2. x = a.shown \/ IsGone(planDir[a.of])
      BY <1>5, <3>1 DEF InStep
    <3> QED BY <1>0, <1>10, <3>1, <3>2
  <2> QED BY <1>2, <1>4, <1>6, <1>9, <1>10, <1>11, <2>1, PlanFacts DEF AcceptsInStep
<1>17. QueuesFit => QueuesFit'
  BY <1>0, <1>2, <1>4, <1>6, <1>9, <1>10, PlanFacts DEF QueuesFit
<1> QED BY <1>2, <1>12, <1>13, <1>14, <1>15, <1>16, <1>17 DEF PlanInv

\* An accept lays its queue.
LEMMA LayingKeeps == ASSUME PlanInv, NEW a \in accepts, AcceptLays(a) PROVE PlanInv'
<1> DEFINE b == [a EXCEPT !.stage = "done"]
           d == [planDir[a.of] EXCEPT !.laid = a.n, !.built = FALSE]
<1>0. /\ a \in AcceptShapes /\ a.of \in Plans /\ a.of \in born /\ planDir[a.of] \in DirShapes
      /\ planDir \in [Plans -> DirShapes] /\ a.n \in Nat
  BY PlanFacts DEF PlanInv, PlanTypes, AcceptShapes
<1>1. /\ a.stage = "naming"
      /\ UNCHANGED <<creations, page, planTurns, sentTurns, sentAccepts, opens, born, worked, planLapses>>
      /\ accepts' = (accepts \ {a}) \cup {b} /\ planDir' = [planDir EXCEPT ![a.of] = d]
  BY DEF AcceptLays, To
<1>2. /\ b \in AcceptShapes /\ b.of = a.of /\ b.stage = "done" /\ b.shown = a.shown
      /\ b.read = a.read /\ b.quiet = a.quiet
  BY <1>0 DEF AcceptShapes
<1>3. /\ d \in DirShapes /\ d.exists = planDir[a.of].exists /\ d.rounds = planDir[a.of].rounds
      /\ d.conversation = planDir[a.of].conversation
  BY <1>0 DEF DirShapes
<1> HIDE DEF b, d
<1>4. /\ planDir' \in [Plans -> DirShapes] /\ planDir'[a.of] = d
      /\ \A q \in Plans : q # a.of => planDir'[q] = planDir[q]
  <2>1. planDir' = [planDir EXCEPT ![a.of] = d]
    BY <1>1
  <2> QED BY ONLY <1>0, <1>3, <2>1, OneDirChanges
<1>5. /\ accepts' \in SUBSET AcceptShapes
      /\ \A c \in accepts' : c = b \/ c \in accepts \ {a}
      /\ (\A c, e \in accepts : c.of = e.of => c = e) =>
           /\ \A c, e \in accepts' : c.of = e.of => c = e
           /\ \A c \in accepts' : c.of = a.of => c = b
  BY <1>1, <1>2, PlanFacts, AcceptGoesOn
<1>6. \A q \in Plans : /\ planDir'[q].conversation = planDir[q].conversation
                       /\ planDir'[q].rounds = planDir[q].rounds
                       /\ IsGone(planDir'[q]) <=> IsGone(planDir[q])
  BY <1>3, <1>4 DEF IsGone
<1>7. \A y : \A q \in Plans : InStep(y, planDir'[q]) <=> InStep(y, planDir[q])
  BY <1>6 DEF InStep
<1>8. PlanTypes'
  BY <1>1, <1>4, <1>5 DEF PlanInv, PlanTypes
<1>9. PlansApart'
  <2>1. \A q \in Plans \ born : planDir'[q] = NoDir
    BY <1>0, <1>4 DEF PlanInv, PlansApart
  <2>2. \A c \in accepts' : c.of \in born
    BY <1>0, <1>2, <1>5, PlanFacts
  <2> QED BY <1>1, <1>6, <2>1, <2>2 DEF PlanInv, PlansApart
<1>10. VisitFits => VisitFits'
  <2>1. \A c \in creations : planDir'[c.of].conversation = planDir[c.of].conversation
    BY <1>6, PlanFacts
  <2> QED BY <1>1, <1>2, <1>5, <1>6, <2>1 DEF VisitFits
<1>11. PageInStep => PageInStep'
  BY <1>1, <1>7, PlanFacts DEF PageInStep
<1>12. AcceptsInStep => AcceptsInStep'
  BY <1>0, <1>1, <1>2, <1>5, <1>6, <1>7, PlanFacts DEF AcceptsInStep
<1>13. QueuesFit => QueuesFit'
  <2> SUFFICES ASSUME QueuesFit PROVE QueuesFit'
    OBVIOUS
  <2>1. a.of \notin worked
    BY <1>1 DEF QueuesFit
  <2> QED BY <1>0, <1>1, <1>2, <1>4, <1>5, <2>1, PlanFacts DEF QueuesFit
<1> QED BY <1>1, <1>8, <1>9, <1>10, <1>11, <1>12, <1>13 DEF PlanInv

\* A round of a plan is built.
LEMMA BuildsKeeps == ASSUME PlanInv, NEW p \in Plans, BuildsRound(p) PROVE PlanInv'
<1> DEFINE d == [planDir[p] EXCEPT !.built = TRUE]
<1>0. planDir[p] \in DirShapes /\ planDir \in [Plans -> DirShapes]
  BY PlanFacts DEF PlanInv, PlanTypes
<1>1. /\ planDir[p].exists /\ planDir[p].laid # 0 /\ worked' = worked \cup {p}
      /\ UNCHANGED <<creations, page, planTurns, accepts, sentTurns, sentAccepts, opens, born, planLapses>>
      /\ planDir' = [planDir EXCEPT ![p] = d]
  BY DEF BuildsRound
<1>2. /\ d \in DirShapes /\ d.exists = planDir[p].exists /\ d.rounds = planDir[p].rounds
      /\ d.conversation = planDir[p].conversation /\ d.built = TRUE /\ d.laid = planDir[p].laid
  BY <1>0 DEF DirShapes
<1> HIDE DEF d
<1>3. /\ planDir' \in [Plans -> DirShapes] /\ planDir'[p] = d
      /\ \A q \in Plans : q # p => planDir'[q] = planDir[q]
  <2>1. planDir' = [planDir EXCEPT ![p] = d]
    BY <1>1
  <2> QED BY ONLY <1>0, <1>2, <2>1, OneDirChanges
<1>4. \A q \in Plans : /\ planDir'[q].conversation = planDir[q].conversation
                       /\ planDir'[q].rounds = planDir[q].rounds
                       /\ planDir'[q].laid = planDir[q].laid
                       /\ IsGone(planDir'[q]) <=> IsGone(planDir[q])
  BY <1>2, <1>3 DEF IsGone
<1>5. \A y : \A q \in Plans : InStep(y, planDir'[q]) <=> InStep(y, planDir[q])
  BY <1>4 DEF InStep
<1>6. p \in born
  BY <1>1 DEF PlanInv, PlansApart, NoDir
<1>7. PlanTypes'
  BY <1>1, <1>3, <1>6 DEF PlanInv, PlanTypes
<1>8. PlansApart'
  <2>1. \A q \in Plans \ born : planDir'[q] = NoDir
    BY <1>3, <1>6 DEF PlanInv, PlansApart
  <2> QED BY <1>1, <1>4, <2>1 DEF PlanInv, PlansApart
<1>9. VisitFits => VisitFits'
  <2>1. \A c \in creations : planDir'[c.of].conversation = planDir[c.of].conversation
    BY <1>4, PlanFacts
  <2> QED BY <1>1, <1>4, <2>1 DEF VisitFits
<1>10. PageInStep => PageInStep'
  BY <1>1, <1>5, PlanFacts DEF PageInStep
<1>11. AcceptsInStep => AcceptsInStep'
  BY <1>1, <1>4, <1>5, PlanFacts DEF AcceptsInStep
<1>12. QueuesFit => QueuesFit'
  <2> SUFFICES ASSUME QueuesFit PROVE QueuesFit'
    OBVIOUS
  <2>1. \A q \in worked' : planDir'[q].laid # 0 /\ planDir'[q].built
    BY <1>1, <1>2, <1>3, PlanFacts DEF QueuesFit
  <2> QED BY <1>1, <1>4, <2>1, PlanFacts DEF QueuesFit
<1> QED BY <1>1, <1>7, <1>8, <1>9, <1>10, <1>11, <1>12 DEF PlanInv

\* A plan is deleted.
LEMMA DeletesKeeps == ASSUME PlanInv, NEW p \in Plans, DeletesPlan(p) PROVE PlanInv'
<1>0. planDir \in [Plans -> DirShapes] /\ NoDir \in DirShapes
  BY NamesApart DEF PlanInv, PlanTypes
<1>1. /\ worked' = worked \ {p} /\ planDir' = [planDir EXCEPT ![p] = NoDir]
      /\ UNCHANGED <<creations, page, planTurns, accepts, sentTurns, sentAccepts, opens, born, planLapses>>
  BY DEF DeletesPlan
<1>2. /\ NoDir.rounds.of = "none" /\ NoDir.conversation = <<>> /\ NoDir.laid = 0 /\ IsGone(NoDir)
  BY NothingIsLatest DEF NoDir, NoProposal, IsGone
<1>3. /\ planDir' \in [Plans -> DirShapes] /\ planDir'[p] = NoDir
      /\ \A q \in Plans : q # p => planDir'[q] = planDir[q]
  <2>1. planDir' = [planDir EXCEPT ![p] = NoDir]
    BY <1>1
  <2> QED BY ONLY <1>0, <2>1, OneDirChanges
<1>4. \A y : \A q \in Plans : InStep(y, planDir[q]) => InStep(y, planDir'[q])
  BY <1>2, <1>3 DEF InStep
<1>5. \A q \in Plans : IsGone(planDir[q]) => IsGone(planDir'[q])
  BY <1>2, <1>3
<1>6. PlanTypes'
  BY <1>1, <1>3 DEF PlanInv, PlanTypes
<1>7. PlansApart'
  <2>1. \A q \in Plans \ born : planDir'[q] = NoDir
    BY <1>3 DEF PlanInv, PlansApart
  <2>2. \A q \in Plans : \A i \in DOMAIN planDir'[q].conversation : OfPlan(planDir'[q].conversation[i], q)
    BY <1>2, <1>3 DEF PlanInv, PlansApart
  <2> QED BY <1>1, <2>1, <2>2 DEF PlanInv, PlansApart
<1>8. VisitFits => VisitFits'
  <2>1. VisitFits => \A q \in Plans : OfPlan(planDir'[q].rounds, q)
    BY <1>2, <1>3 DEF VisitFits, OfPlan
  <2>2. VisitFits => \A c \in creations : c.visit => planDir'[c.of].conversation = <<>>
    BY <1>2, <1>3, PlanFacts DEF VisitFits
  <2> QED BY <1>1, <2>1, <2>2 DEF VisitFits
<1>9. PageInStep => PageInStep'
  BY <1>1, <1>4, PlanFacts DEF PageInStep
<1>10. AcceptsInStep => AcceptsInStep'
  BY <1>1, <1>4, <1>5, PlanFacts DEF AcceptsInStep
<1>11. QueuesFit => QueuesFit'
  BY <1>1, <1>2, <1>3, PlanFacts DEF QueuesFit
<1> QED BY <1>1, <1>6, <1>7, <1>8, <1>9, <1>10, <1>11 DEF PlanInv

\* The plan desk before the first turn.
LEMMA PlanStarts == PlanDeskInit => PlanInv
<1> SUFFICES ASSUME PlanDeskInit PROVE PlanInv
  OBVIOUS
<1> USE DEF PlanDeskInit
<1>1. /\ NoPage \in [tid : Plans \cup {"none"}, busy : BOOLEAN, shown : ProposalShapes]
      /\ NoPage.tid = "none" /\ NoPage.shown.of = "none" /\ NoPage.shown = NoProposal
  BY NamesApart DEF NoPage, NoProposal
<1>2. NoDir \in DirShapes /\ NoDir.conversation = <<>> /\ NoDir.rounds.of = "none"
  BY NamesApart DEF NoDir, NoProposal
<1>3. PlanTypes
  BY <1>1, <1>2 DEF PlanTypes
<1>4. PlansApart
  BY <1>1, <1>2 DEF PlansApart
<1>5. VisitFits
  BY <1>1, <1>2 DEF VisitFits, OfPlan
<1>6. PageInStep /\ AcceptsInStep /\ QueuesFit
  BY <1>1 DEF PageInStep, AcceptsInStep, QueuesFit
<1> QED BY <1>3, <1>4, <1>5, <1>6 DEF PlanInv

\* The invariant of the plan's page is kept by every step of it.
LEMMA PlanStep == PlanInv /\ [PlanDeskNext]_planVars => PlanInv'
<1> SUFFICES ASSUME PlanInv, [PlanDeskNext]_planVars PROVE PlanInv'
  OBVIOUS
<1>1. CASE UNCHANGED planVars
  BY <1>1 DEF planVars, PlanInv, PlanTypes, PlansApart, VisitFits, PageInStep, AcceptsInStep, QueuesFit
<1>2. CASE \E p \in Plans : AsksForPlan(p) \/ OpensPlan(p) \/ BuildsRound(p) \/ DeletesPlan(p)
  BY <1>2, AsksKeeps, OpensKeeps, BuildsKeeps, DeletesKeeps
<1>8. CASE \E c \in creations :
             \/ PlanIsMade(c) \/ PlanIsRefused(c) \/ CreationIsLost(c)
             \/ CreationLands(c) \/ RefusalLands(c) \/ CardLetsThrough(c) \/ CardIsDismissed(c)
  BY <1>8, MadeKeeps, HearsKeeps, CreationLandsKeeps
<1>3. CASE Says \/ Confirms
  BY <1>3, SaysKeeps, ConfirmsKeeps
<1>4. CASE LeavesPlan
  BY <1>4, LeavingKeeps DEF LeavesPlan
<1>5. CASE \E r \in planTurns : \/ \E proposes \in BOOLEAN : TurnLands(r, proposes)
                                \/ TurnFails(r) \/ ReplyLands(r) \/ ReplyIsLost(r)
  BY <1>5, TurnEndsKeeps, ReplyLandsKeeps, ReplyIsLostKeeps
<1>6. CASE \E a \in accepts : AcceptArrives(a) \/ AcceptReads(a) \/ AcceptLays(a)
  BY <1>6, ArrivingKeeps, ReadingKeeps, LayingKeeps
<1>7. CASE \E a \in accepts : AcceptIsAnswered(a)
  <2>1. PICK a \in accepts : AcceptIsAnswered(a)
    BY <1>7
  <2>2. accepts' \subseteq accepts
    BY <2>1 DEF AcceptIsAnswered
  <2> QED BY <2>1, <2>2, LeavingKeeps DEF AcceptIsAnswered
<1> QED BY <1>1, <1>2, <1>3, <1>4, <1>5, <1>6, <1>7, <1>8 DEF PlanDeskNext

\* The invariant holds what the property says of accepts.
LEMMA PlanKeeps == PlanInv => AcceptsAreSound
<1> SUFFICES ASSUME PlanInv PROVE AcceptsAreSound
  OBVIOUS
<1>1. RoundsAreThePlansOwn
  BY DEF PlanInv, VisitFits, OfPlan, RoundsAreThePlansOwn
<1>2. AcceptedAsShown
  BY DEF PlanInv, AcceptsInStep, IsGone, AcceptedAsShown
<1>3. BuiltRoundsStay
  BY DEF PlanInv, QueuesFit, BuiltRoundsStay
<1> QED BY <1>1, <1>2, <1>3 DEF AcceptsAreSound

---------------------------------------------------------------------------
(* All pages.                                                              *)

pageVars ==
  <<on, voiceVars, panesVars, roundPageVars, deskVars, planVars, initiativeVars, doorwayVars,
    cardVars, speakingVars>>

\* A step is one of each page, or leaves the page alone.
LEMMA PagesStep ==
  [Next]_pageVars =>
    /\ [DoorwayNext]_doorwayVars
    /\ [PaywallCardNext]_cardVars
    /\ [PanesNext]_panesVars
    /\ [PracticeDeskNext]_deskVars
    /\ [PlanDeskNext]_planVars
    /\ [VoiceNext]_voiceVars
    /\ [RoundPageNext]_roundPageVars
    /\ [InitiativeNext]_initiativeVars
    /\ [SpeakingNext]_speakingVars
<1> SUFFICES ASSUME [Next]_pageVars
             PROVE  /\ DoorwayNext \/ UNCHANGED doorwayVars
                    /\ PaywallCardNext \/ UNCHANGED cardVars
                    /\ PanesNext \/ UNCHANGED panesVars
                    /\ PracticeDeskNext \/ UNCHANGED deskVars
                    /\ PlanDeskNext \/ UNCHANGED planVars
                    /\ VoiceNext \/ UNCHANGED voiceVars
                    /\ RoundPageNext \/ UNCHANGED roundPageVars
                    /\ InitiativeNext \/ UNCHANGED initiativeVars
                    /\ SpeakingNext \/ UNCHANGED speakingVars
  OBVIOUS
<1>1. CASE UNCHANGED pageVars
  BY <1>1 DEF pageVars
<1>2. CASE Next
  BY <1>2, Zenon DEF Next, Others
<1> QED BY <1>1, <1>2

\* The doors lead where the customer was promised, whatever rounds come, end and
\* die, and whatever links are followed in whichever tabs. With authentication on, a
\* tab shows only rounds of its own customer whose links were opened, and a page's
\* call reaches an opened round, another than its own only if the link to that one
\* was the latest followed (the cookie names it).  As long as no answer of the card
\* was overtaken, lost or escaped from, a wish that it let through, or that was paid
\* for, is not turned away, and what was paid for is resumed once.
THEOREM DoorsLead == Spec => []DoorsHold
<1>1. Init => DoorInv /\ CardInv
  BY DoorStarts, CardStarts DEF Init
<1>2. DoorInv /\ CardInv /\ [Next]_pageVars => (DoorInv /\ CardInv)'
  BY PagesStep, DoorStep, CardStep
<1>3. DoorInv /\ CardInv => DoorsHold
  BY CardKeeps DEF DoorInv, DoorsLeadHome, DoorsHold
<1> QED BY <1>1, <1>2, <1>3, PTL DEF Spec, pageVars

\* What was in the editor when Submit was pressed is on disk when it is graded,
\* unless two saves overlapped, and known to the judge, unless an edit event went
\* out that no flush awaits: when no request failed, for any number of changes,
\* timers and requests under way.
THEOREM SubmitIsGraded == Spec => []SubmittedIsGraded
<1>1. Init => EditorInv
  BY EditorStarts DEF Init
<1>2. EditorInv /\ [Next]_pageVars => EditorInv'
  BY PagesStep, EditorStep
<1> QED BY <1>1, <1>2, EditorKeeps, PTL DEF Spec, pageVars

\* What a desk sends is what the customer last saw on it: no stale draft ships,
\* for any number of gaps and answers; and what an accept saves is of its plan, is
\* what the page showed, and is laid once, for any plans, turns and accepts, as long
\* as no two accepts of a plan overlapped, no reply was lost, and none came for a
\* plan that the page had left.
THEOREM DesksAreHonest == Spec => []DesksSendWhatTheyShow
<1>1. Init => DeskInv /\ PlanInv
  BY DeskStarts, PlanStarts DEF Init
<1>2. DeskInv /\ PlanInv /\ [Next]_pageVars => (DeskInv /\ PlanInv)'
  BY PagesStep, DeskStep, PlanStep
<1>3. DeskInv /\ PlanInv => DesksSendWhatTheyShow
  BY PlanKeeps DEF DeskInv, DesksSendWhatTheyShow
<1> QED BY <1>1, <1>2, <1>3, PTL DEF Spec, pageVars

\* What the candidate says is recorded once and in order, and under its own time
\* unless sound was carried from one segment to the next; and what the interviewer
\* says is on the page once and in its place, and is held back or cut off only where
\* the code means to: for any number of segments, turns and faults, any budget and
\* any buffer.
THEOREM NothingLost == Spec => []NothingSaidIsLost
<1>1. Init => VoiceInv /\ PageInv
  BY VoiceStarts, PageStarts DEF Init
<1>2. VoiceInv /\ PageInv /\ [Next]_pageVars => (VoiceInv /\ PageInv)'
  BY PagesStep, VoiceStep, PageStep
<1>3. VoiceInv /\ PageInv => NothingSaidIsLost
  BY VoiceKeeps, PageKeeps DEF NothingSaidIsLost
<1> QED BY <1>1, <1>2, <1>3, PTL DEF Spec, pageVars

\* The interviewer is fair: whatever the candidate does, for however long, a hint
\* is true of the trace and never meets a green suite unanswered; and whatever is
\* said, nothing is given away, nobody is interrogated, and an answer of one long
\* segment that is routed before anybody says more is heard as one.
THEOREM InterviewerFair == Spec => []InterviewerIsFair
<1>1. Init => InitiativeInv /\ SpeechInv
  BY InitiativeStarts, ConversationStarts DEF Init
<1>2. InitiativeInv /\ SpeechInv /\ [Next]_pageVars => (InitiativeInv /\ SpeechInv)'
  BY PagesStep, InitiativeStep, SpeechStep
<1>3. InitiativeInv /\ SpeechInv => InterviewerIsFair
  BY DEF InitiativeInv, SpeechInv, InterviewerIsFair, HelpIsTrue, SpeechHolds
<1> QED BY <1>1, <1>2, <1>3, PTL DEF Spec, pageVars

---------------------------------------------------------------------------
(* What the variables hold.                                                *)

\* A door's setting, and where the latest call of a page was proxied.
DoorHeld ==
  /\ authEnabled \in BOOLEAN
  /\ call \in [from : Sids \cup {NoSid}, to : Sids \cup {NoSid}, latest : Sids \cup {NoSid}]

\* At the doors.
LEMMA DoorHolds == DoorInv /\ DoorHeld => DoorwayTypeOK
BY DEF DoorInv, DoorTypes, DoorHeld, DoorwayTypeOK, Entries

\* Nobody has called yet.
LEMMA DoorHeldStarts == DoorwayInit => DoorHeld
<1> SUFFICES ASSUME DoorwayInit PROVE DoorHeld
  OBVIOUS
<1>1. authEnabled \in BOOLEAN
  BY DEF DoorwayInit
<1>2. call = NoCall
  BY DEF DoorwayInit
<1> QED BY <1>1, <1>2 DEF DoorHeld, NoCall

\* Only a call of a page changes them, and it goes where the router leads.
LEMMA DoorHeldStep == DoorInv /\ DoorHeld /\ [DoorwayNext]_doorwayVars => DoorHeld'
<1> SUFFICES ASSUME DoorInv, DoorHeld, [DoorwayNext]_doorwayVars PROVE DoorHeld'
  OBVIOUS
<1>1. CASE UNCHANGED <<authEnabled, call>>
  BY <1>1 DEF DoorHeld
<1>2. ASSUME NEW t \in Tabs, Calls(t)
      PROVE  DoorHeld'
  <2>1. PICK to : to \in {Route(cookie), Nowhere}
                  /\ call' = [from |-> tabs[t].sid, to |-> to, latest |-> latest]
    BY <1>2 DEF Calls
  <2>2. Route(cookie) \in Sids \cup {Nowhere}
    BY RouteFits
  <2>3. tabs[t].sid \in Sids \cup {NoSid} /\ latest \in Sids \cup {NoSid}
    BY DEF DoorInv, DoorTypes
  <2>4. authEnabled' = authEnabled
    BY <1>2 DEF Calls
  <2> QED BY <2>1, <2>2, <2>3, <2>4 DEF DoorHeld, Nowhere
<1>3. ASSUME NEW y \in tries, Ticks(y) \/ PollsSample(y) \/ GivesUp(y)
      PROVE  UNCHANGED <<authEnabled, call>>
  BY <1>3 DEF Ticks, PollsSample, GivesUp
<1>4. ASSUME NEW t \in Tabs, NEW s \in Sids,
             FollowsLink(t, s) \/ \E door \in {"launch", "sample"} : LaunchesRound(t, s, door)
      PROVE  UNCHANGED <<authEnabled, call>>
  BY <1>4 DEF FollowsLink, LaunchesRound
<1>5. ASSUME NEW t \in Tabs, GoesHome(t) \/ AsksAgain(t)
      PROVE  UNCHANGED <<authEnabled, call>>
  BY <1>5 DEF GoesHome, AsksAgain
<1>6. ASSUME NEW s \in Sids, IsKilled(s) \/ OthersOpen(s) \/ Moves(s)
      PROVE  UNCHANGED <<authEnabled, call>>
  BY <1>6 DEF IsKilled, OthersOpen, Moves
<1>7. Sweeps \/ CookieExpires => UNCHANGED <<authEnabled, call>>
  BY DEF Sweeps, CookieExpires
<1>8. UNCHANGED doorwayVars => UNCHANGED <<authEnabled, call>>
  BY DEF doorwayVars
<1> QED BY <1>1, <1>2, <1>3, <1>4, <1>5, <1>6, <1>7, <1>8 DEF DoorwayNext

\* The bounds on the card, beside what CardInv says of it.
CardHeld ==
  /\ Len(wishes) <= MaxWishes
  /\ \A w \in DOMAIN wishes : wishes[w].again <= MaxWishes
  /\ opener <= MaxWishes /\ paidFor <= MaxWishes
  /\ cardLapses \subseteq {"overtaken", "escaped"}
  /\ cardFaults \in 0..MaxCardFaults

\* At the gate.
LEMMA CardHolds == CardInv /\ CardHeld => PaywallCardTypeOK
<1> SUFFICES ASSUME CardInv, CardHeld PROVE PaywallCardTypeOK
  OBVIOUS
<1> USE DEF CardInv, CardTypes, CardHeld
<1>1. DOMAIN wishes = 1..Len(wishes) /\ Len(wishes) \in Nat
  OBVIOUS
<1>2. DOMAIN wishes \subseteq Wishes /\ paywallIntent <= MaxWishes /\ pendingIntent <= MaxWishes
  BY <1>1, CardBoundsAssumption DEF Wishes, CardFits, None
<1>3. ASSUME NEW w \in DOMAIN wishes
      PROVE  wishes[w] \in [door : Doors, retry : BOOLEAN, promised : BOOLEAN, again : 0..MaxWishes,
                      stage : {"sent", "gated", "admitted", "refused", "declined", "gone"}]
  <2>1. wishes[w] \in WishShapes
    OBVIOUS
  <2>2. wishes[w].again \in 0..MaxWishes
    BY <2>1, CardBoundsAssumption DEF WishShapes
  <2> QED BY <2>1, <2>2 DEF WishShapes
<1>4. {opener, paywallIntent, pendingIntent, paidFor} \subseteq 0..MaxWishes
  BY <1>2, CardBoundsAssumption
<1> QED BY <1>2, <1>3, <1>4 DEF PaywallCardTypeOK

\* Nothing is asked for yet.
LEMMA CardHeldStarts == PaywallCardInit => CardHeld
<1> SUFFICES ASSUME PaywallCardInit PROVE CardHeld
  OBVIOUS
<1>1. wishes = <<>> /\ opener = 0 /\ paidFor = 0 /\ cardLapses = {} /\ cardFaults = 0
  BY DEF PaywallCardInit, None
<1> QED BY <1>1, CardBoundsAssumption DEF CardHeld

\* Wishes come one by one, up to the bound, and each keeps whose again it is.
WishesKeepBound ==
  /\ Len(wishes') <= MaxWishes
  /\ \A w \in DOMAIN wishes' : wishes'[w].again <= MaxWishes

\* The same wishes.
LEMMA SameWishes ==
  ASSUME CardHeld, wishes' = wishes
  PROVE  WishesKeepBound
BY DEF CardHeld, WishesKeepBound

\* One of them comes further.
LEMMA OneWishComes ==
  ASSUME CardInv, CardHeld, NEW w \in DOMAIN wishes, NEW x, x.again = wishes[w].again,
         x \in WishShapes,
         wishes' = [wishes EXCEPT ![w] = x]
  PROVE  WishesKeepBound
<1>1. wishes \in Seq(WishShapes)
  BY DEF CardInv, CardTypes
<1>2. wishes' \in Seq(WishShapes) /\ Len(wishes') = Len(wishes) /\ DOMAIN wishes' = DOMAIN wishes
  BY <1>1
<1> QED BY <1>1, <1>2 DEF CardHeld, WishesKeepBound

\* One more.
LEMMA OneWishJoins ==
  ASSUME CardInv, CardHeld, NEW x \in WishShapes, x.again <= MaxWishes, Len(wishes) < MaxWishes,
         wishes' = Append(wishes, x)
  PROVE  WishesKeepBound
<1>1. wishes \in Seq(WishShapes)
  BY DEF CardInv, CardTypes
<1>2. Len(wishes') = Len(wishes) + 1 /\ DOMAIN wishes' = DOMAIN wishes \cup {Len(wishes) + 1}
      /\ wishes'[Len(wishes) + 1] = x
      /\ \A v \in DOMAIN wishes : wishes'[v] = wishes[v]
  BY <1>1
<1> QED BY <1>1, <1>2, CardBoundsAssumption DEF CardHeld, WishesKeepBound

\* Some of them are gone.
LEMMA SomeWishesGo ==
  ASSUME CardInv, CardHeld, NEW S,
         wishes' = [w \in DOMAIN wishes |->
           IF wishes[w].stage \in S THEN [wishes[w] EXCEPT !.stage = "gone"] ELSE wishes[w]]
  PROVE  WishesKeepBound
<1>1. wishes \in Seq(WishShapes)
  BY DEF CardInv, CardTypes
<1>2. \A w \in DOMAIN wishes : wishes'[w] \in WishShapes /\ wishes'[w].again = wishes[w].again
  <2> TAKE w \in DOMAIN wishes
  <2>1. wishes[w] \in WishShapes
    BY <1>1
  <2> QED BY <2>1 DEF WishShapes
<1>3. DOMAIN wishes' = DOMAIN wishes
  OBVIOUS
<1>4. Len(wishes') = Len(wishes)
  <2>1. wishes' \in Seq(WishShapes)
    <3>1. DOMAIN wishes = 1..Len(wishes) /\ Len(wishes) \in Nat
      BY <1>1
    <3>2. wishes' = [w \in 1..Len(wishes) |-> wishes'[w]]
      BY <1>3, <3>1
    <3> HIDE DEF WishShapes
    <3> QED BY <1>2, <3>1, <3>2
  <2> QED BY <1>1, <1>3, <2>1
<1> QED BY <1>2, <1>3, <1>4 DEF CardHeld, WishesKeepBound

\* What the card's teardown leaves.
LEMMA TeardownKeepsBound ==
  ASSUME CardInv, CardHeld, NEW through \in BOOLEAN, card # "shut", Teardown(through)
  PROVE  WishesKeepBound /\ opener' = 0
<1>1. opener \in DOMAIN wishes /\ wishes[opener] \in WishShapes
  BY DEF CardInv, CardFits, CardTypes
<1>2. CASE through
  <2>1. wishes' = [wishes EXCEPT ![opener] = SentAgain(wishes[opener])]
    BY <1>2 DEF Teardown
  <2> QED BY <1>1, <2>1, LetThrough, OneWishComes DEF Teardown, None
<1>3. CASE ~ through
  <2>1. wishes' = [wishes EXCEPT ![opener] = [wishes[opener] EXCEPT !.stage = "declined"]]
    BY <1>3 DEF Teardown
  <2>2. [wishes[opener] EXCEPT !.stage = "declined"] \in WishShapes
        /\ [wishes[opener] EXCEPT !.stage = "declined"].again = wishes[opener].again
    BY <1>1, Restaged
  <2>3. WishesKeepBound
    BY <1>1, <2>1, <2>2, OneWishComes
  <2> QED BY <2>3 DEF Teardown, None
<1> QED BY <1>2, <1>3

\* Every step at the gate.
LEMMA CardHeldStep == CardInv /\ CardHeld /\ [PaywallCardNext]_cardVars => CardHeld'
<1> SUFFICES ASSUME CardInv, CardHeld, [PaywallCardNext]_cardVars PROVE CardHeld'
  OBVIOUS
<1> USE CardBoundsAssumption DEF cardView, intents, account, troubles
<1>a. /\ opener \in Nat /\ paywallIntent \in Nat /\ pendingIntent \in Nat /\ paidFor \in Nat
      /\ paywallIntent <= MaxWishes /\ pendingIntent <= MaxWishes
      /\ opener <= MaxWishes /\ paidFor <= MaxWishes
      /\ cardLapses \subseteq {"overtaken", "escaped"}
      /\ cardFaults \in 0..MaxCardFaults
      /\ wishes \in Seq(WishShapes) /\ Len(wishes) <= MaxWishes
      /\ DOMAIN wishes = 1..Len(wishes) /\ Len(wishes) \in Nat
  <2>1. wishes \in Seq(WishShapes)
    BY DEF CardInv, CardTypes
  <2>2. DOMAIN wishes = 1..Len(wishes) /\ Len(wishes) \in Nat
    BY <2>1
  <2> QED BY <2>1, <2>2 DEF CardInv, CardTypes, CardFits, CardHeld, None
<1>b. ASSUME WishesKeepBound, opener' \in {0, opener}, paidFor' \in {paidFor, pendingIntent},
             cardLapses' \subseteq {"overtaken", "escaped"},
             cardFaults' = cardFaults \/ (cardFaults < MaxCardFaults /\ cardFaults' = cardFaults + 1)
      PROVE  CardHeld'
  BY <1>a, <1>b DEF CardHeld, WishesKeepBound
<1>0. CASE UNCHANGED cardVars
  BY <1>0, <1>a, <1>b, SameWishes DEF cardVars
<1>1. ASSUME NEW b \in GateAnswers, BeaconArrives(b)
      PROVE  CardHeld'
  BY <1>1, <1>a, <1>b, SameWishes DEF BeaconArrives
<1>2. ASSUME NEW b \in GateAnswers, BeaconIsLost(b)
      PROVE  CardHeld'
  BY <1>2, <1>a, <1>b, SameWishes DEF BeaconIsLost
<1>3. CASE WebhookLands
  BY <1>3, <1>a, <1>b, SameWishes DEF WebhookLands
<1>4. ASSUME NEW door \in Doors, Asks(door)
      PROVE  CardHeld'
  <2>1. PICK x : x = Wish(door, FALSE, FALSE, None)
    OBVIOUS
  <2>2. WishesKeepBound
    <3>1. x \in WishShapes /\ x.again <= MaxWishes
      BY <2>1 DEF Wish, WishShapes, None
    <3>2. Len(wishes) < MaxWishes /\ wishes' = Append(wishes, x)
      BY <1>4, <2>1 DEF Asks
    <3> QED BY <3>1, <3>2, OneWishJoins
  <2> QED BY <1>4, <1>a, <1>b, <2>2 DEF Asks
<1>5. ASSUME NEW w \in Wishes, IsAdmitted(w)
      PROVE  CardHeld'
  <2>1. w \in DOMAIN wishes /\ wishes[w] \in WishShapes
        /\ wishes' = [wishes EXCEPT ![w] = [wishes[w] EXCEPT !.stage = "admitted"]]
    BY <1>5, <1>a DEF IsAdmitted
  <2>2. WishesKeepBound
    BY <2>1, Restaged, OneWishComes
  <2> QED BY <1>5, <1>a, <1>b, <2>2 DEF IsAdmitted
<1>6. ASSUME NEW w \in Wishes, MeetsTheGate(w)
      PROVE  CardHeld'
  <2>1. w \in DOMAIN wishes /\ wishes[w] \in WishShapes
    BY <1>6, <1>a DEF MeetsTheGate
  <2>2. PICK s \in {"gated", "refused"} : wishes' = [wishes EXCEPT ![w] = [wishes[w] EXCEPT !.stage = s]]
    BY <1>6 DEF MeetsTheGate
  <2>3. WishesKeepBound
    <3>1. PICK r \in WishShapes : r = wishes[w]
      BY <2>1
    <3>2. PICK x : x = [r EXCEPT !.stage = s]
      OBVIOUS
    <3>3. x \in WishShapes /\ x.again = wishes[w].again
      BY <3>1, <3>2 DEF WishShapes
    <3>4. wishes' = [wishes EXCEPT ![w] = x]
      BY <2>2, <3>1, <3>2
    <3> QED BY <2>1, <3>3, <3>4, OneWishComes
  <2>4. opener' \in {w, opener} /\ paidFor' = paidFor /\ cardFaults' = cardFaults
        /\ cardLapses' \subseteq {"overtaken", "escaped"}
    BY <1>6, <1>a DEF MeetsTheGate
  <2>5. w <= MaxWishes
    BY <1>a, <2>1
  <2> QED BY <1>a, <2>3, <2>4, <2>5 DEF CardHeld, WishesKeepBound
<1>7. CASE Declines
  <2>1. WishesKeepBound /\ opener' \in {0, opener}
    BY <1>7, TeardownKeepsBound, SameWishes DEF Declines
  <2> QED BY <1>7, <1>a, <1>b, <2>1 DEF Declines
<1>8. CASE Escapes
  <2>1. (~ billing_enabled) \in BOOLEAN
    BY Zenon
  <2>2. card # "shut" /\ Teardown(~ billing_enabled)
    BY <1>8 DEF Escapes
  <2>3. WishesKeepBound /\ opener' = 0
    BY <2>1, <2>2, TeardownKeepsBound
  <2> QED BY <1>8, <1>a, <1>b, <2>3 DEF Escapes
<1>9. CASE LeavesTheFavor
  <2>1. WishesKeepBound /\ opener' = 0
    BY <1>9, TeardownKeepsBound DEF LeavesTheFavor
  <2> QED BY <1>9, <1>a, <1>b, <2>1 DEF LeavesTheFavor
<1>10. CASE Subscribes
  BY <1>10, <1>a, <1>b, SameWishes DEF Subscribes
<1>11. CASE CheckoutOpens
  <2>1. WishesKeepBound
    BY <1>11, SomeWishesGo DEF CheckoutOpens
  <2> QED BY <1>11, <1>a, <1>b, <2>1 DEF CheckoutOpens, None
<1>12. CASE CheckoutFails
  BY <1>12, <1>a, <1>b, SameWishes DEF CheckoutFails
<1>13. CASE Pays
  BY <1>13, <1>a, <1>b, SameWishes DEF Pays
<1>14. CASE ComesBackUnpaid
  BY <1>14, <1>a, <1>b, SameWishes DEF ComesBackUnpaid
<1>15. CASE Resumes
  <2>1. WishesKeepBound
    <3>1. CASE pendingIntent # None /\ Len(wishes) < MaxWishes
      <4>1. pendingIntent \in DOMAIN wishes /\ wishes[pendingIntent] \in WishShapes
        BY <3>1, <1>a DEF CardInv, CardFits
      <4>2. Replayed(pendingIntent) \in WishShapes /\ Replayed(pendingIntent).again = pendingIntent
        BY <4>1, <1>a DEF Replayed, Wish, WishShapes
      <4>3. wishes' = Append(wishes, Replayed(pendingIntent))
        BY <1>15, <3>1 DEF Resumes
      <4> QED BY <1>a, <3>1, <4>2, <4>3, OneWishJoins
    <3>2. CASE ~ (pendingIntent # None /\ Len(wishes) < MaxWishes)
      BY <1>15, <3>2, SameWishes DEF Resumes
    <3> QED BY <3>1, <3>2
  <2>2. opener' = opener /\ paidFor' = paidFor
        /\ cardLapses' \subseteq {"overtaken", "escaped"}
        /\ (cardFaults' = cardFaults \/ (cardFaults < MaxCardFaults /\ cardFaults' = cardFaults + 1))
    BY <1>15, <1>a DEF Resumes
  <2> QED BY <1>b, <2>1, <2>2
<1>16. CASE IsReloaded
  <2>1. wishes' = [w \in DOMAIN wishes |->
          IF wishes[w].stage \in {"gated"} THEN [wishes[w] EXCEPT !.stage = "gone"] ELSE wishes[w]]
    BY <1>16 DEF IsReloaded
  <2>2. WishesKeepBound
    BY <2>1, SomeWishesGo
  <2> QED BY <1>16, <1>a, <1>b, <2>2 DEF IsReloaded, None
<1> QED BY <1>0, <1>1, <1>2, <1>3, <1>4, <1>5, <1>6, <1>7, <1>8, <1>9, <1>10, <1>11, <1>12, <1>13,
           <1>14, <1>15, <1>16 DEF PaywallCardNext

---------------------------------------------------------------------------
(* What the editor's variables hold.                                       *)

\* The edit events carry changes of their own even when some were lost, so that
\* the trace never holds more changes than there were.
ReportsFit ==
  /\ unreported <= typed /\ (unreported > 0 => editTimer)
  /\ OwnChanges(EditsIn(requests), typed - unreported)
  /\ reported <= Cardinality(SentOf(EditsIn(requests), typed - unreported))

\* A version that there was.
Known(n) == n \in Nat /\ n <= MaxTyped

EditorHeld ==
  /\ Known(typed) /\ Known(onDisk) /\ Known(verdict.graded) /\ Known(verdict.shown)
  /\ \A q \in requests : Known(q.upTo) /\ Known(q.changes)
  /\ \A f \in Flows : Known(flow[f].pressed)
  /\ panesFaults <= MaxPanesFaults
  /\ ReportsFit

\* No more changes are sent than made.
LEMMA SentBounded ==
  ASSUME NEW E, NEW hi \in Nat
  PROVE  IsFiniteSet(SentOf(E, hi)) /\ Cardinality(SentOf(E, hi)) \in Nat
         /\ Cardinality(SentOf(E, hi)) <= hi
<1>1. SentOf(E, hi) \subseteq 1..hi
  BY DEF SentOf
<1>2. IsFiniteSet(1..hi) /\ Cardinality(1..hi) = hi
  BY FS_Interval
<1>3. IsFiniteSet(SentOf(E, hi)) /\ Cardinality(SentOf(E, hi)) <= Cardinality(1..hi)
  BY <1>1, <1>2, FS_Subset
<1>4. Cardinality(SentOf(E, hi)) \in Nat
  BY <1>3, FS_CardinalityType
<1> QED BY <1>2, <1>3, <1>4

\* What was reported was typed.
LEMMA ReportsBounded == ASSUME EditorTypes, ReportsFit PROVE reported <= typed
<1>1. typed - unreported \in Nat /\ typed - unreported <= typed /\ typed \in Nat /\ reported \in Nat
  BY DEF EditorTypes, ReportsFit
<1> DEFINE hi == typed - unreported
<1>2. reported <= Cardinality(SentOf(EditsIn(requests), hi))
  BY DEF ReportsFit
<1>3. hi \in Nat /\ hi <= typed
  BY <1>1
<1> HIDE DEF hi
<1>4. Cardinality(SentOf(EditsIn(requests), hi)) \in Nat /\ Cardinality(SentOf(EditsIn(requests), hi)) <= hi
  BY <1>3, SentBounded
<1> QED BY <1>1, <1>2, <1>3, <1>4

\* At the editor.
LEMMA EditorHolds == EditorInv /\ EditorHeld => PanesTypeOK
<1> SUFFICES ASSUME EditorInv, EditorHeld PROVE PanesTypeOK
  OBVIOUS
<1>1. EditorTypes /\ ReportsFit /\ Known(typed)
  BY DEF EditorInv, EditorHeld
<1>2. typed \in Versions /\ unreported \in Versions /\ onDisk \in Versions /\ reported \in Versions
  <2>1. reported <= typed
    BY <1>1, ReportsBounded
  <2> QED BY <1>1, <2>1, PanesBoundsAssumption DEF EditorTypes, EditorHeld, ReportsFit, Known, Versions
<1>3. {saveTimer, editTimer, overlapped, loose} \subseteq BOOLEAN
  BY <1>1 DEF EditorTypes
<1>4. ASSUME NEW q \in requests
      PROVE  q \in [kind : {"save", "file_save", "edit"}, upTo : Versions, changes : Versions,
                    tracked : BOOLEAN, for : SUBSET Flows, accepted : BOOLEAN]
  <2>1. q \in RequestShapes /\ q.upTo \in Versions /\ q.changes \in Versions
    BY <1>1, PanesBoundsAssumption DEF EditorTypes, EditorHeld, Known, Versions
  <2> QED BY <2>1 DEF RequestShapes
<1>5. flow \in [Flows -> [stage : {"idle", "flushing", "over"}, pressed : Versions]]
  <2>1. ASSUME NEW f \in Flows PROVE flow[f] \in [stage : {"idle", "flushing", "over"}, pressed : Versions]
    <3>1. flow[f] \in [stage : {"idle", "flushing", "over"}, pressed : Nat]
      BY <1>1 DEF EditorTypes
    <3>2. flow[f].pressed \in Versions
      BY PanesBoundsAssumption DEF EditorHeld, Known, Versions
    <3> QED BY <3>1, <3>2
  <2> QED BY <1>1, <2>1 DEF EditorTypes
<1>6. verdict \in [graded : Versions, shown : Versions, done : BOOLEAN]
  <2>1. verdict \in [graded : Nat, shown : Nat, done : BOOLEAN]
    BY <1>1 DEF EditorTypes
  <2>2. verdict.graded \in Versions /\ verdict.shown \in Versions
    BY PanesBoundsAssumption DEF EditorHeld, Known, Versions
  <2> QED BY <2>1, <2>2
<1>7. roundEnded \in {"no", "page", "clock"} /\ panesFaults \in 0..MaxPanesFaults
  BY <1>1, PanesBoundsAssumption DEF EditorTypes, EditorHeld
<1> QED BY <1>2, <1>3, <1>4, <1>5, <1>6, <1>7 DEF PanesTypeOK

\* Nothing was typed.
LEMMA EditorHeldStarts == PanesInit => EditorHeld
<1> SUFFICES ASSUME PanesInit PROVE EditorHeld
  OBVIOUS
<1>1. typed = 0 /\ unreported = 0 /\ reported = 0 /\ onDisk = 0 /\ requests = {} /\ panesFaults = 0
      /\ verdict.graded = 0 /\ verdict.shown = 0 /\ \A f \in Flows : flow[f].pressed = 0
  BY DEF PanesInit, NoFlow, NotJudged
<1>2. EditsIn(requests) = {} /\ typed - unreported = 0
  BY <1>1 DEF EditsIn
<1>3. SentOf({}, 0) = {} /\ OwnChanges({}, 0)
  BY DEF SentOf, OwnChanges
<1>4. Cardinality(SentOf({}, 0)) = 0
  BY <1>3, FS_EmptySet
<1>5. ReportsFit
  BY <1>1, <1>2, <1>3, <1>4 DEF ReportsFit
<1> QED BY <1>1, <1>5, PanesBoundsAssumption DEF EditorHeld, Known

\* The page's requests are still the same: they carry what they carried.
LEMMA ReportsStay ==
  ASSUME EditorTypes, ReportsFit, NEW R \in SUBSET RequestShapes,
         EditsIn(requests') \in SUBSET RequestShapes,
         AreThose(EditsIn(requests'), EditsIn(R)),
         NEW hi \in Nat, OwnChanges(EditsIn(R), hi), reported <= Cardinality(SentOf(EditsIn(R), hi)),
         typed' - unreported' = hi, reported' = reported,
         unreported' <= typed', unreported' > 0 => editTimer'
  PROVE  ReportsFit'
<1>1. EditsIn(R) \in SUBSET RequestShapes
  BY DEF EditsIn
<1>2. /\ SentOf(EditsIn(requests'), hi) = SentOf(EditsIn(R), hi)
      /\ OwnChanges(EditsIn(requests'), hi)
  BY <1>1, SameChanges
<1> QED BY <1>2 DEF ReportsFit

\* Fewer events are under way: what they carried is lost.
LEMMA ReportsLose ==
  ASSUME EditorTypes, ReportsFit, NEW q, EditsIn(requests') = EditsIn(requests) \ {q},
         UNCHANGED <<typed, unreported, editTimer>>,
         reported' = reported \/ (q \in EditsIn(requests) /\ reported' = reported + q.changes)
  PROVE  ReportsFit'
<1> DEFINE hi == typed - unreported
           Ed == EditsIn(requests)
<1>1. hi \in Nat /\ Ed \in SUBSET RequestShapes /\ OwnChanges(Ed, hi) /\ reported \in Nat
      /\ reported <= Cardinality(SentOf(Ed, hi))
  BY DEF EditorTypes, ReportsFit, EditsIn
<1>2. EditsIn(requests') = Ed \ {q} /\ typed' - unreported' = hi
  OBVIOUS
<1> HIDE DEF hi, Ed
<1>3. OwnChanges(Ed \ {q}, hi) /\ reported' <= Cardinality(SentOf(Ed \ {q}, hi))
  <2>1. CASE q \in Ed
    <3>1. /\ OwnChanges(Ed \ {q}, hi)
          /\ Cardinality(SentOf(Ed \ {q}, hi)) = Cardinality(SentOf(Ed, hi)) + q.changes
      BY <1>1, <2>1, OneEventLess
    <3>2. Cardinality(SentOf(Ed, hi)) \in Nat
      BY <1>1, SentBounded
    <3>3. q.changes \in Nat
      BY <1>1, <2>1 DEF RequestShapes
    <3>4. reported' = reported \/ reported' = reported + q.changes
      OBVIOUS
    <3> QED BY <1>1, <3>1, <3>2, <3>3, <3>4
  <2>2. CASE q \notin Ed
    <3>1. Ed \ {q} = Ed /\ reported' = reported
      BY <2>2 DEF Ed
    <3> QED BY <1>1, <3>1
  <2> QED BY <2>1, <2>2
<1>4. unreported' <= typed' /\ (unreported' > 0 => editTimer')
  BY DEF ReportsFit
<1> QED BY <1>2, <1>3, <1>4 DEF ReportsFit

\* One more event carries what was not reported yet.
LEMMA ReportsMore ==
  ASSUME EditorTypes, ReportsFit, NEW q \in RequestShapes, q.upTo = typed, q.changes = unreported
  PROVE  /\ OwnChanges(EditsIn(requests) \cup {q}, typed)
         /\ reported <= Cardinality(SentOf(EditsIn(requests) \cup {q}, typed))
<1> DEFINE lo == typed - unreported
           Ed == EditsIn(requests)
<1>1. lo \in Nat /\ typed \in Nat /\ lo <= typed /\ typed - lo = unreported
      /\ Ed \in SUBSET RequestShapes /\ OwnChanges(Ed, lo)
      /\ reported <= Cardinality(SentOf(Ed, lo))
  BY DEF EditorTypes, ReportsFit, EditsIn
<1> HIDE DEF lo, Ed
<1>2. SentOf(Ed \cup {q}, typed) = SentOf(Ed, lo) /\ OwnChanges(Ed \cup {q}, typed)
  BY <1>1, OneMoreEvent
<1> QED BY <1>1, <1>2 DEF Ed

\* The events are the same as before.
LEMMA ReportsSame ==
  ASSUME EditorTypes, ReportsFit, EditsIn(requests') = EditsIn(requests),
         UNCHANGED <<typed, unreported, editTimer, reported>>
  PROVE  ReportsFit'
BY DEF ReportsFit

\* The requests carry versions that there were.
Carry(R) == \A q \in R : Known(q.upTo) /\ Known(q.changes)

\* A button is pressed.
LEMMA PressesHeld == ASSUME EditorInv, EditorHeld, NEW f \in Flows, Presses(f) PROVE EditorHeld'
<1> DEFINE e == Request("edit", unreported, TRUE)
           v == Request("save", 0, TRUE)
           Ev == IF editTimer THEN {e} ELSE {}
           Sv == IF saveTimer THEN {v} ELSE {}
           R == requests \cup Ev \cup Sv
<1>1. /\ EditorTypes /\ ReportsFit /\ Known(typed) /\ requests \subseteq RequestShapes
      /\ typed \in Nat /\ unreported \in Nat /\ unreported <= typed /\ reported \in Nat
      /\ Carry(requests)
  BY DEF EditorInv, EditorTypes, EditorHeld, ReportsFit, Carry
<1>2. /\ e \in RequestShapes /\ e.kind = "edit" /\ e.upTo = typed /\ e.changes = unreported
      /\ v \in RequestShapes /\ v.kind = "save" /\ v.upTo = typed /\ v.changes = 0
  <2>1. e \in RequestShapes /\ e.kind = "edit" /\ e.upTo = typed /\ e.changes = unreported
    BY <1>1, NewRequest
  <2>2. typed \in Nat /\ 0 \in Nat /\ TRUE \in BOOLEAN
    BY <1>1
  <2>3. v \in RequestShapes /\ v.kind = "save" /\ v.upTo = typed /\ v.changes = 0
    BY ONLY <2>2, NewRequest
  <2> QED BY <2>1, <2>3
<1>3. /\ requests' = Awaited(R, f) /\ unreported' = 0
      /\ flow' = [flow EXCEPT ![f] = [stage |-> "flushing", pressed |-> typed]]
      /\ UNCHANGED <<typed, onDisk, reported, verdict, panesFaults>>
  BY DEF Presses
<1>4. Ev \subseteq {e} /\ Sv \subseteq {v} /\ (editTimer => Ev = {e}) /\ (~ editTimer => Ev = {})
      /\ editTimer \in BOOLEAN
  BY <1>1 DEF EditorTypes
<1>5. R = requests \cup Ev \cup Sv
  OBVIOUS
<1> HIDE DEF e, v, Ev, Sv, R
<1>6. R \in SUBSET RequestShapes
  BY <1>1, <1>2, <1>4, <1>5
<1>7. requests' \in SUBSET RequestShapes /\ AreThose(requests', R)
  BY <1>3, <1>6, AwaitedFacts
<1>8. AreThose(EditsIn(requests'), EditsIn(R)) /\ EditsIn(requests') \in SUBSET RequestShapes
  BY <1>7, SameSaves DEF EditsIn
<1>9. EditsIn(R) = EditsIn(requests) \cup Ev
  BY <1>2, <1>4, <1>5 DEF EditsIn
<1>10. OwnChanges(EditsIn(R), typed) /\ reported <= Cardinality(SentOf(EditsIn(R), typed))
  <2>1. CASE editTimer
    <3>1. EditsIn(R) = EditsIn(requests) \cup {e}
      BY <1>4, <1>9, <2>1
    <3> QED BY <1>1, <1>2, <3>1, ReportsMore
  <2>2. CASE ~ editTimer
    <3>1. typed - unreported = typed
      BY <1>1, <2>2 DEF ReportsFit
    <3>2. EditsIn(R) = EditsIn(requests)
      BY <1>4, <1>9, <2>2
    <3> QED BY <1>1, <3>1, <3>2 DEF ReportsFit
  <2> QED BY <1>4, <2>1, <2>2
<1>11. ReportsFit'
  <2>1. typed' - unreported' = typed /\ unreported' <= typed' /\ ~ (unreported' > 0) /\ reported' = reported
    BY <1>1, <1>3
  <2> QED BY <1>1, <1>6, <1>8, <1>10, <2>1, ReportsStay
<1>12. Carry(requests')
  <2>1. Carry(R)
    BY <1>1, <1>2, <1>4, <1>5, PanesBoundsAssumption DEF Carry, Known
  <2> QED BY <1>7, <2>1 DEF Carry, AreThose, IsStill
<1>13. \A g \in Flows : Known(flow'[g].pressed)
  <2>1. flow \in [Flows -> [stage : {"idle", "flushing", "over"}, pressed : Nat]]
    BY <1>1 DEF EditorTypes
  <2>2. \A g \in Flows : Known(flow[g].pressed)
    BY DEF EditorHeld
  <2> QED BY <1>1, <1>3, <2>1, <2>2
<1>14. Known(typed') /\ Known(onDisk') /\ Known(verdict'.graded) /\ Known(verdict'.shown)
       /\ panesFaults' <= MaxPanesFaults
  BY <1>3 DEF EditorHeld, Known
<1> QED BY <1>11, <1>12, <1>13, <1>14 DEF EditorHeld, Carry

\* A timer fires.
LEMMA TimersHeld ==
  ASSUME EditorInv, EditorHeld, SaveTimerFires \/ EditTimerFires
  PROVE  EditorHeld'
<1>1. /\ EditorTypes /\ ReportsFit /\ Known(typed) /\ requests \subseteq RequestShapes
      /\ typed \in Nat /\ unreported \in Nat /\ unreported <= typed /\ reported \in Nat
      /\ Carry(requests) /\ \A f \in Flows : Known(flow[f].pressed)
      /\ Known(onDisk) /\ Known(verdict.graded) /\ Known(verdict.shown)
      /\ panesFaults <= MaxPanesFaults
  BY DEF EditorInv, EditorTypes, EditorHeld, ReportsFit, Carry
<1>2. CASE SaveTimerFires
  <2> DEFINE v == Request("save", 0, TRUE)
  <2>1. v \in RequestShapes /\ v.kind = "save" /\ v.upTo = typed /\ v.changes = 0
    <3>1. typed \in Nat /\ 0 \in Nat /\ TRUE \in BOOLEAN
      BY <1>1
    <3> QED BY ONLY <3>1, NewRequest
  <2>2. /\ requests' = requests \cup {v}
        /\ UNCHANGED <<typed, unreported, editTimer, reported, flow, onDisk, verdict, panesFaults>>
    BY <1>2 DEF SaveTimerFires
  <2> HIDE DEF v
  <2>3. EditsIn(requests') = EditsIn(requests)
    BY <2>1, <2>2 DEF EditsIn
  <2>4. ReportsFit'
    BY <1>1, <2>2, <2>3, ReportsSame
  <2>5. Carry(requests')
    BY <1>1, <2>1, <2>2, PanesBoundsAssumption DEF Carry, Known
  <2> QED BY <1>1, <2>2, <2>4, <2>5 DEF EditorHeld, Carry
<1>3. CASE EditTimerFires
  <2> DEFINE e == Request("edit", unreported, FALSE)
  <2>1. e \in RequestShapes /\ e.kind = "edit" /\ e.upTo = typed /\ e.changes = unreported
    BY <1>1, NewRequest
  <2>2. /\ requests' = requests \cup {e} /\ unreported' = 0
        /\ UNCHANGED <<typed, reported, flow, onDisk, verdict, panesFaults>>
    BY <1>3 DEF EditTimerFires
  <2> HIDE DEF e
  <2>3. EditsIn(requests') = EditsIn(requests) \cup {e}
    BY <2>1, <2>2 DEF EditsIn
  <2>4. /\ OwnChanges(EditsIn(requests) \cup {e}, typed)
        /\ reported <= Cardinality(SentOf(EditsIn(requests) \cup {e}, typed))
    BY <1>1, <2>1, ReportsMore
  <2>5. typed' - unreported' = typed /\ typed' = typed /\ ~ (unreported' > 0) /\ unreported' <= typed'
    BY <1>1, <2>2
  <2>6. ReportsFit'
    BY <2>2, <2>3, <2>4, <2>5 DEF ReportsFit
  <2>7. Carry(requests')
    BY <1>1, <2>1, <2>2, PanesBoundsAssumption DEF Carry, Known
  <2> QED BY <1>1, <2>2, <2>6, <2>7 DEF EditorHeld, Carry
<1> QED BY <1>2, <1>3

\* A request goes on, takes effect, or fails.
LEMMA RequestsHeld ==
  ASSUME EditorInv, EditorHeld, NEW q \in requests, Arrives(q) \/ TakesEffect(q) \/ Fails(q)
  PROVE  EditorHeld'
<1>1. /\ EditorTypes /\ ReportsFit /\ Known(typed) /\ requests \subseteq RequestShapes
      /\ typed \in Nat /\ unreported \in Nat /\ reported \in Nat
      /\ Carry(requests) /\ \A f \in Flows : Known(flow[f].pressed)
      /\ Known(onDisk) /\ Known(verdict.graded) /\ Known(verdict.shown)
      /\ panesFaults <= MaxPanesFaults /\ panesFaults \in Nat
      /\ q \in RequestShapes /\ roundEnded \in {"no", "page", "clock"}
  BY DEF EditorInv, EditorTypes, EditorHeld, Carry
<1>2. UNCHANGED <<typed, unreported, editTimer, flow, verdict>>
  BY DEF Arrives, TakesEffect, Fails
<1>3. CASE Arrives(q) /\ roundEnded = "no"
  <2> DEFINE s == [q EXCEPT !.accepted = TRUE]
             R == (requests \ {q}) \cup {s}
  <2>1. requests' = R /\ UNCHANGED <<reported, onDisk, panesFaults>>
    BY <1>3 DEF Arrives
  <2>2. AreThose(R, requests)
    BY <1>1, AcceptedFacts
  <2>3. s \in RequestShapes
    BY <1>1, RequestFacts DEF Flows
  <2> HIDE DEF s
  <2>4. R \in SUBSET RequestShapes
    BY <1>1, <2>3
  <2> HIDE DEF R
  <2>5. AreThose(EditsIn(requests'), EditsIn(requests)) /\ EditsIn(requests') \in SUBSET RequestShapes
    BY <2>1, <2>2, <2>4, SameSaves DEF EditsIn
  <2>6. /\ typed - unreported \in Nat /\ typed' - unreported' = typed - unreported
        /\ unreported' <= typed' /\ (unreported' > 0 => editTimer') /\ reported' = reported
        /\ OwnChanges(EditsIn(requests), typed - unreported)
        /\ reported <= Cardinality(SentOf(EditsIn(requests), typed - unreported))
    BY <1>1, <1>2, <2>1 DEF ReportsFit
  <2>7. ReportsFit'
    <3> DEFINE hi == typed - unreported
    <3>1. hi \in Nat /\ OwnChanges(EditsIn(requests), hi)
          /\ reported <= Cardinality(SentOf(EditsIn(requests), hi)) /\ typed' - unreported' = hi
      BY <2>6
    <3> HIDE DEF hi
    <3> QED BY <1>1, <2>5, <2>6, <3>1, ReportsStay
  <2>8. Carry(requests')
    BY <1>1, <2>1, <2>2 DEF Carry, AreThose, IsStill
  <2> QED BY <1>1, <1>2, <2>1, <2>7, <2>8 DEF EditorHeld, Carry
<1>4. CASE (Arrives(q) /\ roundEnded # "no") \/ TakesEffect(q) \/ Fails(q)
  <2>1. PICK s : /\ s \in {[q EXCEPT !.kind = "file_save"],
                           [q EXCEPT !.kind = "file_save", !.accepted = FALSE]}
                 /\ requests' \subseteq (requests \ {q}) \cup {s}
                 /\ requests \ {q} \subseteq requests'
    BY <1>4 DEF Arrives, TakesEffect, Fails
  <2>2. s \in RequestShapes /\ s.kind = "file_save" /\ s.upTo = q.upTo /\ s.changes = q.changes
    BY <1>1, <2>1 DEF RequestShapes
  <2>3. EditsIn(requests') = EditsIn(requests) \ {q}
    BY <2>1, <2>2 DEF EditsIn
  <2>4. reported' = reported \/ (q \in EditsIn(requests) /\ reported' = reported + q.changes)
    BY <1>4 DEF Arrives, TakesEffect, Fails, EditsIn
  <2>5. ReportsFit'
    BY <1>1, <1>2, <2>3, <2>4, ReportsLose
  <2>6. Carry(requests') /\ Known(q.upTo)
    BY <1>1, <2>1, <2>2 DEF Carry
  <2>7. onDisk' \in {onDisk, q.upTo}
    BY <1>4 DEF Arrives, TakesEffect, Fails
  <2>8. panesFaults' <= MaxPanesFaults
    BY <1>1, <1>4, PanesBoundsAssumption DEF Arrives, TakesEffect, Fails
  <2>9. Known(onDisk')
    BY <1>1, <2>6, <2>7
  <2> QED BY <1>1, <1>2, <2>5, <2>6, <2>8, <2>9 DEF EditorHeld, Carry
<1> QED BY <1>3, <1>4

\* Every step keeps the editor's variables in their bounds.
LEMMA EditorHeldStep == EditorInv /\ EditorHeld /\ [PanesNext]_panesVars => EditorHeld'
<1> SUFFICES ASSUME EditorInv, EditorHeld, [PanesNext]_panesVars PROVE EditorHeld'
  OBVIOUS
<1>1. /\ EditorTypes /\ ReportsFit /\ Known(typed) /\ typed \in Nat /\ unreported \in Nat
      /\ Carry(requests) /\ \A f \in Flows : Known(flow[f].pressed)
      /\ Known(onDisk) /\ Known(verdict.graded) /\ Known(verdict.shown)
      /\ panesFaults <= MaxPanesFaults
      /\ verdict \in [graded : Nat, shown : Nat, done : BOOLEAN]
      /\ flow \in [Flows -> [stage : {"idle", "flushing", "over"}, pressed : Nat]]
  BY DEF EditorInv, EditorTypes, EditorHeld, Carry
<1>2. Known(reported)
  <2>1. reported <= typed /\ reported \in Nat
    BY <1>1, ReportsBounded DEF EditorTypes
  <2> QED BY <1>1, <2>1, PanesBoundsAssumption DEF Known
<1>3. CASE UNCHANGED panesVars
  <2>1. ReportsFit'
    BY <1>1, <1>3, ReportsSame DEF panesVars
  <2> QED BY <1>1, <1>3, <2>1 DEF panesVars, EditorHeld, Carry
<1>4. CASE Types
  <2>1. /\ typed' = typed + 1 /\ unreported' = unreported + 1 /\ typed < MaxTyped /\ editTimer'
        /\ UNCHANGED <<requests, flow, onDisk, reported, verdict, panesFaults>>
    BY <1>4 DEF Types
  <2>2. Known(typed') /\ typed' - unreported' = typed - unreported /\ unreported' <= typed'
    BY <1>1, <2>1, PanesBoundsAssumption DEF Known, ReportsFit
  <2>3. ReportsFit'
    BY <1>1, <2>1, <2>2 DEF ReportsFit
  <2> QED BY <1>1, <2>1, <2>2, <2>3 DEF EditorHeld, Carry
<1>5. CASE RunsSuite \/ EndsRound \/ ClockEnds \/ Grades
  <2>1. UNCHANGED <<typed, unreported, editTimer, requests, onDisk, reported, panesFaults>>
    BY <1>5 DEF RunsSuite, EndsRound, ClockEnds, Grades
  <2>2. ReportsFit'
    BY <1>1, <2>1, ReportsSame
  <2>3. \A f \in Flows : flow'[f].pressed = flow[f].pressed
    BY <1>1, <1>5 DEF RunsSuite, EndsRound, ClockEnds, Grades, Flows
  <2>4. verdict'.graded \in {verdict.graded, onDisk} /\ verdict'.shown \in {verdict.shown, reported}
    BY <1>1, <1>5 DEF RunsSuite, EndsRound, ClockEnds, Grades
  <2>5. Known(verdict'.graded) /\ Known(verdict'.shown)
    BY <1>1, <1>2, <2>4
  <2> QED BY <1>1, <2>1, <2>2, <2>3, <2>5 DEF EditorHeld, Carry
<1> QED BY <1>3, <1>4, <1>5, PressesHeld, TimersHeld, RequestsHeld DEF PanesNext

---------------------------------------------------------------------------
(* What the practice door's variables hold.                                *)

DeskPhases == {"input", "clarifying", "confirm", "started"}
Lapses == {"blind", "overlap", "forgotten"}
DraftsRead == [read : Replies, notes : Notes]
Undos == [on : BOOLEAN, rows : Rows]
ReadingsAsked ==
  [n : Nat, answers : Replies, first : BOOLEAN, notes : Notes, snapshot : Undos]
ScreensKept ==
  [phase : DeskPhases, gaps : Rows, answers : Replies, draft : DraftsRead,
   sourceText : Notes, stale : BOOLEAN]

\* What the screen shows, and what is under way.
ShownHeld ==
  /\ given \in Replies /\ answers \in Replies /\ gaps \in Rows
  /\ draft \in DraftsRead /\ notes \in Notes /\ sourceText \in Notes
ReadingsHeld ==
  /\ asked \in Nat
  /\ \A c \in clarifies : c \in ReadingsAsked /\ c.n \in 1..asked
PostsHeld == \A p \in posts : p.spec \in Replies /\ p.truth \in Replies

DeskHeld ==
  /\ ShownHeld /\ ReadingsHeld /\ PostsHeld
  /\ recheckTimer \in BOOLEAN /\ startQueued \in BOOLEAN
  /\ gate \in [on : BOOLEAN, answers : Replies, snapshot : Undos]
  /\ kept \in ScreensKept
  /\ lapses \subseteq Lapses
  /\ deskFaults \in 0..MaxDeskFaults

\* At the practice door.
LEMMA DeskHolds == DeskInv /\ DeskHeld => PracticeDeskTypeOK
<1> SUFFICES ASSUME DeskInv, DeskHeld PROVE PracticeDeskTypeOK
  OBVIOUS
<1>1. DeskTypes /\ ShownHeld /\ ReadingsHeld /\ PostsHeld
  BY DEF DeskInv, DeskHeld
<1>2. {busy, draftsStale, recheckTimer, recheckDirty, startQueued, gate.on} \subseteq BOOLEAN
  BY <1>1 DEF DeskTypes, DeskHeld
<1>3. \A c \in clarifies :
        /\ c.n \in 1..asked /\ c.answers \in Replies /\ c.first \in BOOLEAN
        /\ c.notes \in Notes /\ c.snapshot.rows \in Rows
  <2>1. \A c \in ReadingsAsked : /\ c.answers \in Replies /\ c.first \in BOOLEAN
                                 /\ c.notes \in Notes /\ c.snapshot.rows \in Rows
    BY DEF ReadingsAsked, Undos
  <2> QED BY <1>1, <2>1 DEF ReadingsHeld
<1>4. kept.gaps \in Rows
  BY DEF DeskHeld, ScreensKept
<1>5. phase \in {"input", "clarifying", "confirm", "started"}
  BY <1>1 DEF DeskTypes
<1>6. /\ gaps \in Rows /\ given \in Replies /\ answers \in Replies
      /\ draft \in [read : Replies, notes : Notes] /\ {notes, sourceText} \subseteq Notes
  BY <1>1 DEF ShownHeld, DraftsRead
<1>7. lapses \subseteq {"blind", "overlap", "forgotten"} /\ deskFaults \in 0..MaxDeskFaults
  BY DEF DeskHeld, Lapses
<1>8. \A p \in posts : p.spec \in Replies /\ p.truth \in Replies
  BY <1>1 DEF PostsHeld
<1> QED BY <1>2, <1>3, <1>4, <1>5, <1>6, <1>7, <1>8 DEF PracticeDeskTypeOK

\* Nothing shown, nothing read, nothing to go back to.
LEMMA EmptyHeld ==
  /\ NoReplies \in Replies /\ NoRows \in Rows /\ NoDraft \in DraftsRead
  /\ NoSnapshot \in Undos
  /\ NoGate \in [on : BOOLEAN, answers : Replies, snapshot : Undos]
  /\ 0 \in Notes /\ 1 \in Notes
<1>1. 0 \in 0..MaxAnswers
  BY AnswersAssumption
<1>2. NoReplies \in Replies
  BY <1>1 DEF NoReplies, Replies
<1>3. NoRows \in Rows
  BY <1>1 DEF NoRows, Rows, Row
<1>4. 0 \in Notes /\ 1 \in Notes
  BY DEF Notes
<1>5. NoDraft \in DraftsRead
  BY <1>2, <1>4 DEF NoDraft, DraftsRead
<1>6. NoSnapshot \in Undos
  BY <1>3 DEF NoSnapshot, Undos
<1>7. NoGate \in [on : BOOLEAN, answers : Replies, snapshot : Undos]
  BY <1>2, <1>6 DEF NoGate
<1> QED BY <1>2, <1>3, <1>4, <1>5, <1>6, <1>7

\* What the page keeps is what it shows.
LEMMA KeptHeld ==
  ASSUME ShownHeld', phase' \in DeskPhases, draftsStale' \in BOOLEAN, Keeps
  PROVE  kept' \in ScreensKept
BY DEF ShownHeld, Keeps, Screen, ScreensKept

\* What was under way still is, or is over.
LEMMA ReadingsStay ==
  ASSUME ReadingsHeld, asked' = asked, clarifies' \subseteq clarifies
  PROVE  ReadingsHeld'
BY DEF ReadingsHeld

\* The clarifier is asked.
LEMMA ClarifyHeld ==
  ASSUME DeskInv, DeskHeld, NEW ans \in Replies, NEW snapshot \in Undos, Clarify(ans, snapshot)
  PROVE  answers' \in Replies /\ ReadingsHeld' /\ lapses' \subseteq Lapses
<1> DEFINE first == phase # "confirm"
           read == IF phase \in {"input", "clarifying"} THEN notes ELSE sourceText
           c0 == [n |-> asked + 1, answers |-> ans, first |-> first, notes |-> read,
                  snapshot |-> snapshot]
<1>1. ReadingsHeld /\ ShownHeld /\ lapses \subseteq Lapses
  BY DEF DeskHeld
<1>2. asked' = asked + 1 /\ answers' = ans /\ clarifies' = clarifies \cup {c0}
  BY DEF Clarify
<1>3. first \in BOOLEAN /\ read \in Notes /\ asked \in Nat
  BY <1>1 DEF ShownHeld, ReadingsHeld
<1> HIDE DEF first, read
<1>4. c0 \in ReadingsAsked /\ c0.n = asked + 1
  BY <1>3 DEF ReadingsAsked
<1> HIDE DEF c0
<1>5. ReadingsHeld'
  <2>1. asked' \in Nat /\ \A n \in 1..asked : n \in 1..asked'
    BY <1>2, <1>3
  <2>2. asked + 1 \in 1..asked'
    BY <1>2, <1>3
  <2> QED BY <1>1, <1>2, <1>4, <2>1, <2>2 DEF ReadingsHeld
<1>6. lapses' \subseteq Lapses
  BY <1>1 DEF Clarify, Lapses
<1> QED BY <1>2, <1>5, <1>6

\* The desk as it opens.
LEMMA DeskHeldStarts == PracticeDeskInit => DeskHeld
<1> SUFFICES ASSUME PracticeDeskInit PROVE DeskHeld
  OBVIOUS
<1>1. /\ phase = "input" /\ draftsStale = FALSE /\ recheckTimer = FALSE /\ startQueued = FALSE
      /\ gaps = NoRows /\ answers = NoReplies /\ draft = NoDraft /\ notes = 1 /\ sourceText = 0
      /\ clarifies = {} /\ asked = 0 /\ gate = NoGate /\ kept = Screen /\ posts = {}
      /\ given = NoReplies /\ lapses = {} /\ deskFaults = 0
  BY DEF PracticeDeskInit
<1>2. ShownHeld
  BY <1>1, EmptyHeld DEF ShownHeld
<1>3. ReadingsHeld /\ PostsHeld
  BY <1>1 DEF ReadingsHeld, PostsHeld
<1>4. kept \in ScreensKept
  BY <1>1, <1>2 DEF ShownHeld, Screen, ScreensKept, DeskPhases
<1>5. deskFaults \in 0..MaxDeskFaults
  BY <1>1, DeskFaultsAssumption
<1> QED BY <1>1, <1>2, <1>3, <1>4, <1>5, EmptyHeld DEF DeskHeld

\* The composer, and the correction.
LEMMA ComposerHeld ==
  ASSUME DeskInv, DeskHeld, DeskTypes',
         EditsNotes \/ Generates \/ GeneratesByKey \/ GoesBack \/ Corrects
  PROVE  DeskHeld'
<1>1. ShownHeld /\ ReadingsHeld /\ PostsHeld
  BY DEF DeskHeld
<1>2. UNCHANGED <<recheckTimer, startQueued, gaps, draft, sourceText, gate, posts, given,
                  draftsStale, deskFaults>>
  BY DEF EditsNotes, Generates, GeneratesByKey, GoesBack, Corrects
<1>3. PostsHeld'
  BY <1>1, <1>2 DEF PostsHeld
<1>4. notes' \in Notes
  BY <1>1 DEF EditsNotes, Generates, GeneratesByKey, GoesBack, Corrects, ShownHeld, Notes
<1>5. \/ UNCHANGED <<answers, clarifies, asked, lapses>>
      \/ \E ans \in Replies, snapshot \in Undos : Clarify(ans, snapshot)
  <2>1. CASE EditsNotes \/ GoesBack
    BY <2>1 DEF EditsNotes, GoesBack
  <2>2. CASE Generates
    <3>1. UNCHANGED <<answers, clarifies, asked, lapses>> \/ Clarify(answers, NoSnapshot)
      BY <2>2 DEF Generates
    <3> QED BY <1>1, <3>1, EmptyHeld DEF ShownHeld
  <2>3. CASE GeneratesByKey
    BY <2>3, EmptyHeld DEF GeneratesByKey
  <2>4. CASE Corrects
    <3>1. Clarify(answers, Snapshot(gaps))
      BY <2>4 DEF Corrects
    <3>2. Snapshot(gaps) \in Undos
      BY <1>1 DEF Snapshot, Undos, ShownHeld
    <3> QED BY <1>1, <3>1, <3>2 DEF ShownHeld
  <2> QED BY <2>1, <2>2, <2>3, <2>4
<1>6. answers' \in Replies /\ ReadingsHeld' /\ lapses' \subseteq Lapses
  <2>1. CASE UNCHANGED <<answers, clarifies, asked, lapses>>
    BY <1>1, <2>1, ReadingsStay DEF ShownHeld, DeskHeld
  <2>2. CASE \E ans \in Replies, snapshot \in Undos : Clarify(ans, snapshot)
    BY <2>2, ClarifyHeld
  <2> QED BY <1>5, <2>1, <2>2
<1>7. ShownHeld'
  BY <1>1, <1>2, <1>4, <1>6 DEF ShownHeld
<1>8. Keeps \/ UNCHANGED kept
  BY DEF EditsNotes, Generates, GeneratesByKey, GoesBack, Corrects
<1>9. kept' \in ScreensKept
  BY <1>7, <1>8, KeptHeld DEF DeskHeld, DeskTypes, DeskPhases
<1> QED BY <1>2, <1>3, <1>6, <1>7, <1>9 DEF DeskHeld

\* A gap is answered.
LEMMA AnsweringHeld ==
  ASSUME DeskInv, DeskHeld, DeskTypes', NEW g \in DeskGaps, AnswersGap(g)
  PROVE  DeskHeld'
<1>1. ShownHeld /\ ReadingsHeld /\ PostsHeld
  BY DEF DeskHeld
<1>2. GivenSoFar \in Nat
  <2> DEFINE S == {n \in 1..MaxAnswers : \E h \in DeskGaps : given[h] >= n}
  <2>1. S \subseteq 1..MaxAnswers /\ IsFiniteSet(1..MaxAnswers)
    BY AnswersAssumption, FS_Interval
  <2> HIDE DEF S
  <2>2. IsFiniteSet(S)
    BY <2>1, FS_Subset
  <2>3. Cardinality(S) \in Nat
    BY <2>2, FS_CardinalityType
  <2> QED BY <2>3 DEF GivenSoFar, S
<1>3. PICK a \in Nat : a = GivenSoFar + 1
  BY <1>2
<1>4. /\ a \in 0..MaxAnswers
      /\ answers' = [answers EXCEPT ![g] = a] /\ given' = [given EXCEPT ![g] = a]
      /\ gaps' = [gaps EXCEPT ![g] = [status |-> "settled", value |-> a]]
      /\ UNCHANGED <<startQueued, draft, notes, sourceText, clarifies, asked, gate, posts,
                     lapses, deskFaults>>
      /\ Keeps
  BY <1>2, <1>3, AnswersAssumption DEF AnswersGap
<1>5. recheckTimer' = TRUE \/ recheckTimer' = recheckTimer
  BY DEF AnswersGap
<1>6. answers' \in Replies /\ given' \in Replies
  BY <1>1, <1>4 DEF ShownHeld, Replies
<1>7. gaps' \in Rows
  <2>1. [status |-> "settled", value |-> a] \in Row
    BY <1>4 DEF Row
  <2> QED BY <1>1, <1>4, <2>1 DEF ShownHeld, Rows
<1>8. ShownHeld'
  BY <1>1, <1>4, <1>6, <1>7 DEF ShownHeld
<1>9. kept' \in ScreensKept
  BY <1>4, <1>8, KeptHeld DEF DeskTypes, DeskPhases
<1>10. ReadingsHeld' /\ PostsHeld'
  BY <1>1, <1>4, ReadingsStay DEF PostsHeld
<1>11. recheckTimer' \in BOOLEAN
  BY <1>5 DEF DeskHeld
<1> QED BY <1>4, <1>8, <1>9, <1>10, <1>11 DEF DeskHeld

\* The rows of an answer, merged with what the screen shows.
LEMMA MergedHeld ==
  ASSUME gaps \in Rows, NEW rows \in Rows
  PROVE  Merged(rows) \in Rows
BY DEF Merged, Rows

\* A reading lands.
LEMMA LandingHeld ==
  ASSUME DeskInv, DeskHeld, DeskTypes', NEW c \in clarifies, NEW blind \in BOOLEAN,
         LandsReading(c, blind), deskFaults' \in 0..MaxDeskFaults
  PROVE  DeskHeld'
<1> DEFINE read == IF blind THEN NoReplies ELSE c.answers
           lost == lapses \cup (IF blind THEN {"blind"} ELSE {})
<1>1. ShownHeld /\ ReadingsHeld /\ PostsHeld
  BY DEF DeskHeld
<1>2. c.answers \in Replies /\ c.notes \in Notes
  <2>1. c \in ReadingsAsked
    BY <1>1 DEF ReadingsHeld
  <2> QED BY <2>1 DEF ReadingsAsked
<1>3. read \in Replies /\ lost \subseteq Lapses
  BY <1>2, EmptyHeld DEF DeskHeld, Lapses
<1>4. /\ clarifies' = clarifies \ {c} /\ draft' = [read |-> read, notes |-> c.notes]
      /\ sourceText' = c.notes /\ lapses' = lost
      /\ posts' \subseteq posts \cup {Post(read, lost)}
      /\ UNCHANGED <<answers, notes, asked, gate, given>>
      /\ Keeps
  BY DEF LandsReading
<1>5. gaps' \in Rows
  <2>1. PICK rows \in ServerRows(c.answers) : gaps' = Merged(rows)
    BY DEF LandsReading
  <2>2. rows \in Rows
    BY <2>1 DEF ServerRows
  <2> QED BY <1>1, <2>1, <2>2, MergedHeld DEF ShownHeld
<1>6. recheckTimer' = TRUE \/ recheckTimer' = recheckTimer
  BY DEF LandsReading
<1>7. startQueued' \in BOOLEAN
  <2>1. PICK q \in BOOLEAN : q = (startQueued /\ ~ (startQueued /\ ~ recheckDirty))
    OBVIOUS
  <2>2. startQueued' = q
    BY <2>1 DEF LandsReading
  <2> QED BY <2>2
<1> HIDE DEF read, lost
<1>8. ShownHeld'
  BY <1>1, <1>2, <1>3, <1>4, <1>5 DEF ShownHeld, DraftsRead
<1>9. kept' \in ScreensKept
  BY <1>4, <1>8, KeptHeld DEF DeskTypes, DeskPhases
<1>10. ReadingsHeld'
  BY <1>1, <1>4, ReadingsStay
<1>11. PostsHeld'
  BY <1>1, <1>3, <1>4 DEF PostsHeld, Post, ShownHeld
<1>12. recheckTimer' \in BOOLEAN
  BY <1>6 DEF DeskHeld
<1> QED BY <1>3, <1>4, <1>7, <1>8, <1>9, <1>10, <1>11, <1>12 DEF DeskHeld

\* A fault is counted.
LEMMA DeskFaultHeld ==
  ASSUME DeskHeld, DeskFault
  PROVE  deskFaults' \in 0..MaxDeskFaults
BY DeskFaultsAssumption DEF DeskHeld, DeskFault

\* A reading fails or is gated; the gate opens again or goes.
LEMMA GatesHeld ==
  ASSUME DeskInv, DeskHeld, DeskTypes',
         \/ \E c \in clarifies : ClarifyFails(c) \/ ClarifyIsGated(c)
         \/ GateProceeds \/ GateIsDismissed
  PROVE  DeskHeld'
<1>1. ShownHeld /\ ReadingsHeld /\ PostsHeld
  BY DEF DeskHeld
<1>2. ASSUME NEW c \in clarifies, ClarifyFails(c)
      PROVE  DeskHeld'
  <2>1. /\ clarifies' = clarifies \ {c} /\ startQueued' = FALSE
        /\ gaps' = IF c.snapshot.on THEN c.snapshot.rows ELSE gaps
        /\ UNCHANGED <<recheckTimer, answers, draft, notes, sourceText, asked, gate, kept,
                       posts, given, lapses>>
        /\ DeskFault
    BY <1>2 DEF ClarifyFails
  <2>2. c.snapshot.rows \in Rows
    <3>1. c \in ReadingsAsked
      BY <1>1 DEF ReadingsHeld
    <3> QED BY <3>1 DEF ReadingsAsked, Undos
  <2>3. ShownHeld'
    BY <1>1, <2>1, <2>2 DEF ShownHeld
  <2>4. ReadingsHeld' /\ PostsHeld'
    BY <1>1, <2>1, ReadingsStay DEF PostsHeld
  <2> QED BY <2>1, <2>3, <2>4, DeskFaultHeld DEF DeskHeld
<1>3. ASSUME NEW c \in clarifies, ClarifyIsGated(c)
      PROVE  DeskHeld'
  <2>1. /\ clarifies' = clarifies \ {c} /\ startQueued' = FALSE
        /\ gate' = [on |-> TRUE, answers |-> answers, snapshot |-> c.snapshot]
        /\ UNCHANGED <<recheckTimer, gaps, answers, draft, notes, sourceText, asked,
                       posts, given, lapses>>
        /\ DeskFault /\ Keeps
    BY <1>3 DEF ClarifyIsGated
  <2>2. c.snapshot \in Undos
    <3>1. c \in ReadingsAsked
      BY <1>1 DEF ReadingsHeld
    <3> QED BY <3>1 DEF ReadingsAsked
  <2>3. ShownHeld'
    BY <1>1, <2>1 DEF ShownHeld
  <2>4. ReadingsHeld' /\ PostsHeld'
    BY <1>1, <2>1, ReadingsStay DEF PostsHeld
  <2>5. kept' \in ScreensKept
    BY <2>1, <2>3, KeptHeld DEF DeskTypes, DeskPhases
  <2>6. gate' \in [on : BOOLEAN, answers : Replies, snapshot : Undos]
    BY <1>1, <2>1, <2>2 DEF ShownHeld
  <2> QED BY <2>1, <2>3, <2>4, <2>5, <2>6, DeskFaultHeld DEF DeskHeld
<1>4. CASE GateProceeds
  <2>1. /\ gate' = NoGate /\ Clarify(gate.answers, gate.snapshot)
        /\ UNCHANGED <<recheckTimer, startQueued, gaps, draft, notes, sourceText, kept, posts,
                       given, deskFaults>>
    BY <1>4 DEF GateProceeds
  <2>2. gate.answers \in Replies /\ gate.snapshot \in Undos
    BY DEF DeskHeld
  <2>3. answers' \in Replies /\ ReadingsHeld' /\ lapses' \subseteq Lapses
    BY <2>1, <2>2, ClarifyHeld
  <2>4. ShownHeld' /\ PostsHeld'
    BY <1>1, <2>1, <2>3 DEF ShownHeld, PostsHeld
  <2> QED BY <2>1, <2>3, <2>4, EmptyHeld DEF DeskHeld
<1>5. CASE GateIsDismissed
  <2>1. /\ gate' = NoGate
        /\ UNCHANGED <<recheckTimer, startQueued, gaps, answers, draft, notes, sourceText,
                       clarifies, asked, kept, posts, given, lapses, deskFaults>>
    BY <1>5 DEF GateIsDismissed
  <2>2. ShownHeld' /\ PostsHeld' /\ ReadingsHeld'
    BY <1>1, <2>1, ReadingsStay DEF ShownHeld, PostsHeld
  <2> QED BY <2>1, <2>2, EmptyHeld DEF DeskHeld
<1> QED BY <1>2, <1>3, <1>4, <1>5

\* The re-check, and Start.
LEMMA StartHeld ==
  ASSUME DeskInv, DeskHeld, DeskTypes', RecheckTimerFires \/ PressesStart \/ StartIsAccepted
  PROVE  DeskHeld'
<1>1. ShownHeld /\ ReadingsHeld /\ PostsHeld
  BY DEF DeskHeld
<1>2. UNCHANGED <<gaps, draft, notes, sourceText, gate, given, draftsStale, deskFaults>>
  BY DEF RecheckTimerFires, PressesStart, StartIsAccepted
<1>3. UNCHANGED <<answers, clarifies, asked, lapses>> \/ Clarify(answers, NoSnapshot)
  BY DEF RecheckTimerFires, PressesStart, StartIsAccepted, RunRecheck
<1>4. answers' \in Replies /\ ReadingsHeld' /\ lapses' \subseteq Lapses
  <2>1. CASE UNCHANGED <<answers, clarifies, asked, lapses>>
    BY <1>1, <2>1, ReadingsStay DEF ShownHeld, DeskHeld
  <2>2. CASE Clarify(answers, NoSnapshot)
    BY <1>1, <2>2, ClarifyHeld, EmptyHeld DEF ShownHeld
  <2> QED BY <1>3, <2>1, <2>2
<1>5. ShownHeld'
  BY <1>1, <1>2, <1>4 DEF ShownHeld
<1>6. posts' \subseteq posts \cup {Post(draft.read, lapses)}
  BY DEF RecheckTimerFires, PressesStart, StartIsAccepted
<1>7. draft.read \in Replies
  BY <1>1 DEF ShownHeld, DraftsRead
<1>8. PostsHeld'
  BY <1>1, <1>6, <1>7 DEF PostsHeld, Post, ShownHeld
<1>9. (recheckTimer' = FALSE \/ recheckTimer' = recheckTimer)
      /\ (startQueued' = TRUE \/ startQueued' = startQueued)
  BY DEF RecheckTimerFires, PressesStart, StartIsAccepted, RunRecheck
<1>10. recheckTimer' \in BOOLEAN /\ startQueued' \in BOOLEAN
  BY <1>9 DEF DeskHeld
<1>11. Keeps \/ UNCHANGED kept
  BY DEF RecheckTimerFires, PressesStart, StartIsAccepted
<1>12. kept' \in ScreensKept
  BY <1>5, <1>11, KeptHeld DEF DeskHeld, DeskTypes, DeskPhases
<1> QED BY <1>2, <1>4, <1>5, <1>8, <1>10, <1>12 DEF DeskHeld

\* A reload brings back what was kept; leaving drops it.
LEMMA ReloadHeld ==
  ASSUME DeskInv, DeskHeld, DeskTypes', Reloads \/ LeavesDesk
  PROVE  DeskHeld'
<1>1. ShownHeld /\ ReadingsHeld /\ PostsHeld
  BY DEF DeskHeld
<1>2. /\ recheckTimer' = FALSE /\ startQueued' = FALSE /\ deskFaults' \in 0..MaxDeskFaults
      /\ UNCHANGED <<notes, asked, posts>>
  BY DeskFaultHeld DEF Reloads, LeavesDesk
<1>3. CASE Reloads
  <2>1. /\ gaps' = kept.gaps /\ answers' = kept.answers /\ draft' = kept.draft
        /\ sourceText' = kept.sourceText /\ clarifies' = {} /\ gate' = NoGate
        /\ UNCHANGED <<kept, given, lapses>>
    BY <1>3 DEF Reloads
  <2>2. /\ kept.gaps \in Rows /\ kept.answers \in Replies /\ kept.draft \in DraftsRead
        /\ kept.sourceText \in Notes
    BY DEF DeskHeld, ScreensKept
  <2>3. ShownHeld' /\ PostsHeld'
    BY <1>1, <1>2, <2>1, <2>2 DEF ShownHeld, PostsHeld
  <2>4. ReadingsHeld'
    BY <1>1, <1>2, <2>1, ReadingsStay
  <2> QED BY <1>2, <2>1, <2>3, <2>4, EmptyHeld DEF DeskHeld
<1>4. CASE LeavesDesk
  <2>1. /\ draft' = NoDraft /\ sourceText' = 0 /\ gaps' = NoRows /\ answers' = NoReplies
        /\ given' = NoReplies /\ lapses' \subseteq lapses \cup {"overlap"}
        /\ UNCHANGED <<clarifies, gate>> /\ Keeps
    BY <1>4 DEF LeavesDesk
  <2>2. ShownHeld' /\ PostsHeld'
    BY <1>1, <1>2, <2>1, EmptyHeld DEF ShownHeld, PostsHeld
  <2>3. ReadingsHeld'
    BY <1>1, <1>2, <2>1, ReadingsStay
  <2>4. kept' \in ScreensKept
    BY <2>1, <2>2, KeptHeld DEF DeskTypes, DeskPhases
  <2>5. lapses' \subseteq Lapses
    BY <2>1 DEF DeskHeld, Lapses
  <2> QED BY <1>2, <2>1, <2>2, <2>3, <2>4, <2>5 DEF DeskHeld
<1> QED BY <1>3, <1>4

\* Every step keeps what the desk's variables hold.
LEMMA DeskHeldStep == DeskInv /\ DeskHeld /\ [PracticeDeskNext]_deskVars => DeskHeld'
<1> SUFFICES ASSUME DeskInv, DeskHeld, [PracticeDeskNext]_deskVars PROVE DeskHeld'
  OBVIOUS
<1>1. DeskTypes'
  BY DeskStep DEF DeskInv
<1>2. CASE UNCHANGED deskVars
  BY <1>2 DEF deskVars, DeskHeld, ShownHeld, ReadingsHeld, PostsHeld
<1>3. ASSUME NEW c \in clarifies, Lands(c) PROVE DeskHeld'
  <2>1. LandsReading(c, FALSE) /\ deskFaults' \in 0..MaxDeskFaults
    BY <1>3 DEF Lands, DeskHeld
  <2> QED BY <1>1, <2>1, LandingHeld
<1>4. ASSUME NEW c \in clarifies, LandsBlind(c) PROVE DeskHeld'
  <2>1. LandsReading(c, TRUE) /\ deskFaults' \in 0..MaxDeskFaults
    BY <1>4, DeskFaultHeld DEF LandsBlind
  <2> QED BY <1>1, <2>1, LandingHeld
<1>5. CASE EditsNotes \/ Generates \/ GeneratesByKey \/ GoesBack \/ Corrects
  BY <1>1, <1>5, ComposerHeld
<1>6. CASE \E g \in DeskGaps : AnswersGap(g)
  BY <1>1, <1>6, AnsweringHeld
<1>7. CASE \/ \E c \in clarifies : ClarifyFails(c) \/ ClarifyIsGated(c)
           \/ GateProceeds \/ GateIsDismissed
  BY <1>1, <1>7, GatesHeld
<1>8. CASE RecheckTimerFires \/ PressesStart \/ StartIsAccepted
  BY <1>1, <1>8, StartHeld
<1>9. CASE Reloads \/ LeavesDesk
  BY <1>1, <1>9, ReloadHeld
<1> QED BY <1>2, <1>3, <1>4, <1>5, <1>6, <1>7, <1>8, <1>9 DEF PracticeDeskNext

---------------------------------------------------------------------------
(* What the planner's variables hold.                                      *)

\* A proposal of a turn that was sent; turns, accepts and directories that hold
\* no other.
OfTurn(x) == x.n <= MaxPlanTurns
TurnsHeld(R) == \A r \in R : OfTurn(r.proposal) /\ (r.stage = "thinking" => r.n <= MaxPlanTurns)
AcceptsHeld(A) ==
  \A a \in A : OfTurn(a.shown) /\ OfTurn(a.read) /\ OfTurn(a.topics) /\ a.n <= MaxAccepts
DirHeld(d) ==
  /\ OfTurn(d.rounds) /\ OfTurn(d.topics)
  /\ \A i \in DOMAIN d.conversation : OfTurn(d.conversation[i])
  /\ d.laid <= MaxAccepts

PlanHeld ==
  /\ sentTurns <= MaxPlanTurns /\ sentAccepts <= MaxAccepts
  /\ \A p \in Plans : DirHeld(planDir[p])
  /\ OfTurn(page.shown)
  /\ TurnsHeld(planTurns) /\ AcceptsHeld(accepts)
  /\ planFaults \in 0..MaxPlanFaults

\* At the planner.
LEMMA PlanHolds == PlanInv /\ PlanHeld => PlanDeskTypeOK
<1> SUFFICES ASSUME PlanInv, PlanHeld PROVE PlanDeskTypeOK
  OBVIOUS
<1>1. \A x \in ProposalShapes : OfTurn(x) => x \in Proposals
  BY PlanBoundsAssumption DEF ProposalShapes, Proposals, OfTurn
<1>2. ASSUME NEW p \in Plans
      PROVE  LET d == planDir[p] IN
               /\ {d.exists, d.built} \subseteq BOOLEAN
               /\ {d.rounds, d.topics} \subseteq Proposals
               /\ \A i \in DOMAIN d.conversation : d.conversation[i] \in Proposals
               /\ d.laid \in 0..MaxAccepts
  <2> DEFINE d == planDir[p]
  <2>1. d \in DirShapes /\ DirHeld(d)
    BY PlanFacts DEF PlanHeld
  <2> HIDE DEF d
  <2>2. /\ d.rounds \in ProposalShapes /\ d.topics \in ProposalShapes
        /\ d.conversation \in Seq(ProposalShapes) /\ d.laid \in Nat
        /\ d.exists \in BOOLEAN /\ d.built \in BOOLEAN
    BY <2>1 DEF DirShapes
  <2>3. \A i \in DOMAIN d.conversation : d.conversation[i] \in Proposals
    BY <1>1, <2>1, <2>2 DEF DirHeld
  <2>4. d.laid \in 0..MaxAccepts
    BY <2>1, <2>2, PlanBoundsAssumption DEF DirHeld
  <2> QED BY <1>1, <2>1, <2>2, <2>3, <2>4 DEF DirHeld, d
<1>3. page.tid \in Plans \union {"none"} /\ page.busy \in BOOLEAN /\ page.shown \in Proposals
  BY <1>1, PlanFacts DEF PlanHeld
<1>4. \A r \in planTurns :
       /\ r.kind \in {"turn", "load"} /\ r.of \in Plans /\ r.visit \in BOOLEAN
       /\ r.stage \in {"thinking", "answered", "failed"}
       /\ r.proposal \in Proposals
  BY <1>1, PlanFacts DEF PlanHeld, TurnsHeld, TurnShapes
<1>5. \A a \in accepts :
       /\ a.of \in Plans /\ a.shown \in Proposals /\ a.read \in Proposals
       /\ a.stage \in {"sent", "saved", "naming", "done"}
  BY <1>1, PlanFacts DEF PlanHeld, AcceptsHeld, AcceptShapes
<1>6. worked \subseteq born /\ born \subseteq Plans /\ planLapses \subseteq {"late", "missed", "twice"}
  BY DEF PlanInv, PlanTypes
<1>7. \A c \in creations :
       /\ c.of \in Plans /\ c.visit \in BOOLEAN
       /\ c.stage \in {"asked", "made", "refused", "gated"}
  BY PlanFacts DEF CreationShapes
<1> QED BY <1>2, <1>3, <1>4, <1>5, <1>6, <1>7 DEF PlanDeskTypeOK, PlanHeld

\* Nothing was proposed.
LEMMA NothingHeld == OfTurn(NoProposal) /\ DirHeld(NoDir) /\ OfTurn(NoPage.shown)
<1>1. OfTurn(NoProposal)
  BY PlanBoundsAssumption DEF OfTurn, NoProposal
<1>2. NoPage.shown = NoProposal
  BY DEF NoPage
<1>3. NoDir.rounds = NoProposal /\ NoDir.topics = NoProposal /\ NoDir.conversation = <<>> /\ NoDir.laid = 0
  BY DEF NoDir
<1>4. DOMAIN NoDir.conversation = {}
  BY <1>3
<1> QED BY <1>1, <1>2, <1>3, <1>4, PlanBoundsAssumption DEF DirHeld

LEMMA PlanHeldStarts == PlanDeskInit => PlanHeld
<1> SUFFICES ASSUME PlanDeskInit PROVE PlanHeld
  OBVIOUS
<1>1. /\ \A p \in Plans : planDir[p] = NoDir
      /\ page = NoPage /\ planTurns = {} /\ accepts = {} /\ sentTurns = 0 /\ sentAccepts = 0
      /\ planFaults = 0
  BY DEF PlanDeskInit
<1> QED BY <1>1, NothingHeld, PlanBoundsAssumption DEF PlanHeld, TurnsHeld, AcceptsHeld

\* The latest of proposals of turns is one.
LEMMA LatestHeld ==
  ASSUME NEW d \in DirShapes, DirHeld(d)
  PROVE  OfTurn(LatestProposal(d.conversation))
<1>1. d.conversation \in Seq(ProposalShapes)
  BY DEF DirShapes
<1>2. LatestProposal(d.conversation) = NoProposal
      \/ \E i \in DOMAIN d.conversation : LatestProposal(d.conversation) = d.conversation[i]
  BY <1>1, LatestIsStored
<1> QED BY <1>2, NothingHeld DEF DirHeld

\* The requests of an earlier visit carry what they carried.
LEMMA OutdatedHeld ==
  ASSUME NEW R \in SUBSET TurnShapes, TurnsHeld(R)
  PROVE  TurnsHeld(Outdated(R))
<1> DEFINE old(r) == [r EXCEPT !.visit = FALSE]
<1>1. \A r \in R : old(r).proposal = r.proposal /\ old(r).stage = r.stage /\ old(r).n = r.n
  BY DEF TurnShapes
<1>2. \A s \in Outdated(R) : \E r \in R : s = old(r)
  BY DEF Outdated
<1> HIDE DEF old
<1> QED BY <1>1, <1>2 DEF TurnsHeld

\* A turn is sent.
LEMMA SendingHeld ==
  ASSUME PlanInv, PlanHeld, NEW p \in Plans, NEW others \in SUBSET planTurns, SendsTurn(p, others)
  PROVE  sentTurns' <= MaxPlanTurns /\ TurnsHeld(planTurns') /\ AcceptsHeld(accepts')
<1>1. /\ sentTurns \in Nat /\ sentTurns < MaxPlanTurns /\ sentTurns' = sentTurns + 1
      /\ planTurns' = others \cup {Turn(p)}
      /\ accepts' = {[a EXCEPT !.quiet = @ /\ a.of # p] : a \in accepts}
  BY PlanFacts DEF SendsTurn
<1>2. sentTurns' <= MaxPlanTurns
  BY <1>1, PlanBoundsAssumption
<1>3. Turn(p).proposal = NoProposal /\ Turn(p).n = sentTurns + 1
  BY DEF Turn
<1>4. TurnsHeld(planTurns')
  BY <1>1, <1>2, <1>3, NothingHeld DEF TurnsHeld, PlanHeld
<1>5. AcceptsHeld(accepts')
  <2> DEFINE aft(a) == [a EXCEPT !.quiet = @ /\ a.of # p]
  <2>1. ASSUME NEW a \in accepts
        PROVE  aft(a).shown = a.shown /\ aft(a).read = a.read /\ aft(a).topics = a.topics /\ aft(a).n = a.n
    <3>1. a \in AcceptShapes
      BY PlanFacts
    <3>2. PICK q : q = (a.quiet /\ a.of # p)
      OBVIOUS
    <3>3. aft(a) = [a EXCEPT !.quiet = q]
      BY <3>2
    <3> HIDE DEF aft
    <3> QED BY <3>1, <3>3 DEF AcceptShapes
  <2>2. \A b \in accepts' : \E a \in accepts : b = aft(a)
    BY <1>1
  <2> HIDE DEF aft
  <2> QED BY <2>1, <2>2 DEF AcceptsHeld, PlanHeld
<1> QED BY <1>2, <1>4, <1>5

\* One directory changes, to one that holds no other proposals.
LEMMA DirsHeld ==
  ASSUME PlanInv, PlanHeld, NEW p \in Plans, NEW d, DirHeld(d), planDir' = [planDir EXCEPT ![p] = d]
  PROVE  \A q \in Plans : DirHeld(planDir'[q])
<1>1. planDir \in [Plans -> DirShapes] /\ \A q \in Plans : DirHeld(planDir[q])
  BY DEF PlanInv, PlanTypes, PlanHeld
<1>2. \A q \in Plans : planDir'[q] = IF q = p THEN d ELSE planDir[q]
  BY <1>1
<1> QED BY <1>1, <1>2

\* The steps of the page that send a turn, or may.
LEMMA TalkingHeld ==
  ASSUME PlanInv, PlanHeld,
         \/ \E c \in creations : CreationLands(c)
         \/ Says
         \/ \E r \in planTurns : ReplyLands(r)
  PROVE  PlanHeld'
<1>1. ASSUME NEW c \in creations, CreationLands(c)
      PROVE  PlanHeld'
  <2>1. /\ c.of \in Plans /\ SendsTurn(c.of, planTurns) /\ page'.shown = page.shown
        /\ UNCHANGED <<planDir, sentAccepts, planFaults>>
    BY <1>1, PlanFacts DEF CreationLands
  <2>2. sentTurns' <= MaxPlanTurns /\ TurnsHeld(planTurns') /\ AcceptsHeld(accepts')
    BY <2>1, SendingHeld
  <2> QED BY <2>1, <2>2 DEF PlanHeld
<1>2. CASE Says
  <2>1. /\ page.tid \in Plans /\ SendsTurn(page.tid, planTurns)
        /\ UNCHANGED <<planDir, sentAccepts, planFaults>>
        /\ page'.shown = page.shown
    BY <1>2, PlanFacts DEF Says
  <2>2. sentTurns' <= MaxPlanTurns /\ TurnsHeld(planTurns') /\ AcceptsHeld(accepts')
    BY <2>1, SendingHeld
  <2> QED BY <2>1, <2>2 DEF PlanHeld
<1>3. ASSUME NEW r \in planTurns, ReplyLands(r)
      PROVE  PlanHeld'
  <2>1. UNCHANGED <<planDir, sentAccepts, planFaults>>
    BY <1>3 DEF ReplyLands
  <2>2. PICK begins : begins = (r.kind = "load" /\ planDir[r.of].conversation = <<>>
                                /\ page.tid # "none" /\ sentTurns < MaxPlanTurns)
    OBVIOUS
  <2>3. PICK x : x = IF r.kind = "load" \/ r.proposal # NoProposal THEN r.proposal ELSE page.shown
    OBVIOUS
  <2>4. /\ page' = [page EXCEPT !.busy = begins, !.shown = x]
        /\ IF begins THEN SendsTurn(page.tid, planTurns \ {r})
           ELSE planTurns' = planTurns \ {r} /\ UNCHANGED <<sentTurns, accepts>>
    BY <1>3, <2>2, <2>3 DEF ReplyLands
  <2>5. OfTurn(x)
    BY <2>3 DEF PlanHeld, TurnsHeld
  <2>6. page'.shown = x
    BY <2>4, PlanFacts
  <2>7. sentTurns' <= MaxPlanTurns /\ TurnsHeld(planTurns') /\ AcceptsHeld(accepts')
    <3>1. CASE begins
      <4>1. page.tid \in Plans
        BY <2>2, <3>1, PlanFacts
      <4>2. planTurns \ {r} \in SUBSET planTurns /\ SendsTurn(page.tid, planTurns \ {r})
        BY <2>4, <3>1
      <4> QED BY <4>1, <4>2, SendingHeld
    <3>2. CASE ~ begins
      BY <2>4, <3>2 DEF PlanHeld, TurnsHeld
    <3> QED BY <3>1, <3>2
  <2> QED BY <2>1, <2>5, <2>6, <2>7 DEF PlanHeld
<1> QED BY <1>1, <1>2, <1>3

\* The page is left, a plan is opened, and a round is confirmed.
LEMMA VisitHeld ==
  ASSUME PlanInv, PlanHeld, LeavesPlan \/ Confirms \/ \E p \in Plans : OpensPlan(p)
  PROVE  PlanHeld'
<1>1. CASE LeavesPlan
  <2>1. /\ page' = NoPage /\ planTurns' = Outdated(planTurns)
        /\ UNCHANGED <<planDir, accepts, sentTurns, sentAccepts, planFaults>>
    BY <1>1 DEF LeavesPlan
  <2>2. TurnsHeld(planTurns')
    BY <2>1, PlanFacts, OutdatedHeld DEF PlanHeld
  <2> QED BY <2>1, <2>2, NothingHeld DEF PlanHeld
<1>2. CASE Confirms
  <2> DEFINE a0 == [n |-> sentAccepts + 1, of |-> page.tid, shown |-> page.shown, stage |-> "sent",
                    read |-> NoProposal, topics |-> NoProposal,
                    quiet |-> ~\E r \in planTurns : r.of = page.tid]
  <2>1. /\ accepts' = accepts \cup {a0} /\ sentAccepts' = sentAccepts + 1 /\ sentAccepts < MaxAccepts
        /\ UNCHANGED <<planDir, page, planTurns, sentTurns, planFaults>>
    BY <1>2 DEF Confirms
  <2>2. a0.n = sentAccepts + 1 /\ a0.shown = page.shown /\ a0.read = NoProposal /\ a0.topics = NoProposal
    OBVIOUS
  <2> HIDE DEF a0
  <2>3. sentAccepts' <= MaxAccepts
    BY <2>1, PlanFacts, PlanBoundsAssumption
  <2>4. AcceptsHeld(accepts')
    BY <2>1, <2>2, <2>3, NothingHeld DEF AcceptsHeld, PlanHeld
  <2> QED BY <2>1, <2>3, <2>4 DEF PlanHeld
<1>3. ASSUME NEW p \in Plans, OpensPlan(p)
      PROVE  PlanHeld'
  <2> DEFINE newestPlan == LatestProposal(planDir[p].conversation)
             r0 == [kind |-> "load", of |-> p, n |-> opens + 1, visit |-> TRUE, stage |-> "answered",
                    proposal |-> newestPlan, reply |-> TRUE]
  <2>1. /\ planTurns' = Outdated(planTurns) \cup {r0}
        /\ page' = [tid |-> p, busy |-> TRUE, shown |-> NoProposal]
        /\ UNCHANGED <<planDir, accepts, sentTurns, sentAccepts, planFaults>>
    BY <1>3 DEF OpensPlan
  <2>2. OfTurn(newestPlan)
    BY PlanFacts, LatestHeld DEF PlanHeld
  <2> HIDE DEF newestPlan
  <2>3. r0.proposal = newestPlan /\ r0.stage = "answered"
    OBVIOUS
  <2> HIDE DEF r0
  <2>4. TurnsHeld(Outdated(planTurns))
    BY PlanFacts, OutdatedHeld DEF PlanHeld
  <2>5. TurnsHeld(planTurns')
    BY <2>1, <2>2, <2>3, <2>4 DEF TurnsHeld
  <2>6. OfTurn(page'.shown)
    BY <2>1, NothingHeld
  <2> QED BY <2>1, <2>5, <2>6 DEF PlanHeld
<1> QED BY <1>1, <1>2, <1>3

\* A fault is counted.
LEMMA PlanFaultHeld == ASSUME PlanHeld, PlanFault PROVE planFaults' \in 0..MaxPlanFaults
BY PlanBoundsAssumption DEF PlanHeld, PlanFault

\* A turn lands or fails, or its reply is lost.
LEMMA TurnsEndHeld ==
  ASSUME PlanInv, PlanHeld, NEW r \in planTurns,
         (\E proposes \in BOOLEAN : TurnLands(r, proposes)) \/ TurnFails(r) \/ ReplyIsLost(r)
  PROVE  PlanHeld'
<1>1. r \in TurnShapes /\ r.of \in Plans /\ TurnsHeld(planTurns)
      /\ OfTurn(r.proposal) /\ (r.stage = "thinking" => r.n <= MaxPlanTurns)
  BY PlanFacts DEF PlanHeld, TurnsHeld
<1>2. ASSUME NEW proposes \in BOOLEAN, TurnLands(r, proposes)
      PROVE  PlanHeld'
  <2>1. PICK x : x = IF proposes THEN [of |-> r.of, n |-> r.n] ELSE NoProposal
    OBVIOUS
  <2> DEFINE s == [r EXCEPT !.stage = "answered", !.proposal = x]
             c == planDir[r.of].conversation
             d == [planDir[r.of] EXCEPT !.conversation = Append(c, x)]
  <2>2. /\ r.stage = "thinking" /\ planDir' = [planDir EXCEPT ![r.of] = d]
        /\ planTurns' \subseteq planTurns \cup {s}
        /\ UNCHANGED <<page, accepts, sentTurns, sentAccepts, planFaults>>
    <3>1. planDir' = [planDir EXCEPT ![r.of].conversation = Append(@, x)]
      BY <1>2, <2>1 DEF TurnLands
    <3>2. planDir' = [planDir EXCEPT ![r.of] = d]
      BY <3>1
    <3>3. planTurns' \subseteq planTurns \cup {s}
      BY <1>2, <2>1 DEF TurnLands
    <3> QED BY <1>2, <3>2, <3>3 DEF TurnLands
  <2>3. OfTurn(x)
    BY <1>1, <2>1, <2>2, NothingHeld DEF OfTurn
  <2>4. s.proposal = x /\ s.stage = "answered"
    BY <1>1 DEF TurnShapes
  <2>5. DirHeld(d)
    <3>1. planDir[r.of] \in DirShapes /\ DirHeld(planDir[r.of]) /\ c \in Seq(ProposalShapes)
      BY <1>1, PlanFacts DEF PlanHeld
    <3>2. PICK w : w = Append(c, x)
      OBVIOUS
    <3>3. /\ d.rounds = planDir[r.of].rounds /\ d.topics = planDir[r.of].topics
          /\ d.conversation = w /\ d.laid = planDir[r.of].laid
      BY <3>1, <3>2 DEF DirShapes
    <3> HIDE DEF d
    <3>4. \A i \in DOMAIN c : OfTurn(c[i])
      BY <3>1 DEF DirHeld
    <3> HIDE DEF c
    <3>5. \A i \in DOMAIN w : w[i] = x \/ (i \in DOMAIN c /\ w[i] = c[i])
      BY <3>1, <3>2
    <3> QED BY <2>3, <3>1, <3>3, <3>4, <3>5 DEF DirHeld
  <2> HIDE DEF s, c, d
  <2>6. TurnsHeld(planTurns')
    BY <1>1, <2>2, <2>3, <2>4 DEF TurnsHeld
  <2>7. \A q \in Plans : DirHeld(planDir'[q])
    BY <1>1, <2>2, <2>5, DirsHeld
  <2> QED BY <2>2, <2>6, <2>7 DEF PlanHeld
<1>3. CASE TurnFails(r) \/ ReplyIsLost(r)
  <2> DEFINE f == [r EXCEPT !.stage = "failed"]
             g == [r EXCEPT !.reply = FALSE]
  <2>1. /\ planTurns' \subseteq planTurns \cup {f, g}
        /\ UNCHANGED <<planDir, accepts, sentTurns, sentAccepts>> /\ PlanFault
        /\ page'.shown = page.shown
    BY <1>3, PlanFacts DEF TurnFails, ReplyIsLost
  <2>2. /\ f.proposal = r.proposal /\ f.stage = "failed"
        /\ g.proposal = r.proposal /\ g.stage = r.stage /\ g.n = r.n
    BY <1>1 DEF TurnShapes
  <2> HIDE DEF f, g
  <2>3. TurnsHeld(planTurns')
    BY <1>1, <2>1, <2>2 DEF TurnsHeld
  <2> QED BY <2>1, <2>3, PlanFaultHeld DEF PlanHeld
<1> QED BY <1>2, <1>3

\* An accept goes on, with proposals of turns.
LEMMA AcceptingHeld ==
  ASSUME AcceptsHeld(accepts), NEW a \in accepts, NEW b, To(a, b),
         OfTurn(b.shown), OfTurn(b.read), OfTurn(b.topics), b.n <= MaxAccepts
  PROVE  AcceptsHeld(accepts')
BY DEF To, AcceptsHeld

\* The steps of an accept.
LEMMA AcceptStepHeld ==
  ASSUME PlanInv, PlanHeld, NEW a \in accepts,
         AcceptArrives(a) \/ AcceptReads(a) \/ AcceptLays(a) \/ AcceptIsAnswered(a)
  PROVE  PlanHeld'
<1> DEFINE d == planDir[a.of]
<1>1. /\ a \in AcceptShapes /\ a.of \in Plans /\ AcceptsHeld(accepts) /\ TurnsHeld(planTurns)
      /\ OfTurn(a.shown) /\ OfTurn(a.read) /\ OfTurn(a.topics) /\ a.n <= MaxAccepts
      /\ d \in DirShapes /\ DirHeld(d)
  BY PlanFacts DEF PlanHeld, AcceptsHeld
<1>2. OfTurn(d.topics) /\ OfTurn(LatestProposal(d.conversation))
  BY <1>1, LatestHeld DEF DirHeld
<1>3. CASE AcceptArrives(a)
  <2> DEFINE e == [d EXCEPT !.rounds = a.shown]
             b == [a EXCEPT !.stage = "saved", !.topics = d.topics]
  <2>1. /\ \/ planDir' = [planDir EXCEPT ![a.of] = e] /\ To(a, b)
           \/ planDir' = planDir /\ accepts' = accepts \ {a}
        /\ UNCHANGED <<page, planTurns, sentTurns, sentAccepts, planFaults>>
    BY <1>3 DEF AcceptArrives
  <2>2. DirHeld(e)
    <3>1. /\ e.rounds = a.shown /\ e.topics = d.topics /\ e.conversation = d.conversation
          /\ e.laid = d.laid
      BY <1>1 DEF DirShapes
    <3> HIDE DEF e, d
    <3> QED BY <1>1, <3>1 DEF DirHeld
  <2>3. b.shown = a.shown /\ b.read = a.read /\ b.topics = d.topics /\ b.n = a.n
    BY <1>1 DEF AcceptShapes
  <2> HIDE DEF e, b, d
  <2>4. AcceptsHeld(accepts')
    <3>1. CASE To(a, b)
      BY <1>1, <1>2, <2>3, <3>1, AcceptingHeld
    <3>2. CASE accepts' = accepts \ {a}
      BY <1>1, <3>2 DEF AcceptsHeld
    <3> QED BY <2>1, <3>1, <3>2
  <2>5. \A q \in Plans : DirHeld(planDir'[q])
    BY <1>1, <2>1, <2>2, DirsHeld DEF PlanHeld
  <2> QED BY <2>1, <2>4, <2>5 DEF PlanHeld
<1>4. CASE AcceptReads(a)
  <2> DEFINE newestPlan == LatestProposal(d.conversation)
             e == [d EXCEPT !.exists = TRUE, !.topics = newestPlan, !.rounds = a.shown]
             stage == IF LaysQueue(a) THEN "naming" ELSE "done"
             b == [a EXCEPT !.read = newestPlan, !.stage = stage]
  <2>1. /\ planDir' = [planDir EXCEPT ![a.of] = e] \/ planDir' = planDir
        /\ To(a, b)
        /\ UNCHANGED <<page, planTurns, sentTurns, sentAccepts, planFaults>>
    BY <1>1, <1>4 DEF AcceptReads
  <2>2. DirHeld(e)
    <3>1. PICK x : x = newestPlan
      OBVIOUS
    <3>2. /\ e.rounds = a.shown /\ e.topics = x /\ e.conversation = d.conversation
          /\ e.laid = d.laid
      BY <1>1, <3>1 DEF DirShapes
    <3>3. OfTurn(x)
      BY <1>2, <3>1
    <3> HIDE DEF e, d, newestPlan
    <3> QED BY <1>1, <3>2, <3>3 DEF DirHeld
  <2> HIDE DEF stage, newestPlan
  <2>3. b.shown = a.shown /\ b.read = newestPlan /\ b.topics = a.topics /\ b.n = a.n
    BY <1>1 DEF AcceptShapes
  <2> HIDE DEF e, b
  <2>4. OfTurn(newestPlan)
    BY <1>2 DEF newestPlan
  <2>5. AcceptsHeld(accepts')
    BY <1>1, <2>1, <2>3, <2>4, AcceptingHeld
  <2>6. \A q \in Plans : DirHeld(planDir'[q])
    BY <1>1, <2>1, <2>2, DirsHeld DEF PlanHeld
  <2> QED BY <2>1, <2>5, <2>6 DEF PlanHeld
<1>5. CASE AcceptLays(a)
  <2> DEFINE e == [d EXCEPT !.laid = a.n, !.built = FALSE]
             b == [a EXCEPT !.stage = "done"]
  <2>1. /\ planDir' = [planDir EXCEPT ![a.of] = e] /\ To(a, b)
        /\ UNCHANGED <<page, planTurns, sentTurns, sentAccepts, planFaults>>
    BY <1>1, <1>5 DEF AcceptLays
  <2>2. DirHeld(e)
    <3>1. /\ e.rounds = d.rounds /\ e.topics = d.topics /\ e.conversation = d.conversation
          /\ e.laid = a.n
      BY <1>1 DEF DirShapes
    <3> HIDE DEF e, d
    <3> QED BY <1>1, <3>1 DEF DirHeld
  <2>3. b.shown = a.shown /\ b.read = a.read /\ b.topics = a.topics /\ b.n = a.n
    BY <1>1 DEF AcceptShapes
  <2> HIDE DEF e, b
  <2>4. AcceptsHeld(accepts')
    BY <1>1, <2>1, <2>3, AcceptingHeld
  <2>5. \A q \in Plans : DirHeld(planDir'[q])
    BY <1>1, <2>1, <2>2, DirsHeld
  <2> QED BY <2>1, <2>4, <2>5 DEF PlanHeld
<1>6. CASE AcceptIsAnswered(a)
  <2>1. /\ accepts' = accepts \ {a} /\ page' = NoPage /\ planTurns' = Outdated(planTurns)
        /\ UNCHANGED <<planDir, sentTurns, sentAccepts, planFaults>>
    BY <1>6 DEF AcceptIsAnswered
  <2>2. TurnsHeld(planTurns')
    BY <1>1, <2>1, PlanFacts, OutdatedHeld
  <2>3. AcceptsHeld(accepts')
    BY <1>1, <2>1 DEF AcceptsHeld
  <2> QED BY <2>1, <2>2, <2>3, NothingHeld DEF PlanHeld
<1> QED BY <1>3, <1>4, <1>5, <1>6

\* A round is built, a plan is deleted.
LEMMA DirStepHeld ==
  ASSUME PlanInv, PlanHeld, NEW p \in Plans, BuildsRound(p) \/ DeletesPlan(p)
  PROVE  PlanHeld'
<1>1. UNCHANGED <<page, planTurns, accepts, sentTurns, sentAccepts>>
  BY DEF BuildsRound, DeletesPlan
<1>2. planFaults' \in 0..MaxPlanFaults
  BY PlanFaultHeld DEF BuildsRound, DeletesPlan, PlanHeld
<1>3. PICK d : DirHeld(d) /\ planDir' = [planDir EXCEPT ![p] = d]
  <2>1. CASE BuildsRound(p)
    <3> DEFINE d == [planDir[p] EXCEPT !.built = TRUE]
    <3>1. planDir' = [planDir EXCEPT ![p] = d]
      BY <2>1 DEF BuildsRound
    <3>2. planDir[p] \in DirShapes /\ DirHeld(planDir[p])
      BY PlanFacts DEF PlanHeld
    <3>3. /\ d.rounds = planDir[p].rounds /\ d.topics = planDir[p].topics
          /\ d.conversation = planDir[p].conversation /\ d.laid = planDir[p].laid
      BY <3>2 DEF DirShapes
    <3> HIDE DEF d
    <3>4. DirHeld(d)
      BY <3>2, <3>3 DEF DirHeld
    <3> QED BY <3>1, <3>4
  <2>2. CASE DeletesPlan(p)
    BY <2>2, NothingHeld DEF DeletesPlan
  <2> QED BY <2>1, <2>2
<1>4. \A q \in Plans : DirHeld(planDir'[q])
  BY <1>3, DirsHeld
<1> QED BY <1>1, <1>2, <1>4 DEF PlanHeld

\* A plan is asked for, made or refused.
LEMMA CreatingHeld ==
  ASSUME PlanInv, PlanHeld,
         \/ \E p \in Plans : AsksForPlan(p)
         \/ \E c \in creations :
              \/ PlanIsMade(c) \/ PlanIsRefused(c) \/ CreationIsLost(c)
              \/ RefusalLands(c) \/ CardLetsThrough(c) \/ CardIsDismissed(c)
  PROVE  PlanHeld'
<1>1. ASSUME NEW c \in creations, PlanIsMade(c)
      PROVE  PlanHeld'
  <2> DEFINE d == [planDir[c.of] EXCEPT !.exists = TRUE]
  <2>1. /\ c.of \in Plans /\ planDir' = [planDir EXCEPT ![c.of] = d]
        /\ UNCHANGED <<page, planTurns, accepts, sentTurns, sentAccepts, planFaults>>
    BY <1>1, PlanFacts DEF PlanIsMade
  <2>2. DirHeld(d)
    <3>1. planDir[c.of] \in DirShapes /\ DirHeld(planDir[c.of])
      BY <2>1, PlanFacts DEF PlanHeld
    <3>2. /\ d.rounds = planDir[c.of].rounds /\ d.topics = planDir[c.of].topics
          /\ d.conversation = planDir[c.of].conversation /\ d.laid = planDir[c.of].laid
      BY <3>1 DEF DirShapes
    <3> HIDE DEF d
    <3> QED BY <3>1, <3>2 DEF DirHeld
  <2> HIDE DEF d
  <2>3. \A q \in Plans : DirHeld(planDir'[q])
    BY <2>1, <2>2, DirsHeld
  <2> QED BY <2>1, <2>3 DEF PlanHeld
<1>2. CASE \E c \in creations : PlanIsRefused(c) \/ CreationIsLost(c)
  <2>1. /\ UNCHANGED <<planDir, planTurns, accepts, sentTurns, sentAccepts>> /\ PlanFault
        /\ page'.shown = page.shown
    BY <1>2, PlanFacts DEF PlanIsRefused, CreationIsLost
  <2> QED BY <2>1, PlanFaultHeld DEF PlanHeld
<1>3. CASE \/ \E p \in Plans : AsksForPlan(p)
           \/ \E c \in creations : RefusalLands(c) \/ CardLetsThrough(c) \/ CardIsDismissed(c)
  <2>1. /\ UNCHANGED <<planDir, planTurns, accepts, sentTurns, sentAccepts, planFaults>>
        /\ page'.shown = page.shown
    BY <1>3, PlanFacts DEF AsksForPlan, RefusalLands, CardLetsThrough, CardIsDismissed
  <2> QED BY <2>1 DEF PlanHeld
<1> QED BY <1>1, <1>2, <1>3

\* Every step keeps what the planner's variables hold.
LEMMA PlanHeldStep == PlanInv /\ PlanHeld /\ [PlanDeskNext]_planVars => PlanHeld'
<1> SUFFICES ASSUME PlanInv, PlanHeld, [PlanDeskNext]_planVars PROVE PlanHeld'
  OBVIOUS
<1>1. CASE UNCHANGED planVars
  BY <1>1 DEF planVars, PlanHeld
<1>2. CASE \/ \E c \in creations : CreationLands(c)
           \/ Says
           \/ \E r \in planTurns : ReplyLands(r)
  BY <1>2, TalkingHeld
<1>3. CASE LeavesPlan \/ Confirms \/ \E p \in Plans : OpensPlan(p)
  BY <1>3, VisitHeld
<1>4. CASE \E r \in planTurns :
             (\E proposes \in BOOLEAN : TurnLands(r, proposes)) \/ TurnFails(r) \/ ReplyIsLost(r)
  BY <1>4, TurnsEndHeld
<1>5. CASE \E a \in accepts :
             AcceptArrives(a) \/ AcceptReads(a) \/ AcceptLays(a) \/ AcceptIsAnswered(a)
  BY <1>5, AcceptStepHeld
<1>6. CASE \E p \in Plans : BuildsRound(p) \/ DeletesPlan(p)
  BY <1>6, DirStepHeld
<1>7. CASE \/ \E p \in Plans : AsksForPlan(p)
           \/ \E c \in creations :
                \/ PlanIsMade(c) \/ PlanIsRefused(c) \/ CreationIsLost(c)
                \/ RefusalLands(c) \/ CardLetsThrough(c) \/ CardIsDismissed(c)
  BY <1>7, CreatingHeld
<1> QED BY <1>1, <1>2, <1>3, <1>4, <1>5, <1>6, <1>7 DEF PlanDeskNext

---------------------------------------------------------------------------
(* Every page's variables.                                                 *)

PagesInv ==
  /\ VoiceInv /\ EditorInv /\ PageInv /\ DeskInv /\ PlanInv /\ InitiativeInv /\ DoorInv
  /\ CardInv /\ SpeechInv

PagesHeld ==
  /\ on \in Pages
  /\ VoiceHeld /\ EditorHeld /\ PageHeld /\ DeskHeld /\ PlanHeld /\ InitiativeHeld /\ DoorHeld
  /\ CardHeld /\ SpeechHeld

\* Whatever a candidate, the interviewer, the timers and the network do on a page,
\* its variables hold what the program can put there, and stay in their bounds: in
\* particular the trace never holds more edits than were typed, for any number of
\* events lost or overtaken.
THEOREM PagesTypes == Spec => []TypeOK
<1>1. Init => PagesInv
  BY VoiceStarts, EditorStarts, PageStarts, DeskStarts, PlanStarts, InitiativeStarts, DoorStarts,
     CardStarts, ConversationStarts DEF Init, PagesInv
<1>2. PagesInv /\ [Next]_pageVars => PagesInv'
  BY PagesStep, VoiceStep, EditorStep, PageStep, DeskStep, PlanStep, InitiativeStep, DoorStep,
     CardStep, SpeechStep DEF PagesInv
<1>3. Init => PagesHeld
  BY VoiceHeldStarts, EditorHeldStarts, PageHeldStarts, DeskHeldStarts, PlanHeldStarts,
     InitiativeHeldStarts, DoorHeldStarts, CardHeldStarts, SpeechHeldStarts DEF Init, PagesHeld
<1>4. PagesInv /\ PagesHeld /\ [Next]_pageVars => PagesHeld'
  <2> SUFFICES ASSUME PagesInv, PagesHeld, [Next]_pageVars PROVE PagesHeld'
    OBVIOUS
  <2>1. on' \in Pages
    BY DEF Next, pageVars, PagesHeld
  <2>2. VoiceHeld' /\ EditorHeld' /\ PageHeld' /\ DeskHeld' /\ PlanHeld'
    BY PagesStep, VoiceHeldStep, EditorHeldStep, PageHeldStep, DeskHeldStep, PlanHeldStep
       DEF PagesInv, PagesHeld
  <2>3. InitiativeHeld' /\ DoorHeld' /\ CardHeld' /\ SpeechHeld'
    BY PagesStep, InitiativeHeldStep, DoorHeldStep, CardHeldStep, SpeechHeldStep
       DEF PagesInv, PagesHeld
  <2> QED BY <2>1, <2>2, <2>3 DEF PagesHeld
<1>5. PagesInv /\ PagesHeld => TypeOK
  BY VoiceHolds, EditorHolds, PageHolds, DeskHolds, PlanHolds, InitiativeHolds, DoorHolds,
     CardHolds, ConversationHolds DEF TypeOK, PagesInv, PagesHeld
<1> QED BY <1>1, <1>2, <1>3, <1>4, <1>5, PTL DEF Spec, pageVars
=============================================================================
