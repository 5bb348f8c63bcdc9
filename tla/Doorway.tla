--------------------------------- MODULE Doorway ---------------------------------
(***************************************************************************)
(* From the home page into a round (session-router.ts; launchCommon and    *)
(* the sample card of client/app.js; the routes they poll in app.ts).      *)
(*                                                                         *)
(* Every round is its own process on its own port, and the browser sees    *)
(* one origin.  A link that names a round sets a cookie; every later       *)
(* request of every tab goes where the cookie points, or, when             *)
(* authentication is off and the cookie leads nowhere, to the one live     *)
(* round there is.  One customer's browser is modelled, on a box that also *)
(* runs the rounds of others.                                              *)
(***************************************************************************)
EXTENDS Naturals, FiniteSets

CONSTANTS
  Sids,       \* rounds, numbered in the order they are launched
  Tabs        \* tabs of the browser

ASSUME SidsAssumption == Sids \subseteq Nat \ {0}

VARIABLES
  entries,      \* the registry's entry of a round, and its process
  cookie,       \* ip_sid
  tabs,         \* what each tab shows
  tries,        \* launches the home pages wait for: a tab and its round
  authEnabled,
  opened,       \* rounds whose link this browser followed
  latest,       \* the last of them
  call          \* the latest call of a round's page, and where it was proxied

doorwayVars == <<entries, cookie, tabs, tries, authEnabled, opened, latest, call>>

NoSid == 0
Home == [view |-> "home", sid |-> NoSid]
NoCall == [from |-> NoSid, to |-> NoSid, latest |-> NoSid]

\* The process of a round boots, answers, and after its end serves its card.
Processes == {"none", "booting", "up", "card", "dead"}

DoorwayTypeOK ==
  /\ entries \in [Sids -> [listed : BOOLEAN, mine : BOOLEAN, ended_at : BOOLEAN,
                           process : Processes]]
  /\ {cookie, latest} \subseteq Sids \cup {NoSid}
  /\ tabs \in [Tabs -> [view : {"home", "warmup", "round", "ended"}, sid : Sids \cup {NoSid}]]
  /\ tries \subseteq [tab : Tabs, sid : Sids, door : {"launch", "sample"}]
  /\ authEnabled \in BOOLEAN
  /\ opened \subseteq Sids
  /\ call \in [from : Sids \cup {NoSid}, to : Sids \cup {NoSid},
               latest : Sids \cup {NoSid}]

DoorwayInit ==
  /\ entries = [s \in Sids |-> [listed |-> FALSE, mine |-> FALSE, ended_at |-> FALSE,
                                process |-> "none"]]
  /\ cookie = NoSid /\ latest = NoSid
  /\ tabs = [t \in Tabs |-> Home]
  /\ tries = {}
  /\ authEnabled \in BOOLEAN
  /\ opened = {}
  /\ call = NoCall

---------------------------------------------------------------------------
(* The registry.                                                           *)

Listed == {s \in Sids : entries[s].listed}
Live == {s \in Listed : ~ entries[s].ended_at}
Answers(s) == entries[s].process \in {"up", "card"}

\* What a probe of every port finds: a card is stamped as ended, and the entry
\* of a dead process is dropped (reconcileRegistry; how that races with the
\* rounds is SessionRegistry's subject).
Reconciled == [s \in Sids |->
  [entries[s] EXCEPT !.ended_at = @ \/ entries[s].process = "card",
                     !.listed = @ /\ entries[s].process # "dead"]]

\* multiLaunch: a customer has one live round.
Spawned(s, mine) ==
  /\ \A r \in Sids : (entries[r].process = "none") <=> r >= s
  /\ mine => ~ \E r \in Sids :
       Reconciled[r].listed /\ Reconciled[r].mine /\ ~ Reconciled[r].ended_at
  /\ entries' = [Reconciled EXCEPT ![s] =
       [listed |-> TRUE, mine |-> mine, ended_at |-> FALSE, process |-> "booting"]]

---------------------------------------------------------------------------
(* The router (resolveRoute, makeSessionRouter).                           *)

Nowhere == NoSid

\* With authentication on, the grace would lead a visitor with a stale cookie
\* into a stranger's round.
GraceForAll(c) ==
  IF c \in Listed THEN c
  ELSE IF Cardinality(Live) = 1 THEN CHOOSE s \in Live : TRUE ELSE Nowhere

Route(c) ==
  IF c \in Listed THEN c
  ELSE IF ~ authEnabled /\ Cardinality(Live) = 1 THEN CHOOSE s \in Live : TRUE
  ELSE Nowhere

\* GET /session, as the redirect and the warm-up page ask for it: the round's
\* page, or the page that asks again every two seconds.
Page(c) ==
  CASE Route(c) = Nowhere -> [view |-> "ended", sid |-> NoSid]
    [] Route(c) # Nowhere /\ Answers(Route(c)) -> [view |-> "round", sid |-> Route(c)]
    [] OTHER -> [view |-> "warmup", sid |-> Route(c)]

\* GET /session?sid=s and the redirect it is answered with.
Follows(t, s) ==
  IF s \in Listed
  THEN /\ cookie' = s /\ latest' = s /\ opened' = opened \cup {s}
       /\ tabs' = [tabs EXCEPT ![t] = Page(s)]
  ELSE /\ tabs' = [tabs EXCEPT ![t] = [view |-> "ended", sid |-> NoSid]]
       /\ UNCHANGED <<cookie, latest, opened>>

Elsewhere(t) == {y \in tries : y.tab # t}

---------------------------------------------------------------------------
(* The home page.                                                          *)

\* /api/launch, /api/practice/launch, /api/practice/repeat and the sample: a
\* round is spawned, and the page polls for it.
LaunchesRound(t, s, door) ==
  /\ tabs[t] = Home
  /\ Spawned(s, TRUE)
  /\ tries' = tries \cup {[tab |-> t, sid |-> s, door |-> door]}
  /\ UNCHANGED <<cookie, tabs, authEnabled, opened, latest, call>>

\* tick asks /api/session-live, which reconciles first.
Ticks(y) ==
  /\ y \in tries /\ y.door = "launch"
  /\ entries' = Reconciled
  /\ CASE ~ Reconciled[y.sid].listed ->
            /\ tries' = tries \ {y}
            /\ UNCHANGED <<cookie, tabs, opened, latest>>
       [] entries[y.sid].process = "up" ->
            /\ Follows(y.tab, y.sid)
            /\ tries' = Elsewhere(y.tab)
       [] OTHER -> UNCHANGED <<cookie, tabs, tries, opened, latest>>
  /\ UNCHANGED <<authEnabled, call>>

\* poll asks /api/session-ready; a round that is gone is asked for again.
PollsSample(y) ==
  /\ y \in tries /\ y.door = "sample"
  /\ y.sid \in Live /\ entries[y.sid].process = "up"
  /\ Follows(y.tab, y.sid)
  /\ tries' = Elsewhere(y.tab)
  /\ UNCHANGED <<entries, authEnabled, call>>

\* 180 s or 90 s pass, or a request of tick fails, which ends its loop.
GivesUp(y) ==
  /\ y \in tries
  /\ tries' = tries \ {y}
  /\ UNCHANGED <<entries, cookie, tabs, authEnabled, opened, latest, call>>

\* The link of the masthead, or a link kept from earlier.
FollowsLink(t, s) ==
  /\ tabs[t] = Home
  /\ entries[s].mine /\ (s \in Live \/ s \in opened)
  /\ Follows(t, s)
  /\ tries' = Elsewhere(t)
  /\ UNCHANGED <<entries, authEnabled, call>>

GoesHome(t) ==
  /\ tabs[t] # Home
  /\ tabs' = [tabs EXCEPT ![t] = Home]
  /\ UNCHANGED <<entries, cookie, tries, authEnabled, opened, latest, call>>

\* /api/session-kill abandons the round and stamps its entry.
IsKilled(s) ==
  /\ \E t \in Tabs : tabs[t] = Home
  /\ entries[s].mine /\ s \in Live /\ entries[s].process = "up"
  /\ entries' = [entries EXCEPT ![s].ended_at = TRUE, ![s].process = "dead"]
  /\ UNCHANGED <<cookie, tabs, tries, authEnabled, opened, latest, call>>

---------------------------------------------------------------------------
(* The round's page.                                                       *)

\* Reloading it, by hand or by the warm-up page itself.
AsksAgain(t) ==
  /\ tabs[t].view \in {"warmup", "round"}
  /\ tabs' = [tabs EXCEPT ![t] = Page(cookie)]
  /\ UNCHANGED <<entries, cookie, tries, authEnabled, opened, latest, call>>

\* Any other request of it: no path names the round.
Calls(t) ==
  /\ tabs[t].view = "round"
  /\ LET to == IF Route(cookie) # Nowhere /\ Answers(Route(cookie)) THEN Route(cookie)
               ELSE Nowhere
     IN call' = [from |-> tabs[t].sid, to |-> to, latest |-> latest]
  /\ UNCHANGED <<entries, cookie, tabs, tries, authEnabled, opened, latest>>

---------------------------------------------------------------------------
(* What happens to rounds, and to the cookie after four hours.             *)

OthersOpen(s) ==
  /\ Spawned(s, FALSE)
  /\ UNCHANGED <<cookie, tabs, tries, authEnabled, opened, latest, call>>

Moves(s) ==
  /\ \/ entries[s].process = "booting" /\ \E p \in {"up", "dead"} :
          entries' = [entries EXCEPT ![s].process = p]
     \/ entries[s].process = "up" /\ \E p \in {"card", "dead"} :
          entries' = [entries EXCEPT ![s].process = p]
     \/ entries[s].process = "card" /\ entries' = [entries EXCEPT ![s].process = "dead"]
  /\ UNCHANGED <<cookie, tabs, tries, authEnabled, opened, latest, call>>

Sweeps ==
  /\ entries' = Reconciled
  /\ UNCHANGED <<cookie, tabs, tries, authEnabled, opened, latest, call>>

CookieExpires ==
  /\ cookie' = NoSid
  /\ UNCHANGED <<entries, tabs, tries, authEnabled, opened, latest, call>>

DoorwayNext ==
  \/ \E t \in Tabs, s \in Sids :
       \/ \E door \in {"launch", "sample"} : LaunchesRound(t, s, door)
       \/ FollowsLink(t, s)
  \/ \E y \in tries : Ticks(y) \/ PollsSample(y) \/ GivesUp(y)
  \/ \E t \in Tabs : GoesHome(t) \/ AsksAgain(t) \/ Calls(t)
  \/ \E s \in Sids : IsKilled(s) \/ OthersOpen(s) \/ Moves(s)
  \/ Sweeps \/ CookieExpires

---------------------------------------------------------------------------
(* What the cookie must not do.                                            *)

\* With authentication on, a page's call reaches a round that this browser
\* opened; and it reaches another round than the page's own only when that
\* round's link was followed since, in this tab or another.
CallsStayInside ==
  authEnabled /\ call.to # NoSid =>
    /\ call.to \in opened
    /\ call.to # call.from => call.to = call.latest

\* No tab shows the round of somebody else, nor one whose link was not followed.
TabsShowOwnRounds ==
  authEnabled => \A t \in Tabs : tabs[t].sid # NoSid =>
    entries[tabs[t].sid].mine /\ tabs[t].sid \in opened

DoorsLeadHome == CallsStayInside /\ TabsShowOwnRounds
=============================================================================
