------------------------------- MODULE PaywallCard -------------------------------
(***************************************************************************)
(* The card a customer meets at the gate, and the way through it           *)
(* (showPaywallGate, launchCommon, planFirstSend, practiceClarify and      *)
(* resumeAfterCheckout of client/app.js).                                  *)
(*                                                                         *)
(* A request the server answers with 402 opens the card and waits for it;  *)
(* if the card lets the customer through, the request is sent again.  The  *)
(* answer that mints the grant is sent and not waited for.  With billing   *)
(* on, Subscribe leaves the page: what the customer wanted is kept in the  *)
(* tab's storage and done on return.  Whether the allowance is spent is    *)
(* Allowance's subject: here it is.                                        *)
(***************************************************************************)
EXTENDS Naturals, FiniteSets, Sequences

CONSTANTS
  MaxWishes,       \* bound on what the customer asks for
  MaxCardFaults    \* bound on lost requests

ASSUME CardBoundsAssumption == MaxWishes \in Nat /\ MaxCardFaults \in Nat

VARIABLES
  wishes,      \* what the page asks of the server, in order
  card,        \* what the card shows
  opening,     \* a checkout was asked for and not answered
  opener,      \* the wish whose promise the card holds
  paywallIntent,
  pendingIntent,   \* the same, in sessionStorage
  beacons,     \* answers on their way to /api/paywall/probe
  place,       \* the tab: on the page, at Stripe, or back with its address
  billing_enabled,
  granted,     \* a row that hasGrant reads
  paying,      \* nothing, paid at Stripe, or known to the server
  paidFor,     \* the wish whose card was subscribed on, once it was paid
  cardLapses,      \* what the card's promises are known not to survive
  cardFaults

cardVars == <<wishes, card, opening, opener, paywallIntent, pendingIntent, beacons,
              place, billing_enabled, granted, paying, paidFor, cardLapses, cardFaults>>

cardView == <<card, opening, opener>>
intents == <<paywallIntent, pendingIntent>>
account == <<billing_enabled, granted, paying, paidFor>>
troubles == <<cardLapses, cardFaults>>

Wishes == 1..MaxWishes
None == 0
Doors == {"launch", "plan", "clarify"}
GateAnswers == {"not_yet", "would_pay"}

PaywallCardTypeOK ==
  /\ \A w \in DOMAIN wishes :
       wishes[w] \in [door : Doors, retry : BOOLEAN, promised : BOOLEAN, again : 0..MaxWishes,
                      stage : {"sent", "gated", "admitted", "refused", "declined", "gone"}]
  /\ DOMAIN wishes \subseteq Wishes
  /\ card \in {"shut", "price", "favor"}
  /\ {opener, paywallIntent, pendingIntent, paidFor} \subseteq 0..MaxWishes
  /\ beacons \subseteq GateAnswers
  /\ place \in {"page", "stripe", "returned"}
  /\ {opening, billing_enabled, granted} \subseteq BOOLEAN
  /\ paying \in {"none", "paid", "known"}
  /\ cardLapses \subseteq {"overtaken", "escaped"}
  /\ cardFaults \in 0..MaxCardFaults

PaywallCardInit ==
  /\ wishes = <<>>
  /\ card = "shut" /\ opening = FALSE /\ opener = None
  /\ paywallIntent = None /\ pendingIntent = None
  /\ beacons = {}
  /\ place = "page"
  /\ billing_enabled \in BOOLEAN
  /\ granted = FALSE /\ paying = "none" /\ paidFor = None
  /\ cardLapses = {} /\ cardFaults = 0

---------------------------------------------------------------------------
(* The server, as far as the card goes (gateFor, grantsAccess).            *)

GrantsPaidOnly(answer) == answer = "would_pay"

\* With nothing to buy, both answers let the customer through.
grantsAccess(answer) ==
  answer = "would_pay" \/ (answer = "not_yet" /\ ~ billing_enabled)

Gated == ~ granted /\ paying # "known"

BeaconArrives(b) ==
  /\ b \in beacons
  /\ beacons' = beacons \ {b}
  /\ granted' = (granted \/ grantsAccess(b))
  /\ UNCHANGED <<wishes, cardView, intents, place, billing_enabled, paying, paidFor,
                 troubles>>

BeaconIsLost(b) ==
  /\ b \in beacons
  /\ cardFaults < MaxCardFaults /\ cardFaults' = cardFaults + 1
  /\ beacons' = beacons \ {b}
  /\ cardLapses' = cardLapses \cup {"overtaken"}
  /\ UNCHANGED <<wishes, cardView, intents, place, account>>

\* checkout.session.completed, recorded by the webhook.
WebhookLands ==
  /\ paying = "paid"
  /\ paying' = "known"
  /\ UNCHANGED <<wishes, cardView, intents, beacons, place, billing_enabled, granted,
                 paidFor, troubles>>

---------------------------------------------------------------------------
(* Wishes: a launch, a new plan, a first or another look at the notes.     *)

Wish(door, retry, promised, again) ==
  [door |-> door, retry |-> retry, promised |-> promised, again |-> again, stage |-> "sent"]

\* The card covers the page; a re-check of the practice door runs behind it.
Asks(door) ==
  /\ place = "page" /\ Len(wishes) < MaxWishes
  /\ card # "shut" => door = "clarify"
  /\ wishes' = Append(wishes, Wish(door, FALSE, FALSE, None))
  /\ UNCHANGED <<cardView, intents, beacons, place, account, troubles>>

IsAdmitted(w) ==
  /\ w \in DOMAIN wishes /\ wishes[w].stage = "sent"
  /\ ~ Gated
  /\ wishes' = [wishes EXCEPT ![w].stage = "admitted"]
  /\ UNCHANGED <<cardView, intents, beacons, place, account, troubles>>

\* A promised request that overtakes the beacon with the customer's answer is
\* turned away although the card let it through.
Overtakes(w) == wishes[w].promised /\ beacons # {}

\* The 402 branch: the card opens, unless it is open or this is a launch sent
\* again, which end as an error on the page.
MeetsTheGate(w) ==
  /\ w \in DOMAIN wishes /\ wishes[w].stage = "sent"
  /\ Gated
  /\ cardLapses' = cardLapses \cup (IF Overtakes(w) THEN {"overtaken"} ELSE {})
  /\ IF card = "shut" /\ ~ wishes[w].retry
     THEN /\ paywallIntent' = w /\ opener' = w /\ card' = "price"
          /\ wishes' = [wishes EXCEPT ![w].stage = "gated"]
     ELSE /\ wishes' = [wishes EXCEPT ![w].stage = "refused"]
          /\ UNCHANGED <<card, opener, paywallIntent>>
  /\ UNCHANGED <<opening, pendingIntent, beacons, place, account, cardFaults>>

---------------------------------------------------------------------------
(* The card.                                                               *)

\* A wish that is sent again, a launch as a retry.
SentAgain(wish) ==
  [wish EXCEPT !.stage = "sent", !.promised = TRUE, !.retry = @ \/ wish.door = "launch"]

\* teardown(true): the wish the card held back is sent again.
\* teardown(false): it is not, and the page is as before.
Teardown(through) ==
  /\ card' = "shut" /\ opener' = None
  /\ wishes' = IF through THEN [wishes EXCEPT ![opener] = SentAgain(@)]
               ELSE [wishes EXCEPT ![opener].stage = "declined"]

\* Maybe later; the button is off while a checkout is asked for.
Declines ==
  /\ card = "price" /\ ~ opening
  /\ beacons' = beacons \cup {"not_yet"}
  /\ IF billing_enabled THEN Teardown(FALSE)
     ELSE card' = "favor" /\ UNCHANGED <<wishes, opener>>
  /\ UNCHANGED <<opening, intents, place, account, troubles>>

\* Escape, which does not call off a checkout that was asked for.
Escapes ==
  /\ card = "price"
  /\ beacons' = beacons \cup {"not_yet"}
  /\ Teardown(~ billing_enabled)
  /\ cardLapses' = cardLapses \cup (IF opening THEN {"escaped"} ELSE {})
  /\ UNCHANGED <<opening, intents, place, account, cardFaults>>

\* Send, Skip or Escape on the two questions.
LeavesTheFavor ==
  /\ card = "favor"
  /\ Teardown(TRUE)
  /\ UNCHANGED <<opening, intents, beacons, place, account, troubles>>

Subscribes ==
  /\ card = "price" /\ ~ opening
  /\ beacons' = beacons \cup {"would_pay"}
  /\ opening' = billing_enabled
  /\ card' = (IF billing_enabled THEN "price" ELSE "favor")
  /\ UNCHANGED <<wishes, opener, intents, place, account, troubles>>

\* POST /api/stripe/checkout is answered: the page is left, the card open or not.
CheckoutOpens ==
  /\ opening
  /\ opening' = FALSE
  /\ pendingIntent' = paywallIntent
  /\ place' = "stripe"
  /\ card' = "shut" /\ opener' = None
  /\ wishes' = [w \in DOMAIN wishes |->
       IF wishes[w].stage \in {"sent", "gated"} THEN [wishes[w] EXCEPT !.stage = "gone"]
       ELSE wishes[w]]
  /\ UNCHANGED <<paywallIntent, beacons, account, troubles>>

CheckoutFails ==
  /\ opening
  /\ cardFaults < MaxCardFaults /\ cardFaults' = cardFaults + 1
  /\ opening' = FALSE
  /\ UNCHANGED <<wishes, card, opener, intents, beacons, place, account, cardLapses>>

---------------------------------------------------------------------------
(* Stripe, and back.                                                       *)

Pays ==
  /\ place = "stripe" /\ paying = "none"
  /\ paying' = "paid" /\ paidFor' = pendingIntent
  /\ place' = "returned" /\ paywallIntent' = None
  /\ UNCHANGED <<wishes, cardView, pendingIntent, beacons, billing_enabled, granted,
                 troubles>>

\* takePendingIntent removes what it reads; a cancelled checkout replays nothing.
ComesBackUnpaid ==
  /\ place = "stripe"
  /\ place' = "page" /\ paywallIntent' = None
  /\ pendingIntent' \in {None, pendingIntent}     \* by the cancel link, or by Back
  /\ UNCHANGED <<wishes, cardView, beacons, account, troubles>>

Replayed(w) == Wish(wishes[w].door, FALSE, TRUE, w)

ReplaysUnconfirmed ==
  /\ place = "returned"
  /\ place' = "page"
  /\ pendingIntent' = None
  /\ wishes' = IF pendingIntent # None /\ Len(wishes) < MaxWishes
               THEN Append(wishes, Replayed(pendingIntent)) ELSE wishes
  /\ UNCHANGED <<cardView, paywallIntent, beacons, account, troubles>>

\* resumeAfterCheckout: the purchase is confirmed first, then the wish is made
\* again, whether the confirm came through or not.
Resumes ==
  /\ place = "returned"
  /\ place' = "page"
  /\ pendingIntent' = None
  /\ wishes' = IF pendingIntent # None /\ Len(wishes) < MaxWishes
               THEN Append(wishes, Replayed(pendingIntent)) ELSE wishes
  /\ \/ paying' = "known" /\ UNCHANGED <<troubles>>
     \/ /\ cardFaults < MaxCardFaults /\ cardFaults' = cardFaults + 1
        /\ cardLapses' = cardLapses \cup {"overtaken"}
        /\ UNCHANGED paying
  /\ UNCHANGED <<cardView, paywallIntent, beacons, billing_enabled, granted, paidFor>>

\* The page is left or reloaded while it waits.
IsReloaded ==
  /\ place = "page"
  /\ card' = "shut" /\ opening' = FALSE /\ opener' = None /\ paywallIntent' = None
  /\ wishes' = [w \in DOMAIN wishes |->
       IF wishes[w].stage = "gated" THEN [wishes[w] EXCEPT !.stage = "gone"] ELSE wishes[w]]
  /\ UNCHANGED <<pendingIntent, beacons, place, account, troubles>>

PaywallCardNext ==
  \/ \E b \in GateAnswers : BeaconArrives(b) \/ BeaconIsLost(b)
  \/ WebhookLands
  \/ \E door \in Doors : Asks(door)
  \/ \E w \in Wishes : IsAdmitted(w) \/ MeetsTheGate(w)
  \/ Declines \/ Escapes \/ LeavesTheFavor \/ Subscribes
  \/ CheckoutOpens \/ CheckoutFails
  \/ Pays \/ ComesBackUnpaid \/ Resumes \/ IsReloaded

---------------------------------------------------------------------------
(* What the card promises.                                                 *)

\* "Nothing in here can strand the user": a wish the card let through, or one
\* that was paid for, is not turned away, unless it overtook the beacon with
\* the customer's answer, or that or the confirmation was lost.
PromisesAreKept ==
  cardLapses = {} => \A w \in DOMAIN wishes :
    wishes[w].promised => wishes[w].stage \notin {"refused", "gated"}

\* What is done on return is what the card that was paid on held back, once,
\* and nothing that had gone through already.
PaidIsResumed ==
  cardLapses = {} => \A v \in DOMAIN wishes : wishes[v].again # None =>
    /\ wishes[v].again = paidFor
    /\ wishes[wishes[v].again].stage # "admitted"
    /\ \A u \in DOMAIN wishes : wishes[u].again = wishes[v].again => u = v

GateKeepsItsWord == PromisesAreKept /\ PaidIsResumed
=============================================================================
