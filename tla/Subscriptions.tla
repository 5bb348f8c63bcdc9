----------------------------- MODULE Subscriptions -----------------------------
(***************************************************************************)
(* What the app believes a customer pays for (server/src/billing.ts, the   *)
(* Stripe routes of app.ts and the ledger subscriptions.jsonl).            *)
(*                                                                         *)
(* Stripe owns the truth.  The app keeps rows, appended by two writers:    *)
(* the webhook, which Stripe repeats until it is answered, and the         *)
(* confirmation made when the customer comes back from checkout.  Every    *)
(* reader takes the last row of the customer, so the order in which rows   *)
(* land decides.  One customer is modelled: the readers never look at      *)
(* another one's rows.                                                     *)
(***************************************************************************)
EXTENDS Naturals

CONSTANTS
  Subs,              \* the subscriptions the customer opens one after another, by number
  MaxChanges,        \* bound on changes at Stripe
  MaxBillingFaults   \* bound on failed calls, lost answers, failed appends, crashes

ASSUME SubsAssumption == Subs \subseteq Nat \ {0}
ASSUME BillingBoundsAssumption == MaxChanges \in Nat /\ MaxBillingFaults \in Nat

VARIABLES
  stripe,      \* Stripe's record of each subscription
  changes,     \* how many changes Stripe has made
  mail,        \* events Stripe has yet to deliver, or to deliver again
  calls,       \* handlers that wait for a subscription they asked Stripe for
  top,         \* the customer's last readable row
  torn,        \* the ledger ends in half a line
  overtaken,   \* a row was put on top of a newer one
  lost,        \* a row never reached the ledger, or is not readable there
  billingFaults

billingVars == <<stripe, changes, mail, calls, top, torn, overtaken, lost, billingFaults>>

NoSub == 0
Statuses == {"active", "past_due", "unpaid", "canceled"}

\* A row, and what Stripe says of a subscription: its status, the period it is
\* in, and the change that made it so.
LedgerRow == [sub : Subs, status : Statuses, period : 1..(MaxChanges + 1), at : 1..MaxChanges]
NoRow == [sub |-> NoSub, status |-> "canceled", period |-> 1, at |-> 0]

EventTypes == {"checkout.session.completed", "customer.subscription.created",
               "customer.subscription.updated", "customer.subscription.deleted",
               "invoice.payment_failed", "invoice.payment_succeeded"}

\* Cancellations are left to the portal.
HandledButDeleted == EventTypes \ {"customer.subscription.deleted"}

HANDLED_EVENTS == EventTypes

\* Events that carry the subscription as it was; the others only name it, and
\* the handler asks for it.
Snapshots == {"customer.subscription.created", "customer.subscription.updated",
              "customer.subscription.deleted"}

Event(type, row) == [type |-> type, row |-> row]

BillingTypeOK ==
  /\ stripe \in [Subs -> LedgerRow \cup {NoRow}]
  /\ changes \in 0..MaxChanges
  /\ mail \subseteq [type : EventTypes, row : LedgerRow]
  /\ \A c \in calls : c \in [type : EventTypes \cup {"confirm"}, row : LedgerRow, got : LedgerRow \cup {NoRow}]
  /\ top \in LedgerRow \cup {NoRow}
  /\ {torn, overtaken, lost} \subseteq BOOLEAN
  /\ billingFaults \in 0..MaxBillingFaults

BillingInit ==
  /\ stripe = [s \in Subs |-> NoRow]
  /\ changes = 0
  /\ mail = {}
  /\ calls = {}
  /\ top = NoRow
  /\ torn = FALSE
  /\ overtaken = FALSE
  /\ lost = FALSE
  /\ billingFaults = 0

BillingFault ==
  /\ billingFaults < MaxBillingFaults
  /\ billingFaults' = billingFaults + 1

---------------------------------------------------------------------------
(* Stripe and the customer.                                                *)

Moves(s, status, period, types) ==
  LET row == [sub |-> s, status |-> status, period |-> period, at |-> changes + 1]
  IN  /\ changes < MaxChanges
      /\ changes' = changes + 1
      /\ stripe' = [stripe EXCEPT ![s] = row]
      /\ mail' = mail \cup {Event(t, row) : t \in types}
      /\ UNCHANGED <<calls, top, torn, overtaken, lost, billingFaults>>

\* Checkout completes.  /api/stripe/checkout does not look for a subscription
\* the customer already has.
Subscribes(s) ==
  /\ stripe[s] = NoRow /\ \A t \in Subs : t < s => stripe[t] # NoRow
  /\ Moves(s, "active", 1, {"checkout.session.completed", "customer.subscription.created"})

Renews(s) ==
  /\ stripe[s].sub = s
  /\ stripe[s].status \in {"active", "past_due"}
  /\ Moves(s, "active", stripe[s].period + 1,
           {"customer.subscription.updated", "invoice.payment_succeeded"})

CardFails(s) ==
  /\ stripe[s].sub = s /\ stripe[s].status = "active"
  /\ Moves(s, "past_due", stripe[s].period,
           {"customer.subscription.updated", "invoice.payment_failed"})

DunningGivesUp(s) ==
  /\ stripe[s].sub = s /\ stripe[s].status = "past_due"
  /\ Moves(s, "unpaid", stripe[s].period, {"customer.subscription.updated"})

Cancels(s) ==
  /\ stripe[s].sub = s /\ stripe[s].status # "canceled"
  /\ Moves(s, "canceled", stripe[s].period, {"customer.subscription.deleted"})

---------------------------------------------------------------------------
(* The app.  A step is the code between two awaits.                        *)

\* logSubscription.  Half a line left by a crash has no newline, so the row
\* appended after it is on the same line and is not readable either.
Appends(row) ==
  \/ /\ ~ torn
     /\ top' = row
     /\ overtaken' = (overtaken \/ row.at < top.at)
     /\ UNCHANGED <<torn, lost, billingFaults>>
  \/ /\ torn
     /\ torn' = FALSE
     /\ lost' = TRUE
     /\ UNCHANGED <<top, overtaken, billingFaults>>

\* The append throws and is logged; the caller goes on as if it had not.
AppendFails ==
  /\ BillingFault
  /\ lost' = TRUE
  /\ UNCHANGED <<top, torn, overtaken>>

Records(row) == Appends(row) \/ AppendFails

\* The webhook with an event that carries its subscription, or is not handled.
\* The answer may not reach Stripe, which then delivers the event again.
Delivered(e) ==
  /\ e \in mail
  /\ e.type \in Snapshots \/ e.type \notin HANDLED_EVENTS
  /\ IF e.type \in HANDLED_EVENTS THEN Records(e.row)
     ELSE UNCHANGED <<top, torn, overtaken, lost, billingFaults>>
  /\ mail' = mail \ {e}
  /\ UNCHANGED <<stripe, changes, calls>>

DeliveredAgainLater(e) ==
  /\ e \in mail
  /\ e.type \in Snapshots \cap HANDLED_EVENTS
  /\ ~ torn
  /\ BillingFault
  /\ top' = e.row
  /\ overtaken' = (overtaken \/ e.row.at < top.at)
  /\ UNCHANGED <<stripe, changes, mail, calls, torn, lost>>

\* The webhook with an event that names its subscription.
Asks(e) ==
  /\ e \in mail
  /\ e.type \in HANDLED_EVENTS \ Snapshots
  /\ mail' = mail \ {e}
  /\ calls' = calls \cup {[type |-> e.type, row |-> e.row, got |-> NoRow]}
  /\ UNCHANGED <<stripe, changes, top, torn, overtaken, lost, billingFaults>>

\* GET /api/stripe/confirm: the customer is back from checkout.
ReturnsFromCheckout(s) ==
  /\ stripe[s].sub = s
  /\ \A c \in calls : c.type # "confirm"
  /\ calls' = calls \cup {[type |-> "confirm", row |-> stripe[s], got |-> NoRow]}
  /\ UNCHANGED <<stripe, changes, mail, top, torn, overtaken, lost, billingFaults>>

\* Stripe answers with the subscription as it is now.
Answered(c) ==
  /\ c \in calls /\ c.got = NoRow
  /\ calls' = (calls \ {c}) \cup {[c EXCEPT !.got = stripe[c.row.sub]]}
  /\ UNCHANGED <<stripe, changes, mail, top, torn, overtaken, lost, billingFaults>>

Recorded(c) ==
  /\ c \in calls /\ c.got # NoRow
  /\ Records(c.got)
  /\ calls' = calls \ {c}
  /\ UNCHANGED <<stripe, changes, mail>>

\* The webhook answers 500 and Stripe delivers again; the confirmation answers
\* 502 and is not repeated unless the customer does.
Owed(cs) == {Event(c.type, c.row) : c \in {d \in cs : d.type # "confirm"}}

RetrieveFails(c) ==
  /\ c \in calls /\ c.got = NoRow
  /\ BillingFault
  /\ calls' = calls \ {c}
  /\ mail' = mail \cup Owed({c})
  /\ UNCHANGED <<stripe, changes, top, torn, overtaken, lost>>

\* The app dies, perhaps while it writes a row: nothing it held is answered.
BillingCrash ==
  /\ calls # {} \/ mail # {}
  /\ BillingFault
  /\ torn' \in {torn, TRUE}
  /\ calls' = {}
  /\ mail' = mail \cup Owed(calls)
  /\ UNCHANGED <<stripe, changes, top, overtaken, lost>>

BillingNext ==
  \/ \E s \in Subs :
       \/ Subscribes(s) \/ Renews(s) \/ CardFails(s) \/ DunningGivesUp(s) \/ Cancels(s)
       \/ ReturnsFromCheckout(s)
  \/ \E e \in mail : Delivered(e) \/ DeliveredAgainLater(e) \/ Asks(e)
  \/ \E c \in calls : Answered(c) \/ Recorded(c) \/ RetrieveFails(c)
  \/ BillingCrash

---------------------------------------------------------------------------
(* What the readers see, and what they should.                             *)

ENTITLING == {"active", "past_due"}

\* subscribed and periodStart: 0 stands for a customer without a period.
PeriodOf(row) == IF row.status \in ENTITLING THEN row.period ELSE 0

Newest == CHOOSE s \in Subs : stripe[s].at = changes

\* Once Stripe has nothing left to deliver and no handler is under way, the
\* last row says what Stripe last said: the same entitlement in the same
\* period.  This holds whatever was refused, repeated or crashed on the way,
\* except when an older state was put on top of a newer one (a late delivery,
\* or a confirmation that waited) or a row was lost to a failed append or to
\* the half line a crash left.
SettledAgrees ==
  mail = {} /\ calls = {} /\ changes > 0 /\ ~ overtaken /\ ~ lost
    => PeriodOf(top) = PeriodOf(stripe[Newest])
=============================================================================
