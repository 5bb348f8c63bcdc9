------------------------------- MODULE Allowance -------------------------------
(***************************************************************************)
(* How many rounds a customer may build and run (server/src/paywall.ts and *)
(* gateFor in app.ts).                                                     *)
(*                                                                         *)
(* Nothing is spent from a counter: at each gate the rounds are counted    *)
(* again from the statuses of the queue and of the practice reps and from  *)
(* the ledger of runs, over a lifetime for a free customer and since the   *)
(* start of the billing period for a subscriber.  One customer on one box  *)
(* is modelled, with the registry's rule that a customer has one room.     *)
(*                                                                         *)
(* The gate fails open: one whose files it cannot read lets everything     *)
(* through, and a round that starts so is a measurement missed.            *)
(***************************************************************************)
EXTENDS Naturals, FiniteSets, FiniteSetsExt

CONSTANTS
  Practice,      \* rounds asked for one at a time; an id counts the clock
  Planned,       \* the rounds of a plan's queue
  FreeRounds, PaidRounds,
  LastDay,       \* bound on the clock
  MaxRuns,       \* bound on the runs of a practice round
  MaxMissed      \* bound on the rounds a failing gate lets through

ASSUME OfferedAssumption ==
  /\ Practice \cup Planned \subseteq Nat \ {0}
  /\ IsFiniteSet(Practice) /\ IsFiniteSet(Planned) /\ Practice \cap Planned = {}

\* Three and four, unless the box is configured otherwise (public-config.ts).
ASSUME LimitsAssumption ==
  /\ FreeRounds \in Nat /\ PaidRounds \in Nat /\ FreeRounds <= PaidRounds
  /\ LastDay \in Nat \ {0} /\ {MaxRuns, MaxMissed} \subseteq Nat

VARIABLES
  rounds,    \* the stored round: its status, when it was asked for or graded,
             \* and the times it was run
  waiting,   \* practice requests past the gate that await their imports
  seat,      \* the customer's room: the round in it, and whether it has booted
  today,
  since,     \* the start of the billing period, 0 for no subscription
  action,    \* what the customer answered at the gate
  buyable,   \* billing is configured on this box
  exempt,    \* the customer was let through once, or has subscribed
  broken,    \* a queue or the reps file cannot be read: the gate throws
  missed     \* the rounds that were started by that, and by nothing else

allowanceVars ==
  <<rounds, waiting, seat, today, since, action, buyable, exempt, broken, missed>>

Offered == Practice \cup Planned
NoSeat == [round |-> 0, up |-> FALSE]
Days == 1..LastDay

AllowanceTypeOK ==
  /\ rounds \in [Offered ->
       [status : {"none", "pending", "generating", "ready", "failed", "done", "skipped"},
        born : 0..LastDay, doneAt : 0..LastDay, runs : [Days -> 0..MaxRuns]]]
  /\ waiting \subseteq Practice
  /\ seat \in [round : Offered, up : BOOLEAN] \cup {NoSeat}
  /\ today \in Days
  /\ since \in 0..LastDay
  /\ action \in {"none", "not_yet", "would_pay"}
  /\ {buyable, exempt, broken} \subseteq BOOLEAN
  /\ missed \in 0..MaxMissed

AllowanceInit ==
  /\ rounds = [r \in Offered |->
       [status |-> IF r \in Practice THEN "none" ELSE "pending", born |-> 0, doneAt |-> 0,
        runs |-> [d \in Days |-> 0]]]
  /\ waiting = {}
  /\ seat = NoSeat
  /\ today = 1
  /\ since = 0
  /\ action = "none"
  /\ buyable \in BOOLEAN
  /\ exempt = FALSE
  /\ broken = FALSE
  /\ missed = 0

---------------------------------------------------------------------------
(* Counting (countRoundsRun, countBuilds, roundsUsed).                     *)

InWindow(day) == day > 0 /\ day >= since

HasRun(r) == \E d \in Days : rounds[r].runs[d] > 0

\* The rows of the practice rounds' ledgers since a day.
RunsSince(day) ==
  {run \in Practice \X Days \X (1..MaxRuns) : run[2] >= day /\ run[3] <= rounds[run[1]].runs[run[2]]}

\* A plan item carries no time but that of its grading, which a window reads;
\* over a lifetime it counts from its first run.
ItemCounts(r) == since = 0 \/ InWindow(rounds[r].doneAt)

ItemsRun == {r \in Planned : HasRun(r) /\ ItemCounts(r)}

countRoundsRun == Cardinality(RunsSince(since)) + Cardinality(ItemsRun)

Kicked(r) == HasRun(r) \/ rounds[r].status \notin {"none", "pending", "failed"}

countBuilds ==
  Cardinality({r \in Offered :
    Kicked(r) /\ IF r \in Practice THEN InWindow(rounds[r].born) ELSE ItemCounts(r)})

roundsUsed == Max({countRoundsRun, countBuilds})

---------------------------------------------------------------------------
(* The gate.                                                               *)

\* hasGrant: with nothing to buy, a refusal to pay lets the customer through
\* as well.
Grants(a) == a = "would_pay" \/ (a = "not_yet" /\ ~ buyable)
hasGrant == Grants(action)

RoundLimit == IF since > 0 THEN PaidRounds ELSE FreeRounds

Spent == ~ hasGrant /\ roundsUsed >= RoundLimit

\* It decides in a try block whose catch lets the customer through.
gateFor == ~ broken /\ Spent

\* A round is started, past a gate that did not refuse or could not.
StartsAt(r) ==
  /\ ~ gateFor
  /\ Spent => missed < MaxMissed
  /\ missed' = IF Spent THEN missed + 1 ELSE missed
  /\ seat' = [round |-> r, up |-> FALSE]

---------------------------------------------------------------------------
(* The routes.                                                             *)

\* POST /api/practice, up to its awaits.  The counts of the day and of waiting
\* rounds are left out: they refuse more, never less.
AsksFor(r) ==
  /\ r \in Practice
  /\ rounds[r].status = "none" /\ r \notin waiting
  /\ \A q \in Practice : q < r => rounds[q].status # "none" \/ q \in waiting
  /\ ~ gateFor
  /\ waiting' = waiting \cup {r}
  /\ UNCHANGED <<rounds, seat, today, since, action, buyable, exempt, broken, missed>>

\* The rest of it: the record is pushed and the build spawned.
IsRecorded(r) ==
  /\ r \in waiting
  /\ waiting' = waiting \ {r}
  /\ rounds' = [rounds EXCEPT ![r].status = "generating", ![r].born = today]
  /\ UNCHANGED <<seat, today, since, action, buyable, exempt, broken, missed>>

\* POST /api/generate, /api/retry and /api/practice/retry
IsBuilt(r) ==
  /\ rounds[r].status = "failed" \/ (r \in Planned /\ rounds[r].status = "pending")
  /\ r \in Planned => \A q \in Planned : rounds[q].status # "generating"
  /\ ~ gateFor
  /\ rounds' = [rounds EXCEPT ![r].status = "generating"]
  /\ UNCHANGED <<waiting, seat, today, since, action, buyable, exempt, broken, missed>>

BuildEnds(r) ==
  /\ rounds[r].status = "generating"
  /\ \E s \in {"ready", "failed"} : rounds' = [rounds EXCEPT ![r].status = s]
  /\ UNCHANGED <<waiting, seat, today, since, action, buyable, exempt, broken, missed>>

\* POST /api/skip
IsSkipped(r) ==
  /\ r \in Planned
  /\ rounds' = [rounds EXCEPT ![r].status = "skipped"]
  /\ UNCHANGED <<waiting, seat, today, since, action, buyable, exempt, broken, missed>>

\* POST /api/launch and /api/practice/launch.  The first does not ask whether
\* the item was run before.
MayLaunch(r) == rounds[r].status = "ready" /\ (r \in Practice => ~ HasRun(r))

\* POST /api/practice/repeat
MayRepeat(r) == r \in Practice /\ rounds[r].status \in {"ready", "done"} /\ HasRun(r)

\* The registry gives a customer one room (multiLaunch).
RoomFree == seat = NoSeat

Launches(r) ==
  /\ MayLaunch(r)
  /\ RoomFree
  /\ StartsAt(r)
  /\ UNCHANGED <<rounds, waiting, today, since, action, buyable, exempt, broken>>

\* Without the gate: a repeat builds nothing.
RepeatsFreely(r) ==
  /\ MayRepeat(r)
  /\ RoomFree
  /\ seat' = [round |-> r, up |-> FALSE]
  /\ UNCHANGED <<rounds, waiting, today, since, action, buyable, exempt, broken, missed>>

Repeats(r) ==
  /\ MayRepeat(r)
  /\ RoomFree
  /\ StartsAt(r)
  /\ UNCHANGED <<rounds, waiting, today, since, action, buyable, exempt, broken>>

---------------------------------------------------------------------------
(* The session, the gate card and Stripe.                                  *)

\* The session writes .used and a row of .runs.jsonl once it is up; a round
\* that was graded reads as ready again.
RoundIsUp ==
  /\ seat # NoSeat /\ ~ seat.up
  /\ seat' = [seat EXCEPT !.up = TRUE]
  /\ rounds[seat.round].runs[today] < MaxRuns
  /\ rounds' = [rounds EXCEPT ![seat.round].runs[today] = @ + 1,
                              ![seat.round].status = IF @ = "done" THEN "ready" ELSE @]
  /\ UNCHANGED <<waiting, today, since, action, buyable, exempt, broken, missed>>

\* It ends, graded or not, or dies before it is up.
Leaves ==
  /\ seat # NoSeat
  /\ seat' = NoSeat
  /\ \/ UNCHANGED rounds
     \/ /\ seat.up
        /\ rounds' = [rounds EXCEPT ![seat.round].status = "done", ![seat.round].doneAt = today]
  /\ UNCHANGED <<waiting, today, since, action, buyable, exempt, broken, missed>>

DayPasses ==
  /\ today < LastDay
  /\ today' = today + 1
  /\ UNCHANGED <<rounds, waiting, seat, since, action, buyable, exempt, broken, missed>>

\* POST /api/paywall/probe
Answers(a) ==
  /\ action \notin {a, "would_pay"}
  /\ action' = a
  /\ exempt' = (exempt \/ Grants(a))
  /\ UNCHANGED <<rounds, waiting, seat, today, since, buyable, broken, missed>>

\* A file the gate reads is torn by a crash or by hand, or is whole again.
GateBreaks ==
  /\ broken' = ~ broken
  /\ UNCHANGED <<rounds, waiting, seat, today, since, action, buyable, exempt, missed>>

\* A first payment, or a new period; and the end of the subscription.
Pays ==
  /\ buyable
  /\ since < today
  /\ since' = today
  /\ exempt' = TRUE
  /\ UNCHANGED <<rounds, waiting, seat, today, action, buyable, broken, missed>>

Lapses ==
  /\ since > 0
  /\ since' = 0
  /\ UNCHANGED <<rounds, waiting, seat, today, action, buyable, exempt, broken, missed>>

AllowanceNext ==
  \/ \E r \in Offered :
       \/ AsksFor(r) \/ IsRecorded(r) \/ IsBuilt(r) \/ BuildEnds(r) \/ IsSkipped(r)
       \/ Launches(r) \/ Repeats(r)
  \/ RoundIsUp \/ Leaves \/ DayPasses
  \/ \E a \in {"not_yet", "would_pay"} : Answers(a)
  \/ Pays \/ Lapses \/ GateBreaks

---------------------------------------------------------------------------
(* What the gate promises.                                                 *)

\* A free customer who was never let through runs at most the free rounds,
\* however builds fail, rounds are repeated, skipped or left ungraded, and a
\* subscriber at most the paid practice rounds in a period: and beyond these
\* one for each start that a spent allowance would have refused and a failing
\* gate did not.  The repeats of a plan item, which has no row per run, are the
\* one thing the code does not count.
AllowanceIsBounded ==
  /\ ~ exempt => countRoundsRun <= FreeRounds + missed
  /\ since > 0 /\ ~ hasGrant => Cardinality(RunsSince(since)) <= PaidRounds + missed
=============================================================================
