--------------------------------- MODULE Runway ---------------------------------
(***************************************************************************)
(* The timeline of a plan (server/src/queue.ts, bucketIntoDays; app.ts,    *)
(* refreshQueue): what a candidate sees of their queue each day, dealt     *)
(* over the days that remain before the loop's one date, or before the     *)
(* date of each round.                                                     *)
(*                                                                         *)
(* A day is a number; an offset counts days from today.  The interview's   *)
(* day runs to its last second, so a date's offset is one more than the    *)
(* days until it.  Runs of empty days, which the page draws as one row,    *)
(* are layout and left out.                                                *)
(***************************************************************************)
EXTENDS Integers, Sequences, FiniteSets, FiniteSetsExt, Functions

CONSTANTS
  RoundOf,            \* for each item of the queue, its round
  RoundDates,         \* the dates a round may have, 0 for none
  LoopDates,          \* the dates the loop may have
  LastRunDay,         \* bounds: days, and changes of an item's status
  MaxMoves,
  FUTURE_DAYS_SHOWN

ASSUME RunwayAssumption ==
  /\ RoundOf \in Seq(Range(RoundOf)) /\ RoundOf # <<>>
  /\ LastRunDay \in Nat \ {0} /\ MaxMoves \in Nat
  /\ RoundDates \cup LoopDates \subseteq 0..LastRunDay
  /\ FUTURE_DAYS_SHOWN \in Nat \ {0}

VARIABLES
  plan,               \* target.json: dated (round -> date), loop (interview_date)
  queued,             \* queue.json: the status of each item
  thisDay,            \* today
  moves

runwayVars == <<plan, queued, thisDay, moves>>

Items == DOMAIN RoundOf
PlanRounds == Range(RoundOf)
NoDate == 0
NoItem == 0
RunDays == 1..LastRunDay
Live == {"pending", "generating", "ready", "failed"}

RunwayTypeOK ==
  /\ plan \in [dated : [PlanRounds -> RunDays \cup {NoDate}], loop : RunDays \cup {NoDate}]
  /\ queued \in [Items -> Live \cup {"done"}]
  /\ thisDay \in RunDays
  /\ moves \in 0..MaxMoves

RunwayInit ==
  /\ plan \in [dated : [PlanRounds -> RoundDates], loop : LoopDates]
  /\ queued = [i \in Items |-> "pending"]
  /\ thisDay = 1
  /\ moves = 0

\* A night passes.
NightPasses ==
  /\ thisDay < LastRunDay
  /\ thisDay' = thisDay + 1
  /\ UNCHANGED <<plan, queued, moves>>

\* The disk says otherwise of an item (reconcileWithDisk): it is built, played
\* and graded, or a repeat takes a done one back.
ItemMoves(i) ==
  /\ moves < MaxMoves
  /\ moves' = moves + 1
  /\ \E s \in (Live \cup {"done"}) \ {queued[i]} :
       /\ queued[i] = "done" => s = "ready"
       /\ queued' = [queued EXCEPT ![i] = s]
  /\ UNCHANGED <<plan, thisDay>>

RunwayNext == NightPasses \/ \E i \in Items : ItemMoves(i)

---------------------------------------------------------------------------
(* Dates.                                                                  *)

daysLeft(date) == IF date < thisDay THEN 1 ELSE date - thisDay + 1

specDeadline(r) == IF plan.dated[r] # NoDate THEN plan.dated[r] ELSE plan.loop
deadlineOf(i) == specDeadline(RoundOf[i])
hasSpecDates == \E r \in PlanRounds : plan.dated[r] # NoDate
loopEnd == Max({plan.loop} \cup {plan.dated[r] : r \in PlanRounds})

upcoming == {specDeadline(r) : r \in PlanRounds} \cap (thisDay..LastRunDay)

---------------------------------------------------------------------------
(* What is to be dealt.                                                    *)

remaining == {i \in Items : queued[i] \in Live}

\* Startable beats in flight beats failed beats queued.
Urgency == [ready |-> 1, generating |-> 2, failed |-> 3, pending |-> 4]

todayItem ==
  IF remaining = {} THEN NoItem
  ELSE CHOOSE i \in remaining : \A j \in remaining :
         \/ Urgency[queued[i]] < Urgency[queued[j]]
         \/ Urgency[queued[i]] = Urgency[queued[j]] /\ i <= j

future == remaining \ {todayItem}

\* nextUp, the item the page offers to start.
nextUp ==
  LET open == {i \in remaining : queued[i] \in {"ready", "pending"}}
      ready == {i \in open : queued[i] = "ready"}
  IN  IF ready # {} THEN Min(ready) ELSE IF open # {} THEN Min(open) ELSE NoItem

Spread(days, n) == IF n = 0 THEN 1 ELSE Max({1, days \div (n + 1)})

---------------------------------------------------------------------------
(* One date for the loop: items are put on every so many days, and on the  *)
(* last one when they are more than the days; a later one then takes the   *)
(* place of an earlier.                                                    *)

futureDays == Max({1, daysLeft(plan.loop) - 1})

Dealt ==
  LET interval == Spread(futureDays, Cardinality(future))
      Slot(i) == Min({futureDays, Cardinality({j \in future : j <= i}) * interval})
  IN  [o \in {Slot(i) : i \in future} |-> Max({i \in future : Slot(i) = o})]

---------------------------------------------------------------------------
(* A date for each round: its items go into the days between the last      *)
(* interview and its own; those of a round that is past go to the nearest. *)

\* Into the first free day from `want' to `end', or nowhere.
claim(acc, want, end, item) ==
  LET free == {o \in Min({want, end})..end :
                 o \notin DOMAIN acc.schedule \cup acc.interviews}
  IN  IF free = {} THEN acc
      ELSE [acc EXCEPT !.schedule =
              [o \in DOMAIN @ \cup {Min(free)} |-> IF o = Min(free) THEN item ELSE @[o]]]

\* The order of a segment: what is left of rounds that are past comes first.
Passed(i) == deadlineOf(i) \in 1..(thisDay - 1)
Key(i) == IF Passed(i) THEN i ELSE Len(RoundOf) + i
PlaceIn(S, i) == Cardinality({j \in S : Key(j) <= Key(i)})
ItemAt(S, k) == CHOOSE i \in S : PlaceIn(S, i) = k

\* The items of seg are put on every step days after `from', up to `end'.
PutOut(acc, seg, from, step, end) ==
  LET out[k \in 0..Cardinality(seg)] ==
        IF k = 0 THEN acc ELSE claim(out[k - 1], from + k * step, end, ItemAt(seg, k))
  IN  out[Cardinality(seg)]

\* Forgetting what is left of rounds that are past.
SegmentOfOwn(dl, carried) == {i \in future : deadlineOf(i) = dl}

\* The items for window dl, those of passed rounds with the first.
Segment(dl, carried) == {i \in future : deadlineOf(i) = dl \/ (carried /\ Passed(i))}

DealtTo(acc, dl) ==
  LET at == daysLeft(dl)
      seg == Segment(dl, acc.cursor = 1)
      end == Max({acc.cursor, at - 1})
      interval == Spread(end - acc.cursor + 1, Cardinality(seg))
      marked == [acc EXCEPT !.interviews = @ \cup {at}, !.cursor = at + 1]
  IN  PutOut(marked, seg, acc.cursor - 1, interval, end)

NothingDealt == [schedule |-> <<>>, interviews |-> {}, cursor |-> 1]

\* When every date is past, what is left is for tomorrow, which has one place.
Leftovers ==
  PutOut(NothingDealt, {i \in future : deadlineOf(i) # NoDate}, 0, 1, daysLeft(loopEnd))

DealtByRound ==
  LET through[d \in 0..LastRunDay] ==
        IF d = 0 THEN NothingDealt
        ELSE IF d \in upcoming THEN DealtTo(through[d - 1], d) ELSE through[d - 1]
  IN  IF upcoming = {} THEN Leftovers ELSE through[LastRunDay]

---------------------------------------------------------------------------
(* The page.                                                               *)

\* The offsets up to `last' that get a row of their own: the first few that
\* are no interview's.
Visible(last, interviews) ==
  {o \in (1..last) \ interviews : Cardinality((1..o) \ interviews) <= FUTURE_DAYS_SHOWN}

Rows ==
  LET undated == ~ hasSpecDates /\ plan.loop = NoDate
      dealt == IF hasSpecDates THEN DealtByRound
               ELSE [schedule |-> Dealt, interviews |-> {}, cursor |-> 1]
      last == IF hasSpecDates THEN Max(DOMAIN dealt.schedule \cup dealt.interviews \cup {1})
              ELSE futureDays
      shown == Visible(last, dealt.interviews)
      emitted == Max(shown \cup dealt.interviews)
  IN  IF remaining = {} \/ undated
      THEN [days |-> <<>>, beyond |-> {}, hidden |-> {}, unscheduled |-> future]
      ELSE [days |-> Restrict(dealt.schedule, DOMAIN dealt.schedule \cap shown),
            beyond |-> {dealt.schedule[o] : o \in DOMAIN dealt.schedule \ shown},
            hidden |-> {dealt.schedule[o] : o \in {p \in DOMAIN dealt.schedule : p > emitted}},
            unscheduled |-> {i \in future : deadlineOf(i) = NoDate}]

\* What the page shows of what remains, or counts in its last row.
OnPage(rows) == {todayItem} \cup Range(rows.days) \cup rows.hidden \cup rows.unscheduled

---------------------------------------------------------------------------
(* What the timeline promises.                                             *)

\* No item is in two places, whichever path dealt it: it is today's, one
\* day's, counted, or unscheduled; and a finished one is in none of them.
EachItemOnce(rows) ==
  /\ \A o, p \in DOMAIN rows.days : rows.days[o] = rows.days[p] => o = p
  /\ Range(rows.days) \cap (rows.hidden \cup rows.unscheduled) = {}
  /\ rows.hidden \cap rows.unscheduled = {}
  /\ todayItem \notin Range(rows.days) \cup rows.hidden \cup rows.unscheduled
  /\ OnPage(rows) \ {NoItem} \subseteq remaining

\* The days a round's items may be put on: those after the last interview
\* before its date, the first of which is lost, or from tomorrow.
Window(dl) ==
  LET before == {d \in upcoming : d < dl}
  IN  IF before = {} THEN dl - thisDay ELSE dl - Max(before) - 1

\* The items that have to share the window: its own, and those of rounds that
\* are past when it is the nearest.
Sharing(dl) ==
  {i \in future : deadlineOf(i) = dl \/ (Passed(i) /\ dl = Min(upcoming))}

RoomToSpare(dl) == Cardinality(Sharing(dl)) < Window(dl)

\* On a day for its round: before its date when the window has a day more than
\* items, and never after it.
OnTime(o, dl) ==
  /\ thisDay + o <= dl
  /\ RoomToSpare(dl) => thisDay + o < dl

\* No practice is put after the date it is for, while that is still to come, and
\* none on that date itself but in a window that its items fill.  (The comments
\* say before it: queue.ts:421, 450.)  With one date for the loop, on that date
\* itself the rest is put on the next day.
InTime(rows) ==
  \A o \in DOMAIN rows.days :
    LET deadline == deadlineOf(rows.days[o])
    IN  deadline >= thisDay /\ (hasSpecDates \/ deadline > thisDay) => OnTime(o, deadline)

\* Is there a day for every item?
HasRoom ==
  IF ~ hasSpecDates
  THEN plan.loop = NoDate \/ Cardinality(future) <= Max({1, plan.loop - thisDay})
  ELSE /\ \A dl \in upcoming : Cardinality(Sharing(dl)) <= Window(dl)
       /\ upcoming = {} => Cardinality({i \in future : deadlineOf(i) # NoDate}) <= 1

\* With a day for every item, each is on the page or beyond the days it shows;
\* these are counted, except before an interview that has a row of its own.
\* Without, an item more than the days takes the place of another or has none,
\* and is on no row and in no count.  (The comment says that it does not drop:
\* queue.ts:471.)
NothingDropsOut(rows) ==
  HasRoom => /\ remaining \subseteq OnPage(rows) \cup rows.beyond
             /\ Cardinality(DOMAIN rows.days) <= FUTURE_DAYS_SHOWN
             /\ rows.beyond # rows.hidden =>
                  \E dl \in upcoming : hasSpecDates /\ dl >= thisDay + FUTURE_DAYS_SHOWN

\* What the page offers to start is what it shows for today, unless that one
\* is being built or failed.
TodayIsNext ==
  nextUp # NoItem =>
    nextUp = todayItem \/ queued[todayItem] \in {"generating", "failed"}

\* The timeline shows what is left to do: each item at most once, none after its
\* round and, with a day to spare, all before it; and every item when there is a
\* day for each.
RunwayIsHonest ==
  LET rows == Rows
  IN  EachItemOnce(rows) /\ InTime(rows) /\ NothingDropsOut(rows) /\ TodayIsNext
=============================================================================
