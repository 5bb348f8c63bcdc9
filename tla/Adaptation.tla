------------------------------ MODULE Adaptation ------------------------------
(***************************************************************************)
(* Changing a plan under way (server/src/adapt.ts, the /api/adapt and      *)
(* /api/adapt/apply routes and refreshQueue in app.ts, proposeQueue in     *)
(* queue.ts).                                                              *)
(*                                                                         *)
(* A plan has round shapes (specs), which are only ever added or retired,  *)
(* and a queue of items that each point at one.  New material is turned    *)
(* into a difference that the candidate looks at and sends back; nothing   *)
(* holds the plan still meanwhile, and other tabs preview and apply too.   *)
(* Applying writes target.json, then queue.json; each look at the plan     *)
(* repairs a queue that a crash kept from following.                       *)
(***************************************************************************)
EXTENDS Naturals, FiniteSets

CONSTANTS
  Slots,        \* the items, 1..n in the order of the queue
  FirstShapes,  \* the specs the plan was accepted with, 1..k
  MaxShapes,    \* bound on specs
  MaxPreviews   \* bound on differences under the candidates' eyes at one time

ASSUME AdaptAssumption ==
  /\ Slots \subseteq Nat \ {0} /\ IsFiniteSet(Slots)
  /\ MaxShapes \in Nat
  /\ FirstShapes \subseteq 1..MaxShapes /\ FirstShapes # {}

VARIABLES
  shapes,    \* target.specs, numbered in the order they were added
  retired,   \* superseded in some record of target.adaptations
  record,    \* the re-points of the last record
  queue,     \* stored items: status, spec_id, stale
  built,     \* the shape each directory was last built under, 0 for none
  previews,  \* differences computed and not sent back yet
  outdated,  \* one was applied to shapes it was not computed for
  looked     \* the plan was looked at since the last crash

adaptVars == <<shapes, retired, record, queue, built, previews, outdated, looked>>

Item == [status : {"pending", "generating", "ready", "failed", "done"},
         shape : 1..MaxShapes, stale : BOOLEAN]
Pointers == [Slots -> 0..MaxShapes]   \* 0 for an item that is not moved

AdaptTypeOK ==
  /\ shapes \subseteq 1..MaxShapes
  /\ retired \subseteq shapes
  /\ record \in [from : Pointers, to : Pointers]
  /\ queue \in [Slots -> Item]
  /\ built \in [Slots -> 0..MaxShapes]
  /\ \A d \in previews :
       d \in [new : 1..MaxShapes, drop : 0..MaxShapes, from : Pointers, to : Pointers,
              flagged : SUBSET Slots,
              basis : [shapes : SUBSET (1..MaxShapes), at : Pointers]]
  /\ {outdated, looked} \subseteq BOOLEAN

\* proposeQueue: the items take the shapes in turn.
Nth(S, k) == CHOOSE x \in S : Cardinality({y \in S : y < x}) = k % Cardinality(S)

AdaptInit ==
  /\ shapes = FirstShapes
  /\ retired = {}
  /\ record = [from |-> [i \in Slots |-> 0], to |-> [i \in Slots |-> 0]]
  /\ queue = [i \in Slots |->
       [status |-> "pending", shape |-> Nth(FirstShapes, i - 1), stale |-> FALSE]]
  /\ built = [i \in Slots |-> 0]
  /\ previews = {}
  /\ outdated = FALSE
  /\ looked = TRUE

---------------------------------------------------------------------------
(* The difference (planAdaptation).                                        *)

Reshapeable(q, i) == q[i].status \in {"pending", "failed"}

\* Only what this difference supersedes leaves the rotation.
ActiveForgetful(new, drop) == (shapes \ {drop}) \cup {new}

\* The active shapes are the ones no record has retired, and the new one.
ActiveWith(new, drop) == (shapes \ (retired \cup {drop})) \cup {new}

\* Items not begun take the active shapes in turn; built ones move from the
\* superseded shape to the new one.
Target(i, new, drop) ==
  LET turn == Cardinality({j \in Slots : j < i /\ Reshapeable(queue, j)})
  IN  IF Reshapeable(queue, i) THEN Nth(ActiveWith(new, drop), turn)
      ELSE IF queue[i].status = "ready" /\ queue[i].shape = drop THEN new
      ELSE queue[i].shape

\* What a difference is computed from.
Basis == [shapes |-> shapes, at |-> [i \in Slots |-> queue[i].shape]]

Difference(new, drop) ==
  LET moved == {i \in Slots : Target(i, new, drop) # queue[i].shape}
  IN  [new |-> new, drop |-> drop,
       from |-> [i \in Slots |-> IF i \in moved THEN queue[i].shape ELSE 0],
       to |-> [i \in Slots |-> IF i \in moved THEN Target(i, new, drop) ELSE 0],
       flagged |-> {i \in Slots : queue[i].status = "ready" /\ queue[i].shape = drop},
       basis |-> Basis]

\* POST /api/adapt: the model proposes a shape with an id no shape has had,
\* which supersedes an active one or none (gateAdapt).  Writes nothing.
Previews ==
  /\ Cardinality(previews) < MaxPreviews
  /\ Cardinality(shapes) < MaxShapes
  /\ \E new \in 1..MaxShapes, drop \in (shapes \ retired) \cup {0} :
       /\ \A s \in shapes : s < new
       /\ \A d \in previews : d.new # new
       /\ previews' = previews \cup {Difference(new, drop)}
  /\ UNCHANGED <<shapes, retired, record, queue, built, outdated, looked>>

---------------------------------------------------------------------------
(* Applying it (applyAdaptation), to the plan as it is by then.            *)

Movable(i) == Reshapeable(queue, i) \/ queue[i].status = "ready"

Applied(d, i) == d.to[i] # 0 /\ Movable(i)

After(d) ==
  [i \in Slots |->
     [queue[i] EXCEPT !.shape = IF Applied(d, i) THEN d.to[i] ELSE @,
                      !.stale = @ \/ (queue[i].status = "ready"
                                      /\ (Applied(d, i) \/ i \in d.flagged))]]

CommitsTarget(d) ==
  /\ d.new \notin shapes
  /\ shapes' = shapes \cup {d.new}
  /\ retired' = retired \cup ({d.drop} \ {0})
  /\ record' = [from |-> [i \in Slots |-> IF Applied(d, i) THEN d.from[i] ELSE 0],
                to |-> [i \in Slots |-> IF Applied(d, i) THEN d.to[i] ELSE 0]]
  /\ outdated' = (outdated \/ d.basis # Basis)
  /\ previews' = previews \ {d}

Applies(d) ==
  /\ CommitsTarget(d)
  /\ queue' = After(d)
  /\ UNCHANGED <<built, looked>>

\* The app dies between target.json and queue.json.
DiesApplying(d) ==
  /\ CommitsTarget(d)
  /\ looked' = FALSE
  /\ UNCHANGED <<queue, built>>

\* The candidate keeps the plan as it is.
Discards(d) ==
  /\ previews' = previews \ {d}
  /\ UNCHANGED <<shapes, retired, record, queue, built, outdated, looked>>

\* refreshQueue, first: reconcileAdaptation does the last record again.
Behind == {i \in Slots : /\ record.to[i] # 0
                         /\ queue[i].shape = record.from[i]
                         /\ Reshapeable(queue, i)}

Looks ==
  /\ queue' = [i \in Slots |->
       IF i \in Behind THEN [queue[i] EXCEPT !.shape = record.to[i]] ELSE queue[i]]
  /\ looked' = TRUE
  /\ UNCHANGED <<shapes, retired, record, built, previews, outdated>>

---------------------------------------------------------------------------
(* The items meanwhile (the routes that build and launch).                 *)

Sets(i, status) == queue' = [queue EXCEPT ![i].status = status]

Builds(i) ==
  /\ queue[i].status \in {"pending", "failed"}
  /\ \A j \in Slots : queue[j].status # "generating"
  /\ Sets(i, "generating")
  /\ built' = [built EXCEPT ![i] = queue[i].shape]
  /\ UNCHANGED <<shapes, retired, record, previews, outdated, looked>>

\* POST /api/rebuild, for a flagged item.
RebuildsIt(i) ==
  /\ queue[i].status = "ready" /\ queue[i].stale
  /\ \A j \in Slots : queue[j].status # "generating"
  /\ queue' = [queue EXCEPT ![i].status = "generating", ![i].stale = FALSE]
  /\ built' = [built EXCEPT ![i] = queue[i].shape]
  /\ UNCHANGED <<shapes, retired, record, previews, outdated, looked>>

Finishes(i) ==
  /\ queue[i].status = "generating"
  /\ \E s \in {"ready", "failed"} : Sets(i, s)
  /\ UNCHANGED <<shapes, retired, record, built, previews, outdated, looked>>

IsPlayed(i) ==
  /\ queue[i].status = "ready"
  /\ Sets(i, "done")
  /\ UNCHANGED <<shapes, retired, record, built, previews, outdated, looked>>

AdaptNext ==
  \/ Previews
  \/ \E d \in previews : Applies(d) \/ DiesApplying(d) \/ Discards(d)
  \/ Looks
  \/ \E i \in Slots : Builds(i) \/ RebuildsIt(i) \/ Finishes(i) \/ IsPlayed(i)

---------------------------------------------------------------------------
(* What a plan promises while it changes.                                  *)

\* Retirement is permanent: once the plan has been looked at, no item that has
\* not been begun points at a retired shape, after any number of changes,
\* crashes and repairs.  A difference previewed before another was applied, or
\* before a crashed one was repaired, is the exception: it is applied as it was,
\* and may bring a retired shape back.
NothingWaitsRetired ==
  looked /\ ~ outdated
    => \A i \in Slots : queue[i].status = "pending" => queue[i].shape \notin retired

\* A built item that no longer matches what was built says so, so that a
\* rebuild is offered before it is played.
MismatchIsFlagged ==
  \A i \in Slots :
    queue[i].status = "ready" => built[i] = queue[i].shape \/ queue[i].stale

\* A plan that changes keeps its items on the shapes that hold.
PlanStaysMatched == NothingWaitsRetired /\ MismatchIsFlagged
=============================================================================
