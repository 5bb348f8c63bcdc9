-------------------------------- MODULE PlanDesk --------------------------------
(***************************************************************************)
(* Planning by conversation: the page that talks to the planner and shows  *)
(* its latest proposal, the stored conversation, and the accept that turns *)
(* a proposal into rounds (the plan object of client/app.js, runPlannerTurn*)
(* and latestProposal of planner.ts, and the target, plan and accept-spec  *)
(* routes of app.ts).                                                      *)
(*                                                                         *)
(* The page has one plan object for whatever plan is open; a reply is      *)
(* written into it whenever it comes, the answer to a first message too,   *)
(* which opens the plan it created.  A turn is stored when the planner     *)
(* has answered; an accept saves the rounds, then reads the stored         *)
(* conversation, then names the rounds of a new queue, and each step       *)
(* yields to everything else.  A proposal is named by its plan and number. *)
(***************************************************************************)
EXTENDS Naturals, Sequences, FiniteSets

CONSTANTS
  Plans,
  MaxPlanTurns,   \* bound on turns sent
  MaxAccepts,     \* bound on accepts
  MaxOpens,       \* bound on plans opened again
  MaxPlanFaults   \* bound on lost replies, failed turns and deletions

ASSUME PlansAssumption == "none" \notin Plans
ASSUME PlanBoundsAssumption ==
  MaxPlanTurns \in Nat /\ MaxAccepts \in Nat /\ MaxPlanFaults \in Nat

VARIABLES
  planDir,      \* each plan's directory
  page,         \* the plan object
  creations,    \* plans asked for, until the page has heard and the gate is shut
  planTurns,    \* turns and loads, from their request to their reply
  accepts,      \* accepts, from their request to their reply
  sentTurns, sentAccepts, opens,
  born,         \* plans ever created: an id is not used again
  worked,       \* plans that have a round built since their rounds were laid
  planLapses,   \* "late": a reply reached another visit of the page than its own;
                \* "missed": one was lost; "twice": two accepts at once
  planFaults

planVars == <<planDir, page, creations, planTurns, accepts, sentTurns, sentAccepts, opens, born, worked,
              planLapses, planFaults>>

NoProposal == [of |-> "none", n |-> 0]
Proposals == [of : Plans \union {"none"}, n : 0..MaxPlanTurns]
NoDir == [exists |-> FALSE, rounds |-> NoProposal, topics |-> NoProposal,
          conversation |-> <<>>, laid |-> 0, built |-> FALSE]
NoPage == [tid |-> "none", busy |-> FALSE, shown |-> NoProposal]

PlanDeskTypeOK ==
  /\ \A p \in Plans :
       LET d == planDir[p] IN
         /\ {d.exists, d.built} \subseteq BOOLEAN
         /\ {d.rounds, d.topics} \subseteq Proposals
         /\ \A i \in DOMAIN d.conversation : d.conversation[i] \in Proposals
         /\ d.laid \in 0..MaxAccepts
  /\ page.tid \in Plans \union {"none"} /\ page.busy \in BOOLEAN /\ page.shown \in Proposals
  /\ \A c \in creations :
       /\ c.of \in Plans /\ c.visit \in BOOLEAN
       /\ c.stage \in {"asked", "made", "refused", "gated"}
  /\ \A r \in planTurns :
       /\ r.kind \in {"turn", "load"} /\ r.of \in Plans /\ r.visit \in BOOLEAN
       /\ r.stage \in {"thinking", "answered", "failed"}
       /\ r.proposal \in Proposals
  /\ \A a \in accepts :
       /\ a.of \in Plans /\ a.shown \in Proposals /\ a.read \in Proposals
       /\ a.stage \in {"sent", "saved", "naming", "done"}
  /\ worked \subseteq born /\ born \subseteq Plans
  /\ planLapses \subseteq {"late", "missed", "twice"}
  /\ planFaults \in 0..MaxPlanFaults

PlanDeskInit ==
  /\ planDir = [p \in Plans |-> NoDir]
  /\ page = NoPage
  /\ creations = {} /\ planTurns = {} /\ accepts = {}
  /\ sentTurns = 0 /\ sentAccepts = 0 /\ opens = 0
  /\ born = {} /\ worked = {}
  /\ planLapses = {}
  /\ planFaults = 0

PlanFault ==
  /\ planFaults < MaxPlanFaults
  /\ planFaults' = planFaults + 1

---------------------------------------------------------------------------
(* The page.                                                               *)

\* Whatever is under way belongs to an earlier visit from here on.
Outdated(rs) == {[r EXCEPT !.visit = FALSE] : r \in rs}

Turn(p) == [kind |-> "turn", of |-> p, n |-> sentTurns + 1, visit |-> TRUE,
            stage |-> "thinking", proposal |-> NoProposal, reply |-> TRUE]

\* planTurn.  A turn reads what the plan holds when it arrives and refuses one
\* that says nothing to a conversation under way; that reply shows an error.
SendsTurn(p, others) ==
  /\ sentTurns < MaxPlanTurns
  /\ sentTurns' = sentTurns + 1
  /\ planTurns' = others \union {Turn(p)}
  /\ accepts' = {[a EXCEPT !.quiet = @ /\ a.of # p] : a \in accepts}

Says ==
  /\ page.tid # "none" /\ ~page.busy
  /\ page' = [page EXCEPT !.busy = TRUE]
  /\ SendsTurn(page.tid, planTurns)
  /\ UNCHANGED <<planDir, creations, sentAccepts, opens, born, worked, planLapses, planFaults>>

\* As if the proposal stayed up.
LeavesProposal ==
  /\ page # NoPage \/ creations # {}
  /\ page' = [NoPage EXCEPT !.shown = page.shown]
  /\ planTurns' = Outdated(planTurns) /\ creations' = Outdated(creations)
  /\ UNCHANGED <<planDir, accepts, sentTurns, sentAccepts, opens, born, worked, planLapses,
                 planFaults>>

LeavesPlan ==
  /\ page # NoPage \/ creations # {}
  /\ page' = NoPage
  /\ planTurns' = Outdated(planTurns) /\ creations' = Outdated(creations)
  /\ UNCHANGED <<planDir, accepts, sentTurns, sentAccepts, opens, born, worked, planLapses,
                 planFaults>>

\* As if the first turn's were.
LatestOfFirst(c) == IF c = <<>> THEN NoProposal ELSE c[1]

\* latestProposal: the last turn that carried one.
LatestProposal(c) ==
  LET carrying == {i \in DOMAIN c : c[i] # NoProposal} IN
    IF carrying = {} THEN NoProposal
    ELSE c[CHOOSE i \in carrying : \A j \in carrying : j <= i]

\* planResume: the stored conversation, asked for and shown when it comes.
OpensPlan(p) ==
  /\ page.tid = "none" /\ planDir[p].exists
  /\ opens < MaxOpens
  /\ opens' = opens + 1
  /\ page' = [tid |-> p, busy |-> TRUE, shown |-> NoProposal]
  /\ creations' = Outdated(creations)
  /\ planTurns' = Outdated(planTurns) \union
       {[kind |-> "load", of |-> p, n |-> opens + 1, visit |-> TRUE, stage |-> "answered",
         proposal |-> LatestProposal(planDir[p].conversation), reply |-> TRUE]}
  /\ UNCHANGED <<planDir, accepts, sentTurns, sentAccepts, born, worked, planLapses,
                 planFaults>>

---------------------------------------------------------------------------
(* A first message creates its plan.                                       *)

\* planFirstSend: the plan is asked for before the planner is.  The page waits
\* with no plan open; the paywall's card covers it until that is answered.
AsksForPlan(p) ==
  /\ page.tid = "none" /\ ~page.busy
  /\ p \notin born /\ \A c \in creations : c.of # p /\ c.stage # "gated"
  /\ page' = [page EXCEPT !.busy = TRUE]
  /\ creations' = creations \union {[of |-> p, visit |-> TRUE, stage |-> "asked"]}
  /\ UNCHANGED <<planDir, planTurns, accepts, sentTurns, sentAccepts, opens, born, worked,
                 planLapses, planFaults>>

\* The target route, up to its answer.
PlanIsMade(c) ==
  /\ c.stage = "asked"
  /\ born' = born \union {c.of}
  /\ planDir' = [planDir EXCEPT ![c.of].exists = TRUE]
  /\ creations' = (creations \ {c}) \union {[c EXCEPT !.stage = "made"]}
  /\ UNCHANGED <<page, planTurns, accepts, sentTurns, sentAccepts, opens, worked, planLapses,
                 planFaults>>

PlanIsRefused(c) ==
  /\ c.stage = "asked"
  /\ PlanFault
  /\ creations' = (creations \ {c}) \union {[c EXCEPT !.stage = "refused"]}
  /\ UNCHANGED <<planDir, page, planTurns, accepts, sentTurns, sentAccepts, opens, born, worked,
                 planLapses>>

\* The page hears of it, whatever plan it has open by then.
HearsOf(c) == planLapses' = planLapses \union (IF c.visit THEN {} ELSE {"late"})

\* The new plan is opened under what the page shows, and its planner is asked.
CreationLands(c) ==
  /\ c.stage = "made"
  /\ HearsOf(c)
  /\ page' = [page EXCEPT !.tid = c.of, !.busy = TRUE]
  /\ SendsTurn(c.of, planTurns)
  /\ creations' = creations \ {c}
  /\ UNCHANGED <<planDir, sentAccepts, opens, born, worked, planFaults>>

\* An error ends it; a refusal for payment raises the card, where none is up.
RefusalLands(c) ==
  /\ c.stage = "refused"
  /\ HearsOf(c)
  /\ page' = [page EXCEPT !.busy = FALSE]
  /\ \/ creations' = creations \ {c}
     \/ /\ \A d \in creations : d.stage # "gated"
        /\ creations' = (creations \ {c}) \union {[c EXCEPT !.stage = "gated"]}
  /\ UNCHANGED <<planDir, planTurns, accepts, sentTurns, sentAccepts, opens, born, worked,
                 planFaults>>

CreationIsLost(c) ==
  /\ c.stage \in {"asked", "made"}
  /\ PlanFault
  /\ HearsOf(c)
  /\ page' = [page EXCEPT !.busy = FALSE]
  /\ creations' = creations \ {c}
  /\ UNCHANGED <<planDir, planTurns, accepts, sentTurns, sentAccepts, opens, born, worked>>

\* The card is answered: the plan is asked for again, or not.
CardLetsThrough(c) ==
  /\ c.stage = "gated"
  /\ HearsOf(c)
  /\ page' = [page EXCEPT !.busy = TRUE]
  /\ creations' = (creations \ {c}) \union {[c EXCEPT !.stage = "asked"]}
  /\ UNCHANGED <<planDir, planTurns, accepts, sentTurns, sentAccepts, opens, born, worked,
                 planFaults>>

CardIsDismissed(c) ==
  /\ c.stage = "gated"
  /\ creations' = creations \ {c}
  /\ UNCHANGED <<planDir, page, planTurns, accepts, sentTurns, sentAccepts, opens, born, worked,
                 planLapses, planFaults>>

---------------------------------------------------------------------------
(* Turns.                                                                  *)

\* runPlannerTurn: what was said and what came back are stored together, after
\* the gate.
TurnLands(r, proposes) ==
  LET proposal == IF proposes THEN [of |-> r.of, n |-> r.n] ELSE NoProposal IN
  /\ r.stage = "thinking"
  /\ planDir' = [planDir EXCEPT ![r.of].conversation = Append(@, proposal)]
  /\ planTurns' = (planTurns \ {r}) \union
       (IF r.reply THEN {[r EXCEPT !.stage = "answered", !.proposal = proposal]} ELSE {})
  /\ UNCHANGED <<page, creations, accepts, sentTurns, sentAccepts, opens, born, worked, planLapses, planFaults>>

TurnFails(r) ==
  /\ r.stage = "thinking"
  /\ PlanFault
  /\ planTurns' = (planTurns \ {r}) \union
       (IF r.reply THEN {[r EXCEPT !.stage = "failed"]} ELSE {})
  /\ UNCHANGED <<planDir, page, creations, accepts, sentTurns, sentAccepts, opens, born, worked, planLapses>>

\* The reply, written into whatever plan is open.  A load shows the latest
\* proposal and starts a conversation that has not begun.
ReplyLands(r) ==
  /\ r.stage \in {"answered", "failed"}
  /\ planLapses' = planLapses \union (IF r.visit THEN {} ELSE {"late"})
  /\ LET begins == r.kind = "load" /\ planDir[r.of].conversation = <<>>
                   /\ page.tid # "none" /\ sentTurns < MaxPlanTurns
         shown == IF r.kind = "load" \/ r.proposal # NoProposal THEN r.proposal ELSE page.shown
     IN /\ page' = [page EXCEPT !.busy = begins, !.shown = shown]
        /\ IF begins THEN SendsTurn(page.tid, planTurns \ {r})
                     ELSE planTurns' = planTurns \ {r} /\ UNCHANGED <<sentTurns, accepts>>
  /\ UNCHANGED <<planDir, creations, sentAccepts, opens, born, worked, planFaults>>

\* The page gives a turn up that the server carries on with.
ReplyIsLost(r) ==
  /\ r.reply
  /\ PlanFault
  /\ planTurns' = (planTurns \ {r}) \union
       (IF r.stage = "thinking" THEN {[r EXCEPT !.reply = FALSE]} ELSE {})
  /\ page' = [page EXCEPT !.busy = FALSE]
  /\ planLapses' = planLapses \union {"missed"} \union (IF r.visit THEN {} ELSE {"late"})
  /\ UNCHANGED <<planDir, creations, accepts, sentTurns, sentAccepts, opens, born, worked>>

---------------------------------------------------------------------------
(* Accepting.                                                              *)

\* The confirm button: the specs the page shows, for the plan it has open.  It
\* is live while the planner thinks and, once the panel is drawn again, while
\* an accept is under way.
Confirms ==
  /\ page.tid # "none" /\ page.shown # NoProposal
  /\ sentAccepts < MaxAccepts
  /\ sentAccepts' = sentAccepts + 1
  /\ accepts' = accepts \union
       {[n |-> sentAccepts + 1, of |-> page.tid, shown |-> page.shown, stage |-> "sent",
         read |-> NoProposal, topics |-> NoProposal,
         quiet |-> ~\E r \in planTurns : r.of = page.tid]}
  /\ planLapses' = planLapses \union
       (IF \E a \in accepts : a.of = page.tid THEN {"twice"} ELSE {})
  /\ UNCHANGED <<planDir, page, creations, planTurns, sentTurns, opens, born, worked, planFaults>>

To(a, b) == accepts' = (accepts \ {a}) \union {b}

\* The rounds are saved before anything is awaited.
AcceptArrives(a) ==
  /\ a.stage = "sent"
  /\ IF planDir[a.of].exists
     THEN /\ planDir' = [planDir EXCEPT ![a.of].rounds = a.shown]
          /\ To(a, [a EXCEPT !.stage = "saved", !.topics = planDir[a.of].topics])
     ELSE /\ accepts' = accepts \ {a}
          /\ UNCHANGED planDir
  /\ UNCHANGED <<page, creations, planTurns, sentTurns, sentAccepts, opens, born, worked, planLapses, planFaults>>

LaysQueue(a) == planDir[a.of].laid = 0

\* What the planner settled is read again from the stored conversation; the
\* topics freeze at the first accept that finds some.
AcceptReads(a) ==
  /\ a.stage = "saved"
  /\ LET latest == LatestProposal(planDir[a.of].conversation)
         freezes == a.topics = NoProposal /\ latest # NoProposal
     IN /\ planDir' = IF freezes
                      THEN [planDir EXCEPT ![a.of].exists = TRUE, ![a.of].topics = latest,
                                           ![a.of].rounds = a.shown]
                      ELSE planDir
        /\ To(a, [a EXCEPT !.read = latest,
                           !.stage = IF LaysQueue(a) THEN "naming" ELSE "done"])
  /\ UNCHANGED <<page, creations, planTurns, sentTurns, sentAccepts, opens, born, worked, planLapses, planFaults>>

\* The queue, as it was when the naming began.
AcceptLays(a) ==
  /\ a.stage = "naming"
  /\ planDir' = [planDir EXCEPT ![a.of].laid = a.n, ![a.of].built = FALSE]
  /\ To(a, [a EXCEPT !.stage = "done"])
  /\ UNCHANGED <<page, creations, planTurns, sentTurns, sentAccepts, opens, born, worked, planLapses, planFaults>>

AcceptIsAnswered(a) ==
  /\ a.stage = "done"
  /\ accepts' = accepts \ {a}
  /\ page' = NoPage
  /\ planTurns' = Outdated(planTurns) /\ creations' = Outdated(creations)
  /\ UNCHANGED <<planDir, sentTurns, sentAccepts, opens, born, worked, planLapses, planFaults>>

\* A round of the laid queue is built: Generation.
BuildsRound(p) ==
  /\ planDir[p].exists /\ planDir[p].laid # 0 /\ ~planDir[p].built
  /\ planDir' = [planDir EXCEPT ![p].built = TRUE]
  /\ worked' = worked \union {p}
  /\ UNCHANGED <<page, creations, planTurns, accepts, sentTurns, sentAccepts, opens, born, planLapses, planFaults>>

\* The plan's directory goes, whatever is under way.
DeletesPlan(p) ==
  /\ planDir[p].exists
  /\ PlanFault
  /\ planDir' = [planDir EXCEPT ![p] = NoDir]
  /\ worked' = worked \ {p}
  /\ UNCHANGED <<page, creations, planTurns, accepts, sentTurns, sentAccepts, opens, born, planLapses>>

PlanDeskNext ==
  \/ \E p \in Plans : AsksForPlan(p) \/ OpensPlan(p) \/ BuildsRound(p) \/ DeletesPlan(p)
  \/ Says \/ LeavesPlan \/ Confirms
  \/ \E c \in creations :
       \/ PlanIsMade(c) \/ PlanIsRefused(c) \/ CreationIsLost(c)
       \/ CreationLands(c) \/ RefusalLands(c) \/ CardLetsThrough(c) \/ CardIsDismissed(c)
  \/ \E r \in planTurns :
       \/ \E proposes \in BOOLEAN : TurnLands(r, proposes)
       \/ TurnFails(r) \/ ReplyLands(r) \/ ReplyIsLost(r)
  \/ \E a \in accepts :
       AcceptArrives(a) \/ AcceptReads(a) \/ AcceptLays(a) \/ AcceptIsAnswered(a)

---------------------------------------------------------------------------
(* Properties.                                                             *)

\* "Leaving the intake abandons the client-side flow" (client/app.js): the
\* rounds a plan was given were proposed for that plan, whichever plans were
\* created, left and opened in between.  A reply that lands on another visit
\* than its own is excepted, since leaving abandons less than the comment says:
\* a late turn's proposal is shown under the plan that is open by then, and a
\* late creation puts its own plan under the proposal of the one that is open;
\* a confirm then gives the one the rounds of the other.
RoundsAreThePlansOwn ==
  "late" \notin planLapses => \A p \in Plans : planDir[p].rounds.of \in {p, "none"}

\* The accept takes the rounds from the page and what goes with them (named
\* problems, tasks, pace, topics) from the store: both are of the same
\* proposal, when no turn of the plan was under way at the click or sent since,
\* no reply was lost and none came late.
AcceptedAsShown ==
  \A a \in accepts :
    (a.stage \in {"naming", "done"} /\ a.quiet /\ planLapses \intersect {"late", "missed"} = {}
     /\ planDir[a.of].exists)
      => a.read = a.shown

\* A queue is laid once: a round built from it is still there whatever is
\* accepted later, unless two accepts of the plan overlap.
BuiltRoundsStay ==
  "twice" \notin planLapses => \A p \in worked : planDir[p].built

\* What an accept relies on and leaves.
AcceptsAreSound == RoundsAreThePlansOwn /\ AcceptedAsShown /\ BuiltRoundsStay
=============================================================================
