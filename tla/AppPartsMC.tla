------------------------------- MODULE AppPartsMC -------------------------------
(***************************************************************************)
(* The parts of the app that share no state with one another while they    *)
(* run, checked together: a behaviour is one of one part, and the others   *)
(* rest in an initial state.                                               *)
(***************************************************************************)
EXTENDS Subscriptions, Allowance, Workspaces, Adaptation, Memory, Greeting, Copies,
        Verdict, Runway, BuildGate

VARIABLE part

Parts == {"billing", "allowance", "workspace", "adapt", "memory", "greeting",
          "mirror", "backup", "verdict", "runway", "gate"}

\* Four items of three rounds, as proposeQueue deals them out.
ItemRounds == <<1, 2, 3, 2>>

\* A part that does not run is in one of its initial states.
AtRest ==
  /\ part # "allowance" => buyable
  /\ part # "workspace" => archive = Pristine /\ usedBy = 0
  /\ part # "verdict" => setting.interviewer
  /\ part # "runway" => plan.loop = NoDate /\ Range(plan.dated) = {NoDate}
  /\ part # "gate" => order.sourced

Init ==
  /\ part \in Parts
  /\ BillingInit /\ AllowanceInit /\ WorkspaceInit /\ AdaptInit /\ MemoryInit
  /\ GreetingInit /\ MirrorInit /\ BackupInit /\ VerdictInit /\ RunwayInit
  /\ GateInit
  /\ AtRest
  /\ setting.interviewer => ~ setting.panes  \* it matters only to solo rounds

Others(p) ==
  /\ p # "billing" => UNCHANGED billingVars
  /\ p # "allowance" => UNCHANGED allowanceVars
  /\ p # "workspace" => UNCHANGED workspaceVars
  /\ p # "adapt" => UNCHANGED adaptVars
  /\ p # "memory" => UNCHANGED memoryVars
  /\ p # "greeting" => UNCHANGED greetingVars
  /\ p # "mirror" => UNCHANGED mirrorVars
  /\ p # "backup" => UNCHANGED backupVars
  /\ p # "verdict" => UNCHANGED verdictVars
  /\ p # "runway" => UNCHANGED runwayVars
  /\ p # "gate" => UNCHANGED gateVars

Next ==
  /\ UNCHANGED part
  /\ \/ part = "billing" /\ BillingNext
     \/ part = "allowance" /\ AllowanceNext
     \/ part = "workspace" /\ WorkspaceNext
     \/ part = "adapt" /\ AdaptNext
     \/ part = "memory" /\ MemoryNext
     \/ part = "greeting" /\ GreetingNext
     \/ part = "mirror" /\ MirrorNext
     \/ part = "backup" /\ BackupNext
     \/ part = "verdict" /\ VerdictNext
     \/ part = "runway" /\ RunwayNext
     \/ part = "gate" /\ GateNext
  /\ Others(part)

Spec ==
  Init /\ [][Next]_<<part, billingVars, allowanceVars, workspaceVars, adaptVars,
                     memoryVars, greetingVars, mirrorVars, backupVars,
                     verdictVars, runwayVars, gateVars>>

\* Long behaviours have few faults, and short ones many: each of these sums is
\* bounded, beside its terms.  A customer who ran more than is paid for is not
\* followed further, whatever let them, nor a gate that fails when it would let
\* the customer through in any case, or on the last day.  At most four events
\* and answers of Stripe are on their way at a time.  A round runs twice on the
\* first day only, and where rejudge is used the verdicts are those that open or
\* close a gap: no streak is long enough there for the others to tell.
WithinBounds ==
  /\ changes + 2 * billingFaults <= 3
  /\ Cardinality(mail) + Cardinality(calls) <= 4
  /\ countRoundsRun <= PaidRounds
  /\ broken => Spent /\ today < LastDay
  /\ today + missed <= LastDay
  /\ today > 1 => \A r \in Offered, d \in Days : rounds[r].runs[d] <= 1
  /\ begun + mailFaults <= 4
  /\ deaths + 2 * rejudges + Cardinality({r \in Rounds : kinds[r] # "unplayed"})
       + Cardinality({r \in Rounds : kinds[r] \in {"harness", "sample"}}) <= 4
  /\ rejudges > 0 =>
       Range(assessments) \cup {inHand[w].result : w \in {w \in Processes : inHand[w] # NoWork}}
         \subseteq {"none", "failed", "weak", "fine"}

\* Where the ledger is known to be wrong, or the customer was let through for
\* good, nothing more is promised and the behaviour is not followed further.
Followed == ~ overtaken /\ ~ lost /\ ~ hasGrant /\ WithinBounds

\* Every variable of the part that runs holds what the program can put there.
TypeOK ==
  /\ part \in Parts
  /\ part = "billing" => BillingTypeOK
  /\ part = "allowance" => AllowanceTypeOK
  /\ part = "workspace" => WorkspaceTypeOK
  /\ part = "adapt" => AdaptTypeOK
  /\ part = "memory" => MemoryTypeOK
  /\ part = "greeting" => GreetingTypeOK
  /\ part = "mirror" => MirrorTypeOK
  /\ part = "backup" => BackupTypeOK
  /\ part = "verdict" => VerdictTypeOK
  /\ part = "runway" => RunwayTypeOK
  /\ part = "gate" => GateTypeOK

\* A round is handed out as it was ruled on and done again from what its rubric
\* was made for, and a plan keeps its queue in step with it (cli.ts, validate.ts,
\* artifact.ts, retention.ts, adapt.ts).
PreparedWorkIsKept ==
  /\ part = "workspace" => RepeatsAreSafe
  /\ part = "adapt" => PlanStaysMatched
  /\ part = "gate" => BuildsAreSound

\* What runs behind the pages agrees with what it serves: the ledger of
\* subscriptions with the processor, but for an event that overtook a later one
\* or a row that was lost; one mail a person, but for one whose note was not
\* written; every card in the mirror, but for a write that failed or landed late;
\* the newest backups kept (billing.ts, welcome.ts, db.ts, backup.ts).
UpkeepIsSafe ==
  /\ part = "billing" => SettledAgrees
  /\ part = "greeting" => GreetedOnce
  /\ part \in {"mirror", "backup"} => CopiesHold

\* What a candidate is offered is theirs: no round beyond the allowance but one
\* for each time the gate failed on a spent one, and no item of the queue after
\* its round, nor on its day while there is one to spare, and none left out while
\* there is a day for each (paywall.ts, app.ts, queue.ts).
OffersAreHonest ==
  /\ part = "allowance" => AllowanceIsBounded
  /\ part = "runway" => RunwayIsHonest

\* What is said of a player has a ground: a verdict's receipts, and what the
\* memory keeps of verdicts (timeline.ts, judge.ts, gap-graph.ts, topic-graph.ts).
WhatIsSaidIsEarned ==
  /\ part = "verdict" => ReceiptsHold
  /\ part = "memory" => MemoryIsEarned
=============================================================================
