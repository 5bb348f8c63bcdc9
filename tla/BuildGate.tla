------------------------------ MODULE BuildGate ------------------------------
(***************************************************************************)
(* One build of a round, from the agent's first file to the exit code      *)
(* (generateInto and the validate command of cli.ts, generate.ts and       *)
(* validate.ts, with the stamps of lc-convert.ts and concept-topics.ts).   *)
(*                                                                         *)
(* The agent writes a directory and may run the validator in it; then the  *)
(* child stamps what is never left to an agent, rules on the directory,    *)
(* drops expectations that fail only on quality, gives an agent one chance *)
(* to repair, and rules again.  What the app does with the outcome is in   *)
(* Generation.                                                             *)
(***************************************************************************)
EXTENDS Naturals, FiniteSets

CONSTANTS
  Dims,      \* dimensions a rubric has an expectation for
  MinTests,  \* the fewest tests of a suite
  Ordered,   \* the kinds of check that invented rounds are ordered with
  MaxFlaws   \* bound on what else is wrong with a directory at one time

ASSUME GateAssumption ==
  /\ MinTests \in Nat \ {0, 1}
  /\ Ordered \subseteq {"one_failing_test", "all_failing", "all_passing", "diff_present"}
  /\ MaxFlaws \in Nat
  /\ Dims \cap {"manifest", "bug", "size", "rubric", "suite"} = {}  \* other failures

VARIABLES
  order,     \* what is built: the kind of its check, and whether it is sourced
  work,      \* what the directory holds
  reported,  \* .vitest-report.json is there, from some run
  gate,      \* where generateInto is
  repaired,  \* the repair pass was taken
  found,     \* the failures of the last ruling
  mark,      \* who wrote .validated first
  kept       \* the pristine archive, against the directory

gateVars == <<order, work, reported, gate, repaired, found, mark, kept>>

---------------------------------------------------------------------------
(* A directory, as far as the validator sees it.                           *)

CheckKinds == {"one_failing_test", "all_failing", "all_passing", "diff_present"}

\* What a run of the suite shows; named says that its one failing test is the
\* manifest's.
SuiteRuns ==
  {s \in [failed : 0..MinTests, total : 1..MinTests, named : BOOLEAN] :
     s.failed <= s.total /\ (s.named => s.failed = 1)}
\* No suite ran, or its runner left no result.
NoRun == [failed |-> 0, total |-> 0, named |-> FALSE]

NoDims == [d \in {} |-> "absent"]
Rubrics == [Dims -> {"absent", "good", "poor"}] \cup {NoDims}

Directories ==
  [manifest : {"none", "torn", "parses"},
   kind : CheckKinds,
   sound : BOOLEAN,                        \* the spec, its size and its files
   bug : {"named", "nameless", "missing"}, \* planted_bug
   said : Rubrics,
   topics : SUBSET {"plan", "other"},      \* topics_exercised
   stamped : BOOLEAN,                      \* source and runtime are the data set's
   contract : BOOLEAN,                     \* tests/ are the data set's
   suite : SuiteRuns \cup {NoRun}]

\* A directory in order, for what was ordered.
Proper(kind, sourced) ==
  [manifest |-> "parses", kind |-> kind, sound |-> TRUE, bug |-> "named",
   said |-> [d \in Dims |-> "good"], topics |-> {"plan"},
   stamped |-> sourced, contract |-> sourced,
   suite |-> [failed |-> CASE kind = "one_failing_test" -> 1
                           [] kind = "all_failing" -> MinTests
                           [] OTHER -> 0,
              total |-> MinTests, named |-> kind = "one_failing_test"]]

\* What an agent may change, one thing at a time.
Aspects ==
  [manifest |-> {"none", "torn", "parses"}, kind |-> CheckKinds, sound |-> BOOLEAN,
   bug |-> {"named", "nameless", "missing"}, said |-> Rubrics,
   topics |-> SUBSET {"plan", "other"}, stamped |-> BOOLEAN, contract |-> BOOLEAN,
   suite |-> SuiteRuns \cup {NoRun}]
Free(sourced) ==
  DOMAIN Aspects \ IF sourced THEN {} ELSE {"stamped", "contract"}

\* What is wrong with a directory beside its expectations, counted to bound it.
Flaws(w) ==
  LET p == Proper(order.kind, order.sourced) IN
  Cardinality({a \in DOMAIN Aspects \ {"said"} : w[a] # p[a]})

Gates == {"building", "built", "stamped", "weak", "stripped", "rejected",
          "repairing", "repaired", "accepted", "marked", "refused", "done", "dead"}
Failures == Dims \cup {"manifest", "bug", "size", "rubric", "suite"}

GateTypeOK ==
  /\ order \in [kind : CheckKinds, sourced : BOOLEAN]
  /\ work \in Directories
  /\ gate \in Gates
  /\ {reported, repaired} \subseteq BOOLEAN
  /\ found \subseteq Failures
  /\ mark \in {"none", "agent", "child"}
  /\ kept \in {"none", "same", "older"}

\* Sourced rounds fail every test until they are solved, and their tests are on
\* disk before the agent starts.  A first build: the archive that a plan item's
\* rebuild finds beside its directory is the old one's, and nothing restores it.
GateInit ==
  /\ order \in {[kind |-> "all_failing", sourced |-> TRUE]}
       \cup [kind : Ordered, sourced : {FALSE}]
  /\ work = [Proper(order.kind, order.sourced) EXCEPT !.manifest = "none"]
  /\ gate = "building"
  /\ reported = FALSE /\ repaired = FALSE
  /\ found = {}
  /\ mark = "none" /\ kept = "none"

---------------------------------------------------------------------------
(* validateProblem.                                                        *)

\* Node's runner, which invented rounds stand for here, reports to a file that
\* nothing removes: when it leaves none, the one of an earlier run is read.
\* Python's output is read directly.
SeenBy(w) ==
  IF w.suite # NoRun THEN {w.suite}
  ELSE {NoRun} \cup IF w.stamped \/ ~ reported THEN {} ELSE SuiteRuns

\* checkManifest, with checkExpectations; an expectation that fails stands for
\* itself.
ManifestFailures(w) ==
  {d \in DOMAIN w.said : w.said[d] = "poor"}
    \cup (IF w.said = NoDims THEN {"rubric"} ELSE {})
    \cup (IF w.sound THEN {} ELSE {"size"})
    \cup (IF w.kind = "one_failing_test" /\ w.bug # "named" THEN {"bug"} ELSE {})

\* checkSuiteAgainstKind
SuiteHolds(w, s) ==
  CASE w.kind = "one_failing_test" ->
         s.total >= MinTests /\ s.failed = 1 /\ (w.bug # "missing" => s.named)
    [] w.kind = "all_failing" -> s.total >= MinTests /\ s.failed = s.total
    [] w.kind = "all_passing" -> s.total >= MinTests /\ s.failed = 0
    [] OTHER -> TRUE

RunsSuite(w) == w.manifest = "parses" /\ w.kind # "diff_present"

\* A planted bug without the name of its test is compared all the same.
Throws(w, s) ==
  RunsSuite(w) /\ w.kind = "one_failing_test" /\ w.bug = "nameless" /\ s.failed = 1

FailuresOf(w, s) ==
  IF w.manifest # "parses" THEN {"manifest"}
  ELSE ManifestFailures(w)
         \cup IF RunsSuite(w) /\ (s = NoRun \/ ~ SuiteHolds(w, s)) THEN {"suite"} ELSE {}

\* A run may leave a report.
LeavesReport(w) ==
  reported' = (reported \/ (RunsSuite(w) /\ ~ w.stamped /\ w.suite # NoRun))

---------------------------------------------------------------------------
(* The agent.                                                              *)

AgentAtWork == gate \in {"building", "repairing"}

\* A change to the directory leaves an archive behind.
Outdated == IF kept = "same" THEN "older" ELSE kept

Writes ==
  /\ AgentAtWork
  /\ \E a \in Free(order.sourced) : \E v \in Aspects[a] :
       work' = [work EXCEPT ![a] = v]
  /\ work' # work /\ Flaws(work') <= MaxFlaws
  /\ kept' = Outdated
  /\ UNCHANGED <<order, reported, gate, repaired, found, mark>>

\* makePristineArchive never replaces an archive, and may fail.
Archive ==
  IF kept = "none" THEN kept' \in {"same", "none"} ELSE UNCHANGED kept

\* `cli.ts validate .`, which the prompts have the agent run until it passes:
\* it marks and archives what it passes.
ValidatesItself ==
  /\ AgentAtWork
  /\ LeavesReport(work)
  /\ \E s \in SeenBy(work) :
       IF ~ Throws(work, s) /\ FailuresOf(work, s) = {}
       THEN mark' = (IF mark = "none" THEN "agent" ELSE mark) /\ Archive
       ELSE UNCHANGED <<mark, kept>>
  /\ UNCHANGED <<order, work, gate, repaired, found>>

\* The agent is through, was stopped by the clock, or reports its own failure
\* with a clean exit.  The directory decides, not the exit, which only chooses
\* between two exit codes that the app takes alike.
AgentEnds ==
  /\ gate = "building"
  /\ gate' = "built"
  /\ UNCHANGED <<order, work, reported, repaired, found, mark, kept>>

\* As if its word were enough.
RepairIsTrusted ==
  /\ gate = "repairing"
  /\ gate' = "accepted"
  /\ found' = {}
  /\ UNCHANGED <<order, work, reported, repaired, mark, kept>>

RepairEnds ==
  /\ gate = "repairing"
  /\ gate' = "repaired"
  /\ UNCHANGED <<order, work, reported, repaired, found, mark, kept>>

---------------------------------------------------------------------------
(* The child.                                                              *)

\* restampSourced: the tests again, and the manifest when it parses.  What the
\* suite shows may change with its tests.
Restamped(w, s) ==
  IF ~ order.sourced THEN w
  ELSE [w EXCEPT !.contract = TRUE,
                 !.stamped = @ \/ w.manifest = "parses",
                 !.suite = IF w.contract THEN @ ELSE s]

\* filterExercised, after the first agent only.
Filtered(w) == IF w.manifest = "parses" THEN [w EXCEPT !.topics = @ \cap {"plan"}] ELSE w

Stamps ==
  /\ gate \in {"built", "repaired"}
  /\ \E s \in IF work.contract THEN {work.suite} ELSE SuiteRuns :
       work' = IF gate = "built" THEN Filtered(Restamped(work, s)) ELSE Restamped(work, s)
  /\ gate' = "stamped"
  /\ kept' = IF work' = work THEN kept ELSE Outdated
  /\ UNCHANGED <<order, reported, repaired, found, mark>>

\* The ruling: everything is well, or only expectations are not, or more.
Rules ==
  /\ gate \in {"stamped", "stripped"}
  /\ LeavesReport(work)
  /\ \E s \in SeenBy(work) :
       IF Throws(work, s) THEN gate' = "dead" /\ UNCHANGED found
       ELSE LET fails == FailuresOf(work, s) IN
            /\ found' = fails
            /\ gate' = IF fails = {} THEN "accepted"
                       ELSE IF fails \subseteq Dims /\ gate = "stamped" THEN "weak"
                       ELSE "rejected"
  /\ UNCHANGED <<order, work, repaired, mark, kept>>

\* Drops the expectations it failed on, and rules again.
Strips ==
  /\ gate = "weak"
  /\ work' = [work EXCEPT !.said = [d \in DOMAIN @ |-> IF d \in found THEN "absent" ELSE @[d]]]
  /\ kept' = Outdated
  /\ gate' = "stripped"
  /\ UNCHANGED <<order, reported, repaired, found, mark>>

\* repairProblem, once, when there is a manifest to repair.
Repairs ==
  /\ gate = "rejected"
  /\ ~ repaired /\ work.manifest = "parses"
  /\ gate' = "repairing"
  /\ repaired' = TRUE
  /\ UNCHANGED <<order, work, reported, found, mark, kept>>

Refuses ==
  /\ gate = "rejected"
  /\ repaired \/ work.manifest # "parses"
  /\ gate' = "refused"
  /\ UNCHANGED <<order, work, reported, repaired, found, mark, kept>>

WritesMark ==
  /\ gate = "accepted"
  /\ mark' = IF mark = "none" THEN "child" ELSE mark
  /\ gate' = "marked"
  /\ UNCHANGED <<order, work, reported, repaired, found, kept>>

Archives ==
  /\ gate = "marked"
  /\ Archive
  /\ gate' = "done"
  /\ UNCHANGED <<order, work, reported, repaired, found, mark>>

GateNext ==
  \/ Writes \/ ValidatesItself \/ AgentEnds \/ RepairEnds
  \/ Stamps \/ Rules \/ Strips \/ Repairs \/ Refuses \/ WritesMark \/ Archives

---------------------------------------------------------------------------
(* What a build comes to.                                                  *)

\* A round is handed out as the validator would pass it again: stamps, strips
\* and the repair come before the last ruling.  The one exception is a runner
\* of node that leaves no result, when an earlier run's report is believed.
HandedOutAsRuled ==
  gate = "done" =>
    \/ ~ Throws(work, work.suite) /\ FailuresOf(work, work.suite) = {}
    \/ work.suite = NoRun /\ reported /\ ~ order.sourced

\* "The grading contract must never pass through a model" (lc-convert.ts): the
\* tests and the source of a sourced round are the data set's, whatever an agent
\* did to them and when.
ContractIsTheDataSets ==
  gate = "done" /\ order.sourced => work.contract /\ work.stamped

\* "A build the system can grade must never die over one it can substitute"
\* (cli.ts): what is refused fails on more than the wording of expectations,
\* also after a strip or a repair, and nothing with a manifest is refused
\* before it had its repair.
NothingGradableIsRefused ==
  gate = "refused" => ~ found \subseteq Dims /\ (work.manifest = "parses" => repaired)

\* "The manifest field is never trusted from the generator" (cli.ts): a round
\* declares only topics of its plan, unless an agent repaired it, because the
\* filter is not applied again.
TopicsAreThePlans == gate = "done" /\ ~ repaired => work.topics \subseteq {"plan"}

\* The archive a repeat starts from is the directory that was ruled on, unless
\* the agent's own validation archived it first.
ArchiveIsAsRuled == gate = "done" /\ mark = "child" => kept # "older"

BuildsAreSound ==
  /\ HandedOutAsRuled
  /\ ContractIsTheDataSets
  /\ NothingGradableIsRefused
  /\ TopicsAreThePlans
  /\ ArchiveIsAsRuled
=============================================================================
