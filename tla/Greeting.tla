------------------------------- MODULE Greeting -------------------------------
(***************************************************************************)
(* The mail a new user gets once (server/src/welcome.ts, the welcome-sweep  *)
(* command of cli.ts).                                                      *)
(*                                                                         *)
(* A sweep lists who signed up half an hour to a day ago and, one after     *)
(* another, claims the user by inserting a row in Postgres, sends, and      *)
(* notes it in a log; if that fails it deletes the row, for the next sweep. *)
(* A timer starts sweeps, an operator may start one beside it, and each may *)
(* die anywhere.  Seeding claims everyone there is, so that only those who  *)
(* come later are written to.  A request may be carried out although its    *)
(* answer is lost.                                                          *)
(***************************************************************************)
EXTENDS Naturals, FiniteSets

CONSTANTS
  People,         \* the users, confirmed and no admins, in the order they sign up
  Sweeps,         \* sweeps that may run at one time
  MaxSweeps,      \* bound on sweeps
  MaxMailFaults   \* bound on requests, mails and notes that fail, and deaths

ASSUME PeopleAssumption == People \subseteq Nat
ASSUME GreetingBoundsAssumption == MaxSweeps \in Nat /\ MaxMailFaults \in Nat

VARIABLES
  age,        \* "unborn", "young", "due" (30 min to 24 h), "past"
  claims,     \* welcome_emails: "none", "sent" or "suppressed"
  sweeps,     \* each: what it is at, whom it has yet to look at, whom it has in hand
  seeding,    \* whom the seed under way has listed; {} when none is
  mails,      \* mails that reached each
  seeded,     \* history: listed by a seed that is done
  pending,    \* history: of those, in some sweep's hand at that time
  unsure,     \* history: whose mail arrived although sending or noting it failed
  begun, mailFaults

greetingVars == <<age, claims, sweeps, seeding, mails, seeded, pending, unsure,
                  begun, mailFaults>>

NoSweep == [at |-> "idle", todo |-> {}, hand |-> {}]

GreetingTypeOK ==
  /\ age \in [People -> {"unborn", "young", "due", "past"}]
  /\ claims \in [People -> {"none", "sent", "suppressed"}]
  /\ sweeps \in [Sweeps -> [at : {"idle", "next", "send", "log", "release"},
                            todo : SUBSET People, hand : SUBSET People]]
  /\ seeding \subseteq People
  /\ mails \in [People -> Nat]
  /\ seeded \subseteq People /\ pending \subseteq People /\ unsure \subseteq People
  /\ begun \in 0..MaxSweeps /\ mailFaults \in 0..MaxMailFaults

GreetingInit ==
  /\ age = [u \in People |-> "unborn"]
  /\ claims = [u \in People |-> "none"]
  /\ sweeps = [s \in Sweeps |-> NoSweep]
  /\ seeding = {}
  /\ mails = [u \in People |-> 0]
  /\ seeded = {} /\ pending = {} /\ unsure = {}
  /\ begun = 0 /\ mailFaults = 0

history == <<seeded, pending, unsure>>

SweepIsAt(s, at) == sweeps' = [sweeps EXCEPT ![s].at = at]
Drops(s) == sweeps' = [sweeps EXCEPT ![s].at = "next", ![s].hand = {}]

SomethingFails == mailFaults < MaxMailFaults /\ mailFaults' = mailFaults + 1

---------------------------------------------------------------------------
(* A sweep (runWelcomeSweep).                                              *)

GrowsOlder(u) ==
  /\ age' = [age EXCEPT ![u] = CASE @ = "unborn" -> "young" [] @ = "young" -> "due"
                                 [] OTHER -> "past"]
  /\ age[u] # "past"
  /\ age[u] = "unborn" => \A v \in People : v < u => age[v] # "unborn"
  /\ UNCHANGED <<claims, sweeps, seeding, mails, history, begun, mailFaults>>

\* fetchSignups, eligible.
Begins(s) ==
  /\ sweeps[s] = NoSweep /\ begun < MaxSweeps
  /\ sweeps' = [sweeps EXCEPT ![s].at = "next", ![s].todo = {u \in People : age[u] = "due"}]
  /\ begun' = begun + 1
  /\ UNCHANGED <<age, claims, seeding, mails, history, mailFaults>>

\* The row that is there already is taken for the sweep's own.
Inserted(u, as) == claims' = [claims EXCEPT ![u] = IF @ = "none" THEN as ELSE @]
ClaimsAnyhow(s, u) ==
  /\ Inserted(u, "sent")
  /\ sweeps' = [sweeps EXCEPT ![s].at = "send",
                              ![s].todo = @ \ {u}, ![s].hand = {u}]

\* claimUser: whoever inserts the row owns the send; others go on.
Claims(s, u) ==
  /\ Inserted(u, "sent")
  /\ sweeps' = [sweeps EXCEPT ![s].at = IF claims[u] = "none" THEN "send" ELSE "next",
                              ![s].todo = @ \ {u},
                              ![s].hand = IF claims[u] = "none" THEN {u} ELSE {}]

ClaimsNext(s) ==
  /\ sweeps[s].at = "next"
  /\ \E u \in sweeps[s].todo : Claims(s, u)
  /\ UNCHANGED <<age, seeding, mails, history, begun, mailFaults>>

\* The request or its answer is lost: the sweep goes on, the row may be there.
ClaimErrs(s) ==
  /\ sweeps[s].at = "next" /\ SomethingFails
  /\ \E u \in sweeps[s].todo :
       /\ sweeps' = [sweeps EXCEPT ![s].todo = @ \ {u}]
       /\ Inserted(u, "sent") \/ UNCHANGED claims
  /\ UNCHANGED <<age, seeding, mails, history, begun>>

MailArrives(u) == mails' = [mails EXCEPT ![u] = @ + 1]

Sends(s) ==
  /\ sweeps[s].at = "send"
  /\ \E u \in sweeps[s].hand : MailArrives(u)
  /\ SweepIsAt(s, "log")
  /\ UNCHANGED <<age, claims, seeding, history, begun, mailFaults>>

\* The mailer reports an error, whether or not the mail went out.
SendErrs(s) ==
  /\ sweeps[s].at = "send" /\ SomethingFails
  /\ \/ UNCHANGED <<mails, unsure>>
     \/ /\ \E u \in sweeps[s].hand : MailArrives(u)
        /\ unsure' = unsure \cup sweeps[s].hand
  /\ SweepIsAt(s, "release")
  /\ UNCHANGED <<age, claims, seeding, seeded, pending, begun>>

\* onSent appends to the log of mails.
Notes(s) ==
  /\ sweeps[s].at = "log"
  /\ Drops(s)
  /\ UNCHANGED <<age, claims, seeding, mails, history, begun, mailFaults>>

\* Its failure is caught where the mailer's is, and the claim released.
NoteErrs(s) ==
  /\ sweeps[s].at = "log" /\ SomethingFails
  /\ unsure' = unsure \cup sweeps[s].hand
  /\ SweepIsAt(s, "release")
  /\ UNCHANGED <<age, claims, seeding, mails, seeded, pending, begun>>

\* releaseClaim deletes the user's row.
Releases(s) ==
  /\ sweeps[s].at = "release"
  /\ claims' = [u \in People |-> IF u \in sweeps[s].hand THEN "none" ELSE claims[u]]
  /\ Drops(s)
  /\ UNCHANGED <<age, seeding, mails, history, begun, mailFaults>>

\* The request is lost: the claim is stuck.
ReleaseErrs(s) ==
  /\ sweeps[s].at = "release" /\ SomethingFails
  /\ Drops(s)
  /\ UNCHANGED <<age, claims, seeding, mails, history, begun>>

Ends(s) ==
  /\ sweeps[s].at = "next" /\ sweeps[s].todo = {}
  /\ sweeps' = [sweeps EXCEPT ![s] = NoSweep]
  /\ UNCHANGED <<age, claims, seeding, mails, history, begun, mailFaults>>

Dies(s) ==
  /\ sweeps[s] # NoSweep /\ SomethingFails
  /\ sweeps' = [sweeps EXCEPT ![s] = NoSweep]
  /\ UNCHANGED <<age, claims, seeding, mails, history, begun>>

---------------------------------------------------------------------------
(* The cutover (seedExisting): lists everyone, then claims them.           *)

SeedLists ==
  /\ seeding = {} /\ seeded = {}
  /\ seeding' = {u \in People : age[u] # "unborn"}
  /\ UNCHANGED <<age, claims, sweeps, mails, history, begun, mailFaults>>

SeedClaims ==
  /\ seeding # {}
  /\ claims' = [u \in People |->
       IF u \in seeding /\ claims[u] = "none" THEN "suppressed" ELSE claims[u]]
  /\ seeded' = seeding
  /\ pending' = UNION {sweeps[s].hand : s \in Sweeps}
  /\ seeding' = {}
  /\ UNCHANGED <<age, sweeps, mails, unsure, begun, mailFaults>>

GreetingNext ==
  \/ \E u \in People : GrowsOlder(u)
  \/ \E s \in Sweeps :
       \/ Begins(s) \/ ClaimsNext(s) \/ ClaimErrs(s) \/ Sends(s) \/ SendErrs(s)
       \/ Notes(s) \/ NoteErrs(s) \/ Releases(s) \/ ReleaseErrs(s) \/ Ends(s) \/ Dies(s)
  \/ SeedLists \/ SeedClaims

---------------------------------------------------------------------------
(* What the mail promises.                                                 *)

\* Nobody gets it twice, whatever sweeps overlap, die or retry, unless it
\* arrived although sending it, or noting that it was sent, failed.
OnceEach == \A u \in People : mails[u] <= 1 \/ u \in unsure

\* Whoever the cutover listed is not claimed again afterwards, unless a sweep
\* had them in hand then: if its send fails it deletes their row.
SeededStayClaimed == seeded \ pending \subseteq {u \in People : claims[u] # "none"}

\* A row that suppresses a user means that nobody wrote to them.
SuppressedHeardNothing ==
  \A u \in People : claims[u] = "suppressed" => mails[u] = 0 \/ u \in unsure

\* A user is written to once at most, and not at all once they are seeded.
GreetedOnce == OnceEach /\ SeededStayClaimed /\ SuppressedHeardNothing
=============================================================================
