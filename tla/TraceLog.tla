----------------------------- MODULE TraceLog -----------------------------
(***************************************************************************)
(* What the trace channel promises the judge, without sockets, cursors or  *)
(* restarts: the editor writes numbered events to a log, and the session   *)
(* server holds a copy that is always a prefix of it.  Each event arrives  *)
(* once, in the order it was written (shared/src/trace.ts: "seq is         *)
(* monotonic PER (session_id, source).  Intra-source order is exact").     *)
(***************************************************************************)
EXTENDS Integers, Sequences

VARIABLES
  written,     \* the events the emitter made durable, oldest first
  delivered    \* the events the server's store holds, oldest first

vars == <<written, delivered>>

Init ==
  /\ written = <<>>
  /\ delivered = <<>>

\* One event joins the log under a number no earlier event has.
Write ==
  /\ Len(written') = Len(written) + 1
  /\ SubSeq(written', 1, Len(written)) = written
  /\ \A i \in 1..Len(written) : written[i].seq < written'[Len(written')].seq
  /\ UNCHANGED delivered

\* The next undelivered event reaches the server.
Deliver ==
  /\ Len(delivered) < Len(written)
  /\ delivered' = Append(delivered, written[Len(delivered) + 1])
  /\ UNCHANGED written

Next == Write \/ Deliver

Spec == Init /\ [][Next]_vars
===========================================================================
