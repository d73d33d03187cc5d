--------------------------- MODULE CognitionPromise ---------------------------
(***************************************************************************)
(* What the autonomous cognition pulse promises: an opportunity to think   *)
(* opens at its due time or later, is spent on one provider call at most,  *)
(* is withdrawn only while it is unspent, and the next one comes a cadence *)
(* after the answer to this one, in a lineage that never skips or forks.   *)
(***************************************************************************)
EXTENDS Naturals

CONSTANTS ContinueCadence, QuiescentCadence, NoTime

VARIABLES
  now,
  due,         \* when the next opportunity opens; NoTime before the seed
  opened,      \* when the open one did, or NoTime
  called,      \* it has been spent
  generation,  \* the answers of the lineage so far
  closed

vars == <<now, due, opened, called, generation, closed>>

Init ==
  /\ now \in Nat /\ due = NoTime /\ opened = NoTime
  /\ called = FALSE /\ generation = 0 /\ closed = FALSE

Clock == now' \in Nat /\ UNCHANGED <<due, opened, called, generation, closed>>

Due(t) == t \in {now + ContinueCadence, now + QuiescentCadence}

Seed ==
  /\ due = NoTime /\ Due(due')
  /\ UNCHANGED <<now, opened, called, generation, closed>>

Open ==
  /\ due # NoTime /\ due <= now /\ opened = NoTime /\ ~closed
  /\ opened' = now
  /\ UNCHANGED <<now, due, called, generation, closed>>

Call ==
  /\ opened # NoTime /\ ~called /\ ~closed
  /\ called' = TRUE
  /\ UNCHANGED <<now, due, opened, generation, closed>>

Answer ==
  /\ called /\ ~closed
  /\ generation' = generation + 1
  /\ Due(due') /\ opened' = NoTime /\ called' = FALSE
  /\ UNCHANGED <<now, closed>>

Withdraw ==
  /\ opened # NoTime /\ ~called /\ ~closed
  /\ opened' = NoTime
  /\ UNCHANGED <<now, due, called, generation, closed>>

Close ==
  /\ due # NoTime /\ ~closed /\ closed' = TRUE
  /\ UNCHANGED <<now, due, opened, called, generation>>

Next ==
  \/ Clock \/ Seed \/ Open \/ Call \/ Answer \/ Withdraw \/ Close

Spec == Init /\ [][Next]_vars
=============================================================================
