-------------------------- MODULE ObservationPromise --------------------------
(***************************************************************************)
(* What the local activity pulse promises its operator: an observation of  *)
(* a due time is admitted at or after it and dated by the clock of that    *)
(* moment, the next is due a cadence after that date, there are never more *)
(* than MaxGeneration of them, and none once the pulse has closed.         *)
(***************************************************************************)
EXTENDS Naturals, Sequences

CONSTANTS Cadence, MaxGeneration, NoTime

VARIABLES
  now,
  due,      \* when the next observation is due; NoTime before the seed
  pending,  \* the date of the observation that is admitted, or NoTime
  log,      \* the observations made: due time and date
  closed

vars == <<now, due, pending, log, closed>>

Init ==
  /\ now \in Nat
  /\ due = NoTime /\ pending = NoTime /\ log = <<>> /\ closed = FALSE

Clock == now' \in Nat /\ UNCHANGED <<due, pending, log, closed>>

Seed ==
  /\ due = NoTime /\ due' = now + Cadence
  /\ UNCHANGED <<now, pending, log, closed>>

Admit ==
  /\ due # NoTime /\ due <= now
  /\ pending = NoTime /\ ~closed
  /\ Len(log) < MaxGeneration
  /\ pending' = now
  /\ UNCHANGED <<now, due, log, closed>>

Observe ==
  /\ pending # NoTime
  /\ log' = Append(log, [due |-> due, captured |-> pending])
  /\ due' = pending + Cadence
  /\ pending' = NoTime
  /\ UNCHANGED <<now, closed>>

Close ==
  /\ due # NoTime /\ closed' = TRUE /\ pending' = NoTime
  /\ UNCHANGED <<now, due, log>>

Next == Clock \/ Seed \/ Admit \/ Observe \/ Close

Spec == Init /\ [][Next]_vars
=============================================================================
