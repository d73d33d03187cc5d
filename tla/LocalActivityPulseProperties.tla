--------------------- MODULE LocalActivityPulseProperties ---------------------
(* What the local activity pulse has to keep true.                         *)
EXTENDS LocalActivityPulse

(* The evidence of the audited cognition's own call, and no other.         *)
Anchored == [spent |-> 1, wake |-> 0]

Prefix(g) == SubSeq(cursor.id, 1, g)

(* The observation of generation g, as the Task store holds it.            *)
Observed(g) ==
  /\ Prefix(g) \in DOMAIN tasks
  /\ tasks[Prefix(g)].input # Foreign
  /\ tasks[Prefix(g)].status = "succeeded"

Observations ==
  IF cursor = NoCursor THEN 0
  ELSE Cardinality({g \in 1 .. Generation(cursor) : Observed(g)})

-----------------------------------------------------------------------------
(* The observations on record, and when the next one is due: at the seed's *)
(* time, or a cadence after the last was captured.                         *)
Log ==
  [g \in 1 .. Observations |->
     [due |-> cursor.id[g], captured |-> tasks[Prefix(g)].input.captured]]
Due ==
  IF cursor = NoCursor THEN NoTime
  ELSE IF Observations = 0
    THEN IF cursor.id = <<>> THEN cursor.due ELSE cursor.id[1]
  ELSE tasks[Prefix(Observations)].input.captured + Cadence
Pending ==
  IF cursor # NoCursor /\ cursor.state = "preparing"
      /\ ~Observed(Generation(cursor))
    THEN cursor.captured ELSE NoTime
Closed == cursor # NoCursor /\ cursor.state \in {"blocked", "quiescent"}

(* The pulse keeps the promise made to its operator, through every crash   *)
(* between the cursor's writes and the Tasks': downtime is coalesced into  *)
(* one late observation, the next is a cadence after that one was          *)
(* captured, and no fourth is ever made.                                   *)
Promise == INSTANCE ObservationPromise WITH
  log <- Log, due <- Due, pending <- Pending, closed <- Closed
ImplementsPromise == Promise!Spec

(* Once a provider call or a wake has moved the evidence, no checkpoint is *)
(* submitted or executed, and no observation, not even one whose Task a    *)
(* crash left behind half done.                                            *)
DriftEndsObservation ==
  [][/\ \A id \in DOMAIN tasks' :
          \/ tasks'[id].input = Foreign
          \/ /\ id \in DOMAIN tasks
             /\ tasks'[id].attempts = tasks[id].attempts
          \/ evidence = Anchored
     /\ \/ checkpoint' = NoCheckpoint
        \/ /\ checkpoint # NoCheckpoint
           /\ checkpoint'.attempts = checkpoint.attempts
        \/ evidence = Anchored]_vars

(* The pulse is seeded on a checkpoint that was completed, once and for    *)
(* good, while what it says was so; and a checkpoint is never lost by one  *)
(* crash: that takes an operator's cancel, or a crash at every attempt.    *)
AnchorTruthful ==
  /\ cursor # NoCursor =>
       /\ checkpoint # NoCheckpoint /\ checkpoint.status = "succeeded"
       /\ checkpoint.facts = Anchored
       /\ audited = [task |-> "succeeded", action |-> "confirmed"]
  /\ checkpoint # NoCheckpoint =>
       \/ checkpoint.status \notin Terminal \/ checkpoint.status = "succeeded"
       \/ disturbances > 0 \/ faults >= MaxAttempts

(* A pulse never blocks on its own crashes alone: the evidence has moved,  *)
(* or the Task of its generation is another's, or did not succeed.         *)
BlockedForCause ==
  cursor # NoCursor /\ cursor.state = "blocked" =>
    \/ evidence # Anchored
    \/ /\ cursor.id \in DOMAIN tasks
       /\ \/ tasks[cursor.id].status # "succeeded"
          \/ tasks[cursor.id].input #
               [id |-> cursor.id, captured |-> cursor.captured,
                evidence |-> Anchored]

(* A service that waits with the pulse still on holds a deadline in memory *)
(* no later than the one its cursor has on disk.                           *)
DeadlineArmed ==
  pc = "loop" /\ monitoring =>
    /\ Deadline(cursor) # NoTime
    /\ armed # NoTime /\ armed <= Deadline(cursor)

(* A pulse that makes no observation has a cause on record or a deadline,  *)
(* in every state that is well-typed, which all are.                       *)
SilentForCause == TypeOK /\ BlockedForCause /\ DeadlineArmed

(* The status tool reads two databases that change between its two reads,  *)
(* and still refuses to report only what is really wrong.                  *)
StatusTruthful ==
  refused =>
    \E id \in DOMAIN tasks :
      \/ tasks[id].input = Foreign
      \/ tasks[id].status \in Terminal \ {"succeeded"}

-----------------------------------------------------------------------------
(* An unhealthy step has switched the pulse off until the next restart.    *)
SwitchedOff == pc = "loop" /\ ~monitoring

Owed(g) ==
  /\ cursor # NoCursor
  /\ \/ cursor.state = "preparing" /\ Generation(cursor) = g
     \/ /\ cursor.state \in {"idle", "settled"}
        /\ Generation(cursor) + 1 = g
        /\ Deadline(cursor) <= now

Answered(g) ==
  /\ cursor # NoCursor
  /\ \/ cursor.state = "blocked"
     \/ cursor.state \in {"settled", "quiescent"} /\ Generation(cursor) >= g

(* A generation that is due or admitted is settled in the end, or the      *)
(* pulse says why not: blocked in its cursor, or switched off.             *)
GenerationsSettle ==
  \A g \in 1 .. MaxGeneration : Owed(g) ~> (Answered(g) \/ SwitchedOff)
=============================================================================
