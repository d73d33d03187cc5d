------------------------- MODULE ContinuityCheckpoint -------------------------
(***************************************************************************)
(* The continuity delta checkpoint.  A program run by hand, under the      *)
(* state lock, audits one succeeded cognition of the autonomous pulse      *)
(* against the provider budget and the wake, and writes what it found as a *)
(* Task that is completed at once: submission, start and completion are    *)
(* three writes, and the program may die after each.  The Task's key is    *)
(* the audited cognition, so there is never a second one for it.           *)
(*                                                                         *)
(* Evidence is counted from the context the audited cognition was given.   *)
(* Its predecessor has ended before, and never changes.  The local         *)
(* activity pulse is anchored in the checkpoint: LocalActivityPulse        *)
(* extends this module and composes the two.                               *)
(***************************************************************************)
EXTENDS Naturals

CONSTANTS
  MaxAttempts,      \* limits.max_attempts of a Task, two here and there
  MaxRuntime,       \* limits.max_runtime
  NoCheckpoint,
  MaxTime,          \* bound: the clock
  MaxFaults,        \* bound: crashes and store failures
  MaxDisturbances   \* bound: what others do to the clock, Tasks and evidence

VARIABLES
  audited,     \* the audited cognition's Task, and its provider Action
  evidence,    \* provider budget and wake
  checkpoint,  \* the checkpoint's Task
  step,        \* the program: "off", or what it does next
  now,         \* the wall clock, which may be set back
  faults, disturbances

checkpointVars == <<audited, checkpoint, step>>
bounds         == <<faults, disturbances>>

Times    == 0 .. MaxTime
Status   == {"pending", "running", "cancel_requested", "succeeded",
             "failed", "cancelled", "manual_review"}
Terminal == {"succeeded", "failed", "cancelled", "manual_review"}

(* Calls and changes of the explicit wake since the audited context.       *)
Evidence == [spent : Nat, wake : Nat]
Context  == [spent |-> 0, wake |-> 0]

Cognition  == [task : {"open", "succeeded", "manual_review"},
               action : {"none", "confirmed", "manual_review"}]
Checkpoint == [facts : Evidence, status : Status, attempts : 0 .. MaxAttempts,
               until : Nat]

CheckpointTypeOK ==
  /\ audited \in Cognition
  /\ evidence \in Evidence
  /\ checkpoint \in Checkpoint \cup {NoCheckpoint}
  /\ step \in {"off", "inspect", "execute", "handle"}
  /\ now \in Times
  /\ faults \in 0 .. MaxFaults
  /\ disturbances \in 0 .. MaxDisturbances

CheckpointInit ==
  /\ audited = [task |-> "open", action |-> "none"] /\ evidence = Context
  /\ checkpoint = NoCheckpoint /\ step = "off"
  /\ now = 0 /\ faults = 0 /\ disturbances = 0

Fault   == faults < MaxFaults /\ faults' = faults + 1 /\ UNCHANGED disturbances
Disturb == /\ disturbances < MaxDisturbances
           /\ disturbances' = disturbances + 1
           /\ UNCHANGED faults

(* A lease that would end after the last time of the instance ends then.   *)
Lease == IF now + MaxRuntime > MaxTime THEN MaxTime ELSE now + MaxRuntime

(* The library's Runtime::recover and recover_expired.                     *)
Recovered(task) ==
  IF task.status \notin {"running", "cancel_requested"} \/ now < task.until
    THEN {task}
  ELSE {[task EXCEPT !.status = s] :
          s \in IF task.status = "cancel_requested" THEN {"cancelled"}
                ELSE IF task.attempts < MaxAttempts THEN {"pending"}
                ELSE {"failed", "manual_review"}}

(* The offline tool's cancel, of a Task it has recovered.                  *)
Cancelled(task) ==
  [task EXCEPT !.status =
     IF task.status = "pending" THEN "cancelled" ELSE "cancel_requested"]

-----------------------------------------------------------------------------
(* What the program asks of the evidence.                                  *)

SucceededCurrent == audited.task = "succeeded"
ConfirmedAction  == audited.action = "confirmed"

(* Only the audited cognition has called since its context was captured,   *)
(* and the wake is as the context says.                                    *)
WakeStands == evidence.wake = Context.wake
Standing_FirstTime ==  \* mutant
  checkpoint # NoCheckpoint \/ (evidence.spent = Context.spent + 1 /\ WakeStands)
Standing == evidence.spent = Context.spent + 1 /\ WakeStands

CheckpointTask ==
  [facts |-> evidence, status |-> "pending", attempts |-> 0, until |-> 0]

(* What the seed tool, and the pulse at every generation, ask of it.       *)
CanonicalCheckpoint ==
  /\ checkpoint # NoCheckpoint /\ checkpoint.status = "succeeded"
  /\ checkpoint.facts.spent = Context.spent + 1

-----------------------------------------------------------------------------
(* The audited cognition ends; ProviderCall and AutonomousPulse have how.  *)
(* Its Action is confirmed before its Task can succeed.                    *)
AuditedEnds ==
  /\ audited.task = "open"
  /\ audited' \in {[task |-> "succeeded", action |-> "confirmed"],
                   [task |-> "manual_review", action |-> "confirmed"],
                   [task |-> "manual_review", action |-> "manual_review"]}
  /\ evidence' = [evidence EXCEPT !.spent = @ + 1]
  /\ UNCHANGED <<checkpoint, step, now, bounds>>

RecoverCheckpoint ==
  checkpoint' \in IF checkpoint = NoCheckpoint THEN {NoCheckpoint}
                  ELSE Recovered(checkpoint)

(* The program takes the lock and recovers.  Once the checkpoint has ended *)
(* it has nothing left to do: it is then run a bounded number of times.    *)
BeginCheckpoint ==
  /\ step = "off" /\ step' = "inspect"
  /\ RecoverCheckpoint
  /\ IF checkpoint # NoCheckpoint /\ checkpoint.status \in Terminal
       THEN Disturb ELSE UNCHANGED bounds
  /\ UNCHANGED <<audited, evidence, now>>

(* ineligible, or in conflict with the evidence, or with a checkpoint that *)
(* has ended: duplicate if it is canonical.                                *)
Report ==
  /\ step = "inspect"
  /\ \/ ~SucceededCurrent \/ ~ConfirmedAction
     \/ ~Standing
     \/ checkpoint # NoCheckpoint /\ checkpoint.status \in Terminal
  /\ step' = "off"
  /\ UNCHANGED <<audited, evidence, checkpoint, now, bounds>>

SubmitCheckpoint ==
  /\ step = "inspect"
  /\ SucceededCurrent /\ ConfirmedAction /\ Standing
  /\ checkpoint = NoCheckpoint
  /\ checkpoint' = CheckpointTask
  /\ step' = "execute"
  /\ UNCHANGED <<audited, evidence, now, bounds>>

(* The Task an earlier run has left behind.                                *)
TakeUpCheckpoint ==
  /\ step = "inspect"
  /\ SucceededCurrent /\ ConfirmedAction /\ Standing
  /\ checkpoint # NoCheckpoint /\ checkpoint.status \notin Terminal
  /\ step' = "execute"
  /\ UNCHANGED <<audited, evidence, checkpoint, now, bounds>>

CheckpointNotStartable ==
  /\ step = "execute" /\ checkpoint.status # "pending"
  /\ step' = "off"
  /\ UNCHANGED <<audited, evidence, checkpoint, now, bounds>>

StartCheckpoint ==
  /\ step = "execute" /\ checkpoint.status = "pending"
  /\ checkpoint' = [checkpoint EXCEPT !.status = "running",
                      !.attempts = @ + 1, !.until = Lease]
  /\ step' = "handle"
  /\ UNCHANGED <<audited, evidence, now, bounds>>

(* CheckpointIdentityHandler: the result is the input.                     *)
CompleteCheckpoint ==
  /\ step = "handle"
  /\ checkpoint' = [checkpoint EXCEPT !.status = "succeeded", !.until = 0]
  /\ step' = "off"
  /\ UNCHANGED <<audited, evidence, now, bounds>>

(* The program is killed, or a store is unavailable.                       *)
CheckpointDies ==
  /\ step # "off" /\ step' = "off"
  /\ Fault
  /\ UNCHANGED <<audited, evidence, checkpoint, now>>

CancelCheckpoint ==
  /\ step = "off" /\ checkpoint # NoCheckpoint
  /\ \E task \in Recovered(checkpoint) :
       /\ task.status \in {"pending", "running"}
       /\ checkpoint' = Cancelled(task)
  /\ Disturb
  /\ UNCHANGED <<audited, evidence, step, now>>

CheckpointRuns == \/ Report \/ SubmitCheckpoint \/ TakeUpCheckpoint
                  \/ CheckpointNotStartable \/ StartCheckpoint
                  \/ CompleteCheckpoint
=============================================================================
