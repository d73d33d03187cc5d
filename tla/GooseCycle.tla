----------------------------- MODULE GooseCycle -----------------------------
(***************************************************************************)
(* The self-scheduling local cognition loop ("Local Goose cycle") and the  *)
(* explicit stimulus that re-arms it when it sleeps.                       *)
(*                                                                         *)
(* Three stores that share no transaction: the cycle sidecar holds one     *)
(* cursor, replaced by compare-and-swap on its revision; the Task store    *)
(* holds one Task per opportunity; the stimulus ledger holds the requests  *)
(* to re-arm.  One process owns them.  Each of its loop's turns advances   *)
(* the cursor by at most one transition, and it may die between any two    *)
(* writes (Crash), see a write fail (Fails) or be told to stop (Stop).     *)
(*                                                                         *)
(* A Task's identity is the hash of its input, which is modelled by the    *)
(* opportunity it was captured for.  The clock may be set back, and the    *)
(* process may come back configured with another model.                    *)
(***************************************************************************)
EXTENDS Naturals

CONSTANTS
  Sources,       \* request ids of explicit stimuli
  NoSource,
  Models,        \* SHA-256 of the model files that may be configured
  NoTask, NoTime,
  Delays,        \* the values next_wake_after_ms takes in a decision
  NoWake,        \* a decision that asks for no further cycle
  MinDelay,      \* local_goose_cycle_minimum_delay_ms
  MaxAttempts,   \* limits.max_attempts of a cycle Task
  MaxTime,       \* bound: the largest timestamp that can be represented
  MaxRevision,   \* bound: the largest revision that can be stored
  MaxFaults      \* bound: crashes, failed writes, clock steps back and
                 \* model changes

ASSUME BoundsAssumption ==
  /\ Delays \subseteq Nat /\ MinDelay \in Nat
  /\ MaxAttempts \in Nat \ {0}
  /\ MaxTime \in Nat /\ MaxRevision \in Nat
  /\ MaxFaults \in Nat

ASSUME NamesAssumption ==
  NoSource \notin Sources /\ NoWake \notin Nat /\ NoTime \notin Nat

Time     == 0 .. MaxTime
Revision == 0 .. MaxRevision
Opportunity ==
  [generation : Revision, due : Time, captured : Time, model : Models]

ASSUME NoTaskAssumption == NoTask \notin Opportunity

VARIABLES
  cursor,        \* the cycle sidecar's one row
  tasks,         \* cycle Tasks by identity
  stimuli,       \* the stimulus ledger
  now, model,    \* the clock and the configured model
  pc, point,     \* the worker, and the step a handler belongs to
  serving, back, \* the stimulus being reconciled and where to go then
  asked,         \* the request in the mailbox
  monitoring,    \* local_goose_cycle_monitoring
  interrupted, armed, overdue,  \* scheduler: an interrupt, the cycle's
                 \* deadline, an execution's lease that has run out
  stopping,
  rearms, settledAt,  \* history: who re-armed which revision, and when
                 \* the last generation was settled
  crashes, failures

durableVars == <<cursor, tasks, stimuli>>
envVars     == <<now, model, crashes, failures>>
historyVars == <<rearms, settledAt>>
memoryVars  == <<point, serving, back, asked, monitoring, interrupted, armed,
                 stopping>>
vars == <<cursor, tasks, stimuli, now, model, pc, point, serving, back, asked,
          monitoring, interrupted, armed, overdue, stopping, rearms,
          settledAt, crashes, failures>>

Terminal     == {"succeeded", "failed", "cancelled", "manual_review"}
InFlight     == {"running", "cancel_requested"}
CycleState   == {"dormant", "scheduled", "prepared", "blocked"}
StepPoints   == {"first", "restep", "step"}
WorkerPoints == StepPoints \cup {"down", "boot", "top", "wait", "handle",
                                 "rearm", "mark"}

Cursor ==
  [revision : Revision, generation : Revision, state : CycleState,
   due : Time \cup {NoTime}, task : Opportunity \cup {NoTask},
   pred : Opportunity \cup {NoTask}]
TaskRecord ==
  [status : {"pending"} \cup InFlight \cup Terminal,
   attempts : 0 .. MaxAttempts, wake : Delays \cup {NoWake},
   pred : Opportunity \cup {NoTask}]
Stimulus ==
  [status : {"none", "accepted", "consumed", "superseded", "manual_review"},
   accepted : Time, revision : Revision, generation : Revision]

TypeOK ==
  /\ cursor \in Cursor
  /\ DOMAIN tasks \subseteq Opportunity
  /\ \A t \in DOMAIN tasks : tasks[t] \in TaskRecord
  /\ stimuli \in [Sources -> Stimulus]
  /\ now \in Time /\ model \in Models
  /\ pc \in WorkerPoints /\ point \in StepPoints
  /\ serving \in Sources \cup {NoSource}
  /\ back \in {"boot", "top", "handle"}
  /\ asked \in Sources \cup {NoSource}
  /\ monitoring \in BOOLEAN /\ interrupted \in BOOLEAN
  /\ armed \in BOOLEAN /\ overdue \in BOOLEAN /\ stopping \in BOOLEAN
  /\ rearms \subseteq Sources \X Revision
  /\ settledAt \in Time
  /\ crashes \in 0 .. MaxFaults /\ failures \in 0 .. MaxFaults

MemoryLost ==
  /\ point' = "first" /\ serving' = NoSource /\ back' = "boot"
  /\ asked' = NoSource /\ monitoring' = FALSE
  /\ interrupted' = FALSE /\ armed' = FALSE /\ stopping' = FALSE

(* The sidecar as the seeding tool leaves it.                              *)
Init ==
  /\ cursor = [revision |-> 0, generation |-> 0, state |-> "dormant",
               due |-> NoTime, task |-> NoTask, pred |-> NoTask]
  /\ tasks = <<>>
  /\ stimuli = [s \in Sources |-> [status |-> "none", accepted |-> 0,
                                   revision |-> 0, generation |-> 0]]
  /\ now = 0 /\ model \in Models
  /\ pc = "down" /\ point = "first" /\ serving = NoSource /\ back = "boot"
  /\ asked = NoSource /\ monitoring = FALSE
  /\ interrupted = FALSE /\ armed = FALSE /\ overdue = FALSE
  /\ stopping = FALSE
  /\ rearms = {} /\ settledAt = 0
  /\ crashes = 0 /\ failures = 0

Works == UNCHANGED failures
Fails == crashes + failures < MaxFaults /\ failures' = failures + 1

-----------------------------------------------------------------------------
(* The Tasks.                                                              *)

Submitted(t) == t \in DOMAIN tasks
Succeeded(t) == Submitted(t) /\ tasks[t].status = "succeeded"
Current      == tasks[cursor.task]

SetTask(t, record) ==
  tasks' = [u \in DOMAIN tasks \cup {t} |-> IF u = t THEN record ELSE tasks[u]]
SetStatus(t, status) == SetTask(t, [tasks[t] EXCEPT !.status = status])

(* canonical_predecessor: the succeeded Task of the generation before.     *)
CanonicalPredecessor(c) ==
  /\ c.generation >= 2
  /\ c.pred # NoTask /\ Succeeded(c.pred)
  /\ c.pred.generation + 1 = c.generation

(* exact_cycle_task: the Task can be derived, under the same model.        *)
Derivable(c) ==
  \/ c.generation = 1
  \/ CanonicalPredecessor(c) /\ c.pred.model = model

(* Runtime::recover_expired, for a Task nobody executes any more.  The     *)
(* attempts that are left decide whether it may be tried again.            *)
Orphans == {t \in DOMAIN tasks : tasks[t].status \in InFlight}
RecoverExpired ==
  IF overdue
    THEN /\ overdue' = FALSE
         /\ \E exhausted \in {"failed", "manual_review"} :
              tasks' = [t \in DOMAIN tasks |->
                IF t \notin Orphans THEN tasks[t]
                ELSE [tasks[t] EXCEPT !.status =
                  IF @ = "cancel_requested" THEN "cancelled"
                  ELSE IF tasks[t].attempts < MaxAttempts THEN "pending"
                  ELSE exhausted]]
    ELSE UNCHANGED <<tasks, overdue>>

-----------------------------------------------------------------------------
(* How a step of the loop ends (step_local_goose_cycle): the scheduler is  *)
(* armed from the cursor, the service goes on being monitored while it is  *)
(* active, and a transition that has a successor asks to be run again at   *)
(* once.  An unhealthy step ends the process at startup and after a        *)
(* stimulus; in the loop it only ends the monitoring.                      *)

Arm_OnTransition ==  \* mutant
  armed' = (armed \/ (cursor'.state = "scheduled" /\ cursor' # cursor))
Arm == armed' = (armed \/ cursor'.state = "scheduled")

Healthy(from, active, immediate) ==
  /\ Arm
  /\ monitoring' = active
  /\ interrupted' = (interrupted \/ immediate)
  /\ pc' = IF from = "restep" THEN "wait" ELSE "top"
  /\ UNCHANGED <<point, serving, back, asked, stopping>>

Unhealthy(from) ==
  IF from = "first"
    THEN pc' = "down" /\ MemoryLost
    ELSE /\ Arm
         /\ monitoring' = FALSE
         /\ stopping' = (stopping \/ from = "restep")
         /\ pc' = "top"
         /\ UNCHANGED <<point, serving, back, asked, interrupted>>

(* LocalGooseCycleStore::replace.  The last revision has no successor; a   *)
(* write that fails may have been committed.                               *)
Replace(from, new, active, immediate) ==
  \/ /\ cursor.revision < MaxRevision
     /\ cursor' = new /\ Healthy(from, active, immediate) /\ Works
  \/ /\ cursor.revision = MaxRevision
     /\ UNCHANGED cursor /\ Unhealthy(from) /\ Works
  \/ /\ cursor.revision < MaxRevision
     /\ cursor' \in {cursor, new} /\ Unhealthy(from) /\ Fails

Blocked == [cursor EXCEPT !.revision = @ + 1, !.state = "blocked"]
WriteBlocked(from) == Replace(from, Blocked, FALSE, FALSE)

StepUnchanged == UNCHANGED <<stimuli, now, model, overdue, rearms, crashes>>

-----------------------------------------------------------------------------
(* LocalGooseCycleService::step.                                           *)

StepIdle ==
  /\ pc \in StepPoints
  /\ cursor.state \in {"dormant", "blocked"}
  /\ UNCHANGED <<cursor, tasks, settledAt>> /\ StepUnchanged
  /\ Healthy(pc, FALSE, FALSE) /\ Works

StepNotDue ==
  /\ pc \in StepPoints
  /\ cursor.state = "scheduled" /\ now < cursor.due
  /\ UNCHANGED <<cursor, tasks, settledAt>> /\ StepUnchanged
  /\ Healthy(pc, TRUE, FALSE) /\ Works

(* The opportunity is captured before its Task exists.                     *)
Captured ==
  [generation |-> cursor.generation, due |-> cursor.due, captured |-> now,
   model |-> model]
Prepared ==
  [cursor EXCEPT !.revision = @ + 1, !.state = "prepared", !.task = Captured]

StepPrepare ==
  /\ pc \in StepPoints
  /\ cursor.state = "scheduled" /\ now >= cursor.due
  /\ IF Derivable(cursor)
       THEN Replace(pc, Prepared, TRUE, TRUE)
       ELSE WriteBlocked(pc)
  /\ UNCHANGED <<tasks, settledAt>> /\ StepUnchanged

(* The Task that a prepared cursor names is derived again at every step,   *)
(* with the model configured now.                                          *)
Exact == Derivable(cursor) /\ cursor.task.model = model

StepDiffers ==
  /\ pc \in StepPoints
  /\ cursor.state = "prepared" /\ ~Exact
  /\ WriteBlocked(pc)
  /\ UNCHANGED <<tasks, settledAt>> /\ StepUnchanged

PreparedStep == pc \in StepPoints /\ cursor.state = "prepared" /\ Exact

(* A Task that cannot be stored now is submitted by a later step.          *)
StepSubmit ==
  /\ PreparedStep /\ ~Submitted(cursor.task)
  /\ UNCHANGED <<cursor, settledAt>> /\ StepUnchanged
  /\ \/ /\ SetTask(cursor.task,
                   [status |-> "pending", attempts |-> 0, wake |-> NoWake,
                    pred |-> cursor.pred])
        /\ Healthy(pc, TRUE, TRUE) /\ Works
     \/ UNCHANGED tasks /\ Healthy(pc, TRUE, FALSE) /\ Fails

(* A Task that ended otherwise than by succeeding is never tried again.    *)
StepFailed ==
  /\ PreparedStep /\ Submitted(cursor.task)
  /\ Current.status \in Terminal \ {"succeeded"}
  /\ WriteBlocked(pc)
  /\ UNCHANGED <<tasks, settledAt>> /\ StepUnchanged

Larger(a, b) == IF a < b THEN b ELSE a
NextDue_NoMinimum(wake) == now + wake  \* mutant
NextDue(wake) == now + Larger(wake, MinDelay)
Overflows(wake) == wake # NoWake /\ NextDue(wake) > MaxTime

Settled(wake) ==
  [revision   |-> cursor.revision + 1,
   generation |-> cursor.generation + 1,
   state      |-> IF wake = NoWake THEN "dormant" ELSE "scheduled",
   due        |-> IF wake = NoWake THEN NoTime ELSE NextDue(wake),
   task       |-> NoTask,
   pred       |-> cursor.task]

StepSettle ==
  /\ PreparedStep /\ Succeeded(cursor.task)
  /\ IF Overflows(Current.wake)
       THEN WriteBlocked(pc) /\ UNCHANGED settledAt
       ELSE /\ Replace(pc, Settled(Current.wake), Current.wake # NoWake, FALSE)
            /\ settledAt' = IF cursor' = cursor THEN settledAt ELSE now
  /\ UNCHANGED tasks /\ StepUnchanged

StepActive ==
  /\ PreparedStep /\ Submitted(cursor.task)
  /\ Current.status \in InFlight
  /\ UNCHANGED <<cursor, tasks, settledAt>> /\ StepUnchanged
  /\ Healthy(pc, TRUE, FALSE) /\ Works

(* TaskExecutor::execute up to the handler.                                *)
StepExecute ==
  /\ PreparedStep /\ Submitted(cursor.task)
  /\ Current.status = "pending"
  /\ UNCHANGED <<cursor, settledAt>> /\ StepUnchanged
  /\ \/ /\ SetTask(cursor.task, [Current EXCEPT !.status = "running",
                                                !.attempts = @ + 1])
        /\ pc' = "handle" /\ point' = pc /\ Works
        /\ UNCHANGED <<serving, back, asked, monitoring, interrupted, armed,
                       stopping>>
     \/ UNCHANGED tasks /\ Healthy(pc, TRUE, FALSE) /\ Fails

(* The handler's answer, which a stop turns into a failure if Goose has    *)
(* not answered yet.  If it cannot be recorded the cycle is blocked with   *)
(* its Task left running.                                                  *)
HandleEnds ==
  /\ pc = "handle"
  /\ \/ /\ \/ SetStatus(cursor.task, "failed")
           \/ \E wake \in Delays \cup {NoWake} :
                SetTask(cursor.task, [Current EXCEPT !.status = "succeeded",
                                                     !.wake = wake])
        /\ UNCHANGED cursor /\ Healthy(point, TRUE, TRUE) /\ Works
     \/ /\ \/ /\ cursor.revision < MaxRevision
              /\ cursor' = Blocked /\ Healthy(point, FALSE, FALSE)
           \/ UNCHANGED cursor /\ Unhealthy(point)
        /\ Fails
        /\ UNCHANGED tasks
  /\ UNCHANGED settledAt /\ StepUnchanged

-----------------------------------------------------------------------------
(* LocalGooseCycleStimulusService::reconcile.                              *)

Rearmed(s) ==
  [cursor EXCEPT !.revision = @ + 1, !.state = "scheduled",
                 !.due = stimuli[s].accepted]

ExactlyRearmed(s) ==
  /\ cursor.revision = stimuli[s].revision + 1
  /\ cursor.generation = stimuli[s].generation
  /\ cursor.state = "scheduled" /\ cursor.due = stimuli[s].accepted
  /\ CanonicalPredecessor(cursor)

Verdict_AnyRevision(s, observed) ==  \* mutant
  IF ExactlyRearmed(s) THEN "consumed"
  ELSE IF cursor.state = "dormant" /\ CanonicalPredecessor(cursor) THEN "rearm"
  ELSE "manual_review"
Verdict(s, observed) ==
  LET target == stimuli[s] IN
  IF observed < target.accepted THEN "manual_review"
  ELSE IF ExactlyRearmed(s) THEN "consumed"
  ELSE IF /\ cursor.revision = target.revision + 1
          /\ cursor.generation = target.generation THEN "manual_review"
  ELSE IF \/ cursor.revision # target.revision
          \/ cursor.generation # target.generation THEN "superseded"
  ELSE IF \/ cursor.state # "dormant"
          \/ ~CanonicalPredecessor(cursor)
          \/ cursor.revision = MaxRevision THEN "manual_review"
  ELSE "rearm"

(* Back to the caller: startup gives up unless the stimulus is settled, a  *)
(* command is followed by a step of the cycle, a handler goes on.          *)
Return(to, settled) ==
  /\ serving' = NoSource /\ back' = "boot"
  /\ interrupted' = (interrupted \/ to = "handle")
  /\ pc' = CASE to = "boot" -> IF settled THEN "boot" ELSE "down"
             [] to = "top" -> "restep"
             [] OTHER -> "handle"
  /\ UNCHANGED <<point, monitoring, armed, stopping>>

Terminalize(s, status, to) ==
  /\ \/ /\ stimuli' = [stimuli EXCEPT ![s].status = status]
        /\ Return(to, TRUE) /\ Works
     \/ /\ stimuli' \in {stimuli, [stimuli EXCEPT ![s].status = status]}
        /\ Return(to, FALSE) /\ Fails
  /\ UNCHANGED <<cursor, rearms>>

RearmCursor(s, to) ==
  /\ \/ /\ cursor' = Rearmed(s)
        /\ pc' = "mark" /\ serving' = s /\ back' = to /\ Works
        /\ UNCHANGED <<point, monitoring, interrupted, armed, stopping>>
     \/ /\ cursor' \in {cursor, Rearmed(s)}
        /\ Return(to, FALSE) /\ Fails
  /\ rearms' = IF cursor' = cursor THEN rearms
               ELSE rearms \cup {<<s, cursor'.revision>>}
  /\ UNCHANGED stimuli

Reconcile(s, observed, to) ==
  LET verdict == Verdict(s, observed) IN
  IF stimuli[s].status # "accepted"
    THEN Return(to, TRUE) /\ Works /\ UNCHANGED <<cursor, stimuli, rearms>>
    ELSE IF verdict = "rearm" THEN RearmCursor(s, to)
    ELSE Terminalize(s, verdict, to)

ReconcileUnchanged == UNCHANGED <<tasks, now, model, overdue, settledAt, crashes>>

(* Startup reconciles what was accepted and not settled.                   *)
ReconcileAtBoot ==
  /\ pc = "boot"
  /\ \E s \in Sources :
       stimuli[s].status = "accepted" /\ Reconcile(s, now, "boot")
  /\ UNCHANGED asked /\ ReconcileUnchanged

BootReconciled ==
  /\ pc = "boot"
  /\ \A s \in Sources : stimuli[s].status # "accepted"
  /\ pc' = "first"
  /\ UNCHANGED <<durableVars, envVars, historyVars, memoryVars, overdue>>

(* accept_explicit_recheck: only a cycle that sleeps, once per source and  *)
(* one at a time per revision.                                             *)
Acceptable ==
  /\ cursor.state = "dormant" /\ CanonicalPredecessor(cursor)
  /\ \A s \in Sources : ~(/\ stimuli[s].status = "accepted"
                          /\ stimuli[s].revision = cursor.revision)
Accepted ==
  [status |-> "accepted", accepted |-> now, revision |-> cursor.revision,
   generation |-> cursor.generation]

Known(s) == stimuli[s].status # "none"

(* stimulate: a request is accepted, durably, and then reconciled; one     *)
(* that is known already is reconciled again.                              *)
Stimulate(s, from) ==
  \/ Known(s) /\ Reconcile(s, now, from)
  \/ /\ ~Known(s) /\ ~Acceptable
     /\ Return(from, FALSE) /\ Works
     /\ UNCHANGED <<cursor, stimuli, rearms>>
  \/ /\ ~Known(s) /\ Acceptable
     /\ \/ /\ stimuli' = [stimuli EXCEPT ![s] = Accepted]
           /\ pc' = "rearm" /\ serving' = s /\ back' = from /\ Works
           /\ UNCHANGED <<point, monitoring, interrupted, armed, stopping>>
        \/ /\ stimuli' \in {stimuli, [stimuli EXCEPT ![s] = Accepted]}
           /\ Return(from, FALSE) /\ Fails
     /\ UNCHANGED <<cursor, rearms>>

(* The mailbox is served at the top of the loop and, while Goose runs, by  *)
(* the handler's pump, which throws instead once a stop was asked for.     *)
Serve ==
  /\ asked # NoSource /\ asked' = NoSource
  /\ \/ pc = "top"
     \/ pc = "handle" /\ ~stopping
  /\ Stimulate(asked, pc)
  /\ ReconcileUnchanged

Rearm ==
  /\ pc = "rearm"
  /\ Reconcile(serving, stimuli[serving].accepted, back)
  /\ UNCHANGED asked /\ ReconcileUnchanged

Mark ==
  /\ pc = "mark"
  /\ Terminalize(serving, "consumed", back)
  /\ UNCHANGED asked /\ ReconcileUnchanged

-----------------------------------------------------------------------------
(* The worker's loop.                                                      *)

LoopUnchanged ==
  UNCHANGED <<cursor, stimuli, envVars, historyVars, point, serving, back,
              asked, monitoring, stopping>>

EnterWait ==
  /\ pc = "top" /\ asked = NoSource
  /\ pc' = "wait"
  /\ UNCHANGED <<tasks, interrupted, armed, overdue>> /\ LoopUnchanged

Resume == pc' = IF monitoring THEN "step" ELSE "top"

WaitInterrupted ==
  /\ pc = "wait" /\ ~stopping
  /\ interrupted /\ interrupted' = FALSE
  /\ Resume
  /\ UNCHANGED <<tasks, armed, overdue>> /\ LoopUnchanged

(* A deadline: the cycle's own or that of a lease.  Waking uses up what    *)
(* the scheduler was asked for.                                            *)
Woken ==
  /\ pc = "wait" /\ ~stopping
  /\ armed' = FALSE
  /\ RecoverExpired
  /\ Resume
  /\ UNCHANGED interrupted /\ LoopUnchanged

DeadlineReached ==
  \/ armed /\ cursor.state = "scheduled" /\ now >= cursor.due
  \/ overdue
WaitDue == DeadlineReached /\ Woken

(* Any other work of the service wakes the same worker.                    *)
OtherWork == ~DeadlineReached /\ Woken

Drain ==
  /\ pc = "wait" /\ stopping
  /\ pc' = "down" /\ MemoryLost
  /\ UNCHANGED <<durableVars, envVars, historyVars, overdue>>

-----------------------------------------------------------------------------
(* What happens to the process.                                            *)

Boot ==
  /\ pc = "down"
  /\ RecoverExpired
  /\ pc' = "boot"
  /\ UNCHANGED <<cursor, stimuli, envVars, historyVars, memoryVars>>

(* activate_local_goose_cycle, run by hand on the seeded sidecar.          *)
Activate ==
  /\ pc = "down"
  /\ cursor.state = "dormant" /\ cursor.generation = 0
  /\ cursor.revision < MaxRevision
  /\ \E due \in Time :
       cursor' = [cursor EXCEPT !.revision = 1, !.generation = 1,
                                !.state = "scheduled", !.due = due]
  /\ UNCHANGED <<tasks, stimuli, envVars, historyVars, memoryVars, pc, overdue>>

(* gaudere-agent --cancel, which needs the service down.                   *)
CancelOffline ==
  /\ pc = "down"
  /\ \E t \in DOMAIN tasks :
       \/ tasks[t].status = "pending" /\ SetStatus(t, "cancelled")
       \/ tasks[t].status = "running" /\ SetStatus(t, "cancel_requested")
  /\ UNCHANGED <<cursor, stimuli, envVars, historyVars, memoryVars, pc, overdue>>

ServerUp == pc \notin {"down", "boot"}

Ask ==
  /\ ServerUp /\ ~stopping /\ asked = NoSource
  /\ \E s \in Sources : asked' = s
  /\ interrupted' = TRUE
  /\ UNCHANGED <<durableVars, envVars, historyVars, pc, point, serving, back,
                 monitoring, armed, overdue, stopping>>

Stop ==
  /\ ServerUp /\ ~stopping
  /\ stopping' = TRUE
  /\ UNCHANGED <<durableVars, envVars, historyVars, pc, point, serving, back,
                 asked, monitoring, interrupted, armed, overdue>>

Crash ==
  /\ pc # "down"
  /\ crashes + failures < MaxFaults /\ crashes' = crashes + 1
  /\ pc' = "down" /\ MemoryLost
  /\ UNCHANGED <<durableVars, now, model, failures, historyVars, overdue>>

Environment == UNCHANGED <<durableVars, historyVars, memoryVars, pc, crashes>>

Tick ==
  /\ now < MaxTime /\ now' = now + 1
  /\ UNCHANGED <<model, failures, overdue>> /\ Environment

LeaseRunsOut ==
  /\ pc # "handle" /\ Orphans # {} /\ ~overdue
  /\ overdue' = TRUE
  /\ UNCHANGED <<now, model, failures>> /\ Environment

SetClockBack ==
  /\ now > 0 /\ now' = now - 1 /\ Fails
  /\ UNCHANGED <<model, overdue>> /\ Environment

Reconfigure ==
  /\ pc = "down"
  /\ \E m \in Models \ {model} : model' = m
  /\ Fails
  /\ UNCHANGED <<now, overdue>> /\ Environment

Step ==
  \/ StepIdle \/ StepNotDue \/ StepPrepare \/ StepDiffers \/ StepSubmit
  \/ StepFailed \/ StepSettle \/ StepActive \/ StepExecute
Worker ==
  \/ Step \/ HandleEnds
  \/ ReconcileAtBoot \/ BootReconciled \/ Serve \/ Rearm \/ Mark
  \/ EnterWait \/ WaitInterrupted \/ WaitDue \/ Drain
Next ==
  \/ Worker \/ OtherWork
  \/ Boot \/ Activate \/ CancelOffline \/ Ask \/ Stop \/ Crash
  \/ Tick \/ LeaseRunsOut \/ SetClockBack \/ Reconfigure

Spec == Init /\ [][Next]_vars

(* The worker runs, Goose answers or times out, time passes, deadlines are *)
(* not put off for ever by interrupts, and the service is started again.   *)
Fairness ==
  /\ WF_vars(Worker) /\ WF_vars(HandleEnds) /\ SF_vars(WaitDue)
  /\ WF_vars(Tick) /\ WF_vars(LeaseRunsOut) /\ WF_vars(Boot)
FairSpec == Spec /\ Fairness
=============================================================================
