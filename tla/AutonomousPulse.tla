---------------------------- MODULE AutonomousPulse ----------------------------
(***************************************************************************)
(* The autonomous cognition pulse: at its due time the agent prepares, by  *)
(* itself, one cognition about its own state, and, when it has been given  *)
(* the authority, spends one provider call on it.                          *)
(*                                                                         *)
(* A sidecar row, the cursor, names the predecessor, the last cognition of *)
(* the lineage.  A due generation freezes its observation time in the      *)
(* cursor, records a snapshot of the context (a Task), claims a cognition  *)
(* (a Task whose identity hashes predecessor and snapshot) and names both  *)
(* in the cursor.  The provider gate then admits at most that Task to a    *)
(* call; a stale, unspent one is retired and the generation prepared anew. *)
(* Two databases, a write at a time: the process may die between any two.  *)
(*                                                                         *)
(* A cognition is the sequence of the snapshots from the seed to its own.  *)
(* The clock, the cadences and the budget are those of ProviderCall and    *)
(* LocalActivityPulse.  The cursor's revision is left out: every program   *)
(* that replaces the row holds the state lock.                             *)
(***************************************************************************)
EXTENDS Naturals, Sequences, FiniteSets

CONSTANTS
  ContinueCadence, QuiescentCadence,
  MaxAge,                            \* current_cognition_max_snapshot_age
  MaxAttempts, MaxRuntime,           \* of snapshot and cognition Tasks
  MaxTotal, MaxInWindow, Window, MinInterval,  \* the provider budget's policy
  NoTime, NoCursor, NoTask,
  MaxTime,                           \* bound: the clock
  MaxFaults,                         \* bound: crashes and failing stores
  MaxDisturbances                    \* bound: what others do

ASSUME PulseAssumption ==
  /\ {ContinueCadence, QuiescentCadence, MaxAttempts, MaxRuntime, MaxInWindow,
      Window, MinInterval} \subseteq Nat \ {0}
  /\ {MaxAge, MaxTotal, MaxTime, MaxFaults, MaxDisturbances} \subseteq Nat
  /\ NoTime \notin Nat

State    == {"idle", "preparing", "prepared", "blocked", "quiescent"}
Status   == {"pending", "running", "cancel_requested", "succeeded", "failed",
             "cancelled", "manual_review"}
Decision == {"continue", "stop"}

(* A snapshot's request.  An operator's own has no due time.               *)
Snapshot  == [due : Nat \cup {NoTime}, observed : Nat, wake : Nat]
Cognition == Seq(Snapshot)
Cursor == [state : State, predecessor : Cognition, anchor : Nat, due : Nat,
           observed : Nat \cup {NoTime}, snapshot : Snapshot \cup {NoTask},
           current : Cognition \cup {NoTask}]
Task   == [status : Status, attempts : Nat, until : Nat,
           decision : Decision \cup {NoTask}, retired : BOOLEAN]
(* A row of the budget store: when it was consumed, and for which Task.    *)
Permit == [at : Nat, key : Cognition \cup {NoTask}]

(* Nothing is neither a row of the sidecar nor what a row can name.        *)
ASSUME NamesAssumption ==
  NoCursor \notin Cursor /\ NoTask \notin Snapshot /\ NoTask \notin Cognition

VARIABLES
  cursor, tasks, snapshots,  \* durable: the sidecar, cognitions, snapshots
  actions, spent, wake,      \* provider Actions, budget, the historical wake
  now,                       \* the wall clock, which may be set back
  pc, mode, executing,       \* the service's thread
  booting, authority,        \* its first step; --autonomous-pulse-provider
  monitoring, armed,         \* in memory: step again; the earliest deadline
  faults, disturbances

durable == <<cursor, tasks, snapshots, actions, spent, wake>>
thread  == <<pc, mode, executing, booting, authority, monitoring, armed>>
process == <<executing, booting, authority, monitoring, armed>>
bounds  == <<faults, disturbances>>
vars    == <<durable, now, thread, bounds>>

Init ==
  /\ cursor = NoCursor /\ tasks = <<>> /\ snapshots = <<>>
  /\ actions = {} /\ spent = <<>> /\ wake = 0
  /\ now = 0
  /\ pc = "down" /\ mode = "first" /\ executing = NoTask
  /\ booting = FALSE /\ authority = FALSE
  /\ monitoring = FALSE /\ armed = NoTime
  /\ faults = 0 /\ disturbances = 0

Fault   == faults < MaxFaults /\ faults' = faults + 1 /\ UNCHANGED disturbances
Disturb == /\ disturbances < MaxDisturbances
           /\ disturbances' = disturbances + 1
           /\ UNCHANGED faults

-----------------------------------------------------------------------------
(* Tasks, budget and cursors.                                              *)

NewTask == [status |-> "pending", attempts |-> 0, until |-> 0,
            decision |-> NoTask, retired |-> FALSE]
Stored(f, id) == [i \in DOMAIN f \cup {id} |-> IF i = id THEN NewTask ELSE f[i]]

(* A lease that would end after the last time of the instance ends then.   *)
Lease == IF now + MaxRuntime > MaxTime THEN MaxTime ELSE now + MaxRuntime
Started(task) ==
  [task EXCEPT !.status = "running", !.attempts = task.attempts + 1,
               !.until = Lease]

Nonterminal(task) == task.status \in {"pending", "running", "cancel_requested"}

(* The library's Runtime::recover.                                         *)
Recovered(task) ==
  IF task.status \notin {"running", "cancel_requested"} \/ now < task.until
    THEN {task}
  ELSE {[task EXCEPT !.status = s] :
          s \in IF task.status = "cancel_requested" THEN {"cancelled"}
                ELSE IF task.attempts < MaxAttempts THEN {"pending"}
                ELSE {"failed", "manual_review"}}
RecoverAll(f) ==
  {g \in [DOMAIN f -> UNION {Recovered(f[i]) : i \in DOMAIN f}] :
     \A i \in DOMAIN f : g[i] \in Recovered(f[i])}
Recover == tasks' \in RecoverAll(tasks) /\ snapshots' \in RecoverAll(snapshots)
Leases == {f.until : f \in {tasks[i] : i \in DOMAIN tasks} \cup
                           {snapshots[i] : i \in DOMAIN snapshots}}
FirstLease ==
  LET open == {f \in {tasks[i] : i \in DOMAIN tasks} \cup
                     {snapshots[i] : i \in DOMAIN snapshots} :
                 f.status \in {"running", "cancel_requested"}}
  IN IF open = {} THEN NoTime
     ELSE CHOOSE t \in Leases :
            /\ \E f \in open : f.until = t
            /\ \A f \in open : t <= f.until

(* The budget store's answer to a new consumption at time t.  A Task's key *)
(* is consumed once: a crash may leave it with a permit and no Action, and *)
(* then the store answers duplicate, whatever the time.                    *)
LastSpent == spent[Len(spent)].at
Budget(t) ==
  IF spent # <<>> /\ t < LastSpent THEN "clock_rollback"
  ELSE IF Len(spent) >= MaxTotal THEN "total_exhausted"
  ELSE IF Cardinality({i \in DOMAIN spent : t < spent[i].at + Window})
            >= MaxInWindow THEN "window_exhausted"
  ELSE IF spent # <<>> /\ t < LastSpent + MinInterval THEN "cooldown"
  ELSE "accepted"
Permitted(id) == \E i \in DOMAIN spent : spent[i].key = id
Spent(id) ==
  IF Permitted(id) THEN spent ELSE Append(spent, [at |-> now, key |-> id])

ValidCursor(c) ==
  CASE c.state \in {"idle", "quiescent"} ->
         c.observed = NoTime /\ c.snapshot = NoTask /\ c.current = NoTask
    [] c.state = "preparing" ->
         c.observed # NoTime /\ c.snapshot = NoTask /\ c.current = NoTask
    [] c.state = "prepared" ->
         c.observed # NoTime /\ c.snapshot # NoTask /\ c.current # NoTask
    [] OTHER -> TRUE

Replace(c) == ValidCursor(cursor) /\ ValidCursor(c) /\ cursor' = c

(* What a decision makes of the lineage: when it looks again, and how.     *)
Resting(predecessor, decision) ==
  [state |-> IF decision = "stop" THEN "quiescent" ELSE "idle",
   predecessor |-> predecessor,
   anchor |-> now,
   due |-> now + IF decision = "stop" THEN QuiescentCadence ELSE ContinueCadence,
   observed |-> NoTime, snapshot |-> NoTask, current |-> NoTask]

(* context_request: the facts that a snapshot freezes, with the wake as it *)
(* is read now.  The budget's are the observation's (see BudgetHolds).     *)
OwnSnapshot == [due |-> cursor.due, observed |-> cursor.observed, wake |-> wake]
OwnCognition == Append(cursor.predecessor, OwnSnapshot)

TooOld(t) == now > t + MaxAge

-----------------------------------------------------------------------------
(* Others.                                                                 *)

Tick ==
  /\ now < MaxTime /\ now' = now + 1
  /\ UNCHANGED <<durable, thread, bounds>>

ClockSetBack ==
  /\ now > 0 /\ now' = now - 1
  /\ Disturb
  /\ UNCHANGED <<durable, thread>>

(* The wake fires or is accepted; another part spends a provider call.     *)
WakeMoves ==
  /\ pc \in {"down", "loop"}
  /\ wake' = wake + 1
  /\ Disturb
  /\ UNCHANGED <<cursor, tasks, snapshots, actions, spent, now, thread>>

OtherSpends ==
  /\ pc \in {"down", "loop"}
  /\ Budget(now) = "accepted"
  /\ spent' = Append(spent, [at |-> now, key |-> NoTask])
  /\ Disturb
  /\ UNCHANGED <<cursor, tasks, snapshots, actions, wake, now, thread>>

(* The offline cancel command, which recovers first, given a cognition or  *)
(* a snapshot.                                                             *)
Cancelled(task) ==
  {[t EXCEPT !.status =
      IF t.status = "pending" THEN "cancelled" ELSE "cancel_requested"] :
     t \in {r \in Recovered(task) : r.status \in {"pending", "running"}}}
CancelTask ==
  /\ pc = "down"
  /\ \E id \in DOMAIN tasks : \E task \in Cancelled(tasks[id]) :
       tasks' = [tasks EXCEPT ![id] = task]
  /\ Disturb
  /\ UNCHANGED <<cursor, snapshots, actions, spent, wake, now, thread>>
CancelSnapshot ==
  /\ pc = "down"
  /\ \E s \in DOMAIN snapshots : \E task \in Cancelled(snapshots[s]) :
       snapshots' = [snapshots EXCEPT ![s] = task]
  /\ Disturb
  /\ UNCHANGED <<cursor, tasks, actions, spent, wake, now, thread>>

(* The prepare tool: the operator's own context, on the same predecessor.  *)
OperatorContext == [due |-> NoTime, observed |-> now, wake |-> 0]
PrepareTool ==
  /\ pc = "down" /\ cursor # NoCursor
  /\ LET id == Append(cursor.predecessor, OperatorContext)
     IN /\ id \notin DOMAIN tasks
        /\ tasks' = Stored(tasks, id)
  /\ Disturb
  /\ UNCHANGED <<cursor, snapshots, actions, spent, wake, now, thread>>

(* The one-shot tool spends a call on the Task it is pointed at: the one   *)
(* the pulse has named, or the operator's own.  It may stop before the     *)
(* answer or before the Action is stored; a call that has an Action        *)
(* already is never repeated.                                              *)
Answered(task) ==
  {[task EXCEPT !.status = "succeeded", !.decision = d] : d \in Decision} \cup
  {[task EXCEPT !.status = s] : s \in {"failed", "manual_review"}}
OneShotTool ==
  /\ pc = "down" /\ cursor # NoCursor
  /\ \E id \in DOMAIN tasks : \E task \in Recovered(tasks[id]) :
       LET observed == id[Len(id)].observed IN
       /\ id = cursor.current \/ id[Len(id)].due = NoTime
       /\ now >= observed /\ ~TooOld(observed)
       /\ Budget(now) = "accepted"
       /\ task.status = "pending"
       /\ IF id \in actions
            THEN /\ tasks' = [tasks EXCEPT ![id] =
                                [Started(task) EXCEPT !.status = "manual_review"]]
                 /\ UNCHANGED <<actions, spent>>
            ELSE /\ \/ /\ \E t \in Answered(Started(task)) \cup {Started(task)} :
                            tasks' = [tasks EXCEPT ![id] = t]
                       /\ actions' = actions \cup {id}
                    \/ /\ tasks' = [tasks EXCEPT ![id] = Started(task)]
                       /\ UNCHANGED actions
                 /\ spent' = Spent(id)
  /\ Disturb
  /\ UNCHANGED <<cursor, snapshots, wake, now, thread>>

-----------------------------------------------------------------------------
(* The process.                                                            *)

(* The seed tool names a cognition of the past, of either decision.        *)
Seed ==
  /\ pc = "down" /\ cursor = NoCursor
  /\ \E d \in Decision : cursor' = Resting(<<>>, d)
  /\ UNCHANGED <<tasks, snapshots, actions, spent, wake, now, thread, bounds>>

(* main wants a seeded sidecar, recovers, and takes a first step that must *)
(* be healthy.                                                             *)
Boot_Unrecovered ==  \* mutant
  /\ pc = "down" /\ cursor # NoCursor
  /\ pc' = "refresh" /\ booting' = TRUE /\ authority' \in BOOLEAN
  /\ armed' = now
  /\ UNCHANGED <<durable, now, mode, executing, monitoring, bounds>>
Boot ==
  /\ pc = "down" /\ cursor # NoCursor
  /\ Recover
  /\ pc' = "refresh" /\ booting' = TRUE /\ authority' \in BOOLEAN
  /\ armed' = now
  /\ UNCHANGED <<cursor, actions, spent, wake, now, mode, executing, monitoring,
                 bounds>>

(* The operator's tool takes one observation, without refresh or gate.     *)
ObserveTool ==
  /\ pc = "down" /\ cursor # NoCursor
  /\ Recover
  /\ pc' = "observe" /\ mode' = "tool"
  /\ Disturb
  /\ UNCHANGED <<cursor, actions, spent, wake, now, process>>

Down ==
  /\ pc' = "down" /\ mode' = "first" /\ executing' = NoTask
  /\ booting' = FALSE /\ authority' = FALSE
  /\ monitoring' = FALSE /\ armed' = NoTime

Crash ==
  /\ pc # "down"
  /\ Down
  /\ Fault
  /\ UNCHANGED <<durable, now>>

Earlier(a, b) ==
  IF a = NoTime THEN b ELSE IF b = NoTime THEN a ELSE IF a < b THEN a ELSE b
Later(a, b) == IF a < b THEN b ELSE a

WaitDue ==
  /\ pc = "loop" /\ armed # NoTime /\ armed <= now
  /\ Recover
  /\ armed' = FirstLease'
  /\ pc' = IF monitoring THEN "refresh" ELSE "loop"
  /\ UNCHANGED <<cursor, actions, spent, wake, now, mode, executing, booting,
                 authority, monitoring, bounds>>

WaitInterrupted ==
  /\ pc = "loop" /\ monitoring
  /\ pc' = "refresh"
  /\ Disturb
  /\ UNCHANGED <<durable, now, mode, process>>

(* A step ends: healthy, with the next one asked for or the pulse off, or  *)
(* unhealthy, which a first step does not survive.                         *)
Rest(next) ==
  /\ pc' = "loop" /\ mode' = "first" /\ executing' = NoTask
  /\ booting' = FALSE /\ UNCHANGED authority
  /\ monitoring' = (next # NoTime) /\ armed' = Earlier(armed, next)
Unhealthy ==
  IF booting \/ mode = "tool" THEN Down
  ELSE Rest(NoTime)

(* AutonomousCognitionPulseService::step and, with the authority, the      *)
(* gate.  A refresh that was blocked makes the step healthy and the last.  *)
Quiet == mode \in {"quiet", "quiet_settling"}
Quieten ==
  /\ pc' = "observe" /\ UNCHANGED process
  /\ mode' = IF mode \in {"first", "quiet"} THEN "quiet" ELSE "quiet_settling"
EndStep(healthy, next) ==
  IF mode = "tool" THEN Down
  ELSE IF ~healthy /\ ~Quiet THEN Unhealthy
  ELSE IF authority /\ mode \in {"first", "quiet"} /\ cursor'.state = "prepared"
    THEN pc' = "gate" /\ UNCHANGED <<mode, process>>
  ELSE Rest(IF Quiet THEN NoTime ELSE next)
Stay == UNCHANGED <<mode, process>>

-----------------------------------------------------------------------------
(* AutonomousCognitionProviderGate::evaluate of a prepared cursor          *)

Singleton == {id \in DOMAIN tasks : Nonterminal(tasks[id])} = {cursor.current}
Lineage ==
  /\ cursor.current = Append(cursor.predecessor, cursor.snapshot)
  /\ cursor.snapshot.observed = cursor.observed
  /\ snapshots[cursor.snapshot].status = "succeeded"
Named == tasks[cursor.current]

Gate ==
  IF Named.status = "succeeded" THEN "settled"
  ELSE IF \/ Named.status # "pending" \/ Named.attempts >= MaxAttempts
          \/ ~Lineage \/ ~Singleton \/ now < cursor.observed THEN "blocked"
  ELSE IF TooOld(cursor.observed) THEN "stale"
  ELSE IF cursor.current \in actions THEN "blocked"
  ELSE Budget(now)

-----------------------------------------------------------------------------
(* AutonomousCognitionStaleRefresh::step                                   *)

Retirable ==
  /\ Named.status = "pending" /\ Named.attempts = 0
  /\ cursor.current \notin actions
Marked == Named.retired /\ cursor.current \notin actions

Reset == [cursor EXCEPT !.state = "idle", !.observed = NoTime,
                        !.snapshot = NoTask, !.current = NoTask]

RefreshNotApplicable ==
  /\ pc = "refresh"
  /\ \/ cursor.state # "prepared"
     \/ /\ cursor.state = "prepared" /\ ~Named.retired
        /\ Gate \notin {"blocked", "stale", "clock_rollback"}
  /\ pc' = "observe" /\ Stay
  /\ UNCHANGED <<durable, now, bounds>>

RefreshBlocked ==
  /\ pc = "refresh" /\ cursor.state = "prepared" /\ ~Marked
  /\ \/ Gate \in {"blocked", "clock_rollback"}
     \/ Gate = "stale" /\ ~Retirable
  /\ Quieten
  /\ UNCHANGED <<durable, now, bounds>>

Retire ==
  /\ pc = "refresh" /\ cursor.state = "prepared" /\ ~Marked
  /\ Gate = "stale" /\ Retirable
  /\ tasks' = [tasks EXCEPT ![cursor.current].status = "cancelled",
                            ![cursor.current].retired = TRUE]
  /\ pc' = "reset" /\ Stay
  /\ UNCHANGED <<cursor, snapshots, actions, spent, wake, now, bounds>>

ResetRetired ==
  /\ pc \in {"refresh", "reset"} /\ cursor.state = "prepared" /\ Marked
  /\ Replace(Reset)
  /\ pc' = "observe" /\ Stay
  /\ UNCHANGED <<tasks, snapshots, actions, spent, wake, now, bounds>>

-----------------------------------------------------------------------------
(* AutonomousCognitionPulse::observe                                       *)

Block ==
  /\ Replace([cursor EXCEPT !.state = "blocked"])
  /\ EndStep(FALSE, NoTime)
  /\ UNCHANGED <<tasks, snapshots, actions, spent, wake, now, bounds>>

Ended(healthy, next) ==
  /\ UNCHANGED <<durable, now, bounds>>
  /\ EndStep(healthy, next)

Unavailable ==
  /\ Fault
  /\ \/ /\ pc \in {"refresh", "reset"}
        /\ Quieten
     \/ /\ pc \in {"observe", "record", "claim", "name"}
        /\ IF Quiet THEN Rest(NoTime) ELSE Unhealthy
     \/ pc = "gate" /\ Rest(NoTime)
  /\ UNCHANGED <<durable, now>>

ObserveBlocked ==
  /\ pc = "observe"
  /\ cursor.state = "blocked" \/ now < cursor.anchor
  /\ Ended(FALSE, NoTime)

Observing(states) ==
  pc = "observe" /\ cursor.state \in states /\ now >= cursor.anchor

ObserveWaiting ==
  /\ Observing({"prepared"}) /\ Nonterminal(Named)
  /\ Ended(TRUE, NoTime)

BlockedByFailure_Retried ==  \* mutant
  /\ Observing({"prepared"})
  /\ ~Nonterminal(Named) /\ Named.status # "succeeded"
  /\ Replace(Reset)
  /\ EndStep(TRUE, Later(cursor.due, now))
  /\ UNCHANGED <<tasks, snapshots, actions, spent, wake, now, bounds>>
BlockedByFailure ==
  /\ Observing({"prepared"})
  /\ ~Nonterminal(Named) /\ Named.status # "succeeded"
  /\ Block

Settled_CatchesUp ==  \* mutant
  [Resting(cursor.current, Named.decision) EXCEPT
     !.due = cursor.due + ContinueCadence]
Settled == Resting(cursor.current, Named.decision)
Settle_Unscheduled ==  \* mutant
  /\ Observing({"prepared"}) /\ Named.status = "succeeded"
  /\ Replace(Settled)
  /\ EndStep(TRUE, NoTime)
  /\ UNCHANGED <<tasks, snapshots, actions, spent, wake, now, bounds>>
Settle ==
  /\ Observing({"prepared"}) /\ Named.status = "succeeded"
  /\ Replace(Settled)
  /\ EndStep(TRUE, Later(cursor'.due, now))
  /\ UNCHANGED <<tasks, snapshots, actions, spent, wake, now, bounds>>

ObserveNotDue ==
  /\ Observing({"idle", "quiescent"}) /\ now < cursor.due
  /\ Ended(TRUE, cursor.due)

(* budget_retry_plan                                                       *)
ObserveBudget ==
  /\ Observing({"idle", "quiescent"}) /\ now >= cursor.due
  /\ \/ Budget(now) = "cooldown" /\ Ended(TRUE, LastSpent + MinInterval)
     \/ Budget(now) = "window_exhausted" /\ Ended(TRUE, now + Window)
     \/ Budget(now) = "total_exhausted" /\ Ended(TRUE, NoTime)
     \/ Budget(now) = "clock_rollback" /\ Ended(FALSE, NoTime)

(* The predecessor is succeeded, and so never changes again.               *)
Frozen == [cursor EXCEPT !.state = "preparing", !.observed = now]
Freeze ==
  /\ Observing({"idle", "quiescent"}) /\ now >= cursor.due
  /\ Budget(now) = "accepted"
  /\ Replace(Frozen)
  /\ pc' = "record" /\ Stay
  /\ UNCHANGED <<tasks, snapshots, actions, spent, wake, now, bounds>>

(* A permit consumed after the observation is a rollback at its time, and  *)
(* one consumed at its time a cooldown: the facts of a snapshot never move.*)
BudgetHolds == Budget(cursor.observed) = "accepted"

ResumeRolledBack ==
  /\ Observing({"preparing"}) /\ now < cursor.observed
  /\ Ended(FALSE, NoTime)

ResumeBlocked ==
  /\ Observing({"preparing"}) /\ now >= cursor.observed
  /\ TooOld(cursor.observed) \/ ~BudgetHolds
  /\ Block

Resume ==
  /\ Observing({"preparing"}) /\ now >= cursor.observed
  /\ ~TooOld(cursor.observed) /\ BudgetHolds
  /\ pc' = "record" /\ Stay
  /\ UNCHANGED <<durable, now, bounds>>

-----------------------------------------------------------------------------
(* ResumeContextSnapshotRecorder::record, at the frozen time               *)

Pending == {s \in DOMAIN snapshots : snapshots[s].status = "pending"}
Recorded == OwnSnapshot \in DOMAIN snapshots

RecordSubmit ==
  /\ pc = "record" /\ Pending = {} /\ ~Recorded
  /\ snapshots' = Stored(snapshots, OwnSnapshot)
  /\ UNCHANGED <<cursor, tasks, actions, spent, wake, now, thread, bounds>>

(* Its own, or one that a crash left behind, which is closed first.        *)
RecordStart ==
  /\ pc = "record"
  /\ \E s \in Pending :
       /\ snapshots' = [snapshots EXCEPT ![s] = Started(snapshots[s])]
       /\ executing' = s
  /\ pc' = "snapshot"
  /\ UNCHANGED <<cursor, tasks, actions, spent, wake, now, mode, booting,
                 authority, monitoring, armed, bounds>>

RecordFinish ==
  /\ pc = "snapshot"
  /\ snapshots' = [snapshots EXCEPT ![executing].status = "succeeded"]
  /\ pc' = IF executing = OwnSnapshot THEN "claim" ELSE "record"
  /\ executing' = NoTask
  /\ UNCHANGED <<cursor, tasks, actions, spent, wake, now, mode, booting,
                 authority, monitoring, armed, bounds>>

RecordDuplicate ==
  /\ pc = "record" /\ Pending = {} /\ Recorded
  /\ snapshots[OwnSnapshot].status = "succeeded"
  /\ pc' = "claim" /\ Stay
  /\ UNCHANGED <<durable, now, bounds>>

RecordNotStartable ==
  /\ pc = "record" /\ Pending = {} /\ Recorded
  /\ snapshots[OwnSnapshot].status \in {"running", "cancel_requested"}
  /\ Ended(FALSE, NoTime)

RecordFailed ==
  /\ pc = "record" /\ Pending = {} /\ Recorded
  /\ snapshots[OwnSnapshot].status \in {"failed", "cancelled", "manual_review"}
  /\ Block

-----------------------------------------------------------------------------
(* CurrentCognitionCycle::claim, and the cursor that names the claim       *)

Claimed == OwnCognition \in DOMAIN tasks

ClaimDuplicate ==
  /\ pc = "claim" /\ Claimed
  /\ pc' = "name" /\ Stay
  /\ UNCHANGED <<durable, now, bounds>>

ClaimRefused ==
  /\ pc = "claim" /\ ~Claimed
  /\ now < cursor.observed \/ TooOld(cursor.observed)
  /\ Block

ClaimSubmit ==
  /\ pc = "claim" /\ ~Claimed
  /\ now >= cursor.observed /\ ~TooOld(cursor.observed)
  /\ tasks' = Stored(tasks, OwnCognition)
  /\ pc' = "name" /\ Stay
  /\ UNCHANGED <<cursor, snapshots, actions, spent, wake, now, bounds>>

Name ==
  /\ pc = "name"
  /\ Replace([cursor EXCEPT !.state = "prepared", !.snapshot = OwnSnapshot,
                            !.current = OwnCognition])
  /\ EndStep(TRUE, NoTime)
  /\ UNCHANGED <<tasks, snapshots, actions, spent, wake, now, bounds>>

-----------------------------------------------------------------------------
(* AutonomousCognitionProviderService::step, from the gate on              *)

GateCloses ==
  /\ pc = "gate"
  /\ \/ /\ Gate \notin {"accepted", "cooldown", "window_exhausted"}
        /\ Rest(NoTime)
     \/ /\ Gate = "cooldown"
        /\ Rest(Later(now, LastSpent + MinInterval))
     \/ /\ Gate = "window_exhausted"
        /\ Rest(now + Window)
  /\ UNCHANGED <<durable, now, bounds>>

StartCognition ==
  /\ pc = "gate" /\ Gate = "accepted"
  /\ tasks' = [tasks EXCEPT ![cursor.current] = Started(Named)]
  /\ pc' = "provider" /\ Stay
  /\ UNCHANGED <<cursor, snapshots, actions, spent, wake, now, bounds>>

(* ProviderTaskHandler, of which ProviderCall has the detail: a permit, an *)
(* Action, an answer; or none of them.                                     *)
Consume ==
  /\ pc = "provider"
  /\ Permitted(cursor.current) \/ Budget(now) = "accepted"
  /\ spent' = Spent(cursor.current)
  /\ pc' = "permitted" /\ Stay
  /\ UNCHANGED <<cursor, tasks, snapshots, actions, wake, now, bounds>>

Call ==
  /\ pc = "permitted"
  /\ actions' = actions \cup {cursor.current}
  /\ pc' = "called" /\ Stay
  /\ UNCHANGED <<cursor, tasks, snapshots, spent, wake, now, bounds>>

Declined ==
  /\ pc \in {"provider", "permitted"}
  /\ \E s \in {"failed", "manual_review"} :
       tasks' = [tasks EXCEPT ![cursor.current].status = s]
  /\ pc' = "refresh" /\ mode' = "settling" /\ UNCHANGED process
  /\ UNCHANGED <<cursor, snapshots, actions, spent, wake, now, bounds>>

(* ResumeAfterWakeCognitionHandler: an answer is a canonical decision, or  *)
(* it is a failure.                                                        *)
Answer ==
  /\ pc = "called"
  /\ \E t \in Answered(Named) : tasks' = [tasks EXCEPT ![cursor.current] = t]
  /\ pc' = "refresh" /\ mode' = "settling" /\ UNCHANGED process
  /\ UNCHANGED <<cursor, snapshots, actions, spent, wake, now, bounds>>

(* The runtime refuses the result, and the Task stays as it is.            *)
AnswerRefused ==
  /\ pc = "called"
  /\ Fault
  /\ Unhealthy
  /\ UNCHANGED <<durable, now>>

-----------------------------------------------------------------------------
Progress ==
  \/ Boot \/ WaitDue
  \/ RefreshNotApplicable \/ RefreshBlocked \/ Retire \/ ResetRetired
  \/ ObserveBlocked \/ ObserveWaiting \/ BlockedByFailure \/ Settle
  \/ ObserveNotDue \/ ObserveBudget \/ Freeze
  \/ ResumeRolledBack \/ ResumeBlocked \/ Resume
  \/ RecordSubmit \/ RecordStart \/ RecordFinish \/ RecordDuplicate
  \/ RecordNotStartable \/ RecordFailed
  \/ ClaimDuplicate \/ ClaimRefused \/ ClaimSubmit \/ Name
  \/ GateCloses \/ StartCognition \/ Consume \/ Call \/ Declined \/ Answer

Next ==
  \/ Progress
  \/ Tick \/ ClockSetBack \/ WakeMoves \/ OtherSpends
  \/ CancelTask \/ CancelSnapshot \/ PrepareTool \/ OneShotTool \/ ObserveTool
  \/ WaitInterrupted
  \/ Seed \/ Crash \/ Unavailable \/ AnswerRefused

Spec     == Init /\ [][Next]_vars
FairSpec == Spec /\ WF_vars(Progress) /\ WF_vars(Tick)
=============================================================================
