-------------------------- MODULE LocalActivityPulse --------------------------
(***************************************************************************)
(* The local activity pulse: at most MaxGeneration observations of the     *)
(* agent's own evidence, a cadence apart, that call no provider.           *)
(*                                                                         *)
(* One sidecar row, the cursor, says how far the pulse has come.  A        *)
(* generation that is due is admitted by freezing its capture time and the *)
(* identity of its Task in the cursor; only then is the Task submitted,    *)
(* executed and settled, each in a write of its own, in another database   *)
(* than the cursor's.  The process may die between any two of these writes *)
(* (Crash), and a restart goes on from what it finds.  The deadline is     *)
(* armed again from the cursor, in memory, after every step.               *)
(*                                                                         *)
(* A Task's identity hashes its opportunity: generation, due time and      *)
(* predecessor.  Here it is the sequence of the due times so far, whose    *)
(* length is the generation.  The cursor's revision is left out: the seed  *)
(* tool and the service hold the same state lock, so no one else replaces  *)
(* the row between a read and a write.                                     *)
(*                                                                         *)
(* The pulse is anchored in a checkpoint, which an operator makes before   *)
(* the seed (ContinuityCheckpoint): the evidence it records has to hold    *)
(* for as long as the pulse observes.                                      *)
(***************************************************************************)
EXTENDS ContinuityCheckpoint, Sequences, FiniteSets

CONSTANTS
  Cadence,          \* local_activity_pulse_cadence_ms
  MaxGeneration,    \* three in the code
  NoTime, NoCursor,
  Foreign           \* any other Task definition under an observation's id

ASSUME PulseAssumption ==
  /\ {Cadence, MaxGeneration, MaxAttempts, MaxRuntime} \subseteq Nat \ {0}
  /\ {MaxTime, MaxFaults, MaxDisturbances} \subseteq Nat
  /\ NoTime \notin Nat

Ids   == UNION {[1 .. g -> 0 .. MaxTime + Cadence] : g \in 0 .. MaxGeneration}

State     == {"idle", "preparing", "settled", "quiescent", "blocked"}

(* The bounded observation, Task input and result alike.                   *)
Facts   == [id : Ids, captured : Times, evidence : Evidence]

Cursor == [state : State, id : Ids, due : 0 .. MaxTime + Cadence,
           captured : Times \cup {NoTime}, result : Facts \cup {NoTime}]
Task   == [input : Facts \cup {Foreign}, status : Status,
           attempts : 0 .. MaxAttempts, until : Nat]

(* Nothing is not a record, nor a Task of another definition an observation. *)
ASSUME NamesAssumption ==
  NoCursor \notin Cursor /\ NoCheckpoint \notin Checkpoint /\ Foreign \notin Facts

VARIABLES
  cursor, tasks,             \* durable: the sidecar, and observation Tasks
  pc, booting,               \* the service's thread, and its first step
  monitoring, armed,         \* in memory: step again; the earliest deadline
  view, refused              \* the status tool: the cursor it has read, and
                             \* whether it has refused to report

durable == <<cursor, tasks, evidence, checkpointVars>>
others  == <<evidence, checkpointVars>>
service == <<pc, booting, monitoring, armed>>
reader  == <<view, refused>>
pulse   == <<cursor, tasks, service, reader>>
vars    == <<audited, evidence, checkpoint, step, now, cursor, tasks, pc, booting,
             monitoring, armed, view, refused, faults, disturbances>>

Pc == {"down", "observe", "prepare", "execute", "handle", "settle", "arm",
       "loop"}

TypeOK ==
  /\ cursor \in Cursor \cup {NoCursor}
  /\ DOMAIN tasks \subseteq Ids
  /\ \A id \in DOMAIN tasks : tasks[id] \in Task
  /\ CheckpointTypeOK
  /\ pc \in Pc /\ booting \in BOOLEAN /\ monitoring \in BOOLEAN
  /\ armed \in Nat \cup {NoTime}
  /\ view \in Cursor \cup {NoCursor}
  /\ refused \in BOOLEAN

Init ==
  /\ CheckpointInit
  /\ cursor = NoCursor /\ tasks = <<>>
  /\ pc = "down" /\ booting = FALSE /\ monitoring = FALSE /\ armed = NoTime
  /\ view = NoCursor /\ refused = FALSE

Generation(c) == Len(c.id)

(* The opportunity's fields agree with each other, as every reader of an   *)
(* observation checks again.                                               *)
Opportunity(id) == Len(id) \in 1 .. MaxGeneration
Canonical(f) ==
  f # Foreign /\ Opportunity(f.id) /\ f.captured >= f.id[Len(f.id)]
CanonicalSuccess(task) == task.status = "succeeded" /\ Canonical(task.input)

-----------------------------------------------------------------------------
(* What the sidecar accepts.                                               *)

Admitted(c) ==
  Opportunity(c.id) /\ c.captured # NoTime /\ c.due = c.id[Len(c.id)]

ValidCursor(c) ==
  /\ Generation(c) <= MaxGeneration
  /\ c.captured # NoTime => c.captured >= c.due
  /\ \/ c.state = "idle" /\ c.id = <<>> /\ c.captured = NoTime
     \/ c.state = "preparing" /\ Admitted(c) /\ c.result = NoTime
     \/ /\ c.state = IF Generation(c) < MaxGeneration
                      THEN "settled" ELSE "quiescent"
        /\ Admitted(c) /\ c.result # NoTime
     \/ c.state = "blocked" /\ (Admitted(c) \/ c.captured = NoTime)

SameOpportunity(old, new) ==
  new.id = old.id /\ new.due = old.due /\ new.captured = old.captured

ValidTransition(old, new) ==
  /\ ValidCursor(old) /\ ValidCursor(new)
  /\ \/ /\ old.state = "idle" /\ new.due = old.due
        /\ \/ new.state = "preparing" /\ Generation(new) = 1
           \/ new.state = "blocked" /\ Generation(new) = 0
     \/ /\ old.state = "preparing" /\ SameOpportunity(old, new)
        /\ \/ new.state \in {"settled", "quiescent"}
           \/ new.state = "blocked" /\ new.result = old.result
     \/ /\ old.state = "settled" /\ new.state = "preparing"
        /\ new.id = Append(old.id, old.captured + Cadence)
     \/ /\ old.state \in {"settled", "blocked"} /\ new.state = "blocked"
        /\ SameOpportunity(old, new) /\ new.result = old.result

Replace(new) == ValidTransition(cursor, new) /\ cursor' = new

-----------------------------------------------------------------------------
(* The scheduler keeps the earliest deadline that was asked for.           *)

Earlier(a, b) ==
  IF a = NoTime THEN b ELSE IF b = NoTime THEN a ELSE IF a < b THEN a ELSE b

(* inspect_local_activity_pulse_deadline                                   *)
Deadline(c) ==
  CASE c.state = "idle"      -> c.due
    [] c.state = "preparing" -> IF c.due < c.captured THEN c.captured ELSE c.due
    [] c.state = "settled"   -> c.captured + Cadence
    [] OTHER                 -> NoTime

(* A new Task is added to the store.                                       *)
Stored(id, task) ==
  tasks' = [i \in DOMAIN tasks \cup {id} |-> IF i = id THEN task ELSE tasks[i]]

InFlight(id) == tasks[id].status \in {"running", "cancel_requested"}
Leases == {tasks[id].until : id \in {i \in DOMAIN tasks : InFlight(i)}}
FirstLease ==
  IF Leases = {} THEN NoTime
  ELSE CHOOSE t \in Leases : \A u \in Leases : t <= u

RecoverExpired ==
  tasks' \in {f \in [DOMAIN tasks -> UNION {Recovered(tasks[i]) :
                                              i \in DOMAIN tasks}] :
                \A i \in DOMAIN tasks : f[i] \in Recovered(tasks[i])}

-----------------------------------------------------------------------------
(* The environment.                                                        *)

Tick ==
  /\ now < MaxTime /\ now' = now + 1
  /\ UNCHANGED <<durable, service, reader, bounds>>

ClockSetBack ==
  /\ now > 0 /\ now' = now - 1
  /\ Disturb
  /\ UNCHANGED <<durable, service, reader>>

(* A provider call, or an explicit wake, of another part of the agent: the *)
(* service runs it between two steps, a tool while the service is down.    *)
Unlocked == pc = "down" /\ step = "off"
EvidenceMoves ==
  /\ Unlocked \/ pc = "loop"
  /\ \E field \in {"spent", "wake"} :
       evidence' = [evidence EXCEPT ![field] = @ + 1]
  /\ Disturb
  /\ UNCHANGED <<checkpointVars, now, pulse>>

(* Somebody submits a Task of another definition under the identity of the *)
(* generation that is admitted, or is about to be.                         *)
Next1(c) == IF c.state = "settled" THEN Append(c.id, c.captured + Cadence)
            ELSE IF c.state = "idle" THEN <<c.due>> ELSE c.id
ForeignTask ==
  /\ Unlocked \/ pc = "loop"
  /\ cursor # NoCursor
  /\ Next1(cursor) \notin DOMAIN tasks
  /\ \E s \in {"pending", "succeeded"} :
       Stored(Next1(cursor),
              [input |-> Foreign, status |-> s, attempts |-> 0, until |-> 0])
  /\ Disturb
  /\ UNCHANGED <<cursor, others, now, service, reader>>

(* The cancel command of the offline tool, which recovers first.           *)
CancelTask(id) ==
  /\ Unlocked
  /\ id \in DOMAIN tasks
  /\ \E task \in Recovered(tasks[id]) :
       /\ task.status \in {"pending", "running"}
       /\ tasks' = [tasks EXCEPT ![id] = Cancelled(task)]
  /\ Disturb
  /\ UNCHANGED <<cursor, others, now, service, reader>>

-----------------------------------------------------------------------------
(* The seed tool.                                                          *)

Seed_Unfinished ==  \* mutant
  /\ Unlocked
  /\ checkpoint # NoCheckpoint /\ cursor = NoCursor
  /\ cursor' = [state |-> "idle", id |-> <<>>, due |-> now + Cadence,
                captured |-> NoTime, result |-> NoTime]
  /\ UNCHANGED <<tasks, others, now, service, reader, bounds>>
(* The tool takes the lock and wants the checkpoint completed.             *)
SeedTool == Unlocked /\ CanonicalCheckpoint
Seed ==
  /\ SeedTool
  /\ cursor = NoCursor
  /\ cursor' = [state |-> "idle", id |-> <<>>, due |-> now + Cadence,
                captured |-> NoTime, result |-> NoTime]
  /\ ValidCursor(cursor')
  /\ UNCHANGED <<tasks, others, now, service, reader, bounds>>

-----------------------------------------------------------------------------
(* The checkpoint program, and the cognition it audits.                    *)

Audit  == (Unlocked \/ pc = "loop") /\ AuditedEnds /\ UNCHANGED pulse
Checkpointed == CheckpointRuns /\ UNCHANGED pulse

(* It recovers the observations with the checkpoint.                       *)
Begin ==
  /\ Unlocked
  /\ BeginCheckpoint
  /\ RecoverExpired
  /\ UNCHANGED <<cursor, service, reader>>

-----------------------------------------------------------------------------
(* The process: start, stop and the loop around the pulse.                 *)

Eligible == cursor # NoCursor /\ ValidCursor(cursor)

(* main wants a seeded sidecar, recovers, arms the leases and takes a      *)
(* first step of the pulse, which must be healthy.                         *)
Boot ==
  /\ Unlocked /\ Eligible
  /\ RecoverExpired
  /\ pc' = "observe" /\ booting' = TRUE /\ monitoring' = FALSE
  /\ armed' = now
  /\ UNCHANGED <<cursor, others, now, reader, bounds>>

Down == pc' = "down" /\ booting' = FALSE /\ monitoring' = FALSE /\ armed' = NoTime
Crash ==
  /\ pc # "down"
  /\ Down
  /\ Fault
  /\ UNCHANGED <<durable, now, reader>>

(* wait_and_run returns: a deadline has come, or a client interrupted it.  *)
AfterWait == pc' = IF monitoring THEN "observe" ELSE "loop"
WaitDue ==
  /\ pc = "loop"
  /\ armed # NoTime /\ armed <= now
  /\ RecoverExpired
  /\ armed' = FirstLease'
  /\ AfterWait
  /\ UNCHANGED <<cursor, others, now, booting, monitoring, reader, bounds>>
WaitInterrupted ==
  /\ pc = "loop" /\ monitoring
  /\ AfterWait
  /\ Disturb
  /\ UNCHANGED <<durable, now, booting, monitoring, armed, reader>>

(* LocalActivityPulseService::step, by what observe returned.              *)
Unhealthy ==
  IF booting THEN Down
  ELSE pc' = "loop" /\ monitoring' = FALSE /\ UNCHANGED <<booting, armed>>
Healthy == pc' = "arm" /\ UNCHANGED <<booting, monitoring, armed>>

Arm ==
  /\ pc = "arm" /\ pc' = "loop" /\ booting' = FALSE
  /\ monitoring' = (Deadline(cursor) # NoTime)
  /\ armed' = Earlier(armed, Deadline(cursor))
  /\ UNCHANGED <<durable, now, reader, bounds>>

-----------------------------------------------------------------------------
(* observe                                                                 *)

(* A store that throws ends the step, and with it the monitoring.          *)
Unavailable ==
  /\ pc \in {"observe", "prepare", "execute", "settle"}
  /\ Fault
  /\ Unhealthy
  /\ UNCHANGED <<durable, now, reader>>

Block ==
  /\ Replace([cursor EXCEPT !.state = "blocked"])
  /\ Unhealthy
  /\ UNCHANGED <<tasks, others, now, reader, bounds>>

(* The clock stands before a time the cursor has recorded.                 *)
RolledBack(c) ==
  \/ now + Cadence < IF c.id = <<>> THEN c.due ELSE c.id[1]
  \/ c.captured # NoTime /\ now < c.captured

ObserveTerminal ==
  /\ pc = "observe"
  /\ \/ cursor.state = "blocked" /\ Unhealthy
     \/ cursor.state = "quiescent" /\ Healthy
     \/ /\ cursor.state \notin {"blocked", "quiescent"}
        /\ RolledBack(cursor) /\ Unhealthy
  /\ UNCHANGED <<durable, now, reader, bounds>>

Observing(states) ==
  pc = "observe" /\ cursor.state \in states /\ ~RolledBack(cursor)

ObserveNotDue ==
  /\ Observing({"idle", "settled"})
  /\ now < Deadline(cursor)
  /\ Healthy
  /\ UNCHANGED <<durable, now, reader, bounds>>

(* The opportunity is frozen: one observation however late it is.          *)
Preparing_CatchesUp(c) ==  \* mutant
  [state |-> "preparing", id |-> Next1(c), due |-> Deadline(c),
   captured |-> Deadline(c), result |-> NoTime]
Preparing(c) ==
  [state |-> "preparing", id |-> Next1(c), due |-> Deadline(c),
   captured |-> now, result |-> NoTime]
Admit ==
  /\ Observing({"idle", "settled"})
  /\ now >= Deadline(cursor)
  /\ Replace(Preparing(cursor))
  /\ pc' = "prepare"
  /\ UNCHANGED <<tasks, others, now, booting, monitoring, armed, reader,
                 bounds>>

Resume ==
  /\ Observing({"preparing"})
  /\ pc' = "prepare"
  /\ UNCHANGED <<durable, now, booting, monitoring, armed, reader, bounds>>

(* capture_facts: the capture time is the cursor's, the evidence is read   *)
(* now and must still be the anchor's.                                     *)
Captured_Anew(c) ==  \* mutant
  [id |-> c.id, captured |-> now, evidence |-> evidence]
Captured(c) == [id |-> c.id, captured |-> c.captured, evidence |-> evidence]
EvidenceHolds == CanonicalCheckpoint /\ evidence = checkpoint.facts

Exists   == cursor.id \in DOMAIN tasks
Own      == Exists /\ tasks[cursor.id].input = Captured(cursor)

(* make_local_continuity_observation_task                                  *)
Observation(c) ==
  [input |-> Captured(c), status |-> "pending", attempts |-> 0, until |-> 0]

BlockedByEvidence ==
  /\ pc = "prepare"
  /\ ~EvidenceHolds
  /\ Block

BlockedByConflict ==
  /\ pc = "prepare" /\ EvidenceHolds
  /\ Exists /\ ~Own
  /\ Block

Submit ==
  /\ pc = "prepare" /\ EvidenceHolds
  /\ ~Exists
  /\ Stored(cursor.id, Observation(cursor))
  /\ pc' = "execute"
  /\ UNCHANGED <<cursor, others, now, booting, monitoring, armed, reader,
                 bounds>>

Adopt_TerminalOnly ==  \* mutant
  /\ pc = "prepare" /\ EvidenceHolds
  /\ Own /\ tasks[cursor.id].status \in Terminal
  /\ pc' = "settle"
  /\ UNCHANGED <<durable, now, booting, monitoring, armed, reader, bounds>>
Adopt ==
  /\ pc = "prepare" /\ EvidenceHolds
  /\ Own
  /\ pc' = IF tasks[cursor.id].status \in Terminal THEN "settle" ELSE "execute"
  /\ UNCHANGED <<durable, now, booting, monitoring, armed, reader, bounds>>

(* TaskExecutor: Runtime::start takes a pending Task only.                 *)
NotStartable ==
  /\ pc = "execute"
  /\ tasks[cursor.id].status # "pending"
  /\ Healthy
  /\ UNCHANGED <<durable, now, reader, bounds>>

Start ==
  /\ pc = "execute"
  /\ tasks[cursor.id].status = "pending"
  /\ tasks' = [tasks EXCEPT ![cursor.id] =
                 [tasks[cursor.id] EXCEPT !.status = "running",
                    !.attempts = @ + 1, !.until = Lease]]
  /\ pc' = "handle"
  /\ UNCHANGED <<cursor, others, now, booting, monitoring, armed, reader,
                 bounds>>

(* LocalContinuityObservationHandler: its input is canonical, its result   *)
(* is its input.                                                           *)
Handle ==
  /\ pc = "handle"
  /\ tasks' = [tasks EXCEPT ![cursor.id].status =
                 IF Canonical(tasks[cursor.id].input)
                   THEN "succeeded" ELSE "failed"]
  /\ pc' = "settle"
  /\ UNCHANGED <<cursor, others, now, booting, monitoring, armed, reader,
                 bounds>>

(* The runtime refuses the result: a state conflict blocks the cursor.     *)
HandleRefused ==
  /\ pc = "handle"
  /\ Fault
  /\ Replace([cursor EXCEPT !.state = "blocked"])
  /\ Unhealthy
  /\ UNCHANGED <<tasks, others, now, reader>>

Settled(c) ==
  [c EXCEPT !.state = IF Generation(c) = MaxGeneration
                        THEN "quiescent" ELSE "settled",
            !.result = tasks[c.id].input]
Settle ==
  /\ pc = "settle"
  /\ CanonicalSuccess(tasks[cursor.id])
  /\ Replace(Settled(cursor))
  /\ Healthy
  /\ UNCHANGED <<tasks, others, now, reader, bounds>>

BlockedByFailure ==
  /\ pc = "settle"
  /\ ~CanonicalSuccess(tasks[cursor.id])
  /\ Block

-----------------------------------------------------------------------------
(* The status tool reads the sidecar and then the Tasks, without the lock. *)

StatusReadsCursor ==
  /\ view = NoCursor /\ cursor # NoCursor /\ ~refused
  /\ view' = cursor
  /\ UNCHANGED <<durable, now, service, refused, bounds>>

MatchesCursor(c) ==
  /\ Canonical(tasks[c.id].input)
  /\ tasks[c.id].input.captured = c.captured
Refused(c) ==
  \/ /\ c.id \in DOMAIN tasks
     /\ \/ ~MatchesCursor(c)
        \/ tasks[c.id].status \in Terminal /\ ~CanonicalSuccess(tasks[c.id])
        \/ tasks[c.id].status = "succeeded"
             /\ c.result \notin {NoTime, tasks[c.id].input}
  \/ /\ c.state \in {"settled", "quiescent"}
     /\ \/ c.id \notin DOMAIN tasks
        \/ tasks[c.id].status # "succeeded"

StatusReadsTask_CurrentRow ==  \* mutant
  /\ view # NoCursor /\ view' = NoCursor
  /\ refused' = Refused([view EXCEPT !.id = cursor.id])
  /\ UNCHANGED <<durable, now, service, bounds>>
StatusReadsTask ==
  /\ view # NoCursor /\ view' = NoCursor
  /\ refused' = Refused(view)
  /\ UNCHANGED <<durable, now, service, bounds>>

-----------------------------------------------------------------------------
Next ==
  \/ Audit \/ Begin \/ Checkpointed
  \/ CheckpointDies /\ UNCHANGED pulse
  \/ Unlocked /\ CancelCheckpoint /\ UNCHANGED pulse
  \/ Tick \/ ClockSetBack \/ EvidenceMoves \/ ForeignTask
  \/ \E id \in DOMAIN tasks : CancelTask(id)
  \/ Seed \/ Boot \/ Crash
  \/ WaitDue \/ WaitInterrupted \/ Arm
  \/ Unavailable \/ ObserveTerminal \/ ObserveNotDue \/ Admit \/ Resume
  \/ BlockedByEvidence \/ BlockedByConflict \/ Submit \/ Adopt
  \/ NotStartable \/ Start \/ Handle \/ HandleRefused \/ Settle
  \/ BlockedByFailure
  \/ StatusReadsCursor \/ StatusReadsTask

Progress ==
  \/ Checkpointed
  \/ Boot \/ WaitDue \/ Arm
  \/ ObserveTerminal \/ ObserveNotDue \/ Admit \/ Resume
  \/ BlockedByEvidence \/ BlockedByConflict \/ Submit \/ Adopt
  \/ NotStartable \/ Start \/ Handle \/ Settle \/ BlockedByFailure

Spec     == Init /\ [][Next]_vars
FairSpec == Spec /\ WF_vars(Progress) /\ WF_vars(Tick)
=============================================================================
