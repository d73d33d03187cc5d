-------------------------- MODULE GooseCycleProofs --------------------------
(***************************************************************************)
(* Type correctness of the Local Goose cycle, that a stimulus re-arms it   *)
(* once, that its Tasks form one chain, that it implements GoosePromise    *)
(* and that it runs when it was asked to, for any number of stimuli,       *)
(* models, revisions, attempts and faults.                                 *)
(***************************************************************************)
EXTENDS GooseCycleProperties, TLAPS

USE BoundsAssumption, NamesAssumption, NoTaskAssumption

(* The types, one store or thread at a time, with what makes them last: a  *)
(* generation costs at least one revision, a cursor that is scheduled or   *)
(* prepared knows its deadline or its Task, a pending Task has an attempt  *)
(* left, a handler has its Task, and a reconciliation its stimulus.        *)
CursorInv ==
  /\ cursor \in Cursor
  /\ cursor.generation <= cursor.revision
  /\ cursor.state = "scheduled" => cursor.due \in Time
  /\ cursor.state = "prepared" => cursor.task \in Opportunity
TasksInv ==
  /\ DOMAIN tasks \subseteq Opportunity
  /\ \A t \in DOMAIN tasks :
       /\ tasks[t] \in TaskRecord
       /\ tasks[t].status = "pending" => tasks[t].attempts < MaxAttempts
ClockInv ==
  /\ now \in Time /\ model \in Models /\ settledAt \in Time
  /\ crashes \in 0 .. MaxFaults /\ failures \in 0 .. MaxFaults
LedgerInv ==
  /\ stimuli \in [Sources -> Stimulus]
  /\ rearms \subseteq Sources \X Revision
ControlInv ==
  /\ pc \in WorkerPoints /\ point \in StepPoints
  /\ serving \in Sources \cup {NoSource}
  /\ back \in {"boot", "top", "handle"}
  /\ asked \in Sources \cup {NoSource}
  /\ monitoring \in BOOLEAN /\ interrupted \in BOOLEAN
  /\ armed \in BOOLEAN /\ overdue \in BOOLEAN /\ stopping \in BOOLEAN
Handling == pc = "handle" \/ (pc \in {"rearm", "mark"} /\ back = "handle")
PlaceInv ==
  /\ Handling => cursor.task \in DOMAIN tasks
  /\ pc \in {"rearm", "mark"} => serving \in Sources

GooseInv ==
  CursorInv /\ TasksInv /\ ClockInv /\ LedgerInv /\ ControlInv /\ PlaceInv

(* What ties a stimulus to the revision it re-arms.  The cursor of a       *)
(* revision that an accepted stimulus targets is asleep, one of them is    *)
(* accepted at a time, and so only that one can make the revision behind.  *)
IsAccepted(s) == stimuli[s].status = "accepted"
TargetInv ==
  /\ cursor.generation = 0 =>
       /\ cursor.state = "dormant" /\ cursor.revision = 0
       /\ \A s \in Sources : ~Known(s)
  /\ \A s \in Sources : Known(s) => stimuli[s].revision <= cursor.revision
  /\ \A s \in Sources :
       IsAccepted(s) /\ stimuli[s].revision = cursor.revision
         => cursor.state = "dormant" /\ cursor.generation >= 2
  /\ \A s, u \in Sources :
       IsAccepted(s) /\ IsAccepted(u)
         /\ stimuli[s].revision = stimuli[u].revision => s = u
RearmInv ==
  /\ \A r \in rearms :
       /\ Known(r[1]) /\ r[2] = stimuli[r[1]].revision + 1
       /\ r[2] <= cursor.revision
  /\ \A r, q \in rearms : r[2] = q[2] => r[1] = q[1]
  /\ \A s \in Sources :
       /\ IsAccepted(s) /\ cursor.revision = stimuli[s].revision + 1
         /\ cursor.state = "scheduled" => <<s, cursor.revision>> \in rearms
       /\ stimuli[s].status = "consumed" \/ (pc = "mark" /\ serving = s)
            => <<s, stimuli[s].revision + 1>> \in rearms

(* Goose runs for a prepared opportunity, so nothing re-arms meanwhile.    *)
BusyInv == Handling => cursor.state = "prepared"

StimulusInv == GooseInv /\ BusyInv /\ TargetInv /\ RearmInv

-----------------------------------------------------------------------------
USE DEF Time, Revision, StepPoints, WorkerPoints, CycleState, InFlight,
        Terminal, Submitted, IsAccepted, Known, durableVars, envVars,
        historyVars, memoryVars

LEMMA InitGoose == Init => GooseInv
  <1> SUFFICES ASSUME Init
               PROVE  GooseInv
    OBVIOUS
  <1>1. CursorInv
    BY DEF Init, CursorInv, Cursor
  <1>2. TasksInv
    BY DEF Init, TasksInv
  <1>3. LedgerInv
    BY DEF Init, LedgerInv, Stimulus
  <1>4. ClockInv
    BY DEF Init, ClockInv
  <1>5. ControlInv
    BY DEF Init, ControlInv
  <1>6. PlaceInv
    BY DEF Init, PlaceInv, Handling
  <1>7. QED
    BY <1>1, <1>2, <1>3, <1>4, <1>5, <1>6 DEF GooseInv

LEMMA GooseTypes == GooseInv => TypeOK
  BY DEF GooseInv, CursorInv, TasksInv, ClockInv, LedgerInv, ControlInv, TypeOK

(* Works and Fails keep the bound on failures.                             *)
LEMMA FailuresOk ==
  ASSUME ClockInv, Works \/ Fails
  PROVE  failures' \in 0 .. MaxFaults
  BY DEF ClockInv, Works, Fails

(* How a step ends: in the loop or in a dead process, with sound memory.   *)
LEMMA MemoryLostOk ==
  ASSUME ControlInv, MemoryLost, pc' \in WorkerPoints, UNCHANGED overdue
  PROVE  ControlInv'
  BY DEF ControlInv, MemoryLost

LEMMA ArmOk ==
  ASSUME ControlInv, Arm
  PROVE  armed' \in BOOLEAN
  BY DEF ControlInv, Arm

LEMMA HealthyOk ==
  ASSUME ControlInv, NEW from \in StepPoints, NEW active \in BOOLEAN,
         NEW immediate \in BOOLEAN, Healthy(from, active, immediate),
         UNCHANGED overdue
  PROVE  ControlInv' /\ pc' \in {"wait", "top"}
  <1>1. armed' \in BOOLEAN
    BY ArmOk DEF Healthy
  <1>2. monitoring' \in BOOLEAN
    BY DEF Healthy
  <1>3. interrupted' \in BOOLEAN
    BY DEF Healthy, ControlInv
  <1>4. pc' \in {"wait", "top"} /\ UNCHANGED <<point, serving, back, asked, stopping>>
    BY DEF Healthy
  <1>5. QED
    BY <1>1, <1>2, <1>3, <1>4 DEF ControlInv

LEMMA UnhealthyOk ==
  ASSUME ControlInv, NEW from \in StepPoints, Unhealthy(from),
         UNCHANGED overdue
  PROVE  ControlInv' /\ pc' \in {"down", "top"}
  <1>1. CASE from = "first"
    BY <1>1, MemoryLostOk DEF Unhealthy
  <1>2. CASE from # "first"
    <2>1. armed' \in BOOLEAN
      BY <1>2, ArmOk DEF Unhealthy
    <2>2. stopping' \in BOOLEAN
      BY <1>2 DEF Unhealthy, ControlInv
    <2>3. monitoring' = FALSE /\ pc' = "top"
          /\ UNCHANGED <<point, serving, back, asked, interrupted>>
      BY <1>2 DEF Unhealthy
    <2>4. QED
      BY <2>1, <2>2, <2>3 DEF ControlInv
  <1>3. QED
    BY <1>1, <1>2

(* A replacement of the cursor happens, with a revision left, or not.      *)
LEMMA ReplaceOk ==
  ASSUME GooseInv, NEW from \in StepPoints, NEW new, NEW active \in BOOLEAN,
         NEW immediate \in BOOLEAN, Replace(from, new, active, immediate),
         UNCHANGED overdue
  PROVE  /\ ControlInv' /\ pc' \in {"wait", "top", "down"}
         /\ failures' \in 0 .. MaxFaults
         /\ \/ cursor' = cursor
            \/ cursor' = new /\ cursor.revision < MaxRevision
  <1>1. ControlInv /\ ClockInv
    BY DEF GooseInv
  <1>2. CASE /\ cursor.revision < MaxRevision
             /\ cursor' = new /\ Healthy(from, active, immediate) /\ Works
    BY <1>1, <1>2, HealthyOk, FailuresOk
  <1>3. CASE /\ cursor.revision = MaxRevision
             /\ UNCHANGED cursor /\ Unhealthy(from) /\ Works
    BY <1>1, <1>3, UnhealthyOk, FailuresOk
  <1>4. CASE /\ cursor.revision < MaxRevision
             /\ cursor' \in {cursor, new} /\ Unhealthy(from) /\ Fails
    BY <1>1, <1>4, UnhealthyOk, FailuresOk
  <1>5. QED
    BY <1>2, <1>3, <1>4 DEF Replace

(* What is left to show of a step of the cycle: the cursor, the Tasks.     *)
LEMMA StepFrame ==
  ASSUME GooseInv, StepUnchanged, ControlInv', CursorInv', TasksInv',
         pc' \in {"wait", "top", "down", "handle"},
         pc' = "handle" => cursor'.task \in DOMAIN tasks',
         failures' \in 0 .. MaxFaults, settledAt' \in Time
  PROVE  GooseInv'
  <1>1. ClockInv'
    BY DEF GooseInv, ClockInv, StepUnchanged
  <1>2. LedgerInv'
    BY DEF GooseInv, LedgerInv, StepUnchanged
  <1>3. PlaceInv'
    BY DEF PlaceInv, Handling
  <1>4. QED
    BY <1>1, <1>2, <1>3 DEF GooseInv

LEMMA SameCursor ==
  ASSUME CursorInv, UNCHANGED cursor
  PROVE  CursorInv'
  BY DEF CursorInv

LEMMA SameTasks ==
  ASSUME TasksInv, UNCHANGED tasks
  PROVE  TasksInv'
  BY DEF TasksInv

LEMMA BlockedOk ==
  ASSUME CursorInv, cursor' = Blocked, cursor.revision < MaxRevision
  PROVE  CursorInv'
  <1>1. /\ cursor.revision \in Nat /\ MaxRevision \in Nat
        /\ cursor.revision + 1 \in Revision
    BY DEF CursorInv, Cursor
  <1>2. Blocked \in Cursor
    BY <1>1 DEF CursorInv, Cursor, Blocked
  <1>3. /\ Blocked.revision = cursor.revision + 1
        /\ Blocked.generation = cursor.generation /\ Blocked.state = "blocked"
    BY DEF CursorInv, Cursor, Blocked
  <1>4. cursor.generation \in Nat /\ cursor.generation <= cursor.revision + 1
    BY <1>1 DEF CursorInv, Cursor
  <1>5. QED
    BY <1>2, <1>3, <1>4 DEF CursorInv

(* Steps that only look.                                                   *)
LEMMA IdleOk ==
  ASSUME GooseInv, StepIdle \/ StepNotDue \/ StepActive
  PROVE  GooseInv'
  <1>1. /\ pc \in StepPoints /\ UNCHANGED <<cursor, tasks, settledAt>>
        /\ StepUnchanged /\ Works
        /\ \E active \in BOOLEAN : Healthy(pc, active, FALSE)
    BY DEF StepIdle, StepNotDue, StepActive, PreparedStep
  <1>2. ControlInv' /\ pc' \in {"wait", "top"}
    BY <1>1, HealthyOk DEF GooseInv, StepUnchanged
  <1>3. CursorInv' /\ TasksInv'
    BY <1>1, SameCursor, SameTasks DEF GooseInv
  <1>4. settledAt' \in Time /\ failures' \in 0 .. MaxFaults
    BY <1>1, FailuresOk DEF GooseInv, ClockInv
  <1>5. QED
    BY <1>1, <1>2, <1>3, <1>4, StepFrame

LEMMA WriteBlockedOk ==
  ASSUME GooseInv, NEW from \in StepPoints, WriteBlocked(from),
         StepUnchanged
  PROVE  /\ ControlInv' /\ pc' \in {"wait", "top", "down"}
         /\ failures' \in 0 .. MaxFaults /\ CursorInv'
  <1>1. Replace(from, Blocked, FALSE, FALSE) /\ UNCHANGED overdue
    BY DEF WriteBlocked, StepUnchanged
  <1>2. /\ ControlInv' /\ pc' \in {"wait", "top", "down"}
        /\ failures' \in 0 .. MaxFaults
        /\ \/ cursor' = cursor
           \/ cursor' = Blocked /\ cursor.revision < MaxRevision
    BY <1>1, ReplaceOk
  <1>3. CursorInv'
    BY <1>2, SameCursor, BlockedOk DEF GooseInv
  <1>4. QED
    BY <1>2, <1>3

LEMMA PrepareOk ==
  ASSUME GooseInv, StepPrepare
  PROVE  GooseInv'
  <1>1. /\ pc \in StepPoints /\ cursor.state = "scheduled"
        /\ UNCHANGED <<tasks, settledAt>> /\ StepUnchanged
    BY DEF StepPrepare
  <1>2. TasksInv' /\ settledAt' \in Time
    BY <1>1, SameTasks DEF GooseInv, ClockInv
  <1>3. /\ ControlInv' /\ pc' \in {"wait", "top", "down"}
        /\ failures' \in 0 .. MaxFaults /\ CursorInv'
    <2>1. CASE WriteBlocked(pc)
      BY <1>1, <2>1, WriteBlockedOk
    <2>2. CASE Replace(pc, Prepared, TRUE, TRUE)
      <3>1. /\ ControlInv' /\ pc' \in {"wait", "top", "down"}
            /\ failures' \in 0 .. MaxFaults
            /\ \/ cursor' = cursor
               \/ cursor' = Prepared /\ cursor.revision < MaxRevision
        BY <1>1, <2>2, ReplaceOk DEF StepUnchanged
      <3>2. CASE cursor' = Prepared /\ cursor.revision < MaxRevision
        <4>1. Captured \in Opportunity
          BY <1>1 DEF GooseInv, CursorInv, Cursor, ClockInv, Captured, Opportunity
        <4>2. /\ cursor \in Cursor /\ cursor.generation <= cursor.revision
              /\ cursor.revision + 1 \in Revision
          BY <3>2 DEF GooseInv, CursorInv, Cursor
        <4>3. Prepared \in Cursor
          BY <4>1, <4>2 DEF Cursor, Prepared
        <4>4. /\ Prepared.revision = cursor.revision + 1
              /\ Prepared.generation = cursor.generation
              /\ Prepared.state = "prepared" /\ Prepared.task = Captured
          BY <4>2 DEF Cursor, Prepared
        <4>5. CursorInv'
          BY <3>2, <4>1, <4>2, <4>3, <4>4 DEF CursorInv, Cursor
        <4>6. QED
          BY <3>1, <4>5
      <3>3. QED
        BY <3>1, <3>2, SameCursor DEF GooseInv
    <2>3. QED
      BY <2>1, <2>2 DEF StepPrepare
  <1>4. QED
    BY <1>1, <1>2, <1>3, StepFrame

LEMMA BlockingOk ==
  ASSUME GooseInv, StepDiffers \/ StepFailed
  PROVE  GooseInv'
  <1>1. /\ pc \in StepPoints /\ WriteBlocked(pc)
        /\ UNCHANGED <<tasks, settledAt>> /\ StepUnchanged
    BY DEF StepDiffers, StepFailed, PreparedStep
  <1>2. TasksInv' /\ settledAt' \in Time
    BY <1>1, SameTasks DEF GooseInv, ClockInv
  <1>3. QED
    BY <1>1, <1>2, WriteBlockedOk, StepFrame

-----------------------------------------------------------------------------
(* Steps that write the Task.                                              *)

LEMMA SetTaskOk ==
  ASSUME TasksInv, NEW t \in Opportunity, NEW record \in TaskRecord,
         record.status = "pending" => record.attempts < MaxAttempts,
         SetTask(t, record)
  PROVE  TasksInv' /\ DOMAIN tasks' = DOMAIN tasks \cup {t}
  <1>1. DOMAIN tasks' = DOMAIN tasks \cup {t}
    BY DEF SetTask
  <1>2. \A u \in DOMAIN tasks' :
          tasks'[u] = IF u = t THEN record ELSE tasks[u]
    BY DEF SetTask
  <1>3. ASSUME NEW u \in DOMAIN tasks'
        PROVE  /\ tasks'[u] \in TaskRecord
               /\ tasks'[u].status = "pending" => tasks'[u].attempts < MaxAttempts
    BY <1>1, <1>2, <1>3 DEF TasksInv
  <1>4. QED
    BY <1>1, <1>3 DEF TasksInv

LEMMA SubmitOk ==
  ASSUME GooseInv, StepSubmit
  PROVE  GooseInv'
  <1>1. /\ pc \in StepPoints /\ cursor.state = "prepared"
        /\ UNCHANGED <<cursor, settledAt>> /\ StepUnchanged
        /\ \E immediate \in BOOLEAN : Healthy(pc, TRUE, immediate)
        /\ Works \/ Fails
    BY DEF StepSubmit, PreparedStep
  <1>2. ControlInv' /\ pc' \in {"wait", "top"}
    BY <1>1, HealthyOk DEF GooseInv, StepUnchanged
  <1>3. /\ CursorInv' /\ settledAt' \in Time
        /\ failures' \in 0 .. MaxFaults
    BY <1>1, SameCursor, FailuresOk DEF GooseInv, ClockInv
  <1>4. TasksInv'
    <2> DEFINE record == [status |-> "pending", attempts |-> 0,
                          wake |-> NoWake, pred |-> cursor.pred]
    <2>1. UNCHANGED tasks \/ SetTask(cursor.task, record)
      BY DEF StepSubmit
    <2>2. record \in TaskRecord /\ record.attempts < MaxAttempts
      BY DEF GooseInv, CursorInv, Cursor, TaskRecord
    <2>3. cursor.task \in Opportunity
      BY <1>1 DEF GooseInv, CursorInv
    <2>4. QED
      BY <2>1, <2>2, <2>3, SameTasks, SetTaskOk DEF GooseInv
  <1>5. QED
    BY <1>1, <1>2, <1>3, <1>4, StepFrame

LEMMA NextDueOk ==
  ASSUME now \in Time, NEW wake \in Delays, ~Overflows(wake)
  PROVE  NextDue(wake) \in Time
  <1>1. wake \in Nat /\ wake # NoWake
    OBVIOUS
  <1>2. Larger(wake, MinDelay) \in Nat
    BY <1>1 DEF Larger
  <1>3. QED
    BY <1>1, <1>2 DEF Overflows, NextDue

LEMMA SettledOk ==
  ASSUME CursorInv, now \in Time, NEW wake \in Delays \cup {NoWake},
         ~Overflows(wake), cursor.revision < MaxRevision,
         cursor' = Settled(wake)
  PROVE  CursorInv'
  <1>1. /\ cursor.revision + 1 \in Revision /\ cursor.generation + 1 \in Revision
        /\ cursor.generation + 1 <= cursor.revision + 1
        /\ cursor.task \in Opportunity \cup {NoTask}
    BY DEF CursorInv, Cursor
  <1>2. CASE wake = NoWake
    BY <1>1, <1>2 DEF CursorInv, Cursor, Settled
  <1>3. CASE wake # NoWake
    <2>1. NextDue(wake) \in Time
      BY <1>3, NextDueOk
    <2>2. QED
      BY <1>1, <1>3, <2>1 DEF CursorInv, Cursor, Settled
  <1>4. QED
    BY <1>2, <1>3

LEMMA SettleOk ==
  ASSUME GooseInv, StepSettle
  PROVE  GooseInv'
  <1>1. /\ pc \in StepPoints /\ cursor.task \in DOMAIN tasks
        /\ UNCHANGED tasks /\ StepUnchanged
    BY DEF StepSettle, PreparedStep, Succeeded
  <1>2. TasksInv'
    BY <1>1, SameTasks DEF GooseInv
  <1>3. Current.wake \in Delays \cup {NoWake}
    BY <1>1 DEF GooseInv, TasksInv, TaskRecord, Current
  <1>4. now \in Time /\ settledAt \in Time
    BY DEF GooseInv, ClockInv
  <1>5. CASE Overflows(Current.wake)
    <2>1. WriteBlocked(pc) /\ UNCHANGED settledAt
      BY <1>5 DEF StepSettle
    <2>2. QED
      BY <1>1, <1>2, <1>4, <2>1, WriteBlockedOk, StepFrame
  <1>6. CASE ~Overflows(Current.wake)
    <2>1. /\ Replace(pc, Settled(Current.wake), Current.wake # NoWake, FALSE)
          /\ settledAt' = IF cursor' = cursor THEN settledAt ELSE now
      BY <1>6 DEF StepSettle
    <2>2. (Current.wake # NoWake) \in BOOLEAN
      OBVIOUS
    <2>3. /\ ControlInv' /\ pc' \in {"wait", "top", "down"}
          /\ failures' \in 0 .. MaxFaults
          /\ \/ cursor' = cursor
             \/ cursor' = Settled(Current.wake) /\ cursor.revision < MaxRevision
      BY <1>1, <2>1, <2>2, ReplaceOk DEF StepUnchanged
    <2>4. CursorInv'
      BY <1>3, <1>4, <1>6, <2>3, SameCursor, SettledOk DEF GooseInv
    <2>5. settledAt' \in Time
      BY <1>4, <2>1
    <2>6. QED
      BY <1>1, <1>2, <2>3, <2>4, <2>5, StepFrame
  <1>7. QED
    BY <1>5, <1>6

LEMMA ExecuteOk ==
  ASSUME GooseInv, StepExecute
  PROVE  GooseInv'
  <1>1. /\ pc \in StepPoints /\ cursor.task \in DOMAIN tasks
        /\ Current.status = "pending"
        /\ UNCHANGED <<cursor, settledAt>> /\ StepUnchanged
    BY DEF StepExecute, PreparedStep
  <1>2. CursorInv' /\ settledAt' \in Time
    BY <1>1, SameCursor DEF GooseInv, ClockInv
  <1>3. CASE UNCHANGED tasks /\ Healthy(pc, TRUE, FALSE) /\ Fails
    <2>1. ControlInv' /\ pc' \in {"wait", "top"}
      BY <1>1, <1>3, HealthyOk DEF GooseInv, StepUnchanged
    <2>2. TasksInv' /\ failures' \in 0 .. MaxFaults
      BY <1>3, SameTasks, FailuresOk DEF GooseInv
    <2>3. QED
      BY <1>1, <1>2, <2>1, <2>2, StepFrame
  <1>4. CASE /\ SetTask(cursor.task, [Current EXCEPT !.status = "running",
                                                    !.attempts = @ + 1])
             /\ pc' = "handle" /\ point' = pc /\ Works
             /\ UNCHANGED <<serving, back, asked, monitoring, interrupted, armed,
                            stopping>>
    <2> DEFINE record == [Current EXCEPT !.status = "running",
                                         !.attempts = Current.attempts + 1]
    <2>1. /\ Current \in TaskRecord /\ Current.attempts < MaxAttempts
          /\ cursor.task \in Opportunity
      BY <1>1 DEF GooseInv, TasksInv, Current
    <2>2. Current.attempts + 1 \in 0 .. MaxAttempts
      BY <2>1 DEF TaskRecord
    <2>3. record \in TaskRecord /\ record.status = "running"
      BY <2>1, <2>2 DEF TaskRecord
    <2>4. SetTask(cursor.task, record)
      BY <1>4
    <2>5. TasksInv' /\ DOMAIN tasks' = DOMAIN tasks \cup {cursor.task}
      BY <2>1, <2>3, <2>4, SetTaskOk DEF GooseInv
    <2>6. ControlInv'
      BY <1>1, <1>4 DEF GooseInv, ControlInv, StepUnchanged
    <2>7. failures' \in 0 .. MaxFaults
      BY <1>4, FailuresOk DEF GooseInv
    <2>8. cursor'.task \in DOMAIN tasks'
      BY <1>1, <2>5
    <2>9. QED
      BY <1>1, <1>2, <1>4, <2>5, <2>6, <2>7, <2>8, StepFrame
  <1>5. QED
    BY <1>3, <1>4 DEF StepExecute

LEMMA HandleEndsOk ==
  ASSUME GooseInv, HandleEnds
  PROVE  GooseInv'
  <1>1. /\ pc = "handle" /\ point \in StepPoints
        /\ UNCHANGED settledAt /\ StepUnchanged
    BY DEF HandleEnds, GooseInv, ControlInv
  <1>2. /\ cursor.task \in DOMAIN tasks /\ Current \in TaskRecord
        /\ cursor.task \in Opportunity /\ settledAt' \in Time
    BY <1>1 DEF GooseInv, PlaceInv, Handling, TasksInv, Current, ClockInv
  <1>3. CASE /\ \/ SetStatus(cursor.task, "failed")
                \/ \E wake \in Delays \cup {NoWake} :
                     SetTask(cursor.task, [Current EXCEPT !.status = "succeeded",
                                                          !.wake = wake])
             /\ UNCHANGED cursor /\ Healthy(point, TRUE, TRUE) /\ Works
    <2>1. ControlInv' /\ pc' \in {"wait", "top"}
      BY <1>1, <1>3, HealthyOk DEF GooseInv, StepUnchanged
    <2>2. CursorInv' /\ failures' \in 0 .. MaxFaults
      BY <1>3, SameCursor, FailuresOk DEF GooseInv
    <2>3. TasksInv'
      <3>1. CASE SetStatus(cursor.task, "failed")
        <4> DEFINE record == [Current EXCEPT !.status = "failed"]
        <4>1. record \in TaskRecord /\ record.status = "failed"
          BY <1>2 DEF TaskRecord
        <4>2. SetTask(cursor.task, record)
          BY <3>1 DEF SetStatus, Current
        <4>3. QED
          BY <1>2, <4>1, <4>2, SetTaskOk DEF GooseInv
      <3>2. ASSUME NEW wake \in Delays \cup {NoWake},
                   SetTask(cursor.task, [Current EXCEPT !.status = "succeeded",
                                                        !.wake = wake])
            PROVE  TasksInv'
        <4> DEFINE record == [Current EXCEPT !.status = "succeeded",
                                             !.wake = wake]
        <4>1. record \in TaskRecord /\ record.status = "succeeded"
          BY <1>2 DEF TaskRecord
        <4>2. QED
          BY <1>2, <3>2, <4>1, SetTaskOk DEF GooseInv
      <3>3. QED
        BY <1>3, <3>1, <3>2
    <2>4. QED
      BY <1>1, <1>2, <2>1, <2>2, <2>3, StepFrame
  <1>4. CASE /\ \/ /\ cursor.revision < MaxRevision
                   /\ cursor' = Blocked /\ Healthy(point, FALSE, FALSE)
                \/ UNCHANGED cursor /\ Unhealthy(point)
             /\ Fails
             /\ UNCHANGED tasks
    <2>1. ControlInv' /\ pc' \in {"wait", "top", "down"}
      BY <1>1, <1>4, HealthyOk, UnhealthyOk DEF GooseInv, StepUnchanged
    <2>2. CursorInv'
      BY <1>4, SameCursor, BlockedOk DEF GooseInv
    <2>3. TasksInv' /\ failures' \in 0 .. MaxFaults
      BY <1>4, SameTasks, FailuresOk DEF GooseInv
    <2>4. QED
      BY <1>1, <1>2, <2>1, <2>2, <2>3, StepFrame
  <1>5. QED
    BY <1>3, <1>4 DEF HandleEnds

-----------------------------------------------------------------------------
(* Reconciliation.                                                         *)

Callers == {"boot", "top", "handle"}

LEMMA ReturnOk ==
  ASSUME ControlInv, NEW to \in Callers, NEW settled \in BOOLEAN,
         Return(to, settled), UNCHANGED overdue,
         asked' \in Sources \cup {NoSource}
  PROVE  /\ ControlInv' /\ pc' \in {"boot", "down", "restep", "handle"}
         /\ pc' = "handle" => to = "handle"
  <1>1. interrupted' \in BOOLEAN
    BY DEF Return, ControlInv
  <1>2. /\ pc' \in {"boot", "down", "restep", "handle"}
        /\ pc' = "handle" => to = "handle"
    BY DEF Return, Callers
  <1>3. serving' = NoSource /\ back' = "boot"
        /\ UNCHANGED <<point, monitoring, armed, stopping>>
    BY DEF Return
  <1>4. QED
    BY <1>1, <1>2, <1>3 DEF ControlInv

(* What a verdict implies.                                                 *)
LEMMA VerdictOk ==
  ASSUME CursorInv, NEW s \in Sources, NEW observed
  PROVE  /\ Verdict(s, observed) \in
              {"manual_review", "consumed", "superseded", "rearm"}
         /\ Verdict(s, observed) = "consumed" => ExactlyRearmed(s)
         /\ Verdict(s, observed) = "rearm" =>
              /\ cursor.state = "dormant" /\ CanonicalPredecessor(cursor)
              /\ cursor.revision < MaxRevision
              /\ cursor.revision = stimuli[s].revision
  BY DEF Verdict, CursorInv, Cursor

(* What is left to show of a reconciliation: the cursor, the ledger and    *)
(* where it leads.                                                         *)
LEMMA ReconcileFrame ==
  ASSUME GooseInv, ReconcileUnchanged, CursorInv', LedgerInv', ControlInv',
         failures' \in 0 .. MaxFaults, cursor'.task = cursor.task,
         Handling' => cursor.task \in DOMAIN tasks,
         pc' \in {"rearm", "mark"} => serving' \in Sources
  PROVE  GooseInv'
  <1>1. ClockInv' /\ TasksInv'
    BY DEF GooseInv, ClockInv, TasksInv, ReconcileUnchanged
  <1>2. PlaceInv'
    BY DEF PlaceInv, ReconcileUnchanged
  <1>3. QED
    BY <1>1, <1>2 DEF GooseInv

LEMMA TerminalizeOk ==
  ASSUME GooseInv, NEW s \in Sources, NEW to \in Callers,
         NEW status \in {"manual_review", "consumed", "superseded"},
         Terminalize(s, status, to), ReconcileUnchanged,
         asked' \in Sources \cup {NoSource},
         to = "handle" => cursor.task \in DOMAIN tasks
  PROVE  GooseInv'
  <1>1. /\ UNCHANGED <<cursor, rearms>> /\ (Works \/ Fails)
        /\ stimuli' \in {stimuli, [stimuli EXCEPT ![s].status = status]}
    BY DEF Terminalize
  <1>2. Return(to, TRUE) \/ Return(to, FALSE)
    BY DEF Terminalize
  <1>3. /\ ControlInv' /\ pc' \in {"boot", "down", "restep", "handle"}
        /\ pc' = "handle" => to = "handle"
    BY <1>2, ReturnOk DEF GooseInv, ReconcileUnchanged
  <1>4. CursorInv' /\ cursor'.task = cursor.task
    BY <1>1, SameCursor DEF GooseInv
  <1>5. failures' \in 0 .. MaxFaults
    BY <1>1, FailuresOk DEF GooseInv
  <1>6. stimuli' \in [Sources -> Stimulus]
    <2>1. [stimuli[s] EXCEPT !.status = status] \in Stimulus
      BY DEF GooseInv, LedgerInv, Stimulus
    <2>2. [stimuli EXCEPT ![s].status = status] \in [Sources -> Stimulus]
      BY <2>1 DEF GooseInv, LedgerInv
    <2>3. QED
      BY <1>1, <2>2 DEF GooseInv, LedgerInv
  <1>7. LedgerInv'
    BY <1>1, <1>6 DEF GooseInv, LedgerInv, Stimulus
  <1>8. QED
    BY <1>3, <1>4, <1>5, <1>7, ReconcileFrame DEF Handling

LEMMA RearmedOk ==
  ASSUME CursorInv, LedgerInv, NEW s \in Sources, cursor.revision < MaxRevision,
         cursor' = Rearmed(s)
  PROVE  CursorInv' /\ cursor'.task = cursor.task
  <1>1. /\ cursor.revision + 1 \in Revision /\ stimuli[s].accepted \in Time
        /\ cursor \in Cursor /\ cursor.generation \in Nat
        /\ cursor.generation <= cursor.revision + 1
    BY DEF CursorInv, Cursor, LedgerInv, Stimulus
  <1>2. Rearmed(s) \in Cursor
    BY <1>1 DEF Cursor, Rearmed
  <1>3. /\ Rearmed(s).revision = cursor.revision + 1
        /\ Rearmed(s).generation = cursor.generation
        /\ Rearmed(s).state = "scheduled" /\ Rearmed(s).task = cursor.task
        /\ Rearmed(s).due = stimuli[s].accepted
    BY <1>1 DEF Cursor, Rearmed
  <1>4. QED
    BY <1>1, <1>2, <1>3 DEF CursorInv

LEMMA RearmCursorOk ==
  ASSUME GooseInv, NEW s \in Sources, NEW to \in Callers,
         cursor.revision < MaxRevision,
         RearmCursor(s, to), ReconcileUnchanged,
         asked' \in Sources \cup {NoSource},
         to = "handle" => cursor.task \in DOMAIN tasks
  PROVE  GooseInv'
  <1>1. /\ UNCHANGED stimuli /\ (Works \/ Fails)
        /\ cursor' \in {cursor, Rearmed(s)}
        /\ rearms' = IF cursor' = cursor THEN rearms
                     ELSE rearms \cup {<<s, cursor'.revision>>}
    BY DEF RearmCursor
  <1>2. CursorInv' /\ cursor'.task = cursor.task
    BY <1>1, SameCursor, RearmedOk DEF GooseInv
  <1>3. LedgerInv' /\ failures' \in 0 .. MaxFaults
    <2>1. cursor'.revision \in Revision
      BY <1>2 DEF CursorInv, Cursor
    <2>2. rearms' \subseteq Sources \X Revision
      BY <1>1, <2>1 DEF GooseInv, LedgerInv
    <2>3. LedgerInv'
      BY <1>1, <2>2 DEF GooseInv, LedgerInv, Stimulus
    <2>4. failures' \in 0 .. MaxFaults
      BY <1>1, FailuresOk DEF GooseInv
    <2>5. QED
      BY <2>3, <2>4
  <1>4. CASE /\ pc' = "mark" /\ serving' = s /\ back' = to
             /\ UNCHANGED <<point, monitoring, interrupted, armed, stopping>>
    <2>1. ControlInv'
      BY <1>4 DEF GooseInv, ControlInv, Callers, ReconcileUnchanged
    <2>2. QED
      BY <1>2, <1>3, <1>4, <2>1, ReconcileFrame DEF Handling
  <1>5. CASE Return(to, FALSE)
    <2>1. /\ ControlInv' /\ pc' \in {"boot", "down", "restep", "handle"}
          /\ pc' = "handle" => to = "handle"
      BY <1>5, ReturnOk DEF GooseInv, ReconcileUnchanged
    <2>2. QED
      BY <1>2, <1>3, <2>1, ReconcileFrame DEF Handling
  <1>6. QED
    BY <1>4, <1>5 DEF RearmCursor

LEMMA ReconcileOk ==
  ASSUME GooseInv, NEW s \in Sources, NEW observed, NEW to \in Callers,
         Reconcile(s, observed, to), ReconcileUnchanged,
         asked' \in Sources \cup {NoSource},
         to = "handle" => cursor.task \in DOMAIN tasks
  PROVE  GooseInv'
  <1>1. CASE stimuli[s].status # "accepted"
    <2>1. Return(to, TRUE) /\ Works /\ UNCHANGED <<cursor, stimuli, rearms>>
      BY <1>1 DEF Reconcile
    <2>2. /\ ControlInv' /\ pc' \in {"boot", "down", "restep", "handle"}
          /\ pc' = "handle" => to = "handle"
      BY <2>1, ReturnOk DEF GooseInv, ReconcileUnchanged
    <2>3. /\ CursorInv' /\ cursor'.task = cursor.task
          /\ LedgerInv' /\ failures' \in 0 .. MaxFaults
      BY <2>1, SameCursor, FailuresOk DEF GooseInv, LedgerInv
    <2>4. QED
      BY <2>2, <2>3, ReconcileFrame DEF Handling
  <1>2. CASE /\ stimuli[s].status = "accepted"
             /\ Verdict(s, observed) = "rearm"
    <2>1. RearmCursor(s, to)
      BY <1>2 DEF Reconcile
    <2>2. cursor.revision < MaxRevision
      BY <1>2, VerdictOk DEF GooseInv
    <2>3. QED
      BY <2>1, <2>2, RearmCursorOk
  <1>3. CASE /\ stimuli[s].status = "accepted"
             /\ Verdict(s, observed) # "rearm"
    <2>1. Terminalize(s, Verdict(s, observed), to)
      BY <1>3 DEF Reconcile
    <2>2. Verdict(s, observed) \in {"manual_review", "consumed", "superseded"}
      BY <1>3, VerdictOk DEF GooseInv
    <2>3. QED
      BY <2>1, <2>2, TerminalizeOk
  <1>4. QED
    BY <1>1, <1>2, <1>3

LEMMA StimulateOk ==
  ASSUME GooseInv, NEW s \in Sources, NEW from \in Callers,
         Stimulate(s, from), ReconcileUnchanged,
         asked' \in Sources \cup {NoSource},
         from = "handle" => cursor.task \in DOMAIN tasks
  PROVE  GooseInv'
  <1>1. CASE Reconcile(s, now, from)
    BY <1>1, ReconcileOk
  <1>2. CASE ~Reconcile(s, now, from)
    <2>1. /\ (Works \/ Fails) /\ UNCHANGED <<cursor, rearms>>
          /\ stimuli' \in {stimuli, [stimuli EXCEPT ![s] = Accepted]}
      BY <1>2 DEF Stimulate
    <2>2. CursorInv' /\ cursor'.task = cursor.task
          /\ failures' \in 0 .. MaxFaults
      BY <2>1, SameCursor, FailuresOk DEF GooseInv
    <2>3. Accepted \in Stimulus
      BY DEF GooseInv, CursorInv, Cursor, ClockInv, Accepted, Stimulus
    <2>4. LedgerInv'
      BY <2>1, <2>3 DEF GooseInv, LedgerInv
    <2>5. CASE Return(from, FALSE)
      <3>1. /\ ControlInv' /\ pc' \in {"boot", "down", "restep", "handle"}
            /\ pc' = "handle" => from = "handle"
        BY <2>5, ReturnOk DEF GooseInv, ReconcileUnchanged
      <3>2. QED
        BY <2>2, <2>4, <3>1, ReconcileFrame DEF Handling
    <2>6. CASE /\ pc' = "rearm" /\ serving' = s /\ back' = from
               /\ UNCHANGED <<point, monitoring, interrupted, armed, stopping>>
      <3>1. ControlInv'
        BY <2>6 DEF GooseInv, ControlInv, Callers, ReconcileUnchanged
      <3>2. QED
        BY <2>2, <2>4, <2>6, <3>1, ReconcileFrame DEF Handling
    <2>7. QED
      BY <1>2, <2>5, <2>6 DEF Stimulate
  <1>3. QED
    BY <1>1, <1>2

LEMMA ReconcilingOk ==
  ASSUME GooseInv, ReconcileAtBoot \/ Serve \/ Rearm \/ Mark
  PROVE  GooseInv'
  <1>1. asked \in Sources \cup {NoSource} /\ back \in Callers
    BY DEF GooseInv, ControlInv, Callers
  <1>2. CASE ReconcileAtBoot
    BY <1>1, <1>2, ReconcileOk DEF ReconcileAtBoot, Callers
  <1>3. CASE Serve
    <2>1. /\ asked \in Sources /\ asked' = NoSource /\ pc \in Callers
          /\ Stimulate(asked, pc) /\ ReconcileUnchanged
      BY <1>1, <1>3 DEF Serve, Callers
    <2>2. pc = "handle" => cursor.task \in DOMAIN tasks
      BY DEF GooseInv, PlaceInv, Handling
    <2>3. QED
      BY <2>1, <2>2, StimulateOk
  <1>4. CASE Rearm \/ Mark
    <2>1. /\ serving \in Sources /\ UNCHANGED asked /\ ReconcileUnchanged
          /\ back = "handle" => cursor.task \in DOMAIN tasks
      BY <1>4 DEF GooseInv, PlaceInv, Handling, Rearm, Mark
    <2>2. CASE Rearm
      BY <1>1, <2>1, <2>2, ReconcileOk DEF Rearm
    <2>3. CASE Mark
      BY <1>1, <2>1, <2>3, TerminalizeOk DEF Mark
    <2>4. QED
      BY <1>4, <2>2, <2>3
  <1>5. QED
    BY <1>2, <1>3, <1>4

-----------------------------------------------------------------------------
(* The loop and the world around it.                                       *)

(* Recovery gives back only Tasks with an attempt left.                    *)
LEMMA RecoverExpiredOk ==
  ASSUME GooseInv, RecoverExpired
  PROVE  TasksInv' /\ overdue' \in BOOLEAN /\ DOMAIN tasks' = DOMAIN tasks
  <1>1. CASE ~overdue
    BY <1>1, SameTasks DEF GooseInv, ControlInv, RecoverExpired
  <1>2. CASE overdue
    <2> DEFINE status(t, exhausted) ==
          IF tasks[t].status = "cancel_requested" THEN "cancelled"
          ELSE IF tasks[t].attempts < MaxAttempts THEN "pending"
          ELSE exhausted
    <2>1. PICK exhausted \in {"failed", "manual_review"} :
            tasks' = [t \in DOMAIN tasks |->
              IF t \notin Orphans THEN tasks[t]
              ELSE [tasks[t] EXCEPT !.status = status(t, exhausted)]]
      BY <1>2 DEF RecoverExpired
    <2>2. overdue' = FALSE
      BY <1>2 DEF RecoverExpired
    <2>3. DOMAIN tasks' = DOMAIN tasks
      BY <2>1
    <2>4. ASSUME NEW t \in DOMAIN tasks
          PROVE  /\ tasks'[t] \in TaskRecord
                 /\ tasks'[t].status = "pending" =>
                      tasks'[t].attempts < MaxAttempts
      <3>1. /\ tasks[t] \in TaskRecord
            /\ tasks[t].status = "pending" => tasks[t].attempts < MaxAttempts
        BY DEF GooseInv, TasksInv
      <3>2. CASE t \notin Orphans
        BY <2>1, <3>1, <3>2
      <3>3. CASE t \in Orphans
        <4>1. tasks'[t] = [tasks[t] EXCEPT !.status = status(t, exhausted)]
          BY <2>1, <3>3
        <4>2. QED
          BY <3>1, <4>1 DEF TaskRecord
      <3>4. QED
        BY <3>2, <3>3
    <2>5. QED
      BY <2>2, <2>3, <2>4 DEF GooseInv, TasksInv
  <1>3. QED
    BY <1>1, <1>2

(* The loop's own steps.                                                   *)
LEMMA LoopOk ==
  ASSUME GooseInv,
         BootReconciled \/ EnterWait \/ WaitInterrupted \/ WaitDue
           \/ OtherWork \/ Drain \/ Boot
  PROVE  GooseInv'
  <1>1. /\ UNCHANGED <<cursor, stimuli>>
        /\ UNCHANGED <<now, model, crashes, failures>>
        /\ UNCHANGED <<rearms, settledAt>>
    BY DEF BootReconciled, EnterWait, WaitInterrupted, WaitDue, OtherWork,
           Woken, Drain, Boot, LoopUnchanged
  <1>2. CursorInv' /\ LedgerInv' /\ ClockInv'
    BY <1>1, SameCursor DEF GooseInv, LedgerInv, ClockInv
  <1>3. TasksInv' /\ overdue' \in BOOLEAN
    <2>1. UNCHANGED <<tasks, overdue>> \/ RecoverExpired
      BY DEF BootReconciled, EnterWait, WaitInterrupted, WaitDue, OtherWork,
             Woken, Drain, Boot
    <2>2. QED
      BY <2>1, RecoverExpiredOk, SameTasks DEF GooseInv, ControlInv
  <1>4. /\ pc' \in {"first", "wait", "step", "top", "down", "boot"}
        /\ interrupted' \in BOOLEAN /\ armed' \in BOOLEAN
        /\ \/ MemoryLost
           \/ UNCHANGED <<point, serving, back, asked, monitoring, stopping>>
    BY DEF BootReconciled, EnterWait, WaitInterrupted, WaitDue, OtherWork,
           Woken, Drain, Boot, LoopUnchanged, Resume, MemoryLost, GooseInv,
           ControlInv
  <1>5. ControlInv'
    BY <1>3, <1>4 DEF GooseInv, ControlInv, MemoryLost
  <1>6. PlaceInv'
    BY <1>4 DEF PlaceInv, Handling
  <1>7. QED
    BY <1>2, <1>3, <1>5, <1>6 DEF GooseInv

(* Commands given to the running process, and crashes.                     *)
LEMMA ProcessOk ==
  ASSUME GooseInv, Ask \/ Stop \/ Crash
  PROVE  GooseInv'
  <1>1. /\ UNCHANGED <<cursor, tasks, stimuli>> /\ UNCHANGED <<rearms, settledAt>>
        /\ UNCHANGED <<now, model, failures, overdue>>
        /\ crashes' \in 0 .. MaxFaults
    BY DEF Ask, Stop, Crash, GooseInv, ClockInv
  <1>2. CursorInv' /\ LedgerInv' /\ ClockInv' /\ TasksInv'
    BY <1>1, SameCursor, SameTasks DEF GooseInv, LedgerInv, ClockInv
  <1>3. CASE Crash
    <2>1. pc' = "down" /\ MemoryLost /\ UNCHANGED overdue
      BY <1>3 DEF Crash
    <2>2. ControlInv'
      BY <2>1, MemoryLostOk DEF GooseInv
    <2>3. PlaceInv'
      BY <2>1 DEF PlaceInv, Handling
    <2>4. QED
      BY <1>2, <2>2, <2>3 DEF GooseInv
  <1>4. CASE Ask \/ Stop
    <2>1. /\ UNCHANGED <<pc, point, serving, back, monitoring, armed, overdue>>
          /\ asked' \in Sources \cup {NoSource}
          /\ interrupted' \in BOOLEAN /\ stopping' \in BOOLEAN
      BY <1>4 DEF Ask, Stop, GooseInv, ControlInv
    <2>2. ControlInv'
      BY <2>1 DEF GooseInv, ControlInv
    <2>3. PlaceInv'
      BY <1>1, <2>1 DEF GooseInv, PlaceInv, Handling
    <2>4. QED
      BY <1>2, <2>2, <2>3 DEF GooseInv
  <1>5. QED
    BY <1>3, <1>4

(* What changes only the environment.                                      *)
LEMMA EnvironmentOk ==
  ASSUME GooseInv, Tick \/ LeaseRunsOut \/ SetClockBack \/ Reconfigure
  PROVE  GooseInv'
  <1>1. /\ UNCHANGED <<cursor, tasks, stimuli>> /\ UNCHANGED <<rearms, settledAt>>
        /\ UNCHANGED <<pc, point, serving, back, asked, monitoring, interrupted,
                       armed, stopping, crashes>>
    BY DEF Tick, LeaseRunsOut, SetClockBack, Reconfigure, Environment
  <1>2. now' \in Time /\ model' \in Models
    BY DEF Tick, LeaseRunsOut, SetClockBack, Reconfigure, GooseInv, ClockInv
  <1>3. overdue' \in BOOLEAN
    BY DEF Tick, LeaseRunsOut, SetClockBack, Reconfigure, GooseInv, ControlInv
  <1>4. failures' \in 0 .. MaxFaults
    BY DEF Tick, LeaseRunsOut, SetClockBack, Reconfigure, GooseInv, ClockInv,
           Fails
  <1>5. CursorInv' /\ LedgerInv' /\ TasksInv'
    BY <1>1, SameCursor, SameTasks DEF GooseInv, LedgerInv
  <1>6. ClockInv'
    BY <1>1, <1>2, <1>4 DEF GooseInv, ClockInv
  <1>7. ControlInv' /\ PlaceInv'
    BY <1>1, <1>3 DEF GooseInv, ControlInv, PlaceInv, Handling
  <1>8. QED
    BY <1>5, <1>6, <1>7 DEF GooseInv

(* What is run by hand while the process is down.                          *)
LEMMA OfflineOk ==
  ASSUME GooseInv, Activate \/ CancelOffline
  PROVE  GooseInv'
  <1>1. /\ UNCHANGED <<stimuli, pc, overdue>> /\ pc = "down"
        /\ UNCHANGED <<now, model, crashes, failures>>
        /\ UNCHANGED <<rearms, settledAt>>
        /\ UNCHANGED <<point, serving, back, asked, monitoring, interrupted,
                       armed, stopping>>
    BY DEF Activate, CancelOffline
  <1>2. LedgerInv' /\ ClockInv' /\ ControlInv' /\ PlaceInv'
    BY <1>1 DEF GooseInv, LedgerInv, ClockInv, ControlInv, PlaceInv, Handling
  <1>3. CASE Activate
    <2>1. PICK due \in Time :
            cursor' = [cursor EXCEPT !.revision = 1, !.generation = 1,
                                     !.state = "scheduled", !.due = due]
      BY <1>3 DEF Activate
    <2>2. cursor \in Cursor /\ 1 \in Revision /\ UNCHANGED tasks
      <3>1. cursor \in Cursor /\ cursor.revision < MaxRevision
        BY <1>3 DEF Activate, GooseInv, CursorInv
      <3>2. cursor.revision \in Nat /\ MaxRevision \in Nat
        BY <3>1 DEF Cursor
      <3>3. 1 \in Revision
        BY <3>1, <3>2
      <3>4. UNCHANGED tasks
        BY <1>3 DEF Activate
      <3>5. QED
        BY <3>1, <3>3, <3>4
    <2>3. /\ cursor' \in Cursor /\ cursor'.generation = 1
          /\ cursor'.revision = 1 /\ cursor'.state = "scheduled"
          /\ cursor'.due = due
      BY <2>1, <2>2 DEF Cursor
    <2>4. CursorInv'
      BY <2>3 DEF CursorInv
    <2>5. QED
      BY <1>2, <2>2, <2>4, SameTasks DEF GooseInv
  <1>4. CASE CancelOffline
    <2>1. PICK t \in DOMAIN tasks :
            SetStatus(t, "cancelled") \/ SetStatus(t, "cancel_requested")
      BY <1>4 DEF CancelOffline
    <2>2. PICK status \in {"cancelled", "cancel_requested"} :
            SetStatus(t, status)
      BY <2>1
    <2> DEFINE record == [tasks[t] EXCEPT !.status = status]
    <2>3. t \in Opportunity /\ tasks[t] \in TaskRecord
      BY DEF GooseInv, TasksInv
    <2>4. record \in TaskRecord /\ record.status # "pending"
      BY <2>3 DEF TaskRecord
    <2>5. SetTask(t, record)
      BY <2>2 DEF SetStatus
    <2>6. TasksInv'
      BY <2>3, <2>4, <2>5, SetTaskOk DEF GooseInv
    <2>7. CursorInv'
      BY <1>4, SameCursor DEF CancelOffline, GooseInv
    <2>8. QED
      BY <1>2, <2>6, <2>7 DEF GooseInv
  <1>5. QED
    BY <1>3, <1>4

LEMMA StutterOk == GooseInv /\ UNCHANGED vars => GooseInv'
  <1> SUFFICES ASSUME GooseInv, UNCHANGED vars
               PROVE  GooseInv'
    OBVIOUS
  <1>1. CursorInv' /\ TasksInv' /\ ClockInv' /\ LedgerInv'
    BY SameCursor, SameTasks DEF vars, GooseInv, ClockInv, LedgerInv
  <1>2. ControlInv' /\ PlaceInv'
    BY DEF vars, GooseInv, ControlInv, PlaceInv, Handling
  <1>3. QED
    BY <1>1, <1>2 DEF GooseInv

(* Every step keeps the types.                                             *)
LEMMA NextGoose == GooseInv /\ [Next]_vars => GooseInv'
  <1> SUFFICES ASSUME GooseInv, [Next]_vars
               PROVE  GooseInv'
    OBVIOUS
  <1>1. CASE Step
    BY <1>1, IdleOk, PrepareOk, BlockingOk, SubmitOk, SettleOk, ExecuteOk
    DEF Step
  <1>2. CASE HandleEnds
    BY <1>2, HandleEndsOk
  <1>3. CASE ReconcileAtBoot \/ Serve \/ Rearm \/ Mark
    BY <1>3, ReconcilingOk
  <1>4. CASE \/ BootReconciled \/ EnterWait \/ WaitInterrupted \/ WaitDue
             \/ OtherWork \/ Drain \/ Boot
    BY <1>4, LoopOk
  <1>5. CASE Ask \/ Stop \/ Crash
    BY <1>5, ProcessOk
  <1>6. CASE Tick \/ LeaseRunsOut \/ SetClockBack \/ Reconfigure
    BY <1>6, EnvironmentOk
  <1>7. CASE Activate \/ CancelOffline
    BY <1>7, OfflineOk
  <1>8. CASE UNCHANGED vars
    BY <1>8, StutterOk
  <1>9. QED
    BY <1>1, <1>2, <1>3, <1>4, <1>5, <1>6, <1>7, <1>8 DEF Next, Worker

(* The cursor, the Tasks, the stimuli and the loop keep their types.       *)
THEOREM GooseTypeCorrect == Spec => []TypeOK
  <1>1. Spec => []GooseInv
    BY InitGoose, NextGoose, PTL DEF Spec
  <1>2. QED
    BY <1>1, GooseTypes, PTL

-----------------------------------------------------------------------------
(* What a step can do to the stimuli.  Most do nothing to them; of these,  *)
(* some also leave the cursor alone, and                                   *)
LEMMA StillOk ==
  ASSUME GooseInv, TargetInv, RearmInv, UNCHANGED <<cursor, stimuli, rearms>>,
         pc' = "mark" => pc = "mark" /\ UNCHANGED serving
  PROVE  TargetInv' /\ RearmInv'
  <1>1. TargetInv'
    BY DEF TargetInv
  <1>2. RearmInv'
    BY DEF RearmInv
  <1>3. QED
    BY <1>1, <1>2

(* some move a cursor on that does not sleep: no stimulus targets it.      *)
Moves ==
  /\ cursor.state # "dormant"
  /\ cursor'.revision = cursor.revision + 1
  /\ cursor'.generation \in {cursor.generation, cursor.generation + 1}
LEMMA MovedOk ==
  ASSUME GooseInv, TargetInv, RearmInv, UNCHANGED <<stimuli, rearms>>,
         Moves, pc' # "mark"
  PROVE  TargetInv' /\ RearmInv'
  <1>1. /\ cursor.revision \in Nat /\ cursor.generation \in Nat
        /\ cursor.generation # 0
        /\ \A s \in Sources : stimuli[s].revision \in Nat
    BY DEF GooseInv, CursorInv, Cursor, LedgerInv, Stimulus, TargetInv, Moves
  <1>2. cursor'.generation # 0
    BY <1>1 DEF Moves
  <1>3. ASSUME NEW s \in Sources, IsAccepted(s)
        PROVE  /\ stimuli[s].revision < cursor.revision
               /\ stimuli[s].revision # cursor'.revision
               /\ stimuli[s].revision + 1 # cursor'.revision
    <2>1. stimuli[s].revision <= cursor.revision
      BY <1>3 DEF TargetInv
    <2>2. stimuli[s].revision # cursor.revision
      BY <1>3 DEF TargetInv, Moves
    <2>3. QED
      BY <1>1, <2>1, <2>2 DEF Moves
  <1>4. TargetInv'
    <2>1. \A s \in Sources : Known(s)' => stimuli'[s].revision <= cursor'.revision
      BY <1>1 DEF TargetInv, Moves
    <2>2. QED
      BY <1>2, <1>3, <2>1 DEF TargetInv
  <1>5. RearmInv'
    <2>1. \A r \in rearms : r[2] \in Nat /\ r[2] <= cursor'.revision
      BY <1>1 DEF GooseInv, LedgerInv, RearmInv, Moves
    <2>2. QED
      BY <1>3, <2>1 DEF RearmInv
  <1>6. QED
    BY <1>4, <1>5

(* A stimulus is settled, as consumed only if it did re-arm.               *)
LEMMA TerminalizeKeeps ==
  ASSUME GooseInv, TargetInv, RearmInv, NEW s \in Sources, NEW to \in Callers,
         NEW status \in {"manual_review", "consumed", "superseded"},
         Terminalize(s, status, to), Known(s),
         status = "consumed" => <<s, stimuli[s].revision + 1>> \in rearms
  PROVE  TargetInv' /\ RearmInv'
  <1>1. /\ UNCHANGED <<cursor, rearms>>
        /\ stimuli' \in {stimuli, [stimuli EXCEPT ![s].status = status]}
    BY DEF Terminalize
  <1>2. pc' # "mark"
    BY DEF Terminalize, Return, Callers
  <1>3. CASE stimuli' = stimuli
    BY <1>1, <1>2, <1>3, StillOk
  <1>4. CASE stimuli' = [stimuli EXCEPT ![s].status = status]
    <2>1. \A u \in Sources :
            /\ stimuli'[u].revision = stimuli[u].revision
            /\ stimuli'[u].status = IF u = s THEN status ELSE stimuli[u].status
      BY <1>4 DEF GooseInv, LedgerInv, Stimulus
    <2>2. \A u \in Sources : (Known(u)' <=> Known(u)) /\ (IsAccepted(u)' => IsAccepted(u))
      BY <2>1
    <2>3. TargetInv'
      BY <1>1, <2>1, <2>2 DEF TargetInv
    <2>4. \A r \in rearms : r[1] \in Sources
      BY DEF GooseInv, LedgerInv
    <2>5. \A r \in rearms' :
            /\ Known(r[1])' /\ r[2] = stimuli'[r[1]].revision + 1
            /\ r[2] <= cursor'.revision
      BY <1>1, <2>1, <2>2, <2>4 DEF RearmInv
    <2>6. ASSUME NEW u \in Sources
          PROVE  /\ IsAccepted(u)' /\ cursor'.revision = stimuli'[u].revision + 1
                   /\ cursor'.state = "scheduled" => <<u, cursor'.revision>> \in rearms'
                 /\ stimuli'[u].status = "consumed"
                      => <<u, stimuli'[u].revision + 1>> \in rearms'
      BY <1>1, <2>1, <2>2 DEF RearmInv
    <2>7. QED
      BY <1>1, <1>2, <2>3, <2>5, <2>6 DEF RearmInv
  <1>5. QED
    BY <1>1, <1>3, <1>4

(* A sleeping cursor is re-armed for the one stimulus that targets it.     *)
LEMMA RearmCursorKeeps ==
  ASSUME GooseInv, TargetInv, RearmInv, NEW s \in Sources, NEW to \in Callers,
         RearmCursor(s, to), IsAccepted(s),
         cursor.state = "dormant", stimuli[s].revision = cursor.revision
  PROVE  TargetInv' /\ RearmInv'
  <1>1. /\ UNCHANGED stimuli
        /\ cursor' \in {cursor, Rearmed(s)}
        /\ rearms' = IF cursor' = cursor THEN rearms
                     ELSE rearms \cup {<<s, cursor'.revision>>}
        /\ \/ cursor' = Rearmed(s) /\ pc' = "mark" /\ serving' = s
           \/ pc' # "mark"
    BY DEF RearmCursor, Return, Callers
  <1>2. /\ cursor.revision \in Nat /\ cursor.generation \in Nat
        /\ cursor.generation >= 2
        /\ \A u \in Sources : stimuli[u].revision \in Nat
    BY DEF GooseInv, CursorInv, Cursor, LedgerInv, Stimulus, TargetInv
  <1>3. /\ Rearmed(s).revision = cursor.revision + 1
        /\ Rearmed(s).generation = cursor.generation
    BY DEF GooseInv, CursorInv, Cursor, Rearmed
  <1>4. CASE cursor' = cursor
    <2>1. pc' # "mark"
      BY <1>1, <1>2, <1>3, <1>4
    <2>2. QED
      BY <1>1, <1>4, <2>1, StillOk
  <1>5. CASE cursor' = Rearmed(s)
    <2>1. /\ cursor'.revision = cursor.revision + 1
          /\ cursor'.generation = cursor.generation
          /\ rearms' = rearms \cup {<<s, cursor.revision + 1>>}
          /\ pc' = "mark" => serving' = s
      BY <1>1, <1>2, <1>3, <1>5
    <2>2. \A u \in Sources : Known(u) => stimuli[u].revision <= cursor.revision
      BY DEF TargetInv
    <2>3. TargetInv'
      BY <1>1, <1>2, <2>1, <2>2 DEF TargetInv
    <2>4. \A r \in rearms : r[1] \in Sources /\ r[2] \in Nat /\ r[2] <= cursor.revision
      BY DEF GooseInv, LedgerInv, RearmInv
    <2>5. \A r \in rearms' :
            /\ Known(r[1])' /\ r[2] = stimuli'[r[1]].revision + 1
            /\ r[2] <= cursor'.revision
      BY <1>1, <1>2, <2>1, <2>4 DEF RearmInv
    <2>6. \A r, q \in rearms' : r[2] = q[2] => r[1] = q[1]
      <3>1. ASSUME NEW r \in rearms', NEW q \in rearms', r[2] = q[2]
            PROVE  r[1] = q[1]
        <4>1. CASE r \in rearms /\ q \in rearms
          BY <3>1, <4>1 DEF RearmInv
        <4>2. CASE r \notin rearms /\ q \notin rearms
          BY <2>1, <4>2
        <4>3. CASE r \in rearms /\ q \notin rearms
          BY <1>2, <2>1, <2>4, <3>1, <4>3
        <4>4. CASE r \notin rearms /\ q \in rearms
          BY <1>2, <2>1, <2>4, <3>1, <4>4
        <4>5. QED
          BY <4>1, <4>2, <4>3, <4>4
      <3>2. QED
        BY <3>1
    <2>7. ASSUME NEW u \in Sources, IsAccepted(u),
                 cursor'.revision = stimuli[u].revision + 1
          PROVE  <<u, cursor'.revision>> \in rearms'
      <3>1. stimuli[u].revision = cursor.revision
        BY <1>2, <2>1, <2>7
      <3>2. u = s
        BY <2>7, <3>1 DEF TargetInv
      <3>3. QED
        BY <2>1, <3>2
    <2>8. ASSUME NEW u \in Sources,
                 stimuli[u].status = "consumed" \/ (pc' = "mark" /\ serving' = u)
          PROVE  <<u, stimuli[u].revision + 1>> \in rearms'
      BY <2>1, <2>8 DEF RearmInv
    <2>9. QED
      BY <1>1, <2>3, <2>5, <2>6, <2>7, <2>8 DEF RearmInv
  <1>6. QED
    BY <1>1, <1>4, <1>5

(* A stimulus is accepted, alone, for the revision that sleeps.            *)
LEMMA AcceptKeeps ==
  ASSUME GooseInv, TargetInv, RearmInv, NEW s \in Sources,
         ~Known(s), Acceptable, UNCHANGED <<cursor, rearms>>, pc' # "mark",
         stimuli' = [stimuli EXCEPT ![s] = Accepted]
  PROVE  TargetInv' /\ RearmInv'
  <1>1. /\ cursor.revision \in Nat /\ cursor.generation >= 2
        /\ cursor.generation # 0 /\ cursor.state = "dormant"
    BY DEF Acceptable, CanonicalPredecessor, GooseInv, CursorInv, Cursor
  <1>2. \A u \in Sources : stimuli'[u] = IF u = s THEN Accepted ELSE stimuli[u]
    BY DEF GooseInv, LedgerInv
  <1>3. Accepted.status = "accepted" /\ Accepted.revision = cursor.revision
    BY DEF Accepted
  <1>4. \A u \in Sources :
          IsAccepted(u) => stimuli[u].revision # cursor.revision
    BY DEF Acceptable
  <1>5. TargetInv'
    <2>1. \A u \in Sources : Known(u)' => stimuli'[u].revision <= cursor'.revision
      BY <1>1, <1>2, <1>3 DEF TargetInv
    <2>2. \A u, v \in Sources :
            IsAccepted(u)' /\ IsAccepted(v)'
              /\ stimuli'[u].revision = stimuli'[v].revision => u = v
      BY <1>2, <1>3, <1>4 DEF TargetInv
    <2>3. QED
      BY <1>1, <2>1, <2>2 DEF TargetInv
  <1>6. RearmInv'
    <2>1. \A r \in rearms : r[1] \in Sources /\ r[1] # s
      BY DEF GooseInv, LedgerInv, RearmInv
    <2>2. \A r \in rearms :
            /\ Known(r[1])' /\ r[2] = stimuli'[r[1]].revision + 1
            /\ r[2] <= cursor'.revision
      BY <1>2, <2>1 DEF RearmInv
    <2>3. ASSUME NEW u \in Sources
          PROVE  /\ IsAccepted(u)' /\ cursor'.revision = stimuli'[u].revision + 1
                   /\ cursor'.state = "scheduled" => <<u, cursor'.revision>> \in rearms'
                 /\ stimuli'[u].status = "consumed"
                      => <<u, stimuli'[u].revision + 1>> \in rearms'
      BY <1>1, <1>2, <1>3 DEF RearmInv
    <2>4. QED
      BY <2>2, <2>3 DEF RearmInv
  <1>7. QED
    BY <1>5, <1>6

LEMMA ReconcileKeeps ==
  ASSUME GooseInv, TargetInv, RearmInv, NEW s \in Sources, NEW observed,
         NEW to \in Callers, Reconcile(s, observed, to)
  PROVE  TargetInv' /\ RearmInv'
  <1>1. CASE stimuli[s].status # "accepted"
    <2>1. UNCHANGED <<cursor, stimuli, rearms>> /\ Return(to, TRUE)
      BY <1>1 DEF Reconcile
    <2>2. pc' # "mark"
      BY <2>1 DEF Return, Callers
    <2>3. QED
      BY <2>1, <2>2, StillOk
  <1>2. CASE IsAccepted(s) /\ Verdict(s, observed) = "rearm"
    <2>1. /\ cursor.state = "dormant" /\ cursor.revision = stimuli[s].revision
      BY <1>2, VerdictOk DEF GooseInv
    <2>2. RearmCursor(s, to)
      BY <1>2 DEF Reconcile
    <2>3. QED
      BY <1>2, <2>1, <2>2, RearmCursorKeeps
  <1>3. CASE IsAccepted(s) /\ Verdict(s, observed) # "rearm"
    <2>1. Terminalize(s, Verdict(s, observed), to)
      BY <1>3 DEF Reconcile
    <2>2. Verdict(s, observed) \in {"manual_review", "consumed", "superseded"}
      BY <1>3, VerdictOk DEF GooseInv
    <2>3. ASSUME Verdict(s, observed) = "consumed"
          PROVE  <<s, stimuli[s].revision + 1>> \in rearms
      <3>1. cursor.revision = stimuli[s].revision + 1 /\ cursor.state = "scheduled"
        BY <2>3, VerdictOk DEF GooseInv, ExactlyRearmed
      <3>2. QED
        BY <1>3, <3>1 DEF RearmInv
    <2>4. QED
      BY <1>3, <2>1, <2>2, <2>3, TerminalizeKeeps
  <1>4. QED
    BY <1>1, <1>2, <1>3

LEMMA ReconcilingKeeps ==
  ASSUME GooseInv, TargetInv, RearmInv, ReconcileAtBoot \/ Serve \/ Rearm \/ Mark
  PROVE  TargetInv' /\ RearmInv'
  <1>1. asked \in Sources \cup {NoSource} /\ back \in Callers
    BY DEF GooseInv, ControlInv, Callers
  <1>2. CASE ReconcileAtBoot
    BY <1>2, ReconcileKeeps DEF ReconcileAtBoot, Callers
  <1>3. CASE Serve
    <2>1. asked \in Sources /\ pc \in Callers /\ Stimulate(asked, pc)
      BY <1>1, <1>3 DEF Serve, Callers
    <2>2. CASE Reconcile(asked, now, pc)
      BY <2>1, <2>2, ReconcileKeeps
    <2>3. CASE ~Reconcile(asked, now, pc)
      <3>1. /\ ~Known(asked) /\ UNCHANGED <<cursor, rearms>>
            /\ pc' # "mark"
            /\ \/ stimuli' = stimuli
               \/ Acceptable /\ stimuli' = [stimuli EXCEPT ![asked] = Accepted]
        BY <2>1, <2>3 DEF Stimulate, Return, Callers
      <3>2. QED
        BY <2>1, <3>1, StillOk, AcceptKeeps
    <2>4. QED
      BY <2>2, <2>3
  <1>4. CASE Rearm
    <2>1. serving \in Sources
      BY <1>4 DEF GooseInv, PlaceInv, Rearm
    <2>2. QED
      BY <1>1, <1>4, <2>1, ReconcileKeeps DEF Rearm
  <1>5. CASE Mark
    <2>1. serving \in Sources /\ Terminalize(serving, "consumed", back)
      BY <1>5 DEF GooseInv, PlaceInv, Mark
    <2>2. <<serving, stimuli[serving].revision + 1>> \in rearms
      BY <1>5, <2>1 DEF RearmInv, Mark
    <2>3. Known(serving)
      BY <2>2 DEF RearmInv
    <2>4. QED
      BY <1>1, <2>1, <2>2, <2>3, TerminalizeKeeps
  <1>6. QED
    BY <1>2, <1>3, <1>4, <1>5

-----------------------------------------------------------------------------
(* Every other step leaves the cursor alone, moves one that does not sleep *)
(* or activates the seed.                                                  *)
LEMMA ReplaceMoves ==
  ASSUME GooseInv, NEW from \in StepPoints, NEW new, NEW active \in BOOLEAN,
         NEW immediate \in BOOLEAN, Replace(from, new, active, immediate),
         UNCHANGED overdue, cursor.state # "dormant",
         new.revision = cursor.revision + 1,
         new.generation \in {cursor.generation, cursor.generation + 1}
  PROVE  pc' # "mark" /\ (UNCHANGED cursor \/ Moves)
  BY ReplaceOk DEF Moves

LEMMA BlockedMoves ==
  ASSUME CursorInv
  PROVE  /\ Blocked.revision = cursor.revision + 1
         /\ Blocked.generation = cursor.generation
  BY DEF CursorInv, Cursor, Blocked

LEMMA WriteBlockedMoves ==
  ASSUME GooseInv, NEW from \in StepPoints, WriteBlocked(from), StepUnchanged,
         cursor.state # "dormant"
  PROVE  pc' # "mark" /\ (UNCHANGED cursor \/ Moves)
  <1>1. Replace(from, Blocked, FALSE, FALSE) /\ UNCHANGED overdue
    BY DEF WriteBlocked, StepUnchanged
  <1>2. QED
    BY <1>1, BlockedMoves, ReplaceMoves DEF GooseInv

LEMMA CycleMoves ==
  ASSUME GooseInv, BusyInv, Step \/ HandleEnds
  PROVE  /\ UNCHANGED <<stimuli, rearms>> /\ pc' # "mark"
         /\ UNCHANGED cursor \/ Moves
  <1>1. UNCHANGED <<stimuli, rearms, overdue>> /\ StepUnchanged
    BY DEF Step, HandleEnds, StepIdle, StepNotDue, StepPrepare, StepDiffers,
           StepSubmit, StepFailed, StepSettle, StepActive, StepExecute,
           StepUnchanged
  <1>2. CASE StepIdle \/ StepNotDue \/ StepActive \/ StepSubmit
    <2>1. UNCHANGED cursor /\ pc' \in {"wait", "top"}
      BY <1>2 DEF StepIdle, StepNotDue, StepActive, StepSubmit, Healthy
    <2>2. QED
      BY <1>1, <2>1
  <1>3. CASE StepExecute
    <2>1. UNCHANGED cursor /\ pc' \in {"wait", "top", "handle"}
      BY <1>3 DEF StepExecute, Healthy
    <2>2. QED
      BY <1>1, <2>1
  <1>4. CASE StepDiffers \/ StepFailed
    <2>1. pc \in StepPoints /\ cursor.state # "dormant" /\ WriteBlocked(pc)
      BY <1>4 DEF StepDiffers, StepFailed, PreparedStep
    <2>2. QED
      BY <1>1, <2>1, WriteBlockedMoves
  <1>5. CASE StepPrepare
    <2>1. /\ pc \in StepPoints /\ cursor.state # "dormant"
          /\ WriteBlocked(pc) \/ Replace(pc, Prepared, TRUE, TRUE)
      BY <1>5 DEF StepPrepare
    <2>2. /\ Prepared.revision = cursor.revision + 1
          /\ Prepared.generation = cursor.generation
      BY DEF GooseInv, CursorInv, Cursor, Prepared
    <2>3. QED
      BY <1>1, <2>1, <2>2, WriteBlockedMoves, ReplaceMoves
  <1>6. CASE StepSettle
    <2>1. /\ pc \in StepPoints /\ cursor.state # "dormant"
          /\ cursor.task \in DOMAIN tasks
      BY <1>6 DEF StepSettle, PreparedStep, Succeeded
    <2> DEFINE active == Current.wake # NoWake
    <2>2. WriteBlocked(pc) \/ Replace(pc, Settled(Current.wake), active, FALSE)
      BY <1>6 DEF StepSettle
    <2>3. /\ Settled(Current.wake).revision = cursor.revision + 1
          /\ Settled(Current.wake).generation = cursor.generation + 1
      BY DEF Settled
    <2>4. active \in BOOLEAN
      OBVIOUS
    <2>5. CASE WriteBlocked(pc)
      BY <1>1, <2>1, <2>5, WriteBlockedMoves
    <2>6. CASE Replace(pc, Settled(Current.wake), active, FALSE)
      <3> HIDE DEF active
      <3>1. QED
        BY <1>1, <2>1, <2>3, <2>4, <2>6, ReplaceMoves
    <2>7. QED
      BY <2>2, <2>5, <2>6
  <1>7. CASE HandleEnds
    <2>1. cursor.state = "prepared"
      BY <1>7 DEF HandleEnds, BusyInv, Handling
    <2>2. cursor' = cursor \/ cursor' = Blocked
      BY <1>7 DEF HandleEnds
    <2>3. UNCHANGED cursor \/ Moves
      BY <2>1, <2>2, BlockedMoves DEF GooseInv, Moves
    <2>4. pc' # "mark"
      BY <1>7 DEF HandleEnds, Healthy, Unhealthy
    <2>5. QED
      BY <1>1, <2>3, <2>4
  <1>8. QED
    BY <1>2, <1>3, <1>4, <1>5, <1>6, <1>7 DEF Step

(* The first activation finds no stimulus.                                 *)
LEMMA ActivateKeeps ==
  ASSUME GooseInv, TargetInv, RearmInv, Activate
  PROVE  TargetInv' /\ RearmInv'
  <1>1. /\ cursor.generation = 0 /\ UNCHANGED <<stimuli, rearms, pc>>
        /\ pc = "down"
    BY DEF Activate
  <1>2. cursor'.generation = 1
    BY DEF Activate, GooseInv, CursorInv, Cursor
  <1>3. \A s \in Sources : ~Known(s)
    BY <1>1 DEF TargetInv
  <1>4. rearms = {}
    BY <1>3 DEF RearmInv, GooseInv, LedgerInv
  <1>5. TargetInv'
    BY <1>1, <1>2, <1>3 DEF TargetInv
  <1>6. RearmInv'
    BY <1>1, <1>3, <1>4 DEF RearmInv
  <1>7. QED
    BY <1>5, <1>6

(* A reconciliation for a handler goes back to the handler, and leaves a   *)
(* prepared cursor alone.                                                  *)
LEMMA ReconcileBusy ==
  ASSUME GooseInv, NEW s \in Sources, NEW observed, NEW to \in Callers,
         Reconcile(s, observed, to)
  PROVE  /\ Handling' => to = "handle"
         /\ cursor.state = "prepared" => UNCHANGED cursor
  <1>1. ASSUME NEW settled \in BOOLEAN, Return(to, settled)
        PROVE  Handling' => to = "handle"
    BY <1>1 DEF Return, Callers, Handling
  <1>2. CASE stimuli[s].status # "accepted"
    BY <1>1, <1>2 DEF Reconcile
  <1>3. CASE IsAccepted(s) /\ Verdict(s, observed) = "rearm"
    <2>1. RearmCursor(s, to)
      BY <1>3 DEF Reconcile
    <2>2. cursor.state = "dormant"
      BY <1>3, VerdictOk DEF GooseInv
    <2>3. (pc' = "mark" /\ back' = to) \/ Return(to, FALSE)
      BY <2>1 DEF RearmCursor
    <2>4. QED
      BY <1>1, <2>2, <2>3 DEF Handling
  <1>4. CASE IsAccepted(s) /\ Verdict(s, observed) # "rearm"
    <2>1. Terminalize(s, Verdict(s, observed), to)
      BY <1>4 DEF Reconcile
    <2>2. UNCHANGED cursor /\ (Return(to, TRUE) \/ Return(to, FALSE))
      BY <2>1 DEF Terminalize
    <2>3. QED
      BY <1>1, <2>2
  <1>5. QED
    BY <1>2, <1>3, <1>4

LEMMA ReconcilingBusy ==
  ASSUME GooseInv, ReconcileAtBoot \/ Serve \/ Rearm \/ Mark
  PROVE  /\ Handling' => Handling
         /\ cursor.state = "prepared" => UNCHANGED cursor
  <1>1. asked \in Sources \cup {NoSource} /\ back \in Callers
    BY DEF GooseInv, ControlInv, Callers
  <1>2. ASSUME NEW to \in Callers, NEW settled \in BOOLEAN, Return(to, settled)
        PROVE  Handling' => to = "handle"
    BY <1>2 DEF Return, Callers, Handling
  <1>3. CASE ReconcileAtBoot
    <2>1. PICK s \in Sources : Reconcile(s, now, "boot")
      BY <1>3 DEF ReconcileAtBoot
    <2>2. "boot" \in Callers /\ "boot" # "handle"
      BY DEF Callers
    <2>3. QED
      BY <2>1, <2>2, ReconcileBusy
  <1>4. CASE Serve
    <2>1. asked \in Sources /\ pc \in Callers /\ Stimulate(asked, pc)
      BY <1>1, <1>4 DEF Serve, Callers
    <2>2. /\ Handling' => pc = "handle"
          /\ cursor.state = "prepared" => UNCHANGED cursor
      <3>1. CASE Reconcile(asked, now, pc)
        BY <2>1, <3>1, ReconcileBusy
      <3>2. CASE ~Reconcile(asked, now, pc)
        <4>1. /\ UNCHANGED cursor
              /\ Return(pc, FALSE) \/ (pc' = "rearm" /\ back' = pc)
          BY <2>1, <3>2 DEF Stimulate
        <4>2. QED
          BY <1>2, <2>1, <4>1 DEF Handling
      <3>3. QED
        BY <3>1, <3>2
    <2>3. QED
      BY <2>2 DEF Handling
  <1>5. CASE Rearm
    <2>1. /\ serving \in Sources /\ pc = "rearm"
          /\ Reconcile(serving, stimuli[serving].accepted, back)
      BY <1>5 DEF GooseInv, PlaceInv, Rearm
    <2>2. /\ Handling' => back = "handle"
          /\ cursor.state = "prepared" => UNCHANGED cursor
      BY <1>1, <2>1, ReconcileBusy
    <2>3. QED
      BY <2>1, <2>2 DEF Handling
  <1>6. CASE Mark
    <2>1. /\ pc = "mark" /\ UNCHANGED cursor
          /\ Return(back, TRUE) \/ Return(back, FALSE)
      BY <1>6 DEF Mark, Terminalize
    <2>2. QED
      BY <1>1, <1>2, <2>1 DEF Handling
  <1>7. QED
    BY <1>3, <1>4, <1>5, <1>6

(* A handler starts for a prepared cursor and keeps it prepared.           *)
LEMMA BusyOk ==
  ASSUME GooseInv, BusyInv, [Next]_vars
  PROVE  BusyInv'
  <1>1. CASE Step
    <2>1. CASE StepExecute
      <3>1. cursor.state = "prepared" /\ UNCHANGED cursor
        BY <2>1 DEF StepExecute, PreparedStep
      <3>2. QED
        BY <3>1 DEF BusyInv
    <2>2. CASE ~StepExecute
      <3>1. pc' \in {"wait", "top", "down"}
        BY <1>1, <2>2 DEF Step, StepIdle, StepNotDue, StepPrepare, StepDiffers,
          StepSubmit, StepFailed, StepSettle, StepActive, WriteBlocked,
          Replace, Healthy, Unhealthy
      <3>2. QED
        BY <3>1 DEF BusyInv, Handling
    <2>3. QED
      BY <2>1, <2>2
  <1>2. CASE HandleEnds
    <2>1. pc' \in {"wait", "top", "down"}
      BY <1>2 DEF HandleEnds, Healthy, Unhealthy
    <2>2. QED
      BY <2>1 DEF BusyInv, Handling
  <1>3. CASE ReconcileAtBoot \/ Serve \/ Rearm \/ Mark
    BY <1>3, ReconcilingBusy DEF BusyInv
  <1>4. CASE \/ BootReconciled \/ EnterWait \/ WaitInterrupted \/ WaitDue
             \/ OtherWork \/ Drain \/ Boot \/ Crash
    <2>1. pc' \in {"first", "wait", "step", "top", "down", "boot"}
      BY <1>4 DEF BootReconciled, EnterWait, WaitInterrupted, WaitDue,
        OtherWork, Woken, Drain, Boot, Crash, Resume
    <2>2. QED
      BY <2>1 DEF BusyInv, Handling
  <1>5. CASE Activate \/ CancelOffline
    <2>1. pc' = "down"
      BY <1>5 DEF Activate, CancelOffline
    <2>2. QED
      BY <2>1 DEF BusyInv, Handling
  <1>6. CASE Ask \/ Stop \/ Tick \/ LeaseRunsOut \/ SetClockBack \/ Reconfigure
    <2>1. UNCHANGED <<cursor, pc, back>>
      BY <1>6 DEF Ask, Stop, Tick, LeaseRunsOut, SetClockBack, Reconfigure,
                  Environment
    <2>2. QED
      BY <2>1 DEF BusyInv, Handling
  <1>7. CASE UNCHANGED vars
    BY <1>7 DEF BusyInv, Handling, vars
  <1>8. QED
    BY <1>1, <1>2, <1>3, <1>4, <1>5, <1>6, <1>7 DEF Next, Worker

LEMMA InitStimulus == Init => StimulusInv
  <1> SUFFICES ASSUME Init
               PROVE  StimulusInv
    OBVIOUS
  <1>1. GooseInv
    BY InitGoose
  <1>2. /\ cursor.generation = 0 /\ cursor.revision = 0
        /\ cursor.state = "dormant" /\ pc = "down" /\ rearms = {}
        /\ \A s \in Sources : stimuli[s].status = "none"
    BY DEF Init
  <1>3. BusyInv /\ TargetInv /\ RearmInv
    BY <1>2 DEF BusyInv, Handling, TargetInv, RearmInv
  <1>4. QED
    BY <1>1, <1>3 DEF StimulusInv

LEMMA NextStimulus == StimulusInv /\ [Next]_vars => StimulusInv'
  <1> SUFFICES ASSUME StimulusInv, [Next]_vars
               PROVE  StimulusInv'
    OBVIOUS
  <1> USE DEF StimulusInv
  <1>1. GooseInv' /\ BusyInv'
    BY NextGoose, BusyOk
  <1>2. TargetInv' /\ RearmInv'
    <2>1. CASE Step \/ HandleEnds
      BY <2>1, CycleMoves, StillOk, MovedOk
    <2>2. CASE ReconcileAtBoot \/ Serve \/ Rearm \/ Mark
      BY <2>2, ReconcilingKeeps
    <2>3. CASE Activate
      BY <2>3, ActivateKeeps
    <2>4. CASE \/ BootReconciled \/ EnterWait \/ WaitInterrupted \/ WaitDue
               \/ OtherWork \/ Drain \/ Boot \/ Crash \/ CancelOffline
      <3>1. UNCHANGED <<cursor, stimuli, rearms>> /\ pc' # "mark"
        BY <2>4 DEF BootReconciled, EnterWait, WaitInterrupted, WaitDue,
          OtherWork, Woken, Drain, Boot, Crash, CancelOffline, Resume,
          LoopUnchanged
      <3>2. QED
        BY <3>1, StillOk
    <2>5. CASE \/ Ask \/ Stop \/ Tick \/ LeaseRunsOut \/ SetClockBack
               \/ Reconfigure \/ UNCHANGED vars
      <3>1. UNCHANGED <<cursor, stimuli, rearms, pc, serving>>
        BY <2>5 DEF Ask, Stop, Tick, LeaseRunsOut, SetClockBack, Reconfigure,
                    Environment, vars
      <3>2. QED
        BY <3>1, StillOk
    <2>6. QED
      BY <2>1, <2>2, <2>3, <2>4, <2>5 DEF Next, Worker
  <1>3. QED
    BY <1>1, <1>2

LEMMA StimulusRearm == StimulusInv => StimuliRearmOnce
  <1> SUFFICES ASSUME StimulusInv
               PROVE  StimuliRearmOnce
    OBVIOUS
  <1>1. \A r, q \in rearms : r[1] = q[1] => r[2] = q[2]
    BY DEF StimulusInv, RearmInv
  <1>2. QED
    BY <1>1 DEF StimulusInv, RearmInv, StimuliRearmOnce

(* No crash, failed write, retry or second request makes a stimulus re-arm *)
(* twice, two stimuli share a revision, or one be called consumed that     *)
(* re-armed nothing.                                                       *)
THEOREM GooseRearmOnce == Spec => []StimuliRearmOnce
  <1>1. Spec => []StimulusInv
    BY InitStimulus, NextStimulus, PTL DEF Spec
  <1>2. QED
    BY <1>1, StimulusRearm, PTL

-----------------------------------------------------------------------------
(* One chain.  The Tasks of the cycle form one chain, the cycle implements *)
(* GoosePromise, and it runs when it was asked to.                         *)

(* Beyond OneChain itself: no generation runs before activation, the Task  *)
(* captured is the present generation's and only that one has it.          *)
CapturedInv ==
  /\ cursor.state # "dormant" => cursor.generation >= 1
  /\ cursor.state \in {"dormant", "scheduled"} => cursor.task = NoTask
  /\ cursor.state = "prepared" => cursor.task.generation = cursor.generation
  /\ \A t \in DOMAIN tasks : t.generation = cursor.generation => t = cursor.task

(* Only the Task that Goose works on can succeed, and it has not yet.      *)
InFlightInv == Handling => Current.status \in InFlight

ChainInv == CapturedInv /\ InFlightInv /\ OneChain

USE DEF Callers

-----------------------------------------------------------------------------
(* What a step does to the Tasks: most keep who has succeeded.             *)
Kept ==
  /\ DOMAIN tasks' = DOMAIN tasks
  /\ \A t \in DOMAIN tasks :
       /\ tasks'[t].pred = tasks[t].pred
       /\ tasks[t].status = "succeeded" => tasks'[t].wake = tasks[t].wake
KeptAll ==
  Kept /\ \A t \in DOMAIN tasks :
            tasks'[t].status = "succeeded" <=> tasks[t].status = "succeeded"
KeptSucceeded ==
  Kept /\ \A t \in DOMAIN tasks :
            tasks[t].status = "succeeded" => tasks'[t].status = "succeeded"

LEMMA SameKept == UNCHANGED tasks => KeptAll
  BY DEF KeptAll, Kept

LEMMA SetTaskKept ==
  ASSUME NEW t \in DOMAIN tasks, NEW record, SetTask(t, record),
         tasks[t].status # "succeeded", record.pred = tasks[t].pred
  PROVE  /\ KeptSucceeded
         /\ record.status # "succeeded" => KeptAll
         /\ tasks'[t] = record
         /\ \A u \in DOMAIN tasks : u # t => tasks'[u] = tasks[u]
  <1>1. DOMAIN tasks' = DOMAIN tasks
    BY DEF SetTask
  <1>2. \A u \in DOMAIN tasks : tasks'[u] = IF u = t THEN record ELSE tasks[u]
    BY DEF SetTask
  <1>3. QED
    BY <1>1, <1>2 DEF Kept, KeptAll, KeptSucceeded

LEMMA RecoverKept ==
  ASSUME GooseInv, RecoverExpired
  PROVE  KeptAll
  <1>1. CASE ~overdue
    BY <1>1, SameKept DEF RecoverExpired
  <1>2. CASE overdue
    <2>1. PICK exhausted \in {"failed", "manual_review"} :
            tasks' = [t \in DOMAIN tasks |->
              IF t \notin Orphans THEN tasks[t]
              ELSE [tasks[t] EXCEPT !.status =
                IF tasks[t].status = "cancel_requested" THEN "cancelled"
                ELSE IF tasks[t].attempts < MaxAttempts THEN "pending"
                ELSE exhausted]]
      BY <1>2 DEF RecoverExpired
    <2>2. DOMAIN tasks' = DOMAIN tasks
      BY <2>1
    <2>3. ASSUME NEW t \in DOMAIN tasks
          PROVE  /\ tasks'[t].pred = tasks[t].pred
                 /\ tasks[t].status = "succeeded" => tasks'[t].wake = tasks[t].wake
                 /\ tasks'[t].status = "succeeded" <=> tasks[t].status = "succeeded"
      <3>1. tasks[t] \in TaskRecord
        BY DEF GooseInv, TasksInv
      <3>2. CASE t \notin Orphans
        BY <2>1, <3>2
      <3>3. CASE t \in Orphans
        <4>1. tasks[t].status # "succeeded"
          BY <3>3 DEF Orphans
        <4>2. tasks'[t].pred = tasks[t].pred /\ tasks'[t].status # "succeeded"
          BY <2>1, <3>1, <3>3 DEF TaskRecord
        <4>3. QED
          BY <4>1, <4>2
      <3>4. QED
        BY <3>2, <3>3
    <2>4. QED
      BY <2>2, <2>3 DEF Kept, KeptAll
  <1>3. QED
    BY <1>1, <1>2 DEF GooseInv, ControlInv

(* Who succeeded stays succeeded, so a chain that is not extended holds.   *)
LEMMA ChainKept ==
  ASSUME GooseInv, OneChain, KeptSucceeded,
         cursor'.generation = cursor.generation, cursor'.pred = cursor.pred
  PROVE  OneChain'
  <1>1. \A generation, pred : Follows(generation, pred) => Follows(generation, pred)'
    BY DEF KeptSucceeded, Kept, Follows, Succeeded
  <1>2. \A t, u \in DOMAIN tasks' : t.generation = u.generation => t = u
    BY DEF OneChain, KeptSucceeded, Kept
  <1>3. ASSUME NEW t \in DOMAIN tasks'
        PROVE  /\ t.generation <= cursor'.generation
               /\ Follows(t.generation, tasks[t].pred)'
               /\ t.generation > 1 => tasks'[t].pred.model = t.model
    <2>1. t \in DOMAIN tasks /\ tasks'[t].pred = tasks[t].pred
      BY DEF KeptSucceeded, Kept
    <2>2. QED
      BY <1>1, <2>1 DEF OneChain
  <1>4. Follows(cursor.generation, cursor.pred)'
    BY <1>1 DEF OneChain
  <1>5. QED
    BY <1>2, <1>3, <1>4 DEF OneChain

-----------------------------------------------------------------------------
(* What a step can do to the cycle.                                        *)
Answers ==
  /\ cursor.state = "prepared" /\ cursor.task \in DOMAIN tasks
  /\ Current.status # "succeeded" /\ Current'.status = "succeeded"
  /\ KeptSucceeded
  /\ \A u \in DOMAIN tasks : u # cursor.task => tasks'[u] = tasks[u]
Submits ==
  /\ cursor.state = "prepared" /\ Exact /\ cursor.task \notin DOMAIN tasks
  /\ DOMAIN tasks' = DOMAIN tasks \cup {cursor.task}
  /\ \A u \in DOMAIN tasks : tasks'[u] = tasks[u]
  /\ tasks'[cursor.task].status = "pending"
  /\ tasks'[cursor.task].pred = cursor.pred
OnlyTasks ==
  UNCHANGED <<cursor, rearms, settledAt>> /\ (KeptAll \/ Answers \/ Submits)

Blocks ==
  /\ cursor.state \in {"scheduled", "prepared"}
  /\ cursor' = Blocked /\ UNCHANGED settledAt
Captures ==
  /\ cursor.state = "scheduled" /\ now >= cursor.due
  /\ cursor' = Prepared /\ UNCHANGED settledAt
Settles ==
  /\ cursor.state = "prepared" /\ Succeeded(cursor.task)
  /\ cursor' = Settled(Current.wake) /\ settledAt' = now
Activates ==
  /\ UNCHANGED settledAt
  /\ cursor.state = "dormant" /\ cursor.generation = 0
  /\ cursor'.state = "scheduled" /\ cursor'.generation = 1
  /\ cursor'.task = cursor.task /\ cursor'.pred = cursor.pred
Moved ==
  UNCHANGED <<tasks, rearms>> /\ (Blocks \/ Captures \/ Settles \/ Activates)

Woke(s) ==
  /\ UNCHANGED <<tasks, settledAt>>
  /\ cursor.state = "dormant" /\ CanonicalPredecessor(cursor)
  /\ IsAccepted(s) /\ stimuli[s].revision = cursor.revision
  /\ cursor' = Rearmed(s) /\ rearms' = rearms \cup {<<s, cursor.revision + 1>>}

Outcome == OnlyTasks \/ Moved \/ \E s \in Sources : Woke(s)

LEMMA CursorFields ==
  ASSUME GooseInv
  PROVE  /\ cursor.generation \in Nat /\ cursor.revision \in Nat
         /\ \A t \in DOMAIN tasks : t \in Opportunity /\ t.generation \in Nat
         /\ \A t \in DOMAIN tasks : t # NoTask
         /\ cursor.state \in CycleState
  BY DEF GooseInv, CursorInv, Cursor, TasksInv, Opportunity

LEMMA BlockedFields ==
  ASSUME GooseInv
  PROVE  /\ Blocked.generation = cursor.generation /\ Blocked.pred = cursor.pred
         /\ Blocked.state = "blocked" /\ Blocked.task = cursor.task
  BY DEF GooseInv, CursorInv, Cursor, Blocked

LEMMA PreparedFields ==
  ASSUME GooseInv
  PROVE  /\ Prepared.generation = cursor.generation /\ Prepared.pred = cursor.pred
         /\ Prepared.state = "prepared"
         /\ Prepared.task.generation = cursor.generation
  <1>1. Prepared.task = Captured
    BY DEF GooseInv, CursorInv, Cursor, Prepared
  <1>2. QED
    BY <1>1 DEF GooseInv, CursorInv, Cursor, Prepared, Captured

LEMMA RearmedFields ==
  ASSUME GooseInv, NEW s \in Sources
  PROVE  /\ Rearmed(s).generation = cursor.generation
         /\ Rearmed(s).pred = cursor.pred /\ Rearmed(s).task = cursor.task
         /\ Rearmed(s).state = "scheduled"
         /\ Rearmed(s).revision = cursor.revision + 1
  BY DEF GooseInv, CursorInv, Cursor, Rearmed

-----------------------------------------------------------------------------
(* The chain holds after each of these.                                    *)
LEMMA OnlyTasksChained ==
  ASSUME GooseInv, CapturedInv, OneChain, GooseInv', OnlyTasks
  PROVE  CapturedInv' /\ OneChain'
  <1>1. CASE KeptAll \/ Answers
    <2>1. KeptSucceeded /\ UNCHANGED cursor
      BY <1>1 DEF OnlyTasks, KeptAll, KeptSucceeded, Answers
    <2>2. OneChain'
      BY <2>1, ChainKept
    <2>3. CapturedInv'
      BY <2>1 DEF CapturedInv, KeptSucceeded, Kept
    <2>4. QED
      BY <2>2, <2>3
  <1>2. CASE Submits
    <2>1. UNCHANGED cursor
      BY DEF OnlyTasks
    <2>2. CapturedInv'
      BY <1>2, <2>1 DEF CapturedInv, Submits
    <2>3. \A generation, pred : Follows(generation, pred) => Follows(generation, pred)'
      BY <1>2 DEF Submits, Follows, Succeeded
    <2>4. \A t, u \in DOMAIN tasks' : t.generation = u.generation => t = u
      BY <1>2, <2>1, <2>2 DEF Submits, OneChain, CapturedInv
    <2>5. ASSUME NEW t \in DOMAIN tasks'
          PROVE  /\ t.generation <= cursor'.generation
                 /\ Follows(t.generation, tasks[t].pred)'
                 /\ t.generation > 1 => tasks'[t].pred.model = t.model
      <3>1. CASE t \in DOMAIN tasks
        BY <1>2, <2>1, <2>3, <3>1 DEF Submits, OneChain
      <3>2. CASE t = cursor.task
        <4>1. /\ t.generation = cursor.generation /\ cursor.generation \in Nat
              /\ tasks'[t].pred = cursor.pred
          BY <1>2, <3>2, CursorFields DEF CapturedInv, Submits
        <4>2. Follows(t.generation, tasks[t].pred)'
          BY <2>3, <4>1 DEF OneChain
        <4>3. t.generation > 1 => tasks'[t].pred.model = t.model
          BY <1>2, <3>2, <4>1 DEF Submits, Exact, Derivable
        <4>4. QED
          BY <2>1, <4>1, <4>2, <4>3
      <3>3. QED
        BY <1>2, <3>1, <3>2 DEF Submits
    <2>6. Follows(cursor.generation, cursor.pred)'
      BY <2>1, <2>3 DEF OneChain
    <2>7. QED
      BY <2>2, <2>4, <2>5, <2>6 DEF OneChain
  <1>3. QED
    BY <1>1, <1>2 DEF OnlyTasks

LEMMA SameGeneration ==
  ASSUME GooseInv, OneChain, UNCHANGED tasks,
         cursor'.generation = cursor.generation, cursor'.pred = cursor.pred
  PROVE  OneChain'
  BY SameKept, ChainKept DEF KeptAll, KeptSucceeded

(* A new generation has no Task yet.                                       *)
LEMMA NextGeneration ==
  ASSUME GooseInv, CapturedInv, OneChain, UNCHANGED tasks,
         cursor'.generation = cursor.generation + 1,
         Follows(cursor'.generation, cursor'.pred)
  PROVE  /\ OneChain'
         /\ \A t \in DOMAIN tasks : t.generation < cursor'.generation
  <1>1. \A t \in DOMAIN tasks :
          t.generation \in Nat /\ t.generation <= cursor.generation
    BY CursorFields DEF OneChain
  <1>2. \A t \in DOMAIN tasks : t.generation < cursor'.generation
    BY <1>1, CursorFields
  <1>3. Follows(cursor.generation, cursor.pred)'
    BY DEF Follows, Succeeded
  <1>4. \A t, u \in DOMAIN tasks' : t.generation = u.generation => t = u
    BY DEF OneChain
  <1>5. ASSUME NEW t \in DOMAIN tasks'
        PROVE  /\ t.generation <= cursor'.generation
               /\ Follows(t.generation, tasks[t].pred)'
               /\ t.generation > 1 => tasks'[t].pred.model = t.model
    <2>1. Follows(t.generation, tasks[t].pred)
      BY DEF OneChain
    <2>2. Follows(t.generation, tasks[t].pred)'
      BY <2>1 DEF Follows, Succeeded
    <2>3. t.generation > 1 => tasks'[t].pred.model = t.model
      BY DEF OneChain
    <2>4. t.generation <= cursor'.generation
      BY <1>1, CursorFields
    <2>5. QED
      BY <2>2, <2>3, <2>4
  <1>6. OneChain'
    BY <1>3, <1>4, <1>5 DEF OneChain
  <1>7. QED
    BY <1>2, <1>6

LEMMA MovedChained ==
  ASSUME GooseInv, CapturedInv, OneChain, Moved
  PROVE  CapturedInv' /\ OneChain'
  <1>1. UNCHANGED tasks
    BY DEF Moved
  <1>2. CASE Blocks
    <2>1. /\ cursor'.generation = cursor.generation /\ cursor'.pred = cursor.pred
          /\ cursor'.state = "blocked" /\ cursor'.task = cursor.task
      BY <1>2, BlockedFields DEF Blocks
    <2>2. CapturedInv'
      BY <1>1, <1>2, <2>1 DEF CapturedInv, Blocks
    <2>3. QED
      BY <1>1, <2>1, <2>2, SameGeneration
  <1>3. CASE Captures
    <2>1. /\ cursor'.generation = cursor.generation /\ cursor'.pred = cursor.pred
          /\ cursor'.state = "prepared"
          /\ cursor'.task.generation = cursor.generation
      BY <1>3, PreparedFields DEF Captures
    <2>2. \A t \in DOMAIN tasks : t.generation # cursor.generation
      BY <1>3, CursorFields DEF CapturedInv, Captures
    <2>3. CapturedInv'
      BY <1>1, <1>3, <2>1, <2>2 DEF CapturedInv, Captures
    <2>4. QED
      BY <1>1, <2>1, <2>3, SameGeneration
  <1>4. CASE Settles
    <2>1. /\ cursor'.generation = cursor.generation + 1
          /\ cursor'.pred = cursor.task /\ cursor'.task = NoTask
          /\ cursor'.state \in {"dormant", "scheduled"}
      BY <1>4 DEF Settles, Settled
    <2>2. /\ cursor.generation >= 1 /\ cursor.task.generation = cursor.generation
          /\ cursor.generation \in Nat /\ cursor.task # NoTask
      BY <1>4, CursorFields DEF Settles, CapturedInv, Succeeded
    <2>3. Follows(cursor'.generation, cursor'.pred)
      BY <1>4, <2>1, <2>2 DEF Follows, Settles
    <2>4. OneChain' /\ \A t \in DOMAIN tasks : t.generation < cursor'.generation
      BY <1>1, <2>1, <2>3, NextGeneration
    <2>5. CapturedInv'
      BY <1>1, <2>1, <2>2, <2>4, CursorFields DEF CapturedInv
    <2>6. QED
      BY <2>4, <2>5
  <1>5. CASE Activates
    <2>1. /\ cursor.generation = 0 /\ cursor'.generation = 1
          /\ cursor'.state = "scheduled" /\ cursor.state = "dormant"
          /\ cursor'.task = cursor.task /\ cursor'.pred = cursor.pred
      BY <1>5 DEF Activates
    <2>2. Follows(cursor'.generation, cursor'.pred)
      BY <2>1 DEF OneChain, Follows
    <2>3. OneChain' /\ \A t \in DOMAIN tasks : t.generation < cursor'.generation
      BY <1>1, <2>1, <2>2, NextGeneration
    <2>4. CapturedInv'
      BY <1>1, <2>1, <2>3, CursorFields DEF CapturedInv
    <2>5. QED
      BY <2>3, <2>4
  <1>6. QED
    BY <1>2, <1>3, <1>4, <1>5 DEF Moved

LEMMA WokeChained ==
  ASSUME GooseInv, CapturedInv, OneChain, NEW s \in Sources, Woke(s)
  PROVE  CapturedInv' /\ OneChain'
  <1>1. /\ UNCHANGED tasks /\ cursor.state = "dormant"
        /\ cursor.generation >= 2 /\ cursor' = Rearmed(s)
    BY DEF Woke, CanonicalPredecessor
  <1>2. /\ cursor'.generation = cursor.generation /\ cursor'.pred = cursor.pred
        /\ cursor'.task = cursor.task /\ cursor'.state = "scheduled"
    BY <1>1, RearmedFields
  <1>3. CapturedInv'
    BY <1>1, <1>2, CursorFields DEF CapturedInv
  <1>4. QED
    BY <1>1, <1>2, <1>3, SameGeneration

-----------------------------------------------------------------------------
(* Every step is one of these.                                             *)
LEMMA BlockingOutcome ==
  ASSUME GooseInv, NEW from \in StepPoints, WriteBlocked(from), StepUnchanged,
         UNCHANGED <<tasks, settledAt>>,
         cursor.state \in {"scheduled", "prepared"}
  PROVE  Outcome
  <1>1. cursor' = cursor \/ cursor' = Blocked
    BY ReplaceOk DEF WriteBlocked, StepUnchanged
  <1>2. UNCHANGED rearms
    BY DEF StepUnchanged
  <1>3. QED
    BY <1>1, <1>2, SameKept DEF Outcome, OnlyTasks, Moved, Blocks

LEMMA StepOutcome ==
  ASSUME GooseInv, Step
  PROVE  Outcome
  <1>1. UNCHANGED <<rearms, overdue>> /\ StepUnchanged /\ pc \in StepPoints
    BY DEF Step, StepIdle, StepNotDue, StepPrepare, StepDiffers, StepSubmit,
           StepFailed, StepSettle, StepActive, StepExecute, StepUnchanged,
           PreparedStep
  <1>2. CASE StepIdle \/ StepNotDue \/ StepActive
    <2>1. UNCHANGED <<cursor, tasks, settledAt>>
      BY <1>2 DEF StepIdle, StepNotDue, StepActive
    <2>2. QED
      BY <1>1, <2>1, SameKept DEF Outcome, OnlyTasks
  <1>3. CASE StepDiffers \/ StepFailed
    <2>1. /\ WriteBlocked(pc) /\ cursor.state = "prepared"
          /\ UNCHANGED <<tasks, settledAt>>
      BY <1>3 DEF StepDiffers, StepFailed, PreparedStep
    <2>2. QED
      BY <1>1, <2>1, BlockingOutcome
  <1>4. CASE StepPrepare
    <2>1. /\ cursor.state = "scheduled" /\ now >= cursor.due
          /\ UNCHANGED <<tasks, settledAt>>
          /\ WriteBlocked(pc) \/ Replace(pc, Prepared, TRUE, TRUE)
      BY <1>4 DEF StepPrepare
    <2>2. CASE WriteBlocked(pc)
      BY <1>1, <2>1, <2>2, BlockingOutcome
    <2>3. CASE Replace(pc, Prepared, TRUE, TRUE)
      <3>1. cursor' = cursor \/ cursor' = Prepared
        BY <1>1, <2>3, ReplaceOk
      <3>2. QED
        BY <1>1, <2>1, <3>1, SameKept DEF Outcome, OnlyTasks, Moved, Captures
    <2>4. QED
      BY <2>1, <2>2, <2>3
  <1>5. CASE StepSettle
    <2>1. /\ cursor.state = "prepared" /\ UNCHANGED tasks
          /\ Succeeded(cursor.task)
      BY <1>5 DEF StepSettle, PreparedStep
    <2> DEFINE active == Current.wake # NoWake
    <2>2. \/ WriteBlocked(pc) /\ UNCHANGED settledAt
          \/ /\ Replace(pc, Settled(Current.wake), active, FALSE)
             /\ settledAt' = IF cursor' = cursor THEN settledAt ELSE now
      BY <1>5 DEF StepSettle
    <2>3. active \in BOOLEAN
      OBVIOUS
    <2>4. CASE WriteBlocked(pc) /\ UNCHANGED settledAt
      BY <1>1, <2>1, <2>4, BlockingOutcome
    <2>5. CASE /\ Replace(pc, Settled(Current.wake), active, FALSE)
               /\ settledAt' = IF cursor' = cursor THEN settledAt ELSE now
      <3> HIDE DEF active
      <3>1. cursor' = cursor \/ cursor' = Settled(Current.wake)
        BY <1>1, <2>3, <2>5, ReplaceOk
      <3>2. CASE cursor' = cursor
        BY <1>1, <2>1, <2>5, <3>2, SameKept DEF Outcome, OnlyTasks
      <3>3. CASE cursor' # cursor
        BY <1>1, <2>1, <2>5, <3>1, <3>3 DEF Outcome, Moved, Settles
      <3>4. QED
        BY <3>2, <3>3
    <2>6. QED
      BY <2>2, <2>4, <2>5
  <1>6. CASE StepSubmit
    <2> DEFINE record == [status |-> "pending", attempts |-> 0,
                          wake |-> NoWake, pred |-> cursor.pred]
    <2>1. /\ cursor.state = "prepared" /\ Exact
          /\ UNCHANGED <<cursor, settledAt>>
          /\ cursor.task \notin DOMAIN tasks
          /\ SetTask(cursor.task, record) \/ UNCHANGED tasks
      BY <1>6 DEF StepSubmit, PreparedStep
    <2>2. CASE SetTask(cursor.task, record)
      <3>1. /\ DOMAIN tasks' = DOMAIN tasks \cup {cursor.task}
            /\ \A u \in DOMAIN tasks : tasks'[u] = tasks[u]
            /\ tasks'[cursor.task] = record
        BY <2>1, <2>2 DEF SetTask
      <3>2. Submits
        BY <2>1, <3>1 DEF Submits
      <3>3. QED
        BY <1>1, <2>1, <3>2 DEF Outcome, OnlyTasks
    <2>3. CASE UNCHANGED tasks
      BY <1>1, <2>1, <2>3, SameKept DEF Outcome, OnlyTasks
    <2>4. QED
      BY <2>1, <2>2, <2>3
  <1>7. CASE StepExecute
    <2> DEFINE record == [Current EXCEPT !.status = "running",
                                         !.attempts = Current.attempts + 1]
    <2>1. /\ UNCHANGED <<cursor, settledAt>> /\ cursor.task \in DOMAIN tasks
          /\ Current.status = "pending"
          /\ SetTask(cursor.task, record) \/ UNCHANGED tasks
      BY <1>7 DEF StepExecute, PreparedStep
    <2>2. Current \in TaskRecord
      BY <2>1 DEF GooseInv, TasksInv, Current
    <2>3. record.status # "succeeded" /\ record.pred = Current.pred
      BY <2>2 DEF TaskRecord
    <2>4. KeptAll
      <3> HIDE DEF record
      <3>1. QED
        BY <2>1, <2>3, SetTaskKept, SameKept DEF Current
    <2>5. QED
      BY <1>1, <2>1, <2>4 DEF Outcome, OnlyTasks
  <1>8. QED
    BY <1>2, <1>3, <1>4, <1>5, <1>6, <1>7 DEF Step

LEMMA HandleOutcome ==
  ASSUME GooseInv, BusyInv, InFlightInv, HandleEnds
  PROVE  Outcome
  <1>1. /\ UNCHANGED <<rearms, settledAt>> /\ cursor.state = "prepared"
        /\ cursor.task \in DOMAIN tasks /\ Current.status # "succeeded"
    BY DEF HandleEnds, StepUnchanged, BusyInv, InFlightInv, Handling, GooseInv,
           PlaceInv
  <1>2. Current \in TaskRecord
    BY <1>1 DEF GooseInv, TasksInv, Current
  <1>3. CASE SetStatus(cursor.task, "failed") /\ UNCHANGED cursor
    <2> DEFINE record == [Current EXCEPT !.status = "failed"]
    <2>1. SetTask(cursor.task, record)
      BY <1>3 DEF SetStatus, Current
    <2>2. record.status # "succeeded" /\ record.pred = Current.pred
      BY <1>2 DEF TaskRecord
    <2>3. KeptAll
      <3> HIDE DEF record
      <3>1. QED
        BY <1>1, <2>1, <2>2, SetTaskKept DEF Current
    <2>4. QED
      BY <1>1, <1>3, <2>3 DEF Outcome, OnlyTasks
  <1>4. ASSUME NEW wake \in Delays \cup {NoWake}, UNCHANGED cursor,
               SetTask(cursor.task, [Current EXCEPT !.status = "succeeded",
                                                    !.wake = wake])
        PROVE  Outcome
    <2> DEFINE record == [Current EXCEPT !.status = "succeeded", !.wake = wake]
    <2>1. SetTask(cursor.task, record)
      BY <1>4
    <2>2. record.status = "succeeded" /\ record.pred = Current.pred
      BY <1>2 DEF TaskRecord
    <2>3. /\ KeptSucceeded /\ tasks'[cursor.task] = record
          /\ \A u \in DOMAIN tasks : u # cursor.task => tasks'[u] = tasks[u]
      <3> HIDE DEF record
      <3>1. QED
        BY <1>1, <2>1, <2>2, SetTaskKept DEF Current
    <2>4. Answers
      BY <1>1, <1>4, <2>2, <2>3 DEF Answers, Current
    <2>5. QED
      BY <1>1, <1>4, <2>4 DEF Outcome, OnlyTasks
  <1>5. CASE UNCHANGED tasks /\ (cursor' = Blocked \/ UNCHANGED cursor)
    BY <1>1, <1>5, SameKept DEF Outcome, OnlyTasks, Moved, Blocks
  <1>6. QED
    BY <1>3, <1>4, <1>5 DEF HandleEnds

LEMMA ReconcileOutcome ==
  ASSUME GooseInv, NEW s \in Sources, NEW observed, NEW to \in Callers,
         Reconcile(s, observed, to), UNCHANGED <<tasks, settledAt>>
  PROVE  Outcome
  <1>1. CASE UNCHANGED <<cursor, rearms>>
    BY <1>1, SameKept DEF Outcome, OnlyTasks
  <1>2. CASE IsAccepted(s) /\ Verdict(s, observed) = "rearm"
    <2>1. /\ cursor.state = "dormant" /\ CanonicalPredecessor(cursor)
          /\ stimuli[s].revision = cursor.revision
      BY <1>2, VerdictOk DEF GooseInv
    <2>2. /\ cursor' \in {cursor, Rearmed(s)}
          /\ rearms' = IF cursor' = cursor THEN rearms
                       ELSE rearms \cup {<<s, cursor'.revision>>}
      BY <1>2 DEF Reconcile, RearmCursor
    <2>3. CASE cursor' = cursor
      BY <1>1, <2>2, <2>3
    <2>4. CASE cursor' # cursor
      <3>1. cursor' = Rearmed(s) /\ rearms' = rearms \cup {<<s, cursor.revision + 1>>}
        BY <2>2, <2>4, RearmedFields
      <3>2. QED
        BY <1>2, <2>1, <3>1 DEF Outcome, Woke
    <2>5. QED
      BY <2>3, <2>4
  <1>3. CASE ~(IsAccepted(s) /\ Verdict(s, observed) = "rearm")
    <2>1. UNCHANGED <<cursor, rearms>>
      BY <1>3 DEF Reconcile, Terminalize
    <2>2. QED
      BY <1>1, <2>1
  <1>4. QED
    BY <1>2, <1>3

LEMMA ReconcilingOutcome ==
  ASSUME GooseInv, ReconcileAtBoot \/ Serve \/ Rearm \/ Mark
  PROVE  Outcome
  <1>1. /\ asked \in Sources \cup {NoSource} /\ back \in Callers
        /\ UNCHANGED <<tasks, settledAt>>
    BY DEF GooseInv, ControlInv, ReconcileAtBoot, Serve, Rearm, Mark,
           ReconcileUnchanged
  <1>2. CASE UNCHANGED <<cursor, rearms>>
    BY <1>1, <1>2, SameKept DEF Outcome, OnlyTasks
  <1>3. CASE ReconcileAtBoot
    BY <1>1, <1>3, ReconcileOutcome DEF ReconcileAtBoot
  <1>4. CASE Serve
    <2>1. asked \in Sources /\ pc \in Callers /\ Stimulate(asked, pc)
      BY <1>1, <1>4 DEF Serve
    <2>2. Reconcile(asked, now, pc) \/ UNCHANGED <<cursor, rearms>>
      BY <2>1 DEF Stimulate
    <2>3. QED
      BY <1>1, <1>2, <2>1, <2>2, ReconcileOutcome
  <1>5. CASE Rearm
    <2>1. serving \in Sources
      BY <1>5 DEF GooseInv, PlaceInv, Rearm
    <2>2. QED
      BY <1>1, <1>5, <2>1, ReconcileOutcome DEF Rearm
  <1>6. CASE Mark
    BY <1>2, <1>6 DEF Mark, Terminalize
  <1>7. QED
    BY <1>3, <1>4, <1>5, <1>6

LEMMA OfflineOutcome ==
  ASSUME GooseInv, Activate \/ CancelOffline
  PROVE  Outcome
  <1>1. CASE Activate
    <2>1. PICK due \in Time :
            cursor' = [cursor EXCEPT !.revision = 1, !.generation = 1,
                                     !.state = "scheduled", !.due = due]
      BY <1>1 DEF Activate
    <2>2. cursor \in Cursor
      BY DEF GooseInv, CursorInv
    <2>3. /\ cursor'.generation = 1 /\ cursor'.state = "scheduled"
          /\ cursor'.task = cursor.task /\ cursor'.pred = cursor.pred
      BY <2>1, <2>2 DEF Cursor
    <2>4. UNCHANGED <<tasks, rearms, settledAt>> /\ cursor.state = "dormant" /\ cursor.generation = 0
      BY <1>1 DEF Activate
    <2>5. QED
      BY <2>3, <2>4 DEF Outcome, Moved, Activates
  <1>2. CASE CancelOffline
    <2>1. PICK t \in DOMAIN tasks :
            /\ tasks[t].status \in {"pending", "running"}
            /\ SetStatus(t, "cancelled") \/ SetStatus(t, "cancel_requested")
      BY <1>2 DEF CancelOffline
    <2>2. PICK status \in {"cancelled", "cancel_requested"} : SetStatus(t, status)
      BY <2>1
    <2> DEFINE record == [tasks[t] EXCEPT !.status = status]
    <2>3. SetTask(t, record)
      BY <2>2 DEF SetStatus
    <2>4. tasks[t] \in TaskRecord
      BY DEF GooseInv, TasksInv
    <2>5. record.status # "succeeded" /\ record.pred = tasks[t].pred
      BY <2>4 DEF TaskRecord
    <2>6. KeptAll
      <3> HIDE DEF record
      <3>1. QED
        BY <2>1, <2>3, <2>5, SetTaskKept
    <2>7. UNCHANGED <<cursor, rearms, settledAt>>
      BY <1>2 DEF CancelOffline
    <2>8. QED
      BY <2>6, <2>7 DEF Outcome, OnlyTasks
  <1>3. QED
    BY <1>1, <1>2

LEMMA NextOutcome ==
  ASSUME GooseInv, BusyInv, InFlightInv, [Next]_vars
  PROVE  Outcome
  <1>1. CASE Step
    BY <1>1, StepOutcome
  <1>2. CASE HandleEnds
    BY <1>2, HandleOutcome
  <1>3. CASE ReconcileAtBoot \/ Serve \/ Rearm \/ Mark
    BY <1>3, ReconcilingOutcome
  <1>4. CASE Activate \/ CancelOffline
    BY <1>4, OfflineOutcome
  <1>5. CASE \/ BootReconciled \/ EnterWait \/ WaitInterrupted \/ WaitDue
             \/ OtherWork \/ Drain \/ Boot \/ Ask \/ Stop \/ Crash \/ Tick
             \/ LeaseRunsOut \/ SetClockBack \/ Reconfigure \/ UNCHANGED vars
    <2>1. /\ UNCHANGED <<cursor, rearms, settledAt>>
          /\ UNCHANGED tasks \/ RecoverExpired
      BY <1>5 DEF BootReconciled, EnterWait, WaitInterrupted, WaitDue,
        OtherWork, Woken, Drain, Boot, Ask, Stop, Crash, Tick, LeaseRunsOut,
        SetClockBack, Reconfigure, Environment, LoopUnchanged, vars
    <2>2. KeptAll
      BY <2>1, SameKept, RecoverKept
    <2>3. QED
      BY <2>1, <2>2 DEF Outcome, OnlyTasks
  <1>6. QED
    BY <1>1, <1>2, <1>3, <1>4, <1>5 DEF Next, Worker

-----------------------------------------------------------------------------
(* While Goose works on its Task nothing else writes it: it stays in       *)
(* flight, also while the handler serves a stimulus.                       *)
LEMMA InFlightKept ==
  ASSUME GooseInv, BusyInv, InFlightInv, [Next]_vars
  PROVE  InFlightInv'
  <1>1. CASE StepExecute
    <2> DEFINE record == [Current EXCEPT !.status = "running",
                                         !.attempts = Current.attempts + 1]
    <2>1. /\ UNCHANGED cursor /\ cursor.task \in DOMAIN tasks
          /\ SetTask(cursor.task, record) \/ pc' \in {"wait", "top"}
      BY <1>1 DEF StepExecute, PreparedStep, Healthy
    <2>2. CASE SetTask(cursor.task, record)
      <3>1. Current \in TaskRecord
        BY <2>1 DEF GooseInv, TasksInv, Current
      <3>2. record.status = "running"
        BY <3>1 DEF TaskRecord
      <3>3. tasks'[cursor.task] = record
        BY <2>1, <2>2 DEF SetTask
      <3>4. QED
        BY <2>1, <3>2, <3>3 DEF InFlightInv, Current
    <2>3. CASE pc' \in {"wait", "top"}
      BY <2>3 DEF InFlightInv, Handling
    <2>4. QED
      BY <2>1, <2>2, <2>3
  <1>2. CASE (Step /\ ~StepExecute) \/ HandleEnds
    <2>1. pc' \in {"wait", "top", "down"}
      BY <1>2 DEF Step, StepIdle, StepNotDue, StepPrepare, StepDiffers,
        StepSubmit, StepFailed, StepSettle, StepActive, WriteBlocked,
        Replace, HandleEnds, Healthy, Unhealthy
    <2>2. QED
      BY <2>1 DEF InFlightInv, Handling
  <1>3. CASE ReconcileAtBoot \/ Serve \/ Rearm \/ Mark
    <2>1. UNCHANGED tasks
      BY <1>3 DEF ReconcileAtBoot, Serve, Rearm, Mark, ReconcileUnchanged
    <2>2. QED
      BY <1>3, <2>1, ReconcilingBusy DEF InFlightInv, BusyInv, Current
  <1>4. CASE \/ BootReconciled \/ EnterWait \/ WaitInterrupted \/ WaitDue
             \/ OtherWork \/ Drain \/ Boot \/ Crash \/ Activate
             \/ CancelOffline
    <2>1. pc' \in {"first", "wait", "step", "top", "down", "boot"}
      BY <1>4 DEF BootReconciled, EnterWait, WaitInterrupted, WaitDue,
        OtherWork, Woken, Drain, Boot, Crash, Activate, CancelOffline, Resume
    <2>2. QED
      BY <2>1 DEF InFlightInv, Handling
  <1>5. CASE \/ Ask \/ Stop \/ Tick \/ LeaseRunsOut \/ SetClockBack
             \/ Reconfigure \/ UNCHANGED vars
    <2>1. UNCHANGED <<cursor, tasks, pc, back>>
      BY <1>5 DEF Ask, Stop, Tick, LeaseRunsOut, SetClockBack, Reconfigure,
                  Environment, vars
    <2>2. QED
      BY <2>1 DEF InFlightInv, Handling, Current
  <1>6. QED
    BY <1>1, <1>2, <1>3, <1>4, <1>5 DEF Next, Worker

LEMMA InitChain == Init => ChainInv
  <1> SUFFICES ASSUME Init
               PROVE  ChainInv
    OBVIOUS
  <1>1. /\ cursor.generation = 0 /\ cursor.state = "dormant"
        /\ cursor.task = NoTask /\ cursor.pred = NoTask
        /\ pc = "down" /\ DOMAIN tasks = {}
    BY DEF Init
  <1>2. CapturedInv /\ InFlightInv /\ OneChain
    BY <1>1 DEF CapturedInv, InFlightInv, Handling, OneChain, Follows
  <1>3. QED
    BY <1>2 DEF ChainInv

LEMMA NextChain == StimulusInv /\ ChainInv /\ [Next]_vars => ChainInv'
  <1> SUFFICES ASSUME StimulusInv, ChainInv, [Next]_vars
               PROVE  ChainInv'
    OBVIOUS
  <1> USE DEF StimulusInv, ChainInv
  <1>1. Outcome /\ InFlightInv' /\ GooseInv'
    BY NextOutcome, InFlightKept, NextGoose
  <1>2. CapturedInv' /\ OneChain'
    BY <1>1, OnlyTasksChained, MovedChained, WokeChained DEF Outcome
  <1>3. QED
    BY <1>1, <1>2

LEMMA CycleInvariant == Spec => [](StimulusInv /\ ChainInv)
  <1>1. Init => StimulusInv /\ ChainInv
    BY InitStimulus, InitChain
  <1>2. StimulusInv /\ ChainInv /\ [Next]_vars => (StimulusInv /\ ChainInv)'
    BY NextStimulus, NextChain
  <1>3. QED
    BY <1>1, <1>2, PTL DEF Spec

(* However often a generation is prepared, submitted, executed and         *)
(* recovered, and whatever stops it, it has one Task, and that Task names  *)
(* the succeeded Task of the generation before.                            *)
THEOREM GooseOneChain == Spec => []OneChain
  <1>1. StimulusInv /\ ChainInv => OneChain
    BY DEF ChainInv
  <1>2. QED
    BY <1>1, CycleInvariant, PTL

-----------------------------------------------------------------------------
(* The cycle implements GoosePromise.                                      *)
Completed == IF cursor.generation = 0 THEN 0 ELSE cursor.generation - 1
Spent     == {r[1] : r \in rearms}

LEMMA InitPromise == Init => Promise!Init
  <1> SUFFICES ASSUME Init
               PROVE  Promise!Init
    OBVIOUS
  <1>1. /\ cursor.generation = 0 /\ cursor.state = "dormant"
        /\ DOMAIN tasks = {} /\ rearms = {}
    BY DEF Init
  <1>2. Mode = "seeded" /\ Completed = 0 /\ ~Answered /\ Spent = {}
    BY <1>1 DEF Mode, Completed, Answered, Spent
  <1>3. Answered = FALSE
    BY <1>2 DEF Answered
  <1>4. QED
    BY <1>2, <1>3 DEF Promise!Init, Completed, Spent

(* A generation is answered by its own Task.                               *)
LEMMA AnsweredIs ==
  ASSUME CapturedInv
  PROVE  Answered <=> /\ Succeeded(cursor.task)
                      /\ cursor.task.generation = cursor.generation
  BY DEF Answered, CapturedInv, Succeeded

(* A step that keeps who succeeded answers nothing, and one that keeps the *)
(* cursor's generation and the Tasks neither.                              *)
LEMMA AnsweredSame ==
  ASSUME GooseInv, KeptAll, cursor'.generation = cursor.generation
  PROVE  Answered' = Answered
  <1>1. (\E t \in DOMAIN tasks' :
           t.generation = cursor'.generation /\ tasks'[t].status = "succeeded")
        <=> (\E t \in DOMAIN tasks :
               t.generation = cursor.generation /\ tasks[t].status = "succeeded")
    BY DEF KeptAll, Kept
  <1>2. Answered' <=> Answered
    BY <1>1 DEF Answered, Succeeded
  <1>3. Answered \in BOOLEAN /\ Answered' \in BOOLEAN
    BY DEF Answered
  <1>4. QED
    BY <1>2, <1>3

LEMMA OnlyTasksPromise ==
  ASSUME GooseInv, CapturedInv, OnlyTasks
  PROVE  [Promise!Next]_Promise!promiseVars
  <1>1. UNCHANGED <<Mode, Completed, Spent>>
    BY DEF OnlyTasks, Mode, Completed, Spent
  <1>2. CASE KeptAll
    <2>1. Answered' = Answered
      BY <1>2, AnsweredSame DEF OnlyTasks
    <2>2. QED
      BY <1>1, <2>1 DEF Promise!promiseVars, Completed, Spent
  <1>3. CASE Answers
    <2>1. Mode = "due"
      BY <1>3 DEF Answers, Mode
    <2>2. UNCHANGED cursor /\ cursor.task.generation = cursor.generation
      BY <1>3 DEF OnlyTasks, Answers, CapturedInv
    <2>3. ~Answered
      BY <1>3, AnsweredIs DEF Answers, Succeeded, Current
    <2>4. Answered'
      BY <1>3, <2>2 DEF Answers, Answered, Succeeded, KeptSucceeded, Kept, Current
    <2>5. Answered' = TRUE
      BY <2>4 DEF Answered
    <2>6. Promise!Answer
      BY <1>1, <2>1, <2>3, <2>5 DEF Promise!Answer, Completed, Spent
    <2>7. QED
      BY <2>6 DEF Promise!Next
  <1>4. CASE Submits
    <2>1. UNCHANGED cursor
      BY DEF OnlyTasks
    <2>2. Answered' <=> Answered
      BY <1>4, <2>1 DEF Submits, Answered, Succeeded
    <2>3. Answered' = Answered
      BY <2>2 DEF Answered
    <2>4. QED
      BY <1>1, <2>3 DEF Promise!promiseVars, Completed, Spent
  <1>5. QED
    BY <1>2, <1>3, <1>4 DEF OnlyTasks

LEMMA MovedPromise ==
  ASSUME GooseInv, CapturedInv, OneChain, Moved
  PROVE  [Promise!Next]_Promise!promiseVars
  <1>1. UNCHANGED <<tasks, rearms>> /\ KeptAll /\ UNCHANGED Spent
    BY SameKept DEF Moved, Spent
  <1>2. cursor.generation \in Nat
    BY CursorFields
  <1>3. CASE Blocks
    <2>1. cursor'.generation = cursor.generation /\ cursor'.state = "blocked"
      BY <1>3, BlockedFields DEF Blocks
    <2>2. Mode = "due" /\ Mode' = "halted" /\ UNCHANGED Completed
      BY <1>3, <2>1 DEF Blocks, Mode, Completed
    <2>3. Answered' = Answered
      BY <1>1, <2>1, AnsweredSame
    <2>4. Promise!Halt
      BY <1>1, <2>2, <2>3 DEF Promise!Halt, Completed, Spent
    <2>5. QED
      BY <2>4 DEF Promise!Next
  <1>4. CASE Captures
    <2>1. cursor'.generation = cursor.generation /\ cursor'.state = "prepared"
      BY <1>4, PreparedFields DEF Captures
    <2>2. UNCHANGED <<Mode, Completed>>
      BY <1>4, <2>1 DEF Captures, Mode, Completed
    <2>3. Answered' = Answered
      BY <1>1, <2>1, AnsweredSame
    <2>4. QED
      BY <1>1, <2>2, <2>3 DEF Promise!promiseVars, Completed, Spent
  <1>5. CASE Settles
    <2>1. /\ cursor'.generation = cursor.generation + 1
          /\ cursor'.pred = cursor.task
          /\ cursor'.state \in {"dormant", "scheduled"}
      BY <1>5 DEF Settles, Settled
    <2>2. /\ cursor.generation >= 1 /\ cursor.task.generation = cursor.generation
          /\ cursor.task # NoTask
      BY <1>5, CursorFields DEF Settles, CapturedInv, Succeeded
    <2>3. Mode = "due" /\ Mode' \in {"due", "asleep"}
      BY <1>2, <1>5, <2>1, <2>2 DEF Settles, Mode
    <2>4. Completed' = Completed + 1
      BY <1>2, <2>1, <2>2 DEF Completed
    <2>5. Answered
      BY <1>5, <2>2 DEF Settles, Answered, Succeeded
    <2>6. Follows(cursor'.generation, cursor'.pred)
      BY <1>2, <1>5, <2>1, <2>2 DEF Follows, Settles
    <2>7. \A t \in DOMAIN tasks : t.generation < cursor'.generation
      BY <1>1, <2>1, <2>6, NextGeneration
    <2>8. ~Answered'
      BY <1>1, <1>2, <2>1, <2>7, CursorFields DEF Answered
    <2>9. Answered' = FALSE
      BY <2>8 DEF Answered
    <2>10. Promise!Complete
      BY <1>1, <2>3, <2>4, <2>5, <2>9 DEF Promise!Complete, Completed, Spent
    <2>11. QED
      BY <2>10 DEF Promise!Next
  <1>6. CASE Activates
    <2>1. /\ cursor.generation = 0 /\ cursor'.generation = cursor.generation + 1
          /\ cursor'.generation = 1
          /\ cursor.state = "dormant" /\ cursor'.state = "scheduled"
          /\ cursor.task = NoTask /\ cursor'.pred = cursor.pred
      BY <1>6 DEF Activates, CapturedInv
    <2>2. Mode = "seeded" /\ Mode' = "due" /\ UNCHANGED Completed
      BY <2>1 DEF Mode, Completed
    <2>3. Follows(cursor'.generation, cursor'.pred)
      BY <2>1 DEF OneChain, Follows
    <2>4. \A t \in DOMAIN tasks : t.generation < cursor'.generation
      BY <1>1, <2>1, <2>3, NextGeneration
    <2>5. ~Answered'
      BY <1>1, <2>1, <2>4, CursorFields DEF Answered
    <2>6. ~Answered
      BY <2>1, AnsweredIs, CursorFields DEF Succeeded
    <2>7. Answered' = Answered
      BY <2>5, <2>6 DEF Answered
    <2>8. Promise!Activate
      BY <1>1, <2>2, <2>7 DEF Promise!Activate, Completed, Spent
    <2>9. QED
      BY <2>8 DEF Promise!Next
  <1>7. QED
    BY <1>3, <1>4, <1>5, <1>6 DEF Moved

(* A stimulus that wakes the loop has not done so before: what it re-armed *)
(* then would lie ahead of the cursor.                                     *)
LEMMA WokePromise ==
  ASSUME GooseInv, RearmInv, NEW s \in Sources, Woke(s)
  PROVE  [Promise!Next]_Promise!promiseVars
  <1>1. /\ UNCHANGED tasks /\ KeptAll /\ cursor.state = "dormant"
        /\ cursor.generation >= 2 /\ cursor' = Rearmed(s)
        /\ stimuli[s].revision = cursor.revision
        /\ rearms' = rearms \cup {<<s, cursor.revision + 1>>}
    BY SameKept DEF Woke, CanonicalPredecessor
  <1>2. cursor'.generation = cursor.generation /\ cursor'.state = "scheduled"
    BY <1>1, RearmedFields
  <1>3. Mode = "asleep" /\ Mode' = "due" /\ UNCHANGED Completed
    BY <1>1, <1>2, CursorFields DEF Mode, Completed
  <1>4. Answered' = Answered
    BY <1>1, <1>2, AnsweredSame
  <1>5. s \notin Spent
    <2>1. ASSUME NEW r \in rearms, r[1] = s
          PROVE  FALSE
      <3>1. r[2] = cursor.revision + 1 /\ r[2] <= cursor.revision
        BY <1>1, <2>1 DEF RearmInv
      <3>2. QED
        BY <3>1, CursorFields
    <2>2. QED
      BY <2>1 DEF Spent
  <1>6. Spent' = Spent \cup {s}
    <2> DEFINE new == <<s, cursor.revision + 1>>
    <2>1. rearms' = rearms \cup {new} /\ new[1] = s
      BY <1>1
    <2> HIDE DEF new
    <2>2. \A x : x \in Spent' <=> \E r \in rearms' : r[1] = x
      BY DEF Spent
    <2>3. \A x : x \in Spent <=> \E r \in rearms : r[1] = x
      BY DEF Spent
    <2>4. \A x : x \in Spent' <=> x \in Spent \/ x = s
      BY <2>1, <2>2, <2>3
    <2>5. QED
      BY <2>4
  <1>7. Promise!Wake(s)
    BY <1>3, <1>4, <1>5, <1>6 DEF Promise!Wake, Completed, Spent
  <1>8. QED
    BY <1>7 DEF Promise!Next

(* Crashes, retries and lost answers are invisible: seen from outside, a   *)
(* generation is completed only by its own answer, a stimulus wakes the    *)
(* loop at most once, and a halted loop stays halted.                      *)
THEOREM GoosePromiseKept == Spec => ImplementsPromise
  <1>1. StimulusInv /\ ChainInv /\ [Next]_vars
          => [Promise!Next]_Promise!promiseVars
    <2> SUFFICES ASSUME StimulusInv, ChainInv, [Next]_vars
                 PROVE  [Promise!Next]_Promise!promiseVars
      OBVIOUS
    <2> USE DEF StimulusInv, ChainInv
    <2>1. Outcome
      BY NextOutcome
    <2>2. QED
      BY <2>1, OnlyTasksPromise, MovedPromise, WokePromise DEF Outcome
  <1>2. QED
    BY <1>1, InitPromise, CycleInvariant, PTL
    DEF Spec, ImplementsPromise, Promise!Promise

-----------------------------------------------------------------------------
(* A generation runs when it was asked for.  The loop sleeps only because  *)
(* its last decision asked for nothing.                                    *)
AskedInv ==
  /\ RunsWhenAsked
  /\ cursor.generation >= 2 /\ cursor.state = "dormant"
       => tasks[cursor.pred].wake = NoWake

(* A stimulus keeps the time at which it was accepted.                     *)
Fixed ==
  \A u \in Sources : Known(u) => stimuli'[u].accepted = stimuli[u].accepted
LEMMA AcceptedFixed ==
  ASSUME GooseInv, [Next]_vars
  PROVE  Fixed
  <1>1. CASE UNCHANGED stimuli
    BY <1>1 DEF Fixed
  <1>2. ASSUME NEW s \in Sources, NEW status, NEW to, Terminalize(s, status, to)
        PROVE  Fixed
    <2>1. stimuli' \in {stimuli, [stimuli EXCEPT ![s].status = status]}
      BY <1>2 DEF Terminalize
    <2>2. \A u \in Sources : [stimuli EXCEPT ![s].status = status][u].accepted
                               = stimuli[u].accepted
      BY DEF GooseInv, LedgerInv, Stimulus
    <2>3. QED
      BY <2>1, <2>2 DEF Fixed
  <1>3. ASSUME NEW s \in Sources, NEW observed, NEW to, Reconcile(s, observed, to)
        PROVE  Fixed
    <2>1. \/ UNCHANGED stimuli
          \/ Terminalize(s, Verdict(s, observed), to)
      BY <1>3 DEF Reconcile, RearmCursor
    <2>2. QED
      BY <1>1, <1>2, <2>1
  <1>4. ASSUME NEW s \in Sources, NEW from, Stimulate(s, from)
        PROVE  Fixed
    <2>1. CASE Reconcile(s, now, from)
      BY <1>3, <2>1
    <2>2. CASE ~Reconcile(s, now, from)
      <3>1. ~Known(s) \/ UNCHANGED stimuli
        BY <1>4, <2>2 DEF Stimulate
      <3>2. stimuli' \in {stimuli, [stimuli EXCEPT ![s] = Accepted]}
        BY <1>4, <2>2 DEF Stimulate
      <3>3. \A u \in Sources : u # s =>
              [stimuli EXCEPT ![s] = Accepted][u] = stimuli[u]
        BY DEF GooseInv, LedgerInv
      <3>4. QED
        BY <3>1, <3>2, <3>3 DEF Fixed
    <2>3. QED
      BY <2>1, <2>2
  <1>5. CASE ReconcileAtBoot
    BY <1>3, <1>5 DEF ReconcileAtBoot
  <1>6. CASE Serve
    <2>1. asked \in Sources /\ Stimulate(asked, pc)
      BY <1>6 DEF Serve, GooseInv, ControlInv
    <2>2. QED
      BY <1>4, <2>1
  <1>7. CASE Rearm \/ Mark
    <2>1. serving \in Sources
      BY <1>7 DEF Rearm, Mark, GooseInv, PlaceInv
    <2>2. QED
      BY <1>2, <1>3, <1>7, <2>1 DEF Rearm, Mark
  <1>8. CASE Step \/ HandleEnds
    <2>1. UNCHANGED stimuli
      BY <1>8 DEF Step, HandleEnds, StepIdle, StepNotDue, StepPrepare,
        StepDiffers, StepSubmit, StepFailed, StepSettle, StepActive,
        StepExecute, StepUnchanged
    <2>2. QED
      BY <1>1, <2>1
  <1>9. CASE \/ BootReconciled \/ EnterWait \/ WaitInterrupted \/ WaitDue
             \/ OtherWork \/ Drain \/ Boot \/ Activate \/ CancelOffline
             \/ Ask \/ Stop \/ Crash \/ Tick \/ LeaseRunsOut
             \/ SetClockBack \/ Reconfigure \/ UNCHANGED vars
    <2>1. UNCHANGED stimuli
      BY <1>9 DEF BootReconciled, EnterWait, WaitInterrupted, WaitDue,
        OtherWork, Woken, LoopUnchanged, Drain, Boot, Activate, CancelOffline,
        Ask, Stop, Crash, Tick, LeaseRunsOut, SetClockBack, Reconfigure,
        Environment, vars
    <2>2. QED
      BY <1>1, <2>1
  <1>10. QED
    BY <1>5, <1>6, <1>7, <1>8, <1>9 DEF Next, Worker

(* A later time is as justified.                                           *)
LEMMA JustifiedLater ==
  ASSUME GooseInv, OneChain, cursor.generation >= 2, NEW revision,
         NEW early \in Nat, NEW late \in Nat, late >= early,
         JustifiedAt(early, revision)
  PROVE  JustifiedAt(late, revision)
  <1>1. Succeeded(cursor.pred) /\ cursor.pred # NoTask
    BY CursorFields DEF OneChain, Follows
  <1>2. tasks[cursor.pred].wake \in Delays \cup {NoWake}
    BY <1>1 DEF GooseInv, TasksInv, TaskRecord, Succeeded
  <1>3. CASE tasks[cursor.pred].wake = NoWake
    <2>1. PICK s \in Sources : <<s, revision>> \in rearms /\ early >= stimuli[s].accepted
      BY <1>3 DEF JustifiedAt
    <2>2. stimuli[s].accepted \in Nat
      BY DEF GooseInv, LedgerInv, Stimulus
    <2>3. late >= stimuli[s].accepted
      BY <2>1, <2>2
    <2>4. QED
      BY <1>3, <2>1, <2>3 DEF JustifiedAt
  <1>4. CASE tasks[cursor.pred].wake # NoWake
    <2>1. tasks[cursor.pred].wake \in Nat
      BY <1>2, <1>4
    <2>2. settledAt \in Nat /\ Larger(tasks[cursor.pred].wake, MinDelay) \in Nat
      BY <2>1 DEF GooseInv, ClockInv, Larger
    <2>3. early >= settledAt + Larger(tasks[cursor.pred].wake, MinDelay)
      BY <1>4 DEF JustifiedAt
    <2>4. late >= settledAt + Larger(tasks[cursor.pred].wake, MinDelay)
      BY <2>2, <2>3
    <2>5. QED
      BY <1>4, <2>4 DEF JustifiedAt
  <1>5. QED
    BY <1>3, <1>4

(* What justifies a time stays.                                            *)
LEMMA JustifiedKept ==
  ASSUME GooseInv, OneChain, RearmInv, cursor.generation >= 2, KeptSucceeded,
         UNCHANGED settledAt, cursor'.pred = cursor.pred,
         rearms \subseteq rearms',
         Fixed, NEW time, NEW revision, JustifiedAt(time, revision)
  PROVE  JustifiedAt(time, revision)'
  <1>1. Succeeded(cursor.pred) /\ cursor.pred # NoTask
    BY CursorFields DEF OneChain, Follows
  <1>2. tasks'[cursor.pred].wake = tasks[cursor.pred].wake
    BY <1>1 DEF Succeeded, KeptSucceeded, Kept
  <1>3. \A s \in Sources : <<s, revision>> \in rearms =>
          /\ <<s, revision>> \in rearms'
          /\ stimuli'[s].accepted = stimuli[s].accepted
    BY DEF RearmInv, Fixed
  <1>4. QED
    BY <1>2, <1>3 DEF JustifiedAt

LEMMA OnlyTasksAsked ==
  ASSUME GooseInv, OneChain, RearmInv, AskedInv, OnlyTasks,
         Fixed
  PROVE  AskedInv'
  <1>1. UNCHANGED <<cursor, rearms, settledAt>>
    BY DEF OnlyTasks
  <1> SUFFICES ASSUME cursor.generation >= 2
               PROVE  AskedInv'
    BY <1>1 DEF AskedInv, RunsWhenAsked
  <1>2. Succeeded(cursor.pred) /\ cursor.pred # NoTask
    BY CursorFields DEF OneChain, Follows
  <1>3. CASE KeptAll \/ Answers
    <2>1. KeptSucceeded
      BY <1>3 DEF KeptAll, KeptSucceeded, Answers
    <2>2. tasks'[cursor.pred].wake = tasks[cursor.pred].wake
      BY <1>2, <2>1 DEF Succeeded, KeptSucceeded, Kept
    <2>3. \A time, revision : JustifiedAt(time, revision) => JustifiedAt(time, revision)'
      BY <1>1, <2>1, JustifiedKept
    <2>4. cursor.state = "scheduled" => JustifiedAt(cursor.due, cursor.revision)'
      BY <1>1, <2>3 DEF AskedInv, RunsWhenAsked
    <2>5. cursor.state = "prepared" =>
            JustifiedAt(cursor.task.captured, cursor.revision - 1)'
      BY <1>1, <2>3 DEF AskedInv, RunsWhenAsked
    <2>6. QED
      BY <1>1, <2>2, <2>4, <2>5 DEF AskedInv, RunsWhenAsked
  <1>4. CASE Submits
    <2>1. /\ tasks'[cursor.pred] = tasks[cursor.pred]
          /\ cursor.state = "prepared"
      BY <1>2, <1>4 DEF Submits, Succeeded
    <2>2. JustifiedAt(cursor.task.captured, cursor.revision - 1)
      BY <2>1 DEF AskedInv, RunsWhenAsked
    <2>3. \A revision : \A s \in Sources : <<s, revision>> \in rearms =>
            stimuli'[s].accepted = stimuli[s].accepted
      BY DEF RearmInv, Fixed
    <2>4. JustifiedAt(cursor.task.captured, cursor.revision - 1)'
      BY <1>1, <2>1, <2>2, <2>3 DEF JustifiedAt
    <2>5. QED
      BY <1>1, <2>1, <2>4 DEF AskedInv, RunsWhenAsked
  <1>5. QED
    BY <1>3, <1>4 DEF OnlyTasks

LEMMA MovedAsked ==
  ASSUME GooseInv, CapturedInv, OneChain, RearmInv, AskedInv, Moved,
         Fixed
  PROVE  AskedInv'
  <1>1. UNCHANGED <<tasks, rearms>> /\ KeptSucceeded
    BY SameKept DEF Moved, KeptAll, KeptSucceeded
  <1>2. CASE Blocks
    <2>1. cursor'.state = "blocked"
      BY <1>2, BlockedFields DEF Blocks
    <2>2. QED
      BY <2>1 DEF AskedInv, RunsWhenAsked
  <1>3. CASE Activates
    BY <1>3 DEF Activates, AskedInv, RunsWhenAsked
  <1>4. CASE Captures
    <2>1. /\ cursor'.generation = cursor.generation /\ cursor'.pred = cursor.pred
          /\ cursor'.state = "prepared" /\ cursor.state = "scheduled"
          /\ now >= cursor.due /\ UNCHANGED settledAt
      BY <1>4, PreparedFields DEF Captures
    <2>2. cursor'.revision - 1 = cursor.revision /\ cursor'.task.captured = now
      <3>1. cursor' = Prepared /\ cursor \in Cursor
        BY <1>4 DEF Captures, GooseInv, CursorInv
      <3>2. cursor'.revision = cursor.revision + 1 /\ cursor'.task = Captured
        BY <3>1 DEF Prepared, Cursor
      <3>3. QED
        BY <3>2, CursorFields DEF Captured
    <2>3. CASE cursor.generation >= 2
      <3>1. cursor.due \in Nat /\ now \in Nat
        BY <2>1 DEF GooseInv, CursorInv, ClockInv
      <3>2. JustifiedAt(cursor.due, cursor.revision)
        BY <2>1, <2>3 DEF AskedInv, RunsWhenAsked
      <3>3. JustifiedAt(now, cursor.revision)
        BY <2>1, <2>3, <3>1, <3>2, JustifiedLater
      <3>4. \A time, revision : JustifiedAt(time, revision) => JustifiedAt(time, revision)'
        BY <1>1, <2>1, <2>3, JustifiedKept
      <3>5. JustifiedAt(cursor.task.captured, cursor.revision - 1)'
        BY <2>2, <3>3, <3>4
      <3>6. QED
        BY <2>1, <3>5 DEF AskedInv, RunsWhenAsked
    <2>4. QED
      BY <2>1, <2>3 DEF AskedInv, RunsWhenAsked
  <1>5. CASE Settles
    <2> DEFINE wake == Current.wake
    <2>1. /\ cursor'.pred = cursor.task /\ settledAt' = now
          /\ cursor'.state = IF wake = NoWake THEN "dormant" ELSE "scheduled"
          /\ wake # NoWake => cursor'.due = NextDue(wake)
      BY <1>5 DEF Settles, Settled
    <2>2. tasks'[cursor'.pred].wake = wake
      BY <1>1, <2>1 DEF Current
    <2>3. wake \in Delays \cup {NoWake} /\ now \in Nat
      BY <1>5 DEF GooseInv, TasksInv, TaskRecord, ClockInv, Settles, Succeeded, Current
    <2>4. wake # NoWake => JustifiedAt(cursor.due, cursor.revision)'
      <3>1. SUFFICES ASSUME wake # NoWake
                     PROVE  JustifiedAt(cursor.due, cursor.revision)'
        OBVIOUS
      <3>2. Larger(wake, MinDelay) \in Nat
        BY <2>3, <3>1 DEF Larger
      <3>3. cursor'.due >= settledAt' + Larger(wake, MinDelay)
        <4> HIDE DEF wake
        <4>1. QED
          BY <2>1, <2>3, <3>1, <3>2 DEF NextDue
      <3>4. QED
        BY <2>2, <3>1, <3>3 DEF JustifiedAt
    <2> HIDE DEF wake
    <2>5. QED
      BY <2>1, <2>2, <2>4 DEF AskedInv, RunsWhenAsked
  <1>6. QED
    BY <1>2, <1>3, <1>4, <1>5 DEF Moved

LEMMA WokeAsked ==
  ASSUME GooseInv, OneChain, RearmInv, AskedInv, NEW s \in Sources, Woke(s),
         Fixed
  PROVE  AskedInv'
  <1>1. /\ UNCHANGED tasks /\ cursor.state = "dormant" /\ cursor.generation >= 2
        /\ cursor' = Rearmed(s)
        /\ rearms' = rearms \cup {<<s, cursor.revision + 1>>}
    BY DEF Woke, CanonicalPredecessor
  <1>2. /\ cursor'.pred = cursor.pred /\ cursor'.state = "scheduled"
        /\ cursor'.revision = cursor.revision + 1
    BY <1>1, RearmedFields
  <1>3. cursor'.due = stimuli[s].accepted
    BY <1>1 DEF GooseInv, CursorInv, Cursor, Rearmed
  <1>4. tasks'[cursor'.pred].wake = NoWake
    BY <1>1, <1>2 DEF AskedInv
  <1>5. /\ <<s, cursor'.revision>> \in rearms'
        /\ stimuli'[s].accepted \in Nat /\ cursor'.due >= stimuli'[s].accepted
    <2>1. stimuli[s].accepted \in Nat
      BY DEF GooseInv, LedgerInv, Stimulus
    <2>2. stimuli'[s].accepted = stimuli[s].accepted
      BY DEF Fixed, Woke
    <2>3. QED
      BY <1>1, <1>2, <1>3, <2>1, <2>2
  <1>6. JustifiedAt(cursor.due, cursor.revision)'
    BY <1>4, <1>5 DEF JustifiedAt
  <1>7. QED
    BY <1>2, <1>6 DEF AskedInv, RunsWhenAsked

LEMMA InitAsked == Init => AskedInv
  <1> SUFFICES ASSUME Init
               PROVE  AskedInv
    OBVIOUS
  <1>1. cursor.generation = 0
    BY DEF Init
  <1>2. QED
    BY <1>1 DEF AskedInv, RunsWhenAsked

LEMMA NextAsked ==
  StimulusInv /\ ChainInv /\ AskedInv /\ [Next]_vars => AskedInv'
  <1> SUFFICES ASSUME StimulusInv, ChainInv, AskedInv, [Next]_vars
               PROVE  AskedInv'
    OBVIOUS
  <1> USE DEF StimulusInv, ChainInv
  <1>1. Outcome /\ Fixed
    BY NextOutcome, AcceptedFixed
  <1>2. QED
    BY <1>1, OnlyTasksAsked, MovedAsked, WokeAsked DEF Outcome

(* No restart, lost or repeated wake-up, or model change makes a           *)
(* generation run before its time or unasked; only the decision before it  *)
(* or an accepted stimulus can ask.                                        *)
THEOREM GooseRunsWhenAsked == Spec => []RunsWhenAsked
  <1>1. Init => AskedInv
    BY InitAsked
  <1>2. StimulusInv /\ ChainInv /\ AskedInv /\ [Next]_vars => AskedInv'
    BY NextAsked
  <1>3. AskedInv => RunsWhenAsked
    BY DEF AskedInv
  <1>4. QED
    BY <1>1, <1>2, <1>3, CycleInvariant, PTL DEF Spec

(* The cycle is one chain, and every generation of it comes when asked.    *)
THEOREM GooseChainOnTime == Spec => []ChainOnTime
  <1>1. OneChain /\ RunsWhenAsked => ChainOnTime
    BY DEF ChainOnTime
  <1>2. QED
    BY GooseOneChain, GooseRunsWhenAsked, <1>1, PTL
=============================================================================
