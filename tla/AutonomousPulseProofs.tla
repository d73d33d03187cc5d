------------------------ MODULE AutonomousPulseProofs ------------------------
(***************************************************************************)
(* The autonomous cognition pulse, for any cadences, budget, number of     *)
(* attempts, faults and disturbances: every generation is paid for once    *)
(* and its answer reaches the lineage, the pulse is silent for a cause,    *)
(* and it keeps the promise made to its operator.                          *)
(***************************************************************************)
EXTENDS AutonomousPulseProperties, SequenceTheorems, TLAPS

USE PulseAssumption

-----------------------------------------------------------------------------
(* The inductive invariant.  First the types, one store at a time, with    *)
(* what makes them last.                                                   *)

(* A cognition that is named is one of the lineage, and is never replaced. *)
NamedInv ==
  cursor.current # NoTask =>
    /\ cursor.snapshot \in Snapshot /\ cursor.snapshot.due # NoTime
    /\ cursor.current = Append(cursor.predecessor, cursor.snapshot)
    /\ cursor.current \in DOMAIN tasks
    /\ cursor.state = "blocked" =>
         Named.status \in {"failed", "cancelled", "manual_review"}

CursorInv ==
  /\ cursor \in Cursor \cup {NoCursor}
  /\ Seeded => ValidCursor(cursor) /\ NamedInv

TasksInv ==
  /\ DOMAIN tasks \subseteq Cognition
  /\ \A id \in DOMAIN tasks :
       /\ id # <<>>
       /\ tasks[id] \in Task
       /\ tasks[id].retired => tasks[id].status = "cancelled"

SnapshotsInv ==
  /\ DOMAIN snapshots \subseteq Snapshot
  /\ \A s \in DOMAIN snapshots : snapshots[s] \in Task /\ s.wake <= wake

OthersInv ==
  /\ actions \subseteq DOMAIN tasks
  /\ spent \in Seq(Permit) /\ wake \in Nat /\ now \in Nat /\ faults \in Nat

Recording == {"record", "snapshot", "claim", "name"}
Calling   == {"provider", "permitted", "called"}
Place     == {"down", "loop", "refresh", "reset", "observe", "gate"}
             \cup Recording \cup Calling

(* What the service relies on between two writes.                          *)
PlaceInv ==
  /\ pc \in Place
  /\ mode \in {"first", "quiet", "quiet_settling", "settling", "tool"}
  /\ booting \in BOOLEAN /\ monitoring \in BOOLEAN
  /\ pc # "down" => Seeded
  /\ pc \in Recording => cursor.state = "preparing"
  /\ pc \in {"reset", "gate"} \cup Calling => cursor.state = "prepared"
  /\ pc \in Calling =>
       /\ Named.status = "running"
       /\ cursor.current \in actions <=> pc = "called"
  /\ pc = "snapshot" =>
       executing \in DOMAIN snapshots /\ snapshots[executing].status = "running"
  /\ pc \in {"claim", "name"} =>
       Recorded /\ snapshots[OwnSnapshot].status = "succeeded"
  /\ pc = "name" => Claimed

TypeInv == CursorInv /\ TasksInv /\ SnapshotsInv /\ OthersInv /\ PlaceInv

(* The lineage: every cognition, the operator's too, was claimed behind    *)
(* a predecessor, and of those behind the present one only the named one   *)
(* may have been paid for.  An answer is one that was paid for.            *)
Behind(id) ==
  /\ Len(id) <= Len(cursor.predecessor) + 1
  /\ Origin(id) = SubSeq(cursor.predecessor, 1, Len(id) - 1)

LineageInv ==
  /\ ~Seeded => DOMAIN tasks = {}
  /\ Seeded =>
       /\ \A id \in DOMAIN tasks : Behind(id)
       /\ \A id \in actions :
            Own(id) /\ Len(id) = Len(cursor.predecessor) + 1 =>
              id = cursor.current
  /\ \A id \in DOMAIN tasks : tasks[id].status = "succeeded" => id \in actions

(* A snapshot that is not over is that of the generation in preparation,   *)
(* or of a wake that has moved since; it is left running by a crash only,  *)
(* which the first step of the next service does not survive.              *)
Unfinished(s) == s.wake = wake /\ Nonterminal(snapshots[s])

SnapshotInv ==
  \A s \in DOMAIN snapshots : Unfinished(s) =>
    /\ Seeded /\ cursor.state \in {"preparing", "blocked"}
    /\ s = OwnSnapshot
    /\ snapshots[s].status # "pending" =>
         \/ pc = "snapshot" /\ executing = s
         \/ pc = "down" \/ booting \/ mode = "tool"
         \/ pc = "loop" /\ ~monitoring

(* A step is taken by a service that has asked for it, and one that is     *)
(* quiet without a fault is at a prepared cognition, which has no answer.  *)
QuietAt ==
  /\ pc \in {"observe", "gate"} \cup Calling
  /\ cursor.state = "prepared"
  /\ pc = "observe" => Named.status # "succeeded"

StepInv ==
  /\ pc \notin {"down", "loop"} => booting \/ monitoring \/ mode = "tool"
  /\ mode = "tool" => pc \in {"observe"} \cup Recording
  /\ Quiet /\ faults = 0 => QuietAt

CognitionInv ==
  TypeInv /\ LineageInv /\ SnapshotInv /\ StepInv /\ GenerationsAccounted

-----------------------------------------------------------------------------
(* Cognitions are sequences of snapshots.                                  *)

LEMMA NextCognition ==
  ASSUME NEW p \in Cognition, NEW s \in Snapshot
  PROVE  /\ Append(p, s) \in Cognition /\ Append(p, s) # <<>>
         /\ Append(p, s) # NoTask
         /\ Len(p) \in Nat /\ Len(Append(p, s)) = Len(p) + 1
         /\ Append(p, s)[Len(p) + 1] = s
         /\ \A g \in 0 .. Len(p) :
              SubSeq(Append(p, s), 1, g) = SubSeq(p, 1, g)
<1>1. p \in Seq(Snapshot) /\ Len(p) \in Nat
  BY LenProperties DEF Cognition
<1> DEFINE next == Append(p, s)
<1>2. /\ next \in Seq(Snapshot) /\ next # <<>>
      /\ Len(next) = Len(p) + 1
      /\ \A i \in 1 .. Len(p) : next[i] = p[i]
      /\ next[Len(p) + 1] = s
  BY <1>1, AppendProperties
<1>3. ASSUME NEW g \in 0 .. Len(p)
      PROVE  SubSeq(next, 1, g) = SubSeq(p, 1, g)
  <2> HIDE DEF next
  <2>1. /\ SubSeq(p, 1, g) \in Seq(Snapshot)
        /\ Len(SubSeq(p, 1, g)) = IF 1 <= g THEN g - 1 + 1 ELSE 0
        /\ \A i \in 1 .. g - 1 + 1 : SubSeq(p, 1, g)[i] = p[1 + i - 1]
    <3>1. \A i \in 1 .. g : p[i] \in Snapshot
      BY <1>1, ElementOfSeq
    <3> QED BY <3>1, <1>1, SubSeqProperties
  <2>2. /\ SubSeq(next, 1, g) \in Seq(Snapshot)
        /\ Len(SubSeq(next, 1, g)) = IF 1 <= g THEN g - 1 + 1 ELSE 0
        /\ \A i \in 1 .. g - 1 + 1 : SubSeq(next, 1, g)[i] = next[1 + i - 1]
    <3>1. \A i \in 1 .. g : next[i] \in Snapshot
      BY <1>1, <1>2, ElementOfSeq
    <3> QED BY <3>1, <1>1, <1>2, SubSeqProperties
  <2>3. \A i \in 1 .. Len(SubSeq(next, 1, g)) :
           SubSeq(next, 1, g)[i] = SubSeq(p, 1, g)[i]
    BY <1>1, <1>2, <2>1, <2>2
  <2>4. Len(SubSeq(next, 1, g)) = Len(SubSeq(p, 1, g))
    BY <2>1, <2>2
  <2> QED BY <2>1, <2>2, <2>3, <2>4, SeqEqual
<1>4. next # NoTask
  BY <1>2, NamesAssumption DEF Cognition
<1> QED BY <1>1, <1>2, <1>3, <1>4 DEF Cognition

(* The last snapshot of a cognition, and all of it.                        *)
LEMMA CognitionFields ==
  ASSUME NEW id \in Cognition
  PROVE  /\ Len(id) \in Nat
         /\ id # <<>> => Len(id) >= 1 /\ id[Len(id)] \in Snapshot
         /\ SubSeq(id, 1, Len(id)) = id
<1>1. id \in Seq(Snapshot) /\ Len(id) \in Nat
  BY LenProperties DEF Cognition
<1>2. id # <<>> => Len(id) >= 1
  BY <1>1, EmptySeq
<1>3. id # <<>> => id[Len(id)] \in Snapshot
  BY <1>1, <1>2, ElementOfSeq
<1>4. SubSeq(id, 1, Len(id)) = id
  BY <1>1, SubSeqFull
<1> QED BY <1>1, <1>2, <1>3, <1>4

LEMMA EmptyCognition == <<>> \in Cognition /\ Len(<<>>) = 0
BY DEF Cognition

-----------------------------------------------------------------------------
(* Tasks.                                                                  *)

LEMMA RecoveredTask ==
  ASSUME NEW task \in Task, NEW r \in Recovered(task)
  PROVE  /\ r \in Task
         /\ r.attempts = task.attempts /\ r.retired = task.retired
         /\ \/ r = task
            \/ /\ task.status = "cancel_requested" /\ r.status = "cancelled"
            \/ /\ task.status = "running"
               /\ r.status \in {"pending", "failed", "manual_review"}
BY DEF Recovered, Task, Status

LEMMA CancelledTask ==
  ASSUME NEW task \in Task, NEW t \in Cancelled(task)
  PROVE  /\ t \in Task /\ t.retired = task.retired
         /\ task.status \in {"pending", "running"}
         /\ \/ t.status = "cancelled"
            \/ t.status = "cancel_requested" /\ task.status = "running"
         /\ Nonterminal(task)
<1>1. PICK r \in Recovered(task) :
        /\ r.status \in {"pending", "running"}
        /\ t = [r EXCEPT !.status =
                  IF r.status = "pending" THEN "cancelled"
                  ELSE "cancel_requested"]
  BY DEF Cancelled
<1>2. /\ r \in Task /\ r.retired = task.retired
      /\ task.status \in {"pending", "running"}
      /\ r.status = "pending" \/ task.status = "running"
  BY <1>1, RecoveredTask
<1>3. PICK status \in {"cancelled", "cancel_requested"} :
        /\ status = IF r.status = "pending" THEN "cancelled"
                    ELSE "cancel_requested"
        /\ t = [r EXCEPT !.status = status]
  BY <1>1
<1>4. t \in Task /\ t.status = status /\ t.retired = task.retired
  BY <1>2, <1>3 DEF Task, Status
<1> QED BY <1>2, <1>3, <1>4 DEF Nonterminal

LEMMA RecoverEach ==
  Recover =>
    /\ DOMAIN tasks' = DOMAIN tasks /\ DOMAIN snapshots' = DOMAIN snapshots
    /\ \A id \in DOMAIN tasks : tasks'[id] \in Recovered(tasks[id])
    /\ \A s \in DOMAIN snapshots : snapshots'[s] \in Recovered(snapshots[s])
BY DEF Recover, RecoverAll

LEMMA StartedTask ==
  ASSUME TypeInv, NEW task \in Task
  PROVE  /\ Started(task) \in Task
         /\ Started(task).status = "running"
         /\ Started(task).retired = task.retired
<1>1. Lease \in Nat
  BY DEF Lease, TypeInv, OthersInv
<1>2. PICK until \in Nat : until = Lease
  BY <1>1
<1>3. PICK attempts \in Nat : attempts = task.attempts + 1
  BY DEF Task
<1>4. Started(task) = [task EXCEPT !.status = "running", !.attempts = attempts,
                                   !.until = until]
  BY <1>2, <1>3 DEF Started
<1> QED BY <1>4 DEF Task, Status

LEMMA AnsweredTask ==
  ASSUME NEW task \in Task, NEW t \in Answered(task)
  PROVE  /\ t \in Task
         /\ t.status \in {"succeeded", "failed", "manual_review"}
         /\ t.retired = task.retired
         /\ t.status = "succeeded" => t.decision \in Decision
BY DEF Answered, Task, Status

LEMMA NewTaskIsTask == NewTask \in Task /\ NewTask.status = "pending" /\ ~NewTask.retired
BY DEF NewTask, Task, Status

(* The fields of a row.                                                    *)
LEMMA CursorFields ==
  ASSUME CursorInv, Seeded
  PROVE  /\ cursor \in Cursor /\ ValidCursor(cursor) /\ NamedInv
         /\ cursor.state \in State
         /\ cursor.predecessor \in Cognition /\ Len(cursor.predecessor) \in Nat
         /\ cursor.anchor \in Nat /\ cursor.due \in Nat /\ cursor.due # NoTime
         /\ cursor.observed \in Nat \cup {NoTime}
         /\ cursor.snapshot \in Snapshot \cup {NoTask}
         /\ cursor.current \in Cognition \cup {NoTask}
<1>1. cursor \in Cursor /\ ValidCursor(cursor) /\ NamedInv
  BY DEF CursorInv, Seeded
<1>2. cursor.predecessor \in Cognition
  BY <1>1 DEF Cursor
<1>3. Len(cursor.predecessor) \in Nat
  BY <1>2, CognitionFields
<1> QED BY <1>1, <1>2, <1>3 DEF Cursor

(* What a row says by its state.                                           *)
LEMMA CursorStates ==
  ASSUME CursorInv, Seeded
  PROVE  /\ cursor.state \in {"idle", "quiescent"} =>
              cursor.observed = NoTime /\ cursor.current = NoTask
         /\ cursor.state = "preparing" =>
              cursor.observed \in Nat /\ cursor.current = NoTask
         /\ cursor.state = "prepared" =>
              cursor.observed \in Nat /\ cursor.current # NoTask
         /\ cursor.current # NoTask => cursor.state \in {"prepared", "blocked"}
BY CursorFields DEF ValidCursor, State

(* A prepared cursor names a cognition of the pulse behind the lineage.    *)
LEMMA NamedIsNext ==
  ASSUME TypeInv, Seeded, cursor.current # NoTask
  PROVE  /\ cursor.current \in DOMAIN tasks /\ Named \in Task
         /\ cursor.current \in Cognition
         /\ Len(cursor.current) = Len(cursor.predecessor) + 1
         /\ Origin(cursor.current) = cursor.predecessor
         /\ Own(cursor.current)
<1>1. /\ cursor.predecessor \in Cognition /\ cursor.snapshot \in Snapshot
      /\ cursor.snapshot.due # NoTime
      /\ cursor.current = Append(cursor.predecessor, cursor.snapshot)
      /\ cursor.current \in DOMAIN tasks
  BY CursorFields DEF TypeInv, NamedInv
<1>2. /\ cursor.current \in Cognition
      /\ Len(cursor.current) = Len(cursor.predecessor) + 1
      /\ Len(cursor.predecessor) \in Nat
      /\ cursor.current[Len(cursor.predecessor) + 1] = cursor.snapshot
      /\ SubSeq(cursor.current, 1, Len(cursor.predecessor))
           = SubSeq(cursor.predecessor, 1, Len(cursor.predecessor))
  BY <1>1, NextCognition
<1>3. SubSeq(cursor.predecessor, 1, Len(cursor.predecessor)) = cursor.predecessor
  BY <1>1, CognitionFields
<1>4. Named \in Task
  BY <1>1 DEF TypeInv, TasksInv, Named
<1> QED BY <1>1, <1>2, <1>3, <1>4 DEF Origin, Own

(* The snapshot and the cognition of a generation in preparation.          *)
LEMMA OwnIsNext ==
  ASSUME TypeInv, Seeded, cursor.state = "preparing"
  PROVE  /\ OwnSnapshot \in Snapshot /\ OwnSnapshot.wake = wake
         /\ OwnSnapshot.due # NoTime
         /\ OwnCognition \in Cognition /\ OwnCognition # <<>>
         /\ OwnCognition = Append(cursor.predecessor, OwnSnapshot)
         /\ OwnCognition # NoTask
BY CursorFields, CursorStates, NextCognition
   DEF TypeInv, OthersInv, OwnSnapshot, OwnCognition, Snapshot

-----------------------------------------------------------------------------
(* What a step may do to each of the stores.                               *)

LEMMA CursorMoves ==
  ASSUME Next \/ UNCHANGED vars
  PROVE  \/ UNCHANGED cursor
         \/ Seed \/ Freeze \/ Name \/ Settle \/ ResetRetired
         \/ BlockedByFailure \/ ResumeBlocked \/ RecordFailed \/ ClaimRefused
BY DEF Next, Progress, vars, durable, Boot, WaitDue, RefreshNotApplicable,
       RefreshBlocked, Retire, ObserveBlocked, ObserveWaiting, Ended,
       ObserveNotDue, ObserveBudget, ResumeRolledBack, Resume, RecordSubmit,
       RecordStart, RecordFinish, RecordDuplicate, RecordNotStartable,
       ClaimDuplicate, ClaimSubmit, GateCloses, StartCognition, Consume, Call,
       Declined, Answer, Tick, ClockSetBack, WakeMoves, OtherSpends,
       CancelTask, CancelSnapshot, PrepareTool, OneShotTool, ObserveTool, WaitInterrupted,
       Crash, Unavailable, AnswerRefused

LEMMA TaskMoves ==
  ASSUME Next \/ UNCHANGED vars
  PROVE  \/ UNCHANGED tasks
         \/ Recover /\ pc \in {"down", "loop"}
         \/ CancelTask \/ PrepareTool \/ OneShotTool
         \/ Retire \/ ClaimSubmit \/ StartCognition \/ Declined \/ Answer
BY DEF Next, Progress, vars, durable, Boot, WaitDue, RefreshNotApplicable,
       RefreshBlocked, ResetRetired, ObserveBlocked, ObserveWaiting, Ended,
       BlockedByFailure, Settle, Block, ObserveNotDue, ObserveBudget, Freeze,
       ResumeRolledBack, ResumeBlocked, Resume, RecordSubmit, RecordStart,
       RecordFinish, RecordDuplicate, RecordNotStartable, RecordFailed,
       ClaimDuplicate, ClaimRefused, Name, GateCloses, Consume, Call, Tick,
       ClockSetBack, WakeMoves, OtherSpends, CancelSnapshot, ObserveTool,
       WaitInterrupted, Seed, Crash, Unavailable, AnswerRefused

LEMMA SnapshotMoves ==
  ASSUME Next \/ UNCHANGED vars
  PROVE  \/ UNCHANGED snapshots
         \/ Recover /\ pc \in {"down", "loop"}
         \/ RecordSubmit \/ RecordStart \/ RecordFinish \/ CancelSnapshot
BY DEF Next, Progress, vars, durable, Boot, WaitDue, RefreshNotApplicable,
       RefreshBlocked, Retire, ResetRetired, ObserveBlocked, ObserveWaiting,
       Ended, BlockedByFailure, Settle, Block, ObserveNotDue, ObserveBudget,
       Freeze, ResumeRolledBack, ResumeBlocked, Resume, RecordDuplicate,
       RecordNotStartable, RecordFailed, ClaimDuplicate, ClaimRefused,
       ClaimSubmit, Name, GateCloses, StartCognition, Consume, Call, Declined,
       Answer, Tick, ClockSetBack, WakeMoves, OtherSpends, CancelTask,
       PrepareTool, OneShotTool, ObserveTool, WaitInterrupted, Seed, Crash,
       Unavailable, AnswerRefused

LEMMA ActionMoves ==
  ASSUME Next \/ UNCHANGED vars
  PROVE  UNCHANGED actions \/ OneShotTool \/ Call
BY DEF Next, Progress, vars, durable, Boot, WaitDue, RefreshNotApplicable,
       RefreshBlocked, Retire, ResetRetired, ObserveBlocked, ObserveWaiting,
       Ended, BlockedByFailure, Settle, Block, ObserveNotDue, ObserveBudget,
       Freeze, ResumeRolledBack, ResumeBlocked, Resume, RecordSubmit,
       RecordStart, RecordFinish, RecordDuplicate, RecordNotStartable,
       RecordFailed, ClaimDuplicate, ClaimRefused, ClaimSubmit, Name,
       GateCloses, StartCognition, Consume, Declined, Answer, Tick,
       ClockSetBack, WakeMoves, OtherSpends, CancelTask, CancelSnapshot, PrepareTool,
       ObserveTool, WaitInterrupted, Seed, Crash, Unavailable, AnswerRefused

(* The wake moves outside the steps of the service.                        *)
LEMMA WakeChanges ==
  ASSUME Next \/ UNCHANGED vars
  PROVE  UNCHANGED wake \/ (wake' = wake + 1 /\ pc \in {"down", "loop"})
<1>1. UNCHANGED wake \/ WakeMoves
  BY DEF Next, Progress, vars, durable, Boot, WaitDue,
       RefreshNotApplicable, RefreshBlocked, Retire, ResetRetired,
       ObserveBlocked, ObserveWaiting, Ended, BlockedByFailure, Settle, Block,
       ObserveNotDue, ObserveBudget, Freeze, ResumeRolledBack, ResumeBlocked,
       Resume, RecordSubmit, RecordStart, RecordFinish, RecordDuplicate,
       RecordNotStartable, RecordFailed, ClaimDuplicate, ClaimRefused,
       ClaimSubmit, Name, GateCloses, StartCognition, Consume, Call, Declined,
       Answer, OtherSpends, CancelTask, CancelSnapshot, PrepareTool, OneShotTool,
       ObserveTool, WaitInterrupted, Seed, Crash, Unavailable, AnswerRefused,
       Tick, ClockSetBack
<1> QED BY <1>1 DEF WakeMoves

(* The clock, the budget and the count of faults.                          *)
LEMMA ClockMoves ==
  ASSUME Next \/ UNCHANGED vars
  PROVE  UNCHANGED now \/ Tick \/ ClockSetBack
BY DEF Next, Progress, vars, durable, bounds, Disturb, Fault, Boot, WaitDue,
       RefreshNotApplicable, RefreshBlocked, Retire, ResetRetired,
       ObserveBlocked, ObserveWaiting, Ended, BlockedByFailure, Settle, Block,
       ObserveNotDue, ObserveBudget, Freeze, ResumeRolledBack, ResumeBlocked,
       Resume, RecordSubmit, RecordStart, RecordFinish, RecordDuplicate,
       RecordNotStartable, RecordFailed, ClaimDuplicate, ClaimRefused,
       ClaimSubmit, Name, GateCloses, StartCognition, Consume, Call, Declined,
       Answer, WakeMoves, OtherSpends, CancelTask, CancelSnapshot, PrepareTool, OneShotTool,
       ObserveTool, WaitInterrupted, Seed, Crash, Unavailable, AnswerRefused

LEMMA SpentMoves ==
  ASSUME Next \/ UNCHANGED vars
  PROVE  \/ UNCHANGED spent
         \/ OtherSpends /\ spent' = Append(spent, [at |-> now, key |-> NoTask])
         \/ Consume /\ spent' = Spent(cursor.current)
         \/ OneShotTool /\ \E id \in DOMAIN tasks : spent' = Spent(id)
<1>1. UNCHANGED spent \/ OtherSpends \/ Consume \/ OneShotTool
  BY DEF Next, Progress, vars, durable, bounds, Disturb, Fault, Boot, WaitDue,
         RefreshNotApplicable, RefreshBlocked, Retire, ResetRetired,
         ObserveBlocked, ObserveWaiting, Ended, BlockedByFailure, Settle, Block,
         ObserveNotDue, ObserveBudget, Freeze, ResumeRolledBack, ResumeBlocked,
         Resume, RecordSubmit, RecordStart, RecordFinish, RecordDuplicate,
         RecordNotStartable, RecordFailed, ClaimDuplicate, ClaimRefused,
         ClaimSubmit, Name, GateCloses, StartCognition, Call, Declined,
         Answer, WakeMoves, CancelTask, CancelSnapshot, PrepareTool,
         ObserveTool, WaitInterrupted, Seed, Crash, Unavailable, AnswerRefused,
         Tick, ClockSetBack
<1>2. OneShotTool => UNCHANGED spent \/ \E id \in DOMAIN tasks : spent' = Spent(id)
  BY DEF OneShotTool
<1> QED BY <1>1, <1>2 DEF OtherSpends, Consume

LEMMA FaultMoves ==
  ASSUME Next \/ UNCHANGED vars
  PROVE  UNCHANGED faults \/ faults' = faults + 1
BY DEF Next, Progress, vars, durable, bounds, Disturb, Fault, Boot, WaitDue,
       RefreshNotApplicable, RefreshBlocked, Retire, ResetRetired,
       ObserveBlocked, ObserveWaiting, Ended, BlockedByFailure, Settle, Block,
       ObserveNotDue, ObserveBudget, Freeze, ResumeRolledBack, ResumeBlocked,
       Resume, RecordSubmit, RecordStart, RecordFinish, RecordDuplicate,
       RecordNotStartable, RecordFailed, ClaimDuplicate, ClaimRefused,
       ClaimSubmit, Name, GateCloses, StartCognition, Consume, Call, Declined,
       Answer, WakeMoves, OtherSpends, CancelTask, CancelSnapshot, PrepareTool, OneShotTool,
       ObserveTool, WaitInterrupted, Seed, Crash, Unavailable, AnswerRefused,
       Tick, ClockSetBack

-----------------------------------------------------------------------------
(* What each of the steps that write a store writes.                       *)

(* A block leaves the rest of the row as it is.                            *)
Blocks ==
  BlockedByFailure \/ ResumeBlocked \/ RecordFailed \/ ClaimRefused

LEMMA BlockMove ==
  ASSUME TypeInv, Blocks
  PROVE  /\ Seeded /\ cursor'.state = "blocked" /\ cursor' \in Cursor
         /\ cursor' # NoCursor /\ ValidCursor(cursor')
         /\ cursor'.predecessor = cursor.predecessor
         /\ cursor'.anchor = cursor.anchor /\ cursor'.due = cursor.due
         /\ cursor'.observed = cursor.observed
         /\ cursor'.snapshot = cursor.snapshot
         /\ cursor'.current = cursor.current
         /\ UNCHANGED <<tasks, snapshots, actions, spent, wake, now, bounds>>
         /\ \/ cursor.state = "preparing"
            \/ /\ cursor.state = "prepared" /\ ~Nonterminal(Named)
               /\ Named.status # "succeeded"
<1>1. /\ Seeded /\ Block
      /\ \/ cursor.state = "preparing"
         \/ /\ cursor.state = "prepared" /\ ~Nonterminal(Named)
            /\ Named.status # "succeeded"
  BY DEF Blocks, BlockedByFailure, ResumeBlocked, RecordFailed, ClaimRefused,
         Observing, TypeInv, PlaceInv, Recording
<1>2. cursor \in Cursor
  BY <1>1, CursorFields DEF TypeInv
<1>3. cursor' = [cursor EXCEPT !.state = "blocked"]
  BY <1>1 DEF Block, Replace
<1>4. cursor' \in Cursor /\ cursor'.state = "blocked"
  BY <1>2, <1>3 DEF Cursor, State
<1>5. cursor' # NoCursor
  BY <1>4, NamesAssumption
<1>6. ValidCursor(cursor')
  BY <1>4 DEF ValidCursor
<1> QED BY <1>1, <1>2, <1>3, <1>4, <1>5, <1>6 DEF Block, Cursor

LEMMA RestingRow ==
  ASSUME now \in Nat, NEW p \in Cognition, NEW d \in Decision
  PROVE  /\ Resting(p, d) \in Cursor /\ Resting(p, d) # NoCursor
         /\ ValidCursor(Resting(p, d))
         /\ Resting(p, d).state \in {"idle", "quiescent"}
         /\ Resting(p, d).predecessor = p
         /\ Resting(p, d).due \in {now + ContinueCadence, now + QuiescentCadence}
         /\ Resting(p, d).observed = NoTime
         /\ Resting(p, d).current = NoTask
<1>1. PICK due \in Nat :
        /\ due = now + IF d = "stop" THEN QuiescentCadence ELSE ContinueCadence
        /\ due \in {now + ContinueCadence, now + QuiescentCadence}
  OBVIOUS
<1>2. PICK state \in {"idle", "quiescent"} :
        state = IF d = "stop" THEN "quiescent" ELSE "idle"
  OBVIOUS
<1>3. Resting(p, d) = [state |-> state, predecessor |-> p, anchor |-> now,
                       due |-> due, observed |-> NoTime, snapshot |-> NoTask,
                       current |-> NoTask]
  BY <1>1, <1>2 DEF Resting
<1>4. Resting(p, d) \in Cursor
  BY <1>3 DEF Cursor, State
<1> QED BY <1>1, <1>2, <1>3, <1>4, NamesAssumption DEF ValidCursor

LEMMA SeedMove ==
  ASSUME TypeInv, Seed
  PROVE  /\ ~Seeded /\ pc = "down" /\ cursor' \in Cursor /\ cursor' # NoCursor
         /\ ValidCursor(cursor') /\ cursor'.state \in {"idle", "quiescent"}
         /\ cursor'.predecessor = <<>> /\ cursor'.current = NoTask
         /\ cursor'.observed = NoTime
         /\ cursor'.due \in {now + ContinueCadence, now + QuiescentCadence}
         /\ UNCHANGED <<tasks, snapshots, actions, spent, wake, now, thread,
                        bounds>>
<1>1. PICK d \in Decision : cursor' = Resting(<<>>, d)
  BY DEF Seed
<1>2. now \in Nat
  BY DEF TypeInv, OthersInv
<1> QED BY <1>1, <1>2, EmptyCognition, RestingRow DEF Seed, Seeded

LEMMA SettleMove ==
  ASSUME TypeInv, Settle
  PROVE  /\ Seeded /\ cursor.state = "prepared" /\ Named.status = "succeeded"
         /\ pc = "observe"
         /\ cursor' \in Cursor /\ cursor' # NoCursor /\ ValidCursor(cursor')
         /\ cursor'.state \in {"idle", "quiescent"}
         /\ cursor'.predecessor = cursor.current /\ cursor'.current = NoTask
         /\ cursor'.observed = NoTime
         /\ cursor'.due \in {now + ContinueCadence, now + QuiescentCadence}
         /\ UNCHANGED <<tasks, snapshots, actions, spent, wake, now, bounds>>
<1>1. /\ Seeded /\ cursor.state = "prepared" /\ Named.status = "succeeded"
      /\ pc = "observe" /\ cursor' = Settled
      /\ UNCHANGED <<tasks, snapshots, actions, spent, wake, now, bounds>>
  BY DEF Settle, Observing, Replace, TypeInv, PlaceInv
<1>2. now \in Nat /\ cursor.current \in Cognition
  BY <1>1, CursorStates, NamedIsNext DEF TypeInv, OthersInv
<1>3. Settled = Resting(cursor.current, IF Named.decision = "stop" THEN "stop"
                                        ELSE "continue")
  BY DEF Settled, Resting
<1>4. (IF Named.decision = "stop" THEN "stop" ELSE "continue") \in Decision
  BY DEF Decision
<1> QED BY <1>1, <1>2, <1>3, <1>4, RestingRow

LEMMA ResetMove ==
  ASSUME TypeInv, ResetRetired
  PROVE  /\ Seeded /\ cursor.state = "prepared" /\ Marked
         /\ cursor' \in Cursor /\ cursor' # NoCursor /\ ValidCursor(cursor')
         /\ cursor'.state = "idle"
         /\ cursor'.predecessor = cursor.predecessor
         /\ cursor'.anchor = cursor.anchor /\ cursor'.due = cursor.due
         /\ cursor'.current = NoTask /\ cursor'.observed = NoTime
         /\ UNCHANGED <<tasks, snapshots, actions, spent, wake, now, bounds>>
<1>1. /\ Seeded /\ cursor.state = "prepared" /\ Marked /\ cursor' = Reset
      /\ UNCHANGED <<tasks, snapshots, actions, spent, wake, now, bounds>>
  BY DEF ResetRetired, Replace, TypeInv, PlaceInv
<1>2. cursor \in Cursor
  BY <1>1, CursorFields DEF TypeInv
<1>3. /\ Reset \in Cursor /\ Reset.state = "idle"
      /\ Reset.predecessor = cursor.predecessor
      /\ Reset.anchor = cursor.anchor /\ Reset.due = cursor.due
      /\ Reset.observed = NoTime /\ Reset.snapshot = NoTask
      /\ Reset.current = NoTask
  BY <1>2 DEF Reset, Cursor, State
<1> QED BY <1>1, <1>3, NamesAssumption DEF ValidCursor

LEMMA FreezeMove ==
  ASSUME TypeInv, Freeze
  PROVE  /\ Seeded /\ cursor.state \in {"idle", "quiescent"}
         /\ cursor.due <= now /\ pc = "observe"
         /\ cursor' \in Cursor /\ cursor' # NoCursor /\ ValidCursor(cursor')
         /\ cursor'.state = "preparing"
         /\ cursor'.predecessor = cursor.predecessor
         /\ cursor'.anchor = cursor.anchor /\ cursor'.due = cursor.due
         /\ cursor'.observed = now /\ cursor'.current = NoTask
         /\ pc' = "record" /\ UNCHANGED <<mode, process>>
         /\ UNCHANGED <<tasks, snapshots, actions, spent, wake, now, bounds>>
<1>1. /\ Seeded /\ cursor.state \in {"idle", "quiescent"} /\ pc = "observe"
      /\ now >= cursor.due /\ cursor' = Frozen
      /\ ValidCursor(cursor') /\ ValidCursor(cursor)
      /\ pc' = "record" /\ UNCHANGED <<mode, process>>
      /\ UNCHANGED <<tasks, snapshots, actions, spent, wake, now, bounds>>
  BY DEF Freeze, Replace, Stay, Observing, TypeInv, PlaceInv
<1>2. cursor \in Cursor /\ cursor.due \in Nat /\ now \in Nat
  BY <1>1, CursorFields DEF TypeInv, OthersInv
<1>3. /\ Frozen \in Cursor /\ Frozen.state = "preparing"
      /\ Frozen.predecessor = cursor.predecessor
      /\ Frozen.anchor = cursor.anchor /\ Frozen.due = cursor.due
      /\ Frozen.observed = now /\ Frozen.snapshot = cursor.snapshot
      /\ Frozen.current = cursor.current
  BY <1>2 DEF Frozen, Cursor, State
<1>4. cursor.current = NoTask
  BY <1>1, CursorStates DEF TypeInv
<1> QED BY <1>1, <1>2, <1>3, <1>4, NamesAssumption

LEMMA NameMove ==
  ASSUME TypeInv, Name
  PROVE  /\ Seeded /\ cursor.state = "preparing" /\ pc = "name"
         /\ cursor' \in Cursor /\ cursor' # NoCursor /\ ValidCursor(cursor')
         /\ cursor'.state = "prepared"
         /\ cursor'.predecessor = cursor.predecessor
         /\ cursor'.anchor = cursor.anchor /\ cursor'.due = cursor.due
         /\ cursor'.observed = cursor.observed
         /\ cursor'.snapshot = OwnSnapshot /\ cursor'.current = OwnCognition
         /\ UNCHANGED <<tasks, snapshots, actions, spent, wake, now, bounds>>
<1>1. /\ Seeded /\ cursor.state = "preparing" /\ pc = "name"
      /\ ValidCursor(cursor')
      /\ cursor' = [cursor EXCEPT !.state = "prepared", !.snapshot = OwnSnapshot,
                                  !.current = OwnCognition]
      /\ UNCHANGED <<tasks, snapshots, actions, spent, wake, now, bounds>>
  BY DEF Name, Replace, TypeInv, PlaceInv, Recording
<1>2. /\ cursor \in Cursor /\ OwnSnapshot \in Snapshot
      /\ OwnCognition \in Cognition
  BY <1>1, CursorFields, OwnIsNext DEF TypeInv
<1>3. PICK s \in Snapshot : s = OwnSnapshot
  BY <1>2
<1>4. PICK id \in Cognition : id = OwnCognition
  BY <1>2
<1>5. cursor' = [cursor EXCEPT !.state = "prepared", !.snapshot = s,
                               !.current = id]
  BY <1>1, <1>3, <1>4
<1>6. /\ cursor' \in Cursor /\ cursor'.state = "prepared"
      /\ cursor'.predecessor = cursor.predecessor
      /\ cursor'.anchor = cursor.anchor /\ cursor'.due = cursor.due
      /\ cursor'.observed = cursor.observed
      /\ cursor'.snapshot = s /\ cursor'.current = id
  BY <1>2, <1>5 DEF Cursor, State
<1> QED BY <1>1, <1>3, <1>4, <1>6, NamesAssumption

-----------------------------------------------------------------------------
(* What a step may do to a Task.                                           *)

(* One Task is written, or more than one is recovered.                     *)
Written(id, t) ==
  /\ id \in DOMAIN tasks /\ DOMAIN tasks' = DOMAIN tasks
  /\ tasks'[id] = t
  /\ \A i \in DOMAIN tasks \ {id} : tasks'[i] = tasks[i]

LEMMA ExceptWrites ==
  ASSUME NEW id \in DOMAIN tasks, NEW t,
         TasksInv, tasks' = [tasks EXCEPT ![id] = t]
  PROVE  Written(id, t)
BY DEF Written

LEMMA CancelWrites ==
  ASSUME TypeInv, CancelTask
  PROVE  \E id \in DOMAIN tasks, t \in Task :
           /\ Written(id, t) /\ Nonterminal(tasks[id]) /\ pc = "down"
           /\ t.status \in {"cancelled", "cancel_requested"}
           /\ t.retired = tasks[id].retired
<1>1. PICK id \in DOMAIN tasks : \E t \in Cancelled(tasks[id]) :
        tasks' = [tasks EXCEPT ![id] = t]
  BY DEF CancelTask
<1>2. PICK t \in Cancelled(tasks[id]) : tasks' = [tasks EXCEPT ![id] = t]
  BY <1>1
<1>3. tasks[id] \in Task
  BY DEF TypeInv, TasksInv
<1>4. Written(id, t)
  BY <1>2, ExceptWrites DEF TypeInv
<1> QED BY <1>3, <1>4, CancelledTask DEF CancelTask

LEMMA RetireWrites ==
  ASSUME TypeInv, Retire
  PROVE  \E t \in Task :
           /\ Written(cursor.current, t) /\ Named.status = "pending"
           /\ t.status = "cancelled" /\ t.retired
           /\ pc = "refresh" /\ Seeded /\ cursor.state = "prepared"
<1>1. /\ Seeded /\ cursor.state = "prepared" /\ Named.status = "pending"
      /\ tasks' = [tasks EXCEPT ![cursor.current].status = "cancelled",
                                ![cursor.current].retired = TRUE]
  BY DEF Retire, Retirable, TypeInv, PlaceInv
<1>2. cursor.current \in DOMAIN tasks /\ Named \in Task
  BY <1>1, CursorStates, NamedIsNext DEF TypeInv
<1> DEFINE t == [Named EXCEPT !.status = "cancelled", !.retired = TRUE]
<1>3. t \in Task /\ t.status = "cancelled" /\ t.retired
  BY <1>2 DEF Task, Status
<1>4. tasks' = [tasks EXCEPT ![cursor.current] = t]
  BY <1>1, <1>2 DEF Named
<1> HIDE DEF t
<1>5. Written(cursor.current, t)
  BY <1>2, <1>4, ExceptWrites DEF TypeInv
<1> QED BY <1>1, <1>3, <1>5 DEF Retire

LEMMA StartWrites ==
  ASSUME TypeInv, StartCognition
  PROVE  \E t \in Task :
           /\ Written(cursor.current, t) /\ Named.status = "pending"
           /\ t.status = "running" /\ t.retired = Named.retired
           /\ cursor.current \notin actions
<1>1. /\ Seeded /\ cursor.state = "prepared" /\ Gate = "accepted"
      /\ tasks' = [tasks EXCEPT ![cursor.current] = Started(Named)]
  BY DEF StartCognition, TypeInv, PlaceInv
<1>2. cursor.current \in DOMAIN tasks /\ Named \in Task
  BY <1>1, CursorStates, NamedIsNext DEF TypeInv
<1>3. Named.status = "pending" /\ cursor.current \notin actions
  BY <1>1 DEF Gate
<1>4. Started(Named) \in Task /\ Started(Named).status = "running"
      /\ Started(Named).retired = Named.retired
  BY <1>2, StartedTask
<1>5. Written(cursor.current, Started(Named))
  BY <1>1, <1>2, ExceptWrites DEF TypeInv
<1> QED BY <1>3, <1>4, <1>5

LEMMA EndWrites ==
  ASSUME TypeInv, Declined \/ Answer
  PROVE  \E t \in Task :
           /\ Written(cursor.current, t) /\ Named.status = "running"
           /\ t.status \in {"succeeded", "failed", "manual_review"}
           /\ t.status = "succeeded" => cursor.current \in actions
           /\ t.retired = Named.retired
           /\ pc \in Calling /\ Seeded /\ cursor.state = "prepared"
           /\ pc' = "refresh" /\ mode' = "settling" /\ UNCHANGED process
           /\ UNCHANGED <<cursor, snapshots, actions, spent, wake, now, bounds>>
<1>1. /\ pc \in Calling /\ Seeded /\ cursor.state = "prepared"
      /\ Named.status = "running"
      /\ pc' = "refresh" /\ mode' = "settling" /\ UNCHANGED process
      /\ UNCHANGED <<cursor, snapshots, actions, spent, wake, now, bounds>>
  BY DEF Declined, Answer, TypeInv, PlaceInv, Calling
<1>2. cursor.current \in DOMAIN tasks /\ Named \in Task
  BY <1>1, CursorStates, NamedIsNext DEF TypeInv
<1>3. CASE Declined
  <2>1. PICK s \in {"failed", "manual_review"} :
          tasks' = [tasks EXCEPT ![cursor.current].status = s]
    BY <1>3 DEF Declined
  <2> DEFINE t == [Named EXCEPT !.status = s]
  <2>2. t \in Task /\ t.status = s /\ t.retired = Named.retired
    BY <1>2 DEF Task, Status
  <2>3. tasks' = [tasks EXCEPT ![cursor.current] = t]
    BY <1>2, <2>1 DEF Named
  <2> HIDE DEF t
  <2>4. Written(cursor.current, t)
    BY <1>2, <2>3, ExceptWrites DEF TypeInv
  <2> QED BY <1>1, <2>2, <2>4
<1>4. CASE Answer
  <2>1. PICK t \in Answered(Named) :
          tasks' = [tasks EXCEPT ![cursor.current] = t]
    BY <1>4 DEF Answer
  <2>2. /\ t \in Task /\ t.status \in {"succeeded", "failed", "manual_review"}
        /\ t.retired = Named.retired
    BY <1>2, AnsweredTask
  <2>3. Written(cursor.current, t)
    BY <1>2, <2>1, ExceptWrites DEF TypeInv
  <2>4. cursor.current \in actions
    BY <1>1, <1>4 DEF Answer, TypeInv, PlaceInv
  <2> QED BY <1>1, <2>2, <2>3, <2>4
<1> QED BY <1>3, <1>4

(* The one-shot tool works on the named cognition or the operator's own.   *)
LEMMA OneShotWrites ==
  ASSUME TypeInv, OneShotTool
  PROVE  \E id \in DOMAIN tasks, t \in Task :
           /\ Written(id, t) /\ Nonterminal(tasks[id]) /\ pc = "down" /\ Seeded
           /\ id = cursor.current \/ ~Own(id)
           /\ tasks[id].status \in {"pending", "running"}
           /\ t.status \in {"running", "succeeded", "failed", "manual_review"}
           /\ t.retired = tasks[id].retired
           /\ t.status = "succeeded" => id \in actions'
           /\ actions' \in {actions, actions \cup {id}}
           /\ UNCHANGED <<cursor, snapshots, wake, now, thread>>
<1>1. PICK id \in DOMAIN tasks : \E task \in Recovered(tasks[id]) :
        /\ id = cursor.current \/ id[Len(id)].due = NoTime
        /\ task.status = "pending"
        /\ IF id \in actions
             THEN /\ tasks' = [tasks EXCEPT ![id] =
                                 [Started(task) EXCEPT !.status = "manual_review"]]
                  /\ UNCHANGED <<actions, spent>>
             ELSE \/ /\ \E t \in Answered(Started(task)) \cup {Started(task)} :
                          tasks' = [tasks EXCEPT ![id] = t]
                     /\ actions' = actions \cup {id}
                  \/ /\ tasks' = [tasks EXCEPT ![id] = Started(task)]
                     /\ UNCHANGED actions
  BY DEF OneShotTool
<1>2. PICK task \in Recovered(tasks[id]) :
        /\ id = cursor.current \/ id[Len(id)].due = NoTime
        /\ task.status = "pending"
        /\ IF id \in actions
             THEN /\ tasks' = [tasks EXCEPT ![id] =
                                 [Started(task) EXCEPT !.status = "manual_review"]]
                  /\ UNCHANGED <<actions, spent>>
             ELSE \/ /\ \E t \in Answered(Started(task)) \cup {Started(task)} :
                          tasks' = [tasks EXCEPT ![id] = t]
                     /\ actions' = actions \cup {id}
                  \/ /\ tasks' = [tasks EXCEPT ![id] = Started(task)]
                     /\ UNCHANGED actions
  BY <1>1
<1>3. tasks[id] \in Task
  BY DEF TypeInv, TasksInv
<1>4. /\ task \in Task /\ task.retired = tasks[id].retired
      /\ tasks[id].status \in {"pending", "running"}
  BY <1>2, <1>3, RecoveredTask
<1>5. PICK s \in Task : s = Started(task) /\ s.status = "running"
                        /\ s.retired = tasks[id].retired
  BY <1>4, StartedTask
<1>6. \E t \in Task :
        /\ tasks' = [tasks EXCEPT ![id] = t]
        /\ t.status \in {"running", "succeeded", "failed", "manual_review"}
        /\ t.retired = tasks[id].retired
        /\ t.status = "succeeded" => id \in actions'
        /\ actions' \in {actions, actions \cup {id}}
  <2>1. CASE id \in actions
    <3> DEFINE t == [s EXCEPT !.status = "manual_review"]
    <3>1. t \in Task /\ t.status = "manual_review"
          /\ t.retired = tasks[id].retired
      BY <1>5 DEF Task, Status
    <3>2. tasks' = [tasks EXCEPT ![id] = t] /\ actions' = actions
      BY <1>2, <1>5, <2>1
    <3> QED BY <3>1, <3>2
  <2>2. CASE /\ id \notin actions
             /\ \E t \in Answered(s) \cup {s} : tasks' = [tasks EXCEPT ![id] = t]
             /\ actions' = actions \cup {id}
    <3>1. PICK t \in Answered(s) \cup {s} : tasks' = [tasks EXCEPT ![id] = t]
      BY <2>2
    <3>2. /\ t \in Task
          /\ t.status \in {"running", "succeeded", "failed", "manual_review"}
          /\ t.retired = tasks[id].retired
      BY <1>5, <3>1, AnsweredTask
    <3> QED BY <2>2, <3>1, <3>2
  <2>3. CASE tasks' = [tasks EXCEPT ![id] = s] /\ actions' = actions
    BY <1>5, <2>3
  <2> QED BY <1>2, <1>5, <2>1, <2>2, <2>3
<1>7. PICK t \in Task :
        /\ tasks' = [tasks EXCEPT ![id] = t]
        /\ t.status \in {"running", "succeeded", "failed", "manual_review"}
        /\ t.retired = tasks[id].retired
        /\ t.status = "succeeded" => id \in actions'
        /\ actions' \in {actions, actions \cup {id}}
  BY <1>6
<1>8. Written(id, t)
  BY <1>7, ExceptWrites DEF TypeInv
<1>9. id = cursor.current \/ ~Own(id)
  BY <1>2 DEF Own
<1>10. /\ pc = "down" /\ Seeded
       /\ UNCHANGED <<cursor, snapshots, wake, now, thread>>
  BY DEF OneShotTool, Seeded
<1> QED BY <1>4, <1>7, <1>8, <1>9, <1>10 DEF Nonterminal

(* The two steps that claim a cognition claim one behind the lineage.      *)
LEMMA ClaimWrites ==
  ASSUME TypeInv, PrepareTool \/ ClaimSubmit
  PROVE  \E s \in Snapshot :
           LET id == Append(cursor.predecessor, s) IN
           /\ Seeded /\ id \notin DOMAIN tasks
           /\ DOMAIN tasks' = DOMAIN tasks \cup {id}
           /\ tasks'[id] = NewTask
           /\ \A i \in DOMAIN tasks : tasks'[i] = tasks[i]
           /\ ClaimSubmit => s = OwnSnapshot
           /\ UNCHANGED <<cursor, snapshots, actions, spent, wake, now>>
<1>1. CASE PrepareTool
  <2>1. OperatorContext \in Snapshot
    BY DEF OperatorContext, Snapshot, TypeInv, OthersInv
  <2>2. PICK s \in Snapshot : s = OperatorContext
    BY <2>1
  <2>3. /\ Append(cursor.predecessor, s) \notin DOMAIN tasks /\ Seeded
        /\ tasks' = Stored(tasks, Append(cursor.predecessor, s))
        /\ ~ClaimSubmit
        /\ UNCHANGED <<cursor, snapshots, actions, spent, wake, now>>
    BY <1>1, <2>2 DEF PrepareTool, Seeded, ClaimSubmit
  <2>4. PICK id : id = Append(cursor.predecessor, s)
    OBVIOUS
  <2>5. /\ DOMAIN tasks' = DOMAIN tasks \cup {id} /\ tasks'[id] = NewTask
        /\ \A i \in DOMAIN tasks : tasks'[i] = tasks[i]
    <3>1. tasks' = Stored(tasks, id) /\ id \notin DOMAIN tasks
      BY <2>3, <2>4
    <3> QED BY <3>1 DEF Stored
  <2> QED BY <2>3, <2>4, <2>5
<1>2. CASE ClaimSubmit
  <2>1. Seeded /\ cursor.state = "preparing"
    BY <1>2 DEF ClaimSubmit, TypeInv, PlaceInv, Recording
  <2>2. PICK s \in Snapshot :
          s = OwnSnapshot /\ OwnCognition = Append(cursor.predecessor, s)
    BY <2>1, OwnIsNext
  <2>3. /\ Append(cursor.predecessor, s) \notin DOMAIN tasks
        /\ tasks' = Stored(tasks, Append(cursor.predecessor, s))
        /\ UNCHANGED <<cursor, snapshots, actions, spent, wake, now>>
    BY <1>2, <2>2 DEF ClaimSubmit, Claimed
  <2>4. PICK id : id = Append(cursor.predecessor, s)
    OBVIOUS
  <2>5. /\ DOMAIN tasks' = DOMAIN tasks \cup {id} /\ tasks'[id] = NewTask
        /\ \A i \in DOMAIN tasks : tasks'[i] = tasks[i]
    <3>1. tasks' = Stored(tasks, id) /\ id \notin DOMAIN tasks
      BY <2>3, <2>4
    <3> QED BY <3>1 DEF Stored
  <2> QED BY <2>1, <2>2, <2>3, <2>4, <2>5
<1> QED BY <1>1, <1>2

(* No step takes a Task away, and those it adds are claimed behind the     *)
(* lineage and wait.                                                       *)
LEMMA TasksGrow ==
  ASSUME TypeInv, Next \/ UNCHANGED vars
  PROVE  /\ DOMAIN tasks \subseteq DOMAIN tasks'
         /\ \A id \in DOMAIN tasks' \ DOMAIN tasks :
              /\ Seeded /\ cursor' = cursor /\ actions' = actions
              /\ tasks'[id] = NewTask
              /\ \E s \in Snapshot : id = Append(cursor.predecessor, s)
<1>1. CASE UNCHANGED tasks
  BY <1>1
<1>2. CASE Recover
  BY <1>2, RecoverEach
<1>3. CASE CancelTask
  BY <1>3, CancelWrites DEF Written
<1>4. CASE OneShotTool
  BY <1>4, OneShotWrites DEF Written
<1>5. CASE Retire
  BY <1>5, RetireWrites DEF Written
<1>6. CASE StartCognition
  BY <1>6, StartWrites DEF Written
<1>7. CASE Declined \/ Answer
  BY <1>7, EndWrites DEF Written
<1>8. CASE PrepareTool \/ ClaimSubmit
  <2>1. PICK s \in Snapshot :
          LET id == Append(cursor.predecessor, s) IN
          /\ Seeded /\ DOMAIN tasks' = DOMAIN tasks \cup {id}
          /\ tasks'[id] = NewTask
          /\ UNCHANGED <<cursor, actions>>
    BY <1>8, ClaimWrites
  <2> QED BY <2>1
<1> QED BY TaskMoves, <1>1, <1>2, <1>3, <1>4, <1>5, <1>6, <1>7, <1>8

(* What is over stays as it is, an answer is one that was paid for, and    *)
(* while the service is at work only the named Task is written.            *)
TaskMoved(id) ==
  /\ tasks'[id] \in Task
  /\ tasks'[id].retired => tasks'[id].status = "cancelled"
  /\ ~Nonterminal(tasks[id]) => tasks'[id] = tasks[id]
  /\ tasks'[id].status = "succeeded" =>
       \/ tasks[id].status = "succeeded"
       \/ id \in actions' /\ cursor' = cursor
          /\ (id = cursor.current \/ ~Own(id))
  /\ pc \notin {"down", "loop"} =>
       \/ tasks'[id] = tasks[id]
       \/ id = cursor.current /\ (Retire \/ StartCognition \/ Declined \/ Answer)

LEMMA TaskMove ==
  ASSUME TypeInv, Next \/ UNCHANGED vars, NEW id \in DOMAIN tasks
  PROVE  TaskMoved(id)
<1>1. /\ tasks[id] \in Task
      /\ tasks[id].retired => tasks[id].status = "cancelled"
  BY DEF TypeInv, TasksInv
<1>2. CASE tasks'[id] = tasks[id]
  BY <1>1, <1>2 DEF TaskMoved
<1>3. CASE Recover /\ pc \in {"down", "loop"}
  <2>1. tasks'[id] \in Recovered(tasks[id])
    BY <1>3, RecoverEach
  <2> QED BY <1>1, <1>3, <2>1, RecoveredTask DEF TaskMoved, Nonterminal
<1>4. CASE CancelTask
  <2>1. PICK i \in DOMAIN tasks, t \in Task :
           /\ Written(i, t) /\ Nonterminal(tasks[i]) /\ pc = "down"
           /\ t.status \in {"cancelled", "cancel_requested"}
           /\ t.retired = tasks[i].retired
    BY <1>4, CancelWrites
  <2>2. ~tasks[i].retired
    BY <2>1 DEF TypeInv, TasksInv, Nonterminal
  <2> QED BY <1>1, <1>2, <2>1, <2>2 DEF TaskMoved, Written
<1>5. CASE OneShotTool
  <2>1. PICK i \in DOMAIN tasks, t \in Task :
           /\ Written(i, t) /\ Nonterminal(tasks[i]) /\ pc = "down"
           /\ i = cursor.current \/ ~Own(i)
           /\ t.status \in {"running", "succeeded", "failed", "manual_review"}
           /\ t.retired = tasks[i].retired
           /\ t.status = "succeeded" => i \in actions'
           /\ cursor' = cursor
    BY <1>5, OneShotWrites
  <2>2. ~tasks[i].retired
    BY <2>1 DEF TypeInv, TasksInv, Nonterminal
  <2> QED BY <1>1, <1>2, <2>1, <2>2 DEF TaskMoved, Written
<1>6. CASE Retire
  <2>1. PICK t \in Task :
          /\ Written(cursor.current, t) /\ Named.status = "pending"
          /\ t.status = "cancelled" /\ pc = "refresh"
    BY <1>6, RetireWrites
  <2> QED BY <1>1, <1>2, <1>6, <2>1 DEF TaskMoved, Written, Named, Nonterminal
<1>7. CASE StartCognition
  <2>1. PICK t \in Task :
          /\ Written(cursor.current, t) /\ Named.status = "pending"
          /\ t.status = "running" /\ t.retired = Named.retired
    BY <1>7, StartWrites
  <2>2. ~Named.retired
    BY <2>1 DEF TypeInv, TasksInv, Named, Written
  <2> QED BY <1>1, <1>2, <1>7, <2>1, <2>2
          DEF TaskMoved, Written, Named, Nonterminal
<1>8. CASE Declined \/ Answer
  <2>1. PICK t \in Task :
          /\ Written(cursor.current, t) /\ Named.status = "running"
          /\ t.status \in {"succeeded", "failed", "manual_review"}
          /\ t.status = "succeeded" => cursor.current \in actions
          /\ t.retired = Named.retired
          /\ UNCHANGED <<cursor, actions>>
    BY <1>8, EndWrites
  <2>2. ~Named.retired
    BY <2>1 DEF TypeInv, TasksInv, Named, Written
  <2> QED BY <1>1, <1>2, <1>8, <2>1, <2>2
          DEF TaskMoved, Written, Named, Nonterminal
<1>9. CASE PrepareTool \/ ClaimSubmit
  <2>1. tasks'[id] = tasks[id]
    BY <1>9, ClaimWrites
  <2> QED BY <1>2, <2>1
<1> QED BY TaskMoves, <1>2, <1>3, <1>4, <1>5, <1>6, <1>7, <1>8, <1>9

-----------------------------------------------------------------------------
(* What a step may do to a snapshot.                                       *)

LEMMA SubmitWrites ==
  ASSUME TypeInv, RecordSubmit
  PROVE  /\ Seeded /\ cursor.state = "preparing" /\ pc = "record"
         /\ OwnSnapshot \in Snapshot /\ OwnSnapshot \notin DOMAIN snapshots
         /\ DOMAIN snapshots' = DOMAIN snapshots \cup {OwnSnapshot}
         /\ snapshots'[OwnSnapshot] = NewTask
         /\ \A s \in DOMAIN snapshots : snapshots'[s] = snapshots[s]
         /\ UNCHANGED <<cursor, tasks, actions, spent, wake, now, thread, bounds>>
<1>1. Seeded /\ cursor.state = "preparing" /\ pc = "record"
  BY DEF RecordSubmit, TypeInv, PlaceInv, Recording
<1>2. PICK own \in Snapshot : own = OwnSnapshot
  BY <1>1, OwnIsNext
<1>3. own \notin DOMAIN snapshots /\ snapshots' = Stored(snapshots, own)
  BY <1>2 DEF RecordSubmit, Recorded
<1>4. /\ DOMAIN snapshots' = DOMAIN snapshots \cup {own}
      /\ snapshots'[own] = NewTask
      /\ \A s \in DOMAIN snapshots : snapshots'[s] = snapshots[s]
  BY <1>3 DEF Stored
<1> QED BY <1>1, <1>2, <1>3, <1>4 DEF RecordSubmit

LEMMA RecordWrites ==
  ASSUME TypeInv, RecordStart \/ RecordFinish
  PROVE  \E s \in DOMAIN snapshots, t \in Task :
           /\ DOMAIN snapshots' = DOMAIN snapshots /\ snapshots'[s] = t
           /\ \A r \in DOMAIN snapshots \ {s} : snapshots'[r] = snapshots[r]
           /\ RecordStart => /\ snapshots[s].status = "pending"
                             /\ t.status = "running" /\ pc = "record"
                             /\ executing' = s /\ pc' = "snapshot"
           /\ RecordFinish => /\ t.status = "succeeded" /\ s = executing
                              /\ pc' = IF s = OwnSnapshot THEN "claim"
                                       ELSE "record"
           /\ Seeded /\ cursor.state = "preparing"
           /\ UNCHANGED <<cursor, tasks, actions, spent, wake, now, mode,
                          booting, authority, monitoring, armed, bounds>>
<1>1. /\ Seeded /\ cursor.state = "preparing"
      /\ UNCHANGED <<cursor, tasks, actions, spent, wake, now, mode,
                     booting, authority, monitoring, armed, bounds>>
  BY DEF RecordStart, RecordFinish, TypeInv, PlaceInv, Recording
<1>2. CASE RecordStart
  <2>1. PICK s \in Pending :
          /\ snapshots' = [snapshots EXCEPT ![s] = Started(snapshots[s])]
          /\ executing' = s
    BY <1>2 DEF RecordStart
  <2>2. /\ s \in DOMAIN snapshots /\ snapshots[s].status = "pending"
        /\ snapshots[s] \in Task
    BY <2>1 DEF Pending, TypeInv, SnapshotsInv
  <2>3. PICK t \in Task : t = Started(snapshots[s]) /\ t.status = "running"
    BY <2>2, StartedTask
  <2>4. snapshots' = [snapshots EXCEPT ![s] = t]
    BY <2>1, <2>3
  <2>5. pc = "record" /\ pc' = "snapshot" /\ ~RecordFinish
    BY <1>2 DEF RecordStart, RecordFinish
  <2> QED BY <1>1, <2>1, <2>2, <2>3, <2>4, <2>5
<1>3. CASE RecordFinish
  <2>1. PICK s \in DOMAIN snapshots : s = executing
    BY <1>3 DEF RecordFinish, TypeInv, PlaceInv
  <2>2. snapshots[s] \in Task
    BY DEF TypeInv, SnapshotsInv
  <2> DEFINE t == [snapshots[s] EXCEPT !.status = "succeeded"]
  <2>3. t \in Task /\ t.status = "succeeded"
    BY <2>2 DEF Task, Status
  <2>4. snapshots' = [snapshots EXCEPT ![s] = t]
    BY <1>3, <2>1 DEF RecordFinish
  <2>5. ~RecordStart /\ pc' = IF s = OwnSnapshot THEN "claim" ELSE "record"
    BY <1>3, <2>1 DEF RecordStart, RecordFinish
  <2> HIDE DEF t
  <2> QED BY <1>1, <2>1, <2>3, <2>4, <2>5
<1> QED BY <1>2, <1>3

(* A snapshot is left by each step as it was, or recovered or cancelled, or *)
(* is the one the recorder is at work on.                                  *)
LEMMA SnapshotMove ==
  ASSUME TypeInv, Next \/ UNCHANGED vars, NEW s \in DOMAIN snapshots
  PROVE  /\ s \in DOMAIN snapshots' /\ snapshots'[s] \in Task
         /\ \/ snapshots'[s] = snapshots[s]
            \/ /\ Recover /\ pc \in {"down", "loop"}
               /\ \/ /\ snapshots[s].status = "running"
                     /\ snapshots'[s].status
                          \in {"pending", "failed", "manual_review"}
                  \/ snapshots'[s].status = "cancelled"
            \/ /\ RecordStart /\ executing' = s /\ pc' = "snapshot"
               /\ snapshots[s].status = "pending"
               /\ snapshots'[s].status = "running"
            \/ RecordFinish /\ s = executing /\ snapshots'[s].status = "succeeded"
            \/ /\ CancelSnapshot
               /\ \/ snapshots'[s].status = "cancelled"
                  \/ /\ snapshots[s].status = "running"
                     /\ snapshots'[s].status = "cancel_requested"
<1>1. snapshots[s] \in Task
  BY DEF TypeInv, SnapshotsInv
<1>2. CASE UNCHANGED snapshots
  BY <1>1, <1>2
<1>3. CASE Recover /\ pc \in {"down", "loop"}
  <2>1. snapshots'[s] \in Recovered(snapshots[s]) /\ s \in DOMAIN snapshots'
    BY <1>3, RecoverEach
  <2> QED BY <1>1, <1>3, <2>1, RecoveredTask
<1>4. CASE RecordSubmit
  BY <1>1, <1>4, SubmitWrites
<1>5. CASE RecordStart \/ RecordFinish
  BY <1>1, <1>5, RecordWrites
<1>6. CASE CancelSnapshot
  <2>1. PICK r \in DOMAIN snapshots : \E t \in Cancelled(snapshots[r]) :
          snapshots' = [snapshots EXCEPT ![r] = t]
    BY <1>6 DEF CancelSnapshot
  <2>2. PICK t \in Cancelled(snapshots[r]) :
          snapshots' = [snapshots EXCEPT ![r] = t]
    BY <2>1
  <2>3. CASE r = s
    BY <1>1, <1>6, <2>2, <2>3, CancelledTask
  <2>4. CASE r # s
    BY <1>1, <2>2, <2>4
  <2> QED BY <2>3, <2>4
<1> QED BY SnapshotMoves, <1>2, <1>3, <1>4, <1>5, <1>6

-----------------------------------------------------------------------------
(* The types are kept.                                                     *)

LEMMA InitType == Init => TypeInv
<1> SUFFICES ASSUME Init PROVE TypeInv
  OBVIOUS
<1>1. CursorInv /\ PlaceInv
  BY DEF Init, CursorInv, PlaceInv, Seeded, Place, Recording, Calling
<1>2. TasksInv /\ SnapshotsInv
  BY DEF Init, TasksInv, SnapshotsInv
<1>3. OthersInv
  BY EmptySeq DEF Init, OthersInv
<1> QED BY <1>1, <1>2, <1>3 DEF TypeInv

LEMMA CursorStep ==
  ASSUME TypeInv, Next \/ UNCHANGED vars
  PROVE  CursorInv'
<1>1. CursorInv
  BY DEF TypeInv
<1>2. CASE UNCHANGED cursor
  <2>1. CASE ~Seeded \/ cursor.current = NoTask
    BY <1>1, <1>2, <2>1 DEF CursorInv, Seeded, NamedInv
  <2>2. CASE Seeded /\ cursor.current # NoTask
    <3>1. cursor.current \in DOMAIN tasks /\ cursor.current \in DOMAIN tasks'
      BY <2>2, NamedIsNext, TasksGrow
    <3>2. ~Nonterminal(Named) => tasks'[cursor.current] = tasks[cursor.current]
      BY <3>1, TaskMove DEF TaskMoved, Named
    <3>3. NamedInv
      BY <1>1, <2>2 DEF CursorInv
    <3>4. NamedInv'
      BY <1>2, <2>2, <3>1, <3>2, <3>3 DEF NamedInv, Named, Nonterminal
    <3> QED BY <1>1, <1>2, <2>2, <3>4 DEF CursorInv, Seeded
  <2> QED BY <2>1, <2>2
<1>3. CASE Seed \/ Settle \/ ResetRetired \/ Freeze
  <2>1. /\ cursor' \in Cursor /\ cursor' # NoCursor /\ ValidCursor(cursor')
        /\ cursor'.current = NoTask
    BY <1>3, SeedMove, SettleMove, ResetMove, FreezeMove
  <2> QED BY <2>1 DEF CursorInv, NamedInv, Seeded
<1>4. CASE Name
  <2>1. /\ cursor' \in Cursor /\ ValidCursor(cursor')
        /\ cursor'.state = "prepared"
        /\ cursor'.predecessor = cursor.predecessor
        /\ cursor'.snapshot = OwnSnapshot /\ cursor'.current = OwnCognition
        /\ tasks' = tasks /\ Seeded /\ cursor.state = "preparing"
    BY <1>4, NameMove
  <2>2. OwnCognition \in DOMAIN tasks
    BY <1>4 DEF Name, TypeInv, PlaceInv, Claimed
  <2>3. /\ OwnSnapshot \in Snapshot /\ OwnSnapshot.due # NoTime
        /\ OwnCognition = Append(cursor.predecessor, OwnSnapshot)
    BY <2>1, OwnIsNext
  <2>4. NamedInv'
    BY <2>1, <2>2, <2>3 DEF NamedInv
  <2> QED BY <2>1, <2>4 DEF CursorInv
<1>5. CASE Blocks
  <2>1. /\ Seeded /\ cursor' \in Cursor /\ ValidCursor(cursor')
        /\ cursor'.predecessor = cursor.predecessor
        /\ cursor'.snapshot = cursor.snapshot
        /\ cursor'.current = cursor.current /\ tasks' = tasks
        /\ \/ cursor.state = "preparing"
           \/ ~Nonterminal(Named) /\ Named.status # "succeeded"
    BY <1>5, BlockMove
  <2>2. NamedInv /\ (cursor.state = "preparing" => cursor.current = NoTask)
    BY <1>1, <2>1, CursorStates DEF CursorInv
  <2>3. cursor.current # NoTask =>
          Named.status \in {"failed", "cancelled", "manual_review"}
    <3>1. cursor.current # NoTask => Named \in Task
      BY <2>1, NamedIsNext
    <3> QED BY <2>1, <2>2, <3>1 DEF Nonterminal, Task, Status
  <2>4. NamedInv'
    BY <2>1, <2>2, <2>3 DEF NamedInv, Named
  <2> QED BY <2>1, <2>4 DEF CursorInv
<1> QED BY CursorMoves, <1>2, <1>3, <1>4, <1>5 DEF Blocks

LEMMA TasksStep ==
  ASSUME TypeInv, Next \/ UNCHANGED vars
  PROVE  TasksInv'
<1>1. ASSUME NEW id \in DOMAIN tasks
      PROVE  /\ id \in Cognition /\ id # <<>> /\ tasks'[id] \in Task
             /\ tasks'[id].retired => tasks'[id].status = "cancelled"
  BY TaskMove DEF TaskMoved, TypeInv, TasksInv
<1>2. ASSUME NEW id \in DOMAIN tasks' \ DOMAIN tasks
      PROVE  /\ id \in Cognition /\ id # <<>> /\ tasks'[id] \in Task
             /\ tasks'[id].retired => tasks'[id].status = "cancelled"
  <2>1. PICK s \in Snapshot : id = Append(cursor.predecessor, s)
    BY TasksGrow
  <2>2. cursor.predecessor \in Cognition /\ tasks'[id] = NewTask
    BY TasksGrow, CursorFields DEF TypeInv
  <2> QED BY <2>1, <2>2, NextCognition, NewTaskIsTask
<1> QED BY <1>1, <1>2 DEF TasksInv

LEMMA SnapshotsStep ==
  ASSUME TypeInv, Next \/ UNCHANGED vars
  PROVE  SnapshotsInv'
<1>1. wake \in Nat /\ wake' \in Nat /\ wake <= wake'
  BY WakeChanges DEF TypeInv, OthersInv
<1>2. ASSUME NEW s \in DOMAIN snapshots
      PROVE  s \in Snapshot /\ snapshots'[s] \in Task /\ s.wake <= wake'
  <2>1. s \in Snapshot /\ s.wake <= wake /\ s.wake \in Nat
    BY DEF TypeInv, SnapshotsInv, Snapshot
  <2> QED BY <1>1, <2>1, SnapshotMove
<1>3. ASSUME NEW s \in DOMAIN snapshots' \ DOMAIN snapshots
      PROVE  s \in Snapshot /\ snapshots'[s] \in Task /\ s.wake <= wake'
  <2>1. RecordSubmit
    BY <1>3, SnapshotMoves, RecoverEach, RecordWrites DEF CancelSnapshot
  <2>2. s = OwnSnapshot /\ snapshots'[s] = NewTask /\ Seeded
        /\ cursor.state = "preparing" /\ s \in Snapshot
    BY <2>1, SubmitWrites
  <2>3. s.wake = wake
    BY <2>2, OwnIsNext
  <2> QED BY <1>1, <2>2, <2>3, NewTaskIsTask
<1> QED BY <1>2, <1>3 DEF SnapshotsInv

LEMMA OthersStep ==
  ASSUME TypeInv, Next \/ UNCHANGED vars
  PROVE  OthersInv'
<1>1. OthersInv
  BY DEF TypeInv
<1>2. actions' \subseteq DOMAIN tasks'
  <2>1. DOMAIN tasks \subseteq DOMAIN tasks'
    BY TasksGrow
  <2>2. CASE OneShotTool
    <3>1. \E id \in DOMAIN tasks : actions' \in {actions, actions \cup {id}}
      BY <2>2, OneShotWrites
    <3> QED BY <1>1, <2>1, <3>1 DEF OthersInv
  <2>3. CASE Call
    <3>1. actions' = actions \cup {cursor.current}
      BY <2>3 DEF Call
    <3>2. Seeded /\ cursor.state = "prepared"
      BY <2>3 DEF Call, TypeInv, PlaceInv, Calling
    <3>3. cursor.current \in DOMAIN tasks
      BY <3>2, CursorStates, NamedIsNext DEF TypeInv
    <3> QED BY <1>1, <2>1, <3>1, <3>3 DEF OthersInv
  <2> QED BY <1>1, <2>1, <2>2, <2>3, ActionMoves DEF OthersInv
<1>3. spent' \in Seq(Permit)
  <2>1. spent \in Seq(Permit) /\ now \in Nat
    BY <1>1 DEF OthersInv
  <2>2. ASSUME NEW id \in Cognition \cup {NoTask}
        PROVE  /\ Append(spent, [at |-> now, key |-> id]) \in Seq(Permit)
               /\ Spent(id) \in Seq(Permit)
    <3>1. [at |-> now, key |-> id] \in Permit
      BY <2>1, <2>2 DEF Permit
    <3> QED BY <2>1, <3>1, AppendProperties DEF Spent
  <2>3. CASE Consume
    <3>1. cursor.current \in Cognition \cup {NoTask}
      BY <2>3, CursorFields DEF Consume, TypeInv, PlaceInv
    <3> QED BY <2>3, <2>2, <3>1 DEF Consume
  <2>4. ASSUME NEW id \in DOMAIN tasks, spent' = Spent(id)
        PROVE  spent' \in Seq(Permit)
    BY <2>2, <2>4 DEF TypeInv, TasksInv
  <2> QED BY <2>1, <2>2, <2>3, <2>4, SpentMoves
<1>4. now' \in Nat
  BY <1>1, ClockMoves DEF OthersInv, Tick, ClockSetBack
<1>5. wake' \in Nat /\ faults' \in Nat
  BY <1>1, WakeChanges, FaultMoves DEF OthersInv
<1> QED BY <1>2, <1>3, <1>4, <1>5 DEF OthersInv

-----------------------------------------------------------------------------
(* The service's place.  A step ends in the loop, at the gate or with the  *)
(* process, and one that asks for another is not quiet.                    *)
Stopped == pc' = "down" /\ mode' = "first" /\ booting' = FALSE /\ monitoring' = FALSE
Rested  ==
  /\ pc' = "loop" /\ mode' = "first"
  /\ booting' = FALSE /\ monitoring' \in BOOLEAN
AtGate ==
  /\ pc' = "gate" /\ mode \in {"first", "quiet"} /\ cursor'.state = "prepared"
  /\ UNCHANGED <<mode, process>>

LEMMA StepEnds ==
  ASSUME NEW healthy \in BOOLEAN, NEW next, EndStep(healthy, next),
         booting \in BOOLEAN
  PROVE  \/ Stopped
         \/ /\ Rested /\ mode # "tool"
            /\ monitoring' <=> healthy /\ ~Quiet /\ next # NoTime
            /\ ~healthy => Quiet \/ ~booting
         \/ AtGate
BY DEF EndStep, Unhealthy, Down, Rest, Stopped, Rested, AtGate

(* The steps that end so.                                                  *)
Ends ==
  \/ ObserveBlocked \/ ObserveWaiting \/ ObserveNotDue \/ ObserveBudget
  \/ ResumeRolledBack \/ RecordNotStartable
  \/ Blocks \/ Settle \/ Name

LEMMA EndsEnd ==
  ASSUME TypeInv, Ends
  PROVE  /\ Stopped \/ Rested \/ AtGate
         /\ pc \in {"observe", "record", "claim", "name"} /\ Seeded
         /\ UNCHANGED <<tasks, snapshots, actions, wake>>
<1>1. \E healthy \in BOOLEAN : \E next : EndStep(healthy, next)
  BY DEF Ends, ObserveBlocked, ObserveWaiting, ObserveNotDue, ObserveBudget,
         ResumeRolledBack, RecordNotStartable, Ended, Blocks,
         BlockedByFailure, ResumeBlocked, RecordFailed, ClaimRefused, Block,
         Settle, Name
<1>2. Stopped \/ Rested \/ AtGate
  BY <1>1, StepEnds DEF TypeInv, PlaceInv
<1>3. /\ pc \in {"observe", "record", "claim", "name"}
      /\ UNCHANGED <<tasks, snapshots, actions, wake>>
  BY DEF Ends, ObserveBlocked, ObserveWaiting, ObserveNotDue, ObserveBudget,
         ResumeRolledBack, RecordNotStartable, Ended, Blocks, durable,
         BlockedByFailure, ResumeBlocked, RecordFailed, ClaimRefused, Block,
         Settle, Name, Observing
<1> QED BY <1>2, <1>3 DEF TypeInv, PlaceInv

(* The steps that only change the place or the mode, and those of others.  *)
Idle ==
  \/ Tick \/ ClockSetBack \/ WakeMoves \/ OtherSpends \/ CancelTask
  \/ CancelSnapshot \/ PrepareTool \/ OneShotTool \/ Seed \/ RecordSubmit \/ UNCHANGED vars

LEMMA IdleMove ==
  ASSUME TypeInv, Idle
  PROVE  /\ UNCHANGED thread
         /\ \/ pc = "down"
            \/ pc = "loop" /\ UNCHANGED cursor
            \/ UNCHANGED <<cursor, tasks, snapshots, actions, wake>>
            \/ RecordSubmit
BY SubmitWrites
   DEF Idle, Tick, ClockSetBack, WakeMoves, OtherSpends, CancelTask,
       CancelSnapshot, PrepareTool, OneShotTool, Seed, vars, durable

LEMMA SeededStays ==
  ASSUME TypeInv, Next \/ UNCHANGED vars, Seeded
  PROVE  Seeded'
BY CursorMoves, SettleMove, ResetMove, FreezeMove, NameMove, BlockMove
   DEF Seeded, Blocks, Seed

(* A place that relies on nothing but the row.                             *)
LEMMA RestingPlace ==
  ASSUME pc' \in {"down", "loop", "refresh", "observe"},
         mode' \in {"first", "quiet", "quiet_settling", "settling", "tool"},
         booting' \in BOOLEAN, monitoring' \in BOOLEAN, Seeded' \/ pc' = "down"
  PROVE  PlaceInv'
BY DEF PlaceInv, Place, Recording, Calling

LEMMA IdlePlace ==
  ASSUME TypeInv, Next \/ UNCHANGED vars, Idle
  PROVE  PlaceInv'
<1>1. PlaceInv /\ UNCHANGED thread
  BY IdleMove DEF TypeInv
<1>2. CASE pc \in {"down", "loop"}
  <2>1. Seeded' \/ pc' = "down"
    BY <1>1, <1>2, SeededStays DEF PlaceInv, thread
  <2> QED BY <1>1, <1>2, <2>1, RestingPlace DEF PlaceInv, thread
<1>3. CASE UNCHANGED <<cursor, tasks, snapshots, actions, wake>>
  BY <1>1, <1>3
     DEF PlaceInv, thread, Seeded, Named, Recorded, OwnSnapshot, Claimed,
         OwnCognition
<1>4. CASE RecordSubmit
  <2>1. pc = "record" /\ UNCHANGED cursor
    BY <1>4, SubmitWrites
  <2> QED BY <1>1, <2>1
          DEF PlaceInv, thread, Seeded, Place, Recording, Calling
<1> QED BY IdleMove, <1>2, <1>3, <1>4

LEMMA EndsPlace ==
  ASSUME TypeInv, Next, Ends \/ GateCloses \/ AnswerRefused \/ Unavailable
  PROVE  PlaceInv'
<1>1. PlaceInv
  BY DEF TypeInv
<1>2. Stopped \/ Rested => PlaceInv'
  <2>1. Seeded' \/ pc' = "down"
    <3>1. pc # "down" => Seeded'
      BY <1>1, SeededStays DEF PlaceInv
    <3>2. pc # "down"
      BY EndsEnd DEF GateCloses, AnswerRefused, Unavailable
    <3> QED BY <3>1, <3>2
  <2> QED BY <2>1, RestingPlace DEF Stopped, Rested
<1>3. CASE Ends
  <2>1. CASE AtGate
    <3>1. Seeded'
      BY <1>3, EndsEnd, SeededStays
    <3> QED BY <1>1, <2>1, <3>1
            DEF AtGate, PlaceInv, Place, Recording, Calling, process
  <2> QED BY <1>2, <1>3, <2>1, EndsEnd
<1>4. CASE GateCloses
  BY <1>2, <1>4 DEF GateCloses, Rest, Rested
<1>5. CASE AnswerRefused
  BY <1>2, <1>5 DEF AnswerRefused, Unhealthy, Down, Rest, Stopped, Rested
<1>6. CASE Unavailable
  <2>1. CASE Quieten
    <3>1. Seeded' /\ pc' = "observe" /\ UNCHANGED process
          /\ mode' \in {"quiet", "quiet_settling"}
      BY <1>1, <1>6, <2>1, SeededStays DEF Unavailable, Quieten, PlaceInv
    <3> QED BY <1>1, <3>1, RestingPlace DEF PlaceInv, process
  <2>2. CASE Rest(NoTime) \/ Unhealthy
    BY <1>2, <2>2 DEF Unhealthy, Down, Rest, Stopped, Rested
  <2> QED BY <1>6, <2>1, <2>2 DEF Unavailable
<1> QED BY <1>3, <1>4, <1>5, <1>6

LEMMA RefreshPlace ==
  ASSUME TypeInv, Next,
         \/ Boot \/ ObserveTool \/ Crash \/ WaitDue \/ WaitInterrupted
         \/ RefreshNotApplicable \/ RefreshBlocked \/ Retire \/ ResetRetired
  PROVE  PlaceInv'
<1>1. PlaceInv
  BY DEF TypeInv
<1>2. CASE Retire
  BY <1>1, <1>2
     DEF Retire, Stay, process, PlaceInv, Place, Recording, Calling, Seeded
<1>3. CASE ~Retire
  <2>1. Seeded' \/ pc' = "down"
    BY <1>1, <1>3, SeededStays
       DEF Boot, ObserveTool, Crash, WaitDue, WaitInterrupted, Down,
           RefreshNotApplicable, RefreshBlocked, ResetRetired, PlaceInv, Seeded
  <2>2. /\ pc' \in {"down", "loop", "refresh", "observe"}
        /\ booting' \in BOOLEAN /\ monitoring' \in BOOLEAN
        /\ mode' \in {mode, "first", "tool", "quiet", "quiet_settling"}
    BY <1>1, <1>3
       DEF Boot, ObserveTool, Crash, WaitDue, WaitInterrupted, Down, process,
           RefreshNotApplicable, RefreshBlocked, ResetRetired, PlaceInv, Stay,
           Quieten
  <2> QED BY <1>1, <2>1, <2>2, RestingPlace DEF PlaceInv
<1> QED BY <1>2, <1>3

LEMMA RecordPlace ==
  ASSUME TypeInv, Next,
         \/ Freeze \/ Resume \/ RecordStart \/ RecordFinish \/ RecordDuplicate
         \/ ClaimDuplicate \/ ClaimSubmit
  PROVE  PlaceInv'
<1>1. PlaceInv
  BY DEF TypeInv
<1>2. Seeded /\ Seeded'
  <2>1. pc # "down"
    BY DEF Freeze, Resume, RecordStart, RecordFinish, RecordDuplicate,
           ClaimDuplicate, ClaimSubmit, Observing
  <2> QED BY <1>1, <2>1, SeededStays DEF PlaceInv
<1>3. CASE Freeze
  BY <1>1, <1>2, <1>3, FreezeMove
     DEF PlaceInv, Place, Recording, Calling, process
<1>4. CASE Resume
  BY <1>1, <1>2, <1>4
     DEF Resume, Observing, Stay, durable, PlaceInv, Place, Recording, Calling,
         process
<1>5. CASE RecordStart \/ RecordFinish
  <2>1. PICK s \in DOMAIN snapshots, t \in Task :
           /\ DOMAIN snapshots' = DOMAIN snapshots /\ snapshots'[s] = t
           /\ \A r \in DOMAIN snapshots \ {s} : snapshots'[r] = snapshots[r]
           /\ RecordStart => /\ snapshots[s].status = "pending"
                             /\ t.status = "running" /\ pc = "record"
                             /\ executing' = s /\ pc' = "snapshot"
           /\ RecordFinish => /\ t.status = "succeeded" /\ s = executing
                              /\ pc' = IF s = OwnSnapshot THEN "claim"
                                       ELSE "record"
           /\ Seeded /\ cursor.state = "preparing"
           /\ UNCHANGED <<cursor, tasks, actions, spent, wake, now, mode,
                          booting, authority, monitoring, armed, bounds>>
    BY <1>5, RecordWrites
  <2>2. CASE RecordStart
    BY <1>1, <1>2, <2>1, <2>2 DEF PlaceInv, Place, Recording, Calling
  <2>3. CASE RecordFinish
    <3>1. OwnSnapshot' = OwnSnapshot
      BY <2>1 DEF OwnSnapshot
    <3> QED BY <1>1, <1>2, <2>1, <2>3, <3>1
            DEF PlaceInv, Place, Recording, Calling, Recorded
  <2> QED BY <1>5, <2>2, <2>3
<1>6. CASE RecordDuplicate
  <2>1. OwnSnapshot' = OwnSnapshot
    BY <1>6 DEF RecordDuplicate, OwnSnapshot, durable
  <2> QED BY <1>1, <1>2, <1>6, <2>1
          DEF RecordDuplicate, Stay, durable, PlaceInv, Place, Recording,
              Calling, process, Recorded
<1>7. CASE ClaimDuplicate \/ ClaimSubmit
  <2>1. /\ UNCHANGED <<cursor, snapshots, actions, wake>> /\ pc = "claim"
        /\ pc' = "name" /\ UNCHANGED <<mode, process>>
    BY <1>7 DEF ClaimDuplicate, ClaimSubmit, Stay, durable
  <2>2. OwnSnapshot' = OwnSnapshot /\ OwnCognition' = OwnCognition
    BY <2>1 DEF OwnSnapshot, OwnCognition
  <2>3. OwnCognition \in DOMAIN tasks'
    BY <1>7 DEF ClaimDuplicate, ClaimSubmit, Claimed, durable, Stored
  <2> QED BY <1>1, <1>2, <2>1, <2>2, <2>3
          DEF PlaceInv, Place, Recording, Calling, process, Recorded, Claimed
<1> QED BY <1>3, <1>4, <1>5, <1>6, <1>7

LEMMA CallPlace ==
  ASSUME TypeInv, Next,
         StartCognition \/ Consume \/ Call \/ Declined \/ Answer
  PROVE  PlaceInv'
<1>1. PlaceInv
  BY DEF TypeInv
<1>2. Seeded /\ Seeded' /\ cursor.state = "prepared" /\ UNCHANGED cursor
  <2>1. pc \in {"gate"} \cup Calling /\ UNCHANGED cursor
    BY DEF StartCognition, Consume, Call, Declined, Answer, Calling
  <2> QED BY <1>1, <2>1, SeededStays DEF PlaceInv, Calling
<1>3. CASE StartCognition
  <2>1. PICK t \in Task :
           /\ Written(cursor.current, t) /\ t.status = "running"
           /\ cursor.current \notin actions
    BY <1>3, StartWrites
  <2> QED BY <1>1, <1>2, <1>3, <2>1
          DEF StartCognition, Stay, Written, PlaceInv, Place, Recording,
              Calling, process, Named
<1>4. CASE Consume
  BY <1>1, <1>2, <1>4
     DEF Consume, Stay, PlaceInv, Place, Recording, Calling, process, Named
<1>5. CASE Call
  BY <1>1, <1>2, <1>5
     DEF Call, Stay, PlaceInv, Place, Recording, Calling, process, Named
<1>6. CASE Declined \/ Answer
  BY <1>1, <1>2, <1>6, EndWrites, RestingPlace DEF PlaceInv, process
<1> QED BY <1>3, <1>4, <1>5, <1>6

LEMMA PlaceStep ==
  ASSUME TypeInv, Next \/ UNCHANGED vars
  PROVE  PlaceInv'
BY IdlePlace, EndsPlace, RefreshPlace, RecordPlace, CallPlace
   DEF Next, Progress, Idle, Ends, Blocks

LEMMA TypeStep ==
  ASSUME TypeInv, Next \/ UNCHANGED vars
  PROVE  TypeInv'
BY CursorStep, TasksStep, SnapshotsStep, OthersStep, PlaceStep DEF TypeInv

-----------------------------------------------------------------------------
(* The lineage.                                                            *)

LEMMA InitLineage == Init => LineageInv /\ GenerationsAccounted
BY DEF Init, LineageInv, GenerationsAccounted, SpentOncePerGeneration,
       AnswersReachLineage, Seeded

(* What the lineage is extended by, and what its end is named or reset by. *)
LEMMA PathMoves ==
  ASSUME TypeInv, Next \/ UNCHANGED vars, Seeded
  PROVE  /\ Seeded'
         /\ \/ Settle
            \/ /\ cursor'.predecessor = cursor.predecessor
               /\ \/ cursor'.current = cursor.current
                  \/ cursor.current = NoTask
                  \/ Marked /\ ResetRetired
<1>1. Seeded'
  BY SeededStays
<1>2. cursor.state # "prepared" /\ cursor.state # "blocked" =>
        cursor.current = NoTask
  BY CursorStates DEF TypeInv
<1>3. CASE UNCHANGED cursor
  BY <1>1, <1>3
<1>4. CASE Freeze
  BY <1>1, <1>2, <1>4, FreezeMove
<1>5. CASE Name
  BY <1>1, <1>2, <1>5, NameMove
<1>6. CASE ResetRetired
  BY <1>1, <1>6, ResetMove
<1>7. CASE Blocks
  BY <1>1, <1>7, BlockMove
<1>8. ~Seed
  BY DEF Seed, Seeded
<1> QED BY CursorMoves, <1>1, <1>3, <1>4, <1>5, <1>6, <1>7, <1>8 DEF Blocks

(* An Action is added for the named cognition or an operator's own.        *)
LEMMA ActionsGrow ==
  ASSUME TypeInv, Next \/ UNCHANGED vars
  PROVE  /\ actions \subseteq actions'
         /\ \A id \in actions' \ actions :
              /\ Seeded /\ cursor' = cursor /\ id \in DOMAIN tasks
              /\ id = cursor.current \/ ~Own(id)
<1>1. CASE UNCHANGED actions
  BY <1>1
<1>2. CASE OneShotTool
  <2>1. PICK id \in DOMAIN tasks :
          /\ id = cursor.current \/ ~Own(id)
          /\ actions' \in {actions, actions \cup {id}}
          /\ Seeded /\ cursor' = cursor
    BY <1>2, OneShotWrites
  <2> QED BY <2>1
<1>3. CASE Call
  <2>1. /\ Seeded /\ cursor.state = "prepared" /\ cursor' = cursor
        /\ actions' = actions \cup {cursor.current}
    BY <1>3 DEF Call, TypeInv, PlaceInv, Calling
  <2>2. cursor.current \in DOMAIN tasks
    BY <2>1, CursorStates, NamedIsNext DEF TypeInv
  <2> QED BY <2>1, <2>2
<1> QED BY ActionMoves, <1>1, <1>2, <1>3

(* When the named cognition joins the lineage, what was so of the others   *)
(* stays so.                                                               *)
LEMMA Joined ==
  ASSUME TypeInv, Settle
  PROVE  /\ cursor'.predecessor = cursor.current /\ cursor'.current = NoTask
         /\ cursor.current \in Cognition /\ cursor.current \in DOMAIN tasks
         /\ tasks[cursor.current].status = "succeeded"
         /\ Seeded /\ Len(cursor.predecessor) \in Nat
         /\ Len(cursor'.predecessor) = Len(cursor.predecessor) + 1
         /\ \A g \in 0 .. Len(cursor.predecessor) :
              SubSeq(cursor'.predecessor, 1, g) = SubSeq(cursor.predecessor, 1, g)
         /\ SubSeq(cursor'.predecessor, 1, Len(cursor'.predecessor))
              = cursor.current
         /\ UNCHANGED <<tasks, actions>>
<1>1. /\ Seeded /\ cursor.state = "prepared" /\ Named.status = "succeeded"
      /\ cursor'.predecessor = cursor.current /\ cursor'.current = NoTask
      /\ UNCHANGED <<tasks, actions>>
  BY SettleMove
<1>2. cursor.current # NoTask /\ NamedInv /\ cursor.predecessor \in Cognition
  BY <1>1, CursorStates, CursorFields DEF TypeInv
<1>3. cursor.current \in DOMAIN tasks /\ cursor.current \in Cognition
  BY <1>1, <1>2, NamedIsNext
<1>4. /\ Len(cursor.current) = Len(cursor.predecessor) + 1
      /\ Len(cursor.predecessor) \in Nat
      /\ \A g \in 0 .. Len(cursor.predecessor) :
           SubSeq(cursor.current, 1, g) = SubSeq(cursor.predecessor, 1, g)
  <2>1. /\ cursor.snapshot \in Snapshot
        /\ cursor.current = Append(cursor.predecessor, cursor.snapshot)
    BY <1>2 DEF NamedInv
  <2>2. PICK p \in Cognition, s \in Snapshot :
          p = cursor.predecessor /\ s = cursor.snapshot
    BY <1>2, <2>1
  <2>3. /\ Len(Append(p, s)) = Len(p) + 1 /\ Len(p) \in Nat
        /\ \A g \in 0 .. Len(p) : SubSeq(Append(p, s), 1, g) = SubSeq(p, 1, g)
    BY NextCognition
  <2> QED BY <2>1, <2>2, <2>3
<1>5. SubSeq(cursor.current, 1, Len(cursor.current)) = cursor.current
  BY <1>3, CognitionFields
<1> QED BY <1>1, <1>3, <1>4, <1>5 DEF Named

LEMMA BehindStep ==
  ASSUME TypeInv, LineageInv, Next \/ UNCHANGED vars, Seeded,
         NEW id \in DOMAIN tasks'
  PROVE  Behind(id)'
<1>1. CASE id \in DOMAIN tasks
  <2>1. Behind(id) /\ Len(id) \in Nat /\ Len(id) >= 1
    BY <1>1, CognitionFields DEF LineageInv, TypeInv, TasksInv
  <2>2. CASE Settle
    <3>1. Len(id) - 1 \in 0 .. Len(cursor.predecessor)
      BY <2>1, <2>2, Joined DEF Behind
    <3>2. /\ SubSeq(cursor'.predecessor, 1, Len(id) - 1)
               = SubSeq(cursor.predecessor, 1, Len(id) - 1)
          /\ Len(id) <= Len(cursor'.predecessor) + 1
      <4>1. PICK g \in 0 .. Len(cursor.predecessor) : g = Len(id) - 1
        BY <3>1
      <4>2. SubSeq(cursor'.predecessor, 1, g) = SubSeq(cursor.predecessor, 1, g)
        BY <2>2, Joined
      <4>3. Len(id) <= Len(cursor.predecessor) + 1
            /\ Len(cursor'.predecessor) = Len(cursor.predecessor) + 1
            /\ Len(cursor.predecessor) \in Nat
        BY <2>1, <2>2, Joined DEF Behind
      <4> QED BY <2>1, <4>1, <4>2, <4>3
    <3> QED BY <2>1, <3>2 DEF Behind, Origin
  <2>3. CASE cursor'.predecessor = cursor.predecessor
    BY <2>1, <2>3 DEF Behind
  <2> QED BY PathMoves, <2>2, <2>3
<1>2. CASE id \notin DOMAIN tasks
  <2>1. PICK s \in Snapshot : id = Append(cursor.predecessor, s)
    BY <1>2, TasksGrow
  <2>2. cursor' = cursor /\ cursor.predecessor \in Cognition
    BY <1>2, TasksGrow, CursorFields DEF TypeInv
  <2>3. /\ Len(id) = Len(cursor.predecessor) + 1 /\ Len(cursor.predecessor) \in Nat
        /\ \A g \in 0 .. Len(cursor.predecessor) :
             SubSeq(id, 1, g) = SubSeq(cursor.predecessor, 1, g)
    BY <2>1, <2>2, NextCognition
  <2> QED BY <2>2, <2>3 DEF Behind, Origin
<1> QED BY <1>1, <1>2

LEMMA LineageStep ==
  ASSUME TypeInv, LineageInv, Next \/ UNCHANGED vars
  PROVE  LineageInv'
<1>1. /\ DOMAIN tasks \subseteq Cognition /\ actions \subseteq DOMAIN tasks
      /\ NoTask \notin Cognition
  BY NamesAssumption DEF TypeInv, TasksInv, OthersInv
<1>2. ~Seeded' => DOMAIN tasks' = {}
  BY TasksGrow, SeededStays DEF LineageInv
<1>3. ASSUME Seeded', NEW id \in DOMAIN tasks' PROVE Behind(id)'
  <2>1. CASE Seeded
    BY <1>3, <2>1, BehindStep
  <2>2. CASE ~Seeded
    BY <1>3, <2>2, TasksGrow DEF LineageInv
  <2> QED BY <2>1, <2>2
<1>4. ASSUME Seeded', NEW id \in actions', Own(id),
             Len(id) = Len(cursor'.predecessor) + 1
      PROVE  id = cursor'.current
  <2>1. CASE id \notin actions
    BY <1>4, <2>1, ActionsGrow
  <2>2. CASE id \in actions
    <3>1. Seeded /\ Behind(id)
      BY <1>1, <2>2 DEF LineageInv
    <3>2. ~Settle
      BY <1>4, <3>1, Joined DEF Behind
    <3>3. cursor'.predecessor = cursor.predecessor
      BY <3>1, <3>2, PathMoves
    <3>4. id = cursor.current
      BY <1>4, <2>2, <3>1, <3>3 DEF LineageInv
    <3>5. cursor.current # NoTask /\ ~Marked
      BY <1>1, <2>2, <3>4 DEF Marked
    <3> QED BY <3>1, <3>2, <3>4, <3>5, PathMoves
  <2> QED BY <2>1, <2>2
<1>5. ASSUME NEW id \in DOMAIN tasks', tasks'[id].status = "succeeded"
      PROVE  id \in actions'
  <2>1. CASE id \in DOMAIN tasks
    BY <1>5, <2>1, TaskMove, ActionsGrow DEF TaskMoved, LineageInv
  <2>2. CASE id \notin DOMAIN tasks
    BY <1>5, <2>2, TasksGrow, NewTaskIsTask
  <2> QED BY <2>1, <2>2
<1> QED BY <1>2, <1>3, <1>4, <1>5 DEF LineageInv

LEMMA SpentStep ==
  ASSUME TypeInv, LineageInv, SpentOncePerGeneration, Next \/ UNCHANGED vars
  PROVE  SpentOncePerGeneration'
<1>1. ASSUME NEW a \in actions', NEW b \in actions, Own(a), Own(b),
             Origin(a) = Origin(b)
      PROVE  a = b
  <2>1. CASE a \in actions
    BY <1>1, <2>1 DEF SpentOncePerGeneration
  <2>2. CASE a \notin actions
    <3>1. /\ Seeded /\ a = cursor.current /\ a \in DOMAIN tasks
          /\ b \in DOMAIN tasks /\ b \in Cognition /\ b # <<>>
      BY <1>1, <2>2, ActionsGrow DEF TypeInv, OthersInv, TasksInv
    <3>2. a # NoTask
      BY <3>1, NamesAssumption DEF TypeInv, TasksInv
    <3>3. /\ Origin(a) = cursor.predecessor /\ Len(cursor.predecessor) \in Nat
      BY <3>1, <3>2, NamedIsNext, CursorFields DEF TypeInv
    <3>4. Len(b) \in Nat /\ Len(b) >= 1
      BY <3>1, CognitionFields
    <3>5. Len(Origin(b)) = Len(b) - 1
      <4>1. PICK n \in Nat : n = Len(b) - 1
        BY <3>4
      <4>2. b \in Seq(Snapshot) /\ \A i \in 1 .. n : b[i] \in Snapshot
        BY <3>1, <3>4, <4>1, ElementOfSeq DEF Cognition
      <4>3. Len(SubSeq(b, 1, n)) = IF 1 <= n THEN n - 1 + 1 ELSE 0
        BY <4>2, SubSeqProperties
      <4>4. Len(SubSeq(b, 1, n)) = n
        BY <4>3
      <4>5. Origin(b) = SubSeq(b, 1, n)
        BY <4>1 DEF Origin
      <4> QED BY <4>1, <4>4, <4>5
    <3>6. Len(b) = Len(cursor.predecessor) + 1
      BY <1>1, <3>3, <3>4, <3>5
    <3> QED BY <1>1, <3>1, <3>6 DEF LineageInv
  <2> QED BY <2>1, <2>2
<1>2. ASSUME NEW a \in actions' \ actions, NEW b \in actions' \ actions,
             Own(a), Own(b)
      PROVE  a = b
  BY <1>2, ActionsGrow
<1>3. ASSUME NEW a \in actions', NEW b \in actions', Own(a), Own(b),
             Origin(a) = Origin(b)
      PROVE  a = b
  <2>1. CASE a \in actions \/ b \in actions
    BY <1>1, <1>3, <2>1
  <2>2. CASE a \notin actions /\ b \notin actions
    BY <1>2, <1>3, <2>2
  <2> QED BY <2>1, <2>2
<1> QED BY <1>3 DEF SpentOncePerGeneration

OnLine(id) ==
  \/ id = cursor.current
  \/ /\ Len(id) <= Len(cursor.predecessor)
     /\ id = SubSeq(cursor.predecessor, 1, Len(id))

LEMMA AnswersStep ==
  ASSUME TypeInv, LineageInv, AnswersReachLineage, Next \/ UNCHANGED vars
  PROVE  AnswersReachLineage'
<1> SUFFICES ASSUME Seeded' PROVE AnswersReachLineage'
  BY DEF AnswersReachLineage
<1>1. ASSUME NEW id \in DOMAIN tasks', Own(id), tasks'[id].status = "succeeded"
      PROVE  OnLine(id)'
  <2>1. id \in DOMAIN tasks
    BY <1>1, TasksGrow, NewTaskIsTask
  <2>2. Seeded /\ id \in Cognition /\ Len(id) \in Nat
    BY <2>1, CognitionFields DEF LineageInv, TypeInv, TasksInv
  <2>3. CASE tasks[id].status # "succeeded"
    <3>1. cursor' = cursor /\ id = cursor.current
      BY <1>1, <2>1, <2>3, TaskMove DEF TaskMoved
    <3> QED BY <3>1 DEF OnLine
  <2>4. CASE tasks[id].status = "succeeded"
    <3>1. OnLine(id)
      BY <1>1, <2>1, <2>2, <2>4 DEF AnswersReachLineage, OnLine
    <3>2. CASE Settle
      <4>1. CASE id = cursor.current
        BY <3>2, <4>1, Joined DEF OnLine
      <4>2. CASE id # cursor.current
        BY <2>2, <3>1, <3>2, <4>2, Joined DEF OnLine
      <4> QED BY <4>1, <4>2
    <3>3. CASE ~Settle
      <4>1. cursor'.predecessor = cursor.predecessor
        BY <2>2, <3>3, PathMoves
      <4>2. id = cursor.current => cursor'.current = cursor.current
        <5>1. ASSUME id = cursor.current PROVE ~Marked /\ cursor.current # NoTask
          BY <2>1, <2>2, <2>4, <5>1, NamesAssumption
             DEF Marked, Named, TypeInv, TasksInv
        <5> QED BY <2>2, <3>3, <5>1, PathMoves
      <4> QED BY <3>1, <4>1, <4>2 DEF OnLine
    <3> QED BY <3>2, <3>3
  <2> QED BY <2>3, <2>4
<1>2. ASSUME NEW id \in actions, tasks[id].status = "succeeded"
      PROVE  id \in actions' /\ tasks'[id].status = "succeeded"
  <2>1. id \in DOMAIN tasks
    BY DEF TypeInv, OthersInv
  <2> QED BY <1>2, <2>1, ActionsGrow, TaskMove DEF TaskMoved, Nonterminal
<1>3. ASSUME NEW g \in 1 .. Len(cursor'.predecessor)
      PROVE  LET id == SubSeq(cursor'.predecessor, 1, g) IN
             id \in actions' /\ tasks'[id].status = "succeeded"
  <2>1. CASE Seed
    BY <2>1, SeedMove, EmptyCognition
  <2>2. CASE ~Seed
    <3>1. Seeded
      BY <2>2, CursorMoves, SettleMove, ResetMove, FreezeMove, NameMove,
         BlockMove DEF Seeded, Blocks
    <3>2. \A h \in 1 .. Len(cursor.predecessor) :
            LET id == SubSeq(cursor.predecessor, 1, h) IN
            id \in actions /\ tasks[id].status = "succeeded"
      BY <3>1 DEF AnswersReachLineage
    <3>3. CASE cursor'.predecessor = cursor.predecessor
      BY <1>2, <3>2, <3>3
    <3>4. CASE Settle /\ g <= Len(cursor.predecessor)
      <4>1. SubSeq(cursor'.predecessor, 1, g) = SubSeq(cursor.predecessor, 1, g)
        BY <3>4, Joined
      <4>2. g \in 1 .. Len(cursor.predecessor)
        BY <3>4, Joined
      <4> QED BY <1>2, <3>2, <4>1, <4>2
    <3>5. CASE Settle /\ ~(g <= Len(cursor.predecessor))
      <4>1. SubSeq(cursor'.predecessor, 1, g) = cursor.current
        BY <3>5, Joined
      <4>2. cursor.current \in actions /\ tasks[cursor.current].status = "succeeded"
        BY <3>5, Joined DEF LineageInv
      <4> QED BY <1>2, <4>1, <4>2
    <3> QED BY <3>1, <3>3, <3>4, <3>5, PathMoves
  <2> QED BY <2>1, <2>2
<1> QED BY <1>1, <1>3 DEF AnswersReachLineage, OnLine

LineInv == TypeInv /\ LineageInv /\ GenerationsAccounted

LEMMA LineAlways == Spec => []LineInv
<1>1. Init => LineInv
  BY InitType, InitLineage DEF LineInv
<1>2. LineInv /\ [Next]_vars => LineInv'
  BY TypeStep, LineageStep, SpentStep, AnswersStep
     DEF LineInv, GenerationsAccounted
<1> QED BY <1>1, <1>2, PTL DEF Spec

(* No generation is paid for twice, and an answer that was paid for is on  *)
(* the lineage or about to join it (CurrentCognitionCycle::claim,          *)
(* AutonomousCognitionPulse::observe).                                     *)
THEOREM GenerationsCorrect == Spec => []GenerationsAccounted
<1>1. LineInv => GenerationsAccounted
  BY DEF LineInv
<1> QED BY <1>1, LineAlways, PTL

-----------------------------------------------------------------------------
(* The thread.                                                             *)

(* A step of the service that does not end it.                             *)
Within ==
  \/ RefreshNotApplicable \/ RefreshBlocked \/ Retire \/ ResetRetired
  \/ Freeze \/ Resume \/ RecordStart \/ RecordFinish \/ RecordDuplicate
  \/ ClaimDuplicate \/ ClaimSubmit
  \/ StartCognition \/ Consume \/ Call \/ Declined \/ Answer
  \/ (Unavailable /\ Quieten /\ pc \in {"refresh", "reset"})

LEMMA WithinMove ==
  ASSUME TypeInv, Within
  PROVE  /\ pc \notin {"down", "loop"} /\ pc' \notin {"down", "loop"}
         /\ UNCHANGED <<booting, monitoring>>
BY EndWrites, FreezeMove
   DEF Within, RefreshNotApplicable, RefreshBlocked, Retire, ResetRetired,
       Resume, RecordStart, RecordFinish, RecordDuplicate, ClaimDuplicate,
       ClaimSubmit, StartCognition, Consume, Call, Unavailable, Quieten, Stay,
       process, Observing, Calling, Freeze

LEMMA ThreadMoves ==
  ASSUME TypeInv, Next \/ UNCHANGED vars
  PROVE  \/ Idle /\ UNCHANGED thread
         \/ /\ Boot /\ pc = "down" /\ pc' = "refresh" /\ booting' = TRUE
            /\ UNCHANGED mode
         \/ ObserveTool /\ pc = "down" /\ pc' = "observe" /\ mode' = "tool"
         \/ pc # "down" /\ Stopped
         \/ /\ WaitDue \/ WaitInterrupted
            /\ pc = "loop" /\ pc' = IF monitoring THEN "refresh" ELSE "loop"
            /\ UNCHANGED <<mode, booting, monitoring>>
         \/ Within
         \/ /\ pc \notin {"down", "loop", "snapshot"} /\ Rested
            /\ \/ Ends \/ GateCloses
               \/ (Unavailable \/ AnswerRefused) /\ monitoring' = FALSE
         \/ Ends /\ AtGate
<1>1. CASE Idle
  BY <1>1, IdleMove
<1>2. CASE Boot \/ ObserveTool \/ Crash \/ WaitDue \/ WaitInterrupted
  BY <1>2 DEF Boot, ObserveTool, Crash, WaitDue, WaitInterrupted, Down, Stopped,
              process, TypeInv, PlaceInv
<1>3. CASE Ends
  BY <1>3, EndsEnd
<1>4. CASE GateCloses
  BY <1>4 DEF GateCloses, Rest, Rested
<1>5. CASE AnswerRefused
  BY <1>5 DEF AnswerRefused, Unhealthy, Rest, Rested, Down, Stopped
<1>6. CASE Unavailable
  <2>1. CASE Quieten /\ pc \in {"refresh", "reset"}
    BY <1>6, <2>1 DEF Within
  <2>2. CASE /\ pc \in {"observe", "record", "claim", "name", "gate"}
             /\ Rest(NoTime) \/ Unhealthy
    BY <1>6, <2>2 DEF Unavailable, Unhealthy, Rest, Rested, Down, Stopped
  <2> QED BY <1>6, <2>1, <2>2 DEF Unavailable
<1> QED BY <1>1, <1>2, <1>3, <1>4, <1>5, <1>6
        DEF Next, Progress, Idle, Ends, Blocks, Within

LEMMA InitSteps == Init => SnapshotInv /\ StepInv
BY DEF Init, SnapshotInv, StepInv, Quiet

(* A step that asks for another is not one of a preparation or a block.    *)
LEMMA AskedFor ==
  ASSUME TypeInv, Ends \/ GateCloses, Rested, monitoring'
  PROVE  cursor'.state \in {"idle", "quiescent", "prepared"}
<1>1. CASE GateCloses
  BY <1>1 DEF GateCloses, durable, TypeInv, PlaceInv
<1>2. CASE Settle
  BY <1>2, SettleMove
<1>3. CASE Name
  BY <1>3, NameMove
<1>4. CASE ObserveWaiting \/ ObserveNotDue \/ ObserveBudget
  BY <1>4 DEF ObserveWaiting, ObserveNotDue, ObserveBudget, Observing, Ended,
              durable
<1>5. CASE ObserveBlocked \/ ResumeRolledBack \/ RecordNotStartable \/ Blocks
  <2>1. EndStep(FALSE, NoTime)
    BY <1>5 DEF ObserveBlocked, ResumeRolledBack, RecordNotStartable, Ended,
                Blocks, BlockedByFailure, ResumeBlocked, RecordFailed,
                ClaimRefused, Block
  <2>2. FALSE
    BY <2>1, StepEnds DEF TypeInv, PlaceInv, Stopped, Rested, AtGate
  <2> QED BY <2>2
<1> QED BY <1>1, <1>2, <1>3, <1>4, <1>5 DEF Ends

LEMMA UnfinishedStays ==
  ASSUME TypeInv, SnapshotInv, Next \/ UNCHANGED vars,
         NEW s \in DOMAIN snapshots', Unfinished(s)'
  PROVE  /\ Seeded' /\ cursor'.state \in {"preparing", "blocked"}
         /\ s = OwnSnapshot'
         /\ \/ s \notin DOMAIN snapshots /\ snapshots'[s].status = "pending"
            \/ s \in DOMAIN snapshots /\ Unfinished(s)
<1>1. CASE s \notin DOMAIN snapshots
  <2>1. RecordSubmit
    BY <1>1, SnapshotMoves, RecoverEach, RecordWrites DEF CancelSnapshot
  <2>2. /\ Seeded /\ cursor.state = "preparing" /\ cursor' = cursor
        /\ wake' = wake /\ s = OwnSnapshot /\ snapshots'[s] = NewTask
    BY <1>1, <2>1, SubmitWrites
  <2> QED BY <1>1, <2>2, NewTaskIsTask, SeededStays DEF OwnSnapshot
<1>2. CASE s \in DOMAIN snapshots
  <2>1. wake' = wake /\ s.wake = wake
    <3>1. s.wake \in Nat /\ s.wake <= wake /\ wake \in Nat
      BY <1>2 DEF TypeInv, SnapshotsInv, OthersInv, Snapshot
    <3> QED BY <3>1, WakeChanges DEF Unfinished
  <2>2. Unfinished(s)
    BY <1>2, <2>1, SnapshotMove DEF Unfinished, Nonterminal
  <2>3. Seeded /\ cursor.state \in {"preparing", "blocked"} /\ s = OwnSnapshot
    BY <1>2, <2>2 DEF SnapshotInv
  <2>4. ~Seed /\ ~Settle /\ ~ResetRetired /\ ~Freeze
    BY <2>3, SeedMove, SettleMove, ResetMove, FreezeMove
  <2>5. ~Name
    BY <2>2, <2>3 DEF Name, TypeInv, PlaceInv, Unfinished, Nonterminal
  <2>6. CASE UNCHANGED cursor
    BY <1>2, <2>1, <2>2, <2>3, <2>6, SeededStays DEF OwnSnapshot
  <2>7. CASE Blocks
    <3>1. /\ cursor'.state = "blocked" /\ cursor'.due = cursor.due
          /\ cursor'.observed = cursor.observed
      BY <2>7, BlockMove
    <3> QED BY <1>2, <2>1, <2>2, <2>3, <3>1, SeededStays DEF OwnSnapshot
  <2> QED BY CursorMoves, <2>4, <2>5, <2>6, <2>7 DEF Blocks
<1> QED BY <1>1, <1>2

LEMMA SnapshotStep ==
  ASSUME TypeInv, SnapshotInv, StepInv, Next \/ UNCHANGED vars
  PROVE  SnapshotInv'
<1> SUFFICES ASSUME NEW s \in DOMAIN snapshots', Unfinished(s)',
                    snapshots'[s].status # "pending"
             PROVE  \/ pc' = "snapshot" /\ executing' = s
                    \/ pc' = "down" \/ booting' \/ mode' = "tool"
                    \/ pc' = "loop" /\ ~monitoring'
  BY UnfinishedStays DEF SnapshotInv
<1>1. s \in DOMAIN snapshots /\ Unfinished(s)
  BY UnfinishedStays
<1>2. CASE RecordStart /\ executing' = s /\ pc' = "snapshot"
  BY <1>2
<1>3. CASE snapshots'[s] = snapshots[s]
  <2>1. \/ pc = "snapshot" /\ executing = s
        \/ pc = "down" \/ booting \/ mode = "tool"
        \/ pc = "loop" /\ ~monitoring
    BY <1>1, <1>3 DEF SnapshotInv
  <2>2. CASE Idle /\ UNCHANGED thread
    BY <2>1, <2>2 DEF thread
  <2>3. CASE \/ Boot /\ booting' = TRUE
             \/ ObserveTool /\ mode' = "tool"
             \/ Stopped
    BY <2>3 DEF Stopped
  <2>4. CASE /\ pc = "loop" /\ pc' = IF monitoring THEN "refresh" ELSE "loop"
             /\ UNCHANGED <<mode, booting, monitoring>>
    BY <2>1, <2>4
  <2>5. CASE Rested /\ (Ends \/ GateCloses)
    BY <2>5, AskedFor, UnfinishedStays DEF Rested
  <2>6. CASE Rested /\ monitoring' = FALSE
    BY <2>6 DEF Rested
  <2>7. CASE Ends /\ AtGate
    BY <2>7, UnfinishedStays DEF AtGate
  <2>8. CASE Within
    <3>1. pc \notin {"down", "loop"} /\ UNCHANGED <<booting, monitoring>>
      BY <2>8, WithinMove
    <3>2. CASE booting
      BY <3>1, <3>2
    <3>3. CASE mode = "tool"
      <4>1. pc \in {"observe"} \cup Recording
        BY <3>3 DEF StepInv
      <4>2. mode' = mode
        BY <2>8, <4>1, FreezeMove
           DEF Within, RefreshNotApplicable, RefreshBlocked, Retire,
               ResetRetired, Resume, RecordStart, RecordFinish,
               RecordDuplicate, ClaimDuplicate, ClaimSubmit, StartCognition,
               Consume, Call, Declined, Answer, Unavailable, Quieten, Stay,
               Recording, Rest, Unhealthy
      <4> QED BY <3>3, <4>2
    <3>4. CASE pc = "snapshot" /\ executing = s
      <4>1. RecordFinish
        BY <2>8, <3>4
           DEF Within, RefreshNotApplicable, RefreshBlocked, Retire,
               ResetRetired, Freeze, Resume, RecordStart, Observing,
               RecordDuplicate, ClaimDuplicate, ClaimSubmit, StartCognition,
               Consume, Call, Declined, Answer, Unavailable
      <4>2. snapshots'[s].status = "succeeded"
        BY <3>4, <4>1, RecordWrites
      <4> QED BY <4>2 DEF Unfinished, Nonterminal
    <3> QED BY <2>1, <3>1, <3>2, <3>3, <3>4
  <2> QED BY ThreadMoves, <2>2, <2>3, <2>4, <2>5, <2>6, <2>7, <2>8
<1>4. CASE CancelSnapshot
  BY <1>4 DEF CancelSnapshot, thread
<1> QED BY <1>1, <1>2, <1>3, <1>4, SnapshotMove DEF Unfinished, Nonterminal

(* What a step of the service does to the mode.                            *)
LEMMA WithinMode ==
  ASSUME TypeInv, StepInv, Within
  PROVE  /\ mode = "tool" => mode' = "tool" /\ pc' \in Recording
         /\ mode' = "tool" => mode = "tool"
<1>1. CASE mode = "tool"
  <2>1. pc \in {"observe"} \cup Recording
    BY <1>1 DEF StepInv
  <2>2. \/ Freeze \/ Resume \/ RecordStart \/ RecordFinish \/ RecordDuplicate
        \/ ClaimDuplicate \/ ClaimSubmit
    BY <2>1 DEF Within, RefreshNotApplicable, RefreshBlocked, Retire,
                ResetRetired, StartCognition, Consume, Call, Declined, Answer,
                Recording
  <2>3. mode' = mode /\ pc' \in Recording
    BY <2>2, FreezeMove
       DEF Resume, RecordStart, RecordFinish, RecordDuplicate, ClaimDuplicate,
           ClaimSubmit, Stay, Recording
  <2> QED BY <1>1, <2>3
<1>2. CASE mode # "tool"
  <2>1. mode' \in {mode, "settling", "quiet", "quiet_settling"}
    BY FreezeMove
       DEF Within, RefreshNotApplicable, RefreshBlocked, Retire, ResetRetired,
           Resume, RecordStart, RecordFinish, RecordDuplicate, ClaimDuplicate,
           ClaimSubmit, StartCognition, Consume, Call, Declined, Answer,
           Quieten, Stay
  <2> QED BY <1>2, <2>1
<1> QED BY <1>1, <1>2

(* A quiet step stays at the prepared cognition, or finds a fault.         *)
LEMMA QuietWithin ==
  ASSUME TypeInv, Quiet /\ faults = 0 => QuietAt, Within, Quiet', faults' = 0
  PROVE  QuietAt'
<1>1. CASE RefreshBlocked
  <2>1. /\ cursor.state = "prepared" /\ Gate # "settled" /\ pc' = "observe"
        /\ UNCHANGED <<cursor, tasks>>
    BY <1>1 DEF RefreshBlocked, Quieten, durable
  <2>2. Named.status # "succeeded"
    BY <2>1 DEF Gate
  <2> QED BY <2>1, <2>2 DEF QuietAt, Named
<1>2. CASE Declined \/ Answer
  BY <1>2, EndWrites DEF Quiet
<1>3. CASE Unavailable
  BY <1>3 DEF Unavailable, Fault, TypeInv, OthersInv
<1>4. CASE ~RefreshBlocked /\ ~Declined /\ ~Answer /\ ~Unavailable
  <2>1. mode' = mode /\ faults' = faults
    BY <1>4, FreezeMove
       DEF Within, RefreshNotApplicable, Retire, ResetRetired, bounds,
           Resume, RecordStart, RecordFinish, RecordDuplicate, ClaimDuplicate,
           ClaimSubmit, StartCognition, Consume, Call, Stay
  <2>2. QuietAt
    BY <2>1 DEF Quiet
  <2>3. StartCognition \/ Consume \/ Call
    BY <1>4, <2>2, FreezeMove
       DEF Within, RefreshNotApplicable, Retire, ResetRetired, Resume,
           Observing, RecordStart, RecordFinish, RecordDuplicate,
           ClaimDuplicate, ClaimSubmit, QuietAt, Calling
  <2> QED BY <2>2, <2>3 DEF StartCognition, Consume, Call, QuietAt, Calling
<1> QED BY <1>1, <1>2, <1>3, <1>4

LEMMA StepStep ==
  ASSUME TypeInv, StepInv, Next \/ UNCHANGED vars
  PROVE  StepInv'
<1>1. faults' = 0 => faults = 0
  BY FaultMoves DEF TypeInv, OthersInv
<1>2. CASE Idle /\ UNCHANGED thread
  <2>1. pc \notin {"down", "loop", "record"} => UNCHANGED <<cursor, tasks>>
    BY <1>2, IdleMove, SubmitWrites
  <2>2. Quiet' /\ faults' = 0 => QuietAt'
    BY <1>1, <1>2, <2>1
       DEF thread, StepInv, Quiet, QuietAt, Calling, Named
  <2> QED BY <1>2, <2>2 DEF StepInv, thread
<1>3. CASE \/ /\ Boot /\ pc = "down" /\ pc' = "refresh" /\ booting' = TRUE
              /\ UNCHANGED mode
           \/ ObserveTool /\ pc = "down" /\ pc' = "observe" /\ mode' = "tool"
           \/ Stopped
           \/ Rested
           \/ /\ pc = "loop" /\ pc' = IF monitoring THEN "refresh" ELSE "loop"
              /\ UNCHANGED <<mode, booting, monitoring>>
  <2>1. pc \in {"down", "loop"} => mode # "tool" /\ ~(Quiet /\ faults = 0)
    BY DEF StepInv, QuietAt, Recording, Calling
  <2>2. Quiet' => mode' \in {"quiet", "quiet_settling"}
    BY DEF Quiet
  <2> QED BY <1>1, <1>3, <2>1, <2>2 DEF StepInv, Stopped, Rested, Quiet
<1>4. CASE Within
  BY <1>1, <1>4, WithinMove, WithinMode, QuietWithin DEF StepInv
<1>5. CASE Ends /\ AtGate
  <2>1. pc \notin {"down", "loop"}
    BY <1>5, EndsEnd
  <2> QED BY <1>5, <2>1 DEF AtGate, StepInv, process, QuietAt
<1> QED BY ThreadMoves, <1>2, <1>3, <1>4, <1>5

LEMMA CognitionAlways == Spec => []CognitionInv
<1>1. Init => CognitionInv
  BY InitType, InitLineage, InitSteps DEF CognitionInv
<1>2. CognitionInv /\ [Next]_vars => CognitionInv'
  BY TypeStep, LineageStep, SnapshotStep, StepStep, SpentStep, AnswersStep
     DEF CognitionInv, GenerationsAccounted
<1> QED BY <1>1, <1>2, PTL DEF Spec

-----------------------------------------------------------------------------
(* Silence.                                                                *)

(* The budget names a time to come back at, unless it is spent for life or *)
(* the clock stands before its last consumption.                           *)
LEMMA BudgetReturns ==
  ASSUME TypeInv, Budget(now) = "cooldown"
  PROVE  LastSpent + MinInterval \in Nat
<1>1. spent # <<>>
  BY DEF Budget
<1>2. spent \in Seq(Permit)
  BY DEF TypeInv, OthersInv
<1>3. Len(spent) \in Nat /\ Len(spent) >= 1
  BY <1>1, <1>2, EmptySeq, LenProperties
<1>4. LastSpent \in Nat
  <2>1. spent[Len(spent)] \in Permit
    BY <1>2, <1>3, ElementOfSeq
  <2> QED BY <2>1 DEF LastSpent, Permit
<1> QED BY <1>4

(* A step that ends well and names a time is the last one only when it is  *)
(* quiet.                                                                  *)
LEMMA EndsWell ==
  ASSUME TypeInv, NEW next \in Nat, EndStep(TRUE, next),
         pc' = "loop", ~monitoring'
  PROVE  Quiet
BY StepEnds DEF TypeInv, PlaceInv, Stopped, AtGate

LEMMA SilenceStep ==
  ASSUME CognitionInv, Ends, pc' = "loop", ~monitoring'
  PROVE  \/ cursor'.state \in {"prepared", "blocked"}
         \/ now < cursor'.anchor
         \/ cursor'.state = "preparing" /\ now < cursor'.observed
         \/ Budget(now) \in {"total_exhausted", "clock_rollback"}
         \/ Quiet /\ faults > 0
<1>1. TypeInv /\ faults \in Nat /\ now \in Nat
  BY DEF CognitionInv, TypeInv, OthersInv
<1>2. Quiet /\ faults = 0 => QuietAt
  BY DEF CognitionInv, StepInv
<1>3. CASE ObserveBlocked \/ ObserveWaiting \/ ResumeRolledBack
  BY <1>3 DEF ObserveBlocked, ObserveWaiting, ResumeRolledBack, Observing,
              Ended, durable
<1>4. CASE Blocks \/ Name
  BY <1>1, <1>4, BlockMove, NameMove
<1>5. CASE RecordNotStartable
  <2>1. /\ pc = "record" /\ OwnSnapshot \in DOMAIN snapshots
        /\ snapshots[OwnSnapshot].status \in {"running", "cancel_requested"}
        /\ EndStep(FALSE, NoTime)
    BY <1>5 DEF RecordNotStartable, Recorded, Ended
  <2>2. Unfinished(OwnSnapshot)
    BY <2>1 DEF Unfinished, Nonterminal, OwnSnapshot
  <2>3. booting \/ mode = "tool"
    BY <2>1, <2>2 DEF CognitionInv, SnapshotInv
  <2>4. Quiet
    BY <1>1, <2>1, <2>3, StepEnds DEF TypeInv, PlaceInv, Stopped, AtGate
  <2> QED BY <1>1, <1>2, <2>1, <2>4 DEF QuietAt, Calling
<1>6. CASE Settle
  <2>1. cursor'.due \in Nat /\ EndStep(TRUE, Later(cursor'.due, now))
    <3>1. cursor'.due \in {now + ContinueCadence, now + QuiescentCadence}
      BY <1>1, <1>6, SettleMove
    <3>2. EndStep(TRUE, Later(cursor'.due, now))
      BY <1>6 DEF Settle
    <3>3. {now + ContinueCadence, now + QuiescentCadence} \subseteq Nat
      BY <1>1
    <3> QED BY <3>1, <3>2, <3>3
  <2>2. PICK next \in Nat : EndStep(TRUE, next)
    BY <1>1, <2>1 DEF Later
  <2>3. Quiet
    BY <1>1, <2>2, EndsWell
  <2> QED BY <1>1, <1>2, <1>6, <2>3, SettleMove DEF QuietAt
<1>7. CASE ObserveNotDue
  <2>1. cursor.due \in Nat /\ Ended(TRUE, cursor.due)
    BY <1>1, <1>7, CursorFields DEF ObserveNotDue, Observing, TypeInv, PlaceInv
  <2>2. Quiet /\ cursor.state \in {"idle", "quiescent"}
    BY <1>1, <1>7, <2>1, EndsWell DEF ObserveNotDue, Observing, Ended
  <2> QED BY <1>1, <1>2, <2>2 DEF QuietAt
<1>8. CASE ObserveBudget
  <2>1. CASE Budget(now) \in {"total_exhausted", "clock_rollback"}
    BY <2>1
  <2>2. CASE Budget(now) \notin {"total_exhausted", "clock_rollback"}
    <3>1. \E next \in Nat : EndStep(TRUE, next)
      <4>1. LastSpent + MinInterval \in Nat \/ Budget(now) # "cooldown"
        BY <1>1, BudgetReturns
      <4>2. CASE EndStep(TRUE, LastSpent + MinInterval) /\ Budget(now) = "cooldown"
        BY <4>1, <4>2
      <4>3. CASE EndStep(TRUE, now + Window)
        <5>1. PICK next \in Nat : next = now + Window
          BY <1>1
        <5> QED BY <4>3, <5>1
      <4> QED BY <1>8, <2>2, <4>2, <4>3 DEF ObserveBudget, Ended
    <3>2. Quiet /\ cursor.state \in {"idle", "quiescent"}
      BY <1>1, <1>8, <3>1, EndsWell DEF ObserveBudget, Observing
    <3> QED BY <1>1, <1>2, <3>2 DEF QuietAt
  <2> QED BY <2>1, <2>2
<1> QED BY <1>3, <1>4, <1>5, <1>6, <1>7, <1>8 DEF Ends

(* The pulse is switched off for a cause: the service asks for no further  *)
(* step only over a row that needs the operator, a clock behind the row, a *)
(* budget spent for life or a store that failed                            *)
(* (AutonomousCognitionPulseService::step).                                *)
THEOREM SilenceCorrect == Spec => SilentForCause
<1> DEFINE Cause ==
      \/ cursor'.state \in {"prepared", "blocked"}
      \/ now < cursor'.anchor
      \/ cursor'.state = "preparing" /\ now < cursor'.observed
      \/ Budget(now) \in {"total_exhausted", "clock_rollback"}
      \/ faults' # faults \/ (Quiet /\ faults > 0)
<1>1. ASSUME CognitionInv, Next, pc \notin {"loop", "down"}, pc' = "loop",
             ~monitoring'
      PROVE  Cause
  <2>1. TypeInv /\ faults \in Nat
    BY <1>1 DEF CognitionInv, TypeInv, OthersInv
  <2>2. Ends \/ GateCloses \/ Unavailable \/ AnswerRefused
    BY <1>1, <2>1, ThreadMoves, WithinMove DEF thread, Stopped, AtGate
  <2>3. CASE Ends
    BY <1>1, <2>3, SilenceStep
  <2>4. CASE GateCloses
    BY <2>1, <2>4 DEF GateCloses, durable, TypeInv, PlaceInv
  <2>5. CASE Unavailable \/ AnswerRefused
    BY <2>1, <2>5 DEF Unavailable, AnswerRefused, Fault
  <2> QED BY <2>2, <2>3, <2>4, <2>5
<1>2. CognitionInv /\ [Next]_vars =>
        [pc \notin {"loop", "down"} /\ pc' = "loop" /\ ~monitoring' => Cause]_vars
  BY <1>1
<1> QED BY <1>2, CognitionAlways, PTL DEF Spec, SilentForCause

-----------------------------------------------------------------------------
(* The promise.                                                            *)

(* The one-shot tool spends the opportunity, or a call of the operator's.  *)
LEMMA CallPromised ==
  ASSUME TypeInv, OneShotTool \/ Call
  PROVE  Promise!Call \/ UNCHANGED Promise!vars
<1>1. PICK id \in DOMAIN tasks :
        /\ Seeded /\ UNCHANGED <<cursor, now>>
        /\ id = cursor.current => cursor.state = "prepared"
        /\ actions' \in {actions, actions \cup {id}}
  <2>1. CASE OneShotTool
    <3>1. PICK id \in DOMAIN tasks :
            /\ Seeded /\ UNCHANGED <<cursor, now>>
            /\ actions' \in {actions, actions \cup {id}}
            /\ Nonterminal(tasks[id])
      BY <2>1, OneShotWrites
    <3>2. id # NoTask
      BY NamesAssumption DEF TypeInv, TasksInv
    <3>3. id = cursor.current => cursor.state # "blocked"
      BY <3>1, <3>2, CursorFields DEF TypeInv, NamedInv, Named, Nonterminal
    <3>4. id = cursor.current => cursor.state = "prepared"
      BY <3>1, <3>2, <3>3, CursorStates DEF TypeInv
    <3> QED BY <3>1, <3>4
  <2>2. CASE Call
    <3>1. /\ Seeded /\ UNCHANGED <<cursor, now>> /\ cursor.state = "prepared"
          /\ actions' = actions \cup {cursor.current}
      BY <2>2 DEF Call, TypeInv, PlaceInv, Calling
    <3>2. cursor.current \in DOMAIN tasks
      BY <3>1, CursorStates, NamedIsNext DEF TypeInv
    <3> QED BY <3>1, <3>2
  <2> QED BY <2>1, <2>2
<1>2. UNCHANGED <<now, Due, Opened, Generation, Closed>>
  BY <1>1 DEF Due, Opened, Generation, Closed, Seeded
<1>3. CASE Called' = Called
  BY <1>2, <1>3 DEF Promise!vars
<1>4. CASE Called' # Called
  <2>1. cursor.current = id /\ cursor.current # NoTask
    BY <1>1, <1>4 DEF Called, Seeded
  <2>2. Called' = TRUE /\ Called = FALSE
    BY <1>1, <1>4 DEF Called, Seeded
  <2>3. Opened # NoTime /\ ~Closed
    BY <1>1, <2>1, CursorStates DEF TypeInv, Opened, Closed
  <2> QED BY <1>2, <2>2, <2>3 DEF Promise!Call
<1> QED BY <1>3, <1>4

LEMMA SeedPromised ==
  ASSUME TypeInv, Seed
  PROVE  Promise!Seed
<1>1. /\ ~Seeded /\ Seeded' /\ cursor'.state \in {"idle", "quiescent"}
      /\ cursor'.predecessor = <<>> /\ cursor'.current = NoTask
      /\ cursor'.observed = NoTime /\ now' = now
      /\ cursor'.due \in {now + ContinueCadence, now + QuiescentCadence}
  BY SeedMove DEF Seeded
<1>2. Due = NoTime /\ Promise!Due(Due')
  BY <1>1 DEF Due, Promise!Due
<1>3. UNCHANGED <<now, Opened, Called, Generation, Closed>>
  BY <1>1, EmptyCognition DEF Opened, Called, Generation, Closed
<1> QED BY <1>2, <1>3 DEF Promise!Seed

LEMMA FreezePromised ==
  ASSUME TypeInv, Freeze
  PROVE  Promise!Open
<1>1. /\ Seeded /\ cursor.state \in {"idle", "quiescent"}
      /\ cursor.due <= now /\ cursor.due # NoTime
      /\ cursor.observed = NoTime /\ cursor.current = NoTask
      /\ Seeded' /\ cursor'.state = "preparing"
      /\ cursor'.predecessor = cursor.predecessor
      /\ cursor'.due = cursor.due /\ cursor'.observed = now
      /\ cursor'.current = NoTask /\ now' = now
  <2>1. Seeded /\ Seeded'
    BY FreezeMove DEF Seeded
  <2> QED BY <2>1, FreezeMove, CursorFields, CursorStates DEF TypeInv
<1> QED BY <1>1 DEF Promise!Open, Due, Opened, Called, Generation, Closed

(* The cognition that is named now was not paid for before.                *)
LEMMA NamePromised ==
  ASSUME TypeInv, LineageInv, Name
  PROVE  UNCHANGED Promise!vars
<1>1. /\ Seeded /\ cursor.state = "preparing" /\ Seeded'
      /\ cursor'.state = "prepared" /\ cursor'.predecessor = cursor.predecessor
      /\ cursor'.due = cursor.due /\ cursor'.observed = cursor.observed
      /\ cursor'.current = OwnCognition
      /\ actions' = actions /\ now' = now
  BY NameMove DEF Seeded
<1>2. cursor.current = NoTask /\ cursor.predecessor \in Cognition
  BY <1>1, CursorStates, CursorFields DEF TypeInv
<1>3. PICK s \in Snapshot :
        s = OwnSnapshot /\ s.due # NoTime
        /\ OwnCognition = Append(cursor.predecessor, s) /\ OwnCognition # NoTask
  BY <1>1, OwnIsNext
<1>4. Own(OwnCognition) /\ Len(OwnCognition) = Len(cursor.predecessor) + 1
  BY <1>2, <1>3, NextCognition DEF Own
<1>5. OwnCognition \notin actions
  BY <1>1, <1>2, <1>3, <1>4 DEF LineageInv
<1> QED BY <1>1, <1>2, <1>5
        DEF Promise!vars, Due, Opened, Called, Generation, Closed

LEMMA SettlePromised ==
  ASSUME TypeInv, LineageInv, Settle
  PROVE  Promise!Answer
<1>1. /\ Seeded /\ Seeded' /\ cursor.state = "prepared" /\ now' = now
      /\ cursor'.state \in {"idle", "quiescent"}
      /\ cursor'.observed = NoTime /\ cursor'.current = NoTask
      /\ cursor'.due \in {now + ContinueCadence, now + QuiescentCadence}
  BY SettleMove DEF Seeded
<1>2. /\ cursor.current \in actions /\ cursor.current # NoTask
      /\ Len(cursor'.predecessor) = Len(cursor.predecessor) + 1
  BY Joined, NamesAssumption DEF LineageInv
<1>3. Called = TRUE /\ Called' = FALSE
  BY <1>1, <1>2 DEF Called
<1>4. Generation' = Generation + 1 /\ Opened' = NoTime
  BY <1>1, <1>2 DEF Generation, Opened
<1>5. Promise!Due(Due') /\ Closed = FALSE /\ Closed' = FALSE
  BY <1>1 DEF Promise!Due, Due, Closed
<1> QED BY <1>1, <1>3, <1>4, <1>5 DEF Promise!Answer

LEMMA ResetPromised ==
  ASSUME TypeInv, ResetRetired
  PROVE  Promise!Withdraw
<1>1. /\ Seeded /\ Seeded' /\ cursor.state = "prepared" /\ now' = now
      /\ cursor.current \notin actions
      /\ cursor'.state = "idle" /\ cursor'.due = cursor.due
      /\ cursor'.predecessor = cursor.predecessor
      /\ cursor'.current = NoTask /\ cursor'.observed = NoTime
  BY ResetMove DEF Seeded, Marked
<1>2. cursor.observed # NoTime
  BY <1>1, CursorStates DEF TypeInv
<1> QED BY <1>1, <1>2
        DEF Promise!Withdraw, Due, Opened, Called, Generation, Closed

LEMMA BlockPromised ==
  ASSUME TypeInv, Blocks
  PROVE  Promise!Close
<1>1. /\ Seeded /\ Seeded' /\ cursor'.state = "blocked" /\ now' = now
      /\ cursor.state # "blocked" /\ cursor'.due = cursor.due
      /\ cursor'.predecessor = cursor.predecessor
      /\ cursor'.observed = cursor.observed
      /\ cursor'.current = cursor.current /\ actions' = actions
  BY BlockMove DEF Seeded
<1>2. cursor.due # NoTime
  BY <1>1, CursorFields DEF TypeInv
<1> QED BY <1>1, <1>2
        DEF Promise!Close, Due, Opened, Called, Generation, Closed

(* The pulse implements CognitionPromise: an opportunity opens no sooner   *)
(* than it is due, is spent on one call at most, is withdrawn only while   *)
(* it is unspent, and the next is a cadence after the answer to this one   *)
(* (AutonomousCognitionPulse::observe, AutonomousCognitionStaleRefresh).   *)
THEOREM PromiseKept == Spec => ImplementsPromise
<1>1. Init => Promise!Init
  BY DEF Init, Promise!Init, Seeded, Due, Opened, Called, Generation, Closed
<1>2. CognitionInv /\ [Next]_vars => [Promise!Next]_Promise!vars
  <2> SUFFICES ASSUME CognitionInv, Next \/ UNCHANGED vars
               PROVE  Promise!Next \/ UNCHANGED Promise!vars
    OBVIOUS
  <2>1. TypeInv /\ LineageInv
    BY DEF CognitionInv
  <2>2. CASE UNCHANGED <<cursor, actions>>
    <3>1. UNCHANGED <<Due, Opened, Called, Generation, Closed>>
      BY <2>2 DEF Due, Opened, Called, Generation, Closed, Seeded
    <3>2. now' \in Nat
      BY <2>1, OthersStep DEF OthersInv
    <3> QED BY <3>1, <3>2 DEF Promise!Next, Promise!Clock
  <2>3. CASE OneShotTool \/ Call
    BY <2>1, <2>3, CallPromised DEF Promise!Next
  <2>4. CASE Seed
    BY <2>1, <2>4, SeedPromised DEF Promise!Next
  <2>5. CASE Freeze
    BY <2>1, <2>5, FreezePromised DEF Promise!Next
  <2>6. CASE Name
    BY <2>1, <2>6, NamePromised
  <2>7. CASE Settle
    BY <2>1, <2>7, SettlePromised DEF Promise!Next
  <2>8. CASE ResetRetired
    BY <2>1, <2>8, ResetPromised DEF Promise!Next
  <2>9. CASE Blocks
    BY <2>1, <2>9, BlockPromised DEF Promise!Next
  <2> QED BY CursorMoves, ActionMoves, <2>2, <2>3, <2>4, <2>5, <2>6, <2>7,
             <2>8, <2>9 DEF Blocks
<1> QED BY <1>1, <1>2, CognitionAlways, PTL
        DEF Spec, ImplementsPromise, Promise!Spec
=============================================================================
