----------------------- MODULE LocalActivityPulseProofs -----------------------
(***************************************************************************)
(* The local activity pulse and the checkpoint it is anchored in, for any  *)
(* cadence, number of generations, attempts and faults: their types, that  *)
(* the pulse is anchored in the truth, is silent for a cause, observes     *)
(* nothing once the evidence has moved, that its status tool refuses what  *)
(* is wrong only, and that it keeps the promise made to its operator.      *)
(***************************************************************************)
EXTENDS LocalActivityPulseProperties, FiniteSetTheorems, SequenceTheorems, TLAPS

USE PulseAssumption

Dates == 0 .. MaxTime + Cadence

-----------------------------------------------------------------------------
(* Sequences of due times, and sets of numbers.                            *)

(* An identity is a sequence of due times.                                *)
LEMMA IdIsSequence ==
  ASSUME NEW id \in Ids
  PROVE  id \in Seq(Dates) /\ Len(id) \in Nat /\ Len(id) <= MaxGeneration
<1>1. PICK g \in 0 .. MaxGeneration : id \in [1 .. g -> Dates]
  BY DEF Ids, Dates
<1> QED BY <1>1

LEMMA SequenceIsId ==
  ASSUME NEW id \in Seq(Dates), Len(id) <= MaxGeneration
  PROVE  id \in Ids
<1>1. id \in [1 .. Len(id) -> Dates] /\ Len(id) \in Nat
  BY LenProperties
<1>2. Len(id) \in 0 .. MaxGeneration
  BY <1>1
<1> QED BY <1>1, <1>2 DEF Ids, Dates

(* The empty identity is the one before the first generation.              *)
LEMMA EmptyId ==
  /\ <<>> \in Ids
  /\ \A id \in Ids : id = <<>> <=> Len(id) = 0
<1> DEFINE empty == <<>>
<1>1. empty \in Seq(Dates) /\ Len(empty) = 0
  BY EmptySeq
<1> HIDE DEF empty
<1>2. empty \in Ids
  <2>1. Len(empty) <= MaxGeneration
    BY <1>1
  <2> QED BY <1>1, <2>1, SequenceIsId
<1>3. ASSUME NEW id \in Ids, id # <<>> PROVE Len(id) # 0
  <2>1. id \in Seq(Dates)
    BY IdIsSequence
  <2> QED BY <2>1, <1>3, EmptySeq
<1> QED BY <1>1, <1>2, <1>3 DEF empty

(* The next identity has one due time more and the others as they were.    *)
LEMMA NextId ==
  ASSUME NEW id \in Ids, Len(id) < MaxGeneration, NEW due \in Dates
  PROVE  /\ Append(id, due) \in Ids
         /\ Append(id, due) # <<>>
         /\ Len(Append(id, due)) = Len(id) + 1
         /\ \A i \in 1 .. Len(id) : Append(id, due)[i] = id[i]
         /\ Append(id, due)[Len(id) + 1] = due
         /\ \A g \in 0 .. Len(id) :
              SubSeq(Append(id, due), 1, g) = SubSeq(id, 1, g)
<1>1. id \in Seq(Dates) /\ Len(id) \in Nat
  BY IdIsSequence
<1> DEFINE next == Append(id, due)
<1>2. /\ next \in Seq(Dates) /\ next # <<>>
      /\ Len(next) = Len(id) + 1
      /\ \A i \in 1 .. Len(id) : next[i] = id[i]
      /\ next[Len(id) + 1] = due
  BY <1>1, AppendProperties
<1>3. next \in Ids
  <2> HIDE DEF next
  <2>1. next \in Seq(Dates) /\ Len(next) <= MaxGeneration
    BY <1>1, <1>2
  <2> QED BY <2>1, SequenceIsId
<1>4. ASSUME NEW g \in 0 .. Len(id)
      PROVE  SubSeq(next, 1, g) = SubSeq(id, 1, g)
  <2> HIDE DEF next
  <2>1. /\ SubSeq(id, 1, g) \in Seq(Dates)
        /\ Len(SubSeq(id, 1, g)) = IF 1 <= g THEN g - 1 + 1 ELSE 0
        /\ \A i \in 1 .. g - 1 + 1 : SubSeq(id, 1, g)[i] = id[1 + i - 1]
    <3>1. \A i \in 1 .. g : id[i] \in Dates
      BY <1>1, ElementOfSeq
    <3> QED BY <3>1, <1>1, SubSeqProperties
  <2>2. /\ SubSeq(next, 1, g) \in Seq(Dates)
        /\ Len(SubSeq(next, 1, g)) = IF 1 <= g THEN g - 1 + 1 ELSE 0
        /\ \A i \in 1 .. g - 1 + 1 : SubSeq(next, 1, g)[i] = next[1 + i - 1]
    <3>1. \A i \in 1 .. g : next[i] \in Dates
      BY <1>1, <1>2, ElementOfSeq
    <3> QED BY <3>1, <1>1, <1>2, SubSeqProperties
  <2>3. \A i \in 1 .. Len(SubSeq(next, 1, g)) :
           SubSeq(next, 1, g)[i] = SubSeq(id, 1, g)[i]
    BY <1>1, <1>2, <2>1, <2>2
  <2>4. Len(SubSeq(next, 1, g)) = Len(SubSeq(id, 1, g))
    BY <2>1, <2>2
  <2> QED BY <2>1, <2>2, <2>3, <2>4, SeqEqual
<1> QED BY <1>2, <1>3, <1>4

(* A prefix of an identity is the identity of an earlier generation.       *)
LEMMA PrefixOfId ==
  ASSUME NEW id \in Ids, NEW g \in 0 .. Len(id)
  PROVE  /\ SubSeq(id, 1, g) \in Ids
         /\ Len(SubSeq(id, 1, g)) = g
         /\ g = Len(id) => SubSeq(id, 1, g) = id
<1>1. id \in Seq(Dates) /\ Len(id) \in Nat /\ Len(id) <= MaxGeneration
  BY IdIsSequence
<1>2. \A i \in 1 .. g : id[i] \in Dates
  BY <1>1, ElementOfSeq
<1>3. SubSeq(id, 1, g) \in Seq(Dates) /\ Len(SubSeq(id, 1, g)) = g
  BY <1>1, <1>2, SubSeqProperties
<1>4. SubSeq(id, 1, g) \in Ids
  <2> DEFINE prefix == SubSeq(id, 1, g)
  <2>1. prefix \in Seq(Dates) /\ Len(prefix) <= MaxGeneration
    BY <1>1, <1>3
  <2> HIDE DEF prefix
  <2>2. prefix \in Ids
    BY <2>1, SequenceIsId
  <2> QED BY <2>2 DEF prefix
<1>5. SubSeq(id, 1, Len(id)) = id
  BY <1>1, SubSeqFull
<1> QED BY <1>3, <1>4, <1>5

(* Some number of a set of numbers is the least.                           *)
LEMMA LeastExists ==
  ASSUME NEW S \in SUBSET Nat, S # {}
  PROVE  \E t \in S : \A u \in S : t <= u
<1>1. IsWellFoundedOn(OpToRel(<, Nat), Nat)
  BY NatLessThanWellFounded
<1>2. PICK t \in S : \A u \in S : ~(<<u, t>> \in OpToRel(<, Nat))
  BY <1>1, WFMin
<1>3. ASSUME NEW u \in S PROVE t <= u
  <2>1. ~(<<u, t>> \in OpToRel(<, Nat))
    BY <1>2
  <2> QED BY <2>1 DEF OpToRel
<1> QED BY <1>3

LEMMA LeastIsMember ==
  ASSUME NEW S \in SUBSET Nat, S # {}
  PROVE  (CHOOSE t \in S : \A u \in S : t <= u) \in Nat
BY LeastExists

(* All numbers up to n but perhaps the last.                               *)
LEMMA AllButTheLast ==
  ASSUME NEW n \in Nat, NEW S \in SUBSET (1 .. n),
         \A g \in 1 .. n - 1 : g \in S
  PROVE  Cardinality(S) = IF n = 0 THEN 0 ELSE IF n \in S THEN n ELSE n - 1
<1>1. CASE n = 0
  <2>1. S = {}
    BY <1>1
  <2> QED BY <1>1, <2>1, FS_EmptySet
<1>2. CASE n # 0 /\ n \in S
  <2>1. \A g \in 1 .. n : g \in S
    BY <1>2
  <2>2. S = 1 .. n
    BY <2>1, Zenon
  <2>3. Cardinality(1 .. n) = n
    BY <1>2, FS_Interval
  <2> QED BY <1>2, <2>2, <2>3
<1>3. CASE n # 0 /\ n \notin S
  <2>1. \A g \in S : g \in 1 .. n - 1
    BY <1>3
  <2>2. S = 1 .. n - 1
    BY <2>1, Zenon
  <2>3. Cardinality(1 .. n - 1) = n - 1
    BY <1>3, FS_Interval
  <2> QED BY <1>3, <2>2, <2>3
<1> QED BY <1>1, <1>2, <1>3

-----------------------------------------------------------------------------
(* What a Task is after it has been recovered: the same attempt at the     *)
(* same input, ended or waiting if its lease had run out.                  *)
LEMMA RecoveredTask ==
  ASSUME NEW task \in Task, NEW r \in Recovered(task)
  PROVE  /\ r \in Task
         /\ r.input = task.input /\ r.attempts = task.attempts
         /\ r.until = task.until
         /\ \/ r.status = task.status
            \/ /\ task.status = "cancel_requested" /\ r.status = "cancelled"
            \/ /\ task.status = "running" /\ r.status = "pending"
               /\ task.attempts < MaxAttempts
            \/ /\ task.status = "running"
               /\ r.status \in {"failed", "manual_review"}
BY DEF Recovered, Task, Status

LEMMA RecoveredCheckpoint ==
  ASSUME NEW task \in Checkpoint, NEW r \in Recovered(task)
  PROVE  /\ r \in Checkpoint
         /\ r.facts = task.facts /\ r.attempts = task.attempts
         /\ r.until = task.until
         /\ \/ r.status = task.status
            \/ /\ task.status = "cancel_requested" /\ r.status = "cancelled"
            \/ /\ task.status = "running" /\ r.status = "pending"
               /\ task.attempts < MaxAttempts
            \/ /\ task.status = "running" /\ task.attempts >= MaxAttempts
               /\ r.status \in {"failed", "manual_review"}
BY DEF Recovered, Checkpoint, Status

(* A recovery recovers each Task and loses none.                           *)
LEMMA RecoverEach ==
  RecoverExpired =>
    /\ DOMAIN tasks' = DOMAIN tasks
    /\ \A id \in DOMAIN tasks : tasks'[id] \in Recovered(tasks[id])
BY DEF RecoverExpired

(* The first lease is a time, if there is any.                             *)
LEMMA FirstLeaseIsTime ==
  ASSUME \A id \in DOMAIN tasks' : tasks'[id].until \in Nat
  PROVE  FirstLease' \in Nat \cup {NoTime}
<1>1. Leases' \in SUBSET Nat
  BY DEF Leases
<1>2. CASE Leases' = {}
  BY <1>2 DEF FirstLease
<1>3. CASE Leases' # {}
  <2>1. (CHOOSE t \in Leases' : \A u \in Leases' : t <= u) \in Nat
    BY <1>1, <1>3, LeastIsMember
  <2> QED BY <2>1, <1>3 DEF FirstLease
<1> QED BY <1>2, <1>3

-----------------------------------------------------------------------------
(* What a step may do to each of the stores.                               *)

LEMMA CursorMoves ==
  ASSUME Next \/ UNCHANGED vars
  PROVE  \/ UNCHANGED cursor
         \/ Seed \/ Admit \/ Settle
         \/ BlockedByEvidence \/ BlockedByConflict \/ BlockedByFailure
         \/ HandleRefused
BY DEF Next, vars, pulse, durable, others, checkpointVars, Audit, Begin,
       Checkpointed, Tick, ClockSetBack, EvidenceMoves, ForeignTask,
       CancelTask, Boot, Crash, WaitDue, WaitInterrupted, Arm, Unavailable,
       ObserveTerminal, ObserveNotDue, Resume, Submit, Adopt, NotStartable,
       Start, Handle, StatusReadsCursor, StatusReadsTask

LEMMA TaskMoves ==
  ASSUME Next \/ UNCHANGED vars
  PROVE  \/ UNCHANGED tasks
         \/ RecoverExpired /\ pc \in {"down", "loop"}
         \/ ForeignTask
         \/ \E id \in DOMAIN tasks : CancelTask(id)
         \/ Submit \/ Start \/ Handle
BY DEF Next, vars, pulse, durable, others, checkpointVars, Audit, Begin,
       Checkpointed, Tick, ClockSetBack, EvidenceMoves, Seed, Boot, Crash,
       WaitDue, WaitInterrupted, Arm, Unavailable, ObserveTerminal,
       ObserveNotDue, Admit, Resume, BlockedByEvidence, BlockedByConflict,
       Block, Adopt, NotStartable, HandleRefused, Settle, BlockedByFailure,
       StatusReadsCursor, StatusReadsTask, Unlocked

LEMMA CheckpointMoves ==
  ASSUME Next \/ UNCHANGED vars
  PROVE  \/ UNCHANGED <<checkpointVars, evidence>>
         \/ EvidenceMoves \/ Audit \/ Begin \/ Checkpointed
         \/ CheckpointDies
         \/ Unlocked /\ CancelCheckpoint
BY DEF Next, vars, pulse, durable, others, checkpointVars, Tick,
       ClockSetBack, ForeignTask, CancelTask, Seed, Boot, Crash,
       WaitDue, WaitInterrupted, Arm, Unavailable, ObserveTerminal,
       ObserveNotDue, Admit, Resume, BlockedByEvidence, BlockedByConflict,
       Block, Submit, Adopt, NotStartable, Start, Handle, HandleRefused,
       Settle, BlockedByFailure, StatusReadsCursor, StatusReadsTask

-----------------------------------------------------------------------------
(* The types, one store at a time, with what makes them last: the sidecar  *)
(* holds a row it accepts, a pending Task has an attempt left, and the     *)
(* service and the program have the row or the Task they work on.          *)

CursorInv ==
  /\ cursor \in Cursor \cup {NoCursor}
  /\ cursor # NoCursor => ValidCursor(cursor)
  /\ cursor # NoCursor /\ cursor.state = "blocked" => Admitted(cursor)

TasksInv ==
  /\ DOMAIN tasks \subseteq Ids
  /\ \A id \in DOMAIN tasks :
       /\ id # <<>>
       /\ tasks[id] \in Task
       /\ tasks[id].status = "pending" => tasks[id].attempts < MaxAttempts

CheckpointInv ==
  /\ CheckpointTypeOK
  /\ checkpoint # NoCheckpoint /\ checkpoint.status = "pending" =>
       checkpoint.attempts < MaxAttempts
  /\ step \in {"execute", "handle"} => checkpoint # NoCheckpoint

PlaceInv ==
  /\ pc \in Pc /\ booting \in BOOLEAN /\ monitoring \in BOOLEAN
  /\ pc # "down" => cursor # NoCursor
  /\ pc \in {"prepare", "execute", "handle", "settle"} =>
       cursor.state = "preparing"
  /\ pc \in {"execute", "handle", "settle"} => cursor.id \in DOMAIN tasks
  /\ pc = "handle" => tasks[cursor.id].status = "running"

ArmedInv == armed \in Nat \cup {NoTime}

ReaderInv == view \in Cursor \cup {NoCursor} /\ refused \in BOOLEAN

TypeInv ==
  CursorInv /\ TasksInv /\ CheckpointInv /\ PlaceInv /\ ArmedInv /\ ReaderInv

LEMMA TypeInvImpliesTypeOK == TypeInv => TypeOK
BY DEF TypeInv, CursorInv, TasksInv, CheckpointInv, PlaceInv, ArmedInv,
       ReaderInv, TypeOK

LEMMA InitType == Init => TypeInv
<1> SUFFICES ASSUME Init PROVE TypeInv
  OBVIOUS
<1>1. CursorInv /\ PlaceInv /\ ArmedInv /\ ReaderInv
  BY DEF Init, CursorInv, PlaceInv, ArmedInv, ReaderInv, Pc
<1>2. TasksInv
  BY DEF Init, TasksInv
<1>3. CheckpointInv
  BY DEF Init, CheckpointInit, CheckpointInv, CheckpointTypeOK, Cognition,
         Evidence, Context, Times
<1> QED BY <1>1, <1>2, <1>3 DEF TypeInv

(* The fields of a row.                                                    *)
LEMMA CursorFields ==
  ASSUME NEW c \in Cursor
  PROVE  /\ c.state \in State
         /\ c.id \in Ids /\ Len(c.id) \in Nat /\ Len(c.id) <= MaxGeneration
         /\ c.id = <<>> <=> Len(c.id) = 0
         /\ c.due \in Dates
         /\ c.captured \in Times \cup {NoTime}
         /\ c.result \in Facts \cup {NoTime}
<1>1. c.id \in Ids
  BY DEF Cursor
<1>2. Len(c.id) \in Nat /\ Len(c.id) <= MaxGeneration
  BY <1>1, IdIsSequence
<1>3. c.id = <<>> <=> Len(c.id) = 0
  BY <1>1, EmptyId
<1> QED BY <1>1, <1>2, <1>3 DEF Cursor, Dates

(* The row that admits a generation that is due: it has one due time more. *)
LEMMA PreparingRow ==
  ASSUME NEW c \in Cursor, ValidCursor(c), c.state \in {"idle", "settled"},
         now \in Times
  PROVE  /\ Preparing(c) \in Cursor
         /\ Next1(c) \in Ids /\ Next1(c) # <<>>
         /\ Len(Next1(c)) = Len(c.id) + 1
         /\ \A g \in 0 .. Len(c.id) :
              SubSeq(Next1(c), 1, g) = SubSeq(c.id, 1, g)
         /\ \A g \in 1 .. Len(c.id) : Next1(c)[g] = c.id[g]
         /\ Next1(c)[Len(c.id) + 1] = Deadline(c)
         /\ Deadline(c) \in Dates
<1>1. c.id \in Ids /\ c.due \in Dates /\ c.captured \in Times \cup {NoTime}
  BY CursorFields
<1>2. /\ Next1(c) = Append(c.id, Deadline(c))
      /\ Deadline(c) \in Dates /\ Len(c.id) < MaxGeneration
  <2>1. CASE c.state = "idle"
    <3>1. c.id = <<>> /\ Len(c.id) = 0
      BY <2>1, CursorFields DEF ValidCursor
    <3>2. Next1(c) = Append(c.id, c.due) /\ Deadline(c) = c.due
      BY <2>1, <3>1 DEF Next1, Deadline
    <3> QED BY <3>1, <3>2, <1>1
  <2>2. CASE c.state = "settled"
    <3>1. Len(c.id) < MaxGeneration /\ c.captured \in Times
      BY <1>1, <2>2, CursorFields
         DEF ValidCursor, Admitted, Opportunity, Generation
    <3>2. /\ Next1(c) = Append(c.id, c.captured + Cadence)
          /\ Deadline(c) = c.captured + Cadence
      BY <2>2 DEF Next1, Deadline
    <3>3. c.captured + Cadence \in Dates
      BY <3>1 DEF Dates, Times
    <3> QED BY <3>1, <3>2, <3>3
  <2> QED BY <2>1, <2>2
<1>3. PICK due \in Dates : due = Deadline(c)
  BY <1>2
<1>4. Append(c.id, due) \in Ids
  BY <1>1, <1>2, <1>3, NextId
<1>5. Preparing(c) \in Cursor
  BY <1>2, <1>3, <1>4 DEF Preparing, Cursor, State, Dates
<1>6. /\ Append(c.id, due) # <<>>
      /\ Len(Append(c.id, due)) = Len(c.id) + 1
      /\ \A i \in 1 .. Len(c.id) : Append(c.id, due)[i] = c.id[i]
      /\ Append(c.id, due)[Len(c.id) + 1] = due
      /\ \A g \in 0 .. Len(c.id) :
           SubSeq(Append(c.id, due), 1, g) = SubSeq(c.id, 1, g)
  BY <1>1, <1>2, <1>3, NextId
<1> QED BY <1>2, <1>3, <1>4, <1>5, <1>6

(* A row that has been admitted has its date and its due time.             *)
LEMMA AdmittedRow ==
  ASSUME NEW c \in Cursor, Admitted(c)
  PROVE  /\ c.captured \in Times
         /\ Len(c.id) \in 1 .. MaxGeneration
         /\ c.due = c.id[Len(c.id)]
BY CursorFields DEF Admitted, Opportunity

Blocks == BlockedByEvidence \/ BlockedByConflict \/ BlockedByFailure
            \/ HandleRefused

LEMMA SeedMove ==
  ASSUME TypeInv, Seed
  PROVE  /\ cursor = NoCursor /\ cursor' # NoCursor
         /\ cursor' \in Cursor /\ ValidCursor(cursor')
         /\ cursor'.state = "idle" /\ cursor'.id = <<>>
         /\ cursor'.captured = NoTime /\ cursor'.result = NoTime
         /\ cursor'.due = now + Cadence
         /\ UNCHANGED <<tasks, evidence, checkpointVars, now, service, reader,
                        bounds>>
         /\ CanonicalCheckpoint /\ Unlocked
<1>1. cursor' \in Cursor
  BY EmptyId DEF Seed, Cursor, State, TypeInv, CheckpointInv,
                 CheckpointTypeOK, Times
<1> QED BY <1>1, NamesAssumption DEF Seed, SeedTool, others

LEMMA AdmitMove ==
  ASSUME TypeInv, Admit
  PROVE  /\ cursor \in Cursor /\ ValidCursor(cursor) /\ cursor # NoCursor
         /\ cursor.state \in {"idle", "settled"}
         /\ now >= Deadline(cursor) /\ Deadline(cursor) \in Dates
         /\ cursor' = Preparing(cursor) /\ cursor' # NoCursor
         /\ cursor' \in Cursor /\ ValidCursor(cursor')
         /\ cursor'.state = "preparing" /\ cursor'.id = Next1(cursor)
         /\ cursor'.captured = now /\ cursor'.result = NoTime
         /\ cursor'.due = Deadline(cursor)
         /\ UNCHANGED <<tasks, evidence, checkpointVars, now, reader, bounds>>
         /\ pc = "observe" /\ pc' = "prepare"
<1>1. cursor \in Cursor /\ ValidCursor(cursor) /\ cursor # NoCursor
  BY DEF Admit, Observing, TypeInv, CursorInv, PlaceInv
<1>2. /\ cursor.state \in {"idle", "settled"} /\ now >= Deadline(cursor)
      /\ cursor' = Preparing(cursor) /\ ValidCursor(cursor')
      /\ UNCHANGED <<tasks, evidence, checkpointVars, now, reader, bounds>>
      /\ pc = "observe" /\ pc' = "prepare"
  BY DEF Admit, Observing, Replace, ValidTransition, others
<1>3. now \in Times
  BY DEF TypeInv, CheckpointInv, CheckpointTypeOK
<1>4. cursor' \in Cursor /\ Deadline(cursor) \in Dates
  BY <1>1, <1>2, <1>3, PreparingRow
<1>5. /\ cursor'.state = "preparing" /\ cursor'.id = Next1(cursor)
      /\ cursor'.captured = now /\ cursor'.result = NoTime
      /\ cursor'.due = Deadline(cursor)
  BY <1>2 DEF Preparing
<1> QED BY <1>1, <1>2, <1>4, <1>5, NamesAssumption

LEMMA BlockMove ==
  ASSUME TypeInv, Blocks
  PROVE  /\ cursor \in Cursor /\ ValidCursor(cursor) /\ cursor # NoCursor
         /\ cursor.state = "preparing" /\ Admitted(cursor)
         /\ cursor' \in Cursor /\ ValidCursor(cursor') /\ cursor' # NoCursor
         /\ cursor'.state = "blocked" /\ cursor'.id = cursor.id
         /\ cursor'.due = cursor.due /\ cursor'.captured = cursor.captured
         /\ cursor'.result = cursor.result /\ cursor.result = NoTime
         /\ Admitted(cursor')
         /\ UNCHANGED <<tasks, evidence, checkpointVars, now, reader>>
         /\ Unhealthy /\ pc \in {"prepare", "handle", "settle"}
<1>1. /\ cursor' = [cursor EXCEPT !.state = "blocked"]
      /\ ValidCursor(cursor')
      /\ UNCHANGED <<tasks, evidence, checkpointVars, now, reader>>
      /\ Unhealthy /\ pc \in {"prepare", "handle", "settle"}
  BY DEF Blocks, BlockedByEvidence, BlockedByConflict, BlockedByFailure,
         HandleRefused, Block, Replace, ValidTransition, others
<1>2. /\ cursor \in Cursor /\ ValidCursor(cursor) /\ cursor # NoCursor
      /\ cursor.state = "preparing"
  BY <1>1 DEF TypeInv, CursorInv, PlaceInv
<1>3. /\ cursor' \in Cursor
      /\ cursor'.state = "blocked" /\ cursor'.id = cursor.id
      /\ cursor'.due = cursor.due /\ cursor'.captured = cursor.captured
      /\ cursor'.result = cursor.result
  BY <1>1, <1>2 DEF Cursor, State
<1>4. Admitted(cursor) /\ cursor.result = NoTime
  BY <1>2, CursorFields DEF ValidCursor
<1>5. Admitted(cursor')
  BY <1>3, <1>4 DEF Admitted
<1> QED BY <1>1, <1>2, <1>3, <1>4, <1>5, NamesAssumption

LEMMA SettleMove ==
  ASSUME TypeInv, Settle
  PROVE  /\ cursor \in Cursor /\ ValidCursor(cursor) /\ cursor # NoCursor
         /\ cursor.state = "preparing" /\ Admitted(cursor)
         /\ cursor' \in Cursor /\ ValidCursor(cursor') /\ cursor' # NoCursor
         /\ cursor'.state = IF Len(cursor.id) = MaxGeneration
                              THEN "quiescent" ELSE "settled"
         /\ cursor'.id = cursor.id
         /\ cursor'.due = cursor.due /\ cursor'.captured = cursor.captured
         /\ cursor'.result = tasks[cursor.id].input
         /\ cursor.id \in DOMAIN tasks /\ CanonicalSuccess(tasks[cursor.id])
         /\ UNCHANGED <<tasks, evidence, checkpointVars, now, reader, bounds>>
         /\ pc = "settle" /\ pc' = "arm"
<1>1. /\ cursor' = Settled(cursor) /\ ValidCursor(cursor')
      /\ CanonicalSuccess(tasks[cursor.id])
      /\ UNCHANGED <<tasks, evidence, checkpointVars, now, reader, bounds>>
      /\ pc = "settle" /\ pc' = "arm"
  BY DEF Settle, Replace, ValidTransition, others, Healthy
<1>2. /\ cursor \in Cursor /\ ValidCursor(cursor) /\ cursor # NoCursor
      /\ cursor.state = "preparing" /\ cursor.id \in DOMAIN tasks
  BY <1>1 DEF TypeInv, CursorInv, PlaceInv
<1>3. tasks[cursor.id].input \in Facts
  <2>1. tasks[cursor.id] \in Task
    BY <1>2 DEF TypeInv, TasksInv
  <2> QED BY <1>1, <2>1 DEF Task, CanonicalSuccess, Canonical
<1>4. /\ cursor' \in Cursor
      /\ cursor'.state = IF Len(cursor.id) = MaxGeneration
                           THEN "quiescent" ELSE "settled"
      /\ cursor'.id = cursor.id
      /\ cursor'.due = cursor.due /\ cursor'.captured = cursor.captured
      /\ cursor'.result = tasks[cursor.id].input
  BY <1>1, <1>2, <1>3 DEF Settled, Generation, Cursor, State
<1>5. Admitted(cursor)
  BY <1>2 DEF ValidCursor
<1> QED BY <1>1, <1>2, <1>4, <1>5, NamesAssumption

LEMMA CursorStep ==
  ASSUME TypeInv, Next \/ UNCHANGED vars
  PROVE  CursorInv' /\ (cursor # NoCursor => cursor' # NoCursor)
<1>1. CASE UNCHANGED cursor
  BY <1>1 DEF TypeInv, CursorInv, ValidCursor, Admitted, Generation
<1>2. CASE Seed
  BY <1>2, SeedMove DEF CursorInv
<1>3. CASE Admit
  BY <1>3, AdmitMove DEF CursorInv
<1>4. CASE Settle
  BY <1>4, SettleMove DEF CursorInv
<1>5. CASE Blocks
  BY <1>5, BlockMove DEF CursorInv
<1> QED BY CursorMoves, <1>1, <1>2, <1>3, <1>4, <1>5 DEF Blocks

-----------------------------------------------------------------------------
(* What a step may do to a Task: none is lost, no input changes, and one   *)
(* that has ended stays as it is.                                          *)

LEMMA RecoverMove ==
  ASSUME TypeInv, RecoverExpired
  PROVE  /\ DOMAIN tasks' = DOMAIN tasks
         /\ \A id \in DOMAIN tasks :
              /\ tasks'[id] \in Task /\ tasks'[id].input = tasks[id].input
              /\ tasks'[id].attempts = tasks[id].attempts
              /\ \/ tasks'[id].status = tasks[id].status
                 \/ /\ tasks[id].status \in {"running", "cancel_requested"}
                    /\ tasks'[id].status # "succeeded"
                    /\ tasks'[id].status = "pending" =>
                         tasks[id].attempts < MaxAttempts
<1>1. /\ DOMAIN tasks' = DOMAIN tasks
      /\ \A id \in DOMAIN tasks : tasks'[id] \in Recovered(tasks[id])
  BY RecoverEach
<1>2. ASSUME NEW id \in DOMAIN tasks
      PROVE  /\ tasks'[id] \in Task /\ tasks'[id].input = tasks[id].input
             /\ tasks'[id].attempts = tasks[id].attempts
             /\ \/ tasks'[id].status = tasks[id].status
                \/ /\ tasks[id].status \in {"running", "cancel_requested"}
                   /\ tasks'[id].status # "succeeded"
                   /\ tasks'[id].status = "pending" =>
                        tasks[id].attempts < MaxAttempts
  <2>1. tasks[id] \in Task /\ tasks'[id] \in Recovered(tasks[id])
    BY <1>1 DEF TypeInv, TasksInv
  <2> QED BY <2>1, RecoveredTask
<1> QED BY <1>1, <1>2

LEMMA ForeignMove ==
  ASSUME TypeInv, ForeignTask
  PROVE  \E id \in Ids, s \in {"pending", "succeeded"} :
           /\ id = Next1(cursor) /\ id \notin DOMAIN tasks /\ id # <<>>
           /\ DOMAIN tasks' = DOMAIN tasks \cup {id}
           /\ \A i \in DOMAIN tasks : tasks'[i] = tasks[i]
           /\ tasks'[id] = [input |-> Foreign, status |-> s, attempts |-> 0,
                            until |-> 0]
           /\ UNCHANGED cursor /\ cursor # NoCursor
<1>1. PICK s \in {"pending", "succeeded"} :
        Stored(Next1(cursor),
               [input |-> Foreign, status |-> s, attempts |-> 0, until |-> 0])
  BY DEF ForeignTask
<1>2. Next1(cursor) \notin DOMAIN tasks /\ UNCHANGED cursor /\ cursor # NoCursor
  BY DEF ForeignTask
<1>3. Next1(cursor) \in Ids /\ Next1(cursor) # <<>>
  <2>1. cursor \in Cursor /\ ValidCursor(cursor)
    BY <1>2 DEF TypeInv, CursorInv
  <2>2. CASE cursor.state \in {"idle", "settled"}
    <3>1. now \in Times
      BY DEF TypeInv, CheckpointInv, CheckpointTypeOK
    <3> QED BY <2>1, <2>2, <3>1, PreparingRow
  <2>3. CASE cursor.state \notin {"idle", "settled"}
    <3>1. Next1(cursor) = cursor.id
      BY <2>3 DEF Next1
    <3>2. Admitted(cursor)
      BY <1>2, <2>1, <2>3, CursorFields DEF TypeInv, CursorInv, ValidCursor, State
    <3> QED BY <2>1, <3>1, <3>2, AdmittedRow, CursorFields
  <2> QED BY <2>2, <2>3
<1>4. PICK id \in Ids : id = Next1(cursor)
  BY <1>3
<1>5. /\ DOMAIN tasks' = DOMAIN tasks \cup {id}
      /\ \A i \in DOMAIN tasks : tasks'[i] = tasks[i]
      /\ tasks'[id] = [input |-> Foreign, status |-> s, attempts |-> 0,
                       until |-> 0]
  BY <1>1, <1>2, <1>4 DEF Stored
<1> QED BY <1>2, <1>3, <1>4, <1>5

LEMMA CancelMove ==
  ASSUME TypeInv, NEW id \in DOMAIN tasks, CancelTask(id)
  PROVE  /\ DOMAIN tasks' = DOMAIN tasks
         /\ \A i \in DOMAIN tasks : i # id => tasks'[i] = tasks[i]
         /\ tasks'[id] \in Task /\ tasks'[id].input = tasks[id].input
         /\ tasks'[id].attempts = tasks[id].attempts
         /\ tasks[id].status \in {"pending", "running"}
         /\ tasks'[id].status \in {"cancelled", "cancel_requested"}
         /\ Unlocked
<1>1. PICK task \in Recovered(tasks[id]) :
        /\ task.status \in {"pending", "running"}
        /\ tasks' = [tasks EXCEPT ![id] = Cancelled(task)]
  BY DEF CancelTask
<1>2. tasks[id] \in Task
  BY DEF TypeInv, TasksInv
<1>3. /\ task \in Task /\ task.input = tasks[id].input
      /\ task.attempts = tasks[id].attempts
      /\ tasks[id].status \in {"pending", "running"}
  BY <1>1, <1>2, RecoveredTask
<1>4. /\ Cancelled(task) \in Task /\ Cancelled(task).input = task.input
      /\ Cancelled(task).attempts = task.attempts
      /\ Cancelled(task).status \in {"cancelled", "cancel_requested"}
  BY <1>3 DEF Cancelled, Task, Status
<1>5. /\ DOMAIN tasks' = DOMAIN tasks /\ tasks'[id] = Cancelled(task)
      /\ \A i \in DOMAIN tasks : i # id => tasks'[i] = tasks[i]
  BY <1>1
<1> QED BY <1>3, <1>4, <1>5 DEF CancelTask

LEMMA SubmitMove ==
  ASSUME TypeInv, Submit
  PROVE  /\ pc = "prepare" /\ pc' = "execute" /\ EvidenceHolds
         /\ cursor \in Cursor /\ ValidCursor(cursor) /\ cursor # NoCursor
         /\ cursor.state = "preparing" /\ Admitted(cursor)
         /\ cursor.id \notin DOMAIN tasks /\ cursor.id \in Ids
         /\ cursor.id # <<>>
         /\ DOMAIN tasks' = DOMAIN tasks \cup {cursor.id}
         /\ \A i \in DOMAIN tasks : tasks'[i] = tasks[i]
         /\ tasks'[cursor.id] = Observation(cursor)
         /\ tasks'[cursor.id] \in Task
         /\ UNCHANGED <<cursor, evidence, checkpointVars, now, reader, bounds>>
<1>1. /\ pc = "prepare" /\ pc' = "execute" /\ EvidenceHolds
      /\ cursor.id \notin DOMAIN tasks
      /\ Stored(cursor.id, Observation(cursor))
      /\ UNCHANGED <<cursor, evidence, checkpointVars, now, reader, bounds>>
  BY DEF Submit, Exists, others
<1>2. /\ cursor \in Cursor /\ ValidCursor(cursor) /\ cursor # NoCursor
      /\ cursor.state = "preparing"
  BY <1>1 DEF TypeInv, CursorInv, PlaceInv
<1>3. Admitted(cursor)
  BY <1>2 DEF ValidCursor
<1>4. cursor.id \in Ids /\ cursor.id # <<>> /\ cursor.captured \in Times
  BY <1>2, <1>3, AdmittedRow, CursorFields
<1>5. Observation(cursor) \in Task
  BY <1>4 DEF Observation, Captured, Task, Facts, Status, TypeInv,
              CheckpointInv, CheckpointTypeOK
<1>6. /\ DOMAIN tasks' = DOMAIN tasks \cup {cursor.id}
      /\ \A i \in DOMAIN tasks : tasks'[i] = tasks[i]
      /\ tasks'[cursor.id] = Observation(cursor)
  BY <1>1 DEF Stored
<1> QED BY <1>1, <1>2, <1>3, <1>4, <1>5, <1>6

LEMMA StartMove ==
  ASSUME TypeInv, Start
  PROVE  /\ pc = "execute" /\ pc' = "handle"
         /\ cursor.id \in DOMAIN tasks
         /\ DOMAIN tasks' = DOMAIN tasks
         /\ \A i \in DOMAIN tasks : i # cursor.id => tasks'[i] = tasks[i]
         /\ tasks'[cursor.id] \in Task
         /\ tasks'[cursor.id].input = tasks[cursor.id].input
         /\ tasks[cursor.id].status = "pending"
         /\ tasks'[cursor.id].status = "running"
         /\ UNCHANGED <<cursor, evidence, checkpointVars, now, reader, bounds>>
<1>1. /\ pc = "execute" /\ pc' = "handle" /\ tasks[cursor.id].status = "pending"
      /\ tasks' = [tasks EXCEPT ![cursor.id] =
                     [tasks[cursor.id] EXCEPT !.status = "running",
                        !.attempts = @ + 1, !.until = Lease]]
      /\ UNCHANGED <<cursor, evidence, checkpointVars, now, reader, bounds>>
  BY DEF Start, others
<1>2. cursor.id \in DOMAIN tasks
  BY <1>1 DEF TypeInv, PlaceInv
<1>3. tasks[cursor.id] \in Task /\ tasks[cursor.id].attempts < MaxAttempts
  BY <1>1, <1>2 DEF TypeInv, TasksInv
<1>4. Lease \in Nat
  BY DEF Lease, TypeInv, CheckpointInv, CheckpointTypeOK, Times
<1>5. /\ DOMAIN tasks' = DOMAIN tasks
      /\ \A i \in DOMAIN tasks : i # cursor.id => tasks'[i] = tasks[i]
      /\ tasks'[cursor.id] =
           [tasks[cursor.id] EXCEPT !.status = "running",
              !.attempts = tasks[cursor.id].attempts + 1, !.until = Lease]
  <2> DEFINE started ==
        [tasks[cursor.id] EXCEPT !.status = "running",
           !.attempts = tasks[cursor.id].attempts + 1, !.until = Lease]
  <2>1. tasks' = [tasks EXCEPT ![cursor.id] = started]
    BY <1>1, SMT
  <2> HIDE DEF started
  <2>2. /\ DOMAIN tasks' = DOMAIN tasks /\ tasks'[cursor.id] = started
        /\ \A i \in DOMAIN tasks : i # cursor.id => tasks'[i] = tasks[i]
    BY <2>1, <1>2
  <2> QED BY <2>2 DEF started
<1>6. PICK lease \in Nat : lease = Lease
  BY <1>4
<1>7. PICK task \in Task : task = tasks[cursor.id]
  BY <1>3
<1>8. /\ task.attempts + 1 \in 0 .. MaxAttempts
      /\ tasks'[cursor.id] = [task EXCEPT !.status = "running",
                                !.attempts = task.attempts + 1, !.until = lease]
  <2>1. task.attempts \in 0 .. MaxAttempts /\ task.attempts < MaxAttempts
    BY <1>3, <1>7 DEF Task
  <2>2. task.attempts + 1 \in 0 .. MaxAttempts
    BY <2>1
  <2>3. tasks'[cursor.id] = [task EXCEPT !.status = "running",
                               !.attempts = task.attempts + 1, !.until = lease]
    BY <1>5, <1>6, <1>7, Zenon
  <2> QED BY <2>2, <2>3
<1>9. /\ tasks'[cursor.id] \in Task
      /\ tasks'[cursor.id].input = task.input
      /\ tasks'[cursor.id].status = "running"
  BY <1>8 DEF Task, Status
<1> QED BY <1>1, <1>2, <1>5, <1>7, <1>9

LEMMA HandleMove ==
  ASSUME TypeInv, Handle
  PROVE  /\ pc = "handle" /\ pc' = "settle"
         /\ cursor.id \in DOMAIN tasks
         /\ DOMAIN tasks' = DOMAIN tasks
         /\ \A i \in DOMAIN tasks : i # cursor.id => tasks'[i] = tasks[i]
         /\ tasks'[cursor.id] \in Task
         /\ tasks'[cursor.id].input = tasks[cursor.id].input
         /\ tasks'[cursor.id].attempts = tasks[cursor.id].attempts
         /\ tasks'[cursor.id].status =
              IF Canonical(tasks[cursor.id].input) THEN "succeeded" ELSE "failed"
         /\ UNCHANGED <<cursor, evidence, checkpointVars, now, reader, bounds>>
<1>1. /\ pc = "handle" /\ pc' = "settle"
      /\ tasks' = [tasks EXCEPT ![cursor.id].status =
                     IF Canonical(tasks[cursor.id].input)
                       THEN "succeeded" ELSE "failed"]
      /\ UNCHANGED <<cursor, evidence, checkpointVars, now, reader, bounds>>
  BY DEF Handle, others
<1>2. cursor.id \in DOMAIN tasks
  BY <1>1 DEF TypeInv, PlaceInv
<1>3. PICK task \in Task : task = tasks[cursor.id]
  BY <1>2 DEF TypeInv, TasksInv
<1>4. PICK s \in {"succeeded", "failed"} :
        s = IF Canonical(task.input) THEN "succeeded" ELSE "failed"
  OBVIOUS
<1>5. /\ DOMAIN tasks' = DOMAIN tasks
      /\ \A i \in DOMAIN tasks : i # cursor.id => tasks'[i] = tasks[i]
      /\ tasks'[cursor.id] = [task EXCEPT !.status = s]
  BY <1>1, <1>2, <1>3, <1>4
<1>6. /\ tasks'[cursor.id] \in Task /\ tasks'[cursor.id].input = task.input
      /\ tasks'[cursor.id].attempts = task.attempts
      /\ tasks'[cursor.id].status = s
  BY <1>5 DEF Task, Status
<1> QED BY <1>1, <1>2, <1>3, <1>4, <1>5, <1>6

(* A Task is never lost, its input never changes, and its end is the end.  *)
LEMMA TasksKept ==
  ASSUME TypeInv, Next \/ UNCHANGED vars
  PROVE  \A id \in DOMAIN tasks :
           /\ id \in DOMAIN tasks' /\ tasks'[id] \in Task
           /\ tasks'[id].input = tasks[id].input
           /\ tasks[id].status \in Terminal =>
                tasks'[id].status = tasks[id].status
           /\ tasks'[id].status = "succeeded" =>
                \/ tasks[id].status = "succeeded"
                \/ Handle /\ id = cursor.id
           /\ tasks'[id].status = "pending" =>
                tasks'[id].attempts < MaxAttempts
           /\ \/ tasks'[id].attempts = tasks[id].attempts
              \/ Start
<1> SUFFICES ASSUME NEW id \in DOMAIN tasks
             PROVE  /\ id \in DOMAIN tasks' /\ tasks'[id] \in Task
                    /\ tasks'[id].input = tasks[id].input
                    /\ tasks[id].status \in Terminal =>
                         tasks'[id].status = tasks[id].status
                    /\ tasks'[id].status = "succeeded" =>
                         \/ tasks[id].status = "succeeded"
                         \/ Handle /\ id = cursor.id
                    /\ tasks'[id].status = "pending" =>
                         tasks'[id].attempts < MaxAttempts
                    /\ \/ tasks'[id].attempts = tasks[id].attempts
                       \/ Start
  OBVIOUS
<1>1. /\ tasks[id] \in Task
      /\ tasks[id].status = "pending" => tasks[id].attempts < MaxAttempts
  BY DEF TypeInv, TasksInv
<1>2. CASE UNCHANGED tasks
  BY <1>1, <1>2
<1>3. CASE RecoverExpired
  BY <1>1, <1>3, RecoverMove DEF Terminal
<1>4. CASE ForeignTask
  BY <1>1, <1>4, ForeignMove
<1>5. CASE \E i \in DOMAIN tasks : CancelTask(i)
  <2>1. PICK i \in DOMAIN tasks : CancelTask(i)
    BY <1>5
  <2>2. CASE i = id
    BY <2>1, <2>2, CancelMove DEF Terminal
  <2>3. CASE i # id
    BY <1>1, <2>1, <2>3, CancelMove
  <2> QED BY <2>2, <2>3
<1>6. CASE Submit
  BY <1>1, <1>6, SubmitMove
<1>7. CASE Start
  <2>1. CASE id = cursor.id
    BY <1>7, <2>1, StartMove DEF Terminal
  <2>2. CASE id # cursor.id
    BY <1>1, <1>7, <2>2, StartMove
  <2> QED BY <2>1, <2>2
<1>8. CASE Handle
  <2>1. CASE id = cursor.id
    <3>1. tasks[id].status = "running"
      BY <1>8, <2>1 DEF Handle, TypeInv, PlaceInv
    <3> QED BY <1>8, <2>1, <3>1, HandleMove DEF Terminal
  <2>2. CASE id # cursor.id
    BY <1>1, <1>8, <2>2, HandleMove
  <2> QED BY <2>1, <2>2
<1> QED BY TaskMoves, <1>2, <1>3, <1>4, <1>5, <1>6, <1>7, <1>8

(* A Task is new by a submission of the pulse, or it is another's.         *)
LEMMA TasksAdded ==
  ASSUME TypeInv, Next \/ UNCHANGED vars,
         NEW id \in DOMAIN tasks', id \notin DOMAIN tasks
  PROVE  /\ id \in Ids /\ id # <<>> /\ cursor # NoCursor
         /\ tasks'[id] \in Task /\ tasks'[id].attempts = 0
         /\ UNCHANGED cursor
         /\ \/ tasks'[id].input = Foreign
            \/ /\ Submit /\ id = cursor.id
               /\ tasks'[id] = Observation(cursor)
<1>1. CASE UNCHANGED tasks
  BY <1>1
<1>2. CASE RecoverExpired
  BY <1>2, RecoverMove
<1>3. CASE ForeignTask
  <2>1. PICK i \in Ids, s \in {"pending", "succeeded"} :
          /\ i # <<>> /\ DOMAIN tasks' = DOMAIN tasks \cup {i}
          /\ tasks'[i] = [input |-> Foreign, status |-> s, attempts |-> 0,
                          until |-> 0]
          /\ UNCHANGED cursor /\ cursor # NoCursor
    BY <1>3, ForeignMove
  <2>2. id = i
    BY <2>1
  <2>3. tasks'[i] \in Task /\ tasks'[i].input = Foreign /\ tasks'[i].attempts = 0
    BY <2>1 DEF Task, Status
  <2> QED BY <2>1, <2>2, <2>3
<1>4. CASE \E i \in DOMAIN tasks : CancelTask(i)
  BY <1>4, CancelMove
<1>5. CASE Submit
  BY <1>5, SubmitMove DEF Observation
<1>6. CASE Start \/ Handle
  BY <1>6, StartMove, HandleMove
<1> QED BY TaskMoves, <1>1, <1>2, <1>3, <1>4, <1>5, <1>6

LEMMA TasksStep ==
  ASSUME TypeInv, Next \/ UNCHANGED vars
  PROVE  TasksInv'
<1>1. ASSUME NEW id \in DOMAIN tasks'
      PROVE  /\ id \in Ids /\ id # <<>> /\ tasks'[id] \in Task
             /\ tasks'[id].status = "pending" =>
                  tasks'[id].attempts < MaxAttempts
  <2>1. CASE id \in DOMAIN tasks
    BY <2>1, TasksKept DEF TypeInv, TasksInv
  <2>2. CASE id \notin DOMAIN tasks
    BY <1>1, <2>2, TasksAdded
  <2> QED BY <2>1, <2>2
<1> QED BY <1>1 DEF TasksInv

-----------------------------------------------------------------------------
(* The clock and the bounds, which only count up.                          *)
LEMMA BoundsStep ==
  ASSUME TypeInv, Next \/ UNCHANGED vars
  PROVE  /\ now' \in Times
         /\ faults' \in 0 .. MaxFaults /\ faults' >= faults
         /\ disturbances' \in 0 .. MaxDisturbances
         /\ disturbances' >= disturbances
<1>1. /\ now \in Times /\ faults \in 0 .. MaxFaults
      /\ disturbances \in 0 .. MaxDisturbances
  BY DEF TypeInv, CheckpointInv, CheckpointTypeOK
<1>2. UNCHANGED bounds \/ Fault \/ Disturb
  BY DEF Next, vars, bounds, Audit, AuditedEnds, Begin, BeginCheckpoint,
         Checkpointed, CheckpointRuns, Report, SubmitCheckpoint,
         TakeUpCheckpoint, CheckpointNotStartable, StartCheckpoint,
         CompleteCheckpoint, CheckpointDies, CancelCheckpoint, Tick,
         ClockSetBack, EvidenceMoves, ForeignTask, CancelTask, Seed, Boot,
         Crash, WaitDue, WaitInterrupted, Arm, Unavailable, ObserveTerminal,
         ObserveNotDue, Admit, Resume, BlockedByEvidence, BlockedByConflict,
         Block, Submit, Adopt, NotStartable, Start, Handle, HandleRefused,
         Settle, BlockedByFailure, StatusReadsCursor, StatusReadsTask
<1>3. UNCHANGED now \/ Tick \/ ClockSetBack
  BY DEF Next, vars, Audit, AuditedEnds, Begin, BeginCheckpoint,
         Checkpointed, CheckpointRuns, Report, SubmitCheckpoint,
         TakeUpCheckpoint, CheckpointNotStartable, StartCheckpoint,
         CompleteCheckpoint, CheckpointDies, CancelCheckpoint,
         EvidenceMoves, ForeignTask, CancelTask, Seed, Boot,
         Crash, WaitDue, WaitInterrupted, Arm, Unavailable, ObserveTerminal,
         ObserveNotDue, Admit, Resume, BlockedByEvidence, BlockedByConflict,
         Block, Submit, Adopt, NotStartable, Start, Handle, HandleRefused,
         Settle, BlockedByFailure, StatusReadsCursor, StatusReadsTask
<1>4. now' \in Times
  BY <1>1, <1>3 DEF Tick, ClockSetBack, Times
<1>5. /\ faults' \in 0 .. MaxFaults /\ faults' >= faults
      /\ disturbances' \in 0 .. MaxDisturbances
      /\ disturbances' >= disturbances
  BY <1>1, <1>2 DEF bounds, Fault, Disturb
<1> QED BY <1>4, <1>5

(* A start takes one attempt of the checkpoint's Task.                     *)
LEMMA CheckpointStarted ==
  ASSUME TypeInv, StartCheckpoint
  PROVE  /\ checkpoint \in Checkpoint /\ checkpoint.status = "pending"
         /\ checkpoint.attempts < MaxAttempts
         /\ checkpoint' \in Checkpoint
         /\ checkpoint'.facts = checkpoint.facts
         /\ checkpoint'.status = "running"
         /\ checkpoint'.attempts = checkpoint.attempts + 1
<1>1. /\ checkpoint \in Checkpoint /\ checkpoint.status = "pending"
      /\ checkpoint.attempts < MaxAttempts
  BY DEF StartCheckpoint, TypeInv, CheckpointInv, CheckpointTypeOK
<1>2. Lease \in Nat
  BY DEF Lease, TypeInv, CheckpointInv, CheckpointTypeOK, Times
<1>3. PICK lease \in Nat : lease = Lease
  BY <1>2
<1>4. PICK task \in Checkpoint : task = checkpoint
  BY <1>1
<1>5. checkpoint' = [task EXCEPT !.status = "running",
                       !.attempts = task.attempts + 1, !.until = lease]
  BY <1>3, <1>4 DEF StartCheckpoint
<1>6. task.attempts + 1 \in 0 .. MaxAttempts
  <2>1. task.attempts \in 0 .. MaxAttempts /\ task.attempts < MaxAttempts
    BY <1>1, <1>4 DEF Checkpoint
  <2> QED BY <2>1
<1>7. /\ checkpoint' \in Checkpoint /\ checkpoint'.facts = task.facts
      /\ checkpoint'.status = "running"
      /\ checkpoint'.attempts = task.attempts + 1
  BY <1>5, <1>6 DEF Checkpoint, Status
<1> QED BY <1>1, <1>4, <1>7

LEMMA CheckpointRecovered ==
  ASSUME TypeInv, RecoverCheckpoint, checkpoint # NoCheckpoint
  PROVE  /\ checkpoint \in Checkpoint /\ checkpoint' \in Checkpoint
         /\ checkpoint'.facts = checkpoint.facts
         /\ checkpoint'.attempts = checkpoint.attempts
         /\ \/ checkpoint'.status = checkpoint.status
            \/ /\ checkpoint.status = "cancel_requested"
               /\ checkpoint'.status = "cancelled"
            \/ /\ checkpoint.status = "running" /\ checkpoint'.status = "pending"
               /\ checkpoint.attempts < MaxAttempts
            \/ /\ checkpoint.status = "running"
               /\ checkpoint.attempts >= MaxAttempts
               /\ checkpoint'.status \in {"failed", "manual_review"}
<1>1. checkpoint \in Checkpoint
  BY DEF TypeInv, CheckpointInv, CheckpointTypeOK
<1>2. checkpoint' \in Recovered(checkpoint)
  BY DEF RecoverCheckpoint
<1> QED BY <1>1, <1>2, RecoveredCheckpoint

LEMMA CheckpointCancelled ==
  ASSUME TypeInv, CancelCheckpoint
  PROVE  /\ checkpoint \in Checkpoint /\ checkpoint' \in Checkpoint
         /\ checkpoint'.facts = checkpoint.facts
         /\ checkpoint'.attempts = checkpoint.attempts
         /\ checkpoint.status \in {"pending", "running"}
         /\ checkpoint'.status \in {"cancelled", "cancel_requested"}
<1>1. checkpoint \in Checkpoint
  BY DEF CancelCheckpoint, TypeInv, CheckpointInv, CheckpointTypeOK
<1>2. PICK task \in Recovered(checkpoint) :
        task.status \in {"pending", "running"} /\ checkpoint' = Cancelled(task)
  BY DEF CancelCheckpoint
<1>3. /\ task \in Checkpoint /\ task.facts = checkpoint.facts
      /\ task.attempts = checkpoint.attempts
      /\ checkpoint.status \in {"pending", "running"}
  BY <1>1, <1>2, RecoveredCheckpoint
<1>4. /\ checkpoint' \in Checkpoint /\ checkpoint'.facts = task.facts
      /\ checkpoint'.attempts = task.attempts
      /\ checkpoint'.status \in {"cancelled", "cancel_requested"}
  BY <1>2, <1>3 DEF Cancelled, Checkpoint, Status
<1> QED BY <1>1, <1>3, <1>4

LEMMA CheckpointSubmitted ==
  ASSUME TypeInv, SubmitCheckpoint
  PROVE  /\ checkpoint = NoCheckpoint /\ checkpoint' # NoCheckpoint
         /\ checkpoint' \in Checkpoint /\ checkpoint'.facts = evidence
         /\ checkpoint'.status = "pending" /\ checkpoint'.attempts = 0
<1>1. checkpoint' \in Checkpoint
  BY DEF SubmitCheckpoint, CheckpointTask, Checkpoint, Status, TypeInv,
         CheckpointInv, CheckpointTypeOK
<1> QED BY <1>1, NamesAssumption DEF SubmitCheckpoint, CheckpointTask

LEMMA CheckpointCompleted ==
  ASSUME TypeInv, CompleteCheckpoint
  PROVE  /\ checkpoint \in Checkpoint /\ checkpoint' \in Checkpoint
         /\ checkpoint'.facts = checkpoint.facts
         /\ checkpoint'.status = "succeeded"
         /\ checkpoint'.attempts = checkpoint.attempts
BY DEF CompleteCheckpoint, Checkpoint, Status, TypeInv, CheckpointInv,
       CheckpointTypeOK

(* What becomes of the checkpoint's Task: it is kept, or it is new.        *)
LEMMA CheckpointKept ==
  ASSUME TypeInv, Next \/ UNCHANGED vars
  PROVE  \/ UNCHANGED checkpoint
         \/ Begin /\ checkpoint # NoCheckpoint
         \/ Checkpointed /\ SubmitCheckpoint
         \/ Checkpointed /\ StartCheckpoint
         \/ Checkpointed /\ CompleteCheckpoint
         \/ Unlocked /\ CancelCheckpoint
<1>1. CASE Begin
  BY <1>1 DEF Begin, BeginCheckpoint, RecoverCheckpoint
<1>2. CASE Checkpointed
  BY <1>2 DEF Checkpointed, CheckpointRuns, Report, TakeUpCheckpoint,
              CheckpointNotStartable
<1> QED BY CheckpointMoves, <1>1, <1>2
        DEF checkpointVars, EvidenceMoves, Audit, AuditedEnds, CheckpointDies

LEMMA CheckpointStep ==
  ASSUME TypeInv, Next \/ UNCHANGED vars
  PROVE  CheckpointInv'
<1>1. CheckpointInv
  BY DEF TypeInv
<1>2. /\ checkpoint' \in Checkpoint \cup {NoCheckpoint}
      /\ checkpoint' # NoCheckpoint /\ checkpoint'.status = "pending" =>
           checkpoint'.attempts < MaxAttempts
      /\ checkpoint # NoCheckpoint => checkpoint' # NoCheckpoint
  <2>1. CASE UNCHANGED checkpoint
    BY <2>1, <1>1 DEF CheckpointInv, CheckpointTypeOK
  <2>2. CASE Begin /\ checkpoint # NoCheckpoint
    BY <2>2, <1>1, CheckpointRecovered, NamesAssumption
       DEF Begin, BeginCheckpoint, CheckpointInv
  <2>3. CASE SubmitCheckpoint
    BY <2>3, CheckpointSubmitted
  <2>4. CASE StartCheckpoint
    BY <2>4, CheckpointStarted, NamesAssumption
  <2>5. CASE CompleteCheckpoint
    BY <2>5, CheckpointCompleted, NamesAssumption
  <2>6. CASE CancelCheckpoint
    BY <2>6, CheckpointCancelled, NamesAssumption
  <2> QED BY CheckpointKept, <2>1, <2>2, <2>3, <2>4, <2>5, <2>6
<1>3. /\ step' \in {"off", "inspect", "execute", "handle"}
      /\ step' \in {"execute", "handle"} => checkpoint' # NoCheckpoint
  <2>1. CASE UNCHANGED step
    BY <2>1, <1>1, <1>2 DEF CheckpointInv, CheckpointTypeOK
  <2>2. CASE Begin \/ CheckpointDies
    BY <2>2 DEF Begin, BeginCheckpoint, CheckpointDies
  <2>3. CASE Checkpointed
    BY <2>3, <1>1, <1>2, CheckpointSubmitted
       DEF Checkpointed, CheckpointRuns, Report, SubmitCheckpoint,
           TakeUpCheckpoint, CheckpointNotStartable, StartCheckpoint,
           CompleteCheckpoint, CheckpointInv
  <2> QED BY CheckpointMoves, <2>1, <2>2, <2>3
          DEF checkpointVars, EvidenceMoves, Audit, AuditedEnds, CancelCheckpoint
<1>4. audited' \in Cognition /\ evidence' \in Evidence
  <2>1. audited \in Cognition /\ evidence \in Evidence
    BY <1>1 DEF CheckpointInv, CheckpointTypeOK
  <2>2. CASE EvidenceMoves
    BY <2>1, <2>2 DEF EvidenceMoves, Evidence, checkpointVars
  <2>3. CASE Audit
    BY <2>1, <2>3 DEF Audit, AuditedEnds, Evidence, Cognition
  <2> QED BY CheckpointMoves, <2>1, <2>2, <2>3
          DEF checkpointVars, Begin, BeginCheckpoint, Checkpointed,
              CheckpointRuns, Report, SubmitCheckpoint, TakeUpCheckpoint,
              CheckpointNotStartable, StartCheckpoint, CompleteCheckpoint,
              CheckpointDies, CancelCheckpoint
<1>5. /\ now' \in Times /\ faults' \in 0 .. MaxFaults
      /\ disturbances' \in 0 .. MaxDisturbances
  BY BoundsStep
<1> QED BY <1>2, <1>3, <1>4, <1>5 DEF CheckpointInv, CheckpointTypeOK

-----------------------------------------------------------------------------
(* What a step does to the service's thread.                               *)
LEMMA ThreadMoves ==
  ASSUME Next \/ UNCHANGED vars
  PROVE  \/ UNCHANGED service
         \/ Boot \/ Crash \/ WaitDue \/ WaitInterrupted \/ Arm
         \/ Unavailable \/ ObserveTerminal \/ ObserveNotDue \/ Admit \/ Resume
         \/ Blocks \/ Submit \/ Adopt \/ NotStartable \/ Start \/ Handle
         \/ Settle
BY DEF Next, vars, pulse, service, Blocks, Audit, Begin, Checkpointed, Tick,
       ClockSetBack, EvidenceMoves, ForeignTask, CancelTask, Seed,
       StatusReadsCursor, StatusReadsTask

(* A step that only moves the thread on, and by which way.                 *)
LEMMA UnhealthyMove ==
  ASSUME TypeInv, Unhealthy
  PROVE  /\ pc' \in {"down", "loop"} /\ booting' \in BOOLEAN
         /\ monitoring' = FALSE /\ armed' \in {armed, NoTime}
  BY DEF Unhealthy, Down, TypeInv, PlaceInv

LEMMA ThreadStep ==
  ASSUME TypeInv, Next \/ UNCHANGED vars
  PROVE  /\ pc' \in Pc /\ booting' \in BOOLEAN /\ monitoring' \in BOOLEAN
         /\ pc' # "down" => cursor' # NoCursor
<1>1. pc \in Pc /\ booting \in BOOLEAN /\ monitoring \in BOOLEAN
  BY DEF TypeInv, PlaceInv
<1>2. pc # "down" => cursor # NoCursor
  BY DEF TypeInv, PlaceInv
<1>3. cursor # NoCursor => cursor' # NoCursor
  BY CursorStep
<1>4. CASE UNCHANGED service
  BY <1>1, <1>2, <1>3, <1>4 DEF service
<1>5. CASE Boot
  BY <1>5, <1>3 DEF Boot, Eligible, Pc
<1>6. CASE Crash
  BY <1>6 DEF Crash, Down, Pc
<1>7. CASE WaitDue \/ WaitInterrupted
  BY <1>7, <1>1, <1>2, <1>3 DEF WaitDue, WaitInterrupted, AfterWait, Pc
<1>8. CASE Arm
  BY <1>8, <1>1, <1>2, <1>3 DEF Arm, Pc
<1>9. CASE Unavailable \/ Blocks
  <2>1. Unhealthy /\ pc # "down"
    BY <1>9, BlockMove DEF Unavailable
  <2> QED BY <2>1, UnhealthyMove, <1>2, <1>3 DEF Pc
<1>10. CASE ObserveTerminal
  <2>1. (Unhealthy \/ Healthy) /\ pc = "observe"
    BY <1>10 DEF ObserveTerminal
  <2> QED BY <2>1, UnhealthyMove, <1>1, <1>2, <1>3 DEF Healthy, Pc
<1>11. CASE ObserveNotDue \/ NotStartable \/ Settle
  BY <1>11, <1>1, <1>2, <1>3
     DEF ObserveNotDue, Observing, NotStartable, Settle, Healthy, Pc
<1>12. CASE Admit \/ Resume \/ Submit \/ Adopt \/ Start \/ Handle
  BY <1>12, <1>1, <1>2, <1>3
     DEF Admit, Resume, Observing, Submit, Adopt, Start, Handle, Pc
<1> QED BY ThreadMoves, <1>4, <1>5, <1>6, <1>7, <1>8, <1>9, <1>10, <1>11, <1>12

(* While the service works on an admitted generation it is the only one to *)
(* touch the row, and the Tasks.                                           *)
Working == pc \in {"prepare", "execute", "handle", "settle"}

LEMMA WorkingMoves ==
  ASSUME TypeInv, Next \/ UNCHANGED vars,
         pc' \in {"prepare", "execute", "handle", "settle"}
  PROVE  \/ Working /\ UNCHANGED <<pc, cursor>> /\ UNCHANGED tasks
         \/ Admit /\ pc' = "prepare"
         \/ /\ Resume /\ pc' = "prepare"
            /\ UNCHANGED <<cursor, tasks>> /\ cursor.state = "preparing"
         \/ Submit /\ pc' = "execute"
         \/ /\ Adopt /\ pc' \in {"execute", "settle"}
            /\ UNCHANGED <<cursor, tasks>> /\ Own
         \/ Start /\ pc' = "handle"
         \/ Handle /\ pc' = "settle"
<1>1. CASE UNCHANGED service
  <2>1. Working /\ UNCHANGED pc
    BY <1>1 DEF service, Working
  <2>2. UNCHANGED cursor
    <3>1. ~Seed /\ ~Admit /\ ~Settle
      BY <2>1 DEF Seed, SeedTool, Unlocked, Working, Admit, Observing, Settle,
                  Healthy
    <3>2. ~Blocks
      BY <2>1, BlockMove, UnhealthyMove DEF Working
    <3> QED BY <3>1, <3>2, CursorMoves DEF Blocks
  <2>3. UNCHANGED tasks
    <3>1. ~ForeignTask /\ ~Submit /\ ~Start /\ ~Handle
      BY <2>1 DEF Working, ForeignTask, Unlocked, Submit, Start, Handle
    <3>2. \A id \in DOMAIN tasks : ~CancelTask(id)
      BY <2>1 DEF Working, CancelTask, Unlocked
    <3> QED BY <2>1, <3>1, <3>2, TaskMoves DEF Working
  <2> QED BY <2>1, <2>2, <2>3
<1>2. CASE Unavailable \/ Blocks
  BY <1>2, UnhealthyMove, BlockMove DEF Unavailable
<1>3. CASE ObserveTerminal
  BY <1>3, UnhealthyMove DEF ObserveTerminal, Healthy
<1>4. ~Boot /\ ~Crash /\ ~WaitDue /\ ~WaitInterrupted /\ ~Arm
  BY DEF Boot, Crash, Down, WaitDue, WaitInterrupted, AfterWait, Arm
<1>5. ~ObserveNotDue /\ ~NotStartable /\ ~Settle
  BY DEF ObserveNotDue, NotStartable, Settle, Healthy
<1>6. CASE Admit \/ Resume \/ Submit \/ Adopt \/ Start \/ Handle
  BY <1>6 DEF Admit, Resume, Observing, Submit, Adopt, Start, Handle, durable
<1> QED BY ThreadMoves, <1>1, <1>2, <1>3, <1>4, <1>5, <1>6

LEMMA PlaceStep ==
  ASSUME TypeInv, Next \/ UNCHANGED vars
  PROVE  PlaceInv'
<1> SUFFICES ASSUME pc' \in {"prepare", "execute", "handle", "settle"}
             PROVE  /\ cursor'.state = "preparing"
                    /\ pc' # "prepare" => cursor'.id \in DOMAIN tasks'
                    /\ pc' = "handle" => tasks'[cursor'.id].status = "running"
  BY ThreadStep DEF PlaceInv
<1>1. CASE Working /\ UNCHANGED <<pc, cursor>> /\ UNCHANGED tasks
  BY <1>1 DEF TypeInv, PlaceInv, Working
<1>2. CASE Admit /\ pc' = "prepare"
  BY <1>2, AdmitMove
<1>3. CASE Resume /\ pc' = "prepare" /\ UNCHANGED <<cursor, tasks>>
             /\ cursor.state = "preparing"
  BY <1>3
<1>4. CASE Submit /\ pc' = "execute"
  BY <1>4, SubmitMove
<1>5. CASE Adopt /\ pc' \in {"execute", "settle"} /\ UNCHANGED <<cursor, tasks>>
             /\ Own
  BY <1>5 DEF Adopt, Own, Exists, TypeInv, PlaceInv
<1>6. CASE Start
  BY <1>6, StartMove DEF TypeInv, PlaceInv
<1>7. CASE Handle /\ pc' = "settle"
  BY <1>7, HandleMove DEF TypeInv, PlaceInv
<1> QED BY WorkingMoves, <1>1, <1>2, <1>3, <1>4, <1>5, <1>6, <1>7

-----------------------------------------------------------------------------
(* The deadline on disk and the one in memory.                             *)
LEMMA DeadlineIsTime ==
  ASSUME NEW c \in Cursor, ValidCursor(c)
  PROVE  /\ Deadline(c) \in Nat \cup {NoTime}
         /\ c.state \in {"idle", "preparing", "settled"} => Deadline(c) \in Nat
<1>1. c.due \in Dates /\ c.captured \in Times \cup {NoTime} /\ c.state \in State
  BY CursorFields
<1>2. CASE c.state = "idle"
  BY <1>1, <1>2 DEF Deadline, Dates
<1>3. CASE c.state \in {"preparing", "settled"}
  <2>1. c.captured \in Times
    BY <1>1, <1>3 DEF ValidCursor, Admitted
  <2> QED BY <1>1, <1>3, <2>1 DEF Deadline, Dates, Times
<1>4. CASE c.state \in {"quiescent", "blocked"}
  BY <1>4 DEF Deadline
<1> QED BY <1>1, <1>2, <1>3, <1>4 DEF State

LEMMA EarlierIsTime ==
  ASSUME NEW a \in Nat \cup {NoTime}, NEW b \in Nat \cup {NoTime}
  PROVE  /\ Earlier(a, b) \in Nat \cup {NoTime}
         /\ b # NoTime => Earlier(a, b) # NoTime /\ Earlier(a, b) <= b
BY DEF Earlier

LEMMA ArmedStep ==
  ASSUME TypeInv, Next \/ UNCHANGED vars
  PROVE  ArmedInv'
<1>1. armed \in Nat \cup {NoTime}
  BY DEF TypeInv, ArmedInv
<1>2. CASE Boot
  BY <1>2 DEF Boot, ArmedInv, TypeInv, CheckpointInv, CheckpointTypeOK, Times
<1>3. CASE WaitDue
  <2>1. \A id \in DOMAIN tasks' : tasks'[id].until \in Nat
    BY TasksStep DEF TasksInv, Task
  <2> QED BY <1>3, <2>1, FirstLeaseIsTime DEF WaitDue, ArmedInv
<1>4. CASE Arm
  <2>1. cursor \in Cursor /\ ValidCursor(cursor)
    BY <1>4 DEF Arm, TypeInv, CursorInv, PlaceInv
  <2>2. Deadline(cursor) \in Nat \cup {NoTime}
    BY <2>1, DeadlineIsTime
  <2> QED BY <1>1, <1>4, <2>2, EarlierIsTime DEF Arm, ArmedInv
<1>5. CASE Unavailable \/ Blocks \/ (ObserveTerminal /\ Unhealthy)
  BY <1>1, <1>5, UnhealthyMove, BlockMove DEF Unavailable, ArmedInv
<1>6. CASE Crash
  BY <1>6 DEF Crash, Down, ArmedInv
<1>7. CASE UNCHANGED armed
  BY <1>1, <1>7 DEF ArmedInv
<1> QED BY ThreadMoves, <1>2, <1>3, <1>4, <1>5, <1>6, <1>7
        DEF service, WaitInterrupted, ObserveTerminal, ObserveNotDue, Admit,
            Resume, Submit, Adopt, NotStartable, Start, Handle, Settle, Healthy

LEMMA ReaderMoves ==
  ASSUME Next \/ UNCHANGED vars
  PROVE  UNCHANGED reader \/ StatusReadsCursor \/ StatusReadsTask
BY DEF Next, vars, pulse, reader, Audit, Begin, Checkpointed, Tick,
       ClockSetBack, EvidenceMoves, ForeignTask, CancelTask, Seed, Boot,
       Crash, WaitDue, WaitInterrupted, Arm, Unavailable, ObserveTerminal,
       ObserveNotDue, Admit, Resume, BlockedByEvidence, BlockedByConflict,
       Block, Submit, Adopt, NotStartable, Start, Handle, HandleRefused,
       Settle, BlockedByFailure

LEMMA ReaderStep ==
  ASSUME TypeInv, Next \/ UNCHANGED vars
  PROVE  ReaderInv'
<1>1. CASE UNCHANGED reader
  BY <1>1 DEF reader, TypeInv, ReaderInv
<1>2. CASE StatusReadsCursor
  BY <1>2 DEF StatusReadsCursor, TypeInv, ReaderInv, CursorInv
<1>3. CASE StatusReadsTask
  <2>1. Refused(view) \in BOOLEAN
    BY DEF Refused, MatchesCursor, CanonicalSuccess
  <2> QED BY <1>3, <2>1 DEF StatusReadsTask, ReaderInv
<1> QED BY ReaderMoves, <1>1, <1>2, <1>3

LEMMA TypeStep ==
  ASSUME TypeInv, Next \/ UNCHANGED vars
  PROVE  TypeInv'
BY CursorStep, TasksStep, CheckpointStep, PlaceStep, ArmedStep, ReaderStep
   DEF TypeInv

LEMMA TypeAlways == Spec => []TypeInv
<1>1. TypeInv /\ [Next]_vars => TypeInv'
  BY TypeStep
<1> QED BY InitType, <1>1, PTL DEF Spec

(* Every state of the pulse, of the checkpoint and of the status tool has  *)
(* its type.                                                               *)
THEOREM TypeCorrect == Spec => []TypeOK
BY TypeAlways, TypeInvImpliesTypeOK, PTL

-----------------------------------------------------------------------------
(* The deadline in memory.  What is armed is no later than what the cursor *)
(* asks for, when the service goes to wait and for as long as it waits.    *)
LEMMA DeadlineStep ==
  ASSUME TypeInv, DeadlineArmed, Next \/ UNCHANGED vars
  PROVE  DeadlineArmed'
<1> SUFFICES ASSUME pc' = "loop", monitoring'
             PROVE  /\ Deadline(cursor') # NoTime
                    /\ armed' # NoTime /\ armed' <= Deadline(cursor')
  BY DEF DeadlineArmed, Deadline
<1>1. CASE UNCHANGED service
  <2>1. UNCHANGED cursor
    <3>1. pc = "loop"
      BY <1>1 DEF service
    <3>2. ~Seed /\ ~Admit /\ ~Settle /\ ~Blocks
      BY <3>1, BlockMove DEF Seed, SeedTool, Unlocked, Admit, Observing, Settle
    <3> QED BY <3>2, CursorMoves DEF Blocks
  <2>2. Deadline(cursor') = Deadline(cursor)
    BY <2>1
  <2> QED BY <1>1, <2>2 DEF service, DeadlineArmed
<1>2. CASE Arm
  <2>1. cursor \in Cursor /\ ValidCursor(cursor) /\ UNCHANGED cursor
    BY <1>2 DEF Arm, durable, TypeInv, CursorInv, PlaceInv
  <2>2. Deadline(cursor) \in Nat /\ armed' = Earlier(armed, Deadline(cursor))
    BY <1>2, <2>1, DeadlineIsTime DEF Arm
  <2>3. armed \in Nat \cup {NoTime} /\ Deadline(cursor) # NoTime
    BY <2>2 DEF TypeInv, ArmedInv
  <2> QED BY <2>1, <2>2, <2>3, EarlierIsTime
<1>3. ~Unavailable /\ ~Blocks /\ ~(ObserveTerminal /\ Unhealthy)
  BY UnhealthyMove, BlockMove DEF Unavailable
<1>4. ~Boot /\ ~Crash /\ ~WaitDue /\ ~WaitInterrupted
  BY DEF Boot, Crash, Down, WaitDue, WaitInterrupted, AfterWait
<1>5. /\ ~ObserveTerminal /\ ~ObserveNotDue /\ ~Admit /\ ~Resume /\ ~Submit
      /\ ~Adopt /\ ~NotStartable /\ ~Start /\ ~Handle /\ ~Settle
  BY <1>3 DEF ObserveTerminal, ObserveNotDue, Admit, Resume, Submit, Adopt,
              NotStartable, Start, Handle, Settle, Healthy
<1> QED BY ThreadMoves, <1>1, <1>2, <1>3, <1>4, <1>5

-----------------------------------------------------------------------------
(* The anchor.  A checkpoint says what was so when it was submitted, of a  *)
(* cognition that has ended; the evidence only grows from there, and not   *)
(* while the program or the pulse is at work on what it has checked.       *)

AnchorInv ==
  /\ checkpoint # NoCheckpoint =>
       /\ checkpoint.facts = Anchored
       /\ audited = [task |-> "succeeded", action |-> "confirmed"]
       /\ evidence.spent >= 1
  /\ cursor # NoCursor =>
       checkpoint # NoCheckpoint /\ checkpoint.status = "succeeded"
  /\ step # "off" => pc = "down"
  /\ step \in {"execute", "handle"} => evidence = Anchored

LEMMA InitAnchor == Init => AnchorInv
BY DEF Init, CheckpointInit, AnchorInv

(* Evidence that is not the anchor's never becomes so again.               *)
LEMMA EvidenceGrows ==
  ASSUME TypeInv, AnchorInv, Next \/ UNCHANGED vars
  PROVE  /\ checkpoint # NoCheckpoint =>
              /\ evidence'.spent >= 1
              /\ evidence # Anchored => evidence' # Anchored
         /\ UNCHANGED evidence \/ Unlocked \/ pc = "loop"
         /\ checkpoint # NoCheckpoint => UNCHANGED audited
<1>1. evidence \in Evidence
  BY DEF TypeInv, CheckpointInv, CheckpointTypeOK
<1>2. CASE EvidenceMoves
  <2>1. PICK field \in {"spent", "wake"} :
          evidence' = [evidence EXCEPT ![field] = evidence[field] + 1]
    BY <1>2 DEF EvidenceMoves
  <2>2. PICK e \in Evidence : e = evidence
    BY <1>1
  <2>3. e.spent \in Nat /\ e.wake \in Nat
    BY DEF Evidence
  <2>4. \/ evidence'.spent = e.spent + 1 /\ evidence'.wake = e.wake
        \/ evidence'.spent = e.spent /\ evidence'.wake = e.wake + 1
    BY <2>1, <2>2 DEF Evidence
  <2>5. evidence # Anchored => e.spent # 1 \/ e.wake # 0
    BY <2>2 DEF Evidence, Anchored
  <2>6. evidence' = Anchored => evidence'.spent = 1 /\ evidence'.wake = 0
    BY DEF Anchored
  <2>7. checkpoint # NoCheckpoint => e.spent >= 1
    BY <2>2 DEF AnchorInv
  <2> QED BY <1>2, <2>3, <2>4, <2>5, <2>6, <2>7 DEF EvidenceMoves, checkpointVars
<1>3. CASE Audit
  BY <1>3 DEF Audit, AuditedEnds, AnchorInv
<1>4. CASE UNCHANGED <<audited, evidence>>
  BY <1>4 DEF AnchorInv
<1> QED BY CheckpointMoves, <1>2, <1>3, <1>4
        DEF checkpointVars, Begin, BeginCheckpoint, Checkpointed,
            CheckpointRuns, Report, SubmitCheckpoint, TakeUpCheckpoint,
            CheckpointNotStartable, StartCheckpoint, CompleteCheckpoint,
            CheckpointDies, CancelCheckpoint

(* The program reaches a submission or a start on the evidence it has      *)
(* checked.                                                                *)
LEMMA StandingIsAnchored ==
  ASSUME TypeInv, Standing
  PROVE  evidence = Anchored
BY DEF Standing, WakeStands, Context, Anchored, TypeInv, CheckpointInv,
       CheckpointTypeOK, Evidence

LEMMA AuditedIsConfirmed ==
  ASSUME TypeInv, SucceededCurrent, ConfirmedAction
  PROVE  audited = [task |-> "succeeded", action |-> "confirmed"]
BY DEF SucceededCurrent, ConfirmedAction, TypeInv, CheckpointInv,
       CheckpointTypeOK, Cognition

LEMMA AnchorStep ==
  ASSUME TypeInv, AnchorInv, Next \/ UNCHANGED vars
  PROVE  AnchorInv'
<1>1. checkpoint' # NoCheckpoint =>
        /\ checkpoint'.facts = Anchored
        /\ audited' = [task |-> "succeeded", action |-> "confirmed"]
        /\ evidence'.spent >= 1
  <2>1. ASSUME checkpoint # NoCheckpoint PROVE checkpoint'.facts = checkpoint.facts
    BY <2>1, CheckpointKept, CheckpointRecovered, CheckpointSubmitted,
       CheckpointStarted, CheckpointCompleted, CheckpointCancelled
       DEF Begin, BeginCheckpoint
  <2>2. CASE checkpoint # NoCheckpoint
    BY <2>1, <2>2, EvidenceGrows DEF AnchorInv
  <2>3. CASE checkpoint = NoCheckpoint /\ checkpoint' # NoCheckpoint
    <3>1. SubmitCheckpoint
      BY <2>3, CheckpointKept, CheckpointStarted, CheckpointCompleted,
         NamesAssumption DEF CancelCheckpoint
    <3>2. evidence = Anchored
      BY <3>1, StandingIsAnchored DEF SubmitCheckpoint
    <3>3. audited = [task |-> "succeeded", action |-> "confirmed"]
      BY <3>1, AuditedIsConfirmed DEF SubmitCheckpoint
    <3>4. checkpoint'.facts = evidence /\ UNCHANGED <<audited, evidence>>
      BY <3>1, CheckpointSubmitted DEF SubmitCheckpoint
    <3> QED BY <3>2, <3>3, <3>4 DEF Anchored
  <2> QED BY <2>2, <2>3
<1>2. cursor' # NoCursor =>
        checkpoint' # NoCheckpoint /\ checkpoint'.status = "succeeded"
  <2>1. CASE Seed
    BY <2>1, SeedMove DEF CanonicalCheckpoint, checkpointVars
  <2>2. CASE ~Seed /\ cursor' # NoCursor
    <3>1. cursor # NoCursor
      BY <2>2, CursorMoves, AdmitMove, SettleMove, BlockMove DEF Blocks
    <3>2. checkpoint # NoCheckpoint /\ checkpoint.status = "succeeded"
      BY <3>1 DEF AnchorInv
    <3>3. checkpoint' # NoCheckpoint
      BY <3>2, CheckpointKept, CheckpointRecovered, CheckpointCompleted,
         CheckpointSubmitted, CheckpointStarted, CheckpointCancelled,
         NamesAssumption DEF Begin, BeginCheckpoint
    <3>4. checkpoint'.status = "succeeded"
      BY <3>2, CheckpointKept, CheckpointRecovered, CheckpointSubmitted,
         CheckpointStarted, CheckpointCompleted, CheckpointCancelled
         DEF Begin, BeginCheckpoint
    <3> QED BY <3>3, <3>4
  <2> QED BY <2>1, <2>2
<1>3. step' # "off" => pc' = "down"
  <2>1. CASE UNCHANGED step
    <3>1. CASE step # "off"
      BY <2>1, <3>1, ThreadMoves, BlockMove
         DEF AnchorInv, service, Boot, Unlocked, Crash, WaitDue, WaitInterrupted, Arm,
             Unavailable, ObserveTerminal, ObserveNotDue, Admit, Resume,
             Observing, Submit, Adopt, NotStartable, Start, Handle, Settle
    <3> QED BY <2>1, <3>1
  <2>2. CASE Begin
    BY <2>2 DEF Begin, Unlocked, service
  <2>3. CASE Checkpointed
    BY <2>3 DEF Checkpointed, CheckpointRuns, Report, SubmitCheckpoint,
                TakeUpCheckpoint, CheckpointNotStartable, StartCheckpoint,
                CompleteCheckpoint, pulse, service, AnchorInv
  <2>4. CASE CheckpointDies
    BY <2>4 DEF CheckpointDies
  <2> QED BY CheckpointMoves, <2>1, <2>2, <2>3, <2>4
          DEF checkpointVars, EvidenceMoves, Audit, AuditedEnds, CancelCheckpoint
<1>4. step' \in {"execute", "handle"} => evidence' = Anchored
  <2>1. CASE UNCHANGED step /\ step \in {"execute", "handle"}
    <3>1. UNCHANGED evidence
      BY <2>1, EvidenceGrows DEF AnchorInv, Unlocked
    <3> QED BY <2>1, <3>1 DEF AnchorInv
  <2>2. CASE Begin \/ CheckpointDies
    BY <2>2 DEF Begin, BeginCheckpoint, CheckpointDies
  <2>3. CASE Checkpointed
    <3>1. UNCHANGED evidence
      BY <2>3 DEF Checkpointed, CheckpointRuns, Report, SubmitCheckpoint,
                  TakeUpCheckpoint, CheckpointNotStartable, StartCheckpoint,
                  CompleteCheckpoint
    <3>2. CASE SubmitCheckpoint \/ TakeUpCheckpoint
      BY <3>1, <3>2, StandingIsAnchored DEF SubmitCheckpoint, TakeUpCheckpoint
    <3>3. CASE StartCheckpoint
      BY <3>1, <3>3 DEF StartCheckpoint, AnchorInv
    <3>4. CASE Report \/ CheckpointNotStartable \/ CompleteCheckpoint
      BY <3>4 DEF Report, CheckpointNotStartable, CompleteCheckpoint
    <3> QED BY <2>3, <3>2, <3>3, <3>4 DEF Checkpointed, CheckpointRuns
  <2> QED BY CheckpointMoves, <2>1, <2>2, <2>3
          DEF checkpointVars, EvidenceMoves, Audit, AuditedEnds, CancelCheckpoint
<1> QED BY <1>1, <1>2, <1>3, <1>4 DEF AnchorInv

(* An undisturbed checkpoint has used up an attempt a fault, and one more  *)
(* only while the program is at work on it.                                *)
AttemptInv ==
  checkpoint # NoCheckpoint /\ disturbances = 0 =>
    /\ checkpoint.status \notin {"cancel_requested", "cancelled"}
    /\ checkpoint.status = "pending" => checkpoint.attempts <= faults
    /\ checkpoint.status = "running" =>
         checkpoint.attempts <= IF step = "handle" THEN faults + 1 ELSE faults
    /\ checkpoint.status \in {"failed", "manual_review"} => faults >= MaxAttempts

LEMMA InitAttempt == Init => AttemptInv
BY DEF Init, CheckpointInit, AttemptInv

LEMMA AttemptStep ==
  ASSUME TypeInv, AttemptInv, Next \/ UNCHANGED vars
  PROVE  AttemptInv'
<1> SUFFICES ASSUME checkpoint' # NoCheckpoint, disturbances' = 0
             PROVE  /\ checkpoint'.status \notin {"cancel_requested", "cancelled"}
                    /\ checkpoint'.status = "pending" =>
                         checkpoint'.attempts <= faults'
                    /\ checkpoint'.status = "running" =>
                         checkpoint'.attempts <=
                           IF step' = "handle" THEN faults' + 1 ELSE faults'
                    /\ checkpoint'.status \in {"failed", "manual_review"} =>
                         faults' >= MaxAttempts
  BY DEF AttemptInv
<1>1. /\ faults \in Nat /\ faults' \in Nat /\ faults' >= faults
      /\ disturbances = 0
  BY BoundsStep DEF TypeInv, CheckpointInv, CheckpointTypeOK
<1>2. \A task \in Checkpoint : task.attempts \in Nat /\ task.status \in Status
  BY DEF Checkpoint
<1>3. checkpoint # NoCheckpoint => checkpoint \in Checkpoint
  BY DEF TypeInv, CheckpointInv, CheckpointTypeOK
<1>4. CASE UNCHANGED checkpoint
  <2>1. \/ step = "handle" => step' = "handle"
        \/ step = "handle" /\ faults' = faults + 1
        \/ step = "handle" /\ CompleteCheckpoint
    BY CheckpointMoves
       DEF checkpointVars, EvidenceMoves, Audit, AuditedEnds, Begin,
           BeginCheckpoint, Checkpointed, CheckpointRuns, Report,
           SubmitCheckpoint, TakeUpCheckpoint, CheckpointNotStartable,
           StartCheckpoint, CheckpointDies, Fault, CancelCheckpoint
  <2>2. CASE CompleteCheckpoint
    BY <1>1, <1>4, <2>2, CheckpointCompleted
  <2>3. CASE step = "handle" => step' = "handle"
    BY <1>1, <1>2, <1>3, <1>4, <2>3 DEF AttemptInv
  <2>4. CASE step = "handle" /\ faults' = faults + 1
    BY <1>1, <1>2, <1>3, <1>4, <2>4 DEF AttemptInv
  <2> QED BY <2>1, <2>2, <2>3, <2>4
<1>5. CASE Begin /\ checkpoint # NoCheckpoint
  <2>1. RecoverCheckpoint /\ step = "off" /\ step' = "inspect"
    BY <1>5 DEF Begin, BeginCheckpoint
  <2>2. CASE checkpoint'.status = checkpoint.status
    BY <1>1, <1>2, <1>3, <1>5, <2>1, <2>2, CheckpointRecovered DEF AttemptInv
  <2>3. CASE checkpoint'.status # checkpoint.status
    <3>1. /\ checkpoint.status = "running"
          /\ checkpoint'.attempts = checkpoint.attempts
          /\ \/ checkpoint'.status = "pending"
             \/ /\ checkpoint.attempts >= MaxAttempts
                /\ checkpoint'.status \in {"failed", "manual_review"}
      BY <1>1, <1>5, <2>1, <2>3, CheckpointRecovered DEF AttemptInv
    <3>2. checkpoint.attempts <= faults /\ checkpoint.attempts \in Nat
      BY <1>1, <1>2, <1>3, <1>5, <2>1, <3>1 DEF AttemptInv
    <3> QED BY <1>1, <3>1, <3>2
  <2> QED BY <2>2, <2>3
<1>6. CASE SubmitCheckpoint
  BY <1>1, <1>6, CheckpointSubmitted
<1>7. CASE StartCheckpoint
  <2>1. step' = "handle" /\ checkpoint # NoCheckpoint
    BY <1>7, CheckpointStarted, NamesAssumption DEF StartCheckpoint
  <2>2. /\ checkpoint'.status = "running"
        /\ checkpoint'.attempts = checkpoint.attempts + 1
        /\ checkpoint.attempts <= faults /\ checkpoint.attempts \in Nat
    BY <1>1, <1>2, <1>7, <2>1, CheckpointStarted DEF AttemptInv
  <2> QED BY <1>1, <2>1, <2>2
<1>8. CASE CompleteCheckpoint
  BY <1>8, CheckpointCompleted
<1>9. ~CancelCheckpoint
  BY <1>1 DEF CancelCheckpoint, Disturb
<1> QED BY CheckpointKept, <1>4, <1>5, <1>6, <1>7, <1>8, <1>9

AnchoredInv == TypeInv /\ AnchorInv /\ AttemptInv

LEMMA AnchoredAlways == Spec => []AnchoredInv
<1>1. Init => AnchoredInv
  BY InitType, InitAnchor, InitAttempt DEF AnchoredInv
<1>2. AnchoredInv /\ [Next]_vars => AnchoredInv'
  BY TypeStep, AnchorStep, AttemptStep DEF AnchoredInv
<1> QED BY <1>1, <1>2, PTL DEF Spec

(* The pulse stands on a checkpoint that was completed and says what was   *)
(* so, and no single crash loses a checkpoint.                             *)
THEOREM AnchorCorrect == Spec => []AnchorTruthful
<1>1. AnchoredInv => AnchorTruthful
  <2> SUFFICES ASSUME AnchoredInv PROVE AnchorTruthful
    OBVIOUS
  <2>1. cursor # NoCursor =>
          /\ checkpoint # NoCheckpoint /\ checkpoint.status = "succeeded"
          /\ checkpoint.facts = Anchored
          /\ audited = [task |-> "succeeded", action |-> "confirmed"]
    BY DEF AnchoredInv, AnchorInv
  <2>2. ASSUME checkpoint # NoCheckpoint, checkpoint.status \in Terminal,
               checkpoint.status # "succeeded", ~(disturbances > 0)
        PROVE  faults >= MaxAttempts
    <3>1. disturbances = 0
      BY <2>2 DEF AnchoredInv, TypeInv, CheckpointInv, CheckpointTypeOK
    <3> QED BY <2>2, <3>1 DEF AnchoredInv, AttemptInv, Terminal
  <2> QED BY <2>1, <2>2 DEF AnchorTruthful
<1> QED BY <1>1, AnchoredAlways, PTL

-----------------------------------------------------------------------------
(* The history.  The observations lie on one path of identities, the       *)
(* prefixes of the cursor's: each has the Task of its due time, dated by   *)
(* what the next identity was made of, and all but the last are made.  A   *)
(* row that is settled has the Task's result, and this is so of the row a  *)
(* status tool holds too, however old it is.                               *)

OnPath(id) == Len(id) <= Generation(cursor) /\ id = Prefix(Len(id))

Dated(id, time) ==
  IF Len(id) = Generation(cursor) THEN time = cursor.captured
  ELSE time + Cadence = cursor.id[Len(id) + 1]

HistoryInv ==
  /\ cursor = NoCursor => DOMAIN tasks = {}
  /\ \A id \in DOMAIN tasks : tasks[id].input # Foreign =>
       /\ tasks[id].input.id = id /\ Canonical(tasks[id].input)
       /\ OnPath(id) /\ Dated(id, tasks[id].input.captured)
  /\ cursor # NoCursor => \A g \in 1 .. Generation(cursor) - 1 : Observed(g)

SettledRow(c) ==
  c.state \in {"settled", "quiescent"} =>
    /\ c.id \in DOMAIN tasks
    /\ tasks[c.id].status = "succeeded" /\ tasks[c.id].input = c.result

Row(c) ==
  /\ ValidCursor(c)
  /\ c.state = "blocked" => Admitted(c)
  /\ c.state \in {"preparing", "blocked"} => c.result = NoTime
  /\ SettledRow(c)

RowsInv ==
  /\ cursor # NoCursor => Row(cursor)
  /\ view # NoCursor =>
       /\ cursor # NoCursor /\ Row(view)
       /\ OnPath(view.id)
       /\ view.id # <<>> => Dated(view.id, view.captured)

(* The Task of the generation the service is at work on is its own.        *)
Input == [id |-> cursor.id, captured |-> cursor.captured, evidence |-> Anchored]
InputInv ==
  /\ pc \in {"execute", "handle"} => evidence = Anchored
  /\ pc \in {"execute", "handle", "settle"} => tasks[cursor.id].input = Input

PulseInv == AnchoredInv /\ HistoryInv /\ RowsInv /\ InputInv

LEMMA InitHistory == Init => HistoryInv /\ RowsInv /\ InputInv
BY DEF Init, HistoryInv, RowsInv, InputInv

(* The path only grows, by the identity of the generation admitted.        *)
LEMMA PathMoves ==
  ASSUME TypeInv, Next \/ UNCHANGED vars, cursor # NoCursor
  PROVE  \/ /\ cursor'.id = cursor.id /\ cursor'.captured = cursor.captured
            /\ cursor'.due = cursor.due
         \/ Admit
BY CursorMoves, SeedMove, SettleMove, BlockMove DEF Blocks

LEMMA PathGrows ==
  ASSUME TypeInv, Next \/ UNCHANGED vars, cursor # NoCursor,
         NEW id \in Ids, OnPath(id)
  PROVE  /\ OnPath(id)'
         /\ \A time : id # <<>> /\ Dated(id, time) => Dated(id, time)'
<1>1. Len(id) \in Nat /\ (id = <<>> <=> Len(id) = 0)
  BY IdIsSequence, EmptyId
<1>2. cursor \in Cursor /\ Len(cursor.id) \in Nat
  BY CursorFields DEF TypeInv, CursorInv
<1>3. CASE cursor'.id = cursor.id /\ cursor'.captured = cursor.captured
  BY <1>3 DEF OnPath, Dated, Prefix, Generation
<1>4. CASE Admit
  <2>1. /\ cursor'.id = Next1(cursor) /\ ValidCursor(cursor)
        /\ cursor.state \in {"idle", "settled"} /\ now \in Times
    BY <1>4, AdmitMove DEF TypeInv, CheckpointInv, CheckpointTypeOK
  <2>2. /\ Len(cursor'.id) = Len(cursor.id) + 1
        /\ \A g \in 0 .. Len(cursor.id) :
             SubSeq(cursor'.id, 1, g) = SubSeq(cursor.id, 1, g)
        /\ \A g \in 1 .. Len(cursor.id) : cursor'.id[g] = cursor.id[g]
        /\ cursor'.id[Len(cursor.id) + 1] = Deadline(cursor)
    BY <1>2, <2>1, PreparingRow
  <2>3. OnPath(id)'
    <3>1. Len(id) <= Len(cursor.id) /\ id = SubSeq(cursor.id, 1, Len(id))
      BY DEF OnPath, Prefix, Generation
    <3>2. Len(id) \in 0 .. Len(cursor.id)
      BY <1>1, <1>2, <3>1
    <3>3. id = SubSeq(cursor'.id, 1, Len(id))
      BY <2>2, <3>1, <3>2
    <3>4. Len(id) <= Len(cursor'.id)
      BY <1>1, <1>2, <2>2, <3>1
    <3> QED BY <3>3, <3>4 DEF OnPath, Prefix, Generation
  <2>4. ASSUME NEW time, id # <<>>, Dated(id, time) PROVE Dated(id, time)'
    <3>1. Len(id) # Len(cursor'.id)
      BY <1>1, <1>2, <2>2 DEF OnPath, Generation
    <3>2. CASE Len(id) = Len(cursor.id)
      <4>1. cursor.state = "settled"
        BY <1>1, <2>1, <2>4, <3>2, EmptySeq DEF ValidCursor
      <4>2. Deadline(cursor) = cursor.captured + Cadence
        BY <4>1 DEF Deadline
      <4> QED BY <2>2, <2>4, <3>1, <3>2, <4>2 DEF Dated, Generation
    <3>3. CASE Len(id) # Len(cursor.id)
      <4>1. Len(id) + 1 \in 1 .. Len(cursor.id)
        BY <1>1, <1>2, <3>3 DEF OnPath, Generation
      <4> QED BY <2>2, <2>4, <3>1, <3>3, <4>1 DEF Dated, Generation
    <3> QED BY <3>2, <3>3
  <2> QED BY <2>3, <2>4
<1> QED BY PathMoves, <1>3, <1>4

(* The cursor's own identity, and its prefixes, lie on the path.           *)
LEMMA PrefixesOnPath ==
  ASSUME TypeInv, cursor # NoCursor
  PROVE  /\ cursor \in Cursor /\ Generation(cursor) \in 0 .. MaxGeneration
         /\ Prefix(Generation(cursor)) = cursor.id /\ OnPath(cursor.id)
         /\ \A g \in 0 .. Generation(cursor) :
              Prefix(g) \in Ids /\ Len(Prefix(g)) = g
<1>1. cursor \in Cursor
  BY DEF TypeInv, CursorInv
<1>2. /\ cursor.id \in Ids /\ Len(cursor.id) \in Nat
      /\ Len(cursor.id) <= MaxGeneration
  BY <1>1, CursorFields
<1>3. /\ SubSeq(cursor.id, 1, Len(cursor.id)) = cursor.id
      /\ \A g \in 0 .. Len(cursor.id) :
           SubSeq(cursor.id, 1, g) \in Ids /\ Len(SubSeq(cursor.id, 1, g)) = g
  BY <1>2, PrefixOfId
<1> QED BY <1>1, <1>2, <1>3 DEF Generation, Prefix, OnPath

LEMMA PrefixKept ==
  ASSUME TypeInv, Next \/ UNCHANGED vars, cursor # NoCursor,
         NEW g \in 0 .. Generation(cursor)
  PROVE  SubSeq(cursor'.id, 1, g) = SubSeq(cursor.id, 1, g)
<1>1. CASE cursor'.id = cursor.id
  BY <1>1
<1>2. CASE Admit
  <2>1. cursor \in Cursor /\ cursor'.id = Next1(cursor) /\ ValidCursor(cursor)
    BY <1>2, AdmitMove
  <2>2. cursor.state \in {"idle", "settled"} /\ now \in Times
    BY <1>2, AdmitMove DEF TypeInv, CheckpointInv, CheckpointTypeOK
  <2> QED BY <2>1, <2>2, PreparingRow DEF Generation
<1> QED BY PathMoves, <1>1, <1>2

(* An observation that has been made stays made, with its date.            *)
LEMMA ObservedKept ==
  ASSUME TypeInv, Next \/ UNCHANGED vars, cursor # NoCursor,
         NEW g \in 1 .. Generation(cursor), Observed(g)
  PROVE  /\ Observed(g)'
         /\ tasks'[SubSeq(cursor'.id, 1, g)].input = tasks[Prefix(g)].input
<1>1. SubSeq(cursor'.id, 1, g) = SubSeq(cursor.id, 1, g)
  <2>1. g \in 0 .. Generation(cursor)
    BY PrefixesOnPath
  <2> QED BY <2>1, PrefixKept
<1>2. PICK id \in DOMAIN tasks : id = Prefix(g)
  BY DEF Observed
<1>3. tasks[id].input # Foreign /\ tasks[id].status = "succeeded"
  BY <1>2 DEF Observed
<1>4. /\ id \in DOMAIN tasks' /\ tasks'[id].input = tasks[id].input
      /\ tasks'[id].status = "succeeded"
  BY <1>3, TasksKept DEF Terminal
<1> QED BY <1>1, <1>2, <1>3, <1>4 DEF Observed, Prefix

LEMMA HistoryStep ==
  ASSUME PulseInv, Next \/ UNCHANGED vars
  PROVE  HistoryInv'
<1>1. TypeInv /\ HistoryInv /\ RowsInv
  BY DEF PulseInv, AnchoredInv
<1>2. cursor' = NoCursor => DOMAIN tasks' = {}
  <2>1. ASSUME cursor' = NoCursor, NEW id \in DOMAIN tasks' PROVE FALSE
    <3>1. cursor = NoCursor
      BY <1>1, <2>1, CursorStep
    <3>2. DOMAIN tasks = {}
      BY <1>1, <3>1 DEF HistoryInv
    <3> QED BY <1>1, <2>1, <3>1, <3>2, TasksAdded
  <2> QED BY <2>1
<1>3. ASSUME NEW id \in DOMAIN tasks', tasks'[id].input # Foreign
      PROVE  /\ tasks'[id].input.id = id /\ Canonical(tasks'[id].input)
             /\ OnPath(id)' /\ Dated(id, tasks[id].input.captured)'
  <2>1. CASE id \in DOMAIN tasks
    <3>1. tasks'[id].input = tasks[id].input /\ cursor # NoCursor
      BY <1>1, <2>1, TasksKept DEF HistoryInv
    <3>2. PICK time : time = tasks[id].input.captured
      OBVIOUS
    <3>3. /\ tasks[id].input.id = id /\ Canonical(tasks[id].input)
          /\ OnPath(id) /\ Dated(id, time)
      BY <1>1, <1>3, <2>1, <3>1, <3>2 DEF HistoryInv
    <3>4. id \in Ids /\ id # <<>>
      BY <1>1, <2>1 DEF TypeInv, TasksInv
    <3>5. OnPath(id)' /\ Dated(id, time)'
      BY <1>1, <3>1, <3>3, <3>4, PathGrows
    <3>6. tasks'[id].input.captured = time
      BY <3>1, <3>2
    <3> QED BY <3>1, <3>3, <3>5, <3>6 DEF Dated
  <2>2. CASE id \notin DOMAIN tasks
    <3>1. /\ Submit /\ id = cursor.id /\ tasks'[id] = Observation(cursor)
          /\ UNCHANGED cursor /\ cursor # NoCursor
      BY <1>1, <1>3, <2>2, TasksAdded
    <3>2. tasks'[id].input = Captured(cursor)
      BY <3>1 DEF Observation
    <3>3. /\ tasks'[id].input.id = id
          /\ tasks'[id].input.captured = cursor.captured
      BY <3>1, <3>2 DEF Captured
    <3>4. Canonical(tasks'[id].input)
      <4>1. /\ cursor \in Cursor /\ ValidCursor(cursor) /\ Admitted(cursor)
        BY <1>1, <3>1, SubmitMove
      <4>2. Opportunity(id) /\ cursor.captured >= id[Len(id)]
        BY <3>1, <4>1 DEF ValidCursor, Admitted
      <4> QED BY <1>3, <3>3, <4>2 DEF Canonical
    <3>5. OnPath(id)
      BY <1>1, <3>1, PrefixesOnPath
    <3>6. Dated(id, cursor.captured)
      BY <3>1 DEF Dated, Generation
    <3> QED BY <3>1, <3>3, <3>4, <3>5, <3>6
         DEF OnPath, Dated, Generation, Prefix
  <2> QED BY <2>1, <2>2
<1>4. ASSUME cursor' # NoCursor, NEW g \in 1 .. Generation(cursor') - 1
      PROVE  Observed(g)'
  <2>1. CASE cursor = NoCursor
    <3>1. Seed
      BY <1>1, <1>4, <2>1, CursorMoves, AdmitMove, SettleMove, BlockMove
         DEF Blocks
    <3>2. Generation(cursor') = 0
      BY <1>1, <3>1, SeedMove, EmptyId DEF Generation
    <3> QED BY <1>4, <3>2
  <2>2. CASE cursor # NoCursor /\ cursor'.id = cursor.id
    <3>1. g \in 1 .. Generation(cursor) - 1
      BY <1>4, <2>2 DEF Generation
    <3>2. g \in 1 .. Generation(cursor) /\ Observed(g)
      BY <1>1, <2>2, <3>1, PrefixesOnPath DEF HistoryInv
    <3> QED BY <1>1, <2>2, <3>2, ObservedKept
  <2>3. CASE cursor # NoCursor /\ Admit
    <3>1. /\ cursor \in Cursor /\ cursor.state \in {"idle", "settled"}
          /\ ValidCursor(cursor) /\ cursor'.id = Next1(cursor) /\ now \in Times
      BY <1>1, <2>3, AdmitMove DEF TypeInv, CheckpointInv, CheckpointTypeOK
    <3>2. Generation(cursor') = Generation(cursor) + 1
      BY <3>1, PreparingRow DEF Generation
    <3>3. g \in 1 .. Generation(cursor)
      BY <1>1, <1>4, <2>3, <3>2, PrefixesOnPath
    <3>4. Observed(g)
      <4>1. CASE g # Generation(cursor)
        <5>1. g \in 1 .. Generation(cursor) - 1
          BY <1>1, <2>3, <3>3, <4>1, PrefixesOnPath
        <5> QED BY <1>1, <2>3, <5>1 DEF HistoryInv
      <4>2. CASE g = Generation(cursor)
        <5>1. cursor.id # <<>> /\ cursor.state = "settled"
          BY <3>1, <3>3, <4>2, CursorFields DEF Generation, ValidCursor
        <5>2. Row(cursor) /\ cursor.result \in Facts
          BY <1>1, <2>3, <3>1, <5>1, CursorFields
             DEF RowsInv, Row, ValidCursor
        <5>3. /\ cursor.id \in DOMAIN tasks
              /\ tasks[cursor.id].status = "succeeded"
              /\ tasks[cursor.id].input # Foreign
          BY <5>1, <5>2, NamesAssumption DEF Row, SettledRow
        <5>4. Prefix(g) = cursor.id
          BY <1>1, <2>3, <4>2, PrefixesOnPath
        <5> QED BY <5>3, <5>4 DEF Observed
      <4> QED BY <4>1, <4>2
    <3> QED BY <1>1, <2>3, <3>3, <3>4, ObservedKept
  <2> QED BY <1>1, <2>1, <2>2, <2>3, PathMoves
<1> QED BY <1>2, <1>3, <1>4 DEF HistoryInv, Generation

LEMMA RowKept ==
  ASSUME TypeInv, Next \/ UNCHANGED vars, NEW c, Row(c)
  PROVE  Row(c)'
<1>1. SettledRow(c)'
  <2> SUFFICES ASSUME c.state \in {"settled", "quiescent"}
               PROVE  /\ c.id \in DOMAIN tasks'
                      /\ tasks'[c.id].status = "succeeded"
                      /\ tasks'[c.id].input = c.result
    BY DEF SettledRow
  <2>1. /\ c.id \in DOMAIN tasks
        /\ tasks[c.id].status = "succeeded" /\ tasks[c.id].input = c.result
    BY DEF Row, SettledRow
  <2> QED BY <2>1, TasksKept DEF Terminal
<1> QED BY <1>1 DEF Row, ValidCursor, Admitted, Opportunity, Generation

LEMMA RowsStep ==
  ASSUME PulseInv, Next \/ UNCHANGED vars
  PROVE  RowsInv'
<1>1. TypeInv /\ RowsInv
  BY DEF PulseInv, AnchoredInv
<1>2. ASSUME cursor' # NoCursor PROVE Row(cursor)'
  <2>1. CASE UNCHANGED cursor
    <3>1. PICK c : c = cursor
      OBVIOUS
    <3>2. Row(c)'
      BY <1>1, <1>2, <2>1, <3>1, RowKept DEF RowsInv
    <3> QED BY <2>1, <3>1, <3>2
         DEF Row, ValidCursor, Admitted, SettledRow, Generation
  <2>2. CASE Seed \/ Admit \/ Blocks
    <3>1. /\ ValidCursor(cursor') /\ cursor'.state \in {"idle", "preparing", "blocked"}
          /\ cursor'.state = "blocked" => Admitted(cursor')
          /\ cursor'.result = NoTime
      BY <1>1, <2>2, SeedMove, AdmitMove, BlockMove
    <3> QED BY <3>1
         DEF Row, ValidCursor, Admitted, SettledRow, Generation
  <2>3. CASE Settle
    <3>1. /\ ValidCursor(cursor') /\ cursor'.state \in {"settled", "quiescent"}
          /\ cursor'.id \in DOMAIN tasks'
          /\ tasks'[cursor'.id].status = "succeeded"
          /\ tasks'[cursor'.id].input = cursor'.result
      BY <1>1, <2>3, SettleMove DEF CanonicalSuccess
    <3> QED BY <3>1
         DEF Row, ValidCursor, Admitted, SettledRow, Generation
  <2> QED BY CursorMoves, <2>1, <2>2, <2>3 DEF Blocks
<1>3. ASSUME view' # NoCursor
      PROVE  /\ cursor' # NoCursor /\ Row(view)'
             /\ OnPath(view.id)'
             /\ view'.id # <<>> => Dated(view.id, view.captured)'
  <2>1. CASE UNCHANGED reader
    <3>1. PICK c \in Cursor : c = view /\ view' = c
      BY <1>1, <1>3, <2>1 DEF reader, TypeInv, ReaderInv
    <3>2. /\ cursor # NoCursor /\ Row(c) /\ OnPath(c.id)
          /\ c.id # <<>> => Dated(c.id, c.captured)
      BY <1>1, <1>3, <3>1 DEF RowsInv
    <3>3. c.id \in Ids
      BY CursorFields
    <3>4. /\ cursor' # NoCursor /\ Row(c)' /\ OnPath(c.id)'
          /\ c.id # <<>> => Dated(c.id, c.captured)'
      BY <1>1, <3>2, <3>3, CursorStep, RowKept, PathGrows
    <3> QED BY <3>1, <3>4
         DEF Row, SettledRow, OnPath, Dated, Prefix, Generation
  <2>2. CASE StatusReadsCursor
    <3>1. cursor # NoCursor /\ view' = cursor /\ cursor' = cursor
      BY <2>2 DEF StatusReadsCursor, durable
    <3>2. OnPath(cursor.id) /\ Dated(cursor.id, cursor.captured)
      BY <1>1, <3>1, PrefixesOnPath DEF Dated, Generation
    <3>3. Row(cursor)'
      BY <1>2, <3>1
    <3> QED BY <3>1, <3>2, <3>3
         DEF Row, SettledRow, OnPath, Dated, Prefix, Generation
  <2>3. CASE StatusReadsTask
    BY <1>3, <2>3 DEF StatusReadsTask
  <2> QED BY ReaderMoves, <2>1, <2>2, <2>3
<1> QED BY <1>2, <1>3 DEF RowsInv

(* The anchor still holds when the pulse has checked it.                   *)
LEMMA HeldIsAnchored ==
  ASSUME AnchorInv, cursor # NoCursor
  PROVE  EvidenceHolds <=> evidence = Anchored
BY DEF AnchorInv, EvidenceHolds, CanonicalCheckpoint, Anchored, Context

LEMMA InputStep ==
  ASSUME PulseInv, Next \/ UNCHANGED vars
  PROVE  InputInv'
<1>1. TypeInv /\ AnchorInv /\ InputInv
  BY DEF PulseInv, AnchoredInv
<1> SUFFICES ASSUME pc' \in {"prepare", "execute", "handle", "settle"}
             PROVE  /\ pc' \in {"execute", "handle"} => evidence' = Anchored
                    /\ pc' \in {"execute", "handle", "settle"} =>
                         tasks'[cursor'.id].input =
                           [id |-> cursor'.id, captured |-> cursor'.captured,
                            evidence |-> Anchored]
  BY DEF InputInv, Input, Anchored
<1>2. CASE Working /\ UNCHANGED <<pc, cursor>> /\ UNCHANGED tasks
  <2>1. UNCHANGED evidence
    BY <1>1, <1>2, EvidenceGrows DEF Working, Unlocked
  <2> QED BY <1>1, <1>2, <2>1 DEF InputInv, Input
<1>3. CASE (Admit \/ Resume) /\ pc' = "prepare"
  BY <1>3
<1>4. CASE Submit
  <2>1. /\ EvidenceHolds /\ cursor # NoCursor /\ UNCHANGED <<cursor, evidence>>
        /\ tasks'[cursor.id] = Observation(cursor)
    BY <1>1, <1>4, SubmitMove
  <2>2. evidence = Anchored
    BY <1>1, <2>1, HeldIsAnchored
  <2> QED BY <2>1, <2>2 DEF Observation, Captured, Anchored
<1>5. CASE Adopt /\ UNCHANGED <<cursor, tasks>> /\ Own
  <2>1. /\ EvidenceHolds /\ UNCHANGED evidence
        /\ tasks[cursor.id].input = Captured(cursor)
    BY <1>5 DEF Adopt, durable, Own
  <2>2. cursor # NoCursor
    BY <1>1, <1>5 DEF Adopt, TypeInv, PlaceInv
  <2>3. evidence = Anchored
    BY <1>1, <2>1, <2>2, HeldIsAnchored
  <2> QED BY <1>5, <2>1, <2>3 DEF Captured, Anchored
<1>6. CASE Start
  BY <1>1, <1>6, StartMove DEF InputInv, Input, Anchored
<1>7. CASE Handle /\ pc' = "settle"
  BY <1>1, <1>7, HandleMove DEF InputInv, Input, Anchored
<1> QED BY <1>1, WorkingMoves, <1>2, <1>3, <1>4, <1>5, <1>6, <1>7

LEMMA PulseStep ==
  ASSUME PulseInv, Next \/ UNCHANGED vars
  PROVE  PulseInv'
<1>1. AnchoredInv'
  BY TypeStep, AnchorStep, AttemptStep DEF PulseInv, AnchoredInv
<1> QED BY <1>1, HistoryStep, RowsStep, InputStep DEF PulseInv

LEMMA PulseAlways == Spec => []PulseInv
<1>1. Init => PulseInv
  BY InitType, InitAnchor, InitAttempt, InitHistory DEF PulseInv, AnchoredInv
<1>2. PulseInv /\ [Next]_vars => PulseInv'
  BY PulseStep
<1> QED BY <1>1, <1>2, PTL DEF Spec

-----------------------------------------------------------------------------
(* A row that is blocked had its cause when it was, and the cause stays:   *)
(* the evidence does not come back, and nobody executes the Task.          *)
LEMMA BlockedHadCause ==
  ASSUME PulseInv, Blocks
  PROVE  \/ evidence # Anchored
         \/ /\ cursor.id \in DOMAIN tasks
            /\ \/ tasks[cursor.id].status # "succeeded"
               \/ tasks[cursor.id].input # Input
<1>1. TypeInv /\ AnchorInv /\ InputInv /\ HistoryInv
  BY DEF PulseInv, AnchoredInv
<1>2. cursor # NoCursor /\ cursor \in Cursor
  BY <1>1, BlockMove
<1>3. CASE BlockedByEvidence
  BY <1>1, <1>2, <1>3, HeldIsAnchored DEF BlockedByEvidence
<1>4. CASE BlockedByConflict
  <2>1. /\ cursor.id \in DOMAIN tasks
        /\ tasks[cursor.id].input # Captured(cursor)
    BY <1>4 DEF BlockedByConflict, Own, Exists
  <2>2. evidence = Anchored => Captured(cursor) = Input
    BY DEF Captured, Input
  <2> QED BY <2>1, <2>2
<1>5. CASE BlockedByFailure
  <2>1. cursor.id \in DOMAIN tasks /\ tasks[cursor.id].input = Input
    BY <1>1, <1>5 DEF BlockedByFailure, TypeInv, PlaceInv, InputInv
  <2>2. tasks[cursor.id] \in Task /\ Input # Foreign
    <3>1. tasks[cursor.id] \in Task /\ cursor.id \in Ids
      BY <1>1, <2>1 DEF TypeInv, TasksInv
    <3>2. Admitted(cursor)
      BY <1>1, <1>5, BlockMove DEF Blocks
    <3>3. Anchored \in Evidence /\ cursor.captured \in Times
      BY <1>2, <3>2, AdmittedRow DEF Anchored, Evidence
    <3>4. Input \in Facts
      BY <3>1, <3>3 DEF Input, Facts
    <3> QED BY <3>1, <3>4, NamesAssumption
  <2>3. Canonical(tasks[cursor.id].input)
    BY <1>1, <2>1, <2>2 DEF HistoryInv
  <2> QED BY <1>5, <2>1, <2>3 DEF BlockedByFailure, CanonicalSuccess
<1>6. CASE HandleRefused
  BY <1>1, <1>6 DEF HandleRefused, TypeInv, PlaceInv
<1> QED BY <1>3, <1>4, <1>5, <1>6 DEF Blocks

LEMMA BlockedStep ==
  ASSUME PulseInv, BlockedForCause, Next \/ UNCHANGED vars
  PROVE  BlockedForCause'
<1>1. TypeInv /\ AnchorInv
  BY DEF PulseInv, AnchoredInv
<1> SUFFICES ASSUME cursor' # NoCursor, cursor'.state = "blocked"
             PROVE  \/ evidence' # Anchored
                    \/ /\ cursor'.id \in DOMAIN tasks'
                       /\ \/ tasks'[cursor'.id].status # "succeeded"
                          \/ tasks'[cursor'.id].input #
                               [id |-> cursor'.id, captured |-> cursor'.captured,
                                evidence |-> Anchored]
  BY DEF BlockedForCause, Anchored
<1>2. CASE Blocks
  BY <1>1, <1>2, BlockedHadCause, BlockMove DEF Input, Anchored
<1>3. CASE UNCHANGED cursor
  <2>1. checkpoint # NoCheckpoint
    BY <1>1, <1>3 DEF AnchorInv
  <2>2. CASE evidence # Anchored
    BY <1>1, <2>1, <2>2, EvidenceGrows
  <2>3. CASE evidence = Anchored
    <3>1. PICK id \in DOMAIN tasks :
            /\ id = cursor.id
            /\ \/ tasks[id].status # "succeeded"
               \/ tasks[id].input #
                    [id |-> cursor.id, captured |-> cursor.captured,
                     evidence |-> Anchored]
      BY <1>3, <2>3 DEF BlockedForCause
    <3>2. ~Handle
      BY <1>1, <1>3, HandleMove DEF TypeInv, PlaceInv
    <3>3. /\ id \in DOMAIN tasks' /\ tasks'[id].input = tasks[id].input
          /\ tasks'[id].status = "succeeded" => tasks[id].status = "succeeded"
      BY <1>1, <3>2, TasksKept
    <3> QED BY <1>3, <3>1, <3>3
  <2> QED BY <2>2, <2>3
<1>4. ~Seed /\ ~Admit /\ ~Settle
  BY <1>1, SeedMove, AdmitMove, SettleMove
<1> QED BY CursorMoves, <1>2, <1>3, <1>4 DEF Blocks

(* A pulse that makes no observation is blocked for a cause that is on     *)
(* record, or it has its deadline armed.                                   *)
THEOREM SilenceCorrect == Spec => []SilentForCause
<1>1. Init => BlockedForCause /\ DeadlineArmed
  BY DEF Init, BlockedForCause, DeadlineArmed
<1>2. PulseInv /\ BlockedForCause /\ DeadlineArmed /\ [Next]_vars
        => BlockedForCause' /\ DeadlineArmed'
  BY BlockedStep, DeadlineStep DEF PulseInv, AnchoredInv
<1>3. TypeOK /\ BlockedForCause /\ DeadlineArmed => SilentForCause
  BY DEF SilentForCause
<1> QED BY <1>1, <1>2, <1>3, PulseAlways, TypeCorrect, PTL DEF Spec

-----------------------------------------------------------------------------
(* The status tool.                                                        *)
Wrong(id) ==
  \/ tasks[id].input = Foreign
  \/ tasks[id].status \in Terminal \ {"succeeded"}

(* What the tool refuses is wrong: the row it has read is one the sidecar  *)
(* has held, and the Task's date is that row's.                            *)
LEMMA RefusedIsWrong ==
  ASSUME PulseInv, view # NoCursor, Refused(view)
  PROVE  \E id \in DOMAIN tasks : Wrong(id)
<1> SUFFICES ASSUME \A id \in DOMAIN tasks : ~Wrong(id) PROVE FALSE
  OBVIOUS
<1>1. TypeInv /\ HistoryInv /\ RowsInv
  BY DEF PulseInv, AnchoredInv
<1>2. view \in Cursor /\ view.id \in Ids
  BY <1>1, CursorFields DEF TypeInv, ReaderInv
<1>3. /\ Row(view) /\ OnPath(view.id)
      /\ view.id # <<>> => Dated(view.id, view.captured)
  BY <1>1 DEF RowsInv
<1>4. ASSUME view.id \in DOMAIN tasks
      PROVE  /\ view.id # <<>> /\ tasks[view.id].input # Foreign
             /\ Canonical(tasks[view.id].input)
             /\ tasks[view.id].status \in Terminal =>
                  CanonicalSuccess(tasks[view.id])
  <2>1. view.id # <<>> /\ tasks[view.id].input # Foreign
    BY <1>1, <1>4 DEF TypeInv, TasksInv, Wrong
  <2>2. Canonical(tasks[view.id].input)
    BY <1>1, <1>4, <2>1 DEF HistoryInv
  <2> QED BY <1>4, <2>1, <2>2 DEF Wrong, CanonicalSuccess
<1>5. ASSUME view.id \in DOMAIN tasks
      PROVE  tasks[view.id].input.captured = view.captured
  <2>1. /\ Dated(view.id, tasks[view.id].input.captured)
        /\ Dated(view.id, view.captured)
    BY <1>1, <1>3, <1>4, <1>5 DEF HistoryInv
  <2>2. tasks[view.id].input.captured \in Nat
    <3>1. tasks[view.id] \in Task
      BY <1>1, <1>5 DEF TypeInv, TasksInv
    <3> QED BY <1>4, <1>5, <3>1 DEF Task, Facts, Times
  <2>3. view.captured \in Nat
    <3>1. view.captured # NoTime
      <4>1. view.state # "idle" /\ (view.state = "blocked" => Admitted(view))
        BY <1>3, <1>4, <1>5 DEF Row, ValidCursor
      <4> QED BY <1>2, <1>3, <4>1, CursorFields
           DEF Row, ValidCursor, Admitted, State
    <3> QED BY <1>2, <3>1, CursorFields DEF Times
  <2> QED BY <2>1, <2>2, <2>3 DEF Dated
<1>6. view.state \in {"settled", "quiescent"} =>
        view.id \in DOMAIN tasks /\ tasks[view.id].status = "succeeded"
  BY <1>3 DEF Row, SettledRow
<1>7. view.id \in DOMAIN tasks => view.result \in {NoTime, tasks[view.id].input}
  <2>1. view.id \in DOMAIN tasks => view.state # "idle"
    BY <1>3, <1>4 DEF Row, ValidCursor
  <2> QED BY <1>2, <1>3, <2>1, CursorFields DEF Row, SettledRow, State
<1> QED BY <1>4, <1>5, <1>6, <1>7 DEF Refused, MatchesCursor

LEMMA StatusStep ==
  ASSUME PulseInv, StatusTruthful, Next \/ UNCHANGED vars
  PROVE  StatusTruthful'
<1>1. TypeInv
  BY DEF PulseInv, AnchoredInv
<1>2. ASSUME NEW id \in DOMAIN tasks, Wrong(id)
      PROVE  /\ id \in DOMAIN tasks'
             /\ \/ tasks'[id].input = Foreign
                \/ tasks'[id].status \in Terminal \ {"succeeded"}
  BY <1>1, <1>2, TasksKept DEF Wrong
<1> SUFFICES ASSUME refused'
             PROVE  \E id \in DOMAIN tasks' :
                      \/ tasks'[id].input = Foreign
                      \/ tasks'[id].status \in Terminal \ {"succeeded"}
  BY DEF StatusTruthful, Terminal
<1>3. \E id \in DOMAIN tasks : Wrong(id)
  <2>1. CASE refused
    BY <2>1 DEF StatusTruthful, Wrong
  <2>2. CASE ~refused
    <3>1. StatusReadsTask
      BY <2>2, ReaderMoves DEF reader, StatusReadsCursor
    <3>2. view # NoCursor /\ Refused(view)
      BY <3>1 DEF StatusReadsTask
    <3> QED BY <3>2, RefusedIsWrong
  <2> QED BY <2>1, <2>2
<1> QED BY <1>2, <1>3

(* Without the lock, and however long it takes between its two reads, the  *)
(* status tool refuses to report only what is really wrong.                *)
THEOREM StatusCorrect == Spec => []StatusTruthful
<1>1. Init => StatusTruthful
  BY DEF Init, StatusTruthful
<1>2. PulseInv /\ StatusTruthful /\ [Next]_vars => StatusTruthful'
  BY StatusStep
<1> QED BY <1>1, <1>2, PulseAlways, PTL DEF Spec

-----------------------------------------------------------------------------
(* Once the evidence has moved, no checkpoint is submitted or executed, and*)
(* no observation.                                                         *)
LEMMA DriftStep ==
  ASSUME PulseInv, Next \/ UNCHANGED vars
  PROVE  /\ \A id \in DOMAIN tasks' :
              \/ tasks'[id].input = Foreign
              \/ /\ id \in DOMAIN tasks
                 /\ tasks'[id].attempts = tasks[id].attempts
              \/ evidence = Anchored
         /\ \/ checkpoint' = NoCheckpoint
            \/ /\ checkpoint # NoCheckpoint
               /\ checkpoint'.attempts = checkpoint.attempts
            \/ evidence = Anchored
<1>1. TypeInv /\ AnchorInv /\ InputInv
  BY DEF PulseInv, AnchoredInv
<1>2. ASSUME NEW id \in DOMAIN tasks'
      PROVE  \/ tasks'[id].input = Foreign
             \/ /\ id \in DOMAIN tasks
                /\ tasks'[id].attempts = tasks[id].attempts
             \/ evidence = Anchored
  <2>1. CASE id \in DOMAIN tasks
    <3>1. Start => evidence = Anchored
      BY <1>1 DEF Start, InputInv
    <3> QED BY <1>1, <2>1, <3>1, TasksKept
  <2>2. CASE id \notin DOMAIN tasks
    <3>1. Submit => evidence = Anchored
      BY <1>1, SubmitMove, HeldIsAnchored
    <3> QED BY <1>1, <1>2, <2>2, <3>1, TasksAdded
  <2> QED BY <2>1, <2>2
<1>3. \/ checkpoint' = NoCheckpoint
      \/ /\ checkpoint # NoCheckpoint
         /\ checkpoint'.attempts = checkpoint.attempts
      \/ evidence = Anchored
  <2>1. SubmitCheckpoint => evidence = Anchored
    BY <1>1, StandingIsAnchored DEF SubmitCheckpoint
  <2>2. StartCheckpoint => evidence = Anchored
    BY <1>1 DEF StartCheckpoint, AnchorInv
  <2>3. CASE UNCHANGED checkpoint
    BY <2>3
  <2>4. CASE Begin /\ checkpoint # NoCheckpoint
    BY <1>1, <2>4, CheckpointRecovered DEF Begin, BeginCheckpoint
  <2>5. CASE CompleteCheckpoint
    BY <1>1, <2>5, CheckpointCompleted, NamesAssumption
  <2>6. CASE CancelCheckpoint
    BY <1>1, <2>6, CheckpointCancelled, NamesAssumption
  <2> QED BY <1>1, CheckpointKept, <2>1, <2>2, <2>3, <2>4, <2>5, <2>6
<1> QED BY <1>2, <1>3

(* Nothing is observed, and no checkpoint made, after a provider call or a *)
(* wake has moved the evidence.                                            *)
THEOREM DriftCorrect == Spec => DriftEndsObservation
<1> DEFINE Unmoved ==
      /\ \A id \in DOMAIN tasks' :
           \/ tasks'[id].input = Foreign
           \/ /\ id \in DOMAIN tasks
              /\ tasks'[id].attempts = tasks[id].attempts
           \/ evidence = Anchored
      /\ \/ checkpoint' = NoCheckpoint
         \/ /\ checkpoint # NoCheckpoint
            /\ checkpoint'.attempts = checkpoint.attempts
         \/ evidence = Anchored
<1>1. PulseInv /\ [Next]_vars => [Unmoved]_vars
  BY DriftStep
<1> HIDE DEF Unmoved
<1>2. Spec => [][Unmoved]_vars
  BY <1>1, PulseAlways, PTL DEF Spec
<1> QED BY <1>2 DEF DriftEndsObservation, Unmoved

-----------------------------------------------------------------------------
(* The promise.  The observations made are those of all generations, but   *)
(* perhaps not of the last.                                                *)

LEMMA CountUpTo ==
  ASSUME NEW n \in Nat, NEW S \in SUBSET (1 .. n),
         \A g \in 1 .. n - 1 : g \in S
  PROVE  /\ Cardinality(S) \in 0 .. n /\ Cardinality(S) >= n - 1
         /\ \A g \in 1 .. n : g \in S <=> g <= Cardinality(S)
<1>1. Cardinality(S) = IF n = 0 THEN 0 ELSE IF n \in S THEN n ELSE n - 1
  BY AllButTheLast
<1>2. ASSUME NEW g \in 1 .. n PROVE g \in S <=> g <= Cardinality(S)
  <2>1. CASE g = n
    BY <1>1, <2>1
  <2>2. CASE g # n
    <3>1. g \in 1 .. n - 1
      BY <2>2
    <3> QED BY <1>1, <3>1
  <2> QED BY <2>1, <2>2
<1> QED BY <1>1, <1>2

LEMMA ObservationsCount ==
  ASSUME PulseInv, cursor # NoCursor
  PROVE  /\ Generation(cursor) \in 0 .. MaxGeneration
         /\ Observations \in 0 .. Generation(cursor)
         /\ Observations >= Generation(cursor) - 1
         /\ \A g \in 1 .. Generation(cursor) : Observed(g) <=> g <= Observations
<1>1. PICK n \in 0 .. MaxGeneration : n = Generation(cursor)
  BY PrefixesOnPath DEF PulseInv, AnchoredInv
<1>2. PICK S \in SUBSET (1 .. n) : S = {g \in 1 .. n : Observed(g)}
  OBVIOUS
<1>3. \A g \in 1 .. n - 1 : g \in S
  BY <1>1, <1>2 DEF PulseInv, HistoryInv
<1>4. /\ Cardinality(S) \in 0 .. n /\ Cardinality(S) >= n - 1
      /\ \A g \in 1 .. n : g \in S <=> g <= Cardinality(S)
  BY <1>3, CountUpTo
<1>5. Observations = Cardinality(S)
  BY <1>1, <1>2 DEF Observations
<1> QED BY <1>1, <1>2, <1>4, <1>5

LEMMA ObservationsCountNext ==
  ASSUME PulseInv', cursor' # NoCursor
  PROVE  /\ Generation(cursor') \in 0 .. MaxGeneration
         /\ Observations' \in 0 .. Generation(cursor')
         /\ Observations' >= Generation(cursor') - 1
         /\ \A g \in 1 .. Generation(cursor') : Observed(g)' <=> g <= Observations'
<1>1. PICK n \in 0 .. MaxGeneration : n = Generation(cursor')
  <2>1. cursor' \in Cursor
    BY DEF PulseInv, AnchoredInv, TypeInv, CursorInv
  <2> QED BY <2>1, CursorFields DEF Generation
<1>2. PICK S \in SUBSET (1 .. n) : S = {g \in 1 .. n : Observed(g)'}
  OBVIOUS
<1>3. \A g \in 1 .. n - 1 : g \in S
  BY <1>1, <1>2 DEF PulseInv, HistoryInv, Generation
<1>4. /\ Cardinality(S) \in 0 .. n /\ Cardinality(S) >= n - 1
      /\ \A g \in 1 .. n : g \in S <=> g <= Cardinality(S)
  BY <1>3, CountUpTo
<1>5. Observations' = Cardinality(S)
  BY <1>1, <1>2 DEF Observations, Generation
<1> QED BY <1>1, <1>2, <1>4, <1>5

(* What the next is due is a time, and the cursor has it in two ways.      *)
LEMMA DueIsTime ==
  ASSUME PulseInv, cursor # NoCursor
  PROVE  /\ Due \in Nat
         /\ Observations < Generation(cursor) =>
              Due = cursor.id[Generation(cursor)]
         /\ Observations = Generation(cursor) /\ cursor.id # <<>> =>
              Due = cursor.captured + Cadence
         /\ cursor.id = <<>> => Due = cursor.due /\ Observations = 0
<1>1. TypeInv /\ HistoryInv /\ cursor \in Cursor
  BY DEF PulseInv, AnchoredInv, TypeInv, CursorInv
<1>2. PICK n \in 0 .. MaxGeneration : n = Generation(cursor)
  BY ObservationsCount
<1>3. PICK m \in 0 .. n : m = Observations
  BY <1>2, ObservationsCount
<1>4. /\ m >= n - 1
      /\ \A g \in 1 .. n : Observed(g) <=> g <= m
  BY <1>2, <1>3, ObservationsCount
<1>5. /\ cursor.id \in Seq(Dates) /\ Len(cursor.id) = n
      /\ cursor.id = <<>> <=> n = 0
      /\ cursor.due \in Dates
  BY <1>1, <1>2, CursorFields, IdIsSequence DEF Generation
<1>6. \A g \in 1 .. n : cursor.id[g] \in Dates
  BY <1>5, ElementOfSeq
<1>7. CASE m = 0
  <2>1. n = 0 \/ n = 1
    BY <1>4, <1>7
  <2>2. Due = IF cursor.id = <<>> THEN cursor.due ELSE cursor.id[1]
    BY <1>3, <1>7 DEF Due
  <2> QED BY <1>2, <1>3, <1>5, <1>6, <1>7, <2>1, <2>2 DEF Dates
<1>8. CASE m # 0
  <2>1. m \in 1 .. n /\ Observed(m)
    BY <1>4, <1>8
  <2>2. PICK id \in DOMAIN tasks : id = Prefix(m)
    BY <2>1 DEF Observed
  <2>3. tasks[id].input # Foreign /\ tasks[id] \in Task
    BY <1>1, <2>1, <2>2 DEF Observed, TypeInv, TasksInv
  <2>4. tasks[id].input.captured \in Times
    BY <2>3 DEF Task, Facts
  <2>5. PICK time \in Times : time = tasks[id].input.captured
    BY <2>4
  <2>6. Dated(id, time)
    BY <1>1, <2>2, <2>3, <2>5 DEF HistoryInv
  <2>7. Len(id) = m
    BY <1>1, <1>2, <2>1, <2>2, PrefixesOnPath
  <2>8. Due = time + Cadence
    BY <1>3, <1>8, <2>2, <2>5 DEF Due
  <2>9. time + Cadence \in Nat
    BY DEF Times
  <2>10. m < n => m + 1 = n
    BY <1>4
  <2> QED BY <1>2, <1>3, <1>5, <2>1, <2>6, <2>7, <2>8, <2>9, <2>10 DEF Dated
<1> QED BY <1>7, <1>8

(* The observations made are on record as they were, whatever happens.     *)
LEMMA RecordKept ==
  ASSUME PulseInv, Next \/ UNCHANGED vars, cursor # NoCursor,
         NEW g \in 1 .. Generation(cursor), Observed(g)
  PROVE  /\ cursor'.id[g] = cursor.id[g]
         /\ tasks'[SubSeq(cursor'.id, 1, g)].input.captured
              = tasks[Prefix(g)].input.captured
<1>1. TypeInv
  BY DEF PulseInv, AnchoredInv
<1>2. tasks'[SubSeq(cursor'.id, 1, g)].input = tasks[Prefix(g)].input
  BY <1>1, ObservedKept
<1>3. CASE cursor'.id = cursor.id
  BY <1>2, <1>3
<1>4. CASE Admit
  <2>1. cursor \in Cursor /\ cursor'.id = Next1(cursor) /\ ValidCursor(cursor)
    BY <1>1, <1>4, AdmitMove
  <2>2. cursor.state \in {"idle", "settled"} /\ now \in Times
    BY <1>1, <1>4, AdmitMove DEF TypeInv, CheckpointInv, CheckpointTypeOK
  <2> QED BY <1>2, <2>1, <2>2, PreparingRow DEF Generation
<1> QED BY <1>1, PathMoves, <1>3, <1>4

(* Only the handler makes an observation.                                  *)
LEMMA ObservedOnlyByHandle ==
  ASSUME PulseInv, Next \/ UNCHANGED vars, cursor # NoCursor,
         cursor'.id = cursor.id, ~Handle,
         NEW g \in 1 .. Generation(cursor)
  PROVE  Observed(g)' <=> Observed(g)
<1>1. TypeInv
  BY DEF PulseInv, AnchoredInv
<1>2. ASSUME Observed(g)' PROVE Observed(g)
  <2>1. PICK id \in DOMAIN tasks' : id = Prefix(g)
    BY <1>2 DEF Observed, Prefix
  <2>2. tasks'[id].input # Foreign /\ tasks'[id].status = "succeeded"
    BY <1>2, <2>1 DEF Observed, Prefix
  <2>3. id \in DOMAIN tasks
    <3>1. ASSUME id \notin DOMAIN tasks PROVE FALSE
      <4>1. tasks'[id] = Observation(cursor)
        BY <1>1, <2>2, <3>1, TasksAdded
      <4> QED BY <2>2, <4>1 DEF Observation
    <3> QED BY <3>1
  <2>4. tasks[id].input # Foreign /\ tasks[id].status = "succeeded"
    BY <1>1, <2>2, <2>3, TasksKept
  <2> QED BY <2>1, <2>3, <2>4 DEF Observed
<1>3. ASSUME Observed(g) PROVE Observed(g)'
  BY <1>1, <1>3, ObservedKept
<1> QED BY <1>2, <1>3

(* A step that makes no observation leaves the record as it is.            *)
LEMMA LogKept ==
  ASSUME PulseInv, Next \/ UNCHANGED vars, cursor # NoCursor,
         Observations' = Observations
  PROVE  Log' = Log /\ (Observations # 0 => Due' = Due)
<1>1. cursor' # NoCursor
  BY CursorStep DEF PulseInv, AnchoredInv
<1>2. PICK m \in Nat : m = Observations
  BY ObservationsCount
<1>3. \A g \in 1 .. m : g \in 1 .. Generation(cursor) /\ Observed(g)
  BY <1>2, ObservationsCount
<1>4. \A g \in 1 .. m :
        /\ cursor'.id[g] = cursor.id[g]
        /\ tasks'[SubSeq(cursor'.id, 1, g)].input.captured
             = tasks[Prefix(g)].input.captured
  BY <1>3, RecordKept
<1>5. Log = [g \in 1 .. m |-> [due |-> cursor.id[g],
                               captured |-> tasks[Prefix(g)].input.captured]]
  BY <1>2 DEF Log
<1>6. Log' = [g \in 1 .. m |->
               [due |-> cursor'.id[g],
                captured |-> tasks'[SubSeq(cursor'.id, 1, g)].input.captured]]
  BY <1>2 DEF Log, Prefix
<1>7. Log' = Log
  BY <1>4, <1>5, <1>6, Zenon
<1>8. ASSUME m # 0 PROVE Due' = Due
  <2>1. Due = tasks[Prefix(m)].input.captured + Cadence
    BY <1>2, <1>8 DEF Due
  <2>2. Due' = tasks'[SubSeq(cursor'.id, 1, m)].input.captured + Cadence
    BY <1>1, <1>2, <1>8 DEF Due, Prefix
  <2>3. m \in 1 .. m
    BY <1>8
  <2> QED BY <1>4, <2>1, <2>2, <2>3
<1> QED BY <1>2, <1>7, <1>8

LEMMA RecordStands ==
  ASSUME PulseInv, PulseInv', Next \/ UNCHANGED vars, cursor # NoCursor,
         cursor'.id = cursor.id, cursor'.due = cursor.due, ~Handle
  PROVE  /\ Observations' = Observations /\ Log' = Log /\ Due' = Due
         /\ cursor.id # <<>> =>
              (Observed(Generation(cursor))' <=> Observed(Generation(cursor)))
<1>1. cursor' # NoCursor
  BY CursorStep DEF PulseInv, AnchoredInv
<1>2. PICK n \in Nat : n = Generation(cursor)
  BY ObservationsCount
<1>3. \A g \in 1 .. n : Observed(g)' <=> Observed(g)
  BY <1>2, ObservedOnlyByHandle
<1>4. Generation(cursor') = n
  BY <1>2 DEF Generation
<1>5. /\ Observations \in 0 .. n /\ Observations >= n - 1
      /\ \A g \in 1 .. n : Observed(g) <=> g <= Observations
  BY <1>2, ObservationsCount
<1>6. /\ Observations' \in 0 .. n /\ Observations' >= n - 1
      /\ \A g \in 1 .. n : Observed(g)' <=> g <= Observations'
  BY <1>1, <1>4, ObservationsCountNext
<1>7. PICK a \in 0 .. n, b \in 0 .. n : a = Observations /\ b = Observations'
  BY <1>5, <1>6
<1>8. a = b
  <2>1. a >= n - 1 /\ b >= n - 1
    BY <1>5, <1>6, <1>7
  <2>2. n # 0 => (n <= a <=> n <= b)
    <3>1. n # 0 => n \in 1 .. n
      OBVIOUS
    <3> QED BY <1>3, <1>5, <1>6, <1>7, <3>1
  <2> QED BY <2>1, <2>2
<1>9. Observations' = Observations /\ Log' = Log
  BY <1>7, <1>8, LogKept
<1>10. Due' = Due
  <2>1. CASE Observations = 0
    BY <1>1, <1>9, <2>1 DEF Due
  <2>2. CASE Observations # 0
    BY <1>7, <1>8, <2>2, LogKept
  <2> QED BY <2>1, <2>2
<1>11. cursor.id # <<>> =>
         (Observed(Generation(cursor))' <=> Observed(Generation(cursor)))
  <2>1. cursor.id # <<>> => n \in 1 .. n
    <3>1. cursor \in Cursor
      BY DEF PulseInv, AnchoredInv, TypeInv, CursorInv
    <3> QED BY <1>2, <3>1, CursorFields DEF Generation
  <2>2. Observed(Generation(cursor))' <=> Observed(n)'
    BY <1>2, <1>4 DEF Observed, Prefix, Generation
  <2> QED BY <1>2, <1>3, <2>1, <2>2
<1> QED BY <1>9, <1>10, <1>11

-----------------------------------------------------------------------------
(* Each step of the pulse is one of the promise, or none to the operator.  *)

LEMMA EmptyLog ==
  ASSUME PulseInv, cursor = NoCursor
  PROVE  Observations = 0 /\ Log = <<>> /\ Due = NoTime /\ Pending = NoTime
           /\ Closed = FALSE
<1>1. Observations = 0
  BY DEF Observations
<1>2. Log = <<>>
  BY <1>1 DEF Log
<1> QED BY <1>1, <1>2 DEF Due, Pending, Closed

LEMMA QuietStep ==
  ASSUME PulseInv, PulseInv', Next \/ UNCHANGED vars, UNCHANGED cursor, ~Handle
  PROVE  Promise!Clock
<1>1. now' \in Nat
  BY BoundsStep DEF PulseInv, AnchoredInv, Times
<1>2. CASE cursor = NoCursor
  <2>1. /\ Observations' = 0 /\ Log' = <<>> /\ Due' = NoTime
        /\ Pending' = NoTime /\ Closed' = FALSE
    <3>1. Observations' = 0
      BY <1>2 DEF Observations
    <3>2. Log' = <<>>
      BY <3>1 DEF Log
    <3> QED BY <1>2, <3>1, <3>2 DEF Due, Pending, Closed
  <2> QED BY <1>1, <1>2, <2>1, EmptyLog DEF Promise!Clock
<1>3. CASE cursor # NoCursor
  <2>1. /\ Log' = Log /\ Due' = Due
        /\ cursor.id # <<>> =>
             (Observed(Generation(cursor))' <=> Observed(Generation(cursor)))
    BY <1>3, RecordStands
  <2>2. cursor.state = "preparing" => cursor.id # <<>>
    BY <1>3, CursorFields, AdmittedRow
       DEF PulseInv, AnchoredInv, TypeInv, CursorInv, ValidCursor
  <2>3. Pending' = Pending
    BY <1>3, <2>1, <2>2 DEF Pending
  <2>4. Closed' = Closed
    BY DEF Closed
  <2> QED BY <1>1, <2>1, <2>3, <2>4 DEF Promise!Clock
<1> QED BY <1>2, <1>3

LEMMA SeedPromised ==
  ASSUME PulseInv, PulseInv', Seed
  PROVE  Promise!Seed
<1>1. /\ cursor = NoCursor /\ cursor' # NoCursor /\ cursor'.id = <<>>
      /\ cursor'.state = "idle" /\ cursor'.due = now + Cadence /\ now' = now
  BY SeedMove DEF PulseInv, AnchoredInv
<1>2. /\ Observations = 0 /\ Log = <<>> /\ Due = NoTime /\ Pending = NoTime
      /\ Closed = FALSE
  BY <1>1, EmptyLog
<1>3. Observations' = 0
  <2>1. Generation(cursor') = 0
    BY <1>1, EmptyId DEF Generation
  <2> QED BY <1>1, <2>1, ObservationsCountNext
<1>4. Log' = <<>>
  BY <1>3 DEF Log
<1>5. Due' = now + Cadence
  BY <1>1, <1>3 DEF Due
<1>6. Pending' = NoTime /\ Closed' = FALSE
  BY <1>1 DEF Pending, Closed
<1> QED BY <1>1, <1>2, <1>4, <1>5, <1>6 DEF Promise!Seed

LEMMA AdmitPromised ==
  ASSUME PulseInv, PulseInv', Admit, Next
  PROVE  Promise!Admit
<1>1. TypeInv /\ HistoryInv /\ RowsInv
  BY DEF PulseInv, AnchoredInv
<1>2. /\ cursor \in Cursor /\ ValidCursor(cursor) /\ cursor # NoCursor
      /\ cursor.state \in {"idle", "settled"}
      /\ now >= Deadline(cursor) /\ Deadline(cursor) \in Dates
      /\ cursor' # NoCursor /\ cursor'.state = "preparing"
      /\ cursor'.id = Next1(cursor) /\ cursor'.captured = now
      /\ tasks' = tasks /\ now' = now
  BY <1>1, AdmitMove
<1>3. PICK n \in 0 .. MaxGeneration : n = Generation(cursor)
  BY <1>2, ObservationsCount
<1>4. /\ Len(cursor'.id) = n + 1 /\ cursor'.id \in Ids
      /\ cursor'.id[n + 1] = Deadline(cursor)
  BY <1>1, <1>2, <1>3, PreparingRow
     DEF Generation, TypeInv, CheckpointInv, CheckpointTypeOK
<1>5. Observations = n
  <2>1. CASE cursor.state = "idle"
    <3>1. n = 0
      BY <1>2, <1>3, <2>1, CursorFields DEF Generation, ValidCursor
    <3> QED BY <1>2, <1>3, <3>1, ObservationsCount
  <2>2. CASE cursor.state = "settled"
    <3>1. n \in 1 .. n
      BY <1>2, <1>3, <2>2, AdmittedRow DEF Generation, ValidCursor
    <3>2. /\ cursor.id \in DOMAIN tasks
          /\ tasks[cursor.id].status = "succeeded"
          /\ tasks[cursor.id].input \in Facts
      BY <1>1, <1>2, <2>2, CursorFields
         DEF RowsInv, Row, SettledRow, ValidCursor
    <3>3. Observed(n)
      BY <1>1, <1>2, <1>3, <3>2, PrefixesOnPath, NamesAssumption DEF Observed
    <3>4. n <= Observations /\ Observations \in 0 .. n
      BY <1>2, <1>3, <3>1, <3>3, ObservationsCount
    <3> QED BY <3>4
  <2> QED BY <1>2, <2>1, <2>2
<1>6. Due = Deadline(cursor)
  <2>1. CASE cursor.state = "idle"
    BY <1>2, <2>1, DueIsTime DEF ValidCursor, Deadline
  <2>2. CASE cursor.state = "settled"
    <3>1. cursor.id # <<>>
      BY <1>2, <2>2, AdmittedRow, CursorFields DEF ValidCursor
    <3> QED BY <1>2, <1>3, <1>5, <2>2, <3>1, DueIsTime DEF Deadline
  <2> QED BY <1>2, <2>1, <2>2
<1>7. n < MaxGeneration
  <2>1. Len(cursor'.id) <= MaxGeneration
    BY <1>4, IdIsSequence
  <2> QED BY <1>4, <2>1
<1>8. ~Observed(n + 1)'
  <2>1. SubSeq(cursor'.id, 1, n + 1) = cursor'.id
    BY <1>4, PrefixOfId
  <2>2. ASSUME cursor'.id \in DOMAIN tasks PROVE tasks[cursor'.id].input = Foreign
    <3>1. ~OnPath(cursor'.id)
      BY <1>3, <1>4 DEF OnPath, Generation
    <3> QED BY <1>1, <2>2, <3>1 DEF HistoryInv
  <2> QED BY <1>2, <2>1, <2>2 DEF Observed, Prefix
<1>9. Observations' = n
  <2>1. Generation(cursor') = n + 1
    BY <1>4 DEF Generation
  <2>2. /\ Observations' \in 0 .. n + 1 /\ Observations' >= n
        /\ \A g \in 1 .. n + 1 : Observed(g)' <=> g <= Observations'
    BY <1>2, <2>1, ObservationsCountNext
  <2>3. n + 1 \in 1 .. n + 1 /\ ~(n + 1 <= Observations')
    BY <1>8, <2>2
  <2> QED BY <2>2, <2>3
<1>10. Log' = Log
  BY <1>2, <1>5, <1>9, LogKept
<1>11. Due' = Due
  <2>1. CASE n = 0
    <3>1. Due' = cursor'.id[1]
      <4>1. cursor'.id # <<>>
        BY <1>4, <2>1, EmptyId
      <4> QED BY <1>2, <1>9, <2>1, <4>1 DEF Due
    <3> QED BY <1>4, <1>6, <2>1, <3>1
  <2>2. CASE n # 0
    BY <1>2, <1>5, <1>9, <2>2, LogKept
  <2> QED BY <2>1, <2>2
<1>12. Len(Log) = n
  <2>1. Log = [g \in 1 .. n |-> [due |-> cursor.id[g],
                                 captured |-> tasks[Prefix(g)].input.captured]]
    BY <1>5 DEF Log
  <2> QED BY <2>1
<1>13. Pending = NoTime /\ Closed = FALSE
  BY <1>2 DEF Pending, Closed
<1>14. Pending' = now /\ Closed' = FALSE
  <2>1. ~Observed(Generation(cursor))'
    BY <1>4, <1>8 DEF Observed, Prefix, Generation
  <2> QED BY <1>2, <2>1 DEF Pending, Closed
<1>15. Due # NoTime
  BY <1>2, DueIsTime
<1> QED BY <1>2, <1>6, <1>7, <1>10, <1>11, <1>12, <1>13, <1>14, <1>15
        DEF Promise!Admit

LEMMA HandlePromised ==
  ASSUME PulseInv, PulseInv', Handle, Next
  PROVE  Promise!Observe
<1>1. TypeInv /\ HistoryInv /\ InputInv
  BY DEF PulseInv, AnchoredInv
<1>2. /\ pc = "handle" /\ cursor.id \in DOMAIN tasks
      /\ DOMAIN tasks' = DOMAIN tasks
      /\ tasks'[cursor.id].input = tasks[cursor.id].input
      /\ tasks'[cursor.id].status =
           IF Canonical(tasks[cursor.id].input) THEN "succeeded" ELSE "failed"
      /\ cursor' = cursor /\ now' = now
  BY <1>1, HandleMove
<1>3. /\ cursor # NoCursor /\ cursor.state = "preparing"
      /\ cursor \in Cursor /\ ValidCursor(cursor)
      /\ tasks[cursor.id].status = "running"
      /\ tasks[cursor.id].input = Input
  BY <1>1, <1>2 DEF TypeInv, CursorInv, PlaceInv, InputInv
<1>4. cursor.captured \in Times /\ cursor.id \in Ids /\ cursor.id # <<>>
  BY <1>3, AdmittedRow, CursorFields DEF ValidCursor
<1>5. Input # Foreign
  <2>1. Input \in Facts
    BY <1>4 DEF Input, Facts, Anchored, Evidence
  <2> QED BY <2>1, NamesAssumption
<1>6. tasks'[cursor.id].status = "succeeded"
  BY <1>1, <1>2, <1>3, <1>5 DEF HistoryInv
<1>7. PICK n \in 1 .. MaxGeneration : n = Generation(cursor)
  BY <1>3, AdmittedRow DEF Generation, ValidCursor
<1>8. Prefix(n) = cursor.id
  BY <1>1, <1>3, <1>7, PrefixesOnPath
<1>9. ~Observed(n) /\ Observed(n)'
  BY <1>2, <1>3, <1>5, <1>6, <1>8 DEF Observed, Prefix
<1>10. Observations = n - 1
  <2>1. /\ Observations \in 0 .. n /\ Observations >= n - 1
        /\ Observed(n) <=> n <= Observations
    BY <1>3, <1>7, ObservationsCount
  <2> QED BY <1>9, <2>1
<1>11. Observations' = n
  <2>1. Generation(cursor') = n
    BY <1>2, <1>7
  <2>2. /\ Observations' \in 0 .. n
        /\ Observed(n)' <=> n <= Observations'
    BY <1>2, <1>3, <2>1, ObservationsCountNext
  <2> QED BY <1>9, <2>2
<1>12. Due = cursor.id[n]
  BY <1>3, <1>7, <1>10, DueIsTime
<1>13. Due' = cursor.captured + Cadence
  <2>1. n # 0 /\ SubSeq(cursor'.id, 1, n) = cursor.id
    BY <1>2, <1>7, <1>8 DEF Prefix
  <2>2. Due' = tasks'[SubSeq(cursor'.id, 1, n)].input.captured + Cadence
    BY <1>2, <1>3, <1>11, <2>1 DEF Due, Prefix
  <2>3. Input.captured = cursor.captured
    BY DEF Input
  <2>4. tasks'[cursor.id].input = Input
    BY <1>2, <1>3
  <2>5. tasks'[cursor.id].input.captured = cursor.captured
    BY <2>3, <2>4
  <2> QED BY <2>1, <2>2, <2>5
<1>14. Pending = cursor.captured /\ Pending # NoTime
  BY <1>3, <1>4, <1>7, <1>9 DEF Pending, Times
<1>15. Pending' = NoTime
  BY <1>2, <1>3, <1>7, <1>9 DEF Pending, Observed, Prefix, Generation
<1>16. Closed' = Closed
  BY <1>2 DEF Closed
<1>17. Log' = Append(Log, [due |-> Due, captured |-> Pending])
  <2> DEFINE entry(g) == [due |-> cursor.id[g],
                          captured |-> tasks[Prefix(g)].input.captured]
             entry2(g) == [due |-> cursor.id[g],
                           captured |-> tasks'[Prefix(g)].input.captured]
  <2>1. Log = [g \in 1 .. n - 1 |-> entry(g)]
    BY <1>10 DEF Log
  <2>2. Log' = [g \in 1 .. n |-> entry2(g)]
    BY <1>2, <1>11 DEF Log, Prefix
  <2>3. ASSUME NEW g \in 1 .. n - 1 PROVE entry2(g) = entry(g)
    <3>1. g \in 1 .. Generation(cursor) /\ Observed(g)
      BY <1>3, <1>7, <1>10, ObservationsCount
    <3>2. tasks'[SubSeq(cursor'.id, 1, g)].input.captured
            = tasks[Prefix(g)].input.captured
      BY <1>3, <3>1, RecordKept
    <3> QED BY <1>2, <3>2 DEF Prefix
  <2>4. entry2(n) = [due |-> Due, captured |-> Pending]
    BY <1>2, <1>3, <1>8, <1>12, <1>14 DEF Input
  <2> HIDE DEF entry, entry2
  <2>5. Log' = [g \in 1 .. n |-> IF g = n THEN [due |-> Due, captured |-> Pending]
                                 ELSE entry(g)]
    BY <2>2, <2>3, <2>4
  <2>6. PICK item : item = [due |-> Due, captured |-> Pending]
    OBVIOUS
  <2>7. Append(Log, item) = [g \in 1 .. n |-> IF g = n THEN item ELSE entry(g)]
    BY <2>1
  <2> QED BY <2>5, <2>6, <2>7
<1> QED BY <1>2, <1>13, <1>14, <1>15, <1>16, <1>17 DEF Promise!Observe

LEMMA BlockPromised ==
  ASSUME PulseInv, PulseInv', Blocks, Next
  PROVE  Promise!Close
<1>1. /\ cursor # NoCursor /\ cursor' # NoCursor /\ cursor'.state = "blocked"
      /\ cursor'.id = cursor.id /\ cursor'.due = cursor.due /\ now' = now
      /\ tasks' = tasks /\ cursor.state = "preparing"
  BY BlockMove DEF PulseInv, AnchoredInv
<1>2. ~Handle
  <2>1. Handle => cursor' = cursor
    BY HandleMove DEF PulseInv, AnchoredInv
  <2> QED BY <1>1, <2>1
<1>3. Log' = Log /\ Due' = Due
  BY <1>1, <1>2, RecordStands
<1>4. Closed' = TRUE /\ Pending' = NoTime
  BY <1>1 DEF Closed, Pending
<1>5. Due # NoTime
  BY <1>1, DueIsTime
<1> QED BY <1>1, <1>3, <1>4, <1>5 DEF Promise!Close

LEMMA SettlePromised ==
  ASSUME PulseInv, PulseInv', Settle, Next
  PROVE  Promise!Close \/ Promise!Clock
<1>1. /\ cursor \in Cursor /\ cursor # NoCursor /\ cursor' # NoCursor
      /\ cursor'.state \in {"quiescent", "settled"}
      /\ cursor'.id = cursor.id /\ cursor'.due = cursor.due /\ now' = now
      /\ tasks' = tasks /\ cursor.state = "preparing"
      /\ cursor.id \in DOMAIN tasks /\ CanonicalSuccess(tasks[cursor.id])
  BY SettleMove DEF PulseInv, AnchoredInv
<1>2. ~Handle
  <2>1. Handle => cursor' = cursor
    BY HandleMove DEF PulseInv, AnchoredInv
  <2> QED BY <1>1, <2>1
<1>3. Log' = Log /\ Due' = Due
  BY <1>1, <1>2, RecordStands
<1>4. Observed(Generation(cursor))
  <2>1. Prefix(Generation(cursor)) = cursor.id
    BY <1>1, PrefixesOnPath DEF PulseInv, AnchoredInv
  <2> QED BY <1>1, <2>1 DEF Observed, CanonicalSuccess, Canonical
<1>5. Pending = NoTime /\ Pending' = NoTime
  BY <1>1, <1>4 DEF Pending
<1>6. Due # NoTime /\ now' \in Nat
  BY <1>1, DueIsTime, BoundsStep DEF PulseInv, AnchoredInv, Times
<1>7. CASE cursor'.state = "quiescent"
  <2>1. Closed' = TRUE
    BY <1>1, <1>7 DEF Closed
  <2> QED BY <1>1, <1>3, <1>5, <1>6, <2>1 DEF Promise!Close
<1>8. CASE cursor'.state = "settled"
  <2>1. Closed' = FALSE /\ Closed = FALSE
    BY <1>1, <1>8 DEF Closed
  <2> QED BY <1>3, <1>5, <1>6, <2>1 DEF Promise!Clock
<1> QED BY <1>1, <1>7, <1>8

(* The pulse implements ObservationPromise: admitted when due and dated by *)
(* the clock, the next a cadence later, never too many, none once closed.  *)
THEOREM PromiseKept == Spec => ImplementsPromise
<1>1. Init => Promise!Init
  <2> SUFFICES ASSUME Init PROVE Promise!Init
    OBVIOUS
  <2>1. cursor = NoCursor /\ now = 0
    BY DEF Init, CheckpointInit
  <2>2. Observations = 0
    BY <2>1 DEF Observations
  <2>3. Log = <<>>
    BY <2>2 DEF Log
  <2>4. Due = NoTime /\ Pending = NoTime /\ Closed = FALSE
    BY <2>1 DEF Due, Pending, Closed
  <2> QED BY <2>1, <2>3, <2>4 DEF Promise!Init
<1>2. PulseInv /\ PulseInv' /\ [Next]_vars => [Promise!Next]_Promise!vars
  <2> SUFFICES ASSUME PulseInv, PulseInv', Next \/ UNCHANGED vars
               PROVE  Promise!Next \/ UNCHANGED Promise!vars
    OBVIOUS
  <2>1. CASE UNCHANGED vars
    <3>1. UNCHANGED cursor /\ ~Handle
      BY <2>1, HandleMove DEF vars, PulseInv, AnchoredInv
    <3> QED BY <2>1, <3>1, QuietStep DEF Promise!Next
  <2>2. CASE Next /\ UNCHANGED cursor /\ ~Handle
    BY <2>2, QuietStep DEF Promise!Next
  <2>3. CASE Next /\ Handle
    BY <2>3, HandlePromised DEF Promise!Next
  <2>4. CASE Next /\ Seed
    BY <2>4, SeedPromised DEF Promise!Next
  <2>5. CASE Next /\ Admit
    BY <2>5, AdmitPromised DEF Promise!Next
  <2>6. CASE Next /\ Settle
    BY <2>6, SettlePromised DEF Promise!Next
  <2>7. CASE Next /\ Blocks
    BY <2>7, BlockPromised DEF Promise!Next
  <2> QED BY CursorMoves, <2>1, <2>2, <2>3, <2>4, <2>5, <2>6, <2>7 DEF Blocks
<1> QED BY <1>1, <1>2, PulseAlways, PTL DEF Spec, ImplementsPromise, Promise!Spec
=============================================================================
