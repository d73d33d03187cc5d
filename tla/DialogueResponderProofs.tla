----------------------- MODULE DialogueResponderProofs -----------------------
(***************************************************************************)
(* Theorems about the dialogue responder, for every set of leases,         *)
(* requests and observers and every bound: types, the thread, the promise, *)
(* and what the records of its stores say of each other.                   *)
(***************************************************************************)
EXTENDS DialogueResponderProperties, TLAPS, SequenceTheorems, FiniteSetTheorems

USE DEF Goto

LEMMA InitType == Init => TypeOK
  <1> SUFFICES ASSUME Init PROVE TypeOK
    OBVIOUS
  <1> USE IdentityAssumption, BoundsAssumption, FaultsAssumption DEF Init
  <1>1. StoresTypeOK
    BY DEF StoresTypeOK, TaskIds, TaskStatus, Lease, LeaseState, Intent,
       IntentState, Disposition, DispositionKind, StructuralKind,
       DispositionState, Event
  <1>2. QED
    BY <1>1 DEF TypeOK, WorkerStep, IntentStep, ObserverStep, DispositionKind, Seqs

-----------------------------------------------------------------------------
(* Types.                                                                  *)

(* A submission adds at most the one Task, queued behind the head.         *)
LEMMA SubmittedType ==
  ASSUME StoresTypeOK, NEW t \in TaskIds, Submittable(t)
  PROVE  /\ PreferredHead \in TaskIds
         /\ Submitted(t, PreferredHead)
              \in [TaskIds -> [status : TaskStatus,
                               pred : TaskIds \cup {NoTask}]]
  <1>1. PreferredHead \in TaskIds
    BY DEF StoresTypeOK, Submittable, PreferredHead
  <1>2. QED
    BY <1>1 DEF StoresTypeOK, Submitted, TaskStatus

LEMMA WorkerType ==
  ASSUME TypeOK,
         \/ BindThread \/ Materialize \/ ReplaceHead
         \/ \E r \in Requests : SubmitRequest(r)
         \/ \E t \in TaskIds : RunTask(t)
         \/ \E n \in OperatorSeqs : OperatorAck(n)
  PROVE  TypeOK'
  <1> USE IdentityAssumption, BoundsAssumption, FaultsAssumption,
          OperatorAssumption
      DEF TypeOK, StoresTypeOK, WorkerStep, IntentStep, TaskStatus, Event,
          threadVars, feedVars, responderVars, workerVars, observerVars
  <1>1. CASE BindThread
    BY <1>1 DEF BindThread, TaskIds
  <1>2. CASE Materialize
    BY <1>2 DEF Materialize, Materialized
  <1>3. CASE ReplaceHead
    BY <1>3 DEF ReplaceHead, Finish, TaskIds
  <1>4. ASSUME NEW r \in Requests, SubmitRequest(r) PROVE TypeOK'
    BY <1>4, SubmittedType DEF SubmitRequest, TaskIds
  <1>5. ASSUME NEW t \in TaskIds, RunTask(t) PROVE TypeOK'
    BY <1>5 DEF RunTask
  <1>6. ASSUME NEW n \in OperatorSeqs, OperatorAck(n) PROVE TypeOK'
    BY <1>6 DEF OperatorAck, Seqs
  <1>7. QED
    BY <1>1, <1>2, <1>3, <1>4, <1>5, <1>6

(* Closing a lease leaves a lease of every other id alone.                 *)
LEMMA ClosedType ==
  ASSUME leases \in [Leases -> Lease], NEW l \in Leases,
         NEW terminal \in LeaseState
  PROVE  Closed(l, terminal) \in [Leases -> Lease]
  BY DEF Closed, Lease

LEMMA LeaseType ==
  ASSUME TypeOK, NEW l \in Leases,
         \/ CreateLease(l) \/ CreateLeaseAfterExpiry \/ RevokeLease(l)
         \/ PrepareOnExpiredLease(l) \/ LeaseDeadline(l) \/ IntervalElapses(l)
  PROVE  TypeOK'
  <1> USE IdentityAssumption, BoundsAssumption
      DEF TypeOK, StoresTypeOK, WorkerStep, IntentStep, Lease, LeaseState,
          FreshLease, Finish,
          threadVars, feedVars, responderVars, workerVars, observerVars
  <1>1. CASE CreateLease(l)
    <2> FreshLease \in Lease
      OBVIOUS
    <2>1. leases' \in [Leases -> Lease]
      <3>1. ASSUME NEW old \in Leases, leases' = Closed(old, "expired")
            PROVE  leases' \in [Leases -> Lease]
        BY <3>1, ClosedType
      <3>2. QED
        BY <1>1, <3>1 DEF CreateLease
    <2>2. QED
      BY <1>1, <2>1 DEF CreateLease
  <1>2. CASE CreateLeaseAfterExpiry
    BY <1>2 DEF CreateLeaseAfterExpiry
  <1>3. CASE RevokeLease(l)
    BY <1>3, ClosedType DEF RevokeLease
  <1>4. CASE PrepareOnExpiredLease(l)
    BY <1>4, ClosedType DEF PrepareOnExpiredLease
  <1>5. CASE LeaseDeadline(l)
    <2>1. leases' \in [Leases -> Lease]
      BY <1>5 DEF LeaseDeadline
    <2>2. ASSUME NEW i \in Intents
          PROVE  [intents[i] EXCEPT !.overdue = TRUE] \in Intent
      BY ZenonT(60) DEF Intent
    <2>3. intents' \in [Intents -> Intent]
      BY <1>5, <2>2 DEF LeaseDeadline
    <2>4. QED
      BY <1>5, <2>1, <2>3 DEF LeaseDeadline
  <1>6. CASE IntervalElapses(l)
    BY ZenonT(60), <1>6 DEF IntervalElapses
  <1>7. QED
    BY <1>1, <1>2, <1>3, <1>4, <1>5, <1>6

(* Every path that ends an intent or a disposition stays within the types. *)
LEMMA TerminalizedType ==
  ASSUME StoresTypeOK, NEW i \in Intents, NEW terminal \in TerminalFailure
  PROVE  Terminalized(i, terminal) \in [Intents -> Intent]
  BY DEF StoresTypeOK, TerminalFailure, Terminalized, Intent, IntentState

LEMMA InReviewType ==
  ASSUME StoresTypeOK, NEW n \in Seqs
  PROVE  InReview(n) \in [Seqs -> Disposition]
  BY DEF StoresTypeOK, InReview, Disposition, DispositionState

LEMMA PrepareType ==
  ASSUME TypeOK,
         \/ \E i \in Intents : PrepareIntent(i)
         \/ PrepareDisposition \/ BindDisposition
  PROVE  TypeOK'
  <1> USE IdentityAssumption
      DEF TypeOK, StoresTypeOK, WorkerStep, IntentStep, Finish,
          threadVars, feedVars, responderVars, workerVars, observerVars
  <1>1. ASSUME NEW i \in Intents, PrepareIntent(i) PROVE TypeOK'
    BY <1>1 DEF PrepareIntent, PreparedIntent, Intent, IntentState, TaskIds
  <1>2. CASE PrepareDisposition
    <2>1. target \in Intents /\ target.seq \in Seqs /\ target.lease \in Leases
      BY <1>2 DEF PrepareDisposition, Intents
    <2>2. PreparedDisposition(target.seq, "intervention", target.lease)
            \in [Seqs -> Disposition]
      BY <2>1 DEF PreparedDisposition, Disposition, DispositionKind,
                  DispositionState
    <2>3. QED
      BY <1>2, <2>1, <2>2 DEF PrepareDisposition, TaskIds
  <1>3. CASE BindDisposition
    <2>1. target \in Intents /\ target.seq \in Seqs /\ target.lease \in Leases
      BY <1>3 DEF BindDisposition, Intents
    <2>2. dispositions' \in [Seqs -> Disposition]
      BY ZenonT(60), <1>3, <2>1 DEF BindDisposition, Disposition, DispositionState
    <2>3. QED
      BY <1>3, <2>2 DEF BindDisposition
  <1>4. QED
    BY <1>1, <1>2, <1>3

LEMMA DispatchType ==
  ASSUME TypeOK,
         \/ \E i \in Intents : Dispatch(i) \/ IntentDeadline(i)
         \/ RevalidateIneligible \/ RevalidateStale
         \/ SubmitTurn \/ ResubmitTurn \/ CommitSubmission
         \/ AckTrigger \/ CompleteIntent \/ CompleteDisposition
         \/ TerminalizeDisposition
  PROVE  TypeOK'
  <1> USE IdentityAssumption, TerminalizedType, InReviewType
      DEF TypeOK, WorkerStep, IntentStep, Terminalize,
          threadVars, feedVars, responderVars, workerVars, observerVars
  <1> DEFINE SameStores == UNCHANGED <<threadVars, feedVars>>
  <1>0. ASSUME NEW i \in Intents
        PROVE  i \in TaskIds /\ i.seq \in Seqs /\ i.lease \in Leases
    BY DEF Intents, TaskIds
  <1>1. ASSUME NEW i \in Intents, Dispatch(i) PROVE TypeOK'
    <2>1. leases' \in [Leases -> Lease]
      BY <1>0, <1>1, ClosedType
         DEF Dispatch, DispatchEnded, DispatchPrepared, DispatchSubmitted,
             StoresTypeOK, LeaseState
    <2>2. QED
      BY <1>0, <1>1, <2>1
         DEF Dispatch, DispatchEnded, DispatchPrepared, DispatchSubmitted,
             StoresTypeOK
  <1>2. ASSUME NEW i \in Intents, IntentDeadline(i) PROVE TypeOK'
    BY <1>2 DEF IntentDeadline, StoresTypeOK, Intent
  <1>3. CASE RevalidateIneligible
    BY <1>3, <1>0 DEF RevalidateIneligible, StoresTypeOK, TerminalFailure
  <1>4. CASE RevalidateStale
    BY <1>4, <1>0 DEF RevalidateStale, StoresTypeOK, TerminalFailure
  <1>5. CASE SubmitTurn
    <2>1. tasks' \in [TaskIds -> [status : TaskStatus,
                                  pred : TaskIds \cup {NoTask}]]
      BY <1>5, <1>0, SubmittedType DEF SubmitTurn, StoresTypeOK
    <2>2. QED
      BY <1>5, <1>0, <2>1 DEF SubmitTurn, StoresTypeOK, TerminalFailure
  <1>6. CASE ResubmitTurn
    BY <1>6, <1>0 DEF ResubmitTurn, StoresTypeOK, TerminalFailure
  <1>7. CASE CommitSubmission
    <2>1. CASE Committable(target)
      <3>1. target \in Intents /\ target.lease \in Leases
        BY <1>7, <1>0 DEF CommitSubmission
      <3> DEFINE lease == leases[target.lease]
                 full == lease.turns + 1 = MaxTurns
                 newIntent == [state |-> "submitted",
                               overdue |-> intents[target].overdue,
                               committed |-> TRUE]
                 newLease == [state |-> IF lease.state = "active" /\ full
                                          THEN "exhausted" ELSE lease.state,
                              turns |-> lease.turns + 1,
                              overdue |-> lease.overdue, resting |-> TRUE]
      <3>2. /\ intents' = [intents EXCEPT ![target] = newIntent]
            /\ leases' = [leases EXCEPT ![target.lease] = newLease]
        BY <1>7, <2>1 DEF CommitSubmission, Commit
      <3>3. newIntent \in Intent
        BY <3>1 DEF StoresTypeOK, Intent, IntentState
      <3>4. lease \in Lease
        BY <3>1 DEF StoresTypeOK
      <3>5. newLease \in Lease
        BY <2>1, <3>4, BoundsAssumption DEF Committable, Lease, LeaseState
      <3> HIDE DEF newIntent, newLease
      <3>6. intents' \in [Intents -> Intent] /\ leases' \in [Leases -> Lease]
        BY <3>1, <3>2, <3>3, <3>5 DEF StoresTypeOK
      <3>7. QED
        BY <1>7, <2>1, <3>1, <3>6 DEF CommitSubmission, StoresTypeOK
    <2>2. CASE ~Committable(target)
      BY <1>7, <2>2, <1>0 DEF CommitSubmission, StoresTypeOK, TerminalFailure
    <2>3. QED
      BY <2>1, <2>2
  <1>8. CASE AckTrigger
    BY <1>8, <1>0 DEF AckTrigger, StoresTypeOK, TerminalFailure, Seqs
  <1>9. CASE CompleteIntent
    BY ZenonT(60), <1>9, <1>0 DEF CompleteIntent, StoresTypeOK, Intent, IntentState
  <1>10. CASE CompleteDisposition
    BY ZenonT(60), <1>10, <1>0 DEF CompleteDisposition, Finish, StoresTypeOK, Disposition,
                       DispositionState
  <1>11. CASE TerminalizeDisposition
    BY <1>11, <1>0 DEF TerminalizeDisposition, Finish, StoresTypeOK,
                       TerminalFailure
  <1>12. QED
    BY <1>1, <1>2, <1>3, <1>4, <1>5, <1>6, <1>7, <1>8, <1>9, <1>10, <1>11

ObserversTyped ==
  /\ opc \in [Observers -> ObserverStep]
  /\ oseq \in [Observers -> Seqs]
  /\ okind \in [Observers -> DispositionKind]

(* Where an observer goes next keeps the types; it rests at sequence 1.    *)
LEMMA ObserverGotoType ==
  ASSUME TypeOK, NEW o \in Observers, NEW s \in ObserverStep, NEW n \in Seqs,
         NEW kind \in DispositionKind, ObserverGoto(o, s, n, kind)
  PROVE  ObserversTyped'
  BY DEF ObserverGoto, TypeOK, ObserversTyped

LEMMA ObserverRestsType ==
  ASSUME TypeOK, NEW o \in Observers, ObserverRests(o)
  PROVE  ObserversTyped'
  <1>1. /\ "idle" \in ObserverStep /\ 1 \in Seqs /\ "none" \in DispositionKind
    BY BoundsAssumption DEF ObserverStep, Seqs, DispositionKind
  <1>2. QED
    BY <1>1, ObserverGotoType DEF ObserverRests

LEMMA ObserverType ==
  ASSUME TypeOK, NEW o \in Observers,
         Observe(o) \/ Decline(o) \/ ObserverStops(o)
  PROVE  TypeOK'
  <1> USE DEF TypeOK, threadVars, feedVars, responderVars, workerVars
  <1> DEFINE Rest ==
        /\ ObserversTyped'
        /\ dispositions' \in [Seqs -> Disposition]
        /\ cursor' \in Nat
        /\ faults' \in 0 .. MaxFaults
        /\ UNCHANGED <<threadVars, feedVars, leases, intents, workerVars>>
  <1>a. ASSUME Rest PROVE TypeOK'
    BY <1>a DEF ObserversTyped, StoresTypeOK
  <1>b. /\ {"prepare", "revalidate", "acknowledge"} \subseteq ObserverStep
        /\ "none" \in DispositionKind
        /\ StructuralKind \cup {"explicit_decline"} \subseteq DispositionKind
        /\ Seqs \subseteq Nat
    BY DEF ObserverStep, DispositionKind, StructuralKind, Seqs
  <1>c. ObserversTyped /\ oseq[o] \in Seqs /\ okind[o] \in DispositionKind
    BY DEF ObserversTyped
  <1>1. CASE ObserverRecover(o)
    <2>1. PICK n \in Seqs :
            /\ \/ ObserverGoto(o, "acknowledge", n, "none")
               \/ UNCHANGED observerVars
            /\ cursor' = cursor \/ cursor' = n
            /\ dispositions' = dispositions \/ dispositions' = InReview(n)
      BY <1>1 DEF ObserverRecover
    <2>2. ObserversTyped'
      BY <2>1, <1>b, <1>c, ObserverGotoType DEF observerVars, ObserversTyped
    <2>3. dispositions' \in [Seqs -> Disposition]
      BY <2>1, InReviewType DEF StoresTypeOK
    <2>4. Rest
      BY <1>1, <2>1, <2>2, <2>3, <1>b DEF ObserverRecover, StoresTypeOK
    <2>5. QED
      BY <2>4, <1>a
  <1>2. ASSUME NEW n \in Seqs,
               NEW kind \in StructuralKind \cup {"explicit_decline"},
               ObserverDecide(o, n, kind)
        PROVE  TypeOK'
    <2>1. ObserversTyped'
      BY <1>2, <1>b, ObserverGotoType DEF ObserverDecide
    <2>2. Rest
      BY <1>2, <2>1 DEF ObserverDecide, StoresTypeOK
    <2>3. QED
      BY <2>2, <1>a
  <1>3. CASE ObserverPrepare(o)
    <2>1. PreparedDisposition(oseq[o], okind[o], NoLease) \in [Seqs -> Disposition]
      BY <1>c DEF PreparedDisposition, StoresTypeOK, Disposition, DispositionState
    <2>2. ObserversTyped'
      BY <1>3, <1>b, <1>c, ObserverGotoType, ObserverRestsType DEF ObserverPrepare
    <2>3. Rest
      BY <1>3, <2>1, <2>2 DEF ObserverPrepare, StoresTypeOK
    <2>4. QED
      BY <2>3, <1>a
  <1>4. CASE ObserverAck(o)
    <2>1. ObserversTyped'
      BY <1>4, <1>b, <1>c, ObserverGotoType, ObserverRestsType DEF ObserverAck
    <2>2. dispositions' \in [Seqs -> Disposition]
      BY <1>4, <1>c, InReviewType DEF ObserverAck, StoresTypeOK
    <2>3. Rest
      BY <1>4, <2>1, <2>2, <1>b, <1>c DEF ObserverAck, StoresTypeOK
    <2>4. QED
      BY <2>3, <1>a
  <1>5. CASE ObserverAcknowledge(o)
    <2>1. ObserversTyped'
      BY <1>5, ObserverRestsType DEF ObserverAcknowledge
    <2>2. dispositions' \in [Seqs -> Disposition]
      BY ZenonT(60), <1>5 DEF ObserverAcknowledge, StoresTypeOK, Disposition, DispositionState
    <2>3. Rest
      BY <1>5, <2>1, <2>2 DEF ObserverAcknowledge, StoresTypeOK
    <2>4. QED
      BY <2>3, <1>a
  <1>6. CASE ObserverStops(o)
    <2>1. ObserversTyped'
      BY <1>6, ObserverRestsType DEF ObserverStops
    <2>2. Rest
      BY <1>6, <2>1, FaultsAssumption DEF ObserverStops, Fault, StoresTypeOK
    <2>3. QED
      BY <2>2, <1>a
  <1>7. QED
    BY <1>1, <1>2, <1>3, <1>4, <1>5, <1>6, OperatorAssumption
       DEF Observe, Decline

LEMMA FaultType ==
  ASSUME TypeOK, Crash \/ WriteUnavailable
  PROVE  TypeOK'
  <1> USE FaultsAssumption
      DEF TypeOK, Fault, WorkerStep, IntentStep,
          threadVars, feedVars, responderVars, workerVars, observerVars
  <1>1. CASE Crash
    BY <1>1 DEF Crash, Finish, StoresTypeOK
  <1>2. CASE WriteUnavailable
    <2>1. target \in Intents /\ target.seq \in Seqs
      BY <1>2 DEF WriteUnavailable, Intents
    <2>2. intents' \in [Intents -> Intent]
      BY <1>2, <2>1, TerminalizedType, InReviewType
         DEF WriteUnavailable, Terminalize, TerminalFailure
    <2>3. QED
      BY <1>2, <2>1, <2>2 DEF WriteUnavailable, Terminalize, StoresTypeOK
  <1>3. QED
    BY <1>1, <1>2

LEMMA StutterType == TypeOK /\ UNCHANGED vars => TypeOK'
  BY DEF TypeOK, StoresTypeOK, vars

LEMMA NextType == TypeOK /\ [Next]_vars => TypeOK'
  <1> SUFFICES ASSUME TypeOK, [Next]_vars PROVE TypeOK'
    OBVIOUS
  <1>1. CASE BindThread \/ Materialize \/ \E r \in Requests : SubmitRequest(r)
    BY <1>1, WorkerType
  <1>2. CASE \/ \E t \in TaskIds : RunTask(t)
             \/ \E n \in OperatorSeqs : OperatorAck(n)
    BY <1>2, WorkerType
  <1>3. CASE Proceed
    <2>1. CASE ReplaceHead
      BY <2>1, WorkerType
    <2>2. CASE PrepareDisposition \/ BindDisposition
      BY <2>2, PrepareType
    <2>3. CASE CreateLeaseAfterExpiry
      <3>1. target \in Leases
        BY <2>3 DEF CreateLeaseAfterExpiry, TypeOK
      <3>2. QED
        BY <2>3, <3>1, LeaseType
    <2>4. QED
      BY <1>3, <2>1, <2>2, <2>3, DispatchType DEF Proceed
  <1>4. ASSUME NEW l \in Leases,
               \/ CreateLease(l) \/ RevokeLease(l) \/ PrepareOnExpiredLease(l)
               \/ LeaseDeadline(l) \/ IntervalElapses(l)
        PROVE  TypeOK'
    BY <1>4, LeaseType
  <1>5. ASSUME NEW i \in Intents,
               PrepareIntent(i) \/ Dispatch(i) \/ IntentDeadline(i)
        PROVE  TypeOK'
    BY <1>5, PrepareType, DispatchType
  <1>6. ASSUME NEW o \in Observers, Observe(o) \/ Decline(o) \/ ObserverStops(o)
        PROVE  TypeOK'
    BY <1>6, ObserverType
  <1>7. CASE Crash \/ WriteUnavailable
    BY <1>7, FaultType
  <1>8. QED
    BY <1>1, <1>2, <1>3, <1>4, <1>5, <1>6, <1>7, StutterType DEF Next

(* Every value the stores, the worker and the observers ever hold is one   *)
(* the code can hold there; in particular a lease never counts more turns  *)
(* than its quota, and every step of a command has the target it needs.    *)
THEOREM TypeCorrect == Spec => []TypeOK
  BY InitType, NextType, PTL DEF Spec

-----------------------------------------------------------------------------
(* The thread: journal and feed.                                           *)

JournalDurable ==
  /\ tasks[Root].status # "absent"
  /\ \A k \in 1 .. Len(journal) :
       /\ tasks[journal[k]].status # "absent"
       /\ k = 1 => journal[k] = Root

(* A head about to be replaced is the predecessor its successor was        *)
(* submitted with, and the successor has no place on the journal yet.      *)
SuccessorReady ==
  step = "replace_head" =>
    /\ journal # <<>>
    /\ tasks[target].status # "absent"
    /\ tasks[target].pred = PreferredHead
    /\ ~OnJournal(target)

ThreadInv == /\ FeedMirrorsJournal
             /\ JournalFollowsPredecessors
             /\ JournalDurable
             /\ SuccessorReady

(* A stored Task never changes its predecessor, and once succeeded it      *)
(* stays so.                                                               *)
TasksPersist ==
  \A t \in TaskIds :
    /\ tasks[t].status # "absent" =>
         tasks'[t].status # "absent" /\ tasks'[t].pred = tasks[t].pred
    /\ tasks[t].status = "succeeded" => tasks'[t].status = "succeeded"

LEMMA ThreadStable ==
  ASSUME TypeOK, ThreadInv, UNCHANGED <<journal, feed, matNext>>, TasksPersist,
         step' = "replace_head" => step = "replace_head" /\ target' = target
  PROVE  ThreadInv'
  <1>1. \A k \in 1 .. Len(journal) : journal[k] \in TaskIds
    BY DEF TypeOK, StoresTypeOK
  <1>2. FeedMirrorsJournal'
    BY <1>1 DEF ThreadInv, FeedMirrorsJournal, TasksPersist, TypeOK, StoresTypeOK
  <1>3. JournalFollowsPredecessors' /\ JournalDurable'
    <2>1. \A k \in 1 .. Len(journal) :
            /\ tasks'[journal[k]].status # "absent"
            /\ tasks'[journal[k]].pred = tasks[journal[k]].pred
      BY <1>1 DEF ThreadInv, JournalDurable, TasksPersist
    <2>2. tasks'[Root].status # "absent"
      BY DEF ThreadInv, JournalDurable, TasksPersist, TaskIds
    <2>3. Len(journal) \in Nat
      BY DEF TypeOK, StoresTypeOK
    <2>4. JournalDurable'
      BY <2>1, <2>2 DEF ThreadInv, JournalDurable
    <2>5. JournalFollowsPredecessors'
      BY <2>1, <2>3 DEF ThreadInv, JournalFollowsPredecessors
    <2>6. QED
      BY <2>4, <2>5
  <1>4. SuccessorReady'
    BY DEF ThreadInv, SuccessorReady, TasksPersist, PreferredHead, OnJournal,
           TypeOK, StoresTypeOK, TaskIds
  <1>5. QED
    BY <1>2, <1>3, <1>4 DEF ThreadInv

(* A request that may be submitted on this head is not on the journal: a   *)
(* turn already there has its own predecessor, which is not the head.      *)
LEMMA SubmittableIsNew ==
  ASSUME TypeOK, ThreadInv, NEW t \in Requests \cup Intents, Submittable(t)
  PROVE  ~OnJournal(t)
  <1> SUFFICES ASSUME NEW k \in 1 .. Len(journal), journal[k] = t PROVE FALSE
    BY DEF OnJournal
  <1>1. Len(journal) \in Nat /\ Len(journal) \in 1 .. Len(journal)
    BY DEF TypeOK, StoresTypeOK, Submittable
  <1>2. k \in 2 .. Len(journal)
    BY <1>1, IdentityAssumption DEF ThreadInv, JournalDurable
  <1>3. tasks[t].pred = journal[k - 1]
    BY <1>2 DEF ThreadInv, JournalFollowsPredecessors
  <1>4. tasks[t].pred = journal[Len(journal)]
    BY DEF Submittable, ThreadInv, JournalDurable, PreferredHead
  <1>5. k - 1 = Len(journal)
    BY <1>1, <1>2, <1>3, <1>4 DEF ThreadInv, JournalFollowsPredecessors
  <1>6. QED
    BY <1>1, <1>5

LEMMA SubmitThread ==
  ASSUME TypeOK, ThreadInv, NEW t \in Requests \cup Intents, Submittable(t),
         tasks' = Submitted(t, PreferredHead), UNCHANGED <<journal, feed, matNext>>,
         target' = t
  PROVE  ThreadInv'
  <1>1. t \in TaskIds
    BY DEF TaskIds
  <1>2. TasksPersist /\ tasks'[t].status # "absent"
        /\ tasks'[t].pred = PreferredHead
    BY <1>1 DEF TypeOK, StoresTypeOK, TasksPersist, Submitted, Submittable
  <1>3. ~OnJournal(t) /\ journal # <<>>
    BY SubmittableIsNew DEF Submittable
  <1>4. \A k \in 1 .. Len(journal) : journal[k] \in TaskIds
    BY DEF TypeOK, StoresTypeOK
  <1>5. FeedMirrorsJournal' /\ JournalFollowsPredecessors' /\ JournalDurable'
    BY <1>2, <1>4 DEF ThreadInv, FeedMirrorsJournal, JournalFollowsPredecessors,
                JournalDurable, TasksPersist, TypeOK, StoresTypeOK, TaskIds
  <1>6. SuccessorReady'
    BY <1>2, <1>3 DEF SuccessorReady, OnJournal, PreferredHead
  <1>7. QED
    BY <1>5, <1>6 DEF ThreadInv

LEMMA ReplaceHeadThread ==
  ASSUME TypeOK, ThreadInv, ReplaceHead
  PROVE  ThreadInv'
  <1> USE DEF TypeOK, StoresTypeOK
  <1>1. /\ journal' = Append(journal, target)
        /\ UNCHANGED <<tasks, feed, matNext>>
        /\ step' # "replace_head"
        /\ target \in TaskIds
    BY DEF ReplaceHead, Finish, feedVars, TaskIds
  <1>2. /\ Len(journal') = Len(journal) + 1
        /\ journal'[Len(journal) + 1] = target
        /\ \A k \in 1 .. Len(journal) : journal'[k] = journal[k]
        /\ Len(journal) \in Nat \ {0}
    BY <1>1 DEF ReplaceHead, ThreadInv, SuccessorReady
  <1>3. FeedMirrorsJournal'
    BY <1>1, <1>2 DEF ThreadInv, FeedMirrorsJournal
  <1>4. /\ tasks[target].status # "absent"
        /\ tasks[target].pred = journal[Len(journal)]
        /\ \A k \in 1 .. Len(journal) : journal[k] # target
    BY DEF ReplaceHead, ThreadInv, SuccessorReady, OnJournal, PreferredHead
  <1>5. ASSUME NEW k \in 2 .. Len(journal')
        PROVE  tasks'[journal'[k]].pred = journal'[k - 1]
    <2>1. CASE k \in 2 .. Len(journal)
      BY <1>1, <1>2, <2>1 DEF ThreadInv, JournalFollowsPredecessors
    <2>2. CASE k = Len(journal) + 1
      BY <1>1, <1>2, <1>4, <2>2
    <2>3. QED
      BY SMTT(30), <1>2, <2>1, <2>2
  <1>6. ASSUME NEW j \in 1 .. Len(journal'), NEW k \in 1 .. Len(journal'),
               journal'[j] = journal'[k]
        PROVE  j = k
    <2>1. j \in 1 .. Len(journal) \/ j = Len(journal) + 1
      BY <1>2
    <2>2. k \in 1 .. Len(journal) \/ k = Len(journal) + 1
      BY <1>2
    <2>3. CASE j \in 1 .. Len(journal) /\ k \in 1 .. Len(journal)
      BY <1>2, <1>6, <2>3 DEF ThreadInv, JournalFollowsPredecessors
    <2>4. QED
      BY <1>2, <1>4, <1>6, <2>1, <2>2, <2>3
  <1>7. JournalFollowsPredecessors'
    BY <1>5, <1>6 DEF JournalFollowsPredecessors
  <1>8. JournalDurable'
    BY <1>1, <1>2, <1>4 DEF ThreadInv, JournalDurable
  <1>9. QED
    BY <1>1, <1>3, <1>7, <1>8 DEF ThreadInv, SuccessorReady

LEMMA MaterializeThread ==
  ASSUME TypeOK, ThreadInv, Materialize
  PROVE  ThreadInv'
  <1> USE DEF TypeOK, StoresTypeOK
  <1> DEFINE event == [rev |-> matNext, task |-> journal[matNext + 1]]
  <1>1. feed' = Append(feed, event) /\ matNext' = matNext + 1
        /\ UNCHANGED <<tasks, journal, step, target>>
    BY DEF Materialize, Materialized, threadVars, workerVars
  <1>2. event \in Event
    BY DEF Materialize, Materialized, Event
  <1>3. /\ Len(feed') = Len(feed) + 1
        /\ feed'[Len(feed) + 1] = event
        /\ \A n \in 1 .. Len(feed) : feed'[n] = feed[n]
    BY <1>1, <1>2
  <1>4. FeedMirrorsJournal'
    BY <1>1, <1>3 DEF Materialize, Materialized, ThreadInv, FeedMirrorsJournal,
      CanonicalSuccess
  <1>5. QED
    BY <1>1, <1>4 DEF ThreadInv, JournalFollowsPredecessors, JournalDurable,
                      SuccessorReady, OnJournal, PreferredHead

LEMMA InitThread == Init => ThreadInv
  BY DEF Init, ThreadInv, FeedMirrorsJournal, JournalFollowsPredecessors,
         JournalDurable, SuccessorReady, TaskIds

LEMMA NextThread == TypeOK /\ ThreadInv /\ [Next]_vars => ThreadInv'
  <1> SUFFICES ASSUME TypeOK, ThreadInv, [Next]_vars PROVE ThreadInv'
    OBVIOUS
  <1> USE DEF threadVars, feedVars, responderVars, workerVars, observerVars
  <1> DEFINE Quiet == /\ UNCHANGED <<tasks, journal, feed, matNext>>
                      /\ step' = "replace_head" =>
                           step = "replace_head" /\ target' = target
  <1>1. ASSUME Quiet PROVE ThreadInv'
    BY <1>1, ThreadStable DEF TasksPersist
  <1>2. CASE BindThread
    BY <1>2, IdentityAssumption, InitType
       DEF BindThread, ThreadInv, FeedMirrorsJournal, JournalFollowsPredecessors,
           JournalDurable, SuccessorReady, TypeOK, StoresTypeOK
  <1>3. CASE Materialize
    BY <1>3, MaterializeThread
  <1>4. ASSUME NEW r \in Requests, SubmitRequest(r) PROVE ThreadInv'
    BY <1>4, SubmitThread DEF SubmitRequest
  <1>5. ASSUME NEW t \in TaskIds, RunTask(t) PROVE ThreadInv'
    <2>1. TasksPersist
      BY <1>5 DEF RunTask, TasksPersist, TypeOK, StoresTypeOK
    <2>2. QED
      BY <1>5, <2>1, ThreadStable DEF RunTask
  <1>6. CASE ReplaceHead
    BY <1>6, ReplaceHeadThread
  <1>7. CASE SubmitTurn
    <2>1. CASE Submittable(target)
      BY <1>7, <2>1, SubmitThread DEF SubmitTurn, TypeOK, IntentStep
    <2>2. CASE ~Submittable(target)
      BY <1>1, <1>7, <2>2 DEF SubmitTurn, Terminalize
    <2>3. QED
      BY <2>1, <2>2
  <1>8. CASE \E n \in OperatorSeqs : OperatorAck(n)
    BY <1>1, <1>8 DEF OperatorAck
  <1>9. ASSUME NEW l \in Leases,
               \/ CreateLease(l) \/ RevokeLease(l) \/ PrepareOnExpiredLease(l)
               \/ LeaseDeadline(l) \/ IntervalElapses(l)
        PROVE  ThreadInv'
    BY <1>1, <1>9 DEF CreateLease, RevokeLease, PrepareOnExpiredLease,
                      LeaseDeadline, IntervalElapses
  <1>10. CASE CreateLeaseAfterExpiry \/ PrepareDisposition \/ BindDisposition
    BY <1>1, <1>10 DEF CreateLeaseAfterExpiry, PrepareDisposition,
                       BindDisposition, Finish
  <1>11. ASSUME NEW i \in Intents,
                PrepareIntent(i) \/ Dispatch(i) \/ IntentDeadline(i)
         PROVE  ThreadInv'
    BY <1>1, <1>11 DEF PrepareIntent, PreparedIntent, Dispatch, DispatchEnded, DispatchPrepared,
                       DispatchSubmitted, IntentDeadline
  <1>12. CASE RevalidateIneligible \/ RevalidateStale \/ ResubmitTurn
    BY <1>1, <1>12 DEF RevalidateIneligible, RevalidateStale, ResubmitTurn,
                       Terminalize
  <1>13. CASE CommitSubmission \/ AckTrigger \/ CompleteIntent
    BY <1>1, <1>13 DEF CommitSubmission, AckTrigger, CompleteIntent, Terminalize
  <1>14. CASE CompleteDisposition \/ TerminalizeDisposition
    BY <1>1, <1>14 DEF CompleteDisposition, TerminalizeDisposition, Finish
  <1>15. ASSUME NEW o \in Observers, Observe(o) \/ Decline(o) \/ ObserverStops(o)
         PROVE  ThreadInv'
    BY <1>1, <1>15 DEF Observe, Decline, ObserverRecover, ObserverDecide,
                       ObserverPrepare, ObserverAck, ObserverAcknowledge, ObserverStops
  <1>16. CASE Crash \/ WriteUnavailable
    BY <1>1, <1>16 DEF Crash, WriteUnavailable, Finish, Terminalize
  <1>17. CASE UNCHANGED vars
    BY <1>1, <1>17 DEF vars
  <1>18. QED
    BY <1>2, <1>3, <1>4, <1>5, <1>6, <1>7, <1>8, <1>9, <1>10, <1>11, <1>12,
       <1>13, <1>14, <1>15, <1>16, <1>17 DEF Next, Proceed

(* The completion feed is the journal's succeeded prefix, and the journal  *)
(* is one chain of distinct turns, in every reachable state.               *)
THEOREM ThreadCorrect == Spec => []ThreadSound
  <1>1. TypeOK /\ ThreadInv /\ [Next]_vars => (TypeOK /\ ThreadInv)'
    BY NextType, NextThread
  <1>2. Init => TypeOK /\ ThreadInv
    BY InitType, InitThread
  <1>3. TypeOK /\ ThreadInv => ThreadSound
    BY DEF ThreadInv, ThreadSound
  <1>4. QED
    BY <1>1, <1>2, <1>3, PTL DEF Spec
-----------------------------------------------------------------------------
(* The refinement of ResponderPromise.                                     *)
(*                                                                         *)
(* A command decides on what it read in an earlier transaction while       *)
(* observers go on.  What keeps that sound is that an observer only moves  *)
(* the cursor over an event whose disposition is its own: as long as the   *)
(* event of the command's intent has no disposition, or an intervention,   *)
(* nobody else passes it (DecisionInv).                                    *)

DecisionInv ==
  /\ \A n \in Seqs : dispositions[n].kind = "none" <=> dispositions[n].state = "none"
  /\ step = "prepare_disposition" /\ dispositions[target.seq].kind = "none" =>
       IsNext(target.seq) /\ IsHuman(target.seq) /\ IsCurrent(target.seq)
  /\ step = "revalidate" => dispositions[target.seq].kind = "intervention"
  /\ step = "replace_head" /\ target \in Intents =>
       /\ dispositions[target.seq].kind = "intervention"
       /\ IsNext(target.seq) /\ IsCurrent(target.seq)

(* What an observer read stays true but for the head and the cursor: the   *)
(* event is no longer next only if it was passed for a reason.             *)
Evidence(n, kind) ==
  /\ n <= Len(feed) /\ n <= cursor + 1
  /\ \/ n = cursor + 1 \/ n \in OperatorSeqs \/ dispositions[n].kind # "none"
  /\ \/ kind = "structural_skip_system" /\ ~IsHuman(n)
     \/ kind = "structural_skip_stale" /\ IsHuman(n) /\ feed[n].rev < Revision
     \/ kind = "explicit_decline" /\ IsHuman(n)

NonIntervention == StructuralKind \cup {"explicit_decline"}

ObserverInv(o) ==
  /\ opc[o] = "prepare" => /\ okind[o] \in NonIntervention
                           /\ Evidence(oseq[o], okind[o])
  /\ opc[o] = "revalidate" => /\ okind[o] \in NonIntervention
                              /\ dispositions[oseq[o]].kind = okind[o]

ObserversInv == \A o \in Observers : ObserverInv(o)

(* A step that leaves the thread alone and may move the cursor only over   *)
(* an event the worker's command is not about keeps what it relies on.     *)
LEMMA DecisionStable ==
  ASSUME TypeOK, DecisionInv, UNCHANGED <<journal, feed, step, target>>,
         \A n \in Seqs :
           /\ dispositions[n].kind # "none" =>
                dispositions'[n].kind = dispositions[n].kind
           /\ dispositions'[n].kind = "none" <=> dispositions'[n].state = "none",
         \/ cursor' = cursor
         \/ \E n \in Seqs : /\ cursor' = n /\ IsNext(n)
                            /\ dispositions[n].kind \notin {"none", "intervention"}
  PROVE  DecisionInv'
  <1> USE DEF TypeOK, StoresTypeOK
  <1>1. ASSUME step \in {"prepare_disposition", "revalidate"} \/ 
               (step = "replace_head" /\ target \in Intents)
        PROVE  target \in Intents /\ target.seq \in Seqs
    BY <1>1 DEF IntentStep, Intents
  <1>2. CASE cursor' = cursor
    BY <1>1, <1>2 DEF DecisionInv, IsNext, IsHuman, IsCurrent, Revision,
                      PreferredHead
  <1>3. ASSUME NEW n \in Seqs, cursor' = n, IsNext(n),
               dispositions[n].kind \notin {"none", "intervention"}
        PROVE  DecisionInv'
    BY <1>1, <1>3 DEF DecisionInv, IsNext
  <1>4. QED
    BY <1>2, <1>3

(* What a disposition's record may lose or gain in one step.               *)
KindsKept ==
  \A n \in Seqs :
    /\ dispositions[n].kind # "none" =>
         dispositions'[n].kind = dispositions[n].kind
    /\ dispositions'[n].kind = "none" <=> dispositions'[n].state = "none"

KindsSame == \A n \in Seqs : dispositions'[n].kind = dispositions[n].kind

LEMMA InReviewKeepsKind ==
  ASSUME TypeOK, DecisionInv, NEW n \in Seqs,
         dispositions' = dispositions \/ dispositions' = InReview(n)
  PROVE  KindsKept /\ KindsSame
  <1> USE DEF TypeOK, StoresTypeOK, DecisionInv, KindsKept, KindsSame
  <1>1. CASE dispositions' = dispositions
    BY <1>1
  <1>2. CASE /\ dispositions[n].state \in {"prepared", "intervention_bound"}
             /\ dispositions' = [dispositions EXCEPT ![n].state = "manual_review"]
    <2> SUFFICES ASSUME NEW m \in Seqs
                 PROVE  /\ dispositions'[m].kind = dispositions[m].kind
                        /\ dispositions'[m].kind = "none"
                             <=> dispositions'[m].state = "none"
      OBVIOUS
    <2>1. dispositions[m] \in Disposition
      OBVIOUS
    <2>2. CASE m = n
      BY <1>2, <2>1, <2>2 DEF Disposition
    <2>3. CASE m # n
      BY <1>2, <2>3
    <2>4. QED
      BY <2>2, <2>3
  <1>3. QED
    BY <1>1, <1>2 DEF InReview

LEMMA WorkerKeepsKinds ==
  ASSUME TypeOK, DecisionInv,
         PrepareDisposition \/ BindDisposition \/ CompleteDisposition
           \/ TerminalizeDisposition
  PROVE  KindsKept /\ (PrepareDisposition \/ KindsSame)
  <1> USE DEF TypeOK, StoresTypeOK, DecisionInv, KindsKept, KindsSame
  <1>1. target \in Intents /\ target.seq \in Seqs
    BY DEF PrepareDisposition, BindDisposition, CompleteDisposition,
           TerminalizeDisposition, IntentStep, Intents
  <1>2. CASE PrepareDisposition
    BY <1>1, <1>2 DEF PrepareDisposition, PreparedDisposition
  <1>3. CASE BindDisposition
    BY <1>1, <1>3 DEF BindDisposition, Bindable
  <1>4. CASE CompleteDisposition
    BY <1>1, <1>4 DEF CompleteDisposition, CompletableDisposition
  <1>5. CASE TerminalizeDisposition
    BY <1>1, <1>5, InReviewKeepsKind DEF TerminalizeDisposition
  <1>6. QED
    BY <1>2, <1>3, <1>4, <1>5

(* The first write of an observer's decision.                              *)
Decides(o) ==
  /\ ObserverPrepare(o)
  /\ dispositions[oseq[o]].kind = "none"
  /\ dispositions' = PreparedDisposition(oseq[o], okind[o], NoLease)

(* An observer's step: kinds are kept, and the cursor moves at most over   *)
(* an event that has a decision other than an intervention; only           *)
(* ObserverPrepare makes a new decision.                                   *)
LEMMA ObserverKeeps ==
  ASSUME TypeOK, DecisionInv, ObserversInv, NEW o \in Observers,
         Observe(o) \/ Decline(o) \/ ObserverStops(o)
  PROVE  /\ UNCHANGED <<tasks, journal, feed, matNext, step, target>>
         /\ KindsKept
         /\ \/ cursor' = cursor
            \/ \E n \in Seqs : /\ cursor' = n /\ IsNext(n)
                               /\ dispositions[n].kind \notin {"none", "intervention"}
                               /\ dispositions' = dispositions
         /\ KindsSame \/ (Decides(o) /\ cursor' = cursor)
  <1> USE DEF threadVars, feedVars, workerVars, responderVars, KindsKept,
              KindsSame
  <1>0. oseq[o] \in Seqs /\ okind[o] \in DispositionKind
    BY DEF TypeOK
  <1>1. CASE ObserverRecover(o)
    <2>1. PICK n \in Seqs :
            /\ dispositions[n].state = "prepared"
            /\ dispositions[n].kind # "intervention"
            /\ \/ dispositions' = dispositions
               \/ dispositions' = InReview(n)
            /\ \/ cursor' = cursor
               \/ cursor' = n /\ IsNext(n) /\ dispositions' = dispositions
      BY <1>1 DEF ObserverRecover, Earliest, PreparedSeqs
    <2>2. KindsKept /\ KindsSame
      BY <2>1, InReviewKeepsKind
    <2>3. dispositions[n].kind # "none"
      BY <2>1 DEF DecisionInv
    <2>4. UNCHANGED <<tasks, journal, feed, matNext, step, target>>
      BY <1>1 DEF ObserverRecover
    <2>5. CASE cursor' = n /\ IsNext(n) /\ dispositions' = dispositions
      BY <2>1, <2>2, <2>3, <2>4, <2>5
    <2>6. QED
      BY <2>1, <2>2, <2>4, <2>5
  <1>2. ASSUME NEW n \in Seqs, NEW kind \in NonIntervention,
               ObserverDecide(o, n, kind)
        PROVE  UNCHANGED <<tasks, journal, feed, matNext, step, target, cursor,
                           dispositions>>
    BY <1>2 DEF ObserverDecide
  <1>3. CASE ObserverPrepare(o)
    <2>1. UNCHANGED <<tasks, journal, feed, matNext, step, target, cursor>>
      BY <1>3 DEF ObserverPrepare
    <2>2. CASE dispositions' = dispositions
      BY <2>1, <2>2 DEF DecisionInv
    <2>3. CASE Decides(o)
      <3>1. okind[o] \in NonIntervention
        BY <2>3 DEF Decides, ObserverPrepare, ObserversInv, ObserverInv
      <3>2. KindsKept
        BY <1>0, <2>3, <3>1 DEF Decides, PreparedDisposition, NonIntervention,
              StructuralKind, DecisionInv, TypeOK, StoresTypeOK
      <3>3. QED
        BY <2>1, <2>3, <3>2
    <2>4. QED
      BY <1>3, <2>2, <2>3 DEF ObserverPrepare, Decides
  <1>4. CASE ObserverAck(o)
    <2>1. KindsKept /\ KindsSame
      BY <1>0, <1>4, InReviewKeepsKind DEF ObserverAck
    <2>2. dispositions[oseq[o]].kind \notin {"none", "intervention"}
      BY <1>4 DEF ObserverAck, ObserversInv, ObserverInv, NonIntervention,
                  StructuralKind
    <2>3. QED
      BY <1>0, <1>4, <2>1, <2>2 DEF ObserverAck
  <1>5. CASE ObserverAcknowledge(o)
    BY <1>5 DEF ObserverAcknowledge, Acknowledgeable, DecisionInv, TypeOK,
                StoresTypeOK
  <1>6. CASE ObserverStops(o)
    BY <1>6 DEF ObserverStops, DecisionInv
  <1>7. QED
    BY <1>1, <1>2, <1>3, <1>4, <1>5, <1>6, OperatorAssumption
       DEF Observe, Decline, DecisionInv, NonIntervention

LEMMA InitDecision == Init => DecisionInv
  BY DEF Init, DecisionInv

LEMMA NextDecision ==
  TypeOK /\ DecisionInv /\ ObserversInv /\ [Next]_vars => DecisionInv'
  <1> SUFFICES ASSUME TypeOK, DecisionInv, ObserversInv, [Next]_vars
               PROVE  DecisionInv'
    OBVIOUS
  <1> USE DEF threadVars, feedVars, responderVars, workerVars, observerVars
  <1> DEFINE Elsewhere ==
        /\ step' \notin {"prepare_disposition", "revalidate", "replace_head"}
        /\ dispositions' = dispositions \/ KindsKept
  <1>1. ASSUME Elsewhere PROVE DecisionInv'
    BY <1>1 DEF DecisionInv, KindsKept
  <1>2. ASSUME UNCHANGED <<journal, feed, step, target, cursor, dispositions>>
        PROVE  DecisionInv'
    BY <1>2, DecisionStable DEF DecisionInv
  <1>3. CASE BindThread \/ Materialize
    BY <1>1, <1>3 DEF BindThread, Materialize, Materialized
  <1>4. ASSUME NEW r \in Requests, SubmitRequest(r) PROVE DecisionInv'
    BY <1>4, IdentityAssumption DEF SubmitRequest, DecisionInv
  <1>5. CASE \/ \E t \in TaskIds : RunTask(t)
             \/ \E n \in OperatorSeqs : OperatorAck(n)
    BY <1>1, <1>5 DEF RunTask, OperatorAck
  <1>6. ASSUME NEW l \in Leases,
               CreateLease(l) \/ RevokeLease(l) \/ PrepareOnExpiredLease(l)
        PROVE  DecisionInv'
    BY <1>1, <1>6 DEF CreateLease, RevokeLease, PrepareOnExpiredLease
  <1>7. ASSUME NEW l \in Leases, LeaseDeadline(l) \/ IntervalElapses(l)
        PROVE  DecisionInv'
    BY <1>2, <1>7 DEF LeaseDeadline, IntervalElapses
  <1>8. ASSUME NEW i \in Intents, PrepareIntent(i) PROVE DecisionInv'
    BY <1>8 DEF PrepareIntent, PreparedIntent, DecisionInv, IsNext, IsHuman, IsCurrent, Revision,
                PreferredHead
  <1>9. ASSUME NEW i \in Intents, Dispatch(i) PROVE DecisionInv'
    BY <1>9 DEF Dispatch, DispatchEnded, DispatchPrepared, DispatchSubmitted,
                BoundTo, OwnedBy, DecisionInv
  <1>10. ASSUME NEW i \in Intents, IntentDeadline(i) PROVE DecisionInv'
    BY <1>2, <1>10 DEF IntentDeadline
  <1>11. CASE \/ PrepareDisposition \/ BindDisposition \/ CompleteDisposition
              \/ TerminalizeDisposition
    BY <1>1, <1>11, WorkerKeepsKinds
       DEF PrepareDisposition, BindDisposition, CompleteDisposition,
           TerminalizeDisposition, Finish
  <1>12. CASE SubmitTurn
    BY <1>12 DEF SubmitTurn, Terminalize, DecisionInv, TriggerNext, OriginalHead,
                 IsNext, IsCurrent, Revision, PreferredHead
  <1>13. CASE ReplaceHead \/ CreateLeaseAfterExpiry
    BY <1>1, <1>13 DEF ReplaceHead, CreateLeaseAfterExpiry, Finish
  <1>14. CASE RevalidateIneligible \/ RevalidateStale \/ ResubmitTurn
    BY <1>1, <1>14 DEF RevalidateIneligible, RevalidateStale, ResubmitTurn,
                       Terminalize
  <1>15. CASE CommitSubmission \/ AckTrigger \/ CompleteIntent
    BY <1>1, <1>15 DEF CommitSubmission, AckTrigger, CompleteIntent, Terminalize
  <1>16. ASSUME NEW o \in Observers, Observe(o) \/ Decline(o) \/ ObserverStops(o)
         PROVE  DecisionInv'
    BY <1>16, ObserverKeeps, DecisionStable DEF KindsKept
  <1>17. CASE Crash \/ WriteUnavailable
    BY <1>1, <1>17 DEF Crash, WriteUnavailable, Finish, Terminalize
  <1>18. CASE UNCHANGED vars
    BY <1>2, <1>18 DEF vars
  <1>19. QED
    BY <1>3, <1>4, <1>5, <1>6, <1>7, <1>8, <1>9, <1>10, <1>11, <1>12, <1>13,
       <1>14, <1>15, <1>16, <1>17, <1>18 DEF Next, Proceed

-----------------------------------------------------------------------------
(* The observers' evidence.                                                *)

(* How far any step may take away from what an observer read.              *)
EvidenceKept ==
  /\ Len(journal) <= Len(journal')
  /\ \A n \in 1 .. Len(feed) : n <= Len(feed') /\ feed'[n] = feed[n]
  /\ \A n \in Seqs : dispositions[n].kind # "none" =>
       dispositions'[n].kind = dispositions[n].kind
  /\ \/ cursor' = cursor
     \/ \E n \in Seqs : /\ cursor' = n /\ IsNext(n)
                        /\ n \in OperatorSeqs \/ dispositions[n].kind # "none"

LEMMA ObserverStable ==
  ASSUME TypeOK, TypeOK', NEW o \in Observers, ObserverInv(o), EvidenceKept,
         opc'[o] = opc[o], oseq'[o] = oseq[o], okind'[o] = okind[o]
  PROVE  ObserverInv(o)'
  <1> DEFINE n == oseq[o]
  <1>1. n \in Seqs /\ n \in Nat \ {0} /\ cursor \in Nat
        /\ Len(feed) \in Nat /\ Len(journal) \in Nat
    BY BoundsAssumption DEF TypeOK, StoresTypeOK, Seqs
  <1>2. CASE opc[o] = "prepare"
    <2>1. okind[o] \in NonIntervention /\ Evidence(n, okind[o])
      BY <1>2 DEF ObserverInv
    <2>2. n \in 1 .. Len(feed)
      BY <1>1, <2>1 DEF Evidence
    <2>3. n <= Len(feed') /\ feed'[n] = feed[n]
      BY <2>2 DEF EvidenceKept
    <2>4. IsHuman(n)' <=> IsHuman(n)
      BY <2>3 DEF IsHuman
    <2>5. feed[n].rev < Revision => feed'[n].rev < Revision'
      <3>1. feed[n].rev \in Nat
        <4>1. feed \in Seq(Event)
          BY DEF TypeOK, StoresTypeOK
        <4>2. feed[n] \in Event
          BY <2>2, <4>1
        <4>3. QED
          BY <4>2 DEF Event
      <3>2. Len(journal') \in Nat /\ Len(journal) <= Len(journal')
        BY DEF EvidenceKept, TypeOK, StoresTypeOK
      <3>3. QED
        BY <1>1, <2>3, <3>1, <3>2 DEF Revision
    <2>6. /\ n <= cursor' + 1
          /\ \/ n = cursor' + 1 \/ n \in OperatorSeqs
             \/ dispositions'[n].kind # "none"
      BY <1>1, <2>1 DEF Evidence, EvidenceKept, IsNext
    <2>7. Evidence(n, okind[o])'
      BY <2>1, <2>3, <2>4, <2>5, <2>6 DEF Evidence
    <2>8. QED
      BY <1>2, <2>1, <2>7 DEF ObserverInv
  <1>3. CASE opc[o] = "revalidate"
    BY <1>1, <1>3 DEF ObserverInv, EvidenceKept, NonIntervention, StructuralKind
  <1>4. QED
    BY <1>2, <1>3 DEF ObserverInv

LEMMA WorkerKeepsEvidence ==
  ASSUME TypeOK, DecisionInv,
         \/ BindThread \/ Materialize \/ Proceed
         \/ \E r \in Requests : SubmitRequest(r)
         \/ \E t \in TaskIds : RunTask(t)
         \/ \E n \in OperatorSeqs : OperatorAck(n)
         \/ \E l \in Leases :
              \/ CreateLease(l) \/ RevokeLease(l) \/ PrepareOnExpiredLease(l)
              \/ LeaseDeadline(l) \/ IntervalElapses(l)
         \/ \E i \in Intents : PrepareIntent(i) \/ Dispatch(i) \/ IntentDeadline(i)
         \/ Crash \/ WriteUnavailable
         \/ UNCHANGED vars
  PROVE  EvidenceKept /\ UNCHANGED observerVars
  <1> USE DEF threadVars, feedVars, responderVars, workerVars, observerVars
  <1>0. Len(feed) \in Nat /\ Len(journal) \in Nat
    BY DEF TypeOK, StoresTypeOK
  <1>1. ASSUME UNCHANGED <<journal, feed, cursor, dispositions>>
        PROVE  EvidenceKept
    BY <1>0, <1>1 DEF EvidenceKept
  <1>2. CASE BindThread \/ ReplaceHead
    <2>1. Len(journal) <= Len(journal')
      BY <1>2 DEF BindThread, ReplaceHead, TypeOK, StoresTypeOK
    <2>2. QED
      BY <1>0, <1>2, <2>1 DEF BindThread, ReplaceHead, EvidenceKept
  <1>3. CASE Materialize
    BY <1>0, <1>3 DEF Materialize, Materialized, EvidenceKept, TypeOK, StoresTypeOK
  <1>4. CASE PrepareDisposition \/ BindDisposition \/ CompleteDisposition
               \/ TerminalizeDisposition
    <2>1. KindsKept
      BY <1>4, WorkerKeepsKinds
    <2>2. UNCHANGED <<journal, feed, cursor, observerVars>>
      BY <1>4 DEF PrepareDisposition, BindDisposition, CompleteDisposition,
                  TerminalizeDisposition
    <2>3. QED
      BY <1>0, <2>1, <2>2 DEF EvidenceKept, KindsKept
  <1>5. CASE AckTrigger
    <2>1. target \in Intents /\ target.seq \in Seqs
      BY <1>5 DEF AckTrigger, TypeOK, IntentStep, Intents
    <2>2. \/ cursor' = cursor
          \/ /\ cursor' = target.seq /\ IsNext(target.seq)
             /\ dispositions[target.seq].kind # "none"
      BY <1>5 DEF AckTrigger, TriggerNext, BoundTo, OwnedBy
    <2>3. QED
      BY <1>0, <1>5, <2>1, <2>2 DEF AckTrigger, EvidenceKept
  <1>6. ASSUME NEW n \in OperatorSeqs, OperatorAck(n)
        PROVE  EvidenceKept /\ UNCHANGED observerVars
    BY <1>0, <1>6, OperatorAssumption DEF OperatorAck, EvidenceKept
  <1>7. CASE \/ CreateLeaseAfterExpiry \/ RevalidateIneligible \/ RevalidateStale
             \/ SubmitTurn \/ ResubmitTurn \/ CommitSubmission \/ CompleteIntent
    BY <1>1, <1>7 DEF CreateLeaseAfterExpiry, RevalidateIneligible,
                      RevalidateStale, SubmitTurn, ResubmitTurn,
                      CommitSubmission, CompleteIntent
  <1>8. CASE \/ \E r \in Requests : SubmitRequest(r)
             \/ \E t \in TaskIds : RunTask(t)
    BY <1>1, <1>8 DEF SubmitRequest, RunTask
  <1>9. CASE \E l \in Leases :
               \/ CreateLease(l) \/ RevokeLease(l) \/ PrepareOnExpiredLease(l)
               \/ LeaseDeadline(l) \/ IntervalElapses(l)
    BY <1>1, <1>9 DEF CreateLease, RevokeLease, PrepareOnExpiredLease,
                      LeaseDeadline, IntervalElapses
  <1>10. CASE \E i \in Intents :
                PrepareIntent(i) \/ Dispatch(i) \/ IntentDeadline(i)
    BY <1>1, <1>10 DEF PrepareIntent, PreparedIntent, Dispatch, DispatchEnded, DispatchPrepared,
                       DispatchSubmitted, IntentDeadline
  <1>11. CASE Crash \/ WriteUnavailable \/ UNCHANGED vars
    BY <1>1, <1>11 DEF Crash, WriteUnavailable, vars
  <1>12. QED
    BY <1>2, <1>3, <1>4, <1>5, <1>6, <1>7, <1>8, <1>9, <1>10, <1>11 DEF Proceed

(* The observer that moves, and the others beside it.                      *)
LEMMA ObserverMoves ==
  ASSUME TypeOK, TypeOK', DecisionInv, ObserversInv, NEW o \in Observers,
         Observe(o) \/ Decline(o) \/ ObserverStops(o)
  PROVE  ObserversInv'
  <1>1. EvidenceKept
    <2>1. Len(feed) \in Nat /\ Len(journal) \in Nat
      BY DEF TypeOK, StoresTypeOK
    <2>2. QED
      BY <2>1, ObserverKeeps DEF EvidenceKept, KindsKept
  <1>2. \A p \in Observers \ {o} :
          opc'[p] = opc[p] /\ oseq'[p] = oseq[p] /\ okind'[p] = okind[p]
    BY DEF Observe, Decline, ObserverRecover, ObserverDecide, ObserverPrepare,
           ObserverAck, ObserverAcknowledge, ObserverStops, ObserverRests,
           ObserverGoto, observerVars, TypeOK
  <1>3. \A p \in Observers \ {o} : ObserverInv(p)'
    BY <1>1, <1>2, ObserverStable DEF ObserversInv
  <1>4. ObserverInv(o)'
    <2> USE DEF ObserverGoto, ObserverRests, TypeOK
    <2>1. CASE ObserverRecover(o)
      BY <2>1 DEF ObserverRecover, ObserverInv, observerVars
    <2>2. ASSUME NEW n \in Seqs, NEW kind \in NonIntervention,
                 ObserverDecide(o, n, kind)
          PROVE  ObserverInv(o)'
      <3>1. /\ opc'[o] = "prepare" /\ oseq'[o] = n /\ okind'[o] = kind
            /\ UNCHANGED <<journal, feed, cursor, dispositions>>
        BY <2>2 DEF ObserverDecide, responderVars, threadVars, feedVars
      <3>2. n = cursor + 1 /\ n <= Len(feed) /\ n <= cursor + 1
        BY <2>2 DEF ObserverDecide, Undecided, IsNext, StoresTypeOK
      <3>3. Evidence(n, kind)
        BY <2>2, <3>2 DEF ObserverDecide, RuleHolds, Evidence
      <3>4. Evidence(n, kind)'
        BY <3>1, <3>3 DEF Evidence, IsHuman, Revision
      <3>5. QED
        BY <3>1, <3>4 DEF ObserverInv
    <2>3. CASE ObserverPrepare(o)
      <3>1. okind[o] \in NonIntervention /\ oseq[o] \in Seqs
        BY <2>3 DEF ObserverPrepare, ObserversInv, ObserverInv
      <3>2. QED
        BY <2>3, <3>1 DEF ObserverPrepare, ObserverInv, PreparedDisposition,
                          StoresTypeOK
    <2>4. CASE ObserverAck(o) \/ ObserverAcknowledge(o) \/ ObserverStops(o)
      BY <2>4 DEF ObserverAck, ObserverAcknowledge, ObserverStops, ObserverInv
    <2>5. QED
      BY <2>1, <2>2, <2>3, <2>4, OperatorAssumption
         DEF Observe, Decline, NonIntervention
  <1>5. QED
    BY <1>3, <1>4 DEF ObserversInv

LEMMA InitObservers == Init => ObserversInv
  BY DEF Init, ObserversInv, ObserverInv

LEMMA NextObservers ==
  TypeOK /\ DecisionInv /\ ObserversInv /\ [Next]_vars => ObserversInv'
  <1> SUFFICES ASSUME TypeOK, DecisionInv, ObserversInv, [Next]_vars
               PROVE  ObserversInv'
    OBVIOUS
  <1>0. TypeOK'
    BY NextType
  <1>1. ASSUME EvidenceKept, UNCHANGED observerVars PROVE ObserversInv'
    BY <1>0, <1>1, ObserverStable DEF ObserversInv, observerVars
  <1>2. ASSUME NEW o \in Observers, Observe(o) \/ Decline(o) \/ ObserverStops(o)
        PROVE  ObserversInv'
    BY <1>0, <1>2, ObserverMoves
  <1>3. QED
    BY <1>1, <1>2, WorkerKeepsEvidence DEF Next

-----------------------------------------------------------------------------
(* The refinement.  Journal, feed and head say the same of an event.       *)

LEMMA EventIsTurn ==
  ASSUME TypeOK, ThreadInv, NEW n \in Seqs, n <= Len(feed)
  PROVE  /\ IsNext(n) <=> n = cursor + 1
         /\ IsNext(n) => Promise!Pending(n)
         /\ IsHuman(n) <=> Promise!Human(n)
         /\ IsCurrent(n) <=> Promise!Newest(n)
         /\ feed[n].rev < Revision <=> ~Promise!Newest(n)
         /\ feed[n].rev = n - 1
  <1> USE DEF TypeOK, StoresTypeOK, Seqs
  <1>1. /\ n \in 1 .. Len(feed) /\ n \in 1 .. Len(journal)
        /\ feed[n] = [rev |-> n - 1, task |-> journal[n]]
    <2>1. n \in Nat \ {0} /\ n <= Len(feed) /\ n <= Len(journal)
          /\ Len(feed) \in Nat /\ Len(journal) \in Nat
      BY BoundsAssumption DEF ThreadInv, FeedMirrorsJournal
    <2>2. n \in 1 .. Len(feed) /\ n \in 1 .. Len(journal)
      BY <2>1
    <2>3. QED
      BY <2>2 DEF ThreadInv, FeedMirrorsJournal
  <1>2. (IsNext(n) <=> n = cursor + 1) /\ (IsNext(n) => Promise!Pending(n))
    BY <1>1 DEF IsNext, Promise!Pending
  <1>3. IsHuman(n) <=> Promise!Human(n)
    BY <1>1 DEF IsHuman, Speaker, Promise!Human, Promise!Answers, Intents,
                Promise!Seqs
  <1>4. IsCurrent(n) <=> n = Len(journal)
    BY <1>1 DEF IsCurrent, Revision, PreferredHead
  <1>5. feed[n].rev < Revision <=> n # Len(journal)
    BY <1>1 DEF Revision
  <1>6. QED
    BY <1>1, <1>2, <1>3, <1>4, <1>5 DEF Promise!Newest

LEMMA InitPromise == Init => Promise!Init
  BY DEF Init, Promise!Init, Promise!Seqs, Seqs

(* A step that keeps the journal, the cursor and every kind is a stutter.  *)
LEMMA KindsStutter ==
  ASSUME UNCHANGED <<journal, cursor>>, KindsSame \/ UNCHANGED dispositions
  PROVE  UNCHANGED Promise!promiseVars
  BY DEF Promise!promiseVars, KindsSame

LEMMA DecidePromise ==
  ASSUME TypeOK, NEW n \in Seqs, NEW kind \in DispositionKind, NEW stamp,
         Promise!Pending(n) \/ (n <= cursor /\ n \in OperatorSeqs),
         dispositions[n].kind = "none",
         Promise!Decidable(n, kind),
         dispositions' = PreparedDisposition(n, kind, stamp),
         UNCHANGED <<journal, cursor>>
  PROVE  Promise!Decide(n, kind)
  <1>1. [m \in Seqs |-> dispositions'[m].kind]
          = [[m \in Seqs |-> dispositions[m].kind] EXCEPT ![n] = kind]
    <2>1. \A m \in Seqs : dispositions'[m].kind
                             = IF m = n THEN kind ELSE dispositions[m].kind
      BY DEF PreparedDisposition, TypeOK, StoresTypeOK
    <2>2. QED
      BY <2>1
  <1>2. QED
    BY <1>1 DEF Promise!Decide

LEMMA PassPromise ==
  ASSUME TypeOK, ThreadInv, NEW n \in Seqs, IsNext(n), cursor' = n,
         UNCHANGED journal, KindsSame \/ UNCHANGED dispositions,
         \/ n \in OperatorSeqs
         \/ dispositions[n].kind \notin {"none", "intervention"}
         \/ dispositions[n].kind = "intervention" /\ Promise!Answered(n)
  PROVE  Promise!Pass(n)
  <1>1. Promise!Pending(n)
    BY EventIsTurn DEF IsNext
  <1>2. QED
    BY <1>1 DEF Promise!Pass, KindsSame

LEMMA ReplaceHeadPromise ==
  ASSUME TypeOK, ThreadInv, DecisionInv, ReplaceHead
  PROVE  \/ \E r \in Requests : Promise!Post(r)
         \/ \E a \in Promise!Answers : Promise!Answer(a)
  <1> USE DEF TypeOK, StoresTypeOK
  <1>1. /\ journal' = Append(journal, target) /\ step = "replace_head"
        /\ UNCHANGED <<cursor, dispositions>>
        /\ journal # <<>> /\ ~OnJournal(target)
    BY DEF ReplaceHead, ThreadInv, SuccessorReady, responderVars
  <1>2. CASE target \in Requests
    BY <1>1, <1>2 DEF Promise!Post, OnJournal
  <1>3. CASE target \in Intents
    <2>1. target.seq \in Seqs /\ target \in Promise!Answers
      BY <1>3 DEF Intents, Promise!Answers, Promise!Seqs, Seqs
    <2>2. /\ dispositions[target.seq].kind = "intervention"
          /\ IsNext(target.seq) /\ IsCurrent(target.seq)
      BY <1>1, <1>3 DEF DecisionInv
    <2>3. Promise!Pending(target.seq) /\ Promise!Newest(target.seq)
      BY <2>1, <2>2, EventIsTurn DEF IsNext
    <2>4. Promise!Answer(target)
      BY <1>1, <2>1, <2>2, <2>3 DEF Promise!Answer
    <2>5. QED
      BY <2>1, <2>4
  <1>4. QED
    BY <1>1, <1>2, <1>3

LEMMA AckTriggerPromise ==
  ASSUME TypeOK, ThreadInv, DecisionInv, AckTrigger
  PROVE  [Promise!Next]_(Promise!promiseVars)
  <1> USE DEF TypeOK, StoresTypeOK, responderVars, threadVars, feedVars
  <1> DEFINE n == target.seq
  <1>1. target \in Intents /\ n \in Seqs
    BY DEF AckTrigger, IntentStep, Intents
  <1>2. UNCHANGED <<journal, dispositions>>
    BY DEF AckTrigger
  <1>3. CASE cursor' = cursor
    BY <1>2, <1>3, KindsStutter
  <1>4. CASE cursor' # cursor
    <2>1. /\ IsNext(n) /\ cursor' = n /\ AlreadyHead(target)
          /\ dispositions[n].kind = "intervention"
      BY <1>4 DEF AckTrigger, TriggerNext, BoundTo, OwnedBy
    <2>2. Len(journal) = n + 1 /\ journal[n + 1] = target
      BY <1>1, <2>1, EventIsTurn
         DEF IsNext, AlreadyHead, HeadAdvanced, Revision, PreferredHead, Seqs
    <2>3. Promise!Answered(n)
      BY <1>1, <2>2 DEF Promise!Answered, Promise!Newest, Promise!Answers, Intents,
                        Promise!Seqs, Seqs
    <2>4. Promise!Pass(n)
      BY <1>1, <1>2, <2>1, <2>3, PassPromise
    <2>5. QED
      BY <1>1, <2>4 DEF Promise!Next, Promise!Seqs, Seqs
  <1>5. QED
    BY <1>3, <1>4

LEMMA ObserverPromise ==
  ASSUME TypeOK, ThreadInv, DecisionInv, ObserversInv, NEW o \in Observers,
         Observe(o) \/ Decline(o) \/ ObserverStops(o)
  PROVE  [Promise!Next]_(Promise!promiseVars)
  <1>1. UNCHANGED journal
    BY ObserverKeeps
  <1>2. ASSUME Decides(o), cursor' = cursor
        PROVE  Promise!Next
    <2>0. PICK n, kind : n = oseq[o] /\ kind = okind[o]
      OBVIOUS
    <2>1. /\ n \in Seqs /\ n \in Nat /\ cursor \in Nat
          /\ kind \in NonIntervention /\ Evidence(n, kind)
          /\ dispositions[n].kind = "none"
          /\ dispositions' = PreparedDisposition(n, kind, NoLease)
      BY <1>2, <2>0 DEF Decides, ObserverPrepare, ObserversInv, ObserverInv,
                        TypeOK, StoresTypeOK, Seqs
    <2>2. n <= Len(feed)
      BY <2>1 DEF Evidence
    <2>3. n = cursor + 1 \/ (n <= cursor /\ n \in OperatorSeqs)
      BY <2>1 DEF Evidence
    <2>4. Promise!Pending(n) \/ (n <= cursor /\ n \in OperatorSeqs)
      BY <2>1, <2>2, <2>3, EventIsTurn
    <2>5. Promise!Decidable(n, kind)
      BY <2>1, <2>2, EventIsTurn DEF Evidence, Promise!Decidable
    <2>6. kind \in DispositionKind
      BY <2>1 DEF NonIntervention, DispositionKind
    <2>7. Promise!Decide(n, kind)
      BY <1>1, <1>2, <2>1, <2>4, <2>5, <2>6, DecidePromise
    <2>8. QED
      BY <2>1, <2>7 DEF Promise!Next, Promise!Seqs, Seqs, NonIntervention,
                        StructuralKind
  <1>3. CASE KindsSame /\ cursor' = cursor
    BY <1>1, <1>3, KindsStutter
  <1>4. ASSUME NEW n \in Seqs, cursor' = n, IsNext(n), KindsSame,
               dispositions[n].kind \notin {"none", "intervention"}
        PROVE  Promise!Next
    BY <1>1, <1>4, PassPromise DEF Promise!Next, Promise!Seqs, Seqs
  <1>5. QED
    BY <1>2, <1>3, <1>4, ObserverKeeps

LEMMA NextPromise ==
  ASSUME TypeOK, ThreadInv, DecisionInv, ObserversInv, [Next]_vars
  PROVE  [Promise!Next]_(Promise!promiseVars)
  <1> USE DEF threadVars, feedVars, responderVars, workerVars, observerVars
  <1>1. ASSUME UNCHANGED <<journal, cursor, dispositions>>
        PROVE  [Promise!Next]_(Promise!promiseVars)
    BY <1>1, KindsStutter
  <1>2. CASE BindThread
    BY <1>2 DEF BindThread, Promise!Next, Promise!Open
  <1>3. CASE ReplaceHead
    BY <1>3, ReplaceHeadPromise DEF Promise!Next
  <1>4. CASE PrepareDisposition
    <2>1. target \in Intents /\ target.seq \in Seqs /\ UNCHANGED <<journal, cursor>>
      BY <1>4 DEF PrepareDisposition, TypeOK, IntentStep, Intents
    <2>2. ASSUME dispositions[target.seq].kind = "none",
                 dispositions' = PreparedDisposition(target.seq, "intervention",
                                                     target.lease)
          PROVE  Promise!Next
      <3>1. IsNext(target.seq) /\ IsHuman(target.seq) /\ IsCurrent(target.seq)
        BY <1>4, <2>2 DEF DecisionInv, PrepareDisposition
      <3>2. /\ Promise!Pending(target.seq)
            /\ Promise!Decidable(target.seq, "intervention")
        BY <2>1, <3>1, EventIsTurn DEF IsNext, Promise!Decidable
      <3>3. Promise!Decide(target.seq, "intervention")
        BY <2>1, <2>2, <3>2, DecidePromise DEF DispositionKind
      <3>4. QED
        BY <2>1, <3>3 DEF Promise!Next, Promise!Seqs, Seqs
    <2>3. QED
      BY <1>1, <1>4, <2>1, <2>2 DEF PrepareDisposition
  <1>5. CASE BindDisposition \/ CompleteDisposition \/ TerminalizeDisposition
    <2>1. UNCHANGED <<journal, cursor>>
      BY <1>5 DEF BindDisposition, CompleteDisposition, TerminalizeDisposition
    <2>2. CASE PrepareDisposition
      BY <1>5, <2>2 DEF PrepareDisposition, BindDisposition, CompleteDisposition,
                        TerminalizeDisposition
    <2>3. QED
      BY <1>5, <2>1, <2>2, WorkerKeepsKinds, KindsStutter
  <1>6. CASE AckTrigger
    BY <1>6, AckTriggerPromise
  <1>7. ASSUME NEW n \in OperatorSeqs, OperatorAck(n)
        PROVE  [Promise!Next]_(Promise!promiseVars)
    <2>1. n \in Seqs
      BY OperatorAssumption
    <2>2. Promise!Pass(n)
      BY <1>7, <2>1, PassPromise DEF OperatorAck
    <2>3. QED
      BY <2>1, <2>2 DEF Promise!Next, Promise!Seqs, Seqs
  <1>8. ASSUME NEW o \in Observers, Observe(o) \/ Decline(o) \/ ObserverStops(o)
        PROVE  [Promise!Next]_(Promise!promiseVars)
    BY <1>8, ObserverPromise
  <1>9. CASE Materialize \/ Crash \/ WriteUnavailable \/ UNCHANGED vars
    BY <1>1, <1>9 DEF Materialize, Materialized, Crash, WriteUnavailable, vars
  <1>10. ASSUME NEW r \in Requests, SubmitRequest(r)
         PROVE  [Promise!Next]_(Promise!promiseVars)
    BY <1>1, <1>10 DEF SubmitRequest
  <1>11. ASSUME NEW t \in TaskIds, RunTask(t)
         PROVE  [Promise!Next]_(Promise!promiseVars)
    BY <1>1, <1>11 DEF RunTask
  <1>12. ASSUME NEW l \in Leases,
                \/ CreateLease(l) \/ RevokeLease(l) \/ PrepareOnExpiredLease(l)
                \/ LeaseDeadline(l) \/ IntervalElapses(l)
         PROVE  [Promise!Next]_(Promise!promiseVars)
    BY <1>1, <1>12 DEF CreateLease, RevokeLease, PrepareOnExpiredLease,
                       LeaseDeadline, IntervalElapses
  <1>13. ASSUME NEW i \in Intents,
                PrepareIntent(i) \/ Dispatch(i) \/ IntentDeadline(i)
         PROVE  [Promise!Next]_(Promise!promiseVars)
    BY <1>1, <1>13 DEF PrepareIntent, PreparedIntent, Dispatch, DispatchEnded, DispatchPrepared,
                       DispatchSubmitted, IntentDeadline
  <1>14. CASE \/ CreateLeaseAfterExpiry \/ RevalidateIneligible \/ RevalidateStale
              \/ SubmitTurn \/ ResubmitTurn \/ CommitSubmission \/ CompleteIntent
    BY <1>1, <1>14 DEF CreateLeaseAfterExpiry, RevalidateIneligible,
                       RevalidateStale, SubmitTurn, ResubmitTurn,
                       CommitSubmission, CompleteIntent
  <1>15. QED
    BY <1>2, <1>3, <1>4, <1>5, <1>6, <1>7, <1>8, <1>9, <1>10, <1>11, <1>12,
       <1>13, <1>14 DEF Next, Proceed

(* The stores, commands, observers and faults implement the promise: every *)
(* event of the preferred thread is decided once, by a rule that fits it,  *)
(* an intervention's turn comes directly behind its event, and the         *)
(* consumer passes events in order and none undecided.                     *)
THEOREM PromiseKept == Spec => ImplementsPromise
  <1> DEFINE Inv == TypeOK /\ ThreadInv /\ DecisionInv /\ ObserversInv
  <1>1. Init => Inv /\ Promise!Init
    BY InitType, InitThread, InitDecision, InitObservers, InitPromise
  <1>2. Inv /\ [Next]_vars => Inv'
    BY NextType, NextThread, NextDecision, NextObservers
  <1>3. Inv /\ [Next]_vars => [Promise!Next]_(Promise!promiseVars)
    BY NextPromise
  <1>4. QED
    BY <1>1, <1>2, <1>3, PTL DEF Spec, ImplementsPromise, Promise!Spec

-----------------------------------------------------------------------------
(* What the records say of each other: the cursor is justified, the stores *)
(* agree on an answer, its end and its charge, what is decided is final,   *)
(* and a lease bounds the turns on the journal.                            *)
(*                                                                         *)
(* The first part says what one step may do to one record of each store    *)
(* and to the worker's place (DispositionMoves, IntentMoves, ChargeMoves,  *)
(* ThreadMoves, StepMove); the invariants follow from these moves and no   *)
(* longer look at the forty-odd actions.                                   *)

(* The steps that act on a bound intervention.                             *)
Dispatching ==
  \/ step \in IntentStep \ {"prepare_disposition", "bind_disposition"}
  \/ step = "replace_head" /\ target \in Intents

(* Only an intervention has an owner, and it has one from its binding on.  *)
Formed(n) ==
  /\ dispositions[n].intent # NoLease =>
       /\ dispositions[n].kind = "intervention"
       /\ dispositions[n].state \in {"intervention_bound", "completed",
                                     "manual_review"}
  /\ dispositions[n].state \in {"intervention_bound", "completed"} =>
       dispositions[n].intent # NoLease

OwnerInv ==
  /\ \A n \in Seqs : Formed(n)
  /\ OneAnswerPerEvent
  /\ Dispatching => BoundTo(target)

-----------------------------------------------------------------------------
(* What one step may do to a disposition.                                  *)

Decided(n) ==
  /\ dispositions[n].kind = "none"
  /\ dispositions'[n].kind # "none"
  /\ dispositions'[n].state = "prepared" /\ dispositions'[n].intent = NoLease
  /\ \/ /\ step = "prepare_disposition" /\ n = target.seq
        /\ dispositions'[n].kind = "intervention"
     \/ \E o \in Observers :
          Decides(o) /\ n = oseq[o] /\ dispositions'[n].kind = okind[o]

Bound(n) ==
  /\ step = "bind_disposition"
  /\ dispositions[n].kind = "intervention" /\ dispositions[n].state = "prepared"
  /\ dispositions'[n].state = "intervention_bound"
  /\ dispositions'[n].intent # NoLease

Acknowledged(n) ==
  /\ dispositions[n].kind # "intervention" /\ dispositions[n].state = "prepared"
  /\ dispositions'[n].state = "acknowledged"
  /\ dispositions'[n].intent = dispositions[n].intent
  /\ \E o \in Observers : opc[o] = "acknowledge" /\ n = oseq[o]

Completed(n) ==
  /\ step = "complete_disposition" /\ step' = "idle"
  /\ dispositions[n].state = "intervention_bound"
  /\ dispositions'[n].state = "completed"
  /\ dispositions'[n].intent = dispositions[n].intent
  /\ intents[[lease |-> dispositions[n].intent, seq |-> n]].state = "completed"

Reviewed(n) ==
  /\ dispositions[n].state \in {"prepared", "intervention_bound"}
  /\ dispositions[n].state = "intervention_bound" =>
       step = "terminalize_disposition" /\ step' = "idle"
  /\ dispositions'[n].state = "manual_review"
  /\ dispositions'[n].intent = dispositions[n].intent

DispositionMove(n) ==
  \/ dispositions'[n] = dispositions[n]
  \/ Decided(n)
  \/ /\ dispositions'[n].kind = dispositions[n].kind
     /\ Bound(n) \/ Acknowledged(n) \/ Completed(n) \/ Reviewed(n)

DispositionMoves == \A n \in Seqs : DispositionMove(n)

(* One record of the store is written, the others are left alone.          *)
LEMMA OneDisposition ==
  ASSUME TypeOK, NEW n \in Seqs, DispositionMove(n),
         \A m \in Seqs \ {n} : dispositions'[m] = dispositions[m]
  PROVE  DispositionMoves
  BY DEF DispositionMoves, DispositionMove

LEMMA ReviewMoves ==
  ASSUME TypeOK, NEW n \in Seqs,
         dispositions' = dispositions \/ dispositions' = InReview(n),
         dispositions[n].state = "intervention_bound" =>
           step = "terminalize_disposition" /\ step' = "idle"
  PROVE  DispositionMoves
  <1>1. CASE dispositions' = dispositions
    BY <1>1 DEF DispositionMoves, DispositionMove
  <1>2. CASE /\ dispositions[n].state \in {"prepared", "intervention_bound"}
             /\ dispositions' = [dispositions EXCEPT ![n].state = "manual_review"]
    <2>1. /\ dispositions'[n].kind = dispositions[n].kind
          /\ dispositions'[n].intent = dispositions[n].intent
          /\ dispositions'[n].state = "manual_review"
      BY <1>2 DEF TypeOK, StoresTypeOK, Disposition
    <2>2. \A m \in Seqs \ {n} : dispositions'[m] = dispositions[m]
      BY <1>2 DEF TypeOK, StoresTypeOK
    <2>3. DispositionMove(n)
      BY <1>2, <2>1 DEF DispositionMove, Reviewed
    <2>4. QED
      BY <2>2, <2>3, OneDisposition
  <1>3. QED
    BY <1>1, <1>2 DEF InReview

LEMMA WorkerDispositions ==
  ASSUME TypeOK, OwnerInv,
         PrepareDisposition \/ BindDisposition \/ CompleteDisposition
           \/ TerminalizeDisposition
  PROVE  DispositionMoves
  <1> USE DEF TypeOK, StoresTypeOK
  <1> DEFINE n == target.seq
  <1>1. target \in Intents /\ n \in Seqs /\ target.lease \in Leases
    BY DEF PrepareDisposition, BindDisposition, CompleteDisposition,
           TerminalizeDisposition, IntentStep, Intents
  <1>2. ASSUME dispositions' = dispositions PROVE DispositionMoves
    BY <1>2 DEF DispositionMoves, DispositionMove
  <1>3. CASE PrepareDisposition
    <2>1. CASE /\ dispositions[n].kind = "none"
               /\ dispositions' = PreparedDisposition(n, "intervention", target.lease)
      <3>1. /\ dispositions'[n] = [kind |-> "intervention", state |-> "prepared",
                                   stamp |-> target.lease, intent |-> NoLease]
            /\ \A m \in Seqs \ {n} : dispositions'[m] = dispositions[m]
        BY <1>1, <2>1 DEF PreparedDisposition
      <3>2. Decided(n)
        BY <1>3, <2>1, <3>1 DEF Decided, PrepareDisposition
      <3>3. QED
        BY <1>1, <3>1, <3>2, OneDisposition DEF DispositionMove
    <2>2. QED
      BY <1>2, <1>3, <2>1 DEF PrepareDisposition
  <1>4. CASE BindDisposition
    <2>1. CASE Bindable(target)
      <3>1. /\ dispositions'[n].kind = dispositions[n].kind
            /\ dispositions'[n].state = "intervention_bound"
            /\ dispositions'[n].intent = target.lease
            /\ \A m \in Seqs \ {n} : dispositions'[m] = dispositions[m]
        BY <1>1, <1>4, <2>1 DEF BindDisposition, Disposition
      <3>2. Bound(n)
        BY <1>1, <1>4, <2>1, <3>1, IdentityAssumption
           DEF Bound, Bindable, BindDisposition
      <3>3. QED
        BY <1>1, <3>1, <3>2, OneDisposition DEF DispositionMove
    <2>2. QED
      BY <1>2, <1>4, <2>1 DEF BindDisposition
  <1>5. CASE CompleteDisposition
    <2>1. CASE CompletableDisposition(target)
      <3>1. /\ dispositions'[n].kind = dispositions[n].kind
            /\ dispositions'[n].state = "completed"
            /\ dispositions'[n].intent = dispositions[n].intent
            /\ \A m \in Seqs \ {n} : dispositions'[m] = dispositions[m]
        BY <1>1, <1>5, <2>1 DEF CompleteDisposition, Disposition
      <3>2. [lease |-> dispositions[n].intent, seq |-> n] = target
        BY <1>1, <2>1 DEF CompletableDisposition, OwnedBy, Intents
      <3>3. Completed(n)
        BY <1>5, <2>1, <3>1, <3>2
           DEF Completed, CompletableDisposition, CompleteDisposition, Finish
      <3>4. QED
        BY <1>1, <3>1, <3>3, OneDisposition DEF DispositionMove
    <2>2. QED
      BY <1>2, <1>5, <2>1 DEF CompleteDisposition
  <1>6. CASE TerminalizeDisposition
    BY <1>1, <1>6, ReviewMoves DEF TerminalizeDisposition, Finish
  <1>7. QED
    BY <1>3, <1>4, <1>5, <1>6

LEMMA ObserverDispositions ==
  ASSUME TypeOK, DecisionInv, ObserversInv, OwnerInv, NEW o \in Observers,
         Observe(o) \/ Decline(o) \/ ObserverStops(o)
  PROVE  DispositionMoves
  <1> USE DEF TypeOK, StoresTypeOK
  <1>0. oseq[o] \in Seqs /\ okind[o] \in DispositionKind
    OBVIOUS
  <1>1. ASSUME NEW n \in Seqs, dispositions[n].kind # "intervention"
        PROVE  dispositions[n].state # "intervention_bound"
    BY <1>1 DEF OwnerInv, Formed
  <1>2. ASSUME dispositions' = dispositions PROVE DispositionMoves
    BY <1>2 DEF DispositionMoves, DispositionMove
  <1>3. CASE ObserverRecover(o)
    BY <1>1, <1>3, ReviewMoves DEF ObserverRecover
  <1>4. CASE ObserverPrepare(o)
    <2>1. CASE Decides(o)
      <3>1. okind[o] \in NonIntervention
        BY <2>1 DEF Decides, ObserverPrepare, ObserversInv, ObserverInv
      <3>2. /\ dispositions'[oseq[o]] = [kind |-> okind[o], state |-> "prepared",
                                          stamp |-> NoLease, intent |-> NoLease]
            /\ \A m \in Seqs \ {oseq[o]} : dispositions'[m] = dispositions[m]
        BY <1>0, <2>1 DEF Decides, PreparedDisposition
      <3>3. Decided(oseq[o])
        BY <2>1, <3>1, <3>2 DEF Decided, Decides, NonIntervention, StructuralKind
      <3>4. QED
        BY <1>0, <3>2, <3>3, OneDisposition DEF DispositionMove
    <2>2. QED
      BY <1>2, <1>4, <2>1 DEF ObserverPrepare, Decides
  <1>5. CASE ObserverAck(o)
    <2>1. dispositions[oseq[o]].kind # "intervention"
      BY <1>5 DEF ObserverAck, ObserversInv, ObserverInv, NonIntervention,
                  StructuralKind
    <2>2. QED
      BY <1>0, <1>1, <1>5, <2>1, ReviewMoves DEF ObserverAck
  <1>6. CASE ObserverAcknowledge(o)
    <2>1. CASE Acknowledgeable(oseq[o])
      <3>1. /\ dispositions'[oseq[o]].kind = dispositions[oseq[o]].kind
            /\ dispositions'[oseq[o]].state = "acknowledged"
            /\ dispositions'[oseq[o]].intent = dispositions[oseq[o]].intent
            /\ \A m \in Seqs \ {oseq[o]} : dispositions'[m] = dispositions[m]
        BY <1>0, <1>6, <2>1 DEF ObserverAcknowledge, Disposition
      <3>2. Acknowledged(oseq[o])
        BY <1>6, <2>1, <3>1 DEF Acknowledged, Acknowledgeable, ObserverAcknowledge
      <3>3. QED
        BY <1>0, <3>1, <3>2, OneDisposition DEF DispositionMove
    <2>2. QED
      BY <1>2, <1>6, <2>1 DEF ObserverAcknowledge
  <1>7. CASE ObserverStops(o) \/ Decline(o)
             \/ \E n \in Seqs, kind \in StructuralKind : ObserverDecide(o, n, kind)
    BY <1>2, <1>7 DEF ObserverStops, Decline, ObserverDecide, responderVars
  <1>8. QED
    BY <1>3, <1>4, <1>5, <1>6, <1>7 DEF Observe

LEMMA NextDispositions ==
  ASSUME TypeOK, DecisionInv, ObserversInv, OwnerInv, [Next]_vars
  PROVE  DispositionMoves
  <1> USE DEF responderVars
  <1>1. ASSUME dispositions' = dispositions PROVE DispositionMoves
    BY <1>1 DEF DispositionMoves, DispositionMove
  <1>2. CASE \/ BindThread \/ Materialize
             \/ \E r \in Requests : SubmitRequest(r)
             \/ \E t \in TaskIds : RunTask(t)
             \/ \E n \in OperatorSeqs : OperatorAck(n)
    BY <1>1, <1>2 DEF BindThread, Materialize, SubmitRequest, RunTask, OperatorAck
  <1>3. CASE \E l \in Leases :
               \/ CreateLease(l) \/ RevokeLease(l) \/ PrepareOnExpiredLease(l)
               \/ LeaseDeadline(l) \/ IntervalElapses(l)
    BY <1>1, <1>3 DEF CreateLease, RevokeLease, PrepareOnExpiredLease,
                      LeaseDeadline, IntervalElapses
  <1>4. CASE \E i \in Intents :
               PrepareIntent(i) \/ Dispatch(i) \/ IntentDeadline(i)
    BY <1>1, <1>4 DEF PrepareIntent, Dispatch, DispatchEnded, DispatchPrepared,
                      DispatchSubmitted, IntentDeadline
  <1>5. CASE ReplaceHead \/ CreateLeaseAfterExpiry \/ RevalidateIneligible
             \/ RevalidateStale \/ SubmitTurn \/ ResubmitTurn
             \/ CommitSubmission \/ AckTrigger \/ CompleteIntent
    BY <1>1, <1>5 DEF ReplaceHead, CreateLeaseAfterExpiry, RevalidateIneligible,
         RevalidateStale, SubmitTurn, ResubmitTurn, CommitSubmission, AckTrigger,
         CompleteIntent
  <1>6. CASE Crash \/ WriteUnavailable \/ UNCHANGED vars
    BY <1>1, <1>6 DEF Crash, WriteUnavailable, vars
  <1>7. CASE PrepareDisposition \/ BindDisposition \/ CompleteDisposition
             \/ TerminalizeDisposition
    BY <1>7, WorkerDispositions
  <1>8. ASSUME NEW o \in Observers, Observe(o) \/ Decline(o) \/ ObserverStops(o)
        PROVE  DispositionMoves
    BY <1>8, ObserverDispositions
  <1>9. QED
    BY <1>2, <1>3, <1>4, <1>5, <1>6, <1>7, <1>8 DEF Next, Proceed
-----------------------------------------------------------------------------
(* What one step may do to an intent and to a lease.                       *)

IntentMove(i) ==
  \/ /\ intents'[i].state = intents[i].state
     /\ intents'[i].committed <=> intents[i].committed
  \/ /\ intents[i].state = "none" /\ intents'[i].state = "prepared"
     /\ intents'[i].committed <=> intents[i].committed
     /\ leases[i.lease].state = "active"
  \/ /\ step = "commit_submission" /\ i = target
     /\ intents[i].state = "prepared" /\ intents'[i].state = "submitted"
     /\ intents'[i].committed
  \/ /\ step = "complete_intent" /\ i = target
     /\ intents[i].state = "submitted" /\ intents'[i].state = "completed"
     /\ intents'[i].committed <=> intents[i].committed
  \/ /\ intents[i].state \in {"prepared", "submitted"}
     /\ intents'[i].state \in TerminalFailure
     /\ intents[i].state = "submitted" => intents'[i].state = "manual_review"
     /\ intents'[i].committed <=> intents[i].committed

IntentMoves == \A i \in Intents : IntentMove(i)

(* Only the commit of a submission counts a turn, and it sets the mark of  *)
(* the intent in the same transaction.                                     *)
Counts ==
  /\ step = "commit_submission" /\ target \in Intents
  /\ intents[target].state = "prepared"
  /\ intents'[target].committed
  /\ \A i \in Intents \ {target} : intents'[i].committed <=> intents[i].committed
  /\ leases[target.lease].turns < MaxTurns
  /\ leases'[target.lease].turns = leases[target.lease].turns + 1
  /\ leases'[target.lease].state =
       IF leases[target.lease].state = "active"
            /\ leases[target.lease].turns + 1 = MaxTurns
         THEN "exhausted" ELSE leases[target.lease].state
  /\ \A l \in Leases \ {target.lease} :
       /\ leases'[l].turns = leases[l].turns
       /\ leases'[l].state = leases[l].state

LeaseMove(l) ==
  \/ /\ leases'[l].turns = leases[l].turns
     /\ leases'[l].state = leases[l].state
  \/ /\ leases[l].state = "active" /\ leases'[l].state \in {"expired", "revoked"}
     /\ leases'[l].turns = leases[l].turns
  \/ /\ leases[l].state = "none" /\ leases'[l].state = "active"
     /\ leases'[l].turns = 0

Uncounted ==
  /\ \A i \in Intents : intents'[i].committed <=> intents[i].committed
  /\ \A l \in Leases : LeaseMove(l)

(* A commit counts, and no other step does.                                *)
ChargeMoves == Counts \/ Uncounted

LEMMA CloseMoves ==
  ASSUME TypeOK, NEW l \in Leases, NEW terminal \in {"expired", "revoked"},
         leases' = Closed(l, terminal)
  PROVE  \A k \in Leases : LeaseMove(k)
  <1> USE DEF TypeOK, StoresTypeOK
  <1>1. CASE leases' = leases
    BY <1>1 DEF LeaseMove
  <1>2. CASE /\ leases[l].state = "active"
             /\ leases' = [leases EXCEPT ![l].state = terminal]
    <2>1. /\ leases'[l].state = terminal /\ leases'[l].turns = leases[l].turns
          /\ \A k \in Leases \ {l} : leases'[k] = leases[k]
      BY <1>2 DEF Lease
    <2>2. QED
      BY <1>2, <2>1 DEF LeaseMove
  <1>3. QED
    BY <1>1, <1>2 DEF Closed

LEMMA LeaseSteps ==
  ASSUME TypeOK, NEW l \in Leases,
         \/ CreateLease(l) \/ RevokeLease(l) \/ PrepareOnExpiredLease(l)
         \/ LeaseDeadline(l) \/ IntervalElapses(l)
         \/ l = target /\ CreateLeaseAfterExpiry
  PROVE  (\A k \in Leases : LeaseMove(k)) /\ IntentMoves /\ Uncounted
  <1> USE DEF TypeOK, StoresTypeOK
  <1>1. ASSUME leases' = leases \/ leases' = [leases EXCEPT ![l] = FreshLease],
               leases' # leases => leases[l].state = "none"
        PROVE  \A k \in Leases : LeaseMove(k)
    BY <1>1 DEF LeaseMove, FreshLease
  <1>2. ASSUME intents' = intents PROVE IntentMoves
    BY <1>2 DEF IntentMoves, IntentMove
  <1>3. CASE CreateLease(l)
    <2>1. \A k \in Leases : LeaseMove(k)
      BY <1>1, <1>3, CloseMoves DEF CreateLease, Creatable
    <2>2. QED
      BY <1>2, <1>3, <2>1 DEF CreateLease, Uncounted
  <1>4. CASE RevokeLease(l) \/ PrepareOnExpiredLease(l)
    <2>1. \A k \in Leases : LeaseMove(k)
      BY <1>4, CloseMoves DEF RevokeLease, PrepareOnExpiredLease
    <2>2. QED
      BY <1>2, <1>4, <2>1 DEF RevokeLease, PrepareOnExpiredLease, Uncounted
  <1>5. CASE LeaseDeadline(l)
    <2>1. \A k \in Leases : leases'[k].state = leases[k].state
                              /\ leases'[k].turns = leases[k].turns
      BY <1>5 DEF LeaseDeadline, Lease
    <2>2. ASSUME NEW i \in Intents
          PROVE  /\ intents'[i].state = intents[i].state
                 /\ intents'[i].committed <=> intents[i].committed
      <3>1. intents'[i] = IF i.lease = l /\ intents[i].state = "prepared"
                            THEN [intents[i] EXCEPT !.overdue = TRUE]
                            ELSE intents[i]
        BY <1>5 DEF LeaseDeadline
      <3>2. intents[i] \in Intent
        OBVIOUS
      <3>3. QED
        BY Zenon, <3>1, <3>2 DEF Intent
    <2>3. QED
      BY <2>1, <2>2 DEF Uncounted, LeaseMove, IntentMoves, IntentMove
  <1>6. CASE IntervalElapses(l)
    <2>1. \A k \in Leases : leases'[k].state = leases[k].state
                              /\ leases'[k].turns = leases[k].turns
      BY ZenonT(60), <1>6 DEF IntervalElapses, Lease
    <2>2. QED
      BY <1>2, <1>6, <2>1 DEF IntervalElapses, Uncounted, LeaseMove
  <1>7. CASE l = target /\ CreateLeaseAfterExpiry
    <2>1. \A k \in Leases : LeaseMove(k)
      BY <1>1, <1>7 DEF CreateLeaseAfterExpiry, Creatable
    <2>2. QED
      BY <1>2, <1>7, <2>1 DEF CreateLeaseAfterExpiry, Uncounted
  <1>8. QED
    BY <1>3, <1>4, <1>5, <1>6, <1>7

(* Ending an intent leaves its mark alone.                                 *)
LEMMA TerminalMoves ==
  ASSUME TypeOK, NEW i \in Intents, NEW terminal \in TerminalFailure,
         intents' = intents \/ intents' = Terminalized(i, terminal)
  PROVE  /\ IntentMoves
         /\ \A k \in Intents : intents'[k].committed <=> intents[k].committed
  <1> USE DEF TypeOK, StoresTypeOK
  <1>1. CASE intents' = intents
    BY <1>1 DEF IntentMoves, IntentMove
  <1>2. CASE /\ \/ intents[i].state = "prepared"
                \/ intents[i].state = "submitted" /\ terminal = "manual_review"
             /\ intents' = [intents EXCEPT ![i].state = terminal]
    <2>1. /\ intents'[i].state = terminal
          /\ intents'[i].committed = intents[i].committed
          /\ \A k \in Intents \ {i} : intents'[k] = intents[k]
      BY <1>2 DEF Intent
    <2>2. QED
      BY <1>2, <2>1 DEF IntentMoves, IntentMove
  <1>3. QED
    BY <1>1, <1>2 DEF Terminalized

LEMMA CommitMoves ==
  ASSUME TypeOK, NEW i \in Intents, i = target, step = "commit_submission",
         Committable(i), Commit(i)
  PROVE  IntentMoves /\ Counts
  <1> USE DEF TypeOK, StoresTypeOK
  <1>1. i.lease \in Leases
    BY DEF Intents
  <1>2. /\ intents'[i].state = "submitted" /\ intents'[i].committed = TRUE
        /\ \A k \in Intents \ {i} : intents'[k] = intents[k]
    BY DEF Commit
  <1>3. /\ leases'[i.lease].turns = leases[i.lease].turns + 1
        /\ leases'[i.lease].state =
             IF leases[i.lease].state = "active"
                  /\ leases[i.lease].turns + 1 = MaxTurns
               THEN "exhausted" ELSE leases[i.lease].state
        /\ \A l \in Leases \ {i.lease} : leases'[l] = leases[l]
    BY <1>1 DEF Commit
  <1>4. IntentMoves
    BY <1>2 DEF IntentMoves, IntentMove, Committable
  <1>5. Counts
    BY <1>2, <1>3 DEF Counts, Committable
  <1>6. QED
    BY <1>4, <1>5

LEMMA NextCharges ==
  ASSUME TypeOK, [Next]_vars
  PROVE  IntentMoves /\ ChargeMoves
  <1> USE DEF responderVars
  <1>0. step \in IntentStep => target \in Intents
    BY DEF TypeOK
  <1>1. ASSUME leases' = leases PROVE \A l \in Leases : LeaseMove(l)
    BY <1>1 DEF LeaseMove
  <1>2. ASSUME UNCHANGED <<leases, intents>> PROVE IntentMoves /\ ChargeMoves
    BY <1>1, <1>2 DEF IntentMoves, IntentMove, ChargeMoves, Uncounted
  <1>3. ASSUME leases' = leases, NEW i \in Intents, NEW terminal \in TerminalFailure,
               intents' = intents \/ intents' = Terminalized(i, terminal)
        PROVE  IntentMoves /\ ChargeMoves
    BY <1>1, <1>3, TerminalMoves DEF ChargeMoves, Uncounted
  <1>4. CASE \/ BindThread \/ Materialize
             \/ \E r \in Requests : SubmitRequest(r)
             \/ \E t \in TaskIds : RunTask(t)
             \/ \E n \in OperatorSeqs : OperatorAck(n)
    BY <1>2, <1>4 DEF BindThread, Materialize, SubmitRequest, RunTask, OperatorAck
  <1>5. ASSUME NEW l \in Leases,
               \/ CreateLease(l) \/ RevokeLease(l) \/ PrepareOnExpiredLease(l)
               \/ LeaseDeadline(l) \/ IntervalElapses(l)
        PROVE  IntentMoves /\ ChargeMoves
    BY <1>5, LeaseSteps DEF ChargeMoves
  <1>6. CASE CreateLeaseAfterExpiry
    <2>1. target \in Leases
      BY <1>6 DEF CreateLeaseAfterExpiry, TypeOK
    <2>2. QED
      BY <1>6, <2>1, LeaseSteps DEF ChargeMoves
  <1>7. ASSUME NEW i \in Intents, PrepareIntent(i)
        PROVE  IntentMoves /\ ChargeMoves
    <2>1. /\ intents'[i].state = "prepared"
          /\ intents'[i].committed = intents[i].committed
          /\ intents[i].state \in {"none", "prepared"}
          /\ \A k \in Intents \ {i} : intents'[k] = intents[k]
      BY <1>7 DEF PrepareIntent, PreparedIntent, TypeOK, StoresTypeOK, Intent
    <2>2. IntentMoves
      BY <1>7, <2>1 DEF IntentMoves, IntentMove, PrepareIntent, Eligible
    <2>3. \A k \in Intents : intents'[k].committed <=> intents[k].committed
      BY <2>1
    <2>4. QED
      BY <1>1, <1>7, <2>2, <2>3 DEF PrepareIntent, ChargeMoves, Uncounted
  <1>8. ASSUME NEW i \in Intents, Dispatch(i)
        PROVE  IntentMoves /\ ChargeMoves
    <2>1. \A l \in Leases : LeaseMove(l)
      BY <1>1, <1>8, CloseMoves
         DEF Dispatch, DispatchEnded, DispatchPrepared, DispatchSubmitted, Intents
    <2>2. intents' = intents
      BY <1>8 DEF Dispatch, DispatchEnded, DispatchPrepared, DispatchSubmitted
    <2>3. QED
      BY <2>1, <2>2 DEF IntentMoves, IntentMove, ChargeMoves, Uncounted
  <1>9. ASSUME NEW i \in Intents, IntentDeadline(i)
        PROVE  IntentMoves /\ ChargeMoves
    <2>1. \A k \in Intents : /\ intents'[k].state = intents[k].state
                             /\ intents'[k].committed = intents[k].committed
      BY ZenonT(60), <1>9 DEF IntentDeadline, TypeOK, StoresTypeOK, Intent
    <2>2. QED
      BY <1>1, <1>9, <2>1 DEF IntentDeadline, IntentMoves, IntentMove, ChargeMoves,
                              Uncounted
  <1>10. CASE \/ ReplaceHead \/ PrepareDisposition \/ BindDisposition
              \/ CompleteDisposition \/ TerminalizeDisposition
    BY <1>2, <1>10 DEF ReplaceHead, PrepareDisposition, BindDisposition,
         CompleteDisposition, TerminalizeDisposition
  <1>11. CASE RevalidateIneligible \/ RevalidateStale \/ SubmitTurn \/ ResubmitTurn
              \/ AckTrigger \/ WriteUnavailable
    <2>1. target \in Intents /\ leases' = leases
      BY <1>0, <1>11 DEF RevalidateIneligible, RevalidateStale, SubmitTurn,
           ResubmitTurn, AckTrigger, WriteUnavailable, IntentStep
    <2>2. \E terminal \in TerminalFailure :
            intents' = intents \/ intents' = Terminalized(target, terminal)
      BY <1>11 DEF RevalidateIneligible, RevalidateStale, SubmitTurn, ResubmitTurn,
           AckTrigger, WriteUnavailable, Terminalize, TerminalFailure
    <2>3. QED
      BY <1>3, <2>1, <2>2
  <1>12. CASE CommitSubmission
    <2>1. target \in Intents
      BY <1>0, <1>12 DEF CommitSubmission, IntentStep
    <2>2. CASE Committable(target)
      BY <1>12, <2>1, <2>2, CommitMoves DEF CommitSubmission, ChargeMoves
    <2>3. CASE ~Committable(target)
      BY <1>3, <1>12, <2>1, <2>3 DEF CommitSubmission, Terminalize, TerminalFailure
    <2>4. QED
      BY <2>2, <2>3
  <1>13. CASE CompleteIntent
    <2>1. target \in Intents
      BY <1>0, <1>13 DEF CompleteIntent, IntentStep
    <2>2. /\ intents'[target].state = "completed"
          /\ intents'[target].committed = intents[target].committed
          /\ \A k \in Intents \ {target} : intents'[k] = intents[k]
      BY <1>13, <2>1 DEF CompleteIntent, TypeOK, StoresTypeOK, Intent
    <2>3. IntentMoves
      BY <1>13, <2>2 DEF CompleteIntent, IntentMoves, IntentMove
    <2>4. \A k \in Intents : intents'[k].committed <=> intents[k].committed
      BY <2>2
    <2>5. QED
      BY <1>1, <1>13, <2>3, <2>4 DEF CompleteIntent, ChargeMoves, Uncounted
  <1>14. ASSUME NEW o \in Observers, Observe(o) \/ Decline(o) \/ ObserverStops(o)
         PROVE  IntentMoves /\ ChargeMoves
    BY <1>2, <1>14 DEF Observe, Decline, ObserverRecover, ObserverDecide,
         ObserverPrepare, ObserverAck, ObserverAcknowledge, ObserverStops
  <1>15. CASE Crash \/ UNCHANGED vars
    BY <1>2, <1>15 DEF Crash, vars
  <1>16. QED
    BY <1>4, <1>5, <1>6, <1>7, <1>8, <1>9, <1>10, <1>11, <1>12, <1>13, <1>14, <1>15
       DEF Next, Proceed
-----------------------------------------------------------------------------
(* What one step may do to thread, feed and cursor.                        *)

JournalMove == \/ journal' = journal
               \/ journal = <<>> /\ journal' = <<Root>>
               \/ ReplaceHead

CursorMove ==
  \/ cursor' = cursor
  \/ \E n \in OperatorSeqs : cursor' = n /\ IsNext(n)
  \/ \E n \in Seqs : /\ cursor' = n /\ IsNext(n)
                     /\ dispositions[n].kind \notin {"none", "intervention"}
                     /\ dispositions' = dispositions
  \/ /\ AckTrigger /\ AlreadyHead(target)
     /\ cursor' = target.seq /\ IsNext(target.seq)

TaskMove ==
  \A i \in Intents :
    tasks'[i].status # "absent" =>
      tasks[i].status # "absent" \/ (i = target /\ SubmitTurn)

FeedMove ==
  /\ Len(feed) <= Len(feed')
  /\ \A n \in 1 .. Len(feed) : feed'[n] = feed[n]

ThreadMoves == JournalMove /\ CursorMove /\ TaskMove /\ FeedMove

LEMMA NextThreadMoves ==
  ASSUME TypeOK, DecisionInv, ObserversInv, [Next]_vars
  PROVE  ThreadMoves
  <1> USE DEF threadVars, feedVars, responderVars, workerVars, observerVars
  <1>0. Len(feed) \in Nat
    BY DEF TypeOK, StoresTypeOK
  <1>1. ASSUME UNCHANGED <<tasks, journal, feed, cursor>> PROVE ThreadMoves
    BY <1>0, <1>1 DEF ThreadMoves, JournalMove, CursorMove, TaskMove, FeedMove
  <1>2. CASE BindThread \/ ReplaceHead
    BY <1>0, <1>2 DEF BindThread, ReplaceHead, ThreadMoves, JournalMove, CursorMove,
         TaskMove, FeedMove
  <1>3. CASE Materialize
    <2>1. FeedMove
      BY <1>3 DEF Materialize, Materialized, FeedMove, TypeOK, StoresTypeOK
    <2>2. QED
      BY <1>3, <2>1 DEF Materialize, ThreadMoves, JournalMove, CursorMove, TaskMove
  <1>4. ASSUME NEW r \in Requests, SubmitRequest(r) PROVE ThreadMoves
    <2>1. \A i \in Intents : tasks'[i] = tasks[i]
      BY <1>4, IdentityAssumption DEF SubmitRequest, Submitted, TypeOK, StoresTypeOK,
           TaskIds
    <2>2. QED
      BY <1>0, <1>4, <2>1 DEF SubmitRequest, ThreadMoves, JournalMove, CursorMove,
           TaskMove, FeedMove
  <1>5. ASSUME NEW t \in TaskIds, RunTask(t) PROVE ThreadMoves
    <2>1. TaskMove
      BY <1>5 DEF RunTask, TaskMove, TypeOK, StoresTypeOK, TaskIds
    <2>2. QED
      BY <1>0, <1>5, <2>1 DEF RunTask, ThreadMoves, JournalMove, CursorMove, FeedMove
  <1>6. ASSUME NEW n \in OperatorSeqs, OperatorAck(n) PROVE ThreadMoves
    BY <1>0, <1>6 DEF OperatorAck, ThreadMoves, JournalMove, CursorMove, TaskMove,
         FeedMove
  <1>7. CASE SubmitTurn
    <2>1. TaskMove
      BY <1>7 DEF SubmitTurn, Submitted, TaskMove, TypeOK, StoresTypeOK, TaskIds
    <2>2. QED
      BY <1>0, <1>7, <2>1 DEF SubmitTurn, ThreadMoves, JournalMove, CursorMove, FeedMove
  <1>8. CASE AckTrigger
    BY <1>0, <1>8 DEF AckTrigger, TriggerNext, ThreadMoves, JournalMove, CursorMove,
         TaskMove, FeedMove
  <1>9. CASE \/ \E l \in Leases :
                  \/ CreateLease(l) \/ RevokeLease(l) \/ PrepareOnExpiredLease(l)
                  \/ LeaseDeadline(l) \/ IntervalElapses(l)
             \/ \E i \in Intents :
                  PrepareIntent(i) \/ Dispatch(i) \/ IntentDeadline(i)
    BY <1>1, <1>9 DEF CreateLease, RevokeLease, PrepareOnExpiredLease, LeaseDeadline,
         IntervalElapses, PrepareIntent, Dispatch, DispatchEnded, DispatchPrepared,
         DispatchSubmitted, IntentDeadline
  <1>10. CASE \/ CreateLeaseAfterExpiry \/ PrepareDisposition \/ BindDisposition
              \/ RevalidateIneligible \/ RevalidateStale \/ ResubmitTurn
              \/ CommitSubmission \/ CompleteIntent \/ CompleteDisposition
              \/ TerminalizeDisposition \/ Crash \/ WriteUnavailable
              \/ UNCHANGED vars
    BY <1>1, <1>10 DEF CreateLeaseAfterExpiry, PrepareDisposition, BindDisposition,
         RevalidateIneligible, RevalidateStale, ResubmitTurn, CommitSubmission,
         CompleteIntent, CompleteDisposition, TerminalizeDisposition, Crash,
         WriteUnavailable, vars
  <1>11. ASSUME NEW o \in Observers, Observe(o) \/ Decline(o) \/ ObserverStops(o)
         PROVE  ThreadMoves
    BY <1>0, <1>11, ObserverKeeps DEF ThreadMoves, JournalMove, CursorMove, TaskMove,
         FeedMove
  <1>12. QED
    BY <1>2, <1>3, <1>4, <1>5, <1>6, <1>7, <1>8, <1>9, <1>10, <1>11 DEF Next, Proceed

-----------------------------------------------------------------------------
(* Where the worker goes, and what it knows when it gets there.            *)

EntersDispatch ==
  /\ target' \in Intents /\ BoundTo(target')
  /\ step' \in {"revalidate", "ack_trigger", "complete_disposition",
                "terminalize_disposition"}
  /\ step' = "ack_trigger" => intents[target'].state = "submitted"
  /\ UNCHANGED <<journal, cursor, intents, dispositions>>

ContinuesDispatch ==
  /\ Dispatching /\ target \in Intents /\ target' = target
  /\ dispositions' = dispositions
  /\ \/ /\ step' = "replace_head" /\ step = "revalidate"
        /\ leases[target.lease].turns < MaxTurns
        /\ UNCHANGED <<journal, leases, cursor, intents>>
     \/ /\ step' = "commit_submission"
        /\ ReplaceHead \/ (journal' = journal /\ OnJournal(target))
     \/ /\ step' = "ack_trigger" /\ step = "commit_submission"
        /\ intents'[target].committed /\ journal' = journal
     \/ /\ step' = "complete_intent" /\ step = "ack_trigger"
        /\ cursor' = target.seq /\ UNCHANGED <<journal, intents>>
     \/ step' \in {"complete_disposition", "terminalize_disposition"}

StepMove ==
  \/ UNCHANGED <<step, target>>
  \/ step' \in {"idle", "create_lease", "prepare_disposition", "bind_disposition"}
  \/ step' = "replace_head" /\ target' \in Requests
  \/ EntersDispatch
  \/ ContinuesDispatch

LEMMA NextStep ==
  ASSUME TypeOK, [Next]_vars
  PROVE  StepMove
  <1> USE DEF threadVars, feedVars, responderVars, workerVars, observerVars
  <1>0. step \in IntentStep => target \in Intents
    BY DEF TypeOK
  <1>1. CASE \/ BindThread \/ Materialize
             \/ \E t \in TaskIds : RunTask(t)
             \/ \E n \in OperatorSeqs : OperatorAck(n)
             \/ \E r \in Requests : SubmitRequest(r)
    BY <1>1 DEF BindThread, Materialize, RunTask, OperatorAck, SubmitRequest, StepMove
  <1>2. CASE \E l \in Leases :
               \/ CreateLease(l) \/ RevokeLease(l) \/ PrepareOnExpiredLease(l)
               \/ LeaseDeadline(l) \/ IntervalElapses(l)
    BY <1>2 DEF CreateLease, RevokeLease, PrepareOnExpiredLease, LeaseDeadline,
         IntervalElapses, StepMove
  <1>3. ASSUME NEW i \in Intents, PrepareIntent(i) \/ Dispatch(i) \/ IntentDeadline(i)
        PROVE  StepMove
    <2>1. CASE PrepareIntent(i) \/ IntentDeadline(i)
      BY <2>1 DEF PrepareIntent, IntentDeadline, StepMove
    <2>2. CASE Dispatch(i)
      <3>1. EntersDispatch
        BY <2>2 DEF Dispatch, DispatchEnded, DispatchPrepared, DispatchSubmitted,
             EntersDispatch
      <3>2. QED
        BY <3>1 DEF StepMove
    <2>3. QED
      BY <1>3, <2>1, <2>2
  <1>4. CASE \/ CreateLeaseAfterExpiry \/ PrepareDisposition \/ BindDisposition
             \/ CompleteDisposition \/ TerminalizeDisposition \/ Crash
    BY <1>4 DEF CreateLeaseAfterExpiry, PrepareDisposition, BindDisposition,
         CompleteDisposition, TerminalizeDisposition, Crash, Finish, StepMove
  <1>5. CASE ReplaceHead
    BY <1>5 DEF ReplaceHead, Finish, StepMove, ContinuesDispatch, Dispatching
  <1>6. CASE RevalidateIneligible \/ RevalidateStale \/ WriteUnavailable
    BY <1>0, <1>6 DEF RevalidateIneligible, RevalidateStale, WriteUnavailable,
         Terminalize, StepMove, ContinuesDispatch, Dispatching, IntentStep
  <1>7. CASE SubmitTurn
    <2>1. target \in Intents /\ leases[target.lease].turns < MaxTurns /\ Dispatching
      BY <1>0, <1>7 DEF SubmitTurn, MayDispatch, Eligible, IntentStep, Dispatching
    <2>2. QED
      BY <1>7, <2>1 DEF SubmitTurn, Terminalize, StepMove, ContinuesDispatch
  <1>8. CASE ResubmitTurn
    <2>1. target \in Intents /\ Dispatching /\ step = "revalidate"
      BY <1>0, <1>8 DEF ResubmitTurn, IntentStep, Dispatching
    <2>2. CASE AlreadyHead(target)
      <3>1. Len(journal) \in Nat /\ Len(journal) >= 1
        <4>1. target.seq \in 1 .. Len(feed)
          <5>1. target.seq \in Nat \ {0}
            BY <2>1, BoundsAssumption DEF Intents, Seqs
          <5>2. target.seq <= Len(feed) /\ Len(feed) \in Nat
            BY <1>8 DEF ResubmitTurn, TriggerNext, IsNext, TypeOK, StoresTypeOK
          <5>3. QED
            BY <5>1, <5>2
        <4>2. feed[target.seq] \in Event
          <5>1. feed \in Seq(Event)
            BY DEF TypeOK, StoresTypeOK
          <5>2. QED
            BY <4>1, <5>1
        <4>3. feed[target.seq].rev \in Nat
          BY <4>2 DEF Event
        <4>4. QED
          BY <2>2, <4>3 DEF AlreadyHead, HeadAdvanced, Revision, TypeOK, StoresTypeOK
      <3>2. OnJournal(target)
        BY <2>2, <3>1 DEF AlreadyHead, PreferredHead, OnJournal
      <3>3. QED
        BY <1>8, <2>1, <2>2, <3>2 DEF ResubmitTurn, StepMove, ContinuesDispatch
    <2>3. CASE ~AlreadyHead(target)
      BY <1>8, <2>1, <2>3 DEF ResubmitTurn, Terminalize, StepMove, ContinuesDispatch
    <2>4. QED
      BY <2>2, <2>3
  <1>9. CASE CommitSubmission
    <2>1. target \in Intents /\ Dispatching /\ intents \in [Intents -> Intent]
      BY <1>0, <1>9 DEF CommitSubmission, IntentStep, Dispatching, TypeOK, StoresTypeOK
    <2>2. CASE Committable(target)
      <3>1. intents'[target].committed
        BY <1>9, <2>1, <2>2 DEF CommitSubmission, Commit
      <3>2. QED
        BY <1>9, <2>1, <2>2, <3>1 DEF CommitSubmission, StepMove, ContinuesDispatch
    <2>3. CASE ~Committable(target)
      BY <1>9, <2>1, <2>3 DEF CommitSubmission, Terminalize, StepMove, ContinuesDispatch
    <2>4. QED
      BY <2>2, <2>3
  <1>10. CASE AckTrigger
    BY <1>0, <1>10 DEF AckTrigger, Terminalize, StepMove, ContinuesDispatch, IntentStep,
         Dispatching
  <1>11. CASE CompleteIntent
    BY <1>0, <1>11 DEF CompleteIntent, StepMove, ContinuesDispatch, IntentStep, Dispatching
  <1>12. ASSUME NEW o \in Observers, Observe(o) \/ Decline(o) \/ ObserverStops(o)
         PROVE  StepMove
    BY <1>12 DEF Observe, Decline, ObserverRecover, ObserverDecide, ObserverPrepare,
         ObserverAck, ObserverAcknowledge, ObserverStops, StepMove
  <1>13. CASE UNCHANGED vars
    BY <1>13 DEF vars, StepMove
  <1>14. QED
    BY <1>1, <1>2, <1>3, <1>4, <1>5, <1>6, <1>7, <1>8, <1>9, <1>10, <1>11, <1>12,
       <1>13 DEF Next, Proceed
-----------------------------------------------------------------------------
(* Owners.                                                                 *)

LEMMA InitOwner == Init => OwnerInv
  <1>1. SUFFICES ASSUME Init PROVE OwnerInv
    OBVIOUS
  <1>2. \A n \in Seqs : Formed(n)
    BY <1>1 DEF Init, Formed
  <1>3. OneAnswerPerEvent
    <2>1. ASSUME NEW i \in Intents PROVE tasks[i].status = "absent"
      BY <1>1, IdentityAssumption DEF Init, TaskIds
    <2>2. QED
      BY <2>1 DEF OneAnswerPerEvent
  <1>4. ~Dispatching
    BY <1>1 DEF Init, Dispatching, IntentStep
  <1>5. QED
    BY <1>2, <1>3, <1>4 DEF OwnerInv

(* An owner stays, and a bound intervention stays bound until the worker's *)
(* own last step on it.                                                    *)
LEMMA OwnersKept ==
  ASSUME TypeOK, OwnerInv, DispositionMoves, NEW i \in Intents
  PROVE  /\ OwnedBy(i.seq, i) => OwnedBy(i.seq, i)'
         /\ BoundTo(i) /\ step' # "idle" => BoundTo(i)'
  <1>1. i.seq \in Seqs /\ i.lease \in Leases /\ i.lease # NoLease
    BY IdentityAssumption DEF Intents
  <1>2. DispositionMove(i.seq) /\ Formed(i.seq)
    BY <1>1 DEF DispositionMoves, OwnerInv
  <1>3. OwnedBy(i.seq, i) => OwnedBy(i.seq, i)'
    BY <1>1, <1>2 DEF DispositionMove, Decided, Bound, Acknowledged, Completed, Reviewed,
         Formed, OwnedBy
  <1>4. BoundTo(i) /\ step' # "idle" => dispositions'[i.seq].state = "intervention_bound"
    BY <1>2 DEF BoundTo, OwnedBy, DispositionMove, Decided, Bound, Acknowledged,
         Completed, Reviewed
  <1>5. QED
    BY <1>3, <1>4 DEF BoundTo

LEMMA NextOwner ==
  ASSUME TypeOK, TypeOK', DecisionInv, ObserversInv, OwnerInv, [Next]_vars
  PROVE  OwnerInv'
  <1>1. DispositionMoves /\ ThreadMoves /\ StepMove
    BY NextDispositions, NextThreadMoves, NextStep
  <1>2. ASSUME NEW n \in Seqs PROVE Formed(n)'
    BY <1>1 DEF DispositionMoves, DispositionMove, Decided, Bound, Acknowledged,
         Completed, Reviewed, Formed, OwnerInv
  <1>3. ASSUME NEW i \in Intents, tasks'[i].status # "absent"
        PROVE  OwnedBy(i.seq, i)'
    <2>1. CASE tasks[i].status # "absent"
      BY <1>1, <2>1, OwnersKept DEF OwnerInv, OneAnswerPerEvent
    <2>2. CASE i = target /\ SubmitTurn
      BY <1>1, <2>2, OwnersKept DEF SubmitTurn, OwnerInv, Dispatching, IntentStep, BoundTo
    <2>3. QED
      BY <1>1, <1>3, <2>1, <2>2 DEF ThreadMoves, TaskMove
  <1>4. ASSUME Dispatching' PROVE BoundTo(target)'
    <2>1. target' \in Intents /\ step' # "idle"
      BY <1>4 DEF Dispatching, TypeOK, IntentStep
    <2>2. CASE EntersDispatch
      BY <2>2 DEF EntersDispatch, BoundTo, OwnedBy
    <2>3. CASE Dispatching /\ target' = target
      BY <1>1, <2>1, <2>3, OwnersKept DEF OwnerInv, BoundTo, OwnedBy
    <2>4. CASE UNCHANGED <<step, target>>
      BY <1>4, <2>3, <2>4 DEF Dispatching
    <2>5. ~(step' = "replace_head" /\ target' \in Requests)
      BY <2>1, IdentityAssumption
    <2>6. QED
      BY <1>1, <1>4, <2>2, <2>3, <2>4, <2>5 DEF StepMove, ContinuesDispatch, Dispatching,
           IntentStep
  <1>5. QED
    BY <1>2, <1>3, <1>4 DEF OwnerInv, OneAnswerPerEvent
-----------------------------------------------------------------------------
(* Answers: what an intent's mark says of the journal and of the cursor.   *)

Placed(i) == i.seq < Len(journal) /\ journal[i.seq + 1] = i

Answered(i) ==
  /\ intents[i].committed =>
       /\ intents[i].state \in {"submitted", "completed", "manual_review"}
       /\ OnJournal(i)
  /\ intents[i].state \in {"submitted", "completed"} => intents[i].committed
  /\ intents[i].state = "completed" => cursor >= i.seq
  /\ OnJournal(i) => Placed(i)

AnswerInv ==
  /\ \A i \in Intents : Answered(i)
  /\ step = "commit_submission" => OnJournal(target)
  /\ step \in {"ack_trigger", "complete_intent"} => intents[target].committed
  /\ step = "complete_intent" => cursor >= target.seq

LEMMA JournalKept ==
  ASSUME TypeOK, JournalMove
  PROVE  /\ Len(journal) \in Nat /\ Len(journal') \in Nat
         /\ Len(journal) <= Len(journal')
         /\ \A k \in 1 .. Len(journal) : journal'[k] = journal[k]
         /\ \A i \in Intents : OnJournal(i) => OnJournal(i)'
         /\ \A i \in Intents :
              OnJournal(i)' => OnJournal(i) \/ (ReplaceHead /\ i = target)
         /\ ReplaceHead => \E k \in 1 .. Len(journal') : journal'[k] = target
  <1>1. /\ journal \in Seq(TaskIds) /\ Len(journal) \in Nat
        /\ target \in Leases \cup TaskIds \cup {NoTask}
    BY DEF TypeOK, StoresTypeOK
  <1>2. CASE journal' = journal /\ ~ReplaceHead
    BY <1>1, <1>2 DEF OnJournal
  <1>3. CASE journal = <<>> /\ journal' = <<Root>> /\ ~ReplaceHead
    BY <1>1, <1>3, IdentityAssumption DEF OnJournal
  <1>4. CASE ReplaceHead
    <2>1. target \in TaskIds
      BY <1>4 DEF ReplaceHead, TypeOK, TaskIds
    <2>2. /\ Len(journal') = Len(journal) + 1
          /\ journal'[Len(journal) + 1] = target
          /\ \A k \in 1 .. Len(journal) : journal'[k] = journal[k]
      BY <1>1, <1>4, <2>1 DEF ReplaceHead
    <2>3. Len(journal) + 1 \in 1 .. Len(journal') /\ Len(journal) <= Len(journal')
      BY <1>1, <2>2
    <2>4. \A k \in 1 .. Len(journal') : k \in 1 .. Len(journal) \/ k = Len(journal) + 1
      BY <1>1, <2>2
    <2>5. \A k \in 1 .. Len(journal) : k \in 1 .. Len(journal')
      BY <1>1, <2>2
    <2>6. \A i \in Intents : OnJournal(i) => OnJournal(i)'
      BY <2>2, <2>5 DEF OnJournal
    <2>7. \A i \in Intents : OnJournal(i)' => OnJournal(i) \/ i = target
      BY <2>2, <2>4 DEF OnJournal
    <2>8. QED
      BY <1>1, <1>4, <2>2, <2>3, <2>6, <2>7
  <1>5. QED
    BY <1>2, <1>3, <1>4 DEF JournalMove

LEMMA CursorGrows ==
  ASSUME TypeOK, CursorMove
  PROVE  /\ cursor \in Nat /\ cursor' \in Nat /\ cursor <= cursor'
         /\ cursor' = cursor \/ (cursor' = cursor + 1 /\ IsNext(cursor'))
  BY DEF TypeOK, StoresTypeOK, CursorMove, IsNext

LEMMA InitAnswer == Init => AnswerInv
  BY DEF Init, AnswerInv, Answered, OnJournal

(* A turn takes the place directly behind the event it answers, since the  *)
(* head that was next to be answered is still the head.                    *)
LEMMA NextPlaced ==
  ASSUME TypeOK, ThreadInv, DecisionInv, AnswerInv, JournalMove,
         NEW i \in Intents, OnJournal(i)'
  PROVE  Placed(i)'
  <1>1. i.seq \in Seqs /\ i.seq \in Nat \ {0}
    BY BoundsAssumption DEF Intents, Seqs
  <1>2. CASE OnJournal(i)
    BY <1>1, <1>2, JournalKept DEF AnswerInv, Answered, Placed
  <1>3. CASE ReplaceHead /\ i = target
    <2>1. IsNext(i.seq) /\ IsCurrent(i.seq)
      BY <1>3 DEF DecisionInv, ReplaceHead
    <2>2. i.seq <= Len(feed)
      BY <2>1 DEF IsNext
    <2>3. feed[i.seq].rev = i.seq - 1
      BY <1>1, <2>2, EventIsTurn
    <2>4. i.seq = Len(journal)
      BY <1>1, <2>1, <2>3, JournalKept DEF IsCurrent, Revision
    <2>5. journal' = Append(journal, i) /\ journal \in Seq(TaskIds) /\ i \in TaskIds
      BY <1>3 DEF ReplaceHead, TypeOK, StoresTypeOK, TaskIds
    <2>6. QED
      BY <2>4, <2>5 DEF Placed
  <1>4. QED
    BY <1>2, <1>3, JournalKept

LEMMA NextAnswered ==
  ASSUME TypeOK, ThreadInv, DecisionInv, AnswerInv, JournalMove, CursorMove,
         IntentMoves, NEW i \in Intents
  PROVE  Answered(i)'
  <1>1. Answered(i) /\ IntentMove(i)
    BY DEF AnswerInv, IntentMoves
  <1>2. i.seq \in Nat /\ cursor \in Nat /\ cursor' \in Nat /\ cursor <= cursor'
    BY BoundsAssumption, CursorGrows DEF Intents, Seqs
  <1>3. OnJournal(i) => OnJournal(i)'
    BY JournalKept
  <1>4. OnJournal(i)' => Placed(i)'
    BY NextPlaced
  <1>5. intents'[i].committed => intents'[i].state \in {"submitted", "completed", "manual_review"}
    BY <1>1 DEF Answered, IntentMove, TerminalFailure
  <1>6. intents'[i].committed => OnJournal(i)'
    BY <1>1, <1>3 DEF Answered, IntentMove, AnswerInv
  <1>7. intents'[i].state \in {"submitted", "completed"} => intents'[i].committed
    BY <1>1 DEF Answered, IntentMove, TerminalFailure
  <1>8. intents'[i].state = "completed" => cursor >= i.seq
    BY <1>1 DEF Answered, IntentMove, TerminalFailure, AnswerInv
  <1>9. intents'[i].state = "completed" => cursor' >= i.seq
    BY <1>2, <1>8
  <1>10. QED
    BY <1>4, <1>5, <1>6, <1>7, <1>9 DEF Answered

LEMMA MarkKept ==
  ASSUME IntentMoves, NEW i \in Intents, intents[i].committed
  PROVE  intents'[i].committed
  BY DEF IntentMoves, IntentMove

LEMMA NextAnswer ==
  ASSUME TypeOK, TypeOK', ThreadInv, DecisionInv, ObserversInv, AnswerInv, [Next]_vars
  PROVE  AnswerInv'
  <1>1. JournalMove /\ CursorMove /\ IntentMoves /\ StepMove
    BY NextThreadMoves, NextCharges, NextStep DEF ThreadMoves
  <1>2. ASSUME NEW i \in Intents PROVE Answered(i)'
    BY <1>1, NextAnswered
  <1>3. step' \in IntentStep => target' \in Intents
    BY DEF TypeOK
  <1>4. step \in IntentStep => target \in Intents
    BY DEF TypeOK
  <1>5. ASSUME step' = "commit_submission" PROVE OnJournal(target)'
    <2>1. target' \in Intents
      BY <1>3, <1>5 DEF IntentStep
    <2>2. CASE UNCHANGED <<step, target>>
      BY <1>1, <1>5, <2>1, <2>2, JournalKept DEF AnswerInv
    <2>3. CASE ContinuesDispatch
      <3>1. ReplaceHead \/ OnJournal(target)
        BY <1>5, <2>3 DEF ContinuesDispatch
      <3>2. OnJournal(target)'
        <4>1. target' = target
          BY <2>3 DEF ContinuesDispatch
        <4>2. QED
          BY <1>1, <2>1, <3>1, <4>1, JournalKept DEF OnJournal
      <3>3. QED
        BY <3>2
    <2>4. QED
      BY <1>1, <1>5, <2>2, <2>3 DEF StepMove, EntersDispatch
  <1>6. ASSUME step' \in {"ack_trigger", "complete_intent"}
        PROVE  intents'[target'].committed
    <2>1. target' \in Intents
      BY <1>3, <1>6 DEF IntentStep
    <2>2. CASE UNCHANGED <<step, target>>
      BY <1>1, <1>6, <2>1, <2>2, MarkKept DEF AnswerInv
    <2>3. CASE EntersDispatch
      BY <1>6, <2>1, <2>3 DEF EntersDispatch, AnswerInv, Answered
    <2>4. CASE ContinuesDispatch
      BY <1>1, <1>6, <2>1, <2>4, MarkKept DEF ContinuesDispatch, AnswerInv
    <2>5. QED
      BY <1>1, <1>6, <2>2, <2>3, <2>4 DEF StepMove
  <1>7. ASSUME step' = "complete_intent" PROVE cursor' >= target'.seq
    <2>1. target' \in Intents /\ target'.seq \in Nat
      BY <1>3, <1>7, BoundsAssumption DEF IntentStep, Intents, Seqs
    <2>2. CASE UNCHANGED <<step, target>>
      BY <1>1, <1>7, <2>1, <2>2, CursorGrows DEF AnswerInv
    <2>3. CASE ContinuesDispatch
      BY <1>7, <2>1, <2>3 DEF ContinuesDispatch
    <2>4. QED
      BY <1>1, <1>7, <2>2, <2>3 DEF StepMove, EntersDispatch
  <1>8. QED
    BY <1>2, <1>5, <1>6, <1>7 DEF AnswerInv
-----------------------------------------------------------------------------
(* The cursor: every decision fits its event, and every ACK has one.       *)

(* The rule of a decision still fits its event, and its end has happened.  *)
Ruled(n) ==
  /\ dispositions[n].kind # "none" => n <= Len(feed)
  /\ dispositions[n].kind = "structural_skip_system" => ~IsHuman(n)
  /\ dispositions[n].kind = "structural_skip_stale" => IsHuman(n) /\ n < Len(journal)
  /\ dispositions[n].kind = "explicit_decline" => IsHuman(n)
  /\ dispositions[n].state = "acknowledged" => cursor >= n
  /\ dispositions[n].state = "completed" =>
       intents[[lease |-> dispositions[n].intent, seq |-> n]].state = "completed"

PassedInv ==
  /\ CursorJustified
  /\ cursor <= MaxRevision + 1
  /\ \A n \in Seqs : Ruled(n)
  /\ \A o \in Observers : opc[o] = "acknowledge" => cursor >= oseq[o]

LEMMA InitPassed == Init => PassedInv
  <1>1. SUFFICES ASSUME Init PROVE PassedInv
    OBVIOUS
  <1>2. cursor = 0 /\ Len(feed) = 0
    BY <1>1 DEF Init
  <1>3. \A n \in Seqs : Ruled(n)
    BY <1>1 DEF Init, Ruled
  <1>4. QED
    BY <1>1, <1>2, <1>3, BoundsAssumption DEF Init, PassedInv, CursorJustified

(* What was read when the decision was made.                               *)
LEMMA DecidedFits ==
  ASSUME TypeOK, ThreadInv, DecisionInv, ObserversInv, NEW n \in Seqs, Decided(n)
  PROVE  /\ n <= Len(feed)
         /\ LET kind == dispositions'[n].kind IN
              /\ kind = "structural_skip_system" => ~IsHuman(n)
              /\ kind = "structural_skip_stale" => IsHuman(n) /\ n < Len(journal)
              /\ kind = "explicit_decline" => IsHuman(n)
  <1>1. CASE /\ step = "prepare_disposition" /\ n = target.seq
             /\ dispositions'[n].kind = "intervention"
    BY <1>1 DEF Decided, DecisionInv, IsNext
  <1>2. ASSUME NEW o \in Observers, Decides(o), n = oseq[o],
               dispositions'[n].kind = okind[o]
        PROVE  /\ n <= Len(feed)
               /\ LET kind == dispositions'[n].kind IN
                    /\ kind = "structural_skip_system" => ~IsHuman(n)
                    /\ kind = "structural_skip_stale" => IsHuman(n) /\ n < Len(journal)
                    /\ kind = "explicit_decline" => IsHuman(n)
    <2>1. Evidence(n, okind[o])
      BY <1>2 DEF Decides, ObserverPrepare, ObserversInv, ObserverInv
    <2>2. feed[n].rev = n - 1
      BY <2>1, EventIsTurn DEF Evidence
    <2>3. n \in Nat /\ Len(journal) \in Nat
      BY BoundsAssumption DEF Seqs, TypeOK, StoresTypeOK
    <2>4. feed[n].rev < Revision => n < Len(journal)
      BY <2>2, <2>3 DEF Revision
    <2>5. QED
      BY <1>2, <2>1, <2>4 DEF Evidence
  <1>3. QED
    BY <1>1, <1>2 DEF Decided

LEMMA NextRuled ==
  ASSUME TypeOK, ThreadInv, DecisionInv, ObserversInv, OwnerInv, PassedInv,
         ThreadMoves, IntentMoves, DispositionMoves, NEW n \in Seqs
  PROVE  Ruled(n)'
  <1>1. /\ n \in Nat \ {0} /\ Len(feed) \in Nat /\ cursor \in Nat
        /\ DispositionMove(n) /\ Ruled(n) /\ Formed(n)
    BY BoundsAssumption DEF Seqs, TypeOK, StoresTypeOK, DispositionMoves, PassedInv, OwnerInv
  <1>2. Len(journal) \in Nat /\ Len(journal') \in Nat /\ Len(journal) <= Len(journal')
    BY JournalKept DEF ThreadMoves
  <1>3. cursor' \in Nat /\ cursor <= cursor'
    BY CursorGrows DEF ThreadMoves
  <1>4. n < Len(journal) => n < Len(journal')
    BY <1>1, <1>2
  <1>5. dispositions'[n].kind # "none" => n <= Len(feed)
    BY <1>1, DecidedFits DEF DispositionMove, Ruled
  <1>6. n <= Len(feed) => (IsHuman(n)' <=> IsHuman(n))
    BY <1>1 DEF ThreadMoves, FeedMove, IsHuman
  <1>7. n <= Len(feed) => n <= Len(feed')
    BY <1>1 DEF ThreadMoves, FeedMove, TypeOK, StoresTypeOK
  <1>8. /\ dispositions'[n].kind = "structural_skip_system" => ~IsHuman(n)
        /\ dispositions'[n].kind = "structural_skip_stale" => IsHuman(n) /\ n < Len(journal)
        /\ dispositions'[n].kind = "explicit_decline" => IsHuman(n)
    BY <1>1, DecidedFits DEF DispositionMove, Ruled
  <1>9. dispositions'[n].state = "acknowledged" => cursor >= n
    <2>1. CASE Acknowledged(n)
      BY <2>1 DEF Acknowledged, PassedInv
    <2>2. QED
      BY <1>1, <2>1 DEF DispositionMove, Decided, Bound, Completed, Reviewed, Ruled
  <1>10. dispositions'[n].state = "completed" =>
           intents'[[lease |-> dispositions'[n].intent, seq |-> n]].state = "completed"
    <2>1. ASSUME dispositions'[n].state = "completed" PROVE
            /\ dispositions'[n].intent = dispositions[n].intent
            /\ intents[[lease |-> dispositions[n].intent, seq |-> n]].state = "completed"
            /\ dispositions[n].intent # NoLease
      BY <1>1, <2>1 DEF DispositionMove, Decided, Bound, Acknowledged, Completed,
           Reviewed, Ruled, Formed
    <2>2. ASSUME NEW i \in Intents, intents[i].state = "completed"
          PROVE  intents'[i].state = "completed"
      BY <2>2 DEF IntentMoves, IntentMove
    <2>3. dispositions[n].intent # NoLease =>
            [lease |-> dispositions[n].intent, seq |-> n] \in Intents
      BY DEF Intents, TypeOK, StoresTypeOK, Disposition
    <2>4. QED
      BY <2>1, <2>2, <2>3
  <1>11. cursor >= n => cursor' >= n
    BY <1>1, <1>3
  <1>12. QED
    BY <1>4, <1>5, <1>6, <1>7, <1>8, <1>9, <1>10, <1>11 DEF Ruled

(* An event that was passed for a reason is passed for that reason still.  *)
LEMMA JustifiedKept ==
  ASSUME TypeOK, OwnerInv, DispositionMoves, JournalMove, IntentMoves,
         NEW n \in Seqs, Justified(n), Ruled(n)'
  PROVE  Justified(n)'
  <1>1. DispositionMove(n) /\ Formed(n)
    BY DEF DispositionMoves, OwnerInv
  <1>2. dispositions'[n].kind = dispositions[n].kind
    BY <1>1 DEF DispositionMove, Decided, Justified
  <1>3. CASE dispositions[n].kind # "intervention"
    BY <1>2, <1>3 DEF Justified, Ruled
  <1>4. CASE dispositions[n].kind = "intervention"
    <2> DEFINE i == [lease |-> dispositions[n].intent, seq |-> n]
    <2>1. /\ dispositions[n].intent # NoLease /\ intents[i].committed
          /\ n < Len(journal) /\ journal[n + 1] = i
      BY <1>4 DEF Justified
    <2>2. i \in Intents
      BY <2>1 DEF Intents, TypeOK, StoresTypeOK, Disposition
    <2>3. intents'[i].committed
      BY <2>1, <2>2, MarkKept
    <2>4. n + 1 \in 1 .. Len(journal) /\ n < Len(journal')
      BY <2>1, JournalKept, BoundsAssumption DEF Seqs
    <2>5. journal'[n + 1] = i
      BY <2>1, <2>4, JournalKept
    <2>6. dispositions'[n].intent = dispositions[n].intent
      BY <1>1, <1>4, <2>1 DEF DispositionMove, Decided, Bound, Acknowledged, Completed,
           Reviewed, Formed
    <2>7. QED
      BY <1>2, <1>4, <2>1, <2>3, <2>4, <2>5, <2>6 DEF Justified
  <1>5. QED
    BY <1>3, <1>4
(* The next event is passed by an operator, for a decision made, or for a  *)
(* turn that stands behind it and is accounted.                            *)
LEMMA NextJustified ==
  ASSUME TypeOK, ThreadInv, OwnerInv, AnswerInv, PassedInv, ThreadMoves,
         IntentMoves, DispositionMoves, \A n \in Seqs : Ruled(n)'
  PROVE  CursorJustified' /\ cursor' <= MaxRevision + 1
  <1>1. /\ cursor \in Nat /\ cursor' \in Nat /\ cursor <= cursor'
        /\ cursor' = cursor \/ (cursor' = cursor + 1 /\ IsNext(cursor'))
    BY CursorGrows DEF ThreadMoves
  <1>2. Len(feed) \in Nat /\ Len(feed') \in Nat /\ Len(feed) <= Len(feed')
    <2>1. TypeOK => Len(feed) \in Nat
      BY DEF TypeOK, StoresTypeOK
    <2>2. QED
      BY <2>1 DEF ThreadMoves, FeedMove
  <1>3. cursor' <= Len(feed')
    BY <1>1, <1>2 DEF IsNext, PassedInv, CursorJustified
  <1>4. cursor' = cursor \/ cursor' \in Seqs
    <2>1. ASSUME AckTrigger PROVE target.seq \in Seqs
      BY <2>1 DEF AckTrigger, TypeOK, IntentStep, Intents
    <2>2. QED
      BY <2>1, OperatorAssumption DEF ThreadMoves, CursorMove
  <1>5. cursor' <= MaxRevision + 1
    BY <1>1, <1>4, BoundsAssumption DEF PassedInv, Seqs
  <1>6. ASSUME NEW n \in 1 .. cursor, n \notin OperatorSeqs PROVE Justified(n)'
    <2>1. n \in Seqs
      BY <1>1, BoundsAssumption DEF Seqs, PassedInv
    <2>2. Justified(n)
      BY <1>6 DEF PassedInv, CursorJustified
    <2>3. QED
      BY <2>1, <2>2, JustifiedKept DEF ThreadMoves
  <1>7. ASSUME NEW n \in Seqs, cursor' = n, cursor' # cursor, n \notin OperatorSeqs
        PROVE  Justified(n)'
    <2>1. CASE /\ dispositions[n].kind \notin {"none", "intervention"}
               /\ dispositions' = dispositions
      <3>1. dispositions'[n].kind \in NonIntervention
        BY <2>1 DEF TypeOK, StoresTypeOK, Disposition, DispositionKind, NonIntervention
      <3>2. Ruled(n)'
        OBVIOUS
      <3>3. QED
        BY <3>1, <3>2 DEF Ruled, Justified, NonIntervention, StructuralKind
    <2>2. CASE AckTrigger /\ AlreadyHead(target) /\ n = target.seq
      <3>1. target \in Intents /\ target.lease # NoLease
        BY <2>2, IdentityAssumption DEF AckTrigger, TypeOK, IntentStep, Intents
      <3>2. target = [lease |-> target.lease, seq |-> n]
        BY <2>2, <3>1 DEF Intents
      <3>3. intents[target].committed
        BY <2>2 DEF AckTrigger, AnswerInv
      <3>4. Placed(target)
        BY <3>1, <3>3 DEF AnswerInv, Answered
      <3>5. /\ dispositions[n].kind = "intervention"
            /\ dispositions[n].intent = target.lease
        BY <2>2 DEF AckTrigger, BoundTo, OwnedBy
      <3>6. Justified(n)
        BY <2>2, <3>1, <3>2, <3>3, <3>4, <3>5 DEF Justified, Placed
      <3>7. QED
        BY <3>6, JustifiedKept DEF ThreadMoves
    <2>3. QED
      BY <1>7, <2>1, <2>2 DEF ThreadMoves, CursorMove
  <1>8. ASSUME NEW n \in 1 .. cursor' PROVE n \in OperatorSeqs \/ Justified(n)'
    <2>1. n \in 1 .. cursor \/ (cursor' # cursor /\ n = cursor')
      BY <1>1
    <2>2. QED
      BY <1>4, <1>6, <1>7, <2>1
  <1>9. QED
    BY <1>3, <1>5, <1>8 DEF CursorJustified

LEMMA NextAcknowledging ==
  ASSUME TypeOK, DecisionInv, ObserversInv, PassedInv, [Next]_vars, CursorMove,
         NEW p \in Observers, opc'[p] = "acknowledge"
  PROVE  cursor' >= oseq'[p]
  <1>1. cursor \in Nat /\ cursor' \in Nat /\ cursor <= cursor' /\ oseq[p] \in Nat
    BY CursorGrows, BoundsAssumption DEF TypeOK, Seqs
  <1>2. CASE opc'[p] = opc[p] /\ oseq'[p] = oseq[p]
    BY <1>1, <1>2 DEF PassedInv
  <1>3. ASSUME NEW o \in Observers, Observe(o) \/ Decline(o) \/ ObserverStops(o)
        PROVE  cursor' >= oseq'[p]
    <2>1. CASE o # p
      <3>1. opc'[p] = opc[p] /\ oseq'[p] = oseq[p]
        BY <1>3, <2>1 DEF Observe, Decline, ObserverRecover, ObserverDecide,
             ObserverPrepare, ObserverAck, ObserverAcknowledge, ObserverStops,
             ObserverRests, ObserverGoto, observerVars, TypeOK
      <3>2. QED
        BY <1>2, <3>1
    <2>2. CASE o = p
      <3> USE DEF ObserverGoto, ObserverRests, TypeOK
      <3>1. CASE ObserverRecover(p)
        <4>1. CASE UNCHANGED observerVars
          BY <1>2, <4>1 DEF observerVars
        <4>2. ASSUME NEW n \in Seqs, ObserverGoto(p, "acknowledge", n, "none"),
                     (AckedBefore(n) /\ cursor' = cursor) \/ cursor' = n
              PROVE  cursor' >= oseq'[p]
          BY <1>1, <4>2 DEF AckedBefore
        <4>3. QED
          BY <3>1, <4>1, <4>2 DEF ObserverRecover
      <3>2. CASE ObserverAck(p)
        BY <1>1, <3>2 DEF ObserverAck
      <3>3. CASE \/ ObserverPrepare(p) \/ ObserverAcknowledge(p) \/ ObserverStops(p)
                 \/ \E n \in Seqs, kind \in DispositionKind : ObserverDecide(p, n, kind)
        BY <3>3 DEF ObserverPrepare, ObserverAcknowledge, ObserverStops, ObserverDecide
      <3>4. QED
        BY <1>3, <2>2, <3>1, <3>2, <3>3, OperatorAssumption
           DEF Observe, Decline, DispositionKind
    <2>3. QED
      BY <2>1, <2>2
  <1>4. CASE UNCHANGED observerVars
    BY <1>2, <1>4 DEF observerVars
  <1>5. QED
    BY <1>3, <1>4, WorkerKeepsEvidence DEF Next

LEMMA NextPassed ==
  ASSUME TypeOK, ThreadInv, DecisionInv, ObserversInv, OwnerInv, AnswerInv,
         PassedInv, [Next]_vars
  PROVE  PassedInv'
  <1>1. ThreadMoves /\ IntentMoves /\ DispositionMoves
    BY NextThreadMoves, NextCharges, NextDispositions
  <1>2. \A n \in Seqs : Ruled(n)'
    BY <1>1, NextRuled
  <1>3. CursorJustified' /\ cursor' <= MaxRevision + 1
    BY <1>1, <1>2, NextJustified
  <1>4. \A p \in Observers : opc'[p] = "acknowledge" => cursor' >= oseq'[p]
    BY <1>1, NextAcknowledging DEF ThreadMoves
  <1>5. QED
    BY <1>2, <1>3, <1>4 DEF PassedInv
-----------------------------------------------------------------------------
(* Charges: a lease counts the marks of its intents.                       *)

Charged(l) ==
  /\ IsFiniteSet(CommittedBy(l))
  /\ leases[l].turns = Cardinality(CommittedBy(l))
  /\ leases[l].state = "active" => leases[l].turns < MaxTurns
  /\ leases[l].state = "exhausted" => leases[l].turns = MaxTurns
  /\ leases[l].state = "none" => leases[l].turns = 0

ChargeInv ==
  /\ \A l \in Leases : Charged(l)
  /\ \A i \in Intents : intents[i].state # "none" => leases[i.lease].state # "none"

LEMMA InitCharge == Init => ChargeInv
  <1>1. SUFFICES ASSUME Init PROVE ChargeInv
    OBVIOUS
  <1>2. ASSUME NEW l \in Leases PROVE Charged(l)
    <2>1. CommittedBy(l) = {}
      BY <1>1 DEF Init, CommittedBy
    <2>2. IsFiniteSet(CommittedBy(l)) /\ Cardinality(CommittedBy(l)) = 0
      BY <2>1, FS_EmptySet
    <2>3. leases[l].state = "none" /\ leases[l].turns = 0
      BY <1>1 DEF Init
    <2>4. QED
      BY <2>2, <2>3 DEF Charged
  <1>3. QED
    BY <1>1, <1>2 DEF Init, ChargeInv

LEMMA CountsCharged ==
  ASSUME TypeOK, AnswerInv, ChargeInv, Counts, NEW l \in Leases
  PROVE  Charged(l)'
  <1>1. target \in Intents /\ target.lease \in Leases
    BY DEF Counts, Intents
  <1>2. Charged(l) /\ leases[l].turns \in Nat /\ MaxTurns \in Nat
    BY BoundsAssumption DEF ChargeInv, TypeOK, StoresTypeOK, Lease
  <1>3. CASE l # target.lease
    <2>1. CommittedBy(l)' = CommittedBy(l)
      BY Zenon, <1>1, <1>3 DEF CommittedBy, Counts
    <2>2. leases'[l].turns = leases[l].turns /\ leases'[l].state = leases[l].state
      BY <1>3 DEF Counts
    <2>3. QED
      BY <1>2, <2>1, <2>2 DEF Charged
  <1>4. CASE l = target.lease
    <2>1. ~intents[target].committed
      BY <1>1 DEF Counts, AnswerInv, Answered
    <2>2. CommittedBy(l)' = CommittedBy(l) \cup {target}
      <3>1. ASSUME NEW i \in Intents
            PROVE  i \in CommittedBy(l)' <=> i \in CommittedBy(l) \cup {target}
        BY <1>1, <1>4 DEF CommittedBy, Counts
      <3>2. \A i : i \in CommittedBy(l)' => i \in Intents
        BY DEF CommittedBy
      <3>3. \A i : i \in CommittedBy(l) \cup {target} => i \in Intents
        BY <1>1 DEF CommittedBy
      <3>4. QED
        BY <3>1, <3>2, <3>3
    <2>3. target \notin CommittedBy(l)
      BY <2>1 DEF CommittedBy
    <2>4. /\ IsFiniteSet(CommittedBy(l)')
          /\ Cardinality(CommittedBy(l)') = Cardinality(CommittedBy(l)) + 1
      BY <1>2, <2>2, <2>3, FS_AddElement DEF Charged
    <2>5. leases[l].state # "none"
      BY <1>1, <1>4 DEF Counts, ChargeInv
    <2>6. /\ leases[l].turns < MaxTurns
          /\ leases'[l].turns = leases[l].turns + 1
          /\ leases'[l].state =
               IF leases[l].state = "active" /\ leases[l].turns + 1 = MaxTurns
                 THEN "exhausted" ELSE leases[l].state
      BY <1>4 DEF Counts
    <2>7. QED
      BY <1>2, <2>4, <2>5, <2>6 DEF Charged
  <1>5. QED
    BY <1>3, <1>4

LEMMA NextCharge ==
  ASSUME TypeOK, AnswerInv, ChargeInv, [Next]_vars
  PROVE  ChargeInv'
  <1>1. IntentMoves /\ ChargeMoves
    BY NextCharges
  <1>2. ASSUME NEW l \in Leases PROVE Charged(l)'
    <2>1. CASE Counts
      BY <2>1, CountsCharged
    <2>2. CASE Uncounted
      <3>1. CommittedBy(l)' = CommittedBy(l)
        <4>1. \A i \in Intents : intents'[i].committed <=> intents[i].committed
          BY <2>2 DEF Uncounted
        <4>2. QED
          BY Zenon, <4>1 DEF CommittedBy
      <3>2. LeaseMove(l) /\ Charged(l)
        BY <2>2 DEF Uncounted, ChargeInv
      <3>3. leases[l].turns \in Nat /\ MaxTurns \in Nat \ {0}
        BY BoundsAssumption DEF TypeOK, StoresTypeOK, Lease
      <3>4. QED
        BY <3>1, <3>2, <3>3 DEF LeaseMove, Charged
    <2>3. QED
      BY <1>1, <2>1, <2>2 DEF ChargeMoves
  <1>3. ASSUME NEW i \in Intents, intents'[i].state # "none"
        PROVE  leases'[i.lease].state # "none"
    <2>1. i.lease \in Leases
      BY DEF Intents
    <2>2. leases[i.lease].state # "none"
      BY <1>1, <1>3, <2>1 DEF IntentMoves, IntentMove, ChargeInv
    <2>3. CASE Counts
      BY <2>1, <2>2, <2>3 DEF Counts
    <2>4. CASE Uncounted
      BY <2>1, <2>2, <2>4 DEF Uncounted, LeaseMove
    <2>5. QED
      BY <1>1, <2>3, <2>4 DEF ChargeMoves
  <1>4. QED
    BY <1>2, <1>3 DEF ChargeInv

-----------------------------------------------------------------------------
(* Quotas: a turn not yet charged is the one the cursor waits for.         *)

QuotaInv ==
  OperatorSeqs = {} =>
    /\ \A i \in Intents : OnJournal(i) /\ ~intents[i].committed =>
         i.seq = cursor + 1 /\ leases[i.lease].turns < MaxTurns
    /\ step = "replace_head" /\ target \in Intents =>
         leases[target.lease].turns < MaxTurns

LEMMA InitQuota == Init => QuotaInv
  BY DEF Init, QuotaInv, OnJournal

(* The turns on the journal own their events.                              *)
LEMMA OnJournalOwned ==
  ASSUME ThreadInv, OwnerInv, NEW i \in Intents, OnJournal(i)
  PROVE  OwnedBy(i.seq, i)
  BY DEF OnJournal, ThreadInv, JournalDurable, OwnerInv, OneAnswerPerEvent

LEMMA SameOwner ==
  ASSUME NEW i \in Intents, NEW j \in Intents, OwnedBy(i.seq, i), OwnedBy(j.seq, j),
         i.seq = j.seq
  PROVE  i = j
  BY DEF OwnedBy, Intents

(* Nobody passes an event whose turn is not charged.                       *)
LEMMA CursorWaits ==
  ASSUME TypeOK, ThreadInv, OwnerInv, AnswerInv, QuotaInv, OperatorSeqs = {},
         CursorMove, NEW i \in Intents, OnJournal(i), ~intents[i].committed
  PROVE  cursor' = cursor
  <1>1. i.seq = cursor + 1
    BY DEF QuotaInv
  <1>2. OwnedBy(i.seq, i)
    BY OnJournalOwned
  <1>3. ~\E n \in Seqs : IsNext(n) /\ dispositions[n].kind \notin {"none", "intervention"}
    BY <1>1, <1>2 DEF IsNext, OwnedBy
  <1>4. ~(AckTrigger /\ IsNext(target.seq))
    <2>1. SUFFICES ASSUME AckTrigger, IsNext(target.seq) PROVE FALSE
      OBVIOUS
    <2>2. target \in Intents
      BY <2>1 DEF AckTrigger, TypeOK, IntentStep
    <2>3. target = i
      BY <1>1, <1>2, <2>1, <2>2, SameOwner DEF AckTrigger, BoundTo, IsNext
    <2>4. intents[target].committed
      BY <2>1 DEF AckTrigger, AnswerInv
    <2>5. QED
      BY <2>3, <2>4
  <1>5. QED
    BY <1>3, <1>4 DEF CursorMove

LEMMA NextQuota ==
  ASSUME TypeOK, ThreadInv, DecisionInv, ObserversInv, OwnerInv, AnswerInv,
         QuotaInv, OperatorSeqs = {}, [Next]_vars
  PROVE  QuotaInv'
  <1>1. /\ JournalMove /\ CursorMove /\ IntentMoves /\ ChargeMoves /\ StepMove
    BY NextThreadMoves, NextCharges, NextStep DEF ThreadMoves
  <1>2. ASSUME NEW l \in Leases, leases[l].turns < MaxTurns,
               ~(Counts /\ l = target.lease)
        PROVE  leases'[l].turns < MaxTurns
    <2>1. CASE Counts
      BY <1>2, <2>1 DEF Counts
    <2>2. CASE Uncounted
      BY <1>2, <2>2, BoundsAssumption DEF Uncounted, LeaseMove
    <2>3. QED
      BY <1>1, <2>1, <2>2 DEF ChargeMoves
  <1>3. ASSUME NEW i \in Intents, OnJournal(i)', ~intents'[i].committed
        PROVE  i.seq = cursor' + 1 /\ leases'[i.lease].turns < MaxTurns
    <2>1. ~intents[i].committed /\ i.lease \in Leases
      BY <1>1, <1>3, MarkKept DEF Intents
    <2>2. CASE OnJournal(i)
      <3>1. cursor' = cursor /\ i.seq = cursor + 1 /\ leases[i.lease].turns < MaxTurns
        BY <1>1, <2>1, <2>2, CursorWaits DEF QuotaInv
      <3>2. ~(Counts /\ i.lease = target.lease)
        <4>1. SUFFICES ASSUME Counts, i.lease = target.lease PROVE FALSE
          OBVIOUS
        <4>2. target \in Intents /\ ~intents[target].committed /\ OnJournal(target)
          BY <4>1 DEF Counts, AnswerInv, Answered
        <4>3. target.seq = i.seq
          BY <3>1, <4>2 DEF QuotaInv
        <4>4. target = i
          BY <2>2, <4>2, <4>3, SameOwner, OnJournalOwned
        <4>5. QED
          BY <1>3, <4>1, <4>4 DEF Counts
      <3>3. QED
        BY <1>2, <2>1, <3>1, <3>2
    <2>3. CASE ReplaceHead /\ i = target
      <3>1. IsNext(i.seq) /\ leases[i.lease].turns < MaxTurns
        BY <2>3 DEF ReplaceHead, DecisionInv, QuotaInv
      <3>2. UNCHANGED <<cursor, leases>>
        BY <2>3 DEF ReplaceHead, responderVars
      <3>3. QED
        BY <3>1, <3>2 DEF IsNext
    <2>4. QED
      BY <1>1, <1>3, <2>2, <2>3, JournalKept
  <1>4. ASSUME step' = "replace_head", target' \in Intents
        PROVE  leases'[target'.lease].turns < MaxTurns
    <2>1. target'.lease \in Leases
      BY <1>4 DEF Intents
    <2>2. CASE UNCHANGED <<step, target>>
      <3>1. leases[target.lease].turns < MaxTurns /\ ~Counts
        BY <1>4, <2>2 DEF QuotaInv, Counts
      <3>2. QED
        BY <1>2, <2>1, <2>2, <3>1
    <2>3. CASE ContinuesDispatch
      BY <1>4, <2>3 DEF ContinuesDispatch
    <2>4. QED
      BY <1>1, <1>4, <2>2, <2>3, IdentityAssumption DEF StepMove, EntersDispatch
  <1>5. QED
    BY <1>3, <1>4 DEF QuotaInv
LEMMA QuotaBounds ==
  ASSUME TypeOK, ThreadInv, OwnerInv, AnswerInv, ChargeInv, QuotaInv
  PROVE  LeaseBoundsSystemTurns
  <1>1. SUFFICES ASSUME OperatorSeqs = {}, NEW l \in Leases
                 PROVE  Cardinality({i \in Intents : i.lease = l /\ OnJournal(i)})
                          <= MaxTurns
    BY DEF LeaseBoundsSystemTurns
  <1> DEFINE turns == {i \in Intents : i.lease = l /\ OnJournal(i)}
             charged == CommittedBy(l)
  <1>2. /\ IsFiniteSet(charged) /\ leases[l].turns = Cardinality(charged)
        /\ leases[l].turns \in 0 .. MaxTurns /\ MaxTurns \in Nat
    BY BoundsAssumption DEF ChargeInv, Charged, TypeOK, StoresTypeOK, Lease
  <1>3. charged \subseteq turns
    BY DEF CommittedBy, AnswerInv, Answered
  <1>4. CASE turns = charged
    BY <1>2, <1>4
  <1>5. ASSUME NEW open \in turns, open \notin charged
        PROVE  Cardinality(turns) <= MaxTurns
    <2>1. /\ open \in Intents /\ open.lease = l
          /\ OnJournal(open) /\ ~intents[open].committed
      BY <1>5 DEF CommittedBy
    <2>2. open.seq = cursor + 1 /\ leases[l].turns < MaxTurns
      BY <1>1, <2>1 DEF QuotaInv
    <2>3. ASSUME NEW i \in turns, i \notin charged PROVE i = open
      <3>1. i \in Intents /\ OnJournal(i) /\ ~intents[i].committed
        BY <2>3 DEF CommittedBy
      <3>2. i.seq = cursor + 1
        BY <1>1, <3>1 DEF QuotaInv
      <3>3. QED
        BY <2>1, <2>2, <3>1, <3>2, SameOwner, OnJournalOwned
    <2>4. turns = charged \cup {open}
      BY <1>3, <2>3
    <2>5. Cardinality(turns) = Cardinality(charged) + 1
      BY <1>2, <1>5, <2>4, FS_AddElement
    <2>6. QED
      BY <1>2, <2>2, <2>5
  <1>6. QED
    BY <1>3, <1>4, <1>5

-----------------------------------------------------------------------------
(* The theorems.                                                           *)

RecordsInv ==
  /\ TypeOK /\ ThreadInv /\ DecisionInv /\ ObserversInv
  /\ OwnerInv /\ AnswerInv /\ PassedInv /\ ChargeInv /\ QuotaInv

LEMMA InitRecords == Init => RecordsInv
  BY InitType, InitThread, InitDecision, InitObservers, InitOwner, InitAnswer,
     InitPassed, InitCharge, InitQuota DEF RecordsInv

LEMMA NextRecords == RecordsInv /\ [Next]_vars => RecordsInv'
  <1>1. SUFFICES ASSUME RecordsInv, [Next]_vars PROVE RecordsInv'
    OBVIOUS
  <1>2. /\ TypeOK /\ ThreadInv /\ DecisionInv /\ ObserversInv
        /\ OwnerInv /\ AnswerInv /\ PassedInv /\ ChargeInv /\ QuotaInv
    BY <1>1 DEF RecordsInv
  <1>3. TypeOK' /\ ThreadInv' /\ DecisionInv' /\ ObserversInv'
    BY <1>1, <1>2, NextType, NextThread, NextDecision, NextObservers
  <1>4. OwnerInv' /\ AnswerInv' /\ PassedInv' /\ ChargeInv'
    BY <1>1, <1>2, <1>3, NextOwner, NextAnswer, NextPassed, NextCharge
  <1>5. QuotaInv'
    <2>1. CASE OperatorSeqs = {}
      BY <1>1, <1>2, <2>1, NextQuota
    <2>2. CASE OperatorSeqs # {}
      BY <2>2 DEF QuotaInv
    <2>3. QED
      BY <2>1, <2>2
  <1>6. QED
    BY <1>3, <1>4, <1>5 DEF RecordsInv

LEMMA RecordsInductive == Spec => []RecordsInv
  BY InitRecords, NextRecords, PTL DEF Spec

(* The consumer's cursor never passes an event without an operator's ACK,  *)
(* a decision whose rule fits the event, or a turn on the journal behind   *)
(* the event that is accounted to its lease.                               *)
THEOREM CursorCorrect == Spec => []CursorJustified
  <1>1. RecordsInv => CursorJustified
    BY DEF RecordsInv, PassedInv
  <1>2. QED
    BY <1>1, RecordsInductive, PTL

(* Task store, intents, dispositions and leases agree: an event has one    *)
(* answer, a lease counts exactly its accounted submissions, and the two   *)
(* records of an intervention end alike.                                   *)
THEOREM RecordsCorrect == Spec => []RecordsAgree
  <1>1. RecordsInv => OneAnswerPerEvent
    BY DEF RecordsInv, OwnerInv
  <1>2. RecordsInv => TurnAccounting
    BY DEF RecordsInv, ChargeInv, Charged, TurnAccounting
  <1>3. RecordsInv => CompletionAgreement
    <2>1. SUFFICES ASSUME RecordsInv PROVE CompletionAgreement
      OBVIOUS
    <2>2. ASSUME NEW i \in Intents, intents[i].state = "completed"
          PROVE  intents[i].committed /\ OnJournal(i) /\ cursor >= i.seq
      BY <2>1, <2>2 DEF RecordsInv, AnswerInv, Answered
    <2>3. ASSUME NEW n \in Seqs
          PROVE  Ruled(n) /\ Formed(n)
      BY <2>1 DEF RecordsInv, PassedInv, OwnerInv
    <2>4. QED
      BY <2>2, <2>3 DEF CompletionAgreement, Ruled, Formed
  <1>4. QED
    BY <1>1, <1>2, <1>3, RecordsInductive, PTL DEF RecordsAgree

(* Where no operator ACKs for the consumer, the turns a lease has put on   *)
(* the journal, those whose accounting a crash lost included, are at most  *)
(* its quota: an unaccounted turn holds the cursor on its event, and so    *)
(* the next intervention back.                                             *)
THEOREM LeaseBoundCorrect == Spec => []LeaseBoundsSystemTurns
  <1>1. RecordsInv => LeaseBoundsSystemTurns
    BY QuotaBounds DEF RecordsInv
  <1>2. QED
    BY <1>1, RecordsInductive, PTL

(* No step, of the worker, of an observer on stale evidence or after a     *)
(* crash, changes a decision's kind or owner, a settled disposition, an    *)
(* ended intent or a closed lease.                                         *)
THEOREM DecisionsFinal == Spec => DecisionsAreFinal
  <1> DEFINE Final ==
        /\ \A n \in Seqs : dispositions[n].kind # "none" =>
             /\ dispositions'[n].kind = dispositions[n].kind
             /\ dispositions[n].intent # NoLease =>
                  dispositions'[n].intent = dispositions[n].intent
             /\ dispositions[n].state \in Settled =>
                  dispositions'[n].state = dispositions[n].state
        /\ \A i \in Intents : intents[i].state \in Ended =>
             intents'[i].state = intents[i].state
        /\ \A l \in Leases : leases[l].state \in Closing =>
             leases'[l].state = leases[l].state
  <1>1. ASSUME RecordsInv, [Next]_vars PROVE Final
    <2>1. DispositionMoves /\ IntentMoves /\ ChargeMoves /\ OwnerInv
      BY <1>1, NextDispositions, NextCharges DEF RecordsInv
    <2>2. ASSUME NEW n \in Seqs, dispositions[n].kind # "none"
          PROVE  /\ dispositions'[n].kind = dispositions[n].kind
                 /\ dispositions[n].intent # NoLease =>
                      dispositions'[n].intent = dispositions[n].intent
                 /\ dispositions[n].state \in Settled =>
                      dispositions'[n].state = dispositions[n].state
      <3>1. DispositionMove(n) /\ Formed(n)
        BY <2>1 DEF DispositionMoves, OwnerInv
      <3>2. QED
        BY <2>2, <3>1 DEF DispositionMove, Decided, Bound, Acknowledged, Completed,
             Reviewed, Formed, Settled
    <2>3. ASSUME NEW i \in Intents, intents[i].state \in Ended
          PROVE  intents'[i].state = intents[i].state
      BY <2>1, <2>3 DEF IntentMoves, IntentMove, Ended, TerminalFailure
    <2>4. ASSUME NEW l \in Leases, leases[l].state \in Closing
          PROVE  leases'[l].state = leases[l].state
      BY <2>1, <2>4 DEF ChargeMoves, Counts, Uncounted, LeaseMove, Closing
    <2>5. QED
      BY <2>2, <2>3, <2>4
  <1>2. RecordsInv /\ [Next]_vars => [Final]_vars
    BY <1>1
  <1>3. QED
    BY <1>2, RecordsInductive, PTL DEF Spec, DecisionsAreFinal
=============================================================================
