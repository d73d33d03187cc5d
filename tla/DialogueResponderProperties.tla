-------------------- MODULE DialogueResponderProperties ---------------------
(***************************************************************************)
(* What must be true of the dialogue responder, whatever the worker, the   *)
(* observers, the operator, the clock and the faults do.                   *)
(***************************************************************************)
EXTENDS DialogueResponder

OnJournal(t) == \E k \in 1 .. Len(journal) : journal[k] = t

(* The completion feed is the journal, one event per revision, in order,   *)
(* none twice and none skipped, and only of Tasks whose canonical result   *)
(* is durable: a crash between any two revisions loses no completion       *)
(* (append_for_revision and its materialisation cursor).                   *)
FeedMirrorsJournal ==
  /\ matNext = Len(feed)
  /\ Len(feed) <= Len(journal)
  /\ \A n \in 1 .. Len(feed) :
       /\ feed[n] = [rev |-> n - 1, task |-> journal[n]]
       /\ tasks[journal[n]].status = "succeeded"

(* A turn stands directly behind the turn it answers and stands only once, *)
(* although its Task is durable before the head moves and the request may  *)
(* be retried after other turns were taken (preferred-head CAS).           *)
JournalFollowsPredecessors ==
  /\ \A k \in 2 .. Len(journal) : tasks[journal[k]].pred = journal[k - 1]
  /\ \A j, k \in 1 .. Len(journal) : journal[j] = journal[k] => j = k

(* The durable decision that entitles the consumer to be past an event.    *)
Justified(n) ==
  LET d == dispositions[n]
      i == [lease |-> d.intent, seq |-> n]
  IN  \/ d.kind = "structural_skip_system" /\ ~IsHuman(n)
      \/ d.kind = "structural_skip_stale" /\ IsHuman(n) /\ n < Len(journal)
      \/ d.kind = "explicit_decline" /\ IsHuman(n)
      \/ /\ d.kind = "intervention" /\ d.intent # NoLease
         /\ intents[i].committed
         /\ n < Len(journal) /\ journal[n + 1] = i

(* The consumer never passes an event unexplained: behind every ACK stands *)
(* an operator, a decision whose rule fits the event, or an intervention   *)
(* whose turn is on the journal behind the event and accounted to a lease. *)
(* ("never ACK before canonical dispatch reconciliation succeeds")         *)
CursorJustified ==
  /\ cursor <= Len(feed)
  /\ \A n \in 1 .. cursor : n \in OperatorSeqs \/ Justified(n)

(* An event gets at most one responder Task, that Task's intent owns the   *)
(* event's only disposition, and so no event is both answered and declined *)
(* or skipped, whichever of worker and observer decides first.             *)
OneAnswerPerEvent ==
  \A i \in Intents :
    tasks[i].status # "absent" => OwnedBy(i.seq, i)

CommittedBy(l) == {i \in Intents : i.lease = l /\ intents[i].committed}

(* A lease's turn count is the number of its accounted submissions, also   *)
(* after crashes and retries, and it is spent exactly when it is full.     *)
TurnAccounting ==
  \A l \in Leases :
    /\ leases[l].turns = Cardinality(CommittedBy(l))
    /\ leases[l].state = "active" => leases[l].turns < MaxTurns
    /\ leases[l].state = "exhausted" => leases[l].turns = MaxTurns

(* Two records of one intervention never disagree about its end: a         *)
(* completed disposition has a completed intent, a completed intent is     *)
(* accounted and its trigger ACKed, and an acknowledged decision is ACKed. *)
CompletionAgreement ==
  /\ \A i \in Intents :
       intents[i].state = "completed" =>
         intents[i].committed /\ OnJournal(i) /\ cursor >= i.seq
  /\ \A n \in Seqs :
       /\ dispositions[n].state = "acknowledged" => cursor >= n
       /\ dispositions[n].state = "completed" =>
            /\ dispositions[n].intent # NoLease
            /\ intents[[lease |-> dispositions[n].intent, seq |-> n]].state
                 = "completed"

(* The thread and its feed are sound: turn behind turn, event behind event.*)
ThreadSound == FeedMirrorsJournal /\ JournalFollowsPredecessors

(* The stores that hold an event's answer, the Tasks, the intents, the     *)
(* dispositions and the leases, agree on which it is, on how it ended and  *)
(* on whom it was charged to.                                              *)
RecordsAgree == OneAnswerPerEvent /\ TurnAccounting /\ CompletionAgreement

Settled == {"acknowledged", "completed", "manual_review"}
Ended   == {"completed"} \cup TerminalFailure
Closing == {"exhausted", "expired", "revoked"}

(* What is decided stays decided: no step, of a retry or of a second       *)
(* observer working on what it read earlier, changes the kind or owner of  *)
(* a disposition or moves a settled one, an ended intent or a closed lease.*)
DecisionsAreFinal ==
  [][ /\ \A n \in Seqs : dispositions[n].kind # "none" =>
           /\ dispositions'[n].kind = dispositions[n].kind
           /\ dispositions[n].intent # NoLease =>
                dispositions'[n].intent = dispositions[n].intent
           /\ dispositions[n].state \in Settled =>
                dispositions'[n].state = dispositions[n].state
      /\ \A i \in Intents : intents[i].state \in Ended =>
           intents'[i].state = intents[i].state
      /\ \A l \in Leases : leases[l].state \in Closing =>
           leases'[l].state = leases[l].state ]_vars

(* The stores, the crash-recovery order and the observers implement the    *)
(* abstract promise: one decision per event, one answer behind it, events  *)
(* passed in order.                                                        *)
Promise == INSTANCE ResponderPromise WITH
  thread   <- journal,
  decision <- [n \in Seqs |-> dispositions[n].kind],
  passed   <- cursor
ImplementsPromise == Promise!Spec

-----------------------------------------------------------------------------
(* Where no operator ACKs for the responder's consumer.                    *)

(* A lease never puts more turns on the journal than its quota, not even   *)
(* turns whose accounting was lost in a crash: the unfinished intervention *)
(* holds the cursor, and so the next one back.                             *)
LeaseBoundsSystemTurns ==
  OperatorSeqs = {} =>
    \A l \in Leases :
      Cardinality({i \in Intents : i.lease = l /\ OnJournal(i)}) <= MaxTurns

-----------------------------------------------------------------------------
(* The operator repeats a dispatch that did not finish, and the worker's   *)
(* mailbox hands it on; the operator repeats the observer command for the  *)
(* event that is next; a started command goes on until it ends or a fault  *)
(* stops it.                                                               *)
RetryingSpec ==
  /\ Spec
  /\ WF_vars(Proceed)
  /\ \A i \in Intents : SF_vars(Dispatch(i))
  /\ \A o \in Observers : WF_vars(Observe(o))

(* Every intervention bound to its intent ends, completed or in review,    *)
(* wherever faults, deadlines and other turns interrupt its dispatch.      *)
BoundInterventionSettles ==
  \A n \in Seqs :
    dispositions[n].state = "intervention_bound" ~>
      dispositions[n].state \in Settled

(* Every skip or decline that was made durable is settled, also one whose  *)
(* ACK the consumer overtook: only when no event ever follows the one the  *)
(* consumer has passed, there is nothing to start a command for.           *)
ObserverDecisionSettles ==
  \A n \in Seqs :
    Acknowledgeable(n) ~>
      \/ dispositions[n].state \in Settled
      \/ [](cursor > n /\ cursor = Len(feed))

(* What is decided comes to its end.                                       *)
DecisionsSettle == BoundInterventionSettles /\ ObserverDecisionSettles
=============================================================================
