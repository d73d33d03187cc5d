------------------------- MODULE DialogueResponder --------------------------
(***************************************************************************)
(* The service's worker thread and the observer processes at work on the   *)
(* stores of DialogueStores.                                               *)
(*                                                                         *)
(* The worker runs one live-control command or one Task at a time: it      *)
(* binds the thread, submits operator turns, creates and revokes leases,   *)
(* prepares and dispatches intents, executes Tasks and materialises their  *)
(* completions.  A command is several transactions; `step' says which one  *)
(* comes next and `target' what it is about.  The observer is a command of *)
(* its own process, takes no state lock, and so may run between any two    *)
(* transactions of the worker and beside another observer.                 *)
(*                                                                         *)
(* A read is merged with the transaction that follows it where no other    *)
(* process can invalidate it or where the outcome would be the same.       *)
(* Either process may stop between two transactions (Crash, ObserverStops),*)
(* also because a store answered "unavailable"; MaxFaults bounds that.     *)
(***************************************************************************)
EXTENDS DialogueStores

CONSTANTS
  Observers,     \* observer processes that may run at the same time
  OperatorSeqs,  \* sequences an operator may ACK by hand for the consumer
  DeclineSeqs,   \* sequences an operator may authorise a decline of
  MaxFaults      \* bound: crashes and unavailable stores

ASSUME OperatorAssumption == OperatorSeqs \subseteq Seqs /\ DeclineSeqs \subseteq Seqs
ASSUME FaultsAssumption   == MaxFaults \in Nat

VARIABLES
  step, target,  \* worker: the transaction it does next, and for what
  opc, oseq, okind,  \* observers: what each does next, for which sequence,
                     \* and the kind of decision it read the evidence for
  faults

workerVars   == <<step, target>>
observerVars == <<opc, oseq, okind>>
vars == <<tasks, journal, feed, matNext, cursor, leases, intents,
          dispositions, step, target, opc, oseq, okind, faults>>

IntentStep == {"prepare_disposition", "bind_disposition", "revalidate",
               "commit_submission", "ack_trigger", "complete_intent",
               "complete_disposition", "terminalize_disposition"}
WorkerStep == IntentStep \cup {"idle", "create_lease", "replace_head"}
ObserverStep == {"idle", "prepare", "revalidate", "acknowledge"}

TypeOK ==
  /\ StoresTypeOK
  /\ step \in WorkerStep
  /\ target \in Leases \cup TaskIds \cup {NoTask}
  /\ step \in IntentStep => target \in Intents
  /\ step = "create_lease" => target \in Leases
  /\ step = "replace_head" => target \in Requests \cup Intents
  /\ step = "idle" => target = NoTask
  /\ opc \in [Observers -> ObserverStep]
  /\ oseq \in [Observers -> Seqs]
  /\ okind \in [Observers -> DispositionKind]
  /\ faults \in 0 .. MaxFaults

(* Every Task store begins with the canonical root Task the thread will be *)
(* bound to; the sidecars begin empty.                                     *)
Init ==
  /\ tasks = [t \in TaskIds |->
       [status |-> IF t = Root THEN "succeeded" ELSE "absent",
        pred |-> NoTask]]
  /\ journal = <<>>
  /\ feed = <<>> /\ matNext = 0 /\ cursor = 0
  /\ leases = [l \in Leases |-> [state |-> "none", turns |-> 0,
                                 overdue |-> FALSE, resting |-> FALSE]]
  /\ intents = [i \in Intents |-> [state |-> "none", overdue |-> FALSE,
                                   committed |-> FALSE]]
  /\ dispositions = [n \in Seqs |-> [kind |-> "none", state |-> "none",
                                     stamp |-> NoLease, intent |-> NoLease]]
  /\ step = "idle" /\ target = NoTask
  /\ opc = [o \in Observers |-> "idle"]
  /\ oseq = [o \in Observers |-> 1]
  /\ okind = [o \in Observers |-> "none"]
  /\ faults = 0

Goto(s, t) == step' = s /\ target' = t

Finish == Goto("idle", NoTask)

-----------------------------------------------------------------------------
(* Thread, Tasks and completion feed.                                      *)

BindThread ==
  /\ step = "idle"
  /\ journal = <<>>
  /\ journal' = <<Root>>
  /\ UNCHANGED <<tasks, feedVars, cursor, responderVars, workerVars,
                 observerVars, faults>>

(* An operator turn on the current head: the Task becomes durable first,   *)
(* the thread advances to it in a second transaction (ReplaceHead).        *)
SubmitRequest(r) ==
  /\ step = "idle"
  /\ Len(journal) <= MaxRevision
  /\ Submittable(r)
  /\ tasks' = Submitted(r, PreferredHead)
  /\ Goto("replace_head", r)
  /\ UNCHANGED <<journal, feedVars, cursor, responderVars, observerVars,
                 faults>>

(* The compare-and-swap of the head: the same worker read it, so it holds. *)
ReplaceHead ==
  /\ step = "replace_head"
  /\ journal' = Append(journal, target)
  /\ IF target \in Intents THEN Goto("commit_submission", target) ELSE Finish
  /\ UNCHANGED <<tasks, feedVars, cursor, responderVars, observerVars, faults>>

RunTask(t) ==
  /\ step = "idle"
  /\ tasks[t].status = "queued"
  /\ \E outcome \in {"succeeded", "failed"} :
       tasks' = [tasks EXCEPT ![t].status = outcome]
  /\ UNCHANGED <<journal, feedVars, cursor, responderVars, workerVars,
                 observerVars, faults>>

CanonicalSuccess(t) == tasks[t].status = "succeeded"

(* One revision of the reconciliation loop.  A head that ended without a   *)
(* canonical success blocks it for good.                                   *)
Materialize ==
  /\ step = "idle"
  /\ matNext < Len(journal)
  /\ CanonicalSuccess(journal[matNext + 1])
  /\ feed' = Materialized(journal[matNext + 1])
  /\ matNext' = matNext + 1
  /\ UNCHANGED <<threadVars, cursor, responderVars, workerVars, observerVars,
                 faults>>

(* The live-control acknowledgement names any consumer, this one included. *)
OperatorAck(n) ==
  /\ step = "idle"
  /\ IsNext(n)
  /\ cursor' = n
  /\ UNCHANGED <<threadVars, feedVars, responderVars, workerVars,
                 observerVars, faults>>

-----------------------------------------------------------------------------
(* Leases.                                                                 *)

(* An overdue active lease is closed first, in a transaction of its own.   *)
CreateLease(l) ==
  /\ step = "idle"
  /\ \/ \E old \in Leases :
          /\ Expirable(old)
          /\ leases' = Closed(old, "expired")
          /\ Goto("create_lease", l)
     \/ /\ \A old \in Leases : ~Expirable(old)
        /\ Creatable(l)
        /\ leases' = [leases EXCEPT ![l] = FreshLease]
        /\ UNCHANGED workerVars
  /\ UNCHANGED <<threadVars, feedVars, cursor, intents, dispositions,
                 observerVars, faults>>

CreateLeaseAfterExpiry ==
  /\ step = "create_lease"
  /\ leases' = IF Creatable(target)
                 THEN [leases EXCEPT ![target] = FreshLease] ELSE leases
  /\ Finish
  /\ UNCHANGED <<threadVars, feedVars, cursor, intents, dispositions,
                 observerVars, faults>>

RevokeLease(l) ==
  /\ step = "idle"
  /\ leases[l].state = "active"
  /\ leases' = Closed(l, "revoked")
  /\ UNCHANGED <<threadVars, feedVars, cursor, intents, dispositions,
                 workerVars, observerVars, faults>>

-----------------------------------------------------------------------------
(* prepare: intent, disposition, binding.  Three transactions.             *)

PrepareOnExpiredLease(l) ==
  /\ step = "idle"
  /\ Expirable(l)
  /\ leases' = Closed(l, "expired")
  /\ UNCHANGED <<threadVars, feedVars, cursor, intents, dispositions,
                 workerVars, observerVars, faults>>

PrepareIntent(i) ==
  /\ step = "idle"
  /\ Eligible(i.lease)
  /\ IsNext(i.seq) /\ IsHuman(i.seq) /\ IsCurrent(i.seq)
  /\ intents[i].state \in {"none", "prepared"}
  /\ Len(journal) <= MaxRevision
  /\ intents' = PreparedIntent(i)
  /\ Goto("prepare_disposition", i)
  /\ UNCHANGED <<threadVars, feedVars, cursor, leases, dispositions,
                 observerVars, faults>>

(* A disposition found for the event must carry this intent's creation     *)
(* time and still be unbound; any other ends the command.                  *)
PrepareDisposition ==
  LET n == target.seq IN
  /\ step = "prepare_disposition"
  /\ \/ /\ dispositions[n].kind = "none"
        /\ dispositions' = PreparedDisposition(n, "intervention", target.lease)
        /\ Goto("bind_disposition", target)
     \/ /\ dispositions[n].kind = "intervention"
        /\ dispositions[n].stamp = target.lease
        /\ dispositions[n].state = "prepared"
        /\ Goto("bind_disposition", target)
        /\ UNCHANGED dispositions
     \/ /\ dispositions[n].kind # "none"
        /\ \/ dispositions[n].kind # "intervention"
           \/ dispositions[n].stamp # target.lease
           \/ dispositions[n].state # "prepared"
        /\ Finish
        /\ UNCHANGED dispositions
  /\ UNCHANGED <<threadVars, feedVars, cursor, leases, intents, observerVars,
                 faults>>

BindDisposition ==
  /\ step = "bind_disposition"
  /\ dispositions' =
       IF Bindable(target)
         THEN [dispositions EXCEPT ![target.seq].state = "intervention_bound",
                                   ![target.seq].intent = target.lease]
         ELSE dispositions
  /\ Finish
  /\ UNCHANGED <<threadVars, feedVars, cursor, leases, intents, observerVars,
                 faults>>

-----------------------------------------------------------------------------
(* dispatch: Task, head, accounting, ACK, intent, disposition.             *)

BoundTo(i) ==
  /\ OwnedBy(i.seq, i)
  /\ dispositions[i.seq].state = "intervention_bound"

(* Retry of an intent that already ended: finish the other half.           *)
DispatchEnded_Ignored(i) == FALSE /\ UNCHANGED vars  \* mutant
DispatchEnded(i) ==
  /\ step = "idle"
  /\ BoundTo(i)
  /\ \/ /\ intents[i].state = "completed"
        /\ Goto("complete_disposition", i)
     \/ /\ intents[i].state \in TerminalFailure
        /\ Goto("terminalize_disposition", i)
  /\ UNCHANGED <<threadVars, feedVars, cursor, responderVars, observerVars,
                 faults>>

DispatchPrepared(i) ==
  /\ step = "idle"
  /\ BoundTo(i)
  /\ intents[i].state = "prepared"
  /\ leases' = IF Expirable(i.lease) THEN Closed(i.lease, "expired")
                                     ELSE leases
  /\ Goto("revalidate", i)
  /\ UNCHANGED <<threadVars, feedVars, cursor, intents, dispositions,
                 observerVars, faults>>

DispatchSubmitted(i) ==
  /\ step = "idle"
  /\ BoundTo(i)
  /\ intents[i].state = "submitted"
  /\ Goto("ack_trigger", i)
  /\ UNCHANGED <<threadVars, feedVars, cursor, responderVars, observerVars,
                 faults>>

TriggerNext(i)  == IsNext(i.seq)
OriginalHead_Rebased(i) == feed[i.seq].rev <= Revision  \* mutant
OriginalHead(i) == IsCurrent(i.seq)
HeadAdvanced(i) == Revision = feed[i.seq].rev + 1
(* submit_local_goose_dialogue_v3_preferred: the head is this very turn.   *)
AlreadyHead(i)  == HeadAdvanced(i) /\ PreferredHead = i
MayDispatch(i)  == Eligible(i.lease) /\ ~intents[i].overdue

(* terminalize_intervention, first half; the disposition follows.          *)
Terminalize(i, terminal) ==
  /\ intents' = Terminalized(i, terminal)
  /\ Goto("terminalize_disposition", i)

(* The lease lost its authority.  A Task already on the head, or known for *)
(* the advanced head, goes to manual review; else the intent just ends.    *)
RevalidateIneligible ==
  /\ step = "revalidate"
  /\ ~MayDispatch(target)
  /\ IF TriggerNext(target) /\ HeadAdvanced(target)
          /\ (AlreadyHead(target) \/ tasks[target].status # "absent")
       THEN Terminalize(target, "manual_review")
       ELSE Terminalize(target,
              IF intents[target].overdue
                   \/ leases[target.lease].state = "expired"
                THEN "expired" ELSE "conflict")
  /\ UNCHANGED <<threadVars, feedVars, cursor, leases, dispositions,
                 observerVars, faults>>

RevalidateStale ==
  /\ step = "revalidate"
  /\ MayDispatch(target)
  /\ \/ ~TriggerNext(target)
     \/ ~OriginalHead(target) /\ ~HeadAdvanced(target)
  /\ Terminalize(target, "conflict")
  /\ UNCHANGED <<threadVars, feedVars, cursor, leases, dispositions,
                 observerVars, faults>>

(* First attempt: the Task becomes durable.  The trigger is the head's     *)
(* completion, so the head has a canonical success to succeed.             *)
SubmitTurn ==
  /\ step = "revalidate"
  /\ MayDispatch(target) /\ TriggerNext(target) /\ OriginalHead(target)
  /\ IF Submittable(target)
       THEN /\ tasks' = Submitted(target, PreferredHead)
            /\ Goto("replace_head", target)
            /\ UNCHANGED intents
       ELSE /\ Terminalize(target, IF tasks[target].status = "absent"
                                     THEN "conflict" ELSE "manual_review")
            /\ UNCHANGED tasks
  /\ UNCHANGED <<journal, feedVars, cursor, leases, dispositions,
                 observerVars, faults>>

(* Retry after the head moved by one: to this turn, or to another one.     *)
ResubmitTurn ==
  /\ step = "revalidate"
  /\ MayDispatch(target) /\ TriggerNext(target) /\ HeadAdvanced(target)
  /\ IF AlreadyHead(target)
       THEN Goto("commit_submission", target) /\ UNCHANGED intents
       ELSE Terminalize(target, IF tasks[target].status = "absent"
                                  THEN "conflict" ELSE "manual_review")
  /\ UNCHANGED <<threadVars, feedVars, cursor, leases, dispositions,
                 observerVars, faults>>

CommitSubmission ==
  /\ step = "commit_submission"
  /\ IF Committable(target)
       THEN Commit(target) /\ Goto("ack_trigger", target)
       ELSE Terminalize(target, "manual_review") /\ UNCHANGED leases
  /\ UNCHANGED <<threadVars, feedVars, cursor, dispositions, observerVars,
                 faults>>

AckTrigger_Skipped ==  \* mutant
  /\ step = "ack_trigger"
  /\ Goto("complete_intent", target)
  /\ UNCHANGED <<threadVars, feedVars, cursor, responderVars, observerVars,
                 faults>>
(* The ACK, after disposition, Task, head and cursor are checked again.    *)
AckTrigger ==
  /\ step = "ack_trigger"
  /\ BoundTo(target)
  /\ IF AlreadyHead(target) /\ (cursor = target.seq \/ TriggerNext(target))
       THEN /\ cursor' = target.seq
            /\ Goto("complete_intent", target)
            /\ UNCHANGED intents
       ELSE /\ Terminalize(target, "manual_review")
            /\ UNCHANGED cursor
  /\ UNCHANGED <<threadVars, feedVars, leases, dispositions, observerVars,
                 faults>>

CompleteIntent ==
  /\ step = "complete_intent"
  /\ intents[target].state = "submitted"
  /\ intents' = [intents EXCEPT ![target].state = "completed"]
  /\ Goto("complete_disposition", target)
  /\ UNCHANGED <<threadVars, feedVars, cursor, leases, dispositions,
                 observerVars, faults>>

CompleteDisposition ==
  /\ step = "complete_disposition"
  /\ dispositions' =
       IF CompletableDisposition(target)
         THEN [dispositions EXCEPT ![target.seq].state = "completed"]
         ELSE dispositions
  /\ Finish
  /\ UNCHANGED <<threadVars, feedVars, cursor, leases, intents, observerVars,
                 faults>>

(* reconcile_terminal_intervention_disposition.                            *)
TerminalizeDisposition ==
  /\ step = "terminalize_disposition"
  /\ dispositions' = IF BoundTo(target) THEN InReview(target.seq)
                                        ELSE dispositions
  /\ Finish
  /\ UNCHANGED <<threadVars, feedVars, cursor, leases, intents, observerVars,
                 faults>>

-----------------------------------------------------------------------------
(* Observers.  Each transaction finds the state the others left.           *)

PreparedSeqs == {n \in Seqs : dispositions[n].state = "prepared"}
Earliest(n) == n \in PreparedSeqs /\ \A m \in PreparedSeqs : n <= m
AckedBefore(n) == cursor = n

ObserverGoto(o, s, n, kind) ==
  /\ opc' = [opc EXCEPT ![o] = s]
  /\ oseq' = [oseq EXCEPT ![o] = n]
  /\ okind' = [okind EXCEPT ![o] = kind]
ObserverRests(o) == ObserverGoto(o, "idle", 1, "none")

(* The oldest decision left behind is settled before a new one is taken.   *)
(* A prepared intervention is left to the dispatcher.  The command first   *)
(* wants the event it was started for: the next one, or the one the cursor *)
(* stands on if that is the decision to recover.                           *)
ObserverRecover(o) ==
  /\ opc[o] = "idle"
  /\ \E n \in Seqs :
       /\ Earliest(n)
       /\ dispositions[n].kind # "intervention"
       /\ cursor = n \/ cursor < Len(feed)
       /\ \/ /\ AckedBefore(n)
             /\ ObserverGoto(o, "acknowledge", n, "none")
             /\ UNCHANGED <<cursor, dispositions>>
          \/ /\ IsNext(n)
             /\ cursor' = n
             /\ ObserverGoto(o, "acknowledge", n, "none")
             /\ UNCHANGED dispositions
          \/ /\ ~AckedBefore(n) /\ ~IsNext(n)
             /\ dispositions' = InReview(n)
             /\ UNCHANGED <<cursor, observerVars>>
  /\ UNCHANGED <<threadVars, feedVars, leases, intents, workerVars, faults>>

(* Event and head agree, and no decision exists yet.                       *)
Undecided(n) ==
  /\ IsNext(n)
  /\ feed[n].rev < Revision \/ IsCurrent(n)
  /\ dispositions[n].kind = "none"

(* What the event and the head alone say of a non-intervention decision.   *)
RuleHolds(n, kind) ==
  \/ kind = "structural_skip_system" /\ ~IsHuman(n)
  \/ kind = "structural_skip_stale" /\ IsHuman(n) /\ feed[n].rev < Revision
  \/ kind = "explicit_decline" /\ IsHuman(n) /\ IsCurrent(n)

(* Structural skips are the observer's own; a decline is an operator's     *)
(* typed authorisation for exactly this event and head.  Nothing is        *)
(* written yet, and the evidence may be out of date when it is.            *)
ObserverDecide(o, n, kind) ==
  /\ opc[o] = "idle"
  /\ kind \in StructuralKind => PreparedSeqs = {}
  /\ Undecided(n)
  /\ RuleHolds(n, kind)
  /\ ObserverGoto(o, "prepare", n, kind)
  /\ UNCHANGED <<threadVars, feedVars, cursor, responderVars, workerVars,
                 faults>>

(* The store only refuses a second decision of the event.  The same        *)
(* decision of another observer, made in the same millisecond, is a        *)
(* duplicate and both go on.                                               *)
ObserverPrepare(o) ==
  LET n == oseq[o]
      candidate == PreparedDisposition(n, okind[o], NoLease)
  IN
  /\ opc[o] = "prepare"
  /\ \/ /\ dispositions[n].kind = "none" \/ dispositions = candidate
        /\ dispositions' = candidate
        /\ ObserverGoto(o, "revalidate", n, okind[o])
     \/ /\ dispositions[n].kind # "none"
        /\ ObserverRests(o)
        /\ UNCHANGED dispositions
  /\ UNCHANGED <<threadVars, feedVars, cursor, leases, intents, workerVars,
                 faults>>

(* The rule is checked again, from the event and the head only.            *)
ObserverAck(o) ==
  LET n == oseq[o] IN
  /\ opc[o] = "revalidate"
  /\ IF IsNext(n) /\ RuleHolds(n, okind[o])
       THEN /\ cursor' = n
            /\ ObserverGoto(o, "acknowledge", n, "none")
            /\ UNCHANGED dispositions
       ELSE /\ dispositions' = InReview(n)
            /\ ObserverRests(o)
            /\ UNCHANGED cursor
  /\ UNCHANGED <<threadVars, feedVars, leases, intents, workerVars, faults>>

ObserverAcknowledge(o) ==
  LET n == oseq[o] IN
  /\ opc[o] = "acknowledge"
  /\ dispositions' = IF Acknowledgeable(n)
                       THEN [dispositions EXCEPT ![n].state = "acknowledged"]
                       ELSE dispositions
  /\ ObserverRests(o)
  /\ UNCHANGED <<threadVars, feedVars, cursor, leases, intents, workerVars,
                 faults>>

-----------------------------------------------------------------------------
(* Time.  A dispatch reads the clock once, before it revalidates.          *)

(* An intent never outlives its lease.                                     *)
LeaseDeadline(l) ==
  /\ step # "revalidate"
  /\ leases[l].state = "active" /\ ~leases[l].overdue
  /\ leases' = [leases EXCEPT ![l].overdue = TRUE]
  /\ intents' = [i \in Intents |->
       IF i.lease = l /\ intents[i].state = "prepared"
         THEN [intents[i] EXCEPT !.overdue = TRUE] ELSE intents[i]]
  /\ UNCHANGED <<threadVars, feedVars, cursor, dispositions, workerVars,
                 observerVars, faults>>

IntentDeadline(i) ==
  /\ step # "revalidate"
  /\ intents[i].state = "prepared" /\ ~intents[i].overdue
  /\ intents' = [intents EXCEPT ![i].overdue = TRUE]
  /\ UNCHANGED <<threadVars, feedVars, cursor, leases, dispositions,
                 workerVars, observerVars, faults>>

IntervalElapses(l) ==
  /\ step # "revalidate"
  /\ leases[l].resting
  /\ leases' = [leases EXCEPT ![l].resting = FALSE]
  /\ UNCHANGED <<threadVars, feedVars, cursor, intents, dispositions,
                 workerVars, observerVars, faults>>

-----------------------------------------------------------------------------
(* Faults.                                                                 *)

Fault == faults < MaxFaults /\ faults' = faults + 1

(* The service stops, or a store is unavailable, between two transactions. *)
Crash ==
  /\ Fault
  /\ step # "idle"
  /\ Finish
  /\ UNCHANGED <<threadVars, feedVars, cursor, responderVars, observerVars>>

(* Unavailable stores the dispatcher answers with manual review.           *)
WriteUnavailable ==
  /\ Fault
  /\ step \in {"replace_head", "commit_submission"}
  /\ target \in Intents
  /\ Terminalize(target, "manual_review")
  /\ UNCHANGED <<threadVars, feedVars, cursor, leases, dispositions,
                 observerVars>>

ObserverStops(o) ==
  /\ Fault
  /\ opc[o] # "idle"
  /\ ObserverRests(o)
  /\ UNCHANGED <<threadVars, feedVars, cursor, responderVars, workerVars>>

-----------------------------------------------------------------------------
Dispatch(i) ==
  DispatchEnded(i) \/ DispatchPrepared(i) \/ DispatchSubmitted(i)

(* The worker finishes the command it is in. *)
Proceed ==
  \/ ReplaceHead \/ CreateLeaseAfterExpiry
  \/ PrepareDisposition \/ BindDisposition
  \/ RevalidateIneligible \/ RevalidateStale \/ SubmitTurn \/ ResubmitTurn
  \/ CommitSubmission \/ AckTrigger \/ CompleteIntent \/ CompleteDisposition
  \/ TerminalizeDisposition

Observe(o) ==
  \/ ObserverRecover(o)
  \/ \E n \in Seqs, kind \in StructuralKind : ObserverDecide(o, n, kind)
  \/ ObserverPrepare(o) \/ ObserverAck(o) \/ ObserverAcknowledge(o)

Decline(o) == \E n \in DeclineSeqs : ObserverDecide(o, n, "explicit_decline")

Next ==
  \/ BindThread \/ Materialize \/ Proceed
  \/ \E r \in Requests : SubmitRequest(r)
  \/ \E t \in TaskIds : RunTask(t)
  \/ \E n \in OperatorSeqs : OperatorAck(n)
  \/ \E l \in Leases :
       \/ CreateLease(l) \/ RevokeLease(l) \/ PrepareOnExpiredLease(l)
       \/ LeaseDeadline(l) \/ IntervalElapses(l)
  \/ \E i \in Intents : PrepareIntent(i) \/ Dispatch(i) \/ IntentDeadline(i)
  \/ \E o \in Observers : Observe(o) \/ Decline(o) \/ ObserverStops(o)
  \/ Crash \/ WriteUnavailable

Spec == Init /\ [][Next]_vars
=============================================================================
