--------------------------- MODULE DialogueStores ---------------------------
(***************************************************************************)
(* The durable state behind the Local Goose dialogue responder, and what   *)
(* one transaction of each store does to it.                               *)
(*                                                                         *)
(* Five SQLite files take part: the Task store of the work runtime, the    *)
(* preferred-thread store (head and journal of one thread), the completion *)
(* feed (events, materialisation cursor, cursor of the responder's         *)
(* consumer) and the responder sidecar (leases, intents, dispositions).    *)
(* Every definition below stands for one BEGIN IMMEDIATE ... COMMIT block. *)
(* No transaction spans two stores: the order in which DialogueResponder   *)
(* uses these definitions is the crash-consistency protocol.               *)
(*                                                                         *)
(* Identities in the code are digests of the evidence they name, so they   *)
(* are modelled by that evidence: an intent is its lease and the sequence  *)
(* of its trigger, and it doubles as the identity of the one Task it may   *)
(* submit; a disposition is the sequence it decides.  Message bytes only   *)
(* matter for telling a retry from a different request and a different     *)
(* request changes no store, so they are left out.                         *)
(***************************************************************************)
EXTENDS Naturals, Sequences, FiniteSets

CONSTANTS
  Leases,          \* lease ids an operator may use
  Requests,        \* request ids of turns submitted through live control
  SystemRequests,  \* those of Requests whose declared speaker is "system"
  Root,            \* the dialogue Task the thread is bound to (revision 0)
  NoTask, NoLease, \* sentinels
  MaxTurns,        \* max_system_turns of every lease
  MaxRevision      \* bound: the highest thread revision of the instance

Seqs    == 1 .. (MaxRevision + 1)
Intents == [lease : Leases, seq : Seqs]
TaskIds == {Root} \cup Requests \cup Intents

ASSUME BoundsAssumption ==
  /\ MaxTurns \in Nat \ {0}
  /\ MaxRevision \in Nat

ASSUME IdentityAssumption ==
  /\ SystemRequests \subseteq Requests
  /\ Root \notin Requests \cup Intents
  /\ Requests \cap Intents = {}
  /\ NoTask \notin TaskIds
  /\ NoLease \notin Leases

VARIABLES
  tasks,        \* Task store: status and predecessor of every Task id
  journal,      \* thread store: the head Task of each revision, from 0
  feed,         \* completion feed: event n is what sequence n says
  matNext,      \* completion feed: next thread revision to materialise
  cursor,       \* completion feed: last sequence the consumer ACKed
  leases, intents, dispositions   \* responder sidecar

threadVars    == <<tasks, journal>>
feedVars      == <<feed, matNext>>
responderVars == <<leases, intents, dispositions>>

TaskStatus       == {"absent", "queued", "succeeded", "failed"}
LeaseState       == {"none", "active", "exhausted", "expired", "revoked"}
IntentState      == {"none", "prepared", "submitted", "completed",
                     "conflict", "expired", "manual_review"}
TerminalFailure  == {"conflict", "expired", "manual_review"}
StructuralKind   == {"structural_skip_system", "structural_skip_stale"}
DispositionKind  == StructuralKind
                      \cup {"none", "explicit_decline", "intervention"}
DispositionState == {"none", "prepared", "acknowledged",
                     "intervention_bound", "completed", "manual_review"}

(* overdue: the clock has reached expires_at_ms.  resting: it has not yet  *)
(* reached next_eligible_at_ms.  The clock itself is not needed.           *)
Lease  == [state : LeaseState, turns : 0 .. MaxTurns,
           overdue : BOOLEAN, resting : BOOLEAN]

(* committed: the submission evidence (Task id, revision, time) is stored. *)
Intent == [state : IntentState, overdue : BOOLEAN, committed : BOOLEAN]

(* stamp: the lease of the intent whose creation time the disposition      *)
(* copied; intent: the lease of the intent it is bound to.                 *)
Disposition == [kind : DispositionKind, state : DispositionState,
                stamp : Leases \cup {NoLease},
                intent : Leases \cup {NoLease}]

Event == [rev : Nat, task : TaskIds]

StoresTypeOK ==
  /\ tasks \in [TaskIds -> [status : TaskStatus,
                            pred : TaskIds \cup {NoTask}]]
  /\ journal \in Seq(TaskIds)
  /\ feed \in Seq(Event)
  /\ matNext \in Nat
  /\ cursor \in Nat
  /\ leases \in [Leases -> Lease]
  /\ intents \in [Intents -> Intent]
  /\ dispositions \in [Seqs -> Disposition]

-----------------------------------------------------------------------------
(* Task store and preferred thread.                                        *)

PreferredHead == journal[Len(journal)]
Revision      == Len(journal) - 1

Speaker(t) == IF t \in Intents \cup SystemRequests THEN "system" ELSE "human"

(* Runtime::submit: a known idempotency key leaves the stored Task alone.  *)
Submitted(t, predecessor) ==
  IF tasks[t].status = "absent"
    THEN [tasks EXCEPT ![t] = [status |-> "queued", pred |-> predecessor]]
    ELSE tasks

Submittable_AnyPredecessor(t) ==  \* mutant
  journal # <<>> /\ tasks[PreferredHead].status = "succeeded"
(* The request id is free, or names the very Task this request would build *)
(* on the current head.                                                    *)
Submittable(t) ==
  /\ journal # <<>>
  /\ tasks[PreferredHead].status = "succeeded"
  /\ tasks[t].status # "absent" => tasks[t].pred = PreferredHead

-----------------------------------------------------------------------------
(* Completion feed.                                                        *)

IsNext_Gap(n) == n > cursor /\ n <= Len(feed)  \* mutant
IsNext(n)    == n = cursor + 1 /\ n <= Len(feed)
IsCurrent(n) == feed[n].rev = Revision /\ feed[n].task = PreferredHead
IsHuman(n)   == Speaker(feed[n].task) = "human"

(* The next revision's completion gets the next sequence.                  *)
Materialized(t) == Append(feed, [rev |-> matNext, task |-> t])

-----------------------------------------------------------------------------
(* Responder sidecar: leases.                                              *)

ActiveLeases == {l \in Leases : leases[l].state = "active"}
Expirable(l) == leases[l].state = "active" /\ leases[l].overdue

(* The lease id is new, and no other lease is active.                      *)
Creatable(l) == leases[l].state = "none" /\ ActiveLeases = {}

FreshLease == [state |-> "active", turns |-> 0,
               overdue |-> FALSE, resting |-> FALSE]

Closed(l, terminal) ==
  IF leases[l].state = "active"
    THEN [leases EXCEPT ![l].state = terminal]
    ELSE leases

Eligible(l) ==
  /\ leases[l].state = "active"
  /\ ~leases[l].overdue
  /\ ~leases[l].resting
  /\ leases[l].turns < MaxTurns

-----------------------------------------------------------------------------
(* Responder sidecar: intents.                                             *)

(* A prepared intent found under the same identity is a duplicate.         *)
PreparedIntent(i) == [intents EXCEPT ![i].state = "prepared"]

Committable(i) ==
  /\ intents[i].state = "prepared"
  /\ leases[i.lease].turns < MaxTurns

Commit_Uncounted(i) ==  \* mutant
  /\ intents' = [intents EXCEPT ![i].state = "submitted", ![i].committed = TRUE]
  /\ leases' = [leases EXCEPT ![i.lease].resting = TRUE]
Commit(i) ==
  LET lease == leases[i.lease]
      full  == lease.turns + 1 = MaxTurns
  IN  /\ intents' = [intents EXCEPT ![i] =
           [state |-> "submitted", overdue |-> intents[i].overdue,
            committed |-> TRUE]]
      /\ leases' = [leases EXCEPT ![i.lease] =
           [state |-> IF lease.state = "active" /\ full
                        THEN "exhausted" ELSE lease.state,
            turns |-> lease.turns + 1, overdue |-> lease.overdue,
            resting |-> TRUE]]

Terminalized(i, terminal) ==
  IF \/ intents[i].state = "prepared"
     \/ intents[i].state = "submitted" /\ terminal = "manual_review"
    THEN [intents EXCEPT ![i].state = terminal]
    ELSE intents

-----------------------------------------------------------------------------
(* Responder sidecar: dispositions.                                        *)

(* One disposition per consumer and event, whatever its kind.              *)
PreparedDisposition(n, kind, stamp) ==
  [dispositions EXCEPT ![n] = [kind |-> kind, state |-> "prepared",
                               stamp |-> stamp, intent |-> NoLease]]

OwnedBy(n, i) ==
  /\ dispositions[n].kind = "intervention"
  /\ dispositions[n].intent = i.lease
  /\ n = i.seq

Bindable(i) ==
  /\ dispositions[i.seq].kind = "intervention"
  /\ dispositions[i.seq].state = "prepared"
  /\ intents[i].state = "prepared"

Acknowledgeable(n) ==
  /\ dispositions[n].kind # "intervention"
  /\ dispositions[n].state = "prepared"

CompletableDisposition(i) ==
  /\ OwnedBy(i.seq, i)
  /\ dispositions[i.seq].state = "intervention_bound"
  /\ intents[i].state = "completed"

InReview_AnyState(n) ==  \* mutant
  [dispositions EXCEPT ![n].state = "manual_review"]
InReview(n) ==
  IF dispositions[n].state \in {"prepared", "intervention_bound"}
    THEN [dispositions EXCEPT ![n].state = "manual_review"]
    ELSE dispositions
=============================================================================
