------------------------- MODULE ResponderAuthority -------------------------
(***************************************************************************)
(* Decision authority over the dialogue responder: which durable records a *)
(* system turn needs before it may be spoken, and what becomes of them     *)
(* when a program stops half way or the clock runs out.                    *)
(*                                                                         *)
(* An operator prepares a grant, activates it into one lease, decides to   *)
(* intervene on one human completion, binds the decision to an intent and  *)
(* dispatches the intent.  A bound intent that nobody dispatched in time   *)
(* is recovered to "expired" and may be entered, once, as a retry lineage. *)
(* Each of these is a one-shot program over the stores, run one at a time; *)
(* it takes no lock, so the service goes on beside it: human turns move    *)
(* the preferred head, completions are materialised, the observer retires  *)
(* events, an operator revokes the lease.  A program may stop between any  *)
(* two transactions; `pc' is the transaction it does next, `seq' and       *)
(* `grant' what it is about, `at' and `dispatcherAt' the clock values the  *)
(* authority service and the dispatcher read.                              *)
(*                                                                         *)
(* Identities are digests of the evidence they name.  One decision exists  *)
(* per event, a decision fixes its grant and a grant its lease, so a lease *)
(* is named by its grant, and a decision, its intent, its disposition and  *)
(* its Task by the sequence of the completion they answer.  The clock is a *)
(* counter that may step back between any two readings.                    *)
(***************************************************************************)
EXTENDS Naturals, Sequences, FiniteSets

CONSTANTS
  Grants, NoGrant,
  MaxTurns,       \* max_system_turns of a grant and of its lease
  MinInterval,    \* min_interval_ms
  GrantTTL, LeaseTTL, IntentTTL,
  MaxRevision,    \* bound: the highest thread revision of the instance
  MaxTime         \* bound: the last value of the clock

ASSUME AuthorityBounds ==
  /\ NoGrant \notin Grants
  /\ MaxTurns \in Nat \ {0} /\ MinInterval \in Nat
  /\ GrantTTL \in Nat \ {0} /\ LeaseTTL \in Nat \ {0} /\ IntentTTL \in Nat \ {0}
  /\ MaxRevision \in Nat /\ MaxTime \in Nat

Seqs == 1 .. (MaxRevision + 1)
Time == 0 .. MaxTime

VARIABLES
  now,
  journal,       \* thread: who spoke each revision, a human or the answer to n
  fed,           \* completion feed: how many completions are materialised
  cursor,        \* completion feed: last sequence the responder ACKed
  grants, leases, decisions, intents, dispositions,   \* responder sidecar
  tasks,         \* Task store: events whose answering turn is a durable Task
  lineages,      \* retry sidecar: events with a generation-1 lineage
  pc, seq, grant, at, dispatcherAt, recovering        \* the running program

serviceVars   == <<journal, fed, cursor>>
authorityVars == <<grants, decisions>>
responderVars == <<leases, intents, dispositions>>
programVars   == <<pc, seq, grant, at, dispatcherAt, recovering>>
vars == <<now, journal, fed, cursor, grants, leases, decisions, intents,
          dispositions, tasks, lineages, pc, seq, grant, at, dispatcherAt,
          recovering>>

GrantState == {"none", "prepared", "activated", "expired"}
LeaseState == {"none", "active", "exhausted", "expired", "revoked"}
DecisionState == {"none", "prepared", "intent_bound", "conflict", "expired",
                  "manual_review"}
IntentState == {"none", "prepared", "submitted", "completed", "conflict",
                "expired", "manual_review"}
DispositionKind  == {"none", "observer", "intervention"}
DispositionState == {"none", "prepared", "acknowledged",
                     "intervention_bound", "completed", "manual_review"}

Grant    == [state : GrantState, created : Time]
Lease    == [state : LeaseState, turns : 0 .. MaxTurns, issued : Time,
             expires : Nat, nextEligible : Nat]
Decision == [state : DecisionState, grant : Grants \cup {NoGrant},
             created : Time, bound : BOOLEAN, boundAt : Time]
Intent   == [state : IntentState, created : Time, expires : Nat,
             committed : Time, completed : Time]
Disposition == [kind : DispositionKind, state : DispositionState, bound : Time]

BindStep == {"admit", "admission_conflict", "prepare_intent",
             "prepare_disposition", "bind_disposition", "link", "review"}
DispatchStep == {"revalidate", "replace_head", "commit", "ack",
                 "complete_intent", "complete_disposition",
                 "terminalize_disposition"}
Step == {"idle", "link_lease", "recover", "expire_decision"} \cup BindStep \cup DispatchStep

TypeOK ==
  /\ now \in Time
  /\ journal \in Seq({0} \cup Seqs)
  /\ fed \in Nat /\ cursor \in Nat
  /\ grants \in [Grants -> Grant]
  /\ leases \in [Grants -> Lease]
  /\ decisions \in [Seqs -> Decision]
  /\ intents \in [Seqs -> Intent]
  /\ dispositions \in [Seqs -> Disposition]
  /\ tasks \subseteq Seqs
  /\ lineages \subseteq Seqs
  /\ pc \in Step
  /\ seq \in Seqs /\ grant \in Grants \cup {NoGrant}
  /\ at \in Time /\ dispatcherAt \in Time
  /\ recovering \in BOOLEAN

(* The thread is bound to a completed human dialogue Task.                 *)
Init ==
  /\ now = 0
  /\ journal = <<0>> /\ fed = 0 /\ cursor = 0
  /\ grants = [g \in Grants |-> [state |-> "none", created |-> 0]]
  /\ leases = [g \in Grants |-> [state |-> "none", turns |-> 0, issued |-> 0,
                                 expires |-> 0, nextEligible |-> 0]]
  /\ decisions = [n \in Seqs |-> [state |-> "none", grant |-> NoGrant,
                                  created |-> 0, bound |-> FALSE, boundAt |-> 0]]
  /\ intents = [n \in Seqs |-> [state |-> "none", created |-> 0,
                                expires |-> 0, committed |-> 0,
                                completed |-> 0]]
  /\ dispositions = [n \in Seqs |-> [kind |-> "none", state |-> "none",
                                     bound |-> 0]]
  /\ tasks = {} /\ lineages = {}
  /\ pc = "idle" /\ seq = 1 /\ grant = NoGrant
  /\ at = 0 /\ dispatcherAt = 0 /\ recovering = FALSE

Goto(s) == pc' = s /\ UNCHANGED <<seq, grant, at, dispatcherAt, recovering>>

(* A program's own variables do not outlive it.                            *)
Finish ==
  /\ pc' = "idle" /\ seq' = 1 /\ grant' = NoGrant
  /\ at' = 0 /\ dispatcherAt' = 0 /\ recovering' = FALSE

-----------------------------------------------------------------------------
(* The service beside the programs.                                        *)

Human == 0
IsNext(n)    == n = cursor + 1 /\ n <= fed
IsHuman(n)   == journal[n] = Human
IsCurrent(n) == n = Len(journal)

(* current_head_matches, exact_decision_event: sequence n is what the      *)
(* consumer must take next, a human spoke it, and the head is still there. *)
ExactEvidence(n) == IsNext(n) /\ IsHuman(n) /\ IsCurrent(n)

(* The wall clock goes on, or is set back.                                 *)
Tick ==
  /\ \/ now < MaxTime /\ now' = now + 1
     \/ now > 0 /\ now' = now - 1
  /\ UNCHANGED <<serviceVars, authorityVars, responderVars, tasks, lineages,
                 programVars>>

HumanTurn ==
  /\ fed = Len(journal)
  /\ Len(journal) <= MaxRevision
  /\ journal' = Append(journal, Human)
  /\ UNCHANGED <<now, fed, cursor, authorityVars, responderVars, tasks,
                 lineages, programVars>>

Materialize ==
  /\ fed < Len(journal) /\ fed <= MaxRevision
  /\ fed' = fed + 1
  /\ UNCHANGED <<now, journal, cursor, authorityVars, responderVars, tasks,
                 lineages, programVars>>

(* The observer retires an event by a disposition of its own: a human one  *)
(* on an explicit decline, a system or overtaken one structurally.  Every  *)
(* kind of next event has one of these, so the kind is left out.           *)
ObserverPrepare(n) ==
  /\ IsNext(n)
  /\ dispositions[n].kind = "none"
  /\ dispositions' = [dispositions EXCEPT ![n] =
                        [kind |-> "observer", state |-> "prepared",
                         bound |-> 0]]
  /\ UNCHANGED <<now, serviceVars, authorityVars, leases, intents, tasks,
                 lineages, programVars>>

ObserverAck(n) ==
  /\ IsNext(n)
  /\ dispositions[n].kind = "observer"
  /\ dispositions[n].state = "prepared"
  /\ dispositions' = [dispositions EXCEPT ![n].state = "acknowledged"]
  /\ cursor' = n
  /\ UNCHANGED <<now, journal, fed, authorityVars, leases, intents, tasks,
                 lineages, programVars>>

RevokeLease(g) ==
  /\ leases[g].state = "active" /\ leases[g].issued <= now
  /\ leases' = [leases EXCEPT ![g].state = "revoked"]
  /\ UNCHANGED <<now, serviceVars, authorityVars, intents, dispositions,
                 tasks, lineages, programVars>>

-----------------------------------------------------------------------------
(* Grants: prepared once, activated into one lease, never renewed.         *)

Smaller(a, b) == IF a < b THEN a ELSE b

GrantEnd(g) == grants[g].created + GrantTTL

(* lease_within_grant, lease_matches_grant: the lease may only narrow.     *)
LeaseWithinGrant(g) ==
  /\ leases[g].issued >= grants[g].created
  /\ leases[g].expires > leases[g].issued
  /\ leases[g].expires <= GrantEnd(g)

LeaseEligibleAt(g, time) ==
  /\ leases[g].state = "active"
  /\ leases[g].issued <= time
  /\ time < leases[g].expires
  /\ leases[g].nextEligible <= time
  /\ leases[g].turns < MaxTurns

Activated(g) == grants[g].state = "activated"

PrepareGrant(g) ==
  /\ pc = "idle"
  /\ grants[g].state = "none"
  /\ grants' = [grants EXCEPT ![g] = [state |-> "prepared", created |-> now]]
  /\ UNCHANGED <<now, serviceVars, decisions, responderVars, tasks, lineages,
                 programVars>>

ExpireGrant(g) ==
  /\ pc = "idle"
  /\ grants[g].state = "prepared"
  /\ now >= GrantEnd(g)
  /\ grants' = [grants EXCEPT ![g].state = "expired"]
  /\ UNCHANGED <<now, serviceVars, decisions, responderVars, tasks, lineages,
                 programVars>>

FreshLease(g) ==
  [state |-> "active", turns |-> 0, issued |-> now,
   expires |-> now + Smaller(LeaseTTL, GrantEnd(g) - now),
   nextEligible |-> now]

(* First half of the activation: the lease, in the responder store.  A     *)
(* lease found under the grant's own lease id is taken as it is.           *)
ActivateGrant(g) ==
  /\ pc = "idle"
  /\ grants[g].state = "prepared"
  /\ now < GrantEnd(g)
  /\ \/ leases[g].state # "none" /\ UNCHANGED leases
     \/ /\ leases[g].state = "none"
        /\ \A other \in Grants : leases[other].state # "active"
        /\ leases' = [leases EXCEPT ![g] = FreshLease(g)]
  /\ pc' = "link_lease" /\ grant' = g
  /\ UNCHANGED <<seq, at, dispatcherAt, recovering>>
  /\ UNCHANGED <<now, serviceVars, authorityVars, intents, dispositions,
                 tasks, lineages>>

(* Second half: the grant names the lease.  The activation time it checks  *)
(* is the lease's issue time, not the clock.                               *)
LinkLease ==
  LET g == grant IN
  /\ pc = "link_lease"
  /\ grants' = IF /\ leases[g].state = "active" /\ leases[g].turns = 0
                  /\ leases[g].issued < GrantEnd(g)
                  /\ LeaseWithinGrant(g)
                 THEN [grants EXCEPT ![g].state = "activated"] ELSE grants
  /\ Finish
  /\ UNCHANGED <<now, serviceVars, decisions, responderVars, tasks, lineages>>

-----------------------------------------------------------------------------
(* Decisions: one per event, on exact evidence, under an activated grant.  *)

(* What the service asks of a request before it goes to the store.         *)
Decidable(n, g) ==
  /\ ExactEvidence(n)
  /\ Activated(g) /\ LeaseWithinGrant(g) /\ LeaseEligibleAt(g, now)

FreshDecision(g) ==
  [state |-> "prepared", grant |-> g, created |-> now, bound |-> FALSE,
   boundAt |-> 0]

PrepareDecision(n, g) ==
  /\ pc = "idle"
  /\ decisions[n].state = "none"
  /\ Decidable(n, g)
  /\ now < GrantEnd(g)
  /\ decisions' = [decisions EXCEPT ![n] = FreshDecision(g)]
  /\ UNCHANGED <<now, serviceVars, grants, responderVars, tasks, lineages,
                 programVars>>

(* A decision is closed at a time no earlier than its own two; if the      *)
(* clock was set back before them the store refuses and it stays open.     *)
Closed(n, state, time) ==
  IF /\ decisions[n].state \in {"prepared", "intent_bound"}
     /\ time >= decisions[n].created /\ time >= decisions[n].boundAt
    THEN [decisions EXCEPT ![n].state = state] ELSE decisions

(* bind: the evidence is read again and the clock with it.  A decision     *)
(* whose evidence or authority is gone ends as a conflict.                 *)
BindDecision(n) ==
  LET g == decisions[n].grant IN
  /\ pc = "idle"
  /\ decisions[n].state = "prepared"
  /\ IF ExactEvidence(n) /\ Activated(g) /\ LeaseEligibleAt(g, now)
       THEN /\ pc' = "admit" /\ seq' = n /\ grant' = g /\ at' = now
            /\ UNCHANGED <<dispatcherAt, recovering, decisions>>
       ELSE /\ decisions' = Closed(n, "conflict", now)
            /\ UNCHANGED programVars
  /\ UNCHANGED <<now, serviceVars, grants, responderVars, tasks, lineages>>

Overdue(g, time) == leases[g].state = "active" /\ leases[g].expires <= time

Normalized(g, time) ==
  IF Overdue(g, time) THEN [leases EXCEPT ![g].state = "expired"] ELSE leases

(* The dispatcher reads the clock for itself and the evidence once more;   *)
(* it closes an overdue lease before it refuses it.                        *)
AdmitIntent ==
  /\ pc = "admit"
  /\ leases' = Normalized(grant, now)
  /\ IF LeaseEligibleAt(grant, now) /\ ExactEvidence(seq)
       THEN /\ pc' = "prepare_intent" /\ dispatcherAt' = now
            /\ UNCHANGED <<seq, grant, at, recovering>>
       ELSE Goto("admission_conflict")
  /\ UNCHANGED <<now, serviceVars, authorityVars, intents, dispositions,
                 tasks, lineages>>

AdmissionConflict ==
  /\ pc = "admission_conflict"
  /\ decisions' = Closed(seq, "conflict", at)
  /\ Finish
  /\ UNCHANGED <<now, serviceVars, grants, responderVars, tasks, lineages>>

FreshIntent_OwnTTL ==  \* mutant
  [state |-> "prepared", created |-> dispatcherAt,
   expires |-> dispatcherAt + IntentTTL, committed |-> 0, completed |-> 0]
FreshIntent ==
  [state |-> "prepared", created |-> dispatcherAt,
   expires |-> Smaller(dispatcherAt + IntentTTL, leases[grant].expires),
   committed |-> 0, completed |-> 0]

(* The store admits the intent under the lease it finds in the same        *)
(* transaction; an intent already there is taken while it is prepared.     *)
PrepareIntent ==
  /\ pc = "prepare_intent"
  /\ \/ /\ intents[seq].state = "none"
        /\ LeaseEligibleAt(grant, dispatcherAt)
        /\ intents' = [intents EXCEPT ![seq] = FreshIntent]
        /\ Goto("prepare_disposition")
     \/ /\ intents[seq].state = "prepared"
        /\ Goto("prepare_disposition") /\ UNCHANGED intents
     \/ /\ \/ intents[seq].state \notin {"none", "prepared"}
           \/ intents[seq].state = "none" /\ ~LeaseEligibleAt(grant, dispatcherAt)
        /\ Goto("admission_conflict") /\ UNCHANGED intents
  /\ UNCHANGED <<now, serviceVars, authorityVars, leases, dispositions, tasks,
                 lineages>>

Intervention(n, state) ==
  dispositions[n].kind = "intervention" /\ dispositions[n].state = state
BoundIntervention(n) == Intervention(n, "intervention_bound")
InReview(n)          == Intervention(n, "manual_review")

PrepareDisposition ==
  /\ pc = "prepare_disposition"
  /\ \/ /\ dispositions[seq].kind = "none"
        /\ dispositions' = [dispositions EXCEPT ![seq] =
             [kind |-> "intervention", state |-> "prepared", bound |-> 0]]
        /\ Goto("bind_disposition")
     \/ /\ Intervention(seq, "prepared")
        /\ Goto("bind_disposition") /\ UNCHANGED dispositions
     \/ /\ BoundIntervention(seq)
        /\ Goto("link") /\ UNCHANGED dispositions
     \/ /\ dispositions[seq].kind # "none"
        /\ ~Intervention(seq, "prepared") /\ ~BoundIntervention(seq)
        /\ Goto("admission_conflict") /\ UNCHANGED dispositions
  /\ UNCHANGED <<now, serviceVars, authorityVars, leases, intents, tasks,
                 lineages>>

(* The disposition bears its intent's creation time: no binding before it. *)
BindDisposition ==
  /\ pc = "bind_disposition"
  /\ IF intents[seq].created <= dispatcherAt
       THEN /\ dispositions' = [dispositions EXCEPT
                                  ![seq].state = "intervention_bound",
                                  ![seq].bound = dispatcherAt]
            /\ Goto("link")
       ELSE Goto("admission_conflict") /\ UNCHANGED dispositions
  /\ UNCHANGED <<now, serviceVars, authorityVars, leases, intents, tasks,
                 lineages>>

(* intent_matches_decision at the time the authority service read.         *)
IntentMatches(n, time) ==
  /\ intents[n].state = "prepared"
  /\ intents[n].created >= decisions[n].created
  /\ intents[n].created <= time
  /\ intents[n].expires > time

LinkIntent ==
  /\ pc = "link"
  /\ IF /\ at >= decisions[seq].created
        /\ Activated(grant) /\ at < GrantEnd(grant)
        /\ LeaseEligibleAt(grant, at) /\ LeaseWithinGrant(grant)
        /\ IntentMatches(seq, at)
       THEN /\ decisions' = [decisions EXCEPT ![seq].state = "intent_bound",
                                              ![seq].bound = TRUE,
                                              ![seq].boundAt = at]
            /\ Finish
       ELSE Goto("review") /\ UNCHANGED decisions
  /\ UNCHANGED <<now, serviceVars, grants, responderVars, tasks, lineages>>

ReviewDecision ==
  /\ pc = "review"
  /\ decisions' = Closed(seq, "manual_review", at)
  /\ Finish
  /\ UNCHANGED <<now, serviceVars, grants, responderVars, tasks, lineages>>

-----------------------------------------------------------------------------
(* dispatch: the turn becomes a Task, the head moves to it, the lease is   *)
(* charged, the trigger ACKed, intent and disposition completed.           *)

TerminalFailure == {"conflict", "expired", "manual_review"}

(* What dispatch does first with an intent of each state; `keep' says      *)
(* whether the recovery program made the call.                             *)
EnterDispatch(n, keep) ==
  /\ BoundIntervention(n)
  /\ seq' = n /\ grant' = decisions[n].grant
  /\ dispatcherAt' = now /\ UNCHANGED at /\ recovering' = keep
  /\ \/ /\ intents[n].state = "prepared"
        /\ leases' = Normalized(decisions[n].grant, now)
        /\ pc' = "revalidate"
     \/ /\ intents[n].state = "submitted" /\ pc' = "ack"
        /\ UNCHANGED leases
     \/ /\ intents[n].state = "completed" /\ pc' = "complete_disposition"
        /\ UNCHANGED leases
     \/ /\ intents[n].state \in TerminalFailure
        /\ pc' = "terminalize_disposition"
        /\ UNCHANGED leases

(* Any intent may be dispatched by its id; the decision is not consulted.  *)
Dispatch(n) ==
  /\ pc = "idle"
  /\ EnterDispatch(n, FALSE)
  /\ UNCHANGED <<now, serviceVars, authorityVars, intents, dispositions,
                 tasks, lineages>>

Terminalize(state) ==
  /\ intents' = [intents EXCEPT ![seq].state = state]
  /\ Goto("terminalize_disposition")

HeadAdvanced(n) == Len(journal) = n + 1
AlreadyHead(n)  == HeadAdvanced(n) /\ journal[n + 1] = n

MayDispatch(n) ==
  LeaseEligibleAt(grant, dispatcherAt) /\ dispatcherAt < intents[n].expires

RevalidateIneligible ==
  /\ pc = "revalidate"
  /\ ~MayDispatch(seq)
  /\ IF IsNext(seq) /\ HeadAdvanced(seq) /\ (AlreadyHead(seq) \/ seq \in tasks)
       THEN Terminalize("manual_review")
       ELSE Terminalize(IF \/ intents[seq].expires <= dispatcherAt
                           \/ leases[grant].state = "expired"
                          THEN "expired" ELSE "conflict")
  /\ UNCHANGED <<now, serviceVars, authorityVars, leases, dispositions, tasks,
                 lineages>>

RevalidateStale ==
  /\ pc = "revalidate"
  /\ MayDispatch(seq)
  /\ ~IsNext(seq) \/ (~IsCurrent(seq) /\ ~HeadAdvanced(seq))
  /\ Terminalize("conflict")
  /\ UNCHANGED <<now, serviceVars, authorityVars, leases, dispositions, tasks,
                 lineages>>

SubmitTurn ==
  /\ pc = "revalidate"
  /\ MayDispatch(seq) /\ IsNext(seq) /\ IsCurrent(seq)
  /\ tasks' = tasks \cup {seq}
  /\ Goto("replace_head")
  /\ UNCHANGED <<now, serviceVars, authorityVars, responderVars, lineages>>

(* A retry after the head moved by one: to this turn, or to another one.   *)
ResubmitTurn ==
  /\ pc = "revalidate"
  /\ MayDispatch(seq) /\ IsNext(seq) /\ HeadAdvanced(seq)
  /\ IF AlreadyHead(seq)
       THEN Goto("commit") /\ UNCHANGED intents
       ELSE Terminalize(IF seq \in tasks THEN "manual_review" ELSE "conflict")
  /\ UNCHANGED <<now, serviceVars, authorityVars, leases, dispositions, tasks,
                 lineages>>

(* The compare-and-swap of the head fails if a human turn came first.      *)
ReplaceHead ==
  /\ pc = "replace_head"
  /\ IF IsCurrent(seq)
       THEN /\ journal' = Append(journal, seq)
            /\ Goto("commit") /\ UNCHANGED intents
       ELSE Terminalize("manual_review") /\ UNCHANGED journal
  /\ UNCHANGED <<now, fed, cursor, authorityVars, leases, dispositions, tasks,
                 lineages>>

Charged_Uncounted(lease, time) ==  \* mutant
  [lease EXCEPT !.nextEligible = time + MinInterval]
Charged(lease, time) ==
  [lease EXCEPT
     !.turns = lease.turns + 1,
     !.nextEligible = time + MinInterval,
     !.state = IF lease.state = "active" /\ lease.turns + 1 = MaxTurns
                 THEN "exhausted" ELSE lease.state]

(* A clock set back behind the intent's creation cannot account the turn.  *)
CommitSubmission ==
  /\ pc = "commit"
  /\ IF leases[grant].turns < MaxTurns /\ intents[seq].created <= dispatcherAt
       THEN /\ intents' = [intents EXCEPT ![seq].state = "submitted",
                                          ![seq].committed = dispatcherAt]
            /\ leases' = [leases EXCEPT ![grant] = Charged(@, dispatcherAt)]
            /\ Goto("ack")
       ELSE Terminalize("manual_review") /\ UNCHANGED leases
  /\ UNCHANGED <<now, serviceVars, authorityVars, dispositions, tasks, lineages>>

AckTrigger ==
  /\ pc = "ack"
  /\ IF AlreadyHead(seq) /\ (cursor = seq \/ IsNext(seq))
       THEN cursor' = seq /\ Goto("complete_intent") /\ UNCHANGED intents
       ELSE Terminalize("manual_review") /\ UNCHANGED cursor
  /\ UNCHANGED <<now, journal, fed, authorityVars, leases, dispositions, tasks,
                 lineages>>

(* What a command does after its last dispatch transaction.                *)
Return == IF recovering THEN Goto("expire_decision") ELSE Finish

CompleteIntent ==
  /\ pc = "complete_intent"
  /\ IF intents[seq].committed <= dispatcherAt
       THEN /\ intents' = [intents EXCEPT ![seq].state = "completed",
                                          ![seq].completed = dispatcherAt]
            /\ Goto("complete_disposition")
       ELSE Return /\ UNCHANGED intents
  /\ UNCHANGED <<now, serviceVars, authorityVars, leases, dispositions, tasks,
                 lineages>>

CompleteDisposition ==
  /\ pc = "complete_disposition"
  /\ dispositions' =
       IF /\ dispositions[seq].bound <= dispatcherAt
          /\ intents[seq].completed <= dispatcherAt
         THEN [dispositions EXCEPT ![seq].state = "completed"]
         ELSE dispositions
  /\ Return
  /\ UNCHANGED <<now, serviceVars, authorityVars, leases, intents, tasks,
                 lineages>>

TerminalizeDisposition ==
  /\ pc = "terminalize_disposition"
  /\ dispositions' =
       IF dispositions[seq].bound <= dispatcherAt
         THEN [dispositions EXCEPT ![seq].state = "manual_review"]
         ELSE dispositions
  /\ Return
  /\ UNCHANGED <<now, serviceVars, authorityVars, leases, intents, tasks,
                 lineages>>

-----------------------------------------------------------------------------
(* Recovery of a bound intent that was not dispatched in time.             *)

(* require_pending_sequence and require_no_submission_task: the event is   *)
(* still held, with no Task under the intent's idempotency key.            *)
Held_IgnoresTasks(n) == ExactEvidence(n)  \* mutant
Held(n) == ExactEvidence(n) /\ n \notin tasks

(* The companion states a partial recovery may have left.                  *)
PartlyRecovered(n) ==
  LET g == decisions[n].grant IN
  \/ /\ leases[g].state = "active"
     /\ intents[n].state = "prepared" /\ BoundIntervention(n)
  \/ /\ leases[g].state = "expired"
     /\ \/ intents[n].state = "prepared" /\ BoundIntervention(n)
        \/ intents[n].state = "expired" /\ (BoundIntervention(n) \/ InReview(n))

Recoverable(n) ==
  LET g == decisions[n].grant IN
  /\ Held(n)
  /\ decisions[n].state = "intent_bound"
  /\ Activated(g) /\ leases[g].turns = 0
  /\ now >= leases[g].expires /\ now >= intents[n].expires
  /\ PartlyRecovered(n)

(* The dispatcher is called to refuse, with a clock reading of its own: it *)
(* closes the lease and the intent.                                        *)
RecoverExpiredBind(n) ==
  /\ pc = "idle"
  /\ Recoverable(n)
  /\ pc' = "recover" /\ seq' = n /\ grant' = decisions[n].grant
  /\ UNCHANGED <<at, dispatcherAt, recovering>>
  /\ UNCHANGED <<now, serviceVars, authorityVars, responderVars, tasks,
                 lineages>>

RecoverByDispatch ==
  /\ pc = "recover"
  /\ \/ EnterDispatch(seq, TRUE)
     \/ InReview(seq) /\ Goto("expire_decision") /\ UNCHANGED leases
  /\ UNCHANGED <<now, serviceVars, authorityVars, intents, dispositions,
                 tasks, lineages>>

(* require_recovered_responder_state, then the decision's own record.      *)
Recovered(n) ==
  /\ leases[decisions[n].grant].state = "expired"
  /\ leases[decisions[n].grant].turns = 0
  /\ intents[n].state = "expired"
  /\ InReview(n)

ExpireDecision ==
  /\ pc = "expire_decision"
  /\ decisions' = IF Recovered(seq) /\ Held(seq)
                    THEN Closed(seq, "expired", now) ELSE decisions
  /\ Finish
  /\ UNCHANGED <<now, serviceVars, grants, responderVars, tasks, lineages>>

-----------------------------------------------------------------------------
(* Retry admission: the whole expired chain, and no Task, becomes lineage. *)

(* Grant, lease, decision, intent and disposition of the failed attempt.   *)
FailedAttempt(n) ==
  LET g == decisions[n].grant IN
  /\ decisions[n].state = "expired" /\ decisions[n].bound
  /\ Recovered(n)
  /\ leases[g].expires <= now
  /\ Activated(g) /\ GrantEnd(g) <= now

PrepareLineage(n) ==
  /\ pc = "idle"
  /\ FailedAttempt(n)
  /\ Held(n)
  /\ lineages' = lineages \cup {n}
  /\ UNCHANGED <<now, serviceVars, authorityVars, responderVars, tasks,
                 programVars>>

(* inspect_generation_1: what an auditor is told of a lineage.             *)
Inspection(n) ==
  IF n \notin lineages THEN "lineage_absent"
  ELSE IF Held(n) /\ FailedAttempt(n) THEN "evidence_consistent"
  ELSE "conflict"

-----------------------------------------------------------------------------
(* A program stops: killed, or because a store answered "unavailable".     *)
Crash ==
  /\ pc # "idle"
  /\ Finish
  /\ UNCHANGED <<now, serviceVars, authorityVars, responderVars, tasks,
                 lineages>>

Service ==
  \/ HumanTurn \/ Materialize
  \/ \E n \in Seqs : ObserverPrepare(n) \/ ObserverAck(n)
  \/ \E g \in Grants : RevokeLease(g)

Command ==
  \/ \E g \in Grants : PrepareGrant(g) \/ ExpireGrant(g) \/ ActivateGrant(g)
  \/ \E n \in Seqs :
       \/ \E g \in Grants : PrepareDecision(n, g)
       \/ BindDecision(n) \/ Dispatch(n)
       \/ RecoverExpiredBind(n) \/ PrepareLineage(n)

Proceed ==
  \/ LinkLease
  \/ AdmitIntent \/ AdmissionConflict \/ PrepareIntent
  \/ PrepareDisposition \/ BindDisposition \/ LinkIntent \/ ReviewDecision
  \/ RevalidateIneligible \/ RevalidateStale \/ SubmitTurn \/ ResubmitTurn
  \/ ReplaceHead \/ CommitSubmission \/ AckTrigger
  \/ CompleteIntent \/ CompleteDisposition \/ TerminalizeDisposition
  \/ RecoverByDispatch \/ ExpireDecision

Next == Tick \/ Service \/ Command \/ Proceed \/ Crash

Spec == Init /\ [][Next]_vars
=============================================================================
