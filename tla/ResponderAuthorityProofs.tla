------------------------ MODULE ResponderAuthorityProofs -----------------------
(***************************************************************************)
(* What holds of decision authority for every set of grants, every length  *)
(* of the thread, every quota, interval and lifetime and every clock: the  *)
(* windows of a chain nest, recovery hides no turn, and the stores         *)
(* implement AuthorityPromise.                                             *)
(*                                                                         *)
(* First, which actions write which store (Frames); then, what a write may *)
(* do to one record (the moves); the invariants follow from the moves.     *)
(***************************************************************************)
EXTENDS ResponderAuthorityProperties, TLAPS, FiniteSetTheorems

-----------------------------------------------------------------------------
(* The inductive invariant.                                                *)

GrantsInv ==
  \A g \in Grants : Activated(g) => leases[g].state # "none"

(* The records of one event refer to each other.                           *)
Recorded(n) ==
  LET d == decisions[n] IN
  /\ d.state = "none" => d.grant = NoGrant /\ ~d.bound
  /\ d.state # "none" => d.grant \in Grants
  /\ intents[n].state # "none" => d.state # "none"
  /\ d.bound => intents[n].state # "none"
  /\ d.state = "intent_bound" => d.bound
  /\ d.state = "expired" => d.bound /\ intents[n].state = "expired"

(* A Task stands behind a bound intervention on an event that has not been *)
(* passed without it, and a submitted intent has its Task.                 *)
Answered(n) ==
  /\ n \in tasks => /\ dispositions[n].kind = "intervention"
                    /\ intents[n].state # "none"
                    /\ decisions[n].state # "expired"
                    /\ n <= cursor + 1
  /\ intents[n].state \in {"submitted", "completed"} => n \in tasks

RecordsInv == \A n \in Seqs : Recorded(n) /\ Answered(n)

LineageInv ==
  \A n \in lineages : decisions[n].state = "expired" /\ Recovered(n)

JournalInv ==
  \A k \in 1 .. Len(journal) : journal[k] # Human => journal[k] \in tasks

(* The turns of a grant its lease has been charged for: those behind the   *)
(* cursor, and the submitted one the cursor waits for.                     *)
Paid(g) == {n \in tasks : /\ decisions[n].grant = g
                          /\ n <= cursor \/ intents[n].state = "submitted"}

PaidInv ==
  /\ IsFiniteSet(tasks)
  /\ \A g \in Grants : Cardinality(Paid(g)) <= leases[g].turns

(* What the running program relies on.                                     *)
ProgramInv ==
  /\ pc = "link_lease" => grant \in Grants
  /\ pc \in BindStep => decisions[seq].state = "prepared"
  /\ pc \in BindStep \cup DispatchStep \cup {"recover"} =>
       grant = decisions[seq].grant /\ decisions[seq].state # "none"
  /\ pc \in {"revalidate", "replace_head", "commit"} =>
       intents[seq].state = "prepared"
  /\ pc \in {"ack", "complete_intent"} => intents[seq].state = "submitted"
  /\ pc \in DispatchStep => BoundIntervention(seq)
  /\ pc \in {"replace_head", "commit"} =>
       /\ seq \in tasks
       /\ leases[grant].state # "expired"
       /\ leases[grant].issued <= dispatcherAt
       /\ dispatcherAt < intents[seq].expires
  /\ pc \in {"recover", "expire_decision"} \/ (pc \in DispatchStep /\ recovering) =>
       decisions[seq].state = "intent_bound"

Inv ==
  /\ TypeOK /\ WindowsNest /\ GrantsInv /\ RecordsInv
  /\ LineageInv /\ JournalInv /\ PaidInv /\ ProgramInv

-----------------------------------------------------------------------------
(* Who writes what.                                                        *)

USE DEF serviceVars, authorityVars, responderVars, programVars

DecisionWrite ==
  \/ \E n \in Seqs, g \in Grants : PrepareDecision(n, g)
  \/ \E n \in Seqs : BindDecision(n)
  \/ AdmissionConflict \/ LinkIntent \/ ReviewDecision \/ ExpireDecision

IntentWrite ==
  \/ PrepareIntent \/ RevalidateIneligible \/ RevalidateStale \/ ResubmitTurn
  \/ ReplaceHead \/ CommitSubmission \/ AckTrigger \/ CompleteIntent

DispositionWrite ==
  \/ \E n \in Seqs : ObserverPrepare(n)
  \/ \E n \in Seqs : ObserverAck(n)
  \/ PrepareDisposition \/ BindDisposition
  \/ CompleteDisposition \/ TerminalizeDisposition

LeaseWrite ==
  \/ \E g \in Grants : RevokeLease(g)
  \/ \E g \in Grants : ActivateGrant(g)
  \/ \E n \in Seqs : Dispatch(n)
  \/ AdmitIntent \/ CommitSubmission \/ RecoverByDispatch

GrantWrite ==
  \/ \E g \in Grants : PrepareGrant(g)
  \/ \E g \in Grants : ExpireGrant(g)
  \/ LinkLease

(* A command that starts a program, as against one transaction.            *)
Start ==
  \/ \E g \in Grants : ActivateGrant(g)
  \/ \E n \in Seqs : BindDecision(n)
  \/ \E n \in Seqs : Dispatch(n)
  \/ \E n \in Seqs : RecoverExpiredBind(n)

Frames ==
  /\ now' = now \/ Tick
  /\ journal' = journal \/ HumanTurn \/ ReplaceHead
  /\ fed' = fed \/ Materialize
  /\ cursor' = cursor \/ AckTrigger \/ \E n \in Seqs : ObserverAck(n)
  /\ grants' = grants \/ GrantWrite
  /\ leases' = leases \/ LeaseWrite
  /\ decisions' = decisions \/ DecisionWrite
  /\ intents' = intents \/ IntentWrite
  /\ dispositions' = dispositions \/ DispositionWrite
  /\ tasks' = tasks \/ SubmitTurn
  /\ lineages' = lineages \/ \E n \in Seqs : PrepareLineage(n)
  /\ UNCHANGED programVars \/ Start \/ Proceed \/ Crash

LEMMA NextFrames == [Next]_vars => Frames
  <1>1. SUFFICES ASSUME [Next]_vars PROVE Frames
    OBVIOUS
  <1>2. Tick => UNCHANGED <<serviceVars, authorityVars, responderVars, tasks,
                            lineages, programVars>>
    BY DEF Tick
  <1>3. HumanTurn => UNCHANGED <<now, fed, cursor, authorityVars, responderVars,
                                 tasks, lineages, programVars>>
    BY DEF HumanTurn
  <1>4. Materialize => UNCHANGED <<now, journal, cursor, authorityVars,
                                   responderVars, tasks, lineages, programVars>>
    BY DEF Materialize
  <1>5. ASSUME NEW n \in Seqs
        PROVE  /\ ObserverPrepare(n) =>
                    UNCHANGED <<now, serviceVars, authorityVars, leases, intents,
                                tasks, lineages, programVars>>
               /\ ObserverAck(n) =>
                    UNCHANGED <<now, journal, fed, authorityVars, leases, intents,
                                tasks, lineages, programVars>>
    BY DEF ObserverPrepare, ObserverAck
  <1>6. ASSUME NEW g \in Grants
        PROVE  /\ RevokeLease(g) \/ ActivateGrant(g) =>
                    UNCHANGED <<now, serviceVars, authorityVars, intents,
                                dispositions, tasks, lineages>>
               /\ RevokeLease(g) => UNCHANGED programVars
               /\ PrepareGrant(g) \/ ExpireGrant(g) =>
                    UNCHANGED <<now, serviceVars, decisions, responderVars, tasks,
                                lineages, programVars>>
    BY DEF RevokeLease, ActivateGrant, PrepareGrant, ExpireGrant
  <1>7. LinkLease => UNCHANGED <<now, serviceVars, decisions, responderVars, tasks,
                                 lineages>>
    BY DEF LinkLease
  <1>8. ASSUME NEW n \in Seqs, NEW g \in Grants
        PROVE  PrepareDecision(n, g) =>
                 UNCHANGED <<now, serviceVars, grants, responderVars, tasks,
                             lineages, programVars>>
    BY DEF PrepareDecision
  <1>9. ASSUME NEW n \in Seqs
        PROVE  BindDecision(n) =>
                 UNCHANGED <<now, serviceVars, grants, responderVars, tasks, lineages>>
    BY DEF BindDecision
  <1>10. AdmissionConflict \/ LinkIntent \/ ReviewDecision \/ ExpireDecision =>
           UNCHANGED <<now, serviceVars, grants, responderVars, tasks, lineages>>
    BY DEF AdmissionConflict, LinkIntent, ReviewDecision, ExpireDecision
  <1>11. AdmitIntent \/ RecoverByDispatch =>
           UNCHANGED <<now, serviceVars, authorityVars, intents, dispositions,
                       tasks, lineages>>
    BY DEF AdmitIntent, RecoverByDispatch
  <1>12. ASSUME NEW n \in Seqs
         PROVE  /\ Dispatch(n) =>
                     UNCHANGED <<now, serviceVars, authorityVars, intents,
                                 dispositions, tasks, lineages>>
                /\ RecoverExpiredBind(n) =>
                     UNCHANGED <<now, serviceVars, authorityVars, responderVars,
                                 tasks, lineages>>
                /\ PrepareLineage(n) =>
                     UNCHANGED <<now, serviceVars, authorityVars, responderVars,
                                 tasks, programVars>>
    BY DEF Dispatch, RecoverExpiredBind, PrepareLineage
  <1>13. PrepareIntent \/ RevalidateIneligible \/ RevalidateStale \/ ResubmitTurn
           \/ CompleteIntent =>
           UNCHANGED <<now, serviceVars, authorityVars, leases, dispositions, tasks,
                       lineages>>
    BY DEF PrepareIntent, RevalidateIneligible, RevalidateStale, ResubmitTurn,
           CompleteIntent
  <1>14. PrepareDisposition \/ BindDisposition \/ CompleteDisposition
           \/ TerminalizeDisposition =>
           UNCHANGED <<now, serviceVars, authorityVars, leases, intents, tasks,
                       lineages>>
    BY DEF PrepareDisposition, BindDisposition, CompleteDisposition,
           TerminalizeDisposition
  <1>15. /\ SubmitTurn => UNCHANGED <<now, serviceVars, authorityVars,
                                      responderVars, lineages>>
         /\ ReplaceHead => UNCHANGED <<now, fed, cursor, authorityVars, leases,
                                       dispositions, tasks, lineages>>
         /\ CommitSubmission => UNCHANGED <<now, serviceVars, authorityVars,
                                            dispositions, tasks, lineages>>
         /\ AckTrigger => UNCHANGED <<now, journal, fed, authorityVars, leases,
                                      dispositions, tasks, lineages>>
         /\ Crash => UNCHANGED <<now, serviceVars, authorityVars, responderVars,
                                 tasks, lineages>>
    BY DEF SubmitTurn, ReplaceHead, CommitSubmission, AckTrigger, Crash
  <1> HIDE DEF programVars
  <1> USE DEF Frames, DecisionWrite, IntentWrite, DispositionWrite, LeaseWrite,
              GrantWrite, Start
  <1>16. CASE Tick \/ Service
    BY <1>2, <1>3, <1>4, <1>5, <1>6, <1>16 DEF Service
  <1>17. CASE Command
    BY <1>6, <1>8, <1>9, <1>12, <1>17 DEF Command
  <1>18. CASE Proceed
    BY <1>7, <1>10, <1>11, <1>13, <1>14, <1>15, <1>18 DEF Proceed
  <1>19. CASE Crash
    BY <1>15, <1>19
  <1>20. CASE UNCHANGED vars
    BY <1>20 DEF vars, programVars
  <1>21. QED
    BY <1>1, <1>16, <1>17, <1>18, <1>19, <1>20 DEF Next
-----------------------------------------------------------------------------
(* Types.                                                                  *)

LEMMA InitType == Init => TypeOK
  <1>1. SUFFICES ASSUME Init PROVE TypeOK
    OBVIOUS
  <1>2. 0 \in Time /\ 1 \in Seqs /\ 0 \in Nat /\ MaxTurns \in Nat /\ 0 \in 0 .. MaxTurns
    BY AuthorityBounds DEF Time, Seqs
  <1>3. /\ fed \in Nat /\ cursor \in Nat
        /\ tasks \subseteq Seqs /\ lineages \subseteq Seqs
        /\ pc \in Step /\ seq \in Seqs /\ grant \in Grants \cup {NoGrant}
        /\ at \in Time /\ dispatcherAt \in Time /\ recovering \in BOOLEAN /\ now \in Time
    BY <1>1, <1>2 DEF Init, Step
  <1>4. grants \in [Grants -> Grant] /\ leases \in [Grants -> Lease]
    BY <1>1, <1>2 DEF Init, Grant, GrantState, Lease, LeaseState
  <1>5. intents \in [Seqs -> Intent] /\ dispositions \in [Seqs -> Disposition]
    BY <1>1, <1>2 DEF Init, Intent, IntentState, Disposition, DispositionKind,
                      DispositionState
  <1>6. decisions \in [Seqs -> Decision]
    BY <1>1, <1>2 DEF Init, Decision, DecisionState
  <1>7. journal \in Seq({0} \cup Seqs)
    BY <1>1 DEF Init
  <1>8. QED
    BY <1>3, <1>4, <1>5, <1>6, <1>7 DEF TypeOK

LEMMA TimeIsNat == Time \subseteq Nat /\ Seqs \subseteq Nat \ {0}
  BY AuthorityBounds DEF Time, Seqs

LEMMA ClosedType ==
  ASSUME TypeOK, NEW n \in Seqs, NEW state \in DecisionState, NEW time
  PROVE  Closed(n, state, time) \in [Seqs -> Decision]
  <1>1. decisions \in [Seqs -> Decision]
    BY DEF TypeOK
  <1>2. [decisions EXCEPT ![n].state = state] \in [Seqs -> Decision]
    BY <1>1 DEF Decision
  <1>3. QED
    BY <1>1, <1>2 DEF Closed

LEMMA DecisionsType ==
  ASSUME TypeOK, DecisionWrite
  PROVE  decisions' \in [Seqs -> Decision]
  <1>1. /\ decisions \in [Seqs -> Decision] /\ seq \in Seqs
        /\ at \in Time /\ now \in Time /\ 0 \in Time
    BY AuthorityBounds DEF TypeOK, Time
  <1>2. ASSUME NEW n \in Seqs, NEW g \in Grants, PrepareDecision(n, g)
        PROVE  decisions' \in [Seqs -> Decision]
    <2>1. FreshDecision(g) \in Decision
      BY <1>1 DEF FreshDecision, Decision, DecisionState
    <2>2. QED
      BY <1>1, <1>2, <2>1 DEF PrepareDecision
  <1>3. ASSUME NEW n \in Seqs, BindDecision(n)
        PROVE  decisions' \in [Seqs -> Decision]
    <2>1. decisions' = decisions \/ decisions' = Closed(n, "conflict", now)
      BY <1>3 DEF BindDecision
    <2>2. QED
      BY <1>1, <2>1, ClosedType DEF DecisionState
  <1>4. CASE AdmissionConflict \/ ReviewDecision \/ ExpireDecision
    <2>1. \/ decisions' = decisions
          \/ decisions' = Closed(seq, "conflict", at)
          \/ decisions' = Closed(seq, "manual_review", at)
          \/ decisions' = Closed(seq, "expired", now)
      BY <1>4 DEF AdmissionConflict, ReviewDecision, ExpireDecision
    <2>2. QED
      BY <1>1, <2>1, ClosedType DEF DecisionState
  <1>5. CASE LinkIntent
    <2> DEFINE linked == [decisions[seq] EXCEPT !.state = "intent_bound",
                                                !.bound = TRUE, !.boundAt = at]
    <2>1. linked \in Decision
      BY <1>1 DEF Decision, DecisionState
    <2>2. \/ decisions' = decisions
          \/ decisions' = [decisions EXCEPT ![seq].state = "intent_bound",
                                            ![seq].bound = TRUE,
                                            ![seq].boundAt = at]
      BY <1>5 DEF LinkIntent
    <2>3. [decisions EXCEPT ![seq].state = "intent_bound",
                            ![seq].bound = TRUE,
                            ![seq].boundAt = at] = [decisions EXCEPT ![seq] = linked]
      BY <1>1 DEF Decision
    <2>4. QED
      BY <1>1, <2>1, <2>2, <2>3
  <1>6. QED
    BY <1>2, <1>3, <1>4, <1>5 DEF DecisionWrite

LEMMA IntentsType ==
  ASSUME TypeOK, RecordsInv, ProgramInv, IntentWrite
  PROVE  intents' \in [Seqs -> Intent]
  <1>1. /\ intents \in [Seqs -> Intent] /\ seq \in Seqs
        /\ dispatcherAt \in Time /\ 0 \in Time
    BY AuthorityBounds DEF TypeOK, Time
  <1>2. ASSUME NEW state \in IntentState
        PROVE  [intents EXCEPT ![seq].state = state] \in [Seqs -> Intent]
    BY <1>1 DEF Intent
  <1>3. CASE PrepareIntent
    <2>1. grant \in Grants
      BY <1>1, <1>3 DEF PrepareIntent, ProgramInv, BindStep, RecordsInv, Recorded
    <2>2. dispatcherAt + IntentTTL \in Nat /\ leases[grant].expires \in Nat
      BY <1>1, <2>1, TimeIsNat, AuthorityBounds DEF TypeOK, Lease
    <2>3. FreshIntent \in Intent
      BY <1>1, <2>2 DEF FreshIntent, Smaller, Intent, IntentState
    <2>4. intents' = intents \/ intents' = [intents EXCEPT ![seq] = FreshIntent]
      BY <1>3 DEF PrepareIntent
    <2>5. QED
      BY <1>1, <2>3, <2>4
  <1>4. CASE RevalidateIneligible \/ RevalidateStale \/ ResubmitTurn \/ ReplaceHead
               \/ AckTrigger
    <2>1. \/ intents' = intents
          \/ \E state \in IntentState : intents' = [intents EXCEPT ![seq].state = state]
      BY <1>4 DEF RevalidateIneligible, RevalidateStale, ResubmitTurn, ReplaceHead,
                  AckTrigger, Terminalize, IntentState
    <2>2. QED
      BY <1>1, <1>2, <2>1
  <1>5. CASE CommitSubmission
    <2>1. \/ \E state \in IntentState : intents' = [intents EXCEPT ![seq].state = state]
          \/ intents' = [intents EXCEPT ![seq].state = "submitted",
                                        ![seq].committed = dispatcherAt]
      BY <1>5 DEF CommitSubmission, Terminalize, IntentState
    <2>2. QED
      BY <1>1, <1>2, <2>1 DEF Intent, IntentState
  <1>6. CASE CompleteIntent
    <2>1. \/ intents' = intents
          \/ intents' = [intents EXCEPT ![seq].state = "completed",
                                        ![seq].completed = dispatcherAt]
      BY <1>6 DEF CompleteIntent
    <2>2. QED
      BY <1>1, <2>1 DEF Intent, IntentState
  <1>7. QED
    BY <1>3, <1>4, <1>5, <1>6 DEF IntentWrite

LEMMA DispositionsType ==
  ASSUME TypeOK, DispositionWrite
  PROVE  dispositions' \in [Seqs -> Disposition]
  <1> USE DEF Disposition, DispositionKind, DispositionState
  <1>1. /\ dispositions \in [Seqs -> Disposition] /\ seq \in Seqs
        /\ dispatcherAt \in Time /\ 0 \in Time
    BY AuthorityBounds DEF TypeOK, Time
  <1>2. ASSUME NEW n \in Seqs, ObserverPrepare(n) \/ ObserverAck(n)
        PROVE  dispositions' \in [Seqs -> Disposition]
    BY <1>1, <1>2 DEF ObserverPrepare, ObserverAck
  <1>3. CASE PrepareDisposition
    BY <1>1, <1>3 DEF PrepareDisposition
  <1>4. CASE BindDisposition
    BY <1>1, <1>4 DEF BindDisposition
  <1>5. CASE CompleteDisposition \/ TerminalizeDisposition
    BY <1>1, <1>5 DEF CompleteDisposition, TerminalizeDisposition
  <1>6. QED
    BY <1>2, <1>3, <1>4, <1>5 DEF DispositionWrite

LEMMA NormalizedType ==
  ASSUME TypeOK, NEW g \in Grants, NEW time
  PROVE  Normalized(g, time) \in [Grants -> Lease]
  <1>1. leases \in [Grants -> Lease]
    BY DEF TypeOK
  <1>2. [leases EXCEPT ![g].state = "expired"] \in [Grants -> Lease]
    BY <1>1 DEF Lease, LeaseState
  <1>3. QED
    BY <1>1, <1>2 DEF Normalized

LEMMA FreshLeaseType ==
  ASSUME TypeOK, NEW g \in Grants, now < GrantEnd(g)
  PROVE  /\ FreshLease(g) \in Lease
         /\ FreshLease(g).expires > now /\ FreshLease(g).expires <= GrantEnd(g)
  <1>1. now \in Nat /\ GrantEnd(g) \in Nat /\ LeaseTTL \in Nat \ {0} /\ now \in Time
    <2>1. grants[g].created \in Time /\ now \in Time
      BY DEF TypeOK, Grant
    <2>2. QED
      BY <2>1, TimeIsNat, AuthorityBounds DEF GrantEnd
  <1>2. /\ now + Smaller(LeaseTTL, GrantEnd(g) - now) \in Nat
        /\ now + Smaller(LeaseTTL, GrantEnd(g) - now) > now
        /\ now + Smaller(LeaseTTL, GrantEnd(g) - now) <= GrantEnd(g)
    BY <1>1 DEF Smaller
  <1>3. QED
    BY <1>1, <1>2, AuthorityBounds DEF FreshLease, Lease, LeaseState

LEMMA EnteredIntervention ==
  ASSUME TypeOK, RecordsInv, NEW n \in Seqs, intents[n].state # "none"
  PROVE  decisions[n].grant \in Grants /\ decisions[n].state # "none"
  BY DEF RecordsInv, Recorded

LEMMA LeasesType ==
  ASSUME TypeOK, RecordsInv, ProgramInv, LeaseWrite
  PROVE  leases' \in [Grants -> Lease]
  <1>1. /\ leases \in [Grants -> Lease] /\ seq \in Seqs
        /\ dispatcherAt \in Nat /\ MinInterval \in Nat /\ MaxTurns \in Nat
    BY TimeIsNat, AuthorityBounds DEF TypeOK
  <1>2. ASSUME NEW g \in Grants, RevokeLease(g) PROVE leases' \in [Grants -> Lease]
    BY <1>1, <1>2 DEF RevokeLease, Lease, LeaseState
  <1>3. ASSUME NEW g \in Grants, ActivateGrant(g) PROVE leases' \in [Grants -> Lease]
    BY <1>1, <1>3, FreshLeaseType DEF ActivateGrant
  <1>4. ASSUME NEW n \in Seqs, NEW keep, EnterDispatch(n, keep)
        PROVE  leases' \in [Grants -> Lease]
    <2>1. leases' = leases
          \/ (intents[n].state # "none" /\ leases' = Normalized(decisions[n].grant, now))
      BY <1>4 DEF EnterDispatch
    <2>2. QED
      BY <1>1, <2>1, EnteredIntervention, NormalizedType
  <1>5. CASE AdmitIntent
    <2>1. grant \in Grants
      BY <1>1, <1>5 DEF AdmitIntent, ProgramInv, BindStep, RecordsInv, Recorded
    <2>2. QED
      BY <1>5, <2>1, NormalizedType DEF AdmitIntent
  <1>6. CASE CommitSubmission
    <2>1. grant \in Grants
      BY <1>1, <1>6 DEF CommitSubmission, ProgramInv, DispatchStep, RecordsInv, Recorded
    <2>2. ASSUME leases[grant].turns < MaxTurns
          PROVE  Charged(leases[grant], dispatcherAt) \in Lease
      <3>1. leases[grant] \in Lease /\ dispatcherAt + MinInterval \in Nat
        BY <1>1, <2>1
      <3>2. leases[grant].turns + 1 \in 0 .. MaxTurns
        BY <1>1, <2>2, <3>1 DEF Lease
      <3>3. QED
        BY <3>1, <3>2 DEF Charged, Lease, LeaseState
    <2>3. QED
      BY <1>1, <1>6, <2>1, <2>2 DEF CommitSubmission
  <1>7. CASE RecoverByDispatch
    BY <1>1, <1>4, <1>7 DEF RecoverByDispatch
  <1>8. QED
    BY <1>2, <1>3, <1>4, <1>5, <1>6, <1>7 DEF LeaseWrite, Dispatch

LEMMA GrantsType ==
  ASSUME TypeOK, GrantWrite
  PROVE  grants' \in [Grants -> Grant]
  BY DEF TypeOK, GrantWrite, PrepareGrant, ExpireGrant, LinkLease, Grant, GrantState

LEMMA ProgramType ==
  ASSUME TypeOK, Start \/ Proceed \/ Crash
  PROVE  (/\ pc \in Step /\ seq \in Seqs /\ grant \in Grants \cup {NoGrant}
          /\ at \in Time /\ dispatcherAt \in Time /\ recovering \in BOOLEAN)'
  <1>1. /\ 0 \in Time /\ 1 \in Seqs /\ now \in Time /\ pc \in Step /\ seq \in Seqs
        /\ grant \in Grants \cup {NoGrant} /\ at \in Time /\ dispatcherAt \in Time
        /\ recovering \in BOOLEAN
    BY AuthorityBounds DEF TypeOK, Time, Seqs
  <1>2. \A n \in Seqs : decisions[n].grant \in Grants \cup {NoGrant}
    BY DEF TypeOK, Decision
  <1> USE DEF Step, BindStep, DispatchStep, Goto, Finish, Return, Terminalize
  <1>3. CASE Start
    BY <1>1, <1>2, <1>3 DEF Start, ActivateGrant, BindDecision, Dispatch, EnterDispatch,
                            RecoverExpiredBind
  <1>4. CASE \/ LinkLease \/ AdmitIntent \/ AdmissionConflict \/ PrepareIntent
             \/ PrepareDisposition \/ BindDisposition \/ LinkIntent \/ ReviewDecision
    BY <1>1, <1>4 DEF LinkLease, AdmitIntent, AdmissionConflict, PrepareIntent,
         PrepareDisposition, BindDisposition, LinkIntent, ReviewDecision
  <1>5. CASE \/ RevalidateIneligible \/ RevalidateStale \/ SubmitTurn \/ ResubmitTurn
             \/ ReplaceHead \/ CommitSubmission \/ AckTrigger
    BY <1>1, <1>5 DEF RevalidateIneligible, RevalidateStale, SubmitTurn, ResubmitTurn,
         ReplaceHead, CommitSubmission, AckTrigger
  <1>6. CASE CompleteIntent \/ CompleteDisposition \/ TerminalizeDisposition
               \/ ExpireDecision \/ Crash
    BY <1>1, <1>6 DEF CompleteIntent, CompleteDisposition, TerminalizeDisposition,
         ExpireDecision, Crash
  <1>7. CASE RecoverByDispatch
    BY <1>1, <1>2, <1>7 DEF RecoverByDispatch, EnterDispatch
  <1>8. QED
    BY <1>3, <1>4, <1>5, <1>6, <1>7 DEF Proceed

LEMMA NextType ==
  ASSUME TypeOK, RecordsInv, ProgramInv, [Next]_vars
  PROVE  TypeOK'
  <1>1. Frames
    BY NextFrames
  <1>2. now' \in Time
    BY <1>1, AuthorityBounds DEF Frames, Tick, TypeOK, Time
  <1>3. journal' \in Seq({0} \cup Seqs)
    <2>1. journal \in Seq({0} \cup Seqs) /\ seq \in Seqs
      BY DEF TypeOK
    <2>2. \/ journal' = journal \/ journal' = Append(journal, 0)
          \/ journal' = Append(journal, seq)
      BY <1>1 DEF Frames, HumanTurn, ReplaceHead, Human
    <2>3. QED
      BY <2>1, <2>2
  <1>4. fed' \in Nat
    BY <1>1 DEF Frames, Materialize, TypeOK
  <1>5. cursor' \in Nat
    BY <1>1, TimeIsNat DEF Frames, AckTrigger, ObserverAck, TypeOK
  <1>6. tasks' \subseteq Seqs
    BY <1>1 DEF Frames, SubmitTurn, TypeOK
  <1>7. lineages' \subseteq Seqs
    BY <1>1 DEF Frames, PrepareLineage, TypeOK
  <1>8. (/\ pc \in Step /\ seq \in Seqs /\ grant \in Grants \cup {NoGrant}
         /\ at \in Time /\ dispatcherAt \in Time /\ recovering \in BOOLEAN)'
    BY <1>1, ProgramType DEF Frames, TypeOK
  <1>9. grants' \in [Grants -> Grant] /\ leases' \in [Grants -> Lease]
    BY <1>1, GrantsType, LeasesType DEF Frames, TypeOK
  <1>10. /\ decisions' \in [Seqs -> Decision] /\ intents' \in [Seqs -> Intent]
         /\ dispositions' \in [Seqs -> Disposition]
    BY <1>1, DecisionsType, IntentsType, DispositionsType DEF Frames, TypeOK
  <1>11. QED
    BY <1>2, <1>3, <1>4, <1>5, <1>6, <1>7, <1>8, <1>9, <1>10 DEF TypeOK
-----------------------------------------------------------------------------
(* The moves: what a step may do to one record of a store.                 *)

SameTerms(n) ==
  /\ decisions'[n].grant = decisions[n].grant
  /\ decisions'[n].created = decisions[n].created

DecisionMove(n) ==
  \/ decisions'[n] = decisions[n]
  \/ /\ pc = "idle" /\ decisions[n].state = "none"
     /\ \E g \in Grants : /\ decisions'[n] = FreshDecision(g)
                          /\ Activated(g) /\ LeaseWithinGrant(g)
                          /\ LeaseEligibleAt(g, now)
  \/ /\ decisions[n].state \in {"prepared", "intent_bound"}
     /\ decisions'[n].state \in {"conflict", "manual_review", "expired"}
     /\ SameTerms(n) /\ decisions'[n].bound = decisions[n].bound
     /\ decisions'[n].state = "expired" =>
          pc = "expire_decision" /\ n = seq /\ Recovered(n) /\ Held(n)
  \/ /\ pc = "link" /\ n = seq /\ SameTerms(n)
     /\ decisions'[n].state = "intent_bound" /\ decisions'[n].bound
     /\ IntentMatches(n, at)

IntentKept(n) ==
  /\ intents'[n].created = intents[n].created
  /\ intents'[n].expires = intents[n].expires

IntentMove(n) ==
  \/ intents'[n] = intents[n]
  \/ /\ pc = "prepare_intent" /\ n = seq /\ intents[n].state = "none"
     /\ LeaseEligibleAt(grant, dispatcherAt)
     /\ intents'[n] = FreshIntent
  \/ /\ pc \in {"revalidate", "replace_head", "commit", "ack"} /\ n = seq
     /\ intents'[n].state \in TerminalFailure /\ IntentKept(n)
  \/ /\ pc = "commit" /\ n = seq /\ IntentKept(n)
     /\ intents'[n].state = "submitted"
     /\ intents'[n].committed = dispatcherAt
     /\ leases' = [leases EXCEPT ![grant] = Charged(@, dispatcherAt)]
  \/ /\ pc = "complete_intent" /\ n = seq /\ IntentKept(n)
     /\ intents'[n].state = "completed"
     /\ intents'[n].committed = intents[n].committed

DispositionMove(n) ==
  \/ dispositions'[n] = dispositions[n]
  \/ dispositions[n].kind = "none"
  \/ /\ dispositions[n].kind = "observer"
     /\ dispositions'[n].kind = "observer"
  \/ /\ n = seq /\ dispositions'[n].kind = dispositions[n].kind
     /\ \/ pc = "bind_disposition"
        \/ pc \in {"complete_disposition", "terminalize_disposition"}

LeaseKept(g) ==
  /\ leases'[g].issued = leases[g].issued
  /\ leases'[g].expires = leases[g].expires

LeaseMove(g) ==
  \/ leases'[g] = leases[g]
  \/ /\ leases[g].state = "none" /\ now < GrantEnd(g)
     /\ grants[g].state = "prepared" /\ grants' = grants
     /\ leases'[g] = FreshLease(g)
  \/ /\ leases[g].state = "active" /\ leases'[g].state \in {"expired", "revoked"}
     /\ LeaseKept(g) /\ leases'[g].turns = leases[g].turns
     /\ leases'[g].state = "expired" => pc \in {"idle", "admit", "recover"}
  \/ /\ CommitSubmission /\ g = grant /\ intents'[seq].state = "submitted"
     /\ leases[g].state # "expired" => leases'[g].state # "expired"
     /\ leases[g].state # "none" => leases'[g].state # "none"
     /\ LeaseKept(g) /\ leases'[g].turns = leases[g].turns + 1

GrantMove(g) ==
  \/ grants'[g] = grants[g]
  \/ grants[g].state = "none" /\ grants'[g].state = "prepared"
  \/ grants'[g].state = "expired" /\ grants[g].state = "prepared"
  \/ /\ grants'[g].state = "activated" /\ grants'[g].created = grants[g].created
     /\ leases[g].state = "active" /\ leases' = leases

Moves ==
  /\ \A n \in Seqs : DecisionMove(n) /\ IntentMove(n) /\ DispositionMove(n)
  /\ \A g \in Grants : LeaseMove(g) /\ GrantMove(g)

LEMMA DecisionMoves ==
  ASSUME TypeOK, DecisionWrite, NEW n \in Seqs
  PROVE  DecisionMove(n)
  <1>1. decisions \in [Seqs -> Decision] /\ seq \in Seqs
    BY DEF TypeOK
  <1>2. ASSUME NEW m \in Seqs, NEW g \in Grants, PrepareDecision(m, g)
        PROVE  DecisionMove(n)
    <2>1. decisions'[n] = IF n = m THEN FreshDecision(g) ELSE decisions[n]
      BY <1>1, <1>2 DEF PrepareDecision
    <2>2. QED
      BY <1>2, <2>1 DEF PrepareDecision, Decidable, DecisionMove
  <1>3. ASSUME NEW m \in Seqs, NEW state \in {"conflict", "manual_review", "expired"},
               NEW time, decisions' = decisions \/ decisions' = Closed(m, state, time),
               state = "expired" =>
                 pc = "expire_decision" /\ m = seq /\ Recovered(m) /\ Held(m)
        PROVE  DecisionMove(n)
    <2>1. CASE decisions'[n] = decisions[n]
      BY <2>1 DEF DecisionMove
    <2>2. CASE /\ n = m /\ decisions[n].state \in {"prepared", "intent_bound"}
               /\ decisions' = [decisions EXCEPT ![n].state = state]
      <3>1. /\ decisions'[n].state = state /\ SameTerms(n)
            /\ decisions'[n].bound = decisions[n].bound
        BY ZenonT(60), <1>1, <2>2 DEF SameTerms, Decision
      <3>2. QED
        BY <1>3, <2>2, <3>1 DEF DecisionMove
    <2>3. QED
      BY <1>1, <1>3, <2>1, <2>2 DEF Closed
  <1>4. ASSUME NEW m \in Seqs, BindDecision(m) PROVE DecisionMove(n)
    BY <1>3, <1>4 DEF BindDecision
  <1>5. CASE AdmissionConflict \/ ReviewDecision
    BY <1>1, <1>3, <1>5 DEF AdmissionConflict, ReviewDecision
  <1>6. CASE ExpireDecision
    <2>1. CASE Recovered(seq) /\ Held(seq)
      <3>1. decisions' = Closed(seq, "expired", now) /\ pc = "expire_decision"
        BY <1>6, <2>1 DEF ExpireDecision
      <3>2. QED
        BY <1>1, <1>3, <2>1, <3>1
    <2>2. CASE ~(Recovered(seq) /\ Held(seq))
      BY <1>6, <2>2 DEF ExpireDecision, DecisionMove
    <2>3. QED
      BY <2>1, <2>2
  <1>7. CASE LinkIntent
    <2>1. CASE decisions'[n] = decisions[n]
      BY <2>1 DEF DecisionMove
    <2>2. CASE /\ n = seq /\ IntentMatches(n, at)
               /\ decisions' = [decisions EXCEPT ![n].state = "intent_bound",
                                                 ![n].bound = TRUE,
                                                 ![n].boundAt = at]
      <3>1. /\ decisions'[n].state = "intent_bound" /\ SameTerms(n)
            /\ decisions'[n].bound = TRUE
        BY <1>1, <2>2 DEF SameTerms, Decision
      <3>2. QED
        BY <1>7, <2>2, <3>1 DEF LinkIntent, DecisionMove
    <2>3. QED
      BY <1>1, <1>7, <2>1, <2>2 DEF LinkIntent
  <1>8. QED
    BY <1>2, <1>4, <1>5, <1>6, <1>7 DEF DecisionWrite

LEMMA IntentMoves ==
  ASSUME TypeOK, IntentWrite, NEW n \in Seqs
  PROVE  IntentMove(n)
  <1>1. intents \in [Seqs -> Intent] /\ seq \in Seqs
    BY DEF TypeOK
  <1>2. CASE PrepareIntent
    BY <1>1, <1>2 DEF PrepareIntent, IntentMove
  <1>3. ASSUME pc \in {"revalidate", "replace_head", "commit", "ack"},
               NEW state \in TerminalFailure,
               intents' = intents \/ intents' = [intents EXCEPT ![seq].state = state]
        PROVE  IntentMove(n)
    BY <1>1, <1>3 DEF IntentMove, IntentKept, Intent
  <1>4. CASE RevalidateIneligible \/ RevalidateStale \/ ResubmitTurn \/ ReplaceHead
               \/ AckTrigger
    <2>1. pc \in {"revalidate", "replace_head", "commit", "ack"}
      BY <1>4 DEF RevalidateIneligible, RevalidateStale, ResubmitTurn, ReplaceHead,
                  AckTrigger
    <2>2. \/ intents' = intents
          \/ \E state \in TerminalFailure : intents' = [intents EXCEPT ![seq].state = state]
      BY <1>4 DEF RevalidateIneligible, RevalidateStale, ResubmitTurn, ReplaceHead,
                  AckTrigger, Terminalize, TerminalFailure
    <2>3. QED
      BY <1>3, <2>1, <2>2 DEF IntentMove
  <1>5. CASE CommitSubmission
    <2>1. \/ \E state \in TerminalFailure : intents' = [intents EXCEPT ![seq].state = state]
          \/ /\ intents' = [intents EXCEPT ![seq].state = "submitted",
                                           ![seq].committed = dispatcherAt]
             /\ leases' = [leases EXCEPT ![grant] = Charged(@, dispatcherAt)]
      BY <1>5 DEF CommitSubmission, Terminalize, TerminalFailure
    <2>2. pc = "commit"
      BY <1>5 DEF CommitSubmission
    <2>3. QED
      BY <1>1, <1>3, <2>1, <2>2 DEF IntentMove, IntentKept, Intent
  <1>6. CASE CompleteIntent
    <2>1. pc = "complete_intent" /\
          (\/ intents' = intents
           \/ intents' = [intents EXCEPT ![seq].state = "completed",
                                         ![seq].completed = dispatcherAt])
      BY <1>6 DEF CompleteIntent
    <2>2. QED
      BY <1>1, <2>1 DEF IntentMove, IntentKept, Intent
  <1>7. QED
    BY <1>2, <1>4, <1>5, <1>6 DEF IntentWrite

LEMMA DispositionMoves ==
  ASSUME TypeOK, DispositionWrite, NEW n \in Seqs
  PROVE  DispositionMove(n)
  <1> USE DEF Disposition, DispositionMove
  <1>1. dispositions \in [Seqs -> Disposition] /\ seq \in Seqs
    BY DEF TypeOK
  <1>2. ASSUME NEW m \in Seqs, ObserverPrepare(m) \/ ObserverAck(m)
        PROVE  DispositionMove(n)
    BY <1>1, <1>2 DEF ObserverPrepare, ObserverAck
  <1>3. CASE PrepareDisposition
    BY <1>1, <1>3 DEF PrepareDisposition
  <1>4. CASE BindDisposition
    BY <1>1, <1>4 DEF BindDisposition
  <1>5. CASE CompleteDisposition \/ TerminalizeDisposition
    BY <1>1, <1>5 DEF CompleteDisposition, TerminalizeDisposition
  <1>6. QED
    BY <1>2, <1>3, <1>4, <1>5 DEF DispositionWrite

LEMMA LeaseMoves ==
  ASSUME TypeOK, RecordsInv, ProgramInv, LeaseWrite, NEW g \in Grants
  PROVE  LeaseMove(g)
  <1>1. leases \in [Grants -> Lease] /\ seq \in Seqs
    BY DEF TypeOK
  <1>2. ASSUME NEW h \in Grants, NEW state \in {"expired", "revoked"},
               leases[h].state = "active",
               leases' = [leases EXCEPT ![h].state = state],
               state = "expired" => pc \in {"idle", "admit", "recover"}
        PROVE  LeaseMove(g)
    BY <1>1, <1>2 DEF LeaseMove, LeaseKept, Lease
  <1>3. ASSUME NEW h \in Grants, leases' = Normalized(h, now),
               pc \in {"idle", "admit", "recover"}
        PROVE  LeaseMove(g)
    <2>1. leases' = leases \/ (leases[h].state = "active"
                                 /\ leases' = [leases EXCEPT ![h].state = "expired"])
      BY <1>3 DEF Normalized, Overdue
    <2>2. QED
      BY <1>2, <1>3, <2>1 DEF LeaseMove
  <1>4. ASSUME NEW h \in Grants, RevokeLease(h) PROVE LeaseMove(g)
    BY <1>2, <1>4 DEF RevokeLease
  <1>5. ASSUME NEW h \in Grants, ActivateGrant(h) PROVE LeaseMove(g)
    BY <1>1, <1>5 DEF ActivateGrant, LeaseMove
  <1>6. ASSUME NEW n \in Seqs, NEW keep, EnterDispatch(n, keep), pc \in {"idle", "recover"}
        PROVE  LeaseMove(g)
    <2>1. leases' = leases
          \/ (intents[n].state # "none" /\ leases' = Normalized(decisions[n].grant, now))
      BY <1>6 DEF EnterDispatch
    <2>2. QED
      BY <1>3, <1>6, <2>1, EnteredIntervention DEF LeaseMove
  <1>7. CASE AdmitIntent
    <2>1. grant \in Grants
      BY <1>1, <1>7 DEF AdmitIntent, ProgramInv, BindStep, RecordsInv, Recorded
    <2>2. QED
      BY <1>3, <1>7, <2>1 DEF AdmitIntent
  <1>8. CASE RecoverByDispatch
    BY <1>1, <1>6, <1>8 DEF RecoverByDispatch, LeaseMove
  <1>9. CASE CommitSubmission
    <2>1. CASE /\ leases' = [leases EXCEPT ![grant] = Charged(@, dispatcherAt)]
               /\ intents' = [intents EXCEPT ![seq].state = "submitted",
                                             ![seq].committed = dispatcherAt]
      <3>1. intents'[seq].state = "submitted"
        BY <1>1, <2>1 DEF TypeOK, Intent
      <3>2. CASE g # grant
        BY <1>1, <2>1, <3>2 DEF LeaseMove
      <3>3. CASE g = grant
        <4>1. leases'[g] = Charged(leases[g], dispatcherAt) /\ leases[g] \in Lease
          BY <1>1, <2>1, <3>3
        <4>2. /\ leases'[g].turns = leases[g].turns + 1 /\ LeaseKept(g)
              /\ leases'[g].state = IF leases[g].state = "active"
                                         /\ leases[g].turns + 1 = MaxTurns
                                      THEN "exhausted" ELSE leases[g].state
          BY <4>1 DEF Charged, LeaseKept, Lease
        <4>3. QED
          BY <1>9, <3>1, <3>3, <4>2 DEF LeaseMove
      <3>4. QED
        BY <3>2, <3>3
    <2>2. CASE leases' = leases
      BY <2>2 DEF LeaseMove
    <2>3. QED
      BY <1>9, <2>1, <2>2 DEF CommitSubmission
  <1>10. QED
    BY <1>4, <1>5, <1>6, <1>7, <1>8, <1>9 DEF LeaseWrite, Dispatch

LEMMA GrantMoves ==
  ASSUME TypeOK, GrantWrite, NEW g \in Grants
  PROVE  GrantMove(g)
  <1> USE DEF GrantMove
  <1>1. grants \in [Grants -> Grant]
    BY DEF TypeOK
  <1>2. ASSUME NEW h \in Grants, PrepareGrant(h) PROVE GrantMove(g)
    BY <1>1, <1>2 DEF PrepareGrant
  <1>3. ASSUME NEW h \in Grants, ExpireGrant(h) PROVE GrantMove(g)
    BY <1>1, <1>3 DEF ExpireGrant, Grant
  <1>4. CASE LinkLease
    BY <1>1, <1>4 DEF LinkLease, Grant
  <1>5. QED
    BY <1>2, <1>3, <1>4 DEF GrantWrite

LEMMA NextMoves ==
  ASSUME TypeOK, RecordsInv, ProgramInv, [Next]_vars
  PROVE  Moves
  <1>1. Frames
    BY NextFrames
  <1>2. ASSUME NEW n \in Seqs
        PROVE  DecisionMove(n) /\ IntentMove(n) /\ DispositionMove(n)
    <2>1. DecisionMove(n)
      BY <1>1, DecisionMoves DEF Frames, DecisionMove
    <2>2. IntentMove(n)
      BY <1>1, IntentMoves DEF Frames, IntentMove
    <2>3. DispositionMove(n)
      BY <1>1, DispositionMoves DEF Frames, DispositionMove
    <2>4. QED
      BY <2>1, <2>2, <2>3
  <1>3. ASSUME NEW g \in Grants PROVE LeaseMove(g) /\ GrantMove(g)
    <2>1. LeaseMove(g)
      BY <1>1, LeaseMoves DEF Frames, LeaseMove
    <2>2. GrantMove(g)
      BY <1>1, GrantMoves DEF Frames, GrantMove
    <2>3. QED
      BY <2>1, <2>2
  <1>4. QED
    BY <1>2, <1>3 DEF Moves
-----------------------------------------------------------------------------
(* Windows.                                                                *)

Nested(n) ==
  LET g == decisions[n].grant IN
  /\ decisions[n].state # "none" =>
       /\ Activated(g) /\ LeaseWithinGrant(g)
       /\ leases[g].issued <= decisions[n].created
       /\ decisions[n].created < leases[g].expires
  /\ intents[n].state # "none" =>
       /\ leases[g].issued <= intents[n].created
       /\ intents[n].created < intents[n].expires
       /\ intents[n].expires <= leases[g].expires
  /\ decisions[n].bound => decisions[n].created <= intents[n].created
  /\ intents[n].state \in {"submitted", "completed"} =>
       /\ leases[g].issued <= intents[n].committed
       /\ intents[n].committed < intents[n].expires

LEMMA WindowsAreNested == WindowsNest <=> \A n \in Seqs : Nested(n)
  BY DEF WindowsNest, Nested

(* Once activated, a grant and its lease keep their windows.               *)
LEMMA WindowStable ==
  ASSUME TypeOK, GrantsInv, Moves, NEW g \in Grants, Activated(g)
  PROVE  /\ Activated(g)' /\ GrantEnd(g)' = GrantEnd(g)
         /\ LeaseKept(g) /\ leases'[g].state # "none"
         /\ LeaseWithinGrant(g) => LeaseWithinGrant(g)'
  <1>1. leases[g].state # "none" /\ GrantMove(g) /\ LeaseMove(g)
    BY DEF GrantsInv, Moves
  <1>2. Activated(g)' /\ grants'[g].created = grants[g].created
    BY <1>1 DEF GrantMove, Activated
  <1>3. LeaseKept(g) /\ leases'[g].state # "none"
    BY <1>1 DEF LeaseMove, LeaseKept
  <1>4. QED
    BY <1>2, <1>3 DEF GrantEnd, LeaseKept, LeaseWithinGrant

LEMMA NextGrants ==
  ASSUME TypeOK, GrantsInv, Moves
  PROVE  GrantsInv'
  <1>1. SUFFICES ASSUME NEW g \in Grants, Activated(g)' PROVE leases'[g].state # "none"
    BY DEF GrantsInv
  <1>2. CASE Activated(g)
    BY <1>2, WindowStable
  <1>3. CASE ~Activated(g)
    BY <1>1, <1>3 DEF Moves, GrantMove, Activated
  <1>4. QED
    BY <1>2, <1>3

(* A decision that exists keeps its grant and its time, an intent its      *)
(* window, and neither record disappears.                                  *)
LEMMA RecordStable ==
  ASSUME TypeOK, RecordsInv, ProgramInv, Moves, NEW n \in Seqs
  PROVE  /\ decisions[n].state # "none" => SameTerms(n) /\ decisions'[n].state # "none"
         /\ intents[n].state # "none" => IntentKept(n) /\ intents'[n].state # "none"
         /\ intents[n].state = "expired" => intents'[n] = intents[n]
         /\ decisions[n].state = "expired" => decisions'[n] = decisions[n]
  <1>1. DecisionMove(n) /\ IntentMove(n)
    BY DEF Moves
  <1>2. pc = "link" /\ n = seq => decisions[n].state = "prepared"
    BY DEF ProgramInv, BindStep
  <1>3. n = seq => /\ pc \in {"revalidate", "replace_head", "commit"} =>
                        intents[n].state = "prepared"
                   /\ pc \in {"ack", "complete_intent"} => intents[n].state = "submitted"
    BY DEF ProgramInv
  <1>4. /\ decisions[n].state # "none" => SameTerms(n) /\ decisions'[n].state # "none"
        /\ decisions[n].state = "expired" => decisions'[n] = decisions[n]
    BY <1>1, <1>2 DEF DecisionMove, SameTerms
  <1>5. /\ intents[n].state # "none" => IntentKept(n) /\ intents'[n].state # "none"
        /\ intents[n].state = "expired" => intents'[n] = intents[n]
    BY <1>1, <1>3 DEF IntentMove, IntentKept, TerminalFailure
  <1>6. QED
    BY <1>4, <1>5

LEMMA LeaseNumbers ==
  ASSUME TypeOK, NEW g \in Grants
  PROVE  /\ leases[g].issued \in Nat /\ leases[g].expires \in Nat
         /\ leases[g].turns \in Nat
  <1>1. leases[g] \in Lease
    BY DEF TypeOK
  <1>2. /\ leases[g].issued \in Time /\ leases[g].expires \in Nat
        /\ leases[g].turns \in 0 .. MaxTurns
    BY <1>1 DEF Lease
  <1>3. MaxTurns \in Nat /\ Time \subseteq Nat
    BY TimeIsNat, AuthorityBounds
  <1>4. leases[g].issued \in Nat
    BY <1>2, <1>3
  <1>5. leases[g].turns \in Nat
    <2>1. ASSUME NEW k \in 0 .. MaxTurns PROVE k \in Nat
      BY <1>3
    <2>2. QED
      BY <1>2, <2>1
  <1>6. QED
    BY <1>2, <1>4, <1>5

LEMMA NextNested ==
  ASSUME TypeOK, GrantsInv, RecordsInv, ProgramInv, WindowsNest, Moves, NEW n \in Seqs
  PROVE  Nested(n)'
  <1>1. /\ Nested(n) /\ Recorded(n) /\ DecisionMove(n) /\ IntentMove(n)
    BY WindowsAreNested DEF RecordsInv, Moves
  <1>2. CASE decisions[n].state = "none"
    <2>1. intents[n].state = "none" /\ ~decisions[n].bound
      BY <1>1, <1>2 DEF Recorded
    <2>2. intents'[n] = intents[n]
      BY <1>1, <1>2, <2>1 DEF IntentMove, ProgramInv, BindStep
    <2>3. CASE decisions'[n] = decisions[n]
      BY <1>2, <2>1, <2>2, <2>3 DEF Nested
    <2>4. ASSUME NEW h \in Grants, decisions'[n] = FreshDecision(h),
                 Activated(h), LeaseWithinGrant(h), LeaseEligibleAt(h, now)
          PROVE  Nested(n)'
      <3>1. /\ decisions'[n].grant = h /\ decisions'[n].created = now
            /\ decisions'[n].bound = FALSE
        BY <2>4 DEF FreshDecision
      <3>2. leases[h].issued <= now /\ now < leases[h].expires
        BY <2>4 DEF LeaseEligibleAt
      <3>3. Activated(h)' /\ LeaseWithinGrant(h)' /\ LeaseKept(h)
        BY <2>4, WindowStable
      <3>4. intents'[n].state = "none"
        BY <2>1, <2>2
      <3>5. QED
        BY <3>1, <3>2, <3>3, <3>4 DEF Nested, LeaseKept
    <2>5. QED
      BY <1>1, <1>2, <2>3, <2>4 DEF DecisionMove, ProgramInv, BindStep
  <1>3. CASE decisions[n].state # "none"
    <2>1. PICK g \in Grants :
            g = decisions[n].grant /\ Activated(g) /\ LeaseWithinGrant(g)
      BY <1>1, <1>3 DEF Nested, Recorded
    <2>2. Activated(g)' /\ LeaseWithinGrant(g)' /\ LeaseKept(g)
      BY <2>1, WindowStable
    <2>3. /\ decisions'[n].grant = g /\ decisions'[n].created = decisions[n].created
          /\ decisions'[n].state # "none"
      BY <1>3, <2>1, RecordStable DEF SameTerms
    <2>4. /\ leases'[g].issued <= decisions'[n].created
          /\ decisions'[n].created < leases'[g].expires
      BY <1>1, <1>3, <2>1, <2>2, <2>3 DEF Nested, LeaseKept
    <2>5. ASSUME intents'[n].state # "none"
          PROVE  /\ leases'[g].issued <= intents'[n].created
                 /\ intents'[n].created < intents'[n].expires
                 /\ intents'[n].expires <= leases'[g].expires
      <3>1. CASE intents[n].state # "none"
        BY <1>1, <2>1, <2>2, <3>1, RecordStable DEF Nested, LeaseKept, IntentKept
      <3>2. CASE intents[n].state = "none"
        <4>1. /\ pc = "prepare_intent" /\ n = seq
              /\ LeaseEligibleAt(grant, dispatcherAt) /\ intents'[n] = FreshIntent
          BY <1>1, <2>5, <3>2 DEF IntentMove, ProgramInv
        <4>2. grant = g
          BY <2>1, <4>1 DEF ProgramInv, BindStep
        <4>3. leases[g].issued <= dispatcherAt /\ dispatcherAt < leases[g].expires
          BY <4>1, <4>2 DEF LeaseEligibleAt
        <4>4. /\ dispatcherAt \in Nat /\ IntentTTL \in Nat \ {0}
              /\ leases[g].expires \in Nat
          BY <2>1, LeaseNumbers, TimeIsNat, AuthorityBounds DEF TypeOK
        <4>5. /\ intents'[n].created = dispatcherAt
              /\ intents'[n].expires = Smaller(dispatcherAt + IntentTTL, leases[g].expires)
          BY <4>1, <4>2 DEF FreshIntent
        <4>6. QED
          BY <2>2, <4>3, <4>4, <4>5 DEF Smaller, LeaseKept
      <3>3. QED
        BY <3>1, <3>2
    <2>6. ASSUME decisions'[n].bound PROVE decisions'[n].created <= intents'[n].created
      <3>1. CASE decisions[n].bound
        BY <1>1, <2>3, <3>1, RecordStable DEF Nested, Recorded, IntentKept
      <3>2. CASE ~decisions[n].bound
        <4>1. pc = "link" /\ n = seq /\ IntentMatches(n, at)
          BY <1>1, <1>3, <2>6, <3>2 DEF DecisionMove
        <4>2. intents[n].state # "none" /\ intents[n].created >= decisions[n].created
          BY <4>1 DEF IntentMatches
        <4>3. IntentKept(n)
          BY <4>2, RecordStable
        <4>4. intents[n].created \in Nat /\ decisions[n].created \in Nat
          BY TimeIsNat DEF TypeOK, Intent, Decision
        <4>5. QED
          BY <2>3, <4>2, <4>3, <4>4 DEF IntentKept
      <3>3. QED
        BY <3>1, <3>2
    <2>7. ASSUME intents'[n].state \in {"submitted", "completed"}
          PROVE  /\ leases'[g].issued <= intents'[n].committed
                 /\ intents'[n].committed < intents'[n].expires
      <3>1. CASE intents[n].state \in {"submitted", "completed"}
                   /\ intents'[n].committed = intents[n].committed /\ IntentKept(n)
        BY <1>1, <2>1, <2>2, <3>1 DEF Nested, LeaseKept, IntentKept
      <3>2. CASE pc = "commit" /\ n = seq /\ intents'[n].committed = dispatcherAt
                   /\ IntentKept(n)
        <4>1. grant = g
          BY <2>1, <3>2 DEF ProgramInv, DispatchStep
        <4>2. leases[g].issued <= dispatcherAt /\ dispatcherAt < intents[n].expires
          BY <3>2, <4>1 DEF ProgramInv
        <4>3. QED
          BY <2>2, <3>2, <4>2 DEF LeaseKept, IntentKept
      <3>3. QED
        BY <1>1, <2>7, <3>1, <3>2
           DEF IntentMove, IntentKept, ProgramInv, FreshIntent, TerminalFailure
    <2>8. QED
      BY <2>2, <2>3, <2>4, <2>5, <2>6, <2>7 DEF Nested
  <1>4. QED
    BY <1>2, <1>3
-----------------------------------------------------------------------------
(* Records.                                                                *)

LEMMA DecisionCases ==
  ASSUME NEW n \in Seqs, DecisionMove(n)
  PROVE  \/ decisions'[n] = decisions[n]
         \/ /\ decisions[n].state = "none" /\ decisions'[n].state = "prepared"
            /\ decisions'[n].grant \in Grants /\ decisions'[n].bound = FALSE
         \/ /\ decisions[n].state \in {"prepared", "intent_bound"}
            /\ decisions'[n].state \in {"conflict", "manual_review"}
            /\ SameTerms(n) /\ decisions'[n].bound = decisions[n].bound
         \/ /\ decisions[n].state \in {"prepared", "intent_bound"}
            /\ decisions'[n].state = "expired"
            /\ SameTerms(n) /\ decisions'[n].bound = decisions[n].bound
            /\ pc = "expire_decision" /\ n = seq /\ Recovered(n) /\ Held(n)
         \/ /\ pc = "link" /\ n = seq /\ SameTerms(n)
            /\ decisions'[n].state = "intent_bound" /\ decisions'[n].bound
            /\ IntentMatches(n, at)
  <1>1. ASSUME NEW g \in Grants, decisions'[n] = FreshDecision(g)
        PROVE  /\ decisions'[n].state = "prepared"
               /\ decisions'[n].grant \in Grants /\ decisions'[n].bound = FALSE
    BY <1>1 DEF FreshDecision
  <1>2. QED
    BY ZenonT(60), <1>1 DEF DecisionMove

LEMMA IntentSteps ==
  ASSUME NEW n \in Seqs, IntentMove(n), intents'[n] # intents[n]
  PROVE  n = seq /\ pc \in {"prepare_intent", "revalidate", "replace_head", "commit",
                            "ack", "complete_intent"}
  BY DEF IntentMove

LEMMA NextRecorded ==
  ASSUME TypeOK, RecordsInv, ProgramInv, Moves, NEW n \in Seqs
  PROVE  Recorded(n)'
  <1>1. Recorded(n) /\ DecisionMove(n) /\ IntentMove(n)
    BY DEF RecordsInv, Moves
  <1>2. decisions'[n].state = "none" => decisions'[n].grant = NoGrant /\ ~decisions'[n].bound
    <2>1. SUFFICES ASSUME decisions'[n].state = "none"
                   PROVE  decisions'[n].grant = NoGrant /\ ~decisions'[n].bound
      OBVIOUS
    <2>2. decisions[n].state = "none"
      BY <2>1, RecordStable
    <2>3. decisions'[n] = decisions[n]
      BY <1>1, <2>1, <2>2, DecisionCases
    <2>4. QED
      BY <1>1, <2>2, <2>3 DEF Recorded
  <1>3. decisions'[n].state # "none" => decisions'[n].grant \in Grants
    <2>1. decisions[n].state # "none" => decisions[n].grant \in Grants
      BY <1>1 DEF Recorded
    <2>2. CASE decisions[n].state # "none"
      BY <2>1, <2>2, RecordStable DEF SameTerms
    <2>3. CASE decisions[n].state = "none"
      BY <1>1, <2>3, DecisionCases DEF ProgramInv, BindStep
    <2>4. QED
      BY <2>2, <2>3
  <1>4. intents'[n].state # "none" => decisions'[n].state # "none"
    <2>1. intents[n].state # "none" => decisions'[n].state # "none"
      BY <1>1, RecordStable DEF Recorded
    <2>2. n = seq /\ pc = "prepare_intent" => decisions'[n].state # "none"
      BY RecordStable DEF ProgramInv, BindStep
    <2>3. n = seq /\ pc \in {"revalidate", "replace_head", "commit", "ack", "complete_intent"}
            => intents[n].state # "none"
      BY DEF ProgramInv
    <2>4. QED
      BY <1>1, <2>1, <2>2, <2>3, IntentSteps
  <1>5. decisions'[n].bound => intents'[n].state # "none"
    BY <1>1, RecordStable, DecisionCases DEF Recorded, IntentMatches
  <1>6. decisions'[n].state = "intent_bound" => decisions'[n].bound
    BY <1>1, DecisionCases DEF Recorded
  <1>7. decisions'[n].state = "expired" => decisions'[n].bound /\ intents'[n].state = "expired"
    <2>1. SUFFICES ASSUME decisions'[n].state = "expired"
                   PROVE  decisions'[n].bound /\ intents'[n].state = "expired"
      OBVIOUS
    <2>2. CASE decisions[n].state = "expired"
      BY <1>1, <2>2, RecordStable DEF Recorded
    <2>3. CASE decisions[n].state # "expired"
      <3>1. /\ pc = "expire_decision" /\ n = seq /\ Recovered(n)
            /\ decisions'[n].bound = decisions[n].bound
        BY <1>1, <2>1, <2>3, DecisionCases
      <3>2. decisions[n].bound
        BY <1>1, <3>1 DEF ProgramInv, Recorded
      <3>3. intents'[n].state = "expired"
        BY <3>1, RecordStable DEF Recovered
      <3>4. QED
        BY <3>1, <3>2, <3>3
    <2>4. QED
      BY <2>2, <2>3
  <1>8. QED
    BY <1>2, <1>3, <1>4, <1>5, <1>6, <1>7 DEF Recorded

(* The cursor only moves forward.                                          *)
LEMMA CursorMoves ==
  ASSUME TypeOK, [Next]_vars
  PROVE  cursor' >= cursor
  <1>1. cursor' = cursor \/ AckTrigger \/ \E n \in Seqs : ObserverAck(n)
    BY NextFrames DEF Frames
  <1>2. cursor \in Nat
    BY DEF TypeOK
  <1>3. QED
    BY <1>1, <1>2 DEF AckTrigger, ObserverAck, IsNext

(* A Task is a new one only for the event its program is about.            *)
LEMMA TaskMoves ==
  ASSUME ProgramInv, [Next]_vars
  PROVE  \/ tasks' = tasks
         \/ /\ SubmitTurn /\ tasks' = tasks \cup {seq}
            /\ BoundIntervention(seq) /\ IsNext(seq) /\ intents[seq].state = "prepared"
  BY NextFrames DEF Frames, SubmitTurn, ProgramInv, DispatchStep

LEMMA NextAnswered ==
  ASSUME TypeOK, RecordsInv, ProgramInv, Moves, [Next]_vars, NEW n \in Seqs
  PROVE  Answered(n)'
  <1>1. /\ Recorded(n) /\ Answered(n)
        /\ DecisionMove(n) /\ IntentMove(n) /\ DispositionMove(n)
    BY DEF RecordsInv, Moves
  <1>2. cursor \in Nat /\ cursor' \in Nat /\ n \in Nat /\ cursor' >= cursor
    BY CursorMoves, NextType, TimeIsNat DEF TypeOK
  <1>3. ASSUME n \in tasks'
        PROVE  /\ dispositions[n].kind = "intervention" /\ intents[n].state # "none"
               /\ decisions[n].state # "expired" /\ n <= cursor + 1
    <2>1. CASE n \in tasks
      BY <1>1, <2>1 DEF Answered
    <2>2. CASE n \notin tasks
      <3>1. /\ n = seq /\ BoundIntervention(seq) /\ IsNext(seq)
            /\ intents[seq].state = "prepared"
        BY <1>3, <2>2, TaskMoves
      <3>2. QED
        BY <1>1, <1>2, <3>1 DEF Recorded, BoundIntervention, Intervention, IsNext
    <2>3. QED
      BY <2>1, <2>2
  <1>4. n \in tasks' => dispositions'[n].kind = "intervention"
    BY <1>1, <1>3 DEF DispositionMove
  <1>5. n \in tasks' => intents'[n].state # "none"
    BY <1>3, RecordStable
  <1>6. n \in tasks' => decisions'[n].state # "expired"
    <2>1. SUFFICES ASSUME n \in tasks', decisions'[n].state = "expired" PROVE FALSE
      OBVIOUS
    <2>2. pc = "expire_decision" /\ n \notin tasks
      BY <1>1, <1>3, <2>1, DecisionCases DEF Held
    <2>3. tasks' = tasks
      BY <2>2, TaskMoves DEF SubmitTurn
    <2>4. QED
      BY <2>1, <2>2, <2>3
  <1>7. ASSUME n \in tasks' PROVE n <= cursor' + 1
    <2>1. n <= cursor + 1
      BY <1>3, <1>7
    <2>2. ASSUME NEW i \in Nat, NEW j \in Nat, NEW k \in Nat, i <= j + 1, k >= j
          PROVE  i <= k + 1
      BY <2>2
    <2>3. QED
      BY <1>2, <2>1, <2>2
  <1>8. intents'[n].state \in {"submitted", "completed"} => n \in tasks'
    <2>1. SUFFICES ASSUME intents'[n].state \in {"submitted", "completed"}
                   PROVE  n \in tasks
      BY TaskMoves
    <2>2. pc = "commit" /\ n = seq => n \in tasks
      BY DEF ProgramInv
    <2>3. pc = "complete_intent" /\ n = seq => n \in tasks
      BY <1>1 DEF ProgramInv, Answered
    <2>4. QED
      BY <1>1, <2>1, <2>2, <2>3 DEF IntentMove, FreshIntent, TerminalFailure, Answered
  <1>9. QED
    BY <1>4, <1>5, <1>6, <1>7, <1>8 DEF Answered

LEMMA NextRecords ==
  ASSUME TypeOK, RecordsInv, ProgramInv, Moves, [Next]_vars
  PROVE  RecordsInv'
  BY NextRecorded, NextAnswered DEF RecordsInv

(* A lineage keeps the chain it was entered for.                           *)
LEMMA NextLineage ==
  ASSUME TypeOK, RecordsInv, ProgramInv, LineageInv, Moves, [Next]_vars
  PROVE  LineageInv'
  <1>1. SUFFICES ASSUME NEW n \in lineages'
                 PROVE  decisions'[n].state = "expired" /\ Recovered(n)'
    BY DEF LineageInv
  <1>2. n \in Seqs
    BY NextType DEF TypeOK
  <1>3. decisions[n].state = "expired" /\ Recovered(n)
    <2>1. lineages' = lineages \/ \E m \in Seqs : PrepareLineage(m)
      BY NextFrames DEF Frames
    <2>2. QED
      BY <1>1, <2>1 DEF LineageInv, PrepareLineage, FailedAttempt
  <1>4. decisions'[n] = decisions[n] /\ intents'[n] = intents[n]
    BY <1>2, <1>3, RecordStable DEF Recovered
  <1>5. PICK g \in Grants : g = decisions[n].grant
    BY <1>2, <1>3 DEF RecordsInv, Recorded
  <1>6. leases[g].state = "expired" /\ leases[g].turns = 0
    BY <1>3, <1>5 DEF Recovered
  <1>7. leases'[g].state = "expired" /\ leases'[g].turns = 0
    <2>1. LeaseMove(g)
      BY DEF Moves
    <2>2. CommitSubmission => leases[grant].state # "expired"
      BY DEF CommitSubmission, ProgramInv
    <2>3. QED
      BY <1>6, <2>1, <2>2 DEF LeaseMove
  <1>8. InReview(n)'
    <2>1. DispositionMove(n) /\ InReview(n)
      BY <1>2, <1>3 DEF Moves, Recovered
    <2>2. ASSUME n = seq, pc \in {"complete_disposition", "terminalize_disposition"}
          PROVE  FALSE
      BY <2>1, <2>2 DEF ProgramInv, DispatchStep, BoundIntervention, InReview, Intervention
    <2>3. n = seq => pc # "bind_disposition"
      BY <1>3 DEF ProgramInv, BindStep
    <2>4. dispositions'[n] = dispositions[n]
      BY <2>1, <2>2, <2>3 DEF DispositionMove, InReview, Intervention
    <2>5. QED
      BY <2>1, <2>4 DEF InReview, Intervention
  <1>9. QED
    BY <1>3, <1>4, <1>5, <1>7, <1>8 DEF Recovered

LEMMA NextJournal ==
  ASSUME TypeOK, RecordsInv, ProgramInv, JournalInv, [Next]_vars
  PROVE  JournalInv'
  <1>1. tasks \subseteq tasks' /\ journal \in Seq({0} \cup Seqs)
    BY TaskMoves DEF TypeOK
  <1>2. \/ journal' = journal \/ journal' = Append(journal, Human)
        \/ seq \in tasks /\ journal' = Append(journal, seq)
    BY NextFrames DEF Frames, HumanTurn, ReplaceHead, ProgramInv
  <1>3. CASE journal' = journal
    BY <1>1, <1>3 DEF JournalInv
  <1>4. ASSUME NEW who \in tasks \cup {Human}, journal' = Append(journal, who)
        PROVE  JournalInv'
    <2>1. SUFFICES ASSUME NEW k \in 1 .. Len(journal'), journal'[k] # Human
                   PROVE  journal'[k] \in tasks'
      BY DEF JournalInv
    <2>2. /\ k \in 1 .. Len(journal) => journal'[k] = journal[k]
          /\ k \notin 1 .. Len(journal) => journal'[k] = who
      BY <1>1, <1>4, <2>1
    <2>3. QED
      BY <1>1, <2>1, <2>2 DEF JournalInv
  <1>5. QED
    BY <1>2, <1>3, <1>4
-----------------------------------------------------------------------------
(* Turns and charges.                                                      *)

LEMMA PaidMoves ==
  ASSUME TypeOK, RecordsInv, ProgramInv, Moves, [Next]_vars,
         NEW g \in Grants, NEW n \in Paid(g)'
  PROVE  n \in Paid(g) \/ (n = seq /\ pc = "commit" /\ grant = g
                             /\ intents'[seq].state = "submitted")
  <1>1. /\ n \in tasks' /\ decisions'[n].grant = g
        /\ n <= cursor' \/ intents'[n].state = "submitted"
    BY DEF Paid
  <1>2. n \in Seqs /\ n \in Nat /\ cursor \in Nat /\ seq \in Seqs
    BY <1>1, NextType, TimeIsNat DEF TypeOK
  <1>3. n \in tasks
    <2>1. SUFFICES ASSUME n \notin tasks PROVE FALSE
      OBVIOUS
    <2>2. SubmitTurn /\ n = seq /\ IsNext(n) /\ intents[n].state = "prepared"
      BY <1>1, <2>1, TaskMoves
    <2>3. cursor' = cursor /\ intents' = intents
      BY <2>2 DEF SubmitTurn
    <2>4. QED
      BY <1>1, <1>2, <2>2, <2>3 DEF IsNext
  <1>4. Recorded(n) /\ Answered(n) /\ IntentMove(n)
    BY <1>2 DEF RecordsInv, Moves
  <1>5. decisions[n].grant = g /\ decisions[n].state # "none"
    BY <1>1, <1>2, <1>3, <1>4, RecordStable DEF Recorded, Answered, SameTerms
  <1>6. CASE n <= cursor'
    <2>1. CASE cursor' = cursor
      BY <1>3, <1>5, <1>6, <2>1 DEF Paid
    <2>2. CASE AckTrigger
      <3>1. /\ pc = "ack" /\ (cursor' = cursor \/ cursor' = seq)
            /\ cursor' = seq => cursor = seq \/ seq = cursor + 1
        BY <2>2 DEF AckTrigger, IsNext
      <3>2. intents[seq].state = "submitted"
        BY <3>1 DEF ProgramInv
      <3>3. n <= cursor \/ n = seq
        BY <1>2, <1>6, <3>1, TimeIsNat
      <3>4. QED
        BY <1>3, <1>5, <3>2, <3>3 DEF Paid
    <2>3. ASSUME NEW m \in Seqs, ObserverAck(m) PROVE n \in Paid(g)
      <3>1. cursor' = m /\ m = cursor + 1 /\ dispositions[m].kind = "observer"
        BY <2>3 DEF ObserverAck, IsNext
      <3>2. n # m
        BY <1>3, <1>4, <3>1 DEF Answered
      <3>3. n <= cursor
        BY <1>2, <1>6, <3>1, <3>2
      <3>4. QED
        BY <1>3, <1>5, <3>3 DEF Paid
    <2>4. QED
      BY <2>1, <2>2, <2>3, NextFrames DEF Frames
  <1>7. CASE intents'[n].state = "submitted"
    <2>1. CASE intents[n].state = "submitted"
      BY <1>3, <1>5, <2>1 DEF Paid
    <2>2. CASE intents[n].state # "submitted"
      <3>1. n = seq /\ pc = "commit"
        BY <1>4, <1>7, <2>2 DEF IntentMove, FreshIntent, TerminalFailure
      <3>2. grant = g
        BY <1>5, <3>1 DEF ProgramInv, DispatchStep
      <3>3. QED
        BY <1>7, <3>1, <3>2
    <2>3. QED
      BY <2>1, <2>2
  <1>8. QED
    BY <1>1, <1>6, <1>7

LEMMA NextPaid ==
  ASSUME TypeOK, WindowsNest, GrantsInv, RecordsInv, ProgramInv, PaidInv, Moves,
         [Next]_vars
  PROVE  PaidInv'
  <1>1. IsFiniteSet(tasks')
    BY TaskMoves, FS_AddElement DEF PaidInv
  <1>2. ASSUME NEW g \in Grants
        PROVE  Cardinality(Paid(g)') <= leases'[g].turns
    <2>1. /\ IsFiniteSet(Paid(g)) /\ Cardinality(Paid(g)) \in Nat
          /\ Cardinality(Paid(g)) <= leases[g].turns
      <3>1. IsFiniteSet(tasks) /\ Paid(g) \subseteq tasks
        BY DEF PaidInv, Paid
      <3>2. QED
        BY <3>1, FS_Subset, FS_CardinalityType DEF PaidInv
    <2>2. leases[g].turns \in Nat /\ leases'[g].turns \in Nat
      <3>1. TypeOK'
        BY NextType
      <3>2. leases'[g].turns \in 0 .. MaxTurns
        BY <3>1 DEF TypeOK, Lease
      <3>3. QED
        BY <3>2, LeaseNumbers, AuthorityBounds
    <2>3. CASE pc = "commit" /\ grant = g /\ intents'[seq].state = "submitted"
      <3>1. seq \in Seqs /\ intents[seq].state = "prepared" /\ IntentMove(seq)
        BY <2>3 DEF TypeOK, ProgramInv, Moves
      <3>2. leases' = [leases EXCEPT ![g] = Charged(@, dispatcherAt)]
        BY <2>3, <3>1 DEF IntentMove, TerminalFailure
      <3>3. leases'[g].turns = leases[g].turns + 1
        BY <3>2 DEF TypeOK, Lease, Charged
      <3>4. Paid(g)' \subseteq Paid(g) \cup {seq}
        BY PaidMoves
      <3>5. /\ IsFiniteSet(Paid(g) \cup {seq})
            /\ \/ Cardinality(Paid(g) \cup {seq}) = Cardinality(Paid(g)) + 1
               \/ Cardinality(Paid(g) \cup {seq}) = Cardinality(Paid(g))
        BY <2>1, FS_AddElement
      <3>6. /\ Cardinality(Paid(g)') <= Cardinality(Paid(g) \cup {seq})
            /\ Cardinality(Paid(g)') \in Nat /\ Cardinality(Paid(g) \cup {seq}) \in Nat
        BY <3>4, <3>5, FS_Subset, FS_CardinalityType
      <3>7. QED
        BY <2>1, <2>2, <3>3, <3>5, <3>6
    <2>4. CASE ~(pc = "commit" /\ grant = g /\ intents'[seq].state = "submitted")
      <3>1. Paid(g)' \subseteq Paid(g)
        BY <2>4, PaidMoves
      <3>2. /\ Cardinality(Paid(g)') <= Cardinality(Paid(g))
            /\ Cardinality(Paid(g)') \in Nat
        BY <2>1, <3>1, FS_Subset, FS_CardinalityType
      <3>3. CASE leases[g].state = "none"
        <4>1. ~Activated(g)
          BY <3>3 DEF GrantsInv
        <4>2. Paid(g) = {}
          <5>1. ASSUME NEW n \in Paid(g) PROVE FALSE
            <6>1. n \in Seqs /\ n \in tasks /\ decisions[n].grant = g
              BY DEF Paid, TypeOK
            <6>2. decisions[n].state # "none"
              BY <6>1 DEF RecordsInv, Recorded, Answered
            <6>3. QED
              BY <4>1, <6>1, <6>2 DEF WindowsNest
          <5>2. QED
            BY <5>1
        <4>3. Cardinality(Paid(g)') = 0
          BY <3>1, <4>2, FS_EmptySet
        <4>4. QED
          BY <2>2, <4>3
      <3>4. CASE leases[g].state # "none"
        <4>1. leases'[g].turns >= leases[g].turns
          <5>1. \/ leases'[g].turns = leases[g].turns
                \/ leases'[g].turns = leases[g].turns + 1
            BY <3>4 DEF Moves, LeaseMove
          <5>2. QED
            BY <2>2, <5>1
        <4>2. QED
          BY <2>1, <2>2, <3>2, <4>1
      <3>5. QED
        BY <3>3, <3>4
    <2>5. QED
      BY <2>3, <2>4
  <1>3. QED
    BY <1>1, <1>2 DEF PaidInv
-----------------------------------------------------------------------------
(* The running program.                                                    *)

LEMMA IdleProgram ==
  ASSUME pc' = "idle"
  PROVE  ProgramInv'
  BY DEF ProgramInv, BindStep, DispatchStep

(* The service and the clock take nothing from a running program.          *)
LEMMA BesideProgram ==
  ASSUME TypeOK, RecordsInv, ProgramInv, Tick \/ Service \/ UNCHANGED vars
  PROVE  ProgramInv'
  <1>1. UNCHANGED <<authorityVars, intents, tasks, programVars>>
    BY DEF Service, Tick, HumanTurn, Materialize, ObserverPrepare, ObserverAck,
           RevokeLease, vars
  <1>2. BoundIntervention(seq) => dispositions'[seq] = dispositions[seq]
    <2>1. seq \in Seqs /\ dispositions \in [Seqs -> Disposition]
      BY DEF TypeOK
    <2>2. \/ dispositions' = dispositions
          \/ \E n \in Seqs : ObserverPrepare(n) \/ ObserverAck(n)
      BY DEF Service, Tick, HumanTurn, Materialize, RevokeLease, vars
    <2>3. QED
      BY <2>1, <2>2 DEF ObserverPrepare, ObserverAck, BoundIntervention, Intervention
  <1>3. ASSUME NEW g \in Grants
        PROVE  LeaseKept(g) /\ (leases[g].state # "expired" => leases'[g].state # "expired")
    <2>1. leases \in [Grants -> Lease]
      BY DEF TypeOK
    <2>2. \/ leases' = leases
          \/ \E h \in Grants : leases' = [leases EXCEPT ![h].state = "revoked"]
      BY DEF Service, Tick, HumanTurn, Materialize, ObserverPrepare, ObserverAck,
             RevokeLease, vars
    <2>3. QED
      BY <2>1, <2>2 DEF LeaseKept, Lease
  <1>4. pc \in DispatchStep => BoundIntervention(seq)'
    BY <1>1, <1>2 DEF ProgramInv, BoundIntervention, Intervention
  <1>5. ASSUME pc \in {"replace_head", "commit"}
        PROVE  /\ leases'[grant].state # "expired"
               /\ leases'[grant].issued = leases[grant].issued
    <2>1. grant \in Grants /\ leases[grant].state # "expired"
      BY <1>5 DEF ProgramInv, DispatchStep, RecordsInv, Recorded, TypeOK
    <2>2. QED
      BY <1>3, <2>1 DEF LeaseKept
  <1>6. QED
    BY <1>1, <1>4, <1>5 DEF ProgramInv, BindStep, DispatchStep

LEMMA DispatchEntered ==
  ASSUME TypeOK, RecordsInv, NEW n \in Seqs, NEW keep \in BOOLEAN,
         EnterDispatch(n, keep), keep => decisions[n].state = "intent_bound",
         UNCHANGED <<decisions, intents, dispositions>>
  PROVE  ProgramInv'
  <1>1. /\ BoundIntervention(n) /\ seq' = n /\ grant' = decisions[n].grant
        /\ recovering' = keep
        /\ \/ intents[n].state = "prepared" /\ pc' = "revalidate"
           \/ intents[n].state = "submitted" /\ pc' = "ack"
           \/ intents[n].state # "none"
                /\ pc' \in {"complete_disposition", "terminalize_disposition"}
    BY DEF EnterDispatch, TerminalFailure
  <1>2. decisions[n].state # "none"
    BY <1>1, EnteredIntervention
  <1>3. BoundIntervention(n)' /\ intents' = intents /\ decisions' = decisions
    BY <1>1 DEF BoundIntervention, Intervention
  <1>4. QED
    BY <1>1, <1>2, <1>3 DEF ProgramInv, BindStep, DispatchStep

LEMMA CommandProgram ==
  ASSUME TypeOK, RecordsInv, ProgramInv, Command
  PROVE  ProgramInv'
  <1>1. ASSUME NEW g \in Grants, PrepareGrant(g) \/ ExpireGrant(g) PROVE ProgramInv'
    BY <1>1, IdleProgram DEF PrepareGrant, ExpireGrant
  <1>2. ASSUME NEW g \in Grants, ActivateGrant(g) PROVE ProgramInv'
    BY <1>2 DEF ActivateGrant, ProgramInv, BindStep, DispatchStep
  <1>3. ASSUME NEW n \in Seqs, NEW g \in Grants, PrepareDecision(n, g) PROVE ProgramInv'
    BY <1>3, IdleProgram DEF PrepareDecision
  <1>4. ASSUME NEW n \in Seqs, PrepareLineage(n) PROVE ProgramInv'
    BY <1>4, IdleProgram DEF PrepareLineage
  <1>5. ASSUME NEW n \in Seqs, BindDecision(n) PROVE ProgramInv'
    <2>1. CASE pc' = "idle"
      BY <2>1, IdleProgram
    <2>2. CASE /\ pc' = "admit" /\ seq' = n /\ grant' = decisions[n].grant
               /\ decisions' = decisions /\ decisions[n].state = "prepared"
      BY <2>2 DEF ProgramInv, BindStep, DispatchStep
    <2>3. QED
      BY <1>5, <2>1, <2>2 DEF BindDecision
  <1>6. ASSUME NEW n \in Seqs, Dispatch(n) PROVE ProgramInv'
    BY <1>6, DispatchEntered DEF Dispatch
  <1>7. ASSUME NEW n \in Seqs, RecoverExpiredBind(n) PROVE ProgramInv'
    BY <1>7 DEF RecoverExpiredBind, Recoverable, ProgramInv, BindStep, DispatchStep
  <1>8. QED
    BY <1>1, <1>2, <1>3, <1>4, <1>5, <1>6, <1>7 DEF Command

LEMMA BindProgram ==
  ASSUME TypeOK, ProgramInv,
         \/ AdmitIntent \/ PrepareIntent \/ PrepareDisposition \/ BindDisposition
         \/ LinkIntent
  PROVE  ProgramInv'
  <1>1. CASE pc' = "idle"
    BY <1>1, IdleProgram
  <1>2. CASE /\ pc \in BindStep /\ pc' \in BindStep /\ UNCHANGED <<seq, grant>>
             /\ decisions' = decisions
    BY <1>2 DEF ProgramInv, BindStep, DispatchStep
  <1>3. QED
    BY <1>1, <1>2 DEF AdmitIntent, PrepareIntent, PrepareDisposition, BindDisposition,
       LinkIntent, Goto, Finish, BindStep

(* A dispatch step that goes on to the disposition of a refused intent.    *)
LEMMA TerminalizedProgram ==
  ASSUME ProgramInv, pc \in DispatchStep,
         pc' \in {"terminalize_disposition", "complete_disposition", "expire_decision"},
         pc' = "expire_decision" => recovering,
         UNCHANGED <<seq, grant, recovering, decisions>>,
         pc' # "expire_decision" => dispositions' = dispositions
  PROVE  ProgramInv'
  BY DEF ProgramInv, BindStep, DispatchStep, BoundIntervention, Intervention

LEMMA DispatchProgram ==
  ASSUME TypeOK, ProgramInv, JournalInv,
         \/ RevalidateIneligible \/ RevalidateStale \/ SubmitTurn \/ ResubmitTurn
         \/ ReplaceHead \/ CommitSubmission \/ AckTrigger
  PROVE  ProgramInv'
  <1>1. /\ pc \in DispatchStep /\ seq \in Seqs /\ journal \in Seq({0} \cup Seqs)
        /\ UNCHANGED <<seq, grant, at, dispatcherAt, recovering, decisions, dispositions>>
    BY DEF RevalidateIneligible, RevalidateStale, SubmitTurn, ResubmitTurn, ReplaceHead,
           CommitSubmission, AckTrigger, Terminalize, Goto, DispatchStep, TypeOK
  <1>2. CASE pc' = "terminalize_disposition"
    BY <1>1, <1>2, TerminalizedProgram
  <1>3. /\ grant' = decisions'[seq'].grant /\ decisions'[seq'].state # "none"
        /\ BoundIntervention(seq)' /\ (recovering' => decisions'[seq'].state = "intent_bound")
    BY <1>1 DEF ProgramInv, BoundIntervention, Intervention
  <1>4. CASE SubmitTurn
    <2>1. /\ seq' \in tasks' /\ leases' = leases /\ intents' = intents
          /\ pc = "revalidate" /\ pc' = "replace_head" /\ MayDispatch(seq)
      BY <1>1, <1>4 DEF SubmitTurn, Goto
    <2>2. /\ leases[grant].state # "expired" /\ leases[grant].issued <= dispatcherAt
          /\ dispatcherAt < intents[seq].expires /\ intents[seq].state = "prepared"
      BY <2>1 DEF MayDispatch, LeaseEligibleAt, ProgramInv
    <2>3. QED
      BY <1>1, <1>3, <2>1, <2>2 DEF ProgramInv, BindStep, DispatchStep
  <1>5. CASE ResubmitTurn /\ pc' = "commit"
    <2>1. /\ UNCHANGED <<leases, intents, tasks>> /\ pc = "revalidate"
          /\ MayDispatch(seq) /\ AlreadyHead(seq)
      BY <1>5 DEF ResubmitTurn, Terminalize, Goto
    <2>2. seq \in tasks
      BY <1>1, <2>1, TimeIsNat DEF AlreadyHead, HeadAdvanced, JournalInv, Human
    <2>3. /\ leases[grant].state # "expired" /\ leases[grant].issued <= dispatcherAt
          /\ dispatcherAt < intents[seq].expires /\ intents[seq].state = "prepared"
      BY <2>1 DEF MayDispatch, LeaseEligibleAt, ProgramInv
    <2>4. QED
      BY <1>1, <1>3, <1>5, <2>1, <2>2, <2>3 DEF ProgramInv, BindStep, DispatchStep
  <1>6. CASE ReplaceHead /\ pc' = "commit"
    <2>1. UNCHANGED <<leases, intents, tasks>> /\ pc = "replace_head"
      BY <1>6 DEF ReplaceHead, Terminalize, Goto
    <2>2. QED
      BY <1>1, <1>3, <1>6, <2>1 DEF ProgramInv, BindStep, DispatchStep
  <1>7. CASE CommitSubmission /\ pc' = "ack"
    <2>1. intents'[seq].state = "submitted"
      BY <1>1, <1>7 DEF CommitSubmission, Terminalize, Goto, TypeOK, Intent
    <2>2. QED
      BY <1>1, <1>3, <1>7, <2>1 DEF ProgramInv, BindStep, DispatchStep
  <1>8. CASE AckTrigger /\ pc' = "complete_intent"
    <2>1. intents' = intents /\ pc = "ack"
      BY <1>8 DEF AckTrigger, Terminalize, Goto
    <2>2. QED
      BY <1>1, <1>3, <1>8, <2>1 DEF ProgramInv, BindStep, DispatchStep
  <1>9. QED
    BY <1>2, <1>4, <1>5, <1>6, <1>7, <1>8
       DEF RevalidateIneligible, RevalidateStale, ResubmitTurn, ReplaceHead,
           CommitSubmission, AckTrigger, Terminalize, Goto

LEMMA ReturnProgram ==
  ASSUME TypeOK, ProgramInv,
         CompleteIntent \/ CompleteDisposition \/ TerminalizeDisposition
  PROVE  ProgramInv'
  <1>1. CASE pc' = "idle"
    BY <1>1, IdleProgram
  <1>2. CASE /\ pc \in DispatchStep /\ UNCHANGED <<seq, grant, recovering, decisions>>
             /\ \/ pc' = "complete_disposition" /\ dispositions' = dispositions
                \/ pc' = "expire_decision" /\ recovering
    BY <1>2, TerminalizedProgram
  <1>3. QED
    BY <1>1, <1>2 DEF CompleteIntent, CompleteDisposition, TerminalizeDisposition,
       Return, Goto, Finish, DispatchStep

LEMMA NextProgram ==
  ASSUME TypeOK, RecordsInv, JournalInv, ProgramInv, [Next]_vars
  PROVE  ProgramInv'
  <1>1. CASE LinkLease \/ AdmissionConflict \/ ReviewDecision \/ ExpireDecision \/ Crash
    BY <1>1, IdleProgram DEF LinkLease, AdmissionConflict, ReviewDecision,
       ExpireDecision, Crash, Finish
  <1>2. CASE RecoverByDispatch
    <2>1. decisions[seq].state = "intent_bound" /\ seq \in Seqs /\ pc = "recover"
      BY <1>2 DEF RecoverByDispatch, ProgramInv, TypeOK
    <2>2. CASE EnterDispatch(seq, TRUE)
      BY <1>2, <2>1, <2>2, DispatchEntered DEF RecoverByDispatch
    <2>3. CASE pc' = "expire_decision" /\ UNCHANGED <<seq, grant, decisions>>
      BY <2>1, <2>3 DEF ProgramInv, BindStep, DispatchStep
    <2>4. QED
      BY <1>2, <2>2, <2>3 DEF RecoverByDispatch, Goto
  <1>3. QED
    BY <1>1, <1>2, BesideProgram, CommandProgram, BindProgram, DispatchProgram,
       ReturnProgram DEF Next, Proceed
-----------------------------------------------------------------------------
(* The invariant is inductive.                                             *)

LEMMA InitInv == Init => Inv
  <1>1. SUFFICES ASSUME Init PROVE Inv
    OBVIOUS
  <1>2. TypeOK
    BY <1>1, InitType
  <1>3. \A n \in Seqs : /\ decisions[n].state = "none" /\ decisions[n].grant = NoGrant
                        /\ decisions[n].bound = FALSE
                        /\ intents[n].state = "none"
    BY <1>1 DEF Init
  <1>4. WindowsNest /\ RecordsInv /\ LineageInv
    BY <1>1, <1>3 DEF Init, WindowsNest, RecordsInv, Recorded, Answered, LineageInv
  <1>5. GrantsInv /\ JournalInv /\ ProgramInv
    BY <1>1 DEF Init, GrantsInv, Activated, JournalInv, Human, ProgramInv, BindStep,
                DispatchStep
  <1>6. PaidInv
    <2>1. IsFiniteSet(tasks) /\ \A g \in Grants : Paid(g) = {} /\ leases[g].turns = 0
      BY <1>1, FS_EmptySet DEF Init, Paid
    <2>2. QED
      BY <2>1, FS_EmptySet DEF PaidInv
  <1>7. QED
    BY <1>2, <1>4, <1>5, <1>6 DEF Inv

LEMMA NextInv == Inv /\ [Next]_vars => Inv'
  <1>1. SUFFICES ASSUME Inv, [Next]_vars PROVE Inv'
    OBVIOUS
  <1>2. /\ TypeOK /\ WindowsNest /\ GrantsInv /\ RecordsInv
        /\ LineageInv /\ JournalInv /\ PaidInv /\ ProgramInv
    BY <1>1 DEF Inv
  <1>3. Moves
    BY <1>1, <1>2, NextMoves
  <1>4. WindowsNest'
    <2>1. \A n \in Seqs : Nested(n)'
      BY <1>2, <1>3, NextNested
    <2>2. QED
      BY <2>1 DEF WindowsNest, Nested
  <1>5. QED
    BY <1>1, <1>2, <1>3, <1>4, NextType, NextGrants, NextRecords, NextLineage, NextJournal,
       NextPaid, NextProgram DEF Inv

LEMMA Inductive == Spec => []Inv
  BY InitInv, NextInv, PTL DEF Spec

-----------------------------------------------------------------------------
(* What follows.                                                           *)

(* For every set of grants, quota, lifetime and clock: whatever programs   *)
(* an operator runs, wherever they stop and however the clock moves, the   *)
(* records are well-formed and the windows of grant, lease, decision and   *)
(* intent nest, down to the time a turn was counted at.                    *)
THEOREM ChainCorrect == Spec => []ChainSound
  BY Inductive, PTL DEF Inv, ChainSound

LEMMA LineageEvidence ==
  ASSUME Inv, NEW n \in Seqs, Inspection(n) = "conflict"
  PROVE  ~ExactEvidence(n) \/ now < GrantEnd(decisions[n].grant)
  <1>1. n \in lineages /\ ~(Held(n) /\ FailedAttempt(n))
    BY DEF Inspection
  <1>2. decisions[n].state = "expired" /\ Recovered(n)
    BY <1>1 DEF Inv, LineageInv
  <1>3. n \notin tasks /\ decisions[n].bound
    BY <1>2 DEF Inv, RecordsInv, Recorded, Answered
  <1>4. PICK g \in Grants : g = decisions[n].grant
    BY <1>2 DEF Inv, RecordsInv, Recorded
  <1>5. Activated(g) /\ leases[g].expires <= GrantEnd(g)
    BY <1>2, <1>4 DEF Inv, WindowsNest, LeaseWithinGrant
  <1>6. now \in Nat /\ GrantEnd(g) \in Nat /\ leases[g].expires \in Nat
    <2>1. now \in Time /\ grants[g].created \in Time /\ TypeOK
      BY DEF Inv, TypeOK, Grant
    <2>2. QED
      BY <2>1, LeaseNumbers, TimeIsNat, AuthorityBounds DEF GrantEnd
  <1>7. ASSUME ExactEvidence(n), ~(now < GrantEnd(g)) PROVE FALSE
    <2>1. GrantEnd(g) <= now /\ leases[g].expires <= now
      BY <1>5, <1>6, <1>7
    <2>2. FailedAttempt(n)
      BY <1>2, <1>3, <1>4, <1>5, <2>1 DEF FailedAttempt
    <2>3. Held(n)
      BY <1>3, <1>7 DEF Held
    <2>4. QED
      BY <1>1, <2>2, <2>3
  <1>8. QED
    BY <1>4, <1>7

(* An event closed as expired before dispatch, or entered as a retry, has  *)
(* no Task and never gets one; an audit conflicts only because the event   *)
(* is not the one held any more, or the clock was set back.                *)
THEOREM RecoveryCorrect == Spec => []RecoveryHidesNoTurn
  <1>1. Inv => RecoveryHidesNoTurn
    <2>1. SUFFICES ASSUME Inv, NEW n \in Seqs
                   PROVE  /\ decisions[n].state = "expired" \/ n \in lineages =>
                               n \notin tasks /\ intents[n].state = "expired"
                          /\ Inspection(n) = "conflict" =>
                               ~ExactEvidence(n) \/ now < GrantEnd(decisions[n].grant)
      BY DEF RecoveryHidesNoTurn
    <2>2. decisions[n].state = "expired" \/ n \in lineages =>
            n \notin tasks /\ intents[n].state = "expired"
      BY <2>1 DEF Inv, LineageInv, RecordsInv, Recorded, Answered
    <2>3. QED
      BY <2>1, <2>2, LineageEvidence
  <1>2. QED
    BY <1>1, Inductive, PTL
-----------------------------------------------------------------------------
(* The promise.                                                            *)

Payer == [n \in Seqs |-> decisions[n].grant]

(* A decision made is made for one grant.                                  *)
LEMMA PayerKept ==
  ASSUME TypeOK, \/ \E n \in Seqs : BindDecision(n)
                 \/ AdmissionConflict \/ LinkIntent \/ ReviewDecision \/ ExpireDecision
  PROVE  Payer' = Payer
  <1>1. decisions \in [Seqs -> Decision] /\ seq \in Seqs
    BY DEF TypeOK
  <1>2. \/ decisions' = decisions
        \/ \E m \in Seqs, state \in DecisionState :
              decisions' = [decisions EXCEPT ![m].state = state]
        \/ decisions' = [decisions EXCEPT ![seq].state = "intent_bound",
                                          ![seq].bound = TRUE, ![seq].boundAt = at]
    BY <1>1 DEF BindDecision, AdmissionConflict, LinkIntent, ReviewDecision,
                ExpireDecision, Closed, DecisionState
  <1>3. \A n \in Seqs : decisions'[n].grant = decisions[n].grant
    BY <1>1, <1>2 DEF Decision
  <1>4. QED
    BY <1>3 DEF Payer

(* The turns paid for an event's grant leave one for the event itself.     *)
LEMMA TurnLeft ==
  ASSUME Inv, SubmitTurn, seq \notin tasks
  PROVE  Cardinality({m \in tasks : Payer[m] = Payer[seq]}) < MaxTurns
  <1>1. seq \in Seqs /\ cursor \in Nat /\ seq = cursor + 1 /\ tasks \subseteq Seqs
    BY DEF Inv, TypeOK, SubmitTurn, IsNext
  <1>2. PICK g \in Grants : g = decisions[seq].grant /\ g = grant
    BY <1>1 DEF Inv, ProgramInv, DispatchStep, RecordsInv, Recorded, SubmitTurn
  <1>3. {m \in tasks : Payer[m] = Payer[seq]} \subseteq Paid(g)
    <2>1. ASSUME NEW m \in tasks, Payer[m] = Payer[seq] PROVE m \in Paid(g)
      <3>1. m \in Seqs /\ m \in Nat /\ m # seq /\ m <= cursor + 1
        BY <1>1, TimeIsNat DEF Inv, RecordsInv, Answered
      <3>2. m <= cursor
        BY <1>1, <3>1
      <3>3. decisions[m].grant = g
        BY <1>1, <1>2, <2>1, <3>1 DEF Payer
      <3>4. QED
        BY <3>2, <3>3 DEF Paid
    <2>2. QED
      BY <2>1
  <1>4. /\ IsFiniteSet(Paid(g)) /\ Cardinality(Paid(g)) <= leases[g].turns
        /\ Cardinality(Paid(g)) \in Nat
    <2>1. IsFiniteSet(tasks) /\ Paid(g) \subseteq tasks
      BY DEF Inv, PaidInv, Paid
    <2>2. QED
      BY <2>1, FS_Subset, FS_CardinalityType DEF Inv, PaidInv
  <1>5. leases[g].turns < MaxTurns /\ leases[g].turns \in Nat /\ MaxTurns \in Nat
    BY <1>2, LeaseNumbers, AuthorityBounds DEF Inv, SubmitTurn, MayDispatch, LeaseEligibleAt
  <1>6. /\ Cardinality({m \in tasks : Payer[m] = Payer[seq]}) <= Cardinality(Paid(g))
        /\ Cardinality({m \in tasks : Payer[m] = Payer[seq]}) \in Nat
    BY <1>3, <1>4, FS_Subset, FS_CardinalityType
  <1>7. QED
    BY <1>4, <1>5, <1>6

LEMMA OneCardinality == ASSUME NEW S PROVE Promise!Cardinality(S) = Cardinality(S)
  BY DEF Promise!Cardinality, Cardinality

LEMMA PromiseStep ==
  ASSUME Inv, [Next]_vars
  PROVE  [Promise!Next]_(Promise!promiseVars)
  <1>1. /\ Frames /\ TypeOK /\ RecordsInv
    BY NextFrames DEF Inv
  <1>2. CASE UNCHANGED <<Payer, tasks, lineages>>
    BY <1>2 DEF Promise!promiseVars, Payer
  <1>3. ASSUME NEW n \in Seqs, NEW g \in Grants, PrepareDecision(n, g)
        PROVE  Promise!Decide(n, g)
    <2>1. /\ decisions \in [Seqs -> Decision] /\ decisions[n].state = "none"
          /\ decisions' = [decisions EXCEPT ![n] = FreshDecision(g)]
          /\ UNCHANGED <<tasks, lineages>>
      BY <1>1, <1>3 DEF PrepareDecision, TypeOK
    <2>2. Payer[n] = NoGrant
      BY <1>1, <2>1 DEF Payer, RecordsInv, Recorded
    <2>3. Payer' = [Payer EXCEPT ![n] = g]
      BY <2>1 DEF Payer, FreshDecision
    <2>4. QED
      BY <2>1, <2>2, <2>3 DEF Promise!Decide, Payer
  <1>4. CASE SubmitTurn
    <2>1. /\ tasks' = tasks \cup {seq} /\ UNCHANGED <<lineages, decisions>> /\ seq \in Seqs
      BY <1>1, <1>4 DEF SubmitTurn, TypeOK
    <2>2. CASE seq \in tasks
      BY <1>2, <2>1, <2>2 DEF Payer
    <2>3. CASE seq \notin tasks
      <3>1. Payer[seq] # NoGrant
        BY <1>4, <2>1, AuthorityBounds
           DEF Inv, ProgramInv, DispatchStep, RecordsInv, Recorded, SubmitTurn, Payer
      <3>2. seq \notin lineages
        BY <1>4 DEF SubmitTurn, Inv, ProgramInv, LineageInv, Recovered
      <3>3. Promise!Spent(Payer[seq]) < MaxTurns
        BY <1>4, <2>3, TurnLeft, OneCardinality DEF Promise!Spent, Payer
      <3>4. Promise!Answer(seq)
        BY <2>1, <2>3, <3>1, <3>2, <3>3 DEF Promise!Answer, Payer
      <3>5. QED
        BY <2>1, <3>4 DEF Promise!Next
    <2>4. QED
      BY <2>2, <2>3
  <1>5. ASSUME NEW n \in Seqs, PrepareLineage(n)
        PROVE  Promise!Retry(n)
    <2>1. /\ lineages' = lineages \cup {n} /\ UNCHANGED <<tasks, decisions>>
          /\ n \notin tasks /\ decisions[n].state = "expired"
      BY <1>5 DEF PrepareLineage, Held, FailedAttempt
    <2>2. Payer[n] # NoGrant
      BY <1>1, <2>1, AuthorityBounds DEF RecordsInv, Recorded, Payer
    <2>3. QED
      BY <2>1, <2>2 DEF Promise!Retry, Payer
  <1>6. CASE decisions' = decisions /\ UNCHANGED <<tasks, lineages>>
    BY <1>2, <1>6 DEF Payer
  <1>7. CASE DecisionWrite /\ UNCHANGED <<tasks, lineages>>
    BY <1>1, <1>2, <1>3, <1>7, PayerKept DEF DecisionWrite, Promise!Next
  <1>8. QED
    BY <1>1, <1>3, <1>4, <1>5, <1>6, <1>7 DEF Frames, Promise!Next

(* The stores implement the promise, for every quota and any number of     *)
(* grants: a decision is made once, only a decided event is answered, a    *)
(* grant never pays for more turns than it allows, and no event is both    *)
(* answered and handed on as a retry.                                      *)
THEOREM AuthorityPromiseKept == Spec => ImplementsPromise
  <1>1. Init => Promise!Init
    BY DEF Init, Promise!Init
  <1>2. Inv /\ [Next]_vars => [Promise!Next]_(Promise!promiseVars)
    BY PromiseStep
  <1>3. QED
    BY <1>1, <1>2, Inductive, PTL DEF Spec, ImplementsPromise, Promise!Spec
=============================================================================
