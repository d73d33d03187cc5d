------------------------- MODULE ProviderCallProofs --------------------------
(***************************************************************************)
(* At most one provider call per Task, no more Tasks called for than the   *)
(* budget permits, no call off the record and no untruthful outcome, for   *)
(* any finite number of Tasks, any budget and any number of faults.        *)
(***************************************************************************)
EXTENDS ProviderCall, FiniteSetTheorems, TLAPS

USE TasksAssumption, BoundsAssumption

(* A Task's call is made in the attempt that runs, after its permit, its   *)
(* Action and the effect marker, and only where no Action was found: what  *)
(* the handler has come to says what the stores hold for the current Task. *)
CallInv ==
  /\ \A t \in Tasks :
       /\ invoked[t] \subseteq 1 .. attempts[t]
       /\ \A a, b \in invoked[t] : a = b
       /\ invoked[t] # {} =>
            /\ t \in permits
            /\ effects[t] # "none"
            /\ actions[t] \in {"running", "succeeded", "manual_review"}
       /\ effects[t] # "none" =>
            actions[t] \in {"running", "succeeded", "manual_review"}
       /\ effects[t] = "confirmed" =>
            answer[t] \in {"succeeded", "rejected"} /\ fate[t] # "open"
       /\ tasks[t] \in {"absent", "pending"} => attempts[t] < MaxAttempts
  /\ pc \in {"start", "probe_again", "mark", "invoke"} =>
       invoked[current] = {} /\ effects[current] \in {"none", "unknown"}
  /\ pc \in {"submit", "start", "probe_again", "mark", "invoke"} =>
       current \in permits
  /\ pc \in {"budget", "submit"} => actions[current] = "absent"
  /\ pc = "start" => actions[current] = "pending"
  /\ pc \in {"start", "probe_again", "mark"} => effects[current] = "none"
  /\ pc \in {"probe_again", "mark", "invoke", "record"} =>
       actions[current] = "running"
  /\ pc = "invoke" => effects[current] = "unknown"
  /\ pc \in {"probe", "lookup", "budget", "submit"} =>
       attempts[current] \notin invoked[current]
  /\ pc \in Handling => tasks[current] = "running" /\ attempts[current] > 0
  /\ pc = "record" =>
       /\ effects[current] = "unknown" /\ answer[current] \in Answers
       /\ invoked[current] =
            IF fate[current] = "unsent" THEN {} ELSE {attempts[current]}
       /\ answer[current] = "succeeded" => fate[current] = "delivered"
       /\ answer[current] = "rejected" => fate[current] # "open"

(* What the handler returns, and what a Task holds, is what the provider   *)
(* said to this attempt.                                                   *)
OutcomeInv ==
  /\ \A t \in Tasks :
       tasks[t] = "succeeded" =>
         /\ invoked[t] = {attempts[t]} /\ answer[t] = "succeeded"
         /\ effects[t] = "confirmed" /\ fate[t] = "delivered"
  /\ pc = "finish" /\ result = "succeeded" =>
       /\ invoked[current] = {attempts[current]} /\ fate[current] = "delivered"
       /\ answer[current] = "succeeded" /\ effects[current] = "confirmed"
  /\ pc = "finish" /\ result = "failed" /\ invoked[current] # {} =>
       /\ invoked[current] = {attempts[current]} /\ answer[current] = "rejected"
       /\ fate[current] # "open"
  /\ pc = "finish" /\ result = "cancelled" =>
       attempts[current] \notin invoked[current]
  /\ pc = "budget" => invoked[current] = {}

BudgetInv == Cardinality(permits) <= MaxTotal

ProviderInv == TypeOK /\ CallInv /\ OutcomeInv /\ BudgetInv

USE DEF Terminal, TaskStatus, ActionStatus, Handling, Answers, taskVars,
        actionVars, history, Step, At, Return

(* A definite answer has a definite request behind it, and a success its   *)
(* text and token usage (OpenAIResponsesProvider::invoke).                 *)
LEMMA AccountTruthful ==
  ASSUME NEW account \in Accounts
  PROVE  /\ account[1] \in Answers /\ account[2] \in Fates
         /\ account[1] = "succeeded" => account[2] = "delivered"
         /\ account[1] = "rejected" => account[2] # "open"
  <1>1. PICK e \in Exchanges : account = <<Invocation(e), Fate(e)>>
    BY DEF Accounts
  <1>2. Invocation(e) \in Answers /\ Fate(e) \in Fates
    BY DEF Invocation, Fate, Fates
  <1>3. Invocation(e) = "succeeded" => Fate(e) = "delivered"
    BY DEF Invocation, Fate, Exchanges, Perform, Transferred, CutOff, Completed,
       ValidUsage, HasText, Accounted, Sendable
  <1>4. Invocation(e) = "rejected" => Fate(e) # "open"
    BY DEF Invocation, Fate, Perform, Transferred, CutOff, Sendable
  <1>5. QED
    BY <1>1, <1>2, <1>3, <1>4

LEMMA InitProvider == Init => ProviderInv
  <1>1. Init => Cardinality(permits) = 0
    BY FS_EmptySet DEF Init
  <1>2. QED
    BY <1>1
    DEF Init, Fates, ProviderInv, TypeOK, CallInv, OutcomeInv, BudgetInv

LEMMA TypeKept ==
  ASSUME TypeOK, CallInv, [Next]_vars PROVE TypeOK'
  <1> USE DEF TypeOK
  <1>1. CASE CancelledEarly
    BY <1>1 DEF CancelledEarly
  <1>2. CASE Proceed
    BY <1>2 DEF Proceed
  <1>3. CASE Lookup
    BY <1>3 DEF Lookup, HasAction, ExistingAction, ClosedAction
  <1>4. CASE Consume
    BY <1>4 DEF Consume, Admitted
  <1>5. CASE Denied
    BY <1>5 DEF Denied
  <1>6. CASE SubmitAction
    BY <1>6 DEF SubmitAction
  <1>7. CASE StartAction
    BY <1>7 DEF StartAction
  <1>8. CASE CancelledBeforeCall
    BY <1>8 DEF CancelledBeforeCall
  <1>9. CASE ProceedToCall
    BY <1>9 DEF ProceedToCall
  <1>10. CASE MarkEffect
    BY <1>10 DEF MarkEffect
  <1>11. CASE Invoke
    BY <1>11, AccountTruthful DEF Invoke, CallInv
  <1>12. CASE RecordConfirmed
    BY <1>12 DEF RecordConfirmed
  <1>13. CASE RecordUnknown
    BY <1>13 DEF RecordUnknown
  <1>14. CASE StoreFails
    BY <1>14 DEF StoreFails, Fault
  <1>15. CASE Finish
    BY <1>15 DEF Finish
  <1>16. CASE Crash
    BY <1>16 DEF Crash, Fault
  <1>17. CASE Boot
    BY <1>17 DEF Boot
  <1>18. ASSUME NEW t \in Tasks, Submit(t) PROVE TypeOK'
    BY <1>18 DEF Submit
  <1>19. ASSUME NEW t \in Tasks, Execute(t) PROVE TypeOK'
    BY <1>19 DEF Execute, CallInv
  <1>20. ASSUME NEW t \in Tasks, RecoverExpired(t) PROVE TypeOK'
    BY <1>20 DEF RecoverExpired
  <1>21. ASSUME NEW t \in Tasks, OfflineCancel(t) PROVE TypeOK'
    BY <1>21 DEF OfflineCancel
  <1>22. CASE UNCHANGED vars
    BY <1>22 DEF vars
  <1>23. QED
    BY <1>1, <1>2, <1>3, <1>4, <1>5, <1>6, <1>7, <1>8, <1>9, <1>10, <1>11,
       <1>12, <1>13, <1>14, <1>15, <1>16, <1>17, <1>18, <1>19, <1>20,
       <1>21, <1>22 DEF Next, Handler

LEMMA CallsKept ==
  ASSUME TypeOK, CallInv, [Next]_vars PROVE CallInv'
  <1> USE DEF TypeOK, CallInv
  <1>1. CASE CancelledEarly
    BY <1>1 DEF CancelledEarly
  <1>2. CASE Proceed
    BY <1>2 DEF Proceed
  <1>3. CASE Lookup
    BY <1>3 DEF Lookup, HasAction, ExistingAction, ClosedAction
  <1>4. CASE Consume
    BY <1>4 DEF Consume, Admitted
  <1>5. CASE Denied
    BY <1>5 DEF Denied
  <1>6. CASE SubmitAction
    BY <1>6 DEF SubmitAction
  <1>7. CASE StartAction
    BY <1>7 DEF StartAction
  <1>8. CASE CancelledBeforeCall
    BY <1>8 DEF CancelledBeforeCall
  <1>9. CASE ProceedToCall
    BY <1>9 DEF ProceedToCall
  <1>10. CASE MarkEffect
    BY <1>10 DEF MarkEffect
  <1>11. CASE Invoke
    <2>1. PICK account \in Accounts :
            /\ answer' = [answer EXCEPT ![current] = account[1]]
            /\ fate' = [fate EXCEPT ![current] = account[2]]
            /\ invoked' =
                 IF account[2] = "unsent" THEN invoked
                 ELSE [invoked EXCEPT ![current] = @ \cup {attempts[current]}]
      BY <1>11 DEF Invoke
    <2>2. /\ account[1] \in Answers /\ account[2] \in Fates
          /\ account[1] = "succeeded" => account[2] = "delivered"
          /\ account[1] = "rejected" => account[2] # "open"
      BY AccountTruthful
    <2>3. /\ pc = "invoke" /\ pc' = "record" /\ current \in Tasks
          /\ invoked[current] = {} /\ attempts[current] \in 1 .. MaxAttempts
          /\ UNCHANGED <<tasks, attempts, actions, effects, permits, current>>
      BY <1>11 DEF Invoke
    <2>4. invoked'[current] =
            IF fate'[current] = "unsent" THEN {} ELSE {attempts[current]}
      BY <2>1, <2>2, <2>3
    <2>5. \A t \in Tasks : t # current => UNCHANGED <<invoked[t], answer[t], fate[t]>>
      BY <2>1, <2>3
    <2>6. answer'[current] = account[1] /\ fate'[current] = account[2]
      BY <2>1, <2>3
    <2>7. QED
      BY <2>2, <2>3, <2>4, <2>5, <2>6
  <1>12. CASE RecordConfirmed
    BY <1>12 DEF RecordConfirmed
  <1>13. CASE RecordUnknown
    BY <1>13 DEF RecordUnknown
  <1>14. CASE StoreFails
    BY <1>14 DEF StoreFails, Fault
  <1>15. CASE Finish
    BY <1>15 DEF Finish
  <1>16. CASE Crash
    BY <1>16 DEF Crash, Fault
  <1>17. CASE Boot
    BY <1>17 DEF Boot
  <1>18. ASSUME NEW t \in Tasks, Submit(t) PROVE CallInv'
    BY <1>18 DEF Submit
  <1>19. ASSUME NEW t \in Tasks, Execute(t) PROVE CallInv'
    BY <1>19 DEF Execute
  <1>20. ASSUME NEW t \in Tasks, RecoverExpired(t) PROVE CallInv'
    BY <1>20 DEF RecoverExpired
  <1>21. ASSUME NEW t \in Tasks, OfflineCancel(t) PROVE CallInv'
    BY <1>21 DEF OfflineCancel
  <1>22. CASE UNCHANGED vars
    BY <1>22 DEF vars
  <1>23. QED
    BY <1>1, <1>2, <1>3, <1>4, <1>5, <1>6, <1>7, <1>8, <1>9, <1>10, <1>11,
       <1>12, <1>13, <1>14, <1>15, <1>16, <1>17, <1>18, <1>19, <1>20,
       <1>21, <1>22 DEF Next, Handler

LEMMA OutcomesKept ==
  ASSUME TypeOK, CallInv, OutcomeInv, [Next]_vars PROVE OutcomeInv'
  <1> USE DEF TypeOK, CallInv, OutcomeInv
  <1>1. CASE CancelledEarly
    BY <1>1 DEF CancelledEarly
  <1>2. CASE Proceed
    BY <1>2 DEF Proceed
  <1>3. CASE Lookup
    BY <1>3 DEF Lookup, HasAction, ExistingAction, ClosedAction
  <1>4. CASE Consume
    BY <1>4 DEF Consume, Admitted
  <1>5. CASE Denied
    BY <1>5 DEF Denied
  <1>6. CASE SubmitAction
    BY <1>6 DEF SubmitAction
  <1>7. CASE StartAction
    BY <1>7 DEF StartAction
  <1>8. CASE CancelledBeforeCall
    BY <1>8 DEF CancelledBeforeCall
  <1>9. CASE ProceedToCall
    BY <1>9 DEF ProceedToCall
  <1>10. CASE MarkEffect
    BY <1>10 DEF MarkEffect
  <1>11. CASE Invoke
    BY <1>11, AccountTruthful DEF Invoke
  <1>12. CASE RecordConfirmed
    BY <1>12 DEF RecordConfirmed
  <1>13. CASE RecordUnknown
    BY <1>13 DEF RecordUnknown
  <1>14. CASE StoreFails
    BY <1>14 DEF StoreFails, Fault
  <1>15. CASE Finish
    BY <1>15 DEF Finish
  <1>16. CASE Crash
    BY <1>16 DEF Crash, Fault
  <1>17. CASE Boot
    BY <1>17 DEF Boot
  <1>18. ASSUME NEW t \in Tasks, Submit(t) PROVE OutcomeInv'
    BY <1>18 DEF Submit
  <1>19. ASSUME NEW t \in Tasks, Execute(t) PROVE OutcomeInv'
    BY <1>19 DEF Execute
  <1>20. ASSUME NEW t \in Tasks, RecoverExpired(t) PROVE OutcomeInv'
    BY <1>20 DEF RecoverExpired
  <1>21. ASSUME NEW t \in Tasks, OfflineCancel(t) PROVE OutcomeInv'
    BY <1>21 DEF OfflineCancel
  <1>22. CASE UNCHANGED vars
    BY <1>22 DEF vars
  <1>23. QED
    BY <1>1, <1>2, <1>3, <1>4, <1>5, <1>6, <1>7, <1>8, <1>9, <1>10, <1>11,
       <1>12, <1>13, <1>14, <1>15, <1>16, <1>17, <1>18, <1>19, <1>20,
       <1>21, <1>22 DEF Next, Handler

(* A permit is only added while fewer than max_total are spent.            *)
LEMMA BudgetKept ==
  ASSUME TypeOK, BudgetInv, [Next]_vars PROVE BudgetInv'
  <1>1. IsFiniteSet(permits)
    BY FS_Subset DEF TypeOK
  <1>2. CASE Consume
    <2>1. CASE current \in permits
      BY <1>2, <2>1 DEF Consume, BudgetInv
    <2>2. CASE current \notin permits
      <3>1. Cardinality(permits') = Cardinality(permits) + 1
        BY <1>1, <1>2, <2>2, FS_AddElement DEF Consume
      <3>2. Cardinality(permits) < MaxTotal
        BY <1>2, <2>2 DEF Consume, Admitted
      <3>3. Cardinality(permits) \in Nat
        BY <1>1, FS_CardinalityType
      <3>4. QED
        BY <3>1, <3>2, <3>3 DEF BudgetInv
    <2>3. QED
      BY <2>1, <2>2
  <1>3. CASE UNCHANGED permits
    BY <1>3 DEF BudgetInv
  <1>4. ~Consume => UNCHANGED permits
    BY DEF Next, Handler, vars, Submit, Execute, RecoverExpired, OfflineCancel,
       CancelledEarly, Proceed, Lookup, Denied, SubmitAction, StartAction,
       CancelledBeforeCall, ProceedToCall, MarkEffect, Invoke, RecordConfirmed,
       RecordUnknown, StoreFails, Finish, Crash, Boot, ExistingAction
  <1>5. QED
    BY <1>2, <1>3, <1>4

THEOREM ProviderInvariant == Spec => []ProviderInv
  <1>1. ProviderInv /\ [Next]_vars => ProviderInv'
    BY TypeKept, CallsKept, OutcomesKept, BudgetKept DEF ProviderInv
  <1>2. QED
    BY InitProvider, <1>1, PTL DEF Spec

(* The stores and the handler keep their types, and no Task gets more      *)
(* attempts than limits.max_attempts.                                      *)
THEOREM ProviderTypeCorrect == Spec => []TypeOK
  <1>1. ProviderInv => TypeOK
    BY DEF ProviderInv
  <1>2. QED
    BY ProviderInvariant, <1>1, PTL

(* No Task reaches the provider twice (ProviderTaskHandler::execute).      *)
THEOREM ProviderNeverReplayed == Spec => []NeverReplayed
  <1>1. ProviderInv => NeverReplayed
    BY DEF ProviderInv, CallInv, NeverReplayed
  <1>2. QED
    BY ProviderInvariant, <1>1, PTL

(* The provider is reached by at most max_total Tasks, each with a permit  *)
(* (budget_store_.consume before the Action).                              *)
THEOREM ProviderWithinBudget == Spec => []WithinBudget
  <1>1. ProviderInv => WithinBudget
    <2> SUFFICES ASSUME ProviderInv PROVE WithinBudget
      OBVIOUS
    <2> DEFINE called == {t \in Tasks : invoked[t] # {}}
    <2>1. called \subseteq permits
      BY DEF ProviderInv, CallInv
    <2>2. IsFiniteSet(permits)
      BY FS_Subset DEF ProviderInv, TypeOK
    <2>3. Cardinality(called) <= Cardinality(permits)
      BY <2>1, <2>2, FS_Subset
    <2>4. IsFiniteSet(called)
      BY <2>1, <2>2, FS_Subset
    <2>5. Cardinality(called) \in Nat /\ Cardinality(permits) \in Nat
      BY <2>2, <2>4, FS_CardinalityType
    <2>6. Cardinality(called) <= MaxTotal
      BY <2>3, <2>5 DEF ProviderInv, BudgetInv
    <2>7. QED
      BY <2>1, <2>6 DEF WithinBudget
  <1>2. QED
    BY ProviderInvariant, <1>1, PTL

(* A call that may have happened is on record (record_effect_started       *)
(* before invoke).                                                         *)
THEOREM ProviderEffectsOnRecord == Spec => []EffectsOnRecord
  <1>1. ProviderInv => EffectsOnRecord
    BY DEF ProviderInv, CallInv, EffectsOnRecord
  <1>2. QED
    BY ProviderInvariant, <1>1, PTL

(* A call is made once, and stays on record.                               *)
THEOREM ProviderCallsOnRecord == Spec => []CallsOnRecord
  <1>1. NeverReplayed /\ EffectsOnRecord => CallsOnRecord
    BY DEF CallsOnRecord
  <1>2. QED
    BY ProviderNeverReplayed, ProviderEffectsOnRecord, <1>1, PTL

(* What a Task says of its call is what the provider said to the attempt   *)
(* that ended it.                                                          *)
THEOREM ProviderOutcomesTruthful == Spec => []OutcomesTruthful
  <1>1. ProviderInv => OutcomesTruthful
    BY DEF ProviderInv, OutcomeInv, OutcomesTruthful
  <1>2. QED
    BY ProviderInvariant, <1>1, PTL
=============================================================================
