---------------------------- MODULE ProviderCall -----------------------------
(***************************************************************************)
(* ProviderTaskHandler: one external provider call for a Task, made        *)
(* through a durable budget permit and a durable Action.                   *)
(*                                                                         *)
(* The Task store, the Action store and the budget store are written one   *)
(* after the other, and the process may die between any two writes, before *)
(* or after the provider has been reached.  A lease that runs out brings   *)
(* the Task back, and the handler meets what its earlier attempt left.     *)
(* The provider is not asked whether it was called: invoked, answer and    *)
(* fate are history, for the properties.                                   *)
(***************************************************************************)
EXTENDS Naturals, FiniteSets, OpenAIExchange

CONSTANTS
  Tasks,        \* the provider Tasks
  NoTask,
  MaxTotal,     \* policy.max_total of the provider budget
  MaxAttempts,  \* limits.max_attempts of every Task
  MaxFaults     \* bound: crashes and store operations that fail

ASSUME TasksAssumption == NoTask \notin Tasks /\ IsFiniteSet(Tasks)
ASSUME BoundsAssumption ==
  MaxTotal \in Nat /\ MaxAttempts \in Nat \ {0} /\ MaxFaults \in Nat

VARIABLES
  tasks, attempts,   \* Task store: status and attempts_started
  actions, effects,  \* Action store: status and effect_result
  permits,           \* budget store: the keys a permit was consumed for
  pc, current, result,  \* the worker: its next step, its Task and what the
                     \* handler returns
  invoked, answer,   \* the attempts that sent something, the last answer
  fate,              \* and what became of the request
  faults

taskVars   == <<tasks, attempts>>
actionVars == <<actions, effects>>
history    == <<invoked, answer, fate>>
vars == <<tasks, attempts, actions, effects, permits, pc, current, result,
          invoked, answer, fate, faults>>

Terminal     == {"succeeded", "failed", "cancelled", "manual_review"}
TaskStatus   == {"absent", "pending", "running", "cancel_requested"} \cup Terminal
ActionStatus == {"absent", "pending", "running", "retry_wait", "succeeded",
                 "failed_permanent", "manual_review"}
Handling     == {"probe", "lookup", "budget", "submit", "start", "probe_again",
                 "mark", "invoke", "record", "finish"}
Answers      == {"succeeded", "rejected", "effect_unknown"}

TypeOK ==
  /\ tasks \in [Tasks -> TaskStatus]
  /\ attempts \in [Tasks -> 0 .. MaxAttempts]
  /\ actions \in [Tasks -> ActionStatus]
  /\ effects \in [Tasks -> {"none", "unknown", "confirmed"}]
  /\ permits \subseteq Tasks
  /\ pc \in Handling \cup {"idle", "down"}
  /\ current \in Tasks \cup {NoTask}
  /\ pc \in Handling <=> current # NoTask
  /\ result \in Terminal \cup {"none"}
  /\ pc = "finish" => result # "none"
  /\ invoked \in [Tasks -> SUBSET (1 .. MaxAttempts)]
  /\ answer \in [Tasks -> Answers \cup {"none"}]
  /\ fate \in [Tasks -> Fates]
  /\ faults \in 0 .. MaxFaults

Fault == faults < MaxFaults /\ faults' = faults + 1

Init ==
  /\ tasks = [t \in Tasks |-> "absent"] /\ attempts = [t \in Tasks |-> 0]
  /\ actions = [t \in Tasks |-> "absent"]
  /\ effects = [t \in Tasks |-> "none"]
  /\ permits = {}
  /\ pc = "idle" /\ current = NoTask /\ result = "none"
  /\ invoked = [t \in Tasks |-> {}]
  /\ answer = [t \in Tasks |-> "none"]
  /\ fate = [t \in Tasks |-> "unsent"]
  /\ faults = 0

-----------------------------------------------------------------------------
(* The worker around the handler.                                          *)

Submit(t) ==
  /\ pc = "idle" /\ tasks[t] = "absent"
  /\ tasks' = [tasks EXCEPT ![t] = "pending"]
  /\ UNCHANGED <<attempts, actionVars, permits, pc, current, result, history,
                 faults>>

Execute(t) ==
  /\ pc = "idle" /\ tasks[t] = "pending"
  /\ pc' = "probe" /\ current' = t
  /\ tasks' = [tasks EXCEPT ![t] = "running"]
  /\ attempts' = [attempts EXCEPT ![t] = attempts[t] + 1]
  /\ UNCHANGED <<actionVars, permits, result, history, faults>>

(* A lease that has run out: a cut-off execution is retried, or ends.      *)
RecoverExpired(t) ==
  /\ pc = "idle"
  /\ \/ tasks[t] = "running" /\ attempts[t] < MaxAttempts
        /\ tasks' = [tasks EXCEPT ![t] = "pending"]
     \/ tasks[t] = "running" /\ attempts[t] = MaxAttempts
        /\ \E exhausted \in {"failed", "manual_review"} :
             tasks' = [tasks EXCEPT ![t] = exhausted]
     \/ tasks[t] = "cancel_requested"
        /\ tasks' = [tasks EXCEPT ![t] = "cancelled"]
  /\ UNCHANGED <<attempts, actionVars, permits, pc, current, result, history,
                 faults>>

(* What the handler returned becomes the Task's end.  A cancellation is    *)
(* two writes, of which a crash can leave the first.                       *)
Finish ==
  /\ pc = "finish" /\ pc' = "idle"
  /\ current' = NoTask /\ result' = "none"
  /\ tasks' = [tasks EXCEPT ![current] = result]
  /\ UNCHANGED <<attempts, actionVars, permits, history, faults>>

Crash ==
  /\ pc # "down"
  /\ Fault
  /\ pc' = "down" /\ current' = NoTask /\ result' = "none"
  /\ tasks' \in
       {tasks} \cup (IF pc = "finish" /\ result = "cancelled"
                       THEN {[tasks EXCEPT ![current] = "cancel_requested"]}
                       ELSE {})
  /\ UNCHANGED <<attempts, actionVars, permits, history>>

(* action_runtime.recover(), for the Actions whose lease has run out.      *)
Boot ==
  /\ pc = "down" /\ pc' = "idle"
  /\ \E expired \in SUBSET {t \in Tasks : actions[t] = "running"} :
       actions' = [t \in Tasks |->
         IF t \notin expired THEN actions[t]
         ELSE IF effects[t] = "none" THEN "retry_wait" ELSE "manual_review"]
  /\ UNCHANGED <<taskVars, effects, permits, current, result, history, faults>>

(* gaudere-agent --cancel, with the service down.                          *)
OfflineCancel(t) ==
  /\ pc = "down"
  /\ \/ tasks[t] = "pending" /\ tasks' = [tasks EXCEPT ![t] = "cancelled"]
     \/ tasks[t] = "running" /\ tasks' = [tasks EXCEPT ![t] = "cancel_requested"]
  /\ UNCHANGED <<attempts, actionVars, permits, pc, current, result, history,
                 faults>>

-----------------------------------------------------------------------------
(* The handler.                                                            *)

Step(from, to) ==
  pc = from /\ pc' = to /\ UNCHANGED <<taskVars, current, history>>
Return(outcome) == pc' = "finish" /\ result' = outcome
At(step) == pc = step /\ UNCHANGED <<taskVars, current, history>>

HasAction_IfEnded(t) ==  \* mutant
  actions[t] \notin {"absent", "pending", "running"}
HasAction(t) == actions[t] # "absent"

(* An Action from an earlier attempt is closed and never replayed.         *)
ClosedAction(t) ==
  IF actions[t] = "succeeded" \/ effects[t] = "confirmed" THEN actions[t]
  ELSE IF actions[t] = "running" THEN "manual_review"
  ELSE IF effects[t] = "none" /\ actions[t] \in {"pending", "retry_wait"}
    THEN "failed_permanent" ELSE actions[t]
ExistingAction_Fails(t) ==  \* mutant
  /\ Return("failed")
  /\ actions' = [actions EXCEPT ![t] = ClosedAction(t)]
  /\ UNCHANGED <<effects, permits, faults>>
ExistingAction(t) ==
  /\ Return("manual_review")
  /\ actions' = [actions EXCEPT ![t] = ClosedAction(t)]
  /\ UNCHANGED <<effects, permits, faults>>

(* A cancellation observed before anything was done.                       *)
CancelledEarly ==
  /\ At("probe") /\ Return("cancelled")
  /\ UNCHANGED <<actionVars, permits, faults>>

Proceed ==
  /\ Step("probe", "lookup")
  /\ UNCHANGED <<actionVars, permits, result, faults>>

Lookup ==
  \/ At("lookup") /\ HasAction(current) /\ ExistingAction(current)
  \/ /\ Step("lookup", "budget") /\ ~HasAction(current)
     /\ UNCHANGED <<actionVars, permits, result, faults>>

(* A permit is consumed once for a key; a second request is a duplicate.   *)
Admitted_OneMore(t) ==  \* mutant
  t \in permits \/ Cardinality(permits) <= MaxTotal
Admitted(t) == t \in permits \/ Cardinality(permits) < MaxTotal

Consume ==
  /\ Step("budget", "submit")
  /\ Admitted(current)
  /\ permits' = permits \cup {current}
  /\ UNCHANGED <<actionVars, result, faults>>

(* Total or window exhausted, cooldown; or the clock went back.            *)
Denied ==
  /\ At("budget") /\ current \notin permits
  /\ \E outcome \in {"failed", "manual_review"} : Return(outcome)
  /\ UNCHANGED <<actionVars, permits, faults>>

(* The store would refuse a second Action of the Task, but the handler has *)
(* just looked and nobody else submits one.                                *)
SubmitAction ==
  /\ Step("submit", "start")
  /\ actions' = [actions EXCEPT ![current] = "pending"]
  /\ UNCHANGED <<effects, permits, result, faults>>

StartAction ==
  /\ Step("start", "probe_again")
  /\ actions' = [actions EXCEPT ![current] = "running"]
  /\ UNCHANGED <<effects, permits, result, faults>>

(* Still before the effect: the Action is closed, the Task is cancelled.   *)
CancelledBeforeCall ==
  /\ At("probe_again") /\ Return("cancelled")
  /\ actions' = [actions EXCEPT ![current] = "failed_permanent"]
  /\ UNCHANGED <<effects, permits, faults>>

ProceedToCall ==
  /\ Step("probe_again", "mark")
  /\ UNCHANGED <<actionVars, permits, result, faults>>

MarkEffect ==
  /\ Step("mark", "invoke")
  /\ effects' = [effects EXCEPT ![current] = "unknown"]
  /\ UNCHANGED <<actions, permits, result, faults>>

(* One exchange, whatever becomes of it.                                   *)
Invoke ==
  /\ pc = "invoke" /\ pc' = "record"
  /\ \E account \in Accounts :
       /\ answer' = [answer EXCEPT ![current] = account[1]]
       /\ fate' = [fate EXCEPT ![current] = account[2]]
       /\ invoked' = IF account[2] = "unsent" THEN invoked
                     ELSE [invoked EXCEPT ![current] = @ \cup {attempts[current]}]
  /\ UNCHANGED <<taskVars, actionVars, permits, current, result, faults>>

(* A structurally invalid answer is confirmed, and reviewed.               *)
RecordConfirmed ==
  /\ At("record") /\ answer[current] # "effect_unknown"
  /\ actions' = [actions EXCEPT ![current] = "succeeded"]
  /\ effects' = [effects EXCEPT ![current] = "confirmed"]
  /\ \/ answer[current] = "succeeded" /\ Return("succeeded")
     \/ answer[current] = "rejected" /\ Return("failed")
     \/ Return("manual_review")
  /\ UNCHANGED <<permits, faults>>

RecordUnknown ==
  /\ At("record") /\ answer[current] = "effect_unknown"
  /\ Return("manual_review")
  /\ actions' = [actions EXCEPT ![current] = "manual_review"]
  /\ UNCHANGED <<effects, permits, faults>>

(* Whatever store refuses or throws, the Task goes to review.              *)
StoreFails ==
  /\ pc \in {"budget", "submit", "start", "probe_again", "mark", "record"}
  /\ Fault
  /\ Return("manual_review")
  /\ UNCHANGED <<taskVars, actionVars, permits, current, history>>

-----------------------------------------------------------------------------
Handler ==
  \/ CancelledEarly \/ Proceed \/ Lookup \/ Consume \/ Denied \/ SubmitAction
  \/ StartAction \/ CancelledBeforeCall \/ ProceedToCall \/ MarkEffect
  \/ Invoke \/ RecordConfirmed \/ RecordUnknown

Next ==
  \/ \E t \in Tasks : Submit(t) \/ Execute(t) \/ RecoverExpired(t)
  \/ Handler \/ StoreFails \/ Finish \/ Crash \/ Boot
  \/ \E t \in Tasks : OfflineCancel(t)

Spec == Init /\ [][Next]_vars

-----------------------------------------------------------------------------
(* docs/provider-boundary.md, "Replay policy": no Task reaches the         *)
(* provider twice, whatever crashes, expires, is cancelled or retried.     *)
NeverReplayed == \A t \in Tasks : \A a, b \in invoked[t] : a = b

(* The provider is reached by no more Tasks than the lifetime budget has   *)
(* permits, and a permit is spent, not lost, by a crash before the call.   *)
WithinBudget ==
  /\ Cardinality({t \in Tasks : invoked[t] # {}}) <= MaxTotal
  /\ \A t \in Tasks : invoked[t] # {} => t \in permits

(* A call that may have happened is on record, before it happens and for   *)
(* ever: no crash, recovery or retry makes its Action look untouched, or   *)
(* confirms a request nobody knows the end of.                             *)
EffectsOnRecord ==
  \A t \in Tasks :
    /\ invoked[t] # {} =>
         /\ effects[t] # "none"
         /\ actions[t] \in {"running", "succeeded", "manual_review"}
    /\ effects[t] = "confirmed" =>
         answer[t] \in {"succeeded", "rejected"} /\ fate[t] # "open"

(* A call is made once and stays on record.                                *)
CallsOnRecord == NeverReplayed /\ EffectsOnRecord

(* Only the attempt that reached the provider reports what it said: a      *)
(* Task succeeds on a confirmed success, with its text and token usage     *)
(* delivered to this attempt; the handler fails a Task it called for only  *)
(* on a rejection and never with the end of the request unknown; and it    *)
(* acknowledges a cancellation only if it has not called itself.           *)
OutcomesTruthful ==
  /\ \A t \in Tasks :
       tasks[t] = "succeeded" =>
         /\ invoked[t] = {attempts[t]} /\ answer[t] = "succeeded"
         /\ effects[t] = "confirmed" /\ fate[t] = "delivered"
  /\ pc = "finish" /\ result = "failed" /\ invoked[current] # {} =>
       /\ invoked[current] = {attempts[current]} /\ answer[current] = "rejected"
       /\ fate[current] # "open"
  /\ pc = "finish" /\ result = "cancelled" =>
       attempts[current] \notin invoked[current]
=============================================================================
