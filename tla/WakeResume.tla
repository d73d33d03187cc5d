----------------------------- MODULE WakeResume ------------------------------
(***************************************************************************)
(* From a reflection's proposal to the one resumed cognition of its wake.  *)
(*                                                                         *)
(* ExplicitWake keeps one wake for the life of a database.  Once it has    *)
(* fired, two one-shot programs may resume it: gaudere-resume-after-wake   *)
(* (v0), which claims a Task built from the wake alone, and the v1 pair,   *)
(* of which prepare freezes a selection, records the selected context as a *)
(* snapshot Task and binds that snapshot to the one resume Task, and       *)
(* execute hands the Task to the provider.  The service and the one-shots  *)
(* exclude each other by the state lock; each of their writes is a         *)
(* transaction of its own, and the process may die between any two.        *)
(*                                                                         *)
(* Time is counted in quarters of an hour: a local Task's or a provider    *)
(* Task's lease is shorter than one unit.                                  *)
(***************************************************************************)
EXTENDS Naturals, FiniteSets

CONSTANTS
  Sources,      \* ids of reflection Tasks; a wake has its source's id
  Requests,     \* context requests an operator may prepare with
  Foreign,      \* requests that other programs record snapshots of
  Delays,       \* delays a reflection may propose
  FreshFor,     \* resume_after_wake_v1_max_snapshot_age
  Cooldown,     \* min_interval of the provider budget
  NoTime, NoWake, NoTask, NoRequest,
  MaxTime,      \* bound: the clock
  MaxFaults     \* bound: crashes, and steps of the clock backwards

ASSUME BoundsAssumption ==
  /\ Delays \subseteq Nat /\ FreshFor \in Nat /\ Cooldown \in Nat
  /\ MaxTime \in Nat /\ MaxFaults \in Nat

Time     == 0 .. MaxTime
Versions == {"v0", "v1"}
Attempts == 2   \* limits.max_attempts of every Task here

ASSUME NamesAssumption ==
  /\ NoTime \notin Nat
  /\ NoTask \notin [request : Requests, captured : Time]
  /\ NoTask \notin [kind : {"snapshot"}, request : Requests \cup Foreign,
                    captured : Time]
  /\ NoWake \notin [id : Sources, accepted : Time, due : Time,
                    status : {"scheduled", "fired", "revoked", "manual_review"},
                    terminal : Time \cup {NoTime}]

VARIABLES
  now,
  sources,      \* Task store: each reflection's proposed delay; NoTask before
                \* it has run, NoWake if it proposed none
  tasks,        \* Task store: the selection, the snapshots, the resume Tasks
  selected,     \* what the selection Task's input says
  bound,        \* the snapshot the v1 resume Task's input embeds
  wake,         \* WakeIntent store
  actions, permits,  \* Action store and budget store, by resume Task
  pc, armed,    \* the process that holds the state lock, and its scheduler
  request, captured, task,  \* what a one-shot holds in memory
  calls,        \* history: the provider calls
  faults

storeVars   == <<sources, tasks, selected, bound>>
effectVars  == <<actions, permits, calls>>
processVars == <<pc, armed, request, captured, task>>
vars == <<now, storeVars, wake, effectVars, processVars, faults>>

Selection      == [kind |-> "selection"]
Snapshot(r, c) == [kind |-> "snapshot", request |-> r, captured |-> c]
Resume(v)      == [kind |-> v]

Snapshots == {t \in DOMAIN tasks : t.kind = "snapshot"}
Terminal  == {"succeeded", "failed", "cancelled", "manual_review"}
Exists(t) == t \in DOMAIN tasks
Status(t) == IF Exists(t) THEN tasks[t].status ELSE "absent"

Init ==
  /\ now = 0 /\ faults = 0
  /\ sources = [s \in Sources |-> NoTask]
  /\ tasks = <<>> /\ selected = NoTask /\ bound = NoTask
  /\ wake = NoWake
  /\ actions = [v \in Versions |-> "absent"]
  /\ permits = [v \in Versions |-> NoTime]
  /\ calls = {}
  /\ pc = "idle" /\ armed = NoTime
  /\ request = NoRequest /\ captured = NoTime /\ task = NoTask

-----------------------------------------------------------------------------
(* The Task runtime, as far as it is used here.                            *)

Submitted(t) ==
  [x \in DOMAIN tasks \cup {t} |->
     IF x = t THEN [status |-> "pending", attempts |-> 0, since |-> NoTime]
     ELSE tasks[x]]

Started(from, t) ==
  [from EXCEPT ![t] = [status |-> "running", attempts |-> @.attempts + 1,
                       since |-> now]]

Ended(t, status) ==
  [tasks EXCEPT ![t].status = status, ![t].since = NoTime]

(* Runtime::recover: an execution whose lease has run out is retried while *)
(* an attempt is left.                                                     *)
Expired(t) == tasks[t].status = "running" /\ now > tasks[t].since
Recovered(exhausted) ==
  [t \in DOMAIN tasks |->
     IF ~Expired(t) THEN tasks[t]
     ELSE [tasks[t] EXCEPT !.since = NoTime, !.status =
             IF tasks[t].attempts < Attempts THEN "pending" ELSE exhausted]]
Exhaustions == {"failed", "manual_review"}

-----------------------------------------------------------------------------
(* The wake.                                                               *)

(* BoundedReflectionHandler: a proposal or a stop in the exact schema is   *)
(* kept in canonical form; every other output fails the Task.              *)
Reflect(s) ==
  /\ pc = "service" /\ sources[s] = NoTask
  /\ \E outcome \in Delays \cup {NoWake} :
       sources' = [sources EXCEPT ![s] = outcome]
  /\ UNCHANGED <<now, tasks, selected, bound, wake, effectVars, processVars,
                 faults>>

Eligible(s) == s \in Sources /\ sources[s] \in Delays

Deadline(w) == IF (w # NoWake /\ w.status = "scheduled") THEN w.due ELSE NoTime

(* WakeIntentRuntime::reconcile.                                           *)
Reconciled ==
  IF Deadline(wake) = NoTime THEN wake
  ELSE IF now < wake.accepted
    THEN [wake EXCEPT !.status = "manual_review", !.terminal = now]
  ELSE IF now >= wake.due
    THEN [wake EXCEPT !.status = "fired", !.terminal = now]
  ELSE wake

ServiceStart ==
  /\ pc = "idle" /\ pc' = "service"
  /\ \E exhausted \in Exhaustions : tasks' = Recovered(exhausted)
  /\ wake' = Reconciled /\ armed' = Deadline(wake')
  /\ UNCHANGED <<now, sources, selected, bound, effectVars, request, captured,
                 task, faults>>

(* WorkController::wait_and_run, on a deadline.                            *)
Worker_TasksOnly ==  \* mutant
  /\ pc = "service"
  /\ (armed # NoTime /\ armed <= now) \/ \E t \in DOMAIN tasks : Expired(t)
  /\ \E exhausted \in Exhaustions : tasks' = Recovered(exhausted)
  /\ UNCHANGED <<now, sources, selected, bound, wake, effectVars, processVars,
                 faults>>
Worker ==
  /\ pc = "service"
  /\ (armed # NoTime /\ armed <= now) \/ \E t \in DOMAIN tasks : Expired(t)
  /\ \E exhausted \in Exhaustions : tasks' = Recovered(exhausted)
  /\ wake' = Reconciled /\ armed' = Deadline(wake')
  /\ UNCHANGED <<now, sources, selected, bound, effectVars, pc, request,
                 captured, task, faults>>

ServiceStop ==
  /\ pc = "service" /\ pc' = "idle" /\ armed' = NoTime
  /\ UNCHANGED <<now, storeVars, wake, effectVars, request, captured, task,
                 faults>>

(* accept_wake: the deadline is the source's own, and the lifetime slot is *)
(* taken by the first wake, whatever becomes of it.                        *)
Accept(s) ==
  /\ pc = "service" /\ Eligible(s) /\ now + sources[s] <= MaxTime
  /\ wake = NoWake
  /\ wake' = [id |-> s, accepted |-> now, due |-> now + sources[s],
              status |-> "scheduled", terminal |-> NoTime]
  /\ armed' = Deadline(wake')
  /\ UNCHANGED <<now, storeVars, effectVars, pc, request, captured, task,
                 faults>>

(* revoke_wake: at or after the deadline firing wins; a deadline that is   *)
(* armed stays armed.                                                      *)
Revoke ==
  /\ pc = "service" /\ wake # NoWake /\ wake.status = "scheduled"
  /\ wake' = IF Reconciled # wake THEN Reconciled
             ELSE [wake EXCEPT !.status = "revoked", !.terminal = now]
  /\ UNCHANGED <<now, storeVars, effectVars, processVars, faults>>

(* ExplicitWake::inspect_status.                                           *)
Health ==
  IF wake = NoWake THEN "empty"
  ELSE IF ~Eligible(wake.id) THEN "source_inconsistent"
  ELSE IF wake.status = "manual_review" THEN "manual_review"
  ELSE IF wake.status \in {"fired", "revoked"} THEN "terminal"
  ELSE IF (armed = NoTime \/ armed > wake.due) THEN "scheduling_divergence"
  ELSE "ok"

-----------------------------------------------------------------------------
(* Common to the one-shots.                                                *)

Begin(next) ==
  /\ pc = "idle" /\ wake # NoWake
  /\ pc' = next

Quit ==
  /\ pc' = "idle"
  /\ request' = NoRequest /\ captured' = NoTime /\ task' = NoTask

(* evaluate, evaluate_lineage: a fired wake whose deadline is what its     *)
(* source proposed.                                                        *)
Lineage ==
  /\ wake.status = "fired" /\ wake.terminal >= wake.due
  /\ Eligible(wake.id) /\ wake.due - wake.accepted = sources[wake.id]

-----------------------------------------------------------------------------
(* prepare: selection, snapshot, claim.                                    *)

(* The clock is read at once, and only a first selection keeps it.         *)
Prepare(r) ==
  /\ Begin("select")
  /\ request' = r /\ captured' = IF Exists(Selection) THEN NoTime ELSE now
  /\ \E exhausted \in Exhaustions : tasks' = Recovered(exhausted)
  /\ UNCHANGED <<now, sources, selected, bound, wake, effectVars, armed, task,
                 faults>>

(* finish_selection: the first prepare's request and clock are frozen.     *)
Select ==
  /\ pc = "select"
  /\ \/ /\ ~Exists(Selection)
        /\ tasks' = Submitted(Selection)
        /\ selected' = [request |-> request, captured |-> captured]
        /\ captured' = NoTime
        /\ UNCHANGED <<pc, request, task>>
     \/ /\ Exists(Selection) /\ selected.request # request
        /\ Quit /\ UNCHANGED <<tasks, selected>>
     \/ /\ Exists(Selection) /\ selected.request = request
        /\ \/ /\ Status(Selection) = "pending"
              /\ tasks' = Started(tasks, Selection)
              /\ pc' = "selecting" /\ UNCHANGED <<request, captured, task>>
           \/ /\ Status(Selection) = "succeeded"
              /\ pc' = "record"
              /\ UNCHANGED <<tasks, request, captured, task>>
           \/ /\ Status(Selection) \notin {"pending", "succeeded"}
              /\ Quit /\ UNCHANGED tasks
        /\ UNCHANGED selected
  /\ UNCHANGED <<now, sources, bound, wake, effectVars, armed, faults>>

Selected ==
  /\ pc = "selecting" /\ pc' = "select"
  /\ tasks' = Ended(Selection, "succeeded")
  /\ UNCHANGED <<now, sources, selected, bound, wake, effectVars, armed, request,
                 captured, task, faults>>

(* The recorder, with the selection's clock: it first completes whatever   *)
(* snapshot Task is pending, and takes one of the same request for its own.*)
Pending == {t \in Snapshots : Status(t) = "pending"}

Wanted == Snapshot(request, selected.captured)

Record ==
  /\ pc = "record"
  /\ \/ \E t \in Pending :
          /\ tasks' = Started(tasks, t)
          /\ pc' = "recording" /\ task' = t
          /\ UNCHANGED <<request, captured>>
     \/ /\ Pending = {} /\ ~Exists(Wanted)
        /\ tasks' = Submitted(Wanted)
        /\ UNCHANGED <<pc, request, captured, task>>
     \/ /\ Pending = {} /\ Status(Wanted) = "succeeded"
        /\ pc' = "claim" /\ task' = Wanted
        /\ UNCHANGED <<tasks, request, captured>>
     \/ /\ Pending = {} /\ Exists(Wanted) /\ Status(Wanted) # "succeeded"
        /\ Quit /\ UNCHANGED tasks
  /\ UNCHANGED <<now, sources, selected, bound, wake, effectVars, armed, faults>>

Recorded_TakesAny ==  \* mutant
  /\ pc = "recording" /\ pc' = "claim"
  /\ tasks' = Ended(task, "succeeded")
  /\ UNCHANGED <<now, sources, selected, bound, wake, effectVars, armed, request,
                 captured, task, faults>>
Recorded ==
  /\ pc = "recording"
  /\ tasks' = Ended(task, "succeeded")
  /\ IF task.request = request
       THEN pc' = "claim" /\ UNCHANGED task
       ELSE pc' = "record" /\ task' = NoTask
  /\ UNCHANGED <<now, sources, selected, bound, wake, effectVars, armed, request,
                 captured, faults>>

(* A recorder of another program (current cognition) that dies between its *)
(* submission and its execution leaves a pending snapshot.                 *)
AbandonSnapshot(r) ==
  /\ pc = "idle" /\ faults < MaxFaults /\ faults' = faults + 1
  /\ ~Exists(Snapshot(r, now))
  /\ tasks' = Submitted(Snapshot(r, now))
  /\ UNCHANGED <<now, sources, selected, bound, wake, effectVars, processVars>>

(* ResumeAfterWakeV1::claim: an existing Task first, whatever its age; then*)
(* a snapshot taken since the wake fired, and not long ago.                *)
Claimable_BeforeFire(t) ==  \* mutant
  t.captured <= now /\ now - t.captured <= FreshFor
Claimable(t) ==
  /\ t.captured >= wake.terminal
  /\ t.captured <= now /\ now - t.captured <= FreshFor

(* inspect_existing: what was bound first stands.                          *)
ExistingClaim(t) ==
  IF ~Exists(Resume("v1")) THEN "none"
  ELSE IF bound = t THEN "duplicate" ELSE "conflict"

Claim ==
  /\ pc = "claim" /\ Quit
  /\ IF (Lineage /\ ExistingClaim(task) = "none" /\ Claimable(task))
       THEN bound' = task /\ tasks' = Submitted(Resume("v1"))
       ELSE UNCHANGED <<tasks, bound>>
  /\ UNCHANGED <<now, sources, selected, wake, effectVars, armed, faults>>

-----------------------------------------------------------------------------
(* execute.                                                                *)

(* snapshot.next_new_consumption: cooldown, or a clock behind the last use.*)
BudgetOpen == \A v \in Versions : permits[v] # NoTime => now >= permits[v] + Cooldown

(* fresh_for_real_call: checked at every execution, the retries included.  *)
Fresh == bound.captured <= now /\ now - bound.captured <= FreshFor

RunOrReport(v, from) ==
  IF from[Resume(v)].status = "pending"
    THEN /\ tasks' = Started(from, Resume(v))
         /\ pc' = "handle" /\ task' = Resume(v)
         /\ UNCHANGED <<request, captured>>
    ELSE tasks' = from /\ Quit

Refused ==
  IF ~Exists(Resume("v1")) THEN "missing"
  ELSE IF Status(Resume("v1")) \in Terminal THEN "terminal"
  ELSE IF ~Fresh THEN "not_fresh"
  ELSE IF ~BudgetOpen THEN "no_budget" ELSE "none"

ExecuteV1 ==
  /\ pc = "idle" /\ wake # NoWake
  /\ IF Refused # "none" THEN Quit /\ UNCHANGED tasks
     ELSE \E exhausted \in Exhaustions : RunOrReport("v1", Recovered(exhausted))
  /\ UNCHANGED <<now, sources, selected, bound, wake, effectVars, armed, faults>>

(* v0 claims, and goes on with the Task unless it has ended.               *)
ExecuteV0 ==
  /\ Begin("run_v0")
  /\ \E exhausted \in Exhaustions : tasks' = Recovered(exhausted)
  /\ UNCHANGED <<now, sources, selected, bound, wake, effectVars, armed, request,
                 captured, task, faults>>

ClaimV0 ==
  /\ pc = "run_v0"
  /\ IF ~Lineage THEN Quit /\ UNCHANGED tasks
     ELSE IF ~Exists(Resume("v0"))
       THEN /\ tasks' = Submitted(Resume("v0"))
            /\ UNCHANGED <<pc, request, captured, task>>
     ELSE IF Status(Resume("v0")) \in Terminal
       THEN Quit /\ UNCHANGED tasks
     ELSE RunOrReport("v0", tasks)
  /\ UNCHANGED <<now, sources, selected, bound, wake, effectVars, armed, faults>>

Version == task.kind

(* The provider handler (ProviderCall has all of its writes): an Action of *)
(* an earlier attempt is not replayed; a permit is consumed once.          *)
End(outcome) ==
  /\ tasks' = Ended(task, outcome) /\ Quit

HasAction_IfEnded(v) == actions[v] \in {"confirmed", "manual_review"}  \* mutant
HasAction(v) == actions[v] # "absent"

Handle ==
  /\ pc = "handle"
  /\ \/ /\ HasAction(Version)
        /\ actions' = [actions EXCEPT ![Version] =
                         IF @ = "started" THEN "manual_review" ELSE @]
        /\ End("manual_review") /\ UNCHANGED permits
     \/ /\ ~HasAction(Version) /\ permits[Version] = NoTime /\ ~BudgetOpen
        /\ \E outcome \in Exhaustions : End(outcome)
        /\ UNCHANGED <<actions, permits>>
     \/ /\ ~HasAction(Version)
        /\ permits[Version] # NoTime \/ BudgetOpen
        /\ permits' = [permits EXCEPT ![Version] = IF @ = NoTime THEN now ELSE @]
        /\ pc' = "call"
        /\ UNCHANGED <<actions, tasks, request, captured, task>>
  /\ UNCHANGED <<now, sources, selected, bound, wake, calls, armed, faults>>

Call ==
  /\ pc = "call" /\ pc' = "answer"
  /\ actions' = [actions EXCEPT ![Version] = "started"]
  /\ calls' = calls \cup {<<Version, tasks[task].attempts>>}
  /\ UNCHANGED <<now, storeVars, wake, permits, armed, request, captured, task,
                 faults>>

(* The cognition handlers normalise an answer, or fail the Task.           *)
Answer ==
  /\ pc = "answer"
  /\ \/ /\ actions' = [actions EXCEPT ![Version] = "confirmed"]
        /\ \E outcome \in {"succeeded", "failed", "manual_review"} : End(outcome)
     \/ /\ actions' = [actions EXCEPT ![Version] = "manual_review"]
        /\ End("manual_review")
  /\ UNCHANGED <<now, sources, selected, bound, wake, permits, calls, armed,
                 faults>>

-----------------------------------------------------------------------------
(* The environment.                                                        *)

Crash ==
  /\ pc # "idle" /\ faults < MaxFaults /\ faults' = faults + 1
  /\ Quit /\ armed' = NoTime
  /\ UNCHANGED <<now, storeVars, wake, effectVars>>

Tick ==
  /\ now < MaxTime /\ now' = now + 1
  /\ UNCHANGED <<storeVars, wake, effectVars, processVars, faults>>

StepBack ==
  /\ now > 0 /\ faults < MaxFaults /\ faults' = faults + 1
  /\ now' = now - 1
  /\ UNCHANGED <<storeVars, wake, effectVars, processVars>>

-----------------------------------------------------------------------------
OneShot ==
  \/ Select \/ Selected \/ Record \/ Recorded \/ Claim
  \/ ClaimV0 \/ Handle \/ Call \/ Answer

Next ==
  \/ \E s \in Sources : Reflect(s) \/ Accept(s)
  \/ Revoke \/ ServiceStart \/ Worker \/ ServiceStop
  \/ \E r \in Requests : Prepare(r)
  \/ \E r \in Foreign : AbandonSnapshot(r)
  \/ ExecuteV0 \/ ExecuteV1
  \/ OneShot
  \/ Crash \/ Tick \/ StepBack

Spec == Init /\ [][Next]_vars

(* A one-shot runs to its end, the service is restarted whenever nobody    *)
(* else keeps the lock, its worker waits on the clock, and the clock runs. *)
Fairness ==
  /\ WF_vars(OneShot) /\ SF_vars(ServiceStart) /\ WF_vars(Worker)
  /\ WF_vars(Tick)

FairSpec == Spec /\ Fairness
=============================================================================
