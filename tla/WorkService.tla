---------------------------- MODULE WorkService -----------------------------
(***************************************************************************)
(* The service process: its worker thread (main), the live-control server  *)
(* thread and the signal thread, over the durable Task store.              *)
(*                                                                         *)
(* The worker alone touches the stores.  It waits in the wake scheduler,   *)
(* recovers expired leases, runs pending Tasks one at a time and serves    *)
(* the mailbox the server thread posts to.  The server and the signal      *)
(* thread only set atomics, post a request or wake the scheduler, and each *)
(* of those is a step of its own here, because the wake-ups, the stop flag *)
(* and the mailbox are what the threads can get out of order.              *)
(*                                                                         *)
(* The wake scheduler is the library's: an immediate request, an interrupt *)
(* and the earliest deadline asked for.  A deadline is named by the item   *)
(* it belongs to, a Task's lease or the one explicit wake; overdue holds   *)
(* those whose time has come.  The process may die at any step (Crash) and *)
(* be started again (Boot).                                                *)
(***************************************************************************)
EXTENDS Naturals, FiniteSets

CONSTANTS
  Tasks,          \* Task ids that may be submitted
  Handled,        \* those of a kind some handler is registered for
  DialogueTasks,  \* those that are turns of the preferred dialogue thread
  PumpingTasks,   \* those whose handler serves the mailbox as it runs
  WakeSource,     \* the Task whose result proposes the explicit wake
  Wake,           \* the explicit wake (its lifetime limit is one)
  NoTask, NoRequest,
  MaxAttempts,    \* limits.max_attempts of every Task
  MaxFaults       \* bound: crashes, refused transitions, failed commands

ASSUME TasksAssumption ==
  /\ Handled \subseteq Tasks
  /\ DialogueTasks \subseteq Tasks
  /\ PumpingTasks \subseteq Tasks
  /\ WakeSource \in Tasks
  /\ Wake \notin Tasks /\ NoTask \notin Tasks

ASSUME WorkBoundsAssumption ==
  /\ MaxAttempts \in Nat \ {0}
  /\ MaxFaults \in Nat

Requests == [op : {"submit"}, on : Tasks]
              \cup [op : {"accept_wake", "revoke_wake"}, on : {Wake}]

ASSUME RequestAssumption == NoRequest \notin Requests

VARIABLES
  tasks, attempts, wake,  \* durable: Task status, attempts_started, the wake
  overdue,                \* the items whose deadline the clock has reached
  pc, current, exit,      \* worker: what it does next, the Task it runs,
                          \* the exit code (2 after work_conflict)
  stop, calls, armed,     \* controller and scheduler: the stop flag, and
                          \* then the stopped scheduler; the wake-ups and
                          \* the deadlines that were asked for
  server, asked, mailbox, reply,  \* live control: the server thread, its
                          \* client's request, the mailbox and the answer
  signal,                 \* signal thread
  faults

durableVars   == <<tasks, attempts, wake, overdue>>
workerVars    == <<pc, current, exit>>
schedulerVars == <<stop, calls, armed>>
controlVars   == <<server, asked, mailbox, reply>>
vars == <<tasks, attempts, wake, overdue, pc, current, exit, stop, calls,
          armed, server, asked, mailbox, reply, signal, faults>>

Terminal   == {"succeeded", "failed", "cancelled", "manual_review"}
InFlight   == {"running", "cancel_requested"}
TaskStatus == {"absent", "pending"} \cup InFlight \cup Terminal
WakeStatus == {"none", "scheduled", "fired", "revoked"}
WorkerStep == {"process", "reconcile", "enter", "wait", "recover",
               "dispatch", "start", "handle", "acknowledge",
               "reconcile_again", "drain", "join_server", "join_signal",
               "exited", "down"}
Executing  == {"start", "handle", "acknowledge"}
Items      == Tasks \cup {Wake}

TypeOK ==
  /\ tasks \in [Tasks -> TaskStatus]
  /\ attempts \in [Tasks -> 0 .. MaxAttempts]
  /\ wake \in WakeStatus
  /\ overdue \subseteq Items
  /\ pc \in WorkerStep
  /\ current \in Tasks \cup {NoTask}
  /\ current # NoTask <=> pc \in Executing
  /\ exit \in {0, 2}
  /\ stop \in {"none", "flagged", "halted"}
  /\ calls \subseteq {"interrupt", "work"}
  /\ armed \subseteq Items
  /\ server \in {"off", "listening", "receiving", "submitted", "waiting"}
  /\ asked \in Requests \cup {NoRequest}
  /\ reply \in {"none", "ok", "refused", "failed", "stopping"}
  /\ server \in {"submitted", "waiting"} <=> asked # NoRequest
  /\ mailbox \in {"empty", "posted", "closed"}
  /\ mailbox = "posted" => asked # NoRequest /\ reply = "none"
  /\ signal \in {"off", "waiting", "signalled", "published"}
  /\ faults \in 0 .. MaxFaults

Running  == pc \notin {"exited", "down"}
Stopping == stop # "none"

(* What a process that ends leaves behind is what is durable.              *)
MemoryLost ==
  /\ current' = NoTask
  /\ stop' = "none" /\ calls' = {} /\ armed' = {}
  /\ server' = "off" /\ asked' = NoRequest
  /\ mailbox' = "empty" /\ reply' = "none"
  /\ signal' = "off"
  /\ UNCHANGED durableVars

Fault   == faults < MaxFaults /\ faults' = faults + 1

Init ==
  /\ tasks = [t \in Tasks |-> "absent"]
  /\ attempts = [t \in Tasks |-> 0]
  /\ wake = "none" /\ overdue = {}
  /\ pc = "down" /\ current = NoTask /\ exit = 0
  /\ stop = "none" /\ calls = {} /\ armed = {}
  /\ server = "off" /\ asked = NoRequest
  /\ mailbox = "empty" /\ reply = "none"
  /\ signal = "off" /\ faults = 0

-----------------------------------------------------------------------------
(* What the controller asks of the scheduler.  All of it is dropped once   *)
(* the stop flag is up.                                                    *)

Deadlines(taskStatus, wakeStatus) ==
  {t \in Tasks : taskStatus[t] \in InFlight}
    \cup (IF wakeStatus = "scheduled" THEN {Wake} ELSE {})

NotifyWork == calls' = IF Stopping THEN calls ELSE calls \cup {"work"}

(* schedule_next_deadline, on what is durable after the step.              *)
RefreshDeadlines_LeasesOnly ==  \* mutant
  armed' = IF Stopping THEN armed ELSE armed \cup Deadlines(tasks', "none")
RefreshDeadlines ==
  armed' = IF Stopping THEN armed ELSE armed \cup Deadlines(tasks', wake')

-----------------------------------------------------------------------------
(* Recovery.                                                               *)

Expired(t) == tasks[t] \in InFlight /\ t \in overdue

(* Runtime::recover_expired: a cancellation is finished, an execution that *)
(* was cut off is retried while attempts are left.                         *)
Recovered(exhausted) ==
  [t \in Tasks |->
     IF ~Expired(t) THEN tasks[t]
     ELSE IF tasks[t] = "cancel_requested" THEN "cancelled"
     ELSE IF attempts[t] < MaxAttempts THEN "pending" ELSE exhausted]
RecoverExpired ==
  \E exhausted \in {"failed", "manual_review"} : tasks' = Recovered(exhausted)

ReconcileWakes ==
  wake' = IF wake = "scheduled" /\ Wake \in overdue THEN "fired" ELSE wake

(* main: recover, then WorkController::start, then the two threads.        *)
Boot ==
  /\ ~Running
  /\ RecoverExpired /\ ReconcileWakes
  /\ pc' = "process" /\ exit' = 0
  /\ calls' = {"work"} /\ armed' = Deadlines(tasks', wake')
  /\ server' = "listening" /\ signal' = "waiting"
  /\ UNCHANGED <<attempts, overdue, current, stop, asked, mailbox, reply,
                 faults>>

-----------------------------------------------------------------------------
(* Live-control commands.                                                  *)

(* A dialogue turn only follows a head that has succeeded.                 *)
Admissible(t) ==
  t \in DialogueTasks =>
    \A d \in DialogueTasks \ {t} : tasks[d] \in {"absent", "succeeded"}

(* What a command writes, if it is allowed to and its write commits.       *)
Submitted(t) ==
  IF Admissible(t) /\ tasks[t] = "absent"
    THEN [tasks EXCEPT ![t] = "pending"] ELSE tasks
Accepted ==
  IF tasks[WakeSource] = "succeeded" /\ wake = "none" THEN "scheduled" ELSE wake
(* At or after the deadline firing wins.                                   *)
Revoked ==
  IF wake # "scheduled" THEN wake
  ELSE IF Wake \in overdue THEN "fired" ELSE "revoked"

Refuse == reply' = "refused" /\ UNCHANGED <<tasks, wake, calls, armed>>

Submit(t) ==
  IF Admissible(t)
    THEN /\ tasks' = Submitted(t) /\ reply' = "ok"
         /\ IF tasks'[t] \notin Terminal THEN NotifyWork ELSE UNCHANGED calls
         /\ UNCHANGED <<wake, armed>>
    ELSE Refuse

AcceptWake ==
  IF tasks[WakeSource] = "succeeded"
    THEN /\ wake' = Accepted /\ reply' = "ok"
         /\ UNCHANGED <<tasks, calls>>
         /\ RefreshDeadlines
    ELSE Refuse

RevokeWake ==
  IF wake # "none"
    THEN /\ wake' = Revoked /\ reply' = "ok"
         /\ UNCHANGED <<tasks, calls>>
         /\ RefreshDeadlines
    ELSE Refuse

(* A command that throws may have committed, so what it could have changed *)
(* is announced all the same.                                              *)
ThrowsAfter(r) ==
  \/ /\ r.op = "submit"
     /\ tasks' \in {tasks, Submitted(r.on)}
     /\ NotifyWork
     /\ UNCHANGED <<wake, armed>>
  \/ /\ r.op \in {"accept_wake", "revoke_wake"}
     /\ wake' \in {wake, IF r.op = "accept_wake" THEN Accepted ELSE Revoked}
     /\ UNCHANGED <<tasks, calls>>
     /\ RefreshDeadlines
CommandThrows(r) == Fault /\ reply' = "failed" /\ ThrowsAfter(r)

(* take_all, process_one, complete.  The server serves one client at a     *)
(* time, so the mailbox never holds more than one request.                 *)
ServeMailbox ==
  /\ \/ /\ mailbox = "posted" /\ mailbox' = "empty"
        /\ \/ asked.op = "submit" /\ Submit(asked.on)
           \/ asked.op = "accept_wake" /\ AcceptWake
           \/ asked.op = "revoke_wake" /\ RevokeWake
        /\ UNCHANGED faults
     \/ /\ mailbox = "posted" /\ mailbox' = "empty"
        /\ CommandThrows(asked)
     \/ /\ mailbox # "posted"
        /\ UNCHANGED <<tasks, wake, calls, armed, mailbox, reply, faults>>
  /\ UNCHANGED <<attempts, overdue, current, exit, stop, server, asked,
                 signal>>

-----------------------------------------------------------------------------
(* The worker's loop.                                                      *)

Process == pc = "process" /\ pc' = "reconcile" /\ ServeMailbox

(* The completion feed is blocked by a thread head that ended without a    *)
(* canonical success, and stays so.                                        *)
FeedBlocked == \E d \in DialogueTasks : tasks[d] \in Terminal \ {"succeeded"}

(* work_conflict: stop, wake the signal thread, and go round again.        *)
StopOnConflict ==
  /\ exit' = 2
  /\ stop' = "halted"
  /\ signal' = IF signal = "waiting" THEN "signalled" ELSE signal
  /\ pc' = "process"

Reconcile ==
  /\ pc \in {"reconcile", "reconcile_again"}
  /\ IF FeedBlocked
       THEN StopOnConflict
       ELSE /\ pc' = IF pc = "reconcile" THEN "enter" ELSE "process"
            /\ UNCHANGED <<exit, stop, signal>>
  /\ UNCHANGED <<durableVars, current, calls, armed, controlVars, faults>>

Worker(from, to) == pc = from /\ pc' = to /\ UNCHANGED <<current, exit>>

(* wait_and_run: the flag is read before and after the scheduler's wait.   *)
EnterWait ==
  /\ Worker("enter", IF Stopping THEN "drain" ELSE "wait")
  /\ UNCHANGED <<durableVars, schedulerVars, controlVars, signal, faults>>

WaitStopped ==
  /\ stop = "halted"
  /\ Worker("wait", "drain")
  /\ UNCHANGED <<durableVars, schedulerVars, controlVars, signal, faults>>

WaitInterrupted ==
  /\ "interrupt" \in calls /\ stop # "halted"
  /\ Worker("wait", IF Stopping THEN "drain" ELSE "reconcile_again")
  /\ calls' = calls \ {"interrupt"}
  /\ UNCHANGED <<durableVars, stop, armed, controlVars, signal, faults>>

WaitDue ==
  /\ "work" \in calls \/ armed \cap overdue # {}
  /\ stop # "halted"
  /\ Worker("wait", IF Stopping THEN "drain" ELSE "recover")
  /\ calls' = calls \ {"work"} /\ armed' = {}
  /\ UNCHANGED <<durableVars, stop, controlVars, signal, faults>>

Recover ==
  /\ Worker("recover", "dispatch")
  /\ RecoverExpired /\ ReconcileWakes
  /\ UNCHANGED <<attempts, overdue, schedulerVars, controlVars, signal,
                 faults>>

(* The dispatch loop: stop, or the next pending Task of a known kind, or   *)
(* nothing left.                                                           *)
DispatchStops ==
  /\ Stopping
  /\ Worker("dispatch", "drain")
  /\ UNCHANGED <<durableVars, schedulerVars, controlVars, signal, faults>>

Dispatch(t) ==
  /\ ~Stopping
  /\ t \in Handled /\ tasks[t] = "pending"
  /\ pc = "dispatch" /\ pc' = "start" /\ current' = t
  /\ UNCHANGED <<durableVars, exit, schedulerVars, controlVars, signal,
                 faults>>

DispatchIdle ==
  /\ ~Stopping
  /\ \A t \in Handled : tasks[t] # "pending"
  /\ Worker("dispatch", "reconcile_again")
  /\ UNCHANGED <<durableVars, stop, calls, controlVars, signal, faults>>
  /\ RefreshDeadlines

-----------------------------------------------------------------------------
(* One Task.  The stop flag may come up before the handler looks.          *)

Start ==
  /\ Worker("start", "handle")
  /\ tasks' = [tasks EXCEPT ![current] = "running"]
  /\ attempts' = [attempts EXCEPT ![current] = attempts[current] + 1]
  /\ overdue' = overdue \ {current}
  /\ UNCHANGED <<wake, schedulerVars, controlVars, signal, faults>>

Ended(outcome) ==
  /\ tasks' = [tasks EXCEPT ![current] = outcome]
  /\ current' = NoTask /\ pc' = "dispatch"
  /\ UNCHANGED <<attempts, wake, overdue, exit, schedulerVars,
                 controlVars, signal, faults>>

(* A handler's own result, a refused result, or an exception.              *)
HandlerEnds ==
  /\ pc = "handle"
  /\ \E outcome \in {"succeeded", "failed", "manual_review"} : Ended(outcome)

(* A handler that sees the stop returns cancelled.  Nobody asked for that  *)
(* durably, so the request is written first, the acknowledgement second.   *)
HandlerCancels_Unacknowledged ==  \* mutant
  pc = "handle" /\ Stopping /\ Ended("cancel_requested")
HandlerCancels_Requeues ==  \* mutant
  pc = "handle" /\ Stopping /\ Ended("pending")
HandlerCancels ==
  /\ Stopping
  /\ Worker("handle", "acknowledge")
  /\ tasks' = [tasks EXCEPT ![current] = "cancel_requested"]
  /\ UNCHANGED <<attempts, wake, overdue, schedulerVars, controlVars, signal,
                 faults>>

AcknowledgeCancel == pc = "acknowledge" /\ Ended("cancelled")

(* A Goose handler's tool calls come back through the live-control server. *)
Pump ==
  /\ pc = "handle" /\ UNCHANGED pc
  /\ current \in PumpingTasks
  /\ mailbox = "posted" /\ ~Stopping
  /\ ServeMailbox

(* The runtime refuses a transition, the store is unavailable.             *)
TransitionRefused ==
  /\ Fault
  /\ pc \in Executing
  /\ current' = NoTask
  /\ StopOnConflict
  /\ UNCHANGED <<durableVars, calls, controlVars>>
  /\ RefreshDeadlines

-----------------------------------------------------------------------------
(* Shutdown.                                                               *)

(* enter_draining, LiveControlServer::stop: a request left in the mailbox  *)
(* is answered, and the server thread is told.                             *)
Drain_LeavesMailbox ==  \* mutant
  /\ Worker("drain", "join_server")
  /\ mailbox' = "closed"
  /\ UNCHANGED <<durableVars, schedulerVars, server, asked, reply, signal,
                 faults>>
Drain ==
  /\ Worker("drain", "join_server")
  /\ mailbox' = "closed"
  /\ reply' = IF mailbox = "posted" THEN "stopping" ELSE reply
  /\ UNCHANGED <<durableVars, schedulerVars, server, asked, signal, faults>>

JoinServer ==
  /\ server = "off"
  /\ Worker("join_server", "join_signal")
  /\ UNCHANGED <<durableVars, schedulerVars, controlVars, signal, faults>>

JoinSignal ==
  /\ signal = "off"
  /\ pc = "join_signal" /\ pc' = "exited"
  /\ MemoryLost
  /\ UNCHANGED <<exit, faults>>

-----------------------------------------------------------------------------
(* Signal thread.                                                          *)

Terminate ==
  /\ signal = "waiting"
  /\ signal' = "signalled"
  /\ UNCHANGED <<durableVars, workerVars, schedulerVars, controlVars, faults>>

PublishStop ==
  /\ signal = "signalled"
  /\ stop' = IF Stopping THEN stop ELSE "flagged"
  /\ signal' = "published"
  /\ UNCHANGED <<durableVars, workerVars, calls, armed, controlVars, faults>>

StopScheduler ==
  /\ signal = "published"
  /\ stop' = "halted"
  /\ signal' = "off"
  /\ UNCHANGED <<durableVars, workerVars, calls, armed, controlVars, faults>>

-----------------------------------------------------------------------------
(* Live-control server thread.                                             *)

ServerStep == UNCHANGED <<durableVars, workerVars, stop, armed, signal, faults>>

ClientConnects ==
  /\ server = "listening" /\ mailbox # "closed"
  /\ server' = "receiving"
  /\ ServerStep /\ UNCHANGED <<calls, asked, mailbox, reply>>

(* mailbox.submit; a stopped mailbox answers by itself.                    *)
ClientSends(r) ==
  /\ server = "receiving"
  /\ server' = "submitted" /\ asked' = r
  /\ IF mailbox = "closed"
       THEN reply' = "stopping" /\ UNCHANGED mailbox
       ELSE reply' = "none" /\ mailbox' = "posted"
  /\ ServerStep /\ UNCHANGED calls

(* An undecodable request, or a client that hangs up.                      *)
ClientGoes ==
  /\ server = "receiving"
  /\ server' = "listening"
  /\ ServerStep /\ UNCHANGED <<calls, asked, mailbox, reply>>

WakeWorker ==
  /\ server = "submitted"
  /\ server' = "waiting"
  /\ calls' = IF Stopping THEN calls ELSE calls \cup {"interrupt"}
  /\ ServerStep /\ UNCHANGED <<asked, mailbox, reply>>

Answer ==
  /\ server = "waiting" /\ reply # "none"
  /\ server' = "listening"
  /\ asked' = NoRequest /\ reply' = "none"
  /\ ServerStep /\ UNCHANGED <<calls, mailbox>>

ServerStops ==
  /\ server = "listening" /\ mailbox = "closed"
  /\ server' = "off"
  /\ ServerStep /\ UNCHANGED <<calls, asked, mailbox, reply>>

-----------------------------------------------------------------------------
(* The world: time, a process that dies, and offline commands.             *)

Elapse(x) ==
  /\ x \in (armed \cup Deadlines(tasks, wake)) \ overdue
  /\ overdue' = overdue \cup {x}
  /\ UNCHANGED <<tasks, attempts, wake, workerVars, schedulerVars, controlVars,
                 signal, faults>>

Crash ==
  /\ Running
  /\ Fault
  /\ pc' = "down" /\ exit' = 0
  /\ MemoryLost

(* Commands that take the state lock, so only while the service is down.   *)
(* Each recovers first.                                                    *)
Offline(t, from, to) ==
  /\ ~Running
  /\ \E exhausted \in {"failed", "manual_review"} :
       LET recovered == Recovered(exhausted) IN
       /\ recovered[t] = from
       /\ tasks' = [recovered EXCEPT ![t] = to]
  /\ UNCHANGED <<attempts, wake, overdue, workerVars, schedulerVars,
                 controlVars, signal, faults>>

OfflineCancel(t) ==
  Offline(t, "pending", "cancelled") \/ Offline(t, "running", "cancel_requested")
OfflineEnqueue(t) == t \notin DialogueTasks /\ Offline(t, "absent", "pending")

-----------------------------------------------------------------------------
WorkerNext ==
  \/ Process \/ Reconcile \/ EnterWait
  \/ WaitStopped \/ WaitInterrupted \/ WaitDue \/ Recover
  \/ DispatchStops \/ DispatchIdle \/ (\E t \in Tasks : Dispatch(t))
  \/ Start \/ HandlerEnds \/ HandlerCancels \/ AcknowledgeCancel \/ Pump
  \/ Drain \/ JoinServer \/ JoinSignal

SignalNext == PublishStop \/ StopScheduler
ServerNext ==
  \/ ClientGoes \/ (\E r \in Requests : ClientSends(r))
  \/ WakeWorker \/ Answer \/ ServerStops

Next ==
  \/ WorkerNext \/ SignalNext \/ ServerNext
  \/ ClientConnects \/ Terminate
  \/ Boot \/ Crash \/ TransitionRefused
  \/ \E x \in Items : Elapse(x)
  \/ \E t \in Tasks : OfflineCancel(t) \/ OfflineEnqueue(t)

Spec == Init /\ [][Next]_vars
=============================================================================
