----------------------- MODULE WorkServiceProperties ------------------------
(***************************************************************************)
(* What must be true of the service process, whatever its threads, its     *)
(* clients, the clock and the faults do.                                   *)
(***************************************************************************)
EXTENDS WorkService

Pending(t) == t \in Handled /\ tasks[t] = "pending"

(* A worker asleep will be woken by everything there is to do: pending     *)
(* work, a request its server thread has announced, every durable lease    *)
(* and wake deadline, and a stop that was published.  A submission or a    *)
(* wake command, an interrupt, a stop and the worker's own step from the   *)
(* dispatch loop to the wait may come in any order.                        *)
NoLostWakeup ==
  pc = "wait" =>
    \/ stop = "halted"
    \/ Stopping /\ signal = "published"
    \/ /\ ~Stopping
       /\ (\E t \in Tasks : Pending(t)) => "work" \in calls
       /\ server = "waiting" /\ mailbox = "posted" => "interrupt" \in calls
       /\ Deadlines(tasks, wake) \subseteq armed

(* No Task is executed twice unless an execution was cut off: every        *)
(* attempt beyond the first is explained by a crash or a refused           *)
(* transition, never by a shutdown, a cancellation or a lost reply.        *)
AttemptsExplained == \A t \in Tasks : attempts[t] <= 1 + faults

(* A service that exits without reporting a conflict (exit code 2) leaves  *)
(* nothing of its own in flight: what is in flight then was cut off by a   *)
(* fault, of an earlier process or of this one.                            *)
ExitIsClean ==
  pc = "exited" /\ exit = 0 =>
    \A t \in Tasks : tasks[t] \in InFlight => faults > 0

-----------------------------------------------------------------------------
(* The worker, the signal thread and the server thread go on while they    *)
(* can, a handler ends (every kind bounds its run time) however often it   *)
(* serves the mailbox, a client that connected sends or goes, and time     *)
(* passes.  Nothing obliges anyone to start the service, to stop it, to    *)
(* connect or to fail.                                                     *)
FairSpec ==
  /\ Spec
  /\ WF_vars(WorkerNext)
  /\ WF_vars(HandlerEnds)
  /\ WF_vars(SignalNext)
  /\ WF_vars(ServerNext)
  /\ \A x \in Items : WF_vars(Elapse(x))

(* README.md:21 and docs/DEPLOYMENT.md:68-69, "Podman sends `SIGTERM` and  *)
(* waits 30 seconds. The application drains and reports `gaudere-agent:    *)
(* safe` before exiting": a stop that was asked for ends the process.      *)
StopCompletes == signal = "signalled" ~> ~Running

(* Every client that sent a request gets an answer, the ones whose request *)
(* arrives as the service stops included.                                  *)
RequestsAnswered == server = "waiting" ~> server # "waiting"

(* Whether an interrupt or a due request comes first is the scheduler's    *)
(* affair, so clients that never pause could keep the worker from its work.*)
ClientsPause == <>[](server # "submitted")

(* Pending work of a known kind is run, unless the service stops first.    *)
PendingWorkRuns ==
  ClientsPause =>
    \A t \in Tasks : Pending(t) ~> ~Pending(t) \/ Stopping \/ ~Running

(* An execution that was cut off is recovered when its lease expires, and  *)
(* the explicit wake fires when it is due, without anybody polling.        *)
DeadlinesMet ==
  ClientsPause =>
    /\ \A t \in Tasks :
         tasks[t] \in InFlight /\ t # current
           ~> tasks[t] \notin InFlight \/ Stopping \/ ~Running
    /\ wake = "scheduled" ~> wake # "scheduled" \/ Stopping \/ ~Running

(* The process makes progress on everything it has taken on: a stop, a     *)
(* client's request, pending work, an expired lease and the explicit wake. *)
ServiceProgresses ==
  StopCompletes /\ RequestsAnswered /\ PendingWorkRuns /\ DeadlinesMet
=============================================================================
