----------------------- MODULE GooseCycleProperties ------------------------
(* What must hold of the Local Goose cycle and its stimuli.                *)
EXTENDS GooseCycle

(* The cycle's Tasks form one unbroken chain: a generation has one Task,   *)
(* however often it was prepared, submitted and recovered, and that Task   *)
(* follows the succeeded Task of the generation before, under one model.   *)
(* So does the cursor (LocalGooseCycleService.cpp:49, exact_cycle_task).   *)
Follows(generation, pred) ==
  IF generation <= 1 THEN pred = NoTask
  ELSE /\ pred # NoTask /\ Succeeded(pred)
       /\ pred.generation + 1 = generation
OneChain ==
  /\ \A t, u \in DOMAIN tasks : t.generation = u.generation => t = u
  /\ \A t \in DOMAIN tasks :
       /\ t.generation <= cursor.generation
       /\ Follows(t.generation, tasks[t].pred)
       /\ t.generation > 1 => tasks[t].pred.model = t.model
  /\ Follows(cursor.generation, cursor.pred)

(* A generation that is due, or captured, is so for a reason: the one      *)
(* before asked for it and at least the configured minimum has passed      *)
(* since it was settled, or it asked for none and an accepted stimulus     *)
(* re-armed exactly this revision, no earlier than it was accepted         *)
(* (LocalGooseCycleService.cpp:38 and :304).                               *)
JustifiedAt(time, revision) ==
  LET wake == tasks[cursor.pred].wake IN
  IF wake = NoWake
    THEN \E s \in Sources :
           <<s, revision>> \in rearms /\ time >= stimuli[s].accepted
    ELSE time >= settledAt + Larger(wake, MinDelay)
RunsWhenAsked ==
  cursor.generation >= 2 =>
    /\ cursor.state = "scheduled" => JustifiedAt(cursor.due, cursor.revision)
    /\ cursor.state = "prepared" =>
         JustifiedAt(cursor.task.captured, cursor.revision - 1)

(* A stimulus re-arms at most one revision and a revision is re-armed by   *)
(* at most one stimulus, whatever is retried after whichever fault; one    *)
(* that is recorded as consumed re-armed the revision after its own.       *)
StimuliRearmOnce ==
  /\ \A r, q \in rearms : r[1] = q[1] <=> r[2] = q[2]
  /\ \A s \in Sources :
       stimuli[s].status = "consumed" =>
         <<s, stimuli[s].revision + 1>> \in rearms

(* Cycles come in one chain, and only when asked for: no restart, retry or *)
(* stimulus makes a second Task of a generation or an early one.           *)
ChainOnTime == OneChain /\ RunsWhenAsked

(* The loop implements what it promises.                                   *)
Mode ==
  CASE cursor.state = "dormant" ->
         IF cursor.generation = 0 THEN "seeded" ELSE "asleep"
    [] cursor.state = "blocked" -> "halted"
    [] OTHER -> "due"
Answered ==
  \E t \in DOMAIN tasks : t.generation = cursor.generation /\ Succeeded(t)
Promise ==
  INSTANCE GoosePromise WITH
    mode <- Mode,
    completed <- IF cursor.generation = 0 THEN 0 ELSE cursor.generation - 1,
    answered <- Answered,
    spent <- {r[1] : r \in rearms}
ImplementsPromise == Promise!Promise

-----------------------------------------------------------------------------
(* As long as no store has failed, no clock was set back and no model was  *)
(* replaced, and while revisions are left (the cycle does not stop at the  *)
(* store's last one):                                                      *)
(* a captured opportunity is settled or blocked, also when its execution   *)
(* is cut off and its lease must first run out;                            *)
(* a generation that is scheduled is captured or blocked, although waking  *)
(* for other work uses up the deadline (LocalGooseCycleSchedulerBridge);   *)
(* and an accepted stimulus is settled, by the service that accepted it or *)
(* by the next one to start.                                               *)
Undisturbed   == failures = 0
RevisionsLeft == cursor.revision < MaxRevision
Leaves(state) ==
  RevisionsLeft /\ cursor.state = state ~>
    cursor.state # state \/ ~Undisturbed
CycleProgresses ==
  /\ Leaves("prepared")
  /\ Leaves("scheduled")
  /\ \A s \in Sources :
       stimuli[s].status = "accepted" ~>
         stimuli[s].status # "accepted" \/ ~Undisturbed
=============================================================================
