---------------------- MODULE AutonomousPulseProperties ----------------------
(* What the autonomous cognition pulse has to keep true.                   *)
EXTENDS AutonomousPulse

Seeded   == cursor # NoCursor
Own(id)  == id[Len(id)].due # NoTime
Origin(id) == SubSeq(id, 1, Len(id) - 1)

(* The opportunity that a row stands for: when it is due, when it was      *)
(* opened, whether it was spent, and how many were answered before it.     *)
Due        == IF Seeded THEN cursor.due ELSE NoTime
Opened     == IF Seeded THEN cursor.observed ELSE NoTime
Called     == Seeded /\ cursor.current # NoTask /\ cursor.current \in actions
Generation == IF Seeded THEN Len(cursor.predecessor) ELSE 0
Closed     == Seeded /\ cursor.state = "blocked"

(* The pulse keeps the promise: through crashes between any two writes,    *)
(* retirements, the operator's tools and a moving clock, a generation is   *)
(* never spent twice and never withdrawn once it is.                       *)
Promise == INSTANCE CognitionPromise WITH
  due <- Due, opened <- Opened, called <- Called, generation <- Generation,
  closed <- Closed
ImplementsPromise == Promise!Spec

(* No generation is paid for twice, whatever became of the cognition of    *)
(* the first call: at most one of the pulse's Tasks behind a predecessor   *)
(* has an Action.                                                          *)
SpentOncePerGeneration ==
  \A a, b \in actions :
    Own(a) /\ Own(b) /\ Origin(a) = Origin(b) => a = b

(* An answer that was paid for is in the lineage, or is named by the       *)
(* cursor, which will settle it; and every link of the lineage was paid    *)
(* for and answered.                                                       *)
AnswersReachLineage ==
  Seeded =>
    /\ \A id \in DOMAIN tasks :
         Own(id) /\ tasks[id].status = "succeeded" =>
           \/ id = cursor.current
           \/ /\ Len(id) <= Len(cursor.predecessor)
              /\ id = SubSeq(cursor.predecessor, 1, Len(id))
    /\ \A g \in 1 .. Len(cursor.predecessor) :
         LET id == SubSeq(cursor.predecessor, 1, g) IN
         /\ id \in actions /\ tasks[id].status = "succeeded"

(* Every generation that was paid for is accounted for: it has one call,   *)
(* and the answer of that call is not lost.                                *)
GenerationsAccounted == SpentOncePerGeneration /\ AnswersReachLineage

(* A pulse that rests is never left unwatched without a cause: the budget  *)
(* is spent for life, the clock stands before a recorded time, or a store  *)
(* has failed in this very step.                                           *)
SilentForCause ==
  [][pc \notin {"loop", "down"} /\ pc' = "loop" /\ ~monitoring' =>
       \/ cursor'.state \in {"prepared", "blocked"}
       \/ now < cursor'.anchor
       \/ cursor'.state = "preparing" /\ now < cursor'.observed
       \/ Budget(now) \in {"total_exhausted", "clock_rollback"}
       \/ faults' # faults \/ (Quiet /\ faults > 0)]_vars

-----------------------------------------------------------------------------
SwitchedOff == pc = "loop" /\ ~monitoring
Beyond == armed # NoTime /\ armed > MaxTime

Owed(g) ==
  /\ Seeded /\ Len(cursor.predecessor) + 1 = g
  /\ cursor.state # "blocked" /\ cursor.due <= now

Over(g) ==
  Seeded /\ (cursor.state = "blocked" \/ Len(cursor.predecessor) >= g)

(* A generation that has come due is answered in the end, unless the pulse *)
(* blocks, is switched off, or waits for a budget beyond the instance.     *)
OpportunitiesEnd ==
  \A g \in 1 .. 2 : Owed(g) ~> (Over(g) \/ SwitchedOff \/ Beyond)
=============================================================================
