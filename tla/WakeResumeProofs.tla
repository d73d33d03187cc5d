-------------------------- MODULE WakeResumeProofs ---------------------------
(***************************************************************************)
(* The resumed cognition of a wake: called once and a cooldown apart, with *)
(* the context that was selected, as ResumePromise has it; for any number  *)
(* of requests and faults, any delays, ages and cooldowns.                 *)
(***************************************************************************)
EXTENDS WakeResumeProperties, TLAPS

USE BoundsAssumption, NamesAssumption

-----------------------------------------------------------------------------
(* The types.                                                              *)

Shots == [kind : {"snapshot"}, request : Requests \cup Foreign, captured : Time]
Keys  == {Selection} \cup Shots \cup {Resume(v) : v \in Versions}
Row ==
  [status : {"pending", "running"} \cup Terminal, attempts : Nat,
   since : Time \cup {NoTime}]
Rows(f) == DOMAIN f \subseteq Keys /\ \A t \in DOMAIN f : f[t] \in Row

Wakes ==
  [id : Sources, accepted : Time, due : Time,
   status : {"scheduled", "fired", "revoked", "manual_review"},
   terminal : Time \cup {NoTime}]

TypeInv ==
  /\ now \in Time
  /\ Rows(tasks)
  /\ selected \in [request : Requests, captured : Time] \cup {NoTask}
  /\ bound \in Shots \cup {NoTask}
  /\ wake \in Wakes \cup {NoWake}
  /\ wake # NoWake /\ wake.status = "fired" => wake.terminal \in Time
  /\ actions \in [Versions -> {"absent", "started", "confirmed", "manual_review"}]
  /\ permits \in [Versions -> Time \cup {NoTime}]
  /\ calls \subseteq Versions \X Nat
  /\ pc \in {"idle", "service", "select", "selecting", "record", "recording",
             "claim", "run_v0", "handle", "call", "answer"}

(* Where a one-shot has come to says what it has stored and holds: the     *)
(* selection of its own request, the snapshot it is completing or has      *)
(* completed, the resume Task it runs.  A resume Task stands for a fired   *)
(* wake, the v1 one for the snapshot that was bound with it.               *)
Preparing == {"select", "selecting", "record", "recording", "claim"}
Resuming  == {"handle", "call", "answer"}
PlaceInv ==
  /\ Exists(Selection) <=> selected # NoTask
  /\ pc \in Preparing \cup {"run_v0"} => wake # NoWake
  /\ pc \in Preparing => request \in Requests
  /\ pc = "select" /\ ~Exists(Selection) => captured \in Time
  /\ pc = "selecting" => Status(Selection) = "running"
  /\ pc \in {"selecting", "record", "recording", "claim"} =>
       selected # NoTask /\ selected.request = request
  /\ pc \in {"record", "recording", "claim"} => Status(Selection) = "succeeded"
  /\ pc = "recording" => task \in Shots /\ Status(task) = "running"
  /\ pc = "claim" =>
       task \in Shots /\ task.request = request /\ Status(task) = "succeeded"
  /\ pc \in Resuming =>
       /\ task \in {Resume(v) : v \in Versions}
       /\ Status(task) = "running"
BoundInv ==
  /\ bound # NoTask <=> Exists(Resume("v1"))
  /\ bound # NoTask =>
       /\ selected # NoTask /\ bound.request = selected.request
       /\ Status(bound) = "succeeded" /\ Status(Selection) = "succeeded"
  /\ \A v \in Versions :
       Exists(Resume(v)) => wake # NoWake /\ wake.status = "fired"

(* A call leaves its Action, and an Action its permit.                     *)
CallInv ==
  /\ \A v \in Versions : actions[v] # "absent" => permits[v] # NoTime
  /\ \A c \in calls : actions[c[1]] # "absent"
  /\ \A c, d \in calls : c[1] = d[1] => c = d
  /\ \A v, w \in Versions :
       v # w /\ permits[v] # NoTime /\ permits[w] # NoTime =>
         permits[v] >= permits[w] + Cooldown \/ permits[w] >= permits[v] + Cooldown
  /\ pc = "call" =>
       actions[Version] = "absent" /\ permits[Version] # NoTime
  /\ pc = "answer" => actions[Version] # "absent"

ResumeInv == TypeInv /\ PlaceInv /\ BoundInv /\ CallInv

LEMMA InitResume == Init => ResumeInv
  <1> SUFFICES ASSUME Init PROVE ResumeInv
    OBVIOUS
  <1>1. DOMAIN tasks = {}
    BY DEF Init
  <1>2. TypeInv
    BY <1>1 DEF Init, TypeInv, Rows, Time
  <1>3. PlaceInv /\ BoundInv
    BY <1>1 DEF Init, PlaceInv, BoundInv, Exists, Preparing, Resuming
  <1>4. CallInv
    BY DEF Init, CallInv
  <1>5. QED
    BY <1>2, <1>3, <1>4 DEF ResumeInv

-----------------------------------------------------------------------------
(* The Task runtime.                                                       *)

(* The kinds of Task are different keys.                                   *)
LEMMA KeysApart ==
  /\ Selection \in Keys /\ \A v \in Versions : Resume(v) \in Keys
  /\ \A v \in Versions : Resume(v) # Selection /\ Resume(v).kind = v
  /\ \A v, w \in Versions : Resume(v) = Resume(w) => v = w
  /\ \A t \in Shots : t # Selection /\ \A v \in Versions : t # Resume(v)
  /\ \A t \in Keys : t.kind = "snapshot" => t \in Shots
  <1>1. Selection.kind = "selection" /\ \A v \in Versions : Resume(v).kind = v
    BY DEF Selection, Resume
  <1>2. \A t \in Shots : t.kind = "snapshot"
    BY DEF Shots
  <1>3. QED
    BY <1>1, <1>2 DEF Keys, Versions

(* No Task goes, and none that has ended changes its status.               *)
Grows(f) ==
  /\ DOMAIN tasks \subseteq DOMAIN f
  /\ \A t \in DOMAIN tasks :
       tasks[t].status \in Terminal => f[t].status = tasks[t].status

LEMMA SubmittedRows ==
  ASSUME Rows(tasks), NEW t \in Keys, ~Exists(t)
  PROVE  LET f == Submitted(t) IN
         /\ Rows(f) /\ Grows(f) /\ DOMAIN f = DOMAIN tasks \cup {t}
         /\ f[t].status = "pending"
         /\ \A x \in DOMAIN tasks : f[x] = tasks[x]
  BY DEF Submitted, Rows, Row, Grows, Exists

LEMMA RecoveredRows ==
  ASSUME Rows(tasks), NEW exhausted \in Exhaustions
  PROVE  LET f == Recovered(exhausted) IN
         Rows(f) /\ Grows(f) /\ DOMAIN f = DOMAIN tasks
  <1> DEFINE f == Recovered(exhausted)
  <1>1. DOMAIN f = DOMAIN tasks
    BY DEF Recovered
  <1>2. ASSUME NEW t \in DOMAIN tasks
        PROVE  /\ f[t] \in Row
               /\ tasks[t].status \in Terminal => f[t].status = tasks[t].status
    <2>1. tasks[t] \in Row
      BY DEF Rows
    <2>2. CASE ~Expired(t)
      BY <2>1, <2>2 DEF Recovered
    <2>3. CASE Expired(t)
      BY <2>1, <2>3 DEF Recovered, Row, Expired, Terminal, Exhaustions
    <2>4. QED
      BY <2>2, <2>3
  <1>3. QED
    BY <1>1, <1>2 DEF Rows, Grows

LEMMA StartedRows ==
  ASSUME now \in Time, NEW f, Rows(f), Grows(f), NEW t \in DOMAIN f,
         f[t].status = "pending"
  PROVE  LET g == Started(f, t) IN
         /\ Rows(g) /\ Grows(g) /\ DOMAIN g = DOMAIN f
         /\ g[t].status = "running"
         /\ \A x \in DOMAIN f : x # t => g[x] = f[x]
  <1>1. f[t] \in Row
    BY DEF Rows
  <1>2. Started(f, t)[t] \in Row /\ Started(f, t)[t].status = "running"
    BY <1>1 DEF Started, Row
  <1>3. QED
    BY <1>2 DEF Started, Rows, Grows, Terminal

LEMMA EndedRows ==
  ASSUME Rows(tasks), NEW t, Status(t) = "running", NEW status \in Terminal
  PROVE  LET f == Ended(t, status) IN
         /\ Rows(f) /\ Grows(f) /\ DOMAIN f = DOMAIN tasks
         /\ t \in DOMAIN tasks /\ f[t].status = status
         /\ \A x \in DOMAIN tasks : x # t => f[x] = tasks[x]
  <1>1. t \in DOMAIN tasks /\ tasks[t].status = "running"
    BY DEF Status, Exists
  <1>2. tasks[t] \in Row
    BY <1>1 DEF Rows
  <1>3. Ended(t, status)[t] \in Row /\ Ended(t, status)[t].status = status
    BY <1>1, <1>2 DEF Ended, Row
  <1>4. QED
    BY <1>1, <1>3 DEF Ended, Rows, Grows, Terminal
-----------------------------------------------------------------------------
(* Every step writes well-formed Tasks, and takes back no ending.          *)
LEMMA TasksKept ==
  ASSUME ResumeInv, [Next]_vars PROVE Rows(tasks') /\ Grows(tasks')
  <1> USE DEF ResumeInv, TypeInv
  <1>0. Rows(tasks) /\ Grows(tasks)
    BY DEF Grows
  <1>1. CASE UNCHANGED tasks
    BY <1>0, <1>1
  <1>2. ASSUME \E exhausted \in Exhaustions : tasks' = Recovered(exhausted)
        PROVE  Rows(tasks') /\ Grows(tasks')
    BY <1>2, RecoveredRows
  <1>3. ASSUME NEW t \in Keys, ~Exists(t), tasks' = Submitted(t)
        PROVE  Rows(tasks') /\ Grows(tasks')
    BY <1>3, SubmittedRows
  <1>4. ASSUME NEW f, Rows(f), Grows(f), NEW t \in DOMAIN f,
               f[t].status = "pending", tasks' = Started(f, t)
        PROVE  Rows(tasks') /\ Grows(tasks')
    BY <1>4, StartedRows
  <1>5. ASSUME NEW t, NEW status \in Terminal, Status(t) = "running",
               tasks' = Ended(t, status)
        PROVE  Rows(tasks') /\ Grows(tasks')
    BY <1>5, EndedRows
  <1>6. CASE Select
    <2>1. CASE ~Exists(Selection) /\ tasks' = Submitted(Selection)
      BY <2>1, <1>3, KeysApart
    <2>2. CASE Status(Selection) = "pending" /\ tasks' = Started(tasks, Selection)
      BY <2>2, <1>0, <1>4 DEF Status, Exists
    <2>3. QED
      BY <1>1, <1>6, <2>1, <2>2 DEF Select
  <1>7. CASE Selected
    BY <1>5, <1>7 DEF Selected, PlaceInv, Terminal
  <1>8. CASE Record
    <2>1. ASSUME NEW t \in Pending, tasks' = Started(tasks, t)
          PROVE  Rows(tasks') /\ Grows(tasks')
      BY <2>1, <1>0, <1>4 DEF Pending, Snapshots, Status, Exists
    <2>2. CASE ~Exists(Wanted) /\ tasks' = Submitted(Wanted)
      <3>1. Wanted \in Keys
        BY <1>8 DEF Record, Wanted, Snapshot, PlaceInv, Preparing, Keys, Shots
      <3>2. QED
        BY <2>2, <3>1, <1>3
    <2>3. QED
      BY <1>1, <1>8, <2>1, <2>2 DEF Record
  <1>9. CASE Recorded
    BY <1>5, <1>9 DEF Recorded, PlaceInv, Terminal
  <1>10. CASE Claim
    BY <1>1, <1>3, <1>10, KeysApart DEF Claim, ExistingClaim, Versions
  <1>11. ASSUME NEW v \in Versions, NEW f, Rows(f), Grows(f), Resume(v) \in DOMAIN f,
                RunOrReport(v, f)
         PROVE  Rows(tasks') /\ Grows(tasks')
    BY <1>4, <1>11 DEF RunOrReport
  <1>12. CASE ExecuteV1
    <2>1. ASSUME NEW exhausted \in Exhaustions, Refused = "none",
                 RunOrReport("v1", Recovered(exhausted))
          PROVE  Rows(tasks') /\ Grows(tasks')
      <3>1. /\ Rows(Recovered(exhausted)) /\ Grows(Recovered(exhausted))
            /\ Resume("v1") \in DOMAIN Recovered(exhausted)
        BY <2>1, RecoveredRows DEF Refused, Exists
      <3>2. QED
        BY <1>11, <2>1, <3>1 DEF Versions
    <2>2. QED
      BY <1>1, <1>12, <2>1 DEF ExecuteV1
  <1>13. CASE ClaimV0
    <2>1. CASE Exists(Resume("v0")) /\ RunOrReport("v0", tasks)
      BY <1>0, <1>11, <2>1 DEF Exists, Versions
    <2>2. CASE ~Exists(Resume("v0")) /\ tasks' = Submitted(Resume("v0"))
      BY <1>3, <2>2, KeysApart DEF Versions
    <2>3. QED
      BY <1>1, <1>13, <2>1, <2>2 DEF ClaimV0
  <1>14. CASE Handle
    <2>1. Status(task) = "running"
      BY <1>14 DEF Handle, PlaceInv, Resuming
    <2>2. QED
      BY <1>1, <1>5, <1>14, <2>1 DEF Handle, End, Terminal, Exhaustions
  <1>15. CASE Answer
    <2>1. Status(task) = "running"
      BY <1>15 DEF Answer, PlaceInv, Resuming
    <2>2. QED
      BY <1>5, <1>15, <2>1 DEF Answer, End, Terminal
  <1>16. ASSUME NEW r \in Requests, Prepare(r) PROVE Rows(tasks') /\ Grows(tasks')
    BY <1>2, <1>16 DEF Prepare
  <1>17. ASSUME NEW r \in Foreign, AbandonSnapshot(r)
         PROVE  Rows(tasks') /\ Grows(tasks')
    BY <1>3, <1>17 DEF AbandonSnapshot, Snapshot, Keys, Shots
  <1>18. CASE ExecuteV0
    BY <1>2, <1>18 DEF ExecuteV0
  <1>19. CASE ServiceStart \/ Worker
    BY <1>2, <1>19 DEF ServiceStart, Worker
  <1>20. QED
    BY <1>1, <1>6, <1>7, <1>8, <1>9, <1>10, <1>12, <1>13, <1>14, <1>15, <1>16,
       <1>17, <1>18, <1>19
    DEF Next, OneShot, vars, storeVars, Reflect, Accept, Revoke, ServiceStop,
        Call, Crash, Tick, StepBack

(* The wake is scheduled once, and what has become of it stands.           *)
WakeStep ==
  \/ wake' = wake
  \/ /\ wake = NoWake /\ wake' \in Wakes /\ wake'.status = "scheduled"
     /\ wake'.due >= now
  \/ /\ wake \in Wakes /\ wake.status = "scheduled"
     /\ \E status \in {"fired", "revoked", "manual_review"} :
          /\ wake' = [wake EXCEPT !.status = status, !.terminal = now]
          /\ status = "fired" => now >= wake.due

LEMMA ReconciledStep ==
  ASSUME TypeInv, wake' = Reconciled PROVE WakeStep
  <1>1. CASE Deadline(wake) = NoTime
    BY <1>1 DEF Reconciled, WakeStep
  <1>2. CASE Deadline(wake) # NoTime
    <2>1. wake \in Wakes /\ wake.status = "scheduled"
      BY <1>2 DEF Deadline, TypeInv
    <2>2. QED
      BY <1>2, <2>1 DEF Reconciled, WakeStep
  <1>3. QED
    BY <1>1, <1>2

LEMMA WakeSteps ==
  ASSUME ResumeInv, [Next]_vars PROVE WakeStep
  <1> USE DEF ResumeInv
  <1>1. CASE UNCHANGED wake
    BY <1>1 DEF WakeStep
  <1>2. ASSUME NEW s \in Sources, Accept(s) PROVE WakeStep
    <2>1. /\ wake = NoWake /\ sources[s] \in Nat /\ now \in Time
          /\ now + sources[s] <= MaxTime
          /\ wake' = [id |-> s, accepted |-> now, due |-> now + sources[s],
                      status |-> "scheduled", terminal |-> NoTime]
      BY <1>2 DEF Accept, Eligible, TypeInv
    <2>2. now + sources[s] \in Time /\ now + sources[s] >= now
      BY <2>1 DEF Time
    <2>3. QED
      BY <2>1, <2>2 DEF WakeStep, Wakes
  <1>3. CASE Revoke
    <2>1. wake \in Wakes /\ wake.status = "scheduled"
      BY <1>3 DEF Revoke, TypeInv
    <2>2. QED
      BY <1>3, <2>1, ReconciledStep DEF Revoke, WakeStep
  <1>4. CASE ServiceStart \/ Worker
    BY <1>4, ReconciledStep DEF ServiceStart, Worker
  <1>5. QED
    BY <1>1, <1>2, <1>3, <1>4
    DEF Next, OneShot, vars, Reflect, ServiceStop, Prepare, Select, Selected,
        Record, Recorded, AbandonSnapshot, Claim, ExecuteV0, ExecuteV1, ClaimV0,
        Handle, Call, Answer, Crash, Tick, StepBack

LEMMA WakeKept ==
  ASSUME ResumeInv, [Next]_vars
  PROVE  /\ wake' \in Wakes \cup {NoWake}
         /\ wake # NoWake => wake' # NoWake
         /\ wake # NoWake /\ wake.status = "fired" => wake' = wake
         /\ wake' # NoWake /\ wake'.status = "fired" => wake'.terminal \in Time
  <1>1. now \in Time /\ wake \in Wakes \cup {NoWake} /\ NoWake \notin Wakes
    BY DEF ResumeInv, TypeInv, Wakes
  <1>2. CASE wake' = wake
    BY <1>1, <1>2 DEF ResumeInv, TypeInv, Time
  <1>3. CASE wake = NoWake /\ wake' \in Wakes /\ wake'.status = "scheduled"
    BY <1>1, <1>3
  <1>4. ASSUME wake \in Wakes, wake.status = "scheduled",
               NEW status \in {"fired", "revoked", "manual_review"},
               wake' = [wake EXCEPT !.status = status, !.terminal = now]
        PROVE  wake' \in Wakes /\ wake'.terminal \in Time
    BY <1>1, <1>4 DEF Wakes
  <1>5. QED
    BY <1>1, <1>2, <1>3, <1>4, WakeSteps DEF WakeStep

-----------------------------------------------------------------------------
(* The invariant.                                                          *)

LEMMA TypeKept ==
  ASSUME ResumeInv, [Next]_vars PROVE TypeInv'
  <1> USE DEF ResumeInv, TypeInv
  <1>1. /\ Rows(tasks') /\ wake' \in Wakes \cup {NoWake}
        /\ wake' # NoWake /\ wake'.status = "fired" => wake'.terminal \in Time
    BY TasksKept, WakeKept
  <1>2. now' \in Time
    BY DEF Next, OneShot, vars, storeVars, Reflect, Accept, Revoke, ServiceStart,
       Worker, ServiceStop, Prepare, Select, Selected, Record, Recorded,
       AbandonSnapshot, Claim, ExecuteV0, ExecuteV1, ClaimV0, Handle, Call,
       Answer, Crash, Tick, StepBack, Time
  <1>3. pc' \in {"idle", "service", "select", "selecting", "record", "recording",
                 "claim", "run_v0", "handle", "call", "answer"}
    BY DEF Next, OneShot, vars, storeVars, processVars, Reflect, Accept, Revoke,
       ServiceStart, Worker, ServiceStop, Prepare, Begin, Quit, Select, Selected,
       Record, Recorded, AbandonSnapshot, Claim, ExecuteV0, ExecuteV1,
       RunOrReport, ClaimV0, Handle, End, Call, Answer, Crash, Tick, StepBack
  <1>4. selected' \in [request : Requests, captured : Time] \cup {NoTask}
    <2>1. CASE Select
      BY <2>1 DEF Select, PlaceInv, Preparing
    <2>2. QED
      BY <2>1
      DEF Next, OneShot, vars, storeVars, Reflect, Accept, Revoke, ServiceStart,
          Worker, ServiceStop, Prepare, Selected, Record, Recorded,
          AbandonSnapshot, Claim, ExecuteV0, ExecuteV1, ClaimV0, Handle, Call,
          Answer, Crash, Tick, StepBack
  <1>5. bound' \in Shots \cup {NoTask}
    <2>1. CASE Claim
      BY <2>1 DEF Claim, PlaceInv
    <2>2. QED
      BY <2>1
      DEF Next, OneShot, vars, storeVars, Reflect, Accept, Revoke, ServiceStart,
          Worker, ServiceStop, Prepare, Select, Selected, Record, Recorded,
          AbandonSnapshot, ExecuteV0, ExecuteV1, ClaimV0, Handle, Call,
          Answer, Crash, Tick, StepBack
  <1>6. /\ actions' \in [Versions -> {"absent", "started", "confirmed",
                                      "manual_review"}]
        /\ permits' \in [Versions -> Time \cup {NoTime}]
        /\ calls' \subseteq Versions \X Nat
    <2>1. CASE Handle
      BY <2>1 DEF Handle
    <2>2. CASE Call
      <3>1. Version \in Versions /\ task \in DOMAIN tasks
        BY <2>2, KeysApart DEF Call, PlaceInv, Resuming, Version, Status, Exists
      <3>2. tasks[task].attempts \in Nat
        BY <3>1 DEF Rows, Row
      <3>3. QED
        BY <2>2, <3>1, <3>2 DEF Call
    <2>3. CASE Answer
      BY <2>3 DEF Answer
    <2>4. CASE UNCHANGED effectVars
      BY <2>4 DEF effectVars
    <2>5. QED
      BY <2>1, <2>2, <2>3, <2>4
      DEF Next, OneShot, vars, Reflect, Accept, Revoke, ServiceStart, Worker,
          ServiceStop, Prepare, Select, Selected, Record, Recorded,
          AbandonSnapshot, Claim, ExecuteV0, ExecuteV1, ClaimV0, Crash, Tick,
          StepBack
  <1>7. QED
    BY <1>1, <1>2, <1>3, <1>4, <1>5, <1>6

(* Which Tasks a step submits: at most one, each kind by its own program.  *)
Adds(t) == DOMAIN tasks' = DOMAIN tasks \cup {t}
DomainStep ==
  \/ DOMAIN tasks' = DOMAIN tasks
  \/ \E t \in Shots : Adds(t)
  \/ Select /\ ~Exists(Selection) /\ Adds(Selection)
  \/ Claim /\ Lineage /\ ~Exists(Resume("v1")) /\ Adds(Resume("v1"))
  \/ ClaimV0 /\ Lineage /\ Adds(Resume("v0"))

LEMMA DomainSteps ==
  ASSUME ResumeInv, [Next]_vars PROVE DomainStep
  <1> USE DEF ResumeInv, TypeInv
  <1>1. CASE UNCHANGED tasks
    BY <1>1 DEF DomainStep
  <1>2. ASSUME NEW t, tasks' = Submitted(t) PROVE Adds(t)
    BY <1>2 DEF Submitted, Adds
  <1>3. ASSUME NEW f, NEW t, tasks' = Started(f, t) PROVE DOMAIN tasks' = DOMAIN f
    BY <1>3 DEF Started
  <1>4. ASSUME NEW t, NEW status, tasks' = Ended(t, status)
        PROVE  DOMAIN tasks' = DOMAIN tasks
    BY <1>4 DEF Ended
  <1>5. ASSUME NEW exhausted PROVE DOMAIN Recovered(exhausted) = DOMAIN tasks
    BY DEF Recovered
  <1>6. CASE Select
    BY <1>2, <1>3, <1>6 DEF Select, DomainStep
  <1>7. CASE Selected \/ Recorded \/ Handle \/ Answer
    BY <1>1, <1>4, <1>7 DEF Selected, Recorded, Handle, Answer, End, DomainStep
  <1>8. CASE Record
    <2>1. CASE Exists(Wanted) \/ tasks' # Submitted(Wanted)
      BY <1>3, <1>8, <2>1 DEF Record, DomainStep
    <2>2. CASE tasks' = Submitted(Wanted)
      <3>1. Wanted \in Shots
        BY <1>8 DEF Record, Wanted, Snapshot, PlaceInv, Preparing, Shots
      <3>2. QED
        BY <1>2, <2>2, <3>1 DEF DomainStep
    <2>3. QED
      BY <2>1, <2>2
  <1>9. CASE Claim
    <2>1. CASE Lineage /\ ExistingClaim(task) = "none" /\ Claimable(task)
      BY <1>2, <1>9, <2>1 DEF Claim, ExistingClaim, DomainStep
    <2>2. QED
      BY <1>1, <1>9, <2>1 DEF Claim
  <1>10. CASE ExecuteV1
    BY <1>3, <1>5, <1>10 DEF ExecuteV1, RunOrReport, DomainStep
  <1>11. CASE ClaimV0
    BY <1>2, <1>3, <1>11 DEF ClaimV0, RunOrReport, DomainStep
  <1>12. ASSUME NEW r \in Requests, Prepare(r) PROVE DomainStep
    BY <1>5, <1>12 DEF Prepare, DomainStep
  <1>13. ASSUME NEW r \in Foreign, AbandonSnapshot(r) PROVE DomainStep
    <2>1. Snapshot(r, now) \in Shots
      BY DEF Snapshot, Shots
    <2>2. QED
      BY <1>2, <1>13, <2>1 DEF AbandonSnapshot, DomainStep
  <1>14. CASE ExecuteV0 \/ ServiceStart \/ Worker
    BY <1>5, <1>14 DEF ExecuteV0, ServiceStart, Worker, DomainStep
  <1>15. QED
    BY <1>1, <1>6, <1>7, <1>8, <1>9, <1>10, <1>11, <1>12, <1>13, <1>14
    DEF Next, OneShot, vars, storeVars, Reflect, Accept, Revoke, ServiceStop,
        Call, Crash, Tick, StepBack

(* The selection is written with its Task, and never again.                *)
LEMMA SelectionKept ==
  ASSUME ResumeInv, [Next]_vars
  PROVE  /\ Exists(Selection)' <=> selected' # NoTask
         /\ Exists(Selection) => selected' = selected
  <1> USE DEF ResumeInv, TypeInv, PlaceInv
  <1>1. CASE Select
    <2>1. CASE Exists(Selection)
      <3>1. selected' = selected /\ Exists(Selection)'
        BY <1>1, <2>1, TasksKept DEF Select, Grows, Exists
      <3>2. QED
        BY <2>1, <3>1
    <2>2. CASE ~Exists(Selection)
      <3>1. /\ selected' = [request |-> request, captured |-> captured]
            /\ tasks' = Submitted(Selection)
        BY <1>1, <2>2 DEF Select
      <3>2. selected' \in [request : Requests, captured : Time]
        BY <1>1, <2>2, <3>1 DEF Select, Preparing
      <3>3. Exists(Selection)'
        BY <3>1 DEF Submitted, Exists
      <3>4. QED
        BY <2>2, <3>2, <3>3
    <2>3. QED
      BY <2>1, <2>2
  <1>2. CASE ~Select
    <2>1. selected' = selected
      BY <1>2
      DEF Next, OneShot, vars, storeVars, Reflect, Accept, Revoke, ServiceStart,
          Worker, ServiceStop, Prepare, Selected, Record, Recorded,
          AbandonSnapshot, Claim, ExecuteV0, ExecuteV1, ClaimV0, Handle, Call,
          Answer, Crash, Tick, StepBack
    <2>2. Exists(Selection)' <=> Exists(Selection)
      BY <1>2, DomainSteps, KeysApart DEF DomainStep, Adds, Exists, Versions
    <2>3. QED
      BY <2>1, <2>2
  <1>3. QED
    BY <1>1, <1>2

LEMMA StatusKept ==
  ASSUME ResumeInv, [Next]_vars
  PROVE  \A t : Status(t) \in Terminal =>
           t \in DOMAIN tasks' /\ tasks'[t].status = Status(t)
  BY TasksKept DEF Grows, Status, Exists, Terminal

LEMMA BoundKept ==
  ASSUME ResumeInv, [Next]_vars PROVE BoundInv'
  <1> USE DEF ResumeInv, TypeInv, BoundInv
  <1>1. wake # NoWake /\ wake.status = "fired" => wake' = wake
    BY WakeKept
  <1>2. CASE ~Claim /\ ~ClaimV0
    <2>1. bound' = bound
      BY <1>2
      DEF Next, OneShot, vars, storeVars, Reflect, Accept, Revoke, ServiceStart,
          Worker, ServiceStop, Prepare, Select, Selected, Record, Recorded,
          AbandonSnapshot, ExecuteV0, ExecuteV1, Handle, Call, Answer, Crash,
          Tick, StepBack
    <2>2. \A v \in Versions : Exists(Resume(v))' <=> Exists(Resume(v))
      BY <1>2, DomainSteps, KeysApart DEF DomainStep, Adds, Exists, Versions
    <2>3. bound # NoTask =>
            /\ selected' = selected
            /\ Status(bound)' = "succeeded" /\ Status(Selection)' = "succeeded"
      BY <2>1, StatusKept, SelectionKept DEF Status, Exists, Terminal
    <2>4. QED
      BY <1>1, <2>1, <2>2, <2>3 DEF Versions
  <1>3. CASE ClaimV0
    <2>1. bound' = bound
      BY <1>3 DEF ClaimV0
    <2>2. Exists(Resume("v1"))' <=> Exists(Resume("v1"))
      BY <1>3, DomainSteps, KeysApart
      DEF DomainStep, Adds, Exists, Versions, Claim, ClaimV0
    <2>3. Exists(Resume("v0"))' =>
            Exists(Resume("v0")) \/ (wake # NoWake /\ wake.status = "fired")
      BY <1>3, DomainSteps, KeysApart
      DEF DomainStep, Adds, Exists, Versions, Claim, ClaimV0, Lineage, PlaceInv
    <2>4. bound # NoTask =>
            /\ selected' = selected
            /\ Status(bound)' = "succeeded" /\ Status(Selection)' = "succeeded"
      BY <2>1, StatusKept, SelectionKept DEF Status, Exists, Terminal
    <2>5. QED
      BY <1>1, <2>1, <2>2, <2>3, <2>4 DEF Versions
  <1>4. CASE Claim
    <2>1. /\ task \in Shots /\ task # NoTask /\ wake # NoWake
          /\ selected # NoTask /\ task.request = selected.request
          /\ Status(task) = "succeeded" /\ Status(Selection) = "succeeded"
      BY <1>4 DEF Claim, PlaceInv, Preparing, Shots
    <2>2. /\ task \in DOMAIN tasks' /\ tasks'[task].status = "succeeded"
          /\ Status(Selection)' = "succeeded"
          /\ selected' = selected
      <3>1. \A t \in {task, Selection} :
              t \in DOMAIN tasks' /\ tasks'[t].status = "succeeded"
        BY <2>1, StatusKept DEF Terminal
      <3>2. QED
        BY <1>4, <3>1 DEF Claim, Status, Exists
    <2>3. CASE Lineage /\ ExistingClaim(task) = "none" /\ Claimable(task)
      <3>1. bound' = task /\ tasks' = Submitted(Resume("v1"))
        BY <1>4, <2>3 DEF Claim
      <3>2. /\ Exists(Resume("v1"))'
            /\ Exists(Resume("v0"))' => Exists(Resume("v0"))
        BY <3>1, KeysApart DEF Submitted, Exists, Versions
      <3>3. wake # NoWake /\ wake.status = "fired"
        BY <2>1, <2>3 DEF Lineage
      <3>4. Status(bound)' = "succeeded"
        BY <2>2, <3>1 DEF Status, Exists
      <3>5. QED
        BY <1>1, <2>1, <2>2, <3>1, <3>2, <3>3, <3>4 DEF Versions
    <2>4. CASE ~(Lineage /\ ExistingClaim(task) = "none" /\ Claimable(task))
      <3>1. bound' = bound /\ tasks' = tasks
        BY <1>4, <2>4 DEF Claim
      <3>2. QED
        BY <1>1, <2>2, <3>1 DEF Exists, Status
    <2>5. QED
      BY <2>3, <2>4
  <1>5. QED
    BY <1>2, <1>3, <1>4

(* Where a step leaves a one-shot, it has what it needs there.             *)
LEMMA PlaceKept ==
  ASSUME ResumeInv, [Next]_vars PROVE PlaceInv'
  <1> USE DEF ResumeInv, TypeInv, PlaceInv
  <1>0. /\ Exists(Selection)' <=> selected' # NoTask
        /\ Exists(Selection) => selected' = selected
        /\ wake # NoWake => wake' # NoWake
    BY SelectionKept, WakeKept
  <1>1. CASE pc' \in {"idle", "service"}
    BY <1>0, <1>1 DEF Preparing, Resuming
  <1>2. CASE UNCHANGED <<tasks, processVars, selected>>
    BY <1>0, <1>2 DEF processVars, Preparing, Resuming, Exists, Status
  <1>3. ASSUME NEW r \in Requests, Prepare(r) PROVE PlaceInv'
    <2>1. /\ pc' = "select" /\ request' = r /\ wake # NoWake
          /\ ~Exists(Selection) => captured' = now
      BY <1>3 DEF Prepare, Begin
    <2>2. Exists(Selection)' => Exists(Selection)
      BY <1>3 DEF Prepare, Recovered, Exists
    <2>3. QED
      BY <1>0, <2>1, <2>2, TasksKept DEF Grows, Exists, Preparing, Resuming
  <1>4. CASE Select
    <2>1. CASE ~Exists(Selection)
      <3>1. /\ pc' = "select" /\ request' = request
            /\ tasks' = Submitted(Selection) /\ wake' = wake
        BY <1>4, <2>1 DEF Select
      <3>2. Exists(Selection)'
        BY <3>1 DEF Submitted, Exists
      <3>3. QED
        BY <1>0, <1>4, <3>1, <3>2 DEF Select, Preparing, Resuming
    <2>2. CASE Status(Selection) = "pending" /\ pc' = "selecting"
      <3>0. Exists(Selection) /\ tasks[Selection].status = "pending"
        BY <2>2 DEF Status
      <3>1. /\ tasks' = Started(tasks, Selection) /\ selected' = selected
            /\ selected.request = request /\ request' = request /\ wake' = wake
            /\ Exists(Selection) /\ tasks[Selection].status = "pending"
        <4>1. pc' # "select" /\ pc' # "idle" /\ pc' # "record"
          BY <2>2
        <4>2. QED
          BY <1>4, <2>2, <3>0, <4>1 DEF Select, Quit
      <3>2. Status(Selection)' = "running"
        BY <3>1, StartedRows DEF Grows, Status, Exists
      <3>3. QED
        BY <1>0, <1>4, <2>2, <3>1, <3>2 DEF Select, Preparing, Resuming, Exists
    <2>3. CASE Status(Selection) = "succeeded" /\ pc' = "record"
      <3>0. Exists(Selection)
        BY <2>3 DEF Status
      <3>1. /\ tasks' = tasks /\ selected' = selected /\ Exists(Selection)
            /\ selected.request = request /\ request' = request /\ wake' = wake
        BY <1>4, <2>3, <3>0 DEF Select, Quit
      <3>2. QED
        BY <1>0, <1>4, <2>3, <3>1 DEF Select, Preparing, Resuming, Exists, Status
    <2>4. QED
      BY <1>1, <1>4, <2>1, <2>2, <2>3 DEF Select, Quit
  <1>5. CASE Selected
    <2>1. Status(Selection)' = "succeeded"
      BY <1>5, EndedRows DEF Selected, Status, Exists, Terminal
    <2>2. QED
      BY <1>0, <1>5, <2>1 DEF Selected, Preparing, Resuming
  <1>6. CASE Record
    <2>1. /\ Status(Selection)' = "succeeded" /\ Exists(Selection)
          /\ selected' = selected
      BY <1>6, StatusKept DEF Record, Status, Exists, Terminal
    <2>2. ASSUME NEW t \in Pending, tasks' = Started(tasks, t),
                 pc' = "recording", task' = t, request' = request
          PROVE  PlaceInv'
      <3>1. t \in Shots /\ t \in DOMAIN tasks /\ tasks[t].status = "pending"
        BY <2>2, KeysApart DEF Pending, Snapshots, Status, Exists, Rows
      <3>2. t \in DOMAIN tasks' /\ tasks'[t].status = "running"
        BY <2>2, <3>1, StartedRows DEF Grows
      <3>3. Status(task)' = "running"
        BY <2>2, <3>2 DEF Status, Exists
      <3>4. QED
        BY <1>0, <1>6, <2>1, <2>2, <3>1, <3>3 DEF Record, Preparing, Resuming
    <2>3. CASE UNCHANGED <<pc, request, captured, task>>
      BY <1>0, <1>6, <2>1, <2>3 DEF Record, Preparing, Resuming
    <2>4. CASE /\ Status(Wanted) = "succeeded" /\ pc' = "claim"
               /\ task' = Wanted /\ UNCHANGED <<tasks, request, captured>>
      <3>1. Wanted \in Shots /\ Wanted.request = request
        BY <1>6 DEF Record, Wanted, Snapshot, Preparing, Shots
      <3>2. Status(task)' = "succeeded"
        BY <2>4 DEF Status, Exists
      <3>3. QED
        BY <1>0, <1>6, <2>1, <2>4, <3>1, <3>2 DEF Record, Preparing, Resuming
    <2>5. QED
      BY <1>1, <1>6, <2>2, <2>3, <2>4 DEF Record, Quit
  <1>7. CASE Recorded
    <2>1. /\ Status(Selection)' = "succeeded" /\ Exists(Selection)
          /\ selected' = selected
      BY <1>7, StatusKept DEF Recorded, Status, Exists, Terminal
    <2>2. task \in DOMAIN tasks' /\ tasks'[task].status = "succeeded"
      BY <1>7, EndedRows DEF Recorded, Terminal
    <2>3. CASE task.request = request
      <3>1. Status(task)' = "succeeded"
        BY <1>7, <2>2, <2>3 DEF Recorded, Status, Exists
      <3>2. QED
        BY <1>0, <1>7, <2>1, <2>3, <3>1 DEF Recorded, Preparing, Resuming
    <2>4. CASE task.request # request
      BY <1>0, <1>7, <2>1, <2>4 DEF Recorded, Preparing, Resuming
    <2>5. QED
      BY <2>3, <2>4
  <1>8. CASE Claim
    BY <1>1, <1>8 DEF Claim, Quit
  <1>9. ASSUME NEW v \in Versions, NEW f, Rows(f), Grows(f),
               Resume(v) \in DOMAIN f, RunOrReport(v, f), pc' = "handle"
        PROVE  PlaceInv'
    <2>1. tasks' = Started(f, Resume(v)) /\ task' = Resume(v)
      BY <1>9 DEF RunOrReport, Quit
    <2>2. Resume(v) \in DOMAIN tasks' /\ tasks'[Resume(v)].status = "running"
      BY <1>9, <2>1, StartedRows DEF RunOrReport, Quit
    <2>3. Status(task)' = "running"
      BY <2>1, <2>2 DEF Status, Exists
    <2>4. QED
      BY <1>0, <1>9, <2>1, <2>3 DEF Preparing, Resuming
  <1>10. CASE ExecuteV1
    <2>1. ASSUME NEW exhausted \in Exhaustions, Refused = "none",
                 RunOrReport("v1", Recovered(exhausted))
          PROVE  PlaceInv'
      <3>1. /\ Rows(Recovered(exhausted)) /\ Grows(Recovered(exhausted))
            /\ Resume("v1") \in DOMAIN Recovered(exhausted)
        BY <2>1, RecoveredRows DEF Refused, Exists
      <3>2. pc' = "handle" \/ pc' = "idle"
        BY <2>1 DEF RunOrReport, Quit
      <3>3. QED
        BY <1>1, <1>9, <2>1, <3>1, <3>2 DEF Versions
    <2>2. QED
      BY <1>1, <1>10, <2>1 DEF ExecuteV1, Quit
  <1>11. CASE ExecuteV0
    BY <1>0, <1>11 DEF ExecuteV0, Begin, Preparing, Resuming
  <1>12. CASE ClaimV0
    <2>1. CASE Exists(Resume("v0")) /\ RunOrReport("v0", tasks)
      <3>1. Rows(tasks) /\ Grows(tasks) /\ Resume("v0") \in DOMAIN tasks
        BY <2>1 DEF Grows, Exists
      <3>2. pc' = "handle" \/ pc' = "idle"
        BY <2>1 DEF RunOrReport, Quit
      <3>3. QED
        BY <1>1, <1>9, <2>1, <3>1, <3>2 DEF Versions
    <2>2. CASE UNCHANGED pc
      BY <1>0, <1>12, <2>2 DEF ClaimV0, Preparing, Resuming
    <2>3. QED
      BY <1>1, <1>12, <2>1, <2>2 DEF ClaimV0, Quit
  <1>13. CASE Handle
    <2>1. CASE pc' = "call"
      <3>1. tasks' = tasks /\ task' = task
        BY <1>13, <2>1 DEF Handle, End, Quit
      <3>2. QED
        BY <1>0, <1>13, <2>1, <3>1 DEF Handle, Preparing, Resuming, Status, Exists
    <2>2. QED
      BY <1>1, <1>13, <2>1 DEF Handle, End, Quit
  <1>14. CASE Call
    BY <1>0, <1>14 DEF Call, storeVars, Preparing, Resuming, Status, Exists
  <1>15. CASE Answer
    BY <1>1, <1>15 DEF Answer, End, Quit
  <1>16. CASE ServiceStart \/ Worker \/ ServiceStop \/ Crash
    BY <1>1, <1>16 DEF ServiceStart, Worker, ServiceStop, Crash, Quit
  <1>17. ASSUME NEW r \in Foreign, AbandonSnapshot(r) PROVE PlaceInv'
    BY <1>1, <1>17 DEF AbandonSnapshot, processVars
  <1>18. ASSUME NEW s \in Sources, Reflect(s) \/ Accept(s) PROVE PlaceInv'
    BY <1>1, <1>18 DEF Reflect, Accept, processVars
  <1>19. CASE Revoke
    BY <1>1, <1>19 DEF Revoke, processVars
  <1>20. QED
    BY <1>2, <1>3, <1>4, <1>5, <1>6, <1>7, <1>8, <1>10, <1>11, <1>12, <1>13,
       <1>14, <1>15, <1>16, <1>17, <1>18, <1>19
    DEF Next, OneShot, vars, storeVars, Tick, StepBack

LEMMA CallsKept ==
  ASSUME ResumeInv, [Next]_vars PROVE CallInv'
  <1> USE DEF ResumeInv, TypeInv, CallInv
  <1>1. CASE Handle
    <2>1. task \in {Resume(v) : v \in Versions}
      BY <1>1 DEF Handle, PlaceInv, Resuming
    <2>2. Version \in Versions
      BY <2>1, KeysApart DEF Version
    <2>3. CASE pc' = "call"
      <3>1. /\ ~HasAction(Version) /\ task' = task
            /\ permits[Version] # NoTime \/ BudgetOpen
            /\ permits' = [permits EXCEPT ![Version] = IF @ = NoTime THEN now ELSE @]
            /\ actions' = actions /\ calls' = calls
        BY <1>1, <2>3 DEF Handle, End, Quit
      <3>2. permits'[Version] # NoTime /\ now \in Nat
        BY <2>2, <3>1 DEF Time
      <3>3. \A v \in Versions : v # Version => permits'[v] = permits[v]
        BY <2>2, <3>1
      <3>4. \A v, w \in Versions :
              v # w /\ permits'[v] # NoTime /\ permits'[w] # NoTime =>
                \/ permits'[v] >= permits'[w] + Cooldown
                \/ permits'[w] >= permits'[v] + Cooldown
        BY <2>2, <3>1 DEF BudgetOpen
      <3>5. actions'[Version] = "absent" /\ Version' = Version
        BY <3>1 DEF HasAction, Version
      <3>6. \A v \in Versions : actions'[v] # "absent" => permits'[v] # NoTime
        BY <3>1, <3>2, <3>3
      <3>7. \A c \in calls' : actions'[c[1]] # "absent"
        BY <3>1
      <3>8. \A c, d \in calls' : c[1] = d[1] => c = d
        BY <3>1
      <3>9. QED
        BY <2>3, <3>2, <3>4, <3>5, <3>6, <3>7, <3>8
    <2>4. CASE pc' # "call"
      <3>1. permits' = permits /\ calls' = calls /\ pc' = "idle"
        BY <1>1, <2>4 DEF Handle, End, Quit
      <3>2. \A v \in Versions : actions[v] = "absent" <=> actions'[v] = "absent"
        BY <1>1, <2>2, <2>4 DEF Handle, HasAction
      <3>3. QED
        BY <2>4, <3>1, <3>2
    <2>5. QED
      BY <2>3, <2>4
  <1>2. CASE Call
    <2>1. Version \in Versions
      BY <1>2, KeysApart DEF Call, PlaceInv, Resuming, Version
    <2>2. /\ actions' = [actions EXCEPT ![Version] = "started"]
          /\ calls' = calls \cup {<<Version, tasks[task].attempts>>}
          /\ permits' = permits /\ pc' = "answer"
          /\ actions[Version] = "absent" /\ permits[Version] # NoTime
      BY <1>2 DEF Call
    <2>3. \A c \in calls : c[1] \in Versions /\ c[1] # Version
      BY <2>2
    <2>4. \A c \in calls' : actions'[c[1]] # "absent"
      BY <2>1, <2>2, <2>3
    <2>5. \A c, d \in calls' : c[1] = d[1] => c = d
      BY <2>2, <2>3
    <2>6. Version' = Version
      BY <1>2 DEF Call, Version
    <2>7. \A v \in Versions : actions'[v] # "absent" => permits'[v] # NoTime
      BY <2>1, <2>2
    <2>8. actions'[Version'] # "absent"
      BY <2>1, <2>2, <2>6
    <2>9. QED
      BY <2>2, <2>4, <2>5, <2>7, <2>8
  <1>3. CASE Answer
    <2>1. /\ UNCHANGED <<permits, calls>> /\ pc' = "idle"
          /\ \E status \in {"confirmed", "manual_review"} :
               actions' = [actions EXCEPT ![Version] = status]
      BY <1>3 DEF Answer, End, Quit
    <2>2. Version \in Versions /\ actions[Version] # "absent"
      BY <1>3, KeysApart DEF Answer, PlaceInv, Resuming, Version
    <2>3. \A v \in Versions : actions'[v] = "absent" <=> actions[v] = "absent"
      BY <2>1, <2>2, <1>3 DEF Answer
    <2>4. \A c \in calls : c[1] \in Versions
      OBVIOUS
    <2>5. QED
      BY <2>1, <2>3, <2>4
  <1>4. CASE UNCHANGED effectVars /\ pc' \notin {"call", "answer"}
    BY <1>4 DEF effectVars
  <1>5. CASE UNCHANGED <<effectVars, processVars>>
    BY <1>5 DEF effectVars, processVars, Version
  <1>6. QED
    BY <1>1, <1>2, <1>3, <1>4, <1>5
    DEF Next, OneShot, vars, storeVars, processVars, Reflect, Accept, Revoke,
        ServiceStart, Worker, ServiceStop, Prepare, Begin, Quit, Select,
        Selected, Record, Recorded, AbandonSnapshot, Claim, ExecuteV0, ExecuteV1,
        RunOrReport, ClaimV0, Crash, Tick, StepBack

LEMMA ResumeKept == ASSUME ResumeInv, [Next]_vars PROVE ResumeInv'
  BY TypeKept, PlaceKept, BoundKept, CallsKept DEF ResumeInv

-----------------------------------------------------------------------------
(* What one-shots have come to, stored and called agrees, always.          *)
THEOREM ResumeInvariant == Spec => []ResumeInv
  BY InitResume, ResumeKept, PTL DEF Spec

(* A call has its permit and its Action, a resume Task calls once, and the *)
(* calls of one wake are a cooldown apart (ResumeAfterWake, the budget's   *)
(* next_new_consumption and ProviderTaskHandler).                          *)
THEOREM ResumeCallsAccounted == Spec => []CallsAccounted
  <1>1. ResumeInv => CallsAccounted
    BY DEF ResumeInv, TypeInv, CallInv, CallsAccounted
  <1>2. QED
    BY ResumeInvariant, <1>1, PTL

(* What is bound is a completed snapshot of the selected request           *)
(* (finish_selection, ResumeAfterWakeV1::claim).                           *)
THEOREM ResumeWhatWasSelected == Spec => []ResumesWhatWasSelected
  <1>1. ResumeInv => ResumesWhatWasSelected
    BY DEF ResumeInv, BoundInv, ResumesWhatWasSelected
  <1>2. QED
    BY ResumeInvariant, <1>1, PTL

-----------------------------------------------------------------------------
(* The promise.  Each of its parts is moved by its own steps.              *)

LEMMA InitResumePromise == Init => Promise!Init
  <1> SUFFICES ASSUME Init PROVE Promise!Init
    OBVIOUS
  <1>1. Called = {}
    BY DEF Init, Called
  <1>2. DOMAIN tasks = {}
    BY DEF Init
  <1>3. Over = {}
    BY <1>2 DEF Over, Status, Exists, Terminal
  <1>4. QED
    BY <1>1, <1>3 DEF Init, Promise!Init

LEMMA WakePromise ==
  ASSUME ResumeInv, [Next]_vars PROVE Promise!WakeMoves
  <1> USE DEF ResumeInv, TypeInv
  <1>0. now \in Nat /\ NoWake \notin Wakes
    BY DEF Time, Wakes
  <1>1. CASE wake' = wake
    BY <1>1 DEF Promise!WakeMoves
  <1>2. CASE /\ wake = NoWake /\ wake' \in Wakes /\ wake'.status = "scheduled"
             /\ wake'.due >= now
    <2>1. wake' # NoWake /\ wake'.due \in Nat
      BY <1>0, <1>2 DEF Wakes, Time
    <2>2. QED
      BY <1>2, <2>1 DEF Promise!WakeMoves, Promise!Schedules
  <1>3. ASSUME wake \in Wakes, wake.status = "scheduled",
               NEW status \in {"fired", "revoked", "manual_review"},
               wake' = [wake EXCEPT !.status = status, !.terminal = now],
               status = "fired" => now >= wake.due
        PROVE  Promise!WakeMoves
    <2>1. /\ wake # NoWake /\ wake.due \in Nat /\ wake.due # NoTime
          /\ wake'.due = wake.due
          /\ wake'.status = status /\ wake'.terminal = now
      BY <1>0, <1>3 DEF Wakes, Time
    <2>2. wake' # NoWake
      BY <1>3, WakeKept, <2>1
    <2>3. QED
      BY <1>3, <2>1, <2>2 DEF Promise!WakeMoves, Promise!Ends
  <1>4. QED
    BY <1>1, <1>2, <1>3, WakeSteps DEF WakeStep

LEMMA ContextPromise ==
  ASSUME ResumeInv, [Next]_vars
  PROVE  bound' = bound \/ Promise!Binds
  <1> USE DEF ResumeInv, TypeInv
  <1>1. CASE ~Claim
    BY <1>1
    DEF Next, OneShot, vars, storeVars, Reflect, Accept, Revoke, ServiceStart,
        Worker, ServiceStop, Prepare, Select, Selected, Record, Recorded,
        AbandonSnapshot, ExecuteV0, ExecuteV1, ClaimV0, Handle, Call, Answer,
        Crash, Tick, StepBack
  <1>2. CASE Claim /\ bound' # bound
    <2>1. /\ Lineage /\ ~Exists(Resume("v1")) /\ Claimable(task) /\ bound' = task
          /\ pc = "claim" /\ wake' = wake
      BY <1>2 DEF Claim, ExistingClaim
    <2>2. wake # NoWake /\ wake.status = "fired" /\ wake.terminal \in Time
      BY <2>1 DEF Lineage, PlaceInv, Preparing
    <2>3. task \in Shots /\ task # NoTask /\ task.captured \in Time
      BY <2>1 DEF PlaceInv, Shots
    <2>4. bound = NoTask
      BY <2>1 DEF BoundInv
    <2>5. task.captured \in wake.terminal .. now /\ now - task.captured <= FreshFor
      BY <2>1, <2>2, <2>3 DEF Claimable, Time
    <2>6. QED
      BY <2>1, <2>2, <2>3, <2>4, <2>5 DEF Promise!Binds, Promise!Fired
  <1>3. QED
    BY <1>1, <1>2

LEMMA CallPromise ==
  ASSUME ResumeInv, [Next]_vars PROVE Promise!CallMoves
  <1> USE DEF ResumeInv, TypeInv
  <1>1. CASE Call
    <2>1. /\ Version \in Versions /\ task = Resume(Version)
          /\ Status(task) = "running"
      BY <1>1, KeysApart DEF Call, PlaceInv, Resuming, Version
    <2>2. Called' = Called \cup {Version}
      <3>1. PICK d : calls' = calls \cup {d} /\ d[1] = Version
        <4>1. /\ calls' = calls \cup {<<Version, tasks[task].attempts>>}
              /\ <<Version, tasks[task].attempts>>[1] = Version
          BY <1>1 DEF Call
        <4>2. QED
          BY <4>1, Zenon
      <3>2. {c[1] : c \in calls'} = {c[1] : c \in calls} \cup {Version}
        BY <3>1, Zenon
      <3>3. QED
        BY <3>2 DEF Called
    <2>3. Version \notin Called
      BY <1>1 DEF Call, CallInv, Called
    <2>4. Version \notin Over
      BY <2>1 DEF Over, Terminal
    <2>5. Exists(Resume(Version))
      BY <2>1 DEF Status
    <2>6. wake # NoWake /\ wake.status = "fired"
      BY <2>1, <2>5 DEF BoundInv
    <2>7. ASSUME Version = "v1" PROVE bound # NoTask /\ bound.captured # NoTime
      BY <2>5, <2>7 DEF BoundInv, Shots, Time
    <2>8. QED
      BY <2>1, <2>2, <2>3, <2>4, <2>6, <2>7
      DEF Promise!CallMoves, Promise!Fired
  <1>2. CASE ~Call
    <2>1. calls' = calls
      BY <1>2
      DEF Next, OneShot, vars, effectVars, Reflect, Accept, Revoke, ServiceStart,
          Worker, ServiceStop, Prepare, Select, Selected, Record, Recorded,
          AbandonSnapshot, Claim, ExecuteV0, ExecuteV1, ClaimV0, Handle, Answer,
          Crash, Tick, StepBack
    <2>2. QED
      BY <2>1 DEF Promise!CallMoves, Called
  <1>3. QED
    BY <1>1, <1>2

LEMMA OverPromise ==
  ASSUME ResumeInv, [Next]_vars PROVE Promise!OverMoves
  <1>1. Over' \subseteq Versions
    BY DEF Over
  <1>2. ASSUME NEW v \in Over PROVE v \in Over'
    <2>1. v \in Versions /\ Status(Resume(v)) \in Terminal
      BY DEF Over
    <2>2. Resume(v)' = Resume(v)
      BY DEF Resume
    <2>3. Status(Resume(v))' \in Terminal
      BY <2>1, <2>2, StatusKept DEF Status, Exists
    <2>4. QED
      BY <2>1, <2>3 DEF Over
  <1>3. QED
    BY <1>1, <1>2 DEF Promise!OverMoves

(* However the service, prepare, execute and the v0 resume are run, cut    *)
(* off and run again, a wake fires once it is due, its resume gets one     *)
(* context of after the firing and fresh, and is called once at most       *)
(* (WakeIntentRuntime, ResumeAfterWake, ResumeAfterWakeV1).                *)
THEOREM ResumePromiseKept == Spec => ImplementsPromise
  <1>1. ResumeInv /\ [Next]_vars => [Promise!Next]_Promise!vars
    <2> SUFFICES ASSUME ResumeInv, [Next]_vars PROVE Promise!Next
      OBVIOUS
    <2>1. now' \in Nat
      BY TypeKept DEF TypeInv, Time
    <2>2. QED
      BY <2>1, WakePromise, ContextPromise, CallPromise, OverPromise
      DEF Promise!Next
  <1>2. QED
    BY <1>1, InitResumePromise, ResumeInvariant, PTL
    DEF Spec, ImplementsPromise, Promise!Spec

-----------------------------------------------------------------------------
(* A running service waits for exactly the scheduled wake's deadline: an   *)
(* acceptance and a reconciliation arm it, and only they schedule a wake.  *)
ArmedInv ==
  pc = "service" /\ wake # NoWake /\ wake.status = "scheduled" =>
    armed = wake.due

LEMMA ArmedKept ==
  ASSUME ResumeInv, ArmedInv, [Next]_vars PROVE ArmedInv'
  <1>1. CASE ServiceStart \/ Worker
    <2>1. armed' = Deadline(wake')
      BY <1>1 DEF ServiceStart, Worker
    <2>2. QED
      BY <2>1 DEF Deadline, ArmedInv
  <1>2. ASSUME NEW s \in Sources, Accept(s) PROVE ArmedInv'
    <2>1. armed' = Deadline(wake')
      BY <1>2 DEF Accept
    <2>2. QED
      BY <2>1 DEF Deadline, ArmedInv
  <1>3. CASE Revoke
    <2>1. wake # NoWake /\ wake.status = "scheduled" /\ wake \in Wakes
      BY <1>3 DEF Revoke, ResumeInv, TypeInv
    <2>2. wake' # NoWake => wake'.status # "scheduled"
      <3>1. CASE Reconciled # wake
        BY <1>3, <2>1, <3>1 DEF Revoke, Reconciled, Wakes
      <3>2. CASE Reconciled = wake
        BY <1>3, <2>1, <3>2 DEF Revoke, Wakes
      <3>3. QED
        BY <3>1, <3>2
    <2>3. QED
      BY <2>2 DEF ArmedInv
  <1>4. CASE UNCHANGED <<wake, armed, pc>>
    BY <1>4 DEF ArmedInv
  <1>5. CASE pc' # "service"
    BY <1>5 DEF ArmedInv
  <1>6. QED
    BY <1>1, <1>2, <1>3, <1>4, <1>5
    DEF Next, OneShot, vars, processVars, Reflect, ServiceStop, Prepare, Begin,
        Quit, Select, Selected, Record, Recorded, AbandonSnapshot, Claim,
        ExecuteV0, ExecuteV1, RunOrReport, ClaimV0, Handle, End, Call, Answer,
        Crash, Tick, StepBack

(* The status report of a running service never finds a scheduled wake     *)
(* that nobody waits for (ExplicitWake::inspect_status).                   *)
THEOREM WakeCovered == Spec => []ScheduledIsCovered
  <1>1. Init => ArmedInv
    BY DEF Init, ArmedInv
  <1>2. ResumeInv /\ ArmedInv => ScheduledIsCovered
    <2> SUFFICES ASSUME ResumeInv, ArmedInv, pc = "service"
                 PROVE  Health # "scheduling_divergence"
      BY DEF ScheduledIsCovered
    <2>1. CASE wake # NoWake /\ wake.status = "scheduled"
      <3>1. armed = wake.due /\ wake.due \in Nat
        BY <2>1 DEF ArmedInv, ResumeInv, TypeInv, Wakes, Time
      <3>2. armed # NoTime /\ ~(armed > wake.due)
        BY <3>1
      <3>3. QED
        BY <2>1, <3>2 DEF Health
    <2>2. CASE wake # NoWake /\ wake.status # "scheduled"
      <3>1. wake.status \in {"fired", "revoked", "manual_review"}
        BY <2>2 DEF ResumeInv, TypeInv, Wakes
      <3>2. QED
        BY <2>2, <3>1 DEF Health
    <2>3. CASE wake = NoWake
      BY <2>3 DEF Health
    <2>4. QED
      BY <2>1, <2>2, <2>3
  <1>3. QED
    BY <1>1, <1>2, ArmedKept, ResumeInvariant, PTL DEF Spec
=============================================================================
