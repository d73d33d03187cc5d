-------------------------- MODULE ResponderPromise --------------------------
(***************************************************************************)
(* What the Local Goose dialogue responder promises its operators, without *)
(* Tasks, stores, cursors of other consumers, crashes or processes: every  *)
(* turn of the preferred thread is an event, events are passed in order,   *)
(* each is decided once, and only an event decided as an intervention gets *)
(* a system turn, directly behind it and before the event is passed.       *)
(***************************************************************************)
EXTENDS Naturals, Sequences

CONSTANTS Leases, Requests, SystemRequests, Root, OperatorSeqs, MaxRevision

Seqs    == 1 .. (MaxRevision + 1)
Answers == [lease : Leases, seq : Seqs]

VARIABLES
  thread,    \* the turns, oldest first; turn n is event n
  decision,  \* what was decided of each event
  passed     \* the last event the consumer is done with

promiseVars == <<thread, decision, passed>>

Human(n) == thread[n] \notin Answers \cup SystemRequests
Newest(n) == n = Len(thread)
Pending(n) == n = passed + 1 /\ n <= Len(thread)

Init ==
  /\ thread = <<>>
  /\ decision = [n \in Seqs |-> "none"]
  /\ passed = 0

Open ==
  /\ thread = <<>>
  /\ thread' = <<Root>>
  /\ UNCHANGED <<decision, passed>>

(* Anyone may take a turn, once.                                           *)
Post(r) ==
  /\ thread # <<>>
  /\ \A n \in 1 .. Len(thread) : thread[n] # r
  /\ thread' = Append(thread, r)
  /\ UNCHANGED <<decision, passed>>

(* A skip or a decline is taken on evidence that may be older than the     *)
(* decision: the newest turn may no longer be the newest, and an operator  *)
(* may have passed the event.  An intervention is decided on what holds.   *)
Decidable(n, kind) ==
  \/ kind = "structural_skip_system" /\ ~Human(n)
  \/ kind = "structural_skip_stale" /\ Human(n) /\ ~Newest(n)
  \/ kind = "explicit_decline" /\ Human(n)
  \/ kind = "intervention" /\ Pending(n) /\ Human(n) /\ Newest(n)

Decide(n, kind) ==
  /\ Pending(n) \/ (n <= passed /\ n \in OperatorSeqs)
  /\ decision[n] = "none"
  /\ Decidable(n, kind)
  /\ decision' = [decision EXCEPT ![n] = kind]
  /\ UNCHANGED <<thread, passed>>

Answer(a) ==
  /\ Pending(a.seq) /\ Newest(a.seq)
  /\ decision[a.seq] = "intervention"
  /\ thread' = Append(thread, a)
  /\ UNCHANGED <<decision, passed>>

Answered(n) == ~Newest(n) /\ thread[n + 1] \in Answers /\ thread[n + 1].seq = n

Pass(n) ==
  /\ Pending(n)
  /\ \/ n \in OperatorSeqs
     \/ decision[n] \notin {"none", "intervention"}
     \/ decision[n] = "intervention" /\ Answered(n)
  /\ passed' = n
  /\ UNCHANGED <<thread, decision>>

Next ==
  \/ Open
  \/ \E r \in Requests : Post(r)
  \/ \E n \in Seqs :
       \/ Pass(n)
       \/ \E kind \in {"structural_skip_system", "structural_skip_stale",
                       "explicit_decline", "intervention"} : Decide(n, kind)
  \/ \E a \in Answers : Answer(a)

Spec == Init /\ [][Next]_promiseVars
=============================================================================
