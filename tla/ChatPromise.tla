---------------------------- MODULE ChatPromise -----------------------------
(***************************************************************************)
(* What a conversation through gaudere-chat promises: a thread that only   *)
(* grows, by one turn at a time and never by the same request twice, and a *)
(* user who is told one last word about a request, of which this is so:    *)
(*   succeeded, terminal_failure: that request's turn is on the thread and *)
(*     ended that way;                                                     *)
(*   timeout: its turn is on the thread, however its Task ends;            *)
(*   conflict: its turn is not the thread's head, and it will not be put   *)
(*     there any more.  It may be on the thread all the same, with later   *)
(*     turns behind it: the client says "was not committed to the          *)
(*     preferred thread" of such a turn too.  That sentence is not         *)
(*     promised, because it is not kept.                                   *)
(* Before that the user may be told any number of times that nothing is    *)
(* known (transport_ambiguous).                                            *)
(***************************************************************************)
EXTENDS Sequences, Naturals

CONSTANTS Turns, Requests, Bound  \* Bound: the turn the thread starts from

VARIABLES
  thread,   \* the turns on the thread
  outcome,  \* how the Task of each turn ended, or "open"
  verdict   \* what the user was last told of each request

vars == <<thread, outcome, verdict>>

Init == /\ thread = <<Bound>>
        /\ outcome = [t \in Turns |-> IF t = Bound THEN "succeeded" ELSE "open"]
        /\ verdict = [r \in Requests |-> "none"]

OnThread(t) == \E k \in DOMAIN thread : thread[k] = t

(* A turn is put on the thread after a turn that succeeded, and never once *)
(* the user was told of a conflict for it.                                 *)
Advance(t) ==
  /\ ~OnThread(t)
  /\ t \in Requests => verdict[t] # "conflict"
  /\ outcome[thread[Len(thread)]] = "succeeded"
  /\ thread' = Append(thread, t)
  /\ UNCHANGED <<outcome, verdict>>

End(t) ==
  /\ outcome[t] = "open"
  /\ \E how \in {"succeeded", "failed"} : outcome' = [outcome EXCEPT ![t] = how]
  /\ UNCHANGED <<thread, verdict>>

Learnt(r, what) ==
  \/ what = "transport_ambiguous"
  \/ what = "conflict" /\ thread[Len(thread)] # r
  \/ what = "timeout" /\ OnThread(r)
  \/ what = "succeeded" /\ OnThread(r) /\ outcome[r] = "succeeded"
  \/ what = "terminal_failure" /\ OnThread(r) /\ outcome[r] = "failed"

Tell(r) ==
  /\ verdict[r] \in {"none", "transport_ambiguous"}
  /\ \E what \in {"transport_ambiguous", "conflict", "timeout", "succeeded",
                  "terminal_failure"} :
       Learnt(r, what) /\ verdict' = [verdict EXCEPT ![r] = what]
  /\ UNCHANGED <<thread, outcome>>

Next == \/ \E t \in Turns : Advance(t) \/ End(t)
        \/ \E r \in Requests : Tell(r)

Spec == Init /\ [][Next]_vars
=============================================================================
