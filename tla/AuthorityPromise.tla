-------------------------- MODULE AuthorityPromise --------------------------
(***************************************************************************)
(* What decision authority promises, without stores, programs or clocks:   *)
(* an event is decided once and for one grant; only a decided event is     *)
(* answered, at most MaxTurns of them for one grant; an answered event     *)
(* never becomes the subject of a retry, nor a retried event of an answer. *)
(***************************************************************************)
EXTENDS Naturals, FiniteSets

CONSTANTS Events, Grants, NoGrant, MaxTurns

VARIABLES
  payer,     \* the grant an event was decided under
  answered,  \* events whose answering turn exists
  retried    \* events handed on as a retry

promiseVars == <<payer, answered, retried>>

Init ==
  /\ payer = [n \in Events |-> NoGrant]
  /\ answered = {} /\ retried = {}

Decide(n, g) ==
  /\ payer[n] = NoGrant
  /\ payer' = [payer EXCEPT ![n] = g]
  /\ UNCHANGED <<answered, retried>>

Spent(g) == Cardinality({n \in answered : payer[n] = g})

Answer(n) ==
  /\ payer[n] # NoGrant
  /\ n \notin answered \cup retried
  /\ Spent(payer[n]) < MaxTurns
  /\ answered' = answered \cup {n}
  /\ UNCHANGED <<payer, retried>>

Retry(n) ==
  /\ payer[n] # NoGrant
  /\ n \notin answered
  /\ retried' = retried \cup {n}
  /\ UNCHANGED <<payer, answered>>

Next ==
  \E n \in Events :
    \/ \E g \in Grants : Decide(n, g)
    \/ Answer(n) \/ Retry(n)

Spec == Init /\ [][Next]_promiseVars
=============================================================================
