--------------------- MODULE ResponderAuthorityProperties ---------------------
(***************************************************************************)
(* What must hold of decision authority.                                   *)
(***************************************************************************)
EXTENDS ResponderAuthority

(* The windows of one chain nest.  A lease lives inside its grant, a       *)
(* decision is made and an intent created while the lease may speak, the   *)
(* intent ends no later than the lease, a bound intent is no older than    *)
(* its decision, and a counted turn was counted at a time inside lease and *)
(* intent, although four programs read the clock for themselves, each may  *)
(* stop before it uses what it read, and the clock may be set back.        *)
WindowsNest ==
  \A n \in Seqs :
    LET g == decisions[n].grant IN
    /\ decisions[n].state # "none" =>
         /\ Activated(g) /\ LeaseWithinGrant(g)
         /\ leases[g].issued <= decisions[n].created
         /\ decisions[n].created < leases[g].expires
    /\ intents[n].state # "none" =>
         /\ leases[g].issued <= intents[n].created
         /\ intents[n].created < intents[n].expires
         /\ intents[n].expires <= leases[g].expires
    /\ decisions[n].bound => decisions[n].created <= intents[n].created
    /\ intents[n].state \in {"submitted", "completed"} =>
         /\ leases[g].issued <= intents[n].committed
         /\ intents[n].committed < intents[n].expires

(* The records of the four stores are well-formed, alone and as a chain.   *)
ChainSound == TypeOK /\ WindowsNest

(* Recovery hides no turn: an event whose decision was closed as           *)
(* bound_intent_expired_before_dispatch, or that was entered as a retry    *)
(* lineage, has no responder Task, nor ever gets one; and an audit of the  *)
(* lineage conflicts only because the event is no longer the one held or   *)
(* the clock was set back, never because a record of the chain changed.    *)
RecoveryHidesNoTurn ==
  \A n \in Seqs :
    /\ decisions[n].state = "expired" \/ n \in lineages =>
         n \notin tasks /\ intents[n].state = "expired"
    /\ Inspection(n) = "conflict" =>
         ~ExactEvidence(n) \/ now < GrantEnd(decisions[n].grant)

(* The stores implement the promise: a grant's decisions, the durable      *)
(* Tasks and the lineages, read together, only ever take its steps.        *)
Promise == INSTANCE AuthorityPromise WITH
  Events <- Seqs,
  payer <- [n \in Seqs |-> decisions[n].grant],
  answered <- tasks, retried <- lineages
ImplementsPromise == Promise!Spec
=============================================================================
