------------------------ MODULE MCDialogueResponder ------------------------
(* Instances of the dialogue responder for TLC.                            *)
EXTENDS DialogueResponderProperties, TLC

(* No property tells one lease from another, or one observer from another. *)
LeaseSymmetry    == Permutations(Leases)
ObserverSymmetry == Permutations(Observers)
ProcessSymmetry == LeaseSymmetry \cup ObserverSymmetry
=============================================================================
