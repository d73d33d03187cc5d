---------------------------- MODULE MCGooseCycle ----------------------------
(* The instance of the Local Goose cycle for TLC.                          *)
EXTENDS GooseCycleProperties

(* No property tells one model from another, so it does not matter which   *)
(* is configured first.                                                    *)
FirstModel == CHOOSE m \in Models : TRUE
FirstInit  == model = FirstModel /\ Init

FirstModelSpec == FirstInit /\ [][Next]_vars /\ Fairness
=============================================================================
