---------------------------- MODULE GoosePromise ----------------------------
(***************************************************************************)
(* What the self-scheduling cognition loop promises, without Tasks, stores,*)
(* clocks or crashes: one generation at a time, completed only by its own  *)
(* successful answer; asleep it stays asleep until somebody stimulates it, *)
(* and each stimulus wakes it at most once; halted it stays halted.        *)
(***************************************************************************)
EXTENDS Naturals

CONSTANT Sources

VARIABLES
  mode,       \* "seeded", "due", "asleep" or "halted"
  completed,  \* the generations completed
  answered,   \* the generation that is due has its successful answer
  spent       \* the stimuli that have woken the loop

promiseVars == <<mode, completed, answered, spent>>

Init ==
  /\ mode = "seeded" /\ completed = 0
  /\ answered = FALSE /\ spent = {}

Activate ==
  /\ mode = "seeded" /\ mode' = "due"
  /\ UNCHANGED <<completed, answered, spent>>

Answer ==
  /\ mode = "due" /\ ~answered /\ answered' = TRUE
  /\ UNCHANGED <<mode, completed, spent>>

(* The answer decides whether there is a next generation.                  *)
Complete ==
  /\ mode = "due" /\ answered
  /\ completed' = completed + 1 /\ answered' = FALSE
  /\ mode' \in {"due", "asleep"}
  /\ UNCHANGED spent

Wake(s) ==
  /\ mode = "asleep" /\ s \notin spent
  /\ mode' = "due" /\ spent' = spent \cup {s}
  /\ UNCHANGED <<completed, answered>>

Halt ==
  /\ mode = "due" /\ mode' = "halted"
  /\ UNCHANGED <<completed, answered, spent>>

Next ==
  \/ Activate \/ Answer \/ Complete \/ Halt
  \/ \E s \in Sources : Wake(s)

Promise == Init /\ [][Next]_promiseVars
=============================================================================
