------------------------ MODULE ChatControlProperties -----------------------
(* What is checked of the chat client and the thread it talks to.          *)
EXTENDS ChatControl

(* ImplementsPromise: the thread only grows, by a turn that succeeds the   *)
(* head's canonical success, never twice by one request whatever was       *)
(* retried, lost or executed late; the user gets one last word about each  *)
(* request.  "succeeded" and "terminal" name the end of the very turn that *)
(* is on the thread, "timeout" (is durably submitted, do not resubmit) is  *)
(* never said of a turn that is not on it, and "conflict" (enter /retry to *)
(* submit against the new revision) never of the thread's head nor of a    *)
(* request that a late call still puts on it.  What the client's text says *)
(* besides, that the message was not committed (chat_main.cpp:178-180), is *)
(* not part of it: see ChatPromise.                                        *)
ThreadTurns == {Last(Legacy)} \cup RequestIds \cup Others

Promise == INSTANCE ChatPromise WITH
  Turns <- ThreadTurns, Requests <- RequestIds, Bound <- Last(Legacy),
  thread <- journal, verdict <- told,
  outcome <- [t \in ThreadTurns |->
    IF taskStore[t].status \in {"succeeded", "failed"}
      THEN taskStore[t].status ELSE "open"]
ImplementsPromise == Promise!Spec

(* ToldBeforeSecondTurn: a message is on the thread twice only if the user *)
(* was told of a conflict for the first of the two turns, and that conflict*)
(* was real, another turn stood behind the first already: no exact retry,  *)
(* no call that was executed after its client gave up, and no restart      *)
(* doubles a message by itself.                                            *)
ToldBeforeSecondTurn ==
  \A j, k \in DOMAIN journal :
    (/\ j < k /\ {journal[j], journal[k]} \subseteq RequestIds
     /\ taskStore[journal[j]].text = taskStore[journal[k]].text)
      => told[journal[j]] = "conflict" /\ k > j + 1

(* BranchAccounted: a turn of the chat that is durable beside the thread   *)
(* and not on it, which runs and answers nobody, is the work of a crash or *)
(* of a store that failed between the Task and the head, or it lost the    *)
(* compare-and-swap to another submitter, whose turn now stands where it   *)
(* would have stood; never of a retry, a call executed late or a second    *)
(* request of the chat.                                                    *)
InProgress(r) == step = "replace" /\ Head(backlog).attempt.request = r

BranchAccounted ==
  \A r \in RequestIds :
    (Stored(r) /\ r \notin Range(journal) /\ ~InProgress(r))
      => \/ failures > 0
         \/ \E o \in Others \cap Range(journal) :
              taskStore[o].pred = taskStore[r].pred

(* MessagesAccounted: a message that is doubled, or durable and lost to    *)
(* the thread, has a cause, and the user was told, a store failed or       *)
(* another submitter was faster.                                           *)
MessagesAccounted == ChatTypeOK /\ ToldBeforeSecondTurn /\ BranchAccounted

(* Before(t): what the conversation was when t was submitted.              *)
Before(t) ==
  LET k == CHOOSE k \in DOMAIN journal : journal[k] = taskStore[t].pred
  IN Front(Legacy) \o SubSeq(journal, 1, k)

(* The elements of w, each at its place in s, in the order of s.           *)
Subsequence(w, s) ==
  \E at \in [DOMAIN w -> DOMAIN s] :
    /\ \A i \in DOMAIN w : w[i] = s[at[i]]
    /\ \A i, j \in DOMAIN w : i < j => at[i] < at[j]

(* ContextIsConversation: the lineage a Task is answered from, which the   *)
(* handler finds by walking Task by Task through the Task store, is the    *)
(* conversation the thread store recorded up to its predecessor: the walk  *)
(* always resolves below its depth bound, for a branch as for a turn of    *)
(* the thread, and the prompt's turns are turns of it, in its order and    *)
(* within the window.                                                      *)
ContextIsConversation ==
  \A t \in RequestIds \cup Others :
    (Stored(t) /\ taskStore[t].turn <= MaxLineage) =>
      /\ taskStore[t].turn = Len(Before(t))
      /\ Resolves(t)
      /\ Len(Window(t)) <= MaxHistoryTurns
      /\ Subsequence(Window(t), Before(t))

(* TurnsEnd: whatever the service does, also when it is held by another    *)
(* client, busy or gone, the user gets the prompt back.                    *)
TurnsEnd == phase # "prompt" ~> phase = "prompt"
=============================================================================
