---------------------------- MODULE ChatControl -----------------------------
(***************************************************************************)
(* gaudere-chat, the live-control socket it talks through, and the part of *)
(* the service that puts its turns on the preferred dialogue thread.       *)
(*                                                                         *)
(* The client is synchronous: one call at a time, each given up after its  *)
(* I/O bound.  The server accepts one connection at a time, in order, and  *)
(* does not notice that a client gave up: an abandoned call is still       *)
(* executed when its turn comes.  It waits without a bound for a connected *)
(* client to send, and the worker runs a Task for minutes, so no step of   *)
(* the service is fair.  The worker makes a Task durable in one store and  *)
(* moves the head of the thread in another, by compare-and-swap.  Another  *)
(* submitter, as the authority one-shot in its own process, does the same  *)
(* with turns of its own, and its steps fall between the worker's two.     *)
(*                                                                         *)
(* A turn on the thread is answered from its lineage: the handler walks    *)
(* the predecessors down to the declared root, through V3 turns and then   *)
(* the V2 turns the thread was bound to, and prompts with a bounded window *)
(* of them.  A request id stands for the nonce, counter and digest it is   *)
(* made of; a size stands for the bytes of a formatted turn.               *)
(***************************************************************************)
EXTENDS Naturals, Sequences, FiniteSets, SequencesExt

CONSTANTS
  Messages,         \* lines the user types, each once
  RequestIds,       \* request ids the sessions may create
  Others,           \* turns of other submitters
  Legacy,           \* V2 turns, from the root; the thread is bound to the last
  NoTurn, NoText, NoReply,
  Sizes,            \* sizes a formatted turn may have
  MaxHistoryTurns, MaxHistoryBytes,  \* the window of a prompt
  MaxLineage,       \* max_lineage_depth
  MaxBacklog,       \* connections the listening socket holds
  MaxFailures       \* bound: crashes, refusals and unavailable stores

LegacyTasks == {Legacy[k] : k \in DOMAIN Legacy}
TaskIds     == LegacyTasks \cup RequestIds \cup Others

ASSUME ChatAssumption ==
  /\ Legacy \in Seq(LegacyTasks) /\ Legacy # <<>> /\ IsInjective(Legacy)
  /\ LegacyTasks \cap (RequestIds \cup Others) = {}
  /\ RequestIds \cap Others = {}
  /\ Sizes \subseteq Nat /\ 1 \in Sizes
  /\ NoTurn \notin TaskIds /\ NoText \notin Messages
  /\ {MaxHistoryTurns, MaxHistoryBytes, MaxLineage, MaxFailures} \subseteq Nat
  /\ MaxBacklog \in Nat \ {0}

VARIABLES
  taskStore, \* Task store: status and canonical input of each Task
  journal,   \* thread store: the head of each revision, from 0
  backlog,   \* connections of the chat client, the first one being served
  step,      \* worker: "idle", or "replace" inside a preferred submission
  phase, draft, \* chat: the call it waits for, and its message
  attempt,   \* chat: the submission, kept while its outcome is ambiguous
  ambiguous, \* chat: ambiguous_attempt_ is set
  retained,  \* chat: conflict_message
  result,    \* chat: what the call returned
  late,      \* chat: the bounded wait for the Task is over
  typed,     \* messages typed so far
  told,      \* what the user was last told of each request
  failures

storeVars   == <<taskStore, journal>>
serviceVars == <<taskStore, journal, step>>
chatVars    == <<phase, draft, attempt, ambiguous, retained, late, typed,
                 told>>
allVars == <<taskStore, journal, backlog, step, phase, draft, attempt,
             ambiguous, retained, result, late, typed, told, failures>>

Status  == {"absent", "queued", "succeeded", "failed"}
Verdict == {"none", "succeeded", "conflict", "transport_ambiguous", "timeout",
            "terminal_failure", "invalid_reply"}

Dialogue == [status : Status, pred : TaskIds \cup {NoTurn}, turn : Nat,
             text : Messages \cup {NoText}, size : Sizes]
Attempt  == [request : RequestIds \cup {NoTurn}, text : Messages \cup {NoText},
             rev : Nat, head : TaskIds \cup {NoTurn}]
NoAttempt == [request |-> NoTurn, text |-> NoText, rev |-> 0, head |-> NoTurn]

Command == [op : {"head", "submit", "task"}, attempt : Attempt, live : BOOLEAN]

(* validate_command: each operation has the fields it needs and no others. *)
Valid(c) ==
  CASE c.op = "head" -> c.attempt = NoAttempt
    [] c.op = "task" -> c.attempt.request # NoTurn
    [] c.op = "submit" -> c.attempt.request # NoTurn /\ c.attempt.text # NoText

(* code: 0 done, 1 failed or no answer, 4 rejected.                        *)
Reply == [code : {0, 1, 4}, rev : Nat, task : TaskIds \cup {NoTurn}]
Failed == [code |-> 1, rev |-> 0, task |-> NoTurn]

ChatTypeOK ==
  /\ taskStore \in [TaskIds -> Dialogue]
  /\ journal \in Seq(TaskIds)
  /\ backlog \in Seq(Command) /\ Len(backlog) <= MaxBacklog
  /\ \A n \in DOMAIN backlog : Valid(backlog[n])
  /\ step \in {"idle", "replace"}
  /\ phase \in {"prompt", "inspect", "submit", "refresh", "poll"}
  /\ draft \in Messages \cup {NoText} /\ retained \in Messages \cup {NoText}
  /\ attempt \in Attempt
  /\ ambiguous \in BOOLEAN /\ late \in BOOLEAN
  /\ result \in Reply \cup {NoReply}
  /\ typed \subseteq Messages
  /\ told \in [RequestIds -> Verdict]
  /\ failures \in 0 .. MaxFailures

(* A V2 turn: a root, or the successor of the turn before it.              *)
LegacyTurn(k, size) ==
  [status |-> "succeeded", turn |-> k - 1, text |-> NoText, size |-> size,
   pred |-> IF k = 1 THEN NoTurn ELSE Legacy[k - 1]]

(* The thread was bound to a V2 turn that ended in a canonical success.    *)
ChatInit ==
  /\ taskStore \in {[t \in TaskIds |->
       IF t \in LegacyTasks
         THEN LegacyTurn(CHOOSE k \in DOMAIN Legacy : Legacy[k] = t, sizes[t])
         ELSE [status |-> "absent", turn |-> 0, text |-> NoText,
               pred |-> NoTurn, size |-> 1]]
       : sizes \in [LegacyTasks -> Sizes]}
  /\ journal = <<Last(Legacy)>>
  /\ backlog = <<>> /\ step = "idle"
  /\ phase = "prompt" /\ draft = NoText /\ attempt = NoAttempt
  /\ ambiguous = FALSE /\ retained = NoText /\ result = NoReply /\ late = FALSE
  /\ typed = {} /\ told = [r \in RequestIds |-> "none"]
  /\ failures = 0

-----------------------------------------------------------------------------
(* Dialogue turns and their lineage.                                       *)

Revision      == Len(journal) - 1
PreferredHead == Last(journal)
Stored(t)    == taskStore[t].status # "absent"

CanonicalLegacy(t) == t \in LegacyTasks /\ taskStore[t].status = "succeeded"
CanonicalTurn(t)   == t \notin LegacyTasks /\ taskStore[t].status = "succeeded"

(* canonical_dialogue_root: a successor can be built on t.                 *)
Rooted(t) == CanonicalLegacy(t) \/ CanonicalTurn(t)

NextTurn_BridgeIsFirst(p) ==  \* mutant
  IF p \in LegacyTasks THEN 1 ELSE taskStore[p].turn + 1
(* A successor of a V3 turn, and the bridge from a V2 turn alike.          *)
NextTurn(p) == taskStore[p].turn + 1

Successor(p, text) == [status |-> "queued", pred |-> p, turn |-> NextTurn(p),
                       text |-> text, size |-> 1]

(* What the canonical input of a Task says, whatever became of the Task.   *)
Input(t) == <<taskStore[t].pred, taskStore[t].turn, taskStore[t].text>>

SameDefinition(t, d) == Input(t) = <<d.pred, d.turn, d.text>>

(* Predecessors of t from t itself, n steps back; NoTask past the root.    *)
Ancestor(t) ==
  LET up[n \in 0 .. taskStore[t].turn] ==
        IF n = 0 THEN t
        ELSE IF up[n - 1] = NoTurn THEN NoTurn ELSE taskStore[up[n - 1]].pred
  IN up

Linked(child, p) ==
  p # NoTurn /\ Rooted(p) /\ taskStore[child].turn = NextTurn(p)

(* The walk of the handler, a link at a time: from turn to turn of V3 and  *)
(* over the bridge; then from turn to turn of V2, which must end at the    *)
(* declared root when the turn index is used up.                           *)
LegacyResolves(up, last) ==
  /\ \A n \in 1 .. last :
       up[n - 1] \in LegacyTasks =>
         Linked(up[n - 1], up[n]) /\ CanonicalLegacy(up[n])
  /\ up[last] = Legacy[1]

Resolves(t) ==
  LET up == Ancestor(t)
      last == taskStore[t].turn
  IN /\ last <= MaxLineage
     /\ \A n \in 1 .. last :
          up[n - 1] \notin LegacyTasks => Linked(up[n - 1], up[n])
     /\ LegacyResolves(up, last)

(* Newest first: a turn that does not fit is passed over and the walk goes *)
(* on, so that an older and smaller one may still be taken.                *)
Window(t) ==
  LET up == Ancestor(t)
      take[n \in 0 .. taskStore[t].turn] ==
        IF n = 0 THEN [turns |-> <<>>, bytes |-> 0]
        ELSE LET w == take[n - 1]
                 fits == /\ Len(w.turns) < MaxHistoryTurns
                         /\ w.bytes + taskStore[up[n]].size <= MaxHistoryBytes
             IN IF fits THEN [turns |-> <<up[n]>> \o w.turns,
                              bytes |-> w.bytes + taskStore[up[n]].size]
                ELSE w
  IN take[taskStore[t].turn].turns

-----------------------------------------------------------------------------
(* The socket.                                                             *)

Awaited == backlog # <<>> /\ Last(backlog).live

(* A full backlog keeps the client in connect until its bound is over.     *)
Call(op, a) ==
  IF Len(backlog) < MaxBacklog
    THEN /\ backlog' = Append(backlog,
                              [op |-> op, attempt |-> a, live |-> TRUE])
         /\ result' = NoReply
    ELSE result' = Failed /\ UNCHANGED backlog

AnswerCall(r) ==
  /\ backlog' = Tail(backlog)
  /\ result' = IF Head(backlog).live THEN r ELSE result

(* The I/O bound: the client closes, what it sent stays in the backlog.    *)
TimesOut ==
  /\ Awaited
  /\ backlog' = [backlog EXCEPT ![Len(backlog)].live = FALSE]
  /\ result' = Failed
  /\ UNCHANGED <<serviceVars, chatVars, failures>>

(* Nobody listens: the request was never delivered.                        *)
Refused ==
  /\ Awaited /\ failures < MaxFailures
  /\ step = "replace" => Len(backlog) > 1
  /\ backlog' = Front(backlog)
  /\ result' = Failed
  /\ failures' = failures + 1
  /\ UNCHANGED <<serviceVars, chatVars>>

(* The process stops or dies, and is started again.                        *)
ServiceDies ==
  /\ failures < MaxFailures
  /\ backlog' = <<>>
  /\ result' = IF Awaited THEN Failed ELSE result
  /\ step' = "idle"
  /\ failures' = failures + 1
  /\ UNCHANGED <<storeVars, chatVars>>

-----------------------------------------------------------------------------
(* The worker.                                                             *)

Serving(op) ==
  /\ backlog # <<>> /\ Head(backlog).op = op
  /\ step = "idle"

InspectHead ==
  /\ Serving("head")
  /\ AnswerCall([code |-> 0, rev |-> Revision, task |-> PreferredHead])
  /\ UNCHANGED <<serviceVars, chatVars, failures>>

InspectTask ==
  /\ Serving("task")
  /\ AnswerCall([code |-> 0, rev |-> 0,
                 task |-> Head(backlog).attempt.request])
  /\ UNCHANGED <<serviceVars, chatVars, failures>>

SameRequest_AnyTurn(t, a, predecessor) == TRUE  \* mutant
SameRequest(t, a, predecessor) ==
  /\ t = a.request /\ Stored(t)
  /\ taskStore[t].text = a.text
  /\ taskStore[t].pred = predecessor

(* The head is not at the expected revision.  One further, it may be this  *)
(* very turn, or this turn may be a branch beside it.                      *)
SubmitMoved ==
  LET a == Head(backlog).attempt
      near == Revision = a.rev + 1
      accepted == near /\ SameRequest(PreferredHead, a, journal[a.rev + 1])
      branch == near /\ SameRequest(a.request, a, journal[a.rev + 1])
  IN /\ Serving("submit")
     /\ Revision # a.rev
     /\ AnswerCall([code |-> IF accepted THEN 0 ELSE 4, rev |-> Revision,
                task |-> IF accepted THEN PreferredHead
                         ELSE IF branch THEN a.request ELSE NoTurn])
     /\ UNCHANGED <<serviceVars, chatVars, failures>>

SubmitRejected ==
  LET a == Head(backlog).attempt
      d == Successor(PreferredHead, a.text)
  IN /\ Serving("submit")
     /\ Revision = a.rev
     /\ \/ ~Rooted(PreferredHead)
        \/ Stored(a.request) /\ ~SameDefinition(a.request, d)
     /\ AnswerCall([code |-> 4, rev |-> Revision,
                task |-> IF Rooted(PreferredHead) THEN a.request ELSE NoTurn])
     /\ UNCHANGED <<serviceVars, chatVars, failures>>

(* Runtime::submit: a request id that is known keeps its Task.             *)
SubmitTask ==
  LET a == Head(backlog).attempt
      d == Successor(PreferredHead, a.text)
  IN /\ Serving("submit")
     /\ Revision = a.rev
     /\ Rooted(PreferredHead)
     /\ Stored(a.request) => SameDefinition(a.request, d)
     /\ taskStore' = IF Stored(a.request) THEN taskStore
                 ELSE [taskStore EXCEPT ![a.request] = d]
     /\ step' = "replace"
     /\ UNCHANGED <<journal, backlog, chatVars, result, failures>>

ReplaceHead ==
  LET a == Head(backlog).attempt IN
  /\ step = "replace"
  /\ Revision = a.rev
  /\ journal' = Append(journal, a.request)
  /\ AnswerCall([code |-> 0, rev |-> Len(journal), task |-> a.request])
  /\ step' = "idle"
  /\ UNCHANGED <<taskStore, chatVars, failures>>

(* Another submitter moved the head since it was read: the Task stays, a   *)
(* branch beside the thread.                                               *)
ReplaceConflicts ==
  LET a == Head(backlog).attempt IN
  /\ step = "replace"
  /\ Revision # a.rev
  /\ AnswerCall([code |-> 4, rev |-> Revision, task |-> a.request])
  /\ step' = "idle"
  /\ UNCHANGED <<storeVars, chatVars, failures>>

(* The thread store is unavailable (4) or throws (1): the Task stays.      *)
ReplaceFails ==
  /\ step = "replace" /\ failures < MaxFailures
  /\ \E code \in {1, 4} :
       AnswerCall([code |-> code, rev |-> Revision,
               task |-> Head(backlog).attempt.request])
  /\ step' = "idle"
  /\ failures' = failures + 1
  /\ UNCHANGED <<storeVars, chatVars>>

(* Another submitter: its Task on the head it read, and, if that is still  *)
(* the head, its turn on the thread; or never, when it fails in between.   *)
OtherTask(o) ==
  /\ ~Stored(o)
  /\ Rooted(PreferredHead)
  /\ taskStore' = [taskStore EXCEPT ![o] = Successor(PreferredHead, NoText)]
  /\ UNCHANGED <<journal, backlog, step, chatVars, result, failures>>

OtherHead(o) ==
  /\ Stored(o)
  /\ taskStore[o].pred = PreferredHead
  /\ journal' = Append(journal, o)
  /\ UNCHANGED <<taskStore, backlog, step, chatVars, result, failures>>

Responded(t, size) ==
  [taskStore EXCEPT ![t].status = "succeeded", ![t].size = size]

(* The handler fails a Task whose lineage does not resolve; inference may  *)
(* fail any other.                                                         *)
RunTask(t) ==
  /\ step = "idle"
  /\ taskStore[t].status = "queued"
  /\ \/ /\ Resolves(t)
        /\ \E size \in Sizes : taskStore' = Responded(t, size)
     \/ taskStore' = [taskStore EXCEPT ![t].status = "failed"]
  /\ UNCHANGED <<journal, backlog, step, chatVars, result, failures>>

-----------------------------------------------------------------------------
(* The chat client.                                                        *)

Tell(verdict) == told' = [told EXCEPT ![attempt.request] = verdict]

SendLine(m) ==
  /\ phase = "prompt" /\ ~ambiguous
  /\ m \notin typed
  /\ typed' = typed \cup {m}
  /\ draft' = m /\ retained' = NoText
  /\ phase' = "inspect" /\ Call("head", NoAttempt)
  /\ UNCHANGED <<serviceVars, attempt, ambiguous, late, told, failures>>

FreshRequests == {r \in RequestIds : told[r] = "none"}
(* The session's nonce and its counter; which one it is makes no difference.*)
NewRequest    == CHOOSE r \in FreshRequests : TRUE

RetryAmbiguous_NewRequest ==  \* mutant
  /\ phase = "prompt" /\ ambiguous
  /\ ambiguous' = FALSE
  /\ phase' = "inspect" /\ Call("head", NoAttempt)
  /\ UNCHANGED <<serviceVars, draft, attempt, retained, late, typed, told,
                 failures>>
(* /retry of an ambiguous attempt: the same request, the same revision.    *)
RetryAmbiguous ==
  /\ phase = "prompt" /\ ambiguous
  /\ phase' = "submit" /\ Call("submit", attempt)
  /\ UNCHANGED <<serviceVars, draft, attempt, ambiguous, retained, late, typed,
                 told, failures>>

(* /retry after a conflict: the same message, as a new turn.               *)
RetryConflict ==
  /\ phase = "prompt" /\ ~ambiguous /\ retained # NoText
  /\ draft' = retained /\ retained' = NoText
  /\ phase' = "inspect" /\ Call("head", NoAttempt)
  /\ UNCHANGED <<serviceVars, attempt, ambiguous, late, typed, told, failures>>

(* The session ends and another one starts, with another nonce.            *)
Quit ==
  /\ phase = "prompt"
  /\ ambiguous \/ retained # NoText
  /\ ambiguous' = FALSE /\ retained' = NoText
  /\ UNCHANGED <<serviceVars, backlog, phase, draft, attempt, result, late,
                 typed, told, failures>>

Returned(where) == phase = where /\ result # NoReply

Inspected ==
  /\ Returned("inspect")
  /\ \/ /\ result.code = 0 /\ FreshRequests # {}
        /\ attempt' = [request |-> NewRequest, text |-> draft,
                       rev |-> result.rev, head |-> result.task]
        /\ Call("submit", attempt')
        /\ phase' = "submit"
     \/ /\ result.code # 0 \/ FreshRequests = {}
        /\ phase' = "prompt" /\ result' = NoReply
        /\ UNCHANGED <<attempt, backlog>>
  /\ UNCHANGED <<serviceVars, draft, ambiguous, retained, late, typed, told,
                 failures>>

(* submit_attempt: only code 1 keeps the attempt.                          *)
SubmitAnswered ==
  /\ Returned("submit")
  /\ ambiguous' = (result.code = 1)
  /\ \/ /\ result.code = 1
        /\ Tell("transport_ambiguous")
        /\ phase' = "prompt" /\ result' = NoReply
        /\ UNCHANGED <<backlog, late>>
     \/ /\ result.code = 4
        /\ Tell("conflict")
        /\ phase' = "refresh" /\ Call("head", NoAttempt) /\ UNCHANGED late
     \/ /\ result.code = 0 /\ result.rev = attempt.rev + 1
        /\ phase' = "poll" /\ late' = FALSE
        /\ Call("task", [attempt EXCEPT !.request = result.task])
        /\ UNCHANGED told
     \/ /\ result.code = 0 /\ result.rev # attempt.rev + 1
        /\ Tell("invalid_reply")
        /\ phase' = "prompt" /\ result' = NoReply
        /\ UNCHANGED <<backlog, late>>
  /\ UNCHANGED <<serviceVars, draft, attempt, retained, typed, failures>>

(* The fresh revision is shown if it was learnt; the message is kept.      *)
Refreshed ==
  /\ Returned("refresh")
  /\ retained' = draft
  /\ phase' = "prompt" /\ result' = NoReply
  /\ UNCHANGED <<serviceVars, backlog, draft, attempt, ambiguous, late, typed,
                 told, failures>>

(* canonical_response: it answers this request, on this predecessor.       *)
Response(t) == t = attempt.request /\ taskStore[t].pred = attempt.head

Deadline_Ignored == FALSE  \* mutant
Deadline == late
(* wait_for_task.  A call that fails ends the wait as its deadline does.   *)
Observed ==
  LET status == IF result.code = 0 THEN taskStore[result.task].status
                ELSE "none"
      Ends(verdict) == /\ Tell(verdict)
                       /\ phase' = "prompt" /\ result' = NoReply
                       /\ retained' = IF verdict = "succeeded" THEN NoText
                                      ELSE retained
                       /\ UNCHANGED backlog
  IN /\ Returned("poll")
     /\ \/ result.code = 1 /\ Ends("timeout")
        \/ /\ status = "succeeded"
           /\ Ends(IF Response(result.task) THEN "succeeded"
                   ELSE "invalid_reply")
        \/ status = "failed" /\ Ends("terminal_failure")
        \/ status = "queued" /\ Deadline /\ Ends("timeout")
        \/ /\ status = "queued" /\ ~Deadline
           /\ Call("task", [attempt EXCEPT !.request = result.task])
           /\ UNCHANGED <<phase, told, retained>>
     /\ UNCHANGED <<serviceVars, draft, attempt, ambiguous, late, typed,
                    failures>>

DeadlinePasses ==
  /\ phase = "poll" /\ ~late
  /\ late' = TRUE
  /\ UNCHANGED <<serviceVars, backlog, phase, draft, attempt, ambiguous,
                 retained, result, typed, told, failures>>

-----------------------------------------------------------------------------
ServiceWorker ==
  \/ InspectHead \/ InspectTask
  \/ SubmitMoved \/ SubmitRejected \/ SubmitTask
  \/ ReplaceHead \/ ReplaceConflicts \/ ReplaceFails
  \/ \E t \in TaskIds : RunTask(t)

OtherSubmitter == \E o \in Others : OtherTask(o) \/ OtherHead(o)

Socket == TimesOut \/ Refused \/ ServiceDies

User == \/ \E m \in Messages : SendLine(m)
        \/ RetryAmbiguous \/ RetryConflict \/ Quit

Chat == Inspected \/ SubmitAnswered \/ Refreshed \/ Observed

ChatNext == \/ ServiceWorker \/ OtherSubmitter \/ Socket
            \/ User \/ Chat \/ DeadlinePasses

(* The client's own steps and timers; nothing is asked of the service.     *)
Fairness ==
  WF_allVars(Chat) /\ WF_allVars(TimesOut) /\ WF_allVars(DeadlinePasses)

ChatSpec == ChatInit /\ [][ChatNext]_allVars /\ Fairness
=============================================================================
