------------------------- MODULE LiveControlProofs --------------------------
(***************************************************************************)
(* The two ends of the live-control socket.                                *)
(*                                                                         *)
(* The chat client and the thread it talks to: type correctness, that every*)
(* doubled or lost message is accounted for, that a Task is answered from  *)
(* the conversation it was submitted on, and the refinement of ChatPromise,*)
(* for any number of messages, requests, other submitters, V2 turns,       *)
(* connections and failures.                                               *)
(*                                                                         *)
(* The service process: type correctness, that no Task is executed again   *)
(* without a fault, that no wake-up is lost and that a failing exit needs a*)
(* fault, for any number of Tasks, attempts and faults.                    *)
(***************************************************************************)
EXTENDS ChatControlProperties, WorkServiceProperties, SequenceTheorems,
        WellFoundedInduction, TLAPS

-----------------------------------------------------------------------------
(* The chat client.                                                        *)

(* One call is waited for at a time: the newest connection, the one whose  *)
(* answer the chat's phase is about.                                       *)
SocketInv ==
  /\ \A n \in DOMAIN backlog : backlog[n].live => n = Len(backlog)
  /\ Awaited =>
       LET c == Last(backlog) IN
       /\ result = NoReply /\ phase # "prompt"
       /\ phase \in {"inspect", "refresh"} => c.op = "head"
       /\ phase = "submit" => c.op = "submit" /\ c.attempt = attempt
       /\ phase = "poll" =>
            c.op = "task" /\ c.attempt.request = attempt.request

(* The thread: each turn durable, there once, the successor of the last.   *)
ThreadInv ==
  /\ journal # <<>> /\ journal[1] = Last(Legacy)
  /\ \A k \in DOMAIN journal : Stored(journal[k])
  /\ \A k \in DOMAIN journal :
       k > 1 => /\ journal[k] \in RequestIds \cup Others
                /\ taskStore[journal[k]].pred = journal[k - 1]
  /\ \A j, k \in DOMAIN journal : journal[j] = journal[k] => j = k
  /\ \A t \in LegacyTasks : taskStore[t].status = "succeeded"

(* The chat has an attempt: made on a head of the thread, and the user has *)
(* not yet had the last word about it, or has just been told of a conflict.*)
Outstanding == phase \in {"submit", "poll"} \/ ambiguous

TryInv ==
  /\ Outstanding \/ phase = "refresh" =>
       /\ attempt.request \in RequestIds /\ attempt.text = draft
       /\ draft \in Messages
       /\ attempt.rev + 1 \in DOMAIN journal
       /\ attempt.head = journal[attempt.rev + 1]
  /\ phase = "inspect" => draft \in Messages
  /\ Outstanding => told[attempt.request] \in {"none", "transport_ambiguous"}
  /\ phase = "refresh" => told[attempt.request] = "conflict"
  /\ ambiguous => phase \in {"prompt", "submit"}
  /\ retained # NoText => phase = "prompt" /\ ~ambiguous

(* What the chat was answered is so.                                       *)
OnThread(t) == \E k \in DOMAIN journal : journal[k] = t
Landed == OnThread(attempt.request)
            /\ taskStore[attempt.request].pred = attempt.head

Truthful(r) ==
  r # NoReply /\ r.code = 0 =>
    /\ phase = "inspect" => r.rev + 1 \in DOMAIN journal
                            /\ r.task = journal[r.rev + 1]
    /\ phase = "submit" => r.rev = attempt.rev + 1
                           /\ r.task = attempt.request /\ Landed
    /\ phase = "poll" => r.task = attempt.request

ReplyInv == (phase = "poll" => Landed) /\ Truthful(result)

(* Between the Task and the head only another submitter moves the head.    *)
ReplaceInv ==
  step = "replace" =>
    /\ backlog # <<>> /\ Head(backlog).op = "submit"
    /\ LET a == Head(backlog).attempt IN
       /\ Stored(a.request) /\ ~OnThread(a.request)
       /\ taskStore[a.request].text = a.text
       /\ a.rev + 1 \in DOMAIN journal
       /\ taskStore[a.request].pred = journal[a.rev + 1]
       /\ a.rev + 2 \in DOMAIN journal => journal[a.rev + 2] \in Others

(* A request that made, or may still make, a Task of the message.          *)
Used(r, m) ==
  \/ taskStore[r].text = m
  \/ \E n \in DOMAIN backlog :
       /\ backlog[n].op = "submit" /\ backlog[n].attempt.request = r
       /\ backlog[n].attempt.text = m

(* A message that a new request may still be created for.                  *)
Reopenable(m) ==
  (phase \in {"inspect", "refresh"} /\ draft = m) \/ retained = m

MessageInv ==
  \A m \in Messages :
    /\ (phase # "prompt" \/ ambiguous) /\ draft = m => m \in typed
    /\ retained = m => m \in typed
    /\ \A r \in RequestIds :
         Used(r, m) =>
           /\ m \in typed
           /\ Reopenable(m) => told[r] = "conflict"
           /\ Outstanding /\ draft = m /\ r # attempt.request
                => told[r] = "conflict"
           /\ \A q \in RequestIds : Used(q, m) /\ q # r
                => "conflict" \in {told[r], told[q]}

(* Outrun(r): the turn of another submitter stands where r would stand.    *)
Outrun(r) ==
  \E o \in Others : OnThread(o) /\ taskStore[o].pred = taskStore[r].pred

BranchInv ==
  \A r \in RequestIds :
    Stored(r) /\ ~OnThread(r) /\ ~InProgress(r) => failures > 0 \/ Outrun(r)

ChatInv == /\ ChatTypeOK /\ SocketInv /\ ThreadInv /\ TryInv /\ ReplyInv
           /\ ReplaceInv /\ MessageInv /\ BranchInv

(* What is still to be executed, and what was answered: every submission in*)
(* the backlog is the attempt the chat has, or had last, and none is there *)
(* any more when an answer was received.                                   *)
CallsInv ==
  /\ \A n \in DOMAIN backlog : backlog[n].op = "submit" =>
       backlog[n].attempt = attempt /\ told[attempt.request] # "conflict"
  /\ result # NoReply /\ result.code # 1 => backlog = <<>>

(* The last attempt: its Task, if there is one, is the one it asked for;   *)
(* a request that the user heard nothing about has no other Task.          *)
MadeInv ==
  /\ attempt.request \in RequestIds =>
       /\ attempt.rev + 1 \in DOMAIN journal
       /\ attempt.head = journal[attempt.rev + 1]
       /\ Stored(attempt.request) =>
            /\ taskStore[attempt.request].text = attempt.text
            /\ taskStore[attempt.request].pred = attempt.head
       /\ phase \notin {"submit", "poll"} => told[attempt.request] # "none"
  /\ \A r \in RequestIds :
       Stored(r) /\ told[r] = "none" => r = attempt.request

(* A conflict is never told of the head, and never undone.                 *)
ConflictInv ==
  /\ \A r \in RequestIds : told[r] = "conflict" => PreferredHead # r
  /\ phase = "submit" /\ result # NoReply /\ result.code = 4
       => PreferredHead # attempt.request

LastWordInv == CallsInv /\ MadeInv /\ ConflictInv /\ ToldBeforeSecondTurn

-----------------------------------------------------------------------------
(* What a call, its answer and its loss do to the backlog.                 *)

Commanded(c) == c \in Command /\ Valid(c)

LEMMA BacklogType ==
  ASSUME ChatTypeOK, SocketInv
  PROVE  /\ Len(backlog) \in Nat /\ DOMAIN backlog = 1 .. Len(backlog)
         /\ \A n \in DOMAIN backlog : Commanded(backlog[n])
         /\ backlog # <<>> => /\ Len(backlog) > 0
                              /\ Head(backlog) = backlog[1]
                              /\ Last(backlog) = backlog[Len(backlog)]
                              /\ Commanded(Head(backlog))
         /\ backlog # <<>> /\ Head(backlog).live
              => Len(backlog) = 1 /\ Awaited /\ Last(backlog) = Head(backlog)
<1>1. backlog \in Seq(Command)
  BY DEF ChatTypeOK
<1>2. Len(backlog) \in Nat /\ DOMAIN backlog = 1 .. Len(backlog)
  BY <1>1, LenProperties
<1>3. \A n \in DOMAIN backlog : Commanded(backlog[n])
  BY <1>1, <1>2, ElementOfSeq DEF ChatTypeOK, Commanded
<1>4. ASSUME backlog # <<>>
      PROVE  /\ Len(backlog) > 0 /\ Head(backlog) = backlog[1]
             /\ Last(backlog) = backlog[Len(backlog)]
             /\ Commanded(Head(backlog))
  <2>1. Len(backlog) > 0
    BY <1>1, <1>4, EmptySeq
  <2> QED
    BY <1>1, <1>2, <1>3, <2>1 DEF Last
<1>5. ASSUME backlog # <<>>, Head(backlog).live
      PROVE  Len(backlog) = 1 /\ Awaited /\ Last(backlog) = Head(backlog)
  BY <1>2, <1>4, <1>5 DEF SocketInv, Awaited
<1> QED
  BY <1>2, <1>3, <1>4, <1>5

LEMMA BoundsNatural ==
  /\ MaxBacklog \in Nat /\ MaxBacklog > 0 /\ MaxFailures \in Nat
  /\ MaxHistoryTurns \in Nat /\ MaxHistoryBytes \in Nat /\ MaxLineage \in Nat
  BY ChatAssumption

(* The newest connection is the chat's.                                    *)
LEMMA CallMoves ==
  ASSUME ChatTypeOK, SocketInv, ~Awaited,
         NEW op \in {"head", "submit", "task"}, NEW a \in Attempt,
         op = "head" => a = NoAttempt,
         op # "head" => a.request # NoTurn,
         op = "submit" => a.text # NoText,
         Call(op, a)
  PROVE  /\ backlog' \in Seq(Command) /\ Len(backlog') <= MaxBacklog
         /\ \A n \in DOMAIN backlog' : Valid(backlog'[n])
         /\ \A n \in DOMAIN backlog' : backlog'[n].live => n = Len(backlog')
         /\ Awaited' => /\ result' = NoReply
                        /\ Last(backlog)'.op = op /\ Last(backlog)'.attempt = a
         /\ result' \in {NoReply, Failed}
         /\ \A n \in DOMAIN backlog' :
              \/ n \in DOMAIN backlog /\ backlog'[n] = backlog[n]
              \/ backlog'[n].op = op /\ backlog'[n].attempt = a
         /\ backlog # <<>> => backlog' # <<>> /\ Head(backlog') = Head(backlog)
<1> DEFINE c == [op |-> op, attempt |-> a, live |-> TRUE]
<1>1. backlog \in Seq(Command) /\ Len(backlog) <= MaxBacklog
  BY DEF ChatTypeOK
<1>2. Len(backlog) \in Nat /\ DOMAIN backlog = 1 .. Len(backlog)
  BY BacklogType
<1>3. \A n \in DOMAIN backlog : ~backlog[n].live
  BY <1>1, <1>2 DEF SocketInv, Awaited, Last
<1>4. CASE ~(Len(backlog) < MaxBacklog)
  <2>1. backlog' = backlog /\ result' = Failed
    BY <1>4 DEF Call
  <2>2. ~Awaited'
    BY <2>1 DEF Awaited, Last
  <2> QED
    BY <1>1, <1>2, <1>3, <2>1, <2>2 DEF ChatTypeOK
<1>5. CASE Len(backlog) < MaxBacklog
  <2>1. backlog' = Append(backlog, c) /\ result' = NoReply
    BY <1>5 DEF Call
  <2>2. c \in Command /\ Valid(c)
    BY DEF Command, Valid
  <2> HIDE DEF c
  <2>3. /\ backlog' \in Seq(Command) /\ backlog' # <<>>
        /\ Len(backlog') = Len(backlog) + 1
        /\ \A n \in 1 .. Len(backlog) : backlog'[n] = backlog[n]
        /\ backlog'[Len(backlog) + 1] = c
    BY <1>1, <2>1, <2>2, AppendProperties
  <2>4. DOMAIN backlog' = 1 .. Len(backlog) + 1
    BY <2>3, LenProperties
  <2>5. c.op = op /\ c.attempt = a
    BY DEF c
  <2>6. Len(backlog') <= MaxBacklog
    BY <1>2, <1>5, <2>3, ChatAssumption
  <2>7. \A n \in DOMAIN backlog' : Valid(backlog'[n])
    BY <1>2, <2>2, <2>3, <2>4 DEF ChatTypeOK
  <2>8. \A n \in DOMAIN backlog' : backlog'[n].live => n = Len(backlog')
    BY <1>2, <1>3, <2>3, <2>4
  <2>9. Last(backlog)' = c
    BY <1>2, <2>3 DEF Last
  <2>10. \A n \in DOMAIN backlog' :
           \/ n \in DOMAIN backlog /\ backlog'[n] = backlog[n]
           \/ backlog'[n].op = op /\ backlog'[n].attempt = a
    BY <1>2, <2>3, <2>4, <2>5
  <2>11. ASSUME backlog # <<>>
         PROVE  Head(backlog') = Head(backlog)
    <3>1. Len(backlog) > 0 /\ Head(backlog) = backlog[1]
      BY <2>11, BacklogType
    <3> QED
      BY <1>2, <2>3, <3>1
  <2> QED
    BY <2>1, <2>3, <2>5, <2>6, <2>7, <2>8, <2>9, <2>10, <2>11
<1> QED
  BY <1>4, <1>5

(* An answer serves the oldest connection.                                 *)
LEMMA AnswerMoves ==
  ASSUME ChatTypeOK, SocketInv, backlog # <<>>, NEW r \in Reply, AnswerCall(r)
  PROVE  /\ backlog' \in Seq(Command) /\ Len(backlog') <= MaxBacklog
         /\ \A n \in DOMAIN backlog' : Valid(backlog'[n])
         /\ \A n \in DOMAIN backlog' : backlog'[n].live => n = Len(backlog')
         /\ Awaited' => /\ Awaited /\ result' = result
                        /\ Last(backlog)' = Last(backlog)
         /\ \A n \in DOMAIN backlog' :
              n + 1 \in DOMAIN backlog /\ backlog'[n] = backlog[n + 1]
         /\ \/ ~Head(backlog).live /\ result' = result
            \/ /\ Head(backlog).live /\ result' = r
               /\ Awaited /\ Last(backlog) = Head(backlog)
<1>1. backlog \in Seq(Command) /\ Len(backlog) <= MaxBacklog
      /\ backlog' = Tail(backlog)
  BY DEF ChatTypeOK, AnswerCall
<1>2. /\ Len(backlog) \in Nat /\ DOMAIN backlog = 1 .. Len(backlog)
      /\ Len(backlog) > 0
      /\ Head(backlog) = backlog[1]
      /\ Last(backlog) = backlog[Len(backlog)]
  BY BacklogType
<1>3. /\ backlog' \in Seq(Command) /\ Len(backlog') = Len(backlog) - 1
      /\ \A n \in 1 .. Len(backlog') : backlog'[n] = backlog[n + 1]
  BY <1>1, HeadTailProperties
<1>4. DOMAIN backlog' = 1 .. Len(backlog) - 1
  BY <1>3, LenProperties
<1>5. \A n \in DOMAIN backlog' :
        n + 1 \in DOMAIN backlog /\ backlog'[n] = backlog[n + 1]
  BY <1>2, <1>3, <1>4
<1>6. \A n \in DOMAIN backlog' : Valid(backlog'[n])
  BY <1>5 DEF ChatTypeOK
<1>7. \A n \in DOMAIN backlog' : backlog'[n].live => n = Len(backlog')
  BY <1>2, <1>3, <1>4, <1>5 DEF SocketInv
<1>8. ASSUME backlog' # <<>>
      PROVE  Last(backlog)' = Last(backlog) /\ ~Head(backlog).live
  <2>1. Len(backlog') > 0
    BY <1>3, <1>8, EmptySeq
  <2>2. Len(backlog') \in DOMAIN backlog' /\ Len(backlog') + 1 = Len(backlog)
    BY <1>2, <1>3, <1>4, <2>1
  <2>3. Last(backlog)' = Last(backlog)
    BY <1>2, <1>5, <2>2 DEF Last
  <2>4. ~Head(backlog).live
    BY <1>2, <1>3, <2>1 DEF SocketInv
  <2> QED
    BY <2>3, <2>4
<1>9. Awaited' => Awaited /\ result' = result /\ Last(backlog)' = Last(backlog)
  BY <1>8 DEF Awaited, AnswerCall
<1>10. \/ ~Head(backlog).live /\ result' = result
       \/ /\ Head(backlog).live /\ result' = r
          /\ Awaited /\ Last(backlog) = Head(backlog)
  BY BacklogType DEF AnswerCall
<1>11. Len(backlog') <= MaxBacklog
  BY <1>1, <1>2, <1>3, ChatAssumption
<1> QED
  BY <1>3, <1>5, <1>6, <1>7, <1>9, <1>10, <1>11

(* A client or a service that is gone leaves no call waited for.           *)
Dropped ==
  /\ backlog' \in Seq(Command) /\ Len(backlog') <= MaxBacklog
  /\ \A n \in DOMAIN backlog' : Valid(backlog'[n])
  /\ \A n \in DOMAIN backlog' : ~backlog'[n].live
  /\ \A n \in DOMAIN backlog' :
       /\ n \in DOMAIN backlog
       /\ backlog'[n].op = backlog[n].op
       /\ backlog'[n].attempt = backlog[n].attempt
  /\ result' \in {result, Failed}
  /\ UNCHANGED <<storeVars, chatVars>>

LEMMA TimesOutDrops ==
  ASSUME ChatTypeOK, SocketInv, TimesOut
  PROVE  Dropped /\ backlog # <<>> /\ Len(backlog') = Len(backlog)
<1> PICK last : last = Len(backlog)
  OBVIOUS
<1>1. /\ backlog \in Seq(Command) /\ Len(backlog) <= MaxBacklog
      /\ backlog # <<>>
      /\ backlog' =
           [backlog EXCEPT ![last] = [backlog[last] EXCEPT !.live = FALSE]]
  BY DEF ChatTypeOK, TimesOut, Awaited
<1>2. /\ Len(backlog) \in Nat /\ DOMAIN backlog = 1 .. Len(backlog)
      /\ Len(backlog) > 0
      /\ \A n \in DOMAIN backlog : Commanded(backlog[n])
  BY <1>1, BacklogType
<1>3. PICK e : e = [backlog[last] EXCEPT !.live = FALSE]
  OBVIOUS
<1>4. /\ e \in Command /\ Valid(e) /\ ~e.live
      /\ e.op = backlog[last].op /\ e.attempt = backlog[last].attempt
  <2>1. Commanded(backlog[last])
    BY <1>2
  <2>2. e \in Command /\ ~e.live
        /\ e.op = backlog[last].op /\ e.attempt = backlog[last].attempt
    BY <1>3, <2>1 DEF Commanded, Command
  <2> QED
    BY <2>1, <2>2 DEF Commanded, Valid
<1>5. last \in 1 .. Len(backlog) /\ backlog' = [backlog EXCEPT ![last] = e]
  BY <1>1, <1>2, <1>3
<1>6. /\ backlog' \in Seq(Command) /\ Len(backlog') = Len(backlog)
      /\ \A n \in 1 .. Len(backlog) :
           backlog'[n] = IF n = last THEN e ELSE backlog[n]
  <2>1. backlog \in Seq(Command) /\ last \in 1 .. Len(backlog) /\ e \in Command
    BY <1>1, <1>4, <1>5
  <2>2. /\ [backlog EXCEPT ![last] = e] \in Seq(Command)
        /\ Len([backlog EXCEPT ![last] = e]) = Len(backlog)
        /\ \A n \in 1 .. Len(backlog) :
             [backlog EXCEPT ![last] = e][n] = IF n = last THEN e
               ELSE backlog[n]
    BY <2>1, ExceptSeq
  <2> QED
    BY <1>5, <2>2, Zenon
<1>7. DOMAIN backlog' = 1 .. Len(backlog)
  BY <1>6, LenProperties
<1>8. \A n \in DOMAIN backlog' : Valid(backlog'[n]) /\ ~backlog'[n].live
  BY <1>2, <1>4, <1>6, <1>7 DEF Commanded, SocketInv
<1>9. \A n \in DOMAIN backlog' : /\ n \in DOMAIN backlog
                                 /\ backlog'[n].op = backlog[n].op
                                 /\ backlog'[n].attempt = backlog[n].attempt
  BY <1>2, <1>4, <1>6, <1>7
<1> QED
  BY <1>1, <1>6, <1>8, <1>9 DEF Dropped, TimesOut, serviceVars, storeVars

LEMMA RefusedDrops ==
  ASSUME ChatTypeOK, SocketInv, Refused
  PROVE  Dropped /\ backlog # <<>> /\ Len(backlog') = Len(backlog) - 1
<1>1. /\ backlog \in Seq(Command) /\ Len(backlog) <= MaxBacklog
      /\ backlog # <<>>
      /\ backlog' = SubSeq(backlog, 1, Len(backlog) - 1)
  BY DEF ChatTypeOK, Refused, Awaited, Front
<1>2. /\ Len(backlog) \in Nat /\ DOMAIN backlog = 1 .. Len(backlog)
      /\ Len(backlog) > 0
      /\ \A n \in DOMAIN backlog : Commanded(backlog[n])
  BY <1>1, BacklogType
<1>3. PICK g : g = Len(backlog) - 1
  OBVIOUS
<1>4. g \in Nat /\ g < Len(backlog) /\ backlog' = SubSeq(backlog, 1, g)
  BY <1>1, <1>2, <1>3
<1>5. \A i \in 1 .. g : backlog[i] \in Command
  BY <1>2, <1>4 DEF Commanded
<1>6. /\ backlog' \in Seq(Command)
      /\ Len(backlog') = IF 1 <= g THEN g - 1 + 1 ELSE 0
      /\ \A i \in 1 .. g - 1 + 1 : backlog'[i] = backlog[1 + i - 1]
  BY <1>4, <1>5, SubSeqProperties
<1>7. Len(backlog') = g /\ \A i \in 1 .. g : backlog'[i] = backlog[i]
  BY <1>4, <1>6
<1>8. DOMAIN backlog' = 1 .. g
  BY <1>6, <1>7, LenProperties
<1>9. \A n \in DOMAIN backlog' :
        n \in DOMAIN backlog /\ n # Len(backlog) /\ backlog'[n] = backlog[n]
  BY <1>2, <1>4, <1>7, <1>8
<1>10. \A n \in DOMAIN backlog' : Valid(backlog'[n]) /\ ~backlog'[n].live
  BY <1>2, <1>9 DEF Commanded, SocketInv
<1>11. Len(backlog') <= MaxBacklog
  <2>1. g \in Nat /\ g < Len(backlog) /\ Len(backlog) \in Nat
    BY <1>2, <1>4
  <2> QED
    BY <1>7, <2>1, BoundsNatural DEF ChatTypeOK
<1>12. result' = Failed /\ UNCHANGED <<storeVars, chatVars>>
  BY DEF Refused, serviceVars, storeVars
<1> QED
  BY <1>1, <1>3, <1>6, <1>7, <1>9, <1>10, <1>11, <1>12 DEF Dropped

LEMMA ServiceDiesDrops ==
  ASSUME ServiceDies PROVE Dropped
<1>1. backlog' = <<>> /\ Len(<<>>) = 0 /\ DOMAIN <<>> = {}
  BY DEF ServiceDies
<1>2. backlog' \in Seq(Command)
  BY <1>1, EmptySeq
<1> QED
  BY <1>1, <1>2, ChatAssumption DEF Dropped, ServiceDies

-----------------------------------------------------------------------------
(* The answers of the service are true of the chat that waits for them.    *)

LEMMA JournalType ==
  ASSUME ChatTypeOK, ThreadInv
  PROVE  /\ Len(journal) \in Nat /\ Len(journal) > 0
         /\ DOMAIN journal = 1 .. Len(journal)
         /\ Revision \in Nat /\ Revision + 1 = Len(journal)
         /\ PreferredHead = journal[Revision + 1]
         /\ PreferredHead = journal[Len(journal)]
         /\ PreferredHead \in TaskIds /\ OnThread(PreferredHead)
         /\ \A k \in DOMAIN journal : journal[k] \in TaskIds
<1>1. journal \in Seq(TaskIds) /\ journal # <<>>
  BY DEF ChatTypeOK, ThreadInv
<1>2. Len(journal) \in Nat /\ DOMAIN journal = 1 .. Len(journal)
  BY <1>1, LenProperties
<1>3. Len(journal) > 0
  BY <1>1, <1>2, EmptySeq
<1>4. \A k \in DOMAIN journal : journal[k] \in TaskIds
  BY <1>1, <1>2, ElementOfSeq
<1>5. Len(journal) \in DOMAIN journal
  BY <1>2, <1>3
<1>6. Revision \in Nat /\ Revision + 1 = Len(journal)
  BY <1>2, <1>3 DEF Revision
<1>7. PreferredHead = journal[Len(journal)]
  BY DEF PreferredHead, Last
<1>8. PreferredHead = journal[Revision + 1]
  BY <1>6, <1>7
<1> QED
  BY <1>2, <1>3, <1>4, <1>5, <1>6, <1>7, <1>8 DEF OnThread

(* A command of the backlog, and the answer the chat waits for.            *)
LEMMA CommandOfSubmit ==
  ASSUME NEW c, Commanded(c)
  PROVE  /\ c.op # "head" => c.attempt.request \in RequestIds
         /\ c.op = "submit" => c.attempt.text \in Messages
         /\ c.attempt \in Attempt /\ c.attempt.rev \in Nat
<1>1. c.attempt \in Attempt /\ c.op \in {"head", "submit", "task"}
  BY DEF Commanded, Command
<1>2. /\ c.attempt.request \in RequestIds \cup {NoTurn}
      /\ c.attempt.text \in Messages \cup {NoText}
      /\ c.attempt.rev \in Nat
  BY <1>1 DEF Attempt
<1>3. ASSUME c.op # "head" PROVE c.attempt.request # NoTurn
  BY <1>1, <1>3 DEF Commanded, Valid
<1>4. ASSUME c.op = "submit" PROVE c.attempt.text # NoText
  BY <1>4 DEF Commanded, Valid
<1> QED
  BY <1>1, <1>2, <1>3, <1>4

LEMMA AwaitedHead ==
  ASSUME ChatTypeOK, SocketInv, backlog # <<>>, Head(backlog).live
  PROVE  /\ result = NoReply /\ phase # "prompt"
         /\ phase \in {"inspect", "refresh"} => Head(backlog).op = "head"
         /\ phase = "submit" =>
              Head(backlog).op = "submit" /\ Head(backlog).attempt = attempt
         /\ phase = "poll" =>
              /\ Head(backlog).op = "task"
              /\ Head(backlog).attempt.request = attempt.request
  BY BacklogType DEF SocketInv

(* A refusal: its turn is not the one that follows the head it was made on.  *)
Refutes(r) ==
  LET a == Head(backlog).attempt IN
  r.code = 4 => ~(/\ Revision = a.rev + 1
                  /\ SameRequest(PreferredHead, a, journal[a.rev + 1]))

Answers(stores) ==
  /\ backlog # <<>>
  /\ \E r \in Reply : /\ AnswerCall(r) /\ (Head(backlog).live => Truthful(r))
                      /\ Refutes(r)
  /\ UNCHANGED <<stores, chatVars>>

LEMMA InspectHeadAnswers ==
  ChatTypeOK /\ SocketInv /\ ThreadInv /\ InspectHead => Answers(serviceVars)
<1> SUFFICES ASSUME ChatTypeOK, SocketInv, ThreadInv, InspectHead
             PROVE  Answers(serviceVars)
  OBVIOUS
<1> DEFINE r == [code |-> 0, rev |-> Revision, task |-> PreferredHead]
<1>1. /\ backlog # <<>> /\ Head(backlog).op = "head" /\ AnswerCall(r)
      /\ UNCHANGED <<serviceVars, chatVars>>
  BY DEF InspectHead, Serving
<1>2. r \in Reply
  BY JournalType DEF Reply
<1>3. Head(backlog).live => Truthful(r)
  <2>1. Head(backlog).live => phase \in {"inspect", "refresh", "prompt"}
    BY <1>1, AwaitedHead DEF ChatTypeOK
  <2>2. r.rev + 1 \in DOMAIN journal /\ r.task = journal[r.rev + 1]
    BY JournalType
  <2> QED
    BY <2>1, <2>2 DEF Truthful
<1>4. Refutes(r)
  BY DEF Refutes
<1> QED
  BY <1>1, <1>2, <1>3, <1>4 DEF Answers

LEMMA InspectTaskAnswers ==
  ChatTypeOK /\ SocketInv /\ ThreadInv /\ InspectTask => Answers(serviceVars)
<1> SUFFICES ASSUME ChatTypeOK, SocketInv, ThreadInv, InspectTask
             PROVE  Answers(serviceVars)
  OBVIOUS
<1> DEFINE r == [code |-> 0, rev |-> 0, task |-> Head(backlog).attempt.request]
<1>1. /\ backlog # <<>> /\ Head(backlog).op = "task" /\ AnswerCall(r)
      /\ UNCHANGED <<serviceVars, chatVars>>
  BY DEF InspectTask, Serving
<1>2. r \in Reply
  BY <1>1, BacklogType, CommandOfSubmit DEF Reply, TaskIds
<1>3. Head(backlog).live => Truthful(r)
  <2>1. Head(backlog).live =>
          phase = "poll" /\ Head(backlog).attempt.request = attempt.request
    BY <1>1, AwaitedHead DEF ChatTypeOK
  <2> QED
    BY <2>1 DEF Truthful
<1>4. Refutes(r)
  BY DEF Refutes
<1> QED
  BY <1>1, <1>2, <1>3, <1>4 DEF Answers

LEMMA SubmitMovedAnswers ==
  ChatTypeOK /\ SocketInv /\ ThreadInv /\ TryInv /\ SubmitMoved
    => Answers(serviceVars)
<1> SUFFICES ASSUME ChatTypeOK, SocketInv, ThreadInv, TryInv, SubmitMoved
             PROVE  Answers(serviceVars)
  OBVIOUS
<1> DEFINE a == Head(backlog).attempt
           accepted == /\ Revision = a.rev + 1
                       /\ SameRequest(PreferredHead, a, journal[a.rev + 1])
           branch == /\ Revision = a.rev + 1
                     /\ SameRequest(a.request, a, journal[a.rev + 1])
           r == [code |-> IF accepted THEN 0 ELSE 4, rev |-> Revision,
                 task |-> IF accepted THEN PreferredHead
                          ELSE IF branch THEN a.request ELSE NoTurn]
<1>1. /\ backlog # <<>> /\ Head(backlog).op = "submit" /\ AnswerCall(r)
      /\ UNCHANGED <<serviceVars, chatVars>>
  BY DEF SubmitMoved, Serving
<1>2. r \in Reply
  <2>1. a.request \in TaskIds
    BY <1>1, BacklogType, CommandOfSubmit DEF TaskIds
  <2> QED
    BY <2>1, JournalType DEF Reply
<1>3. Head(backlog).live => Truthful(r)
  <2>1. Head(backlog).live => phase = "submit" /\ a = attempt
    BY <1>1, AwaitedHead DEF ChatTypeOK
  <2>2. accepted => /\ Revision = a.rev + 1
                    /\ PreferredHead = a.request
                    /\ taskStore[PreferredHead].pred = journal[a.rev + 1]
    BY DEF SameRequest
  <2>3. phase = "submit" => attempt.head = journal[attempt.rev + 1]
    BY DEF TryInv, Outstanding
  <2>4. Head(backlog).live /\ accepted => Landed
    BY <2>1, <2>2, <2>3, JournalType DEF Landed
  <2>5. r.code = 0 => accepted
    OBVIOUS
  <2>6. r.rev = Revision /\ (accepted => r.task = PreferredHead)
    OBVIOUS
  <2> HIDE DEF r, accepted
  <2> QED
    BY <2>1, <2>2, <2>4, <2>5, <2>6 DEF Truthful
<1>4. Refutes(r)
  <2>1. r.code = 4 => ~accepted
    OBVIOUS
  <2> HIDE DEF r
  <2> QED
    BY <2>1 DEF Refutes
<1> HIDE DEF r
<1> QED
  BY <1>1, <1>2, <1>3, <1>4 DEF Answers

LEMMA SubmitRejectedAnswers ==
  ChatTypeOK /\ SocketInv /\ ThreadInv /\ SubmitRejected => Answers(serviceVars)
<1> SUFFICES ASSUME ChatTypeOK, SocketInv, ThreadInv, SubmitRejected
             PROVE  Answers(serviceVars)
  OBVIOUS
<1> DEFINE r == [code |-> 4, rev |-> Revision,
                 task |-> IF Rooted(PreferredHead)
                            THEN Head(backlog).attempt.request ELSE NoTurn]
<1>1. /\ backlog # <<>> /\ Head(backlog).op = "submit" /\ AnswerCall(r)
      /\ UNCHANGED <<serviceVars, chatVars>>
  BY DEF SubmitRejected, Serving
<1>2. r \in Reply
  BY <1>1, BacklogType, CommandOfSubmit, JournalType DEF Reply, TaskIds
<1>3. Truthful(r)
  BY DEF Truthful
<1>4. Refutes(r)
  <2>1. Revision = Head(backlog).attempt.rev /\ Revision \in Nat
    BY JournalType DEF SubmitRejected
  <2> QED
    BY <2>1 DEF Refutes
<1> QED
  BY <1>1, <1>2, <1>3, <1>4 DEF Answers

LEMMA ReplaceFailsAnswers ==
  ChatTypeOK /\ SocketInv /\ ThreadInv /\ ReplaceInv /\ ReplaceFails
    => Answers(storeVars)
<1> SUFFICES ASSUME ChatTypeOK, SocketInv, ThreadInv, ReplaceInv, ReplaceFails
             PROVE  Answers(storeVars)
  OBVIOUS
<1>1. backlog # <<>> /\ Head(backlog).op = "submit"
      /\ UNCHANGED <<storeVars, chatVars>>
  BY DEF ReplaceFails, ReplaceInv
<1>2. PICK code \in {1, 4} :
        AnswerCall([code |-> code, rev |-> Revision,
                    task |-> Head(backlog).attempt.request])
  BY DEF ReplaceFails
<1> DEFINE r == [code |-> code, rev |-> Revision,
                 task |-> Head(backlog).attempt.request]
<1>3. r \in Reply
  BY <1>1, BacklogType, CommandOfSubmit, JournalType DEF Reply, TaskIds
<1>4. Truthful(r)
  BY DEF Truthful
<1>5. Refutes(r)
  BY JournalType DEF Refutes, ReplaceFails, ReplaceInv, SameRequest
<1> QED
  BY <1>1, <1>2, <1>3, <1>4, <1>5 DEF Answers

LEMMA ReplaceConflictsAnswers ==
  ChatTypeOK /\ SocketInv /\ ThreadInv /\ ReplaceInv /\ ReplaceConflicts
    => Answers(storeVars)
<1> SUFFICES ASSUME ChatTypeOK, SocketInv, ThreadInv, ReplaceInv,
                    ReplaceConflicts
             PROVE  Answers(storeVars)
  OBVIOUS
<1> DEFINE r == [code |-> 4, rev |-> Revision,
                 task |-> Head(backlog).attempt.request]
<1>1. /\ backlog # <<>> /\ Head(backlog).op = "submit"
      /\ UNCHANGED <<storeVars, chatVars>> /\ AnswerCall(r)
  BY DEF ReplaceConflicts, ReplaceInv
<1>2. r \in Reply
  BY <1>1, BacklogType, CommandOfSubmit, JournalType DEF Reply, TaskIds
<1>3. Truthful(r)
  BY DEF Truthful
<1>4. Refutes(r)
  BY JournalType DEF Refutes, ReplaceConflicts, ReplaceInv, SameRequest
<1> QED
  BY <1>1, <1>2, <1>3, <1>4 DEF Answers

-----------------------------------------------------------------------------
(* What the worker and the other submitters do to the two stores.          *)

(* Nothing durable is lost, and an input is never rewritten.               *)
TasksGrow ==
  /\ taskStore' \in [TaskIds -> Dialogue]
  /\ \A t \in TaskIds :
       Stored(t) => /\ taskStore'[t].status # "absent"
                    /\ taskStore'[t].pred = taskStore[t].pred
                    /\ taskStore'[t].text = taskStore[t].text
  /\ \A t \in LegacyTasks : taskStore'[t].status = taskStore[t].status

ThreadGrows ==
  \A k \in DOMAIN journal : k \in DOMAIN journal' /\ journal'[k] = journal[k]

LEMMA TaskType ==
  ASSUME ChatTypeOK, NEW t \in TaskIds
  PROVE  /\ taskStore[t] \in Dialogue
         /\ taskStore[t].status \in Status
         /\ taskStore[t].pred \in TaskIds \cup {NoTurn}
         /\ taskStore[t].turn \in Nat
         /\ taskStore[t].text \in Messages \cup {NoText}
         /\ taskStore[t].size \in Sizes
<1>1. taskStore[t] \in Dialogue
  BY DEF ChatTypeOK
<1> QED
  BY <1>1 DEF Dialogue

LEMMA SuccessorType ==
  ASSUME ChatTypeOK, NEW p \in TaskIds, NEW text \in Messages \cup {NoText}
  PROVE  /\ Successor(p, text) \in Dialogue
         /\ Successor(p, text).status = "queued"
         /\ Successor(p, text).pred = p
         /\ Successor(p, text).text = text
<1>1. NextTurn(p) \in Nat
  BY TaskType DEF NextTurn
<1>2. 1 \in Sizes
  BY ChatAssumption
<1> QED
  BY <1>1, <1>2 DEF Successor, Dialogue, Status

LEMMA NotLegacy ==
  ASSUME NEW t \in RequestIds \cup Others
  PROVE  t \in TaskIds /\ t \notin LegacyTasks
  BY ChatAssumption DEF TaskIds

LEMMA LegacyType ==
  /\ Legacy \in Seq(LegacyTasks) /\ Len(Legacy) \in Nat /\ Len(Legacy) > 0
  /\ DOMAIN Legacy = 1 .. Len(Legacy)
  /\ \A k \in DOMAIN Legacy : Legacy[k] \in LegacyTasks
  /\ \A j, k \in DOMAIN Legacy : Legacy[j] = Legacy[k] => j = k
  /\ Last(Legacy) = Legacy[Len(Legacy)]
  /\ Last(Legacy) \in LegacyTasks /\ Last(Legacy) \in TaskIds
  /\ Last(Legacy) \notin RequestIds \cup Others
<1>1. Legacy \in Seq(LegacyTasks) /\ Legacy # <<>> /\ IsInjective(Legacy)
  BY ChatAssumption
<1>2. Len(Legacy) \in Nat /\ DOMAIN Legacy = 1 .. Len(Legacy)
  BY <1>1, LenProperties
<1>3. Len(Legacy) > 0
  BY <1>1, EmptySeq
<1>4. \A k \in DOMAIN Legacy : Legacy[k] \in LegacyTasks
  BY DEF LegacyTasks
<1>5. Last(Legacy) = Legacy[Len(Legacy)]
  BY DEF Last
<1>6. Last(Legacy) \in LegacyTasks
  BY <1>2, <1>3, <1>4, <1>5
<1>7. Last(Legacy) \in TaskIds /\ Last(Legacy) \notin RequestIds \cup Others
  BY <1>6, NotLegacy DEF TaskIds
<1> QED
  BY <1>1, <1>2, <1>3, <1>4, <1>5, <1>6, <1>7 DEF IsInjective

LEMMA ThreadUnmoved ==
  ASSUME ChatTypeOK, ThreadInv, TasksGrow, journal' = journal
  PROVE  ThreadInv' /\ ThreadGrows /\ journal' \in Seq(TaskIds)
<1>1. \A k \in DOMAIN journal : journal[k] \in TaskIds
  BY JournalType
<1> QED
  BY <1>1 DEF ThreadInv, ThreadGrows, TasksGrow, Stored, ChatTypeOK

LEMMA ThreadMoved ==
  ASSUME ChatTypeOK, ThreadInv, TasksGrow, NEW t \in RequestIds \cup Others,
         ~OnThread(t), journal' = Append(journal, t),
         taskStore'[t].status # "absent", taskStore'[t].pred = PreferredHead
  PROVE  /\ ThreadInv' /\ ThreadGrows /\ journal' \in Seq(TaskIds)
         /\ OnThread(t)' /\ PreferredHead' = t
         /\ Len(journal') = Len(journal) + 1
<1>1. /\ journal \in Seq(TaskIds) /\ t \in TaskIds
      /\ Len(journal) \in Nat /\ Len(journal) > 0
      /\ DOMAIN journal = 1 .. Len(journal)
      /\ \A k \in DOMAIN journal : journal[k] \in TaskIds
  BY NotLegacy, JournalType DEF ChatTypeOK
<1>2. /\ journal' \in Seq(TaskIds) /\ journal' # <<>>
      /\ Len(journal') = Len(journal) + 1
      /\ \A k \in 1 .. Len(journal) : journal'[k] = journal[k]
      /\ journal'[Len(journal) + 1] = t
  BY <1>1, AppendProperties
<1>3. DOMAIN journal' = 1 .. Len(journal) + 1
  BY <1>2, LenProperties
<1>4. ThreadGrows
  BY <1>1, <1>2, <1>3 DEF ThreadGrows
<1>5. Len(journal) + 1 \in DOMAIN journal'
  BY <1>1, <1>3
<1>6. PreferredHead' = t
  BY <1>2 DEF PreferredHead, Last
<1>7. \A k \in DOMAIN journal' :
        k \in DOMAIN journal \/ (k = Len(journal) + 1 /\ k > 1)
  BY <1>1, <1>3
<1>8. journal'[1] = Last(Legacy)
  <2>1. 1 \in 1 .. Len(journal)
    BY <1>1
  <2> QED
    BY <1>2, <2>1 DEF ThreadInv
<1>9. ASSUME NEW k \in DOMAIN journal'
             PROVE  taskStore'[journal'[k]].status # "absent"
  <2>1. CASE k \in DOMAIN journal
    BY <1>1, <1>2, <2>1 DEF ThreadInv, TasksGrow, Stored
  <2>2. CASE k = Len(journal) + 1
    BY <1>2, <2>2
  <2> QED
    BY <1>7, <2>1, <2>2
<1>10. ASSUME NEW k \in DOMAIN journal', k > 1
       PROVE  /\ journal'[k] \in RequestIds \cup Others
              /\ taskStore'[journal'[k]].pred = journal'[k - 1]
  <2>1. CASE k \in DOMAIN journal
    <3>1. k - 1 \in DOMAIN journal
      BY <1>1, <1>10, <2>1
    <3>2. journal'[k] = journal[k] /\ journal'[k - 1] = journal[k - 1]
      BY <1>1, <1>2, <2>1, <3>1
    <3>3. Stored(journal[k]) /\ journal[k] \in TaskIds
          /\ taskStore[journal[k]].pred = journal[k - 1]
          /\ journal[k] \in RequestIds \cup Others
      BY <1>1, <1>10, <2>1 DEF ThreadInv
    <3> QED
      BY <3>2, <3>3 DEF TasksGrow
  <2>2. CASE k = Len(journal) + 1
    <3>1. k - 1 = Len(journal) /\ Len(journal) \in 1 .. Len(journal)
      BY <1>1, <2>2
    <3>2. journal'[k - 1] = PreferredHead
      BY <1>2, <3>1, JournalType
    <3> QED
      BY <1>2, <2>2, <3>2
  <2> QED
    BY <1>7, <2>1, <2>2
<1>11. ASSUME NEW j \in DOMAIN journal', NEW k \in DOMAIN journal',
              journal'[j] = journal'[k]
       PROVE  j = k
  <2>1. \A n \in DOMAIN journal : journal[n] # t
    BY DEF OnThread
  <2> QED
    BY <1>1, <1>2, <1>7, <1>11, <2>1 DEF ThreadInv
<1>12. \A u \in LegacyTasks : taskStore'[u].status = "succeeded"
  BY DEF ThreadInv, TasksGrow
<1>13. ThreadInv'
  BY <1>2, <1>8, <1>9, <1>10, <1>11, <1>12 DEF ThreadInv, Stored
<1> QED
  BY <1>2, <1>4, <1>5, <1>6, <1>13 DEF OnThread

(* What grows keeps an attempt and an answer true.                         *)
LEMMA StoresGrowKeep ==
  ASSUME ChatTypeOK, ThreadInv, ThreadGrows, TasksGrow, UNCHANGED chatVars,
         TryInv, ReplyInv
  PROVE  /\ TryInv' /\ (phase' = "poll" => Landed')
         /\ result' = result => ReplyInv'
<1>1. \A u \in TaskIds : OnThread(u) =>
        OnThread(u)' /\ taskStore'[u].pred = taskStore[u].pred
  BY DEF ThreadGrows, TasksGrow, OnThread, ThreadInv
<1>2. TryInv'
  BY DEF TryInv, Outstanding, ThreadGrows, chatVars
<1>3. Outstanding => attempt.request \in TaskIds
  BY DEF TryInv, TaskIds
<1>4. Outstanding /\ Landed => Landed'
  BY <1>1, <1>3 DEF Landed, chatVars
<1>5. phase' = "poll" => Landed'
  BY <1>4 DEF ReplyInv, Outstanding, chatVars
<1>6. Truthful(result) /\ result' = result => Truthful(result)'
  BY <1>4 DEF Truthful, Outstanding, ThreadGrows, chatVars
<1> QED
  BY <1>2, <1>5, <1>6 DEF ReplyInv

(* The compare-and-swap: a Task on the head is not on the thread yet.      *)
LEMMA OnTheHead ==
  ASSUME ChatInv, NEW t \in RequestIds \cup Others, Stored(t),
         taskStore[t].pred = PreferredHead
  PROVE  ~OnThread(t)
<1>1. ThreadInv /\ ChatTypeOK
  BY DEF ChatInv
<1>2. /\ Len(journal) \in Nat /\ DOMAIN journal = 1 .. Len(journal)
      /\ Len(journal) > 0 /\ PreferredHead = journal[Len(journal)]
  BY <1>1, JournalType
<1> SUFFICES ASSUME NEW k \in DOMAIN journal, journal[k] = t
             PROVE  FALSE
  BY DEF OnThread
<1>3. k # 1
  BY <1>1, NotLegacy, LegacyType DEF ThreadInv
<1>4. k - 1 \in DOMAIN journal /\ k > 1 /\ k - 1 # Len(journal)
      /\ Len(journal) \in DOMAIN journal
  BY <1>2, <1>3
<1>5. journal[k - 1] = journal[Len(journal)]
  BY <1>1, <1>2, <1>4 DEF ThreadInv
<1> QED
  BY <1>1, <1>4, <1>5 DEF ThreadInv

(* Each step that writes them: what is written, and that the rest is kept. *)
LEMMA SubmitTaskStores ==
  ASSUME ChatInv, SubmitTask
  PROVE  LET a == Head(backlog).attempt IN
         /\ TasksGrow /\ journal' = journal
         /\ backlog # <<>> /\ Head(backlog).op = "submit"
         /\ a.request \in RequestIds /\ a.text \in Messages
         /\ \A u \in TaskIds : u # a.request => taskStore'[u] = taskStore[u]
         /\ taskStore'[a.request].text = a.text
         /\ taskStore'[a.request].pred = PreferredHead
         /\ taskStore'[a.request].status # "absent"
         /\ taskStore'[PreferredHead] = taskStore[PreferredHead]
         /\ ~OnThread(a.request)
<1> PICK a : a = Head(backlog).attempt
  OBVIOUS
<1> PICK p : p = PreferredHead
  OBVIOUS
<1> PICK d : d = Successor(p, a.text)
  OBVIOUS
<1>1. ChatTypeOK /\ SocketInv /\ ThreadInv
  BY DEF ChatInv
<1>2. /\ backlog # <<>> /\ Head(backlog).op = "submit" /\ journal' = journal
      /\ Stored(a.request) => SameDefinition(a.request, d)
      /\ taskStore' = IF Stored(a.request) THEN taskStore
                      ELSE [taskStore EXCEPT ![a.request] = d]
      /\ Rooted(p)
  BY DEF SubmitTask, Serving
<1>3. /\ a.request \in RequestIds /\ a.text \in Messages
      /\ a.request \in TaskIds /\ a.request \notin LegacyTasks
  BY <1>1, <1>2, BacklogType, CommandOfSubmit, NotLegacy
<1>4. /\ p \in TaskIds /\ OnThread(p) /\ p = journal[Len(journal)]
      /\ Len(journal) \in Nat /\ DOMAIN journal = 1 .. Len(journal)
  BY <1>1, JournalType
<1>5. /\ d \in Dialogue /\ d.status = "queued" /\ d.pred = p /\ d.text = a.text
  BY <1>1, <1>3, <1>4, SuccessorType
<1>6. taskStore \in [TaskIds -> Dialogue]
  BY <1>1 DEF ChatTypeOK
<1>7. CASE Stored(a.request)
  <2>1. taskStore' = taskStore
    BY <1>2, <1>7
  <2>2. taskStore[a.request].text = a.text /\ taskStore[a.request].pred = p
    BY <1>2, <1>5, <1>7 DEF SameDefinition, Input
  <2>3. ~OnThread(a.request)
    BY <1>3, <1>7, <2>2, OnTheHead
  <2>4. TasksGrow
    BY <1>6, <2>1 DEF TasksGrow, Stored
  <2> QED
    BY <1>2, <1>3, <1>4, <1>7, <2>1, <2>2, <2>3, <2>4 DEF Stored
<1>8. CASE ~Stored(a.request)
  <2>1. taskStore' = [taskStore EXCEPT ![a.request] = d]
    BY <1>2, <1>8
  <2>2. /\ taskStore' \in [TaskIds -> Dialogue]
        /\ taskStore'[a.request] = d
        /\ \A u \in TaskIds : u # a.request => taskStore'[u] = taskStore[u]
    BY <1>3, <1>5, <1>6, <2>1
  <2>3. ~OnThread(a.request)
    BY <1>1, <1>8 DEF OnThread, ThreadInv
  <2>4. TasksGrow
    BY <1>3, <1>8, <2>2, NotLegacy DEF TasksGrow, Stored, TaskIds
  <2>5. p # a.request
    BY <1>4, <2>3
  <2> QED
    BY <1>2, <1>3, <1>4, <1>5, <2>2, <2>3, <2>4, <2>5
<1> QED
  BY <1>7, <1>8

LEMMA OtherTaskStores ==
  ASSUME ChatInv, NEW o \in Others, OtherTask(o)
  PROVE  /\ TasksGrow /\ journal' = journal /\ ~OnThread(o) /\ ~Stored(o)
         /\ \A u \in TaskIds : u # o => taskStore'[u] = taskStore[u]
         /\ Rooted(PreferredHead)
<1> PICK d : d = Successor(PreferredHead, NoText)
  OBVIOUS
<1>1. ChatTypeOK /\ ThreadInv /\ taskStore \in [TaskIds -> Dialogue]
  BY DEF ChatInv, ChatTypeOK
<1>2. /\ ~Stored(o) /\ journal' = journal /\ Rooted(PreferredHead)
      /\ taskStore' = [taskStore EXCEPT ![o] = d]
  BY DEF OtherTask
<1>3. /\ d \in Dialogue /\ d.status = "queued" /\ d.pred = PreferredHead
  BY <1>1, JournalType, SuccessorType
<1>4. o \in TaskIds /\ o \notin LegacyTasks
  BY NotLegacy
<1>5. /\ taskStore' \in [TaskIds -> Dialogue] /\ taskStore'[o] = d
      /\ \A u \in TaskIds : u # o => taskStore'[u] = taskStore[u]
  BY <1>1, <1>2, <1>3, <1>4
<1>6. ~OnThread(o)
  BY <1>1, <1>2 DEF OnThread, ThreadInv
<1>7. TasksGrow
  BY <1>2, <1>4, <1>5 DEF TasksGrow, Stored, TaskIds
<1> QED
  BY <1>2, <1>5, <1>6, <1>7

LEMMA OtherHeadStores ==
  ASSUME ChatInv, NEW o \in Others, OtherHead(o)
  PROVE  /\ TasksGrow /\ taskStore' = taskStore /\ Stored(o)
         /\ journal' = Append(journal, o) /\ ~OnThread(o)
         /\ ThreadInv' /\ ThreadGrows /\ journal' \in Seq(TaskIds)
         /\ Len(journal') = Len(journal) + 1
         /\ journal'[Len(journal) + 1] = o
<1>1. ChatTypeOK /\ ThreadInv /\ taskStore \in [TaskIds -> Dialogue]
  BY DEF ChatInv, ChatTypeOK
<1>2. /\ Stored(o) /\ taskStore[o].pred = PreferredHead
      /\ journal' = Append(journal, o) /\ taskStore' = taskStore
  BY DEF OtherHead
<1>3. ~OnThread(o)
  BY <1>2, OnTheHead
<1>4. TasksGrow
  BY <1>1, <1>2 DEF TasksGrow, Stored
<1>5. /\ ThreadInv' /\ ThreadGrows /\ journal' \in Seq(TaskIds)
      /\ Len(journal') = Len(journal) + 1
  BY <1>1, <1>2, <1>3, <1>4, ThreadMoved DEF Stored
<1>6. journal'[Len(journal) + 1] = o
  BY <1>1, <1>2, NotLegacy, AppendProperties DEF ChatTypeOK
<1> QED
  BY <1>2, <1>3, <1>4, <1>5, <1>6

LEMMA RunTaskStores ==
  ASSUME ChatInv, NEW t \in TaskIds, RunTask(t)
  PROVE  /\ TasksGrow /\ journal' = journal
         /\ t \in RequestIds \cup Others
         /\ taskStore[t].status = "queued"
         /\ taskStore'[t].status \in {"succeeded", "failed"}
         /\ \A u \in TaskIds :
              /\ u # t => taskStore'[u] = taskStore[u]
              /\ taskStore'[u].text = taskStore[u].text
              /\ taskStore'[u].pred = taskStore[u].pred
              /\ taskStore'[u].turn = taskStore[u].turn
              /\ Stored(u)' => Stored(u)
<1>1. ChatTypeOK /\ ThreadInv /\ taskStore \in [TaskIds -> Dialogue]
  BY DEF ChatInv, ChatTypeOK
<1>2. taskStore[t].status = "queued" /\ journal' = journal
  BY DEF RunTask
<1>3. t \in RequestIds \cup Others
  BY <1>1, <1>2 DEF ThreadInv, TaskIds
<1>4. PICK e \in Dialogue :
        /\ taskStore' = [taskStore EXCEPT ![t] = e]
        /\ e.status \in {"succeeded", "failed"}
        /\ e.text = taskStore[t].text /\ e.pred = taskStore[t].pred
        /\ e.turn = taskStore[t].turn
  <2>1. taskStore[t] \in Dialogue
    BY <1>1
  <2>2. ASSUME NEW size \in Sizes, taskStore' = Responded(t, size)
        PROVE  \E e \in Dialogue :
                 /\ taskStore' = [taskStore EXCEPT ![t] = e]
                 /\ e.status \in {"succeeded", "failed"}
                 /\ e.text = taskStore[t].text /\ e.pred = taskStore[t].pred
                 /\ e.turn = taskStore[t].turn
    <3> DEFINE e == [[taskStore[t] EXCEPT !.status = "succeeded"]
        EXCEPT !.size = size]
    <3>1. /\ e \in Dialogue /\ e.status = "succeeded"
          /\ e.text = taskStore[t].text /\ e.pred = taskStore[t].pred
          /\ e.turn = taskStore[t].turn
      BY <2>1 DEF Dialogue, Status
    <3>2. taskStore' = [taskStore EXCEPT ![t] = e]
      BY <1>1, <2>2 DEF Responded
    <3> QED
      BY <3>1, <3>2
  <2>3. ASSUME taskStore' = [taskStore EXCEPT ![t].status = "failed"]
        PROVE  \E e \in Dialogue :
                 /\ taskStore' = [taskStore EXCEPT ![t] = e]
                 /\ e.status \in {"succeeded", "failed"}
                 /\ e.text = taskStore[t].text /\ e.pred = taskStore[t].pred
                 /\ e.turn = taskStore[t].turn
    <3> DEFINE e == [taskStore[t] EXCEPT !.status = "failed"]
    <3>1. /\ e \in Dialogue /\ e.status = "failed"
          /\ e.text = taskStore[t].text /\ e.pred = taskStore[t].pred
          /\ e.turn = taskStore[t].turn
      BY <2>1 DEF Dialogue, Status
    <3>2. taskStore' = [taskStore EXCEPT ![t] = e]
      BY <1>1, <2>3
    <3> QED
      BY <3>1, <3>2
  <2> QED
    BY <2>2, <2>3 DEF RunTask
<1>5. /\ taskStore' \in [TaskIds -> Dialogue] /\ taskStore'[t] = e
      /\ \A u \in TaskIds : u # t => taskStore'[u] = taskStore[u]
  BY <1>1, <1>4
<1>6. \A u \in TaskIds :
        /\ taskStore'[u].text = taskStore[u].text
        /\ taskStore'[u].pred = taskStore[u].pred
        /\ taskStore'[u].turn = taskStore[u].turn
        /\ Stored(u)' => Stored(u)
  BY <1>2, <1>4, <1>5 DEF Stored
<1>7. TasksGrow
  BY <1>3, <1>4, <1>5, <1>6, NotLegacy DEF TasksGrow, Stored, TaskIds
<1> QED
  BY <1>2, <1>3, <1>4, <1>5, <1>6, <1>7

-----------------------------------------------------------------------------
(* Answers and lost calls keep the invariant.                              *)

FromBacklog ==
  \A n \in DOMAIN backlog' : \E k \in DOMAIN backlog :
    /\ backlog'[n].op = backlog[k].op
    /\ backlog'[n].attempt = backlog[k].attempt

LEMMA NothingNewUsed ==
  ASSUME MessageInv, FromBacklog, UNCHANGED chatVars,
         \A r \in RequestIds : taskStore'[r].text = taskStore[r].text
  PROVE  MessageInv'
<1>1. \A r \in RequestIds : \A m \in Messages : Used(r, m)' => Used(r, m)
  BY DEF Used, FromBacklog
<1>2. \A m \in Messages : Reopenable(m)' = Reopenable(m)
  BY DEF Reopenable, chatVars
<1>3. Outstanding' = Outstanding /\ attempt' = attempt /\ draft' = draft
      /\ told' = told /\ typed' = typed /\ retained' = retained
      /\ phase' = phase /\ ambiguous' = ambiguous
  BY DEF Outstanding, chatVars
<1> QED
  BY <1>1, <1>2, <1>3 DEF MessageInv

LEMMA SameStores ==
  ASSUME ChatTypeOK, ThreadInv, UNCHANGED storeVars
  PROVE  /\ taskStore' = taskStore /\ journal' = journal
         /\ TasksGrow /\ ThreadGrows /\ ThreadInv'
         /\ journal' \in Seq(TaskIds)
<1>1. taskStore' = taskStore /\ journal' = journal
  BY DEF storeVars
<1>2. TasksGrow
  BY <1>1 DEF TasksGrow, ChatTypeOK, Stored
<1> QED
  BY <1>1, <1>2, ThreadUnmoved

LEMMA AnswersKeep ==
  ASSUME ChatInv, UNCHANGED storeVars, Answers(storeVars), step' = "idle",
         failures' \in 0 .. MaxFailures,
         (step = "idle" /\ failures' = failures) \/ failures' > 0 \/ BranchInv'
  PROVE  ChatInv'
<1>1. PICK r \in Reply : AnswerCall(r) /\ (Head(backlog).live => Truthful(r))
  BY DEF Answers
<1>2. /\ ChatTypeOK /\ SocketInv /\ ThreadInv /\ TryInv /\ ReplyInv
      /\ MessageInv /\ BranchInv /\ backlog # <<>> /\ UNCHANGED chatVars
  BY DEF ChatInv, Answers
<1>3. /\ taskStore' = taskStore /\ journal' = journal
      /\ TasksGrow /\ ThreadGrows /\ ThreadInv' /\ journal' \in Seq(TaskIds)
  BY <1>2, SameStores
<1>4. /\ backlog' \in Seq(Command) /\ Len(backlog') <= MaxBacklog
      /\ \A n \in DOMAIN backlog' : Valid(backlog'[n])
      /\ \A n \in DOMAIN backlog' : backlog'[n].live => n = Len(backlog')
      /\ Awaited' => /\ Awaited /\ result' = result
                     /\ Last(backlog)' = Last(backlog)
      /\ \A n \in DOMAIN backlog' :
           n + 1 \in DOMAIN backlog /\ backlog'[n] = backlog[n + 1]
      /\ \/ ~Head(backlog).live /\ result' = result
         \/ Head(backlog).live /\ result' = r
  BY <1>1, <1>2, AnswerMoves
<1>5. result' \in Reply \cup {NoReply}
  BY <1>2, <1>4 DEF ChatTypeOK
<1>6. ChatTypeOK'
  BY <1>2, <1>3, <1>4, <1>5 DEF ChatTypeOK, chatVars
<1>7. SocketInv'
  BY <1>2, <1>4 DEF SocketInv, chatVars
<1>8. TryInv' /\ (phase' = "poll" => Landed')
      /\ (result' = result => ReplyInv')
  BY <1>2, <1>3, StoresGrowKeep
<1>9. Truthful(r) /\ result' = r => Truthful(result)'
  BY <1>2, <1>3 DEF Truthful, Landed, OnThread, chatVars
<1>10. ReplyInv'
  BY <1>1, <1>4, <1>8, <1>9 DEF ReplyInv
<1>11. FromBacklog
  BY <1>4 DEF FromBacklog
<1>12. MessageInv'
  BY <1>2, <1>3, <1>11, NothingNewUsed
<1>13. BranchInv'
  BY <1>2, <1>3 DEF BranchInv, InProgress, Outrun, Stored, OnThread
<1>14. ReplaceInv'
  BY DEF ReplaceInv
<1> QED
  BY <1>3, <1>6, <1>7, <1>8, <1>10, <1>12, <1>13, <1>14 DEF ChatInv

LEMMA DroppedKeep ==
  ASSUME ChatInv, Dropped, failures' \in 0 .. MaxFailures,
         step' \in {step, "idle"},
         step' = "replace" => 1 \in DOMAIN backlog',
         failures' > 0 \/ (step' = step /\ failures' = failures)
  PROVE  ChatInv'
<1>1. /\ ChatTypeOK /\ SocketInv /\ ThreadInv /\ TryInv /\ ReplyInv
      /\ MessageInv /\ BranchInv /\ ReplaceInv
      /\ UNCHANGED chatVars /\ UNCHANGED storeVars
  BY DEF ChatInv, Dropped
<1>2. /\ taskStore' = taskStore /\ journal' = journal
      /\ TasksGrow /\ ThreadGrows /\ ThreadInv' /\ journal' \in Seq(TaskIds)
  BY <1>1, SameStores
<1>3. /\ backlog' \in Seq(Command) /\ Len(backlog') <= MaxBacklog
      /\ \A n \in DOMAIN backlog' : Valid(backlog'[n]) /\ ~backlog'[n].live
      /\ \A n \in DOMAIN backlog' : /\ n \in DOMAIN backlog
                                    /\ backlog'[n].op = backlog[n].op
                                    /\ backlog'[n].attempt = backlog[n].attempt
      /\ result' \in {result, Failed}
  BY DEF Dropped
<1>4. ChatTypeOK'
  <2>1. Failed \in Reply
    BY DEF Failed, Reply
  <2> QED
    BY <1>1, <1>2, <1>3, <2>1 DEF ChatTypeOK, chatVars
<1>5. Len(backlog') \in Nat /\ DOMAIN backlog' = 1 .. Len(backlog')
      /\ (backlog' # <<>> => Len(backlog') > 0)
  BY <1>3, LenProperties, EmptySeq
<1>6. ~Awaited'
  BY <1>3, <1>5 DEF Awaited, Last
<1>7. SocketInv'
  BY <1>3, <1>6 DEF SocketInv
<1>8. TryInv' /\ (phase' = "poll" => Landed')
      /\ (result' = result => ReplyInv')
  BY <1>1, <1>2, StoresGrowKeep
<1>9. result' = Failed => Truthful(result)'
  BY DEF Truthful, Failed
<1>10. ReplyInv'
  BY <1>3, <1>8, <1>9 DEF ReplyInv
<1>11. FromBacklog
  BY <1>3 DEF FromBacklog
<1>12. MessageInv'
  BY <1>1, <1>2, <1>11, NothingNewUsed
<1>13. ASSUME step' = "replace"
       PROVE  /\ step = "replace" /\ backlog' # <<>>
              /\ Head(backlog').op = Head(backlog).op
              /\ Head(backlog').attempt = Head(backlog).attempt
  <2>1. 1 \in DOMAIN backlog' /\ backlog' # <<>>
    BY <1>5, <1>13
  <2>2. Head(backlog') = backlog'[1]
    BY <1>3, <2>1
  <2>3. backlog # <<>> /\ Head(backlog) = backlog[1]
    BY <1>1, <1>13, BacklogType DEF ReplaceInv
  <2> QED
    BY <1>3, <1>13, <2>1, <2>2, <2>3
<1>14. ReplaceInv'
  BY <1>1, <1>2, <1>13 DEF ReplaceInv, Stored, OnThread
<1>15. BranchInv'
  BY <1>1, <1>2, <1>13
     DEF BranchInv, InProgress, Outrun, Stored, OnThread, ChatTypeOK
<1> QED
  BY <1>2, <1>4, <1>7, <1>8, <1>10, <1>12, <1>14, <1>15 DEF ChatInv

(* The compare-and-swap is lost to another submitter only.                 *)
LEMMA OutrunInReplace ==
  ASSUME ChatTypeOK, SocketInv, ThreadInv, ReplaceInv, step = "replace",
         Revision # Head(backlog).attempt.rev
  PROVE  Outrun(Head(backlog).attempt.request)
<1> PICK a : a = Head(backlog).attempt
  OBVIOUS
<1>1. /\ Len(journal) \in Nat /\ DOMAIN journal = 1 .. Len(journal)
      /\ Revision + 1 = Len(journal) /\ Revision \in Nat
  BY JournalType
<1>2. /\ backlog # <<>> /\ Head(backlog).op = "submit"
      /\ a.rev + 1 \in DOMAIN journal
      /\ taskStore[a.request].pred = journal[a.rev + 1]
      /\ a.rev + 2 \in DOMAIN journal => journal[a.rev + 2] \in Others
  BY DEF ReplaceInv
<1>3. a.rev \in Nat
  BY <1>2, BacklogType, CommandOfSubmit
<1>4. PICK i \in DOMAIN journal : i = a.rev + 1
  BY <1>2
<1>5. i # Len(journal)
  BY <1>1, <1>3, <1>4
<1>6. PICK k \in DOMAIN journal : k = i + 1
  BY <1>1, <1>5
<1>7. k > 1 /\ k - 1 = i /\ k = a.rev + 2
  BY <1>1, <1>3, <1>4, <1>6
<1>8. taskStore[journal[k]].pred = journal[i]
  BY <1>7 DEF ThreadInv
<1> QED
  BY <1>2, <1>4, <1>7, <1>8 DEF Outrun, OnThread

LEMMA ServiceAnswersOk ==
  ASSUME ChatInv, \/ InspectHead \/ InspectTask \/ SubmitMoved
                  \/ SubmitRejected \/ ReplaceFails \/ ReplaceConflicts
  PROVE  ChatInv'
<1>1. ChatTypeOK /\ SocketInv /\ ThreadInv /\ TryInv /\ ReplaceInv
      /\ BranchInv /\ failures \in 0 .. MaxFailures
  BY DEF ChatInv, ChatTypeOK
<1>2. Answers(serviceVars) =>
        Answers(storeVars) /\ UNCHANGED storeVars /\ step' = step
  BY DEF Answers, serviceVars, storeVars
<1>3. CASE InspectHead \/ InspectTask \/ SubmitMoved \/ SubmitRejected
  <2>1. Answers(serviceVars)
    BY <1>1, <1>3, InspectHeadAnswers, InspectTaskAnswers,
       SubmitMovedAnswers, SubmitRejectedAnswers
  <2>2. step = "idle" /\ failures' = failures
    BY <1>3 DEF InspectHead, InspectTask, SubmitMoved, SubmitRejected, Serving
  <2> QED
    BY <1>1, <1>2, <2>1, <2>2, AnswersKeep
<1>4. CASE ReplaceFails
  <2>1. Answers(storeVars)
    BY <1>1, <1>4, ReplaceFailsAnswers
  <2>2. /\ step' = "idle" /\ UNCHANGED storeVars
        /\ failures' = failures + 1 /\ failures < MaxFailures
    BY <1>4 DEF ReplaceFails
  <2>3. failures' \in 0 .. MaxFailures /\ failures' > 0
    BY <1>1, <2>2, BoundsNatural
  <2> QED
    BY <2>1, <2>2, <2>3, AnswersKeep
<1>5. CASE ReplaceConflicts
  <2>1. Answers(storeVars)
    BY <1>1, <1>5, ReplaceConflictsAnswers
  <2>2. /\ step = "replace" /\ step' = "idle" /\ UNCHANGED storeVars
        /\ failures' = failures /\ Revision # Head(backlog).attempt.rev
    BY <1>5 DEF ReplaceConflicts
  <2>3. taskStore' = taskStore /\ journal' = journal
    BY <2>2 DEF storeVars
  <2>4. Outrun(Head(backlog).attempt.request)
    BY <1>1, <2>2, OutrunInReplace
  <2>5. BranchInv'
    BY <1>1, <2>2, <2>3, <2>4
       DEF BranchInv, InProgress, Outrun, Stored, OnThread
  <2> QED
    BY <1>1, <2>1, <2>2, <2>5, AnswersKeep
<1> QED
  BY <1>3, <1>4, <1>5

LEMMA SocketOk ==
  ASSUME ChatInv, Socket
  PROVE  ChatInv'
<1>1. ChatTypeOK /\ SocketInv /\ ReplaceInv /\ failures \in 0 .. MaxFailures
  BY DEF ChatInv, ChatTypeOK
<1>2. Len(backlog) \in Nat /\ (backlog # <<>> => Len(backlog) > 0)
  BY <1>1, BacklogType
<1>3. Dropped => DOMAIN backlog' = 1 .. Len(backlog') /\ Len(backlog') \in Nat
  BY LenProperties DEF Dropped
<1>4. CASE TimesOut
  <2>1. Dropped /\ backlog # <<>> /\ Len(backlog') = Len(backlog)
    BY <1>1, <1>4, TimesOutDrops
  <2>2. step' = step /\ failures' = failures
    BY <1>4 DEF TimesOut, serviceVars
  <2>3. 1 \in DOMAIN backlog'
    BY <1>2, <1>3, <2>1
  <2> QED
    BY <1>1, <2>1, <2>2, <2>3, DroppedKeep
<1>5. CASE Refused
  <2>1. Dropped /\ Len(backlog') = Len(backlog) - 1
    BY <1>1, <1>5, RefusedDrops
  <2>2. /\ step' = step /\ failures' = failures + 1 /\ failures < MaxFailures
        /\ (step = "replace" => Len(backlog) > 1)
    BY <1>5 DEF Refused, serviceVars
  <2>3. step' = "replace" => 1 \in DOMAIN backlog'
    BY <1>2, <1>3, <2>1, <2>2
  <2>4. failures' \in 0 .. MaxFailures /\ failures' > 0
    BY <1>1, <2>2, BoundsNatural
  <2> QED
    BY <2>1, <2>2, <2>3, <2>4, DroppedKeep
<1>6. CASE ServiceDies
  <2>1. Dropped /\ step' = "idle"
    BY <1>6, ServiceDiesDrops DEF ServiceDies
  <2>2. failures' = failures + 1 /\ failures < MaxFailures
    BY <1>6 DEF ServiceDies
  <2>3. failures' \in 0 .. MaxFailures /\ failures' > 0
    BY <1>1, <2>2, BoundsNatural
  <2> QED
    BY <2>1, <2>3, DroppedKeep
<1> QED
  BY <1>4, <1>5, <1>6 DEF Socket

-----------------------------------------------------------------------------
(* Writes to the stores keep the invariant.                                *)

LEMMA SubmitTaskOk ==
  ASSUME ChatInv, SubmitTask
  PROVE  ChatInv'
<1> PICK a : a = Head(backlog).attempt
  OBVIOUS
<1>1. /\ ChatTypeOK /\ SocketInv /\ ThreadInv /\ TryInv /\ ReplyInv
      /\ MessageInv /\ BranchInv
  BY DEF ChatInv
<1>2. /\ TasksGrow /\ journal' = journal
      /\ backlog # <<>> /\ Head(backlog).op = "submit"
      /\ a.request \in RequestIds /\ a.text \in Messages
      /\ \A u \in TaskIds : u # a.request => taskStore'[u] = taskStore[u]
      /\ taskStore'[a.request].text = a.text
      /\ taskStore'[a.request].pred = PreferredHead
      /\ taskStore'[a.request].status # "absent"
      /\ taskStore'[PreferredHead] = taskStore[PreferredHead]
      /\ ~OnThread(a.request)
  BY SubmitTaskStores
<1>3. /\ UNCHANGED chatVars /\ backlog' = backlog /\ result' = result
      /\ failures' = failures /\ step' = "replace" /\ step = "idle"
      /\ Revision = a.rev /\ Rooted(PreferredHead)
  BY DEF SubmitTask, Serving
<1>4. ThreadInv' /\ ThreadGrows /\ journal' \in Seq(TaskIds)
  BY <1>1, <1>2, ThreadUnmoved
<1>5. TryInv' /\ ReplyInv'
  BY <1>1, <1>2, <1>3, <1>4, StoresGrowKeep
<1>6. ChatTypeOK'
  BY <1>1, <1>2, <1>3, <1>4 DEF ChatTypeOK, TasksGrow, chatVars
<1>7. SocketInv'
  BY <1>1, <1>3 DEF SocketInv, Awaited, Last, chatVars
<1>8. /\ PreferredHead' = PreferredHead /\ Revision' = Revision
      /\ \A u : OnThread(u)' = OnThread(u)
  BY <1>2 DEF PreferredHead, Revision, OnThread, Last
<1>9. /\ a.rev + 1 \in DOMAIN journal /\ PreferredHead = journal[a.rev + 1]
      /\ a.rev + 2 \notin DOMAIN journal
  <2>1. /\ Len(journal) \in Nat /\ DOMAIN journal = 1 .. Len(journal)
        /\ Revision \in Nat /\ Revision + 1 = Len(journal)
        /\ PreferredHead = journal[Revision + 1] /\ Len(journal) > 0
    BY <1>1, JournalType
  <2>2. a.rev + 1 = Len(journal) /\ a.rev + 2 = Len(journal) + 1
    BY <1>3, <2>1
  <2> QED
    BY <1>3, <2>1, <2>2
<1>10. ReplaceInv'
  BY <1>2, <1>3, <1>8, <1>9 DEF ReplaceInv, Stored
<1>11. MessageInv'
  <2>1. \A r \in RequestIds : \A m \in Messages : Used(r, m)' => Used(r, m)
    <3> SUFFICES ASSUME NEW r \in RequestIds, NEW m \in Messages, Used(r, m)'
                 PROVE  Used(r, m)
      OBVIOUS
    <3>1. CASE r # a.request
      <4>1. taskStore'[r] = taskStore[r]
        BY <1>2, <3>1 DEF TaskIds
      <4> QED
        BY <1>3, <4>1 DEF Used
    <3>2. CASE r = a.request
      <4>1. a.text = m \/ Used(r, m)
        BY <1>2, <1>3, <3>2 DEF Used
      <4>2. Head(backlog) = backlog[1] /\ 1 \in DOMAIN backlog
        BY <1>1, <1>2, BacklogType
      <4> QED
        BY <1>2, <3>2, <4>1, <4>2 DEF Used
    <3> QED
      BY <3>1, <3>2
  <2>2. \A m \in Messages : Reopenable(m)' = Reopenable(m)
    BY <1>3 DEF Reopenable, chatVars
  <2>3. Outstanding' = Outstanding /\ attempt' = attempt /\ draft' = draft
        /\ told' = told /\ typed' = typed /\ retained' = retained
        /\ phase' = phase /\ ambiguous' = ambiguous
    BY <1>3 DEF Outstanding, chatVars
  <2> QED
    BY <1>1, <2>1, <2>2, <2>3 DEF MessageInv
<1>12. BranchInv'
  <2> SUFFICES ASSUME NEW r \in RequestIds, r # a.request,
                      Stored(r)', ~OnThread(r)'
               PROVE  failures' > 0 \/ Outrun(r)'
    BY <1>3 DEF BranchInv, InProgress
  <2>1. Stored(r) /\ ~OnThread(r) /\ taskStore'[r] = taskStore[r]
    BY <1>2, <1>8 DEF Stored, TaskIds
  <2>2. \A o \in Others : taskStore'[o] = taskStore[o]
    BY <1>2, ChatAssumption DEF TaskIds
  <2> QED
    BY <1>1, <1>3, <1>8, <2>1, <2>2 DEF BranchInv, InProgress, Outrun
<1> QED
  BY <1>4, <1>5, <1>6, <1>7, <1>10, <1>11, <1>12 DEF ChatInv

LEMMA ReplaceHeadOk ==
  ASSUME ChatInv, ReplaceHead
  PROVE  ChatInv'
<1> PICK a : a = Head(backlog).attempt
  OBVIOUS
<1> PICK r : r = [code |-> 0, rev |-> Len(journal), task |-> a.request]
  OBVIOUS
<1>1. /\ ChatTypeOK /\ SocketInv /\ ThreadInv /\ TryInv /\ ReplyInv
      /\ MessageInv /\ BranchInv /\ ReplaceInv
  BY DEF ChatInv
<1>2. /\ step = "replace" /\ step' = "idle"
      /\ journal' = Append(journal, a.request)
      /\ AnswerCall(r) /\ taskStore' = taskStore /\ Revision = a.rev
      /\ UNCHANGED chatVars /\ failures' = failures
  BY DEF ReplaceHead
<1>3. /\ backlog # <<>> /\ Head(backlog).op = "submit"
      /\ Stored(a.request) /\ Revision = a.rev /\ ~OnThread(a.request)
      /\ taskStore[a.request].pred = PreferredHead
  BY <1>1, <1>2, JournalType DEF ReplaceInv
<1>4. a.request \in RequestIds /\ a.request \in TaskIds
  BY <1>1, <1>3, BacklogType, CommandOfSubmit, NotLegacy
<1>5. TasksGrow
  BY <1>1, <1>2 DEF TasksGrow, Stored, ChatTypeOK
<1>6. /\ ThreadInv' /\ ThreadGrows /\ journal' \in Seq(TaskIds)
      /\ OnThread(a.request)' /\ Len(journal') = Len(journal) + 1
  BY <1>1, <1>2, <1>3, <1>4, <1>5, ThreadMoved DEF Stored
<1>7. /\ Len(journal) \in Nat /\ Revision + 1 = Len(journal)
      /\ PreferredHead = journal[Revision + 1]
  BY <1>1, JournalType
<1>8. r \in Reply
  BY <1>4, <1>7 DEF Reply
<1>9. /\ backlog' \in Seq(Command) /\ Len(backlog') <= MaxBacklog
      /\ \A n \in DOMAIN backlog' : Valid(backlog'[n])
      /\ \A n \in DOMAIN backlog' : backlog'[n].live => n = Len(backlog')
      /\ Awaited' => /\ Awaited /\ result' = result
                     /\ Last(backlog)' = Last(backlog)
      /\ \A n \in DOMAIN backlog' :
           n + 1 \in DOMAIN backlog /\ backlog'[n] = backlog[n + 1]
      /\ \/ ~Head(backlog).live /\ result' = result
         \/ Head(backlog).live /\ result' = r
  BY <1>1, <1>2, <1>3, <1>8, AnswerMoves
<1>10. ChatTypeOK'
  <2>1. result' \in Reply \cup {NoReply}
    BY <1>1, <1>8, <1>9 DEF ChatTypeOK
  <2> QED
    BY <1>1, <1>2, <1>6, <1>9, <2>1 DEF ChatTypeOK, chatVars
<1>11. SocketInv'
  BY <1>1, <1>2, <1>9 DEF SocketInv, chatVars
<1>12. TryInv' /\ (phase' = "poll" => Landed')
       /\ (result' = result => ReplyInv')
  BY <1>1, <1>2, <1>5, <1>6, StoresGrowKeep
<1>13. Head(backlog).live => Truthful(r)'
  <2>1. Head(backlog).live => phase = "submit" /\ a = attempt
    BY <1>1, <1>3, AwaitedHead DEF ChatTypeOK
  <2>2. phase = "submit" => attempt.head = journal[attempt.rev + 1]
    BY <1>1 DEF TryInv, Outstanding
  <2>3. Head(backlog).live => Landed'
    BY <1>2, <1>3, <1>6, <1>7, <2>1, <2>2 DEF Landed, chatVars
  <2>4. r.rev = a.rev + 1 /\ r.task = a.request
    BY <1>3, <1>7
  <2> QED
    BY <1>2, <2>1, <2>3, <2>4 DEF Truthful, chatVars
<1>14. ReplyInv'
  BY <1>9, <1>12, <1>13 DEF ReplyInv
<1>15. FromBacklog
  BY <1>9 DEF FromBacklog
<1>16. MessageInv'
  BY <1>1, <1>2, <1>15, NothingNewUsed
<1>17. BranchInv'
  <2> SUFFICES ASSUME NEW q \in RequestIds, Stored(q)', ~OnThread(q)'
               PROVE  failures' > 0 \/ Outrun(q)'
    BY DEF BranchInv
  <2>1. q # a.request /\ ~OnThread(q) /\ Stored(q)
    BY <1>2, <1>6 DEF OnThread, ThreadGrows, Stored
  <2>2. failures > 0 \/ Outrun(q)
    BY <1>1, <2>1 DEF BranchInv, InProgress
  <2>3. \A o : OnThread(o) => OnThread(o)'
    BY <1>6 DEF OnThread, ThreadGrows
  <2> QED
    BY <1>2, <2>2, <2>3 DEF Outrun
<1>18. ReplaceInv'
  BY <1>2 DEF ReplaceInv
<1> QED
  BY <1>6, <1>10, <1>11, <1>14, <1>12, <1>16, <1>17, <1>18 DEF ChatInv

(* A step of the worker or of another submitter that leaves the socket.    *)
LEMMA StoresOnly ==
  ASSUME ChatInv, TasksGrow, ThreadGrows, ThreadInv', journal' \in Seq(TaskIds),
         ReplaceInv',
         UNCHANGED <<backlog, step, chatVars, result, failures>>,
         \A r \in RequestIds : /\ taskStore'[r].text = taskStore[r].text
                               /\ Stored(r)' => Stored(r)
  PROVE  ChatInv'
<1>1. /\ ChatTypeOK /\ SocketInv /\ ThreadInv /\ TryInv /\ ReplyInv
      /\ MessageInv /\ BranchInv
  BY DEF ChatInv
<1>2. TryInv' /\ ReplyInv'
  BY <1>1, StoresGrowKeep
<1>3. ChatTypeOK'
  BY <1>1 DEF ChatTypeOK, TasksGrow, chatVars
<1>4. SocketInv'
  BY <1>1 DEF SocketInv, Awaited, Last, chatVars
<1>5. MessageInv'
  BY <1>1, NothingNewUsed DEF FromBacklog
<1>6. BranchInv'
  <2> SUFFICES ASSUME NEW r \in RequestIds, Stored(r)', ~OnThread(r)',
                      ~InProgress(r)'
               PROVE  failures' > 0 \/ Outrun(r)'
    BY DEF BranchInv
  <2>1. Stored(r) /\ ~OnThread(r) /\ ~InProgress(r)
    BY DEF OnThread, ThreadGrows, InProgress
  <2>2. failures > 0 \/ Outrun(r)
    BY <1>1, <2>1 DEF BranchInv
  <2>3. ASSUME NEW o \in Others, OnThread(o),
               taskStore[o].pred = taskStore[r].pred
        PROVE  OnThread(o)' /\ taskStore'[o].pred = taskStore'[r].pred
    <3>1. Stored(o) /\ o \in TaskIds /\ r \in TaskIds
      BY <1>1, <2>3, NotLegacy DEF OnThread, ThreadInv
    <3> QED
      BY <2>1, <2>3, <3>1 DEF TasksGrow, OnThread, ThreadGrows
  <2> QED
    BY <2>2, <2>3 DEF Outrun
<1> QED
  BY <1>2, <1>3, <1>4, <1>5, <1>6 DEF ChatInv

LEMMA OtherTaskOk ==
  ASSUME ChatInv, NEW o \in Others, OtherTask(o)
  PROVE  ChatInv'
<1>1. ChatTypeOK /\ SocketInv /\ ThreadInv /\ ReplaceInv
  BY DEF ChatInv
<1>2. /\ TasksGrow /\ journal' = journal /\ ~OnThread(o)
      /\ \A u \in TaskIds : u # o => taskStore'[u] = taskStore[u]
  BY OtherTaskStores
<1>3. ThreadInv' /\ ThreadGrows /\ journal' \in Seq(TaskIds)
  BY <1>1, <1>2, ThreadUnmoved
<1>4. \A r \in RequestIds : taskStore'[r] = taskStore[r]
  BY <1>2, ChatAssumption DEF TaskIds
<1>5. UNCHANGED <<backlog, step, chatVars, result, failures>>
  BY DEF OtherTask
<1>6. \A k \in DOMAIN journal : taskStore'[journal[k]] = taskStore[journal[k]]
  BY <1>1, <1>2, JournalType DEF OnThread
<1>7. ReplaceInv'
  <2> SUFFICES ASSUME step = "replace" PROVE ReplaceInv'
    BY <1>5 DEF ReplaceInv
  <2>1. Head(backlog).attempt.request \in RequestIds
    BY <1>1, BacklogType, CommandOfSubmit DEF ReplaceInv
  <2> QED
    BY <1>1, <1>2, <1>4, <1>5, <1>6, <2>1 DEF ReplaceInv, Stored, OnThread
<1> QED
  BY <1>2, <1>3, <1>4, <1>5, <1>7, StoresOnly DEF Stored

LEMMA OtherHeadOk ==
  ASSUME ChatInv, NEW o \in Others, OtherHead(o)
  PROVE  ChatInv'
<1>1. ChatTypeOK /\ SocketInv /\ ThreadInv /\ ReplaceInv
  BY DEF ChatInv
<1>2. /\ TasksGrow /\ taskStore' = taskStore /\ ThreadInv' /\ ThreadGrows
      /\ journal' \in Seq(TaskIds) /\ Len(journal') = Len(journal) + 1
      /\ journal'[Len(journal) + 1] = o
  BY OtherHeadStores
<1>3. UNCHANGED <<backlog, step, chatVars, result, failures>>
  BY DEF OtherHead
<1>4. /\ Len(journal) \in Nat /\ DOMAIN journal = 1 .. Len(journal)
      /\ DOMAIN journal' = 1 .. Len(journal) + 1
  BY <1>1, <1>2, JournalType, LenProperties
<1>5. \A t : OnThread(t)' => OnThread(t) \/ t = o
  BY <1>2, <1>4 DEF OnThread, ThreadGrows
<1>6. ReplaceInv'
  <2> SUFFICES ASSUME step = "replace" PROVE ReplaceInv'
    BY <1>3 DEF ReplaceInv
  <2>1. PICK a : a = Head(backlog).attempt
    OBVIOUS
  <2>2. a.request \in RequestIds /\ a.request # o /\ a.rev \in Nat
    BY <1>1, <2>1, BacklogType, CommandOfSubmit, ChatAssumption DEF ReplaceInv
  <2>3. /\ backlog # <<>> /\ Head(backlog).op = "submit"
        /\ Stored(a.request) /\ ~OnThread(a.request)
        /\ taskStore[a.request].text = a.text
        /\ a.rev + 1 \in DOMAIN journal
        /\ taskStore[a.request].pred = journal[a.rev + 1]
        /\ a.rev + 2 \in DOMAIN journal => journal[a.rev + 2] \in Others
    BY <1>1, <2>1 DEF ReplaceInv
  <2>4. a.rev + 1 \in DOMAIN journal' /\ journal'[a.rev + 1] = journal[a.rev + 1]
    BY <1>2, <2>3 DEF ThreadGrows
  <2>5. a.rev + 2 \in DOMAIN journal' => journal'[a.rev + 2] \in Others
    <3>1. PICK i : i = a.rev + 2
      OBVIOUS
    <3>2. CASE i \in DOMAIN journal
      BY <1>2, <2>3, <3>1, <3>2 DEF ThreadGrows
    <3>3. CASE i \notin DOMAIN journal
      <4>1. i \in DOMAIN journal' => i = Len(journal) + 1
        BY <1>4, <3>3
      <4> QED
        BY <1>2, <3>1, <4>1
    <3> QED
      BY <3>2, <3>3
  <2>6. ~OnThread(a.request)'
    BY <1>5, <2>2, <2>3
  <2> QED
    BY <1>2, <1>3, <2>1, <2>3, <2>4, <2>5, <2>6 DEF ReplaceInv, Stored
<1> QED
  BY <1>2, <1>3, <1>6, StoresOnly DEF Stored

LEMMA RunTaskOk ==
  ASSUME ChatInv, NEW t \in TaskIds, RunTask(t)
  PROVE  ChatInv'
<1>1. ChatTypeOK /\ ThreadInv
  BY DEF ChatInv
<1>2. /\ TasksGrow /\ journal' = journal
      /\ \A u \in TaskIds : /\ taskStore'[u].text = taskStore[u].text
                            /\ Stored(u)' => Stored(u)
  BY RunTaskStores
<1>3. ThreadInv' /\ ThreadGrows /\ journal' \in Seq(TaskIds)
  BY <1>1, <1>2, ThreadUnmoved
<1>4. step = "idle" /\ UNCHANGED <<backlog, step, chatVars, result, failures>>
  BY DEF RunTask
<1>5. ReplaceInv'
  BY <1>4 DEF ReplaceInv
<1> QED
  BY <1>2, <1>3, <1>4, <1>5, StoresOnly DEF TaskIds

-----------------------------------------------------------------------------
(* The steps of the chat keep the invariant.                               *)

HeadKept ==
  backlog # <<>> => backlog' # <<>> /\ Head(backlog') = Head(backlog)

LEMMA ServiceKept ==
  ASSUME ChatInv, UNCHANGED serviceVars, failures' = failures, HeadKept
  PROVE  /\ ThreadInv' /\ ReplaceInv' /\ BranchInv'
         /\ taskStore' = taskStore /\ journal' = journal /\ step' = step
<1>1. taskStore' = taskStore /\ journal' = journal /\ step' = step
  BY DEF serviceVars
<1>2. ThreadInv'
  BY <1>1 DEF ChatInv, ThreadInv, Stored
<1>3. step = "replace" => Head(backlog') = Head(backlog) /\ backlog' # <<>>
  BY DEF ChatInv, ReplaceInv, HeadKept
<1>4. ReplaceInv'
  BY <1>1, <1>3 DEF ChatInv, ReplaceInv, Stored, OnThread
<1>5. BranchInv'
  BY <1>1, <1>3
     DEF ChatInv, BranchInv, InProgress, Outrun, Stored, OnThread
<1> QED
  BY <1>1, <1>2, <1>4, <1>5

LEMMA NobodyAwaited ==
  ASSUME SocketInv, phase = "prompt" \/ result # NoReply
  PROVE  ~Awaited
  BY DEF SocketInv

(* Asks(op, a): the chat makes its next call and waits for it.             *)
Asks(op, a) ==
  /\ ~Awaited /\ Call(op, a)
  /\ op \in {"head", "submit", "task"} /\ a \in Attempt
  /\ op = "head" => a = NoAttempt
  /\ op # "head" => a.request # NoTurn
  /\ op = "submit" => a.text # NoText
  /\ \/ phase' \in {"inspect", "refresh"} /\ op = "head"
     \/ phase' = "submit" /\ op = "submit" /\ a = attempt'
     \/ phase' = "poll" /\ op = "task" /\ a.request = attempt'.request

LEMMA AsksMoves ==
  ASSUME ChatInv, NEW op, NEW a, Asks(op, a)
  PROVE  /\ SocketInv' /\ HeadKept
         /\ backlog' \in Seq(Command) /\ Len(backlog') <= MaxBacklog
         /\ \A n \in DOMAIN backlog' : Valid(backlog'[n])
         /\ result' \in Reply \cup {NoReply} /\ Truthful(result)'
         /\ \A r \in RequestIds : \A m \in Messages :
              Used(r, m)' => \/ taskStore'[r].text = m
                             \/ Used(r, m)
                             \/ op = "submit" /\ a.request = r /\ a.text = m
<1>1. ChatTypeOK /\ SocketInv
  BY DEF ChatInv
<1>2. /\ backlog' \in Seq(Command) /\ Len(backlog') <= MaxBacklog
      /\ \A n \in DOMAIN backlog' : Valid(backlog'[n])
      /\ \A n \in DOMAIN backlog' : backlog'[n].live => n = Len(backlog')
      /\ Awaited' => /\ result' = NoReply
                     /\ Last(backlog)'.op = op /\ Last(backlog)'.attempt = a
      /\ result' \in {NoReply, Failed}
      /\ \A n \in DOMAIN backlog' :
           \/ n \in DOMAIN backlog /\ backlog'[n] = backlog[n]
           \/ backlog'[n].op = op /\ backlog'[n].attempt = a
      /\ backlog # <<>> => backlog' # <<>> /\ Head(backlog') = Head(backlog)
  BY <1>1, CallMoves DEF Asks
<1>3. SocketInv'
  BY <1>2 DEF SocketInv, Asks
<1>4. Truthful(result)' /\ result' \in Reply \cup {NoReply}
  BY <1>2 DEF Truthful, Failed, Reply
<1>5. HeadKept
  BY <1>2 DEF HeadKept
<1>6. ASSUME NEW r \in RequestIds, NEW m \in Messages, Used(r, m)'
      PROVE  \/ taskStore'[r].text = m \/ Used(r, m)
             \/ op = "submit" /\ a.request = r /\ a.text = m
  BY <1>2, <1>6 DEF Used
<1> QED
  BY <1>2, <1>3, <1>4, <1>5, <1>6

(* Rests: it has what it waited for and calls nobody.                      *)
Rests == ~Awaited /\ backlog' = backlog /\ result' = NoReply

LEMMA RestsMoves ==
  ASSUME ChatInv, Rests
  PROVE  /\ SocketInv' /\ HeadKept
         /\ backlog' \in Seq(Command) /\ Len(backlog') <= MaxBacklog
         /\ \A n \in DOMAIN backlog' : Valid(backlog'[n])
         /\ result' \in Reply \cup {NoReply} /\ Truthful(result)'
         /\ \A r \in RequestIds : \A m \in Messages :
              Used(r, m)' => taskStore'[r].text = m \/ Used(r, m)
<1>1. ChatTypeOK /\ SocketInv /\ backlog' = backlog /\ result' = NoReply
      /\ ~Awaited
  BY DEF ChatInv, Rests
<1>2. ~Awaited'
  BY <1>1 DEF Awaited, Last
<1>3. SocketInv'
  BY <1>1, <1>2 DEF SocketInv
<1> QED
  BY <1>1, <1>3 DEF ChatTypeOK, HeadKept, Truthful, Used

LEMMA AttemptType ==
  ASSUME ChatTypeOK
  PROVE  /\ NoAttempt \in Attempt
         /\ attempt \in Attempt /\ attempt.rev \in Nat
         /\ \A r \in RequestIds :
              /\ r # NoTurn
              /\ [attempt EXCEPT !.request = r] \in Attempt
              /\ [attempt EXCEPT !.request = r].request = r
<1>1. attempt \in Attempt
  BY DEF ChatTypeOK
<1>2. NoAttempt \in Attempt
  BY DEF NoAttempt, Attempt
<1>3. \A r \in RequestIds : r # NoTurn
  BY ChatAssumption DEF TaskIds
<1> QED
  BY <1>1, <1>2, <1>3 DEF Attempt

(* The user types a line, or asks for the message of a conflict again.     *)
LEMMA InspectsOk ==
  ASSUME ChatInv, NEW m \in Messages, phase = "prompt", ~ambiguous,
         m \notin typed \/ retained = m,
         typed' = typed \cup {m},
         draft' = m, retained' = NoText, phase' = "inspect",
         Call("head", NoAttempt),
         UNCHANGED <<serviceVars, attempt, ambiguous, late, told, failures>>
  PROVE  ChatInv'
<1>1. ChatTypeOK /\ SocketInv /\ MessageInv /\ NoText \notin Messages
  BY ChatAssumption DEF ChatInv
<1>2. Asks("head", NoAttempt)
  BY <1>1, NobodyAwaited, AttemptType DEF Asks
<1>3. /\ SocketInv' /\ HeadKept
      /\ backlog' \in Seq(Command) /\ Len(backlog') <= MaxBacklog
      /\ \A n \in DOMAIN backlog' : Valid(backlog'[n])
      /\ result' \in Reply \cup {NoReply} /\ Truthful(result)'
      /\ \A r \in RequestIds : \A k \in Messages :
           Used(r, k)' => taskStore'[r].text = k \/ Used(r, k)
  BY <1>2, AsksMoves
<1>4. /\ ThreadInv' /\ ReplaceInv' /\ BranchInv'
      /\ taskStore' = taskStore /\ journal' = journal /\ step' = step
  BY <1>3, ServiceKept
<1>5. ChatTypeOK'
  BY <1>1, <1>3, <1>4 DEF ChatTypeOK
<1>6. TryInv'
  BY DEF TryInv, Outstanding
<1>7. ReplyInv'
  BY <1>3 DEF ReplyInv
<1>8. \A r \in RequestIds : \A k \in Messages : Used(r, k)' => Used(r, k)
  BY <1>3, <1>4 DEF Used
<1>9. ASSUME NEW r \in RequestIds, Used(r, m)
      PROVE  told[r] = "conflict"
  BY <1>1, <1>9 DEF MessageInv, Reopenable
<1>10. MessageInv'
  <2> SUFFICES ASSUME NEW k \in Messages
               PROVE  /\ draft' = k => k \in typed'
                      /\ retained' # k
                      /\ \A r \in RequestIds :
                           Used(r, k)' =>
                             /\ k \in typed'
                             /\ k = m => told[r] = "conflict"
                             /\ \A q \in RequestIds : Used(q, k)' /\ q # r
                                  => "conflict" \in {told[r], told[q]}
    BY <1>1 DEF MessageInv, Reopenable, Outstanding
  <2> QED
    BY <1>1, <1>8, <1>9 DEF MessageInv
<1> QED
  BY <1>3, <1>4, <1>5, <1>6, <1>7, <1>10 DEF ChatInv

LEMMA SendLineOk ==
  ASSUME ChatInv, NEW m \in Messages, SendLine(m)
  PROVE  ChatInv'
  BY InspectsOk DEF SendLine

LEMMA RetryConflictOk ==
  ASSUME ChatInv, RetryConflict
  PROVE  ChatInv'
<1>1. retained \in Messages /\ retained \in typed
  BY DEF RetryConflict, ChatInv, ChatTypeOK, MessageInv
<1>2. typed' = typed \cup {retained}
  BY <1>1 DEF RetryConflict
<1> QED
  BY <1>1, <1>2, InspectsOk DEF RetryConflict

LEMMA RetryAmbiguousOk ==
  ASSUME ChatInv, RetryAmbiguous
  PROVE  ChatInv'
<1>1. ChatTypeOK /\ SocketInv /\ TryInv /\ ReplyInv /\ MessageInv
      /\ NoText \notin Messages
  BY ChatAssumption DEF ChatInv
<1>2. /\ phase = "prompt" /\ ambiguous /\ phase' = "submit"
      /\ Call("submit", attempt)
      /\ UNCHANGED <<serviceVars, draft, attempt, ambiguous, retained, late,
                     typed, told, failures>>
  BY DEF RetryAmbiguous
<1>3. /\ attempt.request \in RequestIds /\ attempt.text = draft
      /\ draft \in Messages /\ retained = NoText
  BY <1>1, <1>2 DEF TryInv, Outstanding
<1>4. Asks("submit", attempt)
  BY <1>1, <1>2, <1>3, NobodyAwaited, AttemptType DEF Asks
<1>5. /\ SocketInv' /\ HeadKept
      /\ backlog' \in Seq(Command) /\ Len(backlog') <= MaxBacklog
      /\ \A n \in DOMAIN backlog' : Valid(backlog'[n])
      /\ result' \in Reply \cup {NoReply} /\ Truthful(result)'
      /\ \A r \in RequestIds : \A m \in Messages :
           Used(r, m)' => \/ taskStore'[r].text = m \/ Used(r, m)
                          \/ attempt.request = r /\ attempt.text = m
  BY <1>4, AsksMoves
<1>6. /\ ThreadInv' /\ ReplaceInv' /\ BranchInv'
      /\ taskStore' = taskStore /\ journal' = journal /\ step' = step
  BY <1>2, <1>5, ServiceKept
<1>7. ChatTypeOK'
  BY <1>1, <1>2, <1>5, <1>6 DEF ChatTypeOK
<1>8. TryInv'
  BY <1>1, <1>2, <1>3, <1>6 DEF TryInv, Outstanding
<1>9. ReplyInv'
  BY <1>2, <1>5 DEF ReplyInv
<1>10. \A r \in RequestIds : \A m \in Messages :
         Used(r, m)' => Used(r, m) \/ (r = attempt.request /\ m = draft)
  BY <1>3, <1>5, <1>6 DEF Used
<1>11. draft \in typed
  BY <1>1, <1>2, <1>3 DEF MessageInv
<1>12. \A r \in RequestIds : Used(r, draft) /\ r # attempt.request
         => told[r] = "conflict"
  BY <1>1, <1>2, <1>3 DEF MessageInv, Outstanding
<1>13. MessageInv'
  <2> SUFFICES ASSUME NEW m \in Messages
               PROVE  /\ draft = m => m \in typed
                      /\ \A r \in RequestIds :
                           Used(r, m)' =>
                             /\ m \in typed
                             /\ draft = m /\ r # attempt.request
                                  => told[r] = "conflict"
                             /\ \A q \in RequestIds : Used(q, m)' /\ q # r
                                  => "conflict" \in {told[r], told[q]}
    BY <1>1, <1>2, <1>3 DEF MessageInv, Reopenable, Outstanding
  <2> QED
    BY <1>1, <1>10, <1>11, <1>12 DEF MessageInv
<1> QED
  BY <1>5, <1>6, <1>7, <1>8, <1>9, <1>13 DEF ChatInv

LEMMA QuitOk ==
  ASSUME ChatInv, Quit
  PROVE  ChatInv'
<1>1. /\ ChatTypeOK /\ SocketInv /\ ReplyInv /\ MessageInv
      /\ NoText \notin Messages
  BY ChatAssumption DEF ChatInv
<1>2. /\ phase = "prompt" /\ phase' = phase /\ ambiguous' = FALSE
      /\ retained' = NoText
      /\ UNCHANGED <<serviceVars, backlog, draft, attempt, result, late,
                     typed, told, failures>>
  BY DEF Quit
<1>3. HeadKept
  BY <1>2 DEF HeadKept
<1>4. /\ ThreadInv' /\ ReplaceInv' /\ BranchInv'
      /\ taskStore' = taskStore /\ journal' = journal /\ step' = step
  BY <1>2, <1>3, ServiceKept
<1>5. ChatTypeOK'
  BY <1>1, <1>2, <1>4 DEF ChatTypeOK
<1>6. SocketInv'
  BY <1>1, <1>2 DEF SocketInv, Awaited, Last
<1>7. TryInv' /\ ReplyInv'
  BY <1>1, <1>2, <1>4 DEF TryInv, Outstanding, ReplyInv, Truthful
<1>8. \A r \in RequestIds : \A m \in Messages : Used(r, m)' => Used(r, m)
  BY <1>2, <1>4 DEF Used
<1>9. MessageInv'
  BY <1>1, <1>2, <1>8 DEF MessageInv, Reopenable, Outstanding
<1> QED
  BY <1>4, <1>5, <1>6, <1>7, <1>9 DEF ChatInv

(* The head is known: the attempt is made on it, or there is none to make. *)
LEMMA InspectedOk ==
  ASSUME ChatInv, Inspected
  PROVE  ChatInv'
<1>1. ChatTypeOK /\ SocketInv /\ TryInv /\ ReplyInv /\ MessageInv
      /\ NoText \notin Messages
  BY ChatAssumption DEF ChatInv
<1>2. /\ phase = "inspect" /\ result # NoReply /\ draft \in Messages
      /\ ~ambiguous /\ retained = NoText
      /\ UNCHANGED <<serviceVars, draft, ambiguous, retained, late, typed,
                     told, failures>>
  BY <1>1 DEF Inspected, Returned, TryInv
<1>3. draft \in typed
      /\ \A r \in RequestIds : Used(r, draft) => told[r] = "conflict"
  BY <1>1, <1>2 DEF MessageInv, Reopenable
<1>4. ~Awaited
  BY <1>1, <1>2, NobodyAwaited
<1>5. ASSUME NEW r \in FreshRequests, NEW a, result.code = 0,
             a = [request |-> r, text |-> draft, rev |-> result.rev,
                  head |-> result.task],
             attempt' = a, Call("submit", a), phase' = "submit"
      PROVE  ChatInv'
  <2>1. r \in RequestIds /\ told[r] = "none" /\ r # NoTurn
    BY <1>1, AttemptType DEF FreshRequests
  <2>2. /\ result.rev + 1 \in DOMAIN journal
        /\ result.task = journal[result.rev + 1]
    BY <1>1, <1>2, <1>5 DEF ReplyInv, Truthful
  <2>3. a \in Attempt
    <3>1. result \in Reply
      BY <1>1, <1>2 DEF ChatTypeOK
    <3> QED
      BY <1>2, <1>5, <2>1, <3>1 DEF Reply, Attempt
  <2>4. a.request = r /\ a.text = draft /\ a.rev = result.rev
        /\ a.head = result.task
    BY <1>5
  <2>5. Asks("submit", a)
    BY <1>1, <1>2, <1>4, <1>5, <2>1, <2>3, <2>4 DEF Asks
  <2>6. /\ SocketInv' /\ HeadKept
        /\ backlog' \in Seq(Command) /\ Len(backlog') <= MaxBacklog
        /\ \A n \in DOMAIN backlog' : Valid(backlog'[n])
        /\ result' \in Reply \cup {NoReply} /\ Truthful(result)'
        /\ \A q \in RequestIds : \A m \in Messages :
             Used(q, m)' => \/ taskStore'[q].text = m \/ Used(q, m)
                            \/ a.request = q /\ a.text = m
    BY <2>5, AsksMoves
  <2>7. /\ ThreadInv' /\ ReplaceInv' /\ BranchInv'
        /\ taskStore' = taskStore /\ journal' = journal /\ step' = step
    BY <1>2, <2>6, ServiceKept
  <2>8. ChatTypeOK'
    BY <1>1, <1>2, <1>5, <2>3, <2>6, <2>7 DEF ChatTypeOK
  <2>9. TryInv'
    BY <1>2, <1>5, <2>1, <2>2, <2>4, <2>7 DEF TryInv, Outstanding
  <2>10. ReplyInv'
    BY <1>5, <2>6 DEF ReplyInv
  <2>11. \A q \in RequestIds : \A m \in Messages :
           Used(q, m)' => Used(q, m) \/ (q = r /\ m = draft)
    BY <2>4, <2>6, <2>7 DEF Used
  <2>12. MessageInv'
    <3> SUFFICES ASSUME NEW m \in Messages
                 PROVE  /\ draft = m => m \in typed
                        /\ \A q \in RequestIds :
                             Used(q, m)' =>
                               /\ m \in typed
                               /\ draft = m /\ q # r => told[q] = "conflict"
                               /\ \A s \in RequestIds : Used(s, m)' /\ s # q
                                    => "conflict" \in {told[q], told[s]}
      BY <1>1, <1>2, <1>5, <2>4 DEF MessageInv, Reopenable, Outstanding
    <3> QED
      BY <1>1, <1>3, <2>11 DEF MessageInv
  <2> QED
    BY <2>6, <2>7, <2>8, <2>9, <2>10, <2>12 DEF ChatInv
<1>6. ASSUME phase' = "prompt", result' = NoReply,
      UNCHANGED <<attempt, backlog>>
      PROVE  ChatInv'
  <2>1. Rests
    BY <1>4, <1>6 DEF Rests
  <2>2. /\ SocketInv' /\ HeadKept
        /\ backlog' \in Seq(Command) /\ Len(backlog') <= MaxBacklog
        /\ \A n \in DOMAIN backlog' : Valid(backlog'[n])
        /\ result' \in Reply \cup {NoReply} /\ Truthful(result)'
        /\ \A r \in RequestIds : \A m \in Messages :
             Used(r, m)' => taskStore'[r].text = m \/ Used(r, m)
    BY <2>1, RestsMoves
  <2>3. /\ ThreadInv' /\ ReplaceInv' /\ BranchInv'
        /\ taskStore' = taskStore /\ journal' = journal /\ step' = step
    BY <1>2, <2>2, ServiceKept
  <2>4. ChatTypeOK'
    BY <1>1, <1>2, <1>6, <2>2, <2>3 DEF ChatTypeOK
  <2>5. TryInv' /\ ReplyInv'
    BY <1>2, <1>6, <2>2 DEF TryInv, Outstanding, ReplyInv
  <2>6. \A r \in RequestIds : \A m \in Messages : Used(r, m)' => Used(r, m)
    BY <2>2, <2>3 DEF Used
  <2>7. MessageInv'
    BY <1>1, <1>2, <1>6, <2>6 DEF MessageInv, Reopenable, Outstanding
  <2> QED
    BY <2>2, <2>3, <2>4, <2>5, <2>7 DEF ChatInv
<1> QED
  <2>1. CASE /\ result.code = 0 /\ FreshRequests # {}
             /\ attempt' = [request |-> NewRequest, text |-> draft,
                            rev |-> result.rev, head |-> result.task]
             /\ Call("submit", attempt')
             /\ phase' = "submit"
    <3>1. NewRequest \in FreshRequests
      BY <2>1 DEF NewRequest
    <3> QED
      BY <1>5, <2>1, <3>1
  <2> QED
    BY <1>6, <2>1 DEF Inspected

LEMMA RefreshedOk ==
  ASSUME ChatInv, Refreshed
  PROVE  ChatInv'
<1>1. ChatTypeOK /\ SocketInv /\ TryInv /\ MessageInv /\ NoText \notin Messages
  BY ChatAssumption DEF ChatInv
<1>2. /\ phase = "refresh" /\ result # NoReply /\ draft \in Messages
      /\ ~ambiguous /\ retained' = draft /\ phase' = "prompt"
      /\ result' = NoReply
      /\ UNCHANGED <<serviceVars, backlog, draft, attempt, ambiguous, late,
                     typed, told, failures>>
  BY <1>1 DEF Refreshed, Returned, TryInv
<1>3. draft \in typed
      /\ \A r \in RequestIds : Used(r, draft) => told[r] = "conflict"
  BY <1>1, <1>2 DEF MessageInv, Reopenable
<1>4. Rests
  BY <1>1, <1>2, NobodyAwaited DEF Rests
<1>5. /\ SocketInv' /\ HeadKept
      /\ backlog' \in Seq(Command) /\ Len(backlog') <= MaxBacklog
      /\ \A n \in DOMAIN backlog' : Valid(backlog'[n])
      /\ result' \in Reply \cup {NoReply} /\ Truthful(result)'
      /\ \A r \in RequestIds : \A m \in Messages :
           Used(r, m)' => taskStore'[r].text = m \/ Used(r, m)
  BY <1>4, RestsMoves
<1>6. /\ ThreadInv' /\ ReplaceInv' /\ BranchInv'
      /\ taskStore' = taskStore /\ journal' = journal /\ step' = step
  BY <1>2, <1>5, ServiceKept
<1>7. ChatTypeOK'
  BY <1>1, <1>2, <1>5, <1>6 DEF ChatTypeOK
<1>8. TryInv' /\ ReplyInv'
  BY <1>2, <1>5 DEF TryInv, Outstanding, ReplyInv
<1>9. \A r \in RequestIds : \A m \in Messages : Used(r, m)' => Used(r, m)
  BY <1>5, <1>6 DEF Used
<1>10. MessageInv'
  BY <1>1, <1>2, <1>3, <1>9 DEF MessageInv, Reopenable, Outstanding
<1> QED
  BY <1>5, <1>6, <1>7, <1>8, <1>10 DEF ChatInv

LEMMA DeadlinePassesOk ==
  ASSUME ChatInv, DeadlinePasses
  PROVE  ChatInv'
<1>1. ChatTypeOK /\ SocketInv /\ TryInv /\ ReplyInv /\ MessageInv
  BY DEF ChatInv
<1>2. /\ late' = TRUE
      /\ UNCHANGED <<serviceVars, backlog, phase, draft, attempt, ambiguous,
                     retained, result, typed, told, failures>>
  BY DEF DeadlinePasses
<1>3. HeadKept
  BY <1>2 DEF HeadKept
<1>4. /\ ThreadInv' /\ ReplaceInv' /\ BranchInv'
      /\ taskStore' = taskStore /\ journal' = journal /\ step' = step
  BY <1>2, <1>3, ServiceKept
<1>5. ChatTypeOK'
  BY <1>1, <1>2, <1>4 DEF ChatTypeOK
<1>6. SocketInv'
  BY <1>1, <1>2 DEF SocketInv, Awaited, Last
<1>7. TryInv'
  BY <1>1, <1>2, <1>4 DEF TryInv, Outstanding
<1>8. Landed' = Landed
  BY <1>2, <1>4 DEF Landed, OnThread
<1>9. ReplyInv'
  BY <1>1, <1>2, <1>4, <1>8 DEF ReplyInv, Truthful
<1>10. \A r \in RequestIds : \A m \in Messages : Used(r, m)' => Used(r, m)
  BY <1>2, <1>4 DEF Used
<1>11. MessageInv'
  BY <1>1, <1>2, <1>10 DEF MessageInv, Reopenable, Outstanding
<1> QED
  BY <1>4, <1>5, <1>6, <1>7, <1>9, <1>11 DEF ChatInv

(* The last word about a request is said once; said of it, "conflict" opens*)
(* its message again and every other word closes it.                       *)
LEMMA ToldMoves ==
  ASSUME ChatInv, Outstanding, NEW verdict \in Verdict, Tell(verdict)
  PROVE  /\ told' \in [RequestIds -> Verdict]
         /\ attempt.request \in RequestIds /\ told'[attempt.request] = verdict
         /\ \A r \in RequestIds : r # attempt.request => told'[r] = told[r]
         /\ \A r \in RequestIds : told[r] = "conflict" => told'[r] = "conflict"
<1>1. /\ told \in [RequestIds -> Verdict] /\ attempt.request \in RequestIds
      /\ told[attempt.request] # "conflict"
  BY DEF ChatInv, ChatTypeOK, TryInv
<1>2. told' = [told EXCEPT ![attempt.request] = verdict]
  BY DEF Tell
<1>3. /\ told' \in [RequestIds -> Verdict] /\ told'[attempt.request] = verdict
      /\ \A r \in RequestIds : r # attempt.request => told'[r] = told[r]
  BY <1>1, <1>2
<1> QED
  BY <1>1, <1>3

(* The user gets the prompt back, with a word about the request.           *)
LEMMA SettlesOk ==
  ASSUME ChatInv, phase \in {"submit", "poll"}, result # NoReply,
         NEW verdict \in Verdict, verdict # "conflict", Tell(verdict),
         phase' = "prompt", result' = NoReply, ambiguous' \in BOOLEAN,
         ambiguous' => verdict = "transport_ambiguous", retained' = NoText,
         UNCHANGED <<serviceVars, backlog, draft, attempt, late, typed,
                   failures>>
  PROVE  ChatInv'
<1>1. ChatTypeOK /\ SocketInv /\ TryInv /\ MessageInv /\ Outstanding
      /\ NoText \notin Messages
  BY ChatAssumption DEF ChatInv, Outstanding
<1>2. /\ told' \in [RequestIds -> Verdict]
      /\ attempt.request \in RequestIds /\ told'[attempt.request] = verdict
      /\ \A r \in RequestIds : told[r] = "conflict" => told'[r] = "conflict"
  BY <1>1, ToldMoves
<1>3. Rests
  BY <1>1, NobodyAwaited DEF Rests
<1>4. /\ SocketInv' /\ HeadKept
      /\ backlog' \in Seq(Command) /\ Len(backlog') <= MaxBacklog
      /\ \A n \in DOMAIN backlog' : Valid(backlog'[n])
      /\ result' \in Reply \cup {NoReply} /\ Truthful(result)'
      /\ \A r \in RequestIds : \A m \in Messages :
           Used(r, m)' => taskStore'[r].text = m \/ Used(r, m)
  BY <1>3, RestsMoves
<1>5. /\ ThreadInv' /\ ReplaceInv' /\ BranchInv'
      /\ taskStore' = taskStore /\ journal' = journal /\ step' = step
  BY <1>4, ServiceKept
<1>6. ChatTypeOK'
  BY <1>1, <1>2, <1>4, <1>5 DEF ChatTypeOK
<1>7. TryInv'
  BY <1>1, <1>2, <1>5 DEF TryInv, Outstanding
<1>8. ReplyInv'
  BY <1>4 DEF ReplyInv
<1>9. \A r \in RequestIds : \A m \in Messages : Used(r, m)' => Used(r, m)
  BY <1>4, <1>5 DEF Used
<1>10. MessageInv'
  <2> SUFFICES ASSUME NEW m \in Messages
               PROVE  /\ ambiguous' /\ draft = m => m \in typed
                      /\ \A r \in RequestIds :
                           Used(r, m)' =>
                             /\ m \in typed
                             /\ draft = m /\ r # attempt.request
                                  => told'[r] = "conflict"
                             /\ \A q \in RequestIds : Used(q, m)' /\ q # r
                                  => "conflict" \in {told'[r], told'[q]}
    BY <1>1 DEF MessageInv, Reopenable, Outstanding
  <2> QED
    BY <1>1, <1>2, <1>9 DEF MessageInv
<1> QED
  BY <1>4, <1>5, <1>6, <1>7, <1>8, <1>10 DEF ChatInv

(* The conflict is told and the head asked for again.                      *)
LEMMA ConflictOk ==
  ASSUME ChatInv, phase = "submit", result # NoReply, Tell("conflict"),
         phase' = "refresh", ambiguous' = FALSE, Call("head", NoAttempt),
         UNCHANGED <<serviceVars, draft, attempt, late, retained, typed,
                   failures>>
  PROVE  ChatInv'
<1>1. ChatTypeOK /\ SocketInv /\ TryInv /\ MessageInv /\ Outstanding
      /\ NoText \notin Messages /\ retained = NoText /\ draft \in Messages
  BY ChatAssumption DEF ChatInv, Outstanding, TryInv
<1>2. /\ told' \in [RequestIds -> Verdict]
      /\ attempt.request \in RequestIds /\ told'[attempt.request] = "conflict"
      /\ \A r \in RequestIds : told[r] = "conflict" => told'[r] = "conflict"
  BY <1>1, ToldMoves DEF Verdict
<1>3. Asks("head", NoAttempt)
  BY <1>1, NobodyAwaited, AttemptType DEF Asks
<1>4. /\ SocketInv' /\ HeadKept
      /\ backlog' \in Seq(Command) /\ Len(backlog') <= MaxBacklog
      /\ \A n \in DOMAIN backlog' : Valid(backlog'[n])
      /\ result' \in Reply \cup {NoReply} /\ Truthful(result)'
      /\ \A r \in RequestIds : \A m \in Messages :
           Used(r, m)' => taskStore'[r].text = m \/ Used(r, m)
  BY <1>3, AsksMoves
<1>5. /\ ThreadInv' /\ ReplaceInv' /\ BranchInv'
      /\ taskStore' = taskStore /\ journal' = journal /\ step' = step
  BY <1>4, ServiceKept
<1>6. ChatTypeOK'
  BY <1>1, <1>2, <1>4, <1>5 DEF ChatTypeOK
<1>7. TryInv'
  BY <1>1, <1>2, <1>5 DEF TryInv, Outstanding
<1>8. ReplyInv'
  BY <1>4 DEF ReplyInv
<1>9. \A r \in RequestIds : \A m \in Messages : Used(r, m)' => Used(r, m)
  BY <1>4, <1>5 DEF Used
<1>10. MessageInv'
  <2> SUFFICES ASSUME NEW m \in Messages
               PROVE  /\ draft = m => m \in typed
                      /\ \A r \in RequestIds :
                           Used(r, m)' =>
                             /\ m \in typed
                             /\ draft = m => told'[r] = "conflict"
                             /\ \A q \in RequestIds : Used(q, m)' /\ q # r
                                  => "conflict" \in {told'[r], told'[q]}
    BY <1>1 DEF MessageInv, Reopenable, Outstanding
  <2> QED
    BY <1>1, <1>2, <1>9 DEF MessageInv
<1> QED
  BY <1>4, <1>5, <1>6, <1>7, <1>8, <1>10 DEF ChatInv

(* The turn is on the thread: the chat waits for its answer.               *)
LEMMA PollsOk ==
  ASSUME ChatInv, phase \in {"submit", "poll"}, result # NoReply,
         result.code = 0, phase' = "poll", ambiguous' = FALSE,
           late' \in BOOLEAN,
         Call("task", [attempt EXCEPT !.request = result.task]),
         UNCHANGED <<serviceVars, draft, attempt, retained, typed, told,
                   failures>>
  PROVE  ChatInv'
<1>1. ChatTypeOK /\ SocketInv /\ TryInv /\ ReplyInv /\ MessageInv /\ Outstanding
      /\ NoText \notin Messages /\ retained = NoText /\ draft \in Messages
      /\ attempt.request \in RequestIds
  BY ChatAssumption DEF ChatInv, Outstanding, TryInv
<1>2. result.task = attempt.request /\ Landed
  BY <1>1 DEF ReplyInv, Truthful
<1> PICK a : a = [attempt EXCEPT !.request = result.task]
  OBVIOUS
<1>3. a \in Attempt /\ a.request = attempt.request /\ a.request # NoTurn
  BY <1>1, <1>2, AttemptType
<1>4. Asks("task", a)
  BY <1>1, <1>3, NobodyAwaited DEF Asks
<1>5. /\ SocketInv' /\ HeadKept
      /\ backlog' \in Seq(Command) /\ Len(backlog') <= MaxBacklog
      /\ \A n \in DOMAIN backlog' : Valid(backlog'[n])
      /\ result' \in Reply \cup {NoReply} /\ Truthful(result)'
      /\ \A r \in RequestIds : \A m \in Messages :
           Used(r, m)' => taskStore'[r].text = m \/ Used(r, m)
  BY <1>4, AsksMoves
<1>6. /\ ThreadInv' /\ ReplaceInv' /\ BranchInv'
      /\ taskStore' = taskStore /\ journal' = journal /\ step' = step
  BY <1>5, ServiceKept
<1>7. ChatTypeOK'
  BY <1>1, <1>5, <1>6 DEF ChatTypeOK
<1>8. TryInv'
  BY <1>1, <1>6 DEF TryInv, Outstanding
<1>9. Landed'
  BY <1>2, <1>6 DEF Landed, OnThread
<1>10. ReplyInv'
  BY <1>5, <1>9 DEF ReplyInv
<1>11. \A r \in RequestIds : \A m \in Messages : Used(r, m)' => Used(r, m)
  BY <1>5, <1>6 DEF Used
<1>12. MessageInv'
  BY <1>1, <1>11 DEF MessageInv, Reopenable, Outstanding
<1> QED
  BY <1>5, <1>6, <1>7, <1>8, <1>10, <1>12 DEF ChatInv

LEMMA SubmitAnsweredOk ==
  ASSUME ChatInv, SubmitAnswered
  PROVE  ChatInv'
<1>1. /\ phase = "submit" /\ result # NoReply /\ retained = NoText
      /\ late \in BOOLEAN
      /\ UNCHANGED <<serviceVars, draft, attempt, retained, typed, failures>>
      /\ ambiguous' = (result.code = 1)
  BY DEF SubmitAnswered, Returned, ChatInv, TryInv, ChatTypeOK
<1>2. ASSUME result.code = 1, Tell("transport_ambiguous"), phase' = "prompt",
             result' = NoReply, UNCHANGED <<backlog, late>>
      PROVE  ChatInv'
  <2>1. ambiguous' \in BOOLEAN /\ "transport_ambiguous" \in Verdict
    BY <1>1 DEF Verdict
  <2>2. retained' = NoText
    BY <1>1
  <2>3. UNCHANGED <<serviceVars, backlog, draft, attempt, late, typed,
        failures>>
    BY <1>1, <1>2
  <2> QED
    BY <1>1, <1>2, <2>1, <2>2, <2>3, SettlesOk
<1>3. ASSUME result.code = 4, Tell("conflict"), phase' = "refresh",
             Call("head", NoAttempt), UNCHANGED late
      PROVE  ChatInv'
  <2>1. ambiguous' = FALSE
    <3>1. result.code # 1
      BY <1>3
    <3> QED
      BY <1>1, <3>1, Zenon
  <2>2. UNCHANGED <<serviceVars, draft, attempt, late, retained, typed,
        failures>>
    BY <1>1, <1>3
  <2> QED
    BY <1>1, <1>3, <2>1, <2>2, ConflictOk
<1>4. ASSUME result.code = 0, phase' = "poll", late' = FALSE,
             Call("task", [attempt EXCEPT !.request = result.task]),
             UNCHANGED told
      PROVE  ChatInv'
  <2>1. ambiguous' = FALSE /\ late' \in BOOLEAN
    <3>1. result.code # 1
      BY <1>4
    <3>2. ambiguous' = FALSE
      BY <1>1, <3>1, Zenon
    <3> QED
      BY <1>4, <3>2
  <2>2. UNCHANGED <<serviceVars, draft, attempt, retained, typed, told,
        failures>>
    BY <1>1, <1>4
  <2> QED
    BY <1>1, <1>4, <2>1, <2>2, PollsOk
<1>5. ~(result.code = 0 /\ result.rev # attempt.rev + 1)
  BY <1>1 DEF ChatInv, ReplyInv, Truthful
<1> QED
  BY <1>2, <1>3, <1>4, <1>5 DEF SubmitAnswered

(* Observed: what it says of the Task, and to whom.                        *)
LEMMA ObservedMoves ==
  ASSUME ChatInv, Observed
  PROVE  /\ phase = "poll" /\ result # NoReply /\ ~ambiguous
         /\ retained = NoText /\ attempt.request \in RequestIds /\ Landed
         /\ UNCHANGED <<serviceVars, draft, attempt, ambiguous, late, typed,
                        failures>>
         /\ \/ \E verdict \in {"timeout", "succeeded", "terminal_failure"} :
                 /\ Tell(verdict) /\ phase' = "prompt" /\ result' = NoReply
                 /\ retained' = NoText /\ UNCHANGED backlog
                 /\ verdict # "timeout" =>
                      taskStore[attempt.request].status =
                        IF verdict = "succeeded" THEN "succeeded" ELSE "failed"
            \/ /\ result.code = 0
               /\ Call("task", [attempt EXCEPT !.request = result.task])
               /\ UNCHANGED <<phase, told, retained>>
<1> DEFINE status == IF result.code = 0 THEN taskStore[result.task].status
                     ELSE "none"
           Ends(verdict) == /\ Tell(verdict)
                            /\ phase' = "prompt" /\ result' = NoReply
                            /\ retained' = IF verdict = "succeeded" THEN NoText
                                           ELSE retained
                            /\ UNCHANGED backlog
<1>1. /\ phase = "poll" /\ result # NoReply
      /\ UNCHANGED <<serviceVars, draft, attempt, ambiguous, late, typed,
                     failures>>
  BY DEF Observed, Returned
<1>2. /\ ~ambiguous /\ retained = NoText /\ attempt.request \in RequestIds
      /\ Landed /\ (result.code = 0 => result.task = attempt.request)
  BY <1>1 DEF ChatInv, TryInv, Outstanding, ReplyInv, Truthful
<1>3. \/ result.code = 1 /\ Ends("timeout")
      \/ /\ status = "succeeded"
         /\ Ends(IF Response(result.task) THEN "succeeded" ELSE "invalid_reply")
      \/ status = "failed" /\ Ends("terminal_failure")
      \/ status = "queued" /\ Ends("timeout")
      \/ /\ status = "queued"
         /\ Call("task", [attempt EXCEPT !.request = result.task])
         /\ UNCHANGED <<phase, told, retained>>
  BY DEF Observed
<1>4. status \in {"succeeded", "failed", "queued"} =>
        /\ result.code = 0 /\ result.task = attempt.request
        /\ taskStore[attempt.request].status = status
  BY <1>2
<1>5. ASSUME status = "succeeded"
      PROVE  Response(result.task)
  BY <1>2, <1>4, <1>5 DEF Response, Landed
<1>6. \A verdict : Ends(verdict) => /\ Tell(verdict) /\ phase' = "prompt"
                                    /\ result' = NoReply /\ retained' = NoText
                                    /\ UNCHANGED backlog
  BY <1>2
<1> HIDE DEF Ends, status
<1> QED
  BY <1>1, <1>2, <1>3, <1>4, <1>5, <1>6

LEMMA ObservedOk ==
  ASSUME ChatInv, Observed
  PROVE  ChatInv'
<1>1. /\ phase = "poll" /\ result # NoReply /\ ~ambiguous
      /\ UNCHANGED <<serviceVars, draft, attempt, ambiguous, late, typed,
                     failures>>
  BY ObservedMoves
<1>2. late' \in BOOLEAN /\ ambiguous' = FALSE
  BY <1>1 DEF ChatInv, ChatTypeOK
<1>3. ASSUME NEW verdict \in {"timeout", "succeeded", "terminal_failure"},
             Tell(verdict), phase' = "prompt", result' = NoReply,
             retained' = NoText, UNCHANGED backlog
      PROVE  ChatInv'
  <2>1. verdict \in Verdict /\ verdict # "conflict"
    BY DEF Verdict
  <2>2. UNCHANGED <<serviceVars, backlog, draft, attempt, late, typed,
        failures>>
    BY <1>1, <1>3
  <2> QED
    BY <1>1, <1>2, <1>3, <2>1, <2>2, SettlesOk
<1>4. ASSUME result.code = 0, UNCHANGED <<phase, told, retained>>,
             Call("task", [attempt EXCEPT !.request = result.task])
      PROVE  ChatInv'
  <2>1. UNCHANGED <<serviceVars, draft, attempt, retained, typed, told,
        failures>>
    BY <1>1, <1>4
  <2>2. phase' = "poll"
    BY <1>1, <1>4
  <2> QED
    BY <1>1, <1>2, <1>4, <2>1, <2>2, PollsOk
<1> QED
  BY <1>3, <1>4, ObservedMoves

-----------------------------------------------------------------------------
(* The invariant holds.                                                    *)

LegacyIndex(t) == CHOOSE k \in DOMAIN Legacy : Legacy[k] = t

LEMMA LegacyIndexed ==
  ASSUME NEW t \in LegacyTasks
  PROVE  LegacyIndex(t) \in DOMAIN Legacy /\ Legacy[LegacyIndex(t)] = t
<1>1. \E k \in DOMAIN Legacy : Legacy[k] = t
  BY DEF LegacyTasks
<1> QED
  BY <1>1 DEF LegacyIndex

Unsubmitted == [status |-> "absent", turn |-> 0, text |-> NoText,
                pred |-> NoTurn, size |-> 1]

LEMMA InitStores ==
  ASSUME ChatInit
  PROVE  \E sizes \in [LegacyTasks -> Sizes] :
           /\ taskStore \in [TaskIds -> Dialogue]
           /\ \A t \in LegacyTasks :
                taskStore[t] = LegacyTurn(LegacyIndex(t), sizes[t])
           /\ \A t \in RequestIds \cup Others : taskStore[t] = Unsubmitted
<1>1. PICK sizes \in [LegacyTasks -> Sizes] :
        taskStore = [t \in TaskIds |->
          IF t \in LegacyTasks THEN LegacyTurn(LegacyIndex(t), sizes[t])
          ELSE Unsubmitted]
  BY DEF ChatInit, LegacyIndex, Unsubmitted
<1>2. \A t \in LegacyTasks : t \in TaskIds
  BY DEF TaskIds
<1>3. ASSUME NEW t \in LegacyTasks
      PROVE  LegacyTurn(LegacyIndex(t), sizes[t]) \in Dialogue
  <2>1. PICK k \in DOMAIN Legacy : k = LegacyIndex(t)
    BY LegacyIndexed
  <2>2. k \in 1 .. Len(Legacy) /\ Len(Legacy) \in Nat
    BY LegacyType
  <2>3. k - 1 \in Nat
    BY <2>2
  <2>4. (IF k = 1 THEN NoTurn ELSE Legacy[k - 1]) \in TaskIds \cup {NoTurn}
    <3>1. k # 1 => k - 1 \in DOMAIN Legacy
      BY <2>2, LegacyType
    <3> QED
      BY <3>1, <1>2, LegacyType
  <2>5. sizes[t] \in Sizes
    OBVIOUS
  <2> QED
    BY <2>1, <2>3, <2>4, <2>5 DEF LegacyTurn, Dialogue, Status
<1>4. Unsubmitted \in Dialogue
  BY ChatAssumption DEF Unsubmitted, Dialogue, Status
<1>5. taskStore \in [TaskIds -> Dialogue]
  BY <1>1, <1>3, <1>4
<1>6. \A t \in RequestIds \cup Others : taskStore[t] = Unsubmitted
  BY <1>1, NotLegacy
<1>7. \A t \in LegacyTasks : taskStore[t] = LegacyTurn(LegacyIndex(t), sizes[t])
  BY <1>1, <1>2
<1> QED
  BY <1>5, <1>6, <1>7

LEMMA InitChat == ChatInit => ChatInv
<1> SUFFICES ASSUME ChatInit PROVE ChatInv
  OBVIOUS
<1>1. PICK sizes \in [LegacyTasks -> Sizes] :
        /\ taskStore \in [TaskIds -> Dialogue]
        /\ \A t \in LegacyTasks :
             taskStore[t] = LegacyTurn(LegacyIndex(t), sizes[t])
        /\ \A t \in RequestIds \cup Others : taskStore[t] = Unsubmitted
  BY InitStores
<1>2. /\ journal = <<Last(Legacy)>> /\ backlog = <<>> /\ step = "idle"
      /\ phase = "prompt" /\ draft = NoText /\ attempt = NoAttempt
      /\ ambiguous = FALSE /\ retained = NoText /\ result = NoReply
      /\ late = FALSE /\ typed = {} /\ told = [r \in RequestIds |-> "none"]
      /\ failures = 0
  BY DEF ChatInit
<1>3. /\ journal \in Seq(TaskIds) /\ journal # <<>>
      /\ DOMAIN journal = {1} /\ journal[1] = Last(Legacy)
  BY <1>2, LegacyType
<1>4. backlog \in Seq(Command) /\ Len(backlog) = 0 /\ DOMAIN backlog = {}
  BY <1>2
<1>5. ChatTypeOK
  <2>1. NoAttempt \in Attempt
    BY DEF NoAttempt, Attempt
  <2>2. told \in [RequestIds -> Verdict] /\ 0 \in 0 .. MaxFailures
        /\ Len(backlog) <= MaxBacklog
    BY <1>2, <1>4, BoundsNatural DEF Verdict
  <2> QED
    BY <1>1, <1>2, <1>3, <1>4, <2>1, <2>2 DEF ChatTypeOK
<1>6. ~Awaited /\ SocketInv
  BY <1>2, <1>4 DEF SocketInv, Awaited
<1>7. \A t \in LegacyTasks : taskStore[t].status = "succeeded"
  <2>1. \A k, size : LegacyTurn(k, size).status = "succeeded"
    BY DEF LegacyTurn
  <2> QED
    BY <1>1, <2>1
<1>8. ThreadInv
  BY <1>3, <1>7, LegacyType DEF ThreadInv, Stored
<1>9. TryInv /\ ReplyInv /\ ReplaceInv
  BY <1>2 DEF TryInv, Outstanding, ReplyInv, Truthful, ReplaceInv
<1>10. \A r \in RequestIds : taskStore[r].status = "absent"
                             /\ taskStore[r].text = NoText
  BY <1>1 DEF Unsubmitted
<1>11. MessageInv
  <2>1. NoText \notin Messages
    BY ChatAssumption
  <2>2. \A r \in RequestIds : \A m \in Messages : ~Used(r, m)
    BY <1>4, <1>10, <2>1 DEF Used
  <2> QED
    BY <1>2, <2>1, <2>2 DEF MessageInv
<1>12. BranchInv
  BY <1>10 DEF BranchInv, Stored
<1> QED
  BY <1>5, <1>6, <1>8, <1>9, <1>11, <1>12 DEF ChatInv

LEMMA IdleChatOk == ChatInv /\ UNCHANGED allVars => ChatInv'
<1> SUFFICES ASSUME ChatInv, UNCHANGED allVars PROVE ChatInv'
  OBVIOUS
<1>1. /\ taskStore' = taskStore /\ journal' = journal /\ backlog' = backlog
      /\ step' = step /\ phase' = phase /\ draft' = draft
      /\ attempt' = attempt /\ ambiguous' = ambiguous
      /\ retained' = retained /\ result' = result /\ late' = late
      /\ typed' = typed /\ told' = told /\ failures' = failures
  BY DEF allVars
<1>2. ChatTypeOK' /\ SocketInv' /\ ThreadInv'
  BY <1>1 DEF ChatInv, ChatTypeOK, SocketInv, Awaited, Last, ThreadInv, Stored
<1>3. Landed' = Landed /\ Outstanding' = Outstanding
  BY <1>1 DEF Landed, OnThread, Outstanding
<1>4. TryInv' /\ ReplyInv'
  BY <1>1, <1>3 DEF ChatInv, TryInv, ReplyInv, Truthful
<1>5. ReplaceInv' /\ BranchInv'
  BY <1>1
     DEF ChatInv, ReplaceInv, BranchInv, InProgress, Outrun, Stored, OnThread
<1>6. \A r \in RequestIds : \A m \in Messages : Used(r, m)' = Used(r, m)
  BY <1>1 DEF Used
<1>7. MessageInv'
  BY <1>1, <1>3, <1>6 DEF ChatInv, MessageInv, Reopenable
<1> QED
  BY <1>2, <1>4, <1>5, <1>7 DEF ChatInv

LEMMA ChatStep == ChatInv /\ [ChatNext]_allVars => ChatInv'
<1> SUFFICES ASSUME ChatInv, [ChatNext]_allVars PROVE ChatInv'
  OBVIOUS
<1>1. CASE ServiceWorker
  BY <1>1, ServiceAnswersOk, SubmitTaskOk, ReplaceHeadOk, RunTaskOk
     DEF ServiceWorker
<1>2. CASE Socket
  BY <1>2, SocketOk
<1>3. CASE User
  BY <1>3, SendLineOk, RetryAmbiguousOk, RetryConflictOk, QuitOk DEF User
<1>4. CASE Chat
  BY <1>4, InspectedOk, SubmitAnsweredOk, RefreshedOk, ObservedOk DEF Chat
<1>5. CASE DeadlinePasses
  BY <1>5, DeadlinePassesOk
<1>6. CASE OtherSubmitter
  BY <1>6, OtherTaskOk, OtherHeadOk DEF OtherSubmitter
<1>7. CASE UNCHANGED allVars
  BY <1>7, IdleChatOk
<1> QED
  BY <1>1, <1>2, <1>3, <1>4, <1>5, <1>6, <1>7 DEF ChatNext

(* ChatInvariant: ChatInv is inductive, for any number of messages,        *)
(* requests, other submitters, connections and failures.                   *)
THEOREM ChatInvariant == ChatSpec => []ChatInv
  BY InitChat, ChatStep, PTL DEF ChatSpec

(* ChatTypeCorrect: the stores, the socket and the chat keep their types.  *)
THEOREM ChatTypeCorrect == ChatSpec => []ChatTypeOK
<1>1. ChatInv => ChatTypeOK
  BY DEF ChatInv
<1> QED
  BY <1>1, ChatInvariant, PTL

-----------------------------------------------------------------------------
(* The last word about a request, and the order of the turns of a message. *)

LEMMA InitLastWord == ChatInit => LastWordInv
<1> SUFFICES ASSUME ChatInit PROVE LastWordInv
  OBVIOUS
<1>1. /\ journal = <<Last(Legacy)>> /\ backlog = <<>> /\ result = NoReply
      /\ attempt = NoAttempt /\ phase = "prompt"
      /\ told = [r \in RequestIds |-> "none"]
  BY DEF ChatInit
<1>2. DOMAIN backlog = {} /\ DOMAIN journal = {1}
  BY <1>1
<1>3. \A r \in RequestIds : ~Stored(r)
  <2>1. \A r \in RequestIds : taskStore[r] = Unsubmitted
    BY InitStores
  <2> QED
    BY <2>1 DEF Unsubmitted, Stored
<1>4. attempt.request \notin RequestIds
  BY <1>1, ChatAssumption DEF NoAttempt, TaskIds
<1>5. CallsInv /\ MadeInv /\ ConflictInv
  BY <1>1, <1>2, <1>3, <1>4 DEF CallsInv, MadeInv, ConflictInv
<1>6. ToldBeforeSecondTurn
  BY <1>2 DEF ToldBeforeSecondTurn
<1> QED
  BY <1>5, <1>6 DEF LastWordInv

(* The head is the request of the last attempt only when its submission is *)
(* answered as a duplicate.                                                *)
LEMMA HeadIsAttempt ==
  ASSUME ChatInv, MadeInv, attempt.request \in RequestIds,
         PreferredHead = attempt.request
  PROVE  /\ Revision = attempt.rev + 1
         /\ SameRequest(PreferredHead, attempt, journal[attempt.rev + 1])
<1>1. ChatTypeOK /\ ThreadInv
  BY DEF ChatInv
<1>2. /\ Len(journal) \in Nat /\ DOMAIN journal = 1 .. Len(journal)
      /\ Len(journal) > 0 /\ PreferredHead = journal[Len(journal)]
      /\ Revision \in Nat /\ Revision + 1 = Len(journal)
  BY <1>1, JournalType
<1>3. Len(journal) > 1
  BY <1>1, <1>2, LegacyType DEF ThreadInv
<1>4. PICK n \in DOMAIN journal : n = Len(journal)
  BY <1>2
<1>5. n - 1 \in DOMAIN journal /\ n > 1
  BY <1>2, <1>3, <1>4
<1>6. Stored(PreferredHead) /\ taskStore[PreferredHead].pred = journal[n - 1]
  BY <1>1, <1>2, <1>4, <1>5 DEF ThreadInv
<1>7. /\ attempt.rev + 1 \in DOMAIN journal
      /\ taskStore[PreferredHead].text = attempt.text
      /\ taskStore[PreferredHead].pred = journal[attempt.rev + 1]
  BY <1>6 DEF MadeInv
<1>8. n - 1 = attempt.rev + 1
  BY <1>1, <1>5, <1>6, <1>7 DEF ThreadInv
<1>9. attempt.rev \in Nat
  BY <1>1, AttemptType
<1> QED
  BY <1>2, <1>4, <1>6, <1>7, <1>8, <1>9 DEF SameRequest

(* An answer leaves no submission behind it.                               *)
LEMMA AnsweredCalls ==
  ASSUME ChatTypeOK, SocketInv, CallsInv, backlog # <<>>, NEW r \in Reply,
         AnswerCall(r), attempt' = attempt, told' = told
  PROVE  /\ CallsInv'
         /\ \/ Head(backlog).live /\ result' = r
            \/ result' = result /\ (result # NoReply => result.code = 1)
<1>1. /\ backlog' \in Seq(Command)
      /\ \A n \in DOMAIN backlog' :
           n + 1 \in DOMAIN backlog /\ backlog'[n] = backlog[n + 1]
      /\ \/ ~Head(backlog).live /\ result' = result
         \/ Head(backlog).live /\ result' = r
  BY AnswerMoves
<1>2. Head(backlog).live => backlog' = <<>>
  <2> SUFFICES ASSUME Head(backlog).live, backlog' # <<>> PROVE FALSE
    OBVIOUS
  <2>1. 1 \in DOMAIN backlog'
    BY <1>1, EmptySeq, LenProperties
  <2>2. Len(backlog) = 1 /\ DOMAIN backlog = 1 .. Len(backlog)
    BY BacklogType
  <2> QED
    BY <1>1, <2>1, <2>2
<1>3. result # NoReply => result.code = 1
  BY DEF CallsInv
<1> QED
  BY <1>1, <1>2, <1>3 DEF CallsInv

LEMMA AnswersLastWord ==
  ASSUME ChatInv, LastWordInv, UNCHANGED storeVars, Answers(storeVars)
  PROVE  LastWordInv'
<1>1. /\ ChatTypeOK /\ SocketInv /\ CallsInv /\ MadeInv /\ ConflictInv
      /\ ToldBeforeSecondTurn /\ backlog # <<>>
      /\ Commanded(Head(backlog))
  BY BacklogType DEF ChatInv, LastWordInv, Answers
<1>2. PICK r \in Reply : AnswerCall(r) /\ Refutes(r)
  BY DEF Answers
<1>3. /\ attempt' = attempt /\ told' = told /\ phase' = phase
      /\ taskStore' = taskStore /\ journal' = journal
  BY DEF Answers, chatVars, storeVars
<1>4. /\ CallsInv'
      /\ \/ Head(backlog).live /\ result' = r
         \/ result' = result /\ (result # NoReply => result.code = 1)
  BY <1>1, <1>2, <1>3, AnsweredCalls
<1>5. MadeInv'
  BY <1>1, <1>3 DEF MadeInv, Stored
<1>6. ASSUME Head(backlog).live, phase = "submit", r.code = 4
      PROVE  PreferredHead # attempt.request
  <2>1. Head(backlog).op = "submit" /\ Head(backlog).attempt = attempt
    BY <1>1, <1>6, AwaitedHead
  <2>2. attempt.request \in RequestIds
    BY <1>1, <2>1, CommandOfSubmit
  <2> QED
    BY <1>1, <1>2, <1>6, <2>1, <2>2, HeadIsAttempt DEF Refutes
<1>7. ConflictInv'
  BY <1>1, <1>3, <1>4, <1>6 DEF ConflictInv, PreferredHead
<1>8. ToldBeforeSecondTurn'
  BY <1>1, <1>3 DEF ToldBeforeSecondTurn
<1> QED
  BY <1>4, <1>5, <1>7, <1>8 DEF LastWordInv

LEMMA DroppedLastWord ==
  ASSUME ChatInv, LastWordInv, Dropped
  PROVE  LastWordInv'
<1>1. /\ CallsInv /\ MadeInv /\ ConflictInv /\ ToldBeforeSecondTurn
      /\ attempt' = attempt /\ told' = told /\ phase' = phase
      /\ taskStore' = taskStore /\ journal' = journal
      /\ backlog' \in Seq(Command) /\ result' \in {result, Failed}
      /\ \A n \in DOMAIN backlog' : /\ n \in DOMAIN backlog
                                    /\ backlog'[n].op = backlog[n].op
                                    /\ backlog'[n].attempt = backlog[n].attempt
  BY DEF LastWordInv, Dropped, storeVars, chatVars
<1>2. backlog = <<>> => backlog' = <<>>
  <2> SUFFICES ASSUME backlog = <<>>, backlog' # <<>> PROVE FALSE
    OBVIOUS
  <2>1. 1 \in DOMAIN backlog'
    BY <1>1, EmptySeq, LenProperties
  <2> QED
    BY <1>1, <2>1
<1>3. Failed.code = 1
  BY DEF Failed
<1>4. CallsInv' /\ ConflictInv'
  BY <1>1, <1>2, <1>3 DEF CallsInv, ConflictInv, PreferredHead
<1>5. MadeInv' /\ ToldBeforeSecondTurn'
  BY <1>1 DEF MadeInv, ToldBeforeSecondTurn, Stored
<1> QED
  BY <1>4, <1>5 DEF LastWordInv

(* Writes to the stores.                                                   *)
LEMMA TextsKept ==
  ASSUME ChatInv, TasksGrow, ToldBeforeSecondTurn, journal' = journal,
         told' = told
  PROVE  ToldBeforeSecondTurn'
<1>1. \A k \in DOMAIN journal : taskStore'[journal[k]].text
                                  = taskStore[journal[k]].text
  BY JournalType DEF ChatInv, ThreadInv, TasksGrow
<1> QED
  BY <1>1 DEF ToldBeforeSecondTurn

LEMMA SubmitTaskLastWord ==
  ASSUME ChatInv, LastWordInv, SubmitTask
  PROVE  LastWordInv'
<1>1. /\ ChatTypeOK /\ SocketInv /\ ThreadInv /\ CallsInv /\ MadeInv
      /\ ConflictInv /\ ToldBeforeSecondTurn
  BY DEF ChatInv, LastWordInv
<1>2. LET a == Head(backlog).attempt IN
      /\ TasksGrow /\ journal' = journal
      /\ backlog # <<>> /\ Head(backlog).op = "submit"
      /\ a.request \in RequestIds
      /\ \A u \in TaskIds : u # a.request => taskStore'[u] = taskStore[u]
      /\ taskStore'[a.request].text = a.text
      /\ taskStore'[a.request].pred = PreferredHead
  BY SubmitTaskStores
<1>3. /\ attempt' = attempt /\ told' = told /\ phase' = phase
      /\ backlog' = backlog /\ result' = result
      /\ Revision = Head(backlog).attempt.rev
  BY DEF SubmitTask, chatVars
<1>4. Head(backlog).attempt = attempt
  BY <1>1, <1>2, BacklogType DEF CallsInv
<1>5. PreferredHead = journal[attempt.rev + 1]
  BY <1>1, <1>3, <1>4, JournalType
<1>6. CallsInv' /\ ConflictInv'
  BY <1>1, <1>2, <1>3 DEF CallsInv, ConflictInv, PreferredHead
<1>7. MadeInv'
  <2>1. \A r \in RequestIds : r # attempt.request => Stored(r)' = Stored(r)
    BY <1>2, <1>4 DEF Stored, TaskIds
  <2> QED
    BY <1>1, <1>2, <1>3, <1>4, <1>5, <2>1 DEF MadeInv
<1>8. ToldBeforeSecondTurn'
  BY <1>1, <1>2, <1>3, TextsKept
<1> QED
  BY <1>6, <1>7, <1>8 DEF LastWordInv

LEMMA ReplaceHeadLastWord ==
  ASSUME ChatInv, LastWordInv, ReplaceHead
  PROVE  LastWordInv'
<1> PICK r : r = [code |-> 0, rev |-> Len(journal), task |-> attempt.request]
  OBVIOUS
<1> PICK q : q = attempt.request
  OBVIOUS
<1>1. /\ ChatTypeOK /\ SocketInv /\ ThreadInv /\ ReplaceInv /\ MessageInv
      /\ CallsInv /\ MadeInv /\ ConflictInv /\ ToldBeforeSecondTurn
  BY DEF ChatInv, LastWordInv
<1>2. /\ backlog # <<>> /\ Head(backlog).op = "submit"
      /\ ~OnThread(Head(backlog).attempt.request)
      /\ taskStore[Head(backlog).attempt.request].text
           = Head(backlog).attempt.text
  BY <1>1 DEF ReplaceHead, ReplaceInv
<1>3. /\ Head(backlog).attempt = attempt /\ told[q] # "conflict"
      /\ q \in RequestIds /\ attempt.text \in Messages
  BY <1>1, <1>2, BacklogType, CommandOfSubmit DEF CallsInv
<1>4. /\ journal' = Append(journal, q) /\ AnswerCall(r)
      /\ taskStore' = taskStore /\ attempt' = attempt /\ told' = told
      /\ phase' = phase
  BY <1>3 DEF ReplaceHead, chatVars
<1>5. /\ Len(journal) \in Nat /\ DOMAIN journal = 1 .. Len(journal)
      /\ PreferredHead = journal[Len(journal)] /\ Len(journal) > 0
  BY <1>1, JournalType
<1>6. /\ Len(journal') = Len(journal) + 1
      /\ \A k \in DOMAIN journal : journal'[k] = journal[k]
      /\ journal'[Len(journal) + 1] = q
      /\ DOMAIN journal' = 1 .. Len(journal) + 1 /\ PreferredHead' = q
  <2>1. journal \in Seq(TaskIds) /\ q \in TaskIds
    BY <1>1, <1>3, NotLegacy DEF ChatTypeOK
  <2>2. /\ journal' \in Seq(TaskIds) /\ Len(journal') = Len(journal) + 1
        /\ \A k \in 1 .. Len(journal) : journal'[k] = journal[k]
        /\ journal'[Len(journal) + 1] = q
    BY <1>4, <2>1, AppendProperties
  <2> QED
    BY <1>5, <2>2, LenProperties DEF PreferredHead, Last
<1>7. r \in Reply /\ r.code = 0
  BY <1>3, <1>5 DEF Reply, TaskIds
<1>8. /\ CallsInv'
      /\ \/ result' = r
         \/ result' = result /\ (result # NoReply => result.code = 1)
  BY <1>1, <1>2, <1>4, <1>7, AnsweredCalls
<1>9. MadeInv'
  BY <1>1, <1>4, <1>5, <1>6 DEF MadeInv, Stored
<1>10. ConflictInv'
  BY <1>1, <1>3, <1>4, <1>6, <1>7, <1>8 DEF ConflictInv
<1>11. ToldBeforeSecondTurn'
  <2> SUFFICES ASSUME NEW j \in DOMAIN journal', NEW k \in DOMAIN journal',
                      j < k, {journal'[j], journal'[k]} \subseteq RequestIds,
                      taskStore[journal'[j]].text = taskStore[journal'[k]].text
               PROVE  told[journal'[j]] = "conflict" /\ k > j + 1
    BY <1>4 DEF ToldBeforeSecondTurn
  <2>1. j \in DOMAIN journal /\ journal'[j] = journal[j]
    BY <1>5, <1>6
  <2>2. CASE k \in DOMAIN journal
    BY <1>1, <1>6, <2>1, <2>2 DEF ToldBeforeSecondTurn
  <2>3. CASE k \notin DOMAIN journal
    <3>1. k = Len(journal) + 1 /\ journal'[k] = q
      BY <1>5, <1>6, <2>3
    <3>2. PICK s \in RequestIds : s = journal[j]
      BY <2>1
    <3>3. s # q /\ taskStore[s].text = attempt.text
          /\ taskStore[q].text = attempt.text
      BY <1>2, <1>3, <2>1, <3>1, <3>2 DEF OnThread
    <3>4. Used(s, attempt.text) /\ Used(q, attempt.text)
      BY <3>3 DEF Used
    <3>5. told[s] = "conflict"
      BY <1>1, <1>3, <3>3, <3>4 DEF MessageInv
    <3>6. j # Len(journal)
      BY <1>1, <1>5, <3>2, <3>5 DEF ConflictInv
    <3> QED
      BY <1>5, <2>1, <3>1, <3>2, <3>5, <3>6
  <2> QED
    BY <2>2, <2>3
<1> QED
  BY <1>8, <1>9, <1>10, <1>11 DEF LastWordInv

LEMMA OtherSubmitterLastWord ==
  ASSUME ChatInv, LastWordInv, OtherSubmitter
  PROVE  LastWordInv'
<1>1. /\ ChatTypeOK /\ ThreadInv /\ CallsInv /\ MadeInv /\ ConflictInv
      /\ ToldBeforeSecondTurn
  BY DEF ChatInv, LastWordInv
<1>2. ASSUME NEW o \in Others, OtherTask(o)
      PROVE  LastWordInv'
  <2>1. /\ TasksGrow /\ journal' = journal
        /\ \A r \in RequestIds : taskStore'[r] = taskStore[r]
    BY <1>2, OtherTaskStores, ChatAssumption DEF TaskIds
  <2>2. /\ attempt' = attempt /\ told' = told /\ phase' = phase
        /\ backlog' = backlog /\ result' = result
    BY <1>2 DEF OtherTask, chatVars
  <2>3. CallsInv' /\ MadeInv' /\ ConflictInv'
    BY <1>1, <2>1, <2>2
       DEF CallsInv, MadeInv, ConflictInv, PreferredHead, Stored
  <2>4. ToldBeforeSecondTurn'
    BY <1>1, <2>1, <2>2, TextsKept
  <2> QED
    BY <2>3, <2>4 DEF LastWordInv
<1>3. ASSUME NEW o \in Others, OtherHead(o)
      PROVE  LastWordInv'
  <2>1. /\ taskStore' = taskStore /\ ThreadGrows
        /\ Len(journal') = Len(journal) + 1
        /\ journal'[Len(journal) + 1] = o /\ journal' \in Seq(TaskIds)
    BY <1>3, OtherHeadStores
  <2>2. /\ attempt' = attempt /\ told' = told /\ phase' = phase
        /\ backlog' = backlog /\ result' = result
    BY <1>3 DEF OtherHead, chatVars
  <2>3. /\ Len(journal) \in Nat /\ DOMAIN journal = 1 .. Len(journal)
        /\ DOMAIN journal' = 1 .. Len(journal) + 1
    BY <1>1, <2>1, JournalType, LenProperties
  <2>4. o \notin RequestIds /\ o # NoTurn
    BY ChatAssumption DEF TaskIds
  <2>5. attempt.request # o
    BY <1>1, <2>4 DEF ChatTypeOK, Attempt
  <2>6. PreferredHead' = o
    BY <2>1 DEF PreferredHead, Last
  <2>7. CallsInv' /\ ConflictInv'
    BY <1>1, <2>2, <2>4, <2>5, <2>6 DEF CallsInv, ConflictInv
  <2>8. MadeInv'
    BY <1>1, <2>1, <2>2 DEF MadeInv, Stored, ThreadGrows
  <2>9. ToldBeforeSecondTurn'
    <3> SUFFICES ASSUME NEW j \in DOMAIN journal', NEW k \in DOMAIN journal',
                        j < k, {journal'[j], journal'[k]} \subseteq RequestIds,
                        taskStore[journal'[j]].text
                          = taskStore[journal'[k]].text
                 PROVE  told[journal'[j]] = "conflict" /\ k > j + 1
      BY <2>1, <2>2 DEF ToldBeforeSecondTurn
    <3>1. k # Len(journal) + 1
      BY <2>1, <2>4
    <3>2. j \in DOMAIN journal /\ k \in DOMAIN journal
      BY <2>3, <3>1
    <3>3. journal'[j] = journal[j] /\ journal'[k] = journal[k]
      BY <2>1, <3>2 DEF ThreadGrows
    <3> QED
      BY <1>1, <3>2, <3>3 DEF ToldBeforeSecondTurn
  <2> QED
    BY <2>7, <2>8, <2>9 DEF LastWordInv
<1> QED
  BY <1>2, <1>3 DEF OtherSubmitter

LEMMA RunTaskLastWord ==
  ASSUME ChatInv, LastWordInv, NEW t \in TaskIds, RunTask(t)
  PROVE  LastWordInv'
<1>1. CallsInv /\ MadeInv /\ ConflictInv /\ ToldBeforeSecondTurn
  BY DEF LastWordInv
<1>2. /\ TasksGrow /\ journal' = journal
      /\ \A u \in TaskIds : /\ taskStore'[u].text = taskStore[u].text
                            /\ taskStore'[u].pred = taskStore[u].pred
                            /\ Stored(u)' => Stored(u)
  BY RunTaskStores
<1>3. /\ attempt' = attempt /\ told' = told /\ phase' = phase
      /\ backlog' = backlog /\ result' = result
  BY DEF RunTask, chatVars
<1>4. CallsInv' /\ ConflictInv'
  BY <1>1, <1>2, <1>3 DEF CallsInv, ConflictInv, PreferredHead
<1>5. MadeInv'
  BY <1>1, <1>2, <1>3 DEF MadeInv, TaskIds
<1>6. ToldBeforeSecondTurn'
  BY <1>1, <1>2, <1>3, TextsKept
<1> QED
  BY <1>4, <1>5, <1>6 DEF LastWordInv

(* A step of the chat that keeps its attempt and makes a call or none.     *)
Submissions ==
  \A n \in DOMAIN backlog' : backlog'[n].op = "submit" =>
    \/ n \in DOMAIN backlog /\ backlog'[n] = backlog[n]
    \/ backlog'[n].attempt = attempt' /\ told'[attempt'.request] # "conflict"

LEMMA AsksSubmissions ==
  ASSUME ChatInv, NEW op, NEW a, Asks(op, a),
         op = "submit" => told'[attempt'.request] # "conflict"
  PROVE  Submissions /\ result' \in {NoReply, Failed}
<1>1. ChatTypeOK /\ SocketInv
  BY DEF ChatInv
<1>2. /\ result' \in {NoReply, Failed}
      /\ \A n \in DOMAIN backlog' :
           \/ n \in DOMAIN backlog /\ backlog'[n] = backlog[n]
           \/ backlog'[n].op = op /\ backlog'[n].attempt = a
  BY <1>1, CallMoves DEF Asks
<1>3. op = "submit" => a = attempt'
  BY DEF Asks
<1> QED
  BY <1>2, <1>3 DEF Submissions

LEMMA ChatLastWord ==
  ASSUME ChatInv, LastWordInv, UNCHANGED serviceVars, attempt' = attempt,
         Submissions, result' \in {NoReply, Failed},
         \A r \in RequestIds :
           /\ told[r] = "conflict" => told'[r] = "conflict"
           /\ told'[r] = "none" => told[r] = "none"
           /\ told'[r] = "conflict" =>
                \/ told[r] = "conflict"
                \/ PreferredHead # r /\ backlog = <<>>,
         attempt.request \in RequestIds /\ phase' \notin {"submit", "poll"}
           => told'[attempt.request] # "none"
  PROVE  LastWordInv'
<1>1. /\ CallsInv /\ MadeInv /\ ConflictInv /\ ToldBeforeSecondTurn
      /\ ChatTypeOK /\ SocketInv
      /\ taskStore' = taskStore /\ journal' = journal
  BY DEF LastWordInv, serviceVars, ChatInv
<1>2. Failed.code = 1
  BY DEF Failed
<1>3. CallsInv'
  <2>1. ASSUME NEW n \in DOMAIN backlog, backlog[n].op = "submit"
        PROVE  backlog[n].attempt = attempt
               /\ told'[attempt.request] # "conflict"
    <3>1. backlog[n].attempt = attempt /\ told[attempt.request] # "conflict"
      BY <1>1, <2>1 DEF CallsInv
    <3>2. Commanded(backlog[n]) /\ backlog # <<>>
      BY <1>1, BacklogType
    <3>3. attempt.request \in RequestIds
      BY <2>1, <3>1, <3>2, CommandOfSubmit
    <3> QED
      BY <3>1, <3>2, <3>3
  <2> QED
    BY <1>2, <2>1 DEF CallsInv, Submissions
<1>4. MadeInv'
  BY <1>1 DEF MadeInv, Stored
<1>5. ConflictInv'
  BY <1>1, <1>2 DEF ConflictInv, PreferredHead
<1>6. ToldBeforeSecondTurn'
  BY <1>1 DEF ToldBeforeSecondTurn
<1> QED
  BY <1>3, <1>4, <1>5, <1>6 DEF LastWordInv

(* The chat says something of its request, or nothing.                     *)
LEMMA TellsLastWord ==
  ASSUME ChatInv, LastWordInv, UNCHANGED serviceVars, attempt' = attempt,
         Submissions, result' \in {NoReply, Failed}, Outstanding,
         NEW verdict \in Verdict \ {"none"}, Tell(verdict),
         verdict = "conflict" =>
           PreferredHead # attempt.request /\ backlog = <<>>
  PROVE  LastWordInv'
<1>1. /\ attempt.request \in RequestIds /\ told'[attempt.request] = verdict
      /\ \A r \in RequestIds : r # attempt.request => told'[r] = told[r]
      /\ \A r \in RequestIds : told[r] = "conflict" => told'[r] = "conflict"
  BY ToldMoves
<1> QED
  BY <1>1, ChatLastWord

LEMMA UserLastWord ==
  ASSUME ChatInv, LastWordInv, User
  PROVE  LastWordInv'
<1>1. /\ ChatTypeOK /\ SocketInv /\ TryInv /\ CallsInv /\ MadeInv /\ ConflictInv
      /\ ToldBeforeSecondTurn
  BY DEF ChatInv, LastWordInv
<1>2. ASSUME phase = "prompt", phase' = "inspect", Call("head", NoAttempt),
             UNCHANGED <<serviceVars, attempt, told>>
      PROVE  LastWordInv'
  <2>1. Asks("head", NoAttempt)
    BY <1>1, <1>2, NobodyAwaited, AttemptType DEF Asks
  <2>2. Submissions /\ result' \in {NoReply, Failed}
    BY <2>1, AsksSubmissions
  <2>3. attempt.request \in RequestIds => told'[attempt.request] # "none"
    BY <1>1, <1>2 DEF MadeInv
  <2> QED
    BY <1>2, <2>2, <2>3, ChatLastWord
<1>3. CASE (\E m \in Messages : SendLine(m)) \/ RetryConflict
  BY <1>2, <1>3 DEF SendLine, RetryConflict
<1>4. CASE RetryAmbiguous
  <2>1. /\ phase = "prompt" /\ ambiguous /\ phase' = "submit"
        /\ Call("submit", attempt)
        /\ UNCHANGED <<serviceVars, attempt, told>>
    BY <1>4 DEF RetryAmbiguous
  <2>2. /\ attempt.request \in RequestIds /\ attempt.text \in Messages
        /\ told[attempt.request] # "conflict"
    BY <1>1, <2>1 DEF TryInv, Outstanding
  <2>3. attempt.text # NoText
    BY <2>2, ChatAssumption
  <2>4. Asks("submit", attempt)
    BY <1>1, <2>1, <2>2, <2>3, NobodyAwaited, AttemptType DEF Asks
  <2>5. Submissions /\ result' \in {NoReply, Failed}
    BY <2>1, <2>2, <2>4, AsksSubmissions
  <2> QED
    BY <2>1, <2>5, ChatLastWord
<1>5. CASE Quit
  <2>1. UNCHANGED <<serviceVars, backlog, phase, attempt, result, told>>
    BY <1>5 DEF Quit
  <2> QED
    BY <1>1, <2>1
       DEF LastWordInv, CallsInv, MadeInv, ConflictInv, ToldBeforeSecondTurn,
           serviceVars, Stored, PreferredHead
<1> QED
  BY <1>3, <1>4, <1>5 DEF User

(* A new attempt is made when every earlier submission was executed, on a  *)
(* request that has no Task.                                               *)
LEMMA InspectedLastWord ==
  ASSUME ChatInv, LastWordInv, Inspected
  PROVE  LastWordInv'
<1>1. /\ ChatTypeOK /\ SocketInv /\ TryInv /\ ReplyInv /\ CallsInv /\ MadeInv
      /\ ConflictInv /\ ToldBeforeSecondTurn /\ NoText \notin Messages
  BY ChatAssumption DEF ChatInv, LastWordInv
<1>2. /\ phase = "inspect" /\ result # NoReply /\ draft \in Messages
      /\ taskStore' = taskStore /\ journal' = journal /\ told' = told
      /\ UNCHANGED serviceVars /\ result \in Reply
  BY <1>1 DEF Inspected, Returned, TryInv, serviceVars, ChatTypeOK
<1>3. \A r \in RequestIds : Stored(r) => told[r] # "none"
  BY <1>1, <1>2 DEF MadeInv
<1>4. CASE /\ result.code = 0 /\ FreshRequests # {}
           /\ attempt' = [request |-> NewRequest, text |-> draft,
                          rev |-> result.rev, head |-> result.task]
           /\ Call("submit", attempt')
           /\ phase' = "submit"
  <2>1. PICK r \in FreshRequests : r = NewRequest
    BY <1>4 DEF NewRequest
  <2>2. r \in RequestIds /\ told[r] = "none" /\ r # NoTurn /\ ~Stored(r)
    BY <1>1, <1>3, <2>1, AttemptType DEF FreshRequests
  <2>3. /\ attempt'.request = r /\ attempt'.text = draft
        /\ attempt'.rev = result.rev /\ attempt'.head = result.task
    BY <1>4, <2>1
  <2>4. attempt' \in Attempt
    BY <1>2, <1>4, <2>1, <2>2 DEF Reply, Attempt
  <2>5. /\ result.rev + 1 \in DOMAIN journal
        /\ result.task = journal[result.rev + 1]
    BY <1>1, <1>2, <1>4 DEF ReplyInv, Truthful
  <2>6. PICK a : a = attempt'
    OBVIOUS
  <2>7. Asks("submit", a)
    BY <1>1, <1>2, <1>4, <2>2, <2>3, <2>4, <2>6, NobodyAwaited DEF Asks
  <2>8. Submissions /\ result' \in {NoReply, Failed}
    BY <1>2, <2>2, <2>3, <2>7, AsksSubmissions
  <2>9. backlog = <<>>
    BY <1>1, <1>2, <1>4 DEF CallsInv
  <2>10. Failed.code = 1
    BY DEF Failed
  <2>11. CallsInv'
    BY <1>2, <2>8, <2>9, <2>10 DEF CallsInv, Submissions
  <2>12. MadeInv'
    BY <1>2, <1>3, <1>4, <2>2, <2>3, <2>5 DEF MadeInv, Stored
  <2>13. ConflictInv'
    BY <1>1, <1>2, <2>8, <2>10 DEF ConflictInv, PreferredHead
  <2>14. ToldBeforeSecondTurn'
    BY <1>1, <1>2 DEF ToldBeforeSecondTurn
  <2> QED
    BY <2>11, <2>12, <2>13, <2>14 DEF LastWordInv
<1>5. CASE /\ phase' = "prompt" /\ result' = NoReply
           /\ UNCHANGED <<attempt, backlog>>
  <2>1. Submissions /\ UNCHANGED serviceVars
    BY <1>2, <1>5 DEF Submissions
  <2>2. attempt.request \in RequestIds => told'[attempt.request] # "none"
    BY <1>1, <1>2 DEF MadeInv
  <2> QED
    BY <1>2, <1>5, <2>1, <2>2, ChatLastWord
<1> QED
  BY <1>4, <1>5 DEF Inspected

LEMMA SubmitAnsweredLastWord ==
  ASSUME ChatInv, LastWordInv, SubmitAnswered
  PROVE  LastWordInv'
<1>1. /\ ChatTypeOK /\ SocketInv /\ TryInv /\ ReplyInv /\ CallsInv
      /\ ConflictInv
  BY DEF ChatInv, LastWordInv
<1>2. /\ phase = "submit" /\ result # NoReply /\ Outstanding
      /\ attempt.request \in RequestIds /\ ~Awaited
      /\ UNCHANGED serviceVars /\ attempt' = attempt
  BY <1>1, NobodyAwaited
     DEF SubmitAnswered, Returned, Outstanding, TryInv
<1>3. {"transport_ambiguous", "conflict"} \subseteq Verdict \ {"none"}
  BY DEF Verdict
<1>4. ASSUME Tell("transport_ambiguous"), result' = NoReply, backlog' = backlog
      PROVE  LastWordInv'
  <2>1. Submissions
    BY <1>4 DEF Submissions
  <2> QED
    BY <1>2, <1>3, <1>4, <2>1, TellsLastWord
<1>5. ASSUME result.code = 4, Tell("conflict"), phase' = "refresh",
             Call("head", NoAttempt)
      PROVE  LastWordInv'
  <2>1. PreferredHead # attempt.request /\ backlog = <<>>
    BY <1>1, <1>2, <1>5 DEF CallsInv, ConflictInv
  <2>2. Asks("head", NoAttempt)
    BY <1>1, <1>2, <1>5, AttemptType DEF Asks
  <2>3. Submissions /\ result' \in {NoReply, Failed}
    BY <2>2, AsksSubmissions
  <2> QED
    BY <1>2, <1>3, <1>5, <2>1, <2>3, TellsLastWord
<1>6. ASSUME result.code = 0, phase' = "poll", UNCHANGED told,
             Call("task", [attempt EXCEPT !.request = result.task])
      PROVE  LastWordInv'
  <2> PICK a : a = [attempt EXCEPT !.request = result.task]
    OBVIOUS
  <2>1. result.task = attempt.request
    BY <1>1, <1>2, <1>6 DEF ReplyInv, Truthful
  <2>2. a \in Attempt /\ a.request = attempt.request /\ a.request # NoTurn
    BY <1>1, <1>2, <2>1, AttemptType
  <2>3. Asks("task", a)
    BY <1>2, <1>6, <2>2 DEF Asks
  <2>4. Submissions /\ result' \in {NoReply, Failed}
    BY <2>3, AsksSubmissions
  <2> QED
    BY <1>2, <1>6, <2>4, ChatLastWord
<1>7. ~(result.code = 0 /\ result.rev # attempt.rev + 1)
  BY <1>1, <1>2 DEF ReplyInv, Truthful
<1> QED
  BY <1>4, <1>5, <1>6, <1>7 DEF SubmitAnswered

LEMMA RefreshedLastWord ==
  ASSUME ChatInv, LastWordInv, Refreshed
  PROVE  LastWordInv'
<1>1. /\ phase = "refresh" /\ UNCHANGED <<serviceVars, backlog, attempt, told>>
      /\ result' = NoReply
  BY DEF Refreshed, Returned
<1>2. Submissions
  BY <1>1 DEF Submissions
<1>3. attempt.request \in RequestIds => told'[attempt.request] # "none"
  BY <1>1 DEF LastWordInv, MadeInv
<1> QED
  BY <1>1, <1>2, <1>3, ChatLastWord

LEMMA ObservedLastWord ==
  ASSUME ChatInv, LastWordInv, Observed
  PROVE  LastWordInv'
<1>1. /\ phase = "poll" /\ Outstanding /\ attempt.request \in RequestIds
      /\ UNCHANGED serviceVars /\ attempt' = attempt /\ result # NoReply
      /\ ChatTypeOK /\ SocketInv /\ ReplyInv
  BY ObservedMoves DEF Outstanding, ChatInv
<1>2. ASSUME NEW verdict \in {"timeout", "succeeded", "terminal_failure"},
             Tell(verdict), result' = NoReply, UNCHANGED backlog
      PROVE  LastWordInv'
  <2>1. verdict \in Verdict \ {"none"} /\ verdict # "conflict"
    BY DEF Verdict
  <2>2. Submissions
    BY <1>2 DEF Submissions
  <2> QED
    BY <1>1, <1>2, <2>1, <2>2, TellsLastWord
<1>3. ASSUME result.code = 0, UNCHANGED <<phase, told>>,
             Call("task", [attempt EXCEPT !.request = result.task])
      PROVE  LastWordInv'
  <2> PICK a : a = [attempt EXCEPT !.request = result.task]
    OBVIOUS
  <2>1. result.task = attempt.request
    BY <1>1, <1>3 DEF ReplyInv, Truthful
  <2>2. a \in Attempt /\ a.request = attempt.request /\ a.request # NoTurn
    BY <1>1, <2>1, AttemptType
  <2>3. Asks("task", a)
    BY <1>1, <1>3, <2>2, NobodyAwaited DEF Asks
  <2>4. Submissions /\ result' \in {NoReply, Failed}
    BY <2>3, AsksSubmissions
  <2> QED
    BY <1>1, <1>3, <2>4, ChatLastWord
<1> QED
  BY <1>2, <1>3, ObservedMoves

LEMMA LastWordStep == ChatInv /\ LastWordInv /\ [ChatNext]_allVars => LastWordInv'
<1> SUFFICES ASSUME ChatInv, LastWordInv, [ChatNext]_allVars
             PROVE  LastWordInv'
  OBVIOUS
<1>1. /\ ChatTypeOK /\ SocketInv /\ ThreadInv /\ TryInv /\ ReplaceInv
  BY DEF ChatInv
<1>2. CASE \/ InspectHead \/ InspectTask \/ SubmitMoved \/ SubmitRejected
           \/ ReplaceConflicts \/ ReplaceFails
  <2>1. Answers(serviceVars) \/ Answers(storeVars)
    BY <1>1, <1>2, InspectHeadAnswers, InspectTaskAnswers, SubmitMovedAnswers,
       SubmitRejectedAnswers, ReplaceConflictsAnswers, ReplaceFailsAnswers
  <2>2. Answers(storeVars)
    BY <2>1 DEF Answers, serviceVars, storeVars
  <2>3. UNCHANGED storeVars
    BY <2>2 DEF Answers
  <2> QED
    BY <2>2, <2>3, AnswersLastWord
<1>3. CASE Socket
  <2>1. Dropped
    BY <1>1, <1>3, TimesOutDrops, RefusedDrops, ServiceDiesDrops DEF Socket
  <2> QED
    BY <2>1, DroppedLastWord
<1>4. CASE DeadlinePasses \/ UNCHANGED allVars
  <2>1. UNCHANGED <<serviceVars, backlog, phase, attempt, result, told>>
    BY <1>4 DEF DeadlinePasses, allVars, serviceVars
  <2> QED
    BY <2>1
       DEF LastWordInv, CallsInv, MadeInv, ConflictInv, ToldBeforeSecondTurn,
           serviceVars, Stored, PreferredHead
<1>5. CASE ServiceWorker
  BY <1>2, <1>5, SubmitTaskLastWord, ReplaceHeadLastWord, RunTaskLastWord
     DEF ServiceWorker
<1>6. CASE Chat
  BY <1>6, InspectedLastWord, SubmitAnsweredLastWord, RefreshedLastWord,
     ObservedLastWord DEF Chat
<1> QED
  BY <1>3, <1>4, <1>5, <1>6, OtherSubmitterLastWord, UserLastWord DEF ChatNext

LEMMA LastWordInvariant == ChatSpec => []LastWordInv
  BY InitLastWord, LastWordStep, ChatInvariant, PTL DEF ChatSpec

LEMMA AccountedByInvariant == ChatInv /\ LastWordInv => MessagesAccounted
<1> SUFFICES ASSUME ChatInv, LastWordInv PROVE MessagesAccounted
  OBVIOUS
<1>1. ChatTypeOK /\ ToldBeforeSecondTurn /\ BranchInv
  BY DEF ChatInv, LastWordInv
<1>2. \A t : OnThread(t) <=> t \in Range(journal)
  BY DEF OnThread, Range
<1>3. BranchAccounted
  <2> SUFFICES ASSUME NEW r \in RequestIds, Stored(r), r \notin Range(journal),
                      ~InProgress(r), ~(failures > 0)
               PROVE  \E o \in Others \cap Range(journal) :
                        taskStore[o].pred = taskStore[r].pred
    BY DEF BranchAccounted
  <2>1. Outrun(r)
    BY <1>1, <1>2 DEF BranchInv
  <2> QED
    BY <1>2, <2>1 DEF Outrun
<1> QED
  BY <1>1, <1>3 DEF MessagesAccounted

(* ChatMessagesAccounted: whatever is retried, lost, executed late or cut  *)
(* off, and whoever else moves the head between the Task and its turn, a   *)
(* message is on the thread twice only after a real conflict was told for  *)
(* the first of its turns, and a turn is beside the thread only after a    *)
(* failure or behind a faster submitter.                                   *)
THEOREM ChatMessagesAccounted == ChatSpec => []MessagesAccounted
  BY AccountedByInvariant, LastWordInvariant, ChatInvariant, PTL

-----------------------------------------------------------------------------
(* Every turn has its place in the conversation.                           *)

(* A turn was submitted on a turn of the thread that had succeeded, and its*)
(* index counts the turns before it, those of V2 included.                 *)
LineageInv ==
  /\ \A k \in DOMAIN Legacy :
       /\ taskStore[Legacy[k]].turn = k - 1
       /\ taskStore[Legacy[k]].pred = IF k = 1 THEN NoTurn ELSE Legacy[k - 1]
  /\ \A t \in RequestIds \cup Others :
       Stored(t) => \E k \in DOMAIN journal :
         /\ taskStore[t].pred = journal[k]
         /\ taskStore[journal[k]].status = "succeeded"
         /\ taskStore[t].turn = Len(Legacy) - 1 + k

LEMMA InitLineage == ChatInit => LineageInv
<1> SUFFICES ASSUME ChatInit PROVE LineageInv
  OBVIOUS
<1>1. PICK sizes \in [LegacyTasks -> Sizes] :
        /\ \A t \in LegacyTasks :
             taskStore[t] = LegacyTurn(LegacyIndex(t), sizes[t])
        /\ \A t \in RequestIds \cup Others : taskStore[t] = Unsubmitted
  BY InitStores
<1>2. ASSUME NEW k \in DOMAIN Legacy
      PROVE  /\ taskStore[Legacy[k]].turn = k - 1
             /\ taskStore[Legacy[k]].pred = IF k = 1 THEN NoTurn
                  ELSE Legacy[k - 1]
  <2>1. Legacy[k] \in LegacyTasks
    BY LegacyType
  <2>2. LegacyIndex(Legacy[k]) = k
    BY <2>1, LegacyIndexed, LegacyType
  <2>3. taskStore[Legacy[k]] = LegacyTurn(k, sizes[Legacy[k]])
    BY <1>1, <2>1, <2>2
  <2>4. \A size : /\ LegacyTurn(k, size).turn = k - 1
                  /\ LegacyTurn(k, size).pred = IF k = 1 THEN NoTurn
                                                ELSE Legacy[k - 1]
    BY DEF LegacyTurn
  <2> QED
    BY <2>3, <2>4
<1> QED
  BY <1>1, <1>2 DEF LineageInv, Stored, Unsubmitted

LEMMA TurnOfThread ==
  ASSUME ChatInv, LineageInv, NEW k \in DOMAIN journal
  PROVE  /\ taskStore[journal[k]].turn = Len(Legacy) - 2 + k
         /\ k > 1 => /\ taskStore[journal[k]].pred = journal[k - 1]
                     /\ taskStore[journal[k - 1]].status = "succeeded"
<1>1. /\ ThreadInv /\ ChatTypeOK
      /\ DOMAIN journal = 1 .. Len(journal) /\ Len(journal) \in Nat
      /\ Len(Legacy) \in Nat /\ Len(Legacy) \in DOMAIN Legacy
  BY JournalType, LegacyType DEF ChatInv
<1>2. CASE k = 1
  <2>1. journal[k] = Legacy[Len(Legacy)]
    BY <1>1, <1>2, LegacyType DEF ThreadInv
  <2> QED
    BY <1>1, <1>2, <2>1 DEF LineageInv
<1>3. CASE k > 1
  <2>1. /\ journal[k] \in RequestIds \cup Others /\ Stored(journal[k])
        /\ taskStore[journal[k]].pred = journal[k - 1]
    BY <1>1, <1>3 DEF ThreadInv
  <2>2. PICK n \in DOMAIN journal :
          /\ taskStore[journal[k]].pred = journal[n]
          /\ taskStore[journal[n]].status = "succeeded"
          /\ taskStore[journal[k]].turn = Len(Legacy) - 1 + n
    BY <2>1 DEF LineageInv
  <2>3. k - 1 \in DOMAIN journal
    BY <1>1, <1>3
  <2>4. n = k - 1
    BY <1>1, <2>1, <2>2, <2>3 DEF ThreadInv
  <2> QED
    BY <1>1, <2>1, <2>2, <2>4
<1> QED
  BY <1>1, <1>2, <1>3

LEMMA LineageUnwritten ==
  ASSUME ChatInv, LineageInv, ThreadGrows,
         \A t \in TaskIds :
           /\ taskStore'[t].turn = taskStore[t].turn
           /\ taskStore'[t].pred = taskStore[t].pred
           /\ taskStore[t].status = "succeeded"
                => taskStore'[t].status = "succeeded"
           /\ Stored(t)' => Stored(t)
  PROVE  LineageInv'
<1>1. \A k \in DOMAIN journal : journal[k] \in TaskIds
  BY JournalType DEF ChatInv
<1>2. \A k \in DOMAIN Legacy : Legacy[k] \in TaskIds
  BY LegacyType DEF TaskIds
<1>3. ASSUME NEW t \in RequestIds \cup Others, Stored(t)'
      PROVE  \E k \in DOMAIN journal' :
               /\ taskStore'[t].pred = journal'[k]
               /\ taskStore'[journal'[k]].status = "succeeded"
               /\ taskStore'[t].turn = Len(Legacy) - 1 + k
  <2>1. t \in TaskIds /\ Stored(t)
    BY <1>3, NotLegacy
  <2>2. PICK k \in DOMAIN journal :
          /\ taskStore[t].pred = journal[k]
          /\ taskStore[journal[k]].status = "succeeded"
          /\ taskStore[t].turn = Len(Legacy) - 1 + k
    BY <2>1 DEF LineageInv
  <2>3. k \in DOMAIN journal' /\ journal'[k] = journal[k]
    BY DEF ThreadGrows
  <2>4. taskStore'[journal[k]].status = "succeeded"
    BY <1>1, <2>2
  <2> QED
    BY <2>1, <2>2, <2>3, <2>4
<1> QED
  BY <1>2, <1>3 DEF LineageInv

(* The successor of the head is a turn of the lineage.                     *)
LEMMA LineageWritten ==
  ASSUME ChatInv, LineageInv, ThreadGrows, NEW t \in RequestIds \cup Others,
         NEW text \in Messages \cup {NoText}, Rooted(PreferredHead), ~Stored(t),
         taskStore' = [taskStore EXCEPT ![t] = Successor(PreferredHead, text)]
  PROVE  LineageInv'
<1> PICK p : p = PreferredHead
  OBVIOUS
<1> PICK d : d = Successor(p, text)
  OBVIOUS
<1>1. /\ ThreadInv /\ ChatTypeOK /\ taskStore \in [TaskIds -> Dialogue]
      /\ Len(journal) \in Nat /\ Len(journal) \in DOMAIN journal
      /\ p = journal[Len(journal)] /\ p \in TaskIds
      /\ \A k \in DOMAIN journal : journal[k] \in TaskIds
  BY JournalType DEF ChatInv, ChatTypeOK
<1>2. t \in TaskIds /\ t \notin LegacyTasks
  BY NotLegacy
<1>3. /\ taskStore' = [taskStore EXCEPT ![t] = d]
      /\ taskStore'[t] = d
      /\ \A u \in TaskIds : u # t => taskStore'[u] = taskStore[u]
  BY <1>1, <1>2
<1>4. d.pred = p /\ d.turn = taskStore[p].turn + 1
  BY DEF Successor, NextTurn
<1>5. Len(Legacy) \in Nat /\ taskStore[p].turn = Len(Legacy) - 2 + Len(journal)
  BY <1>1, TurnOfThread, LegacyType
<1>6. d.turn = Len(Legacy) - 1 + Len(journal)
  BY <1>1, <1>4, <1>5
<1>7. \A k \in DOMAIN journal : journal[k] # t
  BY <1>1 DEF ThreadInv
<1>8. taskStore[p].status = "succeeded"
  BY DEF Rooted, CanonicalLegacy, CanonicalTurn
<1>9. \A k \in DOMAIN Legacy : Legacy[k] \in TaskIds /\ Legacy[k] # t
  BY <1>2, LegacyType DEF TaskIds
<1>10. ASSUME NEW u \in RequestIds \cup Others, Stored(u)'
       PROVE  \E k \in DOMAIN journal' :
                /\ taskStore'[u].pred = journal'[k]
                /\ taskStore'[journal'[k]].status = "succeeded"
                /\ taskStore'[u].turn = Len(Legacy) - 1 + k
  <2>1. CASE u = t
    <3>1. Len(journal) \in DOMAIN journal' /\ journal'[Len(journal)] = p
      BY <1>1 DEF ThreadGrows
    <3>2. taskStore'[p].status = "succeeded"
      BY <1>1, <1>3, <1>7, <1>8
    <3> QED
      BY <1>3, <1>4, <1>6, <2>1, <3>1, <3>2
  <2>2. CASE u # t
    <3>1. u \in TaskIds /\ taskStore'[u] = taskStore[u]
      BY <1>3, <2>2, NotLegacy
    <3>2. Stored(u)
      BY <1>10, <3>1 DEF Stored
    <3>3. PICK k \in DOMAIN journal :
            /\ taskStore[u].pred = journal[k]
            /\ taskStore[journal[k]].status = "succeeded"
            /\ taskStore[u].turn = Len(Legacy) - 1 + k
      BY <3>2 DEF LineageInv
    <3>4. k \in DOMAIN journal' /\ journal'[k] = journal[k]
      BY DEF ThreadGrows
    <3>5. taskStore'[journal[k]].status = "succeeded"
      BY <1>1, <1>3, <1>7, <3>3
    <3> QED
      BY <3>1, <3>3, <3>4, <3>5
  <2> QED
    BY <2>1, <2>2
<1> QED
  BY <1>3, <1>9, <1>10 DEF LineageInv

LEMMA LineageStep == ChatInv /\ LineageInv /\ [ChatNext]_allVars => LineageInv'
<1> SUFFICES ASSUME ChatInv, LineageInv, [ChatNext]_allVars
             PROVE  LineageInv'
  OBVIOUS
<1>1. ChatTypeOK /\ ThreadInv /\ ChatInv'
  BY ChatStep DEF ChatInv
<1>2. CASE UNCHANGED storeVars
  BY <1>2 DEF LineageInv, Stored, storeVars
<1>3. CASE \/ InspectHead \/ InspectTask \/ SubmitMoved \/ SubmitRejected
           \/ ReplaceConflicts \/ ReplaceFails \/ Socket \/ User \/ DeadlinePasses \/ Chat
           \/ UNCHANGED allVars
  <2>1. UNCHANGED storeVars
    BY <1>3
       DEF InspectHead, InspectTask, SubmitMoved, SubmitRejected,
           ReplaceConflicts, ReplaceFails, Socket, TimesOut, Refused, ServiceDies, User, SendLine,
           RetryAmbiguous, RetryConflict, Quit, DeadlinePasses, Chat, Inspected,
           SubmitAnswered, Refreshed, Observed, allVars, storeVars, serviceVars
  <2> QED
    BY <1>2, <2>1
<1>4. CASE SubmitTask
  <2>1. PICK a : a = Head(backlog).attempt
    OBVIOUS
  <2>2. a.request \in RequestIds /\ a.text \in Messages /\ journal' = journal
    BY <1>4, <2>1, SubmitTaskStores
  <2>3. /\ Rooted(PreferredHead)
        /\ taskStore' = IF Stored(a.request) THEN taskStore
                        ELSE [taskStore EXCEPT
                               ![a.request] = Successor(PreferredHead, a.text)]
    BY <1>4, <2>1 DEF SubmitTask
  <2>4. ThreadGrows
    BY <2>2 DEF ThreadGrows
  <2>5. CASE Stored(a.request)
    BY <1>2, <2>2, <2>3, <2>5 DEF storeVars
  <2>6. CASE ~Stored(a.request)
    BY <2>2, <2>3, <2>4, <2>6, LineageWritten
  <2> QED
    BY <2>5, <2>6
<1>5. CASE ReplaceHead
  <2>1. taskStore' = taskStore
        /\ journal' = Append(journal, Head(backlog).attempt.request)
    BY <1>5 DEF ReplaceHead
  <2>2. Head(backlog).attempt.request \in TaskIds
    <3>1. backlog # <<>> /\ Head(backlog).op = "submit"
      BY <1>5 DEF ReplaceHead, ChatInv, ReplaceInv
    <3> QED
      BY <3>1, BacklogType, CommandOfSubmit, NotLegacy DEF ChatInv
  <2>3. ThreadGrows
    <3>1. /\ Len(journal') = Len(journal) + 1
          /\ \A k \in 1 .. Len(journal) : journal'[k] = journal[k]
          /\ journal' \in Seq(TaskIds)
      BY <2>1, <2>2, AppendProperties DEF ChatInv, ChatTypeOK
    <3>2. DOMAIN journal' = 1 .. Len(journal')
      BY <3>1, LenProperties
    <3> QED
      BY <1>1, <3>1, <3>2, JournalType DEF ThreadGrows
  <2> QED
    BY <2>1, <2>3, LineageUnwritten DEF Stored
<1>6. ASSUME NEW o \in Others, OtherTask(o)
      PROVE  LineageInv'
  <2>1. /\ Rooted(PreferredHead) /\ ~Stored(o) /\ journal' = journal
        /\ taskStore' = [taskStore EXCEPT ![o] =
             Successor(PreferredHead, NoText)]
    BY <1>6 DEF OtherTask
  <2>2. ThreadGrows
    BY <2>1 DEF ThreadGrows
  <2> QED
    BY <2>1, <2>2, LineageWritten
<1>7. ASSUME NEW t \in TaskIds, RunTask(t)
      PROVE  LineageInv'
  <2>1. /\ journal' = journal /\ taskStore[t].status = "queued"
        /\ \A u \in TaskIds :
             /\ u # t => taskStore'[u] = taskStore[u]
             /\ taskStore'[u].pred = taskStore[u].pred
             /\ taskStore'[u].turn = taskStore[u].turn
             /\ Stored(u)' => Stored(u)
    BY <1>7, RunTaskStores
  <2>2. ThreadGrows
    BY <2>1 DEF ThreadGrows
  <2>3. \A u \in TaskIds : taskStore[u].status = "succeeded"
                             => taskStore'[u].status = "succeeded"
    BY <2>1
  <2> QED
    BY <2>1, <2>2, <2>3, LineageUnwritten
<1>8. ASSUME NEW o \in Others, OtherHead(o)
      PROVE  LineageInv'
  <2>1. taskStore' = taskStore /\ ThreadGrows
    BY <1>8, OtherHeadStores
  <2> QED
    BY <2>1, LineageUnwritten DEF Stored
<1> QED
  BY <1>3, <1>4, <1>5, <1>6, <1>7, <1>8
     DEF ChatNext, ServiceWorker, OtherSubmitter

LEMMA ChatLineage == ChatSpec => []LineageInv
  BY InitLineage, LineageStep, ChatInvariant, PTL DEF ChatSpec

-----------------------------------------------------------------------------
(* What the user is told is so: the refinement of the promise.             *)

Outcome(t) == IF taskStore[t].status \in {"succeeded", "failed"}
                THEN taskStore[t].status ELSE "open"
Outcomes == [t \in ThreadTurns |-> Outcome(t)]

LEMMA TurnsAreTasks ==
  /\ ThreadTurns \subseteq TaskIds /\ RequestIds \subseteq ThreadTurns
  /\ Others \subseteq ThreadTurns /\ Last(Legacy) \in ThreadTurns
  /\ \A t \in ThreadTurns \ {Last(Legacy)} : t \in RequestIds \cup Others
  BY LegacyType DEF ThreadTurns, TaskIds

LEMMA InitPromise == ChatInit => Promise!Init
<1> SUFFICES ASSUME ChatInit PROVE Promise!Init
  OBVIOUS
<1>1. ChatInv
  BY InitChat
<1>2. Outcome(Last(Legacy)) = "succeeded"
  BY <1>1, LegacyType DEF ChatInv, ThreadInv, Outcome
<1>3. \A t \in RequestIds \cup Others : taskStore[t] = Unsubmitted
  BY InitStores
<1>4. \A t \in RequestIds \cup Others : Outcome(t) = "open"
  BY <1>3 DEF Outcome, Unsubmitted
<1>5. \A t \in ThreadTurns :
        Outcome(t) = IF t = Last(Legacy) THEN "succeeded" ELSE "open"
  BY <1>2, <1>4, TurnsAreTasks
<1>6. journal = <<Last(Legacy)>> /\ told = [r \in RequestIds |-> "none"]
  BY DEF ChatInit
<1> QED
  BY <1>5, <1>6 DEF Promise!Init, Outcome

LEMMA OutcomesKept ==
  ASSUME \A t \in ThreadTurns : Outcome(t)' = Outcome(t)
  PROVE  Outcomes' = Outcomes
  BY DEF Outcomes

LEMMA PromiseVars ==
  ASSUME journal' = journal, told' = told, Outcomes' = Outcomes
  PROVE  UNCHANGED Promise!vars
  BY DEF Promise!vars, Outcomes, Outcome

(* A turn is put on the thread after a canonical success.                  *)
LEMMA HeadSucceeded ==
  ASSUME LineageInv, NEW t \in RequestIds \cup Others, Stored(t),
         taskStore[t].pred = PreferredHead
  PROVE  taskStore[PreferredHead].status = "succeeded"
  BY DEF LineageInv

LEMMA AdvancesPromise ==
  ASSUME ChatInv, NEW t \in RequestIds \cup Others, ~OnThread(t),
         taskStore[PreferredHead].status = "succeeded",
         t \in RequestIds => told[t] # "conflict",
         journal' = Append(journal, t), told' = told, Outcomes' = Outcomes
  PROVE  Promise!Advance(t)
<1>1. ChatTypeOK /\ ThreadInv
  BY DEF ChatInv
<1>2. /\ PreferredHead = journal[Len(journal)]
      /\ Len(journal) \in DOMAIN journal
  BY <1>1, JournalType
<1>3. PreferredHead \in ThreadTurns
  <2>1. PreferredHead \in {Last(Legacy)} \cup RequestIds \cup Others
    <3>1. CASE Len(journal) = 1
      BY <1>1, <1>2, <3>1 DEF ThreadInv
    <3>2. CASE Len(journal) > 1
      BY <1>1, <1>2, <3>2 DEF ThreadInv
    <3> QED
      BY <1>1, <3>1, <3>2, JournalType
  <2> QED
    BY <2>1 DEF ThreadTurns
<1>4. Outcomes[PreferredHead] = "succeeded"
  BY <1>3 DEF Outcomes, Outcome
<1>5. Outcomes[journal[Len(journal)]] = "succeeded"
  BY <1>2, <1>4
<1>6. ~Promise!OnThread(t)
  BY DEF OnThread, Promise!OnThread
<1> QED
  BY <1>5, <1>6 DEF Promise!Advance, Outcomes, Outcome

LEMMA EndsPromise ==
  ASSUME ChatInv, NEW t \in TaskIds, RunTask(t)
  PROVE  t \in ThreadTurns /\ Promise!End(t)
<1>1. /\ journal' = journal /\ t \in RequestIds \cup Others
      /\ taskStore[t].status = "queued"
      /\ taskStore'[t].status \in {"succeeded", "failed"}
      /\ \A u \in TaskIds : u # t => taskStore'[u] = taskStore[u]
  BY RunTaskStores
<1>2. t \in ThreadTurns /\ told' = told
  BY <1>1 DEF ThreadTurns, RunTask, chatVars
<1>3. Outcomes[t] = "open"
  BY <1>1, <1>2 DEF Outcomes, Outcome
<1>4. Outcomes' = [Outcomes EXCEPT ![t] = taskStore'[t].status]
  <2>1. \A u \in ThreadTurns : u # t => Outcome(u)' = Outcome(u)
    BY <1>1, TurnsAreTasks DEF Outcome
  <2>2. Outcome(t)' = taskStore'[t].status
    BY <1>1 DEF Outcome
  <2> QED
    BY <1>2, <2>1, <2>2 DEF Outcomes
<1> QED
  BY <1>1, <1>2, <1>3, <1>4 DEF Promise!End, Outcomes, Outcome

LEMMA TellsPromise ==
  ASSUME ChatInv, Outstanding, journal' = journal, taskStore' = taskStore,
         NEW verdict, Tell(verdict),
         \/ verdict = "transport_ambiguous"
         \/ verdict = "conflict" /\ PreferredHead # attempt.request
         \/ /\ Landed
            /\ \/ verdict = "timeout"
               \/ /\ verdict = "succeeded"
                  /\ taskStore[attempt.request].status = "succeeded"
               \/ /\ verdict = "terminal_failure"
                  /\ taskStore[attempt.request].status = "failed"
  PROVE  attempt.request \in RequestIds /\ Promise!Tell(attempt.request)
<1>1. /\ attempt.request \in RequestIds /\ attempt.request \in ThreadTurns
      /\ told[attempt.request] \in {"none", "transport_ambiguous"}
  BY TurnsAreTasks DEF ChatInv, TryInv
<1>2. told' = [told EXCEPT ![attempt.request] = verdict]
  BY DEF Tell
<1>3. Landed => Promise!OnThread(attempt.request)
  BY DEF Landed, OnThread, Promise!OnThread
<1>4. Outcomes[attempt.request] = Outcome(attempt.request)
  BY <1>1 DEF Outcomes
<1>5. Promise!Learnt(attempt.request, verdict)
  BY <1>3, <1>4 DEF Promise!Learnt, Outcomes, Outcome, PreferredHead, Last
<1>6. verdict \in {"transport_ambiguous", "conflict", "timeout", "succeeded",
                   "terminal_failure"}
  OBVIOUS
<1>7. UNCHANGED <<journal, Outcomes>>
  BY DEF Outcomes, Outcome
<1> QED
  BY <1>1, <1>2, <1>5, <1>6, <1>7 DEF Promise!Tell, Outcomes, Outcome

LEMMA PromiseStep ==
  ChatInv /\ LastWordInv /\ LineageInv /\ [ChatNext]_allVars
    => [Promise!Next]_Promise!vars
<1> SUFFICES ASSUME ChatInv, LastWordInv, LineageInv, [ChatNext]_allVars
             PROVE  [Promise!Next]_Promise!vars
  OBVIOUS
<1>1. UNCHANGED storeVars => journal' = journal /\ Outcomes' = Outcomes
  BY DEF storeVars, Outcomes, Outcome
<1>2. UNCHANGED serviceVars => UNCHANGED storeVars
  BY DEF serviceVars, storeVars
<1>3. CASE UNCHANGED storeVars /\ told' = told
  BY <1>1, <1>3, PromiseVars
<1>4. CASE \/ InspectHead \/ InspectTask \/ SubmitMoved \/ SubmitRejected
           \/ ReplaceConflicts \/ ReplaceFails \/ Socket \/ User
           \/ DeadlinePasses \/ Inspected \/ Refreshed \/ UNCHANGED allVars
  <2>1. UNCHANGED storeVars
    BY <1>2, <1>4
       DEF InspectHead, InspectTask, SubmitMoved, SubmitRejected,
           ReplaceConflicts, ReplaceFails, Socket, TimesOut, Refused, ServiceDies, User, SendLine,
           RetryAmbiguous, RetryConflict, Quit, DeadlinePasses, Inspected,
           Refreshed, allVars, storeVars
  <2>2. told' = told
    BY <1>4
       DEF InspectHead, InspectTask, SubmitMoved, SubmitRejected,
           ReplaceConflicts, ReplaceFails, Socket, TimesOut, Refused, ServiceDies, User, SendLine,
           RetryAmbiguous, RetryConflict, Quit, DeadlinePasses, Inspected,
           Refreshed, allVars, chatVars
  <2> QED
    BY <1>3, <2>1, <2>2
<1>5. CASE SubmitTask
  <2>1. PICK a : a = Head(backlog).attempt
    OBVIOUS
  <2>2. /\ journal' = journal /\ told' = told
        /\ \A u \in TaskIds : u # a.request => taskStore'[u] = taskStore[u]
        /\ \/ taskStore' = taskStore
           \/ /\ taskStore[a.request].status = "absent"
              /\ taskStore'[a.request].status = "queued"
    <3>1. /\ journal' = journal
          /\ \A u \in TaskIds : u # a.request => taskStore'[u] = taskStore[u]
          /\ a.request \in RequestIds /\ a.text \in Messages
      BY <1>5, <2>1, SubmitTaskStores
    <3>2. PICK d : d = Successor(PreferredHead, a.text)
      OBVIOUS
    <3>3. /\ told' = told
          /\ taskStore' = IF Stored(a.request) THEN taskStore
                          ELSE [taskStore EXCEPT ![a.request] = d]
      BY <1>5, <2>1, <3>2 DEF SubmitTask, chatVars
    <3>4. d.status = "queued" /\ a.request \in TaskIds
      BY <3>1, <3>2, NotLegacy DEF Successor
    <3>5. taskStore \in [TaskIds -> Dialogue]
      BY DEF ChatInv, ChatTypeOK
    <3> QED
      BY <3>1, <3>3, <3>4, <3>5 DEF Stored
  <2>3. \A t \in ThreadTurns : Outcome(t)' = Outcome(t)
    BY <2>2, TurnsAreTasks DEF Outcome
  <2> QED
    BY <2>2, <2>3, OutcomesKept, PromiseVars
<1>6. CASE ReplaceHead
  <2>1. PICK a : a = Head(backlog).attempt
    OBVIOUS
  <2>2. /\ step = "replace" /\ journal' = Append(journal, a.request)
        /\ taskStore' = taskStore /\ told' = told /\ Revision = a.rev
    BY <1>6, <2>1 DEF ReplaceHead, chatVars
  <2>3. /\ backlog # <<>> /\ Head(backlog).op = "submit"
        /\ Stored(a.request) /\ ~OnThread(a.request)
        /\ taskStore[a.request].pred = PreferredHead
    BY <2>1, <2>2, JournalType DEF ChatInv, ReplaceInv
  <2>4. a.request \in RequestIds /\ told[a.request] # "conflict"
    BY <2>1, <2>3, BacklogType, CommandOfSubmit
       DEF ChatInv, LastWordInv, CallsInv
  <2>5. Outcomes' = Outcomes
    BY <2>2 DEF Outcomes, Outcome
  <2>6. Promise!Advance(a.request) /\ a.request \in ThreadTurns
    BY <2>2, <2>3, <2>4, <2>5, HeadSucceeded, AdvancesPromise, TurnsAreTasks
  <2> QED
    BY <2>6 DEF Promise!Next
<1>7. ASSUME NEW o \in Others, OtherTask(o)
      PROVE  [Promise!Next]_Promise!vars
  <2>1. /\ journal' = journal /\ taskStore[o].status = "absent"
        /\ \A u \in TaskIds : u # o => taskStore'[u] = taskStore[u]
    BY <1>7, OtherTaskStores DEF Stored
  <2>2. told' = told /\ taskStore'[o].status = "queued"
    <3>1. PICK d : d = Successor(PreferredHead, NoText)
      OBVIOUS
    <3>2. taskStore' = [taskStore EXCEPT ![o] = d] /\ d.status = "queued"
          /\ taskStore \in [TaskIds -> Dialogue] /\ o \in TaskIds
      BY <1>7, <3>1, NotLegacy DEF OtherTask, Successor, ChatInv, ChatTypeOK
    <3> QED
      BY <1>7, <3>2 DEF OtherTask, chatVars
  <2>3. \A t \in ThreadTurns : Outcome(t)' = Outcome(t)
    BY <2>1, <2>2, TurnsAreTasks DEF Outcome
  <2> QED
    BY <2>1, <2>2, <2>3, OutcomesKept, PromiseVars
<1>8. ASSUME NEW t \in TaskIds, RunTask(t)
      PROVE  [Promise!Next]_Promise!vars
  BY <1>8, EndsPromise DEF Promise!Next
<1>9. CASE SubmitAnswered
  <2>1. /\ phase = "submit" /\ result # NoReply /\ Outstanding
        /\ taskStore' = taskStore /\ journal' = journal /\ UNCHANGED storeVars
    BY <1>9 DEF SubmitAnswered, Returned, Outstanding, serviceVars, storeVars
  <2>2. ~(result.code = 0 /\ result.rev # attempt.rev + 1)
    BY <2>1 DEF ChatInv, ReplyInv, Truthful
  <2>3. \/ Tell("transport_ambiguous")
        \/ result.code = 4 /\ Tell("conflict")
        \/ told' = told
    BY <1>9, <2>2 DEF SubmitAnswered
  <2>4. CASE Tell("transport_ambiguous")
    BY <2>1, <2>4, TellsPromise DEF Promise!Next
  <2>5. CASE result.code = 4 /\ Tell("conflict")
    <3>1. PreferredHead # attempt.request
      BY <2>1, <2>5 DEF LastWordInv, ConflictInv
    <3> QED
      BY <2>1, <2>5, <3>1, TellsPromise DEF Promise!Next
  <2> QED
    BY <1>3, <2>1, <2>3, <2>4, <2>5
<1>10. CASE Observed
  <2>1. /\ phase = "poll" /\ Landed /\ Outstanding
        /\ taskStore' = taskStore /\ journal' = journal /\ UNCHANGED storeVars
    BY <1>10, ObservedMoves DEF Outstanding, serviceVars, storeVars
  <2>2. \/ \E verdict \in {"timeout", "succeeded", "terminal_failure"} :
             /\ Tell(verdict)
             /\ verdict # "timeout" =>
                  taskStore[attempt.request].status =
                    IF verdict = "succeeded" THEN "succeeded" ELSE "failed"
        \/ told' = told
    BY <1>10, ObservedMoves
  <2>3. ASSUME NEW verdict \in {"timeout", "succeeded", "terminal_failure"},
               Tell(verdict),
               verdict # "timeout" =>
                  taskStore[attempt.request].status =
                    IF verdict = "succeeded" THEN "succeeded" ELSE "failed"
        PROVE  [Promise!Next]_Promise!vars
    BY <2>1, <2>3, TellsPromise DEF Promise!Next
  <2> QED
    BY <1>3, <2>1, <2>2, <2>3
<1>11. ASSUME NEW o \in Others, OtherHead(o)
       PROVE  [Promise!Next]_Promise!vars
  <2>1. /\ journal' = Append(journal, o) /\ ~OnThread(o) /\ Stored(o)
        /\ taskStore' = taskStore
    BY <1>11, OtherHeadStores
  <2>2. told' = told /\ taskStore[o].pred = PreferredHead
    BY <1>11 DEF OtherHead, chatVars
  <2>3. Outcomes' = Outcomes /\ o \notin RequestIds
    BY <2>1, ChatAssumption DEF Outcomes, Outcome
  <2>4. Promise!Advance(o) /\ o \in ThreadTurns
    BY <2>1, <2>2, <2>3, HeadSucceeded, AdvancesPromise, TurnsAreTasks
  <2> QED
    BY <2>4 DEF Promise!Next
<1> QED
  BY <1>4, <1>5, <1>6, <1>7, <1>8, <1>9, <1>10, <1>11
     DEF ChatNext, ServiceWorker, OtherSubmitter, Chat

(* ChatPromiseKept: the chat and the service it talks to implement the     *)
(* promise, whatever times out, is refused, dies, is retried, is executed  *)
(* after its client gave up or is overtaken by another submitter: a word   *)
(* of success, of failure or of a wait that is over is told of a turn that *)
(* is on the thread, and a conflict never of its head.                     *)
THEOREM ChatPromiseKept == ChatSpec => ImplementsPromise
  BY InitPromise, PromiseStep, ChatInvariant, LastWordInvariant, ChatLineage,
     PTL DEF ChatSpec, ImplementsPromise, Promise!Spec

-----------------------------------------------------------------------------
(* The lineage in the Task store is the conversation of the thread store.  *)

(* A nonempty set of naturals has a least element: how what a recursive    *)
(* function says is proved for every argument, by a least counterexample.  *)
LEMMA LeastNatural ==
  ASSUME NEW T, T \subseteq Nat, T # {}
  PROVE  \E m \in T : \A k \in T : m <= k
<1>1. IsWellFoundedOn(OpToRel(<, Nat), Nat)
  BY NatLessThanWellFounded
<1>2. PICK m \in T : \A k \in T : ~(<<k, m>> \in OpToRel(<, Nat))
  BY <1>1, WFMin
<1>3. ASSUME NEW k \in T PROVE ~(k < m)
  BY <1>2, <1>3 DEF OpToRel
<1> QED
  BY <1>3

(* Conversed(t): B is the conversation t was submitted on, from the root.  *)
Conversed(t, B) ==
  /\ B \in Seq(TaskIds) /\ Len(B) = taskStore[t].turn
  /\ Len(B) \in Nat /\ Len(B) > 0 /\ DOMAIN B = 1 .. Len(B)
  /\ B[1] = Legacy[1] /\ taskStore[t].pred = B[Len(B)]
  /\ \A i \in 1 .. Len(B) :
       /\ B[i] \in TaskIds /\ taskStore[B[i]].status = "succeeded"
       /\ taskStore[B[i]].turn = i - 1
       /\ i > 1 => taskStore[B[i]].pred = B[i - 1]
       /\ B[i] \in LegacyTasks <=> i <= Len(Legacy)

LEMMA BeforeIsConversation ==
  ASSUME ChatInv, LineageInv, NEW t \in RequestIds \cup Others, Stored(t)
  PROVE  Conversed(t, Before(t))
<1>1. /\ ThreadInv /\ ChatTypeOK /\ journal \in Seq(TaskIds)
      /\ DOMAIN journal = 1 .. Len(journal) /\ Len(journal) \in Nat
      /\ \A n \in DOMAIN journal : journal[n] \in TaskIds
  BY JournalType DEF ChatInv, ChatTypeOK
<1>2. PICK k \in DOMAIN journal :
        /\ taskStore[t].pred = journal[k]
        /\ taskStore[journal[k]].status = "succeeded"
        /\ taskStore[t].turn = Len(Legacy) - 1 + k
  BY DEF LineageInv
<1>3. k = CHOOSE n \in DOMAIN journal : journal[n] = taskStore[t].pred
  <2>1. \A n \in DOMAIN journal : journal[n] = taskStore[t].pred => n = k
    BY <1>1, <1>2 DEF ThreadInv
  <2> QED
    BY <1>2, <2>1
<1>4. PICK g : g = Len(Legacy) - 1
  OBVIOUS
<1>5. /\ Legacy \in Seq(TaskIds) /\ g \in Nat /\ Len(Legacy) = g + 1
      /\ DOMAIN Legacy = 1 .. g + 1
      /\ \A n \in DOMAIN Legacy : Legacy[n] \in LegacyTasks
  <2>1. LegacyTasks \subseteq TaskIds
    BY DEF TaskIds
  <2>2. Legacy \in Seq(TaskIds)
    BY <2>1, LegacyType, SeqMonotonic
  <2> QED
    BY <1>4, <2>2, LegacyType
<1>6. PICK front : front = SubSeq(Legacy, 1, g)
  OBVIOUS
<1>7. PICK rest : rest = SubSeq(journal, 1, k)
  OBVIOUS
<1>8. /\ front \in Seq(TaskIds) /\ Len(front) = g
      /\ \A i \in 1 .. g : front[i] = Legacy[i]
  <2>1. \A i \in 1 .. g : Legacy[i] \in TaskIds
    BY <1>5 DEF TaskIds
  <2>2. /\ front \in Seq(TaskIds)
        /\ Len(front) = IF 1 <= g THEN g - 1 + 1 ELSE 0
        /\ \A i \in 1 .. g - 1 + 1 : front[i] = Legacy[1 + i - 1]
    BY <1>5, <1>6, <2>1, SubSeqProperties
  <2> QED
    BY <1>5, <2>2
<1>9. /\ rest \in Seq(TaskIds) /\ Len(rest) = k /\ k \in Nat /\ k > 0
      /\ \A i \in 1 .. k : i \in DOMAIN journal /\ rest[i] = journal[i]
  <2>1. k \in Nat /\ k > 0 /\ \A i \in 1 .. k : i \in DOMAIN journal
    BY <1>1
  <2>2. /\ rest \in Seq(TaskIds)
        /\ Len(rest) = IF 1 <= k THEN k - 1 + 1 ELSE 0
        /\ \A i \in 1 .. k - 1 + 1 : rest[i] = journal[1 + i - 1]
    BY <1>1, <1>7, <2>1, SubSeqProperties
  <2> QED
    BY <2>1, <2>2
<1>10. PICK B : B = front \o rest
  OBVIOUS
<1>11. Before(t) = B
  BY <1>3, <1>4, <1>6, <1>7, <1>10 DEF Before, Front
<1>12. /\ B \in Seq(TaskIds) /\ Len(B) = g + k
       /\ \A i \in 1 .. g + k : B[i] = IF i <= g THEN front[i] ELSE rest[i - g]
  BY <1>8, <1>9, <1>10, ConcatProperties
<1>13. \A i \in 1 .. g : B[i] = Legacy[i] /\ i \in DOMAIN Legacy
  BY <1>5, <1>8, <1>9, <1>12
<1>14. \A i \in g + 1 .. g + k :
         B[i] = journal[i - g] /\ i - g \in DOMAIN journal
  BY <1>5, <1>9, <1>12
<1>15. B[g + 1] = Legacy[g + 1]
  <2>1. B[g + 1] = journal[1]
    BY <1>5, <1>9, <1>14
  <2> QED
    BY <1>1, <1>5, <2>1, LegacyType DEF ThreadInv
<1>16. DOMAIN B = 1 .. Len(B) /\ Len(B) \in Nat /\ Len(B) > 0
  BY <1>5, <1>9, <1>12
<1>17. B[1] = Legacy[1]
  BY <1>5, <1>13, <1>15
<1>18. taskStore[t].pred = B[Len(B)] /\ Len(B) = taskStore[t].turn
  BY <1>2, <1>4, <1>5, <1>9, <1>12, <1>14
<1>19. ASSUME NEW i \in 1 .. Len(B)
       PROVE  /\ B[i] \in TaskIds /\ taskStore[B[i]].status = "succeeded"
              /\ taskStore[B[i]].turn = i - 1
              /\ i > 1 => taskStore[B[i]].pred = B[i - 1]
              /\ B[i] \in LegacyTasks <=> i <= Len(Legacy)
  <2>1. CASE i <= g + 1
    <3>1. B[i] = Legacy[i] /\ i \in DOMAIN Legacy
      BY <1>5, <1>12, <1>13, <1>15, <2>1
    <3>2. i > 1 => B[i - 1] = Legacy[i - 1]
      BY <1>5, <1>12, <1>13, <2>1
    <3>3. B[i] \in LegacyTasks /\ B[i] \in TaskIds
          /\ taskStore[B[i]].status = "succeeded"
      BY <1>1, <1>5, <3>1 DEF ThreadInv, TaskIds
    <3> QED
      BY <1>5, <2>1, <3>1, <3>2, <3>3 DEF LineageInv
  <2>2. CASE i > g + 1
    <3> PICK n : n = i - g
      OBVIOUS
    <3>1. /\ B[i] = journal[n] /\ n \in DOMAIN journal /\ n > 1 /\ n <= k
          /\ B[i - 1] = journal[n - 1] /\ n - 1 \in DOMAIN journal
      <4>1. /\ i \in g + 1 .. g + k /\ n \in 2 .. k
            /\ i - 1 \in g + 1 .. g + k /\ (i - 1) - g = n - 1
        BY <1>5, <1>9, <1>12, <2>2
      <4>2. B[i] = journal[n] /\ n \in DOMAIN journal
        BY <1>14, <4>1
      <4>3. B[i - 1] = journal[n - 1] /\ n - 1 \in DOMAIN journal
        BY <1>14, <4>1
      <4> QED
        BY <1>9, <4>1, <4>2, <4>3
    <3>2. n \in DOMAIN journal /\ n = i - g
      BY <3>1
    <3>3. /\ taskStore[journal[n]].turn = Len(Legacy) - 2 + n
          /\ taskStore[journal[n]].pred = journal[n - 1]
      BY <3>1, <3>2, TurnOfThread
    <3>4. taskStore[journal[n]].status = "succeeded"
      <4>1. CASE i = g + k
        BY <1>2, <1>5, <1>9, <3>2, <4>1
      <4>2. CASE i # g + k
        <5> PICK m : m = n + 1
          OBVIOUS
        <5>1. n # k
          BY <1>5, <1>9, <1>12, <3>2, <4>2
        <5>2. m \in 1 .. k /\ m > 1 /\ m - 1 = n
          BY <1>1, <1>9, <3>1, <5>1
        <5>3. m \in DOMAIN journal
          BY <1>9, <5>2
        <5>4. taskStore[journal[m - 1]].status = "succeeded"
          BY <5>2, <5>3, TurnOfThread
        <5> QED
          BY <5>2, <5>4
      <4> QED
        BY <4>1, <4>2
    <3>5. journal[n] \in RequestIds \cup Others
      BY <1>1, <3>1, <3>2 DEF ThreadInv
    <3>6. journal[n] \in TaskIds /\ journal[n] \notin LegacyTasks
      BY <3>5, NotLegacy
    <3> QED
      BY <1>5, <1>12, <2>2, <3>1, <3>2, <3>3, <3>4, <3>6
  <2> QED
    BY <1>5, <1>12, <2>1, <2>2
<1> QED
  BY <1>11, <1>12, <1>16, <1>17, <1>18, <1>19 DEF Conversed

(* The walk of the handler, as the function equation it solves.            *)
Walks(t, up) ==
  up = [n \in 0 .. taskStore[t].turn |->
          IF n = 0 THEN t
          ELSE IF up[n - 1] = NoTurn THEN NoTurn ELSE taskStore[up[n - 1]].pred]

LEMMA AncestorIsWalk ==
  ASSUME NEW t
  PROVE  Ancestor(t) = CHOOSE up : Walks(t, up)
  BY DEF Ancestor, Walks

(* It goes back over the conversation, turn by turn.                       *)
LEMMA WalkIsConversation ==
  ASSUME ChatTypeOK, NEW t \in RequestIds \cup Others, NEW B, Conversed(t, B)
  PROVE  /\ Ancestor(t)[0] = t
         /\ \A n \in 1 .. Len(B) : Ancestor(t)[n] = B[Len(B) + 1 - n]
<1> PICK N : N = Len(B)
  OBVIOUS
<1>1. /\ N \in Nat /\ N > 0 /\ taskStore[t].turn = N /\ taskStore[t].pred = B[N]
      /\ \A i \in 1 .. N : B[i] \in TaskIds
      /\ \A i \in 1 .. N : i > 1 => taskStore[B[i]].pred = B[i - 1]
  BY DEF Conversed
<1>2. t \in TaskIds /\ NoTurn \notin TaskIds
  BY NotLegacy, ChatAssumption
<1> DEFINE back == [n \in 0 .. N |-> IF n = 0 THEN t ELSE B[N + 1 - n]]
<1>3. Walks(t, back)
  <2>1. ASSUME NEW n \in 0 .. N
        PROVE  back[n] = IF n = 0 THEN t
                         ELSE IF back[n - 1] = NoTurn THEN NoTurn
                              ELSE taskStore[back[n - 1]].pred
    <3>1. CASE n = 0
      BY <1>1, <3>1
    <3>2. CASE n = 1
      <4>1. back[n] = B[N] /\ back[n - 1] = t
        BY <1>1, <3>2
      <4> QED
        BY <1>1, <1>2, <3>2, <4>1
    <3>3. CASE n > 1
      <4> PICK i : i = N + 2 - n
        OBVIOUS
      <4>1. i \in 1 .. N /\ i > 1 /\ N + 1 - n = i - 1 /\ N + 1 - (n - 1) = i
            /\ n - 1 \in 0 .. N /\ n - 1 # 0
        BY <1>1, <3>3
      <4>2. back[n] = B[i - 1] /\ back[n - 1] = B[i]
        BY <3>3, <4>1
      <4> QED
        BY <1>1, <1>2, <3>3, <4>1, <4>2
    <3> QED
      BY <1>1, <3>1, <3>2, <3>3
  <2>2. back = [n \in 0 .. N |->
                  IF n = 0 THEN t
                  ELSE IF back[n - 1] = NoTurn THEN NoTurn
                       ELSE taskStore[back[n - 1]].pred]
    BY <2>1, Zenon
  <2> HIDE DEF back
  <2> QED
    BY <1>1, <2>2 DEF Walks
<1> PICK up : up = Ancestor(t)
  OBVIOUS
<1>4. Walks(t, up)
  BY <1>3, AncestorIsWalk
<1>5. \A n \in 0 .. N :
        up[n] = IF n = 0 THEN t
                ELSE IF up[n - 1] = NoTurn THEN NoTurn
                     ELSE taskStore[up[n - 1]].pred
  BY <1>1, <1>4, Zenon DEF Walks
<1>6. up[0] = t
  BY <1>1, <1>5
<1>7. \A n \in 1 .. N : up[n] = B[N + 1 - n]
  <2> DEFINE Differ == {n \in 1 .. N : up[n] # B[N + 1 - n]}
  <2> SUFFICES ASSUME Differ # {} PROVE FALSE
    OBVIOUS
  <2>1. Differ \subseteq Nat
    BY <1>1
  <2>2. PICK n \in Differ : \A k \in Differ : n <= k
    BY <2>1, LeastNatural
  <2>3. n \in 1 .. N /\ up[n] # B[N + 1 - n]
    OBVIOUS
  <2>4. CASE n = 1
    <3>1. up[1] = B[N]
      BY <1>1, <1>2, <1>5, <1>6, <2>3, <2>4
    <3> QED
      BY <1>1, <2>3, <2>4, <3>1
  <2>5. CASE n > 1
    <3> PICK i : i = N + 2 - n
      OBVIOUS
    <3>1. i \in 1 .. N /\ i > 1 /\ N + 1 - n = i - 1 /\ N + 1 - (n - 1) = i
          /\ n - 1 \in 1 .. N /\ n \in 0 .. N
      BY <1>1, <2>3, <2>5
    <3>2. n - 1 \notin Differ
      BY <1>1, <2>2, <2>3
    <3>3. up[n - 1] = B[i]
      BY <3>1, <3>2
    <3>4. up[n] = B[i - 1]
      <4>1. B[i] # NoTurn /\ taskStore[B[i]].pred = B[i - 1]
        BY <1>1, <1>2, <3>1
      <4>2. n # 0
        BY <2>5, <3>1
      <4>3. up[n] = IF up[n - 1] = NoTurn THEN NoTurn
            ELSE taskStore[up[n - 1]].pred
        BY <1>5, <3>1, <4>2
      <4> QED
        BY <3>3, <4>1, <4>3
    <3> QED
      BY <2>3, <3>1, <3>4
  <2> QED
    BY <1>1, <2>3, <2>4, <2>5
<1> QED
  BY <1>6, <1>7

LEMMA ConversationResolves ==
  ASSUME ChatTypeOK, NEW t \in RequestIds \cup Others, NEW B, Conversed(t, B),
         taskStore[t].turn <= MaxLineage
  PROVE  Resolves(t)
<1> PICK N : N = Len(B)
  OBVIOUS
<1> PICK up : up = Ancestor(t)
  OBVIOUS
<1>1. /\ N \in Nat /\ N > 0 /\ taskStore[t].turn = N
      /\ B[1] = Legacy[1]
      /\ \A i \in 1 .. N : /\ B[i] \in TaskIds
                           /\ taskStore[B[i]].status = "succeeded"
                           /\ taskStore[B[i]].turn = i - 1
                           /\ B[i] \in LegacyTasks <=> i <= Len(Legacy)
      /\ Len(Legacy) \in Nat
  BY LegacyType DEF Conversed
<1>2. t \in TaskIds /\ t \notin LegacyTasks /\ NoTurn \notin TaskIds
  BY NotLegacy, ChatAssumption
<1>3. up[0] = t /\ \A n \in 1 .. N : up[n] = B[N + 1 - n]
  BY WalkIsConversation
<1>4. ASSUME NEW n \in 1 .. N
      PROVE  /\ Linked(up[n - 1], up[n])
             /\ up[n - 1] \in LegacyTasks => CanonicalLegacy(up[n])
  <2> PICK i : i = N + 1 - n
    OBVIOUS
  <2>1. i \in 1 .. N /\ up[n] = B[i]
    BY <1>1, <1>3
  <2>2. up[n] # NoTurn /\ Rooted(up[n]) /\ taskStore[up[n]].turn = i - 1
    BY <1>1, <1>2, <2>1 DEF Rooted, CanonicalLegacy, CanonicalTurn
  <2>3. taskStore[up[n - 1]].turn = i
        /\ (up[n - 1] \in LegacyTasks => up[n] \in LegacyTasks)
    <3>1. CASE n = 1
      BY <1>1, <1>2, <1>3, <3>1
    <3>2. CASE n > 1
      <4>1. n - 1 \in 1 .. N /\ N + 1 - (n - 1) = i + 1 /\ i + 1 \in 1 .. N
        BY <1>1, <3>2
      <4>2. up[n - 1] = B[i + 1]
        BY <1>3, <4>1
      <4>3. taskStore[B[i + 1]].turn = i
        BY <1>1, <2>1, <4>1
      <4>4. B[i + 1] \in LegacyTasks => B[i] \in LegacyTasks
        <5>1. B[i + 1] \in LegacyTasks => i + 1 <= Len(Legacy)
          BY <1>1, <4>1
        <5>2. i + 1 <= Len(Legacy) => i <= Len(Legacy)
          BY <1>1, <2>1
        <5>3. i <= Len(Legacy) => B[i] \in LegacyTasks
          BY <1>1, <2>1
        <5> QED
          BY <5>1, <5>2, <5>3
      <4> QED
        BY <2>1, <4>2, <4>3, <4>4
    <3> QED
      BY <1>1, <3>1, <3>2
  <2>4. NextTurn(up[n]) = i
    BY <1>1, <2>1, <2>2 DEF NextTurn
  <2> QED
    BY <1>1, <2>1, <2>2, <2>3, <2>4 DEF Linked, CanonicalLegacy
<1>5. up[N] = Legacy[1]
  BY <1>1, <1>3
<1>6. LegacyResolves(up, N)
  BY <1>4, <1>5 DEF LegacyResolves
<1> QED
  BY <1>1, <1>4, <1>6 DEF Resolves

(* The choice of the window, as the function equation it solves.           *)
Nothing == [turns |-> <<>>, bytes |-> 0]

Taken(t, n, w) ==
  LET up == Ancestor(t)
      fits == /\ Len(w.turns) < MaxHistoryTurns
              /\ w.bytes + taskStore[up[n]].size <= MaxHistoryBytes
  IN IF fits THEN [turns |-> <<up[n]>> \o w.turns,
                   bytes |-> w.bytes + taskStore[up[n]].size]
     ELSE w

Takes(t, N, take) ==
  take = [n \in 0 .. N |-> IF n = 0 THEN Nothing ELSE Taken(t, n, take[n - 1])]

LEMMA WindowIsChoice ==
  ASSUME NEW t
  PROVE  Window(t) = (CHOOSE take : Takes(t, taskStore[t].turn, take))[
                       taskStore[t].turn].turns
  BY DEF Window, Takes, Taken, Nothing

LEMMA ChoiceExists ==
  ASSUME NEW t, NEW N \in Nat
  PROVE  \E take : Takes(t, N, take)
<1> DEFINE Undefined == {n \in Nat : ~\E take : Takes(t, n, take)}
<1> SUFFICES ASSUME Undefined # {} PROVE FALSE
  OBVIOUS
<1>1. PICK n \in Undefined : \A k \in Undefined : n <= k
  BY LeastNatural
<1>2. n \in Nat /\ ~\E take : Takes(t, n, take)
  OBVIOUS
<1>3. CASE n = 0
  <2> DEFINE take == [k \in 0 .. 0 |-> Nothing]
  <2>1. \A k \in 0 .. 0 :
          take[k] = IF k = 0 THEN Nothing ELSE Taken(t, k, take[k - 1])
    OBVIOUS
  <2>2. take = [k \in 0 .. 0 |->
                  IF k = 0 THEN Nothing ELSE Taken(t, k, take[k - 1])]
    BY <2>1, Zenon
  <2> HIDE DEF take
  <2> QED
    BY <1>2, <1>3, <2>2 DEF Takes
<1>4. CASE n > 0
  <2> PICK m : m = n - 1
    OBVIOUS
  <2>1. m \in Nat /\ m < n /\ n = m + 1
    BY <1>2, <1>4
  <2>2. m \notin Undefined
    BY <1>1, <2>1
  <2>3. PICK f : Takes(t, m, f)
    BY <2>1, <2>2
  <2>4. \A k \in 0 .. m : f[k] =
        IF k = 0 THEN Nothing ELSE Taken(t, k, f[k - 1])
    BY <2>3, Zenon DEF Takes
  <2> DEFINE take == [k \in 0 .. n |->
      IF k = n THEN Taken(t, n, f[m]) ELSE f[k]]
  <2>5. ASSUME NEW k \in 0 .. n
        PROVE  take[k] = IF k = 0 THEN Nothing ELSE Taken(t, k, take[k - 1])
    <3>1. CASE k = n
      <4>1. k - 1 = m /\ m \in 0 .. n /\ m # n /\ k # 0
        BY <2>1, <3>1
      <4>2. take[k] = Taken(t, n, f[m]) /\ take[m] = f[m]
        BY <3>1, <4>1
      <4> QED
        BY <3>1, <4>1, <4>2
    <3>2. CASE k # n
      <4>1. k \in 0 .. m /\ (k # 0 => k - 1 \in 0 .. n /\ k - 1 # n)
        BY <2>1, <3>2
      <4>2. take[k] = f[k] /\ (k # 0 => take[k - 1] = f[k - 1])
        BY <3>2, <4>1
      <4> HIDE DEF take
      <4> QED
        BY <2>4, <4>1, <4>2
    <3> QED
      BY <3>1, <3>2
  <2>6. take = [k \in 0 .. n |->
                  IF k = 0 THEN Nothing ELSE Taken(t, k, take[k - 1])]
    BY <2>5, Zenon
  <2> HIDE DEF take
  <2> QED
    BY <1>2, <2>6 DEF Takes
<1> QED
  BY <1>2, <1>3, <1>4

(* Chosen(s, B, n): turns of the last n of B, in their order, and no more  *)
(* than the window has room for.                                           *)
Places(s, B, first, last, at) ==
  /\ at \in [1 .. Len(s) -> first .. last]
  /\ \A i \in 1 .. Len(s) : s[i] = B[at[i]]
  /\ \A i, j \in 1 .. Len(s) : i < j => at[i] < at[j]

Chosen(s, B, n) ==
  /\ s \in Seq(TaskIds) /\ Len(s) <= MaxHistoryTurns
  /\ \E at : Places(s, B, Len(B) + 1 - n, Len(B), at)

LEMMA NothingChosen ==
  ASSUME NEW B
  PROVE  Chosen(Nothing.turns, B, 0)
<1>1. Nothing.turns = <<>> /\ <<>> \in Seq(TaskIds) /\ Len(<<>>) = 0
  BY DEF Nothing
<1> DEFINE at == [i \in 1 .. 0 |-> i]
<1>2. at \in [1 .. 0 -> Len(B) + 1 - 0 .. Len(B)]
  OBVIOUS
<1>3. \A i \in 1 .. 0 : FALSE
  OBVIOUS
<1> HIDE DEF at
<1>4. Places(<<>>, B, Len(B) + 1 - 0, Len(B), at)
  BY <1>1, <1>2, <1>3 DEF Places
<1> QED
  BY <1>1, <1>4, BoundsNatural DEF Chosen

LEMMA MoreChosen ==
  ASSUME NEW B, Len(B) \in Nat, NEW n \in 1 .. Len(B), NEW w,
         Chosen(w.turns, B, n - 1),
         NEW t, Ancestor(t)[n] = B[Len(B) + 1 - n],
           B[Len(B) + 1 - n] \in TaskIds
  PROVE  Chosen(Taken(t, n, w).turns, B, n)
<1> PICK N : N = Len(B)
  OBVIOUS
<1> PICK p : p = N + 1 - n
  OBVIOUS
<1> PICK s : s = w.turns
  OBVIOUS
<1> PICK L : L = Len(s)
  OBVIOUS
<1>1. N \in Nat /\ p \in 1 .. N /\ N + 1 - (n - 1) = p + 1
  OBVIOUS
<1>2. s \in Seq(TaskIds) /\ L \in Nat /\ L <= MaxHistoryTurns
  BY LenProperties DEF Chosen
<1>3. PICK at \in [1 .. L -> p + 1 .. N] :
        /\ \A i \in 1 .. L : s[i] = B[at[i]]
        /\ \A i, j \in 1 .. L : i < j => at[i] < at[j]
  <2>1. PICK at : Places(s, B, N + 1 - (n - 1), N, at)
    BY DEF Chosen
  <2>2. Places(s, B, p + 1, N, at)
    BY <1>1, <2>1
  <2> QED
    BY <2>2 DEF Places
<1>4. CASE Taken(t, n, w) = w
  <2>1. at \in [1 .. L -> p .. N]
    <3>1. \A i \in p + 1 .. N : i \in p .. N
      BY <1>1
    <3> QED
      BY <3>1
  <2>2. Places(s, B, p, N, at)
    BY <1>3, <2>1 DEF Places
  <2>3. Places(s, B, Len(B) + 1 - n, Len(B), at)
    BY <2>2
  <2> QED
    BY <1>2, <1>4, <2>3 DEF Chosen
<1>5. CASE Taken(t, n, w) # w
  <2> PICK v : v = Taken(t, n, w)
    OBVIOUS
  <2> PICK u : u = <<B[p]>> \o s
    OBVIOUS
  <2>1. v.turns = u /\ L < MaxHistoryTurns
    <3>1. Ancestor(t)[n] = B[p]
      OBVIOUS
    <3> QED
      BY <1>5, <3>1 DEF Taken
  <2>2. /\ u \in Seq(TaskIds) /\ Len(u) = L + 1
        /\ u[1] = B[p] /\ \A i \in 2 .. L + 1 : u[i] = s[i - 1]
    <3>1. <<B[p]>> \in Seq(TaskIds) /\ Len(<<B[p]>>) = 1 /\ <<B[p]>>[1] = B[p]
      OBVIOUS
    <3>2. /\ u \in Seq(TaskIds) /\ Len(u) = 1 + L
          /\ \A i \in 1 .. 1 + L :
               u[i] = IF i <= 1 THEN <<B[p]>>[i] ELSE s[i - 1]
      <4>1. /\ <<B[p]>> \o s \in Seq(TaskIds)
            /\ Len(<<B[p]>> \o s) = Len(<<B[p]>>) + Len(s)
            /\ \A i \in 1 .. Len(<<B[p]>>) + Len(s) :
                 (<<B[p]>> \o s)[i] = IF i <= Len(<<B[p]>>) THEN <<B[p]>>[i]
                                      ELSE s[i - Len(<<B[p]>>)]
        BY <1>2, <3>1, ConcatProperties
      <4> QED
        BY <3>1, <4>1
    <3> QED
      BY <1>2, <3>1, <3>2
  <2> DEFINE now == [i \in 1 .. L + 1 |-> IF i = 1 THEN p ELSE at[i - 1]]
  <2>3. \A i \in 2 .. L + 1 : /\ i - 1 \in 1 .. L /\ at[i - 1] \in p + 1 .. N
                              /\ i # 1 /\ i \in 1 .. L + 1
    <3>1. \A i \in 2 .. L + 1 : i - 1 \in 1 .. L /\ i # 1 /\ i \in 1 .. L + 1
      BY <1>2
    <3>2. \A k \in 1 .. L : at[k] \in p + 1 .. N
      OBVIOUS
    <3> QED
      BY <3>1, <3>2
  <2>4. now \in [1 .. L + 1 -> p .. N]
    <3>1. ASSUME NEW i \in 1 .. L + 1 PROVE now[i] \in p .. N
      <4>1. i = 1 \/ i \in 2 .. L + 1
        BY <1>2
      <4> QED
        BY <1>1, <2>3, <4>1
    <3> QED
      BY <3>1
  <2>5. /\ now[1] = p
        /\ \A i \in 2 .. L + 1 : now[i] = at[i - 1]
    <3>1. 1 \in 1 .. L + 1
      BY <1>2
    <3> QED
      BY <2>3, <3>1
  <2> HIDE DEF now
  <2>6. \A i \in 1 .. L + 1 : u[i] = B[now[i]]
    <3> SUFFICES ASSUME NEW i \in 1 .. L + 1 PROVE u[i] = B[now[i]]
      OBVIOUS
    <3>1. i = 1 \/ i \in 2 .. L + 1
      BY <1>2
    <3>2. ASSUME i \in 2 .. L + 1 PROVE u[i] = B[now[i]]
      BY <1>3, <2>2, <2>3, <2>5, <3>2
    <3> QED
      BY <2>2, <2>5, <3>1, <3>2
  <2>7. ASSUME NEW i \in 1 .. L + 1, NEW j \in 1 .. L + 1, i < j
        PROVE  now[i] < now[j]
    <3>1. j \in 2 .. L + 1 /\ (i = 1 \/ i \in 2 .. L + 1)
      BY <1>2, <2>7
    <3>2. now[j] = at[j - 1] /\ at[j - 1] \in p + 1 .. N /\ j - 1 \in 1 .. L
      BY <2>3, <2>5, <3>1
    <3>3. CASE i = 1
      BY <1>1, <2>5, <3>2, <3>3
    <3>4. CASE i \in 2 .. L + 1
      <4>1. now[i] = at[i - 1] /\ i - 1 \in 1 .. L
        BY <2>3, <2>5, <3>4
      <4>2. i - 1 < j - 1
        BY <2>7
      <4> QED
        BY <1>3, <3>2, <4>1, <4>2
    <3> QED
      BY <3>1, <3>3, <3>4
  <2>8. L + 1 <= MaxHistoryTurns
    BY <1>2, <2>1, BoundsNatural
  <2>9. Places(u, B, p, N, now)
    BY <2>2, <2>4, <2>6, <2>7 DEF Places
  <2>10. Places(u, B, Len(B) + 1 - n, Len(B), now)
    BY <2>9
  <2> QED
    BY <2>1, <2>2, <2>8, <2>10 DEF Chosen
<1> QED
  BY <1>4, <1>5

LEMMA WindowChosen ==
  ASSUME ChatTypeOK, NEW t \in RequestIds \cup Others, NEW B, Conversed(t, B)
  PROVE  Chosen(Window(t), B, Len(B))
<1> PICK N : N = Len(B)
  OBVIOUS
<1>1. N \in Nat /\ taskStore[t].turn = N /\ \A i \in 1 .. N : B[i] \in TaskIds
  BY DEF Conversed
<1>2. \A n \in 1 .. N : Ancestor(t)[n] = B[N + 1 - n]
  BY WalkIsConversation
<1>3. PICK take : take = CHOOSE f : Takes(t, N, f)
  OBVIOUS
<1>4. Takes(t, N, take)
  BY <1>1, <1>3, ChoiceExists
<1>5. \A n \in 0 .. N :
        take[n] = IF n = 0 THEN Nothing ELSE Taken(t, n, take[n - 1])
  BY <1>4, Zenon DEF Takes
<1>6. \A n \in 0 .. N : Chosen(take[n].turns, B, n)
  <2> DEFINE Wrong == {n \in 0 .. N : ~Chosen(take[n].turns, B, n)}
  <2> SUFFICES ASSUME Wrong # {} PROVE FALSE
    OBVIOUS
  <2>1. Wrong \subseteq Nat
    BY <1>1
  <2>2. PICK n \in Wrong : \A k \in Wrong : n <= k
    BY <2>1, LeastNatural
  <2>3. n \in 0 .. N /\ ~Chosen(take[n].turns, B, n)
    OBVIOUS
  <2>4. n # 0
    <3>1. take[0] = Nothing
      BY <1>1, <1>5
    <3> QED
      BY <1>1, <2>3, <3>1, NothingChosen
  <2> PICK m : m = n - 1
    OBVIOUS
  <2>5. m \in 0 .. N /\ m < n /\ n \in 1 .. N
    BY <1>1, <2>3, <2>4
  <2>6. Chosen(take[m].turns, B, m)
    BY <2>2, <2>5
  <2>7. take[n] = Taken(t, n, take[m])
    BY <1>5, <2>4, <2>5
  <2>8. N + 1 - n \in 1 .. N
    BY <1>1, <2>5
  <2>9. B[N + 1 - n] \in TaskIds /\ Ancestor(t)[n] = B[N + 1 - n]
    BY <1>1, <1>2, <2>5, <2>8
  <2>10. Chosen(Taken(t, n, take[m]).turns, B, n)
    BY <1>1, <2>5, <2>6, <2>9, MoreChosen
  <2> QED
    BY <2>3, <2>7, <2>10
<1>7. Window(t) = take[N].turns
  BY <1>1, <1>3, WindowIsChoice
<1> QED
  BY <1>1, <1>6, <1>7

LEMMA ConversationByInvariant == ChatInv /\ LineageInv => ContextIsConversation
<1> SUFFICES ASSUME ChatInv, LineageInv,
                    NEW t \in RequestIds \cup Others, Stored(t),
                    taskStore[t].turn <= MaxLineage
             PROVE  /\ taskStore[t].turn = Len(Before(t))
                    /\ Resolves(t)
                    /\ Len(Window(t)) <= MaxHistoryTurns
                    /\ Subsequence(Window(t), Before(t))
  BY DEF ContextIsConversation
<1>1. PICK B : B = Before(t)
  OBVIOUS
<1>2. ChatTypeOK /\ Conversed(t, B)
  BY <1>1, BeforeIsConversation DEF ChatInv
<1>3. Resolves(t)
  BY <1>2, ConversationResolves
<1> PICK w : w = Window(t)
  OBVIOUS
<1>4. Chosen(w, B, Len(B))
  BY <1>2, WindowChosen
<1>5. Len(B) \in Nat /\ DOMAIN B = 1 .. Len(B) /\ Len(B) = taskStore[t].turn
  BY <1>2 DEF Conversed
<1>6. Len(B) + 1 - Len(B) = 1
  BY <1>5
<1>7. DOMAIN w = 1 .. Len(w) /\ Len(w) <= MaxHistoryTurns
  BY <1>4, LenProperties DEF Chosen
<1>8. PICK at : Places(w, B, Len(B) + 1 - Len(B), Len(B), at)
  BY <1>4 DEF Chosen
<1>9. Places(w, B, 1, Len(B), at)
  BY <1>6, <1>8
<1>10. Subsequence(w, B)
  BY <1>5, <1>7, <1>9 DEF Places, Subsequence
<1> QED
  BY <1>1, <1>3, <1>5, <1>7, <1>10

(* ChatContextIsConversation: for any number of legacy turns, other        *)
(* submitters and revisions, and any window.                               *)
THEOREM ChatContextIsConversation == ChatSpec => []ContextIsConversation
  BY ConversationByInvariant, ChatLineage, ChatInvariant, PTL

-----------------------------------------------------------------------------
(* The service process.                                                    *)

USE TasksAssumption, WorkBoundsAssumption, RequestAssumption

(* What the worker is about to do says what the current Task's status is,  *)
(* and a Task that is to be executed has an attempt left: the invariant    *)
(* that bounds attempts by limits.max_attempts.                            *)
CurrentInv ==
  /\ pc = "start" => tasks[current] = "pending"
  /\ pc = "handle" => tasks[current] = "running"
  /\ pc = "acknowledge" => tasks[current] = "cancel_requested"
  /\ \A t \in Tasks :
       tasks[t] \in {"absent", "pending"} => attempts[t] < MaxAttempts

(* A Task that waits, or that was cut off, had at most one attempt a fault,*)
(* and nothing but a fault leaves a Task in flight that nobody executes.   *)
AttemptInv ==
  \A t \in Tasks :
    /\ tasks[t] \in InFlight /\ t # current => faults > 0
    /\ attempts[t] <= 1 + faults
    /\ tasks[t] \notin Terminal /\ t # current => attempts[t] <= faults
    /\ pc = "start" /\ t = current => attempts[t] <= faults

(* A service that is down has no memory and no threads.                    *)
DownInv ==
  ~Running => /\ stop = "none" /\ server = "off" /\ signal = "off"
              /\ asked = NoRequest /\ mailbox = "empty" /\ reply = "none"

WorkInv == TypeOK /\ CurrentInv /\ AttemptInv /\ DownInv

-----------------------------------------------------------------------------
USE DEF TaskStatus, InFlight, Terminal, WakeStatus, WorkerStep, Executing,
        durableVars, workerVars, schedulerVars, controlVars, Stopping

LEMMA InitWork == Init => WorkInv
  BY DEF Init, WorkInv, TypeOK, CurrentInv, AttemptInv, DownInv, Items

(* Recovery changes expired executions only, and retries one only while    *)
(* attempts are left.                                                      *)
LEMMA RecoveredOk ==
  ASSUME WorkInv, current = NoTask,
         NEW exhausted \in {"failed", "manual_review"}
  PROVE  /\ Recovered(exhausted) \in [Tasks -> TaskStatus]
         /\ \A t \in Tasks :
              /\ Recovered(exhausted)[t] \in {"absent", "pending"}
                   => attempts[t] < MaxAttempts
              /\ Recovered(exhausted)[t] \notin Terminal
                   => attempts[t] <= faults
              /\ Recovered(exhausted)[t] \in InFlight => faults > 0
  BY DEF WorkInv, TypeOK, CurrentInv, AttemptInv, Recovered, Expired

LEMMA ServeOk ==
  ASSUME WorkInv, ServeMailbox,
         \/ pc = "process" /\ pc' = "reconcile"
         \/ pc = "handle" /\ pc' = "handle"
  PROVE  WorkInv'
  <1> USE DEF WorkInv, TypeOK, CurrentInv, AttemptInv, DownInv, Running
  <1>1. UNCHANGED <<attempts, overdue, current, exit, stop, server, asked,
                    signal>>
    BY DEF ServeMailbox
  <1>2. CASE mailbox # "posted"
    <2>1. UNCHANGED <<tasks, wake, calls, armed, mailbox, reply, faults>>
      BY <1>2 DEF ServeMailbox
    <2>2. QED
      BY <1>1, <2>1
  <1>3. CASE mailbox = "posted" /\ mailbox' = "empty" /\ CommandThrows(asked)
    <2>1. /\ calls' \subseteq {"interrupt", "work"} /\ armed' \subseteq Items
          /\ wake' \in WakeStatus
          /\ reply' = "failed" /\ faults' = faults + 1
          /\ faults' \in 0 .. MaxFaults
      <3>1. calls' \subseteq {"interrupt", "work"}
        BY <1>3 DEF CommandThrows, ThrowsAfter, NotifyWork
      <3>2. armed' \subseteq Items
        BY <1>3
        DEF CommandThrows, ThrowsAfter, RefreshDeadlines, Deadlines, Items
      <3>3. wake' \in WakeStatus
        BY <1>3 DEF CommandThrows, ThrowsAfter, Accepted, Revoked
      <3>4. /\ reply' = "failed" /\ faults' = faults + 1
            /\ faults' \in 0 .. MaxFaults
        BY <1>3 DEF CommandThrows, Fault
      <3>5. QED
        BY <3>1, <3>2, <3>3, <3>4
    <2>2. tasks' \in {tasks, Submitted(asked.on)}
      BY <1>3 DEF CommandThrows, ThrowsAfter
    <2>3. asked \in Requests
      BY <1>3
    <2>4. tasks' # tasks => asked.op = "submit"
      BY <1>3 DEF CommandThrows, ThrowsAfter
    <2>5. QED
      BY <1>1, <1>3, <2>1, <2>2, <2>3, <2>4 DEF Submitted, Requests
  <1>4. CASE /\ mailbox = "posted" /\ mailbox' = "empty"
             /\ asked.op = "submit" /\ Submit(asked.on) /\ UNCHANGED faults
    <2>1. UNCHANGED wake /\ UNCHANGED armed /\ reply' \in {"ok", "refused"}
      BY <1>4 DEF Submit, Refuse
    <2>2. calls' \subseteq {"interrupt", "work"}
      BY <1>4 DEF Submit, Refuse, NotifyWork
    <2>3. tasks' \in {tasks, Submitted(asked.on)}
      BY <1>4 DEF Submit, Refuse
    <2>4. QED
      BY <1>1, <1>4, <2>1, <2>2, <2>3 DEF Submitted, Requests
  <1>5. CASE /\ mailbox = "posted" /\ mailbox' = "empty"
             /\ AcceptWake /\ UNCHANGED faults
    <2>1. UNCHANGED <<tasks, calls>> /\ reply' \in {"ok", "refused"}
      BY <1>5 DEF AcceptWake, Refuse
    <2>2. wake' \in WakeStatus
      BY <1>5 DEF AcceptWake, Accepted, Refuse
    <2>3. armed' \subseteq Items
      BY <1>5 DEF AcceptWake, Refuse, RefreshDeadlines, Deadlines, Items
    <2>4. QED
      BY <1>1, <1>5, <2>1, <2>2, <2>3
  <1>6. CASE /\ mailbox = "posted" /\ mailbox' = "empty"
             /\ RevokeWake /\ UNCHANGED faults
    <2>1. UNCHANGED <<tasks, calls>> /\ reply' \in {"ok", "refused"}
      BY <1>6 DEF RevokeWake, Refuse
    <2>2. wake' \in WakeStatus
      BY <1>6 DEF RevokeWake, Revoked, Refuse
    <2>3. armed' \subseteq Items
      BY <1>6 DEF RevokeWake, Refuse, RefreshDeadlines, Deadlines, Items
    <2>4. QED
      BY <1>1, <1>6, <2>1, <2>2, <2>3
  <1>7. QED
    BY <1>2, <1>3, <1>4, <1>5, <1>6 DEF ServeMailbox

-----------------------------------------------------------------------------
LEMMA WorkerStepOk == WorkInv /\ (WorkerNext \/ TransitionRefused) => WorkInv'
  <1> SUFFICES ASSUME WorkInv, WorkerNext \/ TransitionRefused PROVE WorkInv'
    OBVIOUS
  <1> USE DEF WorkInv, TypeOK, CurrentInv, AttemptInv, DownInv, Running,
      Worker, StopOnConflict,
              Ended, Fault
  <1>1. CASE Process
    BY <1>1, ServeOk DEF Process
  <1>2. CASE Reconcile
    BY <1>2 DEF Reconcile
  <1>3. CASE EnterWait \/ WaitStopped \/ WaitInterrupted \/ WaitDue
    <2>1. CASE EnterWait
      BY <2>1 DEF EnterWait
    <2>2. CASE WaitStopped
      BY <2>2 DEF WaitStopped
    <2>3. CASE WaitInterrupted
      BY <2>3 DEF WaitInterrupted
    <2>4. CASE WaitDue
      BY <2>4 DEF WaitDue
    <2>5. QED
      BY <1>3, <2>1, <2>2, <2>3, <2>4
  <1>4. CASE Recover
    BY <1>4, RecoveredOk DEF Recover, RecoverExpired, ReconcileWakes
  <1>5. CASE DispatchStops
    BY <1>5 DEF DispatchStops
  <1>6. CASE DispatchIdle
    BY <1>6 DEF DispatchIdle, RefreshDeadlines, Deadlines, Items
  <1>7. ASSUME NEW t \in Tasks, Dispatch(t) PROVE WorkInv'
    BY <1>7 DEF Dispatch
  <1>8. CASE Start
    BY <1>8 DEF Start
  <1>9. CASE HandlerEnds
    BY <1>9 DEF HandlerEnds
  <1>10. CASE HandlerCancels
    BY <1>10 DEF HandlerCancels
  <1>11. CASE AcknowledgeCancel
    BY <1>11 DEF AcknowledgeCancel
  <1>12. CASE Pump
    BY <1>12, ServeOk DEF Pump
  <1>13. CASE TransitionRefused
    BY <1>13 DEF TransitionRefused, RefreshDeadlines, Deadlines, Items
  <1>14. CASE Drain
    BY <1>14 DEF Drain
  <1>15. CASE JoinServer
    BY <1>15 DEF JoinServer
  <1>16. CASE JoinSignal
    BY <1>16 DEF JoinSignal, MemoryLost
  <1>17. QED
    BY <1>1, <1>2, <1>3, <1>4, <1>5, <1>6, <1>7, <1>8, <1>9, <1>10, <1>11,
       <1>12, <1>13, <1>14, <1>15, <1>16 DEF WorkerNext

LEMMA OthersOk ==
  ASSUME WorkInv,
         \/ SignalNext \/ ServerNext \/ ClientConnects \/ Terminate
         \/ Boot \/ Crash
         \/ \E x \in Items : Elapse(x)
         \/ \E t \in Tasks : OfflineCancel(t) \/ OfflineEnqueue(t)
  PROVE  WorkInv'
  <1> USE DEF WorkInv, TypeOK, CurrentInv, AttemptInv, DownInv, Running,
      ServerStep
  <1>1. CASE SignalNext \/ Terminate
    <2>1. CASE PublishStop
      BY <2>1 DEF PublishStop
    <2>2. CASE StopScheduler
      BY <2>2 DEF StopScheduler
    <2>3. CASE Terminate
      BY <2>3 DEF Terminate
    <2>4. QED
      BY <1>1, <2>1, <2>2, <2>3 DEF SignalNext
  <1>2. CASE ClientConnects \/ ClientGoes \/ WakeWorker \/ ServerStops
    <2>1. CASE ClientConnects
      BY <2>1 DEF ClientConnects
    <2>2. CASE ClientGoes
      BY <2>2 DEF ClientGoes
    <2>3. CASE WakeWorker
      BY <2>3 DEF WakeWorker
    <2>4. CASE ServerStops
      BY <2>4 DEF ServerStops
    <2>5. QED
      BY <1>2, <2>1, <2>2, <2>3, <2>4
  <1>3. ASSUME NEW r \in Requests, ClientSends(r) PROVE WorkInv'
    BY <1>3 DEF ClientSends
  <1>4. CASE Answer
    BY <1>4 DEF Answer
  <1>5. CASE Boot
    <2>1. current = NoTask
      BY <1>5 DEF Boot, Running
    <2>2. PICK exhausted \in {"failed", "manual_review"} :
            tasks' = Recovered(exhausted)
      BY <1>5 DEF Boot, RecoverExpired
    <2>3. TypeOK'
      <3>1. tasks' \in [Tasks -> TaskStatus] /\ wake' \in WakeStatus
        BY <1>5, <2>1, <2>2, RecoveredOk DEF Boot, ReconcileWakes
      <3>2. armed' \subseteq Items
        BY <1>5 DEF Boot, Deadlines, Items
      <3>3. current' = NoTask /\ pc' = "process" /\ exit' = 0
        BY <1>5, <2>1 DEF Boot
      <3>4. /\ calls' = {"work"} /\ server' = "listening"
            /\ signal' = "waiting"
            /\ UNCHANGED <<attempts, overdue, stop, asked, mailbox, reply,
                           faults>>
        BY <1>5 DEF Boot
      <3>5. asked = NoRequest /\ mailbox # "posted"
        BY <1>5 DEF Boot
      <3>6. QED
        BY <3>1, <3>2, <3>3, <3>4, <3>5
    <2>4. CurrentInv' /\ AttemptInv' /\ DownInv'
      BY <1>5, <2>1, <2>2, RecoveredOk DEF Boot
    <2>5. QED
      BY <2>3, <2>4
  <1>6. CASE Crash
    BY <1>6 DEF Crash, MemoryLost, Running, Fault
  <1>7. ASSUME NEW x \in Items, Elapse(x) PROVE WorkInv'
    BY <1>7 DEF Elapse
  <1>8. ASSUME NEW t \in Tasks, OfflineCancel(t) \/ OfflineEnqueue(t)
        PROVE  WorkInv'
    <2>1. current = NoTask /\ pc \in {"exited", "down"}
      BY <1>8 DEF OfflineCancel, OfflineEnqueue, Offline, Running
    <2>2. PICK exhausted \in {"failed", "manual_review"},
               move \in {<<"pending", "cancelled">>,
                         <<"running", "cancel_requested">>,
                         <<"absent", "pending">>} :
            /\ Recovered(exhausted)[t] = move[1]
            /\ tasks' = [Recovered(exhausted) EXCEPT ![t] = move[2]]
      BY <1>8 DEF OfflineCancel, OfflineEnqueue, Offline
    <2>3. UNCHANGED <<attempts, wake, overdue, workerVars, schedulerVars,
                      controlVars, signal, faults>>
      BY <1>8 DEF OfflineCancel, OfflineEnqueue, Offline
    <2>4. TypeOK'
      BY <2>1, <2>2, <2>3, RecoveredOk
    <2>5. CurrentInv' /\ AttemptInv' /\ DownInv'
      BY <2>1, <2>2, <2>3, RecoveredOk
    <2>6. QED
      BY <2>4, <2>5
  <1>9. QED
    BY <1>1, <1>2, <1>3, <1>4, <1>5, <1>6, <1>7, <1>8 DEF ServerNext

THEOREM WorkInvariant == Spec => []WorkInv
  <1>1. WorkInv /\ UNCHANGED vars => WorkInv'
    BY DEF vars, WorkInv, TypeOK, CurrentInv, AttemptInv, DownInv, Running
  <1>2. WorkInv /\ [Next]_vars => WorkInv'
    BY <1>1, WorkerStepOk, OthersOk DEF Next
  <1>3. QED
    BY InitWork, <1>2, PTL DEF Spec

(* The service's types: in particular the attempts of a Task never exceed  *)
(* limits.max_attempts (Runtime::start and lease recovery).                *)
THEOREM WorkTypeCorrect == Spec => []TypeOK
  <1>1. WorkInv => TypeOK
    BY DEF WorkInv
  <1>2. QED
    BY WorkInvariant, <1>1, PTL

(* No Task is executed again unless a fault cut an execution off           *)
(* (TaskExecutor::execute, Runtime::recover_expired).                      *)
THEOREM WorkExecutedOnce == Spec => []AttemptsExplained
  <1>1. WorkInv => AttemptsExplained
    BY DEF WorkInv, AttemptInv, AttemptsExplained
  <1>2. QED
    BY WorkInvariant, <1>1, PTL

(* A service that exits with code 0 leaves in flight only what an earlier  *)
(* fault left there (TaskExecutor::execute).                               *)
THEOREM WorkExitIsClean == Spec => []ExitIsClean
  <1>1. WorkInv => ExitIsClean
    BY DEF WorkInv, TypeOK, AttemptInv, ExitIsClean
  <1>2. QED
    BY WorkInvariant, <1>1, PTL

-----------------------------------------------------------------------------
(* From the moment the worker has refreshed the deadlines until it waits,  *)
(* everything there is to do has been asked of the scheduler, and stays    *)
(* asked.  A request that the server thread announced is served before the *)
(* worker waits if its interrupt was consumed.                             *)
Awake == {"process", "reconcile", "enter", "wait", "reconcile_again"}

FlagInv == stop = "flagged" => signal = "published"
WorkAsked ==
  ~Stopping /\ pc \in Awake =>
    /\ \A t \in Tasks : Pending(t) => "work" \in calls
    /\ Deadlines(tasks, wake) \subseteq armed
RequestAsked ==
  ~Stopping /\ server = "waiting" /\ mailbox = "posted" =>
    "interrupt" \in calls \/ pc \in {"reconcile_again", "process"}

WakeupInv == FlagInv /\ WorkAsked /\ RequestAsked

LEMMA InitWakeup == Init => WakeupInv
  BY DEF Init, WakeupInv, FlagInv, WorkAsked, RequestAsked, Awake

LEMMA ServeKeepsWakeups ==
  ASSUME WorkInv, WakeupInv, ServeMailbox,
         \/ pc = "process" /\ pc' = "reconcile"
         \/ pc = "handle" /\ pc' = "handle"
  PROVE  WakeupInv'
  <1> USE DEF WakeupInv, FlagInv, WorkAsked, RequestAsked, Awake
  <1>1. UNCHANGED <<stop, server, asked, signal>>
    BY DEF ServeMailbox
  <1>2. mailbox' # "posted"
    BY DEF ServeMailbox
  <1>3. FlagInv' /\ RequestAsked'
    BY <1>1, <1>2
  <1>4. CASE mailbox # "posted"
    <2>1. UNCHANGED <<tasks, wake, calls, armed>>
      BY <1>4 DEF ServeMailbox
    <2>2. QED
      BY <1>1, <1>3, <2>1 DEF Pending
  <1>5. CASE CommandThrows(asked)
    BY <1>1, <1>3, <1>5
    DEF CommandThrows, ThrowsAfter, Submitted, NotifyWork, RefreshDeadlines,
        Pending, Deadlines, WorkInv, TypeOK, Requests
  <1>6. CASE mailbox = "posted" /\ asked.op = "submit" /\ Submit(asked.on)
    BY <1>1, <1>3, <1>6
    DEF Submit, Submitted, Refuse, NotifyWork, Pending, Deadlines, WorkInv,
        TypeOK, Requests
  <1>7. CASE AcceptWake
    BY <1>1, <1>3, <1>7 DEF AcceptWake, Accepted, Refuse, RefreshDeadlines,
       Pending, Deadlines
  <1>8. CASE RevokeWake
    BY <1>1, <1>3, <1>8 DEF RevokeWake, Revoked, Refuse, RefreshDeadlines,
       Pending, Deadlines
  <1>9. QED
    BY <1>4, <1>5, <1>6, <1>7, <1>8 DEF ServeMailbox

LEMMA WorkerKeepsWakeups ==
  ASSUME WorkInv, WakeupInv, WorkerNext \/ TransitionRefused
  PROVE  WakeupInv'
  <1> USE DEF WakeupInv, FlagInv, WorkAsked, RequestAsked, Awake, Worker,
              Pending, Deadlines
  <1>1. CASE Process \/ Pump
    BY <1>1, ServeKeepsWakeups DEF Process, Pump
  <1>2. CASE Reconcile
    BY <1>2 DEF Reconcile, StopOnConflict
  <1>3. CASE EnterWait
    BY <1>3 DEF EnterWait
  <1>4. CASE WaitStopped \/ WaitInterrupted \/ WaitDue
    BY <1>4 DEF WaitStopped, WaitInterrupted, WaitDue
  <1>5. CASE Recover
    BY <1>5 DEF Recover
  <1>6. CASE DispatchStops \/ (\E t \in Tasks : Dispatch(t))
    BY <1>6 DEF DispatchStops, Dispatch
  <1>7. CASE DispatchIdle
    BY <1>7 DEF DispatchIdle, RefreshDeadlines
  <1>8. CASE Start \/ HandlerEnds \/ HandlerCancels \/ AcknowledgeCancel
    BY <1>8 DEF Start, HandlerEnds, HandlerCancels, AcknowledgeCancel, Ended
  <1>9. CASE TransitionRefused
    BY <1>9 DEF TransitionRefused, StopOnConflict
  <1>10. CASE Drain \/ JoinServer
    BY <1>10 DEF Drain, JoinServer
  <1>11. CASE JoinSignal
    BY <1>11 DEF JoinSignal, MemoryLost
  <1>12. QED
    BY <1>1, <1>2, <1>3, <1>4, <1>5, <1>6, <1>7, <1>8, <1>9, <1>10, <1>11
    DEF WorkerNext

LEMMA OthersKeepWakeups ==
  ASSUME WorkInv, WakeupInv,
         \/ SignalNext \/ ServerNext \/ ClientConnects \/ Terminate
         \/ Boot \/ Crash
         \/ \E x \in Items : Elapse(x)
         \/ \E t \in Tasks : OfflineCancel(t) \/ OfflineEnqueue(t)
  PROVE  WakeupInv'
  <1> USE DEF WakeupInv, FlagInv, WorkAsked, RequestAsked, Awake, Pending
  <1>1. CASE SignalNext \/ Terminate
    BY <1>1 DEF SignalNext, PublishStop, StopScheduler, Terminate
  <1>2. CASE ClientConnects \/ ClientGoes \/ Answer \/ ServerStops
    BY <1>2 DEF ClientConnects, ClientGoes, Answer, ServerStops, ServerStep
  <1>3. CASE WakeWorker
    BY <1>3 DEF WakeWorker, ServerStep
  <1>4. CASE \E r \in Requests : ClientSends(r)
    BY <1>4 DEF ClientSends, ServerStep
  <1>5. CASE Boot
    BY <1>5 DEF Boot, WorkInv, DownInv
  <1>6. CASE Crash
    BY <1>6 DEF Crash, MemoryLost
  <1>7. CASE \E x \in Items : Elapse(x)
    BY <1>7 DEF Elapse
  <1>8. CASE \E t \in Tasks : OfflineCancel(t) \/ OfflineEnqueue(t)
    BY <1>8
    DEF OfflineCancel, OfflineEnqueue, Offline, Running, WorkInv, DownInv
  <1>9. QED
    BY <1>1, <1>2, <1>3, <1>4, <1>5, <1>6, <1>7, <1>8 DEF ServerNext

(* A worker asleep is woken by everything there is to do, whatever order   *)
(* the server thread, the signal thread and the worker take                *)
(* (WorkController::wait_and_run, notify_work, interrupt).                 *)
THEOREM WorkWakeupsKept == Spec => []NoLostWakeup
  <1>1. WakeupInv /\ UNCHANGED vars => WakeupInv'
    BY DEF vars, WakeupInv, FlagInv, WorkAsked, RequestAsked, Awake, Pending
  <1>2. WorkInv /\ WakeupInv /\ [Next]_vars => WakeupInv'
    BY <1>1, WorkerKeepsWakeups, OthersKeepWakeups DEF Next
  <1>3. WorkInv /\ WakeupInv => NoLostWakeup
    BY DEF WorkInv, TypeOK, WakeupInv, FlagInv, WorkAsked, RequestAsked,
           Awake, NoLostWakeup
  <1>4. QED
    BY WorkInvariant, InitWakeup, <1>2, <1>3, PTL DEF Spec

=============================================================================
