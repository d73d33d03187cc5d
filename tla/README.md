# A formal model of gaudere-agent

This directory holds TLA+ specifications of the parts of gaudere-agent that
carry its promises: a long-running service that executes durable Tasks, a
provider it may call at most once for each of them, the schedules by which it
thinks on its own (the *Local Goose cycle*, the *local activity pulse*, the
*autonomous cognition pulse* and the *explicit wake*), and a dialogue thread on
which people chat and a system may answer under an operator's lease and grant.
The modules are translated from the C++ sources under `src/`; `PROJECT.json`
names, for every definition, the lines it stands for. TLC explores small
instances of the specifications; the TLA+ proof system checks theorems about
them for every value of their constants.

Contents: [the system](#the-system), [plan](#plan),
[modules](#modules-and-how-they-correspond-to-the-code), [runs](#runs),
[fairness](#fairness), [proofs](#proofs),
[where code and documents disagree](#where-code-and-documents-disagree),
[limits](#what-is-not-modelled-and-what-is-assumed).

## The system

gaudere-agent is one service process (`src/src/main.cpp`) and a family of
commands that work on the same files. Everything durable is in SQLite stores,
each with transactions of its own (`BEGIN IMMEDIATE ... COMMIT`); **no
transaction spans two stores**, so every multi-store operation is a
crash-consistency protocol made of ordered single-store writes. Task execution,
leases and the wake scheduler come from an external runtime library
(`gaudere::work`, `gaudere::action`, `gaudere::schedule`), whose behaviour is
taken from how `src/` uses it.

| Component | State it keeps | Operations | Talks to |
|---|---|---|---|
| **Work service**: `main.cpp`, `WorkController`, `TaskExecutor`, `ProcessSignals`, `ExplicitWake` | Task store (status, attempts, lease), explicit wakes; in memory: stop flag, armed deadlines, immediate requests | start/recover, wait, dispatch, execute, cancel, stop, drain | runtime library, live control, every handler |
| **Live control**: `LiveControl`, `LiveControlProcessor` | a mailbox shared by the server thread and the worker; the request in progress | connect, submit, wake the worker, take, complete, stop | clients over a socket; the worker's stores |
| **Provider call**: `ProviderTaskHandler`, `ActionBudget` use | Action store (status, effect result), budget store (permits) | probe, look up, permit, submit, start, mark, invoke, record | Task executor, a provider |
| **Dialogue thread and completion feed**: `LocalGooseDialogueThreadStore`, `...PreferredSubmitter`, `...CompletionFeed` | journal and head of one thread; events, materialisation cursor, consumer cursors | bind, submit on the head, replace the head, materialise, ACK | Task store, responder, clients |
| **Dialogue responder**: `LocalGooseDialogueResponderStore`, `...Dispatcher`, `...Observer` | leases, intents, dispositions | create/close lease, prepare, bind, dispatch, revalidate, commit, ACK, complete, review; observe, decline | thread, feed, Task store; the observer is a process of its own |
| **Responder authority and retry**: `...ResponderAuthority{,Store,Service}`, `...ResponderRetry*`, the `first_*` and recovery programs | grants, decisions; retry lineages | prepare, activate, decide, bind, dispatch, recover an expired bind, admit and audit one lineage | responder store, thread, feed, Task store; one-shot programs without a lock |
| **Local Goose cycle and stimulus**: `LocalGooseCycleService`, `...Store`, `...StimulusService`, `...StimulusStore` | one cycle cursor; a ledger of stimuli | seed, activate, capture, submit, execute, settle, block; accept, re-arm, mark, reconcile | Task store, scheduler, Goose runner, live control |
| **Local activity pulse**: `LocalActivityPulse*`, `LocalContinuityObservation*` | one cursor, at most three generations of observation Tasks | seed, admit, submit, execute, settle, block; status | the checkpoint, budget and wake as evidence; Task store |
| **Continuity checkpoint**: `ContinuityDeltaCheckpoint*` | one Task for each audited cognition | audit, submit, complete | autonomous pulse's Task and Action, budget, wake |
| **Autonomous cognition pulse**: `AutonomousCognitionPulse*`, `...ProviderGate`, `...ProviderService`, `...StaleRefresh`, `CurrentCognitionCycle` | one cursor; snapshot and cognition Tasks; permits and Actions | seed, freeze, record, claim, name, gate, call, retire, settle, block; three operator tools | Task store, provider call, wake, budget |
| **Explicit wake and resumption**: `ExplicitWake`, `WakeSourceDecision`, `ResumeAfterWake*`, `ResumeContextSnapshot` | one wake for the life of a database; selection, snapshot and resume Tasks | accept, revoke, arm, fire; select, record, claim, execute | Task store, provider call; service and one-shots exclude each other by the state lock |
| **Chat client and control socket**: `GaudereChat`, `chat_main`, `LiveControl` | an attempt and its outcome, in memory | type, retry, inspect, give up, observe | the socket, the preferred submitter, other submitters |
| **Dialogue turns**: V3 (V1, V2 before it) | a lineage of Tasks | resolve the lineage, cut the window, run the child | thread, Goose runner |
| Goose runner and tools | a child process | run, serve tool calls | live control (tool calls re-enter the mailbox) |
| **Provider adapter**: `OpenAIResponsesProvider`, `CurlHttpTransport`, `FileSecretSource` | none | load the secret, send, receive, classify | provider call |
| Activation, deployment scripts | none of their own | start-up checks, deployment | |

**What is hard in it.**

- *Crash consistency across stores.* A dispatched responder turn is nine
  durable writes in four stores; a provider call is seven in three; a
  dialogue turn is two. Each may be the last before the process dies, and each
  retry starts from whatever mixture is left.
- *Processes that share stores without a lock.* The observer is started by hand
  beside the service, and a second one beside it; both act on rows they read in
  earlier transactions.
- *Three threads around one wait.* A submission, a cancellation, a stop, a
  deadline and a client's request reach the worker by five different ways, and
  it may be anywhere between "nothing left to do" and "asleep".
- *Re-entrancy.* A Goose handler serves the mailbox while its own Task runs.
- *Deadlines against late answers.* Leases, intents, grants and wakes run out
  between two steps of the operation that relies on them.
- *Late delivery.* A command whose client gave up stays in the socket and is
  executed after the user has retried it or typed it again.
- *Deadlines in memory.* What is due is durable, the timer that waits for it is
  not: one step that forgets to arm it switches a schedule off in silence.
- *Ambiguity.* After a crash nobody can tell whether the provider, or the
  thread, was reached, and the program promises never to guess.

**What must be true of each component** (what the properties are for):

- *Work service*: nothing that can be done is slept through; a Task runs again
  only after a fault; a request is answered; a stop ends the process and leaves
  nothing in flight.
- *Provider call*: at most one call for each Task and at most `max_total` in
  all; a possible call is on record before it happens; a Task's outcome is what
  the provider said, and nothing is definite that the adapter cannot know.
- *Thread and feed*: every turn stands once, behind the turn it answers; the
  feed is the journal, in order, none skipped.
- *Responder*: an event is decided once and answered at most once; the answer
  stands directly behind the event; the consumer passes no event unexplained; a
  lease never buys more turns than its quota; leases, intents, dispositions,
  cursor and journal never disagree about how an intervention ended.
- *Authority*: an event is decided once, for one grant, and answered at most
  once; a grant pays for no more turns than it says; the windows of grant, lease,
  decision and intent nest, whatever the clock does; a turn that was spoken is
  never recorded as expired or retried.
- *Cycle*: one unbroken chain of Tasks, one for each generation; a generation
  runs when the one before asked for it, not earlier than the minimum delay, or
  when a stimulus re-armed it; a stimulus re-arms once; nothing that is due or
  accepted is forgotten.
- *Local activity pulse*: at most three observations, each admitted at or after
  its due time, a cadence apart, and only while the evidence of the checkpoint
  stands; downtime is coalesced; what is due ends, or its silence has a cause.
- *Autonomous pulse*: one provider call for a generation at most; an answer that
  was paid for reaches the lineage; a generation is withdrawn only unspent.
- *Wake*: it is attended to until it fires, is revoked or reviewed; one call for
  each resume Task; the context bound to it is the one that was asked for.
- *Chat*: the thread only grows; no retry, lost reply or late call doubles a
  message unless the user was told of a conflict for the first of the two; a turn is
  durable beside the thread only after a failure or behind a faster submitter; a
  success, a failure or the end of a wait is told only of a turn on the thread, and
  a conflict never of its head; a turn is answered from the conversation it belongs
  to; the prompt comes back.

The hazards behind these, each at the line where it bites and with the
properties that would catch it, are listed in `PROJECT.json`.

## Plan

In order of how much depends on it; all of it is on disk.

1. **Dialogue responder** with thread and feed: `DialogueStores`,
   `DialogueResponder`, `DialogueResponderProperties`, abstract specification
   `ResponderPromise`. Every safety property
   proved, with the refinement.
2. **Work service and live control**: `WorkService`, `WorkServiceProperties`.
   Every safety property proved.
3. **Provider call** and its adapter: `ProviderCall`, `OpenAIExchange`. Every
   safety property proved.
4. **Local Goose cycle and stimulus**: `GooseCycle`, `GooseCycleProperties`,
   `GoosePromise`. Every safety property proved.
5. **Responder authority and retry**: `ResponderAuthority`,
   `ResponderAuthorityProperties`, `AuthorityPromise`. Every safety property proved,
   with the refinement.
6. **Local activity pulse** composed with the **checkpoint** it stands on:
   `ContinuityCheckpoint`, `LocalActivityPulse`, `LocalActivityPulseProperties`,
   `ObservationPromise`. Every safety property proved, with the refinement.
7. **Autonomous cognition pulse and provider gate**: `AutonomousPulse`,
   `AutonomousPulseProperties`, `CognitionPromise`. Every safety property proved,
   with the refinement.
8. **Explicit wake and its resumption**: `WakeResume`, `WakeResumeProperties`,
   `ResumePromise`. Every safety property proved, with the refinement.
9. **Chat client, socket and lineage**: `ChatControl`, `ChatControlProperties`,
   `ChatPromise`. Every safety property proved, with the refinement.

Nothing the runs check but liveness is left for proof.

## Modules and how they correspond to the code

### Dialogue responder

`DialogueStores` is the durable state and one definition for each transaction of
the four stores the responder writes. `DialogueResponder` is the two kinds of
process that use them. Identities in the code are digests of the evidence they
name, so they are modelled by that evidence: an intent is `[lease, seq]` and is
also the name of the one Task it may submit; a disposition is the event it
decides.

| Variable | In the code |
|---|---|
| `tasks` | Task store: status and declared predecessor of every dialogue Task |
| `journal` | thread store: head Task of every revision |
| `feed`, `matNext`, `cursor` | completion feed: events, materialisation cursor, last ACK of the responder's consumer |
| `leases` | state, `turns_committed`, whether `expires_at_ms` is reached (`overdue`) and `next_eligible_at_ms` is not (`resting`) |
| `intents` | state, deadline, whether submission evidence is stored |
| `dispositions` | kind, state, the bound intent, and whose creation time it copied |
| `step`, `target` | the worker: which transaction of its command comes next, and for what |
| `opc`, `oseq`, `okind` | each observer process: the same, and the rule it classified the event by |

The worker runs one command or Task at a time (`step = "idle"` otherwise), so a
command is a chain of actions: `PrepareIntent` → `PrepareDisposition` →
`BindDisposition`; `DispatchPrepared` → `Revalidate...`/`SubmitTurn`/`ResubmitTurn` →
`ReplaceHead` → `CommitSubmission` → `AckTrigger` → `CompleteIntent` →
`CompleteDisposition`, with `Terminalize` and `TerminalizeDisposition` on every
failure path. Observers interleave between any two of these, and with each
other: `ObserverRecover` and `ObserverDecide` read, `ObserverPrepare`,
`ObserverAck` and `ObserverAcknowledge` write. Two observers that decide the same
thing in the same millisecond produce the same row; the second is told
`duplicate` and goes on, and so it does here.

`DialogueResponderProperties` states what must hold. `ResponderPromise` is the
abstract specification: a thread, a decision for each event and the last event
passed, with no stores, Tasks, crashes or processes. `ImplementsPromise` is the
refinement (`thread <- journal`, `decision <- kind of the disposition`,
`passed <- cursor`).

### Work service

`WorkService` is one process with three threads over the Task store.

| Variable | In the code |
|---|---|
| `tasks`, `attempts`, `wake`, `overdue` | Task status, `attempts_started`, the explicit wake, and which lease or wake deadlines the clock has reached |
| `pc`, `current`, `exit` | the worker: its place in the loop of `main.cpp`, `WorkController` and `TaskExecutor`; the Task it executes; the exit code |
| `stop`, `calls`, `armed` | the stop flag and then the stopped scheduler; immediate requests (`interrupt`, `work`); armed deadlines |
| `server`, `asked`, `mailbox`, `reply` | the live-control thread, the request it carries, the mailbox and its answer |
| `signal` | the signal thread between SIGTERM, the flag and the scheduler |

Each access to something shared by threads is an action of its own. `Process`
and `Pump` (a Goose handler serving tool calls) both run the mailbox command,
whole: validation, store write, and the wake-up or deadline refresh that follows
it, also when the command throws (`CommandThrows`). `Reconcile` is the completion
feed's reconciliation and the conflict path; `Start`, `HandlerEnds`,
`HandlerCancels` and `AcknowledgeCancel` are the durable writes of one execution.
`Boot` recovers and starts; `Crash` may come at any step; the offline commands run
only while the state lock is free. `WorkServiceProperties` holds the properties.

### Provider call

`ProviderCall` follows `ProviderTaskHandler::execute` write by write: probe, look
for an Action, consume a permit, submit and start an Action, probe again, mark
the effect, invoke, record, finish. `Crash`, `StoreFails`, `Boot` (the Action
runtime's recovery), `RecoverExpired` (the Task lease) and `OfflineCancel` put any
of its mixtures before the next attempt. `invoked`, `answer` and `fate` are history
variables: which attempts sent something, what the adapter made of it, and what
became of the request.

`OpenAIExchange` is the adapter, a function: an exchange is a record of what it
meets (the input, the secret's file, how the transfer ends, the HTTP status, the
document, its usage, its text and refusals), `Invocation` is what
`OpenAIResponsesProvider::invoke` makes of it, through `Perform` of
`CurlHttpTransport` and `Load` of `FileSecretSource`, and `Fate` is what is true of
the request whether or not the process can know: unsent, open, answered, or
delivered with a text and its token usage. `Invoke` is any exchange. An HTTP error
is an answer and a rejection, also when the provider has charged for it; a
connection that never came about is reported as unknown, as the code does.

### Local Goose cycle

`GooseCycle` is one process over three stores: the cycle sidecar (one cursor under
compare-and-swap), the Task store and the stimulus ledger.

| Variable | In the code |
|---|---|
| `cursor` | the sidecar's row: revision, generation, state, deadline, captured opportunity, predecessor |
| `tasks` | cycle Tasks: status, attempts, `next_wake_after_ms` of their decision, predecessor |
| `stimuli` | the ledger: status, acceptance time, target revision and generation |
| `pc`, `point` | the worker: in its loop, in a step of the cycle (at startup, after a command, after a wake), in the handler, in a reconciliation |
| `serving`, `back` | the stimulus a reconciliation is about, and who called it: startup, the loop, or the pump of a running handler |
| `asked`, `interrupted`, `armed`, `monitoring`, `stopping` | mailbox, immediate request and deadline of the scheduler, `local_goose_cycle_monitoring`, the stop flag |
| `now`, `model`, `overdue` | the clock, the configured model's digest, an execution's lease that has run out |
| `rearms`, `settledAt` | history: which stimulus re-armed which revision, when the last generation was settled |

A Task's identity is a digest of its input, so it is modelled by the opportunity
it was captured for: generation, deadline, capture time and model; its
predecessor is fixed by the cursor. One call of `LocalGooseCycleService::step` is
one `Step...` action, together with what `step_local_goose_cycle` and the loop do
with its result (`Healthy`, `Unhealthy`): the deadline is armed from the cursor,
monitoring is kept or ended, an immediate recovery is asked for. `StepExecute` and
`HandleEnds` enclose the child's run, in which the mailbox is served (`Serve` at
`pc = "handle"`). A stimulus is three durable writes with a crash point between any
two: the acceptance (`Serve`), the cycle's compare-and-swap (`Rearm`), the mark
(`Mark`); `ReconcileAtBoot` takes them up again. A write that fails is reported as
unavailable whether or not it was committed.

`GoosePromise` has no stores, Tasks, clock or process: the loop is seeded, due,
asleep or halted, a generation completes only by its own successful answer, and
each stimulus wakes it at most once. `ImplementsPromise` maps `mode <- cursor.state`,
`completed <- generation - 1`, `spent <- rearms`.

### Responder authority and retry

`ResponderAuthority` is the chain of records a system turn needs before it may be
spoken, over the same stores as `DialogueResponder`, with numbers for the clock.

| Variable | In the code |
|---|---|
| `grants`, `decisions` | authority tables of the responder sidecar |
| `leases`, `intents`, `dispositions` | responder tables, with `issued`, `expires`, `created`, `committed` times |
| `lineages` | the retry sidecar |
| `journal`, `fed`, `cursor`, `tasks` | thread, feed, consumer cursor, Task store |
| `pc`, `seq`, `grant`, `at`, `dispatcherAt` | the one-shot program: which transaction comes next, for what, and what the authority service and the dispatcher each read from the clock |

A program is a chain of actions, one for each transaction: `ActivateGrant` →
`LinkLease`; `BindDecision` → `AdmitIntent` → `PrepareIntent` →
`PrepareDisposition` → `BindDisposition` → `LinkIntent`; `Dispatch` →
`Revalidate...`/`SubmitTurn` → ... → `CompleteDisposition`; `RecoverExpiredBind` or
`RecoverByDispatch` → `ExpireDecision`. It holds no lock: human turns,
materialisation, an observer, a revocation and the clock come between any two,
and `Crash` may end it after each. `Inspection` is the audit of a lineage.
`AuthorityPromise` knows only payers, answers and retries.

### Continuity checkpoint and local activity pulse

`ContinuityCheckpoint` is the program that audits one succeeded cognition against
budget and wake and writes what it found as a Task: `SubmitCheckpoint`,
`StartCheckpoint`, `CompleteCheckpoint`, with `TakeUpCheckpoint` after a crash.
`LocalActivityPulse` extends it with the pulse that is anchored in it.

| Variable | In the code |
|---|---|
| `audited`, `evidence`, `checkpoint`, `step` | the audited cognition's Task and Action; budget total and wake; the checkpoint's Task; the program's next write |
| `cursor` | the pulse's sidecar row: state, identity, due time, capture time, result |
| `tasks` | observation Tasks, by the opportunity their identity hashes |
| `pc`, `booting`, `monitoring`, `armed` | the service's thread; its first step; what it keeps in memory |
| `view`, `refused` | the status tool, which reads the sidecar and then the Task store without the lock |

`Admit` freezes a generation in the cursor, `Submit`/`Start`/`Handle` are the Task
writes, `Settle` and the `Blocked...` actions the sidecar's; `Arm` derives the
deadline from the cursor after every step. `ValidTransition` is the store's own check of a
replacement. `ObservationPromise` is a due time, a date and a log.

### Autonomous cognition pulse

`AutonomousPulse` has the cursor, the snapshot and cognition Tasks, the Actions and
the spent permits; a cognition's identity is the sequence of the snapshots from
the seed to its own. One step of the service is refresh (`Retire`, `ResetRetired`),
observation (`Freeze`, `Resume`, `RecordSubmit` ... `ClaimSubmit`, `Name`, `Settle`),
the gate (`Gate`, `GateCloses`) and the execution of the eligible Task
(`StartCognition`, `Consume`, `Call`, `Answer`); each write is an action. `mode` says
whether the step is the first, one after a refused refresh, or a tool's. A permit is
kept under the key of its Task: a cognition that a crash left with a permit and no
Action uses that permit again (`Spent`), whatever the budget then says.
`CancelTask` and `CancelSnapshot` are the offline cancel command.
`PrepareTool`, `OneShotTool`, `Seed` and `ObserveTool` are the operator's programs.
`CognitionPromise` is an opportunity that opens, is called once, is answered or
withdrawn unspent.

### Explicit wake and its resumption

`WakeResume` follows a wake from the reflection that proposes it (`Reflect`,
`Accept`) through the service's timer (`ServiceStart`, `Worker`, `ServiceStop`) to the
v0 and v1 resume programs (`Prepare`, `Select`, `Record`, `Claim`, `ExecuteV1`,
`ExecuteV0`, `ClaimV0`, `Call`, `Answer`). `pc` is the holder of the state lock.
`Record` completes whatever snapshot is pending, of whatever program
(`AbandonSnapshot`). `ResumePromise` has one wake, one context and the set of the
resumes called and over.

### Chat client, socket and lineage

`ChatControl` is the user and the client (`phase`, `attempt`, `ambiguous`, `retained`,
`told`), the listening socket (`backlog`, first come first served; an entry whose
client gave up stays), and the worker, which makes a Task durable
(`SubmitTask`) and then moves the head by compare-and-swap (`ReplaceHead`,
`ReplaceConflicts`), with a crash or a failing store in between (`ServiceDies`,
`ReplaceFails`). `OtherSubmitter` is a submitter in a process of its own that takes no
state lock, as the authority's first-dispatch program: it reads the head and writes
its Task (`OtherTask`), and moves the head later (`OtherHead`), if the head is still the
one it read; either falls between any two steps of the worker. (What it reads before
its Task is one read of the head: reading and writing the Task in one step loses
nothing, because a step of the worker in between could as well come before the
read, if it leaves the head alone, or after the Task's write.) `RunTask` walks the
lineage (`Resolves`) through V3 and V2 turns and cuts the window of the prompt
(`Window`). A new request is `NewRequest`, whichever: requests are named by nonce and
counter and compared for equality only.

`ChatPromise` has a thread, the end of each turn and the user's last word about each
request. Its `conflict` means what can be relied on: the turn is not the thread's
head and will not be put on the thread any more. It does not mean what the client
prints, that the message was not committed: see
[below](#where-code-and-documents-disagree).

Definitions whose name has a suffix and a `\* mutant` comment (`IsNext_Gap`,
`AckTrigger_Skipped`, ...) are plausible bugs kept next to the code they falsify.
No action uses them; substituting one for its original must break the property
that `PROJECT.json` pairs it with.

## Runs

Properties that ask the same question of one instance are conjuncts of one
definition (`RecordsAgree`, `ServiceProgresses`, ...); the comment above each says
what its parts are about.

| Run | Instance | Question |
|---|---|---|
| `responder_safety` | 2 leases of one turn (symmetric), 2 observers (symmetric), a human request, revisions 0-3, an operator who may ACK or decline event 2, one fault | do the stores agree, and does every step keep the promise? |
| `responder_liveness` | 1 lease of one turn, 1 observer, a human and a system request, revisions 0-3, declines of the second event, 1 fault, with retries | can a lost accounting buy a second turn, and does everything bound or decided end, overtaken ACKs included? |
| `work_safety` | 2 Tasks, one of them a pumping dialogue turn, 1 wake, 2 attempts, 1 fault | lost wake-ups, repeated executions, unclean exits |
| `work_liveness` | 1 pumping Task, no dialogue, 1 wake, 1 fault | stop, answers, pending work, deadlines |
| `work_blocked_feed` | 1 dialogue Task, no fault | the blocked feed below (violation) |
| `provider_safety` | 3 Tasks (symmetric), budget 2, 2 attempts, 2 faults | replay, budget, record, outcomes |
| `goose_cycle` | 2 stimuli, 2 models, delay 0 raised to a minimum of 1, revisions 0-6, times 0-1, one fault | one chain of Tasks on time, single re-arms, the promise, and does what is due, captured or accepted end? |
| `authority_safety` | 1 grant of one turn, a lease half as long as grant and intent, 3 turns of the thread, times 0-2 forwards and back, a stop after any transaction | windows, hidden turns, the promise |
| `local_activity` | 3 generations, cadence 1, times 0-3, 2 attempts, 2 faults, one disturbance | the checkpoint and the pulse on it: promise, anchor, drift, silence, status, and does a due generation end? |
| `autonomous_pulse` | cadences 1 and 2, snapshots fresh for 1, budget 2 with 1 in a window, times 0-3, two faults, one disturbance (a cancelled snapshot among them) | paid once, answers kept, silence, and does an opportunity end? |
| `wake_resume` | 1 reflection, 1 request, foreign snapshots of the same and of another request, delay 1, times 0-4, one fault | one call for a resume, the context asked for, the wake attended to |
| `chat` | 1 message, 3 request ids, 1 foreign turn, a V2 lineage of two, window of 2 turns and 3 units, lineage of 3, 2 connections, 1 fault | doubled or lost messages, what a verdict means, the right context, the prompt |

**Bounds.** `MaxTurns`, `MaxAttempts`, `MaxTotal`, cadences, windows and time limits are
parameters of the program, at values that reach both sides of their limit (a
second turn that is refused or allowed, a retry that is and is not left, a third
call for two permits). `MaxRevision` stops new turns: three revisions are a turn,
its answer and a turn behind the answer, which is all any transaction compares,
and four leave room for a second intervention of one lease. `MaxFaults` stops
crashes and failing stores: one stops every protocol at each of its steps, and in
`provider_safety` and the two pulses a second one cuts the recovery off; the
theorems cover any number. `MaxDisturbances` bounds what
others do to evidence, Tasks and clock: one, of any kind, meets every state, and
two together are not explored. The theorems hold for every value of all these bounds.
In `responder_safety` a lease has one turn, so the quota is met by the first one;
leases of any size are the theorems'. Its operator may decline one event, so that a
decline meets an intervention and a skip of another observer. In `authority_safety` the lease ends before its
grant and its intent would, and no minimum interval (0 is legal) holds a second
turn back: only the quota does.

In the Goose cycle `MaxRevision` and `MaxTime` stand for the largest revision and
timestamp the store can hold: the code refuses to go beyond them, and so does the
model (`Replace`, `Overflows`). Six revisions are an activation, two whole
generations and a stimulus after the first; that is enough for a stimulus to meet
the generation after its own. Its `MaxFaults` is shared by crashes, failing writes, the
clock set back and a change of the configured model; with one fault the cycle is
explored with a crash or a failure at every write, not with both, and the
theorems below cover any number. `CycleProgresses` is stated as long as nothing but
crashes disturbed the cycle, because a failing step ends the monitoring until the
service is restarted, and where revisions are left.

In the pulse and wake instances three units of time are two cadences and
one beyond, and in `wake_resume` a fourth lets a fresh selection grow stale, so a generation can be late, be coalesced, meet its successor's due
time and grow stale. A lease that would end after the last moment ends at it.
There is one request of the operator; the second, `r2`, is only met as a foreign
snapshot, so two requests of the operator that compete for one wake are the
theorems' (`ResumeWhatWasSelected` holds for any set of requests), not the run's.
In `wake_resume` a unit is fifteen minutes: the freshness bound and the budget's
cool-down are both exactly one, and every lease is shorter. In `chat` three request
ids are a message, its `/retry` and one more; two connections are a late call and
the one that overtakes it; the sizes 1 and 2 against a window of 3 make turns fit,
not fit, and be passed over.

`CHECK_DEADLOCK FALSE` is everywhere, because all systems may rightly stop: a
blocked cycle or pulse stays blocked, the responder's inputs are used up, a service
that exited need not be started, every provider Task has ended.

Symmetry is used for safety only (leases, observers, provider Tasks): no property
tells members of these sets apart and no operator picks one of them. The Goose
instance starts with the first of its two models instead.

## Fairness

`RetryingSpec` (responder). Weak fairness of `Proceed`: the worker is one thread
and finishes the command it is in unless a fault ends it. Strong fairness of
`Dispatch(i)` for every intent: the operator repeats a dispatch that did not
finish (the documented recovery), and the worker is idle again and again but not
for good, so it must be strong. Weak fairness of `Observe(o)`: the observer
command is repeated. Faults, deadlines, new turns, declines and operator ACKs
are under no obligation.

`FairSpec` (work service). Weak fairness of the worker's, the signal thread's and
the server thread's steps; of `HandlerEnds`, since every kind of Task bounds its
run time; and of each deadline's `Elapse`. Nobody has to boot, stop, connect,
crash or refuse. A client that connected sends or hangs up: `receive` has no
timeout in the code (a hazard in `PROJECT.json`), so a silent client is outside
the assumption. `PendingWorkRuns` and `DeadlinesMet` have the premise
`ClientsPause`, because whether an interrupt or a due request is taken first is
the external scheduler's choice and the model leaves it open.

`FairSpec` (Goose cycle). Weak fairness of the worker's steps and of `HandleEnds`
(a cycle Task has a run time of ten minutes, after which the runner kills the
child); of `Boot`, since the unit restarts a
service that failed and an operator one that was stopped; of `Tick` and
`LeaseRunsOut`: time passes. Strong fairness of `WaitDue`: every turn of the loop
passes through the wait, so a deadline that is due is pending again and again,
and the scheduler does not prefer interrupts for ever. Commands, stops, crashes,
other work and offline cancellations are under no obligation.

`FairSpec` (local activity pulse, autonomous pulse). Weak fairness of `Progress`, one
thread's own steps and the restart of the unit, and of `Tick`. Programs run by hand
that have not been started, interrupts, disturbances and faults are under no
obligation.

`FairSpec` (wake). A one-shot that holds the lock runs to its end; the service is
started again whenever it could be, again and again (strong: one-shots take the
lock in between); its worker waits on the clock; the clock runs.

`Fairness` (chat). Only the client's own steps and its two timers. Nothing at all is
asked of the service: `TurnsEnd` holds although the server may be held by another
client for ever.

## Proofs

Nine families, each for every value of the constants. The argument is always an
inductive invariant `I` with `Init => I` and `I /\ [Next]_vars => I'`, one proof step
for each action.

**Responder** (`DialogueResponderProofs`).
`TypeCorrect`. `ThreadCorrect`: `ThreadSound`, that is `FeedMirrorsJournal` and
`JournalFollowsPredecessors`, from `ThreadInv`, which adds that every turn of the
journal is a durable Task and that the Task about to become the head names the
present head as its predecessor (`SuccessorReady`): the write is split from the
check by a crash point, and this is what survives it. `PromiseKept`: the whole
system implements `ResponderPromise`. Its invariant adds `DecisionInv` (as long as the
event of the worker's intent is undecided or an intervention, nobody else passes
it, so what the worker read stays true over its transactions) and `ObserversInv`
(what an observer read stays true, except that the event may have been passed
for a reason), which are the exact form of "stale evidence does no harm".
The second half goes on to what the stores say of each other. `CursorCorrect`
needs that every decision of an observer was made by a rule that fits the event
(`PassedInv`), and that the worker ACKs only a turn that is on the journal and
accounted (`AnswerInv`). `RecordsCorrect` (`OneAnswerPerEvent`, `TurnAccounting`,
`CompletionAgreement`) needs who owns a disposition at each of the worker's
transactions (`OwnerInv`) and that a lease's counter moves only with
the one intent it counts (`ChargeInv`). `DecisionsFinal` is an action property of the
same invariant. `LeaseBoundCorrect` counts also the turns no lease was charged for:
as long as no operator ACKs, the cursor waits for the one unaccounted turn there
may be, and the worker does not put another one on the journal (`QuotaInv`).

**Responder authority** (`ResponderAuthorityProofs`). The proof first reduces every
step to what it may do to one grant, lease, decision, intent or disposition (the
*moves*), and shows that a decision keeps its grant and an intent its window for
good. The invariant `Inv` then says how the records of one event refer to each
other (`RecordsInv`), that a lineage keeps the expired chain it was entered for
(`LineageInv`), that a turn on the journal has its Task (`JournalInv`), and what a
program relies on between two transactions although it holds no lock
(`ProgramInv`). `ChainCorrect` is the nesting of windows; it holds with a clock that
is set back because each record is compared with the one before it in the
transaction that writes it. `RecoveryCorrect` shows that nothing but the clock and
the thread can make an audit conflict. `AuthorityPromiseKept` is the refinement: that
a grant pays for no more turns than its quota rests on `PaidInv`, which counts, for
each grant, the Tasks behind the cursor and the submitted one, so that a Task whose
charge was lost in a crash is the one the cursor is waiting for, and no second one
can be submitted before it.

**Local activity pulse and checkpoint** (`LocalActivityPulseProofs`). Every step is first
reduced to what it may do to the cursor, one Task, the checkpoint or a program's
place (the *moves*). `PulseInv` then has four parts. `AnchoredInv`: types, what a
program that is between two writes relies on, that a cursor stands on a completed
checkpoint of its own evidence, and that an attempt costs a fault or is under way.
`HistoryInv`: the Tasks of the pulse lie on one path, each under the identity of the
cursor at the time it was submitted, all but the last of them ended; an observation
that did not succeed ends the path. `RowsInv`: what the status tool read
earlier is on that path still. `InputInv`: the Task in hand says what the cursor
says. They are needed because a crash leaves a cursor without its Task, a Task
ahead of the cursor's settlement, or a checkpoint without its completion, and each
restart goes on from the two stores alone. From it `AnchorCorrect`, `SilenceCorrect`,
`StatusCorrect`, `DriftCorrect`, and `PromiseKept`, the refinement of `ObservationPromise`:
`ObservationsCount` shows that the observations made are exactly the first
generations, so that the log the mapping reads off the Tasks only grows, at its
end.

**Autonomous cognition pulse** (`AutonomousPulseProofs`). The moves again come first: what
a step may do to the cursor, one Task, one snapshot, the Actions and the thread.
`CognitionInv` has four parts beside the property. `TypeInv`: types, and what the service
relies on between two of its writes (`PlaceInv`: behind `claim` the snapshot is completed,
behind `name` the cognition exists, in a call the named Task runs and has an Action
exactly once the call was made). `LineageInv`: every cognition, the operator's too, was
claimed behind a prefix of the lineage, and of those behind its end only the named one
may have an Action. `SnapshotInv`: a snapshot that is not over, and was asked for since
the wake last moved, is that of the generation in preparation, and left running by a crash only.
`StepInv`: a step is taken by a service that asked for it, and a step that is quiet
without a fault is at a prepared, unanswered cognition. `GenerationsCorrect` needs the
first two: a Task is withdrawn while it has no Action and one that is named anew has
none, although Task store and sidecar are written apart. `SilenceCorrect` needs the
others, because a step that met a snapshot left running, or an answered cognition after
a refused refresh, would be silent without a cause. `PromiseKept` is the refinement of
`CognitionPromise`, one lemma for each of its steps: the call, the service's or the
one-shot tool's, is made for an opportunity that is open, unspent and not closed.

**Work service** (`LiveControlProofs`, second part). `WorkInvariant` is `WorkInv`: types, the
status of the Task in hand at each step (`CurrentInv`), one attempt for each fault
and nothing in flight without one (`AttemptInv`), no memory in a dead process
(`DownInv`). From it `WorkTypeCorrect`, `WorkExecutedOnce`, `WorkExitIsClean`.
`WorkWakeupsKept` needs `WakeupInv`: from the refresh after the dispatch loop
until the wait, and not only in the wait, all there is to do has been asked of
the scheduler.

**Provider call** (`ProviderCallProofs`). `ProviderInvariant` is `ProviderInv`:
`CallInv` ties the handler's place to what the three stores hold, `OutcomeInv` to
what it returns, `BudgetInv` counts permits; `AccountTruthful` says of every exchange that
a definite answer has a definite fate. From them the six listed theorems;
`ProviderCallsOnRecord` joins `ProviderNeverReplayed` and `ProviderEffectsOnRecord`.
`ProviderWithinBudget` compares cardinalities and rests on `Tasks` being finite.

**Goose cycle** (`GooseCycleProofs`). `GooseTypeCorrect` from
`GooseInv`: types, a generation costs at least one revision, a pending Task has an
attempt left. `GooseRearmOnce` from `StimulusInv`: the revision that an accepted
stimulus targets sleeps as long as it is current, one stimulus is accepted for it
at a time, and while Goose works the cursor stays prepared, so only that stimulus
can make the next revision, and finding the cursor exactly re-armed proves that
it did. The others start from `NextOutcome`, which reduces every step to what
it does to cursor and Tasks: `GooseOneChain` (a new generation has no Task yet, and
a Task in Goose's hands is written by nobody else), `GoosePromiseKept` (the
refinement of `GoosePromise`; a stimulus cannot wake the loop twice because what
it re-armed before would lie ahead of the cursor) and `GooseRunsWhenAsked` (a
sleeping cursor's last decision asked for nothing, and what justified a deadline
stays: acceptance times, the predecessor's decision, `settledAt`).
`GooseChainOnTime` joins the chain and its times, the property of the run.

**Wake and resumption** (`WakeResumeProofs`). `ResumeInvariant` is `ResumeInv`:
types; what a one-shot has stored by the point it has come to (`PlaceInv`: the
selection of its own request, the snapshot it completes, the resume Task it
runs); a resume Task stands for a fired wake, and the v1 one for the completed
snapshot bound with it (`BoundInv`); a call leaves its Action and an Action its
permit (`CallInv`). It is needed because a process is cut off between any two
writes and the next one goes on from the stores alone. From it
`ResumeCallsAccounted`, `ResumeWhatWasSelected` and `ResumePromiseKept`, the
refinement of `ResumePromise`, one lemma for each part of the promise: `WakeSteps`
(the wake is scheduled once and ends once), `ContextPromise`, `CallPromise`,
`OverPromise`. `WakeCovered` adds that a running service waits for exactly the
deadline of the scheduled wake (`ArmedInv`).

**Chat client and thread** (`LiveControlProofs`, first part). `ChatInvariant` is `ChatInv`. The
socket is a queue of calls of which only the newest may still have a client
(`SocketInv`), so every step is first reduced to what it may do to the queue and to
that one answer (the *moves*). `TryInv` and `ReplyInv` say what the chat may rely on:
an attempt names a turn that was the head at its revision, an answer of code 0 is
true of the thread when it is read, and a chat that polls has its turn on the
thread (`Landed`). `ReplaceInv` says that between the worker's Task and its head only
another submitter's turn can come, `ThreadInv` that each turn is durable and succeeds
the one before. `MessageInv`: any two requests that made a Task of one
message, or whose abandoned call still may, have a conflict between them, and
while a message may be given a new request every older one of it has been told of
one; without the abandoned calls this is not inductive. `BranchInv` follows a Task
that is beside the thread back to a failure, or to the turn that was put where it
would have stood (`Outrun`).

`LastWordInvariant` adds what makes a conflict mean something: every submission still
in the socket is the chat's last attempt, of which no conflict was told, and an
answer other than a failure leaves none behind (`CallsInv`); the Task of an attempt is
the one it asked for (`MadeInv`), so a head that is the attempt's own turn is
recognised by the submitter (`HeadIsAttempt`), and a conflict is told of another head
only and never undone (`ConflictInv`). `ToldBeforeSecondTurn` is inductive with
these: when a message is put on the thread a second time, the first of its turns
has its conflict, and is not the head. `ChatMessagesAccounted` joins the two.
`ChatPromiseKept` is the refinement of `ChatPromise`: `ReplaceHead` and `OtherHead`
advance the thread, `RunTask` ends a turn, the answers that settle an attempt tell
the user, everything else stutters. That a head is put behind a success rests on
`LineageInv`: Task and head are written apart, and the head that is replaced is the
predecessor the Task declared, which had succeeded when the Task was written.
`ChatContextIsConversation` needs `LineageInv`: a Task was submitted on a turn of the
thread that had succeeded, and its index counts the turns before it, those of V2
included (`ChatLineage`); it is carried from the Task's write over the crash point to the head's,
and for a branch for good. Walk and window are recursive functions over a bounded
interval. What they compute is proved by a least counterexample (`LeastNatural`):
`WalkIsConversation` says that the n-th ancestor is the n-th turn from the end of
the conversation, `WindowChosen` that a chosen window is a subsequence of it.

Assumptions are the named ASSUMEs of the modules: identities are disjoint, the
sentinels are no members, the bounds are natural numbers, the limits at least
one, `Tasks` of the provider finite.

**Only model-checked.** Liveness under fairness (`ServiceProgresses`, `DecisionsSettle`,
`CycleProgresses`, `GenerationsSettle`, `OpportunitiesEnd`, `WakeAttended`, `TurnsEnd`) is
out of the prover's reach. Every invariant, action property and refinement that a run
checks is also the statement of a theorem.

## Where code and documents disagree

One run states what a document says and TLC shows the code doing otherwise; the
lines are quoted under `findings` in `PROJECT.json`.

- `work_blocked_feed`: a dialogue Task that ends without success blocks the
  completion feed; from then on the service loop never reaches the only place
  where it sees a stop, so SIGTERM no longer ends the service and a restart ends
  in the same loop.

These were met while modelling. The modules have the behaviour, and the properties
are stated so as to allow it; no run is kept for each.

- *Responder* (`...Dispatcher.cpp:851`): an intent whose turn is on the canonical
  journal is closed as `conflict` or `expired`, not as `manual_review`, if the thread
  moves on before its dispatch is repeated. Its turn is not accounted to the lease;
  `LeaseBoundsSystemTurns` shows that it does not buy another one.
- *Observer* (`...Observer.cpp:294`): a skip or decline whose ACK is its own goes to
  manual review when the dispatcher moves the shared cursor on first.
- *Provider call* (`ProviderTaskHandler.cpp:134`): a retry that sees a stop before it
  looks at its earlier Action acknowledges an ordinary cancellation of a Task that
  had reached the provider.
- *Stimulus* (`LocalGooseCycleStimulusService.cpp:290`): one whose re-arm was committed
  but whose mark failed is recorded as `superseded`, "no effect". It never re-arms
  twice (`StimuliRearmOnce`).
- *Authority* (`...AuthorityService.cpp:570`): the decision is linked at a time read
  before the intent's, so a clock that ticks in between sends exact evidence to
  `manual_review`.
- *Local activity pulse* (`LocalActivityPulseService.cpp:11`): one backward step of the
  clock switches the pulse off until a restart, where the document calls it a
  non-terminal scheduling condition.
- *Checkpoint* (`ContinuityDeltaCheckpoint.cpp:364`): one that was submitted and not
  completed when the evidence drifts stays pending for good; the seed tool takes a
  completed checkpoint without asking whether the evidence still holds.
- *Autonomous pulse* (`AutonomousCognitionPulse.cpp:117`): the wake is read again when a
  frozen generation is resumed, so a wake that moved gives it a second identity and
  the gate stays ambiguous. It is still spent once (`GenerationsAccounted`). A blocked
  cursor makes the first step unhealthy and the start fail.
- *Resumption* (`resume_after_wake_v1_main.cpp:203`): freshness is asked again at every
  execution of a claimed Task, whose context is frozen; and as the cool-down equals
  the freshness bound, a v1 call cut off after its permit is never taken up. The
  selection freezes its capture time once for a wake, so a selection that was too
  early or grew stale is never claimed. A pending snapshot of the same request by
  another recorder is taken by `prepare`, which then conflicts with its selection.
  v0 and v1 may both resume one wake, each with its own call.
- *Chat* (`GaudereChat.cpp:407`): an exact retry that arrives two turns later is told
  `conflict` although its message is on the thread, with other turns behind it. The
  client then prints that "the message was not committed to the preferred thread"
  (`chat_main.cpp:178-180`), which is wrong, and the `/retry` it advises puts the message
  there twice. `ChatPromise` does not contain that sentence, and
  `ToldBeforeSecondTurn` shows that this is the only way to a doubled message. Codes 2 and 3 clear the attempt like a definite answer. At the lineage
  bound the submitter still commits a turn that must fail, after which the head is
  never canonical again.
- *Prompt window* (`LocalGooseDialogueV3Handler.cpp:199`): a turn that does not fit is
  passed over and older, smaller ones are taken, so the window need not be the most
  recent turns.

## What is not modelled, and what is assumed

- *Not modelled*: the encoding of HTTP requests and documents, prompts, rendering and validation of results; the
  parsing of options and of JSON; the MCP tools and the governance store behind
  them, a child's protocol; dialogue V1; the schema migrator, the capability
  report, the proof executables and the one-off deployment and `first_production`
  scripts, which run other modelled programs in an order of their own;
  `complete_decision` of the authority store, which nothing calls. What is
  left of the sources consists of these.
- *Time*: in the responder, the work service and the provider call deadlines are
  events (`overdue`, `resting`, `Elapse`) and the clock is not a number. In the other
  modules it is one, and may be set back.
- *Unavailable stores*: a store that fails before its write is the same as a
  stop there; where the code answers it otherwise, the action is explicit
  (`WriteUnavailable`, `TransitionRefused`, `StoreFails`, `CommandThrows`, which may or
  may not have committed).
- *Message bytes* serve only to tell a retry from a different request; a
  different request under a known identity changes no store, so it is left out.
  Further consumers of the feed have cursors of their own and touch nothing else.
- *State lock*: the checkpoint, seed, resume and operator programs of the pulses and
  the wake exclude the service and each other by it; the observer, the status
  tool, the authority's one-shots and the chat client do not take it.
- *Runtime library*: `submit` is idempotent by key; `recover` acts on expired leases;
  an execution without attempts left ends `failed` or `manual_review` (either may
  happen here); an Action without a recorded effect recovers to `retry_wait`,
  any other to `manual_review`; the scheduler keeps immediate requests and
  deadlines until it has been stopped. The library's own code is not in this
  repository.
- *Work service*: one explicit wake, since its lifetime limit is one; a refused
  command changes nothing; the kinds of Task differ in whether they pump and
  whether they are dialogue turns.
- *Goose cycle*: the service loop is modelled as far as it drives the cycle; other
  commands, Tasks and pulses are `OtherWork`, which wakes the same worker. Rows that
  another program has altered, and the anchor observation, which never changes,
  are left out. A Task write that is refused has not happened. `Goose` decides
  between any of the delays and none; its assessment is not modelled.
- *Adapter*: sizes are over or within their limit; failure codes and messages are
  left out, and with them the order of tests that all reject. The structured
  transport, which adds a schema to the request, is the same adapter.
- *Provider call*: whether the window or the cool-down denies a permit is left
  open; the lifetime total is not. The two writes of a cancellation are one
  step, of which a crash can leave the first.
