# TLA+ models of omp-telegram

omp-telegram is a daemon that connects Telegram conversations to OMP coding
agents. It polls Telegram, keeps every update in an SQLite inbox, runs one
worker (an actor goroutine) per conversation, which drives one OMP process over
RPC, and sends everything it has to say through an SQLite outbox that four
delivery goroutines drain. Whatever the process promises, it promises across
crashes: the tables are its memory.

This directory holds the models of that protocol, the TLC configurations that
check them on small instances, and the TLAPS proofs about them for all
instances.

## 1. The system

| Component | State | Operations | Module |
| --- | --- | --- | --- |
| Outbox table, delivery workers (`store.go`, `bridge.go`) | rows `pending`, `sending`, `done`, `failed`, `uncertain`; retry deadline and count; the claimed row | Enqueue, append replies, EnqueueAttachment, ClaimNextOutput, RetryOutput, RetryServerOutput, MarkOutput; claim, send, classify, persist, notify | `Outbox` |
| Inbox table, poller, main loop (`store.go`, `bridge.go` Run) | rows `pending`, `submitted`, settled; offset; registry of workers, `delivered`, page cursor and high-water mark | Accept, Mark, Submit, FinishSubmitted, reconciliation; prune, page, route, hold back, remove exited workers | `Inbox` |
| Worker (`bridge.go`, `steer.go`, `watchdog.go`) | queue, active root, steers and their fence, RPC lane, runtime, idle probes | dispatch, steer, finish, stop, status, compact, close, release, client gone | `TaskLane`; `Inbox` for its rows |
| OMP RPC client (`omp/client.go`) | pending calls, event queue, byte budget, shutdown | start, negotiate, call, read loop, forward, fail, close | `RpcClient` |
| Sessions (`session.go`, `recovery.go`, `session_delete.go`, `store.go`) | bindings, start intents, logical claims, delete claims | prepare, launch, claim, commit, cancel, expire, lazy restore, close, delete, restore workers | `Sessions` |
| Migration (`migration.go`) | journal row, claims on two sessions, background jobs | prepare, submit, observe, verify, publish, cancel, fail, recover | `Migration` |
| Header edits and completion shortcuts (`assistant_delivery.go`, `final_actions.go`) | `header_pending`, `actions_pending`, tokens, reservations | set header, register, claim, edit, mark, reserve, consume, release, recover | `ReplyEdits` |
| Progress messages | rows per task, retirement | preview, edit, rotate, retire, clean up after delivery, prune | `Progress` |
| Attachments (`media.go`) | received files by input; snapshot files by row | collect albums, prepare, enqueue, cancel, janitor; copy, enqueue, remove, reconcile | `Incoming`, `Snapshots` |
| Autoresearch (`autoresearch.go`, `research_*.go`) | mode of the session, admission, control, settlement | admit, control, settle, toggle, stop, release | `Research` |
| Telegram client (`telegram/client.go`) | none | send, retry inside a call, fallbacks, ClassifyError | external side of `Outbox`; the retry loop is not modelled |
| Follow-ups, topic names, presets, pickers, status, doctor, markdown, reply metrics, configuration | small protocols and presentation | see section 7 | not modelled |

`PROJECT.json` lists each with its sources and what is modelled of it, and the
hazards with the line where each bites and the properties about it.

### What is hard

* **Crashes between a transaction and a side effect.** A message may exist
  although its row says `sending`; a prompt may have run although its row says
  `submitted`. The code turns both into `uncertain` on opening and never
  repeats them.
* **Unknown answers.** A timed-out send may land later; an RPC call that timed
  out may have had its effect.
* **Two tables of truth in one process.** The main loop remembers which inputs
  it gave away (`delivered`) while workers settle the rows behind its back.
* **Workers that leave.** Idle eviction, forgetting a binding and shutdown race
  with the loop that feeds the worker's channel.
* **Order.** Retry deadlines, several delivery workers, full channels and pages
  of the backlog all tempt a later item past an earlier one.
* **Stale results.** Answers of an earlier turn, process or session reach an
  actor that has moved on.
* **Claims on sessions.** Starts, lazy restores, migrations, exports, deletions and
  janitors of several conversations want the same session or the same files.
* **A reader that must not wait.** The client has to keep reading OMP's output while
  the actor waits for an answer behind it, within a byte budget.

### What makes each component correct

* Outbox: no row becomes two messages; nothing overtakes a row that may still
  be sent; a stored verdict is true and final; every row is settled.
* Inbox: no update that Telegram may forget is missing; an input takes effect
  at most once; its stored state is true; it is handled in order, by the worker
  of its conversation, and is settled in the end; prompts of an earlier run are
  never sent.
* Worker: what is reported as done was worked off; every input handed to OMP has
  somebody who settles it; an abort hits the task it was meant for; tasks end.
* Client: events arrive in order and without a gap; answers arrive though nobody
  takes events; shutdown ends, and a process that deletes is never shown the end of
  its input.
* Sessions and migration: one claim of a session, and no process beside it; every recorded intent or
  migration is resolved, also after a crash; a deletion takes no file from under a
  runtime; the binding moves only to a verified candidate.
* Answers: edits of a message exclude each other and lose no newer change; a
  shortcut is accepted at most once; a reservation lasts as long as its click is
  undecided, and no longer.
* Progress, attachments, research: a progress message outlives the reply it stands
  for; a file outlives the row, task or session that needs it; an ordinary root never
  runs while the session is in research mode.

## 2. Modules

| Module | What it is |
| --- | --- |
| `TopicDelivery` | abstract: what a conversation's reader can observe of the outbox |
| `Outbox` | the outbox table, producers, delivery workers, Telegram's side, stop, crash, reopening |
| `Inbox` | poller, inbox table, main loop, worker registry, the inputs in a worker, stop, crash, restart |
| `ReplyEdits` | status headers and completion shortcuts: edits under a shared claim, clicks, reservations, retention, stop, crash, reopening |
| `TaskLane` | the worker's automaton with its OMP process, with fairness |
| `RpcClient` | one OMP process and the client that owns it, with fairness |
| `Sessions` | bindings, intents, claims, deletions of several conversations, stop, crash, restart |
| `Migration` | the migration of a conversation, its rival, cancellation, recovery, crash |
| `Progress` | previews, the replies that replace them, retention, stop, crash |
| `Incoming`, `Snapshots` | files on their way in and on their way out, with their janitors |
| `Research` | admission, control and settlement of autoresearch |
| `OutboxLiveness`, `InboxLiveness`, `ReplyEditsLiveness` | the same with fairness, and liveness properties |
| `Parts` | composes the parts that share no state (`Sessions`, `Migration`, `Progress`, `Incoming`, `Snapshots`, `Research`): a behaviour is one of the part it starts with |
| other `MC*` | instances for TLC |
| `OutboxProofs`, `InboxProofs`, `ReplyEditsProofs`, `SessionsProofs`, `RpcClientProofs`, `TaskLaneProofs` | theorems and proofs about the component they are named after |
| `PartsProofs` | about `Migration`, `Progress` and `Snapshots`, as parts of `Parts` |
| `TaskInputProofs` | about `Incoming` and `Research`, as parts of `Parts` |

### Outbox

A row is a number, its AUTOINCREMENT id; text is abstracted away, the kind only
says whether the row is an attachment, which gets a notice when it fails. `due`
stands for `next_attempt_at <= now`; `DeadlinePasses` is the clock. A delivery
worker goes through the places of one iteration of `deliver`: *idle* (claim),
*send* (before the request leaves), *wire* (waiting for an answer), *settle*
(outcome known, not stored), *notice* (attachment failed, notice not stored),
*exited*. Each transaction, the request and the answer are separate steps, and
`Crash` may come between any two. `wire` and `received` are Telegram's side: a
request under way may land, be lost, or be rejected; the answer may get lost in
every case (`AnswerUnknown`). `Report` is what `ClassifyError` makes of the call.

The mode is *up*, *stopping* (context cancelled; workers finish what they hold)
and *down*. `Reopen` is the reconciliation at the end of `initialize`.

`TopicDelivery` knows only messages, verdicts and what is shown. It says: a
message is shown once, only while its verdict is open or doubtful, not past an
older open one of its conversation, and a verdict once given stays.

### Inbox

An update is its position in `mail`; a message is its place and a sort:
*prompt* (input for OMP, `deferredPrompt`), *command* (executed by the bridge),
*guest* (a command that counts only while the allowlist has its sender, to model
an allowlist changed between runs) and *noise* (ignored by `handle`). The poller
fetches a batch and stores one update per transaction with its offset. The main
loop goes through *prune*, *read*, *route* (*mark* between the two transactions
for an unsupported conversation) and *wait*, with its variables `delivered`,
`pendingCursor`, `pendingHighWater`, `pendingCycleActive`, `blocked`. Routing one
input of a page is one step, so workers act between any two.

A conversation's entry in the registry has a stage: *none*, *running*,
*fenced* (forgetting a binding), *leaving*, *closing* (context cancelled,
`teardownWorker`), *exited* (to be removed by the loop). `exitRequested` is set
in the fenced, leaving and exited stages; while closing the channel still takes
input, as in the code. A worker is reduced to what it does to rows: the input in
`hand`, the prompts it holds (`held`: queued, active or steers), and the requests
submitted but not yet sent (`calls`). Which of its prompts the worker submits or
settles next is left open, so that every order the queue, the steer path and the
result handling could produce is covered; `TaskLane` says which one it is.

`acted` counts effects: a prompt written to OMP, a command executed. A crash
forgets everything but the tables, Telegram and these history variables. After
`Reopen` the process sweeps the prompts saved earlier (`CancelPendingPrompt`),
also on an orderly exit.

Left out: the runtime and the session behind a prompt, media preparation,
malformed stored updates (settled as ignored), poll backoff, and the row of a
shortcut consumed by a crashed run, which `initialize` cancels (see
`ReplyEdits`).

### ReplyEdits

Two things change of an answer that is written: its header and its buttons. Both
reach a sent message as edits, and an edit of either kind first sets
`actions_pending=2`, the claim. A delivery worker goes through the places of one
iteration of `deliver`: *header* (claim a header edit), *editingHeader* (its
request), *headerEdited* (outcome known, not stored), *actions*, *claimed* (the
context is tested once more), *editingActions*, *actionsEdited*, *send*, *sending*,
*sent*. `job` is the row as it was when it was claimed; what is stored at the end
depends on whether the row still is like that (`Unclaim`, `HeaderDelivered`,
`DeliveredMetadata`). `Outbox` has the sending in detail; here a message is sent, or
not, in one step. An edit that fails is only logged, one of unknown outcome may
arrive later (`late`); `doubt` remembers both.

A token is a button of an answer. A click is an inbox row (`click`), the token it
`wants` and the actor's receipt: *taken* (the actor is in `withFinalAction`; one click
at a time), *held*, *accepted*, *released*, or *lost* when a cancelled context kept the
transaction from being known to succeed. Which command a button names is left open:
after `Reserve` the actor may mark the row, hold, accept or release in every order
the handlers could choose. `bound` stands for the comparison of the binding and the
configuration; the other conditions of `ReserveFinalAction` (user, message, running
session) appear as a `Reject` that is always possible. `Remove` is retention without
its clock, so it may strike as early as the conditions of the query permit.

Left out: which header an answer gets, several answers of one input, the callback
answers to Telegram, the retention condition on progress messages, and database errors
other than those of a cancelled context.

### TaskLane

The actor handles one message at a time. Its state is one record `w` and every
handler is an operator from one such record to the next, with everything the
handler calls, the trailing dispatch included; so a step of the model is a whole
handler. `o` is the OMP process of the present client: it works, yields, resumes,
takes steers, writes events, may forget to report its end, and dies. RPC operations
run one at a time in the `lane`; the request leaves, the answer comes or is lost,
and the result returns with the turn and the client it was made for. `finished`
(what OMP truly worked off) and `stopped` are history variables.

Left out: host tools, confirmations in the transcript, usage probes, final headers,
research (see `Research`).

### RpcClient

The reader goes through *reading*, *frame*, *draining* and *gone*; the forwarder
through *taking*, *offering*, *releasing* and *gone*; the supervisor through
*watching*, *closing*, *waiting*, *reaping*, *draining* and *gone*. A frame is its
kind; one that arrives in two chunks costs `LogicalCost` credits of the budget once
it is put together. A descendant of OMP may keep its output open (`holder`).

### Sessions

`worker` has what an actor knows of its binding, the intent it holds, its claim,
the process it runs and its `step` within a start; `deletion` the deletion it has
begun. `running` is *refused* after a restart in which `restoreWorkers` returned an
error. `doubtful` remembers sessions that OMP deleted without the bridge knowing.
A start tears the old runtime down only when it replaces one (`Replaces`, the
argument `replace`). `OneOwner` is about claims and processes, not about bindings:
no two conversations claim a session, and a conversation whose start has come past
its claim has no process in a session another one has claimed. Two running bindings
may name one session (section 4).

### Migration, Progress, Incoming, Snapshots, Research

`Migration` has the row of the journal, the actor, its background jobs with their
results, the claims on source and candidate, the processes, and a `rival`
conversation that would like the same sessions. `Progress` has the previews
Telegram shows (`posts`), what the database knows of them (`records`), the requests
and their results (`sends`), and the replies. `Incoming` has albums with their
timers, preparations beside the actor, and the janitor in its separate steps: read
what is in use, check again under `sessionMu`, remove. The janitor looks at claims, so
the actor has its `claim` and its `runtime`: OMP is released or exits and the claim
stays; `ensureRuntime`, part of every handler that calls it, brings OMP back, or fails
with the claim as it was, or given up (`FailedRestores`). Steers, which take room in the
queue as well, are left out. `Snapshots` has the copies for
rows and exports and the reconciliation that lists rows and files at different
times. `Research` has, like `TaskLane`, the actor as a record with an operator per
handler; `mode` is what the session file records.

## 3. Runs

| Run | Checks | Instance |
| --- | --- | --- |
| `outbox_safety` | `AtMostOnce`, `OvertakesOnlyUncertain`, `VerdictIsTrue`, `KeepsPromise` (refinement) | 2 topics, 2 workers, 2 rows, one of which may be an attachment, its notice, 2 attempts, 1 stop or crash |
| `outbox_liveness` | `EventuallySettled` | 2 topics, 2 workers, 2 rows, 1 stop or crash, with fairness; one topic throttled for ever |
| `outbox_notice` | `FailedAttachmentHasNotice`, violated | one attachment |
| `inbox_safety` | `NothingLost`, `ActsOnce`, `GivenOnce`, `NothingStranded`, `DoneIsNoticed`, `HandledInOrder`, `OldPromptsStayUnsent`, `BarredDoNotAct` | 1 conversation and an unsupported one, 2 updates of any of 4 sorts, channel of 1, 1 stop or crash, 1 forgotten binding |
| `inbox_liveness` | `EventuallySettled` | 2 prompts, pages of 1, 1 stop or crash, with fairness |
| `replies_safety` | `EditsAreSound`, `HeldIsReserved`, `ClicksCountOnce` | 1 answer, 1 button, 2 clicks, 2 workers, 1 header change, 1 stop or crash |
| `replies_liveness` | `EditsSettle`, `ClicksSettle` | the same with 1 click, with fairness |
| `lane` | `DoneIsTrue`, `SubmittedIsHeld`, `DoneOnlyWhenQuiet`, `AbortHitsItsTask`, `TasksEnd` | 2 inputs, 2 clients, 1 request of the user, 2 events under way, with fairness |
| `lane_release` | `ReleasedIsFree`, violated | 1 input, 2 requests of the user |
| `rpc` | `EventsAreAccounted`, `DeletionIsFinal`, `AnswersArrive`, `ShutdownEnds` | 1 call, the negotiation; 3 frames; queue of 1, budget of 3, with fairness |
| `sessions_restart` | `RestartCanClaim`, violated | 2 conversations, 2 sessions, 2 generations, 1 stop or crash |
| `parts` | `OneOwner`, `BindingsRecover`, `DeletesOnlyIdle`; `MigrationIsAlone`, `PublishesVerified`; `PreviewsAreKnown`, `DeletesOnlyReplaced`; `DirectoriesMatchTasks`, `ResumedKeepTheirFiles`; `FilesOutliveUse`; `OrdinaryRootsRunWithoutResearch`, `ResearchEndsConfirmed` | see below |

`parts` checks, each from its own initial states and together with about 1.4 million states:

- `Sessions`: 2 conversations, an earlier session and a new one, 1 generation of each
  binding, 1 stop or crash. A start that replaces the runtime of an earlier one
  (`Replaces`) needs a second generation; the theorems cover it, this run does not.
- `Migration`: 3 commands, 2 sessions, 1 crash.
- `Progress`: 2 roots, 2 replies, 3 previews, 1 stop or crash.
- `Incoming`: 3 messages out of an album of up to 2 and a single attachment, 1
  preparation at a time, 1 session and 2 generations of its binding, 1 stop or crash.
  OMP is lost (released, or gone by itself) only while a resume and the halt are still to
  come (`LosesRuntime`); the restores that may fail, and the queue that waits for them, are
  seen at any time after that.
- `Snapshots`: 2 requests, 1 export, 1 halt.
- `Research`: 2 messages, 2 processes, 1 update of the catalog.

The cfg files hold the exact numbers. Why these bounds suffice to see the
interesting cases: two delivery workers and two rows of one topic are what it
takes to race or to overtake; one crash exposes every intermediate state of
a transaction and a call. A server rejection limit of 2 has both a retry and an
exhausted row. A channel of one entry is full as soon as it is used; a page of
one input makes every second pending input a second page. Two inputs can be root and
steer, or root and queue, of each other; the second client is what results of the
first must not reach. An event queue of one and a budget of three lines overflow with
three frames. Symmetric sets are declared where no liveness is checked.

Bounds that only keep TLC finite (`Max...`) each stand in the guard of the action they
bound.

### Fairness

`OutboxLiveness` assumes weak fairness of every delivery goroutine, of the clock, of
the stop that follows a failed goroutine and of the restart (the service manager);
strong fairness of claiming a row that is due again and again (idle workers poll every
200 ms, deadlines are a second or more away); and strong fairness of some answer
other than 429 for topics that Telegram does not throttle for ever. The code does
not count 429 answers, so nothing can be promised to a topic in `Throttled` except
that other topics go on.

`InboxLiveness` assumes weak fairness of the poller, the loop, each worker's
handling of what it has in hand, of OMP's results (the watchdog and the call
timeouts end a task), and of the restart; strong fairness only where Go's `select`
chooses at random among what is ready (a worker's exit, the cancelled context).
It assumes nothing of users, stops or evictions. Stops are bounded by `MaxStops`: a process
that is killed again and again before it can do anything settles nothing.

`ReplyEditsLiveness` assumes weak fairness of the delivery workers and of the restart,
and strong fairness of the actor's handling and deciding of each click: the actor is
busy with others now and then, and a held click goes back and forth between the actor
and what it waits for, but confirmations expire and queries time out.

`TaskLane` assumes that the actor handles what waits for it and its ticks come, that
operations return (they have deadlines), that a run of OMP ends, though its end may
never be reported, and that a process that lives answers state requests from some
time on; otherwise the watchdog would be patient for ever.

`RpcClient` assumes that the client's own goroutines run, that a killed process ends
and that a call whose answer or failure is there returns. It assumes nothing of OMP
and nothing of the actor.

## 4. Where the code and its documentation differ

* **An attachment without notice** (`outbox_notice`). `doc/architecture.md:863`
  promises a notice for a terminal attachment failure. The row's state and the
  notice are two transactions (`bridge.go:1089`, `bridge.go:1115`), and an
  attachment found `sending` on opening becomes `uncertain` without one.
* **A stop that never ends** (`lane_release`). Releasing the runtime after an uncertain
  compaction drops the operations queued behind it (`bridge.go:1525`) but not the
  control they were begun for, so the conversation stays busy until it is closed.
* **Two bindings of one session** (`sessions_restart`). A failed lazy restore gives
  the claim back while the binding stays running (`bridge.go:2837`); another
  conversation may resume the session, and the next restart refuses both.

Observations that no run shows any more, or that are no divergence:

* **Order across pages.** `blocked` lives for one page (`bridge.go:749`), the cursor
  for a cycle. An input refused on one page is overtaken by a later one of its
  conversation on the next page if the channel has room again. It takes a backlog of
  more than 256 pending inputs. `HandledInOrder` is checked with all of the backlog on
  one page, and proved for that case (`OrderWithinAPage`).
* **A spent button after a crash.** Opening the database resets a claim to "nothing
  to do" (`store.go:506`) even if the buttons were changed under it, so the message
  keeps a button that was used. Clicking it is rejected; the next header edit
  removes it. `EditsAreSound` therefore excepts answers whose edit was cut off
  (`doubt`).
* While the process stops, a command held back earlier on a page may be left for the
  next run although a later command of the conversation is still executed.
  `HandledInOrder` therefore speaks of the time the bridge is up.
* **Attachments without a claim.** After a failed lazy restore has given the claim up
  (`bridge.go:2837`, `bridge.go:1579`) the binding is still running, but the janitor
  (`media.go:445`, `media.go:517`) sees neither a claim nor a pending resume: it may
  remove the old directories of that session until somebody claims it again.
  `doc/architecture.md:859` promises protection to what is claimed, being resumed,
  exported or deleted, so this is no divergence; `ResumedKeepTheirFiles` promises no
  more: nothing of an ended task is removed while its session is claimed, being
  resumed, or open in the conversation's OMP. What a cancelled task had is removed
  at any time.
* The result of an export that is put into the channel as the worker's context ends is
  not drained; its file is left to the janitor.

## 5. Proofs

All proofs hold for every value of the constants that satisfies the named
assumptions of the modules (disjoint topics, positive limits, `None` not among the
values it stands beside), so for any number of conversations, rows, workers and crashes.
Every one follows the same pattern: an inductive invariant that TLC has checked on a
small instance, its three proof obligations, and the properties as consequences.

| Property | Theorem |
| --- | --- |
| `AtMostOnce`, `OvertakesOnlyUncertain`, `VerdictIsTrue`, `KeepsPromise` | `OutboxProofs`: `NoDuplicates`, `TopicOrder`, `TrueVerdicts`, `Refinement` (and `VerdictIsFinal`) |
| `NothingLost`, `ActsOnce`, `GivenOnce`, `NothingStranded`, `DoneIsNoticed`, `OldPromptsStayUnsent`, `BarredDoNotAct` | `InboxProofs`: `UpdatesAreKept`, `EffectsAreSingle`, `DeliveryIsSingle`, `DeliveryIsKept`, `NoticeComesFirst`, `SavedPromptsStayUnsent`, `AllowlistHolds` (and `SettledStays`) |
| `HandledInOrder` | `InboxProofs`: `OrderWithinAPage`, under `[]OnePage` |
| `EditsAreSound`, `HeldIsReserved`, `ClicksCountOnce` | `ReplyEditsProofs`: `EditsSound`, `HeldAreReserved`, `ClicksCount` |
| `SubmittedIsHeld` | `TaskLaneProofs`: `SubmittedHasHolder` |
| `DoneIsTrue`, `DoneOnlyWhenQuiet`, `AbortHitsItsTask` | `TaskLaneProofs`: `DoneIsDone`, `SteeredRootsSettle`, `AbortsHitTheirTask` |
| `DeletionIsFinal`, `EventsAreAccounted` | `RpcClientProofs`: `DeletionStaysFinal`, `EventsAccounted` |
| `OneOwner`, `BindingsRecover`, `DeletesOnlyIdle` | `SessionsProofs`: `SessionsHaveOneOwner`, `BindingsAreKept`, `DeletionsSpareRuntimes` |
| `MigrationIsAlone`, `PublishesVerified` | `PartsProofs`: `MigrationsAreAlone`, `MigrationsPublishVerified` |
| `FilesOutliveUse` | `PartsProofs`: `SnapshotsOutliveUse` |
| `PreviewsAreKnown`, `DeletesOnlyReplaced` | `PartsProofs`: `PreviewsStayKnown`, `PreviewsOutliveReplies` |
| `DirectoriesMatchTasks`, `ResumedKeepTheirFiles` | `TaskInputProofs`: `DirectoriesFollowTasks`, `ResumedFilesAreKept` |
| `OrdinaryRootsRunWithoutResearch`, `ResearchEndsConfirmed` | `TaskInputProofs`: `OrdinaryRootsAreSafe`, `ResearchEndIsConfirmed` |

`OutboxProofs` proves the inductive invariant `IInv` of `Outbox` and from it the
safety properties. None of them is inductive alone: that a message is not made
twice rests on who may hold a row (`OwnsJob`, `JobsDisjoint`), on what may be
under way (`WireIsOpen`) and on rows of each state having been tried or not
(`LandedWasTried`); that a topic stays in order rests on `TriedInOrder`, which
says that once a row was tried nothing older of its topic is open. The
refinement theorem maps each step to a step of `TopicDelivery` or a stutter,
under the same invariant.

`InboxProofs` does the same for `Inbox`. Its inductive invariant has five parts
besides the types. `RowsInv`: a row exists for every update below the offset, the
batch is what lies contiguously above it, and the offset is not beyond the mail;
without the last two a batch interrupted by a crash could skip an update.
`ActsInv`: a request about to leave is of a submitted input that has had no effect
(`CallsAreTrue`), and prompts of earlier runs are settled once polling starts
(`OldIsOver`); from this follow `ActsOnce` and `OldPromptsStayUnsent`. `LoopInv`:
what a page still offers is pending unless it is delivered, and delivered inputs
have rows (`PageIsFresh`), so a page read before other steps is not stale when it
is routed. `WorkersInv`: a worker that is leaving has nothing (`StagesAreTrue`), and
without a process nothing is in memory (`NoMemory`). `InputsInv`: a worker's inputs
are authorized, of its conversation, in one place, and delivered while pending;
this is what makes routing safe, since an input not in `delivered` is with no
worker. `ActorProgress`, `ActorMoves` and `ActorActs` state once what a worker's
step may do to its inputs; the lemmas about the actions cite them. The action
properties follow from the invariant with two lemmas on which steps change a row
(`RowStep`) and which take effect (`EffectStep`).

`OrderWithinAPage` says `Spec /\ []OnePage => HandledInOrder`. `OnePage`: never more
inputs pending than a page holds. The hypothesis is needed, since the code does overtake
across pages (section 4), and it is what the system is in unless hundreds of inputs
wait. `OrderInv` adds to `IInv` that a channel is increasing, above what its worker took
last and below what still waits (`ChannelIsOrdered`); that what waits before an input of
the page is itself on the page, or its conversation is blocked (`PageIsOrdered`); and
that a cycle that has read a page has nothing left above its cursor (`CycleCovers`).
Reading a page keeps the last two only because one page holds all.

`ReplyEditsProofs`: the place and the job of a worker say what the row it has taken
looks like; a token that was accepted or lost is consumed; between request and mark
the message shows what the job says, unless it is in doubt. From these follow the
three properties of `replies_safety`.

`TaskLaneProofs`: the invariant `Held` speaks of the actor alone (every submitted input
is the root or a steer, every steer is of the present root, turn and client). A
handler is an operator on the actor, so each has one lemma, that it keeps `Held`, and
the steps cite them. Teardown keeps only `Loose` on its way.

Its second invariant: `Held` does not say what OMP does, and the actor never sees OMP,
only events and answers that may be old when they are handled. The invariant `OInv` adds
two parts. `Actor` is about the actor alone: what waits in the lane was begun on behalf
of the present task (`LaneOk`, `FlightOk`), the steers wait in their order
(`LastSteer`), and what the fence has seen fits the active root (`FenceOk`). `Matched`
relates the actor to the process of its client: each steer is in one place from the lane
to its result (`Stages`); OMP has nothing to do or say between two tasks and until it
has read the prompt (`Calmness`); what it runs is the active root or something stopped
(`Runs`); what an end, an error or a settled steer still says of OMP when it is handled
(`Ends`, `Settled`); and what is reported was worked off (`Worked`). The handlers are
operators on the actor, so the proof is in two layers: lemmas that a handler keeps
`Actor` and `Matched` and may move each input (`Handles`, with `Leads` for the states of the
inputs), and that every step is such a handler with the dispatch that follows (`Onward`);
the steps of OMP have lemmas of their own. The action property `AbortHitsItsTask` is read
off `Leads`.

`RpcClientProofs`: `ArmDestructiveShutdown` and `CloseStdin` look at different flags;
that the supervisor closes nothing before `stop` is closed (`StopComesFirst`) connects
them. `EventsAccounted` has an invariant of its own, `EInv`, which follows an event through
its places: what was received, is offered, stands in the queue, is in the reader's hand
and is still in the pipe continue each other without a gap (`Downstream`, `Upstream`), and
the credits held are the sum of the costs of what was read and not received.

`SessionsProofs`: a deletion and a runtime exclude each other in two ways, through the
claim of a runtime and through the recorded intent of a resume that has not claimed
yet; the invariant says which applies at each step of a start. `BindingsAreKept` needs in
addition `RunningHasFile`: the session of a running binding has its file, or its deletion
was in doubt, except in the steps between OMP's deletion and the removal of the
references, which only a binding being deleted can be in. A start that replaces nothing tears
nothing down; that there is nothing then is `ClosedHaveNothing`.

`PartsProofs` is about `Parts`, whose steps are those of the part a behaviour is of;
each part has an invariant in its own module, and `PartsInv` is their conjunction.
`PartsAssumption` asks that the source of a migration is a session, that the messages of
an album are finitely many, and that requests, exports, conversations, messages,
sessions and `None` are different things; they are ids of different sorts in the code.

* `Migration` (`MInv`). That there is one process, in the session it is meant to be in,
  rests on who owns it: the actor's client, or a recovery start whose result the actor
  must still take (`ProcessIsOwned`); a job whose run was cancelled is still under way
  and could switch a process, but its client is gone (`Stale`). A job's result says of
  record, journal and process what it saw for as long as the run that began it lasts
  (`JobsAreOwned`). The actor's copy of the record may lack a candidate that a
  cancelled job has observed meanwhile; `RowIsKnown` says when the two may differ. The
  conversation beside it has neither of the sessions the record names
  (`RivalIsElsewhere`).
* `Snapshots` (`FInv`). The janitor removes what was in no row when it read them; such a
  file may have become a row's since. Then it was being copied in between, so no
  retention period has passed over it (`CopiesAreNew`, `ReadingIsRecent`), and the
  janitor does not take files that young.
* `Progress` (`PInv`). The replies written while a preview was the current one lie within
  its boundary, which may be in its record, in the request that was under way when it was
  frozen, or in the actor (`BoundariesHold`). A preview found replaced stays so, since
  its epoch or its task is over (`DoomedAreOver`), however late the deletion comes.
  Retention keeps the rows a boundary names (`Within` asks that its ends are kept).

`TaskInputProofs` does the same for the two parts that are about the inputs of a
conversation.

* `Incoming` (`IInv`). What must hold of a task's files is spread over five places that
  change at different times: the queue entry, its preparation, the directory, the members
  collected for the album, and what the janitor has in its hands. `JobsFit`: each input has
  at most one preparation, whose directory is as its step left it; a preparation whose
  input was dropped is late, and what it made will be removed. `AlbumFits`: the album being
  collected has an entry and no preparation yet, so a member never joins files that are
  being fetched. `DirsFit`: a queued or running input is never in the janitor's hands, one
  that is prepared has its directory, in use, with all its members, and a directory whose
  input was dropped and has no preparation is left from an earlier life of the process
  (`life < halts`). `ClaimFits`: a claim is of the conversation's own session, and OMP runs
  only while it is held; so a preparation that succeeds had an owner when it began. `ResumedKeepTheirFiles` is an action property, shown step by step beside
  the invariant: the janitor looks at the session again under the lock before it removes
  anything, and `DirsFit` says that nobody else removes files of a task that has ended
  (it has an owner, and no preparation).
* `Research` (`RInv`). The mode of a session is OMP's, the bridge only reads it, some calls
  before it acts on it. `LaneFits` says of each answer in the lane that what it tells is still
  true when it is handled: only a goal or a toggle can switch research on, these are
  sent for a research root alone, and behind an answer nothing else is served
  (`Switches`, `Truthful`). `TaskFits` carries it from the answers to the task: while a probe is
  ready that found research off, or an ordinary root is active, research is off.
  The handlers are operators on the actor and call each other, so they have lemmas
  about an actor in any stage of a handler (`Fit`: it is sound, and what it reports is
  among what may be reported by now), which the steps put together (`AtEnd`, `Promises`).
  Which inputs may be reported is fixed before a step (`Dones`): with research off all but a
  research root, that one only when OMP is quiet and no event is left to handle (`Over`).
  Two definitions walk along a sequence, the cancellation of queued inputs and the
  draining of events. They are recursive functions, and their lemmas use the
  well-foundedness of `<` directly: a least length at which the claim fails cannot exist.

Only model-checked:

* Liveness: `EventuallySettled` of the outbox and of the inbox, `EditsSettle`,
  `ClicksSettle`, `TasksEnd`, `AnswersArrive`, `ShutdownEnds`. They rest on fairness, hence
  on `ENABLED`, which the prover does not reason about.

Every invariant and every action property of the passing runs is stated by a theorem,
and so is the refinement.

## 6. Plan

* Follow-up prompts and topic names as modules of their own, with their proofs.
* The retry loop within one Telegram call, between `Outbox` and its external side.

## 7. Not modelled

* Follow-up prompts (`store/followup.go`, `bridge/followup.go`) and topic names
  (`store/topic_names.go`) are durable protocols of their own, requests that are
  replaced, answered once and fenced, and names that are reserved, confirmed and
  released. They are small and touch the rest at few places (the queue, recovery);
  they are the next candidates.
* The retry loop and the fallbacks within one Telegram call: `Outbox` has only the
  verdicts a call may end with.
* Markdown, splitting, interface texts, reply metrics, git status, status, doctor:
  formatting without state. Configuration and presets are read at a start. Menus and
  pickers live in memory and expire; what they choose is a command of `Inbox` or a
  start of `Sessions`.
* The database upgrades: they run once and sequentially.
* That only one process runs (`daemon.lock`) is assumed.
