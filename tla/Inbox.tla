------------------------------- MODULE Inbox -------------------------------
(***************************************************************************)
(* The way of an input from Telegram to the worker of its conversation:    *)
(* the poller that stores updates (internal/bridge/bridge.go, Run), the    *)
(* inbox table (internal/store/store.go), the main loop that pages through *)
(* the pending rows and feeds the workers' bounded channels, the registry  *)
(* of workers with eviction and forgetting, and what stop, crash and       *)
(* restart make of inputs under way (internal/bridge/recovery.go).         *)
(*                                                                         *)
(* A worker is modelled by what it does to its inputs; the task it runs,   *)
(* the runtime and the session are left out.  Each action is one database  *)
(* transaction or one step under exitMu: others come in between.           *)
(***************************************************************************)
EXTENDS Integers, FiniteSets, Sequences

CONSTANTS
    Topics,      \* conversations the bridge supports
    Unsupported, \* conversations it does not support
    Sorts,       \* the sorts of update users send, see AllSorts
    MaxUpdates,  \* bound: updates Telegram hands out
    BatchLimit,  \* pendingInputBatchSize
    Capacity,    \* capacity of a worker's channel: queue_capacity + 16
    MaxStops,    \* bound: orderly stops and crashes
    MaxForgets   \* bound: requests to forget a binding

\* A prompt is input for OMP; a command is executed by the bridge; a guest's
\* command counts only while the allowlist has the guest; noise is ignored.
AllSorts == {"prompt", "command", "guest", "noise"}

ASSUME PlaceAssumption == Topics \cap Unsupported = {}
ASSUME SortAssumption == Sorts \subseteq AllSorts
ASSUME LimitAssumption ==
    /\ MaxUpdates \in Nat
    /\ BatchLimit \in Nat \ {0}
    /\ Capacity \in Nat \ {0}
    /\ MaxStops \in Nat
    /\ MaxForgets \in Nat

VARIABLES
    \* Telegram
    mail,       \* what users sent; an update id is a position in it
    \* the database
    row,        \* InboxState of each update; "absent" before it is accepted
    offset,     \* meta.offset: the least update id still wanted
    \* the process
    mode,       \* "restoring", "up", "stopping", "sweeping" or "down"
    barred,     \* the allowlist of this run leaves the guest out
    batch,      \* updates the poller fetched and has still to store
    polling,    \* the poller runs
    \* the main loop
    at,         \* its place
    delivered,  \* inputs given to a worker and not yet seen settled
    cursor, through, cycling,   \* pendingCursor, ..HighWater, ..CycleActive
    page,       \* what is left of the page read
    blocked,    \* conversations skipped for the rest of the page
    \* the workers
    stage,      \* of each conversation's entry in the registry
    chan,       \* w.input
    hand,       \* the input the actor is handling, or 0
    held,       \* prompts it queued or submitted
    calls,      \* submitted prompts whose request has not left yet
    \* history
    acted,      \* how often OMP got the prompt, or the command was executed
    notices,    \* how often its sender was told the place is not supported
    latest,     \* the input each conversation's worker took last while all was up
    old,        \* inputs an earlier run had accepted
    stops, forgets

dbVars     == <<row, offset>>
pollVars   == <<batch, polling>>
loopVars   == <<at, delivered, cursor, through, cycling, page, blocked>>
workerVars == <<stage, chan, hand, held, calls>>
histVars   == <<acted, notices, latest, old, stops, forgets>>
vars == <<mail, dbVars, mode, barred, pollVars, loopVars, workerVars, histVars>>

Updates == 1 .. MaxUpdates
Places  == Topics \cup Unsupported
Messages == [home : Places, sort : Sorts]
Sort(u) == mail[u].sort
Home(u) == mail[u].home
Open    == {"pending", "submitted"}
Settled == {"done", "cancelled", "failed", "ignored", "uncertain"}
RowStates == {"absent"} \cup Open \cup Settled
InState(S) == {u \in Updates : row[u] \in S}
IsLeast(u, S) == u \in S /\ \A v \in S : u <= v
IsGreatest(u, S) == u \in S /\ \A v \in S : u >= v
\* exitRequested is set.
Fenced  == {"fenced", "leaving", "exited"}
Stages  == {"none", "running", "closing"} \cup Fenced
Running == mode \in {"up", "stopping"}

\* cfg.Authorized
Authorized(u) == ~(Sort(u) = "guest" /\ barred)
\* deferredPrompt
Deferred(u) == Sort(u) = "prompt"

Mark(u, s) == row' = [row EXCEPT ![u] = s]

-----------------------------------------------------------------------------
\* Users and the poller.

Send(p, s) ==
    /\ Len(mail) < MaxUpdates
    /\ mail' = Append(mail, [home |-> p, sort |-> s])
    /\ UNCHANGED <<dbVars, mode, barred, pollVars, loopVars, workerVars, histVars>>

\* GetUpdates(offset): Telegram forgets what lies before the offset.
GetUpdates ==
    /\ mode = "up"
    /\ polling
    /\ batch = {}
    /\ batch' = {u \in 1 .. Len(mail) : u >= offset}
    /\ batch' # {}
    /\ UNCHANGED <<mail, dbVars, mode, barred, polling, loopVars, workerVars, histVars>>

\* Stores u, moves the offset to o.
StoreUpdate(u, o) ==
    /\ polling
    /\ Running
    /\ IsLeast(u, batch)
    /\ batch' = batch \ {u}
    /\ IF row[u] = "absent"
         THEN Mark(u, IF Authorized(u) THEN "pending" ELSE "ignored")
         ELSE UNCHANGED row
    /\ offset' = IF o > offset THEN o ELSE offset
    /\ UNCHANGED <<mail, mode, barred, polling, loopVars, workerVars, histVars>>

\* Mutant: the first transaction of a batch moves the offset past all of it.
AcceptWholeBatch(u) == StoreUpdate(u, Len(mail) + 1)

\* Accept and AcceptIgnored: the row and the offset in one transaction.
Accept(u) == StoreUpdate(u, u + 1)

\* The poller's context is cancelled, or one of its transactions failed.
PollerLeaves ==
    /\ mode = "stopping"
    /\ polling
    /\ polling' = FALSE
    /\ batch' = {}
    /\ UNCHANGED <<mail, dbVars, mode, barred, loopVars, workerVars, histVars>>

-----------------------------------------------------------------------------
\* The main loop: forget settled deliveries, read a page, route it, wait.

KeepDelivered(D) ==
    /\ at = "prune"
    /\ Running
    /\ delivered' = D
    /\ IF cycling
         THEN UNCHANGED <<cursor, through, cycling>>
         ELSE /\ cursor' = -1
              /\ through' = offset - 1
              /\ cycling' = TRUE
    /\ at' = "read"
    /\ UNCHANGED <<mail, dbVars, mode, barred, pollVars, page, blocked, workerVars,
                   histVars>>

\* Mutant: every cycle starts with a clean slate.
PruneAll == KeepDelivered(IF cycling THEN delivered \cap InState({"pending"}) ELSE {})

\* PendingIDs, then Offset when a new cycle starts.  The two reads look at
\* different rows than any step that could come between them changes.
Prune == KeepDelivered(delivered \cap InState({"pending"}))

\* PendingAfter(pendingCursor, pendingHighWater, pendingInputBatchSize)
PendingAfter ==
    LET rows == {u \in InState({"pending"}) : u > cursor /\ u <= through}
    IN {u \in rows : Cardinality({v \in rows : v <= u}) <= BatchLimit}

\* An empty page ends the cycle, its rest is c.
ReadPageThen(c) ==
    /\ at = "read"
    /\ Running
    /\ page' = PendingAfter
    /\ IF page' = {}
         THEN /\ cursor' = -1
              /\ through' = 0
              /\ cycling' = c
         ELSE /\ cursor' \in page'
              /\ IsGreatest(cursor', page')
              /\ cycling' = (cycling /\ cursor' < through)
              /\ UNCHANGED through
    /\ blocked' = {}
    /\ at' = "route"
    /\ UNCHANGED <<mail, dbVars, mode, barred, pollVars, delivered, workerVars, histVars>>

\* Mutant: an empty page does not end the cycle.
ReadPageOnce == ReadPageThen(cycling)

ReadPage == ReadPageThen(FALSE)

\* The input being routed is the least of the page.
Routing(u) ==
    /\ at = "route"
    /\ Running
    /\ IsLeast(u, page)

Delivered(u) ==
    /\ Routing(u)
    /\ u \in delivered
    /\ page' = page \ {u}
    /\ UNCHANGED <<mail, dbVars, mode, barred, pollVars, at, delivered, cursor, through,
                   cycling, blocked, workerVars, histVars>>

\* The allowlist changed since the update was accepted.
IgnoreBarred(u) ==
    /\ Routing(u)
    /\ u \notin delivered
    /\ ~Authorized(u)
    /\ Mark(u, "ignored")
    /\ page' = page \ {u}
    /\ UNCHANGED <<mail, offset, mode, barred, pollVars, at, delivered, cursor, through,
                   cycling, blocked, workerVars, histVars>>

\* Two transactions: Enqueue of the notice, then Mark.
EnqueueNotices(u, n) ==
    /\ Routing(u)
    /\ u \notin delivered
    /\ Authorized(u)
    /\ Home(u) \in Unsupported
    /\ notices' = [notices EXCEPT ![u] = @ + n]
    /\ at' = "mark"
    /\ UNCHANGED <<mail, dbVars, mode, barred, pollVars, delivered, cursor, through,
                   cycling, page, blocked, workerVars, acted, latest, old, stops, forgets>>

\* Mutant: an input taken before a restart is not answered again.
EnqueueNoticeOfNew(u) == EnqueueNotices(u, IF u \in old THEN 0 ELSE 1)

EnqueueNotice(u) == EnqueueNotices(u, 1)

MarkUnsupported(u) ==
    /\ at = "mark"
    /\ Running
    /\ IsLeast(u, page)
    /\ Mark(u, "done")
    /\ page' = page \ {u}
    /\ at' = "route"
    /\ UNCHANGED <<mail, offset, mode, barred, pollVars, delivered, cursor, through,
                   cycling, blocked, workerVars, histVars>>

\* Mutant: routing trusts the authorization made when the update was accepted.
ForAccepted(u, t) ==
    /\ Routing(u)
    /\ u \notin delivered
    /\ Home(u) = t

\* The input is for the worker of t, which is launched if there is none.
For(u, t) ==
    /\ Routing(u)
    /\ u \notin delivered
    /\ Authorized(u)
    /\ Home(u) = t

\* tryInput refuses: the worker is about to exit, or its channel is full.
Refused(t) == stage[t] \in Fenced \/ Len(chan[t]) >= Capacity

GiveToWorker(u, t) ==
    /\ stage' = [stage EXCEPT ![t] = IF @ = "none" THEN "running" ELSE @]
    /\ chan' = [chan EXCEPT ![t] = Append(@, u)]
    /\ delivered' = delivered \cup {u}
    /\ page' = page \ {u}
    /\ UNCHANGED <<mail, dbVars, mode, barred, pollVars, at, cursor, through, cycling,
                   blocked, hand, held, calls, histVars>>

\* Mutant: a conversation that was refused once is tried again for its next input.
RouteIgnoringBlocked(u, t) ==
    /\ For(u, t)
    /\ ~Refused(t)
    /\ GiveToWorker(u, t)

Route(u, t) ==
    /\ For(u, t)
    /\ t \notin blocked
    /\ ~Refused(t)
    /\ GiveToWorker(u, t)

Hold(u, t) ==
    /\ For(u, t)
    /\ t \in blocked \/ Refused(t)
    /\ blocked' = blocked \cup {t}
    /\ page' = page \ {u}
    /\ UNCHANGED <<mail, dbVars, mode, barred, pollVars, at, delivered, cursor, through,
                   cycling, workerVars, histVars>>

PageRouted ==
    /\ at = "route"
    /\ Running
    /\ page = {}
    /\ at' = "wait"
    /\ UNCHANGED <<mail, dbVars, mode, barred, pollVars, delivered, cursor, through,
                   cycling, page, blocked, workerVars, histVars>>

\* wake, or the 200 ms tick.
Wake ==
    /\ at = "wait"
    /\ Running
    /\ at' = "prune"
    /\ UNCHANGED <<mail, dbVars, mode, barred, pollVars, delivered, cursor, through,
                   cycling, page, blocked, workerVars, histVars>>

\* removeExitedWorker: the worker's exit is handed over in the same select.
RemoveExitedWorker(t) ==
    /\ at = "wait"
    /\ Running
    /\ stage[t] = "exited"
    /\ stage' = [stage EXCEPT ![t] = "none"]
    /\ chan' = [chan EXCEPT ![t] = <<>>]
    /\ at' = "prune"
    /\ UNCHANGED <<mail, dbVars, mode, barred, pollVars, delivered, cursor, through,
                   cycling, page, blocked, hand, held, calls, histVars>>

\* Run's variables die with it.
LoopGone ==
    /\ at' = "left"
    /\ delivered' = {}
    /\ cursor' = -1
    /\ through' = 0
    /\ cycling' = FALSE
    /\ page' = {}
    /\ blocked' = {}

LoopLeaves ==
    /\ at = "wait"
    /\ mode = "stopping"
    /\ LoopGone
    /\ UNCHANGED <<mail, dbVars, mode, barred, pollVars, workerVars, histVars>>

-----------------------------------------------------------------------------
\* The worker of conversation t.

Actor(t) == Running /\ stage[t] = "running"

Receive(t) ==
    /\ Actor(t)
    /\ hand[t] = 0
    /\ chan[t] # <<>>
    /\ hand' = [hand EXCEPT ![t] = Head(chan[t])]
    /\ chan' = [chan EXCEPT ![t] = Tail(@)]
    /\ latest' = IF mode = "up" THEN [latest EXCEPT ![t] = Head(chan[t])] ELSE latest
    /\ UNCHANGED <<mail, dbVars, mode, barred, pollVars, loopVars, stage, held, calls,
                   acted, notices, old, stops, forgets>>

\* The input just received, of one of the sorts in S; nothing is stored of it yet.
Fresh(t, S) ==
    /\ Actor(t)
    /\ hand[t] # 0
    /\ row[hand[t]] = "pending"
    /\ Sort(hand[t]) \in S

PutDown(t) == hand' = [hand EXCEPT ![t] = 0]

\* handle: topic service messages, empty text, commands for another bot.
IgnoreNoise(t) ==
    /\ Fresh(t, {"noise"})
    /\ Mark(hand[t], "ignored")
    /\ PutDown(t)
    /\ UNCHANGED <<mail, offset, mode, barred, pollVars, loopVars, stage, chan, held, calls,
                   histVars>>

\* No runtime, a full queue or a prompt too large: answered and settled.
RefusePrompt(t, s) ==
    /\ Fresh(t, {"prompt"})
    /\ s \in {"cancelled", "failed"} \/ (s = "done" /\ mode = "up")
    /\ Mark(hand[t], s)
    /\ PutDown(t)
    /\ UNCHANGED <<mail, offset, mode, barred, pollVars, loopVars, stage, chan, held, calls,
                   histVars>>

\* ensureRuntime fails because the context is cancelled: the row stays pending.
AbandonPrompt(t) ==
    /\ Fresh(t, {"prompt"})
    /\ mode = "stopping"
    /\ PutDown(t)
    /\ UNCHANGED <<mail, dbVars, mode, barred, pollVars, loopVars, stage, chan, held, calls,
                   histVars>>

\* enqueuePreparedPrompt, or the validated part of steer.
HoldPrompt(t) ==
    /\ Fresh(t, {"prompt"})
    /\ held' = [held EXCEPT ![t] = @ \cup {hand[t]}]
    /\ PutDown(t)
    /\ UNCHANGED <<mail, dbVars, mode, barred, pollVars, loopVars, stage, chan, calls,
                   histVars>>

\* Submit comes before the request; dispatch and steer both start it next.
SubmitAs(t, u, s) ==
    /\ Actor(t)
    /\ hand[t] = 0
    /\ u \in held[t]
    /\ row[u] = "pending"
    /\ Mark(u, s)
    /\ calls' = calls \cup {u}
    /\ UNCHANGED <<mail, offset, mode, barred, pollVars, loopVars, stage, chan, hand, held,
                   histVars>>

Submit(t, u) == SubmitAs(t, u, "submitted")

\* The request goroutine writes the prompt to OMP; a cancellation may come too late.
Ask(t, u) ==
    /\ Running
    /\ u \in held[t] \cap calls
    /\ calls' = calls \ {u}
    /\ acted' = [acted EXCEPT ![u] = @ + 1]
    /\ UNCHANGED <<mail, dbVars, mode, barred, pollVars, loopVars, stage, chan, hand, held,
                   notices, latest, old, stops, forgets>>

\* OMP's result, an abort, a rejection or a dead runtime settles a submitted
\* prompt; a waiting request is dropped.  Nothing unsent is done or failed.
Settle(t, u, s) ==
    /\ Actor(t)
    /\ u \in held[t]
    /\ row[u] = "submitted"
    /\ s \in {"cancelled", "uncertain"} \/ (s \in {"done", "failed"} /\ u \notin calls)
    /\ Mark(u, s)
    /\ held' = [held EXCEPT ![t] = @ \ {u}]
    /\ calls' = calls \ {u}
    /\ UNCHANGED <<mail, offset, mode, barred, pollVars, loopVars, stage, chan, hand,
                   histVars>>

\* cancelQueuedTask, or dispatch finding the frame too large.
DropQueued(t, u, s) ==
    /\ Actor(t)
    /\ u \in held[t]
    /\ row[u] = "pending"
    /\ s \in {"cancelled", "failed"}
    /\ Mark(u, s)
    /\ held' = [held EXCEPT ![t] = @ \ {u}]
    /\ UNCHANGED <<mail, offset, mode, barred, pollVars, loopVars, stage, chan, hand, calls,
                   histVars>>

\* A command or callback is submitted, executed, then settled.
BeginCommand(t) ==
    /\ Fresh(t, {"command", "guest"})
    /\ Mark(hand[t], "submitted")
    /\ calls' = calls \cup {hand[t]}
    /\ UNCHANGED <<mail, offset, mode, barred, pollVars, loopVars, stage, chan, hand, held,
                   histVars>>

Execute(t) ==
    /\ Actor(t)
    /\ hand[t] \in calls
    /\ calls' = calls \ {hand[t]}
    /\ acted' = [acted EXCEPT ![hand[t]] = @ + 1]
    /\ UNCHANGED <<mail, dbVars, mode, barred, pollVars, loopVars, stage, chan, hand, held,
                   notices, latest, old, stops, forgets>>

EndCommand(t, s) ==
    /\ Actor(t)
    /\ hand[t] # 0
    /\ row[hand[t]] = "submitted"
    /\ hand[t] \notin calls
    /\ s \in {"done", "uncertain"}
    /\ Mark(hand[t], s)
    /\ PutDown(t)
    /\ UNCHANGED <<mail, offset, mode, barred, pollVars, loopVars, stage, chan, held, calls,
                   histVars>>

-----------------------------------------------------------------------------
\* The end of a worker.  Both ways out of an idle worker test the channel and set
\* exitRequested under exitMu, the lock tryInput takes.

Retire(t, place) ==
    /\ stage' = [stage EXCEPT ![t] = place]
    /\ UNCHANGED <<mail, dbVars, mode, barred, pollVars, loopVars, chan, hand, held, calls,
                   acted, notices, latest, old, stops>>

\* Mutant: len(w.input) is not part of canEvict.
EvictIgnoringInput(t) ==
    /\ Actor(t)
    /\ hand[t] = 0
    /\ held[t] = {}
    /\ Retire(t, "leaving")
    /\ UNCHANGED forgets

Idle(t) == hand[t] = 0 /\ held[t] = {} /\ chan[t] = <<>>

EvictIfIdle(t) ==
    /\ Actor(t)
    /\ Idle(t)
    /\ Retire(t, "leaving")
    /\ UNCHANGED forgets

\* forgetBinding fences new input, closes the session, deletes the binding ...
ForgetBinding(t) ==
    /\ Actor(t)
    /\ Idle(t)
    /\ forgets < MaxForgets
    /\ forgets' = forgets + 1
    /\ Retire(t, "fenced")

\* ... and leaves, or lifts the fence when the session or the binding stays.
BindingForgotten(t) ==
    /\ Running
    /\ stage[t] = "fenced"
    /\ Retire(t, "leaving")
    /\ UNCHANGED forgets

BindingKept(t) ==
    /\ Running
    /\ stage[t] = "fenced"
    /\ Retire(t, "running")
    /\ UNCHANGED forgets

\* The context is cancelled.  Until the worker has returned its channel still takes input.
BeginTeardown(t) ==
    /\ mode = "stopping"
    /\ stage[t] = "running"
    /\ hand[t] = 0
    /\ Retire(t, "closing")
    /\ UNCHANGED forgets

\* teardownWorker: clearQueue, then the submitted work becomes uncertain.
TeardownInput(t, u) ==
    /\ Running
    /\ stage[t] = "closing"
    /\ u \in held[t]
    /\ \/ row[u] = "pending" /\ Mark(u, "cancelled")
       \/ /\ row[u] = "submitted"
          /\ \A v \in held[t] : row[v] # "pending"
          /\ Mark(u, "uncertain")
    /\ held' = [held EXCEPT ![t] = @ \ {u}]
    /\ calls' = calls \ {u}
    /\ UNCHANGED <<mail, offset, mode, barred, pollVars, loopVars, stage, chan, hand,
                   histVars>>

\* run returns and markExitRequested is called.
WorkerReturns(t) ==
    /\ Running
    /\ stage[t] \in {"leaving", "closing"}
    /\ held[t] = {}
    /\ Retire(t, "exited")
    /\ UNCHANGED forgets

-----------------------------------------------------------------------------
\* Stop, crash and restart.

\* A signal, or a database error: then the loop may have left in the middle of a page.
Stop ==
    /\ mode = "up"
    /\ stops < MaxStops
    /\ stops' = stops + 1
    /\ mode' = "stopping"
    /\ LoopGone \/ UNCHANGED loopVars
    /\ UNCHANGED <<mail, dbVars, barred, pollVars, workerVars, acted, notices, latest, old,
                   forgets>>

\* wg.Wait is over.
BeginSweep ==
    /\ mode = "stopping"
    /\ at = "left"
    /\ ~polling
    /\ \A t \in Topics : stage[t] \in {"none", "exited"}
    /\ mode' = "sweeping"
    /\ UNCHANGED <<mail, dbVars, barred, pollVars, loopVars, workerVars, histVars>>

\* cancelPendingPrompts, before polling starts and after everything has ended.
Waiting == {u \in InState({"pending"}) : Deferred(u)}

CancelPendingPrompt(u) ==
    /\ mode \in {"restoring", "sweeping"}
    /\ IsLeast(u, Waiting)
    /\ Mark(u, "cancelled")
    /\ UNCHANGED <<mail, offset, mode, barred, pollVars, loopVars, workerVars, histVars>>

NoProcess ==
    /\ batch' = {}
    /\ polling' = FALSE
    /\ LoopGone
    /\ stage' = [t \in Topics |-> "none"]
    /\ chan' = [t \in Topics |-> <<>>]
    /\ hand' = [t \in Topics |-> 0]
    /\ held' = [t \in Topics |-> {}]
    /\ calls' = {}

Exit ==
    /\ mode = "sweeping"
    /\ Waiting = {}
    /\ mode' = "down"
    /\ NoProcess
    /\ UNCHANGED <<mail, dbVars, barred, histVars>>

Crash ==
    /\ mode # "down"
    /\ stops < MaxStops
    /\ stops' = stops + 1
    /\ mode' = "down"
    /\ NoProcess
    /\ UNCHANGED <<mail, dbVars, barred, acted, notices, latest, old, forgets>>

\* Reopening gives the submitted rows the state s.
ReopenWith(s) ==
    /\ mode = "down"
    /\ mode' = "restoring"
    /\ barred' \in IF "guest" \in Sorts THEN BOOLEAN ELSE {FALSE}
    /\ row' = [u \in Updates |-> IF row[u] = "submitted" THEN s ELSE row[u]]
    /\ old' = {u \in Updates : row[u] # "absent"}
    /\ UNCHANGED <<mail, offset, pollVars, loopVars, workerVars, acted, notices, latest,
                   stops, forgets>>

\* Mutant: submitted inputs are queued again.
ReopenRequeueing == ReopenWith("pending")

\* initialize
Reopen == ReopenWith("uncertain")

\* The rest of Run's start: workers of running bindings, the poller, the loop.
StartUp ==
    /\ mode = "restoring"
    /\ mode' = "up"
    /\ polling' = TRUE
    /\ at' = "prune"
    /\ stage' \in [Topics -> {"none", "running"}]
    /\ UNCHANGED <<mail, dbVars, barred, batch, delivered, cursor, through, cycling, page,
                   blocked, chan, hand, held, calls, histVars>>

\* Mutant: polling starts while saved prompts are still pending.
StartAtOnce == StartUp

\* restoreWorkers goes on when cancelPendingPrompts has returned.
Start == Waiting = {} /\ StartUp

-----------------------------------------------------------------------------
Init ==
    /\ mail = <<>>
    /\ row = [u \in Updates |-> "absent"]
    /\ offset = 0
    /\ mode = "down"
    /\ barred = FALSE
    /\ batch = {}
    /\ polling = FALSE
    /\ at = "left"
    /\ delivered = {}
    /\ cursor = -1
    /\ through = 0
    /\ cycling = FALSE
    /\ page = {}
    /\ blocked = {}
    /\ stage = [t \in Topics |-> "none"]
    /\ chan = [t \in Topics |-> <<>>]
    /\ hand = [t \in Topics |-> 0]
    /\ held = [t \in Topics |-> {}]
    /\ calls = {}
    /\ acted = [u \in Updates |-> 0]
    /\ notices = [u \in Updates |-> 0]
    /\ latest = [t \in Topics |-> 0]
    /\ old = {}
    /\ stops = 0
    /\ forgets = 0

Users == \E p \in Places, s \in Sorts : Send(p, s)

Poller == GetUpdates \/ (\E u \in Updates : Accept(u)) \/ PollerLeaves

Loop ==
    \/ Prune
    \/ ReadPage
    \/ \E u \in Updates :
        \/ Delivered(u)
        \/ IgnoreBarred(u)
        \/ EnqueueNotice(u)
        \/ MarkUnsupported(u)
        \/ \E t \in Topics : Route(u, t) \/ Hold(u, t)
    \/ PageRouted
    \/ Wake
    \/ \E t \in Topics : RemoveExitedWorker(t)
    \/ LoopLeaves

Handle(t) ==
    \/ Receive(t)
    \/ IgnoreNoise(t)
    \/ \E s \in Settled : RefusePrompt(t, s)
    \/ AbandonPrompt(t)
    \/ HoldPrompt(t)
    \/ BeginCommand(t)
    \/ Execute(t)
    \/ \E s \in Settled : EndCommand(t, s)

Task(t) ==
    \E u \in Updates :
        \/ Submit(t, u)
        \/ Ask(t, u)
        \/ \E s \in Settled : Settle(t, u, s) \/ DropQueued(t, u, s)

Lifecycle(t) ==
    \/ EvictIfIdle(t)
    \/ ForgetBinding(t)
    \/ BindingForgotten(t)
    \/ BindingKept(t)
    \/ BeginTeardown(t)
    \/ \E u \in Updates : TeardownInput(t, u)
    \/ WorkerReturns(t)

Process ==
    \/ Stop
    \/ BeginSweep
    \/ \E u \in Updates : CancelPendingPrompt(u)
    \/ Exit
    \/ Crash
    \/ Reopen
    \/ Start

Next ==
    \/ Users
    \/ Poller
    \/ Loop
    \/ \E t \in Topics : Handle(t) \/ Task(t) \/ Lifecycle(t)
    \/ Process

Spec == Init /\ [][Next]_vars
-----------------------------------------------------------------------------
\* Properties.

TypeOK ==
    /\ mail \in Seq(Messages)
    /\ Len(mail) <= MaxUpdates
    /\ row \in [Updates -> RowStates]
    /\ offset \in 0 .. MaxUpdates + 1
    /\ mode \in {"restoring", "up", "stopping", "sweeping", "down"}
    /\ barred \in BOOLEAN
    /\ batch \subseteq Updates
    /\ polling \in BOOLEAN
    /\ at \in {"prune", "read", "route", "mark", "wait", "left"}
    /\ delivered \subseteq Updates
    /\ cursor \in Int
    /\ through \in Int
    /\ cycling \in BOOLEAN
    /\ page \subseteq Updates
    /\ blocked \subseteq Topics
    /\ stage \in [Topics -> Stages]
    /\ chan \in [Topics -> Seq(Updates)]
    /\ hand \in [Topics -> Updates \cup {0}]
    /\ held \in [Topics -> SUBSET Updates]
    /\ calls \subseteq Updates
    /\ acted \in [Updates -> Nat]
    /\ notices \in [Updates -> Nat]
    /\ latest \in [Topics -> Updates \cup {0}]
    /\ old \subseteq Updates
    /\ stops \in Nat
    /\ forgets \in Nat

\* What Telegram has been allowed to forget is in the inbox: a crash between two
\* updates of a batch loses none (Accept commits the row with its offset).
NothingLost == \A u \in 1 .. Len(mail) : u < offset => row[u] # "absent"

\* An input takes effect at most once, however often the process stops, crashes and
\* restarts: OMP is not asked twice, a command is not executed twice.
ActsOnce == \A u \in Updates : acted[u] <= 1

\* The stored state is true of what happened: an input still pending, ignored or
\* refused unread has had no effect, so a later run may take it or drop it.
PendingHasNotActed ==
    \A u \in Updates : row[u] \in {"absent", "pending", "ignored"} => acted[u] = 0

\* "Saved prompts must not restart with their bindings" (restoreWorkers): OMP never
\* gets a prompt that an earlier run accepted.
OldPromptsStayUnsent ==
    [][\A u \in old : Deferred(u) => acted'[u] = acted[u]]_vars

\* A settled input never changes again, in this run or a later one.
SettledForever == [][\A u \in Updates : row[u] \in Settled => row'[u] = row[u]]_vars

InChan(t, u) == \E i \in DOMAIN chan[t] : chan[t][i] = u
Has(t, u) == InChan(t, u) \/ hand[t] = u \/ u \in held[t]

\* The main loop gives no input away twice, and a worker has only inputs of its own
\* conversation that are still open: stale pages, pruning and re-launched workers
\* never lead to a second handling (delivered, PendingIDs, tryInput).
GivenOnce ==
    Running => \A t \in Topics :
        /\ \A i, j \in DOMAIN chan[t] : i # j => chan[t][i] # chan[t][j]
        /\ hand[t] # 0 => ~InChan(t, hand[t]) /\ hand[t] \notin held[t]
        /\ \A u \in held[t] : ~InChan(t, u)
        /\ \A u \in Updates : Has(t, u) => Home(u) = t /\ row[u] \in Open

\* While the bridge is up, an input the main loop counts as delivered is with a
\* worker that still takes part: eviction, forgetting and exit strand none
\* (evictIfIdle and forgetBinding test the channel under exitMu).
NothingStranded ==
    mode = "up" => \A u \in delivered : row[u] = "pending" =>
        \E t \in Topics : stage[t] = "running" /\ Has(t, u)

\* A user the allowlist has dropped takes no effect through an update accepted under
\* an earlier allowlist (the check of cfg.Authorized in the main loop).
AllowlistActs == barred => \A u \in 1 .. Len(mail) : Sort(u) = "guest" => acted'[u] = acted[u]
BarredDoNotAct == [][AllowlistActs]_vars

\* No input from an unsupported conversation is settled as done before its sender was
\* told so, whatever comes between the two transactions.
DoneIsNoticed ==
    \A u \in 1 .. Len(mail) :
        Home(u) \in Unsupported /\ row[u] = "done" => notices[u] >= 1

\* While the bridge is up the inputs of a conversation reach its worker in the order
\* of their ids: full channels, exiting workers and restarts let none overtake
\* (blocked, PendingAfter).  After a crash the last one may come again if nothing was
\* stored of it.
HandledInOrder ==
    [][\A t \in Topics :
        mode = "up" /\ hand'[t] \notin {0, hand[t]} => hand'[t] >= latest[t]]_vars

\* The inductive strengthening of the invariants above.

\* Without a running process there is nothing in memory.
NoMemory ==
    mode \in {"down", "restoring"} =>
        /\ ~polling /\ batch = {} /\ calls = {}
        /\ at = "left"
        /\ \A t \in Topics :
            stage[t] = "none" /\ chan[t] = <<>> /\ hand[t] = 0 /\ held[t] = {}

SweepsAlone ==
    mode = "sweeping" => ~polling /\ at = "left" /\ \A t \in Topics : stage[t] \in {"none", "exited"}

\* Rows exist for messages; the poller stores a contiguous range above the offset.
RowsHaveMail ==
    /\ offset <= Len(mail) + 1
    /\ \A u \in Updates : row[u] # "absent" => u <= Len(mail)
    /\ \A u \in batch : u <= Len(mail) /\ offset <= u
    /\ \A u \in batch : \A v \in Updates : offset <= v /\ v <= u => v \in batch

\* A page is unread except while it is routed, what it offers is still pending, and
\* what was delivered has a row.
PageIsFresh ==
    /\ at \in {"prune", "read", "wait", "left"} => page = {}
    /\ at = "left" => delivered = {}
    /\ \A u \in delivered : row[u] # "absent"
    /\ \A u \in page : u <= Len(mail) /\ (u \notin delivered => row[u] = "pending")
    /\ at = "mark" => \A u \in Updates :
        IsLeast(u, page) => u \notin delivered /\ notices[u] >= 1 /\ Home(u) \in Unsupported

\* Who has left, or is about to, has nothing any more.
StagesAreTrue(t) ==
    /\ stage[t] \in {"fenced", "leaving"} => Idle(t)
    /\ stage[t] \in {"none", "exited", "closing"} => hand[t] = 0
    /\ stage[t] \in {"none", "exited"} => held[t] = {}
    /\ stage[t] = "none" => chan[t] = <<>>
    /\ mode = "up" => stage[t] # "closing" /\ (stage[t] = "exited" => chan[t] = <<>>)

\* A worker's inputs: authorized, counted as delivered while they are pending,
\* pending while they wait in the channel.
InputsAreTrue(t) ==
    \A u \in Updates : Has(t, u) =>
        /\ u <= Len(mail)
        /\ Running => Authorized(u)
        /\ Running /\ InChan(t, u) => row[u] = "pending"
        /\ Running /\ at # "left" /\ row[u] = "pending" => u \in delivered

\* A request about to leave has not left, and its input is submitted.
CallsAreTrue == \A u \in calls : row[u] = "submitted" /\ acted[u] = 0

\* What is left of earlier runs.
OldIsOver ==
    /\ \A u \in old : row[u] # "absent"
    /\ mode = "restoring" => \A u \in Updates : row[u] # "submitted"
    /\ mode \in {"up", "stopping", "sweeping"} =>
        \A u \in old : Deferred(u) => row[u] \in Settled

RowsInv    == NothingLost /\ RowsHaveMail
ActsInv    == ActsOnce /\ PendingHasNotActed /\ CallsAreTrue /\ OldIsOver
LoopInv    == PageIsFresh /\ DoneIsNoticed
WorkersInv == NoMemory /\ SweepsAlone /\ \A t \in Topics : StagesAreTrue(t)
InputsInv  == GivenOnce /\ NothingStranded /\ \A t \in Topics : InputsAreTrue(t)

IInv == TypeOK /\ RowsInv /\ ActsInv /\ LoopInv /\ WorkersInv /\ InputsInv
=============================================================================
