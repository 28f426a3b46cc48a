----------------------------- MODULE TaskLane ------------------------------
(***************************************************************************)
(* What the worker of a conversation does with its OMP process             *)
(* (internal/bridge/bridge.go, steer.go, watchdog.go): the queue, the      *)
(* active root and its steers, the lane that runs one RPC operation at a   *)
(* time, abort, close, the watchdog, and the exit of the process.          *)
(*                                                                         *)
(* The actor handles one message at a time; w is its state, and each of    *)
(* its handlers is an operator from one state to the next, the dispatch    *)
(* that follows included.  Meanwhile OMP works, writes events, answers or  *)
(* dies (o is the process of the present client), and operations return.   *)
(* Research, native commands and final headers are left out.               *)
(***************************************************************************)
EXTENDS Integers, FiniteSets, Sequences, SequencesExt

CONSTANTS
    Prompts,     \* inputs for OMP; they may become roots or steers
    Capacity,    \* QueueCapacity
    MaxClients,  \* bound: runtimes started
    MaxControls, \* bound: status, compaction, stop and close requests
    MaxEvents,   \* bound: events on their way
    None         \* no prompt

ASSUME PromptAssumption == None \notin Prompts
ASSUME LaneBoundAssumption ==
    /\ Capacity \in Nat \ {0}
    /\ MaxClients \in Nat \ {0}
    /\ MaxControls \in Nat
    /\ MaxEvents \in Nat \ {0}

VARIABLES
    w,        \* the actor
    o,        \* the OMP process it is connected to
    finished, \* inputs OMP has truly worked off
    stopped,  \* inputs that waited or ran when the user stopped or closed, or
              \* whose request never left
    controls  \* controls requested so far

laneVars == <<w, o, finished, stopped, controls>>

Final == {"done", "failed", "cancelled", "uncertain", "refused"}
Verdicts == {"ok", "empty", "aborted"}
Results == {"ok", "rejected", "unknown", "oversized"}
Kinds == {"none", "prompt", "steer", "abort", "abort_state", "status", "compact"}

NoOperation == [kind |-> "none", input |-> None, active |-> None, turn |-> 0,
                client |-> 0, phase |-> "none"]
NoFence == [active |-> FALSE, settled |-> FALSE, seen |-> FALSE, verdict |-> "ok",
            admission |-> 0]
Dead  == [alive |-> FALSE, run |-> "idle", root |-> None, doing |-> {}, todo |-> {},
          more |-> FALSE, late |-> FALSE, events |-> <<>>]
Fresh == [Dead EXCEPT !.alive = TRUE]
NoWatch == [probe |-> "none", confirmed |-> FALSE]

Event(type, input, value) == [type |-> type, input |-> input, value |-> value]
SteerInputs(v) == {s.input : s \in v.steers}

-----------------------------------------------------------------------------
\* Pieces of handlers: the task, the queue, the runtime.

\* finishIncomplete and finishResult: the active root gets its final state.
FinishTask(v, state) ==
    IF v.active = None THEN v
    ELSE [v EXCEPT !.saved[v.active] = state, !.active = None, !.awaiting = FALSE,
                   !.watch = NoWatch]

ClearQueue(v) ==
    [v EXCEPT !.saved = [i \in Prompts |->
                            IF \E k \in DOMAIN v.queue : v.queue[k] = i
                              THEN "cancelled" ELSE v.saved[i]],
              !.queue = <<>>]

SettleSteers(v) ==
    [v EXCEPT !.saved = [i \in Prompts |->
                            IF i \in SteerInputs(v) THEN "uncertain" ELSE v.saved[i]],
              !.steers = {}]

\* releaseRuntimeWithReason: the process is closed and reaped, waiting operations
\* are dropped; one that runs keeps the lane until it returns.
Release(v) ==
    LET u == [v EXCEPT !.client = 0, !.lane = <<>>, !.awaiting = FALSE,
                       !.watch = NoWatch, !.probe = "none"]
    IN  IF v.fence.active THEN SettleSteers(u) ELSE u

RetireTaskRuntime(v) ==
    LET u == SettleSteers([Release(v) EXCEPT !.control = "none", !.session = FALSE])
    IN  [FinishTask(u, "uncertain") EXCEPT !.fence = NoFence]

\* teardownWorker, as closeLogicalSession uses it.
Teardown(v) ==
    LET u == [ClearQueue(v) EXCEPT !.turn = @ + 1, !.session = FALSE, !.control = "none"]
    IN  [FinishTask(Release(u), "uncertain") EXCEPT !.fence = NoFence]

\* dispatchRPCOperation: one at a time, none while an exit waits for its result.
DispatchOperation(v) ==
    IF v.flight # NoOperation \/ v.exiting # 0 \/ v.lane = <<>> THEN v
    ELSE [v EXCEPT !.flight = [Head(v.lane) EXCEPT !.phase = "out"], !.lane = Tail(@)]

StartOperation(v, kind, input, active) ==
    LET request == [NoOperation EXCEPT !.kind = kind, !.input = input, !.active = active,
                                       !.turn = v.turn, !.client = v.client]
    IN  DispatchOperation([v EXCEPT !.lane = Append(@, request), !.watch = NoWatch])

ControlBusy(v) == v.session \/ v.control # "none"

\* ensureRuntime, where it succeeds.
Connected(v) ==
    IF v.client # 0 THEN v
    ELSE [v EXCEPT !.client = v.last + 1, !.last = @ + 1, !.resumeFailed = FALSE]
CanConnect(v) == v.client # 0 \/ (v.bound /\ v.last < MaxClients)

BeginTask(v) ==
    LET i == Head(v.queue)
        u == [v EXCEPT !.queue = Tail(@), !.saved[i] = "submitted", !.active = i,
                       !.turn = @ + 1, !.awaiting = FALSE, !.watch = NoWatch]
    IN  StartOperation(u, "prompt", i, i)

\* canDispatch
Dispatchable(v) ==
    /\ ~v.resumeFailed
    /\ ~v.fence.active
    /\ ~ControlBusy(v)
    /\ v.active = None
    /\ v.queue # <<>>

\* dispatch: a runtime that cannot be started blocks the queue until one can.
Dispatched(v) ==
    IF ~Dispatchable(v) THEN {v}
    ELSE {[v EXCEPT !.resumeFailed = TRUE] : f \in {v.client = 0} \ {FALSE}}
         \cup {BeginTask(Connected(v)) : c \in {CanConnect(v)} \ {FALSE}}

-----------------------------------------------------------------------------
\* Handlers: steers.

StartSteerProbe(v) ==
    IF v.probe = "none" /\ v.client # 0 /\ v.steers = {} /\ v.fence.seen /\ ~v.fence.settled
      THEN [v EXCEPT !.probe = "asking"]
      ELSE v

RootVerdict(verdict) ==
    CASE verdict = "ok"      -> "done"
      [] verdict = "empty"   -> "uncertain"
      [] verdict = "aborted" -> "cancelled"

\* Mutant: outstanding steers are not waited for.
MaybeFinishSteeredRootEarly(v) ==
    IF ~v.fence.active \/ ~v.fence.seen THEN v
    ELSE [FinishTask(v, RootVerdict(v.fence.verdict)) EXCEPT !.fence = NoFence, !.probe = "none"]

MaybeFinishSteeredRoot(v) ==
    IF ~v.fence.active \/ v.steers # {} \/ ~v.fence.seen THEN v
    ELSE IF ~v.fence.settled THEN StartSteerProbe(v)
    ELSE [FinishTask(v, RootVerdict(v.fence.verdict)) EXCEPT !.fence = NoFence, !.probe = "none"]

\* steer: persisted and registered before it is sent.
Steer(v, i) ==
    LET admission == v.fence.admission + 1
        request == [input |-> i, root |-> v.active, turn |-> v.turn, client |-> v.client,
                    admission |-> admission]
        u == [v EXCEPT !.saved[i] = "submitted",
                       !.fence = [@ EXCEPT !.active = TRUE, !.settled = FALSE,
                                           !.admission = admission],
                       !.probe = "none",
                       !.steers = @ \cup {request}]
    IN  StartOperation(u, "steer", i, v.active)

CurrentSteer(v, s) == s.root = v.active /\ s.turn = v.turn /\ s.client = v.client

FinishSteer(v, s, state) == [v EXCEPT !.saved[s.input] = state, !.steers = @ \ {s}]

\* steerOperationFinished; an acknowledged steer stays until its prompt_result.
SteerReturned(v, op, result) ==
    LET mine == {s \in v.steers : s.input = op.input /\ CurrentSteer(v, s)}
    IN  IF mine = {} \/ result = "ok" THEN v
        ELSE LET s == CHOOSE s \in mine : TRUE
             IN  IF result = "rejected"
                   THEN MaybeFinishSteeredRoot(FinishSteer(v, s, "failed"))
                   ELSE RetireTaskRuntime(FinishSteer(v, s, "uncertain"))

\* Mutant: any steer's answer is taken as the state of the session.
SteerResultOfAny(v, e) ==
    LET mine == {s \in v.steers : s.input = e.input /\ CurrentSteer(v, s)}
        s == CHOOSE s \in mine : TRUE
    IN  IF mine = {} THEN v
        ELSE MaybeFinishSteeredRoot([FinishSteer(v, s, "done") EXCEPT !.fence.settled = TRUE])

\* steerResult: only the latest admission, or a denial, says whether OMP is settled.
SteerResult(v, e) ==
    LET mine == {s \in v.steers : s.input = e.input /\ CurrentSteer(v, s)}
        s == CHOOSE s \in mine : TRUE
        state == CASE e.value \in {"settled", "unsettled"} -> "done"
                   [] e.value = "error" -> "failed"
                   [] OTHER -> "uncertain"
        u == FinishSteer(v, s, state)
        x == IF s.admission = v.fence.admission \/ e.value = "unsettled"
               THEN [u EXCEPT !.fence.settled = (e.value = "settled")]
               ELSE u
    IN  IF mine = {} THEN v
        ELSE IF state = "uncertain" THEN RetireTaskRuntime(x)
        ELSE MaybeFinishSteeredRoot(x)

\* steeredQuiescenceFinished, with nothing else to be handled first.
SteerProbed(v) ==
    LET u == [v EXCEPT !.probe = "none"]
    IN  CASE v.probe = "failed"  -> RetireTaskRuntime(u)
          [] v.probe = "settled" -> MaybeFinishSteeredRoot([u EXCEPT !.fence.settled = TRUE])
          [] OTHER -> u

-----------------------------------------------------------------------------
\* Handlers: events.

NewSteeredRun(v) ==
    IF v.fence.active
      THEN [v EXCEPT !.fence = [@ EXCEPT !.settled = FALSE, !.seen = FALSE], !.probe = "none"]
      ELSE v

\* Every event is activity: it ends what the watchdog has found so far.
HandleEvent(v, e) ==
    LET u == [v EXCEPT !.watch = NoWatch]
    IN  CASE e.type = "start" -> [NewSteeredRun(u) EXCEPT !.awaiting = FALSE]
          [] e.type = "yield" -> [u EXCEPT !.awaiting = TRUE]
          [] e.type = "end" /\ u.fence.active ->
                MaybeFinishSteeredRoot(
                    [u EXCEPT !.awaiting = FALSE, !.fence.seen = TRUE, !.fence.verdict = e.value])
          [] e.type = "end" /\ ~u.fence.active ->
                FinishTask([u EXCEPT !.awaiting = FALSE], RootVerdict(e.value))
          [] e.type = "result" -> SteerResult(u, e)

\* failed: the process is gone.  A result that is on its way settles first.
Failed(v) ==
    IF v.client = 0 THEN v
    ELSE IF v.flight.client = v.client THEN [v EXCEPT !.exiting = v.client]
    ELSE LET u == [v EXCEPT !.exiting = 0]
         IN  RetireTaskRuntime(IF v.fence.active THEN u ELSE ClearQueue(u))

-----------------------------------------------------------------------------
\* Handlers: results of operations.

\* Mutant: the aborted runtime is kept for the next task.
CompleteAbortKeeping(v, retire) ==
    LET x == [v EXCEPT !.control = "none", !.session = FALSE]
    IN  IF retire THEN FinishTask(x, "cancelled") ELSE x

CompleteAbort(v, retire) ==
    LET u == IF retire THEN [Release(v) EXCEPT !.session = FALSE] ELSE v
        x == [u EXCEPT !.control = "none"]
    IN  IF retire THEN FinishTask(x, "cancelled") ELSE x

\* Results of an earlier turn, task or client change nothing.
Stale(v, op) ==
    \/ op.active # None /\ op.active # v.active
    \/ op.turn # 0 /\ op.turn # v.turn
    \/ op.client # v.client

\* operationFinished.  quiet: OMP answered that it is idle and settled, and
\* nothing it wrote is outstanding.
OperationFinished(v, op, result, quiet) ==
    IF Stale(v, op) THEN v
    ELSE CASE op.kind = "steer" -> SteerReturned(v, op, result)
           [] op.kind = "prompt" ->
                IF result = "ok" THEN v
                ELSE IF v.fence.active THEN RetireTaskRuntime(v)
                ELSE IF result = "oversized" THEN FinishTask(v, "cancelled")
                ELSE RetireTaskRuntime(ClearQueue(v))
           [] op.kind = "abort" ->
                IF result = "ok" THEN CompleteAbort(v, TRUE)
                ELSE IF result = "rejected" THEN [v EXCEPT !.control = "none"]
                ELSE [FinishTask(Release(v), "uncertain") EXCEPT !.control = "none"]
           [] op.kind = "abort_state" ->
                IF result = "ok" /\ quiet /\ v.active = None /\ ~v.session
                  THEN CompleteAbort(v, FALSE)
                  ELSE StartOperation(v, "abort", None, None)
           [] op.kind = "compact" ->
                LET u == [v EXCEPT !.session = FALSE]
                IN  IF result = "unknown" THEN Release(u) ELSE u
           [] op.kind = "status" -> [v EXCEPT !.control = "none"]

\* Mutant: the exit that waited is forgotten.
OperationReturnedAlone(v, quiet) ==
    DispatchOperation(OperationFinished([v EXCEPT !.flight = NoOperation], v.flight,
                                        v.flight.phase, quiet))

\* operationReturned: the lane is free; an exit that waited is dealt with now.
OperationReturned(v, quiet) ==
    LET op == v.flight
        u == OperationFinished([v EXCEPT !.flight = NoOperation], op, op.phase, quiet)
        x == IF v.exiting # op.client THEN u
             ELSE IF u.client = op.client THEN Failed(u)
             ELSE [u EXCEPT !.exiting = 0]
    IN  DispatchOperation(x)

-----------------------------------------------------------------------------
\* Handlers: the watchdog.

Eligible(v) == v.client # 0 /\ v.active # None /\ (~v.awaiting \/ v.fence.active)

\* Mutant: the task is settled, the runtime stays.
IdleProbedKeeping(v, patience) ==
    LET u == [v EXCEPT !.watch.probe = "none"]
    IN  IF ~Eligible(v) \/ v.watch.probe \in {"failed", "busy"} THEN [u EXCEPT !.watch = NoWatch]
        ELSE IF ~v.watch.confirmed THEN [u EXCEPT !.watch.confirmed = TRUE]
        ELSE FinishTask(u, "uncertain")

\* idleProbeFinished, with nothing else to be handled first; patience says
\* whether work OMP reports as queued has stayed idle for five minutes.
IdleProbed(v, patience) ==
    LET u == [v EXCEPT !.watch.probe = "none"]
        answer == v.watch.probe
    IN  IF v.fence.active /\ answer = "failed" THEN RetireTaskRuntime(u)
        ELSE IF ~Eligible(v) \/ answer \in {"failed", "busy"} THEN [u EXCEPT !.watch = NoWatch]
        ELSE IF v.fence.active /\ answer = "pending"
          THEN IF patience THEN [u EXCEPT !.watch = NoWatch] ELSE RetireTaskRuntime(u)
        ELSE IF v.fence.active /\ answer = "settled" /\ v.steers = {} /\ v.fence.seen
          THEN MaybeFinishSteeredRoot([u EXCEPT !.fence.settled = TRUE])
        ELSE IF ~v.watch.confirmed THEN [u EXCEPT !.watch.confirmed = TRUE]
        ELSE IF v.fence.active THEN RetireTaskRuntime(u)
        ELSE Release(FinishTask(u, "uncertain"))

-----------------------------------------------------------------------------
\* The actor: after every handler it dispatches; a process it released is gone.

Settle(v, rest) ==
    \E x \in Dispatched(v) :
        /\ w' = x
        /\ o' = CASE x.client = w.client -> rest
                 [] x.client # w.client /\ x.client = 0 -> Dead
                 [] OTHER -> Fresh

Handled(v) == Settle(v, o) /\ UNCHANGED <<finished, stopped, controls>>

Reject(i, state) == Handled([w EXCEPT !.saved[i] = state])

\* routePrompt: a steer of the active root, or the queue.
Prompt(i) ==
    /\ w.saved[i] = "none"
    /\ LET steering == w.control # "abort" /\ w.active # None /\ w.client # 0
           full == Len(w.queue) + Cardinality(w.steers) >= Capacity
       IN  IF steering
             THEN IF full THEN Reject(i, "cancelled") ELSE Handled(Steer(w, i))
             ELSE \/ CanConnect(w) /\ full /\ Handled([Connected(w) EXCEPT !.saved[i] = "cancelled"])
                  \/ CanConnect(w) /\ ~full
                        /\ Handled([Connected(w) EXCEPT !.saved[i] = "queued", !.queue = Append(@, i)])
                  \/ w.client = 0 /\ Reject(i, "refused")

Waiting == {w.queue[k] : k \in DOMAIN w.queue}
Current == ({w.active} \cup SteerInputs(w)) \ {None}

UserAsks(v, hit) ==
    /\ controls < MaxControls
    /\ controls' = controls + 1
    /\ stopped' = stopped \cup hit
    /\ Settle(v, o)
    /\ UNCHANGED finished

RequestAbort(v) ==
    IF v.client = 0 \/ v.control # "none" THEN v
    ELSE StartOperation([v EXCEPT !.control = "abort"],
                        IF v.active = None THEN "abort_state" ELSE "abort", None, None)

StopRoot(v) == IF v.fence.active THEN RetireTaskRuntime(v) ELSE RequestAbort(v)

\* /stop
Stop == UserAsks(StopRoot(ClearQueue(w)), Current \cup Waiting)

\* The stop button of the progress message.
StopActiveTask == w.active # None /\ UserAsks(StopRoot(w), Current)

\* /status, and /name alike.
Status ==
    /\ w.control = "none"
    /\ CanConnect(w)
    /\ UserAsks(StartOperation([Connected(w) EXCEPT !.control = "status"], "status", None, None), {})

\* /compact, and /handoff alike.
Compact ==
    /\ ~ControlBusy(w) /\ w.active = None /\ w.queue = <<>>
    /\ CanConnect(w)
    /\ UserAsks(StartOperation([Connected(w) EXCEPT !.session = TRUE], "compact", None, None), {})

\* /close, and a new start in the same conversation.
CloseSession == w.bound /\ UserAsks([Teardown(w) EXCEPT !.bound = FALSE], Current \cup Waiting)

NewSession ==
    /\ ~w.bound
    /\ w.last < MaxClients
    /\ Handled(Connected([w EXCEPT !.bound = TRUE]))

\* releaseIdleRuntime, and the release after a /status that started a runtime.
ReleaseIdle ==
    /\ w.client # 0
    /\ ~ControlBusy(w) /\ w.active = None /\ w.queue = <<>>
    /\ Handled(Release(w))

Listening == w.client # 0 /\ w.exiting # w.client

ConsumeEvent ==
    /\ Listening
    /\ o.events # <<>>
    /\ Settle(HandleEvent(w, Head(o.events)), [o EXCEPT !.events = Tail(@)])
    /\ UNCHANGED <<finished, stopped, controls>>

\* The events channel or done is closed; what was still in it may be lost.
ClientGone == Listening /\ ~o.alive /\ Handled(Failed(w))

\* A request that OMP has not read is rejected, never sent, or lost; one that it
\* has read is confirmed or its answer is lost.
Outcomes ==
    CASE w.flight.phase = "taken" -> {"ok", "unknown"}
      [] w.flight.phase = "out"   ->
            {"rejected", "unknown"} \cup {"oversized" : k \in {w.flight.kind} \cap {"prompt"}}
      [] OTHER -> {}

Works == o.run \in {"busy", "resumed"}
Idle == o.run = "idle" /\ o.todo = {} /\ ~o.more
Quiet == o.alive /\ Idle /\ o.events = <<>>

OperationReturns ==
    \E result \in Outcomes, quiet \in {FALSE, Quiet} :
        /\ Settle(OperationReturned([w EXCEPT !.flight.phase = result], quiet), o)
        /\ stopped' = IF result = "oversized" THEN stopped \cup {w.flight.input} ELSE stopped
        /\ UNCHANGED <<finished, controls>>

\* onTick: probeStuckTask and steeredTick.  The second probe comes a minute after
\* the last request was made: a prompt and a control have returned by then.
StartIdleProbe ==
    /\ Eligible(w)
    /\ w.watch.probe = "none"
    /\ w.watch.confirmed /\ ~w.fence.active => w.flight = NoOperation
    /\ w' = [w EXCEPT !.watch.probe = "asking"]
    /\ UNCHANGED <<o, finished, stopped, controls>>

SteeredTick ==
    /\ w.fence.active
    /\ StartSteerProbe(w) # w
    /\ w' = StartSteerProbe(w)
    /\ UNCHANGED <<o, finished, stopped, controls>>

\* rpcIdleState of what OMP answers; one that cannot say whether it is settled
\* is "idle" at most.
States ==
    CASE Works -> {"busy"}
      [] ~Works /\ ~Idle -> {"pending", "idle"}
      [] Idle -> {"settled", "idle"}

AnswerIdleProbe ==
    /\ w.watch.probe = "asking"
    /\ \E answer \in {"failed"} \cup (IF o.alive THEN States ELSE {}) :
            w' = [w EXCEPT !.watch.probe = answer]
    /\ UNCHANGED <<o, finished, stopped, controls>>

AnswerSteerProbe ==
    /\ w.probe = "asking"
    /\ \E answer \in {"failed"} \cup (IF o.alive THEN States ELSE {}) :
            w' = [w EXCEPT !.probe = answer]
    /\ UNCHANGED <<o, finished, stopped, controls>>

\* Both results let an event that waits go first.
IdleProbeFinished ==
    /\ w.watch.probe \notin {"none", "asking"}
    /\ IF o.events # <<>>
         THEN /\ Settle(HandleEvent(w, Head(o.events)), [o EXCEPT !.events = Tail(@)])
              /\ UNCHANGED <<finished, stopped, controls>>
         ELSE \E patience \in BOOLEAN : Handled(IdleProbed(w, patience))

SteeredQuiescenceFinished ==
    /\ w.probe \notin {"none", "asking"}
    /\ IF o.events # <<>>
         THEN /\ Settle(HandleEvent([w EXCEPT !.probe = "none"], Head(o.events)),
                        [o EXCEPT !.events = Tail(@)])
              /\ UNCHANGED <<finished, stopped, controls>>
         ELSE Handled(SteerProbed(w))

-----------------------------------------------------------------------------
\* The OMP process of the present client (not part of this repository).

OmpStep(process, done) ==
    /\ o.alive
    /\ Len(o.events) < MaxEvents
    /\ o' = process
    /\ finished' = finished \cup done
    /\ UNCHANGED <<stopped, controls>>

\* It reads the request of the operation in flight.
OmpTakes ==
    /\ w.flight.phase = "out"
    /\ w.flight.client = w.client
    /\ w' = [w EXCEPT !.flight.phase = "taken"]
    /\ OmpStep(CASE w.flight.kind = "prompt" ->
                       [o EXCEPT !.run = "busy", !.root = w.flight.input, !.late = FALSE,
                                 !.events = Append(@, Event("start", None, ""))]
                 [] w.flight.kind = "steer" -> [o EXCEPT !.todo = @ \cup {w.flight.input}]
                 [] w.flight.kind = "abort" /\ o.run # "idle" ->
                       [o EXCEPT !.run = "idle", !.root = None,
                                 !.events = Append(@, Event("end", None, "aborted"))]
                 [] OTHER -> o,
               {})

\* A steer joins the run or, when OMP is idle, starts one.
OmpTakesSteer ==
    /\ o.run # "yielded"
    /\ \E i \in o.todo :
        OmpStep([o EXCEPT !.todo = @ \ {i}, !.doing = @ \cup {i}, !.run = IF Works THEN @ ELSE "busy",
                          !.late = @ /\ Works,
                          !.events = IF Works THEN @ ELSE Append(@, Event("start", None, ""))], {})
    /\ UNCHANGED w

\* It reports a steer by itself, early.
OmpReportsSteer ==
    /\ Works
    /\ \E i \in o.doing, value \in {"unsettled", "error", "odd"} :
        OmpStep([o EXCEPT !.doing = @ \ {i}, !.events = Append(@, Event("result", i, value))], {i})
    /\ UNCHANGED w

\* The run ends; the steers it took are reported then, and they may have left
\* work that goes on by itself.
OmpEnds ==
    /\ Works
    /\ \E verdict \in {"ok", "empty"}, more \in {FALSE, o.doing # {}} :
        LET value == IF o.todo = {} /\ ~more THEN "settled" ELSE "unsettled"
            reports == SetToSeq({Event("result", i, value) : i \in o.doing})
        IN  OmpStep([o EXCEPT !.run = "idle", !.root = None, !.doing = {}, !.more = more,
                              !.events = Append(@, Event("end", None, verdict)) \o reports],
                    ({o.root} \ {None}) \cup o.doing)
    /\ UNCHANGED w

OmpContinues ==
    /\ o.run = "idle"
    /\ o.more
    /\ OmpStep([o EXCEPT !.run = "busy", !.more = FALSE, !.late = FALSE,
                         !.events = Append(@, Event("start", None, ""))], {})
    /\ UNCHANGED w

\* A non-terminal end: work goes on in the background and comes back.
OmpYields ==
    /\ o.run = "busy"
    /\ OmpStep([o EXCEPT !.run = "yielded", !.events = Append(@, Event("yield", None, ""))], {})
    /\ UNCHANGED w

OmpResumes ==
    /\ o.run = "yielded"
    /\ OmpStep([o EXCEPT !.run = "resumed", !.events = Append(@, Event("start", None, ""))], {})
    /\ UNCHANGED w

\* The run is over and its end is not written, or late, but before the next run.
OmpForgetsEnd ==
    /\ Works
    /\ OmpStep([o EXCEPT !.run = "idle", !.root = None, !.doing = {}, !.late = TRUE],
               ({o.root} \ {None}) \cup o.doing)
    /\ UNCHANGED w

OmpWritesLateEnd ==
    /\ o.late
    /\ OmpStep([o EXCEPT !.late = FALSE, !.events = Append(@, Event("end", None, "ok"))], {})
    /\ UNCHANGED w

OmpExits ==
    /\ o.alive
    /\ o' = [o EXCEPT !.alive = FALSE]
    /\ UNCHANGED <<w, finished, stopped, controls>>

-----------------------------------------------------------------------------
Init ==
    /\ w = [saved |-> [i \in Prompts |-> "none"], queue |-> <<>>, active |-> None, turn |-> 0,
            awaiting |-> FALSE, client |-> 0, last |-> 0, control |-> "none",
            session |-> FALSE, lane |-> <<>>, flight |-> NoOperation, exiting |-> 0,
            steers |-> {}, fence |-> NoFence, probe |-> "none", watch |-> NoWatch,
            bound |-> TRUE, resumeFailed |-> FALSE]
    /\ o = Dead
    /\ finished = {}
    /\ stopped = {}
    /\ controls = 0

Omp ==
    \/ OmpTakes \/ OmpTakesSteer \/ OmpReportsSteer \/ OmpEnds \/ OmpContinues \/ OmpYields \/ OmpResumes
    \/ OmpForgetsEnd \/ OmpWritesLateEnd \/ OmpExits

Next ==
    \/ \E i \in Prompts : Prompt(i)
    \/ Stop \/ StopActiveTask \/ Status \/ Compact \/ CloseSession \/ NewSession \/ ReleaseIdle
    \/ ConsumeEvent \/ ClientGone \/ OperationReturns
    \/ StartIdleProbe \/ SteeredTick \/ AnswerIdleProbe \/ AnswerSteerProbe
    \/ IdleProbeFinished \/ SteeredQuiescenceFinished
    \/ Omp

Spec == Init /\ [][Next]_laneVars

\* The actor handles what waits and ticks; every operation has a deadline; a run of
\* OMP does not last for ever, but its end may never be reported; and a process
\* that lives answers state requests from some time on.  The first five are WF of
\* the handler, with its ENABLED spelled out.
Fairness ==
    /\ ([]<>~(Listening /\ o.events # <<>>) \/ []<><<ConsumeEvent>>_laneVars)
    /\ ([]<>~(Listening /\ ~o.alive) \/ []<><<ClientGone>>_laneVars)
    /\ ([]<>~(Outcomes # {}) \/ []<><<OperationReturns>>_laneVars)
    /\ ([]<>~(w.watch.probe \notin {"none", "asking"}) \/ []<><<IdleProbeFinished>>_laneVars)
    /\ ([]<>~(w.probe \notin {"none", "asking"}) \/ []<><<SteeredQuiescenceFinished>>_laneVars)
    /\ WF_laneVars(StartIdleProbe)
    /\ WF_laneVars(AnswerIdleProbe)
    /\ <>[][AnswerIdleProbe => w'.watch.probe # "failed" \/ ~o.alive]_laneVars
    /\ WF_laneVars(SteeredTick)
    /\ WF_laneVars(AnswerSteerProbe)
    /\ WF_laneVars(OmpEnds \/ OmpForgetsEnd)
    /\ WF_laneVars(OmpTakesSteer)
    /\ WF_laneVars(OmpResumes)
    /\ WF_laneVars(OmpContinues)

FairSpec == Spec /\ Fairness

-----------------------------------------------------------------------------
TypeOK ==
    /\ w.saved \in [Prompts -> {"none", "queued", "submitted"} \cup Final]
    /\ w.active \in Prompts \cup {None}
    /\ w.control \in {"none", "abort", "status"}
    /\ w.flight.kind \in Kinds
    /\ w.client \in 0 .. w.last
    /\ Len(w.queue) + Cardinality(w.steers) <= Capacity
    /\ o.run \in {"idle", "busy", "yielded", "resumed"}
    /\ o.doing \cap o.todo = {}
    /\ finished \subseteq Prompts /\ stopped \subseteq Prompts

\* What is reported as done was worked off by OMP: no late event of an earlier
\* task, no result of an earlier client or turn and no answer of the watchdog
\* completes another task than its own (operationFinished, idleProbeFinished).
DoneIsTrue == \A i \in Prompts : w.saved[i] = "done" => i \in finished

\* A steered root is not done before OMP has settled: neither a run in progress,
\* nor a steer it still has to take, nor work that goes on by itself is left behind (maybeFinishSteeredRoot).
DoneOnlyWhenQuiet ==
    [][w.fence.active /\ w.active # None /\ w'.saved[w.active] = "done"
        => Idle]_laneVars

\* Every input that was handed to OMP is the active root or a steer of it, of
\* its turn and its client: no end, abort, exit or retirement leaves one behind
\* that nothing will settle (settleOutstandingSteers, finishSteer).
SubmittedIsHeld ==
    \A i \in Prompts : w.saved[i] = "submitted" =>
        i = w.active \/ \E s \in w.steers : s.input = i /\ CurrentSteer(w, s)

\* A task that OMP got is cancelled only if it ran or waited when the user asked for
\* that: an abort that comes late does not hit the next task (canDispatch,
\* completeAbort).
AbortHitsItsTask ==
    [][\A i \in Prompts :
        w.saved[i] = "submitted" /\ w'.saved[i] = "cancelled" => i \in stopped']_laneVars

\* Every task ends, also if OMP never reports it, dies or stops answering
\* (probeStuckTask, steeredTick).
TasksEnd == \A i \in Prompts : w.active = i ~> w.active # i

\* doc/architecture.md promises that a runtime with an uncertain outcome is
\* released for lazy resume: nothing it left behind may hold back the next
\* request.
ReleasedIsFree == w.client = 0 => w.control = "none"
=============================================================================
