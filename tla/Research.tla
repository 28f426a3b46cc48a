------------------------------ MODULE Research ------------------------------
(***************************************************************************)
(* Managed autoresearch of one conversation (internal/bridge/              *)
(* autoresearch.go, research_admission.go, research_control.go and         *)
(* research_settlement.go).  A session records whether research is on; the *)
(* bridge never caches that as truth, it reads it before it dispatches the *)
(* head of its queue (admission), before and after it gives OMP a control  *)
(* command, and before it believes that a root is over (settlement).       *)
(*                                                                         *)
(* w is the state of the actor and each handler is an operator on it, the  *)
(* dispatch that follows included.  The reads travel in the RPC lane, one  *)
(* at a time, while OMP (o, one process per client) runs rounds and writes *)
(* events.  The command catalog is known and lists the extension; only its *)
(* revision changes.  Steers, clear and aborts of ordinary roots are left  *)
(* to the other modules.                                                   *)
(***************************************************************************)
EXTENDS Integers, Sequences, SequencesExt

CONSTANTS
    MaxInputs,   \* bound: messages
    MaxClients,  \* bound: processes started; a later start fails
    MaxEvents,   \* bound: rounds a process runs and updates of its catalog, together
    MaxRevisions \* bound: updates of the catalog

VARIABLES
    mode,  \* what the session file records: is research on?
    o,     \* the OMP process of the present client
    w      \* the actor

researchVars == <<mode, o, w>>

Dead == [alive |-> FALSE, run |-> FALSE, pending |-> FALSE, settled |-> FALSE,
         rounds |-> 0, revision |-> 0, events |-> <<>>]
Fresh == [Dead EXCEPT !.alive = TRUE, !.settled = TRUE]

\* researchControl: route and off look the mode up first, native tells whether
\* "/autoresearch off" itself is submitted.
NoControl == [intent |-> "none", input |-> 0, turn |-> 0, revision |-> 0, native |-> FALSE,
              phase |-> "none", request |-> -1, accepted |-> FALSE, completed |-> FALSE]
NoProbe == [input |-> 0, turn |-> 0, revision |-> 0, ready |-> FALSE, enabled |-> FALSE]
NoProof == [client |-> 0, revision |-> 0]

Init ==
    /\ mode \in BOOLEAN
    /\ o = Dead
    /\ w = [client |-> 0, launched |-> 0, turn |-> 0, active |-> 0, native |-> FALSE,
            root |-> FALSE, command |-> FALSE, accepted |-> FALSE, open |-> FALSE,
            known |-> FALSE, enabled |-> FALSE, proof |-> NoProof, disable |-> FALSE,
            paused |-> FALSE, queue |-> <<>>, control |-> NoControl, admission |-> NoProbe,
            probing |-> FALSE, changed |-> FALSE, lane |-> <<>>, inputs |-> <<>>]

TaskActive(s) == s.active # 0
Controlled(s) == s.control # NoControl
Kind(s, i) == s.inputs[i].kind

-----------------------------------------------------------------------------
\* The lane.  A request that is dropped is cancelled and leaves its operation
\* behind, which returns and is not believed (Void).

Op(owner, step, turn) == [owner |-> owner, step |-> step, turn |-> turn,
                          phase |-> "sent", value |-> FALSE, ok |-> TRUE]
Void == [Op("nobody", "none", 0) EXCEPT !.phase = "answered"]
Start(s, op) == [s EXCEPT !.lane = Append(@, op)]
Drop(s, owner) ==
    [s EXCEPT !.lane = [i \in DOMAIN @ |-> IF @[i].owner = owner THEN Void ELSE @[i]]]

Mark(s, i, state) == IF i = 0 THEN s ELSE [s EXCEPT !.inputs[i].state = state]

InvalidateAdmission(s) == [Drop(s, "admission") EXCEPT !.admission = NoProbe]
InvalidateSettlement(s) == [Drop(s, "settlement") EXCEPT !.probing = FALSE, !.changed = TRUE]
EndControl(s) == [Drop(s, "control") EXCEPT !.control = NoControl]

\* The entries of a queue that are in kept, in their order.
Only(queue, kept) ==
    LET only[k \in 0..Len(queue)] ==
            IF k = 0 THEN <<>>
            ELSE IF queue[k] \in kept THEN Append(only[k - 1], queue[k]) ELSE only[k - 1]
    IN  only[Len(queue)]
Unqueued(s, gone) == [s EXCEPT !.queue = Only(@, ToSet(@) \ gone)]
WithoutRoute(s, gone) == IF s.control.intent = "route" /\ s.control.input \in gone THEN EndControl(s) ELSE s
WithoutAdmission(s, gone) == IF s.admission.input \in gone THEN InvalidateAdmission(s) ELSE s
Cancelled(s, gone) ==
    [s EXCEPT !.inputs = [i \in DOMAIN @ |-> IF i \in gone THEN [@[i] EXCEPT !.state = "cancelled"] ELSE @[i]]]

\* cancelQueuedTask of each of these inputs that is in the queue.
CancelAll(s, inputs) ==
    LET gone == ToSet(s.queue) \cap inputs
    IN  Cancelled(Unqueued(WithoutRoute(WithoutAdmission(s, gone), gone), gone), gone)
CancelQueued(s, i) == CancelAll(s, {i})
Toggles(s) == {i \in ToSet(s.queue) : Kind(s, i) = "toggle"}

Pause(s, pauses) == IF pauses THEN [s EXCEPT !.disable = TRUE, !.paused = TRUE] ELSE s
CancelControl(s) ==
    LET c == s.control
    IN IF ~Controlled(s) THEN s
       ELSE Pause(IF c.intent = "route" THEN CancelQueued(EndControl(s), c.input)
                  ELSE Mark(EndControl(s), IF c.intent = "off" THEN c.input ELSE 0, "uncertain"),
                  c.intent # "route" \/ s.root)

-----------------------------------------------------------------------------
\* The runtime and the task.

\* The lane stays fenced until the operation under way has returned.
ReleaseRuntime(s) ==
    [InvalidateSettlement(CancelControl(InvalidateAdmission(s))) EXCEPT
        !.client = 0, !.known = FALSE, !.enabled = FALSE,
        !.lane = IF @ = <<>> THEN <<>> ELSE <<Void>>]

ClearTask(s) == [s EXCEPT !.active = 0, !.native = FALSE, !.root = FALSE, !.accepted = FALSE,
                          !.command = FALSE, !.open = FALSE]
Finish(s, state) == ClearTask(Mark(s, s.active, state))

RetireResearch(s) ==
    Finish(ReleaseRuntime(Pause(InvalidateSettlement(s), TRUE)), "uncertain")
RetireTask(s) == IF s.root THEN RetireResearch(s) ELSE Finish(ReleaseRuntime(s), "uncertain")

\* Starts the process of the saved session; the actor waits for it.
RuntimeStarted(s) ==
    [s EXCEPT !.launched = @ + 1, !.client = s.launched + 1, !.paused = FALSE]
CanStart(s, starts) == s.client # 0 \/ (starts /\ s.launched < MaxClients)
EnsureRuntime(s) == IF s.client # 0 THEN s ELSE RuntimeStarted(s)

Revision(s) == IF s.client = w.client THEN o.revision ELSE 0

Remember(s, enabled) ==
    [s EXCEPT !.known = TRUE, !.enabled = enabled,
              !.proof = [client |-> s.client, revision |-> Revision(s)]]
OffProof(s) ==
    /\ s.known /\ ~s.enabled /\ ~s.disable
    /\ s.proof = [client |-> s.client, revision |-> Revision(s)]

-----------------------------------------------------------------------------
\* Controls.

\* researchControlCall
Step(s, step) == Start([s EXCEPT !.control.phase = step], Op("control", step, s.turn))
NewControl(s, intent, i) ==
    [s EXCEPT !.control = [NoControl EXCEPT !.intent = intent, !.input = i, !.turn = s.turn,
                                            !.revision = Revision(s)]]
Lookup(s, intent, i) == Step(NewControl(s, intent, i), "mode")

\* prepareResearchControlRuntime and what follows
NativeOff(s, i, starts) ==
    IF CanStart(s, starts)
    THEN Step([NewControl(EnsureRuntime(s), "off", i) EXCEPT !.control.native = TRUE], "identity")
    ELSE Mark(s, i, "uncertain")
BeginDisable(s, i, starts) ==
    LET busy == TaskActive(s) \/ s.root \/ s.lane # <<>>
    IN NativeOff(Pause(IF busy THEN RetireResearch(s) ELSE s, TRUE), i, starts)

\* A lookup has submitted nothing: replacing it does not retire an ordinary owner.
ReadOnly(c) == c.intent = "route" \/ (c.intent = "off" /\ ~c.native)

Replace(s, readOnly) ==
    IF ~Controlled(s) THEN s
    ELSE IF readOnly THEN CancelControl(s) ELSE RetireResearch(CancelControl(s))

DisableOrConfirm(s, i, ordinary, replaced, starts) ==
    IF ordinary /\ s.client # 0 /\ TaskActive(s) /\ OffProof(s) THEN Mark(s, i, "done")
    ELSE IF ordinary /\ s.client # 0 /\ (TaskActive(s) \/ replaced) THEN Lookup(s, "off", i)
    ELSE BeginDisable(s, i, starts)

\* disableResearch
Disable(s, i, starts) ==
    LET active   == s.root \/ s.enabled
        replaced == Controlled(s) /\ ReadOnly(s.control) /\ ~active
        kept     == CancelAll(s, IF active \/ s.disable THEN Toggles(s) ELSE {})
    IN DisableOrConfirm(InvalidateAdmission(Replace(kept, replaced)), i, ~active, replaced, starts)

FailedControl(s, c) ==
    CASE c.intent = "route" ->
           [IF s.root THEN RetireResearch(CancelQueued(s, c.input)) ELSE CancelQueued(s, c.input)
            EXCEPT !.paused = TRUE]
      [] ReadOnly(c) /\ c.intent = "off" -> Mark(Pause(s, TRUE), c.input, "uncertain")
      [] ~ReadOnly(c) ->
           Mark(IF c.intent = "local" \/ TaskActive(s) THEN RetireResearch(s)
                ELSE ReleaseRuntime(Pause(s, TRUE)),
                IF c.intent = "off" THEN c.input ELSE 0, "uncertain")
ControlFailed(s) == FailedControl([EndControl(s) EXCEPT !.known = FALSE], s.control)

\* researchControlScope; the turn and the revision are those of its creation.
InScope(s) == s.control.turn = s.turn /\ s.control.revision = Revision(s)

FinishRoute(s, enabled, starts) ==
    LET c == s.control
        a == EndControl(s)
    IN IF Kind(s, c.input) = "toggle" /\ enabled
       THEN Disable(Mark(Unqueued(a, {c.input}), c.input, "submitted"), c.input, starts)
       ELSE a

FinishControl(s) ==
    LET c == s.control
        a == [EndControl(s) EXCEPT !.command = FALSE]
    IN IF c.intent = "local" THEN Finish(a, "done")
       ELSE Mark([a EXCEPT !.disable = FALSE, !.paused = FALSE, !.root = FALSE], c.input, "done")

Advanced(s, op, starts) ==
    LET c == s.control
    IN CASE op.step = "identity" -> Step(s, "idle")
         [] op.step = "idle" -> Step([s EXCEPT !.control.request = 0, !.command = TRUE], "off")
         [] op.step = "off" ->
              [IF c.completed THEN Step(s, "postmode")
               ELSE [s EXCEPT !.control.phase = "completion"] EXCEPT !.control.accepted = TRUE]
         [] op.step = "postmode" -> FinishControl(Remember(s, op.value))
         [] op.step = "mode" ->
              IF c.intent = "route" THEN FinishRoute(Remember(s, op.value), op.value, starts)
              ELSE IF op.value THEN BeginDisable(EndControl(Remember(s, TRUE)), c.input, starts)
              ELSE FinishControl(Remember(s, FALSE))

\* researchControlFinished
ControlFinished(s, op, starts) ==
    IF \/ ~op.ok \/ ~InScope(s)
       \/ (op.step = "idle" /\ ~op.value)
       \/ (op.step = "postmode" /\ s.control.intent # "local" /\ op.value)
    THEN ControlFailed(s)
    ELSE Advanced(s, op, starts)

-----------------------------------------------------------------------------
\* Admission and dispatch.

Admit(s) ==
    Start([s EXCEPT !.admission = [NoProbe EXCEPT !.input = Head(s.queue), !.turn = s.turn,
                                                  !.revision = Revision(s)]],
          Op("admission", "mode", s.turn))

\* Mutated form: a lookup that failed counts as off.
AdmissionAssumedOff(s, op) ==
    LET p == s.admission
    IN IF s.turn # p.turn \/ s.queue = <<>> THEN InvalidateAdmission(s)
       ELSE IF Head(s.queue) # p.input \/ Revision(s) # p.revision THEN InvalidateAdmission(s)
       ELSE [s EXCEPT !.admission.ready = TRUE, !.admission.enabled = op.ok /\ op.value]

\* researchAdmissionFinished
AdmissionFinished(s, op) ==
    LET p == s.admission
    IN IF s.turn # p.turn \/ s.queue = <<>> THEN InvalidateAdmission(s)
       ELSE IF Head(s.queue) # p.input THEN InvalidateAdmission(s)
       ELSE IF ~op.ok THEN [CancelQueued(s, p.input) EXCEPT !.known = FALSE, !.paused = TRUE]
       ELSE IF Revision(s) # p.revision THEN InvalidateAdmission(s)
       ELSE [s EXCEPT !.admission.ready = TRUE, !.admission.enabled = op.value]

\* beginTask and beginResearchTask, and the prompt that goes to OMP
Begin(s) ==
    LET i == Head(s.queue)
        native == Kind(s, i) # "prompt"
        a == Mark(InvalidateSettlement(InvalidateAdmission(s)), i, "submitted")
    IN Start([a EXCEPT !.queue = Tail(@), !.active = i, !.native = native, !.turn = @ + 1,
                       !.command = native, !.accepted = FALSE, !.root = s.enabled \/ native,
                       !.open = FALSE],
             Op("task", Kind(s, i), s.turn + 1))

\* researchDispatchReady and the rest of dispatch, once a runtime is there
DispatchReady(s, starts) ==
    LET p == s.admission
        stale == p # NoProbe /\ (\/ p.turn # s.turn \/ p.input # Head(s.queue)
                                 \/ (p.ready /\ p.revision # Revision(s)))
        seen == Remember(s, p.enabled)
        i == Head(s.queue)
    IN IF s.disable THEN [s EXCEPT !.paused = TRUE]
       ELSE IF stale \/ p = NoProbe THEN Admit(InvalidateAdmission(s))
       ELSE IF ~p.ready THEN s
       ELSE IF Kind(s, i) = "toggle" /\ seen.enabled
       THEN Disable(Mark(Unqueued(seen, {i}), i, "submitted"), i, starts)
       ELSE Begin(seen)

Dispatch(s, starts) ==
    IF s.paused \/ TaskActive(s) \/ Controlled(s) \/ s.queue = <<>> THEN s
    ELSE IF CanStart(s, starts) THEN DispatchReady(EnsureRuntime(s), starts)
    ELSE [s EXCEPT !.paused = TRUE]

\* One turn of the actor's loop.
Handled(s, starts) ==
    LET new == [Dispatch(s, starts) EXCEPT !.changed = FALSE]
    IN /\ w' = new
       /\ mode' = mode

Process(client) == IF client = w.client THEN o ELSE IF client = 0 THEN Dead ELSE Fresh

-----------------------------------------------------------------------------
\* What users send.

Accepted(kind) ==
    [w EXCEPT !.inputs = Append(@, [kind |-> kind, state |-> "pending"])]
NewInput == Len(w.inputs) + 1

\* Text while an agent runs would steer it.
SendPrompt == \E starts \in BOOLEAN :
    /\ NewInput <= MaxInputs /\ (TaskActive(w) => w.native)
    /\ Handled([Accepted("prompt") EXCEPT !.queue = Append(@, NewInput)], starts)
    /\ o' = Process(w'.client)

\* routeResearchInput for a goal or an empty toggle
RouteCommand == \E kind \in {"goal", "toggle"}, starts \in BOOLEAN :
    LET i == NewInput
        s == EnsureRuntime(Accepted(kind))
        queued == [s EXCEPT !.queue = Append(@, i)]
        routed == IF Controlled(s) THEN Mark(s, i, "cancelled")
                  ELSE IF TaskActive(s) /\ s.native THEN queued
                  ELSE Lookup(queued, "route", i)
    IN /\ i <= MaxInputs
       /\ Handled(IF CanStart(w, starts) THEN routed ELSE Mark(Accepted(kind), i, "done"), starts)
       /\ o' = Process(w'.client)

RouteOff == \E starts \in BOOLEAN :
    /\ NewInput <= MaxInputs
    /\ Handled(Disable(Mark(Accepted("off"), NewInput, "submitted"), NewInput, starts), starts)
    /\ o' = Process(w'.client)

\* stop and handleResearchStop, as far as research is concerned
Stop == \E starts \in BOOLEAN :
    LET looking == w.admission # NoProbe /\ ~w.admission.ready
        emptied(s) == CancelAll(s, ToSet(s.queue))
    IN /\ NewInput <= MaxInputs
       /\ Controlled(w) \/ looking \/ w.root \/ w.enabled \/ w.disable
       /\ LET s == Mark(Accepted("stop"), NewInput, "submitted")
          IN Handled(IF Controlled(s) THEN emptied(RetireResearch(CancelControl(s)))
                     ELSE IF looking THEN Disable(RetireResearch(emptied(s)), 0, starts)
                     ELSE Disable(emptied(s), 0, starts), starts)
       /\ o' = Process(w'.client)

-----------------------------------------------------------------------------
\* Settlement.

ProbeSettlement(s) ==
    IF s.root /\ TaskActive(s) /\ ~s.open /\ ~s.disable /\ s.client # 0 /\ ~s.probing
    THEN Start([s EXCEPT !.probing = TRUE], [Op("settlement", "mode", s.turn) EXCEPT !.value = Revision(s)])
    ELSE s

-----------------------------------------------------------------------------
\* What OMP reports.

\* routeDeferredResearchToggle
DeferredToggle(s) ==
    LET k == SelectInSeq(s.queue, LAMBDA i : Kind(s, i) = "toggle")
    IN IF s.root /\ ~Controlled(s) /\ k # 0 THEN Lookup(s, "route", s.queue[k]) ELSE s

AgentStarted(s) ==
    LET a == IF s.root THEN [InvalidateSettlement(s) EXCEPT !.open = TRUE] ELSE s
    IN IF TaskActive(s) THEN DeferredToggle([a EXCEPT !.native = FALSE]) ELSE a

AgentEnded(s, ok) ==
    IF ~TaskActive(s) THEN s
    ELSE IF ~s.root THEN Finish(s, IF ok THEN "done" ELSE "uncertain")
    ELSE IF ~ok THEN RetireResearch(s)
    ELSE IF s.open THEN ProbeSettlement([s EXCEPT !.open = FALSE])
    ELSE s

\* researchLocalResult
LocalResult(s, e) ==
    LET a == [NewControl(s, "local", s.active) EXCEPT
                 !.control.request = s.turn, !.control.completed = TRUE,
                 !.control.accepted = s.accepted, !.control.phase = "acceptance"]
    IN IF ~s.root \/ e.request # s.turn THEN s
       ELSE IF ~e.ok THEN RetireResearch(s)
       ELSE IF Controlled(s) THEN s
       ELSE IF s.accepted THEN Step(a, "postmode") ELSE a

\* event, with researchControlEvent first
Dispatched(s, e) ==
    CASE s.client = 0         -> s
      [] e.type = "start"     -> AgentStarted(s)
      [] e.type = "end"       -> AgentEnded(s, e.ok)
      [] e.type = "result"    -> LocalResult(s, e)
      [] e.type = "settled"   -> ProbeSettlement(InvalidateSettlement(s))
      [] e.type = "catalog"   -> s
Completed(s) ==
    IF s.control.accepted /\ s.control.phase = "completion" THEN Step(s, "postmode") ELSE s

Taken(s, e) ==
    LET owned == Controlled(s) /\ InScope(s) /\ s.control.request # -1
        answers == owned /\ e.type = "result" /\ e.request = s.control.request
        failed == \/ Controlled(s) /\ ~InScope(s)
                  \/ owned /\ e.type = "start"
                  \/ answers /\ ~e.ok
    IN IF answers /\ ~failed THEN Completed([s EXCEPT !.control.completed = TRUE])
       ELSE IF failed /\ owned THEN ControlFailed(s)
       ELSE Dispatched(IF failed THEN ControlFailed(s) ELSE s, e)

\* An event handled after the process died could have been handled before.
EventHandled == \E starts \in BOOLEAN :
    /\ w.client # 0 /\ o.alive /\ o.events # <<>>
    /\ Handled(Taken(w, Head(o.events)), starts)
    /\ o' = [Process(w'.client) EXCEPT !.events = IF w'.client = w.client THEN Tail(@) ELSE @]

-----------------------------------------------------------------------------
\* Results of the lane.

\* researchSettlementFinished: the events of the channel come first; others may
\* still be with the reader (BufferedOutput).
Drained(s, events) ==
    LET after[k \in 0..Len(events)] ==
            IF k = 0 THEN s
            ELSE IF after[k - 1].client = s.client THEN Taken(after[k - 1], events[k]) ELSE after[k - 1]
    IN  after[Len(events)]

StillOwns(s, op) ==
    s.root /\ TaskActive(s) /\ s.client # 0 /\ s.turn = op.turn /\ ~s.open

Settled(s, read) ==
    LET seen == [s EXCEPT !.known = TRUE, !.enabled = read.mode]
    IN IF read.mode \/ ~read.quiet THEN seen
       ELSE InvalidateSettlement(Finish(seen, "done"))

\* Mutated form: what the reader still holds is not asked for.
BelievedAtOnce(s, op, buffered) ==
    IF ~StillOwns(s, op) \/ s.changed THEN s
    ELSE IF Revision(s) # op.value.revision THEN ProbeSettlement(s)
    ELSE IF ~op.ok THEN RetireResearch(s)
    ELSE Settled(s, op.value)

Believed(s, op, buffered) ==
    IF ~StillOwns(s, op) \/ s.changed THEN s
    ELSE IF buffered \/ Revision(s) # op.value.revision THEN ProbeSettlement(s)
    ELSE IF ~op.ok THEN RetireResearch(s)
    ELSE Settled(s, op.value)

SettlementFinished(s, op, events, buffered) ==
    IF ~StillOwns(s, op) \/ s.disable THEN [s EXCEPT !.probing = FALSE]
    ELSE Believed(Drained([s EXCEPT !.probing = FALSE, !.changed = FALSE], events), op, buffered)

\* The answer to the prompt of the root; a rejected one ends the task.
TaskAnswered(s, op) ==
    IF s.client = 0 \/ s.turn # op.turn \/ ~TaskActive(s) THEN s
    ELSE IF ~op.ok THEN RetireTask(CancelAll(s, ToSet(s.queue)))
    ELSE IF s.control.intent = "local"
    THEN Step([s EXCEPT !.accepted = TRUE, !.control.accepted = TRUE], "postmode")
    ELSE IF s.root THEN [s EXCEPT !.accepted = TRUE] ELSE s

ResultHandled == \E starts \in BOOLEAN, n \in 0..Len(o.events) :
    LET op == Head(w.lane)
        s  == [w EXCEPT !.lane = Tail(@)]
    IN /\ w.lane # <<>> /\ op.phase = "answered"
       /\ op.owner # "settlement" => n = 0
       /\ Handled(CASE op.owner = "control"    -> ControlFinished(s, op, starts)
                    [] op.owner = "admission"  -> AdmissionFinished(s, op)
                    [] op.owner = "settlement" ->
                         SettlementFinished(s, op, SubSeq(o.events, 1, n), n < Len(o.events))
                    [] op.owner = "task"       -> TaskAnswered(s, op)
                    [] op.owner = "nobody"     -> s, starts)
       /\ o' = [Process(w'.client) EXCEPT !.events =
                   IF w'.client = w.client THEN SubSeq(@, n + 1, Len(@)) ELSE @]

\* researchControlTick
ControlExpires == \E starts \in BOOLEAN :
    /\ w.control.phase \in {"acceptance", "completion"}
    /\ Handled(ControlFailed(w), starts)
    /\ o' = Process(w'.client)

\* failed: the process is gone and no operation on it is under way
Exited == \E starts \in BOOLEAN :
    /\ w.client # 0 /\ ~o.alive /\ w.lane = <<>>
    /\ Handled(RetireTask(IF w.root THEN w ELSE CancelAll(w, ToSet(w.queue))), starts)
    /\ o' = Process(w'.client)

IdleRelease ==
    /\ w.client # 0 /\ ~TaskActive(w) /\ ~Controlled(w) /\ w.queue = <<>>
    /\ Handled(ReleaseRuntime(w), FALSE)
    /\ o' = Process(w'.client)

-----------------------------------------------------------------------------
\* OMP.

Event(type, request, ok) == [type |-> type, request |-> request, ok |-> ok]
Writes(p, e) == [p EXCEPT !.events = Append(@, e)]
RoundBegins(p) ==
    Writes([p EXCEPT !.run = TRUE, !.pending = FALSE, !.settled = FALSE, !.rounds = @ + 1],
           Event("start", 0, TRUE))

Reached == w.lane # <<>> /\ w.client # 0 /\ Head(w.lane).phase # "answered"
Answer(value, ok) ==
    w' = [w EXCEPT !.lane[1].phase = "answered", !.lane[1].value = value, !.lane[1].ok = ok]
Now == Head(w.lane)
Reads == {"mode", "postmode"}

\* AutoresearchMode, and the checks of a control
ServeRead ==
    /\ Reached /\ o.alive /\ Now.owner \in {"control", "admission"} /\ Now.step \notin {"off"}
    /\ Answer(IF Now.step \in Reads THEN mode ELSE ~o.run /\ ~o.pending /\ o.settled, TRUE)
    /\ UNCHANGED <<mode, o>>

\* A settlement reads the mode, and, when it is off, the state after that.
ServeSettlementMode ==
    /\ Reached /\ o.alive /\ Now.owner = "settlement" /\ Now.phase = "sent"
    /\ IF mode THEN Answer([mode |-> TRUE, quiet |-> FALSE, revision |-> Now.value], TRUE)
               ELSE w' = [w EXCEPT !.lane[1].phase = "state"]
    /\ UNCHANGED <<mode, o>>

ServeSettlementState ==
    /\ Reached /\ o.alive /\ Now.phase = "state"
    /\ Answer([mode |-> FALSE, quiet |-> ~o.run /\ ~o.pending /\ o.settled, revision |-> Now.value],
              Now.value = o.revision)
    /\ UNCHANGED <<mode, o>>

MoreEvents == o.rounds + o.revision < MaxEvents

ServePrompt ==
    /\ Reached /\ o.alive /\ Now.owner = "task" /\ Now.step \in {"prompt", "goal"}
    /\ MoreEvents
    /\ mode' = (mode \/ Now.step = "goal")
    /\ o' = RoundBegins(o)
    /\ Answer(FALSE, TRUE)

\* A command that completes without an agent: a toggle, off, a refused goal.  It
\* may report success and have changed nothing.
ServeCommand ==
    /\ Reached /\ o.alive /\ Now.step \in {"goal", "toggle", "off"}
    /\ mode' \in CASE Now.step = "goal" -> {mode}
                    [] Now.step = "toggle" -> {~mode, mode}
                    [] Now.step = "off" -> {FALSE, mode}
    /\ \E ok \in BOOLEAN :
         o' = Writes(o, Event("result", IF Now.step = "off" THEN 0 ELSE Now.turn, ok))
    /\ Answer(FALSE, TRUE)

\* Timeouts, lost connections and rejected requests.
ServeFails ==
    /\ Reached
    /\ Answer([mode |-> FALSE, quiet |-> FALSE, revision |-> 0], FALSE)
    /\ UNCHANGED <<mode, o>>

\* A round ends; the extension may have switched research off, or left work
\* that starts another round.
RoundEnds == \E ok, off, more \in BOOLEAN :
    /\ o.run
    /\ o' = Writes([o EXCEPT !.run = FALSE, !.pending = more], Event("end", 0, ok))
    /\ mode' = (mode /\ ~off)
    /\ UNCHANGED w

Continues ==
    /\ o.alive /\ ~o.run /\ o.rounds > 0 /\ MoreEvents /\ (mode \/ o.pending)
    /\ o' = RoundBegins(o)
    /\ UNCHANGED <<mode, w>>

Settles ==
    /\ o.alive /\ ~o.run /\ ~o.pending /\ ~o.settled
    /\ o' = Writes([o EXCEPT !.settled = TRUE], Event("settled", 0, TRUE))
    /\ UNCHANGED <<mode, w>>

CatalogChanges ==
    /\ o.alive /\ o.revision < MaxRevisions /\ MoreEvents
    /\ o' = Writes([o EXCEPT !.revision = @ + 1], Event("catalog", 0, TRUE))
    /\ UNCHANGED <<mode, w>>

Dies ==
    /\ o.alive
    /\ o' = [Dead EXCEPT !.revision = o.revision, !.events = IF w.lane = <<>> THEN <<>> ELSE o.events]
    /\ UNCHANGED <<mode, w>>

Next ==
    \/ SendPrompt \/ RouteCommand \/ RouteOff \/ Stop
    \/ EventHandled \/ ResultHandled \/ ControlExpires \/ Exited \/ IdleRelease
    \/ ServeRead \/ ServeSettlementMode \/ ServeSettlementState \/ ServePrompt
    \/ ServeCommand \/ ServeFails
    \/ RoundEnds \/ Continues \/ Settles \/ CatalogChanges \/ Dies

Spec == Init /\ [][Next]_researchVars

-----------------------------------------------------------------------------
(* An ordinary root never runs while the session records that research is   *)
(* on: the extension would go on with rounds nobody owns.  The mode was read *)
(* some RPCs before the prompt left (dispatch, researchAdmissionReady).      *)
OrdinaryRootsRunWithoutResearch ==
    TaskActive(w) /\ ~w.root => ~mode

(* The bridge tells the user that research is off only when the session     *)
(* records it (researchOffProof, finishResearchControl); a process that is   *)
(* killed, a failed control or a late result is no proof.                    *)
ConfirmsOff ==
    \A i \in DOMAIN w.inputs :
        /\ w.inputs[i].kind \in {"off", "toggle"} /\ w.inputs[i].state = "submitted"
        /\ w'.inputs[i].state = "done" /\ w.active # i
        => ~mode
(* A research root is done only when OMP is: research is off, no round runs  *)
(* or is about to start, and no round's reply waits in the events that the   *)
(* actor has not handled (researchSettlementFinished).  A command that       *)
(* started no agent is done at its confirmed local result.                   *)
SettlesOver ==
    /\ w.root /\ w'.inputs[w.active].state = "done"
    /\ w.control.intent # "local"
    => /\ ~mode /\ (o'.alive => ~o.run /\ ~o.pending)
       /\ \A k \in DOMAIN o'.events : o'.events[k].type \notin {"start", "end"}

-----------------------------------------------------------------------------
\* The types, and what makes the two inductive: what an answer in the lane says still
\* holds when it is handled, because only a goal or a toggle can switch research on,
\* these are sent for a root alone, and behind an answer nothing else is served.

Kinds == {"prompt", "goal", "toggle", "off", "stop"}
InputType == [kind : Kinds, state : {"pending", "submitted", "done", "cancelled", "uncertain"}]
Reading == [mode : BOOLEAN, quiet : BOOLEAN, revision : Nat]
OpType == [owner : {"task", "control", "admission", "settlement", "nobody"},
           step : Kinds \cup {"none", "mode", "postmode", "identity", "idle"}, turn : Nat,
           phase : {"sent", "state", "answered"}, value : BOOLEAN \cup Nat \cup Reading, ok : BOOLEAN]
ControlType == [intent : {"none", "route", "off", "local"}, input : Nat, turn : Nat, revision : Nat,
                native : BOOLEAN,
                phase : {"none", "mode", "identity", "idle", "off", "completion", "acceptance", "postmode"},
                request : Int, accepted : BOOLEAN, completed : BOOLEAN]
ProbeType == [input : Nat, turn : Nat, revision : Nat, ready : BOOLEAN, enabled : BOOLEAN]
EventType == [type : {"start", "end", "result", "settled", "catalog"}, request : Nat, ok : BOOLEAN]
ProcessType == [alive : BOOLEAN, run : BOOLEAN, pending : BOOLEAN, settled : BOOLEAN,
                rounds : Nat, revision : Nat, events : Seq(EventType)]
ActorType == [client : Nat, launched : Nat, turn : Nat, active : Nat, native : BOOLEAN,
              root : BOOLEAN, command : BOOLEAN, accepted : BOOLEAN, open : BOOLEAN,
              known : BOOLEAN, enabled : BOOLEAN, proof : [client : Nat, revision : Nat],
              disable : BOOLEAN, paused : BOOLEAN, queue : Seq(Nat), control : ControlType,
              admission : ProbeType, probing : BOOLEAN, changed : BOOLEAN,
              lane : Seq(OpType), inputs : Seq(InputType)]

TypeOK == mode \in BOOLEAN /\ o \in ProcessType /\ w \in ActorType

\* An operation that may switch research on.
Switches(op) == op.phase # "answered" /\ op.step \in {"goal", "toggle"}
Truthful(op, m, idle) ==
    op.ok =>
        /\ op.owner \in {"control", "admission"} =>
             op.value \in BOOLEAN /\ (op.step \in Reads /\ ~op.value => ~m)
        /\ op.owner = "settlement" =>
             op.value \in Reading /\ (~op.value.mode /\ op.value.quiet => ~m /\ idle)

OpFits(s, k, m, idle) ==
    LET op == s.lane[k]
    IN  /\ op.owner \in {"admission", "settlement"} => op.step = "mode"
        /\ op.owner = "control" =>
             /\ op.step \in {"mode", "postmode", "identity", "idle", "off"}
             /\ s.control.intent # "none" /\ (op.step # "mode" => s.control.intent # "route")
        /\ op.owner = "settlement" /\ op.phase # "answered" => op.value \in Nat
        /\ op.phase = "answered" => op.owner = "nobody" \/ (k = 1 /\ Truthful(op, m, idle))
        /\ op.phase = "state" => op.owner = "settlement" /\ k = 1 /\ ~m
        /\ Switches(op) => s.root /\ \A j \in 1..k - 1 : s.lane[j].owner \in {"nobody", "task"}
LaneFits(s, m, idle) == \A k \in DOMAIN s.lane : OpFits(s, k, m, idle)

TaskFits(s, m) ==
    /\ s.root => s.active # 0 /\ s.inputs[s.active].state # "done"
    /\ s.active # 0 => s.active \in DOMAIN s.inputs
    /\ s.active # 0 /\ ~s.root => ~m
    /\ s.admission # NoProbe => s.active = 0
    /\ s.admission.ready /\ ~s.admission.enabled => ~m
    /\ s.control.intent = "off" => ~s.root
    /\ s.control.accepted => s.control.intent \notin {"none", "route"}
QueueFits(s) == \A k \in DOMAIN s.queue : s.queue[k] \in DOMAIN s.inputs

Sound(s, m, idle) == s \in ActorType /\ LaneFits(s, m, idle) /\ TaskFits(s, m) /\ QueueFits(s)
RInv == TypeOK /\ Sound(w, mode, ~o.run /\ ~o.pending)
=============================================================================
