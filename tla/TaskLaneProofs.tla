-------------------------- MODULE TaskLaneProofs ---------------------------
(***************************************************************************)
(* Every input handed to OMP has somebody who will settle it, and what the *)
(* worker reports of a task is true: done only what OMP worked off, a      *)
(* steered root only once OMP has settled, cancelled only what ran or      *)
(* waited when the user asked for it.  Proved for any inputs, queue        *)
(* capacity, clients and events.                                           *)
(*                                                                         *)
(* Held speaks of the actor alone: SubmittedIsHeld, that every steer is of *)
(* the present root, turn and client, and that steers imply the fence and  *)
(* a client.  A handler is an operator on the actor, so each has its       *)
(* lemma, that it keeps Held, and the steps cite them.  What tears a task  *)
(* down keeps only Loose on its way: the steers it is about to settle are  *)
(* no longer of the present turn.                                          *)
(*                                                                         *)
(* The actor never sees OMP, only its events and answers, which may be old *)
(* when they are handled.  The second invariant says what each of them     *)
(* still says of OMP then.  Actor is about the actor alone: who waits in   *)
(* the lane and on whose behalf, the latest steer, the fence.  Matched     *)
(* relates it to the process: which steers are where (Stages), that OMP    *)
(* has nothing to do or to say between two tasks and before it has read    *)
(* the next prompt (Calmness), what it runs (Runs), what an end, an error  *)
(* or a settled steer says (Ends, Settled).                                *)
(***************************************************************************)
EXTENDS TaskLane, TLAPS, FiniteSetTheorems

SavedStates == {"none", "queued", "submitted"} \cup Final
Phases == {"none", "out", "taken"} \cup Results
Answers == {"none", "asking", "failed", "busy", "pending", "idle", "settled"}
Values == {"", "settled", "unsettled", "error", "odd"} \cup Verdicts
Requests ==
    [kind: Kinds \ {"none"}, input: Prompts \cup {None}, active: Prompts \cup {None},
     turn: Nat, client: Nat, phase: Phases]
Operations ==
    [kind: Kinds, input: Prompts \cup {None}, active: Prompts \cup {None},
     turn: Nat, client: Nat, phase: Phases]
SteerRequests == [input: Prompts, root: Prompts, turn: Nat, client: Nat, admission: Nat]
Fences ==
    [active: BOOLEAN, settled: BOOLEAN, seen: BOOLEAN, verdict: Verdicts, admission: Nat]
Watches == [probe: Answers, confirmed: BOOLEAN]

\* The types of the actor's fields.
Actors ==
    [saved: [Prompts -> SavedStates], queue: Seq(Prompts), active: Prompts \cup {None},
     turn: Nat, awaiting: BOOLEAN, client: Nat, last: Nat, control: {"none", "abort", "status"},
     session: BOOLEAN, lane: Seq(Requests), flight: Requests \cup {NoOperation},
     exiting: Nat, steers: SUBSET SteerRequests, fence: Fences, probe: Answers,
     watch: Watches, bound: BOOLEAN, resumeFailed: BOOLEAN]

\* Every submitted input is the root or a steer, and steers have their fence.
Loose(v) ==
    /\ v \in Actors
    /\ \A i \in Prompts : v.saved[i] = "submitted" => i = v.active \/ i \in SteerInputs(v)
    /\ v.steers # {} => v.fence.active

\* Besides, the steers are of the present root, turn and client.
Held(v) ==
    /\ Loose(v)
    /\ \A s \in v.steers : CurrentSteer(v, s)
    /\ v.steers # {} => v.client # 0

Events == {e \in [type: {"start", "yield", "end", "result"}, input: Prompts \cup {None},
                  value: Values] : e.type = "end" => e.value \in Verdicts}

Processes ==
    [alive: BOOLEAN, run: {"idle", "busy", "yielded", "resumed"}, root: Prompts \cup {None},
     doing: SUBSET (Prompts \cup {None}), todo: SUBSET (Prompts \cup {None}),
     more: BOOLEAN, late: BOOLEAN, events: Seq(Events)]

\* The types of the OMP process: what it works on is finite, so the reports at the
\* end of a run are a sequence.
Process(p) == p \in Processes /\ IsFiniteSet(p.doing)

IInv == Held(w) /\ Process(o)

-----------------------------------------------------------------------------
\* Pieces of handlers.

\* A change of other fields keeps either condition.
Same(u, v) ==
    /\ u \in Actors
    /\ u.saved = v.saved /\ u.active = v.active /\ u.steers = v.steers
    /\ u.turn = v.turn /\ u.client = v.client /\ u.fence.active = v.fence.active

LEMMA SameKeeps ==
    ASSUME NEW u, NEW v, Same(u, v)
    PROVE  (Held(v) => Held(u)) /\ (Loose(v) => Loose(u))
  BY DEF Same, Held, Loose, CurrentSteer, SteerInputs

\* What is held is loosely held.
LEMMA HeldIsLoose == ASSUME NEW v, Held(v) PROVE Loose(v)
  BY DEF Held

\* Loosely held without steers is held.
LEMMA LooseIsHeld == ASSUME NEW v, Loose(v), v.steers = {} PROVE Held(v)
  BY DEF Held

LEMMA FinishTaskHeld ==
    ASSUME NEW v, Held(v), v.steers = {}, NEW state \in Final
    PROVE  LET x == FinishTask(v, state)
           IN  Held(x) /\ x.steers = {} /\ x.fence = v.fence /\ x.client = v.client
  <1> DEFINE x == FinishTask(v, state)
  <1>1. v \in Actors /\ Loose(v)
    BY DEF Held, Loose
  <1>2. NoWatch \in Watches /\ state \in SavedStates /\ state # "submitted"
    BY DEF NoWatch, Watches, Answers, Final, SavedStates
  <1>3. CASE v.active = None
    BY <1>3 DEF FinishTask
  <1>4. CASE v.active # None
    <2>1. v.active \in Prompts
      BY <1>1, <1>4 DEF Actors
    <2>2. x = [v EXCEPT !.saved[v.active] = state, !.active = None, !.awaiting = FALSE,
                        !.watch = NoWatch]
      BY <1>4 DEF FinishTask
    <2>3. /\ x.saved = [v.saved EXCEPT ![v.active] = state] /\ x.active = None
          /\ x.steers = v.steers /\ x.fence = v.fence /\ x.client = v.client
      BY <1>1, <2>2 DEF Actors
    <2>4. x.saved \in [Prompts -> SavedStates]
      BY <1>1, <1>2, <2>1, <2>3 DEF Actors
    <2>5. x \in Actors
      BY <1>1, <1>2, <2>2, <2>3, <2>4 DEF Actors
    <2>6. ASSUME NEW i \in Prompts, x.saved[i] = "submitted" PROVE FALSE
      <3>1. i # v.active /\ v.saved[i] = "submitted"
        BY <1>1, <1>2, <2>1, <2>3, <2>6 DEF Actors
      <3> QED
        BY <1>1, <3>1 DEF Loose, SteerInputs
    <2> QED
      BY <2>3, <2>5, <2>6 DEF Held, Loose
  <1> QED
    BY <1>3, <1>4

LEMMA ClearQueueKeeps ==
    ASSUME NEW v, v \in Actors
    PROVE  LET x == ClearQueue(v)
           IN  /\ Held(v) => Held(x)
               /\ Loose(v) => Loose(x)
               /\ x.client = v.client /\ x.active = v.active /\ x.steers = v.steers
               /\ x.fence = v.fence /\ x.turn = v.turn
  <1> DEFINE x == ClearQueue(v)
  <1>1. /\ x.saved = [i \in Prompts |-> IF \E k \in DOMAIN v.queue : v.queue[k] = i
                                          THEN "cancelled" ELSE v.saved[i]]
        /\ x.active = v.active /\ x.steers = v.steers /\ x.turn = v.turn
        /\ x.client = v.client /\ x.fence = v.fence
    BY DEF ClearQueue, Actors
  <1>2. x.saved \in [Prompts -> SavedStates]
    BY <1>1 DEF Actors, SavedStates, Final
  <1>3. <<>> \in Seq(Prompts)
    OBVIOUS
  <1>4. x \in Actors
    BY <1>1, <1>2, <1>3 DEF ClearQueue, Actors
  <1>5. \A i \in Prompts : x.saved[i] = "submitted" => v.saved[i] = "submitted"
    BY <1>1
  <1> QED
    BY <1>1, <1>4, <1>5 DEF Held, Loose, CurrentSteer, SteerInputs

LEMMA SettleSteersHeld ==
    ASSUME NEW v, Loose(v)
    PROVE  LET x == SettleSteers(v)
           IN  Held(x) /\ x.steers = {} /\ x.fence = v.fence /\ x.client = v.client
                 /\ x.active = v.active
  <1> DEFINE x == SettleSteers(v)
  <1>0. v \in Actors
    BY DEF Loose
  <1>1. /\ x.saved = [i \in Prompts |-> IF i \in SteerInputs(v) THEN "uncertain" ELSE v.saved[i]]
        /\ x.active = v.active /\ x.steers = {} /\ x.turn = v.turn
        /\ x.client = v.client /\ x.fence = v.fence
    BY <1>0 DEF SettleSteers, Actors
  <1>2. x.saved \in [Prompts -> SavedStates]
    BY <1>0, <1>1 DEF Actors, SavedStates, Final
  <1>3. x \in Actors
    BY <1>0, <1>1, <1>2 DEF SettleSteers, Actors
  <1>4. \A i \in Prompts : x.saved[i] = "submitted" => v.saved[i] = "submitted" /\ i \notin SteerInputs(v)
    BY <1>1
  <1> QED
    BY <1>1, <1>3, <1>4 DEF Held, Loose

LEMMA ReleaseHeld ==
    ASSUME NEW v, Loose(v)
    PROVE  LET x == Release(v)
           IN  Held(x) /\ x.steers = {} /\ x.fence = v.fence /\ x.client = 0
                 /\ x.active = v.active
  <1> DEFINE u == [v EXCEPT !.client = 0, !.lane = <<>>, !.awaiting = FALSE,
                            !.watch = NoWatch, !.probe = "none"]
  <1>1. v \in Actors
    BY DEF Loose
  <1>2. NoWatch \in Watches /\ <<>> \in Seq(Requests)
    BY DEF NoWatch, Watches, Answers
  <1>3. /\ u \in Actors /\ u.saved = v.saved /\ u.active = v.active /\ u.steers = v.steers
        /\ u.fence = v.fence /\ u.client = 0
    BY <1>1, <1>2 DEF Actors, Answers
  <1>4. Loose(u)
    BY <1>3 DEF Loose, SteerInputs
  <1>5. Release(v) = IF v.fence.active THEN SettleSteers(u) ELSE u
    BY DEF Release
  <1>6. CASE v.fence.active
    BY <1>3, <1>4, <1>5, <1>6, SettleSteersHeld
  <1>7. CASE ~v.fence.active
    <2>1. u.steers = {}
      BY <1>3, <1>7 DEF Loose
    <2> QED
      BY <1>3, <1>4, <1>5, <1>7, <2>1, LooseIsHeld
  <1> QED
    BY <1>6, <1>7

\* Without steers the fence may go.
LEMMA FenceGoes ==
    ASSUME NEW v, Held(v), v.steers = {}
    PROVE  LET x == [v EXCEPT !.fence = NoFence]
           IN  Held(x) /\ x.steers = {} /\ x.client = v.client
  <1> DEFINE x == [v EXCEPT !.fence = NoFence]
  <1>1. v \in Actors /\ Loose(v)
    BY DEF Held, Loose
  <1>2. NoFence \in Fences
    BY DEF NoFence, Fences, Verdicts
  <1>3. /\ x \in Actors /\ x.saved = v.saved /\ x.active = v.active /\ x.steers = {}
        /\ x.client = v.client
    BY <1>1, <1>2 DEF Actors
  <1> QED
    BY <1>1, <1>3 DEF Held, Loose, SteerInputs

LEMMA RetireHeld == ASSUME NEW v, Loose(v) PROVE Held(RetireTaskRuntime(v))
  <1> DEFINE r == Release(v)
             c == [r EXCEPT !.control = "none", !.session = FALSE]
             u == SettleSteers(c)
             x == FinishTask(u, "uncertain")
  <1>1. Held(r)
    BY ReleaseHeld
  <1>2. Same(c, r)
    BY <1>1 DEF Same, Held, Loose, Actors
  <1>3. Loose(c)
    BY <1>1, <1>2, SameKeeps, HeldIsLoose
  <1>4. Held(u) /\ u.steers = {}
    BY <1>3, SettleSteersHeld
  <1>5. "uncertain" \in Final
    BY DEF Final
  <1>6. Held(x) /\ x.steers = {}
    BY <1>4, <1>5, FinishTaskHeld
  <1>7. RetireTaskRuntime(v) = [x EXCEPT !.fence = NoFence]
    BY DEF RetireTaskRuntime
  <1> QED
    BY <1>6, <1>7, FenceGoes

LEMMA TeardownHeld == ASSUME NEW v, Held(v) PROVE Held(Teardown(v))
  <1> DEFINE q == ClearQueue(v)
             u == [q EXCEPT !.turn = @ + 1, !.session = FALSE, !.control = "none"]
             r == Release(u)
             x == FinishTask(r, "uncertain")
  <1>1. Loose(q)
    BY ClearQueueKeeps DEF Held, Loose
  <1>2. /\ u \in Actors /\ u.saved = q.saved /\ u.active = q.active /\ u.steers = q.steers
        /\ u.fence = q.fence
    <2>1. q \in Actors
      BY <1>1 DEF Loose
    <2>2. q.turn + 1 \in Nat
      BY <2>1 DEF Actors
    <2> HIDE DEF q
    <2> QED
      BY <2>1, <2>2 DEF Actors
  <1>3. Loose(u)
    BY <1>1, <1>2 DEF Loose, SteerInputs
  <1>4. Held(r) /\ r.steers = {}
    BY <1>3, ReleaseHeld
  <1>5. "uncertain" \in Final
    BY DEF Final
  <1>6. Held(x) /\ x.steers = {}
    BY <1>4, <1>5, FinishTaskHeld
  <1>7. Teardown(v) = [x EXCEPT !.fence = NoFence]
    BY DEF Teardown
  <1> QED
    BY <1>6, <1>7, FenceGoes

-----------------------------------------------------------------------------
\* The lane.

\* The next operation leaves: only the lane changes.
LEMMA DispatchKeeps ==
    ASSUME NEW v, v \in Actors
    PROVE  Same(DispatchOperation(v), v)
  <1> DEFINE u == [v EXCEPT !.flight = [Head(v.lane) EXCEPT !.phase = "out"], !.lane = Tail(@)]
  <1>1. CASE v.lane = <<>>
    BY <1>1 DEF DispatchOperation, Same
  <1>2. CASE v.lane # <<>>
    <2>1. v.lane \in Seq(Requests)
      BY DEF Actors
    <2>2. Head(v.lane) \in Requests /\ Tail(v.lane) \in Seq(Requests)
      BY <1>2, <2>1
    <2>3. "out" \in Phases
      BY DEF Phases
    <2>4. [Head(v.lane) EXCEPT !.phase = "out"] \in Requests
      BY <2>2, <2>3 DEF Requests
    <2>5. Same(u, v)
      BY <2>2, <2>4 DEF Same, Actors
    <2> QED
      BY <2>5 DEF DispatchOperation, Same
  <1> QED
    BY <1>1, <1>2

\* So does a new operation.
LEMMA StartKeeps ==
    ASSUME NEW v, v \in Actors, NEW kind \in Kinds \ {"none"},
           NEW input \in Prompts \cup {None}, NEW active \in Prompts \cup {None}
    PROVE  Same(StartOperation(v, kind, input, active), v)
  <1> DEFINE request == [NoOperation EXCEPT !.kind = kind, !.input = input, !.active = active,
                                            !.turn = v.turn, !.client = v.client]
             u == [v EXCEPT !.lane = Append(@, request), !.watch = NoWatch]
  <1>1. v.turn \in Nat /\ v.client \in Nat /\ v.lane \in Seq(Requests)
    BY DEF Actors
  <1>2. NoOperation \in Operations
    BY DEF NoOperation, Operations, Kinds, Phases
  <1>3. request \in Operations /\ request.kind = kind
    BY <1>1, <1>2 DEF Operations
  <1>4. request \in Requests
    BY <1>3 DEF Operations, Requests
  <1>5. Append(v.lane, request) \in Seq(Requests)
    BY <1>1, <1>4
  <1>6. NoWatch \in Watches
    BY DEF NoWatch, Watches, Answers
  <1>7. Same(u, v)
    BY <1>5, <1>6 DEF Same, Actors
  <1>8. Same(DispatchOperation(u), u)
    BY <1>7, DispatchKeeps DEF Same
  <1>9. StartOperation(v, kind, input, active) = DispatchOperation(u)
    BY DEF StartOperation
  <1> QED
    BY <1>7, <1>8, <1>9 DEF Same

\* A started runtime: there were no steers without one.
LEMMA ConnectedHeld ==
    ASSUME NEW v, Held(v)
    PROVE  LET x == Connected(v)
           IN  Held(x) /\ x.steers = v.steers /\ x.active = v.active /\ x.saved = v.saved
                 /\ x.queue = v.queue /\ x.fence = v.fence
  <1> DEFINE x == [v EXCEPT !.client = v.last + 1, !.last = @ + 1, !.resumeFailed = FALSE]
  <1>1. v \in Actors /\ Loose(v)
    BY DEF Held, Loose
  <1>2. CASE v.client # 0
    BY <1>2 DEF Connected
  <1>3. CASE v.client = 0
    <2>1. v.steers = {}
      BY <1>3 DEF Held
    <2>2. v.last + 1 \in Nat
      BY <1>1 DEF Actors
    <2>3. /\ x \in Actors /\ x.saved = v.saved /\ x.active = v.active /\ x.steers = v.steers
          /\ x.fence = v.fence /\ x.queue = v.queue
      BY <1>1, <2>2 DEF Actors
    <2>4. Held(x)
      BY <1>1, <2>1, <2>3 DEF Held, Loose, SteerInputs
    <2> QED
      BY <1>3, <2>3, <2>4 DEF Connected
  <1> QED
    BY <1>2, <1>3

\* The head of the queue becomes the root.
LEMMA BeginTaskHeld ==
    ASSUME NEW v, Held(v), v.steers = {}, v.active = None, v.queue # <<>>
    PROVE  Held(BeginTask(v))
  <1> DEFINE i == Head(v.queue)
             u == [v EXCEPT !.queue = Tail(@), !.saved[i] = "submitted", !.active = i,
                            !.turn = @ + 1, !.awaiting = FALSE, !.watch = NoWatch]
  <1>1. v \in Actors /\ Loose(v)
    BY DEF Held, Loose
  <1>2. v.queue \in Seq(Prompts) /\ v.turn \in Nat /\ v.saved \in [Prompts -> SavedStates]
    BY <1>1 DEF Actors
  <1>3. i \in Prompts /\ Tail(v.queue) \in Seq(Prompts) /\ v.turn + 1 \in Nat
    BY <1>2
  <1>4. NoWatch \in Watches /\ "submitted" \in SavedStates
    BY DEF NoWatch, Watches, Answers, SavedStates
  <1> HIDE DEF i
  <1>5. [v.saved EXCEPT ![i] = "submitted"] \in [Prompts -> SavedStates]
    BY <1>2, <1>3, <1>4
  <1>6. u \in Actors
    BY <1>1, <1>3, <1>4, <1>5 DEF Actors
  <1>7. /\ u.saved = [v.saved EXCEPT ![i] = "submitted"] /\ u.active = i
        /\ u.steers = {}
    BY <1>1 DEF Actors
  <1>8. \A j \in Prompts : v.saved[j] # "submitted"
    BY <1>1, PromptAssumption DEF Loose, SteerInputs
  <1>9. Held(u)
    BY <1>2, <1>6, <1>7, <1>8 DEF Held, Loose
  <1>10. i \in Prompts \cup {None} /\ "prompt" \in Kinds \ {"none"}
    BY <1>3 DEF Kinds
  <1>11. Same(StartOperation(u, "prompt", i, i), u)
    BY <1>6, <1>10, StartKeeps
  <1>12. BeginTask(v) = StartOperation(u, "prompt", i, i)
    BY DEF BeginTask, i
  <1> QED
    BY <1>9, <1>11, <1>12, SameKeeps

LEMMA DispatchedHeld ==
    ASSUME NEW v, Held(v), NEW x \in Dispatched(v)
    PROVE  Held(x)
  <1>1. v \in Actors
    BY DEF Held, Loose
  <1>2. CASE x = v
    BY <1>2
  <1>3. CASE x = [v EXCEPT !.resumeFailed = TRUE]
    <2>1. Same(x, v)
      BY <1>1, <1>3 DEF Same, Actors
    <2> QED
      BY <2>1, SameKeeps
  <1>4. CASE Dispatchable(v) /\ x = BeginTask(Connected(v))
    <2>1. v.active = None /\ v.queue # <<>> /\ ~v.fence.active
      BY <1>4 DEF Dispatchable
    <2>2. v.steers = {}
      BY <2>1 DEF Held, Loose
    <2>3. /\ Held(Connected(v)) /\ Connected(v).steers = {}
          /\ Connected(v).active = None /\ Connected(v).queue # <<>>
      BY <2>1, <2>2, ConnectedHeld
    <2> QED
      BY <1>4, <2>3, BeginTaskHeld
  <1> QED
    BY <1>2, <1>3, <1>4 DEF Dispatched

-----------------------------------------------------------------------------
\* Handlers: steers.

\* A probe changes nothing else.
LEMMA SteerProbeKeeps == ASSUME NEW v, v \in Actors PROVE Same(StartSteerProbe(v), v)
  <1>1. Same([v EXCEPT !.probe = "asking"], v)
    BY DEF Same, Actors, Answers
  <1> QED
    BY <1>1 DEF StartSteerProbe, Same

\* What OMP says of a run is final.
LEMMA VerdictIsFinal == ASSUME NEW verdict \in Verdicts PROVE RootVerdict(verdict) \in Final
  BY DEF Verdicts, RootVerdict, Final

LEMMA MaybeFinishHeld == ASSUME NEW v, Held(v) PROVE Held(MaybeFinishSteeredRoot(v))
  <1>1. v \in Actors
    BY DEF Held, Loose
  <1>2. CASE ~v.fence.active \/ v.steers # {} \/ ~v.fence.seen
    BY <1>2 DEF MaybeFinishSteeredRoot
  <1>3. CASE v.steers = {} /\ v.fence.active /\ v.fence.seen /\ ~v.fence.settled
    <2>1. Held(StartSteerProbe(v))
      BY <1>1, SteerProbeKeeps, SameKeeps
    <2> QED
      BY <1>3, <2>1 DEF MaybeFinishSteeredRoot
  <1>4. CASE v.steers = {} /\ v.fence.active /\ v.fence.seen /\ v.fence.settled
    <2> DEFINE state == RootVerdict(v.fence.verdict)
               x == FinishTask(v, state)
               y == [x EXCEPT !.fence = NoFence]
               z == [x EXCEPT !.fence = NoFence, !.probe = "none"]
    <2>1. v.fence.verdict \in Verdicts
      BY <1>1 DEF Actors, Fences
    <2>2. state \in Final
      BY <2>1, VerdictIsFinal
    <2> HIDE DEF state
    <2>3. Held(x) /\ x.steers = {}
      BY <1>4, <2>2, FinishTaskHeld
    <2> HIDE DEF x
    <2>4. Held(y)
      BY <2>3, FenceGoes
    <2>5. x \in Actors /\ NoFence \in Fences
      BY <2>3 DEF Held, Loose, NoFence, Fences, Verdicts
    <2>6. Same(z, y)
      BY <2>5 DEF Same, Actors, Answers
    <2>7. Held(z)
      BY <2>4, <2>6, SameKeeps
    <2> QED
      BY <1>4, <2>7 DEF MaybeFinishSteeredRoot, x, state
  <1> QED
    BY <1>2, <1>3, <1>4

\* A steer is registered with the present root, turn and client.
LEMMA SteerHeld ==
    ASSUME NEW v, Held(v), NEW i \in Prompts, v.active # None, v.client # 0
    PROVE  Held(Steer(v, i))
  <1> DEFINE admission == v.fence.admission + 1
             request == [input |-> i, root |-> v.active, turn |-> v.turn, client |-> v.client,
                         admission |-> admission]
             fence == [v.fence EXCEPT !.active = TRUE, !.settled = FALSE, !.admission = admission]
             u == [v EXCEPT !.saved[i] = "submitted",
                            !.fence = [@ EXCEPT !.active = TRUE, !.settled = FALSE,
                                                !.admission = admission],
                            !.probe = "none",
                            !.steers = @ \cup {request}]
  <1>1. v \in Actors /\ Loose(v)
    BY DEF Held, Loose
  <1>2. /\ v.active \in Prompts /\ v.turn \in Nat /\ v.client \in Nat
        /\ v.fence \in Fences /\ v.saved \in [Prompts -> SavedStates]
        /\ v.steers \in SUBSET SteerRequests
    BY <1>1 DEF Actors
  <1>3. admission \in Nat
    BY <1>2 DEF Fences
  <1> HIDE DEF admission
  <1>4. request \in SteerRequests
    BY <1>2, <1>3 DEF SteerRequests
  <1>5. fence \in Fences /\ fence.active
    BY <1>2, <1>3 DEF Fences
  <1>6. CurrentSteer(v, request) /\ request.input = i
    BY DEF CurrentSteer
  <1> HIDE DEF request, fence
  <1>7. "submitted" \in SavedStates /\ "none" \in Answers
    BY DEF SavedStates, Answers
  <1>8. [v.saved EXCEPT ![i] = "submitted"] \in [Prompts -> SavedStates]
    BY <1>2, <1>7
  <1>9. u = [v EXCEPT !.saved = [v.saved EXCEPT ![i] = "submitted"], !.fence = fence,
                      !.probe = "none", !.steers = v.steers \cup {request}]
    BY DEF fence
  <1>10. v.steers \cup {request} \in SUBSET SteerRequests
    BY <1>2, <1>4
  <1>11. u \in Actors
    BY <1>1, <1>5, <1>7, <1>8, <1>9, <1>10 DEF Actors
  <1>12. /\ u.saved = [v.saved EXCEPT ![i] = "submitted"] /\ u.active = v.active
         /\ u.steers = v.steers \cup {request} /\ u.fence = fence
         /\ u.turn = v.turn /\ u.client = v.client
    BY <1>1, <1>9 DEF Actors
  <1> HIDE DEF u
  <1>13. Loose(u)
    <2>1. ASSUME NEW j \in Prompts, u.saved[j] = "submitted"
          PROVE  j = u.active \/ j \in SteerInputs(u)
      <3>1. CASE j = i
        BY <1>6, <1>12, <3>1 DEF SteerInputs
      <3>2. CASE j # i
        <4>1. v.saved[j] = "submitted"
          BY <1>2, <1>12, <2>1, <3>2
        <4> QED
          BY <1>1, <1>12, <4>1 DEF Loose, SteerInputs
      <3> QED
        BY <3>1, <3>2
    <2> QED
      BY <1>5, <1>11, <1>12, <2>1 DEF Loose
  <1>14. Held(u)
    <2>1. \A s \in v.steers : CurrentSteer(v, s)
      BY DEF Held
    <2> QED
      BY <1>6, <1>12, <1>13, <2>1 DEF Held, CurrentSteer
  <1>15. "steer" \in Kinds \ {"none"} /\ i \in Prompts \cup {None} /\ v.active \in Prompts \cup {None}
    BY <1>2 DEF Kinds
  <1>16. Same(StartOperation(u, "steer", i, v.active), u)
    BY <1>11, <1>15, StartKeeps
  <1>17. Steer(v, i) = StartOperation(u, "steer", i, v.active)
    BY DEF Steer, u, request, admission
  <1> QED
    BY <1>14, <1>16, <1>17, SameKeeps

LEMMA FinishSteerHeld ==
    ASSUME NEW v, Held(v), NEW s \in v.steers, NEW state \in Final
    PROVE  Held(FinishSteer(v, s, state))
  <1> DEFINE x == FinishSteer(v, s, state)
  <1>1. v \in Actors /\ Loose(v)
    BY DEF Held, Loose
  <1>2. v.saved \in [Prompts -> SavedStates] /\ v.steers \in SUBSET SteerRequests
    BY <1>1 DEF Actors
  <1>3. s.input \in Prompts /\ state \in SavedStates /\ state # "submitted"
    BY <1>2 DEF SteerRequests, SavedStates, Final
  <1>4. [v.saved EXCEPT ![s.input] = state] \in [Prompts -> SavedStates]
    BY <1>2, <1>3
  <1>5. x = [v EXCEPT !.saved = [v.saved EXCEPT ![s.input] = state], !.steers = v.steers \ {s}]
    BY DEF FinishSteer
  <1>6. x \in Actors
    BY <1>1, <1>2, <1>4, <1>5 DEF Actors
  <1>7. /\ x.saved = [v.saved EXCEPT ![s.input] = state] /\ x.active = v.active
        /\ x.steers = v.steers \ {s} /\ x.fence = v.fence /\ x.turn = v.turn
        /\ x.client = v.client
    BY <1>1, <1>5 DEF Actors
  <1> HIDE DEF x
  <1>8. ASSUME NEW j \in Prompts, x.saved[j] = "submitted"
        PROVE  j = x.active \/ j \in SteerInputs(x)
    <2>1. j # s.input /\ v.saved[j] = "submitted"
      BY <1>2, <1>3, <1>7, <1>8
    <2> QED
      BY <1>1, <1>7, <2>1 DEF Loose, SteerInputs
  <1>9. Loose(x)
    BY <1>1, <1>6, <1>7, <1>8 DEF Loose
  <1>10. Held(x)
    BY <1>7, <1>9 DEF Held, CurrentSteer
  <1> QED
    BY <1>10 DEF x

\* Whether OMP is settled matters to no steer.
LEMMA SettledKeeps ==
    ASSUME NEW v, v \in Actors, NEW b \in BOOLEAN
    PROVE  Same([v EXCEPT !.fence.settled = b], v)
  <1>1. [v.fence EXCEPT !.settled = b] \in Fences /\ v.fence \in Fences
    BY DEF Actors, Fences
  <1>2. [v.fence EXCEPT !.settled = b].active = v.fence.active
    BY <1>1 DEF Fences
  <1> DEFINE f == [v.fence EXCEPT !.settled = b]
             x == [v EXCEPT !.fence = f]
  <1> HIDE DEF f
  <1>3. Same(x, v)
    BY <1>1, <1>2 DEF Same, Actors, f
  <1> QED
    BY <1>3 DEF x, f

LEMMA SteerReturnedHeld ==
    ASSUME NEW v, Held(v), NEW op, NEW result
    PROVE  Held(SteerReturned(v, op, result))
  <1> DEFINE mine == {s \in v.steers : s.input = op.input /\ CurrentSteer(v, s)}
             s == CHOOSE s \in mine : TRUE
  <1>1. CASE mine = {} \/ result = "ok"
    BY <1>1 DEF SteerReturned
  <1>2. CASE mine # {} /\ result # "ok"
    <2>1. s \in v.steers
      BY <1>2
    <2>2. "failed" \in Final /\ "uncertain" \in Final
      BY DEF Final
    <2>3. Held(FinishSteer(v, s, "failed")) /\ Held(FinishSteer(v, s, "uncertain"))
      BY <2>1, <2>2, FinishSteerHeld
    <2>4. /\ Held(MaybeFinishSteeredRoot(FinishSteer(v, s, "failed")))
          /\ Held(RetireTaskRuntime(FinishSteer(v, s, "uncertain")))
      BY <2>3, MaybeFinishHeld, RetireHeld, HeldIsLoose
    <2> QED
      BY <1>2, <2>4 DEF SteerReturned
  <1> QED
    BY <1>1, <1>2

LEMMA SteerResultHeld ==
    ASSUME NEW v, Held(v), NEW e \in Events
    PROVE  Held(SteerResult(v, e))
  <1> DEFINE mine == {s \in v.steers : s.input = e.input /\ CurrentSteer(v, s)}
             s == CHOOSE s \in mine : TRUE
             state == CASE e.value \in {"settled", "unsettled"} -> "done"
                        [] e.value = "error" -> "failed"
                        [] OTHER -> "uncertain"
             u == FinishSteer(v, s, state)
             x == IF s.admission = v.fence.admission \/ e.value = "unsettled"
                    THEN [u EXCEPT !.fence.settled = (e.value = "settled")]
                    ELSE u
  <1>1. CASE mine = {}
    BY <1>1 DEF SteerResult
  <1>2. CASE mine # {}
    <2>1. s \in v.steers
      BY <1>2
    <2>2. state \in Final
      BY DEF Final
    <2> HIDE DEF state, s
    <2>3. Held(u)
      BY <2>1, <2>2, FinishSteerHeld
    <2> HIDE DEF u
    <2>4. u \in Actors /\ (e.value = "settled") \in BOOLEAN
      BY <2>3 DEF Held, Loose
    <2>5. Same([u EXCEPT !.fence.settled = (e.value = "settled")], u)
      BY <2>4, SettledKeeps
    <2>6. Held([u EXCEPT !.fence.settled = (e.value = "settled")])
      BY <2>3, <2>5, SameKeeps
    <2>7. Held(x)
      BY <2>3, <2>6
    <2> HIDE DEF x
    <2>8. Held(RetireTaskRuntime(x)) /\ Held(MaybeFinishSteeredRoot(x))
      BY <2>7, MaybeFinishHeld, RetireHeld, HeldIsLoose
    <2>9. SteerResult(v, e) = IF state = "uncertain" THEN RetireTaskRuntime(x)
                              ELSE MaybeFinishSteeredRoot(x)
      BY <1>2 DEF SteerResult, x, u, s, state
    <2> QED
      BY <2>8, <2>9
  <1> QED
    BY <1>1, <1>2

LEMMA SteerProbedHeld == ASSUME NEW v, Held(v) PROVE Held(SteerProbed(v))
  <1> DEFINE u == [v EXCEPT !.probe = "none"]
  <1>1. v \in Actors
    BY DEF Held, Loose
  <1>2. Same(u, v)
    BY <1>1 DEF Same, Actors, Answers
  <1>3. Held(u) /\ u \in Actors
    BY <1>2, SameKeeps DEF Same
  <1> HIDE DEF u
  <1>4. Held([u EXCEPT !.fence.settled = TRUE])
    BY <1>3, SettledKeeps, SameKeeps
  <1>5. Held(RetireTaskRuntime(u)) /\ Held(MaybeFinishSteeredRoot([u EXCEPT !.fence.settled = TRUE]))
    BY <1>3, <1>4, RetireHeld, MaybeFinishHeld, HeldIsLoose
  <1> QED
    BY <1>3, <1>5 DEF SteerProbed, u

-----------------------------------------------------------------------------
\* Handlers: events, and the exit.

LEMMA HandleEventHeld ==
    ASSUME NEW v, Held(v), NEW e \in Events
    PROVE  Held(HandleEvent(v, e))
  <1> DEFINE u == [v EXCEPT !.watch = NoWatch]
  <1>1. v \in Actors /\ NoWatch \in Watches
    BY DEF Held, Loose, NoWatch, Watches, Answers
  <1>2. Same(u, v)
    BY <1>1 DEF Same, Actors
  <1>3. Held(u) /\ u \in Actors
    BY <1>2, SameKeeps DEF Same
  <1>4. HandleEvent(v, e) =
          CASE e.type = "start" -> [NewSteeredRun(u) EXCEPT !.awaiting = FALSE]
            [] e.type = "yield" -> [u EXCEPT !.awaiting = TRUE]
            [] e.type = "end" /\ u.fence.active ->
                  MaybeFinishSteeredRoot(
                      [u EXCEPT !.awaiting = FALSE, !.fence.seen = TRUE, !.fence.verdict = e.value])
            [] e.type = "end" /\ ~u.fence.active ->
                  FinishTask([u EXCEPT !.awaiting = FALSE], RootVerdict(e.value))
            [] e.type = "result" -> SteerResult(u, e)
    BY DEF HandleEvent
  <1> HIDE DEF u
  <1>5. u.fence \in Fences
    BY <1>3 DEF Actors
  <1>6. CASE e.type = "start"
    <2> DEFINE f == [u.fence EXCEPT !.settled = FALSE, !.seen = FALSE]
               n == [u EXCEPT !.fence = f, !.probe = "none"]
    <2>1. f \in Fences /\ f.active = u.fence.active
      BY <1>5 DEF Fences
    <2> HIDE DEF f
    <2>2. Same(n, u)
      BY <1>3, <2>1 DEF Same, Actors, Answers
    <2>3. NewSteeredRun(u) = IF u.fence.active THEN n ELSE u
      BY DEF NewSteeredRun, f
    <2>4. Held(NewSteeredRun(u)) /\ NewSteeredRun(u) \in Actors
      BY <1>3, <2>2, <2>3, SameKeeps DEF Same
    <2>5. Same([NewSteeredRun(u) EXCEPT !.awaiting = FALSE], NewSteeredRun(u))
      BY <2>4 DEF Same, Actors
    <2> QED
      BY <1>4, <1>6, <2>4, <2>5, SameKeeps
  <1>7. CASE e.type = "yield"
    <2>1. Same([u EXCEPT !.awaiting = TRUE], u)
      BY <1>3 DEF Same, Actors
    <2> QED
      BY <1>3, <1>4, <1>7, <2>1, SameKeeps
  <1>8. CASE e.type = "end" /\ u.fence.active
    <2> DEFINE f == [u.fence EXCEPT !.seen = TRUE, !.verdict = e.value]
               n == [u EXCEPT !.awaiting = FALSE, !.fence = f]
    <2>1. e.value \in Verdicts
      BY <1>8 DEF Events
    <2>2. f \in Fences /\ f.active = u.fence.active
      BY <1>5, <2>1 DEF Fences
    <2>3. n = [u EXCEPT !.awaiting = FALSE, !.fence.seen = TRUE, !.fence.verdict = e.value]
      BY <1>3 DEF Actors
    <2> HIDE DEF f
    <2>4. Same(n, u)
      BY <1>3, <2>2 DEF Same, Actors
    <2>5. Held(MaybeFinishSteeredRoot(n))
      BY <1>3, <2>4, SameKeeps, MaybeFinishHeld
    <2> HIDE DEF n
    <2> QED
      BY <1>4, <1>8, <2>3, <2>5
  <1>9. CASE e.type = "end" /\ ~u.fence.active
    <2> DEFINE n == [u EXCEPT !.awaiting = FALSE]
    <2>1. e.value \in Verdicts
      BY <1>9 DEF Events
    <2>2. Same(n, u)
      BY <1>3 DEF Same, Actors
    <2>3. Held(n) /\ n.steers = {}
      BY <1>3, <1>9, <2>2, SameKeeps DEF Same, Held, Loose
    <2>4. RootVerdict(e.value) \in Final
      BY <2>1, VerdictIsFinal
    <2>5. Held(FinishTask(n, RootVerdict(e.value)))
      BY <2>3, <2>4, FinishTaskHeld
    <2> QED
      BY <1>4, <1>9, <2>5
  <1>10. CASE e.type = "result"
    <2>1. Held(SteerResult(u, e))
      BY <1>3, SteerResultHeld
    <2> QED
      BY <1>4, <1>10, <2>1
  <1> QED
    BY <1>6, <1>7, <1>8, <1>9, <1>10 DEF Events

LEMMA FailedHeld == ASSUME NEW v, Held(v) PROVE Held(Failed(v))
  <1>1. v \in Actors
    BY DEF Held, Loose
  <1>2. v.client \in Nat
    BY <1>1 DEF Actors
  <1>3. Same([v EXCEPT !.exiting = v.client], v)
    BY <1>1, <1>2 DEF Same, Actors
  <1> DEFINE u == [v EXCEPT !.exiting = 0]
  <1>4. Same(u, v)
    BY <1>1 DEF Same, Actors
  <1>5. Held(u) /\ u \in Actors /\ Held([v EXCEPT !.exiting = v.client])
    BY <1>3, <1>4, SameKeeps DEF Same
  <1> HIDE DEF u
  <1>6. Loose(u) /\ Loose(ClearQueue(u))
    BY <1>5, ClearQueueKeeps, HeldIsLoose
  <1>7. Held(RetireTaskRuntime(u)) /\ Held(RetireTaskRuntime(ClearQueue(u)))
    BY <1>6, RetireHeld
  <1> QED
    BY <1>5, <1>7 DEF Failed, u

-----------------------------------------------------------------------------
\* Handlers: results of operations, and the watchdog.

\* Whether a control is begun or OMP answered the last matters to no input.
LEMMA ControlKeeps ==
    ASSUME NEW v, v \in Actors, NEW b \in BOOLEAN
    PROVE  /\ Same([v EXCEPT !.control = "none"], v)
           /\ Same([v EXCEPT !.session = b], v)
           /\ Same([v EXCEPT !.control = "abort"], v)
           /\ Same([v EXCEPT !.control = "status"], v)
           /\ Same([v EXCEPT !.exiting = 0], v)
  BY DEF Same, Actors

LEMMA CompleteAbortHeld ==
    ASSUME NEW v, Held(v), NEW retire \in BOOLEAN
    PROVE  Held(CompleteAbort(v, retire))
  <1> DEFINE r == Release(v)
             q == [r EXCEPT !.session = FALSE]
             u == IF retire THEN q ELSE v
             x == [u EXCEPT !.control = "none"]
  <1>1. Held(r) /\ r \in Actors /\ r.steers = {}
    BY ReleaseHeld, HeldIsLoose DEF Held, Loose
  <1> HIDE DEF r
  <1>2. Same(q, r)
    BY <1>1, ControlKeeps
  <1>3. Held(q) /\ q.steers = {}
    BY <1>1, <1>2, SameKeeps DEF Same
  <1> HIDE DEF q
  <1>4. Held(u) /\ u \in Actors /\ (retire => u.steers = {})
    BY <1>3 DEF Held, Loose
  <1> HIDE DEF u
  <1>5. Same(x, u)
    BY <1>4, ControlKeeps
  <1>6. Held(x) /\ (retire => x.steers = {})
    BY <1>4, <1>5, SameKeeps DEF Same
  <1> HIDE DEF x
  <1>7. "cancelled" \in Final
    BY DEF Final
  <1>8. retire => Held(FinishTask(x, "cancelled"))
    BY <1>6, <1>7, FinishTaskHeld
  <1>9. CompleteAbort(v, retire) = IF retire THEN FinishTask(x, "cancelled") ELSE x
    BY DEF CompleteAbort, x, u, q, r
  <1> QED
    BY <1>6, <1>8, <1>9

LEMMA OperationFinishedHeld ==
    ASSUME NEW v, Held(v), NEW op \in Requests, NEW result \in Results, NEW quiet
    PROVE  Held(OperationFinished(v, op, result, quiet))
  <1> DEFINE x == OperationFinished(v, op, result, quiet)
  <1>1. v \in Actors /\ Loose(v)
    BY DEF Held, Loose
  <1>2. "cancelled" \in Final /\ "uncertain" \in Final
    BY DEF Final
  <1>3. CASE Stale(v, op)
    BY <1>3 DEF OperationFinished
  <1>4. CASE ~Stale(v, op) /\ op.kind = "steer"
    BY <1>4, SteerReturnedHeld DEF OperationFinished
  <1>5. CASE ~Stale(v, op) /\ op.kind = "prompt"
    <2>1. Held(RetireTaskRuntime(v))
      BY <1>1, RetireHeld
    <2>2. Held(RetireTaskRuntime(ClearQueue(v)))
      BY <1>1, RetireHeld, ClearQueueKeeps
    <2>3. ~v.fence.active => Held(FinishTask(v, "cancelled"))
      BY <1>1, <1>2, FinishTaskHeld DEF Loose
    <2>4. x = IF result = "ok" THEN v
              ELSE IF v.fence.active THEN RetireTaskRuntime(v)
              ELSE IF result = "oversized" THEN FinishTask(v, "cancelled")
              ELSE RetireTaskRuntime(ClearQueue(v))
      BY <1>5 DEF OperationFinished
    <2> QED
      BY <2>1, <2>2, <2>3, <2>4
  <1>6. CASE ~Stale(v, op) /\ op.kind = "abort"
    <2>1. Held(CompleteAbort(v, TRUE))
      BY CompleteAbortHeld
    <2>2. Held([v EXCEPT !.control = "none"])
      BY <1>1, ControlKeeps, SameKeeps
    <2> DEFINE f == FinishTask(Release(v), "uncertain")
    <2>3. Held(f) /\ f \in Actors
      BY <1>1, <1>2, ReleaseHeld, FinishTaskHeld DEF Held, Loose
    <2> HIDE DEF f
    <2>4. Held([f EXCEPT !.control = "none"])
      BY <2>3, ControlKeeps, SameKeeps
    <2>5. x = IF result = "ok" THEN CompleteAbort(v, TRUE)
              ELSE IF result = "rejected" THEN [v EXCEPT !.control = "none"]
              ELSE [f EXCEPT !.control = "none"]
      BY <1>6 DEF OperationFinished, f
    <2> QED
      BY <2>1, <2>2, <2>4, <2>5
  <1>7. CASE ~Stale(v, op) /\ op.kind = "abort_state"
    <2>1. Held(CompleteAbort(v, FALSE))
      BY CompleteAbortHeld
    <2>2. "abort" \in Kinds \ {"none"} /\ None \in Prompts \cup {None}
      BY DEF Kinds
    <2>3. Held(StartOperation(v, "abort", None, None))
      BY <1>1, <2>2, StartKeeps, SameKeeps
    <2>4. x = IF result = "ok" /\ quiet /\ v.active = None /\ ~v.session
                THEN CompleteAbort(v, FALSE)
                ELSE StartOperation(v, "abort", None, None)
      BY <1>7 DEF OperationFinished
    <2> QED
      BY <2>1, <2>3, <2>4
  <1>8. CASE ~Stale(v, op) /\ op.kind = "compact"
    <2> DEFINE u == [v EXCEPT !.session = FALSE]
    <2>1. Held(u)
      BY <1>1, ControlKeeps, SameKeeps
    <2> HIDE DEF u
    <2>2. Held(Release(u))
      BY <2>1, ReleaseHeld, HeldIsLoose
    <2>3. x = IF result = "unknown" THEN Release(u) ELSE u
      BY <1>8 DEF OperationFinished, u
    <2> QED
      BY <2>1, <2>2, <2>3
  <1>9. CASE ~Stale(v, op) /\ op.kind = "status"
    <2>1. Held([v EXCEPT !.control = "none"])
      BY <1>1, ControlKeeps, SameKeeps
    <2> QED
      BY <1>9, <2>1 DEF OperationFinished
  <1>10. op.kind \in {"prompt", "steer", "abort", "abort_state", "status", "compact"}
    BY DEF Requests, Kinds
  <1> QED
    BY <1>3, <1>4, <1>5, <1>6, <1>7, <1>8, <1>9, <1>10

LEMMA OperationReturnedHeld ==
    ASSUME NEW v, Held(v), v.flight \in Requests, v.flight.phase \in Results, NEW quiet
    PROVE  Held(OperationReturned(v, quiet))
  <1> DEFINE op == v.flight
             free == [v EXCEPT !.flight = NoOperation]
             u == OperationFinished(free, op, op.phase, quiet)
             x == IF v.exiting # op.client THEN u
                  ELSE IF u.client = op.client THEN Failed(u)
                  ELSE [u EXCEPT !.exiting = 0]
  <1>1. v \in Actors
    BY DEF Held, Loose
  <1>2. Same(free, v)
    BY <1>1 DEF Same, Actors
  <1>3. Held(free)
    BY <1>2, SameKeeps
  <1> HIDE DEF free
  <1>4. Held(u) /\ u \in Actors
    BY <1>3, OperationFinishedHeld DEF Held, Loose
  <1> HIDE DEF u
  <1>5. Held(Failed(u))
    BY <1>4, FailedHeld
  <1>6. Held([u EXCEPT !.exiting = 0])
    BY <1>4, ControlKeeps, SameKeeps
  <1>7. Held(x) /\ x \in Actors
    BY <1>4, <1>5, <1>6 DEF Held, Loose
  <1> HIDE DEF x
  <1>8. Held(DispatchOperation(x))
    BY <1>7, DispatchKeeps, SameKeeps
  <1>9. OperationReturned(v, quiet) = DispatchOperation(x)
    BY DEF OperationReturned, x, u, free
  <1> QED
    BY <1>8, <1>9

\* What the watchdog has found matters to no input.
LEMMA WatchKeeps ==
    ASSUME NEW v, v \in Actors
    PROVE  /\ Same([v EXCEPT !.watch = NoWatch], v)
           /\ Same([v EXCEPT !.watch.confirmed = TRUE], v)
           /\ \A answer \in Answers : Same([v EXCEPT !.watch.probe = answer], v)
           /\ \A answer \in Answers : Same([v EXCEPT !.probe = answer], v)
  <1>1. NoWatch \in Watches /\ v.watch \in Watches
    BY DEF NoWatch, Watches, Answers, Actors
  <1>2. Same([v EXCEPT !.watch = NoWatch], v)
    BY <1>1 DEF Same, Actors
  <1>3. \A x \in Watches : Same([v EXCEPT !.watch = x], v)
    BY DEF Same, Actors
  <1>4. [v.watch EXCEPT !.confirmed = TRUE] \in Watches
    BY <1>1 DEF Watches
  <1>5. \A answer \in Answers : [v.watch EXCEPT !.probe = answer] \in Watches
    BY <1>1 DEF Watches
  <1>6. Same([v EXCEPT !.watch.confirmed = TRUE], v)
    BY <1>3, <1>4
  <1>7. \A answer \in Answers : Same([v EXCEPT !.watch.probe = answer], v)
    BY <1>3, <1>5
  <1>8. \A answer \in Answers : Same([v EXCEPT !.probe = answer], v)
    BY DEF Same, Actors
  <1> QED
    BY <1>2, <1>6, <1>7, <1>8

LEMMA IdleProbedHeld ==
    ASSUME NEW v, Held(v), NEW patience \in BOOLEAN
    PROVE  Held(IdleProbed(v, patience))
  <1> DEFINE u == [v EXCEPT !.watch.probe = "none"]
             answer == v.watch.probe
  <1>1. v \in Actors /\ "none" \in Answers
    BY DEF Held, Loose, Answers
  <1>2. Same(u, v)
    BY <1>1, WatchKeeps
  <1>3. Held(u) /\ u \in Actors /\ u.fence.active = v.fence.active
    BY <1>2, SameKeeps DEF Same
  <1> HIDE DEF u
  <1>4. Held(RetireTaskRuntime(u))
    BY <1>3, RetireHeld, HeldIsLoose
  <1>5. Held([u EXCEPT !.watch = NoWatch]) /\ Held([u EXCEPT !.watch.confirmed = TRUE])
    BY <1>3, WatchKeeps, SameKeeps
  <1>6. Held(MaybeFinishSteeredRoot([u EXCEPT !.fence.settled = TRUE]))
    BY <1>3, SettledKeeps, SameKeeps, MaybeFinishHeld
  <1>7. ~v.fence.active => Held(Release(FinishTask(u, "uncertain")))
    <2>1. "uncertain" \in Final
      BY DEF Final
    <2>2. ~v.fence.active => u.steers = {}
      BY <1>3 DEF Held, Loose
    <2>3. ~v.fence.active => Held(FinishTask(u, "uncertain"))
      BY <1>3, <2>1, <2>2, FinishTaskHeld
    <2> QED
      BY <2>3, ReleaseHeld, HeldIsLoose
  <1>8. IdleProbed(v, patience) =
          IF v.fence.active /\ answer = "failed" THEN RetireTaskRuntime(u)
          ELSE IF ~Eligible(v) \/ answer \in {"failed", "busy"} THEN [u EXCEPT !.watch = NoWatch]
          ELSE IF v.fence.active /\ answer = "pending"
            THEN IF patience THEN [u EXCEPT !.watch = NoWatch] ELSE RetireTaskRuntime(u)
          ELSE IF v.fence.active /\ answer = "settled" /\ v.steers = {} /\ v.fence.seen
            THEN MaybeFinishSteeredRoot([u EXCEPT !.fence.settled = TRUE])
          ELSE IF ~v.watch.confirmed THEN [u EXCEPT !.watch.confirmed = TRUE]
          ELSE IF v.fence.active THEN RetireTaskRuntime(u)
          ELSE Release(FinishTask(u, "uncertain"))
    BY DEF IdleProbed, u
  <1> QED
    BY <1>4, <1>5, <1>6, <1>7, <1>8

-----------------------------------------------------------------------------
\* The actor's steps.

\* A new process has nothing to say.
LEMMA NewProcess == Process(Dead) /\ Process(Fresh)
  <1>1. IsFiniteSet({})
    BY FS_EmptySet
  <1>2. <<>> \in Seq(Events)
    OBVIOUS
  <1>3. Dead \in Processes /\ Dead.doing = {}
    BY <1>2 DEF Dead, Processes
  <1>4. Fresh \in Processes /\ Fresh.doing = {}
    BY <1>3 DEF Fresh, Processes
  <1> QED
    BY <1>1, <1>3, <1>4 DEF Process

LEMMA SettleHeld ==
    ASSUME NEW v, NEW rest, Held(v), Process(rest), Settle(v, rest)
    PROVE  IInv'
  <1>1. PICK x \in Dispatched(v) :
          /\ w' = x
          /\ o' = CASE x.client = w.client -> rest
                    [] x.client # w.client /\ x.client = 0 -> Dead
                    [] OTHER -> Fresh
    BY DEF Settle
  <1>2. Held(x)
    BY DispatchedHeld
  <1>3. o' \in {rest, Dead, Fresh}
    BY <1>1
  <1>4. Process(o')
    BY <1>3, NewProcess
  <1>5. Held(w')
    BY <1>1, <1>2
  <1> QED
    BY <1>4, <1>5 DEF IInv, Held, Loose, CurrentSteer, SteerInputs, Process

\* Any state but "submitted" may be stored.
LEMMA SavedHeld ==
    ASSUME NEW v, Held(v), NEW i \in Prompts, NEW state \in SavedStates \ {"submitted"}
    PROVE  LET x == [v EXCEPT !.saved[i] = state]
           IN  Held(x) /\ x \in Actors
  <1> DEFINE x == [v EXCEPT !.saved[i] = state]
  <1>1. v \in Actors /\ Loose(v)
    BY DEF Held, Loose
  <1>2. v.saved \in [Prompts -> SavedStates]
    BY <1>1 DEF Actors
  <1>3. [v.saved EXCEPT ![i] = state] \in [Prompts -> SavedStates]
    BY <1>2
  <1>4. x = [v EXCEPT !.saved = [v.saved EXCEPT ![i] = state]]
    OBVIOUS
  <1>5. /\ x \in Actors /\ x.saved = [v.saved EXCEPT ![i] = state] /\ x.active = v.active
        /\ x.steers = v.steers /\ x.fence = v.fence /\ x.turn = v.turn /\ x.client = v.client
    BY <1>1, <1>3, <1>4 DEF Actors
  <1> HIDE DEF x
  <1>6. \A j \in Prompts : x.saved[j] = "submitted" => v.saved[j] = "submitted"
    BY <1>2, <1>5
  <1>7. Held(x) /\ x \in Actors
    BY <1>1, <1>5, <1>6 DEF Held, Loose, CurrentSteer, SteerInputs
  <1> QED
    BY <1>7 DEF x

LEMMA PromptStep == ASSUME IInv, NEW i \in Prompts, Prompt(i) PROVE IInv'
  <1>1. Held(w) /\ Process(o)
    BY DEF IInv
  <1>2. {"queued", "cancelled", "refused"} \subseteq SavedStates \ {"submitted"}
    BY DEF SavedStates, Final
  <1> DEFINE c == Connected(w)
  <1>3. Held(c) /\ c \in Actors
    BY <1>1, ConnectedHeld DEF Held, Loose
  <1> HIDE DEF c
  <1>4. ASSUME NEW state \in {"cancelled", "refused"}, Reject(i, state) PROVE IInv'
    <2>1. Held([w EXCEPT !.saved[i] = state])
      BY <1>1, <1>2, SavedHeld
    <2>2. Settle([w EXCEPT !.saved[i] = state], o)
      BY <1>4 DEF Reject, Handled
    <2> QED
      BY <1>1, <2>1, <2>2, SettleHeld
  <1>5. ASSUME w.active # None, w.client # 0, Handled(Steer(w, i)) PROVE IInv'
    <2>1. Held(Steer(w, i))
      BY <1>1, <1>5, SteerHeld
    <2>2. Settle(Steer(w, i), o)
      BY <1>5 DEF Handled
    <2> QED
      BY <1>1, <2>1, <2>2, SettleHeld
  <1>6. ASSUME Handled([c EXCEPT !.saved[i] = "cancelled"]) PROVE IInv'
    <2>1. Held([c EXCEPT !.saved[i] = "cancelled"])
      BY <1>2, <1>3, SavedHeld
    <2>2. Settle([c EXCEPT !.saved[i] = "cancelled"], o)
      BY <1>6 DEF Handled
    <2> QED
      BY <1>1, <2>1, <2>2, SettleHeld
  <1>7. ASSUME Handled([c EXCEPT !.saved[i] = "queued", !.queue = Append(@, i)]) PROVE IInv'
    <2> DEFINE x == [c EXCEPT !.saved[i] = "queued"]
               y == [c EXCEPT !.saved[i] = "queued", !.queue = Append(@, i)]
    <2>1. Held(x) /\ x \in Actors
      BY <1>2, <1>3, SavedHeld
    <2>2. c.queue \in Seq(Prompts)
      BY <1>3 DEF Actors
    <2>3. Append(c.queue, i) \in Seq(Prompts)
      BY <2>2
    <2>4. y = [x EXCEPT !.queue = Append(c.queue, i)]
      BY <1>3 DEF Actors
    <2> HIDE DEF x
    <2>5. Same(y, x)
      BY <2>1, <2>3, <2>4 DEF Same, Actors
    <2>6. Held(y)
      BY <2>1, <2>5, SameKeeps
    <2>7. Settle(y, o)
      BY <1>7 DEF Handled
    <2> HIDE DEF y
    <2> QED
      BY <1>1, <2>6, <2>7, SettleHeld
  <1> QED
    BY <1>4, <1>5, <1>6, <1>7 DEF Prompt, c

LEMMA RequestAbortHeld == ASSUME NEW v, Held(v) PROVE Held(RequestAbort(v))
  <1> DEFINE u == [v EXCEPT !.control = "abort"]
             kind == IF v.active = None THEN "abort_state" ELSE "abort"
  <1>1. v \in Actors
    BY DEF Held, Loose
  <1>2. Same(u, v)
    BY <1>1, ControlKeeps
  <1>3. Held(u) /\ u \in Actors
    BY <1>2, SameKeeps DEF Same
  <1> HIDE DEF u
  <1>4. kind \in Kinds \ {"none"} /\ None \in Prompts \cup {None}
    BY DEF Kinds
  <1> HIDE DEF kind
  <1>5. Held(StartOperation(u, kind, None, None))
    BY <1>3, <1>4, StartKeeps, SameKeeps
  <1>6. RequestAbort(v) = IF v.client = 0 \/ v.control # "none" THEN v
                          ELSE StartOperation(u, kind, None, None)
    BY DEF RequestAbort, u, kind
  <1> QED
    BY <1>5, <1>6

LEMMA StopRootHeld == ASSUME NEW v, Held(v) PROVE Held(StopRoot(v))
  BY RequestAbortHeld, RetireHeld, HeldIsLoose DEF StopRoot

\* The requests of the user.
LEMMA UserSteps ==
    ASSUME IInv, Stop \/ StopActiveTask \/ Status \/ Compact \/ CloseSession \/ NewSession \/ ReleaseIdle
    PROVE  IInv'
  <1>1. Held(w) /\ Process(o) /\ w \in Actors
    BY DEF IInv, Held, Loose
  <1>2. CASE Stop
    <2>1. Held(StopRoot(ClearQueue(w)))
      BY <1>1, ClearQueueKeeps, StopRootHeld
    <2>2. Settle(StopRoot(ClearQueue(w)), o)
      BY <1>2 DEF Stop, UserAsks
    <2> QED
      BY <1>1, <2>1, <2>2, SettleHeld
  <1>3. CASE StopActiveTask
    <2>1. Held(StopRoot(w))
      BY <1>1, StopRootHeld
    <2>2. Settle(StopRoot(w), o)
      BY <1>3 DEF StopActiveTask, UserAsks
    <2> QED
      BY <1>1, <2>1, <2>2, SettleHeld
  <1> DEFINE c == Connected(w)
  <1>4. Held(c) /\ c \in Actors
    BY <1>1, ConnectedHeld DEF Held, Loose
  <1> HIDE DEF c
  <1>5. "status" \in Kinds \ {"none"} /\ "compact" \in Kinds \ {"none"} /\ None \in Prompts \cup {None}
    BY DEF Kinds
  <1>6. CASE Status
    <2> DEFINE u == [c EXCEPT !.control = "status"]
    <2>1. Held(u) /\ u \in Actors
      BY <1>4, ControlKeeps, SameKeeps DEF Same
    <2>2. Settle(StartOperation(u, "status", None, None), o)
      BY <1>6 DEF Status, UserAsks, c
    <2> HIDE DEF u
    <2>3. Held(StartOperation(u, "status", None, None))
      BY <1>5, <2>1, StartKeeps, SameKeeps
    <2> QED
      BY <1>1, <2>2, <2>3, SettleHeld
  <1>7. CASE Compact
    <2> DEFINE u == [c EXCEPT !.session = TRUE]
    <2>1. Held(u) /\ u \in Actors
      BY <1>4, ControlKeeps, SameKeeps DEF Same
    <2>2. Settle(StartOperation(u, "compact", None, None), o)
      BY <1>7 DEF Compact, UserAsks, c
    <2> HIDE DEF u
    <2>3. Held(StartOperation(u, "compact", None, None))
      BY <1>5, <2>1, StartKeeps, SameKeeps
    <2> QED
      BY <1>1, <2>2, <2>3, SettleHeld
  <1>8. CASE CloseSession
    <2> DEFINE u == Teardown(w)
    <2>1. Held(u) /\ u \in Actors
      BY <1>1, TeardownHeld DEF Held, Loose
    <2>2. Settle([u EXCEPT !.bound = FALSE], o)
      BY <1>8 DEF CloseSession, UserAsks
    <2> HIDE DEF u
    <2>3. Same([u EXCEPT !.bound = FALSE], u)
      BY <2>1 DEF Same, Actors
    <2> QED
      BY <1>1, <2>1, <2>2, <2>3, SameKeeps, SettleHeld
  <1>9. CASE NewSession
    <2> DEFINE u == [w EXCEPT !.bound = TRUE]
    <2>1. Same(u, w)
      BY <1>1 DEF Same, Actors
    <2>2. Held(u)
      BY <1>1, <2>1, SameKeeps
    <2>3. Settle(Connected(u), o)
      BY <1>9 DEF NewSession, Handled
    <2> HIDE DEF u
    <2>4. Held(Connected(u))
      BY <2>2, ConnectedHeld
    <2> QED
      BY <1>1, <2>3, <2>4, SettleHeld
  <1>10. CASE ReleaseIdle
    <2>1. Held(Release(w))
      BY <1>1, ReleaseHeld, HeldIsLoose
    <2>2. Settle(Release(w), o)
      BY <1>10 DEF ReleaseIdle, Handled
    <2> QED
      BY <1>1, <2>1, <2>2, SettleHeld
  <1> QED
    BY <1>2, <1>3, <1>6, <1>7, <1>8, <1>9, <1>10

\* What is taken out of the events was one of them, and the rest are.
LEMMA NextEvent ==
    ASSUME Process(o), o.events # <<>>
    PROVE  Head(o.events) \in Events /\ Process([o EXCEPT !.events = Tail(@)])
  <1>1. o \in Processes /\ IsFiniteSet(o.doing)
    BY DEF Process
  <1>2. o.events \in Seq(Events)
    BY <1>1 DEF Processes
  <1>3. Head(o.events) \in Events /\ Tail(o.events) \in Seq(Events)
    BY <1>2
  <1>4. /\ [o EXCEPT !.events = Tail(@)] \in Processes
        /\ [o EXCEPT !.events = Tail(@)].doing = o.doing
    BY <1>1, <1>3 DEF Processes
  <1> QED
    BY <1>1, <1>3, <1>4 DEF Process

\* An answer to a probe is one the actor knows.
LEMMA StatesAreAnswers ==
    /\ States \in SUBSET Answers
    /\ {"failed"} \cup (IF o.alive THEN States ELSE {}) \in SUBSET Answers
  <1>1. CASE Works
    BY <1>1 DEF States, Answers, Works, Idle
  <1>2. CASE ~Works /\ ~Idle
    BY <1>2 DEF States, Answers
  <1>3. CASE ~Works /\ Idle
    BY <1>3 DEF States, Answers
  <1>4. States \in SUBSET Answers
    BY <1>1, <1>2, <1>3
  <1> QED
    BY <1>4 DEF Answers

\* A step that changes what Same leaves open, and not OMP.
LEMMA OnlyWatches ==
    ASSUME IInv, Same(w', w), o' = o
    PROVE  IInv'
  <1>1. Held(w')
    BY SameKeeps DEF IInv
  <1> QED
    BY <1>1 DEF IInv, Held, Loose, CurrentSteer, SteerInputs, Process

\* Events, exits, results and ticks.
LEMMA ActorSteps ==
    ASSUME IInv,
           \/ ConsumeEvent \/ ClientGone \/ OperationReturns
           \/ StartIdleProbe \/ SteeredTick \/ AnswerIdleProbe \/ AnswerSteerProbe
           \/ IdleProbeFinished \/ SteeredQuiescenceFinished
    PROVE  IInv'
  <1>1. Held(w) /\ Process(o) /\ w \in Actors
    BY DEF IInv, Held, Loose
  <1> DEFINE rest == [o EXCEPT !.events = Tail(@)]
             e == Head(o.events)
             u == [w EXCEPT !.probe = "none"]
  <1>2. o.events # <<>> => e \in Events /\ Process(rest)
    BY <1>1, NextEvent
  <1>3. Held(u)
    BY <1>1, WatchKeeps, SameKeeps DEF Answers
  <1>4. o.events # <<>> => Held(HandleEvent(w, e)) /\ Held(HandleEvent(u, e))
    BY <1>1, <1>2, <1>3, HandleEventHeld
  <1>5. ASSUME o.events # <<>>, Settle(HandleEvent(w, e), rest) PROVE IInv'
    BY <1>2, <1>4, <1>5, SettleHeld
  <1>6. ASSUME o.events # <<>>, Settle(HandleEvent(u, e), rest) PROVE IInv'
    BY <1>2, <1>4, <1>6, SettleHeld
  <1>7. ASSUME NEW v, Held(v), Handled(v) PROVE IInv'
    BY <1>1, <1>7, SettleHeld DEF Handled
  <1>8. CASE ConsumeEvent
    BY <1>5, <1>8 DEF ConsumeEvent
  <1>9. CASE ClientGone
    BY <1>1, <1>7, <1>9, FailedHeld DEF ClientGone
  <1>10. CASE OperationReturns
    <2>1. PICK result \in Outcomes, quiet \in {FALSE, Quiet} :
            Settle(OperationReturned([w EXCEPT !.flight.phase = result], quiet), o)
      BY <1>10 DEF OperationReturns
    <2> DEFINE f == [w.flight EXCEPT !.phase = result]
               v == [w EXCEPT !.flight = f]
    <2>2. w.flight.phase \in {"taken", "out"} /\ result \in Results
      <3>1. w.flight.phase \in {"taken", "out"}
        BY <2>1 DEF Outcomes
      <3>2. CASE w.flight.phase = "taken"
        BY <2>1, <3>2 DEF Outcomes, Results
      <3>3. CASE w.flight.phase = "out"
        BY <2>1, <3>3 DEF Outcomes, Results
      <3> QED
        BY <3>1, <3>2, <3>3
    <2>3. w.flight \in Requests
      BY <1>1, <2>2 DEF Actors, NoOperation
    <2>4. f \in Requests /\ f.phase = result
      BY <2>2, <2>3 DEF Requests, Phases
    <2> HIDE DEF f
    <2>5. Same(v, w) /\ v.flight = f
      BY <1>1, <2>4 DEF Same, Actors
    <2>6. Held(v)
      BY <1>1, <2>5, SameKeeps
    <2>7. Settle(OperationReturned(v, quiet), o)
      BY <2>1 DEF f
    <2> HIDE DEF v
    <2>8. Held(OperationReturned(v, quiet))
      BY <2>2, <2>4, <2>5, <2>6, OperationReturnedHeld
    <2> QED
      BY <1>1, <2>7, <2>8, SettleHeld
  <1>11. CASE StartIdleProbe
    <2>1. "asking" \in Answers /\ w' = [w EXCEPT !.watch.probe = "asking"] /\ o' = o
      BY <1>11 DEF StartIdleProbe, Answers
    <2>2. Same(w', w)
      BY <1>1, <2>1, WatchKeeps
    <2> QED
      BY <2>1, <2>2, OnlyWatches
  <1>12. CASE SteeredTick
    <2>1. w' = StartSteerProbe(w) /\ o' = o
      BY <1>12 DEF SteeredTick
    <2>2. Same(w', w)
      BY <1>1, <2>1, SteerProbeKeeps
    <2> QED
      BY <2>1, <2>2, OnlyWatches
  <1>13. CASE AnswerIdleProbe
    <2>1. PICK answer \in {"failed"} \cup (IF o.alive THEN States ELSE {}) :
            w' = [w EXCEPT !.watch.probe = answer]
      BY <1>13 DEF AnswerIdleProbe
    <2>2. answer \in Answers /\ o' = o
      BY <1>13, StatesAreAnswers DEF AnswerIdleProbe
    <2>3. Same(w', w)
      BY <1>1, <2>1, <2>2, WatchKeeps
    <2> QED
      BY <2>2, <2>3, OnlyWatches
  <1>14. CASE AnswerSteerProbe
    <2>1. PICK answer \in {"failed"} \cup (IF o.alive THEN States ELSE {}) :
            w' = [w EXCEPT !.probe = answer]
      BY <1>14 DEF AnswerSteerProbe
    <2>2. answer \in Answers /\ o' = o
      BY <1>14, StatesAreAnswers DEF AnswerSteerProbe
    <2>3. Same(w', w)
      BY <1>1, <2>1, <2>2, WatchKeeps
    <2> QED
      BY <2>2, <2>3, OnlyWatches
  <1>15. CASE IdleProbeFinished
    <2>1. CASE o.events # <<>>
      BY <1>5, <1>15, <2>1 DEF IdleProbeFinished
    <2>2. CASE o.events = <<>>
      <3>1. PICK patience \in BOOLEAN : Handled(IdleProbed(w, patience))
        BY <1>15, <2>2 DEF IdleProbeFinished
      <3> QED
        BY <1>1, <1>7, <3>1, IdleProbedHeld
    <2> QED
      BY <2>1, <2>2
  <1>16. CASE SteeredQuiescenceFinished
    <2>1. CASE o.events # <<>>
      BY <1>6, <1>16, <2>1 DEF SteeredQuiescenceFinished
    <2>2. CASE o.events = <<>>
      <3>1. Handled(SteerProbed(w))
        BY <1>16, <2>2 DEF SteeredQuiescenceFinished
      <3> QED
        BY <1>1, <1>7, <3>1, SteerProbedHeld
    <2> QED
      BY <2>1, <2>2
  <1> QED
    BY <1>8, <1>9, <1>10, <1>11, <1>12, <1>13, <1>14, <1>15, <1>16

-----------------------------------------------------------------------------
\* The steps of OMP.

\* The reports at the end of a run are events, in some order.
LEMMA ReportsAreEvents ==
    ASSUME NEW S \in SUBSET (Prompts \cup {None}), IsFiniteSet(S), NEW value \in Values
    PROVE  SetToSeq({Event("result", i, value) : i \in S}) \in Seq(Events)
  <1> DEFINE T == {Event("result", i, value) : i \in S}
             f == [i \in S |-> Event("result", i, value)]
             n == Cardinality(T)
  <1>1. f \in Surjection(S, T)
    BY DEF Surjection
  <1>2. IsFiniteSet(T)
    BY <1>1, FS_Surjection
  <1>3. T \in SUBSET Events
    BY DEF Event, Events
  <1> HIDE DEF T
  <1>4. n \in Nat /\ ExistsBijection(1..n, T)
    BY <1>2, FS_CardinalityType
  <1>5. PICK g \in Bijection(1..n, T) : TRUE
    BY <1>4 DEF ExistsBijection
  <1>6. g \in [1..n -> T] /\ IsInjective(g)
    BY <1>5 DEF Bijection, Injection, IsInjective
  <1>7. SetToSeq(T) \in [1..n -> T]
    BY <1>6 DEF SetToSeq
  <1>8. SetToSeq(T) \in Seq(Events)
    BY <1>3, <1>4, <1>7
  <1> QED
    BY <1>8 DEF T

\* What OMP writes without saying more.
LEMMA PlainEvents ==
    /\ Event("start", None, "") \in Events
    /\ Event("yield", None, "") \in Events
    /\ \A verdict \in Verdicts : Event("end", None, verdict) \in Events
    /\ \A i \in Prompts \cup {None}, value \in Values : Event("result", i, value) \in Events
  BY DEF Event, Events, Values, Verdicts

\* A step of OMP alone.
LEMMA OnlyOmp ==
    ASSUME IInv, Process(o'), Same(w', w)
    PROVE  IInv'
  <1>1. Held(w')
    BY SameKeeps DEF IInv
  <1> QED
    BY <1>1 DEF IInv, Held, Loose, CurrentSteer, SteerInputs, Process

\* Nothing is the same as itself, if it is an actor.
LEMMA SameAsBefore == ASSUME IInv, w' = w PROVE Same(w', w)
  BY DEF IInv, Held, Loose, Same

\* It runs on: what it has in hand stays as it was.
LEMMA RunKeepsTypes ==
    ASSUME Process(o), NEW run \in {"idle", "busy", "yielded", "resumed"},
           NEW root \in Prompts \cup {None}, NEW more \in BOOLEAN, NEW late \in BOOLEAN,
           NEW events \in Seq(Events)
    PROVE  Process([o EXCEPT !.run = run, !.root = root, !.more = more, !.late = late,
                             !.events = events])
  <1> DEFINE p == [o EXCEPT !.run = run, !.root = root, !.more = more, !.late = late,
                            !.events = events]
  <1>1. o \in Processes /\ IsFiniteSet(o.doing)
    BY DEF Process
  <1>2. p \in Processes /\ p.doing = o.doing
    BY <1>1 DEF Processes
  <1> QED
    BY <1>1, <1>2 DEF Process

LEMMA OmpTakesStep == ASSUME IInv, OmpTakes PROVE IInv'
  <1>1. Held(w) /\ Process(o) /\ w \in Actors
    BY DEF IInv, Held, Loose
  <1>2. w.flight.phase = "out" /\ w' = [w EXCEPT !.flight.phase = "taken"]
    BY DEF OmpTakes
  <1>3. w.flight \in Requests
    BY <1>1, <1>2 DEF Actors, NoOperation
  <1>4. [w.flight EXCEPT !.phase = "taken"] \in Requests
    BY <1>3 DEF Requests, Phases
  <1>5. Same(w', w)
    BY <1>1, <1>2, <1>4 DEF Same, Actors
  <1>6. w.flight.input \in Prompts \cup {None}
    BY <1>3 DEF Requests
  <1>7. o \in Processes /\ IsFiniteSet(o.doing) /\ o.events \in Seq(Events)
    BY <1>1 DEF Process, Processes
  <1>8. /\ Append(o.events, Event("start", None, "")) \in Seq(Events)
        /\ Append(o.events, Event("end", None, "aborted")) \in Seq(Events)
    <2>1. "aborted" \in Verdicts
      BY DEF Verdicts
    <2>2. \A e \in Events : Append(o.events, e) \in Seq(Events)
      BY <1>7
    <2> QED
      BY <2>1, <2>2, PlainEvents
  <1> DEFINE begun == Append(o.events, Event("start", None, ""))
             ended == Append(o.events, Event("end", None, "aborted"))
             p == [o EXCEPT !.run = "busy", !.root = w.flight.input, !.late = FALSE,
                            !.events = begun]
             t == [o EXCEPT !.todo = @ \cup {w.flight.input}]
             a == [o EXCEPT !.run = "idle", !.root = None, !.events = ended]
  <1>9. o' \in {p, t, a, o}
    BY DEF OmpTakes, OmpStep
  <1> HIDE DEF begun, ended
  <1>10. p \in Processes /\ p.doing = o.doing
    BY <1>6, <1>7, <1>8 DEF Processes, begun
  <1>11. t \in Processes /\ t.doing = o.doing
    BY <1>6, <1>7 DEF Processes
  <1>12. a \in Processes /\ a.doing = o.doing
    BY <1>7, <1>8 DEF Processes, ended
  <1>13. Process(p) /\ Process(t) /\ Process(a)
    BY <1>7, <1>10, <1>11, <1>12 DEF Process
  <1> HIDE DEF p, t, a
  <1> QED
    BY <1>1, <1>5, <1>9, <1>13, OnlyOmp

LEMMA OmpSteps == ASSUME IInv, Omp PROVE IInv'
  <1>1. Held(w) /\ Process(o) /\ w \in Actors
    BY DEF IInv, Held, Loose
  <1>2. o \in Processes /\ IsFiniteSet(o.doing)
    BY <1>1 DEF Process
  <1>3. /\ o.events \in Seq(Events)
        /\ o.doing \in SUBSET (Prompts \cup {None}) /\ o.todo \in SUBSET (Prompts \cup {None})
        /\ o.late \in BOOLEAN /\ o.more \in BOOLEAN
        /\ o.run \in {"idle", "busy", "yielded", "resumed"} /\ o.root \in Prompts \cup {None}
    BY <1>2 DEF Processes
  <1>4. ASSUME Process(o'), w' = w PROVE IInv'
    BY <1>4, OnlyOmp, SameAsBefore
  <1>5. \A e \in Events : Append(o.events, e) \in Seq(Events)
    BY <1>3
  <1> DEFINE begun == Append(o.events, Event("start", None, ""))
             yielded == Append(o.events, Event("yield", None, ""))
             ended == Append(o.events, Event("end", None, "ok"))
  <1>6. begun \in Seq(Events) /\ yielded \in Seq(Events) /\ ended \in Seq(Events)
    BY <1>5, PlainEvents DEF Verdicts
  <1> HIDE DEF begun, yielded, ended
  <1>7. CASE OmpTakes
    BY <1>7, OmpTakesStep
  <1>8. CASE OmpTakesSteer
    <2>1. PICK i \in o.todo :
            o' = [o EXCEPT !.todo = @ \ {i}, !.doing = @ \cup {i}, !.run = IF Works THEN @ ELSE "busy",
                           !.late = @ /\ Works,
                           !.events = IF Works THEN @ ELSE Append(@, Event("start", None, ""))]
      BY <1>8 DEF OmpTakesSteer, OmpStep
    <2> DEFINE run == IF Works THEN o.run ELSE "busy"
               late == o.late /\ Works
               events == IF Works THEN o.events ELSE begun
               doing == o.doing \cup {i}
               todo == o.todo \ {i}
    <2>2. /\ run \in {"idle", "busy", "yielded", "resumed"} /\ late \in BOOLEAN
          /\ events \in Seq(Events) /\ todo \in SUBSET (Prompts \cup {None})
          /\ doing \in SUBSET (Prompts \cup {None})
      BY <1>3, <1>6
    <2>3. IsFiniteSet(doing)
      BY <1>2, FS_AddElement
    <2>4. o' = [o EXCEPT !.todo = todo, !.doing = doing, !.run = run, !.late = late,
                         !.events = events]
      BY <2>1 DEF begun
    <2> HIDE DEF run, late, events, doing, todo
    <2>5. o' \in Processes /\ o'.doing = doing
      BY <1>2, <2>2, <2>4 DEF Processes
    <2>6. Process(o')
      BY <2>3, <2>5 DEF Process
    <2> QED
      BY <1>4, <1>8, <2>6 DEF OmpTakesSteer
  <1>9. CASE OmpReportsSteer
    <2>1. PICK i \in o.doing, value \in {"unsettled", "error", "odd"} :
            o' = [o EXCEPT !.doing = @ \ {i}, !.events = Append(@, Event("result", i, value))]
      BY <1>9 DEF OmpReportsSteer, OmpStep
    <2> DEFINE events == Append(o.events, Event("result", i, value))
               doing == o.doing \ {i}
    <2>2. i \in Prompts \cup {None} /\ value \in Values
      BY <1>3 DEF Values
    <2>3. events \in Seq(Events)
      BY <1>5, <2>2, PlainEvents
    <2>4. IsFiniteSet(doing)
      BY <1>2, FS_RemoveElement
    <2>5. doing \in SUBSET (Prompts \cup {None})
      BY <1>3
    <2>6. o' = [o EXCEPT !.doing = doing, !.events = events]
      BY <2>1
    <2> HIDE DEF events, doing
    <2>7. o' \in Processes /\ o'.doing = doing
      BY <1>2, <2>3, <2>5, <2>6 DEF Processes
    <2>8. Process(o')
      BY <2>4, <2>7 DEF Process
    <2> QED
      BY <1>4, <1>9, <2>8 DEF OmpReportsSteer
  <1>10. CASE OmpEnds
    <2>1. PICK verdict \in {"ok", "empty"}, more \in {FALSE, o.doing # {}} :
            LET value == IF o.todo = {} /\ ~more THEN "settled" ELSE "unsettled"
                reports == SetToSeq({Event("result", i, value) : i \in o.doing})
            IN  o' = [o EXCEPT !.run = "idle", !.root = None, !.doing = {}, !.more = more,
                               !.events = Append(@, Event("end", None, verdict)) \o reports]
      BY <1>10 DEF OmpEnds, OmpStep
    <2> DEFINE value == IF o.todo = {} /\ ~more THEN "settled" ELSE "unsettled"
               reports == SetToSeq({Event("result", i, value) : i \in o.doing})
               first == Append(o.events, Event("end", None, verdict))
               events == first \o reports
    <2>2. value \in Values /\ verdict \in Verdicts /\ more \in BOOLEAN
      BY DEF Values, Verdicts
    <2> HIDE DEF value
    <2>3. reports \in Seq(Events)
      BY <1>2, <1>3, <2>2, ReportsAreEvents
    <2>4. first \in Seq(Events)
      BY <1>5, <2>2, PlainEvents
    <2> HIDE DEF reports, first
    <2>5. events \in Seq(Events)
      BY <2>3, <2>4
    <2>6. o' = [o EXCEPT !.run = "idle", !.root = None, !.doing = {}, !.more = more,
                         !.events = events]
      BY <2>1 DEF value, reports, first
    <2> HIDE DEF events
    <2>7. o' \in Processes /\ o'.doing = {}
      BY <1>2, <2>2, <2>5, <2>6 DEF Processes
    <2>8. Process(o')
      BY <2>7, FS_EmptySet DEF Process
    <2> QED
      BY <1>4, <1>10, <2>8 DEF OmpEnds
  <1>11. CASE OmpContinues
    <2>1. o' = [o EXCEPT !.run = "busy", !.more = FALSE, !.late = FALSE, !.events = begun]
      BY <1>11 DEF OmpContinues, OmpStep, begun
    <2>2. o' \in Processes /\ o'.doing = o.doing
      BY <1>2, <1>6, <2>1 DEF Processes
    <2> QED
      BY <1>2, <1>4, <1>11, <2>2 DEF OmpContinues, Process
  <1>12. CASE OmpYields
    <2>1. o' = [o EXCEPT !.run = "yielded", !.events = yielded]
      BY <1>12 DEF OmpYields, OmpStep, yielded
    <2>2. o' \in Processes /\ o'.doing = o.doing
      BY <1>2, <1>6, <2>1 DEF Processes
    <2> QED
      BY <1>2, <1>4, <1>12, <2>2 DEF OmpYields, Process
  <1>13. CASE OmpResumes
    <2>1. o' = [o EXCEPT !.run = "resumed", !.events = begun]
      BY <1>13 DEF OmpResumes, OmpStep, begun
    <2>2. o' \in Processes /\ o'.doing = o.doing
      BY <1>2, <1>6, <2>1 DEF Processes
    <2> QED
      BY <1>2, <1>4, <1>13, <2>2 DEF OmpResumes, Process
  <1>14. CASE OmpForgetsEnd
    <2>1. o' = [o EXCEPT !.run = "idle", !.root = None, !.doing = {}, !.late = TRUE]
      BY <1>14 DEF OmpForgetsEnd, OmpStep
    <2>2. o' \in Processes /\ o'.doing = {}
      BY <1>2, <2>1 DEF Processes
    <2> QED
      BY <1>4, <1>14, <2>2, FS_EmptySet DEF OmpForgetsEnd, Process
  <1>15. CASE OmpWritesLateEnd
    <2>1. o' = [o EXCEPT !.late = FALSE, !.events = ended]
      BY <1>15 DEF OmpWritesLateEnd, OmpStep, ended
    <2>2. o' \in Processes /\ o'.doing = o.doing
      BY <1>2, <1>6, <2>1 DEF Processes
    <2> QED
      BY <1>2, <1>4, <1>15, <2>2 DEF OmpWritesLateEnd, Process
  <1>16. CASE OmpExits
    <2>1. o' = [o EXCEPT !.alive = FALSE]
      BY <1>16 DEF OmpExits
    <2>2. o' \in Processes /\ o'.doing = o.doing
      BY <1>2, <2>1 DEF Processes
    <2> QED
      BY <1>2, <1>4, <1>16, <2>2 DEF OmpExits, Process
  <1> QED
    BY <1>7, <1>8, <1>9, <1>10, <1>11, <1>12, <1>13, <1>14, <1>15, <1>16 DEF Omp

-----------------------------------------------------------------------------
\* The specification.

\* Nothing is submitted yet.
LEMMA InitHolds == Init => IInv
  <1> SUFFICES ASSUME Init PROVE IInv
    OBVIOUS
  <1>1. NoFence \in Fences /\ NoWatch \in Watches
    BY DEF NoFence, Fences, Verdicts, NoWatch, Watches, Answers
  <1>2. [i \in Prompts |-> "none"] \in [Prompts -> SavedStates]
    BY DEF SavedStates
  <1>3. <<>> \in Seq(Prompts) /\ <<>> \in Seq(Requests) /\ {} \in SUBSET SteerRequests
    OBVIOUS
  <1>4. /\ w \in Actors /\ w.saved = [i \in Prompts |-> "none"] /\ w.steers = {}
    BY <1>1, <1>2, <1>3 DEF Init, Actors, Answers
  <1>5. Held(w)
    BY <1>4 DEF Held, Loose
  <1>6. Process(o)
    BY NewProcess DEF Init
  <1> QED
    BY <1>5, <1>6 DEF IInv

\* Every step keeps the invariant.
LEMMA NextKeeps == IInv /\ [Next]_laneVars => IInv'
  <1> SUFFICES ASSUME IInv, [Next]_laneVars PROVE IInv'
    OBVIOUS
  <1>1. ASSUME NEW i \in Prompts, Prompt(i) PROVE IInv'
    BY <1>1, PromptStep
  <1>2. CASE \/ Stop \/ StopActiveTask \/ Status \/ Compact \/ CloseSession \/ NewSession
             \/ ReleaseIdle
    BY <1>2, UserSteps
  <1>3. CASE \/ ConsumeEvent \/ ClientGone \/ OperationReturns
             \/ StartIdleProbe \/ SteeredTick \/ AnswerIdleProbe \/ AnswerSteerProbe
             \/ IdleProbeFinished \/ SteeredQuiescenceFinished
    BY <1>3, ActorSteps
  <1>4. CASE Omp
    BY <1>4, OmpSteps
  <1>5. CASE UNCHANGED laneVars
    BY <1>5, OnlyWatches, SameAsBefore DEF laneVars
  <1> QED
    BY <1>1, <1>2, <1>3, <1>4, <1>5 DEF Next

\* In every reachable state the actor holds what it submitted, and every field of
\* it and of the process has its type.
THEOREM Invariant == Spec => []IInv
  <1> QED
    BY InitHolds, NextKeeps, PTL DEF Spec

\* Every input that was handed to OMP is the active root or a steer of it, of its
\* turn and its client (settleOutstandingSteers, finishSteer, retireTaskRuntime).
THEOREM SubmittedHasHolder == Spec => []SubmittedIsHeld
  <1>1. IInv => SubmittedIsHeld
    BY DEF IInv, Held, Loose, SteerInputs, SubmittedIsHeld
  <1> QED
    BY <1>1, Invariant, PTL


Asks == {"abort", "abort_state", "status"}
Mine(v, op) == v.client # 0 /\ op.client = v.client
Own(v, op) == Mine(v, op) /\ op.turn = v.turn

\* The prompt of the active root has not been read yet.
Awaited(v) ==
    \/ \E k \in DOMAIN v.lane : v.lane[k].kind = "prompt"
    \/ v.flight.kind = "prompt" /\ v.flight.phase = "out" /\ Mine(v, v.flight)

-----------------------------------------------------------------------------
\* The actor.

\* The states of the inputs follow their places.
Ledger(v) ==
    /\ v.active # None => v.saved[v.active] = "submitted"
    /\ \A s \in v.steers : v.saved[s.input] = "submitted" /\ s.input # v.active
    /\ \A s, t \in v.steers : s.input = t.input \/ s.admission = t.admission => s = t
    /\ \A s \in v.steers : s.admission <= v.fence.admission
    /\ \A k \in DOMAIN v.queue : v.saved[v.queue[k]] = "queued"
    /\ \A j, k \in DOMAIN v.queue : v.queue[j] = v.queue[k] => j = k

\* A number once given to a client or a task is not given again.
Counters(v) ==
    /\ v.client <= v.last /\ v.flight.client <= v.last /\ v.flight.turn <= v.turn
    /\ v.flight.kind # "none" => v.flight.client # 0

\* Without a client there is no task.
Unconnected(v) ==
    v.client = 0 => v.lane = <<>> /\ v.active = None

\* What the operation stands for still holds the worker.
Granted(v, kind) ==
    /\ kind \in {"abort", "abort_state"} => v.control = "abort"
    /\ kind = "status" => v.control = "status"
    /\ kind = "compact" => v.session /\ v.active = None
    /\ kind = "abort_state" => v.active = None

Waits(v, op) ==
    /\ op.turn = v.turn /\ op.client = v.client
    /\ op.active = IF op.kind \in {"prompt", "steer"} THEN v.active ELSE None
    /\ op.kind = "prompt" => op.input = v.active /\ v.active # None
    /\ op.kind = "steer" => op.input \in SteerInputs(v)
    /\ Granted(v, op.kind)

Differ(a, b) ==
    /\ ~(a.kind \in Asks /\ b.kind \in Asks)
    /\ ~(a.kind = "compact" /\ b.kind = "compact")
    /\ ~(a.kind = "steer" /\ b.kind = "steer" /\ a.input = b.input)

\* An operation in flight that OMP has not read or that holds the worker.
Claims(v) ==
    Mine(v, v.flight) /\ (v.flight.phase = "out" \/ v.flight.kind \in Asks \cup {"compact"})

\* What waits in the lane belongs to the present task; a prompt is the first.
LaneOk(v) ==
    /\ \A k \in DOMAIN v.lane : Waits(v, v.lane[k])
    /\ \A k \in DOMAIN v.lane : v.lane[k].kind = "prompt" => k = 1 /\ ~Own(v, v.flight)
    /\ \A j, k \in DOMAIN v.lane : j # k => Differ(v.lane[j], v.lane[k])

FlightOk(v) ==
    /\ Claims(v) => Waits(v, v.flight)
    /\ Claims(v) => \A k \in DOMAIN v.lane : Differ(v.flight, v.lane[k])

Latest(v, i) == \E s \in v.steers : s.input = i /\ s.admission = v.fence.admission
OutSteer(v) == Mine(v, v.flight) /\ v.flight.kind = "steer" /\ v.flight.phase = "out"

\* The steers wait in their order: the latest is not before another.
LastSteer(v) ==
    /\ \A k \in DOMAIN v.lane : v.lane[k].kind = "steer" =>
          \E j \in DOMAIN v.lane : j >= k /\ v.lane[j].kind = "steer" /\ Latest(v, v.lane[j].input)
    /\ OutSteer(v) =>
          \/ Latest(v, v.flight.input)
          \/ \E j \in DOMAIN v.lane : v.lane[j].kind = "steer" /\ Latest(v, v.lane[j].input)

FenceOk(v) ==
    /\ v.fence.active => v.active # None /\ v.client # 0 /\ v.control # "abort"
    /\ ~v.fence.active => ~v.fence.seen /\ ~v.fence.settled /\ v.steers = {}
    /\ v.probe # "none" => v.fence.active /\ v.fence.seen /\ v.steers = {}
    /\ v.fence.seen \/ v.fence.settled => ~Awaited(v)

Actor(v) ==
    /\ v \in Actors
    /\ Ledger(v) /\ Counters(v) /\ Unconnected(v)
    /\ LaneOk(v) /\ FlightOk(v) /\ LastSteer(v) /\ FenceOk(v)

-----------------------------------------------------------------------------
\* The actor and the process p of its client; fin and st are the inputs worked off
\* and stopped.

Unsent(v, i) ==
    \/ \E k \in DOMAIN v.lane : v.lane[k].kind = "steer" /\ v.lane[k].input = i
    \/ OutSteer(v) /\ v.flight.input = i
Reported(p, i) == \E k \in DOMAIN p.events : p.events[k].type = "result" /\ p.events[k].input = i

\* A steer is in one place, from the lane to its result.
Stages(v, p) ==
    /\ \A i : i \in p.todo \/ i \in p.doing \/ Reported(p, i) =>
                i \in SteerInputs(v) /\ ~Unsent(v, i)
    /\ \A i : i \in p.todo => i \notin p.doing
    /\ \A i : i \in p.todo \/ i \in p.doing => ~Reported(p, i)
    /\ \A j, k \in DOMAIN p.events :
        /\ p.events[j].type = "result" /\ p.events[k].type = "result"
        /\ p.events[j].input = p.events[k].input
        => j = k

IdleNow(p) == p.run = "idle" /\ p.todo = {} /\ ~p.more
Rest(p) == IdleNow(p) /\ p.doing = {} /\ ~p.late
Calm(p) == Rest(p) /\ p.events = <<>>

Calmness(v, p) ==
    /\ v.client = 0 => p = Dead
    /\ v.active = None \/ Awaited(v) => Calm(p)

\* OMP was told to abort, and has nothing left to run.
Aborted(v, p) ==
    /\ ~v.fence.active /\ Mine(v, v.flight) /\ v.flight.kind = "abort" /\ v.flight.phase = "taken"
    /\ p.run = "idle" /\ ~p.late

\* OMP runs the active root, or has worked it off.
Runs(v, p, fin) ==
    /\ p.run = "idle" => p.root = None
    /\ p.root \in {None, v.active}
    /\ p.late => p.run = "idle" /\ v.active \in fin
    /\ v.active # None /\ ~Awaited(v) =>
          p.root = v.active \/ v.active \in fin \/ Aborted(v, p)
    /\ ~v.fence.active => ~p.more

Told(v, verdict, fin, st) ==
    /\ verdict = "ok" => v.active \in fin
    /\ verdict = "aborted" => v.active \in st

\* A run or a late end is not behind the last end.
Open(events, seen) ==
    \/ \E k \in DOMAIN events :
        events[k].type = "start" /\ \A j \in DOMAIN events : j > k => events[j].type # "end"
    \/ ~seen /\ \A j \in DOMAIN events : events[j].type # "end"

Ends(v, p, fin, st) ==
    /\ \A k \in DOMAIN p.events : p.events[k].type = "end" =>
          /\ Told(v, p.events[k].value, fin, st)
          /\ ~v.fence.active => k = Len(p.events) /\ p.run = "idle" /\ ~p.late
    /\ v.fence.seen => Told(v, v.fence.verdict, fin, st)
    /\ v.active # None /\ v.control = "abort" => v.active \in st
    /\ p.run # "idle" \/ p.late => Open(p.events, v.fence.seen)

\* What says that OMP has settled.
Settled(v, p) ==
    /\ v.fence.settled =>
          /\ Rest(p)
          /\ \A i : ~Unsent(v, i)
          /\ \A k \in DOMAIN p.events : p.events[k].type = "result"
    /\ \A k \in DOMAIN p.events :
          /\ p.events[k].type = "result" /\ p.events[k].value = "settled"
          /\ Latest(v, p.events[k].input)
          => Rest(p) /\ \A j \in DOMAIN p.events : j > k => p.events[j].type = "result"
    /\ v.probe = "settled" => ~p.more
    /\ v.watch.probe = "settled" => ~p.more \/ p.events # <<>>

Worked(p, fin) == \A i : Reported(p, i) => i \in fin

Matched(v, p, fin, st) ==
    /\ Stages(v, p) /\ Calmness(v, p) /\ Runs(v, p, fin)
    /\ Ends(v, p, fin, st) /\ Settled(v, p) /\ Worked(p, fin)

Good(v, p, fin, st) == Actor(v) /\ Matched(v, p, fin, st)

\* What a handler may do to the state of an input.
Moved(v, x, i, idle, fin, st) ==
    \/ x.saved[i] = v.saved[i]
    \/ /\ v.saved[i] \notin Final
       /\ \/ x.saved[i] \in Final \ {"done", "cancelled"}
          \/ x.saved[i] = "done" /\ i \in fin /\ (v.fence.active /\ i = v.active => idle)
          \/ x.saved[i] = "cancelled" /\ (v.saved[i] = "submitted" => i \in st)
          \/ v.saved[i] # "submitted" /\ x.saved[i] \notin Final

\* From one state of the actor to the next; idle says whether OMP has nothing to run.
Leads(v, x, idle, fin, st) ==
    /\ \A i \in Prompts : Moved(v, x, i, idle, fin, st)
    /\ x.last >= v.last

OInv ==
    /\ IInv
    /\ Good(w, o, finished, stopped)
    /\ DoneIsTrue

-----------------------------------------------------------------------------
\* What a handler may do to the inputs.

\* Inputs that keep their states.
LEMMA LeadsSame ==
    ASSUME NEW v, NEW x, NEW idle, NEW fin, NEW st, x.saved = v.saved, x.last >= v.last
    PROVE  Leads(v, x, idle, fin, st)
  BY DEF Leads, Moved

\* One change after another.
LEMMA LeadsOn ==
    ASSUME NEW v, NEW x, NEW y, NEW idle, NEW fin, NEW st,
           Leads(v, x, idle, fin, st), Leads(x, y, idle, fin, st),
           \/ x.active = v.active /\ x.fence.active = v.fence.active
           \/ \A i \in Prompts : y.saved[i] = "done" => x.saved[i] = "done",
           v.last \in Nat, x.last \in Nat, y.last \in Nat
    PROVE  Leads(v, y, idle, fin, st)
  <1>1. y.last >= v.last
    BY DEF Leads
  <1>2. ASSUME NEW i \in Prompts PROVE Moved(v, y, i, idle, fin, st)
    <2>1. Moved(v, x, i, idle, fin, st) /\ Moved(x, y, i, idle, fin, st)
      BY DEF Leads
    <2>2. CASE x.saved[i] = v.saved[i]
      BY <2>1, <2>2 DEF Moved
    <2>3. CASE y.saved[i] = x.saved[i]
      BY <2>1, <2>3 DEF Moved
    <2>4. CASE x.saved[i] # v.saved[i] /\ y.saved[i] # x.saved[i]
      <3>1. x.saved[i] \notin Final /\ v.saved[i] \notin Final /\ v.saved[i] # "submitted"
        BY <2>1, <2>4 DEF Moved, Final
      <3> QED
        BY <2>1, <2>4, <3>1 DEF Moved
    <2> QED
      BY <2>2, <2>3, <2>4
  <1> QED
    BY <1>1, <1>2 DEF Leads

\* One input gets a state that may follow.
LEMMA LeadsOne ==
    ASSUME NEW v, v \in Actors, NEW x, NEW i \in Prompts, NEW state \in SavedStates,
           NEW idle, NEW fin, NEW st,
           x.saved = [v.saved EXCEPT ![i] = state], x.last >= v.last,
           v.saved[i] \notin Final,
           \/ state \in Final \ {"done", "cancelled"}
           \/ state = "done" /\ i \in fin /\ (v.fence.active /\ i = v.active => idle)
           \/ state = "cancelled" /\ (v.saved[i] = "submitted" => i \in st)
           \/ v.saved[i] # "submitted" /\ state \notin Final
    PROVE  Leads(v, x, idle, fin, st)
  <1>1. v.saved \in [Prompts -> SavedStates]
    BY DEF Actors
  <1>2. \A j \in Prompts : x.saved[j] = IF j = i THEN state ELSE v.saved[j]
    BY <1>1
  <1>3. ASSUME NEW j \in Prompts PROVE Moved(v, x, j, idle, fin, st)
    <2>1. CASE j = i
      BY <1>2, <2>1 DEF Moved
    <2>2. CASE j # i
      BY <1>2, <2>2 DEF Moved
    <2> QED
      BY <2>1, <2>2
  <1> QED
    BY <1>3 DEF Leads

\* What was handed over becomes uncertain.
LEMMA LeadsUncertain ==
    ASSUME NEW v, NEW x, NEW idle, NEW fin, NEW st, x.last >= v.last,
           \A i \in Prompts : \/ x.saved[i] = v.saved[i]
                              \/ v.saved[i] = "submitted" /\ x.saved[i] = "uncertain"
    PROVE  Leads(v, x, idle, fin, st)
  BY DEF Leads, Moved, Final

-----------------------------------------------------------------------------
\* Pieces of handlers: what they change.

\* The connection, the lane and the queue stay.
Link(x, v) ==
    /\ x.client = v.client /\ x.last = v.last /\ x.turn = v.turn
    /\ x.lane = v.lane /\ x.flight = v.flight /\ x.queue = v.queue
\* So do the controls and the steers with their fence.
Grip(x, v) ==
    /\ x.control = v.control /\ x.session = v.session
    /\ x.steers = v.steers /\ x.fence = v.fence /\ x.probe = v.probe

\* The active root gets its final state, and nothing else changes but the watch.
LEMMA FinishTaskIs ==
    ASSUME NEW v, v \in Actors, v.active # None, NEW state \in Final
    PROVE  LET x == FinishTask(v, state)
           IN  /\ x \in Actors /\ Link(x, v) /\ Grip(x, v)
               /\ x.saved = [v.saved EXCEPT ![v.active] = state] /\ x.active = None
               /\ x.watch = NoWatch
  <1> DEFINE x == FinishTask(v, state)
  <1>1. NoWatch \in Watches /\ state \in SavedStates
    BY DEF NoWatch, Watches, Answers, SavedStates
  <1>2. v.active \in Prompts
    BY DEF Actors
  <1>3. x = [v EXCEPT !.saved[v.active] = state, !.active = None, !.awaiting = FALSE,
                      !.watch = NoWatch]
    BY DEF FinishTask
  <1>4. /\ x.saved = [v.saved EXCEPT ![v.active] = state] /\ x.active = None
        /\ x.watch = NoWatch /\ Link(x, v) /\ Grip(x, v)
    BY <1>3 DEF Actors, Link, Grip
  <1>5. x.saved \in [Prompts -> SavedStates]
    BY <1>1, <1>2, <1>4 DEF Actors
  <1>6. x \in Actors
    BY <1>1, <1>3, <1>4, <1>5 DEF Actors
  <1> QED
    BY <1>4, <1>6

\* The inputs that wait are cancelled, and no other.
LEMMA ClearQueueIs ==
    ASSUME NEW v, v \in Actors, Ledger(v)
    PROVE  LET x == ClearQueue(v)
           IN  /\ x \in Actors /\ Ledger(x) /\ Grip(x, v) /\ x.queue = <<>>
               /\ x.client = v.client /\ x.last = v.last /\ x.turn = v.turn
               /\ x.lane = v.lane /\ x.flight = v.flight /\ x.active = v.active
               /\ x.watch = v.watch
               /\ \A i \in Prompts : \/ x.saved[i] = v.saved[i]
                                     \/ v.saved[i] = "queued" /\ x.saved[i] = "cancelled"
  <1> DEFINE x == ClearQueue(v)
  <1>1. /\ x.saved = [i \in Prompts |-> IF \E k \in DOMAIN v.queue : v.queue[k] = i
                                          THEN "cancelled" ELSE v.saved[i]]
        /\ Grip(x, v) /\ x.queue = <<>> /\ x.client = v.client /\ x.last = v.last
        /\ x.turn = v.turn /\ x.lane = v.lane /\ x.flight = v.flight /\ x.active = v.active
        /\ x.watch = v.watch
    BY DEF ClearQueue, Actors, Grip
  <1>2. x \in Actors
    <2> DEFINE f == [i \in Prompts |-> IF \E k \in DOMAIN v.queue : v.queue[k] = i
                                        THEN "cancelled" ELSE v.saved[i]]
    <2>1. f \in [Prompts -> SavedStates]
      BY DEF Actors, SavedStates, Final
    <2>2. <<>> \in Seq(Prompts)
      OBVIOUS
    <2>3. x = [v EXCEPT !.saved = f, !.queue = <<>>]
      BY DEF ClearQueue
    <2> HIDE DEF f, x
    <2> QED
      BY <2>1, <2>2, <2>3 DEF Actors
  <1>3. \A i \in Prompts : \/ x.saved[i] = v.saved[i]
                           \/ v.saved[i] = "queued" /\ x.saved[i] = "cancelled"
    BY <1>1 DEF Ledger
  <1>4. v.active # None => v.active \in Prompts
    BY DEF Actors
  <1>5. \A s \in v.steers : s.input \in Prompts
    BY DEF Actors, SteerRequests
  <1>6. DOMAIN x.queue = {}
    BY <1>1
  <1>7. x.active # None => x.saved[x.active] = "submitted"
    BY <1>1, <1>3, <1>4 DEF Ledger
  <1>8. \A s \in x.steers : x.saved[s.input] = "submitted"
    BY <1>1, <1>3, <1>5 DEF Ledger, Grip
  <1>9. Ledger(x)
    BY <1>1, <1>6, <1>7, <1>8 DEF Ledger, Grip
  <1> QED
    BY <1>1, <1>2, <1>3, <1>9

\* The steers that are held become uncertain, and no other input.
LEMMA SettleSteersIs ==
    ASSUME NEW v, v \in Actors, Ledger(v)
    PROVE  LET x == SettleSteers(v)
           IN  /\ x \in Actors /\ Ledger(x) /\ Link(x, v) /\ x.steers = {}
               /\ x.control = v.control /\ x.session = v.session /\ x.fence = v.fence
               /\ x.probe = v.probe /\ x.watch = v.watch /\ x.active = v.active
               /\ \A i \in Prompts : \/ x.saved[i] = v.saved[i]
                                     \/ v.saved[i] = "submitted" /\ x.saved[i] = "uncertain"
  <1> DEFINE x == SettleSteers(v)
  <1>1. /\ x.saved = [i \in Prompts |-> IF i \in SteerInputs(v) THEN "uncertain" ELSE v.saved[i]]
        /\ Link(x, v) /\ x.steers = {} /\ x.control = v.control /\ x.session = v.session
        /\ x.fence = v.fence /\ x.probe = v.probe /\ x.watch = v.watch /\ x.active = v.active
    BY DEF SettleSteers, Actors, Link
  <1>2. x \in Actors
    <2> DEFINE f == [i \in Prompts |-> IF i \in SteerInputs(v) THEN "uncertain" ELSE v.saved[i]]
    <2>1. f \in [Prompts -> SavedStates]
      BY DEF Actors, SavedStates, Final
    <2>2. x = [v EXCEPT !.saved = f, !.steers = {}]
      BY DEF SettleSteers
    <2> HIDE DEF f, x
    <2> QED
      BY <2>1, <2>2 DEF Actors
  <1>3. \A i \in Prompts : \/ x.saved[i] = v.saved[i]
                           \/ i \in SteerInputs(v) /\ v.saved[i] = "submitted" /\ x.saved[i] = "uncertain"
    BY <1>1 DEF Ledger, SteerInputs
  <1>4. v.active # None => v.active \in Prompts /\ v.active \notin SteerInputs(v)
    BY DEF Actors, Ledger, SteerInputs
  <1>5. \A k \in DOMAIN v.queue : v.queue[k] \in Prompts
    BY DEF Actors
  <1>6. Ledger(x)
    BY <1>1, <1>3, <1>4, <1>5 DEF Ledger, Link
  <1> QED
    BY <1>1, <1>2, <1>3, <1>6

\* Enough for a task to be torn down.
Base(v) ==
    /\ v \in Actors
    /\ Ledger(v) /\ Counters(v)
    /\ v.steers # {} => v.fence.active

\* Nothing is left of a client or of a task.
Freed(v) ==
    /\ v.client = 0 /\ v.lane = <<>> /\ v.active = None /\ v.steers = {}
    /\ ~v.fence.active /\ ~v.fence.seen /\ ~v.fence.settled
    /\ v.probe = "none" /\ v.watch.probe # "settled"

\* A released runtime leaves no client, no lane and no steer; the task stays.
LEMMA ReleaseIs ==
    ASSUME NEW v, Base(v)
    PROVE  LET x == Release(v)
           IN  /\ Base(x) /\ x.client = 0 /\ x.lane = <<>> /\ x.steers = {} /\ x.probe = "none"
               /\ x.watch = NoWatch /\ x.active = v.active /\ x.fence = v.fence
               /\ x.last = v.last /\ x.turn = v.turn /\ x.flight = v.flight
               /\ x.queue = v.queue /\ x.control = v.control /\ x.session = v.session
               /\ \A i \in Prompts : \/ x.saved[i] = v.saved[i]
                                     \/ v.saved[i] = "submitted" /\ x.saved[i] = "uncertain"
  <1> DEFINE u == [v EXCEPT !.client = 0, !.lane = <<>>, !.awaiting = FALSE,
                            !.watch = NoWatch, !.probe = "none"]
             x == Release(v)
  <1>1. v \in Actors /\ Ledger(v) /\ Counters(v)
    BY DEF Base
  <1>2. NoWatch \in Watches /\ <<>> \in Seq(Requests)
    BY DEF NoWatch, Watches, Answers
  <1>3. /\ u \in Actors /\ u.saved = v.saved /\ u.active = v.active /\ u.steers = v.steers
        /\ u.fence = v.fence /\ u.client = 0 /\ u.lane = <<>> /\ u.probe = "none"
        /\ u.watch = NoWatch /\ u.last = v.last /\ u.turn = v.turn /\ u.flight = v.flight
        /\ u.queue = v.queue /\ u.control = v.control /\ u.session = v.session
    BY <1>1, <1>2 DEF Actors, Answers
  <1>4. Ledger(u)
    BY <1>1, <1>3 DEF Ledger
  <1>5. v.last \in Nat /\ 0 <= v.last
    BY <1>1 DEF Actors
  <1>6. x = IF v.fence.active THEN SettleSteers(u) ELSE u
    BY DEF Release
  <1>7. CASE v.fence.active
    <2>1. x = SettleSteers(u)
      BY <1>6, <1>7
    <2> HIDE DEF u
    <2>2. /\ x \in Actors /\ Ledger(x) /\ Link(x, u) /\ x.steers = {}
          /\ x.control = u.control /\ x.session = u.session /\ x.fence = u.fence
          /\ x.probe = u.probe /\ x.watch = u.watch /\ x.active = u.active
          /\ \A i \in Prompts : \/ x.saved[i] = u.saved[i]
                                \/ u.saved[i] = "submitted" /\ x.saved[i] = "uncertain"
      BY <1>3, <1>4, <2>1, SettleSteersIs
    <2>3. Counters(x)
      BY <1>1, <1>3, <1>5, <2>2 DEF Counters, Link
    <2> QED
      BY <1>3, <2>2, <2>3 DEF Base, Link
  <1>8. CASE ~v.fence.active
    <2>1. x = u /\ v.steers = {}
      BY <1>6, <1>8 DEF Base
    <2> HIDE DEF u
    <2>3. Counters(x)
      BY <1>1, <1>3, <1>5, <2>1 DEF Counters
    <2> QED
      BY <1>3, <1>4, <2>1, <2>3 DEF Base
  <1> QED
    BY <1>7, <1>8

\* A released task is settled.
LEMMA FinishReleased ==
    ASSUME NEW v, Base(v), v.client = 0, v.lane = <<>>, v.steers = {}, v.probe = "none",
           v.watch = NoWatch, NEW state \in Final
    PROVE  LET x == FinishTask(v, state)
           IN  /\ Base(x) /\ x.client = 0 /\ x.lane = <<>> /\ x.steers = {} /\ x.probe = "none"
               /\ x.watch = NoWatch /\ x.active = None /\ x.fence = v.fence /\ x.last = v.last
               /\ x.turn = v.turn /\ x.flight = v.flight /\ x.queue = v.queue
               /\ x.control = v.control /\ x.session = v.session
               /\ \A i \in Prompts : \/ x.saved[i] = v.saved[i]
                                     \/ /\ v.saved[i] = "submitted" /\ i = v.active
                                        /\ x.saved[i] = state
  <1> DEFINE x == FinishTask(v, state)
  <1>1. v \in Actors /\ Ledger(v) /\ Counters(v)
    BY DEF Base
  <1>2. CASE v.active = None
    BY <1>2 DEF FinishTask
  <1>3. CASE v.active # None
    <2>1. /\ x \in Actors /\ Link(x, v) /\ Grip(x, v)
          /\ x.saved = [v.saved EXCEPT ![v.active] = state] /\ x.active = None
          /\ x.watch = NoWatch
      BY <1>1, <1>3, FinishTaskIs
    <2>2. v.active \in Prompts /\ v.saved \in [Prompts -> SavedStates]
      BY <1>1, <1>3 DEF Actors
    <2>3. v.saved[v.active] = "submitted"
      BY <1>1, <1>3 DEF Ledger
    <2>4. \A i \in Prompts : \/ x.saved[i] = v.saved[i] /\ i # v.active
                             \/ /\ v.saved[i] = "submitted" /\ i = v.active
                                /\ x.saved[i] = state
      BY <2>1, <2>2, <2>3
    <2>5. \A k \in DOMAIN v.queue : v.queue[k] \in Prompts /\ v.queue[k] # v.active
      BY <1>1, <2>3 DEF Actors, Ledger
    <2>6. Ledger(x)
      BY <1>1, <2>1, <2>4, <2>5 DEF Ledger, Link, Grip
    <2>7. Counters(x)
      BY <1>1, <2>1 DEF Counters, Link
    <2> QED
      BY <2>1, <2>4, <2>6, <2>7 DEF Base, Link, Grip
  <1> QED
    BY <1>2, <1>3

\* A retired runtime leaves nothing at all, and what was submitted is uncertain.
LEMMA RetireFrees ==
    ASSUME NEW v, Base(v)
    PROVE  LET x == RetireTaskRuntime(v)
           IN  /\ Base(x) /\ Freed(x) /\ x.last = v.last
               /\ \A i \in Prompts : \/ x.saved[i] = v.saved[i]
                                     \/ v.saved[i] = "submitted" /\ x.saved[i] = "uncertain"
  <1> DEFINE r == Release(v)
             c == [r EXCEPT !.control = "none", !.session = FALSE]
             u == SettleSteers(c)
             y == FinishTask(u, "uncertain")
             x == RetireTaskRuntime(v)
  <1>1. /\ Base(r) /\ r.client = 0 /\ r.lane = <<>> /\ r.steers = {} /\ r.probe = "none"
        /\ r.watch = NoWatch /\ r.last = v.last
        /\ \A i \in Prompts : \/ r.saved[i] = v.saved[i]
                              \/ v.saved[i] = "submitted" /\ r.saved[i] = "uncertain"
    BY ReleaseIs
  <1>2. x = [y EXCEPT !.fence = NoFence]
    BY DEF RetireTaskRuntime
  <1> HIDE DEF r
  <1>3. r \in Actors /\ Ledger(r) /\ Counters(r)
    BY <1>1 DEF Base
  <1>4. /\ c \in Actors /\ c.saved = r.saved /\ c.active = r.active /\ c.steers = r.steers
        /\ c.queue = r.queue /\ c.fence = r.fence /\ c.client = r.client /\ c.lane = r.lane
        /\ c.probe = r.probe /\ c.watch = r.watch /\ c.last = r.last /\ c.turn = r.turn
        /\ c.flight = r.flight
    BY <1>3 DEF Actors
  <1> HIDE DEF c
  <1>5. Ledger(c)
    BY <1>3, <1>4 DEF Ledger
  <1>6. /\ u \in Actors /\ Ledger(u) /\ Link(u, c) /\ u.steers = {} /\ u.fence = c.fence
        /\ u.probe = c.probe /\ u.watch = c.watch
        /\ \A i \in Prompts : \/ u.saved[i] = c.saved[i]
                              \/ c.saved[i] = "submitted" /\ u.saved[i] = "uncertain"
    BY <1>4, <1>5, SettleSteersIs
  <1> HIDE DEF u
  <1>7. Counters(u) /\ Base(u)
    BY <1>3, <1>4, <1>6 DEF Counters, Base, Link
  <1>8. "uncertain" \in Final
    BY DEF Final
  <1>9. u.client = 0 /\ u.lane = <<>> /\ u.watch = NoWatch /\ u.probe = "none" /\ u.last = v.last
    BY <1>1, <1>4, <1>6 DEF Link
  <1>10. /\ Base(y) /\ y.client = 0 /\ y.lane = <<>> /\ y.steers = {} /\ y.probe = "none"
         /\ y.watch = NoWatch /\ y.active = None /\ y.last = u.last
         /\ \A i \in Prompts : \/ y.saved[i] = u.saved[i]
                               \/ u.saved[i] = "submitted" /\ y.saved[i] = "uncertain"
    BY <1>6, <1>7, <1>8, <1>9, FinishReleased
  <1> HIDE DEF y
  <1>11. y \in Actors /\ Ledger(y) /\ Counters(y)
    BY <1>10 DEF Base
  <1>12. NoFence \in Fences /\ ~NoFence.active /\ ~NoFence.seen /\ ~NoFence.settled
    BY DEF NoFence, Fences, Verdicts
  <1>13. /\ x \in Actors /\ x.saved = y.saved /\ x.active = y.active /\ x.steers = y.steers
         /\ x.queue = y.queue /\ x.fence = NoFence /\ x.client = y.client /\ x.lane = y.lane
         /\ x.probe = y.probe /\ x.watch = y.watch /\ x.last = y.last /\ x.turn = y.turn
         /\ x.flight = y.flight
    BY <1>2, <1>11, <1>12 DEF Actors
  <1>14. Ledger(x) /\ Counters(x)
    BY <1>10, <1>11, <1>13 DEF Ledger, Counters
  <1>15. Base(x) /\ Freed(x)
    BY <1>10, <1>12, <1>13, <1>14 DEF Base, Freed, NoWatch
  <1>16. \A i \in Prompts : \/ x.saved[i] = v.saved[i]
                            \/ v.saved[i] = "submitted" /\ x.saved[i] = "uncertain"
    BY <1>1, <1>4, <1>6, <1>10, <1>13
  <1> QED
    BY <1>9, <1>10, <1>13, <1>15, <1>16

\* Closing the conversation leaves nothing, and what was submitted is uncertain.
LEMMA TeardownFrees ==
    ASSUME NEW v, Base(v), NEW idle, NEW fin, NEW st
    PROVE  LET x == Teardown(v)
           IN  Base(x) /\ Freed(x) /\ Leads(v, x, idle, fin, st)
  <1> DEFINE q == ClearQueue(v)
             u == [q EXCEPT !.turn = @ + 1, !.session = FALSE, !.control = "none"]
             r == Release(u)
             y == FinishTask(r, "uncertain")
             x == Teardown(v)
  <1>1. v \in Actors /\ Ledger(v) /\ Counters(v)
    BY DEF Base
  <1>2. /\ q \in Actors /\ Ledger(q) /\ Grip(q, v) /\ q.client = v.client /\ q.last = v.last
        /\ q.turn = v.turn /\ q.flight = v.flight
        /\ \A i \in Prompts : \/ q.saved[i] = v.saved[i]
                              \/ v.saved[i] = "queued" /\ q.saved[i] = "cancelled"
    BY <1>1, ClearQueueIs
  <1> HIDE DEF q
  <1>3. /\ u \in Actors /\ u.saved = q.saved /\ u.active = q.active /\ u.steers = q.steers
        /\ u.queue = q.queue /\ u.fence = q.fence /\ u.client = q.client /\ u.last = q.last
        /\ u.turn = q.turn + 1 /\ u.flight = q.flight
    <2>1. q.turn + 1 \in Nat
      BY <1>2 DEF Actors
    <2> QED
      BY <1>2, <2>1 DEF Actors
  <1> HIDE DEF u
  <1>4. Ledger(u)
    BY <1>2, <1>3 DEF Ledger
  <1>5. Counters(u)
    <2>1. v.turn \in Nat /\ v.flight.turn \in Nat
      BY <1>1 DEF Actors, Requests, NoOperation
    <2> QED
      BY <1>1, <1>2, <1>3, <2>1 DEF Counters
  <1>6. Base(u)
    BY <1>2, <1>3, <1>4, <1>5 DEF Base, Grip
  <1>7. /\ Base(r) /\ r.client = 0 /\ r.lane = <<>> /\ r.steers = {} /\ r.probe = "none"
        /\ r.watch = NoWatch /\ r.last = u.last
        /\ \A i \in Prompts : \/ r.saved[i] = u.saved[i]
                              \/ u.saved[i] = "submitted" /\ r.saved[i] = "uncertain"
    BY <1>6, ReleaseIs
  <1> HIDE DEF r
  <1>8. "uncertain" \in Final
    BY DEF Final
  <1>9. /\ Base(y) /\ y.client = 0 /\ y.lane = <<>> /\ y.steers = {} /\ y.probe = "none"
        /\ y.watch = NoWatch /\ y.active = None /\ y.last = r.last
        /\ \A i \in Prompts : \/ y.saved[i] = r.saved[i]
                              \/ r.saved[i] = "submitted" /\ y.saved[i] = "uncertain"
    BY <1>7, <1>8, FinishReleased
  <1>10. x = [y EXCEPT !.fence = NoFence]
    BY DEF Teardown, q, u, r
  <1> HIDE DEF y
  <1>11. y \in Actors /\ Ledger(y) /\ Counters(y)
    BY <1>9 DEF Base
  <1>12. NoFence \in Fences /\ ~NoFence.active /\ ~NoFence.seen /\ ~NoFence.settled
    BY DEF NoFence, Fences, Verdicts
  <1>13. /\ x \in Actors /\ x.saved = y.saved /\ x.active = y.active /\ x.steers = y.steers
         /\ x.queue = y.queue /\ x.fence = NoFence /\ x.client = y.client /\ x.lane = y.lane
         /\ x.probe = y.probe /\ x.watch = y.watch /\ x.last = y.last /\ x.turn = y.turn
         /\ x.flight = y.flight
    BY <1>10, <1>11, <1>12 DEF Actors
  <1>14. Ledger(x) /\ Counters(x)
    BY <1>9, <1>11, <1>13 DEF Ledger, Counters
  <1>15. Base(x) /\ Freed(x)
    BY <1>9, <1>12, <1>13, <1>14 DEF Base, Freed, NoWatch
  <1>16. ASSUME NEW i \in Prompts
         PROVE  \/ x.saved[i] = v.saved[i]
                \/ v.saved[i] = "queued" /\ x.saved[i] = "cancelled"
                \/ v.saved[i] = "submitted" /\ x.saved[i] = "uncertain"
    BY <1>2, <1>3, <1>7, <1>9, <1>13
  <1>17. x.last >= v.last
    BY <1>1, <1>2, <1>3, <1>7, <1>9, <1>13 DEF Actors
  <1>18. Leads(v, x, idle, fin, st)
    BY <1>16, <1>17 DEF Leads, Moved, Final
  <1> QED
    BY <1>15, <1>18

-----------------------------------------------------------------------------
\* The actor and the process.

\* Without a client nothing is left to be said.
LEMMA FreedIsGood ==
    ASSUME NEW v, Base(v), Freed(v), NEW fin, NEW st
    PROVE  Good(v, Dead, fin, st)
  <1>1. v \in Actors /\ Ledger(v) /\ Counters(v)
    BY DEF Base
  <1>2. DOMAIN v.lane = {} /\ v.client = 0
    BY DEF Freed
  <1>3. LaneOk(v) /\ FlightOk(v) /\ LastSteer(v) /\ Unconnected(v)
    BY <1>2 DEF LaneOk, FlightOk, LastSteer, Unconnected, Claims, OutSteer, Mine, Freed
  <1>4. FenceOk(v)
    BY DEF FenceOk, Freed
  <1>5. Actor(v)
    BY <1>1, <1>3, <1>4 DEF Actor
  <1>6. DOMAIN Dead.events = {} /\ Calm(Dead) /\ Dead.root = None
    BY DEF Dead, Calm, Rest, IdleNow
  <1>7. Matched(v, Dead, fin, st)
    <2>1. Stages(v, Dead)
      BY <1>6 DEF Stages, Reported, Calm, Rest, IdleNow
    <2>2. Calmness(v, Dead)
      BY <1>6 DEF Calmness
    <2>3. Runs(v, Dead, fin)
      BY <1>6 DEF Runs, Calm, Rest, IdleNow, Freed
    <2>4. Ends(v, Dead, fin, st)
      BY <1>6 DEF Ends, Calm, Rest, IdleNow, Freed
    <2>5. Settled(v, Dead) /\ Worked(Dead, fin)
      BY <1>6 DEF Settled, Worked, Reported, Calm, Rest, IdleNow, Freed
    <2> QED
      BY <2>1, <2>2, <2>3, <2>4, <2>5 DEF Matched
  <1> QED
    BY <1>5, <1>7 DEF Good

\* A process with nothing to do or to say fits whoever expects nothing of it.
LEMMA CalmIsMatched ==
    ASSUME NEW v, NEW p, NEW fin, NEW st,
           Calm(p), p.root = None, v.client = 0 => p = Dead,
           v.active = None \/ Awaited(v), ~v.fence.seen, ~v.fence.settled,
           v.active # None => v.control # "abort"
    PROVE  Matched(v, p, fin, st)
  <1>6. DOMAIN p.events = {}
    BY DEF Calm
  <1>1. Stages(v, p)
    BY <1>6 DEF Stages, Reported, Calm, Rest, IdleNow
  <1>2. Calmness(v, p)
    BY DEF Calmness
  <1>3. Runs(v, p, fin)
    BY DEF Runs, Calm, Rest, IdleNow
  <1>4. Ends(v, p, fin, st)
    BY <1>6 DEF Ends, Calm, Rest, IdleNow
  <1>5. Settled(v, p) /\ Worked(p, fin)
    BY <1>6 DEF Settled, Worked, Reported, Calm, Rest, IdleNow
  <1> QED
    BY <1>1, <1>2, <1>3, <1>4, <1>5 DEF Matched

\* What the invariant is about is the same.
Like(x, v) ==
    /\ x \in Actors
    /\ Link(x, v) /\ x.saved = v.saved /\ x.active = v.active
    /\ x.control = v.control /\ x.session = v.session
    /\ x.steers = v.steers /\ x.fence = v.fence

\* A change of the two probes keeps the accord when they say what is true.
LEMMA LikeGood ==
    ASSUME NEW v, NEW x, NEW p, NEW fin, NEW st, Good(v, p, fin, st), Like(x, v),
           x.probe # "none" => x.fence.active /\ x.fence.seen /\ x.steers = {},
           x.probe = "settled" => ~p.more,
           x.watch.probe = "settled" => ~p.more \/ p.events # <<>>
    PROVE  Good(x, p, fin, st)
  <1> USE DEF Like, Link
  <1>1. v \in Actors /\ Actor(v) /\ Matched(v, p, fin, st)
    BY DEF Good, Actor
  <1>2. Ledger(x) /\ Counters(x) /\ Unconnected(x)
    BY <1>1 DEF Actor, Ledger, Counters, Unconnected
  <1>3. Awaited(x) = Awaited(v) /\ Claims(x) = Claims(v) /\ OutSteer(x) = OutSteer(v)
    BY DEF Awaited, Claims, OutSteer, Mine
  <1>4. \A op : (Waits(x, op) <=> Waits(v, op)) /\ (Own(x, op) <=> Own(v, op))
    BY DEF Waits, Own, Mine, Granted, SteerInputs
  <1>5. \A i : (Latest(x, i) <=> Latest(v, i)) /\ (Unsent(x, i) <=> Unsent(v, i))
    BY <1>3 DEF Latest, Unsent
  <1>6. LaneOk(x) /\ FlightOk(x) /\ LastSteer(x)
    <2>1. LaneOk(x)
      BY <1>1, <1>4 DEF Actor, LaneOk
    <2>2. FlightOk(x)
      BY <1>1, <1>3, <1>4 DEF Actor, FlightOk
    <2>3. LastSteer(x)
      BY <1>1, <1>3, <1>5 DEF Actor, LastSteer
    <2> QED
      BY <2>1, <2>2, <2>3
  <1>7. FenceOk(x)
    BY <1>1, <1>3 DEF Actor, FenceOk
  <1>8. Actor(x)
    BY <1>2, <1>6, <1>7 DEF Actor
  <1>9. Stages(x, p) /\ Calmness(x, p)
    BY <1>1, <1>3, <1>5 DEF Matched, Stages, Calmness, SteerInputs
  <1>10. Runs(x, p, fin) /\ Ends(x, p, fin, st)
    BY <1>1, <1>3 DEF Matched, Runs, Ends, Aborted, Told, Mine
  <1>11. Settled(x, p) /\ Worked(p, fin)
    BY <1>1, <1>5 DEF Matched, Settled
  <1> QED
    BY <1>8, <1>9, <1>10, <1>11 DEF Good, Matched

-----------------------------------------------------------------------------
\* The lane.

\* The rest of a sequence, by index.
LEMMA TailOfLane ==
    ASSUME NEW S, NEW q \in Seq(S), q # <<>>
    PROVE  /\ 1 \in DOMAIN q /\ Head(q) = q[1] /\ Head(q) \in S /\ Tail(q) \in Seq(S)
           /\ \A k \in DOMAIN Tail(q) : k + 1 \in DOMAIN q /\ Tail(q)[k] = q[k + 1]
           /\ \A k \in DOMAIN q : k # 1 => k - 1 \in DOMAIN Tail(q) /\ Tail(q)[k - 1] = q[k]
           /\ Len(Tail(q)) = Len(q) - 1 /\ DOMAIN q = 1 .. Len(q) /\ Len(q) \in Nat
           /\ DOMAIN Tail(q) = 1 .. Len(q) - 1
  OBVIOUS

\* The head of the lane leaves.
LEMMA HeadLeaves ==
    ASSUME NEW v, NEW p, NEW fin, NEW st, Good(v, p, fin, st),
           v.flight = NoOperation, v.exiting = 0, v.lane # <<>>
    PROVE  LET x == DispatchOperation(v)
           IN  /\ Good(x, p, fin, st)
               /\ x.saved = v.saved /\ x.last = v.last /\ x.client = v.client
               /\ x.active = v.active /\ x.fence = v.fence
  <1> DEFINE x == DispatchOperation(v)
             h == Head(v.lane)
             f == [h EXCEPT !.phase = "out"]
             t == Tail(v.lane)
  <1>1. v \in Actors /\ Actor(v) /\ Matched(v, p, fin, st)
    BY DEF Good, Actor
  <1>2. v.lane \in Seq(Requests)
    BY <1>1 DEF Actors
  <1>3. /\ 1 \in DOMAIN v.lane /\ h = v.lane[1] /\ h \in Requests /\ t \in Seq(Requests)
        /\ \A k \in DOMAIN t : k + 1 \in DOMAIN v.lane /\ t[k] = v.lane[k + 1]
        /\ \A k \in DOMAIN v.lane : k # 1 => k - 1 \in DOMAIN t /\ t[k - 1] = v.lane[k]
        /\ DOMAIN v.lane = 1 .. Len(v.lane) /\ DOMAIN t = 1 .. Len(v.lane) - 1
        /\ Len(v.lane) \in Nat
    BY <1>2, TailOfLane
  <1>4. /\ f \in Requests /\ f.kind = h.kind /\ f.input = h.input /\ f.active = h.active
        /\ f.turn = h.turn /\ f.client = h.client /\ f.phase = "out"
    BY <1>3 DEF Requests, Phases
  <1> HIDE DEF h, f, t
  <1>5. /\ x \in Actors /\ x.flight = f /\ x.lane = t /\ x.saved = v.saved /\ x.queue = v.queue
        /\ x.active = v.active /\ x.turn = v.turn /\ x.client = v.client /\ x.last = v.last
        /\ x.control = v.control /\ x.session = v.session /\ x.steers = v.steers
        /\ x.fence = v.fence /\ x.probe = v.probe /\ x.watch = v.watch
    <2>1. x = [v EXCEPT !.flight = f, !.lane = t]
      BY DEF f, t, h, DispatchOperation
    <2>2. f \in Requests \cup {NoOperation} /\ t \in Seq(Requests)
      BY <1>3, <1>4
    <2>3. x \in Actors
      BY <1>1, <2>1, <2>2 DEF Actors
    <2> QED
      BY <1>1, <2>1, <2>3 DEF Actors
  <1>6. LaneOk(v) /\ FlightOk(v) /\ LastSteer(v) /\ FenceOk(v)
    BY <1>1 DEF Actor
  <1>7. Waits(v, h)
    BY <1>3, <1>6 DEF LaneOk
  <1>8. v.client # 0 /\ f.client = v.client /\ f.turn = v.turn
    BY <1>1, <1>4, <1>7 DEF Actor, Unconnected, Waits
  <1>9. Mine(x, x.flight) /\ Own(x, x.flight) /\ Claims(x) /\ Waits(x, f)
    BY <1>4, <1>5, <1>7, <1>8 DEF Mine, Own, Claims, Waits, Granted, SteerInputs
  <1>10. NoOperation.kind = "none" /\ ~Mine(v, v.flight)
    BY <1>8 DEF Mine, NoOperation
  <1>11. \A op : Waits(x, op) <=> Waits(v, op)
    BY <1>5 DEF Waits, Granted, SteerInputs
  <1>12. \A i : Latest(x, i) <=> Latest(v, i)
    BY <1>5 DEF Latest
  <1>13. Awaited(x) <=> Awaited(v)
    <2>1. ASSUME Awaited(x) PROVE Awaited(v)
      BY <1>3, <1>4, <1>5, <2>1 DEF Awaited
    <2>2. ASSUME Awaited(v) PROVE Awaited(x)
      <3>1. PICK k \in DOMAIN v.lane : v.lane[k].kind = "prompt"
        BY <1>10, <2>2 DEF Awaited
      <3>2. CASE k = 1
        BY <1>3, <1>4, <1>5, <1>9, <3>1, <3>2 DEF Awaited
      <3>3. CASE k # 1
        BY <1>3, <1>5, <3>1, <3>3 DEF Awaited
      <3> QED
        BY <3>2, <3>3
    <2> QED
      BY <2>1, <2>2
  <1>14. \A i : Unsent(x, i) <=> Unsent(v, i)
    <2>1. ASSUME NEW i, Unsent(x, i) PROVE Unsent(v, i)
      <3>1. CASE \E k \in DOMAIN t : t[k].kind = "steer" /\ t[k].input = i
        BY <1>3, <3>1 DEF Unsent
      <3>2. CASE h.kind = "steer" /\ h.input = i
        BY <1>3, <3>2 DEF Unsent
      <3> QED
        BY <1>4, <1>5, <2>1, <3>1, <3>2 DEF Unsent, OutSteer
    <2>2. ASSUME NEW i, Unsent(v, i) PROVE Unsent(x, i)
      <3>1. PICK k \in DOMAIN v.lane : v.lane[k].kind = "steer" /\ v.lane[k].input = i
        BY <1>10, <2>2 DEF Unsent, OutSteer
      <3>2. CASE k = 1
        BY <1>3, <1>4, <1>5, <1>9, <3>1, <3>2 DEF Unsent, OutSteer
      <3>3. CASE k # 1
        BY <1>3, <1>5, <3>1, <3>3 DEF Unsent
      <3> QED
        BY <3>2, <3>3
    <2> QED
      BY <2>1, <2>2
  <1>15. LaneOk(x)
    <2>1. \A k \in DOMAIN x.lane : Waits(x, x.lane[k])
      BY <1>3, <1>5, <1>6, <1>11 DEF LaneOk
    <2>2. \A k \in DOMAIN x.lane : x.lane[k].kind # "prompt"
      BY <1>3, <1>5, <1>6 DEF LaneOk
    <2>3. ASSUME NEW j \in DOMAIN x.lane, NEW k \in DOMAIN x.lane, j # k
          PROVE  Differ(x.lane[j], x.lane[k])
      <3>1. j + 1 \in DOMAIN v.lane /\ k + 1 \in DOMAIN v.lane /\ j + 1 # k + 1
        BY <1>3, <1>5, <2>3
      <3>2. Differ(v.lane[j + 1], v.lane[k + 1])
        BY <1>6, <3>1 DEF LaneOk
      <3> QED
        BY <1>3, <1>5, <3>2
    <2> QED
      BY <2>1, <2>2, <2>3 DEF LaneOk
  <1>16. FlightOk(x)
    <2>1. ASSUME NEW k \in DOMAIN x.lane PROVE Differ(x.flight, x.lane[k])
      <3>1. Differ(h, t[k])
        <4>1. k \in 1 .. Len(v.lane) - 1 /\ k \in DOMAIN t
          BY <1>3, <1>5
        <4>2. k + 1 \in DOMAIN v.lane /\ t[k] = v.lane[k + 1] /\ 1 # k + 1
          BY <1>3, <4>1
        <4>3. Differ(v.lane[1], v.lane[k + 1])
          BY <1>3, <1>6, <4>2 DEF LaneOk
        <4> QED
          BY <1>3, <4>2, <4>3
      <3> QED
        BY <1>4, <1>5, <3>1 DEF Differ
    <2> QED
      BY <1>5, <1>9, <2>1 DEF FlightOk
  <1>17. LastSteer(x)
    <2>1. ASSUME NEW k \in DOMAIN x.lane, x.lane[k].kind = "steer"
          PROVE  \E j \in DOMAIN x.lane : /\ j >= k /\ x.lane[j].kind = "steer"
                                          /\ Latest(x, x.lane[j].input)
      <3>1. k + 1 \in DOMAIN v.lane /\ v.lane[k + 1].kind = "steer"
        BY <1>3, <1>5, <2>1
      <3>2. PICK j \in DOMAIN v.lane : /\ j >= k + 1 /\ v.lane[j].kind = "steer"
                                       /\ Latest(v, v.lane[j].input)
        BY <1>6, <3>1 DEF LastSteer
      <3>3. j - 1 \in DOMAIN x.lane /\ j - 1 >= k /\ x.lane[j - 1] = v.lane[j]
        <4>1. k \in 1 .. Len(v.lane) - 1 /\ j \in 1 .. Len(v.lane)
          BY <1>3, <1>5
        <4>2. j # 1 /\ j - 1 >= k
          BY <1>3, <3>2, <4>1
        <4> QED
          BY <1>3, <1>5, <4>2
      <3> QED
        BY <1>12, <3>2, <3>3
    <2>2. ASSUME OutSteer(x)
          PROVE  \/ Latest(x, x.flight.input)
                 \/ \E j \in DOMAIN x.lane : x.lane[j].kind = "steer" /\ Latest(x, x.lane[j].input)
      <3>1. h.kind = "steer"
        BY <1>4, <1>5, <2>2 DEF OutSteer
      <3>2. PICK j \in DOMAIN v.lane : /\ j >= 1 /\ v.lane[j].kind = "steer"
                                       /\ Latest(v, v.lane[j].input)
        BY <1>3, <1>6, <3>1 DEF LastSteer
      <3>3. CASE j = 1
        BY <1>3, <1>4, <1>5, <1>12, <3>2, <3>3
      <3>4. CASE j # 1
        <4>1. j - 1 \in DOMAIN x.lane /\ x.lane[j - 1] = v.lane[j]
          BY <1>3, <1>5, <3>2, <3>4
        <4> QED
          BY <1>12, <3>2, <4>1
      <3> QED
        BY <3>3, <3>4
    <2> QED
      BY <2>1, <2>2 DEF LastSteer
  <1>18. FenceOk(x)
    BY <1>5, <1>6, <1>13 DEF FenceOk
  <1>19. Ledger(x) /\ Counters(x) /\ Unconnected(x)
    <2>1. v.client <= v.last /\ v.client \in Nat /\ v.last \in Nat /\ v.turn \in Nat
      BY <1>1 DEF Actors, Actor, Counters
    <2>2. Ledger(x) /\ Unconnected(x)
      BY <1>1, <1>5, <1>8 DEF Actor, Ledger, Unconnected
    <2>3. Counters(x)
      BY <1>5, <1>8, <2>1 DEF Counters
    <2> QED
      BY <2>2, <2>3
  <1>20. Actor(x)
    BY <1>5, <1>15, <1>16, <1>17, <1>18, <1>19 DEF Actor
  <1>21. Stages(x, p) /\ Calmness(x, p)
    BY <1>1, <1>5, <1>13, <1>14 DEF Matched, Stages, Calmness, SteerInputs
  <1>22. ~Aborted(v, p)
    BY <1>10 DEF Aborted
  <1>23. Runs(x, p, fin) /\ Ends(x, p, fin, st)
    BY <1>1, <1>5, <1>13, <1>22 DEF Matched, Runs, Ends, Told
  <1>24. Settled(x, p) /\ Worked(p, fin)
    BY <1>1, <1>5, <1>12, <1>14 DEF Matched, Settled
  <1> QED
    BY <1>5, <1>20, <1>21, <1>23, <1>24 DEF Good, Matched

\* The operation at the head of the lane, if it may leave, leaves it in accord.
LEMMA DispatchGood ==
    ASSUME NEW v, NEW p, NEW fin, NEW st, Good(v, p, fin, st)
    PROVE  LET x == DispatchOperation(v)
           IN  /\ Good(x, p, fin, st)
               /\ x.saved = v.saved /\ x.last = v.last /\ x.client = v.client
               /\ x.active = v.active /\ x.fence = v.fence
  <1>1. v \in Actors
    BY DEF Good, Actor
  <1>2. CASE v.flight # NoOperation \/ v.exiting # 0 \/ v.lane = <<>>
    BY <1>2 DEF DispatchOperation
  <1>3. CASE ~(v.flight # NoOperation \/ v.exiting # 0 \/ v.lane = <<>>)
    BY <1>3, HeadLeaves
  <1> QED
    BY <1>2, <1>3

\* Nothing of these kinds waits or holds the worker.
Without(v, kinds) ==
    /\ \A k \in DOMAIN v.lane : v.lane[k].kind \notin kinds
    /\ Claims(v) => v.flight.kind \notin kinds

\* The request that StartOperation puts into the lane.
Request(v, kind, input, active) ==
    [NoOperation EXCEPT !.kind = kind, !.input = input, !.active = active,
                        !.turn = v.turn, !.client = v.client]
Queued(v, kind, input, active) ==
    [v EXCEPT !.lane = Append(@, Request(v, kind, input, active)), !.watch = NoWatch]

\* A request at the end of the lane.
LEMMA QueuedIs ==
    ASSUME NEW v, v \in Actors, NEW kind \in Kinds \ {"none"},
           NEW input \in Prompts \cup {None}, NEW active \in Prompts \cup {None}
    PROVE  LET x == Queued(v, kind, input, active)
               r == Request(v, kind, input, active)
           IN  /\ StartOperation(v, kind, input, active) = DispatchOperation(x)
               /\ x \in Actors /\ x.lane = Append(v.lane, r) /\ x.watch = NoWatch
               /\ x.client = v.client /\ x.last = v.last /\ x.turn = v.turn
               /\ x.flight = v.flight /\ x.queue = v.queue /\ Grip(x, v)
               /\ x.saved = v.saved /\ x.active = v.active
               /\ r \in Requests /\ r.kind = kind /\ r.input = input /\ r.active = active
               /\ r.turn = v.turn /\ r.client = v.client
               /\ DOMAIN x.lane = 1 .. Len(v.lane) + 1 /\ DOMAIN v.lane = 1 .. Len(v.lane)
               /\ Len(v.lane) \in Nat
               /\ \A k \in DOMAIN v.lane : k \in DOMAIN x.lane /\ x.lane[k] = v.lane[k]
               /\ \A k \in DOMAIN x.lane : k = Len(v.lane) + 1 \/ k \in DOMAIN v.lane
               /\ Len(v.lane) + 1 \in DOMAIN x.lane /\ x.lane[Len(v.lane) + 1] = r
  <1> DEFINE x == Queued(v, kind, input, active)
             r == Request(v, kind, input, active)
  <1>1. v.turn \in Nat /\ v.client \in Nat /\ v.lane \in Seq(Requests)
    BY DEF Actors
  <1>2. NoOperation \in Operations
    BY DEF NoOperation, Operations, Kinds, Phases
  <1>3. /\ r \in Operations /\ r.kind = kind /\ r.input = input /\ r.active = active
        /\ r.turn = v.turn /\ r.client = v.client
    BY <1>1, <1>2 DEF Operations, Request
  <1>4. r \in Requests
    BY <1>3 DEF Operations, Requests
  <1>5. StartOperation(v, kind, input, active) = DispatchOperation(x)
    BY DEF StartOperation, Queued, Request
  <1>6. x = [v EXCEPT !.lane = Append(v.lane, r), !.watch = NoWatch]
    BY DEF Queued
  <1> HIDE DEF r
  <1>7. NoWatch \in Watches
    BY DEF NoWatch, Watches, Answers
  <1>8. Append(v.lane, r) \in Seq(Requests)
    BY <1>1, <1>4
  <1>9. x \in Actors
    BY <1>6, <1>7, <1>8 DEF Actors
  <1>10. /\ x.lane = Append(v.lane, r) /\ x.watch = NoWatch
         /\ x.client = v.client /\ x.last = v.last /\ x.turn = v.turn
         /\ x.flight = v.flight /\ x.queue = v.queue /\ Grip(x, v)
         /\ x.saved = v.saved /\ x.active = v.active
    BY <1>6 DEF Actors, Grip
  <1>11. /\ DOMAIN Append(v.lane, r) = 1 .. Len(v.lane) + 1 /\ DOMAIN v.lane = 1 .. Len(v.lane)
         /\ Len(v.lane) \in Nat
         /\ \A k \in 1 .. Len(v.lane) : Append(v.lane, r)[k] = v.lane[k]
         /\ Append(v.lane, r)[Len(v.lane) + 1] = r
    BY <1>1
  <1>12. /\ \A k \in DOMAIN v.lane : k \in DOMAIN x.lane /\ x.lane[k] = v.lane[k]
         /\ \A k \in DOMAIN x.lane : k = Len(v.lane) + 1 \/ k \in DOMAIN v.lane
         /\ Len(v.lane) + 1 \in DOMAIN x.lane
    BY <1>10, <1>11
  <1> QED
    BY <1>3, <1>4, <1>5, <1>9, <1>10, <1>11, <1>12 DEF r

\* A request of the user, or an abort, waits.
LEMMA ControlStarts ==
    ASSUME NEW v, NEW p, NEW fin, NEW st, Good(v, p, fin, st), v.client # 0,
           NEW kind \in {"abort", "abort_state", "status", "compact"}, Granted(v, kind),
           kind \in Asks => Without(v, Asks),
           kind = "compact" => Without(v, {"compact"})
    PROVE  LET x == StartOperation(v, kind, None, None)
           IN  /\ Good(x, p, fin, st)
               /\ x.saved = v.saved /\ x.last = v.last /\ x.client = v.client
  <1> DEFINE x == Queued(v, kind, None, None)
             r == Request(v, kind, None, None)
             n == Len(v.lane) + 1
  <1>1. v \in Actors /\ Actor(v) /\ Matched(v, p, fin, st)
    BY DEF Good, Actor
  <1>2. kind \in Kinds \ {"none"} /\ None \in Prompts \cup {None}
    BY DEF Kinds
  <1>3. /\ StartOperation(v, kind, None, None) = DispatchOperation(x)
        /\ x \in Actors /\ x.watch = NoWatch
        /\ x.client = v.client /\ x.last = v.last /\ x.turn = v.turn
        /\ x.flight = v.flight /\ x.queue = v.queue /\ Grip(x, v)
        /\ x.saved = v.saved /\ x.active = v.active
        /\ r.kind = kind /\ r.active = None
        /\ r.turn = v.turn /\ r.client = v.client /\ n \in Nat
        /\ \A k \in DOMAIN v.lane : k \in DOMAIN x.lane /\ x.lane[k] = v.lane[k]
        /\ \A k \in DOMAIN x.lane : k = n \/ k \in DOMAIN v.lane
        /\ n \in DOMAIN x.lane /\ x.lane[n] = r
    BY <1>1, <1>2, QueuedIs, SMTT(30)
  <1> HIDE DEF x, r, n
  <1>4. LaneOk(v) /\ FlightOk(v) /\ LastSteer(v) /\ FenceOk(v)
    BY <1>1 DEF Actor
  <1>5. (Awaited(x) <=> Awaited(v)) /\ (Claims(x) <=> Claims(v)) /\ (OutSteer(x) <=> OutSteer(v))
    BY <1>3 DEF Awaited, Claims, OutSteer, Mine
  <1>6. \A op : (Waits(x, op) <=> Waits(v, op)) /\ (Own(x, op) <=> Own(v, op))
    BY <1>3 DEF Waits, Own, Mine, Granted, SteerInputs, Grip
  <1>7. \A i : (Latest(x, i) <=> Latest(v, i)) /\ (Unsent(x, i) <=> Unsent(v, i))
    BY <1>3, <1>5 DEF Latest, Unsent, Grip
  <1>8. Waits(x, r)
    BY <1>3 DEF Waits, Granted, Grip
  <1>9. \A k \in DOMAIN v.lane : Differ(v.lane[k], r) /\ Differ(r, v.lane[k])
    BY <1>3 DEF Differ, Without, Asks
  <1>10. LaneOk(x)
    <2>1. \A k \in DOMAIN x.lane : Waits(x, x.lane[k])
      BY <1>3, <1>4, <1>6, <1>8 DEF LaneOk
    <2>2. \A k \in DOMAIN x.lane : x.lane[k].kind = "prompt" => k = 1 /\ ~Own(x, x.flight)
      BY <1>3, <1>4, <1>6 DEF LaneOk
    <2>3. \A j, k \in DOMAIN x.lane : j # k => Differ(x.lane[j], x.lane[k])
      BY <1>3, <1>4, <1>9 DEF LaneOk
    <2> QED
      BY <2>1, <2>2, <2>3 DEF LaneOk
  <1>11. FlightOk(x)
    <2>1. Claims(v) => Differ(v.flight, r)
      BY <1>3 DEF Differ, Without, Asks
    <2> QED
      BY <1>3, <1>4, <1>5, <1>6, <2>1 DEF FlightOk
  <1>12. LastSteer(x)
    <2>1. \A k \in DOMAIN x.lane : x.lane[k].kind = "steer" => k \in DOMAIN v.lane
      BY <1>3
    <2> QED
      BY <1>3, <1>4, <1>5, <1>7, <2>1 DEF LastSteer
  <1>13. FenceOk(x)
    BY <1>3, <1>4, <1>5 DEF FenceOk, Grip
  <1>14. Ledger(x) /\ Counters(x) /\ Unconnected(x)
    BY <1>1, <1>3 DEF Actor, Ledger, Counters, Unconnected, Grip
  <1>15. Actor(x)
    BY <1>3, <1>10, <1>11, <1>12, <1>13, <1>14 DEF Actor
  <1>16. Stages(x, p) /\ Calmness(x, p)
    BY <1>1, <1>3, <1>5, <1>7 DEF Matched, Stages, Calmness, SteerInputs, Grip
  <1>17. Runs(x, p, fin) /\ Ends(x, p, fin, st)
    BY <1>1, <1>3, <1>5 DEF Matched, Runs, Ends, Aborted, Told, Mine, Grip
  <1>18. Settled(x, p) /\ Worked(p, fin)
    BY <1>1, <1>3, <1>7 DEF Matched, Settled, Grip, NoWatch
  <1>19. Good(x, p, fin, st)
    BY <1>15, <1>16, <1>17, <1>18 DEF Good, Matched
  <1> QED
    BY <1>3, <1>19, DispatchGood

\* A worker that is not busy, and has no task, has nothing in the lane.
LEMMA NothingWaits ==
    ASSUME NEW v, Actor(v), v.active = None, ~ControlBusy(v)
    PROVE  v.lane = <<>> /\ DOMAIN v.lane = {} /\ ~Claims(v) /\ v.steers = {} /\ ~v.fence.active
  <1>1. v \in Actors /\ LaneOk(v) /\ FlightOk(v) /\ FenceOk(v)
    BY DEF Actor
  <1>2. v.steers = {} /\ ~v.fence.active
    BY <1>1 DEF FenceOk
  <1>3. ASSUME NEW op \in Requests, Waits(v, op) PROVE FALSE
    <2>1. op.kind \in Kinds \ {"none"}
      BY DEF Requests
    <2>2. op.kind # "prompt" /\ op.kind # "steer"
      BY <1>2, <1>3 DEF Waits, SteerInputs
    <2>3. op.kind \notin {"abort", "abort_state", "status", "compact"}
      BY <1>3 DEF Waits, Granted, ControlBusy
    <2> QED
      BY <2>1, <2>2, <2>3 DEF Kinds
  <1>4. v.lane \in Seq(Requests)
    BY <1>1 DEF Actors
  <1>5. ASSUME NEW k \in DOMAIN v.lane PROVE FALSE
    BY <1>1, <1>3, <1>4 DEF LaneOk
  <1>6. v.lane = <<>> /\ DOMAIN v.lane = {}
    <2>1. Len(v.lane) \in Nat /\ DOMAIN v.lane = 1 .. Len(v.lane)
      BY <1>4
    <2>2. Len(v.lane) # 0 => 1 \in DOMAIN v.lane
      BY <2>1
    <2>3. Len(v.lane) = 0
      BY <1>5, <2>2
    <2> QED
      BY <1>4, <1>5, <2>3
  <1>7. ~Claims(v)
    <2>1. CASE v.flight = NoOperation
      BY <2>1 DEF Claims, Mine, NoOperation
    <2>2. CASE v.flight \in Requests
      BY <1>1, <1>3, <2>2 DEF FlightOk
    <2> QED
      BY <1>1, <2>1, <2>2 DEF Actors
  <1> QED
    BY <1>2, <1>6, <1>7

\* The head of the queue becomes the root.
LEMMA BeginTaskGood ==
    ASSUME NEW v, NEW p, NEW fin, NEW st, Good(v, p, fin, st), v.client # 0,
           v.active = None, ~ControlBusy(v), v.queue # <<>>
    PROVE  LET x == BeginTask(v)
           IN  /\ Good(x, p, fin, st)
               /\ x.client = v.client /\ x.last = v.last
               /\ x.saved = [v.saved EXCEPT ![Head(v.queue)] = "submitted"]
               /\ Head(v.queue) \in Prompts /\ v.saved[Head(v.queue)] = "queued"
  <1> DEFINE i == Head(v.queue)
             t == Tail(v.queue)
             u == [v EXCEPT !.queue = Tail(@), !.saved[i] = "submitted", !.active = i,
                            !.turn = @ + 1, !.awaiting = FALSE, !.watch = NoWatch]
             x == Queued(u, "prompt", i, i)
             r == Request(u, "prompt", i, i)
             n == Len(u.lane) + 1
  <1>1. v \in Actors /\ Actor(v) /\ Matched(v, p, fin, st)
    BY DEF Good, Actor
  <1>2. v.queue \in Seq(Prompts) /\ v.turn \in Nat /\ v.saved \in [Prompts -> SavedStates]
    BY <1>1 DEF Actors
  <1>3. /\ 1 \in DOMAIN v.queue /\ i = v.queue[1] /\ i \in Prompts /\ t \in Seq(Prompts)
        /\ \A k \in DOMAIN t : k + 1 \in DOMAIN v.queue /\ t[k] = v.queue[k + 1]
        /\ v.turn + 1 \in Nat /\ DOMAIN t = 1 .. Len(v.queue) - 1 /\ Len(v.queue) \in Nat
    BY <1>2, TailOfLane
  <1>4. NoWatch \in Watches /\ "submitted" \in SavedStates
    BY DEF NoWatch, Watches, Answers, SavedStates
  <1>5. BeginTask(v) = StartOperation(u, "prompt", i, i)
    BY DEF BeginTask
  <1>6. u = [v EXCEPT !.queue = t, !.saved[i] = "submitted", !.active = i,
                      !.turn = v.turn + 1, !.awaiting = FALSE, !.watch = NoWatch]
    OBVIOUS
  <1>7. i = Head(v.queue)
    OBVIOUS
  <1> HIDE DEF i, t, u
  <1>8. [v.saved EXCEPT ![i] = "submitted"] \in [Prompts -> SavedStates]
    BY <1>2, <1>3, <1>4
  <1>9. u \in Actors
    BY <1>1, <1>3, <1>4, <1>6, <1>8 DEF Actors
  <1>10. /\ u.saved = [v.saved EXCEPT ![i] = "submitted"] /\ u.active = i /\ u.queue = t
         /\ u.turn = v.turn + 1 /\ u.client = v.client /\ u.last = v.last /\ u.lane = v.lane
         /\ u.flight = v.flight /\ Grip(u, v)
    BY <1>1, <1>6 DEF Actors, Grip
  <1>11. v.lane = <<>> /\ DOMAIN v.lane = {} /\ ~Claims(v) /\ v.steers = {} /\ ~v.fence.active
    BY <1>1, NothingWaits
  <1>12. "prompt" \in Kinds \ {"none"} /\ i \in Prompts \cup {None}
    BY <1>3 DEF Kinds
  <1>13. /\ StartOperation(u, "prompt", i, i) = DispatchOperation(x)
         /\ x \in Actors /\ x.watch = NoWatch
         /\ x.client = u.client /\ x.last = u.last /\ x.turn = u.turn
         /\ x.flight = u.flight /\ x.queue = u.queue /\ Grip(x, u)
         /\ x.saved = u.saved /\ x.active = u.active
         /\ r.kind = "prompt" /\ r.active = i /\ r.input = i
         /\ r.turn = u.turn /\ r.client = u.client /\ n \in Nat
         /\ n \in DOMAIN x.lane
         /\ \A k \in DOMAIN x.lane : k = n \/ k \in DOMAIN u.lane
         /\ x.lane[n] = r
    <2>1. /\ StartOperation(u, "prompt", i, i) = DispatchOperation(x)
          /\ x \in Actors /\ x.watch = NoWatch
          /\ x.client = u.client /\ x.last = u.last /\ x.turn = u.turn
          /\ x.flight = u.flight /\ x.queue = u.queue /\ Grip(x, u)
          /\ x.saved = u.saved /\ x.active = u.active
      BY <1>9, <1>12, QueuedIs
    <2>2. /\ r.kind = "prompt" /\ r.active = i /\ r.input = i
          /\ r.turn = u.turn /\ r.client = u.client
      BY <1>9, <1>12, QueuedIs
    <2>3. Len(u.lane) \in Nat /\ Len(u.lane) + 1 \in DOMAIN x.lane
      BY <1>9, <1>12, QueuedIs
    <2>4. \A k \in DOMAIN x.lane : k = Len(u.lane) + 1 \/ k \in DOMAIN u.lane
      BY <1>9, <1>12, QueuedIs, SMTT(30)
    <2>5. x.lane[Len(u.lane) + 1] = r
      BY <1>9, <1>12, QueuedIs
    <2>6. n = Len(u.lane) + 1 /\ n \in Nat
      BY <2>3
    <2> HIDE DEF x, r, n
    <2> QED
      BY <2>1, <2>2, <2>3, <2>4, <2>5, <2>6
  <1>14. n = 1
    BY <1>10, <1>11
  <1> HIDE DEF x, r, n
  <1>15. \A k \in DOMAIN x.lane : k = 1 /\ x.lane[k] = r
    BY <1>10, <1>11, <1>13, <1>14
  <1>16. 1 \in DOMAIN x.lane /\ x.lane[1] = r
    BY <1>13, <1>14
  <1>17. i # None /\ v.saved[i] = "queued"
    BY <1>1, <1>3, PromptAssumption DEF Actor, Ledger
  <1>18. Ledger(x)
    <2>1. \A k \in DOMAIN t : /\ t[k] \in Prompts /\ t[k] # i /\ v.saved[t[k]] = "queued"
                              /\ \A j \in DOMAIN t : t[j] = t[k] => j = k
      BY <1>1, <1>2, <1>3 DEF Actor, Ledger
    <2>2. \A k \in DOMAIN t : u.saved[t[k]] = "queued"
      BY <1>2, <1>3, <1>10, <2>1
    <2>3. u.saved[i] = "submitted"
      BY <1>2, <1>3, <1>10
    <2> QED
      BY <1>10, <1>11, <1>13, <2>1, <2>2, <2>3 DEF Ledger, Grip
  <1>19. Counters(x) /\ Unconnected(x) /\ ~Own(x, x.flight)
    <2>1. v.flight.turn \in Nat
      BY <1>1 DEF Actors, Requests, NoOperation
    <2> QED
      BY <1>1, <1>2, <1>10, <1>13, <2>1 DEF Actor, Counters, Unconnected, Own
  <1>20. ~Claims(x)
    BY <1>10, <1>11, <1>13 DEF Claims, Mine
  <1>21. LaneOk(x)
    <2>1. Waits(x, r)
      BY <1>10, <1>13, <1>17 DEF Waits, Granted
    <2> QED
      BY <1>13, <1>15, <1>19, <2>1 DEF LaneOk
  <1>22. FlightOk(x) /\ LastSteer(x)
    BY <1>13, <1>15, <1>20 DEF FlightOk, LastSteer, OutSteer, Claims
  <1>23. /\ ~x.fence.active /\ ~x.fence.seen /\ ~x.fence.settled /\ x.steers = {}
         /\ x.probe = "none" /\ x.control = "none"
    BY <1>1, <1>10, <1>11, <1>13 DEF Actor, FenceOk, Grip, ControlBusy
  <1>24. FenceOk(x)
    BY <1>23 DEF FenceOk
  <1>25. Actor(x)
    BY <1>13, <1>18, <1>19, <1>21, <1>22, <1>24 DEF Actor
  <1>26. Awaited(x)
    BY <1>13, <1>16 DEF Awaited
  <1>27. Calm(p) /\ p.root = None /\ x.client # 0
    BY <1>1, <1>10, <1>13 DEF Matched, Calmness, Runs, Calm, Rest, IdleNow
  <1>28. Matched(x, p, fin, st)
    BY <1>23, <1>26, <1>27, CalmIsMatched
  <1>29. Good(x, p, fin, st)
    BY <1>25, <1>28 DEF Good
  <1>30. LET y == DispatchOperation(x)
         IN  Good(y, p, fin, st) /\ y.saved = x.saved /\ y.last = x.last /\ y.client = x.client
    BY <1>29, DispatchGood
  <1> QED
    BY <1>3, <1>5, <1>7, <1>10, <1>13, <1>17, <1>30

\* A runtime is started where there was none.
LEMMA ConnectedGood ==
    ASSUME NEW v, NEW p, NEW fin, NEW st, Good(v, p, fin, st)
    PROVE  LET x == Connected(v)
           IN  /\ Good(x, IF v.client = 0 THEN Fresh ELSE p, fin, st)
               /\ x.client # 0 /\ x.saved = v.saved /\ x.last >= v.last
               /\ v.client # 0 => x.client = v.client
               /\ v.client = 0 => x.client > v.last
               /\ x.active = v.active /\ x.queue = v.queue /\ x.control = v.control
               /\ x.session = v.session /\ x.fence = v.fence /\ x.steers = v.steers
               /\ x.lane = v.lane
  <1>1. v \in Actors /\ Actor(v) /\ Matched(v, p, fin, st)
    BY DEF Good, Actor
  <1>2. v.last \in Nat /\ v.client \in Nat /\ v.flight.client \in Nat
    BY <1>1 DEF Actors, Requests, NoOperation
  <1>3. CASE v.client # 0
    BY <1>2, <1>3 DEF Connected
  <1>4. CASE v.client = 0
    <2> DEFINE x == Connected(v)
    <2>1. x = [v EXCEPT !.client = v.last + 1, !.last = v.last + 1, !.resumeFailed = FALSE]
      BY <1>4 DEF Connected
    <2>2. v.last + 1 \in Nat
      BY <1>2
    <2> HIDE DEF x
    <2>15. x \in Actors
      BY <1>1, <2>1, <2>2 DEF Actors
    <2>3. /\ x \in Actors /\ x.client = v.last + 1 /\ x.last = v.last + 1
          /\ x.turn = v.turn /\ x.lane = v.lane /\ x.flight = v.flight /\ x.queue = v.queue
          /\ x.saved = v.saved /\ x.active = v.active /\ x.watch = v.watch /\ Grip(x, v)
      BY <1>1, <2>1, <2>15 DEF Actors, Grip
    <2>4. v.active = None /\ DOMAIN v.lane = {} /\ ~v.fence.active /\ p = Dead
      BY <1>1, <1>4 DEF Actor, Unconnected, FenceOk, Matched, Calmness
    <2>5. ~Mine(x, x.flight)
      BY <1>1, <1>2, <2>3 DEF Mine, Actor, Counters
    <2>6. ~Claims(x) /\ ~OutSteer(x) /\ ~Awaited(x)
      BY <2>3, <2>4, <2>5 DEF Claims, OutSteer, Awaited
    <2>7. LaneOk(x) /\ FlightOk(x) /\ LastSteer(x)
      BY <2>3, <2>4, <2>6 DEF LaneOk, FlightOk, LastSteer
    <2>8. FenceOk(x)
      BY <1>1, <2>3, <2>4, <2>6 DEF Actor, FenceOk, Grip
    <2>9. Ledger(x) /\ Counters(x) /\ Unconnected(x)
      BY <1>1, <1>2, <2>3 DEF Actor, Ledger, Counters, Unconnected, Grip
    <2>10. Actor(x)
      BY <2>3, <2>7, <2>8, <2>9 DEF Actor
    <2>11. Calm(Fresh) /\ Fresh.root = None
      BY DEF Fresh, Dead, Calm, Rest, IdleNow
    <2>12. ~x.fence.seen /\ ~x.fence.settled /\ x.client # 0 /\ x.active = None
      BY <1>1, <1>2, <2>3, <2>4 DEF Actor, FenceOk, Grip
    <2>13. Matched(x, Fresh, fin, st)
      BY <2>11, <2>12, CalmIsMatched
    <2>14. Good(x, Fresh, fin, st)
      BY <2>10, <2>13 DEF Good
    <2> QED
      BY <1>2, <1>4, <2>3, <2>12, <2>14 DEF Grip, x
  <1> QED
    BY <1>3, <1>4

\* What dispatch does after every handler.
LEMMA DispatchedGood ==
    ASSUME NEW v, NEW p, NEW fin, NEW st, NEW idle, Good(v, p, fin, st), NEW x \in Dispatched(v)
    PROVE  /\ Leads(v, x, idle, fin, st)
           /\ x.client = v.client => Good(x, p, fin, st)
           /\ x.client # v.client => v.client = 0 /\ x.client > v.last /\ Good(x, Fresh, fin, st)
           /\ \A i \in Prompts : x.saved[i] = "done" => v.saved[i] = "done"
           /\ v.last \in Nat /\ x.last \in Nat /\ x.client \in Nat
  <1>1. v \in Actors /\ Actor(v) /\ Matched(v, p, fin, st)
    BY DEF Good, Actor
  <1>2. v.last \in Nat /\ v.client \in Nat
    BY <1>1 DEF Actors
  <1>3. CASE x = v
    BY <1>2, <1>3, LeadsSame
  <1>4. CASE x = [v EXCEPT !.resumeFailed = TRUE]
    <2>1. x \in Actors /\ x.probe = v.probe /\ x.watch = v.watch
      BY <1>1, <1>4 DEF Actors
    <2>2. Like(x, v)
      BY <1>1, <1>4, <2>1 DEF Actors, Like, Link
    <2>3. Good(x, p, fin, st)
      BY <1>1, <2>1, <2>2, LikeGood DEF Actor, FenceOk, Matched, Settled, Like
    <2>4. x.saved = v.saved /\ x.last = v.last /\ x.client = v.client
      BY <2>2 DEF Like, Link
    <2> QED
      BY <1>2, <2>3, <2>4, LeadsSame
  <1>5. CASE Dispatchable(v) /\ x = BeginTask(Connected(v))
    <2> DEFINE c == Connected(v)
               q == IF v.client = 0 THEN Fresh ELSE p
               h == Head(c.queue)
    <2>1. v.active = None /\ v.queue # <<>> /\ ~ControlBusy(v)
      BY <1>5 DEF Dispatchable
    <2>2. /\ Good(c, q, fin, st) /\ c.client # 0 /\ c.saved = v.saved /\ c.last >= v.last
          /\ v.client # 0 => c.client = v.client
          /\ v.client = 0 => c.client > v.last
          /\ c.active = v.active /\ c.queue = v.queue /\ c.control = v.control
          /\ c.session = v.session
      BY ConnectedGood
    <2> HIDE DEF c, q
    <2>3. ~ControlBusy(c) /\ c.active = None /\ c.queue # <<>>
      BY <2>1, <2>2 DEF ControlBusy
    <2>4. x = BeginTask(c)
      BY <1>5 DEF c
    <2>5. /\ Good(x, q, fin, st) /\ x.client = c.client /\ x.last = c.last
          /\ x.saved = [c.saved EXCEPT ![h] = "submitted"]
          /\ h \in Prompts /\ c.saved[h] = "queued"
      BY <2>2, <2>3, <2>4, BeginTaskGood
    <2>6. x \in Actors /\ x.last \in Nat /\ x.client \in Nat
      BY <2>5 DEF Good, Actor, Actors
    <2> HIDE DEF h
    <2>7. v.saved \in [Prompts -> SavedStates]
      BY <1>1 DEF Actors
    <2>8. \A i \in Prompts : x.saved[i] = IF i = h THEN "submitted" ELSE v.saved[i]
      BY <2>2, <2>5, <2>7
    <2>9. x.last >= v.last /\ "submitted" \in SavedStates
      BY <2>2, <2>5 DEF SavedStates
    <2>10. v.saved[h] = "queued" /\ x.saved = [v.saved EXCEPT ![h] = "submitted"]
      BY <2>2, <2>5
    <2>11. Leads(v, x, idle, fin, st)
      BY <1>1, <2>5, <2>9, <2>10, LeadsOne DEF Final
    <2> QED
      BY <1>2, <2>2, <2>5, <2>6, <2>8, <2>11 DEF q
  <1> QED
    BY <1>3, <1>4, <1>5 DEF Dispatched

\* The process after the actor went from v to x: as it was, gone, or new.
Stay(v, x, rest) == IF x.client = v.client THEN rest ELSE IF x.client = 0 THEN Dead ELSE Fresh

\* What a handler promises, before dispatch: idle is about the process before.
Handles(v, x, rest, idle, fin, st) ==
    /\ Good(x, Stay(v, x, rest), fin, st)
    /\ Leads(v, x, idle, fin, st)

\* A handler that is in accord stays so with the dispatch of the queue that follows.
LEMMA SettleGood ==
    ASSUME NEW x, NEW rest, NEW idle, NEW fin, NEW st, w \in Actors, w.client <= w.last,
           Handles(w, x, rest, idle, fin, st), Settle(x, rest)
    PROVE  Good(w', o', fin, st) /\ Leads(w, w', idle, fin, st)
  <1>1. PICK y \in Dispatched(x) : w' = y /\ o' = Stay(w, y, rest)
    BY DEF Settle, Stay
  <1> DEFINE p == Stay(w, x, rest)
  <1>2. Good(x, p, fin, st) /\ Leads(w, x, idle, fin, st)
    BY DEF Handles
  <1>3. /\ Leads(x, y, idle, fin, st)
        /\ y.client = x.client => Good(y, p, fin, st)
        /\ y.client # x.client => x.client = 0 /\ y.client > x.last /\ Good(y, Fresh, fin, st)
        /\ \A i \in Prompts : y.saved[i] = "done" => x.saved[i] = "done"
        /\ x.last \in Nat /\ y.last \in Nat /\ y.client \in Nat
    BY <1>2, DispatchedGood
  <1>4. w.last \in Nat /\ w.client \in Nat /\ x.last >= w.last
    BY <1>2 DEF Actors, Leads
  <1>5. Leads(w, y, idle, fin, st)
    BY <1>2, <1>3, <1>4, LeadsOn
  <1>6. Good(y, Stay(w, y, rest), fin, st)
    <2>1. CASE y.client = x.client
      BY <1>3, <2>1 DEF Stay
    <2>2. CASE y.client # x.client
      <3>1. y.client # 0 /\ y.client # w.client
        BY <1>3, <1>4, <2>2
      <3> QED
        BY <1>3, <2>2, <3>1 DEF Stay
    <2> QED
      BY <2>1, <2>2
  <1> QED
    BY <1>1, <1>5, <1>6

\* The inputs OMP has worked off, and those stopped, only grow.
LEMMA GoodGrows ==
    ASSUME NEW v, NEW p, NEW fin, NEW st, NEW more, NEW hit, Good(v, p, fin, st),
           fin \subseteq more, st \subseteq hit
    PROVE  Good(v, p, more, hit)
  <1>1. Actor(v) /\ Stages(v, p) /\ Calmness(v, p) /\ Settled(v, p)
    BY DEF Good, Matched
  <1>2. Runs(v, p, more)
    BY DEF Good, Matched, Runs
  <1>3. Ends(v, p, more, hit)
    BY DEF Good, Matched, Ends, Told
  <1>4. Worked(p, more)
    BY DEF Good, Matched, Worked
  <1> QED
    BY <1>1, <1>2, <1>3, <1>4 DEF Good, Matched

\* What holds of an actor in accord is enough to tear it down.
LEMMA GoodIsBase == ASSUME NEW v, Actor(v) PROVE Base(v)
  BY DEF Actor, Base, FenceOk

\* What tears everything down leaves a good state.
LEMMA FreedHandles ==
    ASSUME NEW v, NEW x, NEW rest, NEW idle, NEW fin, NEW st, Base(x), Freed(x),
           Leads(v, x, idle, fin, st), v.client = 0 => rest = Dead
    PROVE  Handles(v, x, rest, idle, fin, st)
  <1>1. Good(x, Dead, fin, st)
    BY FreedIsGood
  <1>2. Stay(v, x, rest) = Dead
    BY DEF Stay, Freed
  <1> QED
    BY <1>1, <1>2 DEF Handles

\* Retiring the runtime of a task leaves the actor in accord.
LEMMA RetireHandles ==
    ASSUME NEW v, NEW rest, NEW idle, NEW fin, NEW st, Base(v), v.client = 0 => rest = Dead
    PROVE  Handles(v, RetireTaskRuntime(v), rest, idle, fin, st)
  <1> DEFINE x == RetireTaskRuntime(v)
  <1>1. /\ Base(x) /\ Freed(x) /\ x.last = v.last
        /\ \A i \in Prompts : \/ x.saved[i] = v.saved[i]
                              \/ v.saved[i] = "submitted" /\ x.saved[i] = "uncertain"
    BY RetireFrees
  <1> HIDE DEF x
  <1>2. v.last \in Nat
    BY DEF Base, Actors
  <1>3. Leads(v, x, idle, fin, st)
    BY <1>1, <1>2, LeadsUncertain
  <1>4. Handles(v, x, rest, idle, fin, st)
    BY <1>1, <1>3, FreedHandles
  <1> QED
    BY <1>4 DEF x

\* A handler goes on from where a piece of it left the task.
LEMMA HandlesOn ==
    ASSUME NEW v, NEW u, NEW x, NEW rest, NEW idle, NEW fin, NEW st,
           v \in Actors, u \in Actors, Leads(v, u, idle, fin, st), u.client = v.client,
           \/ u.active = v.active /\ u.fence.active = v.fence.active
           \/ \A i \in Prompts : x.saved[i] = "done" => u.saved[i] = "done",
           Handles(u, x, rest, idle, fin, st)
    PROVE  Handles(v, x, rest, idle, fin, st)
  <1>1. Leads(u, x, idle, fin, st) /\ Good(x, Stay(u, x, rest), fin, st)
    BY DEF Handles
  <1>2. v.last \in Nat /\ u.last \in Nat /\ x.last \in Nat
    BY <1>1 DEF Good, Actor, Actors
  <1>3. Leads(v, x, idle, fin, st)
    BY <1>1, <1>2, LeadsOn
  <1>4. Stay(u, x, rest) = Stay(v, x, rest)
    BY DEF Stay
  <1> QED
    BY <1>1, <1>3, <1>4 DEF Handles

-----------------------------------------------------------------------------
\* The end of a task whose runtime goes on.

\* A task whose OMP has come to rest leaves the runtime to the next one.
LEMMA TaskEnds ==
    ASSUME NEW v, NEW x, NEW p, NEW state \in Final, NEW fin, NEW st,
           Actor(v), v.active # None, v.steers = {}, ~Awaited(v), Calm(p), p.root = None,
           v.client = 0 => p = Dead,
           x \in Actors, Link(x, v), x.saved = [v.saved EXCEPT ![v.active] = state],
           x.active = None, x.control = v.control, x.session = v.session, x.steers = {},
           ~x.fence.active, ~x.fence.seen, ~x.fence.settled, x.probe = "none"
    PROVE  Good(x, p, fin, st)
  <1>1. /\ v \in Actors /\ Ledger(v) /\ Counters(v) /\ Unconnected(v)
        /\ LaneOk(v) /\ FlightOk(v)
    BY DEF Actor
  <1>2. v.active \in Prompts /\ v.saved \in [Prompts -> SavedStates]
    BY <1>1 DEF Actors
  <1>3. \A i \in Prompts : x.saved[i] = IF i = v.active THEN state ELSE v.saved[i]
    BY <1>2
  <1>4. \A k \in DOMAIN v.queue : v.queue[k] \in Prompts /\ v.queue[k] # v.active
    BY <1>1 DEF Actors, Ledger
  <1>5. Ledger(x)
    BY <1>1, <1>3, <1>4 DEF Ledger, Link
  <1>6. Counters(x) /\ Unconnected(x)
    BY <1>1 DEF Counters, Unconnected, Link
  <1>7. SteerInputs(v) = {}
    BY DEF SteerInputs
  <1>8. ASSUME NEW op, Waits(v, op), op.kind # "prompt"
        PROVE  Waits(x, op) /\ op.kind # "steer"
    BY <1>7, <1>8 DEF Waits, Granted, Link
  <1>9. \A k \in DOMAIN x.lane : /\ x.lane[k].kind \notin {"prompt", "steer"}
                                 /\ Waits(x, x.lane[k])
    BY <1>1, <1>8 DEF LaneOk, Awaited, Link
  <1>10. LaneOk(x)
    BY <1>1, <1>9 DEF LaneOk, Link
  <1>11. Claims(x) => Claims(v) /\ v.flight.kind # "prompt"
    BY DEF Claims, Mine, Awaited, Link, Asks
  <1>12. Claims(x) => Waits(x, x.flight) /\ x.flight.kind # "steer"
    BY <1>1, <1>8, <1>11 DEF FlightOk, Link
  <1>13. FlightOk(x)
    BY <1>1, <1>11, <1>12 DEF FlightOk, Link
  <1>14. LastSteer(x)
    BY <1>9, <1>12 DEF LastSteer, OutSteer, Claims
  <1>15. FenceOk(x)
    BY DEF FenceOk
  <1>16. Actor(x)
    BY <1>5, <1>6, <1>10, <1>13, <1>14, <1>15 DEF Actor
  <1>17. Matched(x, p, fin, st)
    BY CalmIsMatched DEF Link
  <1> QED
    BY <1>16, <1>17 DEF Good

\* finishIncomplete and finishResult where there are no steers.
LEMMA FinishGood ==
    ASSUME NEW v, NEW p, NEW state \in Final, NEW fin, NEW st,
           Actor(v), v.active # None, ~v.fence.active, ~Awaited(v), Calm(p), p.root = None,
           v.client = 0 => p = Dead
    PROVE  LET x == FinishTask(v, state)
           IN  /\ Good(x, p, fin, st) /\ x.client = v.client /\ x.last = v.last
               /\ x.saved = [v.saved EXCEPT ![v.active] = state]
               /\ v.active \in Prompts /\ v.saved[v.active] = "submitted"
  <1> DEFINE x == FinishTask(v, state)
  <1>1. v \in Actors /\ FenceOk(v) /\ Ledger(v)
    BY DEF Actor
  <1>2. /\ x \in Actors /\ Link(x, v) /\ Grip(x, v)
        /\ x.saved = [v.saved EXCEPT ![v.active] = state] /\ x.active = None
        /\ x.watch = NoWatch
    BY <1>1, FinishTaskIs
  <1>3. v.steers = {} /\ ~v.fence.seen /\ ~v.fence.settled /\ v.probe = "none"
    BY <1>1 DEF FenceOk
  <1>4. Good(x, p, fin, st)
    BY <1>2, <1>3, TaskEnds DEF Grip
  <1> QED
    BY <1>1, <1>2, <1>4 DEF Link, Actors, Ledger

\* A verdict that is true may be written down.
LEMMA VerdictLeads ==
    ASSUME NEW v, v \in Actors, NEW x, NEW verdict \in Verdicts, NEW idle, NEW fin, NEW st,
           v.active \in Prompts, v.saved[v.active] = "submitted",
           x.saved = [v.saved EXCEPT ![v.active] = RootVerdict(verdict)], x.last = v.last,
           Told(v, verdict, fin, st), v.fence.active => idle
    PROVE  Leads(v, x, idle, fin, st)
  <1>1. /\ verdict = "ok" => RootVerdict(verdict) = "done" /\ v.active \in fin
        /\ verdict = "empty" => RootVerdict(verdict) = "uncertain"
        /\ verdict = "aborted" => RootVerdict(verdict) = "cancelled" /\ v.active \in st
        /\ verdict \in {"ok", "empty", "aborted"}
    BY DEF RootVerdict, Told, Verdicts
  <1>2. RootVerdict(verdict) \in SavedStates
    BY VerdictIsFinal DEF SavedStates
  <1>3. x.last >= v.last /\ v.saved[v.active] \notin Final
    BY DEF Actors, Final
  <1> QED
    BY <1>1, <1>2, <1>3, LeadsOne DEF Final

\* A steered root is finished once OMP has settled.
LEMMA MaybeFinishHandles ==
    ASSUME NEW v, NEW p, Process(p), NEW fin, NEW st, Good(v, p, fin, st)
    PROVE  Handles(v, MaybeFinishSteeredRoot(v), p, IdleNow(p), fin, st)
  <1> DEFINE x == MaybeFinishSteeredRoot(v)
  <1>1. v \in Actors /\ Actor(v) /\ Matched(v, p, fin, st) /\ v.last \in Nat /\ v.last >= v.last
    BY DEF Good, Actor, Actors
  <1>2. ASSUME NEW y, Good(y, p, fin, st), y.saved = v.saved, y.last = v.last, y.client = v.client
        PROVE  Handles(v, y, p, IdleNow(p), fin, st)
    BY <1>1, <1>2, LeadsSame DEF Handles, Stay
  <1>3. CASE x = v
    BY <1>2, <1>3
  <1>4. CASE /\ v.fence.active /\ v.steers = {} /\ v.fence.seen /\ v.client # 0
             /\ x = [v EXCEPT !.probe = "asking"]
    <2>1. x \in Actors /\ x.probe = "asking" /\ x.watch = v.watch /\ Like(x, v)
      BY <1>1, <1>4 DEF Actors, Answers, Like, Link
    <2> HIDE DEF x
    <2>2. Good(x, p, fin, st)
      BY <1>1, <1>4, <2>1, LikeGood DEF Matched, Settled, Like
    <2>3. Handles(v, x, p, IdleNow(p), fin, st)
      BY <1>2, <2>1, <2>2 DEF Like, Link
    <2> QED
      BY <2>3 DEF x
  <1>5. CASE /\ v.fence.active /\ v.steers = {} /\ v.fence.seen /\ v.fence.settled
             /\ x = [FinishTask(v, RootVerdict(v.fence.verdict))
                       EXCEPT !.fence = NoFence, !.probe = "none"]
    <2> DEFINE state == RootVerdict(v.fence.verdict)
               y == FinishTask(v, state)
    <2>1. v.fence.verdict \in Verdicts /\ v.active # None /\ ~Awaited(v)
      BY <1>1, <1>5 DEF Actor, FenceOk, Actors, Fences
    <2>2. state \in Final
      BY <2>1, VerdictIsFinal
    <2>3. /\ y \in Actors /\ Link(y, v) /\ Grip(y, v)
          /\ y.saved = [v.saved EXCEPT ![v.active] = state] /\ y.active = None
          /\ y.watch = NoWatch
      BY <1>1, <2>1, <2>2, FinishTaskIs
    <2>4. NoFence \in Fences /\ ~NoFence.active /\ ~NoFence.seen /\ ~NoFence.settled
      BY DEF NoFence, Fences, Verdicts
    <2> HIDE DEF y, state
    <2>5. x = [y EXCEPT !.fence = NoFence, !.probe = "none"]
      BY <1>5 DEF y, state
    <2> HIDE DEF x
    <2>6. /\ x \in Actors /\ Link(x, y) /\ x.saved = y.saved /\ x.active = None
          /\ x.control = y.control /\ x.session = y.session /\ x.steers = y.steers
          /\ x.fence = NoFence /\ x.probe = "none"
      BY <2>3, <2>4, <2>5 DEF Actors, Link, Answers
    <2>7. /\ Link(x, v) /\ x.control = v.control /\ x.session = v.session /\ x.steers = {}
          /\ x.saved = [v.saved EXCEPT ![v.active] = state]
      BY <1>5, <2>3, <2>6 DEF Link, Grip
    <2>8. Rest(p) /\ \A k \in DOMAIN p.events : p.events[k].type = "result"
      BY <1>1, <1>5 DEF Matched, Settled
    <2>9. \A k \in DOMAIN p.events : FALSE
      BY <1>1, <1>5, <2>8 DEF Matched, Stages, Reported, SteerInputs
    <2>10. p.events = <<>>
      <3>1. p.events \in Seq(Events)
        BY DEF Process, Processes
      <3>2. Len(p.events) # 0 => 1 \in DOMAIN p.events
        BY <3>1
      <3>3. Len(p.events) = 0
        BY <2>9, <3>2
      <3> QED
        BY <3>1, <3>3
    <2>11. Calm(p) /\ p.root = None /\ IdleNow(p) /\ (v.client = 0 => p = Dead)
      BY <1>1, <2>8, <2>10 DEF Calm, Rest, IdleNow, Matched, Runs, Calmness
    <2>12. Good(x, p, fin, st)
      BY <1>1, <1>5, <2>1, <2>2, <2>4, <2>6, <2>7, <2>11, TaskEnds
    <2>13. v.active \in Prompts /\ v.saved[v.active] = "submitted"
      BY <1>1, <2>1 DEF Actor, Actors, Ledger
    <2>14. Told(v, v.fence.verdict, fin, st)
      BY <1>1, <1>5 DEF Matched, Ends
    <2>15. Leads(v, x, IdleNow(p), fin, st)
      BY <1>1, <2>1, <2>7, <2>11, <2>13, <2>14, VerdictLeads DEF state, Link
    <2>16. Handles(v, x, p, IdleNow(p), fin, st)
      BY <2>7, <2>12, <2>15 DEF Handles, Stay, Link
    <2> QED
      BY <2>16 DEF x
  <1> QED
    BY <1>3, <1>4, <1>5 DEF MaybeFinishSteeredRoot, StartSteerProbe

-----------------------------------------------------------------------------
\* Events.

\* All but what the fence says of the present run.
Alike(x, v) ==
    /\ Link(x, v) /\ x.saved = v.saved /\ x.active = v.active
    /\ x.control = v.control /\ x.session = v.session /\ x.steers = v.steers
    /\ x.fence.active = v.fence.active /\ x.fence.admission = v.fence.admission

\* What is said of the lane, the steers and the process does not depend on the rest
\* of the fence, the probes and the watch.
LEMMA AlikeActor ==
    ASSUME NEW v, NEW x, Actor(v), x \in Actors, Alike(x, v)
    PROVE  /\ FenceOk(x) => Actor(x)
           /\ Awaited(x) <=> Awaited(v)
           /\ \A i : (Latest(x, i) <=> Latest(v, i)) /\ (Unsent(x, i) <=> Unsent(v, i))
           /\ \A p : (Stages(x, p) <=> Stages(v, p)) /\ (Calmness(x, p) <=> Calmness(v, p))
           /\ \A p, fin : Runs(x, p, fin) <=> Runs(v, p, fin)
           /\ \A verdict, fin, st : Told(x, verdict, fin, st) <=> Told(v, verdict, fin, st)
  <1> USE DEF Alike, Link
  <1>2. Ledger(x) /\ Counters(x) /\ Unconnected(x)
    BY DEF Actor, Ledger, Counters, Unconnected
  <1>3. (Awaited(x) <=> Awaited(v)) /\ (Claims(x) <=> Claims(v)) /\ (OutSteer(x) <=> OutSteer(v))
    BY DEF Awaited, Claims, OutSteer, Mine
  <1>4. \A op : (Waits(x, op) <=> Waits(v, op)) /\ (Own(x, op) <=> Own(v, op))
    BY DEF Waits, Own, Mine, Granted, SteerInputs
  <1>5. \A i : (Latest(x, i) <=> Latest(v, i)) /\ (Unsent(x, i) <=> Unsent(v, i))
    BY <1>3 DEF Latest, Unsent
  <1>6. LaneOk(x)
    BY <1>4 DEF Actor, LaneOk
  <1>7. FlightOk(x)
    BY <1>3, <1>4 DEF Actor, FlightOk
  <1>8. LastSteer(x)
    BY <1>3, <1>5 DEF Actor, LastSteer
  <1>9. FenceOk(x) => Actor(x)
    BY <1>2, <1>6, <1>7, <1>8 DEF Actor
  <1>10. ASSUME NEW p
         PROVE  (Stages(x, p) <=> Stages(v, p)) /\ (Calmness(x, p) <=> Calmness(v, p))
    BY <1>3, <1>5 DEF Stages, Calmness, SteerInputs
  <1>11. ASSUME NEW p, NEW fin PROVE Runs(x, p, fin) <=> Runs(v, p, fin)
    BY <1>3 DEF Runs, Aborted, Mine
  <1>12. ASSUME NEW verdict, NEW fin, NEW st
         PROVE  Told(x, verdict, fin, st) <=> Told(v, verdict, fin, st)
    BY DEF Told
  <1> QED
    BY <1>3, <1>5, <1>9, <1>10, <1>11, <1>12

Consumed(p) == [p EXCEPT !.events = Tail(@)]

\* The oldest event leaves the stream.
LEMMA ConsumedIs ==
    ASSUME NEW p, Process(p), p.events # <<>>
    PROVE  LET q == Consumed(p)
           IN  /\ Process(q) /\ q.events = Tail(p.events)
               /\ q.alive = p.alive /\ q.run = p.run /\ q.root = p.root /\ q.doing = p.doing
               /\ q.todo = p.todo /\ q.more = p.more /\ q.late = p.late
               /\ IdleNow(q) = IdleNow(p) /\ Rest(q) = Rest(p)
               /\ 1 \in DOMAIN p.events /\ Head(p.events) = p.events[1]
               /\ Head(p.events) \in Events
               /\ \A k \in DOMAIN q.events : /\ k + 1 \in DOMAIN p.events /\ k \in Nat /\ k >= 1
                                             /\ q.events[k] = p.events[k + 1]
               /\ \A k \in DOMAIN p.events : /\ k \in Nat /\ k >= 1
                                             /\ k # 1 => /\ k - 1 \in DOMAIN q.events
                                                         /\ q.events[k - 1] = p.events[k]
               /\ Len(q.events) = Len(p.events) - 1 /\ Len(p.events) \in Nat
  <1> DEFINE q == Consumed(p)
  <1>1. p \in Processes /\ p.events \in Seq(Events) /\ IsFiniteSet(p.doing)
    BY DEF Process, Processes
  <1>2. /\ 1 \in DOMAIN p.events /\ Head(p.events) = p.events[1]
        /\ Head(p.events) \in Events /\ Tail(p.events) \in Seq(Events)
        /\ \A k \in DOMAIN Tail(p.events) : /\ k + 1 \in DOMAIN p.events
                                            /\ Tail(p.events)[k] = p.events[k + 1]
        /\ \A k \in DOMAIN p.events : k # 1 => /\ k - 1 \in DOMAIN Tail(p.events)
                                               /\ Tail(p.events)[k - 1] = p.events[k]
        /\ Len(Tail(p.events)) = Len(p.events) - 1 /\ DOMAIN p.events = 1 .. Len(p.events)
        /\ Len(p.events) \in Nat
        /\ DOMAIN Tail(p.events) = 1 .. Len(p.events) - 1
    BY <1>1, TailOfLane
  <1>3. /\ q \in Processes /\ q.events = Tail(p.events)
        /\ q.alive = p.alive /\ q.run = p.run /\ q.root = p.root /\ q.doing = p.doing
        /\ q.todo = p.todo /\ q.more = p.more /\ q.late = p.late
    BY <1>1, <1>2 DEF Consumed, Processes
  <1>4. Process(q)
    BY <1>1, <1>3 DEF Process
  <1>5. IdleNow(q) = IdleNow(p) /\ Rest(q) = Rest(p)
    BY <1>3 DEF IdleNow, Rest
  <1>6. \A k \in DOMAIN q.events : /\ k + 1 \in DOMAIN p.events /\ k \in Nat /\ k >= 1
                                   /\ q.events[k] = p.events[k + 1]
    BY <1>2, <1>3
  <1>7. \A k \in DOMAIN p.events : /\ k \in Nat /\ k >= 1
                                   /\ k # 1 => /\ k - 1 \in DOMAIN q.events
                                               /\ q.events[k - 1] = p.events[k]
    BY <1>2, <1>3
  <1> QED
    BY <1>2, <1>3, <1>4, <1>5, <1>6, <1>7

\* What says that OMP runs, or that an end is late, survives the event before.
LEMMA OpenConsumed ==
    ASSUME NEW p, Process(p), p.events # <<>>, NEW seen \in BOOLEAN, Open(p.events, seen)
    PROVE  LET type == Head(p.events).type
               events == Consumed(p).events
           IN  /\ type \notin {"start", "end"} => Open(events, seen)
               /\ type = "start" => Open(events, FALSE)
               /\ type = "end" => Open(events, TRUE)
  <1> DEFINE e == Head(p.events)
             q == Consumed(p)
  <1>1. /\ 1 \in DOMAIN p.events /\ e = p.events[1]
        /\ \A k \in DOMAIN q.events : /\ k + 1 \in DOMAIN p.events /\ k \in Nat /\ k >= 1
                                      /\ q.events[k] = p.events[k + 1]
        /\ \A k \in DOMAIN p.events : /\ k \in Nat /\ k >= 1
                                      /\ k # 1 => /\ k - 1 \in DOMAIN q.events
                                                  /\ q.events[k - 1] = p.events[k]
    BY ConsumedIs
  <1> HIDE DEF e, q
  <1>2. CASE ~seen /\ \A j \in DOMAIN p.events : p.events[j].type # "end"
    <2>1. \A j \in DOMAIN q.events : q.events[j].type # "end"
      BY <1>1, <1>2
    <2>2. e.type # "end"
      BY <1>1, <1>2
    <2> QED
      BY <1>2, <2>1, <2>2 DEF Open, e, q
  <1>3. ASSUME NEW k \in DOMAIN p.events, p.events[k].type = "start",
               \A j \in DOMAIN p.events : j > k => p.events[j].type # "end"
        PROVE  /\ e.type \notin {"start", "end"} => Open(q.events, seen)
               /\ e.type = "start" => Open(q.events, FALSE)
               /\ e.type = "end" => Open(q.events, TRUE)
    <2>1. CASE k = 1
      <3>1. \A j \in DOMAIN q.events : q.events[j].type # "end"
        BY <1>1, <1>3, <2>1
      <3> QED
        BY <1>1, <1>3, <2>1, <3>1 DEF Open
    <2>2. CASE k # 1
      <3>1. k - 1 \in DOMAIN q.events /\ q.events[k - 1].type = "start"
        BY <1>1, <1>3, <2>2
      <3>2. ASSUME NEW j \in DOMAIN q.events, j > k - 1 PROVE q.events[j].type # "end"
        BY <1>1, <1>3, <3>2
      <3> QED
        BY <3>1, <3>2 DEF Open
    <2> QED
      BY <2>1, <2>2
  <1> QED
    BY <1>2, <1>3 DEF Open, e, q

\* An event that is no result leaves behind what holds of the others.
LEMMA EventConsumed ==
    ASSUME NEW v, NEW p, Process(p), p.events # <<>>, NEW fin, NEW st,
           Actor(v), Matched(v, p, fin, st), Head(p.events).type # "result"
    PROVE  LET q == Consumed(p)
           IN  /\ v.active # None /\ ~Awaited(v) /\ v.client # 0 /\ ~v.fence.settled
               /\ Stages(v, q) /\ Calmness(v, q) /\ Runs(v, q, fin) /\ Worked(q, fin)
               /\ \A k \in DOMAIN q.events : q.events[k].type = "end" =>
                     /\ Told(v, q.events[k].value, fin, st)
                     /\ ~v.fence.active => k = Len(q.events) /\ q.run = "idle" /\ ~q.late
               /\ \A k \in DOMAIN q.events :
                     /\ q.events[k].type = "result" /\ q.events[k].value = "settled"
                     /\ Latest(v, q.events[k].input)
                     => Rest(q) /\ \A j \in DOMAIN q.events : j > k => q.events[j].type = "result"
  <1> DEFINE q == Consumed(p)
             e == Head(p.events)
  <1>1. /\ Process(q)
        /\ q.run = p.run /\ q.root = p.root /\ q.doing = p.doing
        /\ q.todo = p.todo /\ q.more = p.more /\ q.late = p.late
        /\ Rest(q) = Rest(p)
        /\ 1 \in DOMAIN p.events /\ e = p.events[1]
        /\ \A k \in DOMAIN q.events : /\ k + 1 \in DOMAIN p.events /\ k \in Nat /\ k >= 1
                                      /\ q.events[k] = p.events[k + 1]
        /\ \A k \in DOMAIN p.events : /\ k \in Nat /\ k >= 1
                                      /\ k # 1 => /\ k - 1 \in DOMAIN q.events
                                                  /\ q.events[k - 1] = p.events[k]
        /\ Len(q.events) = Len(p.events) - 1 /\ Len(p.events) \in Nat
    BY ConsumedIs
  <1> HIDE DEF q
  <1>2. /\ Stages(v, p) /\ Calmness(v, p) /\ Runs(v, p, fin) /\ Worked(p, fin)
        /\ Ends(v, p, fin, st) /\ Settled(v, p)
    BY DEF Matched
  <1>3. v.active # None /\ ~Awaited(v)
    BY <1>2 DEF Calmness, Calm
  <1>4. v.client # 0
    BY <1>3 DEF Actor, Unconnected
  <1>5. ~v.fence.settled
    BY <1>1, <1>2 DEF Settled
  <1>6. \A i : Reported(q, i) <=> Reported(p, i)
    <2>1. ASSUME NEW i, Reported(q, i) PROVE Reported(p, i)
      BY <1>1, <2>1 DEF Reported
    <2>2. ASSUME NEW i, Reported(p, i) PROVE Reported(q, i)
      BY <1>1, <2>2 DEF Reported
    <2> QED
      BY <2>1, <2>2
  <1>7. Stages(v, q)
    <2>1. ASSUME NEW j \in DOMAIN q.events, NEW k \in DOMAIN q.events,
                 q.events[j].type = "result", q.events[k].type = "result",
                 q.events[j].input = q.events[k].input
          PROVE  j = k
      <3>1. /\ j + 1 \in DOMAIN p.events /\ k + 1 \in DOMAIN p.events /\ j \in Nat /\ k \in Nat
            /\ q.events[j] = p.events[j + 1] /\ q.events[k] = p.events[k + 1]
        BY <1>1
      <3>2. j + 1 = k + 1
        BY <1>2, <2>1, <3>1 DEF Stages
      <3> QED
        BY <3>1, <3>2
    <2> QED
      BY <1>1, <1>2, <1>6, <2>1 DEF Stages
  <1>8. Calmness(v, q) /\ Worked(q, fin)
    BY <1>2, <1>3, <1>4, <1>6 DEF Calmness, Worked
  <1>9. Runs(v, q, fin)
    BY <1>1, <1>2 DEF Runs, Aborted
  <1>10. ASSUME NEW k \in DOMAIN q.events, q.events[k].type = "end"
         PROVE  /\ Told(v, q.events[k].value, fin, st)
                /\ ~v.fence.active => k = Len(q.events) /\ q.run = "idle" /\ ~q.late
    <2>1. /\ k + 1 \in DOMAIN p.events /\ k \in Nat /\ q.events[k] = p.events[k + 1]
      BY <1>1
    <2>2. /\ Told(v, p.events[k + 1].value, fin, st)
          /\ ~v.fence.active => k + 1 = Len(p.events) /\ p.run = "idle" /\ ~p.late
      BY <1>2, <1>10, <2>1 DEF Ends
    <2> QED
      BY <1>1, <2>1, <2>2
  <1>11. ASSUME NEW k \in DOMAIN q.events,
                q.events[k].type = "result", q.events[k].value = "settled",
                Latest(v, q.events[k].input)
         PROVE  Rest(q) /\ \A j \in DOMAIN q.events : j > k => q.events[j].type = "result"
    <2>1. /\ k + 1 \in DOMAIN p.events /\ k \in Nat /\ q.events[k] = p.events[k + 1]
      BY <1>1
    <2>2. Rest(p) /\ \A j \in DOMAIN p.events : j > k + 1 => p.events[j].type = "result"
      BY <1>2, <1>11, <2>1 DEF Settled
    <2> QED
      BY <1>1, <2>1, <2>2
  <1> QED
    BY <1>3, <1>4, <1>5, <1>7, <1>8, <1>9, <1>10, <1>11 DEF q

\* The actor has taken note of an event that is no result.
LEMMA EventNoted ==
    ASSUME NEW v, NEW x, NEW p, Process(p), p.events # <<>>, NEW fin, NEW st,
           Actor(v), Matched(v, p, fin, st), Head(p.events).type # "result",
           x \in Actors, Alike(x, v), FenceOk(x), x.watch.probe # "settled", ~x.fence.settled,
           x.probe = "settled" => ~p.more,
           x.fence.seen => Told(v, x.fence.verdict, fin, st),
           p.run # "idle" \/ p.late => Open(Consumed(p).events, x.fence.seen)
    PROVE  Good(x, Consumed(p), fin, st)
  <1> DEFINE q == Consumed(p)
  <1>1. /\ v.active # None /\ ~Awaited(v) /\ v.client # 0 /\ ~v.fence.settled
        /\ Stages(v, q) /\ Calmness(v, q) /\ Runs(v, q, fin) /\ Worked(q, fin)
        /\ \A k \in DOMAIN q.events : q.events[k].type = "end" =>
              /\ Told(v, q.events[k].value, fin, st)
              /\ ~v.fence.active => k = Len(q.events) /\ q.run = "idle" /\ ~q.late
        /\ \A k \in DOMAIN q.events :
              /\ q.events[k].type = "result" /\ q.events[k].value = "settled"
              /\ Latest(v, q.events[k].input)
              => Rest(q) /\ \A j \in DOMAIN q.events : j > k => q.events[j].type = "result"
    BY EventConsumed
  <1>2. q.run = p.run /\ q.late = p.late /\ q.more = p.more
    BY ConsumedIs
  <1> HIDE DEF q
  <1>3. /\ Actor(x)
        /\ \A i : Latest(x, i) <=> Latest(v, i)
        /\ Stages(x, q) /\ Calmness(x, q) /\ Runs(x, q, fin)
        /\ \A verdict : Told(x, verdict, fin, st) <=> Told(v, verdict, fin, st)
    BY <1>1, AlikeActor
  <1>4. v.active # None /\ v.control = "abort" => v.active \in st
    BY DEF Matched, Ends
  <1>5. x.fence.active = v.fence.active /\ x.active = v.active /\ x.control = v.control
    BY DEF Alike
  <1>6. Ends(x, q, fin, st)
    BY <1>1, <1>2, <1>3, <1>4, <1>5 DEF Ends, q
  <1>7. Settled(x, q)
    BY <1>1, <1>2, <1>3 DEF Settled
  <1>8. Good(x, q, fin, st)
    BY <1>1, <1>3, <1>6, <1>7 DEF Good, Matched
  <1> QED
    BY <1>8 DEF q

\* A run starts: whatever was seen or settled before does not count.
LEMMA StartHandled ==
    ASSUME NEW v, NEW p, Process(p), p.events # <<>>, NEW fin, NEW st, Good(v, p, fin, st),
           v.watch = NoWatch, Head(p.events).type = "start"
    PROVE  LET x == [NewSteeredRun(v) EXCEPT !.awaiting = FALSE]
           IN  Good(x, Consumed(p), fin, st) /\ x.client = v.client /\ x.saved = v.saved
                 /\ x.last = v.last
  <1> DEFINE x == [NewSteeredRun(v) EXCEPT !.awaiting = FALSE]
  <1>1. v \in Actors /\ Actor(v) /\ Matched(v, p, fin, st) /\ FenceOk(v)
    BY DEF Good, Actor
  <1>2. /\ x \in Actors /\ Alike(x, v) /\ ~x.fence.seen /\ ~x.fence.settled
        /\ x.probe = "none" /\ x.watch = v.watch
    <2>1. CASE v.fence.active
      <3> DEFINE f == [v.fence EXCEPT !.settled = FALSE, !.seen = FALSE]
      <3>1. v.fence \in Fences
        BY <1>1 DEF Actors
      <3>2. /\ f \in Fences /\ ~f.settled /\ ~f.seen
            /\ f.active = v.fence.active /\ f.admission = v.fence.admission
        BY <3>1 DEF Fences
      <3>3. x = [v EXCEPT !.fence = f, !.probe = "none", !.awaiting = FALSE]
        BY <2>1 DEF NewSteeredRun
      <3> HIDE DEF f, x
      <3>4. x \in Actors
        BY <1>1, <3>2, <3>3 DEF Actors, Answers
      <3> QED
        BY <1>1, <3>2, <3>3, <3>4 DEF Actors, Alike, Link
    <2>2. CASE ~v.fence.active
      <3>1. x = [v EXCEPT !.awaiting = FALSE]
        BY <2>2 DEF NewSteeredRun
      <3> HIDE DEF x
      <3> QED
        BY <1>1, <2>2, <3>1 DEF Actors, Alike, Link, FenceOk
    <2> QED
      BY <2>1, <2>2
  <1> HIDE DEF x
  <1>3. FenceOk(x)
    <2>1. x.steers = v.steers /\ x.active = v.active /\ x.client = v.client
            /\ x.control = v.control /\ x.fence.active = v.fence.active
      BY <1>2 DEF Alike, Link
    <2> QED
      BY <1>1, <1>2, <2>1 DEF FenceOk
  <1>4. p.run # "idle" \/ p.late => Open(Consumed(p).events, x.fence.seen)
    <2>1. v.fence.seen \in BOOLEAN
      BY <1>1 DEF Actors, Fences
    <2>2. x.fence.seen = FALSE
      BY <1>2 DEF Actors, Fences
    <2> QED
      BY <1>1, <2>1, <2>2, OpenConsumed DEF Matched, Ends
  <1>5. Good(x, Consumed(p), fin, st)
    BY <1>1, <1>2, <1>3, <1>4, EventNoted DEF NoWatch
  <1> QED
    BY <1>2, <1>5 DEF Alike, Link, x

\* A yield only tells the actor to wait for more.
LEMMA YieldHandled ==
    ASSUME NEW v, NEW p, Process(p), p.events # <<>>, NEW fin, NEW st, Good(v, p, fin, st),
           v.watch = NoWatch, Head(p.events).type = "yield"
    PROVE  LET x == [v EXCEPT !.awaiting = TRUE]
           IN  Good(x, Consumed(p), fin, st) /\ x.client = v.client /\ x.saved = v.saved
                 /\ x.last = v.last
  <1> DEFINE x == [v EXCEPT !.awaiting = TRUE]
  <1>1. v \in Actors /\ Actor(v) /\ Matched(v, p, fin, st) /\ FenceOk(v)
    BY DEF Good, Actor
  <1>2. /\ x \in Actors /\ Alike(x, v) /\ x.fence = v.fence
        /\ x.probe = v.probe /\ x.watch = v.watch
    BY <1>1 DEF Actors, Alike, Link
  <1> HIDE DEF x
  <1>3. FenceOk(x)
    BY <1>1, <1>2, AlikeActor DEF FenceOk, Alike, Link
  <1>4. p.run # "idle" \/ p.late => Open(Consumed(p).events, x.fence.seen)
    <2>1. v.fence.seen \in BOOLEAN
      BY <1>1 DEF Actors, Fences
    <2> QED
      BY <1>1, <1>2, <2>1, OpenConsumed DEF Matched, Ends
  <1>5. ~v.fence.settled
    BY <1>1, EventConsumed
  <1>6. Good(x, Consumed(p), fin, st)
    BY <1>1, <1>2, <1>3, <1>4, <1>5, EventNoted DEF NoWatch, Matched, Ends, Settled
  <1> QED
    BY <1>2, <1>6 DEF Alike, Link, x

\* The end of a run under a fence is noted.
EndNoted(v, verdict) ==
    [v EXCEPT !.awaiting = FALSE, !.fence.seen = TRUE, !.fence.verdict = verdict]

\* The end of a run under a fence is noted, and its verdict is true.
LEMMA EndHandled ==
    ASSUME NEW v, NEW p, Process(p), p.events # <<>>, NEW fin, NEW st, Good(v, p, fin, st),
           v.watch = NoWatch, Head(p.events).type = "end", v.fence.active
    PROVE  LET e == Head(p.events)
               x == EndNoted(v, e.value)
           IN  /\ Good(x, Consumed(p), fin, st) /\ x.client = v.client /\ x.saved = v.saved
               /\ x.last = v.last /\ x.active = v.active /\ x.fence.active = v.fence.active
  <1> DEFINE e == Head(p.events)
             x == EndNoted(v, e.value)
             f == [v.fence EXCEPT !.seen = TRUE, !.verdict = e.value]
  <1>1. v \in Actors /\ Actor(v) /\ Matched(v, p, fin, st) /\ FenceOk(v)
    BY DEF Good, Actor
  <1>2. e \in Events /\ 1 \in DOMAIN p.events /\ e = p.events[1]
    BY ConsumedIs
  <1>3. e.value \in Verdicts /\ Told(v, e.value, fin, st)
    BY <1>1, <1>2 DEF Events, Matched, Ends
  <1>4. v.fence \in Fences
    BY <1>1 DEF Actors
  <1>5. /\ f \in Fences /\ f.seen /\ f.verdict = e.value /\ f.settled = v.fence.settled
        /\ f.active = v.fence.active /\ f.admission = v.fence.admission
    BY <1>3, <1>4 DEF Fences
  <1>6. x = [v EXCEPT !.awaiting = FALSE, !.fence = f]
    BY <1>1, <1>4 DEF Actors, Fences, EndNoted
  <1> HIDE DEF f, x, e
  <1>7. x \in Actors
    BY <1>1, <1>5, <1>6 DEF Actors
  <1>8. /\ Alike(x, v) /\ x.fence = f /\ x.probe = v.probe /\ x.watch = v.watch
    BY <1>1, <1>5, <1>6, <1>7 DEF Actors, Alike, Link
  <1>9. ~v.fence.settled /\ ~Awaited(v)
    BY <1>1, EventConsumed DEF e
  <1>10. FenceOk(x)
    <2>1. /\ x.steers = v.steers /\ x.active = v.active /\ x.client = v.client
          /\ x.control = v.control /\ (Awaited(x) <=> Awaited(v))
      BY <1>1, <1>7, <1>8, AlikeActor DEF Alike, Link
    <2> QED
      BY <1>1, <1>5, <1>8, <1>9, <2>1 DEF FenceOk
  <1>11. p.run # "idle" \/ p.late => Open(Consumed(p).events, x.fence.seen)
    <2>1. v.fence.seen \in BOOLEAN /\ x.fence.seen = TRUE
      BY <1>1, <1>5, <1>8 DEF Actors, Fences
    <2> QED
      BY <1>1, <2>1, OpenConsumed DEF Matched, Ends, e
  <1>12. Good(x, Consumed(p), fin, st)
    BY <1>1, <1>3, <1>5, <1>7, <1>8, <1>9, <1>10, <1>11, EventNoted
       DEF NoWatch, Matched, Settled, e
  <1> QED
    BY <1>5, <1>8, <1>12 DEF Alike, Link, x, e

\* Without a fence the end is the last event, and it is the root's.
LEMMA LastEndHandled ==
    ASSUME NEW v, NEW p, Process(p), p.events # <<>>, NEW fin, NEW st, Good(v, p, fin, st),
           Head(p.events).type = "end", ~v.fence.active
    PROVE  Handles(v, FinishTask([v EXCEPT !.awaiting = FALSE], RootVerdict(Head(p.events).value)),
                   Consumed(p), IdleNow(p), fin, st)
  <1> DEFINE e == Head(p.events)
             q == Consumed(p)
             u == [v EXCEPT !.awaiting = FALSE]
             x == FinishTask(u, RootVerdict(e.value))
  <1>1. v \in Actors /\ Actor(v) /\ Matched(v, p, fin, st) /\ FenceOk(v)
    BY DEF Good, Actor
  <1>2. /\ Process(q) /\ e \in Events /\ 1 \in DOMAIN p.events /\ e = p.events[1]
        /\ q.run = p.run /\ q.root = p.root /\ q.doing = p.doing
        /\ q.todo = p.todo /\ q.more = p.more /\ q.late = p.late
        /\ Len(q.events) = Len(p.events) - 1
    BY ConsumedIs
  <1>3. /\ v.active # None /\ ~Awaited(v) /\ v.client # 0 /\ Stages(v, q)
    BY <1>1, EventConsumed
  <1> HIDE DEF e, q
  <1>4. /\ e.value \in Verdicts /\ Told(v, e.value, fin, st)
        /\ 1 = Len(p.events) /\ p.run = "idle" /\ ~p.late
    BY <1>1, <1>2 DEF Events, Matched, Ends, e
  <1>5. q.events = <<>>
    <2>1. q.events \in Seq(Events) /\ Len(q.events) = 0
      BY <1>2, <1>4 DEF Process, Processes
    <2> QED
      BY <2>1
  <1>6. v.steers = {} /\ SteerInputs(v) = {}
    BY <1>1 DEF FenceOk, SteerInputs
  <1>7. q.todo = {} /\ q.doing = {}
    BY <1>3, <1>6 DEF Stages
  <1>8. Calm(q) /\ q.root = None
    BY <1>1, <1>2, <1>4, <1>5, <1>7 DEF Calm, Rest, IdleNow, Matched, Runs
  <1>9. /\ u \in Actors /\ Alike(u, v) /\ u.fence = v.fence /\ u.probe = v.probe
    BY <1>1 DEF Actors, Alike, Link
  <1> HIDE DEF u
  <1>10. /\ u.client = v.client /\ u.active = v.active /\ u.saved = v.saved /\ u.last = v.last
    BY <1>9 DEF Alike, Link
  <1>11. Actor(u) /\ ~Awaited(u) /\ ~u.fence.active
    <2>1. FenceOk(u)
      BY <1>1, <1>9, AlikeActor DEF FenceOk, Alike, Link
    <2> QED
      BY <1>1, <1>3, <1>9, <2>1, AlikeActor
  <1>12. RootVerdict(e.value) \in Final
    BY <1>4, VerdictIsFinal
  <1>13. /\ Good(x, q, fin, st) /\ x.client = u.client /\ x.last = u.last
         /\ x.saved = [u.saved EXCEPT ![u.active] = RootVerdict(e.value)]
         /\ u.active \in Prompts /\ u.saved[u.active] = "submitted"
    BY <1>3, <1>8, <1>10, <1>11, <1>12, FinishGood
  <1> HIDE DEF x
  <1>14. Leads(v, x, IdleNow(p), fin, st)
    BY <1>1, <1>4, <1>10, <1>13, VerdictLeads
  <1>15. Handles(v, x, q, IdleNow(p), fin, st)
    BY <1>10, <1>13, <1>14 DEF Handles, Stay
  <1> QED
    BY <1>15 DEF x, u, q, e

\* Of the steers the latest is the last to wait.
LEMMA LatestIsLast ==
    ASSUME NEW v, Actor(v), NEW i, NEW j, Unsent(v, j), Latest(v, i)
    PROVE  Unsent(v, i)
  <1>1. LastSteer(v) /\ Ledger(v)
    BY DEF Actor
  <1>2. PICK l : Unsent(v, l) /\ Latest(v, l)
    <2>1. CASE \E k \in DOMAIN v.lane : v.lane[k].kind = "steer" /\ v.lane[k].input = j
      <3>1. PICK k \in DOMAIN v.lane : v.lane[k].kind = "steer" /\ Latest(v, v.lane[k].input)
        BY <1>1, <2>1 DEF LastSteer
      <3> QED
        BY <3>1 DEF Unsent
    <2>2. CASE OutSteer(v)
      BY <1>1, <2>2 DEF LastSteer, Unsent
    <2> QED
      BY <2>1, <2>2 DEF Unsent
  <1>3. i = l
    BY <1>1, <1>2 DEF Latest, Ledger
  <1> QED
    BY <1>2, <1>3

\* A steer is settled by itself.
LEMMA SteerOut ==
    ASSUME NEW v, NEW x, Base(v), NEW s \in v.steers, x \in Actors,
           NEW state \in Final, x.saved = [v.saved EXCEPT ![s.input] = state],
           Link(x, v), x.active = v.active,
           x.steers = v.steers \ {s}, x.fence.active = v.fence.active,
           x.fence.admission = v.fence.admission
    PROVE  /\ Base(x)
           /\ s.input \in Prompts /\ s.input # v.active /\ v.saved[s.input] = "submitted"
           /\ v.fence.active
  <1> USE DEF Link
  <1>1. v \in Actors /\ Ledger(v) /\ Counters(v)
    BY DEF Base
  <1>2. s.input \in Prompts /\ v.saved \in [Prompts -> SavedStates]
    BY <1>1 DEF Actors, SteerRequests
  <1>3. s.input # v.active /\ v.saved[s.input] = "submitted" /\ v.fence.active
    BY <1>1 DEF Ledger, Base
  <1>4. \A i \in Prompts : x.saved[i] = IF i = s.input THEN state ELSE v.saved[i]
    BY <1>2
  <1>5. Ledger(x)
    <2>1. v.active # None => v.active \in Prompts
      BY <1>1 DEF Actors
    <2>2. \A t \in x.steers : t \in v.steers /\ t.input \in Prompts /\ t.input # s.input
      BY <1>1 DEF Actors, SteerRequests, Ledger
    <2>3. \A k \in DOMAIN v.queue : v.queue[k] \in Prompts /\ v.queue[k] # s.input
      BY <1>1, <1>3 DEF Actors, Ledger
    <2> QED
      BY <1>1, <1>3, <1>4, <2>1, <2>2, <2>3 DEF Ledger
  <1>6. Counters(x)
    BY <1>1 DEF Counters
  <1> QED
    BY <1>2, <1>3, <1>5, <1>6 DEF Base

\* If it no longer waits, nothing else changes.
LEMMA SteerLeaves ==
    ASSUME NEW v, NEW x, Actor(v), NEW s \in v.steers, ~Unsent(v, s.input), x \in Actors,
           NEW state \in Final, x.saved = [v.saved EXCEPT ![s.input] = state],
           Link(x, v), x.active = v.active, x.control = v.control, x.session = v.session,
           x.steers = v.steers \ {s}, x.fence.active = v.fence.active,
           x.fence.admission = v.fence.admission
    PROVE  /\ FenceOk(x) => Actor(x)
           /\ Base(x)
           /\ Awaited(x) <=> Awaited(v)
           /\ \A i : (Unsent(x, i) <=> Unsent(v, i)) /\ (Latest(x, i) => Latest(v, i))
           /\ \A i : i \in SteerInputs(x) <=> i \in SteerInputs(v) /\ i # s.input
           /\ s.input \in Prompts /\ s.input # v.active /\ v.saved[s.input] = "submitted"
           /\ v.fence.active
  <1> USE DEF Link
  <1>1. /\ v \in Actors /\ Ledger(v) /\ Counters(v) /\ Unconnected(v)
        /\ LaneOk(v) /\ FlightOk(v) /\ LastSteer(v) /\ FenceOk(v)
    BY DEF Actor
  <1>2. /\ Base(x) /\ s.input \in Prompts /\ s.input # v.active
        /\ v.saved[s.input] = "submitted" /\ v.fence.active
    BY GoodIsBase, SteerOut
  <1>6. Unconnected(x)
    BY <1>1 DEF Unconnected
  <1>8. (Awaited(x) <=> Awaited(v)) /\ (Claims(x) <=> Claims(v)) /\ (OutSteer(x) <=> OutSteer(v))
    BY DEF Awaited, Claims, OutSteer, Mine
  <1>9. \A i : Unsent(x, i) <=> Unsent(v, i)
    BY <1>8 DEF Unsent
  <1>10. \A i : Latest(x, i) => Latest(v, i)
    BY DEF Latest
  <1>11. \A i : Latest(v, i) /\ i # s.input => Latest(x, i)
    BY DEF Latest
  <1>12. \A i : i \in SteerInputs(x) <=> i \in SteerInputs(v) /\ i # s.input
    BY <1>1 DEF SteerInputs, Ledger
  <1>13. ASSUME NEW op, Waits(v, op), op.kind = "steer" => op.input # s.input
         PROVE  Waits(x, op)
    BY <1>12, <1>13 DEF Waits, Granted
  <1>14. \A k \in DOMAIN v.lane : v.lane[k].kind = "steer" => v.lane[k].input # s.input
    BY DEF Unsent
  <1>15. Claims(v) /\ v.flight.kind = "steer" => v.flight.input # s.input
    BY DEF Unsent, OutSteer, Claims, Asks
  <1>16. LaneOk(x)
    <2>1. Own(x, x.flight) <=> Own(v, v.flight)
      BY DEF Own, Mine
    <2> QED
      BY <1>1, <1>13, <1>14, <2>1 DEF LaneOk
  <1>17. FlightOk(x)
    BY <1>1, <1>8, <1>13, <1>15 DEF FlightOk
  <1>18. LastSteer(x)
    <2>1. ASSUME NEW k \in DOMAIN x.lane, x.lane[k].kind = "steer"
          PROVE  \E j \in DOMAIN x.lane : /\ j >= k /\ x.lane[j].kind = "steer"
                                          /\ Latest(x, x.lane[j].input)
      BY <1>1, <1>11, <1>14, <2>1 DEF LastSteer
    <2>2. ASSUME OutSteer(x)
          PROVE  \/ Latest(x, x.flight.input)
                 \/ \E j \in DOMAIN x.lane : x.lane[j].kind = "steer" /\ Latest(x, x.lane[j].input)
      <3>1. v.flight.input # s.input
        BY <1>8, <2>2 DEF Unsent
      <3> QED
        BY <1>1, <1>8, <1>11, <1>14, <2>2, <3>1 DEF LastSteer
    <2> QED
      BY <2>1, <2>2 DEF LastSteer
  <1>19. FenceOk(x) => Actor(x)
    BY <1>2, <1>6, <1>16, <1>17, <1>18 DEF Actor, Base
  <1> QED
    BY <1>2, <1>8, <1>9, <1>10, <1>12, <1>19

\* A steer gets its state, and the fence what that says of OMP.
SteerSettled(v, s, state, settled) ==
    [FinishSteer(v, s, state) EXCEPT !.fence.settled = settled]

\* One steer gets its final state and leaves.
LEMMA FinishSteerIs ==
    ASSUME NEW v, v \in Actors, NEW s \in v.steers, NEW state \in Final, NEW settled \in BOOLEAN
    PROVE  LET x == SteerSettled(v, s, state, settled)
           IN  /\ x \in Actors /\ Link(x, v) /\ x.active = v.active
               /\ x.control = v.control /\ x.session = v.session
               /\ x.saved = [v.saved EXCEPT ![s.input] = state] /\ x.steers = v.steers \ {s}
               /\ x.fence.active = v.fence.active /\ x.fence.admission = v.fence.admission
               /\ x.fence.seen = v.fence.seen /\ x.fence.verdict = v.fence.verdict
               /\ x.fence.settled = settled /\ x.probe = v.probe /\ x.watch = v.watch
  <1> DEFINE x == SteerSettled(v, s, state, settled)
             y == FinishSteer(v, s, state)
             sv == [v.saved EXCEPT ![s.input] = state]
             f == [v.fence EXCEPT !.settled = settled]
             ss == v.steers \ {s}
  <1>1. s.input \in Prompts /\ v.saved \in [Prompts -> SavedStates] /\ state \in SavedStates
    BY DEF Actors, SteerRequests, SavedStates
  <1>2. sv \in [Prompts -> SavedStates] /\ ss \in SUBSET SteerRequests
    BY <1>1 DEF Actors
  <1>3. v.fence \in Fences
    BY DEF Actors
  <1>4. /\ f \in Fences /\ f.active = v.fence.active /\ f.admission = v.fence.admission
        /\ f.seen = v.fence.seen /\ f.verdict = v.fence.verdict /\ f.settled = settled
    BY <1>3 DEF Fences
  <1>5. y = [v EXCEPT !.saved = sv, !.steers = ss]
    BY DEF FinishSteer
  <1> HIDE DEF sv, ss
  <1>6. y \in Actors /\ y.fence = v.fence
    BY <1>2, <1>5 DEF Actors
  <1>7. x = [y EXCEPT !.fence = f]
    BY <1>6 DEF Actors, Fences, SteerSettled
  <1> HIDE DEF y, f, x
  <1>8. x \in Actors
    BY <1>4, <1>6, <1>7 DEF Actors
  <1>9. /\ Link(x, v) /\ x.active = v.active
        /\ x.control = v.control /\ x.session = v.session
        /\ x.saved = sv /\ x.steers = ss /\ x.fence = f
        /\ x.probe = v.probe /\ x.watch = v.watch
    BY <1>5, <1>6, <1>7, <1>8 DEF Actors, Link
  <1> QED
    BY <1>4, <1>8, <1>9 DEF x, f, sv, ss

\* With the fence as it is only the steer is settled.
LEMMA SteerFinished ==
    ASSUME NEW v, v \in Actors, NEW s \in v.steers, NEW state \in Final
    PROVE  SteerSettled(v, s, state, v.fence.settled) = FinishSteer(v, s, state)
  <1> DEFINE sv == [v.saved EXCEPT ![s.input] = state]
             ss == v.steers \ {s}
             y == FinishSteer(v, s, state)
  <1>1. s.input \in Prompts /\ state \in SavedStates
    BY DEF Actors, SteerRequests, SavedStates
  <1>2. sv \in [Prompts -> SavedStates] /\ ss \in SUBSET SteerRequests
    BY <1>1 DEF Actors
  <1>3. y = [v EXCEPT !.saved = sv, !.steers = ss]
    BY DEF FinishSteer
  <1> HIDE DEF sv, ss
  <1>4. y \in Actors /\ y.fence = v.fence
    BY <1>2, <1>3 DEF Actors
  <1> HIDE DEF y
  <1>5. [y EXCEPT !.fence.settled = v.fence.settled] = y
    BY <1>4 DEF Actors, Fences
  <1> QED
    BY <1>5 DEF SteerSettled, y

\* A reported steer is taken off, and may say that OMP has settled.
LEMMA SteerReported ==
    ASSUME NEW v, NEW p, Process(p), p.events # <<>>, NEW fin, NEW st, Good(v, p, fin, st),
           v.watch = NoWatch, Head(p.events).type = "result",
           NEW s \in v.steers, s.input = Head(p.events).input, NEW state \in Final,
           NEW settled \in BOOLEAN,
           settled => \/ v.fence.settled
                      \/ s.admission = v.fence.admission /\ Head(p.events).value = "settled"
    PROVE  LET x == SteerSettled(v, s, state, settled)
           IN  /\ Good(x, Consumed(p), fin, st) /\ Base(x)
               /\ x.client = v.client /\ x.active = v.active /\ x.last = v.last
               /\ x.fence.active = v.fence.active /\ v.client # 0
               /\ x.saved = [v.saved EXCEPT ![s.input] = state]
               /\ s.input \in Prompts /\ s.input # v.active /\ v.saved[s.input] = "submitted"
               /\ s.input \in fin
  <1> DEFINE q == Consumed(p)
             e == Head(p.events)
             x == SteerSettled(v, s, state, settled)
  <1>1. v \in Actors /\ Actor(v) /\ Matched(v, p, fin, st) /\ FenceOk(v)
    BY DEF Good, Actor
  <1>2. /\ Process(q)
        /\ q.run = p.run /\ q.root = p.root /\ q.doing = p.doing
        /\ q.todo = p.todo /\ q.more = p.more /\ q.late = p.late
        /\ Rest(q) = Rest(p)
        /\ 1 \in DOMAIN p.events /\ e = p.events[1]
        /\ \A k \in DOMAIN q.events : /\ k + 1 \in DOMAIN p.events /\ k \in Nat /\ k >= 1
                                      /\ q.events[k] = p.events[k + 1]
        /\ \A k \in DOMAIN p.events : /\ k \in Nat /\ k >= 1
                                      /\ k # 1 => /\ k - 1 \in DOMAIN q.events
                                                  /\ q.events[k - 1] = p.events[k]
        /\ Len(q.events) = Len(p.events) - 1 /\ Len(p.events) \in Nat
    BY ConsumedIs
  <1>3. /\ x \in Actors /\ Link(x, v) /\ x.active = v.active
        /\ x.control = v.control /\ x.session = v.session
        /\ x.saved = [v.saved EXCEPT ![s.input] = state] /\ x.steers = v.steers \ {s}
        /\ x.fence.active = v.fence.active /\ x.fence.admission = v.fence.admission
        /\ x.fence.seen = v.fence.seen /\ x.fence.verdict = v.fence.verdict
        /\ x.fence.settled = settled /\ x.probe = v.probe /\ x.watch = v.watch
    BY <1>1, FinishSteerIs
  <1> HIDE DEF q, e, x
  <1>4. /\ Stages(v, p) /\ Calmness(v, p) /\ Runs(v, p, fin) /\ Worked(p, fin)
        /\ Ends(v, p, fin, st) /\ Settled(v, p)
    BY <1>1 DEF Matched
  <1>5. v.active # None /\ ~Awaited(v)
    BY <1>4 DEF Calmness, Calm
  <1>6. v.client # 0
    BY <1>1, <1>5 DEF Actor, Unconnected
  <1>7. Reported(p, s.input)
    BY <1>2 DEF Reported, e
  <1>8. ~Unsent(v, s.input) /\ s.input \notin p.todo /\ s.input \notin p.doing /\ s.input \in fin
    BY <1>4, <1>7 DEF Stages, Worked
  <1>9. /\ FenceOk(x) => Actor(x)
        /\ Base(x)
        /\ Awaited(x) <=> Awaited(v)
        /\ \A i : (Unsent(x, i) <=> Unsent(v, i)) /\ (Latest(x, i) => Latest(v, i))
        /\ \A i : i \in SteerInputs(x) <=> i \in SteerInputs(v) /\ i # s.input
        /\ s.input \in Prompts /\ s.input # v.active /\ v.saved[s.input] = "submitted"
        /\ v.fence.active
    BY <1>1, <1>3, <1>8, SteerLeaves
  <1>10. x.client = v.client /\ x.last = v.last
    BY <1>3 DEF Link
  <1>11. v.probe = "none"
    BY <1>1 DEF FenceOk
  <1>12. FenceOk(x)
    BY <1>1, <1>3, <1>5, <1>9, <1>10, <1>11 DEF FenceOk
  <1>13. ASSUME NEW i, Reported(q, i) PROVE Reported(p, i) /\ i # s.input
    <2>1. PICK k \in DOMAIN q.events : q.events[k].type = "result" /\ q.events[k].input = i
      BY <1>13 DEF Reported
    <2>4. k + 1 \in DOMAIN p.events /\ k \in Nat /\ k >= 1 /\ q.events[k] = p.events[k + 1]
      BY <1>2
    <2>2. /\ k + 1 \in DOMAIN p.events /\ k \in Nat /\ k >= 1 /\ k + 1 # 1
          /\ p.events[k + 1].type = "result" /\ p.events[k + 1].input = i
      BY <2>1, <2>4
    <2>3. i # s.input
      BY <1>2, <1>4, <2>2 DEF Stages, e
    <2> QED
      BY <2>2, <2>3 DEF Reported
  <1>14. Stages(x, q)
    <2>1. ASSUME NEW j \in DOMAIN q.events, NEW k \in DOMAIN q.events,
                 q.events[j].type = "result", q.events[k].type = "result",
                 q.events[j].input = q.events[k].input
          PROVE  j = k
      <3>1. /\ j + 1 \in DOMAIN p.events /\ k + 1 \in DOMAIN p.events /\ j \in Nat /\ k \in Nat
            /\ q.events[j] = p.events[j + 1] /\ q.events[k] = p.events[k + 1]
        BY <1>2
      <3>2. j + 1 = k + 1
        BY <1>4, <2>1, <3>1 DEF Stages
      <3> QED
        BY <3>1, <3>2
    <2>2. \A i : i \in q.todo \/ i \in q.doing \/ Reported(q, i) =>
                     i \in SteerInputs(x) /\ ~Unsent(x, i)
      BY <1>2, <1>4, <1>8, <1>9, <1>13 DEF Stages
    <2>3. /\ \A i : i \in q.todo => i \notin q.doing
          /\ \A i : i \in q.todo \/ i \in q.doing => ~Reported(q, i)
      BY <1>2, <1>4, <1>13 DEF Stages
    <2> QED
      BY <2>1, <2>2, <2>3 DEF Stages
  <1>15. Calmness(x, q)
    BY <1>3, <1>5, <1>6, <1>9, <1>10 DEF Calmness
  <1>16. Runs(x, q, fin)
    BY <1>2, <1>3, <1>4, <1>9 DEF Runs, Aborted
  <1>17. Ends(x, q, fin, st)
    <2>1. ASSUME NEW k \in DOMAIN q.events, q.events[k].type = "end"
          PROVE  Told(x, q.events[k].value, fin, st)
      BY <1>2, <1>3, <1>4, <2>1 DEF Ends, Told
    <2>2. p.run # "idle" \/ p.late => Open(q.events, v.fence.seen)
      <3>1. v.fence.seen \in BOOLEAN
        BY <1>1 DEF Actors, Fences
      <3> QED
        BY <1>4, <3>1, OpenConsumed DEF Ends, q
    <2> QED
      BY <1>2, <1>3, <1>4, <1>9, <2>1, <2>2 DEF Ends, Told
  <1>18. Settled(x, q)
    <2>1. ASSUME settled
          PROVE  /\ Rest(p) /\ \A i : ~Unsent(v, i)
                 /\ \A k \in DOMAIN p.events : p.events[k].type = "result"
      <3>1. CASE v.fence.settled
        BY <1>4, <3>1 DEF Settled
      <3>2. CASE s.admission = v.fence.admission /\ e.value = "settled"
        <4>1. Latest(v, s.input)
          BY <3>2 DEF Latest
        <4>2. Rest(p) /\ \A k \in DOMAIN p.events : k > 1 => p.events[k].type = "result"
          BY <1>2, <1>4, <3>2, <4>1 DEF Settled, e
        <4>3. ASSUME NEW k \in DOMAIN p.events PROVE p.events[k].type = "result"
          BY <1>2, <4>2 DEF e
        <4>4. \A i : ~Unsent(v, i)
          BY <1>1, <1>8, <4>1, LatestIsLast
        <4> QED
          BY <4>2, <4>3, <4>4
      <3> QED
        BY <2>1, <3>1, <3>2 DEF e
    <2>2. ASSUME NEW k \in DOMAIN q.events,
                 q.events[k].type = "result", q.events[k].value = "settled",
                 Latest(x, q.events[k].input)
          PROVE  Rest(q) /\ \A j \in DOMAIN q.events : j > k => q.events[j].type = "result"
      <3>1. /\ k + 1 \in DOMAIN p.events /\ k \in Nat /\ q.events[k] = p.events[k + 1]
        BY <1>2
      <3>2. Rest(p) /\ \A j \in DOMAIN p.events : j > k + 1 => p.events[j].type = "result"
        BY <1>4, <1>9, <2>2, <3>1 DEF Settled
      <3>3. ASSUME NEW j \in DOMAIN q.events, j > k PROVE q.events[j].type = "result"
        BY <1>2, <3>1, <3>2, <3>3
      <3> QED
        BY <1>2, <3>2, <3>3
    <2>3. settled => /\ Rest(q) /\ \A i : ~Unsent(x, i)
                     /\ \A k \in DOMAIN q.events : q.events[k].type = "result"
      BY <1>2, <1>9, <2>1
    <2> QED
      BY <1>3, <1>11, <2>2, <2>3 DEF Settled, NoWatch
  <1>19. Worked(q, fin)
    BY <1>4, <1>13 DEF Worked
  <1>20. Good(x, q, fin, st)
    BY <1>9, <1>12, <1>14, <1>15, <1>16, <1>17, <1>18, <1>19 DEF Good, Matched
  <1> QED
    BY <1>3, <1>6, <1>8, <1>9, <1>10, <1>20 DEF x, q

\* The result of a steer settles the steer it is of, and, if it is the latest and OMP
\* has settled, perhaps the root (steerResult, maybeFinishSteeredRoot).
LEMMA SteerResultHandles ==
    ASSUME NEW v, NEW p, Process(p), p.events # <<>>, NEW fin, NEW st, Good(v, p, fin, st),
           Held(v), v.watch = NoWatch, Head(p.events).type = "result"
    PROVE  Handles(v, SteerResult(v, Head(p.events)), Consumed(p), IdleNow(p), fin, st)
  <1> DEFINE e == Head(p.events)
             q == Consumed(p)
             mine == {t \in v.steers : t.input = e.input /\ CurrentSteer(v, t)}
             s == CHOOSE t \in mine : TRUE
             state == CASE e.value \in {"settled", "unsettled"} -> "done"
                        [] e.value = "error" -> "failed"
                        [] OTHER -> "uncertain"
             settled == IF s.admission = v.fence.admission \/ e.value = "unsettled"
                          THEN e.value = "settled" ELSE v.fence.settled
             u == FinishSteer(v, s, state)
             y == [u EXCEPT !.fence.settled = (e.value = "settled")]
             x == SteerSettled(v, s, state, settled)
  <1>1. v \in Actors /\ Actor(v) /\ Matched(v, p, fin, st)
    BY DEF Good, Actor
  <1>2. 1 \in DOMAIN p.events /\ e = p.events[1] /\ Process(q) /\ IdleNow(q) = IdleNow(p)
    BY ConsumedIs
  <1>3. e.input \in SteerInputs(v)
    BY <1>1, <1>2 DEF Matched, Stages, Reported
  <1>4. mine # {}
    BY <1>3 DEF SteerInputs, Held
  <1>5. s \in mine
    BY <1>4
  <1>6. s \in v.steers /\ s.input = e.input
    BY <1>5
  <1> HIDE DEF s
  <1>7. state \in Final /\ (state \in {"done", "failed", "uncertain"})
    BY DEF Final
  <1>8. v.fence.settled \in BOOLEAN /\ (e.value = "settled") \in BOOLEAN /\ settled \in BOOLEAN
    BY <1>1 DEF Actors, Fences
  <1>9. settled => \/ v.fence.settled
                   \/ s.admission = v.fence.admission /\ e.value = "settled"
    OBVIOUS
  <1>10. (IF s.admission = v.fence.admission \/ e.value = "unsettled" THEN y ELSE u) = x
    <2>1. CASE s.admission = v.fence.admission \/ e.value = "unsettled"
      BY <2>1 DEF SteerSettled
    <2>2. CASE ~(s.admission = v.fence.admission \/ e.value = "unsettled")
      <3>1. settled = v.fence.settled
        BY <2>2
      <3> HIDE DEF settled, state
      <3>2. x = u
        BY <1>1, <1>6, <1>7, <3>1, SteerFinished, SMTT(30)
      <3> QED
        BY <2>2, <3>2
    <2> QED
      BY <2>1, <2>2
  <1>11. SteerResult(v, e) = IF state = "uncertain" THEN RetireTaskRuntime(x)
                             ELSE MaybeFinishSteeredRoot(x)
    BY <1>4, <1>10 DEF SteerResult, s, u, y
  <1> HIDE DEF settled, state, u, y, mine
  <1>12. /\ Good(x, q, fin, st) /\ Base(x)
         /\ x.client = v.client /\ x.active = v.active /\ x.last = v.last
         /\ x.fence.active = v.fence.active /\ v.client # 0
         /\ x.saved = [v.saved EXCEPT ![s.input] = state]
         /\ s.input \in Prompts /\ s.input # v.active /\ v.saved[s.input] = "submitted"
         /\ s.input \in fin
    BY <1>6, <1>7, <1>8, <1>9, SteerReported
  <1> HIDE DEF x
  <1>13. Leads(v, x, IdleNow(p), fin, st)
    <2>1. x.last >= v.last /\ v.saved[s.input] \notin Final /\ state \in SavedStates
      BY <1>1, <1>7, <1>12 DEF Actors, Final, SavedStates
    <2> QED
      BY <1>1, <1>7, <1>12, <2>1, LeadsOne DEF Final
  <1>14. x \in Actors
    BY <1>12 DEF Base
  <1>15. CASE state = "uncertain"
    <2>1. Handles(x, RetireTaskRuntime(x), q, IdleNow(p), fin, st)
      BY <1>12, RetireHandles
    <2> QED
      BY <1>1, <1>11, <1>12, <1>13, <1>14, <1>15, <2>1, HandlesOn
  <1>16. CASE state # "uncertain"
    <2>1. Handles(x, MaybeFinishSteeredRoot(x), q, IdleNow(p), fin, st)
      BY <1>2, <1>12, MaybeFinishHandles
    <2> QED
      BY <1>1, <1>11, <1>12, <1>13, <1>14, <1>16, <2>1, HandlesOn
  <1> QED
    BY <1>15, <1>16

-----------------------------------------------------------------------------
\* What leaves the task as it is.

\* The inputs have moved on, or wait, without their task.
LEMMA KeptGood ==
    ASSUME NEW v, NEW x, NEW p, NEW fin, NEW st, Good(v, p, fin, st),
           x \in Actors, Ledger(x), Grip(x, v), x.active = v.active, x.watch = v.watch,
           x.client = v.client, x.last = v.last, x.turn = v.turn, x.lane = v.lane,
           x.flight = v.flight
    PROVE  Good(x, p, fin, st)
  <1> USE DEF Grip
  <1>1. v \in Actors /\ Actor(v) /\ Matched(v, p, fin, st)
    BY DEF Good, Actor
  <1>2. Counters(x) /\ Unconnected(x)
    BY <1>1 DEF Actor, Counters, Unconnected
  <1>3. Awaited(x) = Awaited(v) /\ Claims(x) = Claims(v) /\ OutSteer(x) = OutSteer(v)
    BY DEF Awaited, Claims, OutSteer, Mine
  <1>4. \A op : (Waits(x, op) <=> Waits(v, op)) /\ (Own(x, op) <=> Own(v, op))
    BY DEF Waits, Own, Mine, Granted, SteerInputs
  <1>5. \A i : (Latest(x, i) <=> Latest(v, i)) /\ (Unsent(x, i) <=> Unsent(v, i))
    BY <1>3 DEF Latest, Unsent
  <1>6. LaneOk(x)
    BY <1>1, <1>4 DEF Actor, LaneOk
  <1>7. FlightOk(x)
    BY <1>1, <1>3, <1>4 DEF Actor, FlightOk
  <1>8. LastSteer(x)
    BY <1>1, <1>3, <1>5 DEF Actor, LastSteer
  <1>9. FenceOk(x)
    BY <1>1, <1>3 DEF Actor, FenceOk
  <1>10. Actor(x)
    BY <1>2, <1>6, <1>7, <1>8, <1>9 DEF Actor
  <1>11. Stages(x, p) /\ Calmness(x, p)
    BY <1>1, <1>3, <1>5 DEF Matched, Stages, Calmness, SteerInputs
  <1>12. Runs(x, p, fin) /\ Ends(x, p, fin, st)
    BY <1>1, <1>3 DEF Matched, Runs, Ends, Aborted, Told, Mine
  <1>13. Settled(x, p) /\ Worked(p, fin)
    BY <1>1, <1>5 DEF Matched, Settled
  <1> QED
    BY <1>10, <1>11, <1>12, <1>13 DEF Good, Matched

\* The queue is cleared, and its inputs are cancelled.
LEMMA ClearQueueLeads ==
    ASSUME NEW v, Base(v), NEW idle, NEW fin, NEW st
    PROVE  LET x == ClearQueue(v)
           IN  /\ Base(x) /\ Leads(v, x, idle, fin, st) /\ x.client = v.client
               /\ x.last = v.last /\ x.active = v.active /\ x.fence = v.fence
               /\ \A p : Good(v, p, fin, st) => Good(x, p, fin, st)
               /\ \A i \in Prompts : x.saved[i] \in {"done", "submitted"} => x.saved[i] = v.saved[i]
  <1> DEFINE x == ClearQueue(v)
  <1>1. v \in Actors /\ Ledger(v) /\ Counters(v) /\ v.last \in Nat
    BY DEF Base, Actors
  <1>2. /\ x \in Actors /\ Ledger(x) /\ Grip(x, v) /\ x.queue = <<>>
        /\ x.client = v.client /\ x.last = v.last /\ x.turn = v.turn
        /\ x.lane = v.lane /\ x.flight = v.flight /\ x.active = v.active
        /\ x.watch = v.watch
        /\ \A i \in Prompts : \/ x.saved[i] = v.saved[i]
                              \/ v.saved[i] = "queued" /\ x.saved[i] = "cancelled"
    BY <1>1, ClearQueueIs
  <1> HIDE DEF x
  <1>3. Base(x)
    BY <1>1, <1>2 DEF Base, Counters, Grip
  <1>4. Leads(v, x, idle, fin, st)
    BY <1>1, <1>2 DEF Leads, Moved, Final
  <1>5. ASSUME NEW p, Good(v, p, fin, st) PROVE Good(x, p, fin, st)
    BY <1>2, <1>5, KeptGood
  <1>6. Base(x) /\ Leads(v, x, idle, fin, st) /\ x.client = v.client
          /\ x.last = v.last /\ x.active = v.active /\ x.fence = v.fence
          /\ \A i \in Prompts : x.saved[i] \in {"done", "submitted"} => x.saved[i] = v.saved[i]
    BY <1>2, <1>3, <1>4 DEF Grip
  <1> QED
    BY <1>5, <1>6 DEF x

\* The actor is good where it stays.
LEMMA HandlesSame ==
    ASSUME NEW v, NEW x, NEW rest, NEW idle, NEW fin, NEW st, Good(x, rest, fin, st),
           x.saved = v.saved, x.last = v.last, x.client = v.client
    PROVE  Handles(v, x, rest, idle, fin, st)
  <1>1. x.last >= v.last
    BY DEF Good, Actor, Actors
  <1>2. Leads(v, x, idle, fin, st)
    BY <1>1, LeadsSame
  <1> QED
    BY <1>2 DEF Handles, Stay

\* One handler after another.
LEMMA HandlesThen ==
    ASSUME NEW v, NEW u, NEW x, NEW p, NEW idle, NEW fin, NEW st, v \in Actors,
           Handles(v, u, p, idle, fin, st), Handles(u, x, Stay(v, u, p), idle, fin, st),
           x.client \in {u.client, 0}, v.client = 0 => p = Dead,
           \A i \in Prompts : x.saved[i] = "done" => u.saved[i] = "done"
    PROVE  Handles(v, x, p, idle, fin, st)
  <1>1. /\ Leads(v, u, idle, fin, st) /\ Leads(u, x, idle, fin, st)
        /\ Good(x, Stay(u, x, Stay(v, u, p)), fin, st)
    BY DEF Handles
  <1>2. v.last \in Nat /\ u.last \in Nat /\ x.last \in Nat
    BY <1>1 DEF Handles, Good, Actor, Actors
  <1>3. Leads(v, x, idle, fin, st)
    BY <1>1, <1>2, LeadsOn
  <1>4. Stay(u, x, Stay(v, u, p)) = Stay(v, x, p)
    BY DEF Stay
  <1> QED
    BY <1>1, <1>3, <1>4 DEF Handles

\* A control is over, and nothing in the lane needs it.
LEMMA ControlEnds ==
    ASSUME NEW v, NEW x, NEW p, NEW fin, NEW st, Good(v, p, fin, st),
           x \in Actors, Link(x, v), x.saved = v.saved, x.active = v.active,
           x.steers = v.steers, x.fence = v.fence, x.probe = v.probe, x.watch = v.watch,
           x.control \in {v.control, "none"}, x.session \in {v.session, FALSE},
           x.control # v.control => Without(v, Asks),
           x.session # v.session => Without(v, {"compact"})
    PROVE  Good(x, p, fin, st)
  <1> USE DEF Link
  <1>1. v \in Actors /\ Actor(v) /\ Matched(v, p, fin, st)
    BY DEF Good, Actor
  <1>2. Ledger(x) /\ Counters(x) /\ Unconnected(x)
    BY <1>1 DEF Actor, Ledger, Counters, Unconnected
  <1>3. Awaited(x) = Awaited(v) /\ Claims(x) = Claims(v) /\ OutSteer(x) = OutSteer(v)
    BY DEF Awaited, Claims, OutSteer, Mine
  <1>4. \A op : Own(x, op) <=> Own(v, op)
    BY DEF Own, Mine
  <1>5. \A i : (Latest(x, i) <=> Latest(v, i)) /\ (Unsent(x, i) <=> Unsent(v, i))
    BY <1>3 DEF Latest, Unsent
  <1>6. ASSUME NEW op, Waits(v, op),
               x.control # v.control => op.kind \notin Asks,
               x.session # v.session => op.kind # "compact"
        PROVE  Waits(x, op)
    BY <1>6 DEF Waits, Granted, SteerInputs, Asks
  <1>7. LaneOk(x)
    <2>1. \A k \in DOMAIN v.lane : /\ x.control # v.control => v.lane[k].kind \notin Asks
                                   /\ x.session # v.session => v.lane[k].kind # "compact"
      BY DEF Without
    <2>2. \A k \in DOMAIN x.lane : Waits(x, x.lane[k])
      BY <1>1, <1>6, <2>1 DEF Actor, LaneOk
    <2> QED
      BY <1>1, <1>4, <2>2 DEF Actor, LaneOk
  <1>8. FlightOk(x)
    <2>1. Claims(v) => /\ x.control # v.control => v.flight.kind \notin Asks
                       /\ x.session # v.session => v.flight.kind # "compact"
      BY DEF Without
    <2>2. Claims(x) => Waits(x, x.flight)
      BY <1>1, <1>3, <1>6, <2>1 DEF Actor, FlightOk
    <2> QED
      BY <1>1, <1>3, <2>2 DEF Actor, FlightOk
  <1>9. LastSteer(x)
    BY <1>1, <1>3, <1>5 DEF Actor, LastSteer
  <1>10. FenceOk(x)
    BY <1>1, <1>3 DEF Actor, FenceOk
  <1>11. Actor(x)
    BY <1>2, <1>7, <1>8, <1>9, <1>10 DEF Actor
  <1>12. Stages(x, p) /\ Calmness(x, p)
    BY <1>1, <1>3, <1>5 DEF Matched, Stages, Calmness, SteerInputs
  <1>13. Runs(x, p, fin) /\ Ends(x, p, fin, st)
    BY <1>1, <1>3 DEF Matched, Runs, Ends, Aborted, Told, Mine
  <1>14. Settled(x, p) /\ Worked(p, fin)
    BY <1>1, <1>5 DEF Matched, Settled
  <1> QED
    BY <1>11, <1>12, <1>13, <1>14 DEF Good, Matched

-----------------------------------------------------------------------------
\* An event, and the exit of the process.

\* Every event is handled in a way that fits what OMP has done since.
LEMMA HandleEventHandles ==
    ASSUME NEW v, NEW p, Process(p), p.events # <<>>, NEW fin, NEW st, Good(v, p, fin, st),
           Held(v)
    PROVE  Handles(v, HandleEvent(v, Head(p.events)), Consumed(p), IdleNow(p), fin, st)
  <1> DEFINE e == Head(p.events)
             q == Consumed(p)
             u == [v EXCEPT !.watch = NoWatch]
             x == HandleEvent(v, e)
  <1>1. v \in Actors /\ Actor(v) /\ Matched(v, p, fin, st)
    BY DEF Good, Actor
  <1>2. Process(q) /\ e \in Events /\ IdleNow(q) = IdleNow(p)
    BY ConsumedIs
  <1>3. /\ u \in Actors /\ Like(u, v) /\ u.probe = v.probe /\ u.watch = NoWatch /\ Same(u, v)
    <2>1. NoWatch \in Watches
      BY DEF NoWatch, Watches, Answers
    <2> QED
      BY <1>1, <2>1 DEF Actors, Like, Link, Same
  <1>4. /\ x = CASE e.type = "start" -> [NewSteeredRun(u) EXCEPT !.awaiting = FALSE]
                 [] e.type = "yield" -> [u EXCEPT !.awaiting = TRUE]
                 [] e.type = "end" /\ u.fence.active ->
                       MaybeFinishSteeredRoot(
                           [u EXCEPT !.awaiting = FALSE, !.fence.seen = TRUE,
                                     !.fence.verdict = e.value])
                 [] e.type = "end" /\ ~u.fence.active ->
                       FinishTask([u EXCEPT !.awaiting = FALSE], RootVerdict(e.value))
                 [] e.type = "result" -> SteerResult(u, e)
    BY DEF HandleEvent
  <1>5. e.type \in {"start", "yield", "end", "result"}
    BY <1>2 DEF Events
  <1> HIDE DEF u, x
  <1>6. Good(u, p, fin, st) /\ Held(u)
    <2>1. u.probe # "none" => u.fence.active /\ u.fence.seen /\ u.steers = {}
      BY <1>1, <1>3 DEF Actor, FenceOk, Like
    <2>2. u.probe = "settled" => ~p.more
      BY <1>1, <1>3 DEF Matched, Settled
    <2>3. u.watch.probe # "settled"
      BY <1>3 DEF NoWatch
    <2> QED
      BY <1>3, <2>1, <2>2, <2>3, LikeGood, SameKeeps
  <1>7. u.saved = v.saved /\ u.last = v.last /\ u.client = v.client /\ u.active = v.active
          /\ u.fence = v.fence
    BY <1>3 DEF Like, Link
  <1>8. Leads(v, u, IdleNow(p), fin, st)
    <2>1. u.last >= v.last
      BY <1>1, <1>7 DEF Actors
    <2> QED
      BY <1>7, <2>1, LeadsSame
  <1>9. ASSUME Handles(u, x, q, IdleNow(p), fin, st)
        PROVE  Handles(v, x, q, IdleNow(p), fin, st)
    BY <1>1, <1>3, <1>7, <1>8, <1>9, HandlesOn
  <1>10. CASE e.type = "start"
    <2> DEFINE y == [NewSteeredRun(u) EXCEPT !.awaiting = FALSE]
    <2>1. Good(y, q, fin, st) /\ y.client = u.client /\ y.saved = u.saved /\ y.last = u.last
      BY <1>3, <1>6, <1>10, StartHandled
    <2>2. x = y
      BY <1>4, <1>10
    <2> QED
      BY <1>9, <2>1, <2>2, HandlesSame DEF x
  <1>11. CASE e.type = "yield"
    <2> DEFINE y == [u EXCEPT !.awaiting = TRUE]
    <2>1. Good(y, q, fin, st) /\ y.client = u.client /\ y.saved = u.saved /\ y.last = u.last
      BY <1>3, <1>6, <1>11, YieldHandled
    <2>2. x = y
      BY <1>4, <1>11
    <2> QED
      BY <1>9, <2>1, <2>2, HandlesSame DEF x
  <1>12. CASE e.type = "end" /\ u.fence.active
    <2> DEFINE y == EndNoted(u, e.value)
    <2>1. /\ Good(y, q, fin, st) /\ y.client = u.client /\ y.saved = u.saved
          /\ y.last = u.last /\ y.active = u.active /\ y.fence.active = u.fence.active
      BY <1>3, <1>6, <1>12, EndHandled
    <2>2. x = MaybeFinishSteeredRoot(y)
      BY <1>4, <1>12 DEF EndNoted
    <2> HIDE DEF y, q
    <2>3. Handles(y, x, q, IdleNow(p), fin, st)
      BY <1>2, <2>1, <2>2, MaybeFinishHandles
    <2>4. y \in Actors /\ y.last >= u.last
      BY <1>3, <2>1, SMTT(30) DEF Good, Actor, Actors
    <2>5. Leads(u, y, IdleNow(p), fin, st)
      BY <2>1, <2>4, LeadsSame
    <2>6. Handles(u, x, q, IdleNow(p), fin, st)
      BY <1>3, <2>1, <2>3, <2>4, <2>5, HandlesOn
    <2> QED
      BY <1>9, <2>6 DEF x, q
  <1>13. CASE e.type = "end" /\ ~u.fence.active
    <2>1. x = FinishTask([u EXCEPT !.awaiting = FALSE], RootVerdict(e.value))
      BY <1>4, <1>13
    <2>2. Handles(u, x, q, IdleNow(p), fin, st)
      BY <1>6, <1>13, <2>1, LastEndHandled
    <2> QED
      BY <1>9, <2>2 DEF x
  <1>14. CASE e.type = "result"
    <2>1. x = SteerResult(u, e)
      BY <1>4, <1>14
    <2>2. Handles(u, x, q, IdleNow(p), fin, st)
      BY <1>3, <1>6, <1>14, <2>1, SteerResultHandles
    <2> QED
      BY <1>9, <2>2 DEF x
  <1> QED
    BY <1>5, <1>10, <1>11, <1>12, <1>13, <1>14 DEF x

\* A field the invariant does not speak of.
LEMMA LikeHandles ==
    ASSUME NEW v, NEW u, NEW p, NEW idle, NEW fin, NEW st, Good(v, p, fin, st),
           Like(u, v), u.probe = v.probe, u.watch = v.watch
    PROVE  /\ Good(u, p, fin, st) /\ Handles(v, u, p, idle, fin, st)
           /\ u.saved = v.saved /\ u.client = v.client
  <1>1. Actor(v) /\ Matched(v, p, fin, st)
    BY DEF Good
  <1>2. u.probe # "none" => u.fence.active /\ u.fence.seen /\ u.steers = {}
    BY <1>1 DEF Actor, FenceOk, Like
  <1>3. /\ u.probe = "settled" => ~p.more
        /\ u.watch.probe = "settled" => ~p.more \/ p.events # <<>>
    BY <1>1 DEF Matched, Settled
  <1>4. Good(u, p, fin, st)
    BY <1>2, <1>3, LikeGood
  <1>5. u.saved = v.saved /\ u.last = v.last /\ u.client = v.client
    BY DEF Like, Link
  <1> QED
    BY <1>4, <1>5, HandlesSame

\* The process is gone: the exit waits for a result, or the task is torn down.
LEMMA FailedHandles ==
    ASSUME NEW v, NEW p, NEW idle, NEW fin, NEW st, Good(v, p, fin, st)
    PROVE  LET x == Failed(v)
           IN  /\ Handles(v, x, p, idle, fin, st)
               /\ x.client \in {v.client, 0}
               /\ \A i \in Prompts : x.saved[i] = "done" => v.saved[i] = "done"
  <1> DEFINE x == Failed(v)
             u == [v EXCEPT !.exiting = 0]
             t == [v EXCEPT !.exiting = v.client]
             c == IF v.fence.active THEN u ELSE ClearQueue(u)
  <1>1. v \in Actors /\ Actor(v) /\ Matched(v, p, fin, st) /\ (v.client = 0 => p = Dead)
    BY DEF Good, Actor, Matched, Calmness
  <1>2. /\ Like(u, v) /\ u.probe = v.probe /\ u.watch = v.watch
        /\ Like(t, v) /\ t.probe = v.probe /\ t.watch = v.watch
    BY <1>1 DEF Actors, Like, Link
  <1>3. x = IF v.client = 0 THEN v
            ELSE IF v.flight.client = v.client THEN t ELSE RetireTaskRuntime(c)
    BY DEF Failed
  <1> HIDE DEF u, t, x
  <1>4. CASE v.client = 0
    <2>1. x = v
      BY <1>3, <1>4
    <2>2. Handles(v, v, p, idle, fin, st)
      BY HandlesSame
    <2> QED
      BY <2>1, <2>2 DEF x
  <1>5. CASE v.client # 0 /\ v.flight.client = v.client
    <2>1. x = t
      BY <1>3, <1>5
    <2>2. Handles(v, t, p, idle, fin, st) /\ t.saved = v.saved /\ t.client = v.client
      BY <1>2, LikeHandles
    <2> QED
      BY <2>1, <2>2 DEF x
  <1>6. CASE v.client # 0 /\ v.flight.client # v.client
    <2>1. x = RetireTaskRuntime(c)
      BY <1>3, <1>6
    <2>2. Good(u, p, fin, st) /\ Handles(v, u, p, idle, fin, st) /\ u.saved = v.saved
            /\ u.client = v.client
      BY <1>2, LikeHandles
    <2>3. Base(u) /\ u \in Actors /\ Leads(v, u, idle, fin, st) /\ u.last \in Nat
      BY <2>2, GoodIsBase DEF Good, Handles, Actor, Actors
    <2>4. /\ Base(c) /\ Leads(u, c, idle, fin, st) /\ c.client = u.client
          /\ \A i \in Prompts : c.saved[i] = "done" => v.saved[i] = "done"
      <3>1. CASE v.fence.active
        <4>1. c = u
          BY <3>1
        <4>2. u.last >= u.last
          BY <2>3
        <4> HIDE DEF c
        <4> QED
          BY <2>2, <2>3, <4>1, <4>2, LeadsSame
      <3>2. CASE ~v.fence.active
        <4>1. c = ClearQueue(u)
          BY <3>2
        <4> HIDE DEF c
        <4>2. /\ Base(c) /\ Leads(u, c, idle, fin, st) /\ c.client = u.client
              /\ \A i \in Prompts : c.saved[i] \in {"done", "submitted"} => c.saved[i] = u.saved[i]
          BY <2>3, <4>1, ClearQueueLeads
        <4> QED
          BY <2>2, <4>2
      <3> QED
        BY <3>1, <3>2
    <2> HIDE DEF c
    <2>5. /\ Base(x) /\ Freed(x) /\ x.last = c.last
          /\ \A i \in Prompts : \/ x.saved[i] = c.saved[i]
                                \/ c.saved[i] = "submitted" /\ x.saved[i] = "uncertain"
      BY <2>1, <2>4, RetireFrees
    <2>6. \A i \in Prompts : x.saved[i] = "done" => c.saved[i] = "done"
      BY <2>5
    <2>7. \A i \in Prompts : x.saved[i] = "done" => v.saved[i] = "done"
      BY <2>4, <2>6
    <2>8. Handles(c, x, p, idle, fin, st)
      BY <1>1, <2>1, <2>2, <2>4, RetireHandles
    <2>9. c \in Actors
      BY <2>4 DEF Base
    <2>10. Handles(u, x, p, idle, fin, st)
      BY <2>3, <2>4, <2>6, <2>8, <2>9, HandlesOn
    <2>11. Handles(v, x, p, idle, fin, st)
      BY <1>1, <2>2, <2>3, <2>7, <2>10, HandlesOn
    <2>12. x.client = 0
      BY <2>5 DEF Freed
    <2> QED
      BY <2>7, <2>11, <2>12 DEF x
  <1> QED
    BY <1>4, <1>5, <1>6

-----------------------------------------------------------------------------
\* Results of operations.

\* The operation in flight has returned.
FreeLane(v) == [v EXCEPT !.flight = NoOperation]

\* The result of the operation in flight, as OMP and the transport allow it.
Returned(v, op, result, st) ==
    /\ v.flight \in Requests /\ v.flight.phase \in {"out", "taken"} /\ result \in Results
    /\ v.flight.phase = "taken" => result \in {"ok", "unknown"}
    /\ v.flight.phase = "out" => result # "ok"
    /\ result = "oversized" => v.flight.kind = "prompt" /\ v.flight.input \in st
    /\ op.kind = v.flight.kind /\ op.input = v.flight.input /\ op.active = v.flight.active
    /\ op.turn = v.flight.turn /\ op.client = v.flight.client

\* The operation that has returned leaves the flight.
LEMMA FreeLaneIs ==
    ASSUME NEW v, Actor(v)
    PROVE  LET x == FreeLane(v)
           IN  /\ Actor(x) /\ x.flight = NoOperation /\ ~Claims(x) /\ ~OutSteer(x)
               /\ x.saved = v.saved /\ x.client = v.client /\ x.last = v.last /\ x.turn = v.turn
               /\ x.lane = v.lane /\ x.queue = v.queue /\ Grip(x, v) /\ x.active = v.active
               /\ x.watch = v.watch /\ x.exiting = v.exiting
               /\ Awaited(x) => Awaited(v)
               /\ \A i : (Unsent(x, i) => Unsent(v, i)) /\ (Latest(x, i) <=> Latest(v, i))
  <1> DEFINE x == FreeLane(v)
  <1>1. v \in Actors
    BY DEF Actor
  <1>2. /\ x \in Actors /\ x.flight = NoOperation
        /\ x.saved = v.saved /\ x.client = v.client /\ x.last = v.last /\ x.turn = v.turn
        /\ x.lane = v.lane /\ x.queue = v.queue /\ Grip(x, v) /\ x.active = v.active
        /\ x.watch = v.watch /\ x.exiting = v.exiting
    BY <1>1 DEF Actors, Grip, FreeLane
  <1> HIDE DEF x
  <1>3. \A op : op = NoOperation => ~Mine(x, op)
    BY DEF Mine, NoOperation
  <1>4. ~Mine(x, x.flight) /\ ~Claims(x) /\ ~OutSteer(x)
    BY <1>2, <1>3 DEF Claims, OutSteer
  <1>5. Awaited(x) => Awaited(v)
    BY <1>2, <1>4 DEF Awaited
  <1>6. \A i : (Unsent(x, i) => Unsent(v, i)) /\ (Latest(x, i) <=> Latest(v, i))
    BY <1>2, <1>4 DEF Unsent, Latest, Grip
  <1>7. \A op : Waits(x, op) <=> Waits(v, op)
    BY <1>2 DEF Waits, Granted, SteerInputs, Grip
  <1>8. LaneOk(x)
    BY <1>2, <1>4, <1>7 DEF Actor, LaneOk, Own
  <1>9. FlightOk(x) /\ LastSteer(x)
    BY <1>2, <1>4, <1>6 DEF Actor, FlightOk, LastSteer
  <1>10. FenceOk(x)
    BY <1>2, <1>5 DEF Actor, FenceOk, Grip
  <1>11. Ledger(x) /\ Unconnected(x)
    BY <1>2 DEF Actor, Ledger, Unconnected, Grip
  <1>12. Counters(x)
    <2>1. NoOperation.client = 0 /\ NoOperation.turn = 0 /\ NoOperation.kind = "none"
      BY DEF NoOperation
    <2>2. x.last \in Nat /\ x.turn \in Nat
      BY <1>2 DEF Actors
    <2>3. x.client <= x.last
      BY <1>2 DEF Actor, Counters
    <2> QED
      BY <1>2, <2>1, <2>2, <2>3 DEF Counters
  <1>13. Actor(x)
    BY <1>2, <1>8, <1>9, <1>10, <1>11, <1>12 DEF Actor
  <1> QED
    BY <1>2, <1>4, <1>5, <1>6, <1>13 DEF x

\* What OMP does fits the free lane, unless it has yet to read the prompt or was told
\* to abort.
LEMMA FreeLaneGood ==
    ASSUME NEW v, NEW p, NEW fin, NEW st, Good(v, p, fin, st),
           ~(Mine(v, v.flight) /\ v.flight.kind = "prompt" /\ v.flight.phase = "out"),
           ~(Mine(v, v.flight) /\ v.flight.kind = "abort" /\ v.flight.phase = "taken")
    PROVE  Good(FreeLane(v), p, fin, st)
  <1> DEFINE x == FreeLane(v)
  <1>1. Actor(v) /\ Matched(v, p, fin, st)
    BY DEF Good
  <1>2. /\ Actor(x) /\ x.client = v.client /\ x.lane = v.lane /\ Grip(x, v)
        /\ x.active = v.active /\ x.watch = v.watch
        /\ Awaited(x) => Awaited(v)
        /\ \A i : (Unsent(x, i) => Unsent(v, i)) /\ (Latest(x, i) <=> Latest(v, i))
    BY <1>1, FreeLaneIs
  <1> HIDE DEF x
  <1>3. Awaited(v) => Awaited(x)
    BY <1>2 DEF Awaited
  <1>4. ~Aborted(v, p)
    BY DEF Aborted
  <1>5. Stages(x, p) /\ Calmness(x, p)
    BY <1>1, <1>2 DEF Matched, Stages, Calmness, SteerInputs, Grip
  <1>6. Runs(x, p, fin)
    BY <1>1, <1>2, <1>3, <1>4 DEF Matched, Runs, Grip
  <1>7. Ends(x, p, fin, st)
    BY <1>1, <1>2 DEF Matched, Ends, Told, Grip
  <1>8. Settled(x, p) /\ Worked(p, fin)
    BY <1>1, <1>2 DEF Matched, Settled, Grip
  <1>9. Good(x, p, fin, st)
    BY <1>2, <1>5, <1>6, <1>7, <1>8 DEF Good, Matched
  <1> QED
    BY <1>9 DEF x

\* A result that counts is of the present client; one that does not is of no
\* operation that the worker still waits for.
LEMMA StaleClaimsNothing ==
    ASSUME NEW v, Actor(v), NEW op, NEW result, NEW st, Returned(v, op, result, st)
    PROVE  /\ Stale(FreeLane(v), op) => ~Claims(v)
           /\ ~Stale(FreeLane(v), op) => Mine(v, v.flight)
  <1> DEFINE x == FreeLane(v)
  <1>1. x.client = v.client /\ x.turn = v.turn /\ x.active = v.active
    BY FreeLaneIs
  <1> HIDE DEF x
  <1>2. ASSUME Claims(v) PROVE ~Stale(x, op)
    <2>1. Waits(v, v.flight)
      BY <1>2 DEF Actor, FlightOk
    <2> QED
      BY <1>1, <2>1 DEF Stale, Waits, Returned
  <1>3. ASSUME ~Stale(x, op) PROVE Mine(v, v.flight)
    <2>1. v.flight.client # 0
      BY DEF Actor, Counters, Returned, Requests
    <2> QED
      BY <1>1, <1>3, <2>1 DEF Stale, Mine, Returned
  <1> QED
    BY <1>2, <1>3 DEF x

\* From the free lane on.
LEMMA FreeHandles ==
    ASSUME NEW v, NEW x, NEW p, NEW idle, NEW fin, NEW st, Actor(v),
           Handles(FreeLane(v), x, p, idle, fin, st)
    PROVE  Handles(v, x, p, idle, fin, st)
  <1> DEFINE f == FreeLane(v)
  <1>1. /\ Actor(f) /\ f.saved = v.saved /\ f.client = v.client /\ f.last = v.last
        /\ f.active = v.active /\ Grip(f, v)
    BY FreeLaneIs
  <1> HIDE DEF f
  <1>2. v \in Actors /\ f \in Actors /\ f.last >= v.last
    BY <1>1 DEF Actor, Actors
  <1>3. Leads(v, f, idle, fin, st)
    BY <1>1, <1>2, LeadsSame
  <1>4. Handles(f, x, p, idle, fin, st)
    BY DEF f
  <1> QED
    BY <1>1, <1>2, <1>3, <1>4, HandlesOn DEF Grip

\* A steer that OMP has not got is taken off, and says nothing of OMP.
LEMMA SteerTakenOff ==
    ASSUME NEW v, NEW p, NEW fin, NEW st, Good(v, p, fin, st),
           NEW s \in v.steers, NEW state \in Final, ~Unsent(v, s.input),
           s.input \notin p.todo, s.input \notin p.doing, ~Reported(p, s.input)
    PROVE  Good(FinishSteer(v, s, state), p, fin, st)
  <1> DEFINE x == FinishSteer(v, s, state)
  <1>1. v \in Actors /\ Actor(v) /\ Matched(v, p, fin, st) /\ FenceOk(v)
    BY DEF Good, Actor
  <1>2. v.fence.settled \in BOOLEAN
    BY <1>1 DEF Actors, Fences
  <1>3. x = SteerSettled(v, s, state, v.fence.settled)
    BY <1>1, SteerFinished
  <1> HIDE DEF x
  <1>4. /\ x \in Actors /\ Link(x, v) /\ x.active = v.active
        /\ x.control = v.control /\ x.session = v.session
        /\ x.saved = [v.saved EXCEPT ![s.input] = state] /\ x.steers = v.steers \ {s}
        /\ x.fence.active = v.fence.active /\ x.fence.admission = v.fence.admission
        /\ x.fence.seen = v.fence.seen /\ x.fence.verdict = v.fence.verdict
        /\ x.fence.settled = v.fence.settled /\ x.probe = v.probe /\ x.watch = v.watch
    BY <1>1, <1>2, <1>3, FinishSteerIs
  <1>5. /\ FenceOk(x) => Actor(x)
        /\ Awaited(x) <=> Awaited(v)
        /\ \A i : (Unsent(x, i) <=> Unsent(v, i)) /\ (Latest(x, i) => Latest(v, i))
        /\ \A i : i \in SteerInputs(x) <=> i \in SteerInputs(v) /\ i # s.input
        /\ v.fence.active
    BY <1>1, <1>4, SteerLeaves
  <1>6. x.client = v.client
    BY <1>4 DEF Link
  <1>7. v.probe = "none"
    BY <1>1 DEF FenceOk
  <1>8. Actor(x)
    BY <1>1, <1>4, <1>5, <1>6, <1>7 DEF FenceOk
  <1>9. Stages(x, p) /\ Calmness(x, p)
    BY <1>1, <1>4, <1>5, <1>6 DEF Matched, Stages, Calmness
  <1>10. Runs(x, p, fin) /\ Ends(x, p, fin, st)
    BY <1>1, <1>4, <1>5 DEF Matched, Runs, Ends, Aborted, Told
  <1>11. Settled(x, p) /\ Worked(p, fin)
    BY <1>1, <1>4, <1>5 DEF Matched, Settled
  <1>12. Good(x, p, fin, st)
    BY <1>8, <1>9, <1>10, <1>11 DEF Good, Matched
  <1> QED
    BY <1>12 DEF x

\* steerOperationFinished.
LEMMA SteerReturnedHandles ==
    ASSUME NEW v, NEW p, Process(p), NEW fin, NEW st, Good(v, p, fin, st),
           NEW op, NEW result, Returned(v, op, result, st), v.flight.kind = "steer",
           Mine(v, v.flight)
    PROVE  Handles(v, SteerReturned(FreeLane(v), op, result), p, IdleNow(p), fin, st)
  <1> DEFINE f == FreeLane(v)
             mine == {t \in f.steers : t.input = op.input /\ CurrentSteer(f, t)}
             s == CHOOSE t \in mine : TRUE
             x == SteerReturned(f, op, result)
  <1>1. Actor(v) /\ Matched(v, p, fin, st)
    BY DEF Good
  <1>2. Good(f, p, fin, st)
    BY FreeLaneGood
  <1>3. /\ Actor(f) /\ f \in Actors /\ ~OutSteer(f) /\ f.steers = v.steers /\ f.lane = v.lane
    BY <1>1, FreeLaneIs DEF Actor, Grip
  <1> HIDE DEF f
  <1>4. x = IF mine = {} \/ result = "ok" THEN f
            ELSE IF result = "rejected" THEN MaybeFinishSteeredRoot(FinishSteer(f, s, "failed"))
            ELSE RetireTaskRuntime(FinishSteer(f, s, "uncertain"))
    BY DEF SteerReturned
  <1> HIDE DEF x
  <1>5. Handles(f, x, p, IdleNow(p), fin, st)
    <2>1. CASE mine = {} \/ result = "ok"
      BY <1>2, <1>4, <2>1, HandlesSame
    <2>2. CASE mine # {} /\ result # "ok"
      <3> DEFINE state == IF result = "rejected" THEN "failed" ELSE "uncertain"
                 y == FinishSteer(f, s, state)
      <3>1. s \in f.steers /\ s.input = op.input
        BY <2>2
      <3> HIDE DEF s, mine
      <3>2. state \in Final /\ state \in Final \ {"done", "cancelled"} /\ state \in SavedStates
        BY DEF Final, SavedStates
      <3>3. f.fence.settled \in BOOLEAN
        BY <1>3 DEF Actors, Fences
      <3>4. x = IF result = "rejected" THEN MaybeFinishSteeredRoot(y) ELSE RetireTaskRuntime(y)
        BY <1>4, <2>2
      <3>12. result = "rejected" => state = "failed"
        OBVIOUS
      <3> HIDE DEF state
      <3>5. y = SteerSettled(f, s, state, f.fence.settled)
        BY <1>3, <3>1, <3>2, SteerFinished
      <3> HIDE DEF y
      <3>6. /\ y \in Actors /\ Link(y, f) /\ y.active = f.active
            /\ y.saved = [f.saved EXCEPT ![s.input] = state] /\ y.steers = f.steers \ {s}
            /\ y.fence.active = f.fence.active /\ y.fence.admission = f.fence.admission
        BY <1>3, <3>1, <3>2, <3>3, <3>5, FinishSteerIs
      <3>7. Base(f)
        BY <1>3, GoodIsBase
      <3>8. /\ Base(y)
            /\ s.input \in Prompts /\ s.input # f.active /\ f.saved[s.input] = "submitted"
        BY <3>1, <3>2, <3>6, <3>7, SteerOut
      <3>9. y.client = f.client /\ y.last = f.last /\ y.last >= f.last
        BY <1>3, <3>6 DEF Link, Actors
      <3>10. Leads(f, y, IdleNow(p), fin, st)
        BY <1>3, <3>2, <3>6, <3>8, <3>9, LeadsOne DEF Final
      <3>11. ASSUME Handles(y, x, p, IdleNow(p), fin, st)
             PROVE  Handles(f, x, p, IdleNow(p), fin, st)
        BY <1>3, <3>6, <3>9, <3>10, <3>11, HandlesOn
      <3>13. CASE result = "rejected"
        <4>1. OutSteer(v) /\ Claims(v) /\ v.flight.input = s.input
          BY <3>1, <3>13 DEF OutSteer, Claims, Returned
        <4>2. Unsent(v, s.input)
          BY <4>1 DEF Unsent
        <4>3. s.input \notin p.todo /\ s.input \notin p.doing /\ ~Reported(p, s.input)
          BY <1>1, <4>2 DEF Matched, Stages
        <4>4. \A k \in DOMAIN v.lane : Differ(v.flight, v.lane[k])
          BY <1>1, <4>1 DEF Actor, FlightOk
        <4>5. ~Unsent(f, s.input)
          BY <1>3, <4>1, <4>4 DEF Unsent, Differ
        <4>6. Good(y, p, fin, st)
          BY <1>2, <3>1, <3>2, <4>3, <4>5, SteerTakenOff DEF y
        <4>7. Handles(y, x, p, IdleNow(p), fin, st)
          BY <3>4, <3>13, <4>6, MaybeFinishHandles
        <4> QED
          BY <3>11, <4>7
      <3>14. CASE result # "rejected"
        <4>1. f.client = 0 => p = Dead
          BY <1>2 DEF Good, Matched, Calmness
        <4>2. Handles(y, x, p, IdleNow(p), fin, st)
          BY <3>4, <3>8, <3>9, <3>14, <4>1, RetireHandles
        <4> QED
          BY <3>11, <4>2
      <3> QED
        BY <3>13, <3>14
    <2> QED
      BY <2>1, <2>2
  <1> QED
    BY <1>1, <1>5, FreeHandles DEF f, x

\* The request of the prompt is answered, lost, or never left.
LEMMA PromptReturnedHandles ==
    ASSUME NEW v, NEW p, Process(p), NEW idle, NEW fin, NEW st, Good(v, p, fin, st),
           NEW op, NEW result, Returned(v, op, result, st), v.flight.kind = "prompt",
           Mine(v, v.flight)
    PROVE  LET f == FreeLane(v)
               x == IF result = "ok" THEN f
                    ELSE IF f.fence.active THEN RetireTaskRuntime(f)
                    ELSE IF result = "oversized" THEN FinishTask(f, "cancelled")
                    ELSE RetireTaskRuntime(ClearQueue(f))
           IN  Handles(v, x, p, idle, fin, st)
  <1> DEFINE f == FreeLane(v)
             x == IF result = "ok" THEN f
                  ELSE IF f.fence.active THEN RetireTaskRuntime(f)
                  ELSE IF result = "oversized" THEN FinishTask(f, "cancelled")
                  ELSE RetireTaskRuntime(ClearQueue(f))
  <1>1. Actor(v) /\ Matched(v, p, fin, st)
    BY DEF Good
  <1>2. /\ Actor(f) /\ f \in Actors /\ f.client = v.client /\ f.active = v.active
        /\ f.lane = v.lane /\ f.flight = NoOperation /\ ~Claims(f)
    BY <1>1, FreeLaneIs DEF Actor
  <1>3. Base(f)
    BY <1>2, GoodIsBase
  <1>4. f.client = 0 => p = Dead
    BY <1>1, <1>2 DEF Matched, Calmness
  <1>5. CASE result = "ok"
    <2>1. v.flight.phase = "taken"
      BY <1>5 DEF Returned
    <2>2. Good(f, p, fin, st)
      BY <2>1, FreeLaneGood
    <2>3. Handles(f, f, p, idle, fin, st)
      BY <2>2, HandlesSame
    <2> HIDE DEF f
    <2>4. Handles(v, f, p, idle, fin, st)
      BY <1>1, <2>3, FreeHandles DEF f
    <2> QED
      BY <1>5, <2>4 DEF f
  <1>6. CASE result # "ok" /\ f.fence.active
    <2>1. Handles(f, RetireTaskRuntime(f), p, idle, fin, st)
      BY <1>3, <1>4, RetireHandles
    <2>2. Handles(v, RetireTaskRuntime(f), p, idle, fin, st)
      BY <1>1, <2>1, FreeHandles
    <2> QED
      BY <1>6, <2>2
  <1>7. CASE result = "oversized" /\ ~f.fence.active
    <2> DEFINE y == FinishTask(f, "cancelled")
    <2>1. v.flight.phase = "out" /\ v.flight.input \in st
      BY <1>7 DEF Returned
    <2>2. Claims(v) /\ Awaited(v)
      BY <2>1 DEF Claims, Awaited
    <2>3. Waits(v, v.flight)
      BY <1>1, <2>2 DEF Actor, FlightOk
    <2>4. v.active # None /\ v.flight.input = v.active /\ Own(v, v.flight)
      BY <2>3 DEF Waits, Own
    <2>5. ~Awaited(f)
      <3>1. \A k \in DOMAIN f.lane : f.lane[k].kind # "prompt"
        BY <1>1, <1>2, <2>4 DEF Actor, LaneOk
      <3>2. NoOperation.kind = "none"
        BY DEF NoOperation
      <3> QED
        BY <1>2, <3>1, <3>2 DEF Awaited
    <2>6. Calm(p) /\ p.root = None
      BY <1>1, <2>2 DEF Matched, Calmness, Runs, Calm, Rest, IdleNow
    <2>7. "cancelled" \in Final /\ "cancelled" \in SavedStates
      BY DEF Final, SavedStates
    <2> HIDE DEF f
    <2>8. /\ Good(y, p, fin, st) /\ y.client = f.client /\ y.last = f.last
          /\ y.saved = [f.saved EXCEPT ![f.active] = "cancelled"]
          /\ f.active \in Prompts /\ f.saved[f.active] = "submitted"
      BY <1>2, <1>4, <1>7, <2>4, <2>5, <2>6, <2>7, FinishGood
    <2> HIDE DEF y
    <2>9. y.last >= f.last
      BY <1>2, <2>8 DEF Actors
    <2>10. f.active \in st
      BY <1>2, <2>1, <2>4
    <2>11. Leads(f, y, idle, fin, st)
      BY <1>2, <2>7, <2>8, <2>9, <2>10, LeadsOne DEF Final
    <2>12. Handles(f, y, p, idle, fin, st)
      BY <2>8, <2>11 DEF Handles, Stay
    <2>13. Handles(v, y, p, idle, fin, st)
      BY <1>1, <2>12, FreeHandles DEF f
    <2> QED
      BY <1>7, <2>13 DEF y, f
  <1>8. CASE result \notin {"ok", "oversized"} /\ ~f.fence.active
    <2> DEFINE c == ClearQueue(f)
               y == RetireTaskRuntime(c)
    <2> HIDE DEF f
    <2>1. /\ Base(c) /\ Leads(f, c, idle, fin, st) /\ c.client = f.client
          /\ c.active = f.active /\ c.fence = f.fence
      BY <1>3, ClearQueueLeads
    <2> HIDE DEF c
    <2>2. Handles(c, y, p, idle, fin, st)
      BY <1>4, <2>1, RetireHandles
    <2> HIDE DEF y
    <2>3. Handles(f, y, p, idle, fin, st)
      BY <1>2, <2>1, <2>2, HandlesOn DEF Base
    <2>4. Handles(v, y, p, idle, fin, st)
      BY <1>1, <2>3, FreeHandles DEF f
    <2> QED
      BY <1>8, <2>4 DEF y, c, f
  <1> QED
    BY <1>5, <1>6, <1>7, <1>8

\* All but the controls.
Unlike(x, v) ==
    /\ Link(x, v) /\ x.saved = v.saved /\ x.active = v.active
    /\ x.steers = v.steers /\ x.fence = v.fence /\ x.probe = v.probe /\ x.watch = v.watch

\* A task is settled without regard to the controls.
LEMMA FinishTaskUnlike ==
    ASSUME NEW v, NEW x, v \in Actors, x \in Actors, Unlike(x, v), NEW state \in Final
    PROVE  /\ FinishTask(x, state) \in Actors
           /\ Unlike(FinishTask(x, state), FinishTask(v, state))
  <1> DEFINE a == FinishTask(v, state)
             c == FinishTask(x, state)
  <1>1. x.active = v.active
    BY DEF Unlike
  <1>2. CASE v.active = None
    BY <1>1, <1>2 DEF FinishTask
  <1>3. CASE v.active # None
    <2>1. /\ a \in Actors /\ Link(a, v) /\ Grip(a, v) /\ a.active = None
          /\ a.saved = [v.saved EXCEPT ![v.active] = state] /\ a.watch = NoWatch
      BY <1>3, FinishTaskIs
    <2>2. /\ c \in Actors /\ Link(c, x) /\ Grip(c, x) /\ c.active = None
          /\ c.saved = [x.saved EXCEPT ![x.active] = state] /\ c.watch = NoWatch
      BY <1>1, <1>3, FinishTaskIs
    <2> HIDE DEF a, c
    <2>3. Unlike(c, a)
      BY <2>1, <2>2 DEF Unlike, Link, Grip
    <2> QED
      BY <2>2, <2>3 DEF a, c
  <1> QED
    BY <1>2, <1>3

\* A task that is released and settled leaves nothing.
LEMMA ReleasedHandles ==
    ASSUME NEW v, NEW x, NEW p, NEW idle, NEW fin, NEW st, Actor(v), v.client = 0 => p = Dead,
           ~v.fence.active, NEW state \in {"uncertain", "cancelled"},
           state = "cancelled" => (v.active # None => v.active \in st),
           LET y == FinishTask(Release(v), state)
           IN  /\ x \in Actors /\ Link(x, y) /\ x.saved = y.saved /\ x.active = y.active
               /\ x.steers = y.steers /\ x.fence = y.fence /\ x.probe = y.probe
               /\ x.watch = y.watch
    PROVE  Handles(v, x, p, idle, fin, st)
  <1> DEFINE r == Release(v)
             y == FinishTask(r, state)
  <1>1. v \in Actors /\ FenceOk(v) /\ Base(v)
    BY GoodIsBase DEF Actor
  <1>2. /\ Base(r) /\ r.client = 0 /\ r.lane = <<>> /\ r.steers = {} /\ r.probe = "none"
        /\ r.watch = NoWatch /\ r.active = v.active /\ r.fence = v.fence
        /\ r.last = v.last
        /\ \A i \in Prompts : \/ r.saved[i] = v.saved[i]
                              \/ v.saved[i] = "submitted" /\ r.saved[i] = "uncertain"
    BY <1>1, ReleaseIs
  <1> HIDE DEF r
  <1>3. state \in Final
    BY DEF Final
  <1>4. /\ Base(y) /\ y.client = 0 /\ y.lane = <<>> /\ y.steers = {} /\ y.probe = "none"
        /\ y.watch = NoWatch /\ y.active = None /\ y.fence = r.fence /\ y.last = r.last
        /\ \A i \in Prompts : \/ y.saved[i] = r.saved[i]
                              \/ /\ r.saved[i] = "submitted" /\ i = r.active
                                 /\ y.saved[i] = state
    BY <1>2, <1>3, FinishReleased
  <1>5. /\ x \in Actors /\ Link(x, y) /\ x.saved = y.saved /\ x.active = y.active
        /\ x.steers = y.steers /\ x.fence = y.fence /\ x.probe = y.probe
        /\ x.watch = y.watch
    BY DEF r
  <1> HIDE DEF y
  <1>6. Base(x)
    <2>1. Ledger(x) /\ Counters(x)
      BY <1>4, <1>5 DEF Base, Ledger, Counters, Link
    <2> QED
      BY <1>4, <1>5, <2>1 DEF Base
  <1>7. ~v.fence.seen /\ ~v.fence.settled
    BY <1>1 DEF FenceOk
  <1>8. Freed(x)
    BY <1>2, <1>4, <1>5, <1>7 DEF Freed, Link, NoWatch
  <1>9. ASSUME NEW i \in Prompts
        PROVE  \/ x.saved[i] = v.saved[i]
               \/ v.saved[i] = "submitted" /\ x.saved[i] = "uncertain"
               \/ v.saved[i] = "submitted" /\ x.saved[i] = "cancelled" /\ i \in st
    BY <1>2, <1>4, <1>5, PromptAssumption
  <1>10. x.last >= v.last
    BY <1>1, <1>2, <1>4, <1>5 DEF Link, Actors
  <1>11. Leads(v, x, idle, fin, st)
    BY <1>9, <1>10 DEF Leads, Moved, Final
  <1> QED
    BY <1>1, <1>6, <1>8, <1>11, FreedHandles

\* An abort, the state after it, a compaction or a status has returned.
LEMMA ControlReturnedHandles ==
    ASSUME NEW v, NEW p, Process(p), NEW idle, NEW fin, NEW st, Good(v, p, fin, st),
           NEW op, NEW result, Returned(v, op, result, st), NEW quiet,
           v.flight.kind \in {"abort", "abort_state", "compact", "status"},
           Mine(v, v.flight), ~Stale(FreeLane(v), op)
    PROVE  Handles(v, OperationFinished(FreeLane(v), op, result, quiet), p, idle, fin, st)
  <1> DEFINE f == FreeLane(v)
             x == OperationFinished(f, op, result, quiet)
  <1>1. Actor(v) /\ Matched(v, p, fin, st)
    BY DEF Good
  <1>2. Claims(v)
    BY DEF Claims, Asks, Returned
  <1>3. Waits(v, v.flight) /\ \A k \in DOMAIN v.lane : Differ(v.flight, v.lane[k])
    BY <1>1, <1>2 DEF Actor, FlightOk
  <1>4. Granted(v, v.flight.kind) /\ v.client # 0
    BY <1>3 DEF Waits, Mine
  <1>5. /\ Actor(f) /\ f \in Actors /\ f.client = v.client /\ f.active = v.active
        /\ f.lane = v.lane /\ ~Claims(f) /\ Grip(f, v)
    BY <1>1, FreeLaneIs DEF Actor
  <1>6. /\ f.control = v.control /\ f.session = v.session /\ f.fence = v.fence
    BY <1>5 DEF Grip
  <1>7. FenceOk(v) /\ (v.fence.active => v.active # None /\ v.control # "abort")
    BY <1>1 DEF Actor, FenceOk
  <1>8. ~(v.flight.kind = "abort" /\ v.flight.phase = "taken") => Good(f, p, fin, st)
    BY FreeLaneGood
  <1>9. /\ v.flight.kind \in Asks => Without(f, Asks)
        /\ v.flight.kind = "compact" => Without(f, {"compact"})
    BY <1>3, <1>5 DEF Without, Differ, Asks
  <1>10. op.kind = v.flight.kind /\ result \in Results
    BY DEF Returned
  <1>21. "none" \in {"none", "abort", "status"}
    OBVIOUS
  <1> HIDE DEF f
  <1>11. Handles(f, x, p, idle, fin, st)
    <2> DEFINE y == [f EXCEPT !.control = "none"]
               z == [f EXCEPT !.session = FALSE]
    <2>1. /\ y \in Actors /\ Link(y, f) /\ y.saved = f.saved /\ y.active = f.active
          /\ y.steers = f.steers /\ y.fence = f.fence /\ y.probe = f.probe /\ y.watch = f.watch
          /\ y.control = "none" /\ y.session = f.session
      BY <1>5 DEF Actors, Link
    <2>2. /\ z \in Actors /\ Link(z, f) /\ z.saved = f.saved /\ z.active = f.active
          /\ z.steers = f.steers /\ z.fence = f.fence /\ z.probe = f.probe /\ z.watch = f.watch
          /\ z.control = f.control /\ z.session = FALSE
      BY <1>5 DEF Actors, Link
    <2> HIDE DEF y, z
    <2>3. ASSUME v.flight.kind \in Asks, Good(f, p, fin, st)
          PROVE  Handles(f, y, p, idle, fin, st)
      <3>1. Good(y, p, fin, st)
        BY <1>9, <2>1, <2>3, ControlEnds
      <3> QED
        BY <2>1, <3>1, HandlesSame DEF Link
    <2>4. CASE v.flight.kind = "abort"
      <3>1. v.control = "abort" /\ ~f.fence.active
        BY <1>4, <1>6, <1>7, <2>4 DEF Granted
      <3>2. f.active # None => f.active \in st
        BY <1>1, <1>5, <3>1 DEF Matched, Ends
      <3> DEFINE r == Release(f)
      <3>6. r \in Actors /\ (f.client = 0 => p = Dead)
        BY <1>1, <1>5, GoodIsBase, ReleaseIs DEF Base, Matched, Calmness
      <3>7. "cancelled" \in Final /\ "uncertain" \in Final
        BY DEF Final
      <3> HIDE DEF r
      <3>3. CASE result = "ok"
        <4> DEFINE a == [r EXCEPT !.session = FALSE, !.control = "none"]
                   c == FinishTask(a, "cancelled")
                   d == FinishTask(r, "cancelled")
        <4>1. x = c
          <5>1. x = CompleteAbort(f, TRUE)
            BY <1>10, <2>4, <3>3 DEF OperationFinished, f
          <5> QED
            BY <5>1 DEF CompleteAbort, r
        <4>2. a \in Actors /\ Unlike(a, r)
          BY <3>6 DEF Actors, Unlike, Link
        <4> HIDE DEF a
        <4>3. c \in Actors /\ Unlike(c, d)
          BY <3>6, <3>7, <4>2, FinishTaskUnlike
        <4> HIDE DEF c
        <4>4. Handles(f, c, p, idle, fin, st)
          BY <1>5, <3>1, <3>2, <3>6, <4>3, ReleasedHandles DEF Unlike, r
        <4> QED
          BY <4>1, <4>4
      <3>4. CASE result = "rejected"
        <4>1. v.flight.phase = "out"
          BY <3>4 DEF Returned
        <4>2. x = y
          BY <1>10, <2>4, <3>4 DEF OperationFinished, f, y
        <4> QED
          BY <1>8, <2>3, <2>4, <4>1, <4>2 DEF Asks
      <3>5. CASE result \notin {"ok", "rejected"}
        <4> DEFINE d == FinishTask(r, "uncertain")
                   c == [d EXCEPT !.control = "none"]
        <4>1. x = c
          BY <1>10, <2>4, <3>5 DEF OperationFinished, f, r
        <4>2. d \in Actors
          BY <3>6, <3>7, FinishTaskUnlike DEF Unlike, Link
        <4> HIDE DEF d
        <4>3. c \in Actors /\ Unlike(c, d)
          BY <4>2 DEF Actors, Unlike, Link
        <4> HIDE DEF c
        <4>4. Handles(f, c, p, idle, fin, st)
          BY <1>5, <3>1, <3>2, <3>6, <4>3, ReleasedHandles DEF Unlike, r, d
        <4> QED
          BY <4>1, <4>4
      <3> QED
        BY <3>3, <3>4, <3>5
    <2>5. CASE v.flight.kind = "abort_state"
      <3>1. Good(f, p, fin, st)
        BY <1>8, <2>5
      <3>2. CASE result = "ok" /\ quiet /\ f.active = None /\ ~f.session
        <4>1. x = CompleteAbort(f, FALSE)
          BY <1>10, <2>5, <3>2 DEF OperationFinished, f
        <4>2. x = y
          BY <4>1 DEF CompleteAbort, y
        <4> QED
          BY <2>3, <2>5, <3>1, <4>2 DEF Asks
      <3>3. CASE ~(result = "ok" /\ quiet /\ f.active = None /\ ~f.session)
        <4>1. x = StartOperation(f, "abort", None, None)
          BY <1>10, <2>5, <3>3 DEF OperationFinished, f
        <4>2. Granted(f, "abort") /\ "abort" \in Asks /\ f.client # 0
          BY <1>4, <1>5, <1>6, <2>5 DEF Granted, Asks
        <4>3. Good(x, p, fin, st) /\ x.saved = f.saved /\ x.last = f.last /\ x.client = f.client
          BY <1>9, <2>5, <3>1, <4>1, <4>2, ControlStarts DEF Asks
        <4> QED
          BY <4>3, HandlesSame
      <3> QED
        BY <3>2, <3>3
    <2>6. CASE v.flight.kind = "compact"
      <3>1. Good(f, p, fin, st)
        BY <1>8, <2>6
      <3>2. Good(z, p, fin, st)
        BY <1>9, <2>2, <2>6, <3>1, ControlEnds
      <3>3. x = IF result = "unknown" THEN Release(z) ELSE z
        BY <1>10, <2>6 DEF OperationFinished, f, z
      <3>4. Handles(f, z, p, idle, fin, st)
        BY <2>2, <3>2, HandlesSame DEF Link
      <3>5. CASE result = "unknown"
        <4>1. z.active = None /\ ~z.fence.active
          BY <1>4, <1>5, <1>6, <1>7, <2>2, <2>6 DEF Granted
        <4> DEFINE r == Release(z)
        <4>2. r \in Actors /\ r.active = None
          BY <3>2, <4>1, GoodIsBase, ReleaseIs DEF Good, Base
        <4>3. FinishTask(r, "uncertain") = r
          BY <4>2 DEF FinishTask
        <4>4. Link(r, r)
          BY DEF Link
        <4>8. Actor(z) /\ (z.client = 0 => p = Dead)
          BY <3>2 DEF Good, Matched, Calmness
        <4>5. Handles(z, r, p, idle, fin, st)
          BY <4>8, <4>1, <4>2, <4>3, <4>4, ReleasedHandles
        <4>6. x = r /\ z.client = f.client
          BY <2>2, <3>3, <3>5 DEF Link
        <4> HIDE DEF r
        <4>7. Leads(f, z, idle, fin, st)
          BY <3>4 DEF Handles
        <4> QED
          BY <1>5, <2>2, <4>5, <4>6, <4>7, HandlesOn
      <3>6. CASE result # "unknown"
        BY <3>3, <3>4, <3>6
      <3> QED
        BY <3>5, <3>6
    <2>7. CASE v.flight.kind = "status"
      <3>1. Good(f, p, fin, st)
        BY <1>8, <2>7
      <3>2. x = y
        BY <1>10, <2>7 DEF OperationFinished, f, y
      <3> QED
        BY <2>3, <2>7, <3>1, <3>2 DEF Asks
    <2> QED
      BY <2>4, <2>5, <2>6, <2>7
  <1>12. Handles(v, x, p, idle, fin, st)
    BY <1>1, <1>11, FreeHandles DEF f
  <1> QED
    BY <1>12 DEF f

\* operationFinished: every result is handled in a way that fits OMP.
LEMMA OperationFinishedHandles ==
    ASSUME NEW v, NEW p, Process(p), NEW fin, NEW st, Good(v, p, fin, st),
           NEW op, NEW result, Returned(v, op, result, st), NEW quiet
    PROVE  Handles(v, OperationFinished(FreeLane(v), op, result, quiet), p, IdleNow(p), fin, st)
  <1> DEFINE f == FreeLane(v)
             x == OperationFinished(f, op, result, quiet)
  <1>1. Actor(v)
    BY DEF Good
  <1>2. CASE Stale(f, op)
    <2>1. ~Claims(v)
      BY <1>1, <1>2, StaleClaimsNothing
    <2>2. Good(f, p, fin, st)
      BY <2>1, FreeLaneGood DEF Claims, Asks
    <2>3. x = f
      BY <1>2 DEF OperationFinished
    <2> HIDE DEF f
    <2>4. Handles(f, f, p, IdleNow(p), fin, st)
      BY <2>2, HandlesSame
    <2>5. Handles(v, f, p, IdleNow(p), fin, st)
      BY <1>1, <2>4, FreeHandles DEF f
    <2> QED
      BY <2>3, <2>5 DEF f
  <1>3. CASE ~Stale(f, op)
    <2>1. Mine(v, v.flight)
      BY <1>1, <1>3, StaleClaimsNothing
    <2>2. v.flight.kind \in {"prompt", "steer", "abort", "abort_state", "status", "compact"}
      BY DEF Returned, Requests, Kinds
    <2>3. op.kind = v.flight.kind
      BY DEF Returned
    <2>4. CASE v.flight.kind = "steer"
      <3>1. x = SteerReturned(f, op, result)
        BY <1>3, <2>3, <2>4 DEF OperationFinished
      <3> QED
        BY <2>1, <2>4, <3>1, SteerReturnedHandles
    <2>5. CASE v.flight.kind = "prompt"
      <3>1. x = IF result = "ok" THEN f
                ELSE IF f.fence.active THEN RetireTaskRuntime(f)
                ELSE IF result = "oversized" THEN FinishTask(f, "cancelled")
                ELSE RetireTaskRuntime(ClearQueue(f))
        BY <1>3, <2>3, <2>5 DEF OperationFinished
      <3> HIDE DEF x
      <3>2. Handles(v, x, p, IdleNow(p), fin, st)
        BY <2>1, <2>5, <3>1, PromptReturnedHandles
      <3> QED
        BY <3>2 DEF x
    <2>6. CASE v.flight.kind \in {"abort", "abort_state", "compact", "status"}
      BY <1>3, <2>1, <2>6, ControlReturnedHandles
    <2> QED
      BY <2>2, <2>4, <2>5, <2>6
  <1> QED
    BY <1>2, <1>3

\* operationReturned: the result, the exit that waited for it, the next operation.
LEMMA OperationReturnedHandles ==
    ASSUME NEW v, NEW p, Process(p), NEW fin, NEW st, Good(v, p, fin, st),
           NEW result, Returned(v, [v.flight EXCEPT !.phase = result], result, st), NEW quiet
    PROVE  Handles(v, OperationReturned([v EXCEPT !.flight.phase = result], quiet), p,
                   IdleNow(p), fin, st)
  <1> DEFINE y == [v EXCEPT !.flight.phase = result]
             op == [v.flight EXCEPT !.phase = result]
             u == OperationFinished(FreeLane(v), op, result, quiet)
             t == [u EXCEPT !.exiting = 0]
             x == IF v.exiting # op.client THEN u
                  ELSE IF u.client = op.client THEN Failed(u) ELSE t
             d == DispatchOperation(x)
  <1>1. v \in Actors /\ v.flight \in Requests /\ (v.client = 0 => p = Dead)
    BY DEF Good, Actor, Returned, Matched, Calmness
  <1>2. y.flight = op /\ op.phase = result /\ y.exiting = v.exiting
    BY <1>1 DEF Actors, Requests
  <1>3. [y EXCEPT !.flight = NoOperation] = FreeLane(v)
    BY <1>1 DEF Actors, FreeLane
  <1> HIDE DEF y, op
  <1>4. OperationReturned(y, quiet) = d
    <2>1. OperationFinished([y EXCEPT !.flight = NoOperation], y.flight, y.flight.phase, quiet) = u
      BY <1>2, <1>3
    <2>2. y.exiting = v.exiting /\ y.flight.client = op.client
      BY <1>2
    <2> HIDE DEF u
    <2> QED
      BY <2>1, <2>2, Zenon DEF OperationReturned
  <1>5. Handles(v, u, p, IdleNow(p), fin, st)
    BY OperationFinishedHandles DEF op
  <1> HIDE DEF u
  <1> DEFINE q == Stay(v, u, p)
  <1>6. Good(u, q, fin, st) /\ u \in Actors
    BY <1>5 DEF Handles, Good, Actor
  <1> HIDE DEF q
  <1>7. /\ Handles(u, x, q, IdleNow(p), fin, st) /\ x.client \in {u.client, 0}
        /\ \A i \in Prompts : x.saved[i] = "done" => u.saved[i] = "done"
    <2>1. CASE x = u
      <3>1. Handles(u, u, q, IdleNow(p), fin, st)
        BY <1>6, HandlesSame
      <3> HIDE DEF x
      <3> QED
        BY <2>1, <3>1
    <2>2. CASE x = Failed(u)
      <3> HIDE DEF x
      <3> QED
        BY <1>6, <2>2, FailedHandles
    <2>3. CASE x = t
      <3>1. Like(t, u) /\ t.probe = u.probe /\ t.watch = u.watch
        BY <1>6 DEF Actors, Like, Link
      <3> HIDE DEF x, t
      <3>2. Handles(u, t, q, IdleNow(p), fin, st) /\ t.saved = u.saved /\ t.client = u.client
        BY <1>6, <3>1, LikeHandles
      <3> QED
        BY <2>3, <3>2
    <2> QED
      BY <2>1, <2>2, <2>3
  <1> HIDE DEF x
  <1>8. Handles(v, x, p, IdleNow(p), fin, st)
    BY <1>1, <1>5, <1>7, HandlesThen DEF q
  <1> DEFINE r == Stay(v, x, p)
  <1>9. Good(x, r, fin, st)
    BY <1>8 DEF Handles
  <1> HIDE DEF r
  <1>10. Good(d, r, fin, st) /\ d.saved = x.saved /\ d.last = x.last /\ d.client = x.client
    BY <1>9, DispatchGood
  <1> HIDE DEF d
  <1>11. Handles(x, d, r, IdleNow(p), fin, st)
    BY <1>10, HandlesSame
  <1>12. Handles(v, d, p, IdleNow(p), fin, st)
    BY <1>1, <1>8, <1>10, <1>11, HandlesThen DEF r
  <1> QED
    BY <1>4, <1>12 DEF y

-----------------------------------------------------------------------------
\* The probes.

\* A probe is noted, where nothing waits to be handled first.
LEMMA SettledByProbe ==
    ASSUME NEW v, NEW p, Process(p), NEW fin, NEW st, Good(v, p, fin, st),
           v.fence.active, v.fence.seen, v.steers = {}, ~p.more, p.events = <<>>
    PROVE  LET x == [v EXCEPT !.fence.settled = TRUE]
           IN  /\ Handles(v, MaybeFinishSteeredRoot(x), p, IdleNow(p), fin, st)
               /\ x \in Actors
  <1> DEFINE f == [v.fence EXCEPT !.settled = TRUE]
             x == [v EXCEPT !.fence.settled = TRUE]
  <1>1. Actor(v) /\ v \in Actors /\ Matched(v, p, fin, st) /\ FenceOk(v) /\ v.fence \in Fences
    BY DEF Good, Actor, Actors
  <1>2. /\ f \in Fences /\ f.settled /\ f.seen = v.fence.seen /\ f.verdict = v.fence.verdict
        /\ f.active = v.fence.active /\ f.admission = v.fence.admission
    BY <1>1 DEF Fences
  <1>3. x = [v EXCEPT !.fence = f]
    BY <1>1 DEF Actors, Fences
  <1> HIDE DEF f, x
  <1>4. /\ x \in Actors /\ Alike(x, v) /\ x.fence = f /\ x.probe = v.probe /\ x.watch = v.watch
    BY <1>1, <1>2, <1>3 DEF Actors, Alike, Link
  <1>5. /\ FenceOk(x) => Actor(x)
        /\ Awaited(x) <=> Awaited(v)
        /\ \A i : (Latest(x, i) <=> Latest(v, i)) /\ (Unsent(x, i) <=> Unsent(v, i))
        /\ (Stages(x, p) <=> Stages(v, p)) /\ (Calmness(x, p) <=> Calmness(v, p))
        /\ Runs(x, p, fin) <=> Runs(v, p, fin)
        /\ \A verdict : Told(x, verdict, fin, st) <=> Told(v, verdict, fin, st)
    BY <1>1, <1>4, AlikeActor
  <1>6. /\ x.steers = v.steers /\ x.active = v.active /\ x.client = v.client
        /\ x.control = v.control /\ x.saved = v.saved /\ x.last = v.last
    BY <1>4 DEF Alike, Link
  <1>7. Actor(x)
    BY <1>1, <1>2, <1>4, <1>5, <1>6 DEF FenceOk
  <1>8. DOMAIN p.events = {}
    OBVIOUS
  <1>9. p.todo = {} /\ p.doing = {} /\ SteerInputs(v) = {}
    BY <1>1 DEF Matched, Stages, SteerInputs
  <1>10. p.run = "idle" /\ ~p.late
    <2>1. ~Open(p.events, v.fence.seen)
      BY <1>8 DEF Open
    <2> QED
      BY <1>1, <2>1 DEF Matched, Ends
  <1>11. Rest(p)
    BY <1>9, <1>10 DEF Rest, IdleNow
  <1>12. ASSUME NEW i PROVE ~Unsent(v, i)
    <2>1. \A op : Waits(v, op) => op.kind # "steer"
      BY <1>9 DEF Waits
    <2>2. OutSteer(v) => Claims(v)
      BY DEF OutSteer, Claims
    <2> QED
      BY <1>1, <2>1, <2>2 DEF Unsent, Actor, LaneOk, FlightOk, OutSteer
  <1>13. Ends(x, p, fin, st)
    BY <1>1, <1>2, <1>4, <1>5, <1>6 DEF Matched, Ends
  <1>14. Settled(x, p) /\ Worked(p, fin)
    BY <1>1, <1>4, <1>5, <1>8, <1>11, <1>12 DEF Matched, Settled
  <1>15. Good(x, p, fin, st)
    BY <1>1, <1>5, <1>7, <1>13, <1>14 DEF Good, Matched
  <1>16. Handles(x, MaybeFinishSteeredRoot(x), p, IdleNow(p), fin, st)
    BY <1>15, MaybeFinishHandles
  <1>17. x.last >= v.last
    BY <1>1, <1>6 DEF Actors
  <1>18. Leads(v, x, IdleNow(p), fin, st)
    BY <1>6, <1>17, LeadsSame
  <1>19. x.fence.active = v.fence.active
    BY <1>2, <1>4
  <1>20. Handles(v, MaybeFinishSteeredRoot(x), p, IdleNow(p), fin, st)
    BY <1>1, <1>4, <1>6, <1>16, <1>18, <1>19, HandlesOn
  <1> QED
    BY <1>4, <1>20 DEF x

\* steeredQuiescenceFinished.
LEMMA SteerProbedHandles ==
    ASSUME NEW v, NEW p, Process(p), NEW fin, NEW st, Good(v, p, fin, st), p.events = <<>>
    PROVE  Handles(v, SteerProbed(v), p, IdleNow(p), fin, st)
  <1> DEFINE u == [v EXCEPT !.probe = "none"]
             y == [u EXCEPT !.fence.settled = TRUE]
             x == SteerProbed(v)
  <1>1. Actor(v) /\ v \in Actors /\ Matched(v, p, fin, st) /\ FenceOk(v)
    BY DEF Good, Actor
  <1>2. u \in Actors /\ Like(u, v) /\ u.probe = "none" /\ u.watch = v.watch
    BY <1>1 DEF Actors, Answers, Like, Link
  <1>3. x = CASE v.probe = "failed"  -> RetireTaskRuntime(u)
              [] v.probe = "settled" -> MaybeFinishSteeredRoot(y)
              [] OTHER -> u
    BY DEF SteerProbed
  <1> HIDE DEF u, x
  <1>4. /\ u.saved = v.saved /\ u.last = v.last /\ u.client = v.client /\ u.active = v.active
        /\ u.fence = v.fence /\ u.steers = v.steers
    BY <1>2 DEF Like, Link
  <1>5. Good(u, p, fin, st)
    BY <1>1, <1>2, LikeGood DEF Matched, Settled
  <1>6. Leads(v, u, IdleNow(p), fin, st)
    <2>1. u.last >= v.last
      BY <1>1, <1>4 DEF Actors
    <2> QED
      BY <1>4, <2>1, LeadsSame
  <1>7. Handles(u, x, p, IdleNow(p), fin, st)
    <2>1. CASE v.probe = "failed"
      <3>1. Base(u) /\ (u.client = 0 => p = Dead)
        BY <1>5, GoodIsBase DEF Good, Matched, Calmness
      <3>2. x = RetireTaskRuntime(u)
        BY <1>3, <2>1
      <3> QED
        BY <3>1, <3>2, RetireHandles
    <2>2. CASE v.probe = "settled"
      <3>1. u.fence.active /\ u.fence.seen /\ u.steers = {} /\ ~p.more
        BY <1>1, <1>4, <2>2 DEF FenceOk, Matched, Settled
      <3>2. x = MaybeFinishSteeredRoot(y)
        BY <1>3, <2>2
      <3> QED
        BY <1>5, <3>1, <3>2, SettledByProbe
    <2>3. CASE v.probe \notin {"failed", "settled"}
      <3>1. x = u
        BY <1>3, <2>3
      <3> QED
        BY <1>5, <3>1, HandlesSame
    <2> QED
      BY <2>1, <2>2, <2>3
  <1> QED
    BY <1>1, <1>2, <1>4, <1>6, <1>7, HandlesOn DEF x

\* The watchdog gives a task up, and its runtime with it.
LEMMA GivenUpHandles ==
    ASSUME NEW v, NEW p, NEW idle, NEW fin, NEW st, Good(v, p, fin, st),
           v.active # None, ~v.fence.active
    PROVE  Handles(v, Release(FinishTask(v, "uncertain")), p, idle, fin, st)
  <1> DEFINE y == FinishTask(v, "uncertain")
             x == Release(y)
  <1>1. /\ Actor(v) /\ v \in Actors /\ FenceOk(v) /\ Base(v) /\ Ledger(v) /\ Counters(v)
        /\ (v.client = 0 => p = Dead)
    BY GoodIsBase DEF Good, Actor, Matched, Calmness
  <1>2. "uncertain" \in Final
    BY DEF Final
  <1>3. /\ y \in Actors /\ Link(y, v) /\ Grip(y, v)
        /\ y.saved = [v.saved EXCEPT ![v.active] = "uncertain"] /\ y.active = None
    BY <1>1, <1>2, FinishTaskIs
  <1> HIDE DEF y
  <1>4. v.active \in Prompts /\ v.saved \in [Prompts -> SavedStates]
          /\ v.saved[v.active] = "submitted" /\ v.steers = {}
    BY <1>1 DEF Actors, Ledger, FenceOk
  <1>5. \A i \in Prompts : y.saved[i] = IF i = v.active THEN "uncertain" ELSE v.saved[i]
    BY <1>3, <1>4
  <1>6. \A k \in DOMAIN v.queue : v.queue[k] \in Prompts /\ v.queue[k] # v.active
    BY <1>1, <1>4 DEF Actors, Ledger
  <1>7. Base(y)
    <2>1. Ledger(y)
      BY <1>1, <1>3, <1>4, <1>5, <1>6 DEF Ledger, Link, Grip
    <2>2. Counters(y)
      BY <1>1, <1>3 DEF Counters, Link
    <2> QED
      BY <1>3, <1>4, <2>1, <2>2 DEF Base, Grip
  <1>8. /\ Base(x) /\ x.client = 0 /\ x.lane = <<>> /\ x.steers = {} /\ x.probe = "none"
        /\ x.watch = NoWatch /\ x.active = y.active /\ x.fence = y.fence /\ x.last = y.last
        /\ \A i \in Prompts : \/ x.saved[i] = y.saved[i]
                              \/ y.saved[i] = "submitted" /\ x.saved[i] = "uncertain"
    BY <1>7, ReleaseIs
  <1> HIDE DEF x
  <1>9. Freed(x)
    BY <1>1, <1>3, <1>8 DEF Freed, FenceOk, Grip, NoWatch
  <1>10. \A i \in Prompts : \/ x.saved[i] = v.saved[i]
                            \/ v.saved[i] = "submitted" /\ x.saved[i] = "uncertain"
    BY <1>4, <1>5, <1>8
  <1>11. x.last >= v.last
    BY <1>1, <1>3, <1>8 DEF Link, Actors
  <1>12. Leads(v, x, idle, fin, st)
    BY <1>10, <1>11, LeadsUncertain
  <1>13. Handles(v, x, p, idle, fin, st)
    BY <1>1, <1>8, <1>9, <1>12, FreedHandles
  <1> QED
    BY <1>13 DEF x, y

\* idleProbeFinished.
LEMMA IdleProbedHandles ==
    ASSUME NEW v, NEW p, Process(p), NEW fin, NEW st, Good(v, p, fin, st), p.events = <<>>,
           NEW patience \in BOOLEAN
    PROVE  Handles(v, IdleProbed(v, patience), p, IdleNow(p), fin, st)
  <1> DEFINE u == [v EXCEPT !.watch.probe = "none"]
             n == [u EXCEPT !.watch = NoWatch]
             c == [u EXCEPT !.watch.confirmed = TRUE]
             y == [u EXCEPT !.fence.settled = TRUE]
             x == IdleProbed(v, patience)
  <1>1. Actor(v) /\ v \in Actors /\ Matched(v, p, fin, st) /\ v.watch \in Watches
    BY DEF Good, Actor, Actors
  <1>2. u \in Actors /\ Like(u, v) /\ u.probe = v.probe /\ u.watch.probe = "none" /\ u.watch \in Watches
    <2> DEFINE h == [v.watch EXCEPT !.probe = "none"]
    <2>1. h \in Watches /\ h.probe = "none"
      BY <1>1 DEF Watches, Answers
    <2>2. u = [v EXCEPT !.watch = h]
      BY <1>1 DEF Actors
    <2> HIDE DEF h, u
    <2> QED
      BY <1>1, <2>1, <2>2 DEF Actors, Like, Link
  <1> HIDE DEF u
  <1>3. /\ u.saved = v.saved /\ u.last = v.last /\ u.client = v.client /\ u.active = v.active
        /\ u.fence = v.fence /\ u.steers = v.steers
    BY <1>2 DEF Like, Link
  <1>4. FenceOk(v)
    BY <1>1 DEF Actor
  <1>5. Good(u, p, fin, st)
    BY <1>1, <1>2, <1>3, <1>4, LikeGood DEF Matched, Settled, FenceOk
  <1>14. /\ u.probe # "none" => u.fence.active /\ u.fence.seen /\ u.steers = {}
         /\ u.probe = "settled" => ~p.more
    BY <1>1, <1>2, <1>3, <1>4 DEF FenceOk, Matched, Settled
  <1>6. Handles(u, n, p, IdleNow(p), fin, st)
    <2>1. NoWatch \in Watches /\ NoWatch.probe = "none"
      BY DEF NoWatch, Watches, Answers
    <2>2. n \in Actors /\ Like(n, u) /\ n.probe = u.probe /\ n.watch = NoWatch
      BY <1>2, <2>1 DEF Actors, Like, Link
    <2> HIDE DEF n
    <2>3. Good(n, p, fin, st)
      <3>1. /\ n.probe # "none" => n.fence.active /\ n.fence.seen /\ n.steers = {}
            /\ n.probe = "settled" => ~p.more
            /\ n.watch.probe # "settled"
        BY <1>14, <2>1, <2>2 DEF Like
      <3> QED
        BY <1>5, <2>2, <3>1, LikeGood
    <2>4. n.saved = u.saved /\ n.last = u.last /\ n.client = u.client
      BY <2>2 DEF Like, Link
    <2> QED
      BY <2>3, <2>4, HandlesSame
  <1>7. Handles(u, c, p, IdleNow(p), fin, st)
    <2> DEFINE h == [u.watch EXCEPT !.confirmed = TRUE]
    <2>1. h \in Watches /\ h.probe = "none"
      BY <1>2 DEF Watches
    <2>2. c = [u EXCEPT !.watch = h]
      BY <1>2 DEF Actors
    <2> HIDE DEF h, c
    <2>3. c \in Actors /\ Like(c, u) /\ c.probe = u.probe /\ c.watch = h
      BY <1>2, <2>1, <2>2 DEF Actors, Like, Link
    <2>4. Good(c, p, fin, st)
      <3>1. /\ c.probe # "none" => c.fence.active /\ c.fence.seen /\ c.steers = {}
            /\ c.probe = "settled" => ~p.more
            /\ c.watch.probe # "settled"
        BY <1>14, <2>1, <2>3 DEF Like
      <3> QED
        BY <1>5, <2>3, <3>1, LikeGood
    <2>5. c.saved = u.saved /\ c.last = u.last /\ c.client = u.client
      BY <2>3 DEF Like, Link
    <2> QED
      BY <2>4, <2>5, HandlesSame
  <1>8. Handles(u, RetireTaskRuntime(u), p, IdleNow(p), fin, st)
    <2>1. Base(u) /\ (u.client = 0 => p = Dead)
      BY <1>5, GoodIsBase DEF Good, Matched, Calmness
    <2> QED
      BY <2>1, RetireHandles
  <1>9. v.fence.active /\ v.watch.probe = "settled" /\ v.steers = {} /\ v.fence.seen =>
            Handles(u, MaybeFinishSteeredRoot(y), p, IdleNow(p), fin, st)
    <2>1. v.watch.probe = "settled" => ~p.more
      BY <1>1 DEF Matched, Settled
    <2> QED
      BY <1>3, <1>5, <2>1, SettledByProbe
  <1>10. Eligible(v) /\ ~v.fence.active =>
            Handles(u, Release(FinishTask(u, "uncertain")), p, IdleNow(p), fin, st)
    BY <1>3, <1>5, GivenUpHandles DEF Eligible
  <1> HIDE DEF n, c, y
  <1>11. Handles(u, x, p, IdleNow(p), fin, st)
    BY <1>6, <1>7, <1>8, <1>9, <1>10, Zenon DEF IdleProbed, u, n, c, y
  <1>12. Leads(v, u, IdleNow(p), fin, st)
    <2>1. u.last >= v.last
      BY <1>1, <1>3 DEF Actors
    <2> QED
      BY <1>3, <2>1, LeadsSame
  <1> HIDE DEF x
  <1>13. Handles(v, x, p, IdleNow(p), fin, st)
    BY <1>1, <1>2, <1>3, <1>11, <1>12, HandlesOn
  <1> QED
    BY <1>13 DEF x

-----------------------------------------------------------------------------
\* The user.

\* A steer is registered under the fence, and waits at the end of the lane.
Admitted(v, i) ==
    LET admission == v.fence.admission + 1
        request == [input |-> i, root |-> v.active, turn |-> v.turn, client |-> v.client,
                    admission |-> admission]
    IN  [v EXCEPT !.saved[i] = "submitted",
                  !.fence = [@ EXCEPT !.active = TRUE, !.settled = FALSE,
                                      !.admission = admission],
                  !.probe = "none",
                  !.steers = @ \cup {request}]

\* A steer that is admitted is held, and is the latest.
LEMMA AdmittedIs ==
    ASSUME NEW v, v \in Actors, NEW i \in Prompts, v.active # None
    PROVE  LET u == Admitted(v, i)
           IN  /\ u \in Actors /\ Link(u, v) /\ u.active = v.active
               /\ u.control = v.control /\ u.session = v.session
               /\ u.saved = [v.saved EXCEPT ![i] = "submitted"]
               /\ u.fence.active /\ ~u.fence.settled /\ u.fence.seen = v.fence.seen
               /\ u.fence.verdict = v.fence.verdict
               /\ u.fence.admission = v.fence.admission + 1 /\ v.fence.admission \in Nat
               /\ u.probe = "none"
               /\ \E s \in SteerRequests : /\ s.input = i /\ s.admission = v.fence.admission + 1
                                           /\ u.steers = v.steers \cup {s}
               /\ Steer(v, i) = StartOperation(u, "steer", i, v.active)
  <1> DEFINE admission == v.fence.admission + 1
             s == [input |-> i, root |-> v.active, turn |-> v.turn, client |-> v.client,
                   admission |-> admission]
             f == [v.fence EXCEPT !.active = TRUE, !.settled = FALSE, !.admission = admission]
             sv == [v.saved EXCEPT ![i] = "submitted"]
             u == Admitted(v, i)
  <1>1. v.fence \in Fences /\ v.fence.admission \in Nat /\ admission \in Nat
    BY DEF Actors, Fences
  <1>2. s \in SteerRequests /\ s.input = i /\ s.admission = admission
    BY <1>1 DEF SteerRequests, Actors
  <1>3. /\ f \in Fences /\ f.active /\ ~f.settled /\ f.seen = v.fence.seen
        /\ f.verdict = v.fence.verdict /\ f.admission = admission
    BY <1>1 DEF Fences
  <1>4. sv \in [Prompts -> SavedStates]
    BY DEF Actors, SavedStates
  <1>5. Steer(v, i) = StartOperation(u, "steer", i, v.active)
    BY DEF Steer, Admitted
  <1>6. u = [v EXCEPT !.saved = sv, !.fence = f, !.probe = "none", !.steers = v.steers \cup {s}]
    BY DEF Admitted
  <1> HIDE DEF s, f, sv, u
  <1>7. v.steers \cup {s} \in SUBSET SteerRequests
    BY <1>2 DEF Actors
  <1>8. u \in Actors
    BY <1>3, <1>4, <1>6, <1>7 DEF Actors, Answers
  <1>9. /\ Link(u, v) /\ u.active = v.active /\ u.control = v.control /\ u.session = v.session
        /\ u.saved = sv /\ u.fence = f /\ u.probe = "none" /\ u.steers = v.steers \cup {s}
    BY <1>6, <1>8 DEF Actors, Link
  <1>10. \E t \in SteerRequests : t.input = i /\ t.admission = admission /\ u.steers = v.steers \cup {t}
    BY <1>2, <1>9
  <1>11. u.saved = [v.saved EXCEPT ![i] = "submitted"]
    BY <1>9 DEF sv
  <1> QED
    BY <1>1, <1>3, <1>5, <1>8, <1>9, <1>10, <1>11 DEF u

\* The state of the actor before the steer is dispatched.
LEMMA SteerQueued ==
    ASSUME NEW v, NEW p, NEW fin, NEW st, Good(v, p, fin, st), NEW i \in Prompts,
           v.saved[i] = "none", v.active # None, v.client # 0, v.control # "abort"
    PROVE  LET x == Queued(Admitted(v, i), "steer", i, v.active)
           IN  /\ Good(x, p, fin, st) /\ Steer(v, i) = DispatchOperation(x)
               /\ x.saved = [v.saved EXCEPT ![i] = "submitted"]
               /\ x.client = v.client /\ x.last = v.last
  <1> DEFINE u == Admitted(v, i)
             x == Queued(u, "steer", i, v.active)
             r == Request(u, "steer", i, v.active)
             n == Len(u.lane) + 1
  <1>1. Actor(v) /\ v \in Actors /\ Matched(v, p, fin, st)
    BY DEF Good, Actor
  <1>2. /\ u \in Actors /\ Link(u, v) /\ u.active = v.active
        /\ u.control = v.control /\ u.session = v.session
        /\ u.saved = [v.saved EXCEPT ![i] = "submitted"]
        /\ u.fence.active /\ ~u.fence.settled /\ u.fence.seen = v.fence.seen
        /\ u.fence.verdict = v.fence.verdict
        /\ u.fence.admission = v.fence.admission + 1 /\ v.fence.admission \in Nat
        /\ u.probe = "none"
        /\ Steer(v, i) = StartOperation(u, "steer", i, v.active)
    BY <1>1, AdmittedIs
  <1>3. PICK s \in SteerRequests : /\ s.input = i /\ s.admission = v.fence.admission + 1
                                   /\ u.steers = v.steers \cup {s}
    BY <1>1, AdmittedIs
  <1> HIDE DEF u
  <1>4. "steer" \in Kinds \ {"none"} /\ v.active \in Prompts \cup {None} /\ v.active \in Prompts
    BY <1>1 DEF Kinds, Actors
  <1>5. /\ StartOperation(u, "steer", i, v.active) = DispatchOperation(x)
        /\ x \in Actors /\ x.watch = NoWatch
        /\ x.client = u.client /\ x.last = u.last /\ x.turn = u.turn
        /\ x.flight = u.flight /\ x.queue = u.queue /\ Grip(x, u)
        /\ x.saved = u.saved /\ x.active = u.active
        /\ r.kind = "steer" /\ r.input = i /\ r.active = v.active
        /\ r.turn = u.turn /\ r.client = u.client /\ n \in Nat
        /\ DOMAIN x.lane = 1 .. n
        /\ \A k \in DOMAIN u.lane : k \in DOMAIN x.lane /\ x.lane[k] = u.lane[k]
        /\ \A k \in DOMAIN x.lane : k = n \/ k \in DOMAIN u.lane
        /\ n \in DOMAIN x.lane /\ x.lane[n] = r
    BY <1>2, <1>4, QueuedIs
  <1> HIDE DEF x, r, n
  <1>6. /\ x.client = v.client /\ x.last = v.last /\ x.turn = v.turn /\ x.flight = v.flight
        /\ x.queue = v.queue /\ u.lane = v.lane /\ x.active = v.active /\ x.control = v.control
        /\ x.session = v.session /\ x.saved = [v.saved EXCEPT ![i] = "submitted"]
        /\ x.fence.active /\ ~x.fence.settled /\ x.fence.seen = v.fence.seen
        /\ x.fence.verdict = v.fence.verdict /\ x.fence.admission = v.fence.admission + 1
        /\ x.probe = "none" /\ x.steers = v.steers \cup {s}
    BY <1>2, <1>3, <1>5 DEF Link, Grip
  <1>7. v.saved \in [Prompts -> SavedStates]
    BY <1>1 DEF Actors
  <1>8. \A j \in Prompts : x.saved[j] = IF j = i THEN "submitted" ELSE v.saved[j]
    BY <1>6, <1>7
  <1>9. /\ Ledger(v) /\ Counters(v) /\ LaneOk(v) /\ FlightOk(v) /\ LastSteer(v) /\ FenceOk(v)
    BY <1>1 DEF Actor
  <1>10. \A t \in v.steers : /\ t.input \in Prompts /\ t.input # i
                             /\ t.admission \in Nat /\ t.admission <= v.fence.admission
    <2>1. \A t \in v.steers : t.input \in Prompts /\ t.admission \in Nat
      BY <1>1 DEF Actors, SteerRequests
    <2> QED
      BY <1>9, <2>1 DEF Ledger
  <1>11. i # v.active
    BY <1>9 DEF Ledger
  <1>12. Ledger(x)
    <2>1. x.saved[x.active] = "submitted"
      BY <1>4, <1>6, <1>8, <1>9 DEF Ledger
    <2>2. \A t \in x.steers : x.saved[t.input] = "submitted" /\ t.input # x.active
      BY <1>3, <1>6, <1>8, <1>9, <1>10, <1>11 DEF Ledger
    <2>3. ASSUME NEW t \in x.steers, NEW y \in x.steers,
                 t.input = y.input \/ t.admission = y.admission
          PROVE  t = y
      <3>1. CASE t \in v.steers /\ y \in v.steers
        BY <1>9, <2>3, <3>1 DEF Ledger
      <3>2. \A z \in v.steers : z.input # s.input /\ z.admission # s.admission
        BY <1>2, <1>3, <1>10
      <3> QED
        BY <1>6, <2>3, <3>1, <3>2
    <2>4. \A t \in x.steers : t.admission <= x.fence.admission
      BY <1>2, <1>3, <1>6, <1>10
    <2>5. \A k \in DOMAIN v.queue : v.queue[k] \in Prompts /\ v.queue[k] # i
      BY <1>1, <1>9 DEF Actors, Ledger
    <2>6. \A k \in DOMAIN x.queue : x.saved[x.queue[k]] = "queued"
      BY <1>6, <1>8, <1>9, <2>5 DEF Ledger
    <2> QED
      BY <1>6, <1>9, <2>1, <2>2, <2>3, <2>4, <2>6 DEF Ledger
  <1>13. Counters(x) /\ Unconnected(x)
    BY <1>6, <1>9 DEF Counters, Unconnected
  <1>14. \A j : j \in SteerInputs(x) <=> j \in SteerInputs(v) \/ j = i
    BY <1>3, <1>6 DEF SteerInputs
  <1>15. i \notin SteerInputs(v)
    BY <1>10 DEF SteerInputs
  <1>16. ASSUME NEW op, Waits(v, op)
         PROVE  Waits(x, op) /\ (op.kind = "steer" => op.input # i)
    BY <1>6, <1>14, <1>15, <1>16 DEF Waits, Granted
  <1>17. /\ Claims(x) <=> Claims(v)
         /\ OutSteer(x) <=> OutSteer(v)
         /\ Own(x, x.flight) <=> Own(v, v.flight)
         /\ Awaited(x) <=> Awaited(v)
    BY <1>5, <1>6 DEF Claims, OutSteer, Own, Mine, Awaited
  <1>18. LaneOk(x)
    <2>1. Waits(x, r)
      BY <1>2, <1>5, <1>6, <1>14 DEF Waits, Granted, Link
    <2>2. \A k \in DOMAIN x.lane : Waits(x, x.lane[k])
      BY <1>5, <1>6, <1>9, <1>16, <2>1 DEF LaneOk
    <2>3. \A k \in DOMAIN x.lane : x.lane[k].kind = "prompt" => k = 1 /\ ~Own(x, x.flight)
      BY <1>5, <1>6, <1>9, <1>17 DEF LaneOk
    <2>4. \A k \in DOMAIN v.lane : Differ(v.lane[k], r) /\ Differ(r, v.lane[k])
      BY <1>5, <1>9, <1>16 DEF Differ, LaneOk, Asks
    <2>5. \A j, k \in DOMAIN x.lane : j # k => Differ(x.lane[j], x.lane[k])
      BY <1>5, <1>6, <1>9, <2>4 DEF LaneOk
    <2> QED
      BY <2>2, <2>3, <2>5 DEF LaneOk
  <1>19. FlightOk(x)
    <2>1. Claims(v) => Differ(v.flight, r)
      BY <1>5, <1>9, <1>16 DEF Differ, FlightOk, Asks
    <2> QED
      BY <1>5, <1>6, <1>9, <1>16, <1>17, <2>1 DEF FlightOk
  <1>20. Latest(x, i)
    BY <1>3, <1>6 DEF Latest
  <1>21. LastSteer(x)
    <2>1. \A k \in DOMAIN x.lane : n >= k
      BY <1>5
    <2> QED
      BY <1>5, <1>20, <2>1 DEF LastSteer
  <1>22. FenceOk(x)
    BY <1>6, <1>9, <1>17 DEF FenceOk
  <1>23. Actor(x)
    BY <1>5, <1>12, <1>13, <1>18, <1>19, <1>21, <1>22 DEF Actor
  <1>24. \A j : Unsent(x, j) => Unsent(v, j) \/ j = i
    BY <1>5, <1>6, <1>17 DEF Unsent
  <1>25. Stages(x, p)
    BY <1>1, <1>14, <1>15, <1>24 DEF Matched, Stages
  <1>26. Calmness(x, p)
    BY <1>1, <1>6, <1>17 DEF Matched, Calmness
  <1>27. ~Aborted(v, p)
    <2>1. Mine(v, v.flight) /\ v.flight.kind = "abort" => Claims(v)
      BY DEF Claims, Asks
    <2> QED
      BY <1>9, <2>1 DEF Aborted, FlightOk, Waits, Granted
  <1>28. Runs(x, p, fin)
    BY <1>1, <1>6, <1>17, <1>27 DEF Matched, Runs
  <1>29. Ends(x, p, fin, st)
    BY <1>1, <1>6 DEF Matched, Ends, Told
  <1>30. Settled(x, p)
    <2>1. ASSUME NEW k \in DOMAIN p.events, p.events[k].type = "result" PROVE ~Latest(x, p.events[k].input)
      <3>1. p.events[k].input \in SteerInputs(v)
        BY <1>1, <2>1 DEF Matched, Stages, Reported
      <3>2. ASSUME NEW t \in x.steers, t.input = p.events[k].input PROVE t.admission # x.fence.admission
        <4>1. t \in v.steers
          BY <1>3, <1>6, <1>15, <3>1, <3>2
        <4> QED
          BY <1>2, <1>6, <1>10, <4>1
      <3> QED
        BY <3>2 DEF Latest
    <2> QED
      BY <1>5, <1>6, <2>1 DEF Settled, NoWatch
  <1>31. Good(x, p, fin, st)
    BY <1>1, <1>23, <1>25, <1>26, <1>28, <1>29, <1>30 DEF Good, Matched
  <1> QED
    BY <1>2, <1>5, <1>6, <1>31 DEF x, u

-----------------------------------------------------------------------------
\* Prompts and controls of the user.

\* The step keeps the actor and OMP in accord, and moves the inputs as it may.
Onward ==
    /\ Good(w', o', finished', stopped')
    /\ Leads(w, w', IdleNow(o), finished', stopped')

\* A handler that does so, with the dispatch that follows, makes such a step.
LEMMA HandlerSteps ==
    ASSUME OInv, NEW x, NEW rest, Settle(x, rest),
           Handles(w, x, rest, IdleNow(o), finished', stopped')
    PROVE  Onward
  <1>1. w \in Actors /\ w.client <= w.last
    BY DEF OInv, Good, Actor, Counters
  <1> DEFINE idle == IdleNow(o)
             fin == finished'
             st == stopped'
  <1>2. Handles(w, x, rest, idle, fin, st)
    OBVIOUS
  <1> HIDE DEF idle, fin, st
  <1>3. Good(w', o', fin, st) /\ Leads(w, w', idle, fin, st)
    BY <1>1, <1>2, SettleGood
  <1> QED
    BY <1>3 DEF Onward, idle, fin, st

\* A steer is queued and, if it may, sent.
LEMMA SteerHandles ==
    ASSUME NEW v, NEW p, NEW idle, NEW fin, NEW st, Good(v, p, fin, st), NEW i \in Prompts,
           v.saved[i] = "none", v.active # None, v.client # 0, v.control # "abort"
    PROVE  Handles(v, Steer(v, i), p, idle, fin, st)
  <1> DEFINE x == Queued(Admitted(v, i), "steer", i, v.active)
             y == Steer(v, i)
  <1>1. /\ Good(x, p, fin, st) /\ y = DispatchOperation(x)
        /\ x.saved = [v.saved EXCEPT ![i] = "submitted"]
        /\ x.client = v.client /\ x.last = v.last
    BY SteerQueued
  <1> HIDE DEF x, y
  <1>2. /\ Good(y, p, fin, st) /\ y.saved = x.saved /\ y.last = x.last /\ y.client = x.client
    BY <1>1, DispatchGood
  <1>3. v \in Actors /\ v.last \in Nat
    BY DEF Good, Actor, Actors
  <1>4. y.saved = [v.saved EXCEPT ![i] = "submitted"] /\ y.last >= v.last /\ y.client = v.client
    BY <1>1, <1>2, <1>3
  <1>5. "submitted" \in SavedStates /\ v.saved[i] \notin Final /\ "submitted" \notin Final
    BY DEF SavedStates, Final
  <1>6. Leads(v, y, idle, fin, st)
    <2>1. v.saved[i] # "submitted" /\ "submitted" \notin Final
      BY <1>5
    <2> QED
      BY <1>3, <1>4, <1>5, <2>1, LeadsOne
  <1>7. Stay(v, y, p) = p
    BY <1>4 DEF Stay
  <1>8. Handles(v, y, p, idle, fin, st)
    BY <1>2, <1>6, <1>7 DEF Handles
  <1> QED
    BY <1>8 DEF y

\* An input that has not been routed is answered or queued.
Entered(v, i, state, queue) == [v EXCEPT !.saved[i] = state, !.queue = queue]

\* Neither touches what the worker does.
LEMMA EnteredGood ==
    ASSUME NEW v, NEW p, NEW fin, NEW st, Good(v, p, fin, st), NEW i \in Prompts,
           v.saved[i] = "none", NEW state, NEW queue,
           \/ state \in {"cancelled", "refused"} /\ queue = v.queue
           \/ state = "queued" /\ queue = Append(v.queue, i)
    PROVE  LET x == Entered(v, i, state, queue)
           IN  /\ Good(x, p, fin, st) /\ x.saved = [v.saved EXCEPT ![i] = state]
               /\ x.client = v.client /\ x.last = v.last
               /\ state \in SavedStates
  <1> DEFINE x == Entered(v, i, state, queue)
             f == [v.saved EXCEPT ![i] = state]
  <1>1. Actor(v) /\ v \in Actors /\ Ledger(v)
    BY DEF Good, Actor
  <1>2. state \in SavedStates /\ state # "submitted"
    BY DEF SavedStates, Final
  <1>3. v.queue \in Seq(Prompts) /\ v.saved \in [Prompts -> SavedStates]
    BY <1>1 DEF Actors
  <1>4. queue \in Seq(Prompts)
    <2>1. Append(v.queue, i) \in Seq(Prompts)
      BY <1>3
    <2> QED
      BY <1>3, <2>1
  <1>5. f \in [Prompts -> SavedStates] /\ \A j \in Prompts : f[j] = IF j = i THEN state ELSE v.saved[j]
    BY <1>2, <1>3
  <1>6. x = [v EXCEPT !.saved = f, !.queue = queue]
    BY DEF Entered
  <1>14. f = [v.saved EXCEPT ![i] = state]
    OBVIOUS
  <1> HIDE DEF f, x
  <1>7. /\ x \in Actors /\ x.saved = f /\ x.queue = queue /\ Grip(x, v) /\ x.active = v.active
        /\ x.watch = v.watch /\ x.client = v.client /\ x.last = v.last /\ x.turn = v.turn
        /\ x.lane = v.lane /\ x.flight = v.flight
    BY <1>1, <1>4, <1>5, <1>6 DEF Actors, Grip
  <1>8. Ledger(x)
    <2>1. v.active # None => v.active \in Prompts /\ v.active # i
      BY <1>1 DEF Actors, Ledger
    <2>2. \A s \in v.steers : s.input \in Prompts /\ s.input # i
      BY <1>1 DEF Actors, SteerRequests, Ledger
    <2>3. \A k \in DOMAIN v.queue : v.queue[k] \in Prompts /\ v.queue[k] # i
      BY <1>1, <1>3 DEF Ledger
    <2>4. CASE state # "queued"
      <3>1. queue = v.queue
        BY <2>4
      <3> QED
        BY <1>1, <1>5, <1>7, <2>1, <2>2, <2>3, <3>1 DEF Ledger, Grip
    <2>5. CASE state = "queued"
      <3>1. queue = Append(v.queue, i)
        BY <2>5
      <3>2. /\ DOMAIN queue = 1 .. Len(v.queue) + 1 /\ DOMAIN v.queue = 1 .. Len(v.queue)
            /\ Len(v.queue) \in Nat /\ queue[Len(v.queue) + 1] = i
            /\ \A k \in DOMAIN v.queue : queue[k] = v.queue[k]
        BY <1>3, <3>1
      <3>3. \A k \in DOMAIN queue : k = Len(v.queue) + 1 \/ k \in DOMAIN v.queue
        BY <3>2
      <3>4. \A k \in DOMAIN queue : f[queue[k]] = "queued"
        BY <1>1, <1>5, <2>3, <2>5, <3>2, <3>3 DEF Ledger
      <3>5. \A j, k \in DOMAIN queue : queue[j] = queue[k] => j = k
        BY <1>1, <2>3, <3>2, <3>3 DEF Ledger
      <3> QED
        BY <1>1, <1>5, <1>7, <2>1, <2>2, <3>4, <3>5 DEF Ledger, Grip
    <2> QED
      BY <2>4, <2>5
  <1>9. Good(x, p, fin, st)
    BY <1>7, <1>8, KeptGood
  <1>10. x.saved = [v.saved EXCEPT ![i] = state]
    BY <1>7, <1>14
  <1> QED
    BY <1>2, <1>7, <1>9, <1>10 DEF x

\* A handler that connected first, if it had to.
LEMMA ConnectedHandles ==
    ASSUME NEW v, NEW x, NEW p, NEW idle, NEW fin, NEW st, Good(v, p, fin, st),
           Good(x, IF v.client = 0 THEN Fresh ELSE p, fin, st), x.client = Connected(v).client,
           Leads(v, x, idle, fin, st)
    PROVE  Handles(v, x, p, idle, fin, st)
  <1>1. /\ v.client # 0 => x.client = v.client
        /\ x.client # 0
    BY ConnectedGood
  <1>2. Stay(v, x, p) = IF v.client = 0 THEN Fresh ELSE p
    BY <1>1 DEF Stay
  <1> QED
    BY <1>2 DEF Handles

\* A prompt becomes a steer, waits in the queue or is answered at once.
LEMMA PromptOnward == ASSUME OInv, NEW i \in Prompts, Prompt(i) PROVE Onward
  <1> DEFINE idle == IdleNow(o)
             c == Connected(w)
             p == IF w.client = 0 THEN Fresh ELSE o
  <1>1. Good(w, o, finished, stopped) /\ w \in Actors /\ w.saved[i] = "none"
    BY DEF OInv, Good, Actor, Prompt
  <1>2. finished' = finished /\ stopped' = stopped
    BY DEF Prompt, Reject, Handled
  <1>3. /\ Good(c, p, finished, stopped) /\ c.saved = w.saved /\ c.last >= w.last
    BY <1>1, ConnectedGood
  <1>4. w.saved[i] \notin Final /\ w.saved[i] # "submitted"
    BY <1>1 DEF Final
  <1>5. ASSUME NEW x, Handled(x), Handles(w, x, o, idle, finished, stopped) PROVE Onward
    BY <1>2, <1>5, HandlerSteps DEF Handled
  <1>6. ASSUME NEW state \in {"cancelled", "refused"}, Reject(i, state) PROVE Onward
    <2> DEFINE x == Entered(w, i, state, w.queue)
    <2>1. /\ Good(x, o, finished, stopped) /\ x.saved = [w.saved EXCEPT ![i] = state]
          /\ x.client = w.client /\ x.last = w.last /\ state \in SavedStates
      BY <1>1, EnteredGood
    <2>2. x = [w EXCEPT !.saved[i] = state]
      BY <1>1 DEF Entered, Actors
    <2>3. Handled(x)
      BY <1>6, <2>2 DEF Reject
    <2> HIDE DEF x
    <2>4. x.last >= w.last
      BY <1>1, <2>1 DEF Actors
    <2>5. \/ state \in Final \ {"done", "cancelled"}
          \/ state = "cancelled" /\ (w.saved[i] = "submitted" => i \in stopped)
      BY <1>4 DEF Final
    <2>6. Leads(w, x, idle, finished, stopped)
      BY <1>1, <1>4, <2>1, <2>4, <2>5, LeadsOne
    <2>7. Stay(w, x, o) = o
      BY <2>1 DEF Stay
    <2> QED
      BY <1>5, <2>1, <2>3, <2>6, <2>7 DEF Handles
  <1>7. ASSUME NEW state, NEW queue, Handled(Entered(c, i, state, queue)),
               \/ state = "cancelled" /\ queue = c.queue
               \/ state = "queued" /\ queue = Append(c.queue, i)
        PROVE  Onward
    <2> DEFINE x == Entered(c, i, state, queue)
    <2> HIDE DEF c, p
    <2>1. /\ Good(x, p, finished, stopped) /\ x.saved = [w.saved EXCEPT ![i] = state]
          /\ x.client = c.client /\ x.last = c.last /\ state \in SavedStates
      BY <1>1, <1>3, <1>7, EnteredGood
    <2>2. Handled(x)
      BY <1>7
    <2> HIDE DEF x
    <2>3. \/ state = "cancelled" /\ (w.saved[i] = "submitted" => i \in stopped)
          \/ w.saved[i] # "submitted" /\ state \notin Final
      BY <1>4, <1>7 DEF Final
    <2>4. Leads(w, x, idle, finished, stopped)
      BY <1>1, <1>3, <1>4, <2>1, <2>3, LeadsOne
    <2>5. Handles(w, x, o, idle, finished, stopped)
      BY <1>1, <2>1, <2>4, ConnectedHandles DEF c, p
    <2> QED
      BY <1>5, <2>2, <2>5
  <1>8. c \in Actors
    BY <1>3 DEF Good, Actor
  <1>9. ASSUME w.active # None, w.client # 0, w.control # "abort", Handled(Steer(w, i)) PROVE Onward
    BY <1>1, <1>5, <1>9, SteerHandles
  <1>10. ASSUME Handled([c EXCEPT !.saved[i] = "cancelled"]) PROVE Onward
    <2>1. [c EXCEPT !.saved[i] = "cancelled"] = [c EXCEPT !.saved[i] = "cancelled", !.queue = c.queue]
      BY <1>8 DEF Actors
    <2> HIDE DEF c
    <2>2. Handled(Entered(c, i, "cancelled", c.queue))
      BY <1>10, <2>1 DEF Entered
    <2> QED
      BY <1>7, <2>2
  <1>11. ASSUME Handled([c EXCEPT !.saved[i] = "queued", !.queue = Append(@, i)]) PROVE Onward
    <2>1. [c EXCEPT !.saved[i] = "queued", !.queue = Append(@, i)]
             = [c EXCEPT !.saved[i] = "queued", !.queue = Append(c.queue, i)]
      BY <1>8 DEF Actors
    <2> HIDE DEF c
    <2>2. Handled(Entered(c, i, "queued", Append(c.queue, i)))
      BY <1>11, <2>1 DEF Entered
    <2> QED
      BY <1>7, <2>2
  <1> QED
    BY <1>6, <1>9, <1>10, <1>11 DEF Prompt, c

\* A control is asked for: what it needs is not waiting already.
LEMMA ControlBegins ==
    ASSUME NEW v, NEW x, NEW p, NEW fin, NEW st, Good(v, p, fin, st),
           x \in Actors, Link(x, v), x.saved = v.saved, x.active = v.active,
           x.steers = v.steers, x.fence = v.fence, x.probe = v.probe, x.watch = v.watch,
           x.control # v.control => v.control = "none",
           x.control # v.control /\ x.control = "abort" =>
                ~v.fence.active /\ (v.active # None => v.active \in st),
           v.session => x.session
    PROVE  /\ Good(x, p, fin, st)
           /\ x.control # v.control => Without(x, Asks)
           /\ ~v.session => Without(x, {"compact"})
  <1> USE DEF Link
  <1>1. v \in Actors /\ Actor(v) /\ Matched(v, p, fin, st)
    BY DEF Good, Actor
  <1>2. Ledger(x) /\ Counters(x) /\ Unconnected(x)
    BY <1>1 DEF Actor, Ledger, Counters, Unconnected
  <1>3. Awaited(x) = Awaited(v) /\ Claims(x) = Claims(v) /\ OutSteer(x) = OutSteer(v)
    BY DEF Awaited, Claims, OutSteer, Mine
  <1>4. \A op : Own(x, op) <=> Own(v, op)
    BY DEF Own, Mine
  <1>5. \A i : (Latest(x, i) <=> Latest(v, i)) /\ (Unsent(x, i) <=> Unsent(v, i))
    BY <1>3 DEF Latest, Unsent
  <1>6. ASSUME NEW op, Waits(v, op)
        PROVE  /\ Waits(x, op)
               /\ x.control # v.control => op.kind \notin Asks
               /\ ~v.session => op.kind # "compact"
    BY <1>6 DEF Waits, Granted, SteerInputs, Asks
  <1>7. LaneOk(v) /\ FlightOk(v)
    BY <1>1 DEF Actor
  <1>8. LaneOk(x)
    BY <1>4, <1>6, <1>7 DEF LaneOk
  <1>9. FlightOk(x)
    BY <1>3, <1>6, <1>7 DEF FlightOk
  <1>10. LastSteer(x)
    BY <1>1, <1>3, <1>5 DEF Actor, LastSteer
  <1>11. FenceOk(x)
    BY <1>1, <1>3 DEF Actor, FenceOk
  <1>12. Actor(x)
    BY <1>2, <1>8, <1>9, <1>10, <1>11 DEF Actor
  <1>13. Stages(x, p) /\ Calmness(x, p)
    BY <1>1, <1>3, <1>5 DEF Matched, Stages, Calmness, SteerInputs
  <1>14. Runs(x, p, fin)
    BY <1>1, <1>3 DEF Matched, Runs, Aborted, Mine
  <1>15. Ends(x, p, fin, st)
    BY <1>1 DEF Matched, Ends, Told
  <1>16. Settled(x, p) /\ Worked(p, fin)
    BY <1>1, <1>5 DEF Matched, Settled
  <1>17. Good(x, p, fin, st)
    BY <1>12, <1>13, <1>14, <1>15, <1>16 DEF Good, Matched
  <1>18. x.control # v.control => Without(x, Asks)
    BY <1>3, <1>6, <1>7 DEF Without, LaneOk, FlightOk
  <1>19. ~v.session => Without(x, {"compact"})
    BY <1>3, <1>6, <1>7 DEF Without, LaneOk, FlightOk
  <1> QED
    BY <1>17, <1>18, <1>19

\* An abort is requested, or the task with its steers given up.
LEMMA StopRootHandles ==
    ASSUME NEW v, NEW p, NEW idle, NEW fin, NEW st, Good(v, p, fin, st),
           v.active # None => v.active \in st
    PROVE  Handles(v, StopRoot(v), p, idle, fin, st)
  <1>1. Actor(v) /\ v \in Actors /\ Base(v) /\ (v.client = 0 => p = Dead)
    BY GoodIsBase DEF Good, Actor, Matched, Calmness
  <1>2. CASE v.fence.active
    BY <1>1, <1>2, RetireHandles DEF StopRoot
  <1>3. CASE ~v.fence.active /\ (v.client = 0 \/ v.control # "none")
    <2>1. StopRoot(v) = v
      BY <1>3 DEF StopRoot, RequestAbort
    <2> QED
      BY <2>1, HandlesSame
  <1>4. CASE ~v.fence.active /\ v.client # 0 /\ v.control = "none"
    <2> DEFINE u == [v EXCEPT !.control = "abort"]
               kind == IF v.active = None THEN "abort_state" ELSE "abort"
               x == StartOperation(u, kind, None, None)
    <2>1. StopRoot(v) = x
      BY <1>4 DEF StopRoot, RequestAbort
    <2>2. /\ u \in Actors /\ Link(u, v) /\ u.saved = v.saved /\ u.active = v.active
          /\ u.steers = v.steers /\ u.fence = v.fence /\ u.probe = v.probe /\ u.watch = v.watch
          /\ u.control = "abort" /\ u.session = v.session
      BY <1>1 DEF Actors, Link
    <2> HIDE DEF u
    <2>3. Good(u, p, fin, st) /\ Without(u, Asks)
      BY <1>4, <2>2, ControlBegins
    <2>4. kind \in {"abort", "abort_state", "status", "compact"} /\ kind # "compact"
      OBVIOUS
    <2>5. Granted(u, kind)
      BY <2>2 DEF Granted
    <2>6. u.client # 0
      BY <1>4, <2>2 DEF Link
    <2> HIDE DEF kind
    <2>7. Good(x, p, fin, st) /\ x.saved = u.saved /\ x.last = u.last /\ x.client = u.client
      BY <2>3, <2>4, <2>5, <2>6, ControlStarts
    <2> HIDE DEF x
    <2>8. x.saved = v.saved /\ x.last = v.last /\ x.client = v.client
      BY <2>2, <2>7 DEF Link
    <2>9. Handles(v, x, p, idle, fin, st)
      BY <2>7, <2>8, HandlesSame
    <2> QED
      BY <2>1, <2>9
  <1> QED
    BY <1>2, <1>3, <1>4

\* A control that needs a runtime.
LEMMA AskHandles ==
    ASSUME NEW v, NEW u, NEW p, NEW idle, NEW fin, NEW st, Good(v, p, fin, st),
           NEW kind \in {"status", "compact"},
           kind = "compact" => ~v.session /\ v.active = None,
           kind = "status" => u = [Connected(v) EXCEPT !.control = "status"] /\ v.control = "none",
           kind = "compact" => u = [Connected(v) EXCEPT !.session = TRUE]
    PROVE  Handles(v, StartOperation(u, kind, None, None), p, idle, fin, st)
  <1> DEFINE c == Connected(v)
             q == IF v.client = 0 THEN Fresh ELSE p
             x == StartOperation(u, kind, None, None)
  <1>1. /\ Good(c, q, fin, st)
        /\ c.client # 0 /\ c.saved = v.saved /\ c.last >= v.last
        /\ c.active = v.active /\ c.control = v.control /\ c.session = v.session
    BY ConnectedGood
  <1>2. kind = "status" => u = [c EXCEPT !.control = "status"]
    OBVIOUS
  <1>3. kind = "compact" => u = [c EXCEPT !.session = TRUE]
    OBVIOUS
  <1>4. c.client = Connected(v).client
    OBVIOUS
  <1> HIDE DEF c, q
  <1>5. c \in Actors
    BY <1>1 DEF Good, Actor
  <1>6. /\ u \in Actors /\ Link(u, c) /\ u.saved = c.saved /\ u.active = c.active
        /\ u.steers = c.steers /\ u.fence = c.fence /\ u.probe = c.probe /\ u.watch = c.watch
        /\ u.client = c.client /\ u.last = c.last
        /\ kind = "status" => u.control = "status" /\ u.session = c.session
        /\ kind = "compact" => u.session /\ u.control = c.control
    <2>1. CASE kind = "status"
      BY <1>2, <1>5, <2>1 DEF Actors, Link
    <2>2. CASE kind = "compact"
      <3>1. u = [c EXCEPT !.session = TRUE] /\ kind # "status"
        BY <1>3, <2>2
      <3>2. /\ u \in Actors /\ Link(u, c) /\ u.saved = c.saved /\ u.active = c.active
            /\ u.steers = c.steers /\ u.fence = c.fence /\ u.probe = c.probe /\ u.watch = c.watch
            /\ u.control = c.control
        BY <1>5, <3>1 DEF Actors, Link
      <3>3. u.session = TRUE
        BY <1>5, <3>1 DEF Actors
      <3> QED
        BY <3>1, <3>2, <3>3 DEF Link
    <2> QED
      BY <2>1, <2>2
  <1>7. Good(u, q, fin, st) /\ (kind = "status" => Without(u, Asks))
           /\ (kind = "compact" => Without(u, {"compact"}))
    BY <1>1, <1>6, ControlBegins
  <1>8. Granted(u, kind)
    BY <1>1, <1>6 DEF Granted
  <1>9. kind \in {"abort", "abort_state", "status", "compact"} /\ (kind \in Asks => kind = "status")
    BY DEF Asks
  <1>10. u.client # 0
    BY <1>1, <1>6
  <1>11. Good(x, q, fin, st) /\ x.saved = u.saved /\ x.last = u.last /\ x.client = u.client
    BY <1>7, <1>8, <1>9, <1>10, ControlStarts
  <1> HIDE DEF x
  <1>12. x.saved = v.saved /\ x.last >= v.last
    BY <1>1, <1>6, <1>11
  <1>13. Leads(v, x, idle, fin, st)
    BY <1>12, LeadsSame
  <1>14. x.client = Connected(v).client
    BY <1>4, <1>6, <1>11
  <1>15. Handles(v, x, p, idle, fin, st)
    BY <1>11, <1>13, <1>14, ConnectedHandles DEF q
  <1> QED
    BY <1>15 DEF x

\* Every request of the user.
LEMMA UserOnward ==
    ASSUME OInv, Stop \/ StopActiveTask \/ Status \/ Compact \/ CloseSession \/ NewSession \/ ReleaseIdle
    PROVE  Onward
  <1> DEFINE idle == IdleNow(o)
             fin == finished'
             st == stopped'
  <1>1. Good(w, o, finished, stopped)
    BY DEF OInv
  <1>2. finished' = finished /\ stopped \subseteq stopped'
    BY DEF Stop, StopActiveTask, Status, Compact, CloseSession, NewSession, ReleaseIdle,
           UserAsks, Handled
  <1>3. Good(w, o, fin, st)
    BY <1>1, <1>2, GoodGrows
  <1>4. Actor(w) /\ w \in Actors /\ Base(w) /\ (w.client = 0 => o = Dead)
    BY <1>1, GoodIsBase DEF Good, Actor, Matched, Calmness
  <1>5. ASSUME NEW x, Settle(x, o), Handles(w, x, o, idle, fin, st) PROVE Onward
    BY <1>5, HandlerSteps
  <1> HIDE DEF idle
  <1>6. CASE Stop
    <2> DEFINE q == ClearQueue(w)
    <2>1. w.active # None => w.active \in stopped'
      BY <1>6 DEF Stop, UserAsks, Current
    <2>2. Settle(StopRoot(q), o)
      BY <1>6 DEF Stop, UserAsks
    <2> HIDE DEF fin, st
    <2>3. /\ Base(q) /\ Leads(w, q, idle, fin, st) /\ q.client = w.client
          /\ q.last = w.last /\ q.active = w.active /\ q.fence = w.fence
          /\ Good(q, o, fin, st)
      BY <1>3, <1>4, ClearQueueLeads
    <2> HIDE DEF q
    <2>4. q.active # None => q.active \in st
      BY <2>1, <2>3 DEF st
    <2>5. Handles(q, StopRoot(q), o, idle, fin, st)
      BY <2>3, <2>4, StopRootHandles
    <2>6. q \in Actors
      BY <2>3 DEF Base
    <2>7. Handles(w, StopRoot(q), o, idle, fin, st)
      BY <1>4, <2>3, <2>5, <2>6, HandlesOn
    <2> QED
      BY <1>5, <2>2, <2>7
  <1>7. CASE StopActiveTask
    <2>1. w.active # None => w.active \in st
      BY <1>7 DEF StopActiveTask, UserAsks, Current
    <2>2. Settle(StopRoot(w), o)
      BY <1>7 DEF StopActiveTask, UserAsks
    <2> HIDE DEF fin, st
    <2>3. Handles(w, StopRoot(w), o, idle, fin, st)
      BY <1>3, <2>1, StopRootHandles
    <2> QED
      BY <1>5, <2>2, <2>3
  <1>8. CASE Status
    <2> DEFINE u == [Connected(w) EXCEPT !.control = "status"]
    <2>1. Settle(StartOperation(u, "status", None, None), o) /\ w.control = "none"
      BY <1>8 DEF Status, UserAsks
    <2> HIDE DEF fin, st
    <2>2. Handles(w, StartOperation(u, "status", None, None), o, idle, fin, st)
      <3>1. u = [Connected(w) EXCEPT !.control = "status"]
        OBVIOUS
      <3> HIDE DEF u
      <3> QED
        BY <1>3, <2>1, <3>1, AskHandles
    <2> QED
      BY <1>5, <2>1, <2>2
  <1>9. CASE Compact
    <2> DEFINE u == [Connected(w) EXCEPT !.session = TRUE]
    <2>1. Settle(StartOperation(u, "compact", None, None), o) /\ w.active = None /\ ~ControlBusy(w)
      BY <1>9 DEF Compact, UserAsks
    <2> HIDE DEF fin, st
    <2>2. Handles(w, StartOperation(u, "compact", None, None), o, idle, fin, st)
      <3>1. u = [Connected(w) EXCEPT !.session = TRUE] /\ ~w.session
        BY <2>1 DEF ControlBusy
      <3> HIDE DEF u
      <3> QED
        BY <1>3, <2>1, <3>1, AskHandles
    <2> QED
      BY <1>5, <2>1, <2>2
  <1>10. CASE CloseSession
    <2> DEFINE u == Teardown(w)
               x == [u EXCEPT !.bound = FALSE]
    <2>1. Settle(x, o)
      BY <1>10 DEF CloseSession, UserAsks
    <2> HIDE DEF fin, st
    <2>2. Base(u) /\ Freed(u) /\ Leads(w, u, idle, fin, st)
      BY <1>4, TeardownFrees
    <2> HIDE DEF u
    <2>3. u \in Actors
      BY <2>2 DEF Base
    <2>4. /\ x \in Actors /\ x.saved = u.saved /\ x.active = u.active /\ x.steers = u.steers
          /\ x.fence = u.fence /\ x.client = u.client /\ x.lane = u.lane /\ x.probe = u.probe
          /\ x.watch = u.watch /\ x.last = u.last /\ x.turn = u.turn /\ x.flight = u.flight
          /\ x.queue = u.queue
      BY <2>3 DEF Actors
    <2> HIDE DEF x
    <2>5. Base(x) /\ Freed(x)
      BY <2>2, <2>4 DEF Base, Freed, Ledger, Counters
    <2>6. Leads(w, x, idle, fin, st)
      BY <2>2, <2>4 DEF Leads, Moved
    <2>7. Handles(w, x, o, idle, fin, st)
      BY <1>4, <2>5, <2>6, FreedHandles
    <2> QED
      BY <1>5, <2>1, <2>7
  <1>11. CASE NewSession
    <2> DEFINE u == [w EXCEPT !.bound = TRUE]
               x == Connected(u)
               q == IF u.client = 0 THEN Fresh ELSE o
    <2>1. Settle(x, o)
      BY <1>11 DEF NewSession, Handled
    <2> HIDE DEF fin, st
    <2>2. u \in Actors /\ Like(u, w) /\ u.probe = w.probe /\ u.watch = w.watch
      BY <1>4 DEF Actors, Like, Link
    <2> HIDE DEF u
    <2>3. Good(u, o, fin, st) /\ u.saved = w.saved /\ u.client = w.client
      BY <1>3, <2>2, LikeHandles
    <2>4. Good(x, q, fin, st) /\ x.saved = u.saved /\ x.last >= u.last
      BY <2>3, ConnectedGood
    <2>5. Leads(u, x, idle, fin, st)
      BY <2>4, LeadsSame
    <2>6. x.client = Connected(u).client
      OBVIOUS
    <2> HIDE DEF x
    <2>7. Handles(u, x, o, idle, fin, st)
      BY <2>3, <2>4, <2>5, <2>6, ConnectedHandles
    <2>8. u.last >= w.last /\ u.active = w.active /\ u.fence = w.fence
      BY <1>4, <2>2 DEF Like, Link, Actors
    <2>9. Leads(w, u, idle, fin, st)
      BY <2>3, <2>8, LeadsSame
    <2>10. Handles(w, x, o, idle, fin, st)
      BY <1>4, <2>2, <2>3, <2>7, <2>8, <2>9, HandlesOn
    <2> QED
      BY <1>5, <2>1, <2>10
  <1>12. CASE ReleaseIdle
    <2> DEFINE x == Release(w)
    <2>1. Settle(x, o) /\ w.active = None /\ ~ControlBusy(w)
      BY <1>12 DEF ReleaseIdle, Handled
    <2> HIDE DEF fin, st
    <2>2. /\ Base(x) /\ x.client = 0 /\ x.lane = <<>> /\ x.steers = {} /\ x.probe = "none"
          /\ x.watch = NoWatch /\ x.active = w.active /\ x.fence = w.fence /\ x.last = w.last
          /\ \A i \in Prompts : \/ x.saved[i] = w.saved[i]
                                \/ w.saved[i] = "submitted" /\ x.saved[i] = "uncertain"
      BY <1>4, ReleaseIs
    <2> HIDE DEF x
    <2>3. ~w.fence.active
      BY <1>4, <2>1, NothingWaits
    <2>4. Freed(x)
      BY <1>4, <2>1, <2>2, <2>3 DEF Freed, Actor, FenceOk, NoWatch
    <2>5. x.last >= w.last
      BY <1>4, <2>2 DEF Actors
    <2>6. Leads(w, x, idle, fin, st)
      BY <2>2, <2>5, LeadsUncertain
    <2>7. Handles(w, x, o, idle, fin, st)
      BY <1>4, <2>2, <2>4, <2>6, FreedHandles
    <2> QED
      BY <1>5, <2>1, <2>7
  <1> QED
    BY <1>6, <1>7, <1>8, <1>9, <1>10, <1>11, <1>12

-----------------------------------------------------------------------------
\* What the actor does by itself.

\* A probe starts or is answered; an answer that OMP has settled is true of it.
LEMMA ProbeOnward ==
    ASSUME OInv, Like(w', w), o' = o, finished' = finished, stopped' = stopped,
           w'.probe # "none" => w'.fence.active /\ w'.fence.seen /\ w'.steers = {},
           w'.probe = "settled" => ~o.more,
           w'.watch.probe = "settled" => ~o.more \/ o.events # <<>>
    PROVE  Onward
  <1>1. Good(w, o, finished, stopped) /\ w \in Actors
    BY DEF OInv, Good, Actor
  <1> DEFINE x == w'
  <1>2. /\ Like(x, w)
        /\ x.probe # "none" => x.fence.active /\ x.fence.seen /\ x.steers = {}
        /\ x.probe = "settled" => ~o.more
        /\ x.watch.probe = "settled" => ~o.more \/ o.events # <<>>
    OBVIOUS
  <1>6. x = w'
    OBVIOUS
  <1> HIDE DEF x
  <1>3. Good(x, o, finished, stopped)
    BY <1>1, <1>2, LikeGood
  <1>4. x.saved = w.saved /\ x.last >= w.last
    BY <1>1, <1>2 DEF Like, Link, Actors
  <1>5. Leads(w, x, IdleNow(o), finished, stopped)
    BY <1>4, LeadsSame
  <1> QED
    BY <1>3, <1>5, <1>6 DEF Onward

\* What the probes of the present state say.
LEMMA ProbesSay ==
    ASSUME OInv
    PROVE  /\ w.probe # "none" => w.fence.active /\ w.fence.seen /\ w.steers = {}
           /\ w.probe = "settled" => ~o.more
           /\ w.watch.probe = "settled" => ~o.more \/ o.events # <<>>
  BY DEF OInv, Good, Actor, FenceOk, Matched, Settled

\* An answer "settled" is given only when nothing goes on by itself.
LEMMA StatesAreTrue == ASSUME "settled" \in States PROVE ~o.more
  BY DEF States, Idle

\* The two probes of the watchdog and their answers.
LEMMA WatchOnward ==
    ASSUME OInv, StartIdleProbe \/ SteeredTick \/ AnswerIdleProbe \/ AnswerSteerProbe
    PROVE  Onward
  <1>1. w \in Actors /\ w.watch \in Watches
    BY DEF OInv, Good, Actor, Actors
  <1>2. o' = o /\ finished' = finished /\ stopped' = stopped
    BY DEF StartIdleProbe, SteeredTick, AnswerIdleProbe, AnswerSteerProbe
  <1>3. ASSUME NEW answer \in Answers \ {"none"}, w' = [w EXCEPT !.watch.probe = answer],
               answer = "settled" => ~o.more
        PROVE  Onward
    <2> DEFINE h == [w.watch EXCEPT !.probe = answer]
    <2>1. h \in Watches /\ h.probe = answer
      BY <1>1 DEF Watches
    <2>2. w' = [w EXCEPT !.watch = h]
      BY <1>1, <1>3 DEF Actors
    <2> HIDE DEF h
    <2>3. Like(w', w) /\ w'.probe = w.probe /\ w'.watch = h
      BY <1>1, <2>1, <2>2 DEF Actors, Like, Link
    <2>4. w'.fence = w.fence /\ w'.steers = w.steers
      BY <2>3 DEF Like
    <2>5. /\ w'.probe # "none" => w'.fence.active /\ w'.fence.seen /\ w'.steers = {}
          /\ w'.probe = "settled" => ~o.more
          /\ w'.watch.probe = "settled" => ~o.more \/ o.events # <<>>
      BY <1>3, <2>1, <2>3, <2>4, ProbesSay
    <2> QED
      BY <1>2, <2>3, <2>5, ProbeOnward
  <1>4. ASSUME NEW answer \in Answers, w' = [w EXCEPT !.probe = answer],
               answer = "settled" => ~o.more,
               w.fence.active /\ w.fence.seen /\ w.steers = {}
        PROVE  Onward
    <2>1. Like(w', w) /\ w'.probe = answer /\ w'.watch = w.watch
      BY <1>1, <1>4 DEF Actors, Like, Link
    <2>2. w'.fence = w.fence /\ w'.steers = w.steers
      BY <2>1 DEF Like
    <2>3. /\ w'.probe # "none" => w'.fence.active /\ w'.fence.seen /\ w'.steers = {}
          /\ w'.probe = "settled" => ~o.more
          /\ w'.watch.probe = "settled" => ~o.more \/ o.events # <<>>
      BY <1>4, <2>1, <2>2, ProbesSay
    <2> QED
      BY <1>2, <2>1, <2>3, ProbeOnward
  <1>5. CASE StartIdleProbe
    <2>1. "asking" \in Answers \ {"none"} /\ "asking" # "settled"
      BY DEF Answers
    <2>2. w' = [w EXCEPT !.watch.probe = "asking"]
      BY <1>5 DEF StartIdleProbe
    <2> QED
      BY <1>3, <2>1, <2>2
  <1>6. CASE SteeredTick
    <2>1. "asking" \in Answers
      BY DEF Answers
    <2>2. /\ w' = [w EXCEPT !.probe = "asking"]
          /\ w.fence.active /\ w.fence.seen /\ w.steers = {}
      BY <1>6 DEF SteeredTick, StartSteerProbe
    <2> QED
      BY <1>4, <2>1, <2>2
  <1>7. CASE AnswerIdleProbe
    <2>1. PICK answer \in {"failed"} \cup (IF o.alive THEN States ELSE {}) :
            w' = [w EXCEPT !.watch.probe = answer]
      BY <1>7 DEF AnswerIdleProbe
    <2>2. answer \in Answers \ {"none"} /\ (answer = "settled" => ~o.more)
      <3>1. "none" \notin States
        BY DEF States
      <3> QED
        BY <3>1, StatesAreAnswers, StatesAreTrue
    <2> QED
      BY <1>3, <2>1, <2>2
  <1>8. CASE AnswerSteerProbe
    <2>1. PICK answer \in {"failed"} \cup (IF o.alive THEN States ELSE {}) :
            w' = [w EXCEPT !.probe = answer]
      BY <1>8 DEF AnswerSteerProbe
    <2>2. answer \in Answers /\ (answer = "settled" => ~o.more)
      BY StatesAreAnswers, StatesAreTrue
    <2>3. w.fence.active /\ w.fence.seen /\ w.steers = {}
      BY <1>8, ProbesSay DEF AnswerSteerProbe
    <2> QED
      BY <1>4, <2>1, <2>2, <2>3
  <1> QED
    BY <1>5, <1>6, <1>7, <1>8

\* An operation returns.
LEMMA ReturnOnward == ASSUME OInv, OperationReturns PROVE Onward
  <1> DEFINE st == stopped'
  <1>1. PICK result \in Outcomes, quiet \in {FALSE, Quiet} :
            /\ Settle(OperationReturned([w EXCEPT !.flight.phase = result], quiet), o)
            /\ stopped' = IF result = "oversized" THEN stopped \cup {w.flight.input} ELSE stopped
    BY DEF OperationReturns
  <1>2. finished' = finished /\ stopped \subseteq stopped'
    BY <1>1 DEF OperationReturns
  <1>3. Good(w, o, finished, stopped) /\ Process(o) /\ w \in Actors
    BY DEF OInv, IInv, Good, Actor
  <1>4. /\ w.flight.phase \in {"out", "taken"} /\ result \in Results
        /\ w.flight.phase = "taken" => result \in {"ok", "unknown"}
        /\ w.flight.phase = "out" => result # "ok"
        /\ result = "oversized" => w.flight.kind = "prompt"
    <2>1. CASE w.flight.phase = "taken"
      BY <2>1 DEF Outcomes, Results
    <2>2. CASE w.flight.phase = "out"
      BY <2>2 DEF Outcomes, Results
    <2>3. w.flight.phase \in {"out", "taken"}
      BY DEF Outcomes
    <2> QED
      BY <2>1, <2>2, <2>3
  <1>5. w.flight \in Requests
    BY <1>3, <1>4 DEF Actors, NoOperation
  <1>6. result = "oversized" => w.flight.input \in st
    BY <1>1
  <1> DEFINE op == [w.flight EXCEPT !.phase = result]
             x == OperationReturned([w EXCEPT !.flight.phase = result], quiet)
  <1>7. /\ op.kind = w.flight.kind /\ op.input = w.flight.input /\ op.active = w.flight.active
        /\ op.turn = w.flight.turn /\ op.client = w.flight.client
    BY <1>5 DEF Requests
  <1>8. st = stopped'
    OBVIOUS
  <1> HIDE DEF st
  <1>9. Returned(w, op, result, st)
    <2> HIDE DEF op
    <2> QED
      BY <1>4, <1>5, <1>6, <1>7 DEF Returned
  <1>10. Good(w, o, finished, st)
    BY <1>2, <1>3, <1>8, GoodGrows
  <1>11. Handles(w, x, o, IdleNow(o), finished, st)
    BY <1>3, <1>9, <1>10, OperationReturnedHandles
  <1>12. Settle(x, o)
    BY <1>1
  <1> HIDE DEF x
  <1> QED
    BY <1>2, <1>8, <1>11, <1>12, HandlerSteps

\* An event is handled, also where it goes before the result of a probe.
LEMMA EventOnward ==
    ASSUME OInv, o.events # <<>>, finished' = finished, stopped' = stopped,
           NEW u, u \in {w, [w EXCEPT !.probe = "none"]},
           Settle(HandleEvent(u, Head(o.events)), [o EXCEPT !.events = Tail(@)])
    PROVE  Onward
  <1> DEFINE x == HandleEvent(u, Head(o.events))
             idle == IdleNow(o)
  <1>1. Good(w, o, finished, stopped) /\ Process(o) /\ w \in Actors /\ Held(w)
    BY DEF OInv, IInv, Good, Actor
  <1>2. Like(u, w) /\ u \in Actors /\ u.watch = w.watch /\ u.probe \in {w.probe, "none"}
        /\ Same(u, w)
    <2>1. "none" \in Answers
      BY DEF Answers
    <2> QED
      BY <1>1, <2>1, SMTT(30) DEF Actors, Like, Link, Same
  <1>3. Settle(x, Consumed(o))
    BY DEF Consumed
  <1> HIDE DEF x
  <1>4. Good(u, o, finished, stopped)
    <2>1. u.fence = w.fence /\ u.steers = w.steers
      BY <1>2 DEF Like
    <2>2. /\ u.probe # "none" => u.fence.active /\ u.fence.seen /\ u.steers = {}
          /\ u.probe = "settled" => ~o.more
          /\ u.watch.probe = "settled" => ~o.more \/ o.events # <<>>
      BY <1>2, <2>1, ProbesSay
    <2> QED
      BY <1>1, <1>2, <2>2, LikeGood
  <1>5. Held(u)
    BY <1>1, <1>2, SameKeeps
  <1>6. Handles(u, x, Consumed(o), idle, finished, stopped)
    BY <1>1, <1>4, <1>5, HandleEventHandles DEF x
  <1>7. /\ u.saved = w.saved /\ u.client = w.client /\ u.active = w.active /\ u.fence = w.fence
        /\ u.last >= w.last
    BY <1>1, <1>2 DEF Like, Link, Actors
  <1>8. Leads(w, u, idle, finished, stopped)
    BY <1>7, LeadsSame
  <1>9. Handles(w, x, Consumed(o), idle, finished, stopped)
    BY <1>1, <1>2, <1>6, <1>7, <1>8, HandlesOn
  <1> QED
    BY <1>3, <1>9, HandlerSteps

\* What the actor handles without being asked.
LEMMA ActorOnward ==
    ASSUME OInv,
           \/ ConsumeEvent \/ ClientGone \/ OperationReturns
           \/ StartIdleProbe \/ SteeredTick \/ AnswerIdleProbe \/ AnswerSteerProbe
           \/ IdleProbeFinished \/ SteeredQuiescenceFinished
    PROVE  Onward
  <1>1. Good(w, o, finished, stopped) /\ Process(o) /\ w \in Actors
    BY DEF OInv, IInv, Good, Actor
  <1>2. ASSUME NEW x, Handled(x), Handles(w, x, o, IdleNow(o), finished, stopped) PROVE Onward
    BY <1>2, HandlerSteps DEF Handled
  <1>3. CASE ConsumeEvent
    <2>1. /\ o.events # <<>> /\ finished' = finished /\ stopped' = stopped
          /\ Settle(HandleEvent(w, Head(o.events)), [o EXCEPT !.events = Tail(@)])
      BY <1>3 DEF ConsumeEvent
    <2>2. w \in {w, [w EXCEPT !.probe = "none"]}
      OBVIOUS
    <2> QED
      BY <2>1, <2>2, EventOnward
  <1>4. CASE ClientGone
    <2>1. Handled(Failed(w))
      BY <1>4 DEF ClientGone
    <2>2. Handles(w, Failed(w), o, IdleNow(o), finished, stopped)
      BY <1>1, FailedHandles
    <2> QED
      BY <1>2, <2>1, <2>2
  <1>5. CASE IdleProbeFinished
    <2>1. CASE o.events # <<>>
      <3>1. /\ finished' = finished /\ stopped' = stopped
            /\ Settle(HandleEvent(w, Head(o.events)), [o EXCEPT !.events = Tail(@)])
        BY <1>5, <2>1 DEF IdleProbeFinished
      <3>2. w \in {w, [w EXCEPT !.probe = "none"]}
        OBVIOUS
      <3> QED
        BY <2>1, <3>1, <3>2, EventOnward
    <2>2. CASE o.events = <<>>
      <3>1. PICK patience \in BOOLEAN : Handled(IdleProbed(w, patience))
        BY <1>5, <2>2 DEF IdleProbeFinished
      <3>2. Handles(w, IdleProbed(w, patience), o, IdleNow(o), finished, stopped)
        BY <1>1, <2>2, IdleProbedHandles
      <3> QED
        BY <1>2, <3>1, <3>2
    <2> QED
      BY <2>1, <2>2
  <1>6. CASE SteeredQuiescenceFinished
    <2>1. CASE o.events # <<>>
      <3> DEFINE u == [w EXCEPT !.probe = "none"]
      <3>1. /\ finished' = finished /\ stopped' = stopped
            /\ Settle(HandleEvent(u, Head(o.events)), [o EXCEPT !.events = Tail(@)])
        BY <1>6, <2>1 DEF SteeredQuiescenceFinished
      <3>2. u \in {w, [w EXCEPT !.probe = "none"]}
        OBVIOUS
      <3> HIDE DEF u
      <3> QED
        BY <2>1, <3>1, <3>2, EventOnward
    <2>2. CASE o.events = <<>>
      <3>1. Handled(SteerProbed(w))
        BY <1>6, <2>2 DEF SteeredQuiescenceFinished
      <3>2. Handles(w, SteerProbed(w), o, IdleNow(o), finished, stopped)
        BY <1>1, <2>2, SteerProbedHandles
      <3> QED
        BY <1>2, <3>1, <3>2
    <2> QED
      BY <2>1, <2>2
  <1> QED
    BY <1>3, <1>4, <1>5, <1>6, ReturnOnward, WatchOnward

-----------------------------------------------------------------------------
\* What OMP does.

\* The events once one more is written.
LEMMA AppendIs ==
    ASSUME NEW s \in Seq(Events), NEW e \in Events
    PROVE  LET q == Append(s, e)
               n == Len(s) + 1
           IN  /\ q \in Seq(Events) /\ q # <<>> /\ Len(q) = n /\ n \in DOMAIN q /\ q[n] = e
               /\ \A k \in DOMAIN s : k \in DOMAIN q /\ q[k] = s[k] /\ k < n /\ k # n
               /\ \A k \in DOMAIN q : k = n \/ k \in DOMAIN s
               /\ \A k \in DOMAIN q : k \in Nat /\ k <= n
  <1> DEFINE q == Append(s, e)
             n == Len(s) + 1
  <1>1. Len(s) \in Nat /\ DOMAIN s = 1 .. Len(s)
    OBVIOUS
  <1>2. q \in Seq(Events) /\ Len(q) = n /\ DOMAIN q = 1 .. n /\ q[n] = e
    BY <1>1
  <1>3. \A k \in DOMAIN s : q[k] = s[k]
    BY <1>1
  <1>4. q # <<>>
    BY <1>1, <1>2
  <1> HIDE DEF q
  <1>5. \A k \in DOMAIN s : k \in DOMAIN q /\ k < n /\ k # n
    BY <1>1, <1>2
  <1>6. \A k \in DOMAIN q : (k = n \/ k \in DOMAIN s) /\ k \in Nat /\ k <= n
    BY <1>1, <1>2
  <1>7. n \in DOMAIN q
    BY <1>1, <1>2
  <1> QED
    BY <1>2, <1>3, <1>4, <1>5, <1>6, <1>7 DEF q

\* A run stays open unless an end is written, and a start opens one.
LEMMA OpenAppended ==
    ASSUME NEW s \in Seq(Events), NEW e \in Events, NEW seen \in BOOLEAN
    PROVE  /\ e.type = "start" => Open(Append(s, e), seen)
           /\ e.type # "end" /\ Open(s, seen) => Open(Append(s, e), seen)
  <1> DEFINE q == Append(s, e)
             n == Len(s) + 1
  <1>1. /\ n \in DOMAIN q /\ q[n] = e
        /\ \A k \in DOMAIN s : k \in DOMAIN q /\ q[k] = s[k] /\ k < n /\ k # n
        /\ \A k \in DOMAIN q : k = n \/ k \in DOMAIN s
        /\ \A k \in DOMAIN q : k \in Nat /\ k <= n
        /\ n \in Nat
    BY AppendIs
  <1> HIDE DEF q, n
  <1>2. e.type = "start" => Open(q, seen)
    BY <1>1 DEF Open
  <1>3. ASSUME e.type # "end", Open(s, seen) PROVE Open(q, seen)
    <2>1. CASE \E k \in DOMAIN s : s[k].type = "start" /\ \A j \in DOMAIN s : j > k => s[j].type # "end"
      BY <1>1, <1>3, <2>1 DEF Open
    <2>2. CASE ~seen /\ \A j \in DOMAIN s : s[j].type # "end"
      BY <1>1, <1>3, <2>2 DEF Open
    <2> QED
      BY <1>3, <2>1, <2>2 DEF Open
  <1> QED
    BY <1>2, <1>3 DEF q

\* While OMP works or has work, its prompt was read and nothing says it has settled.
LEMMA Working ==
    ASSUME NEW v, NEW p, NEW fin, NEW st, Good(v, p, fin, st), ~Rest(p)
    PROVE  /\ v.active # None /\ ~Awaited(v) /\ v.client # 0 /\ ~v.fence.settled
           /\ \A k \in DOMAIN p.events :
                ~(/\ p.events[k].type = "result" /\ p.events[k].value = "settled"
                  /\ Latest(v, p.events[k].input))
           /\ p.doing # {} \/ p.todo # {} \/ p.more => v.fence.active
           /\ ~v.fence.active /\ (p.run # "idle" \/ p.late) =>
                \A k \in DOMAIN p.events : p.events[k].type # "end"
           /\ p.run # "idle" \/ p.late => v.active \in fin \/ p.root = v.active
  <1>1. Actor(v) /\ Matched(v, p, fin, st)
    BY DEF Good
  <1>2. v.active # None /\ ~Awaited(v)
    BY <1>1 DEF Matched, Calmness, Calm
  <1>3. v.client # 0
    BY <1>1, <1>2 DEF Actor, Unconnected
  <1>4. ~v.fence.settled
    BY <1>1 DEF Matched, Settled
  <1>5. \A k \in DOMAIN p.events :
            ~(/\ p.events[k].type = "result" /\ p.events[k].value = "settled"
              /\ Latest(v, p.events[k].input))
    BY <1>1 DEF Matched, Settled
  <1>6. p.doing # {} \/ p.todo # {} \/ p.more => v.fence.active
    <2>1. p.more => v.fence.active
      BY <1>1 DEF Matched, Runs
    <2>2. ASSUME NEW i, i \in p.doing \/ i \in p.todo PROVE v.fence.active
      <3>1. i \in SteerInputs(v)
        BY <1>1, <2>2 DEF Matched, Stages
      <3>2. v.steers # {}
        BY <3>1 DEF SteerInputs
      <3> QED
        BY <1>1, <3>2 DEF Actor, FenceOk
    <2> QED
      BY <2>1, <2>2
  <1>7. ~v.fence.active /\ (p.run # "idle" \/ p.late) =>
            \A k \in DOMAIN p.events : p.events[k].type # "end"
    BY <1>1 DEF Matched, Ends
  <1>8. p.run # "idle" \/ p.late => v.active \in fin \/ p.root = v.active
    BY <1>1, <1>2 DEF Matched, Runs, Aborted
  <1> QED
    BY <1>2, <1>3, <1>4, <1>5, <1>6, <1>7, <1>8

\* A run begins or goes on: what OMP has moves within it, and no end is written.
LEMMA RunGoes ==
    ASSUME NEW v, NEW p, NEW q, NEW fin, NEW st, Process(p), Good(v, p, fin, st), ~Rest(p),
           NEW e \in Events,
           \/ q.events = p.events /\ p.run # "idle"
           \/ q.events = Append(p.events, e) /\ e.type = "start"
           \/ q.events = Append(p.events, e) /\ e.type = "yield" /\ p.run # "idle",
           q.root = p.root, q.run # "idle", ~q.late, q.more => p.more,
           p.run # "idle" \/ v.fence.active,
           \A i : i \in q.todo \/ i \in q.doing <=> i \in p.todo \/ i \in p.doing,
           \A i : i \in q.todo => i \notin q.doing
    PROVE  Good(v, q, fin, st)
  <1>1. Actor(v) /\ Matched(v, p, fin, st)
    BY DEF Good
  <1>2. /\ v.active # None /\ ~Awaited(v) /\ v.client # 0 /\ ~v.fence.settled
        /\ \A k \in DOMAIN p.events :
             ~(/\ p.events[k].type = "result" /\ p.events[k].value = "settled"
               /\ Latest(v, p.events[k].input))
        /\ ~v.fence.active /\ (p.run # "idle" \/ p.late) =>
             \A k \in DOMAIN p.events : p.events[k].type # "end"
    BY Working
  <1>3. p.events \in Seq(Events) /\ v.fence.seen \in BOOLEAN
    BY <1>1 DEF Process, Processes, Actor, Actors, Fences
  <1>4. /\ \A k \in DOMAIN q.events : \/ k \in DOMAIN p.events /\ q.events[k] = p.events[k]
                                      \/ q.events[k].type \notin {"end", "result"}
        /\ p.events # <<>> => q.events # <<>>
        /\ Open(q.events, v.fence.seen)
    <2>1. CASE q.events = p.events /\ p.run # "idle"
      BY <1>1, <2>1 DEF Matched, Ends
    <2>2. CASE q.events = Append(p.events, e) /\ (e.type = "start" \/ (e.type = "yield" /\ p.run # "idle"))
      <3> DEFINE n == Len(p.events) + 1
      <3>1. /\ q.events # <<>> /\ q.events[n] = e
            /\ \A k \in DOMAIN p.events : q.events[k] = p.events[k]
            /\ \A k \in DOMAIN q.events : k = n \/ k \in DOMAIN p.events
        BY <1>3, <2>2, AppendIs
      <3>2. Open(q.events, v.fence.seen)
        <4>1. p.run # "idle" => Open(p.events, v.fence.seen)
          BY <1>1 DEF Matched, Ends
        <4> QED
          BY <1>3, <2>2, <4>1, OpenAppended
      <3> HIDE DEF n
      <3> QED
        BY <2>2, <3>1, <3>2
    <2> QED
      BY <2>1, <2>2
  <1>5. \A i : Reported(q, i) => Reported(p, i)
    BY <1>4 DEF Reported
  <1>6. Stages(v, q)
    <2>1. \A j, k \in DOMAIN q.events :
            /\ q.events[j].type = "result" /\ q.events[k].type = "result"
            /\ q.events[j].input = q.events[k].input
            => j = k
      BY <1>1, <1>4 DEF Matched, Stages
    <2>2. Stages(v, p)
      BY <1>1 DEF Matched
    <2> QED
      BY <1>5, <2>1, <2>2 DEF Stages
  <1>7. Calmness(v, q)
    BY <1>2 DEF Calmness
  <1>8. Runs(v, q, fin)
    BY <1>1 DEF Matched, Runs, Aborted
  <1>9. Ends(v, q, fin, st)
    BY <1>1, <1>2, <1>4 DEF Matched, Ends
  <1>10. Settled(v, q)
    BY <1>1, <1>2, <1>4 DEF Matched, Settled
  <1>11. Worked(q, fin)
    BY <1>1, <1>5 DEF Matched, Worked
  <1> QED
    BY <1>1, <1>6, <1>7, <1>8, <1>9, <1>10, <1>11 DEF Good, Matched

\* A steer is reported by itself while OMP works.
LEMMA SteerReportGood ==
    ASSUME NEW v, NEW p, NEW q, NEW fin, NEW st, Process(p), Good(v, p, fin, st), p.run # "idle",
           NEW i \in p.doing, NEW value \in {"unsettled", "error", "odd"},
           q.events = Append(p.events, Event("result", i, value)),
           q.doing = p.doing \ {i}, q.todo = p.todo, q.run = p.run, q.root = p.root,
           q.more = p.more, q.late = p.late
    PROVE  Good(v, q, fin \cup {i}, st)
  <1> DEFINE e == Event("result", i, value)
             n == Len(p.events) + 1
  <1>1. Actor(v) /\ Matched(v, p, fin, st)
    BY DEF Good
  <1>2. /\ v.active # None /\ ~Awaited(v) /\ v.client # 0 /\ ~v.fence.settled
        /\ \A k \in DOMAIN p.events :
             ~(/\ p.events[k].type = "result" /\ p.events[k].value = "settled"
               /\ Latest(v, p.events[k].input))
        /\ p.doing # {} => v.fence.active
    BY Working DEF Rest, IdleNow
  <1>3. p.events \in Seq(Events) /\ v.fence.seen \in BOOLEAN /\ i \in Prompts \cup {None}
    BY <1>1 DEF Process, Processes, Actor, Actors, Fences
  <1>4. e \in Events /\ e.type = "result" /\ e.input = i /\ e.value # "settled"
    <2>1. value \in Values /\ value # "settled"
      BY Zenon DEF Values
    <2>2. Event("result", i, value) \in Events
      BY <1>3, <2>1, PlainEvents, Zenon
    <2>3. e.type = "result" /\ e.input = i /\ e.value = value
      BY DEF Event
    <2> QED
      BY <2>1, <2>2, <2>3
  <1>5. q.events = Append(p.events, e)
    OBVIOUS
  <1> HIDE DEF e
  <1>6. /\ q.events # <<>> /\ q.events[n] = e
        /\ \A k \in DOMAIN p.events : q.events[k] = p.events[k]
        /\ \A k \in DOMAIN q.events : k = n \/ k \in DOMAIN p.events
    BY <1>3, <1>4, <1>5, AppendIs
  <1>7. Open(q.events, v.fence.seen)
    <2>1. Open(p.events, v.fence.seen)
      BY <1>1 DEF Matched, Ends
    <2> QED
      BY <1>3, <1>4, <1>5, <2>1, OpenAppended
  <1> HIDE DEF n
  <1>8. \A j : Reported(q, j) => Reported(p, j) \/ j = i
    BY <1>4, <1>6 DEF Reported
  <1>9. Stages(v, p)
    BY <1>1 DEF Matched
  <1>10. ~Reported(p, i) /\ i \notin p.todo /\ i \in SteerInputs(v) /\ ~Unsent(v, i)
    BY <1>9 DEF Stages
  <1>11. \A k \in DOMAIN p.events : p.events[k].type = "result" => p.events[k].input # i
    BY <1>10 DEF Reported
  <1>12. Stages(v, q)
    <2>1. \A j, k \in DOMAIN q.events :
            /\ q.events[j].type = "result" /\ q.events[k].type = "result"
            /\ q.events[j].input = q.events[k].input
            => j = k
      BY <1>4, <1>6, <1>9, <1>11 DEF Stages
    <2> QED
      BY <1>8, <1>9, <1>10, <2>1 DEF Stages
  <1>13. Calmness(v, q)
    BY <1>2 DEF Calmness
  <1>14. Runs(v, q, fin \cup {i})
    BY <1>1 DEF Matched, Runs, Aborted
  <1>15. Ends(v, q, fin \cup {i}, st)
    BY <1>1, <1>2, <1>4, <1>6, <1>7 DEF Matched, Ends, Told
  <1>16. Settled(v, q)
    BY <1>1, <1>2, <1>4, <1>6 DEF Matched, Settled
  <1>17. Worked(q, fin \cup {i})
    BY <1>1, <1>8 DEF Matched, Worked
  <1> QED
    BY <1>1, <1>12, <1>13, <1>14, <1>15, <1>16, <1>17 DEF Good, Matched

\* The reports of the steers a run took: one of each.
LEMMA ReportsAreResults ==
    ASSUME NEW S \in SUBSET (Prompts \cup {None}), IsFiniteSet(S), NEW value \in Values
    PROVE  LET R == SetToSeq({Event("result", i, value) : i \in S})
           IN  /\ R \in Seq(Events)
               /\ \A k \in DOMAIN R : R[k].type = "result" /\ R[k].value = value /\ R[k].input \in S
               /\ \A j, k \in DOMAIN R : R[j].input = R[k].input => j = k
  <1> DEFINE T == {Event("result", i, value) : i \in S}
             f == [i \in S |-> Event("result", i, value)]
             R == SetToSeq(T)
             n == Cardinality(T)
  <1>1. R \in Seq(Events)
    BY ReportsAreEvents
  <1>2. IsFiniteSet(T)
    <2>1. f \in Surjection(S, T)
      BY DEF Surjection
    <2> QED
      BY <2>1, FS_Surjection
  <1>3. \A t \in T : t.type = "result" /\ t.value = value /\ t.input \in S
    BY DEF Event
  <1>4. \A s, t \in T : s.input = t.input => s = t
    BY DEF Event
  <1> HIDE DEF T
  <1>5. n \in Nat /\ ExistsBijection(1..n, T)
    BY <1>2, FS_CardinalityType
  <1>6. PICK g \in Bijection(1..n, T) : TRUE
    BY <1>5 DEF ExistsBijection
  <1>7. g \in [1..n -> T] /\ IsInjective(g)
    BY <1>6 DEF Bijection, Injection, IsInjective
  <1>8. R \in [1..n -> T] /\ IsInjective(R)
    BY <1>7 DEF SetToSeq
  <1>9. \A k \in DOMAIN R : R[k] \in T
    BY <1>8
  <1>10. \A j, k \in DOMAIN R : R[j] = R[k] => j = k
    BY <1>8 DEF IsInjective
  <1> HIDE DEF R
  <1>11. \A k \in DOMAIN R : R[k].type = "result" /\ R[k].value = value /\ R[k].input \in S
    BY <1>3, <1>9
  <1>12. \A j, k \in DOMAIN R : R[j].input = R[k].input => j = k
    BY <1>4, <1>9, <1>10
  <1> QED
    BY <1>1, <1>11, <1>12 DEF R, T

\* The events once the end of a run and the reports are written.
LEMMA EndIsWritten ==
    ASSUME NEW s \in Seq(Events), NEW e \in Events, NEW R \in Seq(Events)
    PROVE  LET q == Append(s, e) \o R
               n == Len(s) + 1
           IN  /\ q # <<>> /\ n \in DOMAIN q /\ q[n] = e
               /\ \A k \in DOMAIN s : q[k] = s[k]
               /\ \A k \in DOMAIN q : \/ k \in DOMAIN s
                                      \/ k = n
                                      \/ k > n /\ k - n \in DOMAIN R /\ q[k] = R[k - n]
               /\ \A k \in DOMAIN q : k \in Nat
               /\ \A k \in DOMAIN s : k \in Nat /\ k < n
               /\ n \in Nat /\ Len(q) = n + Len(R) /\ Len(R) \in Nat
  <1> DEFINE a == Append(s, e)
             n == Len(s) + 1
             q == a \o R
  <1>1. /\ a \in Seq(Events) /\ Len(a) = n /\ n \in DOMAIN a /\ a[n] = e
        /\ \A k \in DOMAIN s : k \in DOMAIN a /\ a[k] = s[k] /\ k < n
        /\ \A k \in DOMAIN a : k = n \/ k \in DOMAIN s
        /\ \A k \in DOMAIN a : k \in Nat /\ k <= n
    BY AppendIs
  <1>2. n \in Nat /\ Len(R) \in Nat /\ DOMAIN R = 1 .. Len(R)
    OBVIOUS
  <1> HIDE DEF a, n
  <1>3. q \in Seq(Events) /\ Len(q) = n + Len(R) /\ DOMAIN q = 1 .. n + Len(R)
    BY <1>1, <1>2
  <1>4. DOMAIN a = 1 .. n
    BY <1>1
  <1>5. \A k \in DOMAIN a : q[k] = a[k]
    BY <1>1, <1>2, <1>4
  <1>6. \A k \in DOMAIN q : k > n => q[k] = R[k - n]
    BY <1>1, <1>2, <1>3, <1>4
  <1> HIDE DEF q
  <1>7. \A k \in DOMAIN q : k \in Nat /\ (k \in DOMAIN a \/ (k > n /\ k - n \in DOMAIN R))
    BY <1>2, <1>3, <1>4
  <1>8. n \in DOMAIN q /\ q[n] = e
    BY <1>1, <1>2, <1>3, <1>5
  <1>9. q # <<>>
    BY <1>8
  <1>10. \A k \in DOMAIN s : k \in Nat
    BY <1>1
  <1> QED
    BY <1>1, <1>2, <1>3, <1>5, <1>6, <1>7, <1>8, <1>9, <1>10 DEF q, a, n

\* What is written when a run ends.
Ended(p, verdict, value) ==
    Append(p.events, Event("end", None, verdict)) \o SetToSeq({Event("result", i, value) : i \in p.doing})

\* The end is followed by one report for each steer the run took, and by nothing else.
LEMMA EndedIs ==
    ASSUME NEW p, Process(p), NEW verdict \in {"ok", "empty"}, NEW value \in {"settled", "unsettled"}
    PROVE  LET q == Ended(p, verdict, value)
               n == Len(p.events) + 1
           IN  /\ q # <<>> /\ n \in Nat
               /\ \A k \in DOMAIN p.events : q[k] = p.events[k] /\ k < n
               /\ \A k \in DOMAIN q :
                    /\ k \in Nat
                    /\ \/ k \in DOMAIN p.events
                       \/ k = n /\ q[k].type = "end" /\ q[k].value = verdict
                       \/ k > n /\ q[k].type = "result" /\ q[k].value = value /\ q[k].input \in p.doing
               /\ \A j, k \in DOMAIN q : j > n /\ k > n /\ q[j].input = q[k].input => j = k
               /\ p.doing = {} => Len(q) = n
  <1> DEFINE s == p.events
             S == p.doing
             e == Event("end", None, verdict)
             R == SetToSeq({Event("result", i, value) : i \in S})
             n == Len(s) + 1
             q == Append(s, e) \o R
  <1>1. s \in Seq(Events) /\ S \in SUBSET (Prompts \cup {None}) /\ IsFiniteSet(S)
    BY DEF Process, Processes
  <1>2. value \in Values /\ verdict \in Verdicts
    BY Zenon DEF Values, Verdicts
  <1>3. e \in Events
    BY <1>2, PlainEvents, Zenon
  <1>4. e.type = "end" /\ e.value = verdict
    BY DEF Event
  <1>5. q = Ended(p, verdict, value)
    BY DEF Ended
  <1> HIDE DEF s, S, e
  <1>6. /\ R \in Seq(Events)
        /\ \A k \in DOMAIN R : R[k].type = "result" /\ R[k].value = value /\ R[k].input \in S
        /\ \A j, k \in DOMAIN R : R[j].input = R[k].input => j = k
    BY <1>1, <1>2, ReportsAreResults
  <1> HIDE DEF R
  <1>7. /\ q # <<>> /\ n \in DOMAIN q /\ q[n] = e
        /\ \A k \in DOMAIN s : q[k] = s[k]
        /\ \A k \in DOMAIN q : \/ k \in DOMAIN s
                               \/ k = n
                               \/ k > n /\ k - n \in DOMAIN R /\ q[k] = R[k - n]
        /\ \A k \in DOMAIN q : k \in Nat
        /\ \A k \in DOMAIN s : k \in Nat /\ k < n
        /\ n \in Nat /\ Len(q) = n + Len(R) /\ Len(R) \in Nat
    BY <1>1, <1>3, <1>6, EndIsWritten
  <1> HIDE DEF n, q
  <1>8. \A k \in DOMAIN q :
            \/ k \in DOMAIN s
            \/ k = n /\ q[k].type = "end" /\ q[k].value = verdict
            \/ k > n /\ q[k].type = "result" /\ q[k].value = value /\ q[k].input \in S
    <2>1. ASSUME NEW k \in DOMAIN q, k > n, k - n \in DOMAIN R, q[k] = R[k - n]
          PROVE  q[k].type = "result" /\ q[k].value = value /\ q[k].input \in S
      <3> DEFINE l == k - n
      <3>1. l \in DOMAIN R /\ q[k] = R[l]
        BY <2>1
      <3> HIDE DEF l
      <3> QED
        BY <1>6, <3>1
    <2>2. q[n].type = "end" /\ q[n].value = verdict
      BY <1>4, <1>7
    <2> QED
      BY <1>7, <2>1, <2>2
  <1>9. ASSUME NEW j \in DOMAIN q, NEW k \in DOMAIN q, j > n, k > n, q[j].input = q[k].input
        PROVE  j = k
    <2> DEFINE a == j - n
               b == k - n
    <2>1. j \in Nat /\ k \in Nat /\ n \in Nat
      BY <1>7
    <2>2. j \notin DOMAIN s /\ k \notin DOMAIN s /\ j # n /\ k # n
      BY <1>7, <1>9, <2>1
    <2>3. a \in DOMAIN R /\ q[j] = R[a] /\ b \in DOMAIN R /\ q[k] = R[b]
      BY <1>7, <2>2
    <2>4. a = b => j = k
      BY <2>1
    <2> HIDE DEF a, b
    <2>5. a = b
      BY <1>6, <1>9, <2>3
    <2> QED
      BY <2>4, <2>5
  <1>10. S = {} => Len(q) = n
    <2>1. S = {} => DOMAIN R = {}
      BY <1>6
    <2>2. DOMAIN R = {} => Len(R) = 0
      BY <1>6
    <2> QED
      BY <1>7, <2>1, <2>2
  <1>11. \A k \in DOMAIN s : q[k] = s[k] /\ k < n
    BY <1>7
  <1> QED
    BY <1>5, <1>7, <1>8, <1>9, <1>10, <1>11 DEF s, S, n

\* A run ends: its root and the steers it took are worked off.
LEMMA EndGood ==
    ASSUME NEW v, NEW p, NEW q, NEW fin, NEW st, Process(p), Good(v, p, fin, st), p.run # "idle",
           NEW verdict \in {"ok", "empty"}, NEW more \in {FALSE, p.doing # {}},
           NEW value \in {"settled", "unsettled"},
           value = "settled" => p.todo = {} /\ ~more,
           q.events = Ended(p, verdict, value),
           q.run = "idle", q.root = None, q.doing = {}, q.todo = p.todo, q.more = more,
           q.late = p.late
    PROVE  Good(v, q, fin \cup (({p.root} \ {None}) \cup p.doing), st)
  <1> DEFINE n == Len(p.events) + 1
             more2 == fin \cup (({p.root} \ {None}) \cup p.doing)
  <1>1. Actor(v) /\ Matched(v, p, fin, st)
    BY DEF Good
  <1>2. /\ v.active # None /\ ~Awaited(v) /\ v.client # 0 /\ ~v.fence.settled
        /\ \A k \in DOMAIN p.events :
             ~(/\ p.events[k].type = "result" /\ p.events[k].value = "settled"
               /\ Latest(v, p.events[k].input))
        /\ p.doing # {} => v.fence.active
        /\ ~v.fence.active => \A k \in DOMAIN p.events : p.events[k].type # "end"
        /\ v.active \in fin \/ p.root = v.active
    BY Working DEF Rest, IdleNow
  <1>9. /\ q.events # <<>> /\ n \in Nat
        /\ \A k \in DOMAIN p.events : q.events[k] = p.events[k] /\ k < n
        /\ \A k \in DOMAIN q.events :
             /\ k \in Nat
             /\ \/ k \in DOMAIN p.events
                \/ k = n /\ q.events[k].type = "end" /\ q.events[k].value = verdict
                \/ /\ k > n /\ q.events[k].type = "result" /\ q.events[k].value = value
                   /\ q.events[k].input \in p.doing
        /\ \A j, k \in DOMAIN q.events :
             j > n /\ k > n /\ q.events[j].input = q.events[k].input => j = k
        /\ p.doing = {} => Len(q.events) = n
    BY EndedIs
  <1> HIDE DEF n
  <1>10. \A k \in DOMAIN q.events :
            \/ k \in DOMAIN p.events /\ q.events[k] = p.events[k]
            \/ k = n /\ q.events[k].type = "end" /\ q.events[k].value = verdict
            \/ /\ k > n /\ q.events[k].type = "result" /\ q.events[k].value = value
               /\ q.events[k].input \in p.doing
    BY <1>9
  <1>11. \A j : Reported(q, j) => Reported(p, j) \/ j \in p.doing
    BY <1>10 DEF Reported
  <1>12. Stages(v, p)
    BY <1>1 DEF Matched
  <1>13. \A k \in DOMAIN p.events : p.events[k].type = "result" => p.events[k].input \notin p.doing
    BY <1>12 DEF Stages, Reported
  <1>14. v.active \in more2
    BY <1>2
  <1>15. Stages(v, q)
    <2>1. ASSUME NEW j \in DOMAIN q.events, NEW k \in DOMAIN q.events,
                 q.events[j].type = "result", q.events[k].type = "result",
                 q.events[j].input = q.events[k].input
          PROVE  j = k
      <3>1. CASE j \in DOMAIN p.events /\ k \in DOMAIN p.events
        BY <1>9, <1>12, <2>1, <3>1 DEF Stages
      <3>2. CASE j \notin DOMAIN p.events /\ k \notin DOMAIN p.events
        <4>1. j > n /\ k > n
          BY <1>10, <2>1, <3>2
        <4> QED
          BY <1>9, <2>1, <4>1
      <3>3. CASE ~(j \in DOMAIN p.events <=> k \in DOMAIN p.events)
        <4>1. \A l \in DOMAIN q.events : l \notin DOMAIN p.events /\ q.events[l].type = "result"
                                            => q.events[l].input \in p.doing
          BY <1>10
        <4>2. \A l \in DOMAIN p.events : q.events[l].type = "result" => q.events[l].input \notin p.doing
          BY <1>9, <1>13
        <4> QED
          BY <2>1, <3>3, <4>1, <4>2
      <3> QED
        BY <3>1, <3>2, <3>3
    <2> QED
      BY <1>11, <1>12, <2>1 DEF Stages
  <1>16. Calmness(v, q)
    BY <1>2 DEF Calmness
  <1>17. ~p.late /\ (p.doing = {} => ~more)
    BY <1>1 DEF Matched, Runs
  <1> HIDE DEF more2
  <1>18. Runs(v, q, more2)
    BY <1>2, <1>14, <1>17 DEF Runs
  <1>19. fin \subseteq more2 /\ p.doing \subseteq more2
    BY DEF more2
  <1>20. Ends(v, q, more2, st)
    <2>1. ASSUME NEW k \in DOMAIN q.events, q.events[k].type = "end"
          PROVE  /\ Told(v, q.events[k].value, more2, st)
                 /\ ~v.fence.active => k = Len(q.events) /\ q.run = "idle" /\ ~q.late
      <3>1. CASE k \in DOMAIN p.events
        <4>1. q.events[k] = p.events[k]
          BY <1>9, <3>1
        <4>2. Told(v, p.events[k].value, fin, st) /\ v.fence.active
          BY <1>1, <1>2, <2>1, <3>1, <4>1 DEF Matched, Ends
        <4> QED
          BY <1>19, <4>1, <4>2 DEF Told
      <3>2. CASE k \notin DOMAIN p.events
        <4>1. k = n /\ q.events[k].value = verdict
          BY <1>10, <2>1, <3>2
        <4>2. Told(v, q.events[k].value, more2, st)
          BY <1>14, <4>1 DEF Told
        <4> QED
          BY <1>2, <1>9, <1>17, <4>1, <4>2
      <3> QED
        BY <3>1, <3>2
    <2>2. v.fence.seen => Told(v, v.fence.verdict, more2, st)
      BY <1>1, <1>19 DEF Matched, Ends, Told
    <2>3. v.active # None /\ v.control = "abort" => v.active \in st
      BY <1>1 DEF Matched, Ends
    <2> QED
      BY <1>17, <2>1, <2>2, <2>3 DEF Ends
  <1>21. Settled(v, q)
    <2>1. ASSUME NEW k \in DOMAIN q.events, q.events[k].type = "result",
                 q.events[k].value = "settled", Latest(v, q.events[k].input)
          PROVE  Rest(q) /\ \A j \in DOMAIN q.events : j > k => q.events[j].type = "result"
      <3>1. k \notin DOMAIN p.events
        BY <1>2, <1>9, <2>1
      <3>2. k > n /\ value = "settled"
        BY <1>10, <2>1, <3>1
      <3>3. Rest(q)
        BY <1>17, <3>2 DEF Rest, IdleNow
      <3>4. \A j \in DOMAIN q.events : j > k => q.events[j].type = "result"
        <4>1. ASSUME NEW j \in DOMAIN q.events, j > k PROVE j \notin DOMAIN p.events /\ j # n
          <5>1. j \in Nat /\ k \in Nat /\ n \in Nat /\ j > n
            BY <1>9, <3>2, <4>1
          <5> QED
            BY <1>9, <5>1
        <4> QED
          BY <1>10, <4>1
      <3> QED
        BY <3>3, <3>4
    <2>2. v.probe = "settled" => ~q.more
      <3>1. v.probe = "settled" => v.steers = {}
        BY <1>1 DEF Actor, FenceOk
      <3>2. v.steers = {} => p.doing = {}
        BY <1>12 DEF Stages, SteerInputs
      <3> QED
        BY <1>17, <3>1, <3>2
    <2> QED
      BY <1>2, <1>9, <2>1, <2>2 DEF Settled
  <1>22. Worked(q, more2)
    BY <1>1, <1>11, <1>19 DEF Matched, Worked
  <1>23. Good(v, q, more2, st)
    BY <1>1, <1>15, <1>16, <1>18, <1>20, <1>21, <1>22 DEF Good, Matched
  <1> QED
    BY <1>23 DEF more2

\* The run is over, and its end is not written, at least not yet.
LEMMA ForgottenGood ==
    ASSUME NEW v, NEW p, NEW q, NEW fin, NEW st, Process(p), Good(v, p, fin, st), p.run # "idle",
           q.events = p.events, q.run = "idle", q.root = None, q.doing = {}, q.todo = p.todo,
           q.more = p.more, q.late
    PROVE  Good(v, q, fin \cup (({p.root} \ {None}) \cup p.doing), st)
  <1> DEFINE more == fin \cup (({p.root} \ {None}) \cup p.doing)
  <1>1. Actor(v) /\ Matched(v, p, fin, st)
    BY DEF Good
  <1>2. /\ v.active # None /\ ~Awaited(v) /\ v.client # 0 /\ ~v.fence.settled
        /\ \A k \in DOMAIN p.events :
             ~(/\ p.events[k].type = "result" /\ p.events[k].value = "settled"
               /\ Latest(v, p.events[k].input))
        /\ ~v.fence.active => \A k \in DOMAIN p.events : p.events[k].type # "end"
        /\ v.active \in fin \/ p.root = v.active
    BY Working DEF Rest, IdleNow
  <1>3. v.active \in more /\ fin \subseteq more
    BY <1>2
  <1> HIDE DEF more
  <1>4. Stages(v, q)
    BY <1>1 DEF Matched, Stages, Reported
  <1>5. Calmness(v, q)
    BY <1>2 DEF Calmness
  <1>6. Runs(v, q, more)
    BY <1>1, <1>2, <1>3 DEF Matched, Runs
  <1>7. Ends(v, q, more, st)
    BY <1>1, <1>2, <1>3 DEF Matched, Ends, Told
  <1>8. Settled(v, q)
    BY <1>1, <1>2 DEF Matched, Settled
  <1>9. Worked(q, more)
    BY <1>1, <1>3 DEF Matched, Worked, Reported
  <1>10. Good(v, q, more, st)
    BY <1>1, <1>4, <1>5, <1>6, <1>7, <1>8, <1>9 DEF Good, Matched
  <1> QED
    BY <1>10 DEF more

\* The end comes after all, before another run.
LEMMA LateEndGood ==
    ASSUME NEW v, NEW p, NEW q, NEW fin, NEW st, Process(p), Good(v, p, fin, st), p.late,
           q.events = Append(p.events, Event("end", None, "ok")), ~q.late,
           q.run = p.run, q.root = p.root, q.doing = p.doing, q.todo = p.todo, q.more = p.more
    PROVE  Good(v, q, fin, st)
  <1> DEFINE e == Event("end", None, "ok")
             n == Len(p.events) + 1
  <1>1. Actor(v) /\ Matched(v, p, fin, st)
    BY DEF Good
  <1>2. /\ v.active # None /\ ~Awaited(v) /\ v.client # 0 /\ ~v.fence.settled
        /\ \A k \in DOMAIN p.events :
             ~(/\ p.events[k].type = "result" /\ p.events[k].value = "settled"
               /\ Latest(v, p.events[k].input))
        /\ ~v.fence.active => \A k \in DOMAIN p.events : p.events[k].type # "end"
    BY Working DEF Rest
  <1>3. p.run = "idle" /\ v.active \in fin
    BY <1>1 DEF Matched, Runs
  <1>4. p.events \in Seq(Events)
    BY DEF Process, Processes
  <1>5. Event("end", None, "ok") \in Events
    BY PlainEvents, Zenon DEF Verdicts
  <1>6. e \in Events /\ e.type = "end" /\ e.value = "ok"
    BY <1>5 DEF Event
  <1>7. q.events = Append(p.events, e)
    OBVIOUS
  <1> HIDE DEF e
  <1>8. /\ q.events # <<>> /\ q.events[n] = e /\ Len(q.events) = n
        /\ \A k \in DOMAIN p.events : q.events[k] = p.events[k]
        /\ \A k \in DOMAIN q.events : k = n \/ k \in DOMAIN p.events
    BY <1>4, <1>6, <1>7, AppendIs
  <1> HIDE DEF n
  <1>9. \A i : Reported(q, i) => Reported(p, i)
    BY <1>6, <1>8 DEF Reported
  <1>10. Stages(v, q)
    <2>1. \A j, k \in DOMAIN q.events :
            /\ q.events[j].type = "result" /\ q.events[k].type = "result"
            /\ q.events[j].input = q.events[k].input
            => j = k
      BY <1>1, <1>6, <1>8 DEF Matched, Stages
    <2>2. Stages(v, p)
      BY <1>1 DEF Matched
    <2> QED
      BY <1>9, <2>1, <2>2 DEF Stages
  <1>11. Calmness(v, q)
    BY <1>2 DEF Calmness
  <1>12. Runs(v, q, fin)
    BY <1>1, <1>3 DEF Matched, Runs
  <1>13. Ends(v, q, fin, st)
    BY <1>1, <1>2, <1>3, <1>6, <1>8 DEF Matched, Ends, Told
  <1>14. Settled(v, q)
    BY <1>1, <1>2, <1>6, <1>8 DEF Matched, Settled
  <1>15. Worked(q, fin)
    BY <1>1, <1>9 DEF Matched, Worked
  <1> QED
    BY <1>1, <1>10, <1>11, <1>12, <1>13, <1>14, <1>15 DEF Good, Matched

\* The process dies; what it did and wrote stays.
LEMMA ExitGood ==
    ASSUME NEW v, NEW p, NEW q, NEW fin, NEW st, Process(p), Good(v, p, fin, st), p.alive,
           q.events = p.events, q.run = p.run, q.root = p.root, q.doing = p.doing,
           q.todo = p.todo, q.more = p.more, q.late = p.late
    PROVE  Good(v, q, fin, st)
  <1>1. Actor(v) /\ Matched(v, p, fin, st)
    BY DEF Good
  <1>2. v.client # 0
    BY <1>1 DEF Matched, Calmness, Dead
  <1>3. Stages(v, q) /\ Calmness(v, q)
    BY <1>1, <1>2 DEF Matched, Stages, Reported, Calmness, Calm, Rest, IdleNow
  <1>4. Runs(v, q, fin) /\ Ends(v, q, fin, st)
    BY <1>1 DEF Matched, Runs, Aborted, Ends
  <1>5. Settled(v, q) /\ Worked(q, fin)
    BY <1>1 DEF Matched, Settled, Rest, IdleNow, Worked, Reported
  <1> QED
    BY <1>1, <1>3, <1>4, <1>5 DEF Good, Matched

\* The operation in flight was read.
Taken(v) == [v EXCEPT !.flight.phase = "taken"]

\* What that changes for the actor.
LEMMA TakenIs ==
    ASSUME NEW v, Actor(v), v.flight.phase = "out", v.flight.client = v.client
    PROVE  LET x == Taken(v)
               f == v.flight
           IN  /\ Actor(x) /\ x.saved = v.saved /\ x.last = v.last /\ x.client = v.client
               /\ x.turn = v.turn /\ x.lane = v.lane /\ x.active = v.active /\ x.control = v.control
               /\ x.steers = v.steers /\ x.fence = v.fence /\ x.probe = v.probe
               /\ x.watch = v.watch /\ x.flight.phase = "taken" /\ x.flight.kind = f.kind
               /\ Mine(v, f) /\ Mine(x, x.flight) /\ Waits(v, f) /\ v.client # 0
               /\ f.kind \in Kinds \ {"none"}
               /\ Awaited(x) => Awaited(v)
               /\ f.kind = "prompt" => Awaited(v) /\ ~Awaited(x) /\ f.input = v.active
               /\ f.kind # "prompt" => (Awaited(v) <=> Awaited(x))
               /\ \A i : (Unsent(x, i) => Unsent(v, i)) /\ (Latest(x, i) <=> Latest(v, i))
               /\ f.kind = "steer" => /\ Unsent(v, f.input) /\ ~Unsent(x, f.input) /\ ~Awaited(v)
                                      /\ f.input \in SteerInputs(v) /\ v.fence.active
  <1> DEFINE x == Taken(v)
             f == v.flight
             g == [f EXCEPT !.phase = "taken"]
  <1>1. v \in Actors /\ Ledger(v) /\ Counters(v) /\ Unconnected(v)
           /\ LaneOk(v) /\ FlightOk(v) /\ LastSteer(v) /\ FenceOk(v)
    BY DEF Actor
  <1>2. f \in Requests
    BY <1>1 DEF Actors, NoOperation
  <1>3. /\ g \in Requests /\ g.phase = "taken" /\ g.kind = f.kind /\ g.input = f.input
        /\ g.active = f.active /\ g.turn = f.turn /\ g.client = f.client
    BY <1>2 DEF Requests, Phases
  <1>4. x = [v EXCEPT !.flight = g]
    BY <1>1 DEF Taken, Actors
  <1> HIDE DEF g, x
  <1>5. /\ x \in Actors /\ x.saved = v.saved /\ x.last = v.last /\ x.client = v.client
        /\ x.turn = v.turn /\ x.lane = v.lane /\ x.active = v.active /\ x.control = v.control
        /\ x.session = v.session /\ x.queue = v.queue
        /\ x.steers = v.steers /\ x.fence = v.fence /\ x.probe = v.probe
        /\ x.watch = v.watch /\ x.flight = g
    BY <1>1, <1>3, <1>4 DEF Actors
  <1>6. f.kind \in Kinds \ {"none"}
    BY <1>2 DEF Requests
  <1>7. v.client # 0 /\ Mine(v, f) /\ Mine(x, g)
    BY <1>1, <1>3, <1>5, <1>6 DEF Counters, Mine
  <1>8. Claims(v)
    BY <1>7 DEF Claims
  <1>9. Waits(v, f) /\ \A k \in DOMAIN v.lane : Differ(f, v.lane[k])
    BY <1>1, <1>8 DEF FlightOk
  <1>10. Own(v, f) /\ Own(x, g)
    BY <1>3, <1>5, <1>7, <1>9 DEF Own, Waits
  <1>11. \A k \in DOMAIN v.lane : v.lane[k].kind # "prompt"
    BY <1>1, <1>10 DEF LaneOk
  <1>12. ~Awaited(x) /\ (f.kind # "prompt" => ~Awaited(v))
    BY <1>3, <1>5, <1>11 DEF Awaited
  <1>13. f.kind = "prompt" => Awaited(v) /\ f.input = v.active
    BY <1>7, <1>9 DEF Awaited, Waits
  <1>14. ~OutSteer(x) /\ (f.kind = "steer" => OutSteer(v))
    BY <1>3, <1>5, <1>7 DEF OutSteer
  <1>15. \A i : (Unsent(x, i) => Unsent(v, i)) /\ (Latest(x, i) <=> Latest(v, i))
    BY <1>5, <1>14 DEF Unsent, Latest
  <1>16. f.kind = "steer" => /\ Unsent(v, f.input) /\ ~Unsent(x, f.input)
                             /\ f.input \in SteerInputs(v) /\ v.fence.active
    <2>1. ASSUME f.kind = "steer" PROVE Unsent(v, f.input) /\ f.input \in SteerInputs(v)
      BY <1>9, <1>14, <2>1 DEF Unsent, Waits
    <2>2. f.kind = "steer" => v.fence.active
      <3>1. f.kind = "steer" => v.steers # {}
        BY <2>1 DEF SteerInputs
      <3> QED
        BY <1>1, <3>1 DEF FenceOk
    <2>3. f.kind = "steer" => ~Unsent(x, f.input)
      BY <1>5, <1>9, <1>14 DEF Unsent, Differ
    <2> QED
      BY <2>1, <2>2, <2>3
  <1>17. Ledger(x) /\ Counters(x) /\ Unconnected(x)
    BY <1>1, <1>3, <1>5 DEF Ledger, Counters, Unconnected
  <1>18. \A op : Waits(v, op) => Waits(x, op)
    BY <1>5 DEF Waits, Granted, SteerInputs
  <1>19. LaneOk(x)
    BY <1>1, <1>5, <1>11, <1>18 DEF LaneOk
  <1>20. FlightOk(x)
    <2>1. Waits(x, g)
      BY <1>3, <1>9, <1>18 DEF Waits, Granted
    <2>2. \A k \in DOMAIN x.lane : Differ(g, x.lane[k])
      BY <1>3, <1>5, <1>9 DEF Differ
    <2> QED
      BY <1>5, <2>1, <2>2 DEF FlightOk
  <1>21. LastSteer(x)
    BY <1>1, <1>5, <1>14, <1>15 DEF LastSteer
  <1>22. FenceOk(x)
    BY <1>1, <1>5, <1>12 DEF FenceOk
  <1>23. Actor(x)
    BY <1>5, <1>17, <1>19, <1>20, <1>21, <1>22 DEF Actor
  <1> QED
    BY <1>3, <1>5, <1>6, <1>7, <1>9, <1>12, <1>13, <1>15, <1>16, <1>23 DEF x

\* OMP reads the prompt of the active root, and runs it.
LEMMA PromptTaken ==
    ASSUME NEW v, NEW p, NEW q, NEW fin, NEW st, Process(p), Good(v, p, fin, st),
           v.flight.phase = "out", v.flight.client = v.client, v.flight.kind = "prompt",
           q.run = "busy", q.root = v.flight.input, ~q.late, q.doing = p.doing, q.todo = p.todo,
           q.more = p.more, NEW e \in Events, e.type = "start", q.events = Append(p.events, e)
    PROVE  Good(Taken(v), q, fin, st)
  <1> DEFINE x == Taken(v)
             n == Len(p.events) + 1
  <1>1. Actor(v) /\ Matched(v, p, fin, st)
    BY DEF Good
  <1>2. /\ Actor(x) /\ x.client # 0 /\ x.active = v.active /\ x.control = v.control
        /\ x.steers = v.steers /\ x.fence = v.fence /\ x.probe = v.probe /\ x.watch = v.watch
        /\ Awaited(v) /\ ~Awaited(x) /\ v.flight.input = v.active /\ Waits(v, v.flight)
    BY <1>1, TakenIs
  <1> HIDE DEF x
  <1>3. v.active # None
    BY <1>2 DEF Waits
  <1>4. Calm(p)
    BY <1>1, <1>2 DEF Matched, Calmness
  <1>5. p.events \in Seq(Events) /\ x.fence.seen \in BOOLEAN
    BY <1>2 DEF Process, Processes, Actor, Actors, Fences
  <1>9. /\ q.events # <<>> /\ q.events[n] = e
        /\ \A k \in DOMAIN q.events : k = n \/ k \in DOMAIN p.events
    BY <1>5, AppendIs
  <1>10. Open(q.events, x.fence.seen)
    BY <1>5, OpenAppended
  <1> HIDE DEF n
  <1>11. \A k \in DOMAIN q.events : q.events[k].type = "start"
    <2>1. DOMAIN p.events = {}
      BY <1>4, <1>5 DEF Calm
    <2> QED
      BY <1>9, <2>1
  <1>12. ~x.fence.seen /\ ~x.fence.settled
    BY <1>1, <1>2 DEF Actor, FenceOk
  <1>13. q.doing = {} /\ q.todo = {} /\ ~q.more
    BY <1>4 DEF Calm, Rest, IdleNow
  <1>14. Stages(x, q)
    BY <1>11, <1>13 DEF Stages, Reported
  <1>15. Calmness(x, q)
    BY <1>2, <1>3 DEF Calmness
  <1>16. Runs(x, q, fin)
    BY <1>2, <1>13 DEF Runs
  <1>17. Ends(x, q, fin, st)
    BY <1>1, <1>2, <1>10, <1>11, <1>12 DEF Matched, Ends
  <1>18. Settled(x, q)
    BY <1>11, <1>12, <1>13 DEF Settled
  <1>19. Worked(q, fin)
    BY <1>11 DEF Worked, Reported
  <1>20. Good(x, q, fin, st)
    BY <1>2, <1>14, <1>15, <1>16, <1>17, <1>18, <1>19 DEF Good, Matched
  <1> QED
    BY <1>20 DEF x

\* OMP reads a steer, and will take it up.
LEMMA SteerTaken ==
    ASSUME NEW v, NEW p, NEW q, NEW fin, NEW st, Process(p), Good(v, p, fin, st),
           v.flight.phase = "out", v.flight.client = v.client, v.flight.kind = "steer",
           q.run = p.run, q.root = p.root, q.late = p.late, q.doing = p.doing,
           q.todo = p.todo \cup {v.flight.input}, q.more = p.more, q.events = p.events
    PROVE  Good(Taken(v), q, fin, st)
  <1> DEFINE x == Taken(v)
             i == v.flight.input
  <1>1. Actor(v) /\ Matched(v, p, fin, st)
    BY DEF Good
  <1>2. /\ Actor(x) /\ x.client # 0 /\ x.active = v.active /\ x.control = v.control
        /\ x.steers = v.steers /\ x.fence = v.fence /\ x.probe = v.probe /\ x.watch = v.watch
        /\ Awaited(x) => Awaited(v)
        /\ ~Awaited(v) /\ Unsent(v, i) /\ ~Unsent(x, i) /\ i \in SteerInputs(v) /\ v.fence.active
        /\ \A j : (Unsent(x, j) => Unsent(v, j)) /\ (Latest(x, j) <=> Latest(v, j))
    BY <1>1, TakenIs
  <1> HIDE DEF x
  <1>3. v.active # None
    BY <1>1, <1>2 DEF Actor, FenceOk
  <1>4. Stages(v, p)
    BY <1>1 DEF Matched
  <1>5. i \notin p.doing /\ ~Reported(p, i)
    BY <1>2, <1>4 DEF Stages
  <1>6. Stages(x, q)
    BY <1>2, <1>4, <1>5 DEF Stages, SteerInputs, Reported
  <1>7. Calmness(x, q)
    BY <1>2, <1>3 DEF Calmness
  <1>8. Runs(x, q, fin)
    BY <1>1, <1>2 DEF Matched, Runs, Aborted
  <1>9. Ends(x, q, fin, st)
    BY <1>1, <1>2 DEF Matched, Ends, Told
  <1>10. Settled(x, q)
    <2>1. ~v.fence.settled
      BY <1>1, <1>2 DEF Matched, Settled
    <2>2. ASSUME NEW k \in DOMAIN p.events, p.events[k].type = "result" PROVE ~Latest(v, p.events[k].input)
      <3>1. ~Unsent(v, p.events[k].input)
        BY <1>4, <2>2 DEF Stages, Reported
      <3> QED
        BY <1>1, <1>2, <3>1, LatestIsLast
    <2> QED
      BY <1>1, <1>2, <2>1, <2>2 DEF Matched, Settled
  <1>11. Worked(q, fin)
    BY <1>1 DEF Matched, Worked, Reported
  <1>12. Good(x, q, fin, st)
    BY <1>2, <1>6, <1>7, <1>8, <1>9, <1>10, <1>11 DEF Good, Matched
  <1> QED
    BY <1>12 DEF x

\* OMP is told to abort, and ends its run.
LEMMA AbortTaken ==
    ASSUME NEW v, NEW p, NEW q, NEW fin, NEW st, Process(p), Good(v, p, fin, st),
           v.flight.phase = "out", v.flight.client = v.client, v.flight.kind = "abort",
           p.run # "idle",
           q.run = "idle", q.root = None, q.late = p.late, q.doing = p.doing, q.todo = p.todo,
           q.more = p.more, q.events = Append(p.events, Event("end", None, "aborted"))
    PROVE  Good(Taken(v), q, fin, st)
  <1> DEFINE x == Taken(v)
             e == Event("end", None, "aborted")
             n == Len(p.events) + 1
  <1>1. Actor(v) /\ Matched(v, p, fin, st)
    BY DEF Good
  <1>2. /\ Actor(x) /\ x.client # 0 /\ x.active = v.active /\ x.control = v.control
        /\ x.steers = v.steers /\ x.fence = v.fence /\ x.probe = v.probe /\ x.watch = v.watch
        /\ Awaited(x) => Awaited(v)
        /\ Waits(v, v.flight) /\ Mine(x, x.flight)
        /\ x.flight.kind = "abort" /\ x.flight.phase = "taken"
    BY <1>1, TakenIs
  <1> HIDE DEF x
  <1>3. v.control = "abort"
    BY <1>2 DEF Waits, Granted
  <1>4. ~v.fence.active /\ ~v.fence.seen /\ ~v.fence.settled /\ v.steers = {} /\ v.probe = "none"
    BY <1>1, <1>3 DEF Actor, FenceOk
  <1>5. /\ v.active # None /\ ~Awaited(v)
        /\ p.doing = {} /\ p.todo = {} /\ ~p.more
        /\ \A k \in DOMAIN p.events : p.events[k].type # "end"
    BY <1>4, Working DEF Rest, IdleNow
  <1>6. \A i : ~Reported(p, i)
    BY <1>1, <1>4 DEF Matched, Stages, SteerInputs
  <1>7. p.events \in Seq(Events)
    BY DEF Process, Processes
  <1>8. Event("end", None, "aborted") \in Events
    BY PlainEvents, Zenon DEF Verdicts
  <1>9. e \in Events /\ e.type = "end" /\ e.value = "aborted"
    BY <1>8 DEF Event
  <1>10. q.events = Append(p.events, e)
    OBVIOUS
  <1> HIDE DEF e
  <1>11. /\ q.events # <<>> /\ q.events[n] = e /\ Len(q.events) = n
         /\ \A k \in DOMAIN p.events : q.events[k] = p.events[k]
         /\ \A k \in DOMAIN q.events : k = n \/ k \in DOMAIN p.events
    BY <1>7, <1>9, <1>10, AppendIs
  <1> HIDE DEF n
  <1>12. \A k \in DOMAIN q.events : q.events[k].type # "result"
    BY <1>6, <1>9, <1>11 DEF Reported
  <1>13. ~p.late /\ v.active \in st
    BY <1>1, <1>3, <1>5 DEF Matched, Runs, Ends
  <1>14. Stages(x, q)
    BY <1>5, <1>12 DEF Stages, Reported
  <1>15. Calmness(x, q)
    BY <1>2, <1>5 DEF Calmness
  <1>16. Aborted(x, q)
    BY <1>2, <1>4, <1>13 DEF Aborted
  <1>17. Runs(x, q, fin)
    BY <1>5, <1>13, <1>16 DEF Runs
  <1>18. Ends(x, q, fin, st)
    BY <1>2, <1>4, <1>5, <1>9, <1>11, <1>13 DEF Ends, Told
  <1>19. Settled(x, q)
    BY <1>2, <1>4, <1>5, <1>12 DEF Settled
  <1>20. Worked(q, fin)
    BY <1>12 DEF Worked, Reported
  <1>21. Good(x, q, fin, st)
    BY <1>2, <1>14, <1>15, <1>17, <1>18, <1>19, <1>20 DEF Good, Matched
  <1> QED
    BY <1>21 DEF x

\* OMP reads what changes nothing of what it runs.
LEMMA OtherTaken ==
    ASSUME NEW v, NEW p, NEW fin, NEW st, Good(v, p, fin, st),
           v.flight.phase = "out", v.flight.client = v.client, v.flight.kind \notin {"prompt", "steer"}
    PROVE  Good(Taken(v), p, fin, st)
  <1> DEFINE x == Taken(v)
  <1>1. Actor(v) /\ Matched(v, p, fin, st)
    BY DEF Good
  <1>2. /\ Actor(x) /\ x.client = v.client /\ x.active = v.active /\ x.control = v.control
        /\ x.steers = v.steers /\ x.fence = v.fence /\ x.probe = v.probe /\ x.watch = v.watch
        /\ Awaited(v) <=> Awaited(x)
        /\ \A i : (Unsent(x, i) => Unsent(v, i)) /\ (Latest(x, i) <=> Latest(v, i))
    BY <1>1, TakenIs
  <1> HIDE DEF x
  <1>3. Stages(x, p) /\ Calmness(x, p)
    BY <1>1, <1>2 DEF Matched, Stages, Calmness, SteerInputs
  <1>4. Runs(x, p, fin)
    BY <1>1, <1>2 DEF Matched, Runs, Aborted
  <1>5. Ends(x, p, fin, st)
    BY <1>1, <1>2 DEF Matched, Ends, Told
  <1>6. Settled(x, p) /\ Worked(p, fin)
    BY <1>1, <1>2 DEF Matched, Settled
  <1>7. Good(x, p, fin, st)
    BY <1>2, <1>3, <1>4, <1>5, <1>6 DEF Good, Matched
  <1> QED
    BY <1>7 DEF x

\* Where OMP alone moves, it is enough that the actor and OMP stay in accord.
LEMMA OmpAlone ==
    ASSUME OInv, w' = w, Good(w, o', finished', stopped')
    PROVE  Onward
  <1> DEFINE fin == finished'
             st == stopped'
             q == o'
  <1>1. w \in Actors /\ w.last \in Nat
    BY DEF OInv, Good, Actor, Actors
  <1>2. Good(w, q, fin, st)
    OBVIOUS
  <1> HIDE DEF fin, st, q
  <1>3. Leads(w, w, IdleNow(o), fin, st)
    BY <1>1, LeadsSame
  <1> QED
    BY <1>2, <1>3, Zenon DEF Onward, fin, st, q

\* Every step of OMP.
LEMMA OmpOnward == ASSUME OInv, Omp PROVE Onward
  <1> DEFINE begun == Event("start", None, "")
             yielded == Event("yield", None, "")
             st == stopped'
             fin == finished'
             q == o'
  <1>1. Good(w, o, finished, stopped) /\ Process(o) /\ w \in Actors
    BY DEF OInv, IInv, Good, Actor
  <1>2. stopped' = stopped
    <2>1. OmpTakes \/ OmpTakesSteer \/ OmpReportsSteer => stopped' = stopped
      BY Zenon DEF OmpTakes, OmpTakesSteer, OmpReportsSteer, OmpStep
    <2>2. OmpEnds \/ OmpContinues \/ OmpYields \/ OmpResumes => stopped' = stopped
      BY Zenon DEF OmpEnds, OmpContinues, OmpYields, OmpResumes, OmpStep
    <2>3. OmpForgetsEnd \/ OmpWritesLateEnd \/ OmpExits => stopped' = stopped
      BY Zenon DEF OmpForgetsEnd, OmpWritesLateEnd, OmpExits, OmpStep
    <2> QED
      BY <2>1, <2>2, <2>3, Zenon DEF Omp
  <1>3. begun \in Events /\ yielded \in Events
    BY PlainEvents, Zenon
  <1>4. begun.type = "start" /\ yielded.type = "yield"
    BY Zenon DEF Event
  <1> HIDE DEF begun, yielded
  <1>5. o \in Processes
    BY <1>1 DEF Process
  <1>6. o.run # "idle" \/ o.todo # {} \/ o.more \/ o.late => ~Rest(o)
    BY DEF Rest, IdleNow
  <1>7. CASE OmpTakes
    <2>1. w.flight.phase = "out" /\ w.flight.client = w.client /\ finished' = finished
             /\ w' = Taken(w)
      BY <1>7 DEF OmpTakes, OmpStep, Taken
    <2> DEFINE p1 == [o EXCEPT !.run = "busy", !.root = w.flight.input, !.late = FALSE,
                               !.events = Append(@, begun)]
               p2 == [o EXCEPT !.todo = @ \cup {w.flight.input}]
               p3 == [o EXCEPT !.run = "idle", !.root = None,
                               !.events = Append(@, Event("end", None, "aborted"))]
    <2>2. o' = CASE w.flight.kind = "prompt" -> p1
                 [] w.flight.kind = "steer" -> p2
                 [] w.flight.kind = "abort" /\ o.run # "idle" -> p3
                 [] OTHER -> o
      BY <1>7, Zenon DEF OmpTakes, OmpStep, begun
    <2>3. Good(w', o', finished, stopped)
      <3>1. CASE w.flight.kind = "prompt"
        <4>1. o' = p1
          BY <2>2, <3>1
        <4>2. /\ p1.run = "busy" /\ p1.root = w.flight.input /\ ~p1.late /\ p1.doing = o.doing
              /\ p1.todo = o.todo /\ p1.more = o.more /\ p1.events = Append(o.events, begun)
          BY <1>5 DEF Processes
        <4> HIDE DEF p1
        <4>3. Good(Taken(w), p1, finished, stopped)
          BY <1>1, <1>3, <1>4, <2>1, <3>1, <4>2, PromptTaken
        <4> QED
          BY <2>1, <4>1, <4>3
      <3>2. CASE w.flight.kind = "steer"
        <4>1. o' = p2
          BY <2>2, <3>2
        <4>2. /\ p2.run = o.run /\ p2.root = o.root /\ p2.late = o.late /\ p2.doing = o.doing
              /\ p2.todo = o.todo \cup {w.flight.input} /\ p2.more = o.more /\ p2.events = o.events
          BY <1>5 DEF Processes
        <4> HIDE DEF p2
        <4>3. Good(Taken(w), p2, finished, stopped)
          BY <1>1, <2>1, <3>2, <4>2, SteerTaken
        <4> QED
          BY <2>1, <4>1, <4>3
      <3>3. CASE w.flight.kind = "abort" /\ o.run # "idle"
        <4>1. o' = p3
          BY <2>2, <3>3
        <4>2. /\ p3.run = "idle" /\ p3.root = None /\ p3.late = o.late /\ p3.doing = o.doing
              /\ p3.todo = o.todo /\ p3.more = o.more
              /\ p3.events = Append(o.events, Event("end", None, "aborted"))
          BY <1>5 DEF Processes
        <4> HIDE DEF p3
        <4>3. Good(Taken(w), p3, finished, stopped)
          BY <1>1, <2>1, <3>3, <4>2, AbortTaken
        <4> QED
          BY <2>1, <4>1, <4>3
      <3>4. CASE w.flight.kind \notin {"prompt", "steer"} /\ ~(w.flight.kind = "abort" /\ o.run # "idle")
        <4>1. o' = o
          BY <2>2, <3>4
        <4>2. Good(Taken(w), o, finished, stopped)
          BY <1>1, <2>1, <3>4, OtherTaken
        <4> QED
          BY <2>1, <4>1, <4>2
      <3> QED
        BY <3>1, <3>2, <3>3, <3>4
    <2>4. w'.saved = w.saved /\ w'.last = w.last /\ w.last \in Nat
      BY <1>1, <2>1 DEF Taken, Actors
    <2> DEFINE x == w'
    <2>5. x.saved = w.saved /\ x.last >= w.last /\ x = w'
      BY <2>4
    <2> HIDE DEF x
    <2>6. Leads(w, x, IdleNow(o), finished, stopped)
      BY <2>5, LeadsSame
    <2> QED
      BY <1>2, <2>1, <2>3, <2>5, <2>6 DEF Onward
  <1>8. CASE OmpTakesSteer
    <2>1. PICK i \in o.todo :
            OmpStep([o EXCEPT !.todo = @ \ {i}, !.doing = @ \cup {i}, !.run = IF Works THEN @ ELSE "busy",
                              !.late = @ /\ Works,
                              !.events = IF Works THEN @ ELSE Append(@, Event("start", None, ""))], {})
      BY <1>8, Zenon DEF OmpTakesSteer
    <2> DEFINE late == o.late /\ Works
               run == IF Works THEN o.run ELSE "busy"
               events == IF Works THEN o.events ELSE Append(o.events, begun)
    <2>2. w' = w /\ o.run # "yielded"
      BY <1>8, Zenon DEF OmpTakesSteer
    <2>3. /\ o' = [o EXCEPT !.todo = @ \ {i}, !.doing = @ \cup {i}, !.run = run, !.late = late,
                            !.events = events]
          /\ finished' = finished \cup {}
      BY <2>1, Zenon DEF OmpStep, begun
    <2>4. /\ run # "idle" /\ ~late
          /\ \/ events = o.events /\ o.run # "idle"
             \/ events = Append(o.events, begun)
      <3>1. o.late => o.run = "idle"
        BY <1>1 DEF Good, Matched, Runs
      <3> QED
        BY <3>1 DEF Works
    <2>5. w.fence.active
      BY <1>1, <1>6, <2>1, Working
    <2> HIDE DEF run, late, events
    <2>6. /\ q.todo = o.todo \ {i} /\ q.doing = o.doing \cup {i} /\ q.run = run /\ q.late = late
          /\ q.events = events /\ q.root = o.root /\ q.more = o.more
      BY <1>5, <2>3 DEF Processes
    <2> HIDE DEF q
    <2>7. \A j : j \in o.todo => j \notin o.doing
      BY <1>1 DEF Good, Matched, Stages
    <2>8. Good(w, q, finished, stopped)
      <3>1. ~Rest(o) /\ (q.more => o.more)
        BY <1>6, <2>6
      <3>2. \A j : j \in q.todo \/ j \in q.doing <=> j \in o.todo \/ j \in o.doing
        BY <2>6
      <3>3. \A j : j \in q.todo => j \notin q.doing
        BY <2>6, <2>7
      <3>4. \/ q.events = o.events /\ o.run # "idle"
            \/ q.events = Append(o.events, begun) /\ begun.type = "start"
        BY <1>4, <2>4, <2>6
      <3>5. q.run # "idle" /\ ~q.late /\ q.root = o.root
        BY <2>4, <2>6
      <3> QED
        BY <1>1, <1>3, <2>5, <3>1, <3>2, <3>3, <3>4, <3>5, RunGoes
    <2>9. finished' = finished
      BY <2>3
    <2> QED
      BY <1>2, <2>2, <2>8, <2>9, OmpAlone DEF q
  <1>9. CASE OmpContinues \/ OmpYields \/ OmpResumes
    <2>1. /\ w' = w /\ finished' = finished \cup {}
          /\ \/ /\ o.run = "idle" /\ o.more
                /\ o' = [o EXCEPT !.run = "busy", !.more = FALSE, !.late = FALSE,
                                  !.events = Append(@, begun)]
             \/ o.run = "busy" /\ o' = [o EXCEPT !.run = "yielded", !.events = Append(@, yielded)]
             \/ o.run = "yielded" /\ o' = [o EXCEPT !.run = "resumed", !.events = Append(@, begun)]
      BY <1>9, Zenon DEF OmpContinues, OmpYields, OmpResumes, OmpStep, begun, yielded
    <2>2. /\ q.todo = o.todo /\ q.doing = o.doing /\ q.root = o.root /\ q.run # "idle"
          /\ q.late \in {o.late, FALSE} /\ (q.late = o.late => o.run # "idle" \/ ~q.late)
          /\ q.more => o.more
          /\ \/ q.events = Append(o.events, begun)
             \/ q.events = Append(o.events, yielded) /\ o.run # "idle"
          /\ o.run # "idle" \/ o.more
      BY <1>5, <2>1 DEF Processes
    <2> HIDE DEF q
    <2>3. o.late => o.run = "idle"
      BY <1>1 DEF Good, Matched, Runs
    <2>4. ~Rest(o) /\ (o.more => w.fence.active) /\ ~q.late
      BY <1>1, <1>6, <2>2, <2>3, Working
    <2>5. \A j : j \in q.todo => j \notin q.doing
      BY <1>1, <2>2 DEF Good, Matched, Stages
    <2>6. \A j : j \in q.todo \/ j \in q.doing <=> j \in o.todo \/ j \in o.doing
      BY <2>2
    <2>7. Good(w, q, finished, stopped)
      <3>1. CASE q.events = Append(o.events, begun)
        BY <1>1, <1>3, <1>4, <2>2, <2>4, <2>5, <2>6, <3>1, RunGoes
      <3>2. CASE q.events = Append(o.events, yielded) /\ o.run # "idle"
        BY <1>1, <1>3, <1>4, <2>2, <2>4, <2>5, <2>6, <3>2, RunGoes
      <3> QED
        BY <2>2, <3>1, <3>2
    <2>8. finished' = finished
      BY <2>1
    <2> QED
      BY <1>2, <2>1, <2>7, <2>8, OmpAlone DEF q
  <1>10. CASE OmpReportsSteer
    <2>1. PICK i \in o.doing, value \in {"unsettled", "error", "odd"} :
            /\ o' = [o EXCEPT !.doing = @ \ {i}, !.events = Append(@, Event("result", i, value))]
            /\ finished' = finished \cup {i}
      BY <1>10, Zenon DEF OmpReportsSteer, OmpStep
    <2>2. w' = w /\ o.run # "idle"
      BY <1>10 DEF OmpReportsSteer, Works
    <2>3. /\ q.doing = o.doing \ {i} /\ q.events = Append(o.events, Event("result", i, value))
          /\ q.todo = o.todo /\ q.run = o.run /\ q.root = o.root /\ q.more = o.more /\ q.late = o.late
      BY <1>5, <2>1 DEF Processes
    <2> HIDE DEF q
    <2>4. Good(w, q, finished \cup {i}, stopped)
      BY <1>1, <2>2, <2>3, SteerReportGood
    <2> QED
      BY <1>2, <2>1, <2>2, <2>4, OmpAlone DEF q
  <1>11. CASE OmpEnds
    <2>1. PICK verdict \in {"ok", "empty"}, more \in {FALSE, o.doing # {}} :
            LET value == IF o.todo = {} /\ ~more THEN "settled" ELSE "unsettled"
                reports == SetToSeq({Event("result", i, value) : i \in o.doing})
            IN  OmpStep([o EXCEPT !.run = "idle", !.root = None, !.doing = {}, !.more = more,
                                  !.events = Append(@, Event("end", None, verdict)) \o reports],
                        ({o.root} \ {None}) \cup o.doing)
      BY <1>11 DEF OmpEnds
    <2> DEFINE value == IF o.todo = {} /\ ~more THEN "settled" ELSE "unsettled"
               events == Ended(o, verdict, value)
               done == ({o.root} \ {None}) \cup o.doing
    <2>2. /\ o' = [o EXCEPT !.run = "idle", !.root = None, !.doing = {}, !.more = more,
                            !.events = events]
          /\ finished' = finished \cup done
      BY <2>1, Zenon DEF OmpStep, Ended
    <2>3. value \in {"settled", "unsettled"} /\ (value = "settled" => o.todo = {} /\ ~more)
      OBVIOUS
    <2>4. w' = w /\ o.run # "idle"
      BY <1>11 DEF OmpEnds, Works
    <2>5. events = Ended(o, verdict, value)
      OBVIOUS
    <2> HIDE DEF value, events
    <2>6. /\ q.run = "idle" /\ q.root = None /\ q.doing = {} /\ q.more = more /\ q.events = events
          /\ q.todo = o.todo /\ q.late = o.late
      BY <1>5, <2>2 DEF Processes
    <2>7. q.events = Ended(o, verdict, value)
      BY <2>5, <2>6
    <2> HIDE DEF q
    <2>8. Good(w, q, finished \cup done, stopped)
      BY <1>1, <2>3, <2>4, <2>6, <2>7, EndGood
    <2> HIDE DEF done
    <2> QED
      BY <1>2, <2>2, <2>4, <2>8, OmpAlone DEF q
  <1>12. CASE OmpForgetsEnd
    <2> DEFINE done == ({o.root} \ {None}) \cup o.doing
    <2>1. /\ w' = w /\ o.run # "idle" /\ finished' = finished \cup done
          /\ o' = [o EXCEPT !.run = "idle", !.root = None, !.doing = {}, !.late = TRUE]
      BY <1>12 DEF OmpForgetsEnd, OmpStep, Works
    <2>2. /\ q.run = "idle" /\ q.root = None /\ q.doing = {} /\ q.late /\ q.events = o.events
          /\ q.todo = o.todo /\ q.more = o.more
      BY <1>5, <2>1 DEF Processes
    <2> HIDE DEF q
    <2>3. Good(w, q, finished \cup done, stopped)
      BY <1>1, <2>1, <2>2, ForgottenGood
    <2> HIDE DEF done
    <2> QED
      BY <1>2, <2>1, <2>3, OmpAlone DEF q
  <1>13. CASE OmpWritesLateEnd
    <2>1. /\ w' = w /\ o.late /\ finished' = finished \cup {}
          /\ o' = [o EXCEPT !.late = FALSE, !.events = Append(@, Event("end", None, "ok"))]
      BY <1>13 DEF OmpWritesLateEnd, OmpStep
    <2>2. /\ q.run = o.run /\ q.root = o.root /\ q.doing = o.doing /\ q.todo = o.todo
          /\ q.more = o.more /\ ~q.late /\ q.events = Append(o.events, Event("end", None, "ok"))
      BY <1>5, <2>1 DEF Processes
    <2> HIDE DEF q
    <2>3. Good(w, q, finished, stopped)
      BY <1>1, <2>1, <2>2, LateEndGood
    <2>4. finished' = finished
      BY <2>1
    <2> QED
      BY <1>2, <2>1, <2>3, <2>4, OmpAlone DEF q
  <1>14. CASE OmpExits
    <2>1. /\ w' = w /\ o.alive /\ finished' = finished
          /\ o' = [o EXCEPT !.alive = FALSE]
      BY <1>14 DEF OmpExits
    <2>2. /\ q.run = o.run /\ q.root = o.root /\ q.doing = o.doing /\ q.todo = o.todo
          /\ q.more = o.more /\ q.late = o.late /\ q.events = o.events
      BY <1>5, <2>1 DEF Processes
    <2> HIDE DEF q
    <2>3. Good(w, q, finished, stopped)
      BY <1>1, <2>1, <2>2, ExitGood
    <2> QED
      BY <1>2, <2>1, <2>3, OmpAlone DEF q
  <1> QED
    BY <1>7, <1>8, <1>9, <1>10, <1>11, <1>12, <1>13, <1>14, Zenon DEF Omp

-----------------------------------------------------------------------------
\* The specification.

\* What OMP has worked off stays worked off.
LEMMA FinishedGrows == ASSUME [Next]_laneVars PROVE finished \subseteq finished'
  <1>1. ASSUME NEW i \in Prompts, Prompt(i) PROVE finished' = finished
    BY <1>1 DEF Prompt, Handled, Reject
  <1>2. CASE \/ Stop \/ StopActiveTask \/ Status \/ Compact \/ CloseSession \/ NewSession
             \/ ReleaseIdle
    BY <1>2 DEF Stop, StopActiveTask, Status, Compact, CloseSession, NewSession, ReleaseIdle,
                UserAsks, Handled
  <1>3. CASE ConsumeEvent \/ ClientGone \/ OperationReturns
    BY <1>3 DEF ConsumeEvent, ClientGone, OperationReturns, Handled
  <1>4. CASE StartIdleProbe \/ SteeredTick \/ AnswerIdleProbe \/ AnswerSteerProbe
    BY <1>4 DEF StartIdleProbe, SteeredTick, AnswerIdleProbe, AnswerSteerProbe
  <1>5. CASE IdleProbeFinished \/ SteeredQuiescenceFinished
    BY <1>5, Zenon DEF IdleProbeFinished, SteeredQuiescenceFinished, Handled
  <1>6. CASE Omp
    <2>1. ASSUME NEW process, NEW done, OmpStep(process, done) PROVE finished \subseteq finished'
      BY <2>1 DEF OmpStep
    <2>2. CASE OmpTakes
      BY <2>1, <2>2, Zenon DEF OmpTakes
    <2>3. CASE OmpTakesSteer \/ OmpReportsSteer
      BY <2>1, <2>3, Zenon DEF OmpTakesSteer, OmpReportsSteer
    <2>4. CASE OmpEnds \/ OmpForgetsEnd \/ OmpWritesLateEnd
      BY <2>1, <2>4, Zenon DEF OmpEnds, OmpForgetsEnd, OmpWritesLateEnd
    <2>5. CASE OmpContinues \/ OmpYields \/ OmpResumes
      BY <2>1, <2>5, Zenon DEF OmpContinues, OmpYields, OmpResumes
    <2>6. CASE OmpExits
      BY <2>6 DEF OmpExits
    <2> QED
      BY <1>6, <2>2, <2>3, <2>4, <2>5, <2>6, Zenon DEF Omp
  <1>7. CASE UNCHANGED laneVars
    BY <1>7 DEF laneVars
  <1> QED
    BY <1>1, <1>2, <1>3, <1>4, <1>5, <1>6, <1>7, Zenon DEF Next

\* Every step keeps the actor and OMP in accord.
LEMMA StepOnward == ASSUME OInv, [Next]_laneVars PROVE Onward
  <1>1. ASSUME NEW i \in Prompts, Prompt(i) PROVE Onward
    BY <1>1, PromptOnward
  <1>2. CASE \/ Stop \/ StopActiveTask \/ Status \/ Compact \/ CloseSession \/ NewSession
             \/ ReleaseIdle
    BY <1>2, UserOnward
  <1>3. CASE \/ ConsumeEvent \/ ClientGone \/ OperationReturns
             \/ StartIdleProbe \/ SteeredTick \/ AnswerIdleProbe \/ AnswerSteerProbe
             \/ IdleProbeFinished \/ SteeredQuiescenceFinished
    BY <1>3, ActorOnward
  <1>4. CASE Omp
    BY <1>4, OmpOnward
  <1>5. CASE UNCHANGED laneVars
    <2>1. w' = w /\ o' = o /\ finished' = finished /\ stopped' = stopped
      BY <1>5 DEF laneVars
    <2>2. Good(w, o', finished', stopped')
      BY <2>1 DEF OInv
    <2> QED
      BY <2>1, <2>2, OmpAlone
  <1> QED
    BY <1>1, <1>2, <1>3, <1>4, <1>5, Zenon DEF Next

\* Nothing is submitted yet, and no process lives.
LEMMA InitIsGood == Init => OInv
  <1> SUFFICES ASSUME Init PROVE OInv
    OBVIOUS
  <1>1. IInv /\ w \in Actors
    BY InitHolds DEF IInv, Held, Loose
  <1>2. /\ w.saved = [i \in Prompts |-> "none"] /\ w.queue = <<>> /\ w.active = None
        /\ w.steers = {} /\ w.fence = NoFence /\ w.flight = NoOperation
        /\ w.client = 0 /\ w.last = 0 /\ w.turn = 0 /\ w.lane = <<>> /\ w.probe = "none"
        /\ w.watch = NoWatch /\ o = Dead
    BY Zenon DEF Init
  <1>3. Ledger(w)
    BY <1>2 DEF Ledger
  <1>4. NoOperation.client = 0 /\ NoOperation.turn = 0 /\ NoOperation.kind = "none"
    BY DEF NoOperation
  <1>5. Counters(w)
    BY <1>2, <1>4 DEF Counters
  <1>6. Base(w)
    BY <1>1, <1>2, <1>3, <1>5 DEF Base
  <1>7. ~NoFence.active /\ ~NoFence.seen /\ ~NoFence.settled /\ NoWatch.probe = "none"
    BY DEF NoFence, NoWatch
  <1>8. Freed(w)
    BY <1>2, <1>7 DEF Freed
  <1>9. Good(w, o, finished, stopped)
    BY <1>2, <1>6, <1>8, FreedIsGood
  <1>10. DoneIsTrue
    BY <1>2 DEF DoneIsTrue
  <1> QED
    BY <1>1, <1>9, <1>10 DEF OInv

\* Every step keeps the accord, and what is done is what OMP worked off.
LEMMA OInvKeeps == ASSUME OInv, [Next]_laneVars PROVE OInv'
  <1>1. IInv'
    BY NextKeeps DEF OInv
  <1>2. Onward /\ finished \subseteq finished'
    BY StepOnward, FinishedGrows
  <1>3. Good(w', o', finished', stopped')
    BY <1>2 DEF Onward
  <1>4. ASSUME NEW i \in Prompts, w'.saved[i] = "done" PROVE i \in finished'
    <2>1. Moved(w, w', i, IdleNow(o), finished', stopped')
      BY <1>2 DEF Onward, Leads
    <2>2. w.saved[i] = "done" => i \in finished
      BY DEF OInv, DoneIsTrue
    <2> QED
      BY <1>2, <1>4, <2>1, <2>2 DEF Moved, Final
  <1>5. DoneIsTrue'
    BY <1>4 DEF DoneIsTrue
  <1> QED
    BY <1>1, <1>3, <1>5 DEF OInv

\* In every reachable state the actor and OMP are in accord: what waits, was sent,
\* was read or is reported, and what each event and answer still says of OMP.
THEOREM Accord == Spec => []OInv
  <1>1. OInv /\ [Next]_laneVars => OInv'
    BY OInvKeeps
  <1> QED
    BY <1>1, InitIsGood, PTL DEF Spec

\* What is reported as done was worked off by OMP: no late event of an earlier
\* task, no result of an earlier client or turn and no answer of the watchdog
\* completes another task than its own (operationFinished, idleProbeFinished).
THEOREM DoneIsDone == Spec => []DoneIsTrue
  <1>1. OInv => DoneIsTrue
    BY DEF OInv
  <1> QED
    BY <1>1, Accord, PTL

\* A steered root is not done before OMP has settled: no run, no steer still to be
\* taken and no work that goes on by itself is left behind (maybeFinishSteeredRoot).
THEOREM SteeredRootsSettle == Spec => DoneOnlyWhenQuiet
  <1>1. ASSUME OInv, [Next]_laneVars
        PROVE  [w.fence.active /\ w.active # None /\ w'.saved[w.active] = "done" => Idle]_laneVars
    <2> SUFFICES ASSUME w.fence.active, w.active # None, w'.saved[w.active] = "done"
                 PROVE  Idle
      OBVIOUS
    <2>1. w.active \in Prompts /\ w.saved[w.active] = "submitted"
      <3>1. w \in Actors /\ Ledger(w)
        BY <1>1 DEF OInv, Good, Actor
      <3> QED
        BY <3>1 DEF Actors, Ledger
    <2>2. Moved(w, w', w.active, IdleNow(o), finished', stopped')
      BY <1>1, <2>1, StepOnward DEF Onward, Leads
    <2>3. IdleNow(o)
      BY <2>1, <2>2 DEF Moved, Final
    <2> QED
      BY <2>3 DEF IdleNow, Idle
  <1> QED
    BY <1>1, Accord, PTL DEF Spec, DoneOnlyWhenQuiet

\* A task that OMP got is cancelled only if it ran or waited when the user asked for
\* that: an abort that comes late does not hit the next task (canDispatch,
\* completeAbort).
THEOREM AbortsHitTheirTask == Spec => AbortHitsItsTask
  <1>1. ASSUME OInv, [Next]_laneVars
        PROVE  [\A i \in Prompts :
                    w.saved[i] = "submitted" /\ w'.saved[i] = "cancelled" => i \in stopped']_laneVars
    <2> SUFFICES ASSUME NEW i \in Prompts, w.saved[i] = "submitted", w'.saved[i] = "cancelled"
                 PROVE  i \in stopped'
      OBVIOUS
    <2>1. Moved(w, w', i, IdleNow(o), finished', stopped')
      BY <1>1, StepOnward DEF Onward, Leads
    <2> QED
      BY <2>1 DEF Moved, Final
  <1> QED
    BY <1>1, Accord, PTL DEF Spec, AbortHitsItsTask

=============================================================================
