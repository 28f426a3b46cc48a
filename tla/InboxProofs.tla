---------------------------- MODULE InboxProofs ----------------------------
(***************************************************************************)
(* Proofs about the inbox for any set of conversations, any page size,     *)
(* channel capacity, number of updates, stops and crashes.                 *)
(***************************************************************************)
EXTENDS Inbox, SequenceTheorems, FiniteSetTheorems, TLAPS

-----------------------------------------------------------------------------
\* Type correctness.

\* What appending to the mail or to a channel does.
LEMMA AppendFacts ==
    ASSUME NEW S, NEW s \in Seq(S), NEW e \in S
    PROVE  /\ Append(s, e) \in Seq(S)
           /\ DOMAIN s = 1 .. Len(s)
           /\ Len(s) \in Nat
           /\ Len(Append(s, e)) = Len(s) + 1
           /\ DOMAIN Append(s, e) = 1 .. Len(s) + 1
           /\ \A i \in DOMAIN s : Append(s, e)[i] = s[i]
           /\ Append(s, e)[Len(s) + 1] = e
  OBVIOUS

\* What taking the first input from a channel does.
LEMMA TailFacts ==
    ASSUME NEW S, NEW s \in Seq(S), s # <<>>
    PROVE  /\ Tail(s) \in Seq(S)
           /\ Head(s) \in S
           /\ Len(s) \in Nat \ {0}
           /\ DOMAIN s = 1 .. Len(s)
           /\ Head(s) = s[1]
           /\ DOMAIN Tail(s) = 1 .. Len(s) - 1
           /\ \A i \in DOMAIN Tail(s) : Tail(s)[i] = s[i + 1]
  OBVIOUS

\* The elements of a channel after its first one is taken.
LEMMA TakeFacts ==
    ASSUME NEW S, NEW s \in Seq(S), s # <<>>
    PROVE  /\ \A e : (\E i \in DOMAIN s : s[i] = e)
                       <=> e = Head(s) \/ \E i \in DOMAIN Tail(s) : Tail(s)[i] = e
           /\ (\A i, j \in DOMAIN s : i # j => s[i] # s[j]) =>
                /\ \A i, j \in DOMAIN Tail(s) : i # j => Tail(s)[i] # Tail(s)[j]
                /\ \A i \in DOMAIN Tail(s) : Tail(s)[i] # Head(s)
  <1> DEFINE r == Tail(s)  n == Len(s)
  <1>1. /\ n \in Nat \ {0} /\ DOMAIN s = 1 .. n /\ Head(s) = s[1] /\ DOMAIN r = 1 .. n - 1
        /\ \A i \in DOMAIN r : r[i] = s[i + 1]
    BY TailFacts
  <1> HIDE DEF r, n
  <1>2. 1 \in DOMAIN s /\ \A i \in DOMAIN r : i + 1 \in DOMAIN s /\ i + 1 # 1
    BY <1>1
  <1>3. \A i \in DOMAIN s : i = 1 \/ (i - 1 \in DOMAIN r /\ (i - 1) + 1 = i)
    BY <1>1
  <1>4. \A i, j \in DOMAIN r : i # j => i + 1 # j + 1
    BY <1>1
  <1>5. \A e : (\E i \in DOMAIN s : s[i] = e) <=> e = Head(s) \/ \E i \in DOMAIN r : r[i] = e
    <2> SUFFICES ASSUME NEW e
                 PROVE  (\E i \in DOMAIN s : s[i] = e)
                          <=> e = Head(s) \/ \E i \in DOMAIN r : r[i] = e
      OBVIOUS
    <2>1. ASSUME e = Head(s) PROVE \E i \in DOMAIN s : s[i] = e
      BY <1>1, <1>2, <2>1
    <2>2. ASSUME NEW i \in DOMAIN r, r[i] = e PROVE \E j \in DOMAIN s : s[j] = e
      <3>1. i + 1 \in DOMAIN s /\ s[i + 1] = e
        BY <1>1, <1>2, <2>2
      <3> QED
        BY <3>1
    <2>3. ASSUME NEW i \in DOMAIN s, s[i] = e, i # 1 PROVE \E j \in DOMAIN r : r[j] = e
      <3>1. i - 1 \in DOMAIN r /\ (i - 1) + 1 = i
        BY <1>3, <2>3
      <3>2. r[i - 1] = e
        BY <1>1, <2>3, <3>1
      <3> QED
        BY <3>1, <3>2
    <2> QED
      BY <1>1, <2>1, <2>2, <2>3
  <1>6. ASSUME \A i, j \in DOMAIN s : i # j => s[i] # s[j]
        PROVE  /\ \A i, j \in DOMAIN r : i # j => r[i] # r[j]
               /\ \A i \in DOMAIN r : r[i] # Head(s)
    BY <1>1, <1>2, <1>4, <1>6
  <1> QED
    BY <1>5, <1>6 DEF r

\* The initial state has the declared types.
LEMMA TypeInit == Init => TypeOK
  <1> SUFFICES ASSUME Init PROVE TypeOK
    OBVIOUS
  <1>1. /\ <<>> \in Seq(Messages) /\ Len(<<>>) = 0
        /\ <<>> \in Seq(Updates) /\ MaxUpdates \in Nat
    BY LimitAssumption
  <1>2. /\ mail \in Seq(Messages) /\ Len(mail) <= MaxUpdates
        /\ row \in [Updates -> RowStates] /\ offset \in 0 .. MaxUpdates + 1
        /\ notices \in [Updates -> Nat] /\ acted \in [Updates -> Nat]
    BY <1>1 DEF Init, RowStates
  <1>3. /\ stage \in [Topics -> Stages] /\ chan \in [Topics -> Seq(Updates)]
        /\ hand \in [Topics -> Updates \cup {0}]
        /\ held \in [Topics -> SUBSET Updates]
        /\ latest \in [Topics -> Updates \cup {0}]
    BY <1>1 DEF Init, Stages
  <1>4. cursor \in Int /\ through \in Int
    BY DEF Init
  <1> QED
    BY <1>2, <1>3, <1>4 DEF Init, TypeOK

\* The cursor before the first row is an integer.
LEMMA NoCursor == -1 \in Int /\ 0 \in Int
  OBVIOUS

\* Settling, submitting or accepting an input keeps the type of the table.
LEMMA MarkType ==
    ASSUME TypeOK, NEW u \in Updates, NEW s \in RowStates, Mark(u, s)
    PROVE  row' \in [Updates -> RowStates]
  BY DEF TypeOK, Mark

\* The poller and Telegram keep the types.
LEMMA TypePoller == TypeOK /\ (Users \/ Poller) => TypeOK'
  <1> SUFFICES ASSUME TypeOK, Users \/ Poller PROVE TypeOK'
    OBVIOUS
  <1> USE LimitAssumption DEF dbVars, pollVars, loopVars, workerVars, histVars
  <1>1. ASSUME NEW p \in Places, NEW s \in Sorts, Send(p, s) PROVE TypeOK'
    <2>1. [home |-> p, sort |-> s] \in Messages
      BY DEF Messages
    <2>2. mail' \in Seq(Messages) /\ Len(mail') <= MaxUpdates
      BY <1>1, <2>1, AppendFacts DEF Send, TypeOK
    <2> QED
      BY <1>1, <2>2 DEF Send, TypeOK
  <1>2. ASSUME GetUpdates PROVE TypeOK'
    <2>1. batch' \subseteq Updates
      BY <1>2 DEF GetUpdates, TypeOK, Updates
    <2> QED
      BY <1>2, <2>1 DEF GetUpdates, TypeOK
  <1>3. ASSUME NEW u \in Updates, Accept(u) PROVE TypeOK'
    <2>1. row' \in [Updates -> RowStates]
      BY <1>3, MarkType DEF Accept, StoreUpdate, TypeOK, RowStates, Open, Settled
    <2>2. offset' \in 0 .. MaxUpdates + 1
      BY <1>3 DEF Accept, StoreUpdate, TypeOK, Updates
    <2> QED
      BY <1>3, <2>1, <2>2 DEF Accept, StoreUpdate, TypeOK
  <1>4. ASSUME PollerLeaves PROVE TypeOK'
    BY <1>4 DEF PollerLeaves, TypeOK
  <1> QED
    BY <1>1, <1>2, <1>3, <1>4 DEF Users, Poller

\* The main loop keeps the types.
LEMMA TypeLoop == TypeOK /\ Loop => TypeOK'
  <1> SUFFICES ASSUME TypeOK, Loop PROVE TypeOK'
    OBVIOUS
  <1> USE LimitAssumption DEF dbVars, pollVars, loopVars, workerVars, histVars
  <1>1. ASSUME Prune PROVE TypeOK'
    <2>1. cursor' \in Int /\ through' \in Int /\ cycling' \in BOOLEAN
      <3>1. CASE cycling
        BY <1>1, <3>1 DEF Prune, KeepDelivered, TypeOK
      <3>2. CASE ~cycling
        BY <1>1, <3>2, NoCursor DEF Prune, KeepDelivered, TypeOK
      <3> QED
        BY <3>1, <3>2
    <2> QED
      BY <1>1, <2>1 DEF Prune, KeepDelivered, TypeOK
  <1>2. ASSUME ReadPage PROVE TypeOK'
    <2>1. page' \subseteq Updates
      BY <1>2 DEF ReadPage, ReadPageThen, PendingAfter, InState
    <2>2. cursor' \in Int /\ through' \in Int /\ cycling' \in BOOLEAN
      <3>1. CASE page' = {}
        BY <1>2, <3>1, NoCursor DEF ReadPage, ReadPageThen
      <3>2. CASE page' # {}
        <4>1. cursor' \in page' /\ through' = through /\ cycling' = (cycling /\ cursor' < through)
          BY <1>2, <3>2 DEF ReadPage, ReadPageThen
        <4> QED
          BY <2>1, <4>1 DEF TypeOK, Updates
      <3> QED
        BY <3>1, <3>2
    <2> QED
      BY <1>2, <2>1, <2>2 DEF ReadPage, ReadPageThen, TypeOK
  <1>3. ASSUME NEW u \in Updates, Delivered(u) PROVE TypeOK'
    BY <1>3 DEF Delivered, TypeOK
  <1>4. ASSUME NEW u \in Updates, IgnoreBarred(u) PROVE TypeOK'
    <2>1. row' \in [Updates -> RowStates]
      BY <1>4, MarkType DEF IgnoreBarred, RowStates, Settled
    <2> QED
      BY <1>4, <2>1 DEF IgnoreBarred, TypeOK
  <1>5. ASSUME NEW u \in Updates, EnqueueNotice(u) PROVE TypeOK'
    BY <1>5 DEF EnqueueNotice, EnqueueNotices, TypeOK
  <1>6. ASSUME NEW u \in Updates, MarkUnsupported(u) PROVE TypeOK'
    <2>1. row' \in [Updates -> RowStates]
      BY <1>6, MarkType DEF MarkUnsupported, RowStates, Settled
    <2> QED
      BY <1>6, <2>1 DEF MarkUnsupported, TypeOK
  <1>7. ASSUME NEW u \in Updates, NEW t \in Topics, Route(u, t) PROVE TypeOK'
    <2>1. chan' \in [Topics -> Seq(Updates)]
      BY <1>7, AppendFacts DEF Route, GiveToWorker, TypeOK
    <2>2. stage' \in [Topics -> Stages]
      BY <1>7 DEF Route, GiveToWorker, TypeOK, Stages
    <2> QED
      BY <1>7, <2>1, <2>2 DEF Route, GiveToWorker, TypeOK
  <1>8. ASSUME NEW u \in Updates, NEW t \in Topics, Hold(u, t) PROVE TypeOK'
    BY <1>8 DEF Hold, TypeOK
  <1>9. ASSUME PageRouted \/ Wake PROVE TypeOK'
    BY <1>9 DEF PageRouted, Wake, TypeOK
  <1>10. ASSUME NEW t \in Topics, RemoveExitedWorker(t) PROVE TypeOK'
    <2>1. /\ chan' \in [Topics -> Seq(Updates)]
          /\ stage' \in [Topics -> Stages]
      BY <1>10 DEF RemoveExitedWorker, TypeOK, Stages
    <2> QED
      BY <1>10, <2>1 DEF RemoveExitedWorker, TypeOK
  <1>11. ASSUME LoopLeaves PROVE TypeOK'
    BY <1>11, NoCursor DEF LoopLeaves, LoopGone, TypeOK
  <1> QED
    BY <1>1, <1>2, <1>3, <1>4, <1>5, <1>6, <1>7, <1>8, <1>9, <1>10, <1>11 DEF Loop

\* A worker keeps the types.
LEMMA TypeWorker ==
    ASSUME TypeOK, NEW t \in Topics, Handle(t) \/ Task(t) \/ Lifecycle(t)
    PROVE  TypeOK'
  <1> USE LimitAssumption DEF dbVars, pollVars, loopVars, workerVars, histVars
  <1>0. Settled \subseteq RowStates /\ Open \subseteq RowStates
    BY DEF RowStates
  <1>1. ASSUME Receive(t) PROVE TypeOK'
    <2>1. Head(chan[t]) \in Updates /\ Tail(chan[t]) \in Seq(Updates)
      BY <1>1, TailFacts DEF Receive, TypeOK
    <2>2. /\ chan' \in [Topics -> Seq(Updates)]
          /\ hand' \in [Topics -> Updates \cup {0}]
          /\ latest' \in [Topics -> Updates \cup {0}]
      BY <1>1, <2>1 DEF Receive, TypeOK
    <2> QED
      BY <1>1, <2>2 DEF Receive, TypeOK
  <1>2. ASSUME NEW u \in Updates, NEW s \in Open \cup Settled, Mark(u, s),
               hand' \in [Topics -> Updates \cup {0}],
               held' \in [Topics -> SUBSET Updates],
               calls' \subseteq Updates,
               UNCHANGED <<mail, offset, mode, barred, pollVars, loopVars, stage, chan,
                           histVars>>
        PROVE  TypeOK'
    <2>1. row' \in [Updates -> RowStates]
      BY <1>0, <1>2, MarkType
    <2> QED
      BY <1>2, <2>1 DEF TypeOK
  <1>3. ASSUME NEW S, Fresh(t, S) PROVE hand[t] \in Updates
    BY <1>3 DEF Fresh, TypeOK
  <1>4. ASSUME IgnoreNoise(t) PROVE TypeOK'
    BY <1>2, <1>3, <1>4 DEF IgnoreNoise, PutDown, TypeOK, Settled
  <1>5. ASSUME NEW s \in Settled, RefusePrompt(t, s) PROVE TypeOK'
    BY <1>2, <1>3, <1>5 DEF RefusePrompt, PutDown, TypeOK
  <1>6. ASSUME AbandonPrompt(t) PROVE TypeOK'
    BY <1>6 DEF AbandonPrompt, PutDown, TypeOK
  <1>7. ASSUME HoldPrompt(t) PROVE TypeOK'
    BY <1>3, <1>7 DEF HoldPrompt, PutDown, TypeOK
  <1>8. ASSUME BeginCommand(t) PROVE TypeOK'
    BY <1>2, <1>3, <1>8 DEF BeginCommand, TypeOK, Open
  <1>9. ASSUME Execute(t) PROVE TypeOK'
    BY <1>9 DEF Execute, TypeOK
  <1>10. ASSUME NEW s \in Settled, EndCommand(t, s) PROVE TypeOK'
    BY <1>2, <1>10 DEF EndCommand, PutDown, TypeOK
  <1>11. ASSUME NEW u \in Updates, Submit(t, u) PROVE TypeOK'
    BY <1>2, <1>11 DEF Submit, SubmitAs, TypeOK, Open
  <1>12. ASSUME NEW u \in Updates, Ask(t, u) PROVE TypeOK'
    BY <1>12 DEF Ask, TypeOK
  <1>13. ASSUME NEW u \in Updates, NEW s \in Settled, Settle(t, u, s) PROVE TypeOK'
    BY <1>2, <1>13 DEF Settle, TypeOK
  <1>14. ASSUME NEW u \in Updates, NEW s \in Settled, DropQueued(t, u, s) PROVE TypeOK'
    BY <1>2, <1>14 DEF DropQueued, TypeOK
  <1>15. ASSUME NEW u \in Updates, TeardownInput(t, u) PROVE TypeOK'
    <2>1. PICK s \in Settled : Mark(u, s)
      BY <1>15 DEF TeardownInput, Settled
    <2> QED
      BY <1>2, <1>15, <2>1 DEF TeardownInput, TypeOK
  <1>16. ASSUME NEW s \in Stages, Retire(t, s), forgets' \in Nat PROVE TypeOK'
    BY <1>16 DEF Retire, TypeOK
  <1>17. ASSUME Lifecycle(t) PROVE TypeOK'
    <2>1. forgets' \in Nat \/ \E u \in Updates : TeardownInput(t, u)
      BY <1>17 DEF Lifecycle, EvictIfIdle, ForgetBinding, BindingForgotten, BindingKept,
         BeginTeardown, WorkerReturns, TypeOK
    <2> QED
      BY <1>15, <1>16, <1>17, <2>1 DEF Lifecycle, EvictIfIdle, ForgetBinding,
         BindingForgotten, BindingKept, BeginTeardown, WorkerReturns, Stages, Fenced
  <1> QED
    BY <1>1, <1>4, <1>5, <1>6, <1>7, <1>8, <1>9, <1>10, <1>11, <1>12, <1>13, <1>14, <1>17
    DEF Handle, Task

\* Stop, crash and restart keep the types.
LEMMA TypeProcess == TypeOK /\ Process => TypeOK'
  <1> SUFFICES ASSUME TypeOK, Process PROVE TypeOK'
    OBVIOUS
  <1> USE LimitAssumption DEF dbVars, pollVars, loopVars, workerVars, histVars
  <1>1. ASSUME Stop PROVE TypeOK'
    <2>1. /\ at' \in {"prune", "read", "route", "mark", "wait", "left"}
          /\ delivered' \subseteq Updates /\ page' \subseteq Updates
          /\ cursor' \in Int /\ through' \in Int
          /\ cycling' \in BOOLEAN /\ blocked' \subseteq Topics
      <3>1. CASE LoopGone
        BY <3>1, NoCursor DEF LoopGone
      <3>2. CASE UNCHANGED loopVars
        BY <3>2 DEF TypeOK
      <3> QED
        BY <1>1, <3>1, <3>2 DEF Stop
    <2> QED
      BY <1>1, <2>1 DEF Stop, TypeOK
  <1>2. ASSUME BeginSweep PROVE TypeOK'
    BY <1>2 DEF BeginSweep, TypeOK
  <1>3. ASSUME NEW u \in Updates, CancelPendingPrompt(u) PROVE TypeOK'
    <2>1. row' \in [Updates -> RowStates]
      BY <1>3, MarkType DEF CancelPendingPrompt, RowStates, Settled
    <2> QED
      BY <1>3, <2>1 DEF CancelPendingPrompt, TypeOK
  <1>4. ASSUME NoProcess
        PROVE  /\ batch' \subseteq Updates /\ polling' \in BOOLEAN /\ at' = "left"
               /\ delivered' \subseteq Updates /\ cursor' \in Int /\ through' \in Int
               /\ cycling' \in BOOLEAN /\ page' \subseteq Updates /\ blocked' \subseteq Topics
               /\ stage' \in [Topics -> Stages] /\ chan' \in [Topics -> Seq(Updates)]
               /\ hand' \in [Topics -> Updates \cup {0}]
               /\ held' \in [Topics -> SUBSET Updates] /\ calls' \subseteq Updates
    <2>1. <<>> \in Seq(Updates)
      OBVIOUS
    <2> QED
      BY <1>4, <2>1, NoCursor DEF NoProcess, LoopGone, Stages
  <1>5. ASSUME Exit \/ Crash PROVE TypeOK'
    BY <1>4, <1>5 DEF Exit, Crash, TypeOK
  <1>6. ASSUME Reopen PROVE TypeOK'
    <2>1. row' \in [Updates -> RowStates] /\ barred' \in BOOLEAN /\ old' \subseteq Updates
      BY <1>6 DEF Reopen, ReopenWith, TypeOK, RowStates, Settled
    <2> QED
      BY <1>6, <2>1 DEF Reopen, ReopenWith, TypeOK
  <1>7. ASSUME Start PROVE TypeOK'
    <2>1. stage' \in [Topics -> Stages]
      BY <1>7 DEF Start, StartUp, Stages
    <2> QED
      BY <1>7, <2>1 DEF Start, StartUp, TypeOK
  <1> QED
    BY <1>1, <1>2, <1>3, <1>5, <1>6, <1>7 DEF Process

\* Every step keeps the types.
LEMMA TypeStep == TypeOK /\ [Next]_vars => TypeOK'
  <1> SUFFICES ASSUME TypeOK, [Next]_vars PROVE TypeOK'
    OBVIOUS
  <1>1. ASSUME UNCHANGED vars PROVE TypeOK'
    BY <1>1 DEF vars, dbVars, pollVars, loopVars, workerVars, histVars, TypeOK
  <1> QED
    BY <1>1, TypePoller, TypeLoop, TypeWorker, TypeProcess DEF Next
-----------------------------------------------------------------------------
\* The initial state, and what a part of the invariant depends on.

\* The invariant holds of an empty inbox without a process.
LEMMA InvInit == Init => IInv
  <1> SUFFICES ASSUME Init PROVE IInv
    OBVIOUS
  <1>1. TypeOK
    BY TypeInit
  <1>2. RowsInv
    BY DEF Init, RowsInv, NothingLost, RowsHaveMail
  <1>3. ActsInv
    BY DEF Init, ActsInv, ActsOnce, PendingHasNotActed, CallsAreTrue, OldIsOver
  <1>4. LoopInv
    BY DEF Init, LoopInv, PageIsFresh, DoneIsNoticed
  <1>5. WorkersInv
    BY DEF Init, WorkersInv, NoMemory, SweepsAlone, StagesAreTrue, Idle
  <1>6. InputsInv
    BY DEF Init, InputsInv, GivenOnce, NothingStranded, InputsAreTrue, Has, InChan, Running
  <1> QED
    BY <1>1, <1>2, <1>3, <1>4, <1>5, <1>6 DEF IInv

\* Mail and rows stay in step if no row appears or vanishes.
LEMMA RowsKept ==
    ASSUME RowsInv, UNCHANGED <<mail, offset>>, batch' \in {batch, {}},
           \A u \in Updates : row'[u] = "absent" <=> row[u] = "absent",
           TypeOK
    PROVE  RowsInv'
  <1>1. \A u \in 1 .. Len(mail) : u \in Updates
    BY LimitAssumption DEF TypeOK, Updates
  <1> QED
    BY <1>1 DEF RowsInv, NothingLost, RowsHaveMail

\* Effects and calls do not change.
LEMMA ActsKept ==
    ASSUME ActsInv, UNCHANGED <<mail, row, acted, old>>, calls' \subseteq calls,
           \/ mode' = mode
           \/ mode' = "down"
           \/ mode \in {"up", "stopping"} /\ mode' \in {"stopping", "sweeping"}
    PROVE  ActsInv'
  BY DEF ActsInv, ActsOnce, PendingHasNotActed, CallsAreTrue, OldIsOver, Deferred, Sort

\* The page and the notices do not change.
LEMMA LoopKept ==
    ASSUME LoopInv, UNCHANGED <<mail, row, at, page, delivered, notices>>
    PROVE  LoopInv'
  BY DEF LoopInv, PageIsFresh, DoneIsNoticed, IsLeast, Home

\* The registry and the workers' memory do not change, and the process runs on.
LEMMA WorkersKept ==
    ASSUME WorkersInv, Running, UNCHANGED <<mode, stage, chan, hand, held>>
    PROVE  WorkersInv'
  BY DEF WorkersInv, NoMemory, SweepsAlone, StagesAreTrue, Idle, Running

\* The inputs of the workers do not change.
LEMMA InputsKept ==
    ASSUME InputsInv, UNCHANGED <<mail, row, barred, mode, delivered, stage, chan, hand, held>>,
           at' = "left" \/ at # "left"
    PROVE  InputsInv'
  BY DEF InputsInv, GivenOnce, NothingStranded, InputsAreTrue, Has, InChan, Running,
     Home, Authorized, Sort
-----------------------------------------------------------------------------
\* A worker's step.

\* What a worker's step leaves alone: everything of the loop, the poller, the
\* registry and the other workers.
ActorFrame(t) ==
    /\ UNCHANGED <<mail, offset, mode, barred, batch, polling, at, delivered, page, stage,
                   notices, old>>
    /\ \A v \in Topics \ {t} : chan'[v] = chan[v] /\ hand'[v] = hand[v] /\ held'[v] = held[v]

\* An input of worker t changes its row the way an open row may.
Progresses(u, s) ==
    \/ row[u] = "pending" /\ s \in {"submitted"} \cup Settled
    \/ row[u] = "submitted" /\ s \in Settled \ {"ignored"}

\* What the invariant says of an input a worker has.
LEMMA InputFacts ==
    ASSUME TypeOK, InputsInv, LoopInv, PlaceAssumption, Running, NEW t \in Topics,
           NEW u \in Updates, Has(t, u)
    PROVE  /\ u \in 1 .. Len(mail) /\ Home(u) = t /\ Home(u) \notin Unsupported
           /\ row[u] \in Open /\ Authorized(u)
           /\ row[u] = "pending" => u \in delivered \/ u \notin page
           /\ \A v \in Topics : Has(v, u) => v = t
  <1>1. Home(u) = t /\ row[u] \in Open /\ \A v \in Topics : Has(v, u) => Home(u) = v
    BY DEF InputsInv, GivenOnce
  <1>2. u <= Len(mail) /\ Authorized(u)
        /\ (at # "left" /\ row[u] = "pending" => u \in delivered)
    BY DEF InputsInv, InputsAreTrue
  <1>3. at = "left" => page = {}
    BY DEF LoopInv, PageIsFresh
  <1>4. u \in 1 .. Len(mail)
    BY <1>2 DEF TypeOK, Updates
  <1> QED
    BY <1>1, <1>2, <1>3, <1>4

\* A worker submits or settles one of its inputs.
LEMMA ActorMark ==
    ASSUME IInv, NEW t \in Topics, NEW u \in Updates, NEW s \in RowStates,
           Running, Has(t, u), Progresses(u, s), Mark(u, s), ActorFrame(t),
           UNCHANGED acted, calls' \subseteq calls \cup {u},
           u \in calls' => s = "submitted"
    PROVE  RowsInv' /\ ActsInv' /\ LoopInv'
  <1> USE DEF IInv, ActorFrame
  <1>1. /\ u \in 1 .. Len(mail) /\ Home(u) \notin Unsupported /\ row[u] \in Open
        /\ row[u] = "pending" => u \in delivered \/ u \notin page
    BY InputFacts, PlaceAssumption
  <1>2. /\ row' = [row EXCEPT ![u] = s] /\ s # "absent" /\ row[u] # "absent"
        /\ row \in [Updates -> RowStates]
    BY <1>1 DEF Mark, TypeOK, Progresses, Settled, Open
  <1>3. RowsInv'
    BY <1>2, RowsKept
  <1>4. ActsInv'
    <2>1. \A v \in Updates : acted[v] <= 1
      BY DEF ActsInv, ActsOnce
    <2>2. row[u] = "pending" => acted[u] = 0
      BY DEF ActsInv, PendingHasNotActed
    <2>3. PendingHasNotActed'
      BY <1>2, <2>2 DEF ActsInv, PendingHasNotActed, Progresses, Settled
    <2>4. CallsAreTrue'
      BY <1>2, <2>2 DEF ActsInv, CallsAreTrue, Progresses, Settled
    <2>5. OldIsOver'
      BY <1>1, <1>2 DEF ActsInv, OldIsOver, Deferred, Sort, Running, Open, Settled
    <2> QED
      BY <2>1, <2>3, <2>4, <2>5 DEF ActsInv, ActsOnce
  <1>5. LoopInv'
    <2>1. PageIsFresh'
      BY <1>1, <1>2 DEF LoopInv, PageIsFresh, Progresses, IsLeast, Home
    <2>2. DoneIsNoticed'
      BY <1>1, <1>2 DEF LoopInv, DoneIsNoticed, Home
    <2> QED
      BY <2>1, <2>2 DEF LoopInv
  <1> QED
    BY <1>3, <1>4, <1>5

\* A worker's inputs stay in order when it gains none, loses only settled ones (or
\* any, when the bridge is not up), and changes the rows of no other worker's inputs.
LEMMA ActorInputs ==
    ASSUME IInv, TypeOK', NEW t \in Topics, Running, ActorFrame(t),
           stage[t] = "running" \/ (stage[t] = "closing" /\ hand'[t] = hand[t]),
           \A u \in Updates :
              /\ Has(t, u)' => Has(t, u) /\ row'[u] \in Open
              /\ InChan(t, u)' => InChan(t, u) /\ row'[u] = row[u]
              /\ row'[u] = "pending" => row[u] = "pending"
              /\ row'[u] # row[u] => Has(t, u)
              /\ mode = "up" /\ Has(t, u) /\ row'[u] = "pending" => Has(t, u)',
           \A i, j \in DOMAIN chan'[t] : i # j => chan'[t][i] # chan'[t][j],
           hand'[t] # 0 => ~InChan(t, hand[t])' /\ hand'[t] \notin held'[t],
           \A u \in held'[t] : ~InChan(t, u)'
    PROVE  WorkersInv' /\ InputsInv'
  <1> USE DEF IInv, ActorFrame
  <1>1. WorkersInv'
    <2>1. NoMemory' /\ SweepsAlone'
      BY DEF NoMemory, SweepsAlone, Running
    <2>2. ASSUME NEW v \in Topics PROVE StagesAreTrue(v)'
      <3>1. CASE v = t
        BY <3>1 DEF WorkersInv, StagesAreTrue
      <3>2. CASE v # t
        BY <3>2 DEF WorkersInv, StagesAreTrue, Idle
      <3> QED
        BY <3>1, <3>2
    <2> QED
      BY <2>1, <2>2 DEF WorkersInv
  <1>2. ASSUME NEW v \in Topics \ {t}, NEW u \in Updates
        PROVE  /\ Has(v, u)' <=> Has(v, u)
               /\ InChan(v, u)' <=> InChan(v, u)
               /\ Has(v, u) => row'[u] = row[u]
    <2>1. Has(v, u)' <=> Has(v, u)
      BY DEF Has, InChan
    <2>2. InChan(v, u)' <=> InChan(v, u)
      BY DEF InChan
    <2>3. Has(v, u) => ~Has(t, u)
      BY InputFacts, PlaceAssumption
    <2> QED
      BY <2>1, <2>2, <2>3
  <1>3. \A u \in Updates : Home(u)' = Home(u) /\ Authorized(u)' = Authorized(u)
    BY DEF Home, Authorized, Sort
  <1>4. GivenOnce'
    <2> SUFFICES ASSUME NEW v \in Topics
                 PROVE  /\ \A i, j \in DOMAIN chan'[v] : i # j => chan'[v][i] # chan'[v][j]
                        /\ hand'[v] # 0 => ~InChan(v, hand[v])' /\ hand'[v] \notin held'[v]
                        /\ \A u \in held'[v] : ~InChan(v, u)'
                        /\ \A u \in Updates : Has(v, u)' => Home(u)' = v /\ row'[u] \in Open
      BY DEF GivenOnce
    <2>1. CASE v = t
      BY <1>3, <2>1 DEF InputsInv, GivenOnce
    <2>2. CASE v # t
      <3>1. /\ \A i, j \in DOMAIN chan[v] : i # j => chan[v][i] # chan[v][j]
            /\ hand[v] # 0 => ~InChan(v, hand[v]) /\ hand[v] \notin held[v]
            /\ \A u \in held[v] : ~InChan(v, u)
            /\ \A u \in Updates : Has(v, u) => Home(u) = v /\ row[u] \in Open
        BY DEF InputsInv, GivenOnce
      <3>2. chan'[v] = chan[v] /\ hand'[v] = hand[v] /\ held'[v] = held[v]
        BY <2>2
      <3>3. \A u : InChan(v, u)' <=> InChan(v, u)
        BY <3>2 DEF InChan
      <3>4. InChan(v, hand[v])' <=> InChan(v, hand[v])
        BY <3>2 DEF InChan
      <3> QED
        BY <1>2, <1>3, <2>2, <3>1, <3>2, <3>3, <3>4
    <2> QED
      BY <2>1, <2>2
  <1>5. NothingStranded'
    <2> SUFFICES ASSUME mode = "up", NEW u \in delivered, row'[u] = "pending"
                 PROVE  \E v \in Topics : stage[v] = "running" /\ Has(v, u)'
      BY DEF NothingStranded
    <2>0. u \in Updates
      BY DEF TypeOK
    <2>1. PICK v \in Topics : stage[v] = "running" /\ Has(v, u)
      BY <2>0 DEF InputsInv, NothingStranded
    <2> QED
      BY <1>2, <2>0, <2>1
  <1>6. ASSUME NEW v \in Topics PROVE InputsAreTrue(v)'
    <2> SUFFICES ASSUME NEW u \in Updates, Has(v, u)'
                 PROVE  /\ u <= Len(mail)
                        /\ Authorized(u)'
                        /\ InChan(v, u)' => row'[u] = "pending"
                        /\ at # "left" /\ row'[u] = "pending" => u \in delivered
      BY DEF InputsAreTrue, Running
    <2>1. Has(v, u) /\ (InChan(v, u)' => InChan(v, u) /\ row'[u] = row[u])
      BY <1>2
    <2> QED
      BY <1>3, <2>1 DEF InputsInv, InputsAreTrue
  <1> QED
    BY <1>1, <1>4, <1>5, <1>6 DEF InputsInv

\* A worker submits or settles the input in its hand or one it holds.
LEMMA ActorProgress ==
    ASSUME IInv, TypeOK', NEW t \in Topics, NEW u \in Updates, NEW s \in RowStates,
           Running, u = hand[t] \/ u \in held[t], Progresses(u, s), Mark(u, s),
           ActorFrame(t), UNCHANGED <<acted, chan>>, calls' \subseteq calls \cup {u},
           u \in calls' => s = "submitted",
           stage[t] = "running" \/ (stage[t] = "closing" /\ hand'[t] = hand[t]),
           hand'[t] = hand[t] \/ (hand'[t] = 0 /\ hand[t] = u),
           held'[t] \in {held[t], held[t] \ {u}},
           s # "submitted" => hand'[t] # u /\ u \notin held'[t]
    PROVE  IInv'
  <1>1. Has(t, u)
    BY DEF Has
  <1>2. RowsInv' /\ ActsInv' /\ LoopInv'
    BY <1>1, ActorMark
  <1>3. /\ \A i, j \in DOMAIN chan[t] : i # j => chan[t][i] # chan[t][j]
        /\ hand[t] # 0 => ~InChan(t, hand[t]) /\ hand[t] \notin held[t]
        /\ \A v \in held[t] : ~InChan(t, v)
        /\ \A v \in Updates : Has(t, v) => row[v] \in Open
    BY DEF IInv, InputsInv, GivenOnce
  <1>4. u # 0 /\ ~InChan(t, u) /\ row' = [row EXCEPT ![u] = s] /\ row \in [Updates -> RowStates]
    BY <1>3 DEF Updates, Mark, IInv, TypeOK
  <1>5. \A v : InChan(t, v)' <=> InChan(t, v)
    BY DEF InChan
  <1>6. InChan(t, hand[t])' <=> InChan(t, hand'[t])
    BY DEF InChan
  <1>7. ASSUME NEW v \in Updates
        PROVE  /\ Has(t, v)' => Has(t, v) /\ row'[v] \in Open
               /\ InChan(t, v)' => InChan(t, v) /\ row'[v] = row[v]
               /\ row'[v] = "pending" => row[v] = "pending"
               /\ row'[v] # row[v] => Has(t, v)
               /\ mode = "up" /\ Has(t, v) /\ row'[v] = "pending" => Has(t, v)'
    <2>0. Has(t, v)' <=> InChan(t, v) \/ hand'[t] = v \/ v \in held'[t]
      BY <1>5 DEF Has
    <2>1. CASE v = u
      BY <1>1, <1>3, <1>4, <1>5, <2>0, <2>1 DEF Progresses, Open, Settled
    <2>2. CASE v # u
      <3>1. row'[v] = row[v]
        BY <1>4, <2>2
      <3>2. Has(t, v)' <=> Has(t, v)
        BY <2>0, <2>2 DEF Has, Updates
      <3> QED
        BY <1>3, <1>5, <3>1, <3>2
    <2> QED
      BY <2>1, <2>2
  <1>8. /\ hand'[t] # 0 => ~InChan(t, hand[t])' /\ hand'[t] \notin held'[t]
        /\ \A v \in held'[t] : ~InChan(t, v)'
    BY <1>3, <1>5, <1>6
  <1>9. \A i, j \in DOMAIN chan'[t] : i # j => chan'[t][i] # chan'[t][j]
    BY <1>3
  <1>10. WorkersInv' /\ InputsInv'
    BY <1>7, <1>8, <1>9, ActorInputs
  <1> QED
    BY <1>2, <1>10 DEF IInv

\* OMP gets a submitted prompt, or the bridge executes a submitted command: the call
\* is over, so it happens once.
LEMMA ActorActs ==
    ASSUME IInv, TypeOK', NEW u \in calls, Running, calls' = calls \ {u},
           acted' = [acted EXCEPT ![u] = @ + 1],
           UNCHANGED <<mail, dbVars, mode, barred, pollVars, loopVars, stage, chan, hand, held,
                       notices, old>>
    PROVE  IInv'
  <1> USE DEF IInv, dbVars, pollVars, loopVars
  <1>1. u \in Updates /\ row[u] = "submitted" /\ acted[u] = 0 /\ acted \in [Updates -> Nat]
    BY DEF TypeOK, ActsInv, CallsAreTrue
  <1>2. RowsInv' /\ LoopInv' /\ WorkersInv' /\ InputsInv'
    BY RowsKept, LoopKept, WorkersKept, InputsKept
  <1>3. ActsInv'
    BY <1>1 DEF ActsInv, ActsOnce, PendingHasNotActed, CallsAreTrue, OldIsOver, Deferred, Sort
  <1> QED
    BY <1>2, <1>3

\* An input changes its place within a worker, its row does not change.
LEMMA ActorMoves ==
    ASSUME IInv, TypeOK', NEW t \in Topics, Actor(t), ActorFrame(t),
           UNCHANGED <<row, acted, calls>>,
           \A u \in Updates :
              /\ Has(t, u)' => Has(t, u)
              /\ InChan(t, u)' => InChan(t, u)
              /\ mode = "up" /\ Has(t, u) => Has(t, u)',
           \A i, j \in DOMAIN chan'[t] : i # j => chan'[t][i] # chan'[t][j],
           hand'[t] # 0 => ~InChan(t, hand[t])' /\ hand'[t] \notin held'[t],
           \A u \in held'[t] : ~InChan(t, u)'
    PROVE  IInv'
  <1> USE DEF IInv, ActorFrame, Actor
  <1>1. RowsInv' /\ ActsInv' /\ LoopInv'
    BY RowsKept, ActsKept, LoopKept
  <1>2. \A u \in Updates : Has(t, u)' => row'[u] \in Open
    BY DEF InputsInv, GivenOnce
  <1>3. WorkersInv' /\ InputsInv'
    BY <1>2, ActorInputs
  <1> QED
    BY <1>1, <1>3

\* The actions of a worker on the input in its hand keep the invariant.
LEMMA HandleStep ==
    ASSUME IInv, TypeOK', NEW t \in Topics, Handle(t)
    PROVE  IInv'
  <1> USE DEF dbVars, pollVars, loopVars, histVars
  <1>1. Running /\ stage[t] = "running"
    BY DEF Handle, Receive, IgnoreNoise, RefusePrompt, AbandonPrompt, HoldPrompt,
       BeginCommand, Execute, EndCommand, Fresh, Actor
  <1>2. /\ \A i, j \in DOMAIN chan[t] : i # j => chan[t][i] # chan[t][j]
        /\ hand[t] # 0 => ~InChan(t, hand[t]) /\ hand[t] \notin held[t]
        /\ \A u \in held[t] : ~InChan(t, u)
    BY <1>1 DEF IInv, InputsInv, GivenOnce
  <1>3. /\ hand \in [Topics -> Updates \cup {0}] /\ held \in [Topics -> SUBSET Updates]
        /\ chan \in [Topics -> Seq(Updates)] /\ 0 \notin Updates
        /\ Settled \subseteq RowStates /\ "submitted" \in RowStates
    BY DEF IInv, TypeOK, Updates, RowStates, Open
  <1>4. \A u \in Updates : row[u] = "pending" => u \notin calls
    BY DEF IInv, ActsInv, CallsAreTrue
  <1>5. ASSUME NEW s \in Settled, Mark(hand[t], s), PutDown(t), hand[t] # 0,
               row[hand[t]] = "pending" \/ (row[hand[t]] = "submitted" /\ s # "ignored"),
               hand[t] \notin calls,
               UNCHANGED <<mail, offset, mode, barred, pollVars, loopVars, stage, chan,
                           held, calls, histVars>>
        PROVE  IInv'
    <2>1. hand[t] \in Updates /\ Progresses(hand[t], s) /\ s # "submitted" /\ hand'[t] = 0
      BY <1>3, <1>5 DEF Progresses, Settled, PutDown
    <2>2. ActorFrame(t)
      BY <1>5 DEF ActorFrame, PutDown
    <2> QED
      BY <1>1, <1>2, <1>3, <1>5, <2>1, <2>2, ActorProgress
  <1>6. ASSUME Receive(t) PROVE IInv'
    <2>1. hand'[t] = Head(chan[t]) /\ chan'[t] = Tail(chan[t]) /\ held' = held /\ hand[t] = 0
          /\ chan[t] # <<>>
      BY <1>3, <1>6 DEF Receive
    <2>3. ActorFrame(t)
      BY <1>3, <1>6 DEF Receive, ActorFrame
    <2>4. /\ \A u : (\E i \in DOMAIN chan[t] : chan[t][i] = u)
                     <=> u = hand'[t] \/ \E i \in DOMAIN chan'[t] : chan'[t][i] = u
          /\ \A i, j \in DOMAIN chan'[t] : i # j => chan'[t][i] # chan'[t][j]
          /\ \A i \in DOMAIN chan'[t] : chan'[t][i] # hand'[t]
      <3> DEFINE c == chan[t]
      <3>1. c \in Seq(Updates) /\ c # <<>>
        BY <1>3, <2>1
      <3>2. \A i, j \in DOMAIN c : i # j => c[i] # c[j]
        BY <1>2
      <3>3. hand'[t] = Head(c) /\ chan'[t] = Tail(c)
        BY <2>1
      <3> HIDE DEF c
      <3>4. /\ \A e : (\E i \in DOMAIN c : c[i] = e)
                        <=> e = Head(c) \/ \E i \in DOMAIN Tail(c) : Tail(c)[i] = e
            /\ \A i, j \in DOMAIN Tail(c) : i # j => Tail(c)[i] # Tail(c)[j]
            /\ \A i \in DOMAIN Tail(c) : Tail(c)[i] # Head(c)
        BY <3>1, <3>2, TakeFacts, Zenon
      <3> QED
        BY <3>3, <3>4, Zenon DEF c
    <2>5. \A u : InChan(t, u) <=> InChan(t, u)' \/ hand'[t] = u
      BY <2>4 DEF InChan
    <2>6. ~InChan(t, hand[t])'
      BY <2>4 DEF InChan
    <2>7. InChan(t, hand'[t])
      BY <2>5
    <2>8. hand'[t] \in Updates
      BY <1>3, <2>1, TailFacts
    <2>9. hand'[t] \notin held'[t] /\ \A u \in held'[t] : ~InChan(t, u)'
      BY <1>2, <1>3, <2>1, <2>5, <2>7
    <2>10. \A u \in Updates : Has(t, u)' <=> Has(t, u)
      BY <1>3, <2>1, <2>5 DEF Has
    <2>11. UNCHANGED <<row, acted, calls>> /\ Actor(t)
      BY <1>6 DEF Receive
    <2> QED
      BY <2>3, <2>4, <2>5, <2>6, <2>9, <2>10, <2>11, ActorMoves
  <1>7. ASSUME IgnoreNoise(t) PROVE IInv'
    BY <1>3, <1>4, <1>5, <1>7 DEF IgnoreNoise, Fresh, Settled
  <1>8. ASSUME NEW s \in Settled, RefusePrompt(t, s) PROVE IInv'
    BY <1>3, <1>4, <1>5, <1>8 DEF RefusePrompt, Fresh
  <1>9. ASSUME AbandonPrompt(t) \/ HoldPrompt(t) PROVE IInv'
    <2>1. /\ hand'[t] = 0 /\ chan' = chan /\ hand[t] \in Updates
          /\ held'[t] = held[t] \/ held'[t] = held[t] \cup {hand[t]}
          /\ mode = "up" => held'[t] = held[t] \cup {hand[t]}
          /\ UNCHANGED <<row, acted, calls>> /\ Actor(t)
      BY <1>3, <1>9 DEF AbandonPrompt, HoldPrompt, Fresh, PutDown
    <2>2. ActorFrame(t)
      BY <1>3, <1>9 DEF AbandonPrompt, HoldPrompt, PutDown, ActorFrame
    <2>3. \A u : InChan(t, u)' <=> InChan(t, u)
      BY <2>1 DEF InChan
    <2>4. \A u \in Updates : /\ Has(t, u)' => Has(t, u)
                             /\ mode = "up" /\ Has(t, u) => Has(t, u)'
      BY <1>3, <2>1, <2>3 DEF Has
    <2>5. \A u \in held'[t] : ~InChan(t, u)'
      BY <1>2, <1>3, <2>1, <2>3
    <2> QED
      BY <1>2, <2>1, <2>2, <2>3, <2>4, <2>5, ActorMoves
  <1>10. ASSUME BeginCommand(t) PROVE IInv'
    <2>1. hand[t] \in Updates /\ Progresses(hand[t], "submitted")
      BY <1>3, <1>10 DEF BeginCommand, Fresh, Progresses
    <2>2. ActorFrame(t)
      BY <1>10 DEF ActorFrame, BeginCommand
    <2> QED
      BY <1>1, <1>3, <1>10, <2>1, <2>2, ActorProgress DEF BeginCommand
  <1>11. ASSUME Execute(t) PROVE IInv'
    BY <1>1, <1>11, ActorActs DEF Execute
  <1>12. ASSUME NEW s \in Settled, EndCommand(t, s) PROVE IInv'
    BY <1>5, <1>12 DEF EndCommand
  <1> QED
    BY <1>6, <1>7, <1>8, <1>9, <1>10, <1>11, <1>12 DEF Handle

\* The actions of a worker on the prompts it holds keep the invariant.
LEMMA TaskStep ==
    ASSUME IInv, TypeOK', NEW t \in Topics, NEW u \in Updates,
           \/ Submit(t, u)
           \/ Ask(t, u)
           \/ \E s \in Settled : Settle(t, u, s) \/ DropQueued(t, u, s)
           \/ TeardownInput(t, u)
    PROVE  IInv'
  <1> USE DEF dbVars, pollVars, loopVars, histVars
  <1>1. /\ hand \in [Topics -> Updates \cup {0}] /\ held \in [Topics -> SUBSET Updates]
        /\ 0 \notin Updates
        /\ Settled \subseteq RowStates /\ "submitted" \in RowStates
    BY DEF IInv, TypeOK, Updates, RowStates, Open
  <1>2. row[u] = "pending" => u \notin calls
    BY DEF IInv, ActsInv, CallsAreTrue
  <1>3. Running /\ u \in held[t] => hand[t] # u
    BY <1>1 DEF IInv, InputsInv, GivenOnce
  <1>4. ASSUME NEW s \in Settled, Running, stage[t] \in {"running", "closing"},
               u \in held[t], row[u] \in Open, s # "ignored", Mark(u, s),
               held' = [held EXCEPT ![t] = @ \ {u}], calls' = calls \ {u},
               UNCHANGED <<mail, offset, mode, barred, pollVars, loopVars, stage, chan,
                           hand, histVars>>
        PROVE  IInv'
    <2>1. Progresses(u, s) /\ s # "submitted" /\ u \notin held'[t]
      BY <1>1, <1>4 DEF Progresses, Settled, Open
    <2>2. ActorFrame(t)
      BY <1>4 DEF ActorFrame
    <2> QED
      BY <1>1, <1>3, <1>4, <2>1, <2>2, ActorProgress
  <1>5. ASSUME Submit(t, u) PROVE IInv'
    <2>1. Progresses(u, "submitted")
      BY <1>5 DEF Submit, SubmitAs, Progresses
    <2>2. ActorFrame(t)
      BY <1>5 DEF Submit, SubmitAs, ActorFrame
    <2> QED
      BY <1>1, <1>5, <2>1, <2>2, ActorProgress DEF Submit, SubmitAs, Actor
  <1>6. ASSUME Ask(t, u) PROVE IInv'
    BY <1>6, ActorActs DEF Ask
  <1>7. ASSUME NEW s \in Settled, Settle(t, u, s) PROVE IInv'
    BY <1>4, <1>7 DEF Settle, Actor, Open
  <1>8. ASSUME NEW s \in Settled, DropQueued(t, u, s) PROVE IInv'
    <2>1. calls' = calls \ {u}
      BY <1>2, <1>8 DEF DropQueued
    <2> QED
      BY <1>4, <1>8, <2>1 DEF DropQueued, Actor, Open
  <1>9. ASSUME TeardownInput(t, u) PROVE IInv'
    <2>1. PICK s \in {"cancelled", "uncertain"} : Mark(u, s)
      BY <1>9 DEF TeardownInput
    <2> QED
      BY <1>4, <1>9, <2>1 DEF TeardownInput, Open, Settled
  <1> QED
    BY <1>5, <1>6, <1>7, <1>8, <1>9

\* A worker is evicted, forgets its binding or keeps it, is torn down or returns: it
\* takes no input with it.
LEMMA LifecycleStep ==
    ASSUME IInv, TypeOK', NEW t \in Topics, Lifecycle(t)
    PROVE  IInv'
  <1> USE DEF dbVars, pollVars, loopVars, IInv
  <1>1. ASSUME NEW p \in Stages, Retire(t, p), Running, StagesAreTrue(t)',
               stage[t] = "running" => Idle(t) \/ mode = "stopping"
        PROVE  IInv'
    <2>1. /\ stage \in [Topics -> Stages] /\ stage' = [stage EXCEPT ![t] = p]
          /\ UNCHANGED <<mail, row, offset, mode, barred, batch, polling, at, delivered, page,
                         chan, hand, held, calls, acted, notices, old>>
      BY <1>1 DEF Retire, TypeOK
    <2>2. RowsInv' /\ ActsInv' /\ LoopInv'
      BY <2>1, RowsKept, ActsKept, LoopKept
    <2>3. NoMemory' /\ SweepsAlone'
      BY <1>1, <2>1 DEF NoMemory, SweepsAlone, Running
    <2>4. ASSUME NEW v \in Topics, v # t PROVE StagesAreTrue(v)'
      BY <2>1, <2>4 DEF WorkersInv, StagesAreTrue, Idle
    <2>5. \A v \in Topics, u \in Updates : Has(v, u)' <=> Has(v, u)
      BY <2>1 DEF Has, InChan
    <2>6. GivenOnce' /\ \A v \in Topics : InputsAreTrue(v)'
      BY <2>1 DEF InputsInv, GivenOnce, InputsAreTrue, Has, InChan, Running, Home, Authorized,
         Sort
    <2>7. NothingStranded'
      <3> SUFFICES ASSUME mode = "up", NEW u \in delivered, row[u] = "pending"
                   PROVE  \E v \in Topics : stage'[v] = "running" /\ Has(v, u)
        BY <2>1, <2>5 DEF NothingStranded, TypeOK
      <3>1. u \in Updates /\ u # 0
        BY DEF TypeOK, Updates
      <3>2. PICK v \in Topics : stage[v] = "running" /\ Has(v, u)
        BY DEF InputsInv, NothingStranded
      <3>3. v # t
        BY <1>1, <3>1, <3>2 DEF Idle, Has, InChan
      <3> QED
        BY <2>1, <3>2, <3>3
    <2> QED
      BY <1>1, <2>2, <2>3, <2>4, <2>6, <2>7 DEF WorkersInv, InputsInv
  <1>2. StagesAreTrue(t) /\ stage \in [Topics -> Stages]
    BY DEF WorkersInv, TypeOK
  <1>3. ASSUME EvictIfIdle(t) \/ ForgetBinding(t) PROVE IInv'
    <2>1. PICK p \in {"fenced", "leaving"} : Retire(t, p)
      BY <1>3 DEF EvictIfIdle, ForgetBinding
    <2>2. StagesAreTrue(t)'
      BY <1>2, <1>3, <2>1 DEF EvictIfIdle, ForgetBinding, Retire, StagesAreTrue, Idle
    <2> QED
      BY <1>1, <1>3, <2>1, <2>2 DEF EvictIfIdle, ForgetBinding, Actor, Stages, Fenced
  <1>4. ASSUME BindingForgotten(t) \/ BindingKept(t) PROVE IInv'
    <2>1. PICK p \in {"leaving", "running"} : Retire(t, p)
      BY <1>4 DEF BindingForgotten, BindingKept
    <2>2. StagesAreTrue(t)'
      BY <1>2, <1>4, <2>1 DEF BindingForgotten, BindingKept, Retire, StagesAreTrue, Idle
    <2> QED
      BY <1>1, <1>4, <2>1, <2>2 DEF BindingForgotten, BindingKept, Stages, Fenced
  <1>5. ASSUME BeginTeardown(t) PROVE IInv'
    <2>1. StagesAreTrue(t)'
      BY <1>2, <1>5 DEF BeginTeardown, Retire, StagesAreTrue
    <2> QED
      BY <1>1, <1>5, <2>1 DEF BeginTeardown, Stages, Running
  <1>6. ASSUME WorkerReturns(t) PROVE IInv'
    <2>1. StagesAreTrue(t)'
      BY <1>2, <1>6 DEF WorkerReturns, Retire, StagesAreTrue, Idle
    <2> QED
      BY <1>1, <1>6, <2>1 DEF WorkerReturns, Stages, Fenced
  <1>7. ASSUME NEW u \in Updates, TeardownInput(t, u) PROVE IInv'
    BY <1>7, TaskStep
  <1> QED
    BY <1>3, <1>4, <1>5, <1>6, <1>7 DEF Lifecycle
-----------------------------------------------------------------------------
\* Users, the poller and the main loop.

\* Users send, and the poller stores: no accepted row is lost or touched.
LEMMA PollerStep ==
    ASSUME IInv, TypeOK', Users \/ Poller
    PROVE  IInv'
  <1> USE DEF dbVars, pollVars, loopVars, workerVars, histVars, IInv
  <1>0. /\ mail \in Seq(Messages) /\ batch \subseteq Updates /\ row \in [Updates -> RowStates]
        /\ Updates \subseteq Nat \ {0}
    BY DEF TypeOK, Updates
  <1>00. /\ Len(mail) \in Nat /\ offset \in Nat
         /\ \A u \in 1 .. Len(mail) : u \in Updates
    BY LimitAssumption DEF TypeOK, Updates
  <1>1. ASSUME NEW p \in Places, NEW s \in Sorts, Send(p, s) PROVE IInv'
    <2>1. [home |-> p, sort |-> s] \in Messages
      BY DEF Messages
    <2>2. /\ Len(mail') = Len(mail) + 1
          /\ \A i \in 1 .. Len(mail) : mail'[i] = mail[i]
      BY <1>0, <1>1, <2>1, AppendFacts DEF Send
    <2>3. \A u \in 1 .. Len(mail) : Home(u)' = Home(u) /\ Sort(u)' = Sort(u)
      BY <2>2 DEF Home, Sort
    <2>4. \A u \in Updates : row[u] # "absent" => u \in 1 .. Len(mail)
      BY <1>0 DEF RowsInv, RowsHaveMail, Updates
    <2>5. RowsInv'
      BY <1>0, <1>00, <1>1, <2>2, <2>4 DEF Send, RowsInv, NothingLost, RowsHaveMail
    <2>6. ActsInv'
      BY <1>1, <2>3, <2>4 DEF Send, ActsInv, ActsOnce, PendingHasNotActed, CallsAreTrue,
         OldIsOver, Deferred, TypeOK
    <2>7. LoopInv'
      <3>1. PageIsFresh'
        <4>1. \A u \in page : u \in 1 .. Len(mail) /\ u <= Len(mail')
          BY <1>0, <1>00, <2>2 DEF LoopInv, PageIsFresh, TypeOK
        <4>2. \A u : IsLeast(u, page)' <=> IsLeast(u, page)
          BY <1>1 DEF Send, IsLeast
        <4>3. \A u : IsLeast(u, page) => u \in page
          BY DEF IsLeast
        <4> QED
          BY <1>1, <2>3, <4>1, <4>2, <4>3 DEF Send, LoopInv, PageIsFresh
      <3>2. DoneIsNoticed'
        <4>1. \A u \in 1 .. Len(mail') : row[u] = "done" => u \in 1 .. Len(mail)
          <5>1. ASSUME NEW u \in 1 .. Len(mail'), u \notin 1 .. Len(mail), row[u] = "done"
                PROVE  FALSE
            <6>1. u \in Updates
              BY <5>1, LimitAssumption DEF TypeOK, Updates
            <6> QED
              BY <2>4, <5>1, <6>1
          <5> QED
            BY <5>1
        <4> QED
          BY <1>1, <2>3, <4>1 DEF Send, LoopInv, DoneIsNoticed
      <3> QED
        BY <3>1, <3>2 DEF LoopInv
    <2>8. WorkersInv'
      BY <1>1 DEF Send, WorkersInv, NoMemory, SweepsAlone, StagesAreTrue, Idle
    <2>9. InputsInv'
      <3>1. /\ \A t \in Topics, u \in Updates : Has(t, u)' <=> Has(t, u)
            /\ \A t \in Topics, u \in Updates : InChan(t, u)' <=> InChan(t, u)
            /\ \A t \in Topics : InChan(t, hand[t])' <=> InChan(t, hand[t])
        BY <1>1 DEF Send, Has, InChan
      <3>2. \A t \in Topics, u \in Updates : Has(t, u) => u \in 1 .. Len(mail)
        BY <1>0, <1>00 DEF InputsInv, InputsAreTrue
      <3>3. GivenOnce' /\ NothingStranded'
        BY <1>1, <2>3, <3>1, <3>2 DEF Send, InputsInv, GivenOnce, NothingStranded, Running,
           TypeOK
      <3>4. ASSUME NEW t \in Topics PROVE InputsAreTrue(t)'
        <4>1. \A u \in 1 .. Len(mail) : u <= Len(mail') /\ Authorized(u)' = Authorized(u)
          BY <1>00, <1>1, <2>2, <2>3 DEF Send, Authorized
        <4> QED
          BY <1>1, <3>1, <3>2, <4>1 DEF Send, InputsInv, InputsAreTrue, Running
      <3> QED
        BY <3>3, <3>4 DEF InputsInv
    <2> QED
      BY <2>5, <2>6, <2>7, <2>8, <2>9
  <1>2. ASSUME GetUpdates PROVE IInv'
    <2>1. RowsInv'
      BY <1>0, <1>00, <1>2 DEF GetUpdates, RowsInv, NothingLost, RowsHaveMail
    <2>2. ActsInv' /\ LoopInv' /\ WorkersInv' /\ InputsInv'
      BY <1>2, ActsKept, LoopKept, WorkersKept, InputsKept DEF GetUpdates, Running
    <2> QED
      BY <2>1, <2>2
  <1>3. ASSUME NEW u \in Updates, Accept(u) PROVE IInv'
    <2>1. /\ u \in batch /\ \A v \in batch : u <= v
          /\ u <= Len(mail) /\ offset <= u
          /\ \A v \in Updates : offset <= v /\ v <= u => v = u
      BY <1>0, <1>3 DEF Accept, StoreUpdate, IsLeast, RowsInv, RowsHaveMail
    <2>2. PICK s \in {"pending", "ignored"} :
            row' = IF row[u] = "absent" THEN [row EXCEPT ![u] = s] ELSE row
      BY <1>3 DEF Accept, StoreUpdate, Mark
    <2>3. /\ row'[u] # "absent"
          /\ \A v \in Updates : row'[v] = row[v] \/ (v = u /\ row[u] = "absent" /\ row'[u] = s)
      BY <1>0, <2>2
    <2>4. offset' = u + 1
      BY <1>0, <1>00, <1>3, <2>1 DEF Accept, StoreUpdate
    <2>5. UNCHANGED <<mail, mode, barred, polling, loopVars, workerVars, histVars>> /\ Running
          /\ batch' = batch \ {u}
      BY <1>3 DEF Accept, StoreUpdate
    <2>6. RowsInv'
      <3>1. NothingLost'
        BY <1>0, <1>00, <2>1, <2>3, <2>4, <2>5 DEF RowsInv, NothingLost
      <3>2. RowsHaveMail'
        BY <1>0, <1>00, <2>1, <2>3, <2>4, <2>5 DEF RowsInv, RowsHaveMail
      <3> QED
        BY <3>1, <3>2 DEF RowsInv
    <2>7. ActsInv'
      BY <2>2, <2>3, <2>5 DEF ActsInv, ActsOnce, PendingHasNotActed, CallsAreTrue, OldIsOver,
         Deferred, Sort, TypeOK, Running
    <2>8. LoopInv'
      <3>1. PageIsFresh'
        BY <2>3, <2>5 DEF LoopInv, PageIsFresh, TypeOK, IsLeast, Home
      <3>2. DoneIsNoticed'
        BY <1>00, <2>2, <2>3, <2>5 DEF LoopInv, DoneIsNoticed, Home
      <3> QED
        BY <3>1, <3>2 DEF LoopInv
    <2>9. WorkersInv'
      BY <2>5, WorkersKept
    <2>10. InputsInv'
      <3>1. \A t \in Topics, v \in Updates :
              /\ Has(t, v)' <=> Has(t, v)
              /\ InChan(t, v)' <=> InChan(t, v)
              /\ Has(t, v) => row'[v] = row[v]
        BY <2>3, <2>5 DEF Has, InChan, InputsInv, GivenOnce, Open
      <3>2. \A t \in Topics : InChan(t, hand[t])' <=> InChan(t, hand[t])
        BY <2>5 DEF InChan
      <3>3. GivenOnce'
        BY <2>5, <3>1, <3>2 DEF InputsInv, GivenOnce, Running, Home, TypeOK
      <3>4. NothingStranded'
        <4>1. \A v \in delivered : row'[v] = row[v]
          BY <2>3 DEF LoopInv, PageIsFresh, TypeOK
        <4> QED
          BY <2>5, <3>1, <4>1 DEF InputsInv, NothingStranded, TypeOK
      <3>5. ASSUME NEW t \in Topics PROVE InputsAreTrue(t)'
        BY <2>5, <3>1 DEF InputsInv, InputsAreTrue, Running, Authorized, Sort
      <3> QED
        BY <3>3, <3>4, <3>5 DEF InputsInv
    <2> QED
      BY <2>6, <2>7, <2>8, <2>9, <2>10
  <1>4. ASSUME PollerLeaves PROVE IInv'
    BY <1>4, RowsKept, ActsKept, LoopKept, WorkersKept, InputsKept DEF PollerLeaves, Running
  <1> QED
    BY <1>1, <1>2, <1>3, <1>4 DEF Users, Poller

\* The loop stops counting settled inputs as delivered, reads a page of pending rows,
\* skips or holds what it cannot give, and waits: it strands and doubles nothing.
LEMMA LoopQuietStep ==
    ASSUME IInv, TypeOK',
           \/ Prune \/ ReadPage \/ PageRouted \/ Wake \/ LoopLeaves
           \/ \E u \in Updates : Delivered(u) \/ \E t \in Topics : Hold(u, t)
    PROVE  IInv'
  <1> USE DEF dbVars, pollVars, loopVars, workerVars, histVars, IInv
  <1>1. /\ UNCHANGED <<mail, row, offset, mode, barred, batch, polling, workerVars, histVars>>
        /\ Running /\ delivered' \subseteq delivered
        /\ \A u \in delivered : row[u] = "pending" => u \in delivered' \/ (at' = "left" /\ mode = "stopping")
        /\ at # "left" /\ (at' = "left" => mode = "stopping")
    BY DEF Prune, KeepDelivered, ReadPage, ReadPageThen, PageRouted, Wake, LoopLeaves, LoopGone,
       Delivered, Hold, Routing, For, InState, Running, TypeOK
  <1>2. RowsInv' /\ ActsInv' /\ WorkersInv'
    BY <1>1, RowsKept, ActsKept, WorkersKept
  <1>3. InputsInv'
    <2>1. \A t \in Topics, u \in Updates : /\ Has(t, u)' <=> Has(t, u)
                                           /\ InChan(t, u)' <=> InChan(t, u)
      BY <1>1 DEF Has, InChan
    <2>2. \A t \in Topics : InChan(t, hand[t])' <=> InChan(t, hand[t])
      BY <1>1 DEF InChan
    <2>3. GivenOnce'
      BY <1>1, <2>1, <2>2 DEF InputsInv, GivenOnce, Running, Home, TypeOK
    <2>4. NothingStranded'
      BY <1>1, <2>1 DEF InputsInv, NothingStranded, TypeOK
    <2>5. ASSUME NEW t \in Topics PROVE InputsAreTrue(t)'
      BY <1>1, <2>1 DEF InputsInv, InputsAreTrue, Running, Authorized, Sort
    <2> QED
      BY <2>3, <2>4, <2>5 DEF InputsInv
  <1>4. DoneIsNoticed'
    BY <1>1 DEF LoopInv, DoneIsNoticed, Home
  <1>5. PageIsFresh'
    <2>1. CASE Prune
      BY <1>1, <2>1 DEF Prune, KeepDelivered, LoopInv, PageIsFresh, IsLeast
    <2>2. CASE ReadPage
      <3>1. \A u \in page' : u \in Updates /\ row[u] = "pending" /\ u <= Len(mail)
        BY <2>2 DEF ReadPage, ReadPageThen, PendingAfter, InState, RowsInv, RowsHaveMail
      <3> QED
        BY <1>1, <2>2, <3>1 DEF ReadPage, ReadPageThen, LoopInv, PageIsFresh
    <2>3. CASE PageRouted \/ Wake
      BY <1>1, <2>3 DEF PageRouted, Wake, LoopInv, PageIsFresh
    <2>4. CASE LoopLeaves
      BY <2>4 DEF LoopLeaves, LoopGone, PageIsFresh
    <2>5. CASE \E u \in Updates : Delivered(u) \/ \E t \in Topics : Hold(u, t)
      <3>1. at = "route" /\ UNCHANGED <<mail, row, at, delivered>> /\ page' \subseteq page
        BY <2>5 DEF Delivered, Hold, Routing, For
      <3> QED
        BY <3>1 DEF LoopInv, PageIsFresh
    <2> QED
      BY <2>1, <2>2, <2>3, <2>4, <2>5
  <1> QED
    BY <1>2, <1>3, <1>4, <1>5 DEF LoopInv

\* What the loop is routing no worker has, unless it is delivered: it is pending.
LEMMA RoutingFacts ==
    ASSUME IInv, NEW u \in Updates, u \in page, u \notin delivered, at \in {"route", "mark"},
           Running
    PROVE  /\ row[u] = "pending" /\ u \in 1 .. Len(mail) /\ acted[u] = 0
           /\ \A t \in Topics : ~Has(t, u)
  <1>1. row[u] = "pending" /\ u \in 1 .. Len(mail)
    BY DEF IInv, LoopInv, PageIsFresh, TypeOK, Updates
  <1>2. \A t \in Topics : ~Has(t, u)
    BY <1>1 DEF IInv, InputsInv, InputsAreTrue
  <1> QED
    BY <1>1, <1>2 DEF IInv, ActsInv, PendingHasNotActed

\* The loop settles what it may not give to a worker, and tells the sender first.
LEMMA LoopSettleStep ==
    ASSUME IInv, TypeOK', NEW u \in Updates,
           IgnoreBarred(u) \/ EnqueueNotice(u) \/ MarkUnsupported(u)
    PROVE  IInv'
  <1> USE DEF dbVars, pollVars, loopVars, workerVars, histVars, IInv
  <1>0. row \in [Updates -> RowStates] /\ notices \in [Updates -> Nat]
    BY DEF TypeOK
  <1>1. /\ u \in page /\ u \notin delivered /\ at \in {"route", "mark"} /\ Running
        /\ \A v \in page : u <= v
    BY DEF IgnoreBarred, EnqueueNotice, EnqueueNotices, MarkUnsupported, Routing, IsLeast,
       LoopInv, PageIsFresh
  <1>2. /\ row[u] = "pending" /\ u \in 1 .. Len(mail) /\ acted[u] = 0
        /\ \A t \in Topics : ~Has(t, u)
    BY <1>1, RoutingFacts
  <1>3. ASSUME EnqueueNotice(u) PROVE IInv'
    <2>1. notices'[u] >= 1 /\ \A v \in Updates : notices'[v] >= notices[v] /\ notices[v] \in Nat
          /\ notices'[v] \in Nat
      BY <1>0, <1>3 DEF EnqueueNotice, EnqueueNotices
    <2>2. RowsInv' /\ ActsInv' /\ WorkersInv' /\ InputsInv'
      BY <1>1, <1>3, RowsKept, ActsKept, WorkersKept, InputsKept
      DEF EnqueueNotice, EnqueueNotices
    <2>3. PageIsFresh'
      <3>1. \A v \in Updates : IsLeast(v, page) => v = u
        BY <1>1 DEF IsLeast, TypeOK, Updates
      <3> QED
        BY <1>1, <1>3, <2>1, <3>1
        DEF EnqueueNotice, EnqueueNotices, Routing, LoopInv, PageIsFresh, IsLeast, Home
    <2>4. DoneIsNoticed'
      <3>1. \A v \in 1 .. Len(mail) : v \in Updates
        BY LimitAssumption DEF TypeOK, Updates
      <3> QED
        BY <1>3, <2>1, <3>1 DEF EnqueueNotice, EnqueueNotices, LoopInv, DoneIsNoticed, Home
    <2> QED
      BY <2>2, <2>3, <2>4 DEF LoopInv
  <1>4. ASSUME IgnoreBarred(u) \/ MarkUnsupported(u) PROVE IInv'
    <2>1. PICK s \in {"ignored", "done"} :
            /\ row' = [row EXCEPT ![u] = s]
            /\ s = "done" => notices[u] >= 1
      BY <1>4 DEF IgnoreBarred, MarkUnsupported, Mark, LoopInv, PageIsFresh
    <2>2. /\ UNCHANGED <<mail, offset, mode, barred, batch, polling, delivered, workerVars,
                         histVars>>
          /\ page' = page \ {u} /\ at' = "route"
      BY <1>4 DEF IgnoreBarred, MarkUnsupported, Routing
    <2>3. RowsInv'
      BY <1>0, <1>2, <2>1, <2>2, RowsKept
    <2>4. ActsInv'
      BY <1>0, <1>2, <2>1, <2>2 DEF ActsInv, ActsOnce, PendingHasNotActed, CallsAreTrue,
         OldIsOver, Deferred, Sort, Settled, TypeOK
    <2>5. LoopInv'
      BY <1>0, <1>1, <1>2, <2>1, <2>2 DEF LoopInv, PageIsFresh, DoneIsNoticed, Home, TypeOK
    <2>6. WorkersInv'
      BY <1>1, <2>2, WorkersKept
    <2>7. InputsInv'
      <3>1. \A t \in Topics, v \in Updates :
              /\ Has(t, v)' <=> Has(t, v)
              /\ InChan(t, v)' <=> InChan(t, v)
              /\ Has(t, v) => row'[v] = row[v]
        BY <1>0, <1>2, <2>1, <2>2 DEF Has, InChan
      <3>2. \A t \in Topics : InChan(t, hand[t])' <=> InChan(t, hand[t])
        BY <2>2 DEF InChan
      <3>3. GivenOnce'
        BY <2>2, <3>1, <3>2 DEF InputsInv, GivenOnce, Running, Home, TypeOK
      <3>4. NothingStranded'
        <4>1. \A v \in delivered : row'[v] = row[v]
          BY <1>0, <1>1, <2>1 DEF TypeOK
        <4> QED
          BY <2>2, <3>1, <4>1 DEF InputsInv, NothingStranded, TypeOK
      <3>5. ASSUME NEW t \in Topics PROVE InputsAreTrue(t)'
        BY <1>1, <2>2, <3>1 DEF InputsInv, InputsAreTrue, Running, Authorized, Sort, LoopInv, PageIsFresh
      <3> QED
        BY <3>3, <3>4, <3>5 DEF InputsInv
    <2> QED
      BY <2>3, <2>4, <2>5, <2>6, <2>7
  <1> QED
    BY <1>3, <1>4

\* The loop gives an input to the worker of its conversation, and to no other.
LEMMA RouteStep ==
    ASSUME IInv, TypeOK', NEW u \in Updates, NEW t \in Topics, Route(u, t)
    PROVE  IInv'
  <1> USE DEF dbVars, pollVars, loopVars, workerVars, histVars, IInv
  <1>0. /\ chan \in [Topics -> Seq(Updates)] /\ stage \in [Topics -> Stages]
        /\ delivered \subseteq Updates /\ 0 \notin Updates
    BY DEF TypeOK, Updates
  <1>1. /\ UNCHANGED <<mail, row, offset, mode, barred, batch, polling, at, hand, held, calls,
                       acted, notices, old>>
        /\ chan' = [chan EXCEPT ![t] = Append(@, u)]
        /\ stage' = [stage EXCEPT ![t] = IF @ = "none" THEN "running" ELSE @]
        /\ delivered' = delivered \cup {u} /\ page' = page \ {u}
        /\ Home(u) = t /\ Authorized(u) /\ stage[t] \in {"none", "running", "closing"}
        /\ u \in page /\ u \notin delivered /\ at = "route" /\ Running
    BY <1>0 DEF Route, For, Routing, GiveToWorker, Refused, Stages, IsLeast
  <1>2. row[u] = "pending" /\ u \in 1 .. Len(mail) /\ \A v \in Topics : ~Has(v, u)
    BY <1>1, RoutingFacts
  <1>3. RowsInv' /\ ActsInv'
    BY <1>1, RowsKept, ActsKept
  <1>4. LoopInv'
    BY <1>1, <1>2 DEF LoopInv, PageIsFresh, DoneIsNoticed, Home
  <1>5. /\ DOMAIN chan'[t] = 1 .. Len(chan[t]) + 1 /\ DOMAIN chan[t] = 1 .. Len(chan[t])
        /\ chan'[t][Len(chan[t]) + 1] = u /\ Len(chan[t]) \in Nat
        /\ \A i \in DOMAIN chan[t] : chan'[t][i] = chan[t][i]
    BY <1>0, <1>1, AppendFacts
  <1>6. \A w \in Updates : InChan(t, w)' <=> InChan(t, w) \/ w = u
    <2>1. \A i \in DOMAIN chan'[t] : i \in DOMAIN chan[t] \/ i = Len(chan[t]) + 1
      BY <1>5
    <2>2. \A i \in DOMAIN chan[t] : i \in DOMAIN chan'[t]
      BY <1>5
    <2>3. Len(chan[t]) + 1 \in DOMAIN chan'[t]
      BY <1>5
    <2> QED
      BY <1>5, <2>1, <2>2, <2>3 DEF InChan
  <1>7. \A v \in Topics \ {t} : chan'[v] = chan[v] /\ stage'[v] = stage[v]
    BY <1>0, <1>1
  <1>8. \A v \in Topics, w \in Updates :
          /\ InChan(v, w)' <=> InChan(v, w) \/ (v = t /\ w = u)
          /\ Has(v, w)' <=> Has(v, w) \/ (v = t /\ w = u)
    <2> SUFFICES ASSUME NEW v \in Topics, NEW w \in Updates
                 PROVE  InChan(v, w)' <=> InChan(v, w) \/ (v = t /\ w = u)
      BY <1>1 DEF Has
    <2>1. CASE v = t
      BY <1>6, <2>1
    <2>2. CASE v # t
      BY <1>7, <2>2 DEF InChan
    <2> QED
      BY <2>1, <2>2
  <1>9. WorkersInv'
    <2>1. NoMemory' /\ SweepsAlone'
      BY <1>1 DEF NoMemory, SweepsAlone, Running
    <2>2. ASSUME NEW v \in Topics PROVE StagesAreTrue(v)'
      <3>1. CASE v = t
        BY <1>0, <1>1, <3>1 DEF WorkersInv, StagesAreTrue
      <3>2. CASE v # t
        BY <1>1, <1>7, <3>2 DEF WorkersInv, StagesAreTrue, Idle
      <3> QED
        BY <3>1, <3>2
    <2> QED
      BY <2>1, <2>2 DEF WorkersInv
  <1>10. GivenOnce'
    <2> SUFFICES ASSUME NEW v \in Topics
                 PROVE  /\ \A i, j \in DOMAIN chan'[v] : i # j => chan'[v][i] # chan'[v][j]
                        /\ hand[v] # 0 => ~InChan(v, hand[v])' /\ hand[v] \notin held[v]
                        /\ \A w \in held[v] : ~InChan(v, w)'
                        /\ \A w \in Updates : Has(v, w)' => Home(w) = v /\ row[w] \in Open
      BY <1>1 DEF GivenOnce, Home
    <2>1. /\ \A i, j \in DOMAIN chan[v] : i # j => chan[v][i] # chan[v][j]
          /\ hand[v] # 0 => ~InChan(v, hand[v]) /\ hand[v] \notin held[v]
          /\ \A w \in held[v] : ~InChan(v, w)
          /\ \A w \in Updates : Has(v, w) => Home(w) = v /\ row[w] \in Open
          /\ hand[v] \in Updates \cup {0} /\ held[v] \subseteq Updates
      BY <1>1 DEF InputsInv, GivenOnce, TypeOK
    <2>2. \A i, j \in DOMAIN chan'[v] : i # j => chan'[v][i] # chan'[v][j]
      <3>1. CASE v = t
        <4>1. \A i \in DOMAIN chan[t] : chan[t][i] # u
          BY <1>2 DEF Has, InChan
        <4>2. \A i \in DOMAIN chan'[t] : i \in DOMAIN chan[t] \/ i = Len(chan[t]) + 1
          BY <1>5
        <4>3. \A i, j \in DOMAIN chan[t] : i # j => chan'[t][i] # chan'[t][j]
          BY <1>5, <2>1, <3>1
        <4>4. \A i \in DOMAIN chan[t] : chan'[t][i] # chan'[t][Len(chan[t]) + 1]
          BY <1>5, <4>1
        <4> QED
          BY <3>1, <4>2, <4>3, <4>4
      <3>2. CASE v # t
        BY <1>7, <2>1, <3>2
      <3> QED
        BY <3>1, <3>2
    <2>3. hand[v] # u /\ u \notin held[v]
      BY <1>2 DEF Has
    <2>4. hand[v] # 0 => ~InChan(v, hand[v])'
      <3>1. InChan(v, hand[v])' <=> \E i \in DOMAIN chan'[v] : chan'[v][i] = hand[v]
        BY <1>1 DEF InChan
      <3>2. ASSUME NEW w \in Updates, w = hand[v] PROVE InChan(v, hand[v])' <=> InChan(v, w)'
        BY <3>1, <3>2 DEF InChan
      <3> QED
        BY <1>8, <2>1, <2>3, <3>2
    <2>5. \A w \in held[v] : ~InChan(v, w)'
      BY <1>8, <2>1, <2>3
    <2>6. \A w \in Updates : Has(v, w)' => Home(w) = v /\ row[w] \in Open
      BY <1>1, <1>2, <1>8, <2>1 DEF Open
    <2> QED
      BY <2>1, <2>2, <2>4, <2>5, <2>6
  <1>11. NothingStranded'
    <2> SUFFICES ASSUME mode = "up", NEW w \in delivered \cup {u}, row[w] = "pending"
                 PROVE  \E v \in Topics : stage'[v] = "running" /\ Has(v, w)'
      BY <1>1 DEF NothingStranded
    <2>1. CASE w = u
      <3>1. stage[t] # "closing"
        BY DEF WorkersInv, StagesAreTrue
      <3> QED
        BY <1>0, <1>1, <1>8, <2>1, <3>1
    <2>2. CASE w \in delivered
      <3>1. PICK v \in Topics : stage[v] = "running" /\ Has(v, w)
        BY <2>2 DEF InputsInv, NothingStranded
      <3> QED
        BY <1>0, <1>1, <1>8, <2>2, <3>1
    <2> QED
      BY <2>1, <2>2
  <1>12. ASSUME NEW v \in Topics PROVE InputsAreTrue(v)'
    <2> SUFFICES ASSUME NEW w \in Updates, Has(v, w)'
                 PROVE  /\ w <= Len(mail)
                        /\ Authorized(w)
                        /\ InChan(v, w)' => row[w] = "pending"
                        /\ at # "left" /\ row[w] = "pending" => w \in delivered'
      BY <1>1 DEF InputsAreTrue, Running, Authorized, Sort
    <2>1. CASE Has(v, w)
      BY <1>1, <1>2, <1>8, <2>1 DEF InputsInv, InputsAreTrue
    <2>2. CASE w = u
      BY <1>1, <1>2, <2>2
    <2> QED
      BY <1>8, <2>1, <2>2
  <1> QED
    BY <1>3, <1>4, <1>9, <1>10, <1>11, <1>12 DEF InputsInv

\* An exited worker is taken off the registry; what its channel still has, it has only
\* while the bridge stops.
LEMMA RemoveStep ==
    ASSUME IInv, TypeOK', NEW t \in Topics, RemoveExitedWorker(t)
    PROVE  IInv'
  <1> USE DEF dbVars, pollVars, loopVars, workerVars, histVars, IInv
  <1>0. chan \in [Topics -> Seq(Updates)] /\ stage \in [Topics -> Stages]
    BY DEF TypeOK
  <1>1. /\ UNCHANGED <<mail, row, offset, mode, barred, batch, polling, delivered, page, hand,
                       held, calls, acted, notices, old>>
        /\ at = "wait" /\ at' = "prune" /\ Running
        /\ stage[t] = "exited" /\ stage'[t] = "none" /\ chan'[t] = <<>>
        /\ \A v \in Topics \ {t} : chan'[v] = chan[v] /\ stage'[v] = stage[v]
    BY <1>0 DEF RemoveExitedWorker
  <1>2. hand[t] = 0 /\ held[t] = {} /\ (mode = "up" => chan[t] = <<>>)
    BY <1>1 DEF WorkersInv, StagesAreTrue
  <1>3. RowsInv' /\ ActsInv'
    BY <1>1, RowsKept, ActsKept
  <1>4. LoopInv'
    BY <1>1 DEF LoopInv, PageIsFresh, DoneIsNoticed, Home
  <1>5. WorkersInv'
    <2>1. NoMemory' /\ SweepsAlone'
      BY <1>1 DEF NoMemory, SweepsAlone, Running
    <2>2. ASSUME NEW v \in Topics PROVE StagesAreTrue(v)'
      BY <1>1, <1>2 DEF WorkersInv, StagesAreTrue, Idle
    <2> QED
      BY <2>1, <2>2 DEF WorkersInv
  <1>6. ASSUME NEW v \in Topics
        PROVE  /\ chan'[v] = <<>> \/ chan'[v] = chan[v]
               /\ mode = "up" => chan'[v] = chan[v]
    BY <1>1, <1>2
  <1>7. \A v \in Topics : \A w : /\ InChan(v, w)' => InChan(v, w)
                                 /\ Has(v, w)' => Has(v, w)
                                 /\ mode = "up" => (Has(v, w)' <=> Has(v, w))
    BY <1>1, <1>6 DEF Has, InChan
  <1>8. GivenOnce'
    <2> SUFFICES ASSUME NEW v \in Topics
                 PROVE  /\ \A i, j \in DOMAIN chan'[v] : i # j => chan'[v][i] # chan'[v][j]
                        /\ hand[v] # 0 => ~InChan(v, hand[v])' /\ hand[v] \notin held[v]
                        /\ \A w \in held[v] : ~InChan(v, w)'
                        /\ \A w \in Updates : Has(v, w)' => Home(w) = v /\ row[w] \in Open
      BY <1>1 DEF GivenOnce, Home
    <2>1. /\ \A i, j \in DOMAIN chan[v] : i # j => chan[v][i] # chan[v][j]
          /\ hand[v] # 0 => ~InChan(v, hand[v]) /\ hand[v] \notin held[v]
          /\ \A w \in held[v] : ~InChan(v, w)
          /\ \A w \in Updates : Has(v, w) => Home(w) = v /\ row[w] \in Open
      BY <1>1 DEF InputsInv, GivenOnce
    <2>2. InChan(v, hand[v])' => InChan(v, hand[v])
      BY <1>1, <1>6 DEF InChan
    <2> QED
      BY <1>6, <1>7, <2>1, <2>2
  <1>9. NothingStranded'
    BY <1>1, <1>7 DEF InputsInv, NothingStranded, TypeOK
  <1>10. ASSUME NEW v \in Topics PROVE InputsAreTrue(v)'
    BY <1>1, <1>7 DEF InputsInv, InputsAreTrue, Running, Authorized, Sort
  <1> QED
    BY <1>3, <1>4, <1>5, <1>8, <1>9, <1>10 DEF InputsInv
-----------------------------------------------------------------------------
\* Stop, crash and restart.

\* Stops, crashes, restarts and the sweeps of saved prompts keep the invariant: no
\* prompt of an earlier run is open when polling starts.
LEMMA ProcessStep ==
    ASSUME IInv, TypeOK', Process
    PROVE  IInv'
  <1> USE DEF dbVars, pollVars, loopVars, workerVars, histVars, IInv
  <1>0. row \in [Updates -> RowStates]
    BY DEF TypeOK
  <1>1. ASSUME Stop PROVE IInv'
    <2>1. /\ UNCHANGED <<mail, row, offset, barred, batch, polling, workerVars, acted, notices,
                         old>>
          /\ mode = "up" /\ mode' = "stopping"
          /\ \/ at' = "left" /\ page' = {} /\ delivered' = {}
             \/ UNCHANGED <<at, page, delivered>>
      BY <1>1 DEF Stop, LoopGone
    <2>2. RowsInv' /\ ActsInv'
      BY <2>1, RowsKept, ActsKept
    <2>3. LoopInv'
      BY <2>1 DEF LoopInv, PageIsFresh, DoneIsNoticed, Home, IsLeast
    <2>4. WorkersInv'
      BY <2>1 DEF WorkersInv, NoMemory, SweepsAlone, StagesAreTrue, Idle
    <2>5. InputsInv'
      BY <2>1 DEF InputsInv, GivenOnce, NothingStranded, InputsAreTrue, Running, Has, InChan,
         Home, Authorized, Sort
    <2> QED
      BY <2>2, <2>3, <2>4, <2>5
  <1>2. ASSUME BeginSweep PROVE IInv'
    <2>1. RowsInv' /\ ActsInv' /\ LoopInv'
      BY <1>2, RowsKept, ActsKept, LoopKept DEF BeginSweep
    <2>2. WorkersInv'
      BY <1>2 DEF BeginSweep, WorkersInv, NoMemory, SweepsAlone, StagesAreTrue, Idle
    <2>3. InputsInv'
      BY <1>2 DEF BeginSweep, InputsInv, GivenOnce, NothingStranded, InputsAreTrue, Running, Has,
         InChan
    <2> QED
      BY <2>1, <2>2, <2>3
  <1>3. ASSUME NEW u \in Updates, CancelPendingPrompt(u) PROVE IInv'
    <2>1. /\ row[u] = "pending" /\ row' = [row EXCEPT ![u] = "cancelled"]
          /\ mode \in {"restoring", "sweeping"} /\ at = "left"
          /\ UNCHANGED <<mail, offset, mode, barred, pollVars, loopVars, workerVars, histVars>>
      BY <1>3 DEF CancelPendingPrompt, Waiting, InState, IsLeast, Mark, WorkersInv, NoMemory,
         SweepsAlone
    <2>2. RowsInv'
      BY <1>0, <2>1, RowsKept
    <2>3. ActsInv'
      BY <1>0, <2>1 DEF ActsInv, ActsOnce, PendingHasNotActed, CallsAreTrue, OldIsOver, Deferred,
         Sort, Settled, TypeOK
    <2>4. LoopInv'
      BY <1>0, <2>1 DEF LoopInv, PageIsFresh, DoneIsNoticed, Home, TypeOK
    <2>5. WorkersInv'
      BY <2>1 DEF WorkersInv, NoMemory, SweepsAlone, StagesAreTrue, Idle
    <2>6. InputsInv'
      BY <2>1 DEF InputsInv, GivenOnce, NothingStranded, InputsAreTrue, Running, Has, InChan
    <2> QED
      BY <2>2, <2>3, <2>4, <2>5, <2>6
  <1>4. ASSUME Exit \/ Crash PROVE IInv'
    <2>1. /\ UNCHANGED <<mail, row, offset, barred, acted, notices, old>>
          /\ mode' = "down" /\ batch' = {} /\ ~polling' /\ calls' = {}
          /\ at' = "left" /\ page' = {} /\ delivered' = {}
          /\ \A t \in Topics :
               stage'[t] = "none" /\ chan'[t] = <<>> /\ hand'[t] = 0 /\ held'[t] = {}
      BY <1>4 DEF Exit, Crash, NoProcess, LoopGone
    <2>2. RowsInv' /\ ActsInv'
      BY <2>1, RowsKept, ActsKept
    <2>3. LoopInv'
      BY <2>1 DEF LoopInv, PageIsFresh, DoneIsNoticed, Home
    <2>4. WorkersInv'
      BY <2>1 DEF WorkersInv, NoMemory, SweepsAlone, StagesAreTrue, Idle
    <2>5. \A t \in Topics, u \in Updates : ~Has(t, u)'
      BY <2>1 DEF Has, InChan, Updates
    <2>6. InputsInv'
      BY <2>1, <2>5 DEF InputsInv, GivenOnce, NothingStranded, InputsAreTrue, Running
    <2> QED
      BY <2>2, <2>3, <2>4, <2>6
  <1>5. ASSUME mode \in {"down", "restoring"}
        PROVE  /\ at = "left" /\ batch = {} /\ calls = {} /\ page = {} /\ delivered = {}
               /\ \A t \in Topics : chan[t] = <<>> /\ hand[t] = 0 /\ held[t] = {}
               /\ \A t \in Topics, u \in Updates : ~Has(t, u)
    <2>1. /\ at = "left" /\ batch = {} /\ calls = {} /\ page = {} /\ delivered = {}
          /\ \A t \in Topics : chan[t] = <<>> /\ hand[t] = 0 /\ held[t] = {}
      BY <1>5 DEF WorkersInv, NoMemory, LoopInv, PageIsFresh
    <2>2. \A t \in Topics, u \in Updates : ~Has(t, u)
      BY <2>1 DEF Has, InChan, Updates
    <2> QED
      BY <2>1, <2>2
  <1>6. ASSUME Reopen PROVE IInv'
    <2>1. /\ mode = "down" /\ mode' = "restoring"
          /\ \A u \in Updates : row'[u] = IF row[u] = "submitted" THEN "uncertain" ELSE row[u]
          /\ old' = {u \in Updates : row[u] # "absent"}
          /\ UNCHANGED <<mail, offset, pollVars, loopVars, workerVars, acted, notices>>
      BY <1>6 DEF Reopen, ReopenWith
    <2>2. RowsInv'
      BY <2>1, RowsKept
    <2>3. ActsInv'
      BY <1>5, <2>1 DEF ActsInv, ActsOnce, PendingHasNotActed, CallsAreTrue, OldIsOver
    <2>4. LoopInv'
      <3>1. \A u \in 1 .. Len(mail) : u \in Updates
        BY LimitAssumption DEF TypeOK, Updates
      <3> QED
        BY <1>5, <2>1, <3>1 DEF LoopInv, PageIsFresh, DoneIsNoticed, Home
    <2>5. WorkersInv'
      BY <2>1 DEF WorkersInv, NoMemory, SweepsAlone, StagesAreTrue, Idle
    <2>6. InputsInv'
      <3>1. \A t \in Topics, u \in Updates : ~Has(t, u)'
        BY <1>5, <2>1 DEF Has, InChan
      <3> QED
        BY <2>1, <3>1 DEF InputsInv, GivenOnce, NothingStranded, InputsAreTrue, Running
    <2> QED
      BY <2>2, <2>3, <2>4, <2>5, <2>6
  <1>7. ASSUME Start PROVE IInv'
    <2>1. /\ mode = "restoring" /\ mode' = "up" /\ at' = "prune" /\ Waiting = {}
          /\ \A t \in Topics : stage'[t] \in {"none", "running"}
          /\ UNCHANGED <<mail, row, offset, barred, batch, delivered, page, chan, hand, held,
                         calls, acted, notices, old>>
      BY <1>7 DEF Start, StartUp
    <2>2. RowsInv'
      BY <2>1, RowsKept
    <2>3. ActsInv'
      <3>1. \A u \in old : Deferred(u) => row[u] \in Settled
        <4>1. \A u \in old : u \in Updates /\ row[u] \in RowStates \ {"absent", "submitted"}
          BY <1>0, <2>1 DEF ActsInv, OldIsOver, TypeOK
        <4>2. \A u \in old : Deferred(u) => row[u] # "pending"
          BY <2>1, <4>1 DEF Waiting, InState
        <4> QED
          BY <4>1, <4>2 DEF RowStates, Open
      <3> QED
        BY <2>1, <3>1 DEF ActsInv, ActsOnce, PendingHasNotActed, CallsAreTrue, OldIsOver,
           Deferred, Sort
    <2>4. LoopInv'
      BY <1>5, <2>1 DEF LoopInv, PageIsFresh, DoneIsNoticed, Home
    <2>5. WorkersInv'
      BY <1>5, <2>1 DEF WorkersInv, NoMemory, SweepsAlone, StagesAreTrue, Idle
    <2>6. InputsInv'
      <3>1. \A t \in Topics, u \in Updates : ~Has(t, u)'
        BY <1>5, <2>1 DEF Has, InChan
      <3> QED
        BY <1>5, <2>1, <3>1 DEF InputsInv, GivenOnce, NothingStranded, InputsAreTrue
    <2> QED
      BY <2>2, <2>3, <2>4, <2>5, <2>6
  <1> QED
    BY <1>1, <1>2, <1>3, <1>4, <1>6, <1>7 DEF Process
-----------------------------------------------------------------------------
\* The invariant, and what follows from it.

\* Every step of users, poller, main loop, workers and process keeps the invariant.
LEMMA InvStep == IInv /\ [Next]_vars => IInv'
  <1> SUFFICES ASSUME IInv, [Next]_vars PROVE IInv'
    OBVIOUS
  <1>1. TypeOK'
    BY TypeStep DEF IInv
  <1>2. CASE UNCHANGED vars
    <2>1. WorkersInv' /\ InputsInv'
      BY <1>2 DEF IInv, WorkersInv, NoMemory, SweepsAlone, StagesAreTrue, Idle, InputsInv,
         GivenOnce, NothingStranded, InputsAreTrue, Has, InChan, Running, Home, Authorized,
         Sort, vars, dbVars, pollVars, loopVars, workerVars
    <2>2. RowsInv' /\ ActsInv' /\ LoopInv'
      BY <1>2, RowsKept, ActsKept, LoopKept
      DEF IInv, vars, dbVars, pollVars, loopVars, workerVars, histVars
    <2> QED
      BY <1>1, <2>1, <2>2 DEF IInv
  <1>3. CASE Users \/ Poller
    BY <1>1, <1>3, PollerStep
  <1>4. CASE Loop
    BY <1>1, <1>4, LoopQuietStep, LoopSettleStep, RouteStep, RemoveStep DEF Loop
  <1>5. ASSUME NEW t \in Topics, Handle(t) \/ Task(t) \/ Lifecycle(t) PROVE IInv'
    BY <1>1, <1>5, HandleStep, TaskStep, LifecycleStep DEF Task
  <1>6. CASE Process
    BY <1>1, <1>6, ProcessStep
  <1> QED
    BY <1>2, <1>3, <1>4, <1>5, <1>6 DEF Next

\* The inductive invariant of the inbox, its main loop and its workers.
THEOREM Invariant == Spec => []IInv
  BY InvInit, InvStep, PTL DEF Spec

\* Every variable keeps the type its Go counterpart has, and row the states of
\* InboxState (store.go).
THEOREM TypeCorrect == Spec => []TypeOK
  <1>1. IInv => TypeOK
    BY DEF IInv
  <1> QED
    BY <1>1, Invariant, PTL

\* Accept commits row and offset together: no update Telegram may forget is missing
\* from the inbox, wherever a batch is interrupted.
THEOREM UpdatesAreKept == Spec => []NothingLost
  <1>1. IInv => NothingLost
    BY DEF IInv, RowsInv
  <1> QED
    BY <1>1, Invariant, PTL

\* Submit before the request and recovery as uncertain: no input takes effect twice,
\* and one the table shows as pending, ignored or absent has taken none.
THEOREM EffectsAreSingle == Spec => [](ActsOnce /\ PendingHasNotActed)
  <1>1. IInv => ActsOnce /\ PendingHasNotActed
    BY DEF IInv, ActsInv
  <1> QED
    BY <1>1, Invariant, PTL

\* delivered, tryInput and the registry: no input is with two workers or twice with
\* one, and all a worker has is open and of its own conversation.
THEOREM DeliveryIsSingle == Spec => []GivenOnce
  <1>1. IInv => GivenOnce
    BY DEF IInv, InputsInv
  <1> QED
    BY <1>1, Invariant, PTL

\* evictIfIdle and forgetBinding test the channel under exitMu: no delivered input is
\* left with a worker that has gone.
THEOREM DeliveryIsKept == Spec => []NothingStranded
  <1>1. IInv => NothingStranded
    BY DEF IInv, InputsInv
  <1> QED
    BY <1>1, Invariant, PTL

\* The notice is enqueued before its input is marked done.
THEOREM NoticeComesFirst == Spec => []DoneIsNoticed
  <1>1. IInv => DoneIsNoticed
    BY DEF IInv, LoopInv
  <1> QED
    BY <1>1, Invariant, PTL
-----------------------------------------------------------------------------
\* What no step may do.

\* Only a step on an open row changes it, or one that stores a new update.
LEMMA RowStep ==
    ASSUME IInv, [Next]_vars, NEW u \in Updates, row[u] \in Settled
    PROVE  row'[u] = row[u]
  <1> USE DEF dbVars, IInv
  <1>1. row[u] \notin {"absent", "pending", "submitted"} /\ row \in [Updates -> RowStates]
    BY DEF Settled, TypeOK
  <1>2. ASSUME NEW v \in Updates, NEW s, Mark(v, s), row[v] \in {"absent", "pending", "submitted"}
        PROVE  row'[u] = row[u]
    BY <1>1, <1>2 DEF Mark
  <1>3. CASE UNCHANGED vars
    BY <1>3 DEF vars
  <1>4. CASE Users \/ Poller
    BY <1>2, <1>4 DEF Users, Send, Poller, GetUpdates, Accept, StoreUpdate, PollerLeaves
  <1>5. CASE Loop
    <2>1. ASSUME NEW v \in Updates, IgnoreBarred(v) \/ MarkUnsupported(v)
          PROVE  row[v] = "pending" /\ \E s : Mark(v, s)
      BY <2>1, RoutingFacts DEF IgnoreBarred, MarkUnsupported, Routing, IsLeast, LoopInv,
         PageIsFresh
    <2>2. row' = row \/ \E v \in Updates : IgnoreBarred(v) \/ MarkUnsupported(v)
      BY <1>5 DEF Loop, Prune, KeepDelivered, ReadPage, ReadPageThen, Delivered, EnqueueNotice,
         EnqueueNotices, Route, GiveToWorker, Hold, PageRouted, Wake, RemoveExitedWorker,
         LoopLeaves
    <2> QED
      BY <1>2, <2>1, <2>2
  <1>6. ASSUME NEW t \in Topics, Handle(t) PROVE row'[u] = row[u]
    <2>1. hand[t] # 0 => hand[t] \in Updates
      BY DEF TypeOK
    <2>2. ASSUME NEW S, Fresh(t, S) PROVE hand[t] \in Updates /\ row[hand[t]] = "pending"
      BY <2>1, <2>2 DEF Fresh
    <2>3. \/ row' = row
          \/ hand[t] \in Updates /\ row[hand[t]] \in {"pending", "submitted"}
             /\ \E s : Mark(hand[t], s)
      BY <1>6, <2>1, <2>2 DEF Handle, Receive, IgnoreNoise, RefusePrompt, AbandonPrompt,
         HoldPrompt, BeginCommand, Execute, EndCommand
    <2> QED
      BY <1>2, <2>3
  <1>7. ASSUME NEW t \in Topics, Task(t) \/ Lifecycle(t) PROVE row'[u] = row[u]
    <2>1. \/ row' = row
          \/ \E v \in Updates : row[v] \in {"pending", "submitted"} /\ \E s : Mark(v, s)
      BY <1>7 DEF Task, Submit, SubmitAs, Ask, Settle, DropQueued, Lifecycle, EvictIfIdle,
         ForgetBinding, BindingForgotten, BindingKept, BeginTeardown, TeardownInput,
         WorkerReturns, Retire
    <2> QED
      BY <1>2, <2>1
  <1>8. CASE Process
    <2>1. \/ row' = row
          \/ \E v \in Updates : row[v] = "pending" /\ \E s : Mark(v, s)
          \/ Reopen
      BY <1>8 DEF Process, Stop, BeginSweep, CancelPendingPrompt, IsLeast, Waiting, InState,
         Exit, Crash, Start, StartUp
    <2>2. Reopen => row'[u] = row[u]
      BY <1>1 DEF Reopen, ReopenWith
    <2> QED
      BY <1>2, <2>1, <2>2
  <1> QED
    BY <1>3, <1>4, <1>5, <1>6, <1>7, <1>8 DEF Next

\* An effect is that of an open, authorized input a worker has.
LEMMA EffectStep ==
    ASSUME IInv, [Next]_vars, acted' # acted
    PROVE  \E u \in Updates :
             /\ acted' = [acted EXCEPT ![u] = @ + 1]
             /\ Running /\ Authorized(u) /\ row[u] \in Open
  <1> USE DEF dbVars, pollVars, loopVars, workerVars, histVars, IInv
  <1>1. ~UNCHANGED vars
    BY DEF vars
  <1>2. ~Users /\ ~Poller
    BY DEF Users, Send, Poller, GetUpdates, Accept, StoreUpdate, PollerLeaves
  <1>3. ~Loop
    BY DEF Loop, Prune, KeepDelivered, ReadPage, ReadPageThen, Delivered, IgnoreBarred,
       EnqueueNotice, EnqueueNotices, MarkUnsupported, Route, GiveToWorker, Hold, PageRouted,
       Wake, RemoveExitedWorker, LoopLeaves
  <1>4. ~Process
    BY DEF Process, Stop, BeginSweep, CancelPendingPrompt, Exit, Crash, Reopen, ReopenWith,
       Start, StartUp
  <1>5. PICK t \in Topics : Handle(t) \/ Task(t) \/ Lifecycle(t)
    BY <1>1, <1>2, <1>3, <1>4 DEF Next
  <1>6. ~Lifecycle(t)
    BY DEF Lifecycle, EvictIfIdle, ForgetBinding, BindingForgotten, BindingKept, BeginTeardown,
       TeardownInput, WorkerReturns, Retire
  <1>7. Handle(t) => Execute(t)
    BY DEF Handle, Receive, IgnoreNoise, RefusePrompt, AbandonPrompt, HoldPrompt, BeginCommand,
       EndCommand
  <1>8. Task(t) => \E u \in Updates : Ask(t, u)
    BY DEF Task, Submit, SubmitAs, Settle, DropQueued
  <1>9. \E u \in Updates : /\ Running /\ Has(t, u)
                           /\ acted' = [acted EXCEPT ![u] = @ + 1]
    <2>1. calls \subseteq Updates
      BY DEF TypeOK
    <2> QED
      BY <1>5, <1>6, <1>7, <1>8, <2>1 DEF Execute, Actor, Ask, Has
  <1> QED
    BY <1>9, InputFacts, PlaceAssumption

\* A settled input stays as it is, whatever late result, teardown or restart follows.
THEOREM SettledStays == Spec => SettledForever
  <1>1. IInv /\ [Next]_vars => [\A u \in Updates : row[u] \in Settled => row'[u] = row[u]]_vars
    BY RowStep
  <1> QED
    BY <1>1, Invariant, PTL DEF Spec, SettledForever

\* restoreWorkers and initialize: OMP never gets a prompt accepted by an earlier run.
THEOREM SavedPromptsStayUnsent == Spec => OldPromptsStayUnsent
  <1>1. IInv /\ [Next]_vars => [\A u \in old : Deferred(u) => acted'[u] = acted[u]]_vars
    <2> SUFFICES ASSUME IInv, [Next]_vars, NEW u \in old, Deferred(u), acted' # acted
                 PROVE  acted'[u] = acted[u]
      OBVIOUS
    <2>1. PICK v \in Updates : /\ acted' = [acted EXCEPT ![v] = @ + 1]
                               /\ Running /\ Authorized(v) /\ row[v] \in Open
      BY EffectStep
    <2>2. row[u] \in Settled /\ u \in Updates /\ acted \in [Updates -> Nat]
      BY <2>1 DEF IInv, ActsInv, OldIsOver, Running, TypeOK
    <2>3. u # v
      BY <2>1, <2>2 DEF Open, Settled
    <2> QED
      BY <2>1, <2>2, <2>3
  <1> QED
    BY <1>1, Invariant, PTL DEF Spec, OldPromptsStayUnsent

\* cfg.Authorized in the main loop: what was accepted under an earlier allowlist takes
\* no effect once its sender is off the list.
THEOREM AllowlistHolds == Spec => BarredDoNotAct
  <1>1. IInv /\ [Next]_vars => [AllowlistActs]_vars
    <2> SUFFICES ASSUME IInv, [Next]_vars, barred, NEW u \in 1 .. Len(mail),
                        Sort(u) = "guest", acted' # acted
                 PROVE  acted'[u] = acted[u]
      BY DEF AllowlistActs
    <2>1. PICK v \in Updates : /\ acted' = [acted EXCEPT ![v] = @ + 1]
                               /\ Running /\ Authorized(v) /\ row[v] \in Open
      BY EffectStep
    <2>2. u \in Updates /\ acted \in [Updates -> Nat]
      BY LimitAssumption DEF IInv, TypeOK, Updates
    <2>3. u # v
      BY <2>1 DEF Authorized
    <2> QED
      BY <2>1, <2>2, <2>3
  <1> QED
    BY <1>1, Invariant, PTL DEF Spec, BarredDoNotAct
-----------------------------------------------------------------------------
\* The order of the inputs of a conversation.

\* PendingAfter finds all that is pending in one page.
OnePage == Cardinality(InState({"pending"})) <= BatchLimit

\* What has a row lies below the offset, and so does what a worker took last.
RowsAreBelow ==
    /\ \A u \in Updates : row[u] # "absent" => u < offset
    /\ \A t \in Topics : latest[t] <= offset

\* Only prompts are held; anything else that is still pending is not behind what
\* its worker took last.
CommandsFollow ==
    /\ \A t \in Topics : \A u \in held[t] : Deferred(u)
    /\ \A u \in Updates : row[u] = "pending" /\ Home(u) \in Topics /\ ~Deferred(u) =>
          latest[Home(u)] <= u

\* A cycle that has read a page has nothing left above its cursor.
CycleCovers ==
    /\ at = "left" => ~cycling
    /\ at = "read" => cycling
    /\ cycling => through < offset
    /\ cycling /\ cursor # -1 =>
          \A u \in Updates : row[u] = "pending" /\ cursor < u => through < u

\* An input that lies before one of the page and waits is itself on the page, or
\* its conversation is blocked.
PageIsOrdered ==
    \A u \in page : \A v \in Updates :
        v < u /\ row[v] = "pending" /\ v \notin delivered => v \in page \/ Home(v) \in blocked

\* The channel is in order, after what was taken, and before what waits.
ChannelIsOrdered(t) ==
    /\ \A i, j \in DOMAIN chan[t] : i < j => chan[t][i] < chan[t][j]
    /\ \A i \in DOMAIN chan[t] : latest[t] <= chan[t][i]
    /\ \A v \in Updates : row[v] = "pending" /\ v \notin delivered /\ Home(v) = t =>
          latest[t] <= v /\ \A i \in DOMAIN chan[t] : chan[t][i] < v

OrderInv ==
    /\ RowsAreBelow /\ CommandsFollow /\ CycleCovers /\ PageIsOrdered
    /\ mode = "up" => \A t \in Topics : ChannelIsOrdered(t)

\* The order of an empty inbox.
LEMMA OrderInit == Init => OrderInv
  <1> SUFFICES ASSUME Init PROVE OrderInv
    OBVIOUS
  <1>1. RowsAreBelow /\ CommandsFollow
    BY DEF Init, RowsAreBelow, CommandsFollow
  <1>2. CycleCovers /\ PageIsOrdered
    BY DEF Init, CycleCovers, PageIsOrdered
  <1> QED
    BY <1>1, <1>2 DEF Init, OrderInv

\* What is stored or held is in the mail.
LEMMA OnlyMail ==
    ASSUME IInv
    PROVE  /\ Updates \subseteq Nat \ {0} /\ offset \in Nat
           /\ \A u \in Updates : row[u] # "absent" => u \in 1 .. Len(mail)
           /\ \A t \in Topics : \A u \in held[t] : u \in 1 .. Len(mail)
  <1>1. Len(mail) \in Nat /\ Updates \subseteq Nat \ {0} /\ offset \in Nat
    BY LimitAssumption DEF IInv, TypeOK, Updates
  <1>2. \A u \in Updates : row[u] # "absent" => u <= Len(mail)
    BY DEF IInv, RowsInv, RowsHaveMail
  <1>3. \A t \in Topics : \A u \in held[t] : u \in Updates /\ u <= Len(mail)
    <2>1. \A t \in Topics : held[t] \subseteq Updates
      BY DEF IInv, TypeOK
    <2> QED
      BY <2>1 DEF IInv, InputsInv, InputsAreTrue, Has
  <1>4. ASSUME NEW u \in Updates, u <= Len(mail) PROVE u \in 1 .. Len(mail)
    <2>1. u \in Nat \ {0}
      BY <1>1
    <2> QED
      BY <1>1, <1>4, <2>1
  <1>5. \A u \in Updates : row[u] # "absent" => u \in 1 .. Len(mail)
    BY <1>2, <1>4
  <1>6. \A t \in Topics : \A u \in held[t] : u \in 1 .. Len(mail)
    BY <1>3, <1>4
  <1> QED
    BY <1>1, <1>5, <1>6

\* What adds no input, and drops from the page only what need not wait, keeps the
\* order of the rows, the cycle and the page, and that of every channel left alone.
LEMMA OrderKept ==
    ASSUME IInv, OrderInv, offset' = offset, latest' = latest, cursor' = cursor,
           through' = through, cycling' = cycling,
           \A u \in 1 .. Len(mail) : Home(u)' = Home(u) /\ Sort(u)' = Sort(u),
           \A u \in Updates : row'[u] # "absent" => row[u] # "absent",
           \A u \in Updates : row'[u] = "pending" => row[u] = "pending",
           \A t \in Topics : \A u \in held'[t] :
                u \in held[t] \/ (u \in 1 .. Len(mail) /\ Deferred(u)),
           at' = at \/ (at # "left" /\ at' \notin {"left", "read"}),
           \A u \in Updates : row'[u] = "pending" /\ u \in delivered => u \in delivered',
           page' \subseteq page, blocked \subseteq blocked',
           \A u \in page \ page' : row'[u] = "pending" => u \in delivered' \/ Home(u) \in blocked'
    PROVE  /\ RowsAreBelow' /\ CommandsFollow' /\ CycleCovers' /\ PageIsOrdered'
           /\ \A t \in Topics : mode = "up" /\ chan'[t] = chan[t] => ChannelIsOrdered(t)'
  <1>0. /\ \A u \in Updates : row[u] # "absent" => u \in 1 .. Len(mail)
        /\ \A t \in Topics : \A u \in held[t] : u \in 1 .. Len(mail)
    BY OnlyMail
  <1>1. RowsAreBelow'
    BY DEF OrderInv, RowsAreBelow
  <1>2. CommandsFollow'
    <2>1. \A t \in Topics : \A u \in held'[t] : u \in 1 .. Len(mail) /\ Deferred(u)
      BY <1>0 DEF OrderInv, CommandsFollow
    <2>2. \A t \in Topics : \A u \in held'[t] : Deferred(u)'
      BY <2>1 DEF Deferred
    <2> QED
      BY <1>0, <2>2 DEF OrderInv, CommandsFollow, Deferred
  <1>3. CycleCovers'
    BY DEF OrderInv, CycleCovers
  <1>4. PageIsOrdered'
    <2> SUFFICES ASSUME NEW u \in page', NEW v \in Updates, v < u, row'[v] = "pending",
                        v \notin delivered'
                 PROVE  v \in page' \/ Home(v)' \in blocked'
      BY DEF PageIsOrdered
    <2>1. row[v] = "pending" /\ v \notin delivered /\ u \in page /\ Home(v)' = Home(v)
      BY <1>0
    <2>2. v \in page \/ Home(v) \in blocked
      BY <2>1 DEF OrderInv, PageIsOrdered
    <2> QED
      BY <2>1, <2>2
  <1>5. ASSUME NEW t \in Topics, mode = "up", chan'[t] = chan[t] PROVE ChannelIsOrdered(t)'
    <2>1. ChannelIsOrdered(t)
      BY <1>5 DEF OrderInv
    <2>2. \A v \in Updates : row'[v] = "pending" /\ v \notin delivered' /\ Home(v)' = t =>
             row[v] = "pending" /\ v \notin delivered /\ Home(v) = t
      BY <1>0
    <2> QED
      BY <1>5, <2>1, <2>2 DEF ChannelIsOrdered
  <1> QED
    BY <1>1, <1>2, <1>3, <1>4, <1>5

\* Where no channel changes either, all of the order is kept.
LEMMA OrderStays ==
    ASSUME IInv, OrderInv, UNCHANGED <<offset, latest, cursor, through, cycling>>,
           \A u \in 1 .. Len(mail) : Home(u)' = Home(u) /\ Sort(u)' = Sort(u),
           \A u \in Updates : row'[u] # "absent" => row[u] # "absent",
           \A u \in Updates : row'[u] = "pending" => row[u] = "pending",
           \A t \in Topics : \A u \in held'[t] :
                u \in held[t] \/ (u \in 1 .. Len(mail) /\ Deferred(u)),
           at' = at \/ (at # "left" /\ at' \notin {"left", "read"}),
           delivered' = delivered, page' \subseteq page, blocked \subseteq blocked',
           \A u \in page \ page' : row'[u] = "pending" => u \in delivered' \/ Home(u) \in blocked',
           mode' = "up" => mode = "up" /\ chan' = chan
    PROVE  OrderInv'
  <1>1. /\ RowsAreBelow' /\ CommandsFollow' /\ CycleCovers' /\ PageIsOrdered'
        /\ \A t \in Topics : mode = "up" /\ chan'[t] = chan[t] => ChannelIsOrdered(t)'
    BY OrderKept, Zenon
  <1> QED
    BY <1>1 DEF OrderInv

\* A loop that is gone keeps nothing in order, and need not.
LEMMA OrderGone ==
    ASSUME IInv, OrderInv, LoopGone, mode' # "up", UNCHANGED <<mail, row, offset, latest>>,
           \A t \in Topics : held'[t] \subseteq held[t]
    PROVE  OrderInv'
  <1>1. RowsAreBelow'
    BY DEF OrderInv, RowsAreBelow
  <1>2. CommandsFollow'
    BY DEF OrderInv, CommandsFollow, Deferred, Sort, Home
  <1>3. CycleCovers' /\ PageIsOrdered'
    BY DEF LoopGone, CycleCovers, PageIsOrdered
  <1> QED
    BY <1>1, <1>2, <1>3 DEF OrderInv

\* Users and the poller: a new row is the last of all.
LEMMA OrderPoller == ASSUME IInv, OrderInv, Users \/ Poller PROVE OrderInv'
  <1> USE DEF dbVars, pollVars, loopVars, workerVars, histVars
  <1>0. /\ mail \in Seq(Messages) /\ row \in [Updates -> RowStates]
        /\ latest \in [Topics -> Updates \cup {0}] /\ chan \in [Topics -> Seq(Updates)]
        /\ Updates \subseteq Nat \ {0} /\ offset \in Nat /\ through \in Int /\ cursor \in Int
    BY OnlyMail DEF IInv, TypeOK
  <1>00. \A t \in Topics : latest[t] \in Nat
    <2>1. ASSUME NEW u \in Updates \cup {0} PROVE u \in Nat
      BY <1>0, <2>1
    <2> QED
      BY <1>0, <2>1
  <1>1. ASSUME NEW p \in Places, NEW s \in Sorts, Send(p, s) PROVE OrderInv'
    <2>1. [home |-> p, sort |-> s] \in Messages
      BY DEF Messages
    <2>2. \A u \in 1 .. Len(mail) : mail'[u] = mail[u]
      BY <1>0, <1>1, <2>1, AppendFacts DEF Send
    <2>3. \A u \in 1 .. Len(mail) : Home(u)' = Home(u) /\ Sort(u)' = Sort(u)
      BY <2>2 DEF Home, Sort
    <2> QED
      BY <1>1, <2>3, OrderStays DEF Send
  <1>2. CASE GetUpdates \/ PollerLeaves
    <2>1. \A u \in 1 .. Len(mail) : Home(u)' = Home(u) /\ Sort(u)' = Sort(u)
      BY <1>2 DEF GetUpdates, PollerLeaves, Home, Sort
    <2> QED
      BY <1>2, <2>1, OrderStays DEF GetUpdates, PollerLeaves
  <1>3. ASSUME NEW u \in Updates, Accept(u) PROVE OrderInv'
    <2>1. /\ mail' = mail /\ mode' = mode /\ held' = held /\ latest' = latest /\ chan' = chan
          /\ UNCHANGED loopVars
      BY <1>3 DEF Accept, StoreUpdate
    <2>2. u \in batch
      BY <1>3 DEF Accept, StoreUpdate, IsLeast
    <2>3. offset <= u
      BY <2>2 DEF IInv, RowsInv, RowsHaveMail
    <2>4. offset' = u + 1 /\ row[u] = "absent"
      <3>1. u + 1 > offset /\ row[u] = "absent"
        BY <1>0, <2>3 DEF OrderInv, RowsAreBelow
      <3> QED
        BY <1>3, <3>1 DEF Accept, StoreUpdate
    <2>5. \E s : row' = [row EXCEPT ![u] = s]
      BY <1>3, <2>4 DEF Accept, StoreUpdate, Mark
    <2>6. \A v \in Updates : v # u => row'[v] = row[v]
      BY <1>0, <2>5
    <2>7. \A v \in Updates : row[v] # "absent" => v < u
      BY <1>0, <2>3 DEF OrderInv, RowsAreBelow
    <2>8. \A t \in Topics : latest[t] <= u
      <3> SUFFICES ASSUME NEW t \in Topics PROVE latest[t] <= u
        OBVIOUS
      <3>1. latest[t] <= offset
        BY DEF OrderInv, RowsAreBelow
      <3>3. latest[t] \in Nat /\ u \in Nat
        BY <1>0, <1>00
      <3> QED
        BY <1>0, <2>3, <3>1, <3>3
    <2>9. \A v : Home(v)' = Home(v) /\ Deferred(v)' = Deferred(v)
      BY <2>1 DEF Home, Deferred, Sort
    <2>10. RowsAreBelow'
      <3>1. \A v \in Updates : row'[v] # "absent" => v < offset'
        BY <1>0, <2>4, <2>6, <2>7
      <3>2. \A t \in Topics : latest[t] <= u + 1
        <4> SUFFICES ASSUME NEW t \in Topics PROVE latest[t] <= u + 1
          OBVIOUS
        <4>2. latest[t] \in Nat /\ u \in Nat
          BY <1>0, <1>00
        <4> QED
          BY <2>8, <4>2
      <3> QED
        BY <2>1, <2>4, <3>1, <3>2 DEF RowsAreBelow
    <2>11. CommandsFollow'
      BY <2>1, <2>6, <2>8, <2>9 DEF OrderInv, CommandsFollow
    <2>12. CycleCovers'
      <3>1. cycling => through < offset' /\ through < u
        BY <1>0, <2>3, <2>4 DEF OrderInv, CycleCovers
      <3> QED
        BY <2>1, <2>6, <3>1 DEF OrderInv, CycleCovers
    <2>13. PageIsOrdered'
      <3>1. \A v \in page : v \in Updates /\ row[v] # "absent"
        BY DEF IInv, TypeOK, LoopInv, PageIsFresh
      <3>2. \A v \in page : v < u
        BY <2>7, <3>1
      <3>3. \A v \in page : ~(u < v)
        <4> SUFFICES ASSUME NEW v \in page PROVE ~(u < v)
          OBVIOUS
        <4>1. v < u /\ v \in Nat /\ u \in Nat
          BY <1>0, <3>1, <3>2
        <4> QED
          BY <4>1
      <3> QED
        BY <2>1, <2>6, <2>9, <3>3 DEF OrderInv, PageIsOrdered
    <2>14. ASSUME mode' = "up", NEW t \in Topics PROVE ChannelIsOrdered(t)'
      <3>1. ChannelIsOrdered(t)
        BY <2>1, <2>14 DEF OrderInv
      <3>2. \A i \in DOMAIN chan[t] : chan[t][i] \in Updates /\ row[chan[t][i]] # "absent"
        <4>1. \A i \in DOMAIN chan[t] : chan[t][i] \in Updates /\ Has(t, chan[t][i])
          BY <1>0 DEF Has, InChan
        <4>2. Running
          BY <2>1, <2>14 DEF Running
        <4> QED
          BY <4>1, <4>2 DEF IInv, InputsInv, GivenOnce, Open
      <3>3. \A i \in DOMAIN chan[t] : chan[t][i] < u
        BY <2>7, <3>2
      <3> QED
        BY <2>1, <2>6, <2>8, <2>9, <3>1, <3>3 DEF ChannelIsOrdered
    <2> QED
      BY <2>10, <2>11, <2>12, <2>13, <2>14 DEF OrderInv
  <1> QED
    BY <1>1, <1>2, <1>3 DEF Users, Poller

\* A page that is read holds all that is pending below the high water.
LEMMA OrderRead == ASSUME IInv, OrderInv, OnePage, ReadPage PROVE OrderInv'
  <1> DEFINE rows == {u \in InState({"pending"}) : u > cursor /\ u <= through}
  <1> USE DEF dbVars, pollVars, loopVars, workerVars, histVars
  <1>0. /\ Updates \subseteq Nat \ {0} /\ through \in Int /\ cursor \in Int /\ offset \in Nat
        /\ IsFiniteSet(Updates)
    BY OnlyMail, LimitAssumption, FS_Interval DEF IInv, TypeOK, Updates
  <1>1. /\ page' = PendingAfter /\ at = "read" /\ at' = "route" /\ delivered' = delivered
        /\ UNCHANGED <<mail, row, offset, mode, chan, held, latest>>
        /\ page' = {} => cursor' = -1 /\ cycling' = FALSE
        /\ page' # {} => /\ cursor' \in page' /\ IsGreatest(cursor', page')
                         /\ cycling' = (cycling /\ cursor' < through) /\ through' = through
    BY <1>0 DEF ReadPage, ReadPageThen
  <1>2. PendingAfter = rows
    <2>1. IsFiniteSet(InState({"pending"}))
      BY <1>0, FS_Subset DEF InState
    <2>2. \A u \in rows : Cardinality({v \in rows : v <= u}) <= BatchLimit
      <3> SUFFICES ASSUME NEW u \in rows PROVE Cardinality({v \in rows : v <= u}) <= BatchLimit
        OBVIOUS
      <3> DEFINE S == {v \in rows : v <= u}
      <3>1. S \subseteq InState({"pending"})
        OBVIOUS
      <3> HIDE DEF S
      <3>2. Cardinality(S) <= Cardinality(InState({"pending"}))
        BY <2>1, <3>1, FS_Subset
      <3>3. Cardinality(S) \in Nat /\ Cardinality(InState({"pending"})) \in Nat
        BY <2>1, <3>1, FS_Subset, FS_CardinalityType
      <3>4. Cardinality(S) <= BatchLimit
        BY <3>2, <3>3, LimitAssumption DEF OnePage
      <3> QED
        BY <3>4 DEF S
    <2> QED
      BY <2>2 DEF PendingAfter
  <1>3. cycling /\ through < offset
    BY <1>1 DEF OrderInv, CycleCovers
  <1>4. cursor # -1 => rows = {}
    <2> SUFFICES ASSUME cursor # -1, NEW u \in rows PROVE FALSE
      OBVIOUS
    <2>1. u \in Updates /\ row[u] = "pending" /\ u > cursor /\ u <= through
      BY DEF InState
    <2>2. u \in Int /\ cursor < u
      BY <1>0, <2>1
    <2>3. through < u
      BY <1>3, <2>1, <2>2 DEF OrderInv, CycleCovers
    <2> QED
      BY <1>0, <2>1, <2>2, <2>3
  <1>5. \A u \in Updates : row[u] = "pending" /\ u <= through /\ cursor = -1 => u \in rows
    BY <1>0 DEF InState
  <1>6. rows \subseteq Updates /\ \A u \in rows : u <= through
    BY DEF InState
  <1> HIDE DEF rows
  <1>7. RowsAreBelow' /\ CommandsFollow'
    BY <1>1 DEF OrderInv, RowsAreBelow, CommandsFollow, Deferred, Sort, Home
  <1>8. CycleCovers'
    <2>1. CASE page' = {}
      BY <1>1, <2>1 DEF CycleCovers
    <2>2. CASE page' # {}
      <3>1. cursor = -1
        BY <1>1, <1>2, <1>4, <2>2
      <3>2. \A u \in Updates : row[u] = "pending" /\ u <= through => u <= cursor'
        BY <1>1, <1>2, <1>5, <2>2, <3>1 DEF IsGreatest
      <3>3. cursor' \in Nat
        BY <1>0, <1>1, <1>2, <1>6, <2>2
      <3>4. \A u \in Updates : row'[u] = "pending" /\ cursor' < u => through' < u
        BY <1>0, <1>1, <2>2, <3>2, <3>3
      <3> QED
        BY <1>1, <1>3, <2>2, <3>4 DEF CycleCovers
    <2> QED
      BY <2>1, <2>2
  <1>9. PageIsOrdered'
    <2> SUFFICES ASSUME NEW u \in page', NEW v \in Updates, v < u, row[v] = "pending"
                 PROVE  v \in page'
      BY <1>1 DEF PageIsOrdered
    <2>1. cursor = -1 /\ u \in Updates /\ u <= through
      BY <1>1, <1>2, <1>4, <1>6
    <2>2. v <= through
      BY <1>0, <2>1
    <2> QED
      BY <1>1, <1>2, <1>5, <2>1, <2>2
  <1>10. ASSUME mode' = "up", NEW t \in Topics PROVE ChannelIsOrdered(t)'
    BY <1>1, <1>10 DEF OrderInv, ChannelIsOrdered, Home
  <1> QED
    BY <1>7, <1>8, <1>9, <1>10 DEF OrderInv

\* The main loop: what leaves the page has been routed, settled or blocked, and what
\* enters a channel is greater than all in it.
LEMMA OrderLoop == ASSUME IInv, OrderInv, OnePage, Loop PROVE OrderInv'
  <1> USE DEF dbVars, pollVars, loopVars, workerVars, histVars
  <1>0. /\ row \in [Updates -> RowStates] /\ chan \in [Topics -> Seq(Updates)]
        /\ page \subseteq Updates /\ Updates \subseteq Nat \ {0} /\ offset \in Nat
    BY OnlyMail DEF IInv, TypeOK
  <1>1. mail' = mail => \A u : Home(u)' = Home(u) /\ Sort(u)' = Sort(u)
    BY DEF Home, Sort
  <1>2. CASE Prune
    <2>1. /\ UNCHANGED <<mail, row, offset, mode, chan, held, latest, page, blocked>>
          /\ delivered' = delivered \cap InState({"pending"}) /\ at = "prune" /\ at' = "read"
          /\ cycling' /\ (cycling => UNCHANGED <<cursor, through>>)
          /\ (~cycling => cursor' = -1 /\ through' = offset - 1)
      BY <1>2, Zenon DEF Prune, KeepDelivered
    <2>2. RowsAreBelow' /\ CommandsFollow'
      BY <1>1, <2>1 DEF OrderInv, RowsAreBelow, CommandsFollow, Deferred
    <2>3. CycleCovers'
      BY <1>0, <2>1 DEF OrderInv, CycleCovers
    <2>4. \A v \in Updates : row[v] = "pending" => (v \in delivered' <=> v \in delivered)
      BY <2>1 DEF InState
    <2>5. PageIsOrdered'
      BY <1>1, <2>1, <2>4 DEF OrderInv, PageIsOrdered
    <2>6. ASSUME mode' = "up", NEW t \in Topics PROVE ChannelIsOrdered(t)'
      BY <1>1, <2>1, <2>4, <2>6 DEF OrderInv, ChannelIsOrdered
    <2> QED
      BY <2>2, <2>3, <2>5, <2>6 DEF OrderInv
  <1>3. CASE ReadPage
    BY <1>3, OrderRead
  <1>4. ASSUME NEW u \in Updates, Delivered(u) PROVE OrderInv'
    BY <1>1, <1>4, OrderStays DEF Delivered, Routing
  <1>5. ASSUME NEW u \in Updates, IgnoreBarred(u) \/ MarkUnsupported(u) PROVE OrderInv'
    <2>1. PICK s \in {"ignored", "done"} : row' = [row EXCEPT ![u] = s]
      BY <1>5 DEF IgnoreBarred, MarkUnsupported, Mark
    <2>2. /\ UNCHANGED <<mail, offset, mode, chan, held, latest, cursor, through, cycling>>
          /\ delivered' = delivered /\ blocked' = blocked /\ page' = page \ {u}
          /\ at' = at \/ (at # "left" /\ at' = "route")
      BY <1>5 DEF IgnoreBarred, MarkUnsupported, Routing
    <2>3. row[u] = "pending"
      BY <1>5 DEF IgnoreBarred, MarkUnsupported, Routing, IsLeast, IInv, LoopInv, PageIsFresh
    <2>4. /\ \A v \in Updates : row'[v] # "absent" => row[v] # "absent"
          /\ \A v \in Updates : row'[v] = "pending" => row[v] = "pending" /\ v # u
      BY <1>0, <2>1, <2>3
    <2> QED
      BY <1>0, <1>1, <2>2, <2>4, OrderStays
  <1>6. ASSUME NEW u \in Updates, EnqueueNotice(u) PROVE OrderInv'
    BY <1>1, <1>6, OrderStays DEF EnqueueNotice, EnqueueNotices, Routing
  <1>7. ASSUME NEW u \in Updates, NEW t \in Topics, Hold(u, t) PROVE OrderInv'
    BY <1>1, <1>7, OrderStays DEF Hold, For, Routing
  <1>8. ASSUME NEW u \in Updates, NEW t \in Topics, Route(u, t) PROVE OrderInv'
    <2>1. /\ UNCHANGED <<mail, row, offset, mode, at, held, latest, cursor, through, cycling>>
          /\ blocked' = blocked /\ page' = page \ {u} /\ delivered' = delivered \cup {u}
          /\ chan' = [chan EXCEPT ![t] = Append(@, u)]
          /\ u \notin delivered /\ t \notin blocked /\ Home(u) = t /\ IsLeast(u, page)
      BY <1>8 DEF Route, For, Routing, GiveToWorker
    <2>2. row[u] = "pending" /\ u \in page
      BY <2>1 DEF IsLeast, IInv, LoopInv, PageIsFresh
    <2>3. /\ RowsAreBelow' /\ CommandsFollow' /\ CycleCovers' /\ PageIsOrdered'
          /\ \A v \in Topics : mode = "up" /\ chan'[v] = chan[v] => ChannelIsOrdered(v)'
      BY <1>0, <1>1, <2>1, OrderKept
    <2>4. \A v \in Updates : row[v] = "pending" /\ v \notin delivered' /\ Home(v) = t => u < v
      <3> SUFFICES ASSUME NEW v \in Updates, row[v] = "pending", v \notin delivered',
                          Home(v) = t, ~(u < v)
                   PROVE  FALSE
        OBVIOUS
      <3>1. v < u /\ v \notin delivered
        BY <1>0, <2>1
      <3>2. v \in page
        BY <2>1, <2>2, <3>1 DEF OrderInv, PageIsOrdered
      <3> QED
        BY <1>0, <2>1, <3>1, <3>2 DEF IsLeast
    <2>5. ASSUME mode' = "up" PROVE ChannelIsOrdered(t)'
      <3> DEFINE c == chan[t]
                 d == chan'[t]
      <3>1. ChannelIsOrdered(t)
        BY <2>1, <2>5 DEF OrderInv
      <3>2. latest[t] <= u /\ \A i \in DOMAIN c : c[i] < u
        BY <2>1, <2>2, <3>1 DEF ChannelIsOrdered
      <3>3. /\ DOMAIN c = 1 .. Len(c) /\ Len(c) \in Nat /\ DOMAIN d = 1 .. Len(c) + 1
            /\ \A i \in DOMAIN c : d[i] = c[i] /\ c[i] \in Updates
            /\ d[Len(c) + 1] = u
        <4>1. c \in Seq(Updates) /\ d = Append(c, u)
          BY <1>0, <2>1
        <4> QED
          BY <4>1, AppendFacts
      <3>4. /\ \A i, j \in DOMAIN c : i < j => c[i] < c[j]
            /\ \A i \in DOMAIN c : latest[t] <= c[i]
            /\ \A v \in Updates : row[v] = "pending" /\ v \notin delivered /\ Home(v) = t =>
                  latest[t] <= v /\ \A i \in DOMAIN c : c[i] < v
        BY <3>1 DEF ChannelIsOrdered
      <3>5. \A i \in DOMAIN d : i \in DOMAIN c \/ i = Len(c) + 1
        BY <3>3
      <3>6. \A i, j \in DOMAIN d : i < j => i \in DOMAIN c
        BY <3>3
      <3> HIDE DEF c, d
      <3>7. \A i, j \in DOMAIN d : i < j => d[i] < d[j]
        BY <3>2, <3>3, <3>4, <3>5, <3>6
      <3>8. \A i \in DOMAIN d : latest[t] <= d[i]
        BY <3>2, <3>3, <3>4, <3>5
      <3>9. \A v \in Updates : row[v] = "pending" /\ v \notin delivered' /\ Home(v) = t =>
               latest[t] <= v /\ \A i \in DOMAIN d : d[i] < v
        BY <2>1, <2>4, <3>3, <3>4, <3>5
      <3> QED
        BY <1>1, <2>1, <3>7, <3>8, <3>9 DEF ChannelIsOrdered, d
    <2>6. \A v \in Topics \ {t} : chan'[v] = chan[v]
      BY <1>0, <2>1
    <2> QED
      BY <2>1, <2>3, <2>5, <2>6 DEF OrderInv
  <1>9. CASE PageRouted \/ Wake
    BY <1>1, <1>9, OrderStays DEF PageRouted, Wake
  <1>10. ASSUME NEW t \in Topics, RemoveExitedWorker(t) PROVE OrderInv'
    <2>1. /\ UNCHANGED <<mail, row, offset, mode, held, latest, cursor, through, cycling>>
          /\ UNCHANGED <<delivered, blocked, page>> /\ at = "wait" /\ at' = "prune"
          /\ chan' = [chan EXCEPT ![t] = <<>>] /\ stage[t] = "exited"
      BY <1>10 DEF RemoveExitedWorker
    <2>2. /\ RowsAreBelow' /\ CommandsFollow' /\ CycleCovers' /\ PageIsOrdered'
          /\ \A v \in Topics : mode = "up" /\ chan'[v] = chan[v] => ChannelIsOrdered(v)'
      BY <1>1, <2>1, OrderKept
    <2>3. ASSUME mode = "up", NEW v \in Topics PROVE chan'[v] = chan[v]
      BY <1>0, <2>1, <2>3 DEF IInv, WorkersInv, StagesAreTrue
    <2> QED
      BY <2>1, <2>2, <2>3 DEF OrderInv
  <1>11. CASE LoopLeaves
    BY <1>11, OrderGone DEF LoopLeaves
  <1> QED
    BY <1>2, <1>3, <1>4, <1>5, <1>6, <1>7, <1>8, <1>9, <1>10, <1>11, Zenon DEF Loop

\* What a worker takes is the least of what its conversation still waits for.
LEMMA OrderReceive ==
    ASSUME IInv, OrderInv, NEW t \in Topics, Receive(t)
    PROVE  OrderInv' /\ (mode = "up" => hand'[t] >= latest[t])
  <1> USE DEF dbVars, pollVars, loopVars, workerVars, histVars
  <1> DEFINE c == chan[t]
             d == Tail(c)
             h == Head(c)
  <1>0. /\ chan \in [Topics -> Seq(Updates)] /\ latest \in [Topics -> Updates \cup {0}]
        /\ Updates \subseteq Nat \ {0} /\ offset \in Nat /\ hand \in [Topics -> Updates \cup {0}]
    BY OnlyMail DEF IInv, TypeOK
  <1>1. /\ UNCHANGED <<mail, row, offset, mode, held, at, cursor, through, cycling>>
        /\ UNCHANGED <<delivered, blocked, page>>
        /\ hand[t] = 0 /\ c # <<>> /\ hand' = [hand EXCEPT ![t] = h]
        /\ chan' = [chan EXCEPT ![t] = d]
        /\ latest' = IF mode = "up" THEN [latest EXCEPT ![t] = h] ELSE latest
        /\ Running /\ stage[t] = "running"
    BY <1>0 DEF Receive, Actor
  <1>2. \A u : Home(u)' = Home(u) /\ Deferred(u)' = Deferred(u)
    BY <1>1 DEF Home, Deferred, Sort
  <1>3. /\ h \in Updates /\ 1 \in DOMAIN c /\ h = c[1]
        /\ \A i \in DOMAIN d : i + 1 \in DOMAIN c /\ d[i] = c[i + 1] /\ i \in Nat /\ i >= 1
        /\ \A i \in DOMAIN c : c[i] \in Updates
    <2>1. c \in Seq(Updates) /\ c # <<>>
      BY <1>0, <1>1
    <2> QED
      BY <2>1, TailFacts
  <1>4. /\ hand'[t] = h /\ chan'[t] = d
        /\ \A v \in Topics \ {t} : chan'[v] = chan[v] /\ latest'[v] = latest[v]
    BY <1>0, <1>1
  <1>5. row[h] = "pending" /\ Home(h) = t
    <2>1. InChan(t, h) /\ Has(t, h)
      BY <1>3 DEF InChan, Has
    <2>2. row[h] = "pending"
      BY <1>1, <1>3, <2>1 DEF IInv, InputsInv, InputsAreTrue
    <2>3. Home(h) = t
      BY <1>1, <1>3, <2>1 DEF IInv, InputsInv, GivenOnce
    <2> QED
      BY <2>2, <2>3
  <1> HIDE DEF c, d, h
  <1>6. CASE mode # "up"
    <2>1. RowsAreBelow' /\ CommandsFollow'
      BY <1>1, <1>2, <1>6 DEF OrderInv, RowsAreBelow, CommandsFollow
    <2>2. CycleCovers' /\ PageIsOrdered'
      BY <1>1, <1>2, <1>6 DEF OrderInv, CycleCovers, PageIsOrdered
    <2> QED
      BY <1>1, <1>6, <2>1, <2>2 DEF OrderInv
  <1>7. CASE mode = "up"
    <2>1. ChannelIsOrdered(t) /\ latest'[t] = h
      BY <1>0, <1>1, <1>7 DEF OrderInv
    <2>2. /\ \A i, j \in DOMAIN c : i < j => c[i] < c[j]
          /\ \A i \in DOMAIN c : latest[t] <= c[i]
          /\ \A v \in Updates : row[v] = "pending" /\ v \notin delivered /\ Home(v) = t =>
                \A i \in DOMAIN c : c[i] < v
      BY <2>1 DEF ChannelIsOrdered, c
    <2>3. latest[t] <= h
      BY <1>3, <2>2
    <2>4. \A i \in DOMAIN d : h < d[i]
      <3> SUFFICES ASSUME NEW i \in DOMAIN d PROVE h < d[i]
        OBVIOUS
      <3>1. 1 < i + 1 /\ i + 1 \in DOMAIN c /\ d[i] = c[i + 1]
        BY <1>3
      <3> QED
        BY <1>3, <2>2, <3>1
    <2>5. \A i \in DOMAIN d : d[i] \in Updates
      BY <1>3
    <2>6. \A i, j \in DOMAIN d : i < j => d[i] < d[j]
      <3> SUFFICES ASSUME NEW i \in DOMAIN d, NEW j \in DOMAIN d, i < j PROVE d[i] < d[j]
        OBVIOUS
      <3>1. /\ i + 1 < j + 1 /\ i + 1 \in DOMAIN c /\ j + 1 \in DOMAIN c
            /\ d[i] = c[i + 1] /\ d[j] = c[j + 1]
        BY <1>3
      <3> QED
        BY <2>2, <3>1
    <2>7. \A v \in Updates : row[v] = "pending" /\ v \notin delivered /\ Home(v) = t =>
             h < v /\ \A i \in DOMAIN d : d[i] < v
      BY <1>3, <2>2
    <2>8. \A v \in Updates : row[v] = "pending" /\ ~Deferred(v) /\ Home(v) = t => h <= v
      <3> SUFFICES ASSUME NEW v \in Updates, row[v] = "pending", ~Deferred(v), Home(v) = t
                   PROVE  h <= v
        OBVIOUS
      <3>1. CASE v \notin delivered
        BY <1>0, <1>3, <2>7, <3>1
      <3>2. CASE v \in delivered
        <4>1. PICK s \in Topics : Has(s, v)
          BY <1>7, <3>2 DEF IInv, InputsInv, NothingStranded
        <4>2. s = t
          BY <1>1, <4>1 DEF IInv, InputsInv, GivenOnce
        <4>3. v \notin held[t] /\ hand[t] # v
          BY <1>0, <1>1 DEF OrderInv, CommandsFollow
        <4>4. PICK i \in DOMAIN c : c[i] = v
          BY <4>1, <4>2, <4>3 DEF Has, InChan, c
        <4>5. i = 1 \/ 1 < i
          <5>1. c \in Seq(Updates)
            BY <1>0 DEF c
          <5> QED
            BY <4>4, <5>1
        <4> QED
          BY <1>0, <1>3, <2>2, <4>4, <4>5
      <3> QED
        BY <3>1, <3>2
    <2>9. h < offset
      BY <1>3, <1>5 DEF OrderInv, RowsAreBelow
    <2>10. RowsAreBelow'
      <3>1. \A v \in Topics : latest'[v] <= offset
        <4> SUFFICES ASSUME NEW v \in Topics PROVE latest'[v] <= offset
          OBVIOUS
        <4>1. h <= offset
          BY <1>0, <1>3, <2>9
        <4> QED
          BY <1>4, <2>1, <4>1 DEF OrderInv, RowsAreBelow
      <3> QED
        BY <1>1, <3>1 DEF OrderInv, RowsAreBelow
    <2>11. CommandsFollow'
      BY <1>1, <1>2, <1>4, <2>1, <2>8 DEF OrderInv, CommandsFollow
    <2>12. CycleCovers' /\ PageIsOrdered'
      BY <1>1, <1>2 DEF OrderInv, CycleCovers, PageIsOrdered
    <2>13. ASSUME NEW v \in Topics PROVE ChannelIsOrdered(v)'
      <3>1. CASE v = t
        <4>1. \A i \in DOMAIN d : h <= d[i]
          <5> SUFFICES ASSUME NEW i \in DOMAIN d PROVE h <= d[i]
            OBVIOUS
          <5>1. h < d[i] /\ h \in Nat /\ d[i] \in Nat
            BY <1>0, <1>3, <2>4, <2>5
          <5> QED
            BY <5>1
        <4>2. \A x \in Updates : row[x] = "pending" /\ x \notin delivered /\ Home(x) = t => h <= x
          BY <1>0, <1>3, <2>7
        <4> QED
          BY <1>1, <1>2, <1>4, <2>1, <2>6, <2>7, <3>1, <4>1, <4>2 DEF ChannelIsOrdered
      <3>2. CASE v # t
        BY <1>1, <1>2, <1>4, <1>7, <3>2 DEF OrderInv, ChannelIsOrdered
      <3> QED
        BY <3>1, <3>2
    <2>14. hand'[t] >= latest[t]
      BY <1>4, <2>3
    <2> QED
      BY <2>10, <2>11, <2>12, <2>13, <2>14 DEF OrderInv
  <1> QED
    BY <1>6, <1>7

\* The other steps of a worker give no input away.
LEMMA OrderWorker ==
    ASSUME IInv, OrderInv, NEW t \in Topics, Handle(t) \/ Task(t) \/ Lifecycle(t)
    PROVE  OrderInv'
  <1> USE DEF dbVars, pollVars, loopVars, workerVars, histVars
  <1>0. /\ row \in [Updates -> RowStates] /\ hand \in [Topics -> Updates \cup {0}]
        /\ held \in [Topics -> SUBSET Updates]
        /\ \A u \in Updates : row[u] # "absent" => u \in 1 .. Len(mail)
    BY OnlyMail DEF IInv, TypeOK
  <1>1. mail' = mail => \A u : Home(u)' = Home(u) /\ Sort(u)' = Sort(u)
    BY DEF Home, Sort
  <1>2. ASSUME UNCHANGED <<mail, offset, mode, loopVars, chan, latest>>,
               NEW u \in Updates, row[u] \in {"pending", "submitted"},
               NEW s \in {"submitted"} \cup Settled, row' = [row EXCEPT ![u] = s] \/ row' = row,
               \A v \in Topics : \A x \in held'[v] :
                    x \in held[v] \/ (x \in 1 .. Len(mail) /\ Deferred(x))
        PROVE  OrderInv'
    <2>1. \A x \in Updates : row'[x] # "absent" => row[x] # "absent"
      BY <1>0, <1>2
    <2>2. s # "pending"
      BY <1>2 DEF Settled
    <2>3. \A x \in Updates : row'[x] = "pending" => row[x] = "pending"
      BY <1>0, <1>2, <2>2
    <2> QED
      BY <1>1, <1>2, <2>1, <2>3, OrderStays
  <1>3. ASSUME UNCHANGED <<mail, offset, mode, loopVars, chan, latest, row>>,
               \A v \in Topics : held'[v] \subseteq held[v]
        PROVE  OrderInv'
    BY <1>1, <1>3, OrderStays
  <1>4. "submitted" \in {"submitted"} \cup Settled /\ \A s \in Settled : s \in {"submitted"} \cup Settled
    OBVIOUS
  <1>5. CASE Receive(t)
    BY <1>5, OrderReceive
  <1>6. ASSUME NEW S, Fresh(t, S) PROVE hand[t] \in Updates /\ row[hand[t]] = "pending"
    BY <1>0, <1>6 DEF Fresh
  <1>7. CASE IgnoreNoise(t) \/ (\E s \in Settled : RefusePrompt(t, s)) \/ BeginCommand(t)
    <2>1. hand[t] \in Updates /\ row[hand[t]] = "pending"
      BY <1>6, <1>7 DEF IgnoreNoise, RefusePrompt, BeginCommand
    <2>2. PICK s \in {"submitted"} \cup Settled : row' = [row EXCEPT ![hand[t]] = s]
      BY <1>7 DEF IgnoreNoise, RefusePrompt, BeginCommand, Mark, Settled
    <2>3. UNCHANGED <<mail, offset, mode, loopVars, chan, latest, held>>
      BY <1>7 DEF IgnoreNoise, RefusePrompt, BeginCommand
    <2> QED
      BY <1>2, <2>1, <2>2, <2>3
  <1>8. CASE \E s \in Settled : EndCommand(t, s)
    <2>1. hand[t] \in Updates /\ row[hand[t]] = "submitted"
      BY <1>0, <1>8 DEF EndCommand
    <2>2. PICK s \in Settled : row' = [row EXCEPT ![hand[t]] = s]
      BY <1>8 DEF EndCommand, Mark
    <2>3. UNCHANGED <<mail, offset, mode, loopVars, chan, latest, held>>
      BY <1>8 DEF EndCommand
    <2> QED
      BY <1>2, <2>1, <2>2, <2>3
  <1>9. CASE AbandonPrompt(t) \/ Execute(t)
    BY <1>3, <1>9 DEF AbandonPrompt, Execute
  <1>10. CASE HoldPrompt(t)
    <2>1. hand[t] \in Updates /\ row[hand[t]] = "pending" /\ Deferred(hand[t])
      BY <1>6, <1>10 DEF HoldPrompt, Fresh, Deferred
    <2>2. held' = [held EXCEPT ![t] = @ \cup {hand[t]}]
      BY <1>10 DEF HoldPrompt
    <2>3. \A v \in Topics : \A x \in held'[v] :
             x \in held[v] \/ (x \in 1 .. Len(mail) /\ Deferred(x))
      BY <1>0, <2>1, <2>2
    <2>4. UNCHANGED <<mail, offset, mode, loopVars, chan, latest, row>>
      BY <1>10 DEF HoldPrompt
    <2> QED
      BY <1>2, <2>1, <2>3, <2>4
  <1>11. ASSUME NEW u \in Updates, NEW s \in Settled,
                Submit(t, u) \/ Settle(t, u, s) \/ DropQueued(t, u, s)
         PROVE  OrderInv'
    <2>1. row[u] \in {"pending", "submitted"}
      BY <1>11 DEF Submit, SubmitAs, Settle, DropQueued
    <2>2. PICK r \in {"submitted"} \cup Settled : row' = [row EXCEPT ![u] = r]
      BY <1>11 DEF Submit, SubmitAs, Settle, DropQueued, Mark
    <2>3. UNCHANGED <<mail, offset, mode, loopVars, chan, latest>>
      BY <1>11 DEF Submit, SubmitAs, Settle, DropQueued
    <2>4. \A v \in Topics : held'[v] \subseteq held[v]
      BY <1>0, <1>11 DEF Submit, SubmitAs, Settle, DropQueued
    <2> QED
      BY <1>2, <2>1, <2>2, <2>3, <2>4
  <1>12. ASSUME NEW u \in Updates, Ask(t, u) PROVE OrderInv'
    BY <1>3, <1>12 DEF Ask
  <1>13. ASSUME NEW u \in Updates, TeardownInput(t, u) PROVE OrderInv'
    <2>1. row[u] \in {"pending", "submitted"}
      BY <1>13 DEF TeardownInput
    <2>2. PICK r \in Settled : row' = [row EXCEPT ![u] = r]
      BY <1>13 DEF TeardownInput, Mark, Settled
    <2>3. UNCHANGED <<mail, offset, mode, loopVars, chan, latest>>
      BY <1>13 DEF TeardownInput
    <2>4. \A v \in Topics : held'[v] \subseteq held[v]
      BY <1>0, <1>13 DEF TeardownInput
    <2> QED
      BY <1>2, <2>1, <2>2, <2>3, <2>4
  <1>14. CASE \/ EvictIfIdle(t) \/ ForgetBinding(t) \/ BindingForgotten(t) \/ BindingKept(t)
              \/ BeginTeardown(t) \/ WorkerReturns(t)
    BY <1>3, <1>14 DEF EvictIfIdle, ForgetBinding, BindingForgotten, BindingKept, BeginTeardown,
       WorkerReturns, Retire
  <1>15. "done" \in Settled
    BY DEF Settled
  <1>16. CASE Handle(t)
    BY <1>5, <1>7, <1>8, <1>9, <1>10, <1>16, Zenon DEF Handle
  <1>17. CASE Task(t)
    BY <1>11, <1>12, <1>15, <1>17, Zenon DEF Task
  <1>18. CASE Lifecycle(t)
    BY <1>13, <1>14, <1>18, Zenon DEF Lifecycle
  <1> QED
    BY <1>16, <1>17, <1>18

\* A stop, a crash and a restart: no prompt survives them, and the rest of what was
\* taken last comes again first.
LEMMA OrderProcess == ASSUME IInv, OrderInv, Process PROVE OrderInv'
  <1> USE DEF dbVars, pollVars, loopVars, workerVars, histVars
  <1>0. /\ row \in [Updates -> RowStates] /\ chan \in [Topics -> Seq(Updates)]
        /\ \A u \in Updates : row[u] # "absent" => u \in 1 .. Len(mail)
    BY OnlyMail DEF IInv, TypeOK
  <1>1. mail' = mail => \A u : Home(u)' = Home(u) /\ Sort(u)' = Sort(u)
    BY DEF Home, Sort
  <1>2. CASE Stop
    <2>1. CASE LoopGone
      BY <1>2, <2>1, OrderGone DEF Stop
    <2>2. CASE UNCHANGED loopVars
      BY <1>1, <1>2, <2>2, OrderStays DEF Stop
    <2> QED
      BY <1>2, <2>1, <2>2 DEF Stop
  <1>3. CASE BeginSweep
    BY <1>1, <1>3, OrderStays DEF BeginSweep
  <1>4. ASSUME NEW u \in Updates, CancelPendingPrompt(u) PROVE OrderInv'
    <2>1. row' = [row EXCEPT ![u] = "cancelled"] /\ row[u] = "pending"
      BY <1>4 DEF CancelPendingPrompt, Mark, IsLeast, Waiting, InState
    <2>2. \A v \in Updates : row'[v] # "absent" => row[v] # "absent"
      BY <1>0, <2>1
    <2>3. \A v \in Updates : row'[v] = "pending" => row[v] = "pending"
      BY <1>0, <2>1
    <2> QED
      BY <1>1, <1>4, <2>2, <2>3, OrderStays DEF CancelPendingPrompt
  <1>5. CASE Exit \/ Crash
    <2>1. \A t \in Topics : held'[t] \subseteq held[t]
      BY <1>5 DEF Exit, Crash, NoProcess
    <2> QED
      BY <1>5, <2>1, OrderGone DEF Exit, Crash, NoProcess
  <1>6. CASE Reopen
    <2>1. row' = [u \in Updates |-> IF row[u] = "submitted" THEN "uncertain" ELSE row[u]]
      BY <1>6 DEF Reopen, ReopenWith
    <2>2. \A v \in Updates : row'[v] # "absent" => row[v] # "absent"
      BY <2>1
    <2>3. \A v \in Updates : row'[v] = "pending" => row[v] = "pending"
      BY <2>1
    <2> QED
      BY <1>1, <1>6, <2>2, <2>3, OrderStays DEF Reopen, ReopenWith
  <1>7. CASE Start
    <2>1. /\ UNCHANGED <<mail, row, offset, delivered, cursor, through, cycling, page, blocked,
                         chan, held, latest>>
          /\ mode = "restoring" /\ Waiting = {} /\ at' = "prune"
      BY <1>7 DEF Start, StartUp
    <2>2. /\ at = "left" /\ page = {}
          /\ \A t \in Topics : chan[t] = <<>> /\ held[t] = {}
      BY <2>1 DEF IInv, WorkersInv, NoMemory, LoopInv, PageIsFresh
    <2>3. \A u \in Updates : row[u] = "pending" => ~Deferred(u)
      BY <2>1 DEF Waiting, InState
    <2>4. RowsAreBelow' /\ CommandsFollow'
      BY <1>1, <2>1 DEF OrderInv, RowsAreBelow, CommandsFollow, Deferred
    <2>5. CycleCovers' /\ PageIsOrdered'
      BY <2>1, <2>2 DEF OrderInv, CycleCovers, PageIsOrdered
    <2>6. ASSUME NEW t \in Topics PROVE ChannelIsOrdered(t)'
      <3>1. \A u \in Updates : row[u] = "pending" /\ Home(u) = t => latest[t] <= u
        BY <2>3 DEF OrderInv, CommandsFollow
      <3>2. DOMAIN chan'[t] = {}
        BY <2>1, <2>2
      <3> QED
        BY <1>1, <2>1, <3>1, <3>2 DEF ChannelIsOrdered
    <2> QED
      BY <2>4, <2>5, <2>6 DEF OrderInv
  <1> QED
    BY <1>2, <1>3, <1>4, <1>5, <1>6, <1>7, Zenon DEF Process

\* Every step keeps the order while all that is pending fits one page.
LEMMA OrderStep == IInv /\ OrderInv /\ OnePage /\ [Next]_vars => OrderInv'
  <1> SUFFICES ASSUME IInv, OrderInv, OnePage, [Next]_vars PROVE OrderInv'
    OBVIOUS
  <1>1. ASSUME UNCHANGED vars PROVE OrderInv'
    BY <1>1, OrderStays
       DEF vars, dbVars, pollVars, loopVars, workerVars, histVars, Home, Sort
  <1> QED
    BY <1>1, OrderPoller, OrderLoop, OrderWorker, OrderProcess, Zenon DEF Next

\* Only Receive gives a worker another input.
LEMMA HandStep ==
    ASSUME IInv, OrderInv, [Next]_vars, NEW t \in Topics, mode = "up", hand'[t] \notin {0, hand[t]}
    PROVE  hand'[t] >= latest[t]
  <1> USE DEF dbVars, pollVars, loopVars, workerVars, histVars
  <1>0. hand \in [Topics -> Updates \cup {0}]
    BY DEF IInv, TypeOK
  <1>1. hand' # hand
    OBVIOUS
  <1>2. ~UNCHANGED vars /\ ~Users /\ ~Poller
    BY <1>1 DEF vars, Users, Send, Poller, GetUpdates, Accept, StoreUpdate, PollerLeaves
  <1>3. ~Loop
    BY <1>1 DEF Loop, Prune, KeepDelivered, ReadPage, ReadPageThen, Delivered, IgnoreBarred,
       EnqueueNotice, EnqueueNotices, MarkUnsupported, Route, GiveToWorker, Hold, PageRouted,
       Wake, RemoveExitedWorker, LoopLeaves
  <1>4. ~Process
    <2>1. ~Exit /\ ~Crash
      BY DEF Exit, Crash, NoProcess
    <2> QED
      BY <1>1, <2>1 DEF Process, Stop, BeginSweep, CancelPendingPrompt, Reopen, ReopenWith,
         Start, StartUp
  <1>5. PICK v \in Topics : Handle(v) \/ Task(v) \/ Lifecycle(v)
    BY <1>2, <1>3, <1>4 DEF Next
  <1>6. ~Task(v) /\ ~Lifecycle(v)
    BY <1>1 DEF Task, Submit, SubmitAs, Ask, Settle, DropQueued, Lifecycle, EvictIfIdle,
       ForgetBinding, BindingForgotten, BindingKept, BeginTeardown, TeardownInput,
       WorkerReturns, Retire
  <1>7. Handle(v) => Receive(v) \/ hand' = [hand EXCEPT ![v] = 0] \/ hand' = hand
    BY DEF Handle, IgnoreNoise, RefusePrompt, AbandonPrompt, HoldPrompt, BeginCommand, Execute,
       EndCommand, PutDown
  <1>8. Receive(v)
    BY <1>0, <1>1, <1>5, <1>6, <1>7
  <1>9. v = t
    BY <1>0, <1>8 DEF Receive
  <1> QED
    BY <1>8, <1>9, OrderReceive

\* While the bridge is up the inputs of a conversation reach its worker in the order
\* of their ids, whatever channels fill, workers exit and processes crash: as long as
\* all that is pending fits one page.  A backlog of more than one lets a later input
\* overtake one that was refused on an earlier page.
THEOREM OrderWithinAPage == Spec /\ []OnePage => HandledInOrder
  <1>1. IInv /\ OrderInv /\ [Next]_vars =>
          [\A t \in Topics :
              mode = "up" /\ hand'[t] \notin {0, hand[t]} => hand'[t] >= latest[t]]_vars
    BY HandStep
  <1> QED
    BY <1>1, OrderInit, OrderStep, Invariant, PTL DEF Spec, HandledInOrder
=============================================================================
