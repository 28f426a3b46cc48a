--------------------------- MODULE InboxLiveness ---------------------------
(***************************************************************************)
(* Progress of the inbox.  Fair are: the goroutines of the bridge, which   *)
(* Go schedules; the select of the main loop, which chooses at random      *)
(* among what is ready; Telegram, which answers a poll in the end; and     *)
(* OMP, whose task ends or is retired by the watchdog.  Nothing forces     *)
(* users to write, the process to stop, or a worker to be evicted.         *)
(***************************************************************************)
EXTENDS Inbox

Routed(u) ==
    \/ Delivered(u)
    \/ IgnoreBarred(u)
    \/ EnqueueNotice(u)
    \/ MarkUnsupported(u)
    \/ \E t \in Topics : Route(u, t) \/ Hold(u, t)

LoopGoesOn == Prune \/ ReadPage \/ (\E u \in Updates : Routed(u)) \/ PageRouted \/ Wake

WorkerFairness(t) ==
    /\ WF_vars(Handle(t))
    /\ WF_vars(BindingForgotten(t) \/ BindingKept(t))
    /\ WF_vars(BeginTeardown(t))
    /\ WF_vars(WorkerReturns(t))
    /\ SF_vars(RemoveExitedWorker(t))
    /\ \A u \in Updates :
        /\ WF_vars(Submit(t, u))
        /\ WF_vars(\E s \in Settled : Settle(t, u, s))
        /\ WF_vars(TeardownInput(t, u))

Fairness ==
    /\ WF_vars(Poller)
    /\ WF_vars(LoopGoesOn)
    /\ SF_vars(LoopLeaves)
    /\ \A t \in Topics : WorkerFairness(t)
    /\ WF_vars(BeginSweep)
    /\ WF_vars(\E u \in Updates : CancelPendingPrompt(u))
    /\ WF_vars(Exit)
    /\ WF_vars(Reopen)
    /\ WF_vars(Start)

FairSpec == Spec /\ Fairness

\* Every update a user sends is settled in the end: no page cursor, refusal, fence,
\* eviction, stop or restart leaves one behind (the main loop, restoreWorkers).
EventuallySettled ==
    \A u \in Updates : u <= Len(mail) ~> row[u] \in Settled
=============================================================================
