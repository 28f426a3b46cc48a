--------------------------- MODULE OutboxLiveness ---------------------------
(* Fairness for the delivery workers and what must eventually happen.      *)
EXTENDS Outbox

\* The topics that Telegram may keep answering with 429 for ever.
CONSTANT Throttled

\* Everything but a producer, a failure or another 429 eventually happens when
\* it stays possible: deliver polls every 200 ms, every call has a deadline,
\* retry deadlines pass, a failed worker stops the daemon, and its supervisor
\* restarts it.
Answered(w) ==
    \/ AnswerOk(w)
    \/ \E o \in {"server", "failed"} : AnswerRejection(w, o)
    \/ AnswerUnknown(w)

AnswersUnthrottled == \E w \in Workers : job[w] \in Rows /\ topic[job[w]] \notin Throttled /\ Answered(w)

\* A retry deadline is a second or more away, several polls of an idle worker:
\* a due row at the head of its topic is not passed over for ever.
Fairness ==
    /\ \A w \in Workers : WF_vars(Worker(w))
    /\ \A r \in Rows : SF_vars(\E w \in Workers : ClaimNextOutput(w, r))
    /\ \A r \in Rows : WF_vars(DeadlinePasses(r))
    /\ SF_vars(AnswersUnthrottled)
    /\ WF_vars(Stop /\ \E w \in Workers : pc[w] = "exited")
    /\ WF_vars(Exit)
    /\ WF_vars(Reopen)

FairSpec == Spec /\ Fairness

\* Every row of a topic that Telegram does not throttle for ever gets its
\* verdict, although another topic is retried without end ("Other conversations
\* can proceed"), through crashes and persistence failures.
EventuallySettled ==
    \A r \in Rows :
        (state[r] = "pending" /\ topic[r] \notin Throttled) ~> state[r] \in Settled

=============================================================================
