------------------------- MODULE ReplyEditsLiveness -------------------------
(* Fairness for the delivery workers and the actor, and what must           *)
(* eventually happen to edits and clicks.                                   *)
EXTENDS ReplyEdits

\* A delivery goroutine polls every 200 ms and every request has a deadline.  The
\* actor handles every callback, if others do not keep it busy for ever; what a
\* held command waits for comes or expires (confirmations have an expiry, queries
\* a timeout), and the actor then decides.  Its supervisor restarts the daemon.
Fairness ==
    /\ \A w \in Workers : WF_vars(Worker(w))
    /\ \A c \in Clicks : SF_vars(Handle(c)) /\ SF_vars(Decide(c))
    /\ \A c \in Clicks : WF_vars(receipt[c] = "accepted" /\ MarkClick(c))
    /\ WF_vars(Exit)
    /\ WF_vars(Reopen)

FairSpec == Spec /\ Fairness

\* Whatever the interruptions, the work on sent messages runs dry: no header and no
\* keyboard of a delivered answer stays to be edited, and no claim stays for ever.
EditsSettle ==
    \A r \in Replies :
        []<>(state[r] = "done" => ~headerPending[r] /\ actionsPending[r] = 0)

\* A click's row does not stay pending, and a button does not stay reserved.
ClicksSettle ==
    \A c \in Clicks :
        (click[c] = "pending" \/ \E k \in Reserved : by[k] = c)
            ~> (click[c] # "pending" /\ \A k \in Reserved : by[k] # c)
=============================================================================
