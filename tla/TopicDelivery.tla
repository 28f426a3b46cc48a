---------------------------- MODULE TopicDelivery ----------------------------
(***************************************************************************)
(* What the outbox promises to the conversations it serves, with no table, *)
(* worker, claim, retry or restart in sight.  A submitted message is open  *)
(* until it gets one final verdict.  It is shown at most once; it is shown *)
(* in submission order while open; "delivered" is said only of a message   *)
(* that was shown, "failed" only of one that never is, and "doubtful" of a *)
(* message that may still be shown, late, behind its successors.           *)
(***************************************************************************)
EXTENDS Integers, Sequences

CONSTANTS Topics, NoTopic, Messages

VARIABLES
    home,     \* the topic of each message
    verdict,  \* "none", "open", "delivered", "failed" or "doubtful"
    shown     \* per topic, the messages in the order they appeared

avars == <<home, verdict, shown>>

IsShown(m) == \E t \in Topics : \E i \in DOMAIN shown[t] : shown[t][i] = m

AInit ==
    /\ home = [m \in Messages |-> NoTopic]
    /\ verdict = [m \in Messages |-> "none"]
    /\ shown = [t \in Topics |-> <<>>]

\* A batch follows everything submitted before it.
Submit(t, M) ==
    /\ M # {}
    /\ \A m \in M : /\ verdict[m] = "none"
                    /\ \A n \in Messages : verdict[n] # "none" => n < m
    /\ home' = [m \in Messages |-> IF m \in M THEN t ELSE home[m]]
    /\ verdict' = [m \in Messages |-> IF m \in M THEN "open" ELSE verdict[m]]
    /\ UNCHANGED shown

Show(m) ==
    /\ verdict[m] \in {"open", "doubtful"}
    /\ ~IsShown(m)
    /\ verdict[m] = "open" =>
         \A n \in Messages : home[n] = home[m] /\ n < m => verdict[n] # "open"
    /\ shown' = [shown EXCEPT ![home[m]] = Append(@, m)]
    /\ UNCHANGED <<home, verdict>>

\* What is known about an open message when its verdict is given.
Justified(m, v) ==
    \/ v = "delivered" /\ IsShown(m)
    \/ v = "failed" /\ ~IsShown(m)
    \/ v = "doubtful"

Conclude(M, v) ==
    /\ \A m \in M : verdict[m] = "open" /\ Justified(m, v)
    /\ verdict' = [m \in Messages |-> IF m \in M THEN v ELSE verdict[m]]
    /\ UNCHANGED <<home, shown>>

ANext ==
    \/ \E t \in Topics, M \in SUBSET Messages : Submit(t, M)
    \/ \E m \in Messages : Show(m)
    \/ \E M \in SUBSET Messages, v \in {"delivered", "failed", "doubtful"} : Conclude(M, v)

ASpec == AInit /\ [][ANext]_avars
=============================================================================
