----------------------------- MODULE ReplyEdits -----------------------------
(***************************************************************************)
(* What may change of an answer once it is written: its status header and  *)
(* its completion shortcuts, the buttons of final_actions.  The delivery   *)
(* workers edit sent messages under a claim that both kinds of edit share  *)
(* (internal/bridge/assistant_delivery.go, final_actions.go,               *)
(* internal/store/store.go), while the actor changes the header and users  *)
(* click: a click reserves a button, and the command it names consumes the *)
(* reservation before its first side effect or releases it                 *)
(* (internal/store/final_actions.go).                                      *)
(*                                                                         *)
(* Module Outbox has the sending itself, module Inbox the way of a click   *)
(* to its worker; both are reduced here to what the edits depend on.       *)
(***************************************************************************)
EXTENDS Integers, FiniteSets

CONSTANTS
    Replies,    \* answers, by their outbox ids
    Buttons,    \* the shortcuts the configuration gives an answer
    Clicks,     \* clicks of users, by their inbox ids
    Headers,    \* contents a status header can have
    NoHeader,   \* the empty header
    NoClick,    \* 0 in consumed_by
    Workers,    \* the delivery goroutines
    MaxChanges, \* bound: later changes of headers
    MaxStops    \* bound: orderly stops and crashes

ASSUME ReplyAssumption == Replies \subseteq Nat \ {0}
ASSUME NullAssumption == NoHeader \notin Headers /\ NoClick \notin Clicks
ASSUME BoundAssumption == MaxChanges \in Nat /\ MaxStops \in Nat

VARIABLES
    \* table outbox, of each answer
    state,          \* OutboxState; "none" before it is written, "gone" after retention
    header,         \* header
    headerPending,  \* header_pending
    actions,        \* final_actions, the buttons it is to show
    actionsPending, \* actions_pending: 0 nothing to do, 1 to edit, 2 claimed
    \* table final_actions
    registered,     \* its tokens, a button of an answer each
    consumed,       \* tokens with consumed=1
    by,             \* consumed_by
    \* clicks
    click,          \* InboxState of the callback's row
    wants,          \* the token clicked
    receipt,        \* finalActionDispatch in the actor
    bound,          \* answers whose binding and configuration are still current
    \* the process
    mode,           \* "up", "stopping" or "down"
    place,          \* of each delivery worker
    job,            \* the row it claimed, as it was then
    \* Telegram
    shown,          \* header and buttons of the message
    late,           \* edits of unknown outcome that may still arrive
    \* history
    doubt,          \* answers whose last edit was refused, cut off or is unknown
    differing,      \* answers whose buttons were changed while a process that died
                    \* held the claim, and that were not claimed again
    runs,           \* how often the command of a token was accepted
    grants,         \* how often a click was given a reservation
    lost,           \* tokens that were reserved when the database was reopened
    changes, stops  \* counted for the bounds

rowVars   == <<state, header, headerPending, actions, actionsPending>>
tokenVars == <<registered, consumed, by>>
clickVars == <<click, wants, receipt>>
workVars  == <<place, job>>
shownVars == <<shown, late, doubt>>
pastVars  == <<runs, grants, lost>>
boundVars == <<changes, stops>>
vars == <<rowVars, tokenVars, clickVars, bound, mode, workVars, shownVars, differing, pastVars,
          boundVars>>

Tokens == Replies \X Buttons
Unclicked == <<0, NoClick>>
Of(r) == {k \in Tokens : k[1] = r}
Reserved == {k \in registered \ consumed : by[k] # NoClick}
Running == mode \in {"up", "stopping"}
Least(r, S) == r \in S /\ \A q \in S : r <= q

\* CASE WHEN actions_pending=2 THEN 2 ELSE 1 END
Requested(p) == IF p = 2 THEN 2 ELSE 1

-----------------------------------------------------------------------------
\* The actor and its answers.

\* AppendAssistantReplies: an answer with its first header, without buttons.
Append(r, h) ==
    /\ mode = "up"
    /\ state[r] = "none"
    /\ state' = [state EXCEPT ![r] = "pending"]
    /\ header' = [header EXCEPT ![r] = h]
    /\ UNCHANGED <<headerPending, actions, actionsPending, tokenVars, clickVars, bound, mode,
                   workVars, shownVars, differing, pastVars, boundVars>>

\* SetAssistantHeader
SetHeader(r, h) ==
    /\ mode = "up"
    /\ changes < MaxChanges
    /\ state[r] \notin {"none", "gone"}
    /\ header[r] # h
    /\ header' = [header EXCEPT ![r] = h]
    /\ headerPending' = [headerPending EXCEPT ![r] = TRUE]
    /\ changes' = changes + 1
    /\ UNCHANGED <<state, actions, actionsPending, tokenVars, clickVars, bound, mode, workVars,
                   shownVars, differing, pastVars, stops>>

\* registerFinalActions, in the transaction that completes the root's input.
Register(r) ==
    /\ mode = "up"
    /\ state[r] \notin {"none", "gone"}
    /\ bound[r]
    /\ Of(r) \cap registered = {}
    /\ registered' = registered \cup Of(r)
    /\ actions' = [actions EXCEPT ![r] = Buttons]
    /\ actionsPending' = [actionsPending EXCEPT ![r] = Requested(@)]
    /\ UNCHANGED <<state, header, headerPending, consumed, by, clickVars, bound, mode, workVars,
                   shownVars, differing, pastVars, boundVars>>

\* The conversation gets another session or generation, or a restarted process
\* other shortcuts.
Rebind(r) ==
    /\ mode \in {"up", "down"}
    /\ bound[r]
    /\ bound' = [bound EXCEPT ![r] = FALSE]
    /\ UNCHANGED <<rowVars, tokenVars, clickVars, mode, workVars, shownVars, differing, pastVars,
                   boundVars>>

-----------------------------------------------------------------------------
\* A delivery worker: a header, a keyboard, a message, and again.

GoTo(w, p) == place' = [place EXCEPT ![w] = p]
NoJob == [reply |-> 0, header |-> NoHeader, actions |-> {}]

\* Takes row r as it is now.
Takes(w, r, p) ==
    /\ job' = [job EXCEPT ![w] = [reply |-> r, header |-> header[r], actions |-> actions[r]]]
    /\ differing' = differing \ {r}
    /\ GoTo(w, p)
Edits == {"claimed", "editingHeader", "editingActions", "headerEdited", "actionsEdited"}
Has(w, r) == job[w].reply = r /\ place[w] \in Edits

\* Gives up its row.
Leaves(w, p) ==
    /\ job' = [job EXCEPT ![w] = NoJob]
    /\ GoTo(w, p)

StaleHeaders ==
    {r \in Replies : state[r] = "done" /\ headerPending[r] /\ actionsPending[r] # 2}

\* NextAssistantHeader
ClaimHeader(w) ==
    /\ Running
    /\ place[w] = "header"
    /\ IF StaleHeaders = {}
         THEN GoTo(w, "actions") /\ UNCHANGED <<job, actionsPending, differing>>
         ELSE \E r \in StaleHeaders :
                /\ Least(r, StaleHeaders)
                /\ Takes(w, r, "editingHeader")
                /\ actionsPending' = [actionsPending EXCEPT ![r] = 2]
    /\ UNCHANGED <<state, header, headerPending, actions, tokenVars, clickVars, bound, mode,
                   shownVars, pastVars, boundVars>>

StaleActions == {r \in Replies : state[r] = "done" /\ actionsPending[r] = 1}

\* ClaimFinalActionEdit
ClaimActions(w) ==
    /\ Running
    /\ place[w] = "actions"
    /\ IF StaleActions = {} \/ mode = "stopping"
         THEN GoTo(w, "send") /\ UNCHANGED <<job, actionsPending, differing>>
         ELSE \E r \in StaleActions :
                /\ Least(r, StaleActions)
                /\ Takes(w, r, "claimed")
                /\ actionsPending' = [actionsPending EXCEPT ![r] = 2]
    /\ UNCHANGED <<state, header, headerPending, actions, tokenVars, clickVars, bound, mode,
                   shownVars, pastVars, boundVars>>

\* The context is tested once more before the request.
StartEdit(w) ==
    /\ mode = "up"
    /\ place[w] = "claimed"
    /\ GoTo(w, "editingActions")
    /\ UNCHANGED <<rowVars, tokenVars, clickVars, bound, mode, job, shownVars, differing, pastVars,
                   boundVars>>

\* ReleaseAssistantEdit
ReleaseEdit(w) ==
    /\ mode = "stopping"
    /\ place[w] = "claimed"
    /\ actionsPending' = [actionsPending EXCEPT ![job[w].reply] = 1]
    /\ Leaves(w, "send")
    /\ UNCHANGED <<state, header, headerPending, actions, tokenVars, clickVars, bound, mode,
                   shownVars, differing, pastVars, boundVars>>

\* What the message looks like when w's edit has reached it: editMessageText sets
\* both, editMessageReplyMarkup leaves the text alone.
Edited(w) ==
    LET r == job[w].reply
    IN [header  |-> IF place[w] = "editingHeader" THEN job[w].header ELSE shown[r].header,
        actions |-> job[w].actions]

Editing(w) == Running /\ place[w] \in {"editingHeader", "editingActions"}
Returned(p) == IF p = "editingHeader" THEN "headerEdited" ELSE "actionsEdited"

\* Telegram has made the edit, or the message was like that already.  Text and
\* markup together end an earlier doubt unless an older edit may still arrive.
EditMade(w) ==
    LET r == job[w].reply
    IN /\ Editing(w)
       /\ shown' = [shown EXCEPT ![r] = Edited(w)]
       /\ doubt' = IF late[r] = {} /\ place[w] = "editingHeader" THEN doubt \ {r} ELSE doubt
       /\ GoTo(w, Returned(place[w]))
       /\ UNCHANGED <<rowVars, tokenVars, clickVars, bound, mode, job, late, differing, pastVars,
                      boundVars>>

\* Telegram has refused it, or its fate is unknown: the caller only logs the error.
EditFails(w, unknown) ==
    LET r == job[w].reply
    IN /\ Editing(w)
       /\ late' = IF unknown THEN [late EXCEPT ![r] = @ \cup {Edited(w)}] ELSE late
       /\ doubt' = doubt \cup {r}
       /\ GoTo(w, Returned(place[w]))
       /\ UNCHANGED <<rowVars, tokenVars, clickVars, bound, mode, job, shown, differing, pastVars,
                      boundVars>>

\* An edit of unknown outcome arrives late, or turns out never to arrive.
LateEdit(r, f) ==
    /\ f \in late[r]
    /\ shown' \in {shown, [shown EXCEPT ![r] = f]}
    /\ late' = [late EXCEPT ![r] = @ \ {f}]
    /\ UNCHANGED <<rowVars, tokenVars, clickVars, bound, mode, workVars, doubt, differing, pastVars,
                   boundVars>>

\* Mutant: the claim is given back as if nothing could have changed meanwhile.
UnclaimForgetting(w) ==
    actionsPending' = [actionsPending EXCEPT ![job[w].reply] = 0]

\* The claim is given back; what was changed since it was made stays to be done.
Unclaim(w) ==
    LET r == job[w].reply
    IN actionsPending' = [actionsPending EXCEPT ![r] = IF actions[r] # job[w].actions THEN 1 ELSE 0]

\* header_pending=CASE WHEN header=? THEN 0 ELSE header_pending END
HeaderDelivered(w) ==
    LET r == job[w].reply
    IN headerPending' = [headerPending EXCEPT ![r] = @ /\ header[r] # job[w].header]

\* MarkAssistantHeaderDelivered, or, if the context was found cancelled after the
\* request, FinishFinalActionEdit, which leaves the header pending.
MarkHeader(w) ==
    /\ Running
    /\ place[w] = "headerEdited"
    /\ Unclaim(w)
    /\ \/ HeaderDelivered(w)
       \/ mode = "stopping" /\ UNCHANGED headerPending
    /\ Leaves(w, "actions")
    /\ UNCHANGED <<state, header, actions, tokenVars, clickVars, bound, mode, shownVars, differing,
                   pastVars, boundVars>>

\* FinishFinalActionEdit
MarkActions(w) ==
    /\ Running
    /\ place[w] = "actionsEdited"
    /\ Unclaim(w)
    /\ Leaves(w, "send")
    /\ UNCHANGED <<state, header, headerPending, actions, tokenVars, clickVars, bound, mode,
                   shownVars, differing, pastVars, boundVars>>

Unsent == {r \in Replies : state[r] = "pending"}

\* ClaimNextOutput, reduced to the order of the rows.
ClaimOutput(w) ==
    /\ Running
    /\ place[w] = "send"
    /\ IF Unsent = {} \/ mode = "stopping"
         THEN GoTo(w, IF mode = "up" THEN "header" ELSE "left") /\ UNCHANGED <<job, state, differing>>
         ELSE \E r \in Unsent :
                /\ Least(r, Unsent)
                /\ Takes(w, r, "sending")
                /\ state' = [state EXCEPT ![r] = "sending"]
    /\ UNCHANGED <<header, headerPending, actions, actionsPending, tokenVars, clickVars, bound,
                   mode, shownVars, pastVars, boundVars>>

MessageSent(w) ==
    /\ Running
    /\ place[w] = "sending"
    /\ shown' = [shown EXCEPT ![job[w].reply] =
                    [header |-> job[w].header, actions |-> job[w].actions]]
    /\ GoTo(w, "sent")
    /\ UNCHANGED <<rowVars, tokenVars, clickVars, bound, mode, job, late, doubt, differing, pastVars,
                   boundVars>>

\* RetryOutput, or MarkOutput: the row waits again or its message is given up.
MessageNotSent(w, s) ==
    /\ Running
    /\ place[w] = "sending"
    /\ s \in {"pending", "failed", "uncertain"}
    /\ state' = [state EXCEPT ![job[w].reply] = s]
    /\ Leaves(w, "header")
    /\ UNCHANGED <<header, headerPending, actions, actionsPending, tokenVars, clickVars, bound,
                   mode, shownVars, differing, pastVars, boundVars>>

DeliveredMetadata(w) ==
    LET r == job[w].reply
    IN /\ headerPending' = [headerPending EXCEPT ![r] = header[r] # job[w].header]
       /\ Unclaim(w)

\* MarkOutputDelivered
MarkDelivered(w) ==
    /\ Running
    /\ place[w] = "sent"
    /\ state' = [state EXCEPT ![job[w].reply] = "done"]
    /\ DeliveredMetadata(w)
    /\ Leaves(w, "header")
    /\ UNCHANGED <<header, actions, tokenVars, clickVars, bound, mode, shownVars, differing,
                   pastVars, boundVars>>

\* deliver returns when it finds the context cancelled at the start of its loop.
WorkerLeaves(w) ==
    /\ mode = "stopping"
    /\ place[w] = "header"
    /\ GoTo(w, "left")
    /\ UNCHANGED <<rowVars, tokenVars, clickVars, bound, mode, job, shownVars, differing, pastVars,
                   boundVars>>

-----------------------------------------------------------------------------
\* Clicks.  The actor handles one at a time; a held one waits for a confirmation,
\* a read-only query or its turn in the queue.

\* The main loop hands on the callback of a button the message shows.
Click(c, k) ==
    /\ mode = "up"
    /\ click[c] = "none"
    /\ k \in Tokens
    /\ k[2] \in shown[k[1]].actions
    /\ click' = [click EXCEPT ![c] = "pending"]
    /\ wants' = [wants EXCEPT ![c] = k]
    /\ UNCHANGED <<rowVars, tokenVars, receipt, bound, mode, workVars, shownVars, differing,
                   pastVars, boundVars>>

ActorFree == \A c \in Clicks : receipt[c] # "taken"
UsedBy(c) == {k \in registered : by[k] = c}
Receives(c, x) == receipt' = [receipt EXCEPT ![c] = x]
ClickBecomes(c, from, to) == click' = [click EXCEPT ![c] = IF @ \in from THEN to ELSE @]

\* The condition of ReserveFinalAction's SELECT.
Claimable(c) ==
    LET k == wants[c]
    IN /\ k \in registered \ consumed
       /\ by[k] = NoClick
       /\ state[k[1]] = "done"
       /\ bound[k[1]]
       /\ UsedBy(c) = {}

\* handleFinalAction finds the click pending and gives it to the actor.
Handles(c) ==
    /\ mode = "up"
    /\ ActorFree
    /\ click[c] = "pending"
    /\ receipt[c] = "none"

\* ReserveFinalAction
Reserve(c) ==
    /\ Handles(c)
    /\ Claimable(c)
    /\ by' = [by EXCEPT ![wants[c]] = c]
    /\ grants' = [grants EXCEPT ![c] = @ + 1]
    /\ Receives(c, "taken")
    /\ UNCHANGED <<rowVars, registered, consumed, click, wants, bound, mode, workVars, shownVars,
                   differing, runs, lost, boundVars>>

\* SettleRejectedFinalAction.  ReserveFinalAction may also refuse for what is left
\* out here: the clicking user, a binding that is not running, a start under way.
Reject(c) ==
    /\ Handles(c)
    /\ UsedBy(c) = {}
    /\ ClickBecomes(c, {"pending"}, "done")
    /\ UNCHANGED <<rowVars, tokenVars, wants, receipt, bound, mode, workVars, shownVars, differing,
                   pastVars, boundVars>>

\* holdFinalAction, and withFinalAction when what it waited for has come.
Hold(c) ==
    /\ Running
    /\ \/ receipt[c] = "taken" /\ Receives(c, "held")
       \/ receipt[c] = "held" /\ ActorFree /\ Receives(c, "taken")
    /\ UNCHANGED <<rowVars, tokenVars, click, wants, bound, mode, workVars, shownVars, differing,
                   pastVars, boundVars>>

\* The command marks the click's row: submitted before it starts, done when it
\* returns, cancelled when it is not a command or is taken out of the queue.
MarkClick(c) ==
    /\ Running
    /\ \/ receipt[c] \in {"taken", "accepted"} /\ ClickBecomes(c, {"pending"}, "submitted")
       \/ receipt[c] \in {"taken", "held", "accepted"} /\ ClickBecomes(c, {"submitted"}, "done")
       \/ receipt[c] \in {"taken", "held", "accepted"} /\ ClickBecomes(c, {"pending"}, "cancelled")
    /\ UNCHANGED <<rowVars, tokenVars, wants, receipt, bound, mode, workVars, shownVars, differing,
                   pastVars, boundVars>>

\* consumeFinalAction of the store, for each token of a set.
Spend(spent, pending) ==
    /\ consumed' = consumed \cup spent
    /\ actions' = [r \in Replies |-> {b \in actions[r] : <<r, b>> \notin spent}]
    /\ actionsPending' =
         [r \in Replies |-> IF Of(r) \cap spent # {} THEN Requested(pending[r]) ELSE pending[r]]

\* ConsumeFinalAction: the command is accepted and has its first side effect.
Consume(c) ==
    LET k == wants[c]
    IN /\ Running
       /\ receipt[c] = "taken"
       /\ k \in Reserved /\ by[k] = c
       /\ Spend({k}, actionsPending)
       /\ runs' = [runs EXCEPT ![k] = @ + 1]
       /\ Receives(c, "accepted")
       /\ UNCHANGED <<state, header, headerPending, registered, by, click, wants, bound, mode,
                      workVars, shownVars, differing, grants, lost, boundVars>>

\* ConsumeFinalAction under a cancelled context: the commit fails or is reported
\* to have failed.  The receipt is finished, without side effect or release.
ConsumeFails(c) ==
    LET k == wants[c]
    IN /\ mode = "stopping"
       /\ receipt[c] = "taken"
       /\ Receives(c, "lost")
       /\ \/ k \in Reserved /\ Spend({k}, actionsPending)
          \/ UNCHANGED <<consumed, actions, actionsPending>>
       /\ UNCHANGED <<state, header, headerPending, registered, by, click, wants, bound, mode,
                      workVars, shownVars, differing, pastVars, boundVars>>

Free(c) ==
    /\ by' = [k \in Tokens |-> IF k \in Reserved /\ by[k] = c THEN NoClick ELSE by[k]]
    /\ IF UsedBy(c) \ consumed # {}
         THEN ClickBecomes(c, {"pending", "submitted"}, "done")
         ELSE UNCHANGED click

\* ReleaseFinalAction: a refusal of the command, or a held one is given up.
Release(c) ==
    /\ Running
    /\ receipt[c] \in {"taken", "held"}
    /\ Free(c)
    /\ Receives(c, "released")
    /\ UNCHANGED <<rowVars, registered, consumed, wants, bound, mode, workVars, shownVars,
                   differing, pastVars, boundVars>>

\* ReleaseFinalAction under a cancelled context.
ReleaseFails(c) ==
    /\ mode = "stopping"
    /\ receipt[c] \in {"taken", "held"}
    /\ Receives(c, "lost")
    /\ UNCHANGED <<rowVars, tokenVars, click, wants, bound, mode, workVars, shownVars, differing,
                   pastVars, boundVars>>

-----------------------------------------------------------------------------
\* Retention, stop, crash, restart.

\* Mutant: rows with a reserved button go too.
RemovableThoughReserved(r) ==
    /\ state[r] \in {"done", "failed", "uncertain"}
    /\ ~(state[r] = "done" /\ (headerPending[r] \/ actionsPending[r] # 0))

Removable(r) ==
    /\ state[r] \in {"done", "failed", "uncertain"}
    /\ ~(state[r] = "done" /\ (headerPending[r] \/ actionsPending[r] # 0))
    /\ Of(r) \cap Reserved = {}

\* cleanupOutboxBatch on a row that is old enough; the trigger on the table takes
\* its tokens with it.
Remove(r) ==
    /\ mode = "up"
    /\ Removable(r)
    /\ state' = [state EXCEPT ![r] = "gone"]
    /\ actions' = [actions EXCEPT ![r] = {}]
    /\ registered' = registered \ Of(r)
    /\ consumed' = consumed \ Of(r)
    /\ by' = [k \in Tokens |-> IF k[1] = r THEN NoClick ELSE by[k]]
    /\ UNCHANGED <<header, headerPending, actionsPending, clickVars, bound, mode, workVars,
                   shownVars, differing, pastVars, boundVars>>

Stop ==
    /\ mode = "up"
    /\ stops < MaxStops
    /\ mode' = "stopping"
    /\ stops' = stops + 1
    /\ UNCHANGED <<rowVars, tokenVars, clickVars, bound, workVars, shownVars, differing, pastVars,
                   changes>>

\* The process is gone, and with it what was only in memory.
Down ==
    /\ mode' = "down"
    /\ place' = [w \in Workers |-> "header"]
    /\ job' = [w \in Workers |-> NoJob]
    /\ receipt' = [c \in Clicks |-> "none"]
    /\ differing' = differing \cup
         {r \in Replies : \E w \in Workers : Has(w, r) /\ job[w].actions # actions[r]}
    /\ UNCHANGED <<rowVars, tokenVars, click, wants, bound, shownVars, pastVars, changes>>

Exit ==
    /\ mode = "stopping"
    /\ \A w \in Workers : place[w] = "left"
    /\ ActorFree
    /\ Down
    /\ UNCHANGED stops

Crash ==
    /\ Running
    /\ stops < MaxStops
    /\ stops' = stops + 1
    /\ Down

\* Mutant: interrupted reservations are forgotten.
RecoverFreeing(pending) ==
    /\ by' = [k \in Tokens |-> IF k \in Reserved THEN NoClick ELSE by[k]]
    /\ actionsPending' = pending
    /\ UNCHANGED <<consumed, actions>>

\* Mutant: interrupted reservations are left alone.
RecoverNothing(pending) ==
    /\ actionsPending' = pending
    /\ UNCHANGED <<consumed, actions, by>>

\* recoverFinalActionReservations
Recover(pending) ==
    /\ Spend(Reserved, pending)
    /\ UNCHANGED by

\* Mutant: claims of the dead process stay.
ReconciledClaimed(p) == p

\* UPDATE outbox SET actions_pending=0 WHERE actions_pending=2
Reconciled(p) == IF p = 2 THEN 0 ELSE p

\* The end of initialize, one transaction.
Reopen ==
    /\ mode = "down"
    /\ mode' = "up"
    /\ state' = [r \in Replies |-> IF state[r] = "sending" THEN "uncertain" ELSE state[r]]
    /\ Recover([r \in Replies |-> Reconciled(actionsPending[r])])
    /\ click' = [c \in Clicks |->
                   CASE click[c] = "submitted"                        -> "uncertain"
                     [] click[c] = "pending" /\ UsedBy(c) # {} -> "cancelled"
                     [] OTHER                                         -> click[c]]
    /\ lost' = lost \cup Reserved
    /\ doubt' = doubt \cup {r \in Replies : actionsPending[r] = 2}
    /\ UNCHANGED <<header, headerPending, registered, wants, receipt, bound, workVars, shown, late,
                   differing, runs, grants, boundVars>>

-----------------------------------------------------------------------------
Init ==
    /\ state = [r \in Replies |-> "none"]
    /\ header = [r \in Replies |-> NoHeader]
    /\ headerPending = [r \in Replies |-> FALSE]
    /\ actions = [r \in Replies |-> {}]
    /\ actionsPending = [r \in Replies |-> 0]
    /\ registered = {} /\ consumed = {}
    /\ by = [k \in Tokens |-> NoClick]
    /\ click = [c \in Clicks |-> "none"]
    /\ wants = [c \in Clicks |-> Unclicked]
    /\ receipt = [c \in Clicks |-> "none"]
    /\ bound = [r \in Replies |-> TRUE]
    /\ mode = "up"
    /\ place = [w \in Workers |-> "header"]
    /\ job = [w \in Workers |-> NoJob]
    /\ shown = [r \in Replies |-> [header |-> NoHeader, actions |-> {}]]
    /\ late = [r \in Replies |-> {}]
    /\ doubt = {}
    /\ differing = {}
    /\ runs = [k \in Tokens |-> 0]
    /\ grants = [c \in Clicks |-> 0]
    /\ lost = {}
    /\ changes = 0 /\ stops = 0

Worker(w) ==
    \/ ClaimHeader(w) \/ ClaimActions(w) \/ StartEdit(w) \/ ReleaseEdit(w)
    \/ EditMade(w) \/ \E unknown \in BOOLEAN : EditFails(w, unknown)
    \/ MarkHeader(w) \/ MarkActions(w)
    \/ ClaimOutput(w) \/ MessageSent(w) \/ MarkDelivered(w)
    \/ \E s \in {"pending", "failed", "uncertain"} : MessageNotSent(w, s)
    \/ WorkerLeaves(w)

Handle(c) == Reserve(c) \/ Reject(c)
Decide(c) == Consume(c) \/ ConsumeFails(c) \/ Release(c) \/ ReleaseFails(c)

Next ==
    \/ \E r \in Replies, h \in Headers \cup {NoHeader} : Append(r, h) \/ SetHeader(r, h)
    \/ \E r \in Replies : Register(r) \/ Rebind(r) \/ Remove(r)
    \/ \E r \in Replies : \E f \in late[r] : LateEdit(r, f)
    \/ \E w \in Workers : Worker(w)
    \/ \E c \in Clicks : \E k \in Tokens : Click(c, k)
    \/ \E c \in Clicks : Handle(c) \/ Hold(c) \/ MarkClick(c) \/ Decide(c)
    \/ Stop \/ Exit \/ Crash \/ Reopen

Spec == Init /\ [][Next]_vars

-----------------------------------------------------------------------------
States == {"none", "pending", "sending", "done", "failed", "uncertain", "gone"}
Face == [header : Headers \cup {NoHeader}, actions : SUBSET Buttons]

TypeOK ==
    /\ state \in [Replies -> States]
    /\ header \in [Replies -> Headers \cup {NoHeader}]
    /\ headerPending \in [Replies -> BOOLEAN]
    /\ actions \in [Replies -> SUBSET Buttons]
    /\ actionsPending \in [Replies -> {0, 1, 2}]
    /\ registered \in SUBSET Tokens /\ consumed \in SUBSET registered
    /\ by \in [Tokens -> Clicks \cup {NoClick}]
    /\ click \in [Clicks -> {"none", "pending", "submitted", "done", "cancelled", "uncertain"}]
    /\ wants \in [Clicks -> Tokens \cup {Unclicked}]
    /\ receipt \in [Clicks -> {"none", "taken", "held", "accepted", "released", "lost"}]
    /\ bound \in [Replies -> BOOLEAN]
    /\ mode \in {"up", "stopping", "down"}
    /\ place \in [Workers -> Edits \cup {"header", "actions", "send", "sending", "sent", "left"}]
    /\ job \in [Workers -> [reply : Replies \cup {0}, header : Headers \cup {NoHeader},
                            actions : SUBSET Buttons]]
    /\ shown \in [Replies -> Face]
    /\ late \in [Replies -> SUBSET Face]
    /\ doubt \in SUBSET Replies
    /\ differing \in SUBSET Replies
    /\ runs \in [Tokens -> Nat]
    /\ grants \in [Clicks -> Nat]
    /\ lost \in SUBSET Tokens
    /\ changes \in 0 .. MaxChanges /\ stops \in 0 .. MaxStops

\* Edits of one message never run at the same time, nor does an edit run while the
\* message is being sent; the claim of an edit is not lost to a change of the
\* buttons, and no claim is left without its worker (actions_pending=2).
ClaimIsExclusive ==
    /\ \A w \in Workers, r \in Replies :
         Has(w, r) => state[r] = "done" /\ actionsPending[r] = 2
    /\ \A v, w \in Workers :
         v # w /\ job[v].reply = job[w].reply => job[v] = NoJob
    /\ \A r \in Replies :
         Running /\ actionsPending[r] = 2 => \E w \in Workers : Has(w, r)

\* No update is lost between the actor, the clicks and four editing goroutines: a
\* delivered answer with nothing left to edit shows its last header and exactly
\* the buttons nobody has used, unless an edit was refused, cut off or in doubt.
ShownIsCurrent ==
    \A r \in Replies :
        state[r] = "done" /\ ~headerPending[r] /\ actionsPending[r] = 0 /\ r \notin doubt =>
            /\ shown[r].header = header[r]
            /\ shown[r].actions = {b \in Buttons : <<r, b>> \in registered \ consumed}

\* Edits exclude each other and none of them loses a change: both hang on the claim
\* that a change of the buttons meanwhile must leave alone.
EditsAreSound == ClaimIsExclusive /\ ShownIsCurrent

\* As long as a clicked command is undecided its button is reserved for it, and
\* retention leaves the answer alone (CheckFinalActionReservation never fails).
HeldIsReserved ==
    \A c \in Clicks :
        receipt[c] \in {"taken", "held"} =>
            /\ wants[c] \in Reserved
            /\ by[wants[c]] = c
            /\ state[wants[c][1]] = "done"

\* A button's command is accepted at most once, and not at all after a restart that
\* found it reserved: nobody knows how far it had come.  A click gets a button at
\* most once, wherever its handling was interrupted: the row of a click that was
\* given one is never pending again without it.
ClicksCountOnce ==
    /\ \A k \in Tokens : runs[k] + Cardinality({k} \cap lost) <= 1
    /\ \A c \in Clicks : grants[c] <= 1

=============================================================================
