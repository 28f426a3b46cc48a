-------------------------- MODULE ReplyEditsProofs --------------------------
(***************************************************************************)
(* The claims of the edits, the buttons and the clicks: proved for every   *)
(* number of answers, buttons, clicks, delivery workers, headers, stops    *)
(* and crashes.                                                            *)
(*                                                                         *)
(* The inductive invariant has three parts.  The claims: a worker's place  *)
(* and job say what the row it has taken looks like.  The buttons: a token *)
(* that was accepted or lost is consumed, or has gone with its answer, and *)
(* a click that was given a token and is still pending has it.  The faces: *)
(* between the request and the mark the message shows what the job says,   *)
(* unless the answer is in doubt.                                          *)
(***************************************************************************)
EXTENDS ReplyEdits, FiniteSetTheorems, TLAPS

-----------------------------------------------------------------------------
(* The inductive invariant.                                                *)

HasRow == Edits \cup {"sending", "sent"}

\* The row a worker has taken and how far it has come with it.
JobsFollowPlaces ==
    \A w \in Workers :
        /\ place[w] \in HasRow => job[w].reply \in Replies
        /\ place[w] \notin HasRow => job[w] = NoJob
        /\ place[w] \in {"sending", "sent"} => state[job[w].reply] = "sending"
        /\ mode = "down" => place[w] = "header"

\* The three parts of ClaimIsExclusive.
ClaimedAreMarked ==
    \A w \in Workers :
        place[w] \in Edits => state[job[w].reply] = "done" /\ actionsPending[job[w].reply] = 2

JobsDiffer ==
    \A v, w \in Workers :
        v # w /\ place[v] \in HasRow /\ place[w] \in HasRow => job[v].reply # job[w].reply

MarkedAreClaimed ==
    \A r \in Replies :
        Running /\ actionsPending[r] = 2 => \E w \in Workers : Has(w, r)

\* A row with tokens has been written and not been removed.
TokensHaveRows ==
    \A k \in registered : state[k[1]] \notin {"none", "gone"}

\* The keyboard a row is to show has the buttons that nobody has used.
KeyboardIsUnused ==
    \A r \in Replies : actions[r] = {b \in Buttons : <<r, b>> \in registered \ consumed}

\* A token whose command was accepted, or that a restart found reserved, is used up.
AcceptedIsConsumed ==
    \A k \in Tokens :
        /\ runs[k] \in {0, 1}
        /\ k \in lost => runs[k] = 0
        /\ runs[k] = 1 \/ k \in lost => k \in consumed \/ state[k[1]] = "gone"

\* A click that was given a token and is still pending has it, or the answer is gone.
GrantedIsKept ==
    \A c \in Clicks :
        /\ click[c] = "none" => receipt[c] = "none" /\ grants[c] = 0
        /\ click[c] # "none" => wants[c] \in Tokens
        /\ mode = "down" => receipt[c] = "none"
        /\ grants[c] \in {0, 1}
        /\ grants[c] = 1 /\ click[c] = "pending" =>
              \/ state[wants[c][1]] = "gone"
              \/ wants[c] \in registered /\ by[wants[c]] = c

\* What the message shows at each place of the worker that has its row.
JobIsShown ==
    \A w \in Workers :
        LET r == job[w].reply
        IN /\ place[w] \in {"editingHeader", "headerEdited"} => headerPending[r]
           /\ place[w] = "headerEdited" /\ r \notin doubt =>
                 shown[r].header = job[w].header /\ shown[r].actions = job[w].actions
           /\ place[w] = "actionsEdited" /\ r \notin doubt => shown[r].actions = job[w].actions
           /\ place[w] = "sent" /\ r \notin doubt =>
                 shown[r].header = job[w].header /\ shown[r].actions = job[w].actions

\* An edit that may still arrive is a doubt; without one the header and the keyboard
\* are what the row says, or are still to be edited.
FaceIsCurrent ==
    \A r \in Replies :
        /\ late[r] # {} => r \in doubt
        /\ state[r] = "done" /\ r \notin doubt /\ ~headerPending[r] => shown[r].header = header[r]
        /\ state[r] = "done" /\ r \notin doubt /\ actionsPending[r] = 0 =>
              shown[r].actions = actions[r]

IInv ==
    /\ TypeOK
    /\ JobsFollowPlaces
    /\ ClaimedAreMarked
    /\ JobsDiffer
    /\ MarkedAreClaimed
    /\ TokensHaveRows
    /\ KeyboardIsUnused
    /\ AcceptedIsConsumed
    /\ HeldIsReserved
    /\ GrantedIsKept
    /\ JobIsShown
    /\ FaceIsCurrent

-----------------------------------------------------------------------------
(* What the steps do to a worker and its row.                              *)

Jobs == [reply : Replies \cup {0}, header : Headers \cup {NoHeader}, actions : SUBSET Buttons]
Places == HasRow \cup {"header", "actions", "send", "left"}

\* No worker has row 0, and its job is NoJob.
LEMMA NoJobFacts ==
    NoJob \in Jobs /\ NoJob.reply = 0 /\ 0 \notin Replies
  BY ReplyAssumption DEF NoJob, Jobs

\* The variables of the workers and their rows.
LEMMA WorkTypes ==
    ASSUME TypeOK
    PROVE  /\ place \in [Workers -> Places] /\ job \in [Workers -> Jobs]
           /\ state \in [Replies -> States] /\ header \in [Replies -> Headers \cup {NoHeader}]
           /\ actions \in [Replies -> SUBSET Buttons]
           /\ actionsPending \in [Replies -> {0, 1, 2}]
           /\ headerPending \in [Replies -> BOOLEAN]
           /\ mode \in {"up", "stopping", "down"}
  BY DEF TypeOK, Jobs, Places, HasRow, Edits

\* A worker goes to its next place.
LEMMA GoesEffect ==
    ASSUME TypeOK, NEW w \in Workers, NEW p, GoTo(w, p)
    PROVE  place'[w] = p /\ \A v \in Workers \ {w} : place'[v] = place[v]
  BY WorkTypes DEF GoTo

\* A worker takes a row as it is now.
LEMMA TakesEffect ==
    ASSUME TypeOK, NEW w \in Workers, NEW r \in Replies, NEW p, Takes(w, r, p)
    PROVE  /\ place'[w] = p /\ job'[w].reply = r
           /\ job'[w].header = header[r] /\ job'[w].actions = actions[r]
           /\ \A v \in Workers \ {w} : place'[v] = place[v] /\ job'[v] = job[v]
  <1>1. GoTo(w, p) /\ job' = [job EXCEPT ![w] = [reply |-> r, header |-> header[r],
                                                actions |-> actions[r]]]
    BY DEF Takes
  <1> QED
    BY <1>1, WorkTypes, GoesEffect

\* A worker gives up its row.
LEMMA LeavesEffect ==
    ASSUME TypeOK, NEW w \in Workers, NEW p, Leaves(w, p)
    PROVE  /\ place'[w] = p /\ job'[w] = NoJob
           /\ \A v \in Workers \ {w} : place'[v] = place[v] /\ job'[v] = job[v]
  BY WorkTypes, GoesEffect DEF Leaves

\* The types of place and job after each of the three.
LEMMA PlaceTypes ==
    ASSUME TypeOK, NEW w \in Workers, NEW p \in Places
    PROVE  /\ GoTo(w, p) => place' \in [Workers -> Places]
           /\ Leaves(w, p) => place' \in [Workers -> Places] /\ job' \in [Workers -> Jobs]
           /\ \A r \in Replies :
                 Takes(w, r, p) =>
                    /\ place' \in [Workers -> Places] /\ job' \in [Workers -> Jobs]
                    /\ differing' = differing \ {r}
  <1>1. GoTo(w, p) => place' \in [Workers -> Places]
    BY WorkTypes DEF GoTo
  <1>2. Leaves(w, p) => place' \in [Workers -> Places] /\ job' \in [Workers -> Jobs]
    BY <1>1, WorkTypes, NoJobFacts DEF Leaves
  <1>3. ASSUME NEW r \in Replies, Takes(w, r, p)
        PROVE  /\ place' \in [Workers -> Places] /\ job' \in [Workers -> Jobs]
               /\ differing' = differing \ {r}
    <2>1. [reply |-> r, header |-> header[r], actions |-> actions[r]] \in Jobs
      BY WorkTypes DEF Jobs
    <2> QED
      BY <1>1, <1>3, <2>1, WorkTypes DEF Takes
  <1> QED
    BY <1>1, <1>2, <1>3

\* A claim is given back.
LEMMA UnclaimEffect ==
    ASSUME TypeOK, NEW w \in Workers, Unclaim(w), job[w].reply \in Replies
    PROVE  /\ \A q \in Replies \ {job[w].reply} : actionsPending'[q] = actionsPending[q]
           /\ actionsPending'[job[w].reply] \in {0, 1}
           /\ actionsPending'[job[w].reply] = 0 => actions[job[w].reply] = job[w].actions
  BY WorkTypes DEF Unclaim

\* The other workers stay where they are.
OthersStay(w) == \A v \in Workers \ {w} : place'[v] = place[v] /\ job'[v] = job[v]

\* The other rows keep what they are to show and how far their edits have come.
RestStays(r) ==
    \A q \in Replies \ {r} :
        /\ state'[q] = state[q] /\ headerPending'[q] = headerPending[q]
        /\ actionsPending'[q] = actionsPending[q]

\* Worker w has taken row r for p.
Taken(w, r, p) ==
    /\ place'[w] = p /\ job'[w].reply = r
    /\ job'[w].header = header[r] /\ job'[w].actions = actions[r]
    /\ OthersStay(w) /\ RestStays(r) /\ headerPending'[r] = headerPending[r]

\* What the three claims leave alone.
ClaimKeeps == UNCHANGED <<mode, header, actions, shown, late, doubt>>

\* A worker finds no stale header, or claims one.
LEMMA ClaimHeaderEffect ==
    ASSUME TypeOK, NEW w \in Workers, ClaimHeader(w)
    PROVE  /\ Running /\ place[w] = "header" /\ ClaimKeeps
           /\ \/ /\ place'[w] = "actions" /\ job'[w] = job[w] /\ OthersStay(w)
                 /\ UNCHANGED <<state, headerPending, actionsPending>>
              \/ \E r \in Replies :
                    /\ Taken(w, r, "editingHeader")
                    /\ state[r] = "done" /\ headerPending[r] /\ actionsPending[r] # 2
                    /\ state'[r] = "done" /\ actionsPending'[r] = 2
  <1>1. Running /\ place[w] = "header" /\ ClaimKeeps /\ UNCHANGED <<state, headerPending>>
    BY DEF ClaimHeader, ClaimKeeps, shownVars
  <1>2. CASE GoTo(w, "actions") /\ UNCHANGED <<job, actionsPending, differing>>
    BY <1>1, <1>2, GoesEffect DEF OthersStay
  <1>3. ASSUME NEW r \in StaleHeaders, Takes(w, r, "editingHeader"),
               actionsPending' = [actionsPending EXCEPT ![r] = 2]
        PROVE  /\ Taken(w, r, "editingHeader") /\ r \in Replies
               /\ state[r] = "done" /\ headerPending[r] /\ actionsPending[r] # 2
               /\ state'[r] = "done" /\ actionsPending'[r] = 2
    <2>1. r \in Replies /\ state[r] = "done" /\ headerPending[r] /\ actionsPending[r] # 2
      BY DEF StaleHeaders
    <2>2. actionsPending'[r] = 2 /\ RestStays(r)
      BY <1>1, <1>3, <2>1, WorkTypes DEF RestStays
    <2> QED
      BY <1>1, <1>3, <2>1, <2>2, TakesEffect DEF Taken, OthersStay
  <1> QED
    BY <1>1, <1>2, <1>3 DEF ClaimHeader

\* A worker finds no stale keyboard, or claims one.
LEMMA ClaimActionsEffect ==
    ASSUME TypeOK, NEW w \in Workers, ClaimActions(w)
    PROVE  /\ Running /\ place[w] = "actions" /\ ClaimKeeps
           /\ \/ /\ place'[w] = "send" /\ job'[w] = job[w] /\ OthersStay(w)
                 /\ UNCHANGED <<state, headerPending, actionsPending>>
              \/ \E r \in Replies :
                    /\ Taken(w, r, "claimed")
                    /\ state[r] = "done" /\ actionsPending[r] = 1
                    /\ state'[r] = "done" /\ actionsPending'[r] = 2
  <1>1. Running /\ place[w] = "actions" /\ ClaimKeeps /\ UNCHANGED <<state, headerPending>>
    BY DEF ClaimActions, ClaimKeeps, shownVars
  <1>2. CASE GoTo(w, "send") /\ UNCHANGED <<job, actionsPending, differing>>
    BY <1>1, <1>2, GoesEffect DEF OthersStay
  <1>3. ASSUME NEW r \in StaleActions, Takes(w, r, "claimed"),
               actionsPending' = [actionsPending EXCEPT ![r] = 2]
        PROVE  /\ Taken(w, r, "claimed") /\ r \in Replies
               /\ state[r] = "done" /\ actionsPending[r] = 1
               /\ state'[r] = "done" /\ actionsPending'[r] = 2
    <2>1. r \in Replies /\ state[r] = "done" /\ actionsPending[r] = 1
      BY DEF StaleActions
    <2>2. actionsPending'[r] = 2 /\ RestStays(r)
      BY <1>1, <1>3, <2>1, WorkTypes DEF RestStays
    <2> QED
      BY <1>1, <1>3, <2>1, <2>2, TakesEffect DEF Taken, OthersStay
  <1> QED
    BY <1>1, <1>2, <1>3 DEF ClaimActions

\* A worker finds nothing to send, or takes a row.
LEMMA ClaimOutputEffect ==
    ASSUME TypeOK, NEW w \in Workers, ClaimOutput(w)
    PROVE  /\ Running /\ place[w] = "send" /\ ClaimKeeps
           /\ \/ /\ place'[w] \in {"header", "left"} /\ job'[w] = job[w] /\ OthersStay(w)
                 /\ UNCHANGED <<state, headerPending, actionsPending>>
              \/ \E r \in Replies :
                    /\ Taken(w, r, "sending")
                    /\ state[r] = "pending" /\ state'[r] = "sending"
                    /\ actionsPending'[r] = actionsPending[r]
  <1>1. Running /\ place[w] = "send" /\ ClaimKeeps /\ UNCHANGED <<headerPending, actionsPending>>
    BY DEF ClaimOutput, ClaimKeeps, shownVars
  <1>2. CASE /\ GoTo(w, IF mode = "up" THEN "header" ELSE "left")
             /\ UNCHANGED <<job, state, differing>>
    BY <1>1, <1>2, GoesEffect DEF OthersStay
  <1>3. ASSUME NEW r \in Unsent, Takes(w, r, "sending"), state' = [state EXCEPT ![r] = "sending"]
        PROVE  /\ Taken(w, r, "sending") /\ r \in Replies
               /\ state[r] = "pending" /\ state'[r] = "sending"
               /\ actionsPending'[r] = actionsPending[r]
    <2>1. r \in Replies /\ state[r] = "pending"
      BY DEF Unsent
    <2>2. state'[r] = "sending" /\ RestStays(r)
      BY <1>1, <1>3, <2>1, WorkTypes DEF RestStays
    <2> QED
      BY <1>1, <1>3, <2>1, <2>2, TakesEffect DEF Taken, OthersStay
  <1> QED
    BY <1>1, <1>2, <1>3 DEF ClaimOutput

\* Worker w goes on with the row it has.
Moved(w, p) ==
    /\ place'[w] = p /\ job'[w] = job[w] /\ OthersStay(w)
    /\ UNCHANGED <<mode, state, header, headerPending, actions, actionsPending>>

\* The request for the keyboard goes out.
LEMMA StartEditEffect ==
    ASSUME TypeOK, NEW w \in Workers, StartEdit(w)
    PROVE  /\ mode = "up" /\ place[w] = "claimed" /\ Moved(w, "editingActions")
           /\ UNCHANGED <<shown, late, doubt>>
  BY GoesEffect DEF StartEdit, Moved, OthersStay, rowVars, shownVars

\* A worker that finds the context cancelled has no row.
LEMMA WorkerLeavesEffect ==
    ASSUME TypeOK, NEW w \in Workers, WorkerLeaves(w)
    PROVE  /\ mode = "stopping" /\ place[w] = "header" /\ Moved(w, "left")
           /\ UNCHANGED <<shown, late, doubt>>
  BY GoesEffect DEF WorkerLeaves, Moved, OthersStay, rowVars, shownVars

\* What the other answers look like, and whether they are in doubt, stays.
FacesStay(r) ==
    \A q \in Replies \ {r} :
        shown'[q] = shown[q] /\ late'[q] = late[q] /\ (q \in doubt' <=> q \in doubt)

\* A made edit shows what the job says, the header only with the text.
LEMMA EditMadeEffect ==
    ASSUME IInv, NEW w \in Workers, EditMade(w)
    PROVE  LET r == job[w].reply
           IN /\ Running /\ r \in Replies /\ FacesStay(r) /\ late'[r] = late[r]
              /\ shown'[r].actions = job[w].actions
              /\ \/ /\ place[w] = "editingHeader" /\ Moved(w, "headerEdited")
                    /\ shown'[r].header = job[w].header
                    /\ r \in doubt' <=> r \in doubt /\ late[r] # {}
                 \/ /\ place[w] = "editingActions" /\ Moved(w, "actionsEdited")
                    /\ shown'[r].header = shown[r].header
                    /\ r \in doubt' <=> r \in doubt
  <1>0. TypeOK /\ JobsFollowPlaces
    BY DEF IInv
  <1> DEFINE r == job[w].reply
  <1>1. /\ Running /\ place[w] \in {"editingHeader", "editingActions"}
        /\ shown' = [shown EXCEPT ![r] = Edited(w)] /\ late' = late
        /\ doubt' = IF late[r] = {} /\ place[w] = "editingHeader" THEN doubt \ {r} ELSE doubt
        /\ GoTo(w, Returned(place[w])) /\ UNCHANGED <<rowVars, mode, job>>
    BY DEF EditMade, Editing
  <1>2. r \in Replies
    BY <1>0, <1>1 DEF JobsFollowPlaces, HasRow, Edits
  <1>3. /\ shown'[r] = Edited(w) /\ \A q \in Replies \ {r} : shown'[q] = shown[q]
    BY <1>0, <1>1, <1>2 DEF TypeOK
  <1>4. FacesStay(r)
    BY <1>1, <1>3 DEF FacesStay
  <1>5. CASE place[w] = "editingHeader"
    <2>1. Moved(w, "headerEdited")
      BY <1>0, <1>1, <1>5, GoesEffect DEF Moved, OthersStay, Returned, rowVars
    <2>2. Edited(w) = [header |-> job[w].header, actions |-> job[w].actions]
      BY <1>5 DEF Edited
    <2>3. shown'[r].actions = job[w].actions /\ shown'[r].header = job[w].header
      BY <1>3, <2>2
    <2> QED
      BY <1>1, <1>2, <1>4, <1>5, <2>1, <2>3
  <1>6. CASE place[w] = "editingActions"
    <2>1. Moved(w, "actionsEdited")
      BY <1>0, <1>1, <1>6, GoesEffect DEF Moved, OthersStay, Returned, rowVars
    <2>2. Edited(w) = [header |-> shown[r].header, actions |-> job[w].actions]
      BY <1>6 DEF Edited
    <2>3. shown'[r].actions = job[w].actions /\ shown'[r].header = shown[r].header
      BY <1>3, <2>2
    <2> QED
      BY <1>1, <1>2, <1>4, <1>6, <2>1, <2>3
  <1> QED
    BY <1>1, <1>5, <1>6

\* A failed edit leaves its answer in doubt.
LEMMA EditFailsEffect ==
    ASSUME IInv, NEW w \in Workers, NEW unknown \in BOOLEAN,
           EditFails(w, unknown)
    PROVE  /\ Running /\ job[w].reply \in Replies /\ FacesStay(job[w].reply)
           /\ job[w].reply \in doubt'
           /\ \/ place[w] = "editingHeader" /\ Moved(w, "headerEdited")
              \/ place[w] = "editingActions" /\ Moved(w, "actionsEdited")
  <1>0. TypeOK /\ JobsFollowPlaces
    BY DEF IInv
  <1> DEFINE r == job[w].reply
  <1>1. /\ Running /\ place[w] \in {"editingHeader", "editingActions"}
        /\ late' = (IF unknown THEN [late EXCEPT ![r] = @ \cup {Edited(w)}] ELSE late)
        /\ doubt' = doubt \cup {r} /\ shown' = shown
        /\ GoTo(w, Returned(place[w])) /\ UNCHANGED <<rowVars, mode, job>>
    BY DEF EditFails, Editing
  <1>2. r \in Replies
    BY <1>0, <1>1 DEF JobsFollowPlaces, HasRow, Edits
  <1>3. \A q \in Replies \ {r} : late'[q] = late[q]
    BY <1>0, <1>1, <1>2 DEF TypeOK
  <1>4. FacesStay(r)
    BY <1>1, <1>3 DEF FacesStay
  <1>5. \/ place[w] = "editingHeader" /\ Moved(w, "headerEdited")
        \/ place[w] = "editingActions" /\ Moved(w, "actionsEdited")
    BY <1>0, <1>1, GoesEffect DEF Moved, OthersStay, Returned, rowVars
  <1> QED
    BY <1>1, <1>2, <1>4, <1>5

\* Worker w has given up the row it had and goes on at p.
Left(w, p) ==
    /\ job[w].reply \in Replies /\ place'[w] = p /\ job'[w] = NoJob /\ OthersStay(w)
    /\ RestStays(job[w].reply)
    /\ UNCHANGED <<mode, header, actions, shown, late, doubt>>

\* It has given back the claim.
Unclaimed(w) ==
    /\ actionsPending'[job[w].reply] \in {0, 1}
    /\ actionsPending'[job[w].reply] = 0 => actions[job[w].reply] = job[w].actions

\* A claim given back unused leaves the keyboard to be edited.
LEMMA ReleaseEditEffect ==
    ASSUME IInv, NEW w \in Workers, ReleaseEdit(w)
    PROVE  /\ mode = "stopping" /\ place[w] = "claimed" /\ Left(w, "send")
           /\ actionsPending'[job[w].reply] = 1 /\ UNCHANGED <<state, headerPending>>
  <1>0. TypeOK /\ JobsFollowPlaces
    BY DEF IInv
  <1>1. /\ mode = "stopping" /\ place[w] = "claimed" /\ Leaves(w, "send")
        /\ actionsPending' = [actionsPending EXCEPT ![job[w].reply] = 1]
        /\ UNCHANGED <<mode, state, header, headerPending, actions, shown, late, doubt>>
    BY DEF ReleaseEdit, shownVars
  <1>2. job[w].reply \in Replies
    BY <1>0, <1>1 DEF JobsFollowPlaces, HasRow, Edits
  <1>3. actionsPending'[job[w].reply] = 1 /\ RestStays(job[w].reply)
    BY <1>0, <1>1, <1>2, WorkTypes DEF RestStays
  <1> QED
    BY <1>1, <1>2, <1>3, <1>0, LeavesEffect DEF Left, OthersStay

\* The mark of a header clears what the job has shown.
LEMMA MarkHeaderEffect ==
    ASSUME IInv, NEW w \in Workers, MarkHeader(w)
    PROVE  /\ Running /\ place[w] = "headerEdited" /\ Left(w, "actions") /\ Unclaimed(w)
           /\ state' = state
           /\ LET r == job[w].reply
              IN \/ headerPending'[r] = headerPending[r]
                 \/ headerPending'[r] = (headerPending[r] /\ header[r] # job[w].header)
  <1>0. TypeOK /\ JobsFollowPlaces
    BY DEF IInv
  <1>1. /\ Running /\ place[w] = "headerEdited" /\ Leaves(w, "actions") /\ Unclaim(w)
        /\ HeaderDelivered(w) \/ UNCHANGED headerPending
        /\ UNCHANGED <<mode, state, header, actions, shown, late, doubt>>
    BY DEF MarkHeader, shownVars
  <1>2. job[w].reply \in Replies
    BY <1>0, <1>1 DEF JobsFollowPlaces, HasRow, Edits
  <1>3. /\ \A q \in Replies \ {job[w].reply} : headerPending'[q] = headerPending[q]
        /\ \/ headerPending'[job[w].reply] = headerPending[job[w].reply]
           \/ headerPending'[job[w].reply] =
                 (headerPending[job[w].reply] /\ header[job[w].reply] # job[w].header)
    BY <1>0, <1>1, <1>2, WorkTypes DEF HeaderDelivered
  <1>4. RestStays(job[w].reply) /\ Unclaimed(w)
    BY <1>1, <1>2, <1>3, <1>0, UnclaimEffect DEF RestStays, Unclaimed
  <1>5. Left(w, "actions")
    BY <1>1, <1>2, <1>4, <1>0, LeavesEffect DEF Left, OthersStay
  <1> QED
    BY <1>1, <1>3, <1>4, <1>5

\* The mark of a keyboard clears what the job has shown.
LEMMA MarkActionsEffect ==
    ASSUME IInv, NEW w \in Workers, MarkActions(w)
    PROVE  /\ Running /\ place[w] = "actionsEdited" /\ Left(w, "send") /\ Unclaimed(w)
           /\ UNCHANGED <<state, headerPending>>
  <1>0. TypeOK /\ JobsFollowPlaces
    BY DEF IInv
  <1>1. /\ Running /\ place[w] = "actionsEdited" /\ Leaves(w, "send") /\ Unclaim(w)
        /\ UNCHANGED <<mode, state, header, headerPending, actions, shown, late, doubt>>
    BY DEF MarkActions, shownVars
  <1>2. job[w].reply \in Replies
    BY <1>0, <1>1 DEF JobsFollowPlaces, HasRow, Edits
  <1>3. RestStays(job[w].reply) /\ Unclaimed(w)
    BY <1>0, <1>1, <1>2, UnclaimEffect DEF RestStays, Unclaimed
  <1> QED
    BY <1>1, <1>2, <1>3, <1>0, LeavesEffect DEF Left, OthersStay

\* A sent message shows what the job says.
LEMMA MessageSentEffect ==
    ASSUME IInv, NEW w \in Workers, MessageSent(w)
    PROVE  LET r == job[w].reply
           IN /\ Running /\ place[w] = "sending" /\ Moved(w, "sent")
              /\ r \in Replies /\ UNCHANGED <<late, doubt>> /\ FacesStay(r)
              /\ shown'[r].header = job[w].header /\ shown'[r].actions = job[w].actions
  <1>0. TypeOK /\ JobsFollowPlaces
    BY DEF IInv
  <1> DEFINE r == job[w].reply
             f == [header |-> job[w].header, actions |-> job[w].actions]
  <1>1. /\ Running /\ place[w] = "sending" /\ GoTo(w, "sent") /\ shown' = [shown EXCEPT ![r] = f]
        /\ UNCHANGED <<mode, job, late, doubt, rowVars>>
    BY DEF MessageSent
  <1>2. r \in Replies
    BY <1>0, <1>1 DEF JobsFollowPlaces, HasRow
  <1>3. Moved(w, "sent")
    BY <1>0, <1>1, GoesEffect DEF Moved, OthersStay, rowVars
  <1>4. shown'[r] = f /\ \A q \in Replies \ {r} : shown'[q] = shown[q]
    BY <1>0, <1>1, <1>2 DEF TypeOK
  <1>5. FacesStay(r)
    BY <1>1, <1>4 DEF FacesStay
  <1> QED
    BY <1>1, <1>2, <1>3, <1>4, <1>5

\* A message that was not sent gives up its row.
LEMMA MessageNotSentEffect ==
    ASSUME IInv, NEW w \in Workers, NEW s, MessageNotSent(w, s)
    PROVE  /\ Running /\ place[w] = "sending" /\ Left(w, "header")
           /\ state[job[w].reply] = "sending"
           /\ state'[job[w].reply] \in {"pending", "failed", "uncertain"}
           /\ UNCHANGED <<headerPending, actionsPending>>
  <1>0. TypeOK /\ JobsFollowPlaces
    BY DEF IInv
  <1>1. /\ Running /\ place[w] = "sending" /\ Leaves(w, "header")
        /\ s \in {"pending", "failed", "uncertain"} /\ state' = [state EXCEPT ![job[w].reply] = s]
        /\ UNCHANGED <<mode, header, headerPending, actions, actionsPending, shown, late, doubt>>
    BY DEF MessageNotSent, shownVars
  <1>2. job[w].reply \in Replies /\ state[job[w].reply] = "sending"
    BY <1>0, <1>1 DEF JobsFollowPlaces, HasRow
  <1>3. state'[job[w].reply] = s /\ RestStays(job[w].reply)
    BY <1>0, <1>1, <1>2, WorkTypes DEF RestStays
  <1> QED
    BY <1>1, <1>2, <1>3, <1>0, LeavesEffect DEF Left, OthersStay

\* The mark of a delivery leaves what changed meanwhile to be edited.
LEMMA MarkDeliveredEffect ==
    ASSUME IInv, NEW w \in Workers, MarkDelivered(w)
    PROVE  /\ Running /\ place[w] = "sent" /\ Left(w, "header") /\ Unclaimed(w)
           /\ state[job[w].reply] = "sending" /\ state'[job[w].reply] = "done"
           /\ headerPending'[job[w].reply] = (header[job[w].reply] # job[w].header)
  <1>0. TypeOK /\ JobsFollowPlaces
    BY DEF IInv
  <1>1. /\ Running /\ place[w] = "sent" /\ Leaves(w, "header") /\ Unclaim(w)
        /\ state' = [state EXCEPT ![job[w].reply] = "done"]
        /\ headerPending' = [headerPending EXCEPT ![job[w].reply] =
                                header[job[w].reply] # job[w].header]
        /\ UNCHANGED <<mode, header, actions, shown, late, doubt>>
    BY DEF MarkDelivered, DeliveredMetadata, shownVars
  <1>2. job[w].reply \in Replies /\ state[job[w].reply] = "sending"
    BY <1>0, <1>1 DEF JobsFollowPlaces, HasRow
  <1>3. /\ state'[job[w].reply] = "done"
        /\ headerPending'[job[w].reply] = (header[job[w].reply] # job[w].header)
        /\ \A q \in Replies \ {job[w].reply} :
              state'[q] = state[q] /\ headerPending'[q] = headerPending[q]
    BY <1>0, <1>1, <1>2, WorkTypes
  <1>4. RestStays(job[w].reply) /\ Unclaimed(w)
    BY <1>1, <1>2, <1>3, <1>0, UnclaimEffect DEF RestStays, Unclaimed
  <1> QED
    BY <1>1, <1>2, <1>3, <1>4, <1>0, LeavesEffect DEF Left, OthersStay

\* Nobody is at work once the process is gone.
LEMMA DownEffect ==
    ASSUME TypeOK, Down
    PROVE  /\ mode' = "down"
           /\ \A w \in Workers : place'[w] = "header" /\ job'[w] = NoJob
           /\ \A c \in Clicks : receipt'[c] = "none"
           /\ UNCHANGED <<state, header, headerPending, actions, actionsPending>>
           /\ UNCHANGED <<shown, late, doubt>>
           /\ UNCHANGED <<registered, consumed, by, click, wants, runs, grants, lost>>
  BY DEF Down, rowVars, shownVars, tokenVars, pastVars

\* New buttons ask for an edit, and leave a claim alone.
LEMMA RegisterEffect ==
    ASSUME IInv, NEW r \in Replies, Register(r)
    PROVE  /\ state[r] \notin {"none", "gone"}
           /\ actions'[r] = Buttons /\ \A q \in Replies \ {r} : actions'[q] = actions[q]
           /\ actionsPending'[r] \in {1, 2} /\ (actionsPending'[r] = 2 <=> actionsPending[r] = 2)
           /\ \A q \in Replies \ {r} : actionsPending'[q] = actionsPending[q]
           /\ UNCHANGED <<mode, state, header, headerPending, place, job, shown, late, doubt>>
  <1>0. TypeOK
    BY DEF IInv
  <1>1. actionsPending[r] \in {0, 1, 2}
    BY <1>0, WorkTypes
  <1> QED
    BY <1>0, <1>1, WorkTypes DEF Register, Requested, workVars, shownVars

\* Retention takes no row with an edit under way, nor one with a reserved button.
LEMMA RemoveEffect ==
    ASSUME IInv, NEW r \in Replies, Remove(r)
    PROVE  /\ state[r] \in {"done", "failed", "uncertain"} /\ state'[r] = "gone"
           /\ \A q \in Replies \ {r} : state'[q] = state[q] /\ actions'[q] = actions[q]
           /\ actions'[r] = {} /\ (state[r] = "done" => actionsPending[r] = 0)
           /\ Of(r) \cap Reserved = {} /\ mode = "up"
           /\ UNCHANGED <<mode, header, headerPending, actionsPending, place, job>>
           /\ UNCHANGED <<shown, late, doubt>>
  <1>0. TypeOK
    BY DEF IInv
  <1> QED
    BY <1>0, WorkTypes DEF Remove, Removable, workVars, shownVars

\* A spent button leaves the keyboard of its row, which is to be edited.
LEMMA SpendEffect ==
    ASSUME NEW spent \in SUBSET Tokens, NEW pending \in [Replies -> {0, 1, 2}],
           Spend(spent, pending)
    PROVE  \A r \in Replies :
              /\ actions'[r] = {b \in actions[r] : <<r, b>> \notin spent}
              /\ actionsPending'[r] \in {0, 1, 2}
              /\ actionsPending'[r] = 2 <=> pending[r] = 2
              /\ actionsPending'[r] = 0 => actions'[r] = actions[r]
              /\ actionsPending'[r] = 0 <=> pending[r] = 0 /\ Of(r) \cap spent = {}
  <1> SUFFICES ASSUME NEW r \in Replies
               PROVE  /\ actions'[r] = {b \in actions[r] : <<r, b>> \notin spent}
                      /\ actionsPending'[r] \in {0, 1, 2}
                      /\ actionsPending'[r] = 2 <=> pending[r] = 2
                      /\ actionsPending'[r] = 0 => actions'[r] = actions[r]
                      /\ actionsPending'[r] = 0 <=> pending[r] = 0 /\ Of(r) \cap spent = {}
    OBVIOUS
  <1>1. actions'[r] = {b \in actions[r] : <<r, b>> \notin spent}
    BY DEF Spend
  <1>2. actionsPending'[r] = IF Of(r) \cap spent # {} THEN Requested(pending[r]) ELSE pending[r]
    BY DEF Spend
  <1>3. pending[r] \in {0, 1, 2}
    OBVIOUS
  <1>4. /\ actionsPending'[r] \in {0, 1, 2}
        /\ actionsPending'[r] = 2 <=> pending[r] = 2
        /\ actionsPending'[r] = 0 <=> pending[r] = 0 /\ Of(r) \cap spent = {}
    BY <1>2, <1>3 DEF Requested
  <1>5. Of(r) \cap spent = {} => \A b \in actions[r] : <<r, b>> \notin spent
    <2> SUFFICES ASSUME NEW b \in actions[r], <<r, b>> \in spent PROVE <<r, b>> \in Of(r)
      OBVIOUS
    <2>1. <<r, b>> \in Tokens /\ <<r, b>>[1] = r
      OBVIOUS
    <2> QED
      BY <2>1 DEF Of
  <1> QED
    BY <1>1, <1>4, <1>5

\* The row variables when buttons are spent while the process runs.
SpentRows(spent) ==
    /\ \A r \in Replies :
          /\ actions'[r] = {b \in actions[r] : <<r, b>> \notin spent}
          /\ actionsPending'[r] = 2 <=> actionsPending[r] = 2
          /\ actionsPending'[r] = 0 => actionsPending[r] = 0 /\ actions'[r] = actions[r]
    /\ UNCHANGED <<mode, state, header, headerPending, place, job, shown, late, doubt>>

\* Spending while the process runs does no more than SpentRows says.
LEMMA SpentRowsFacts ==
    ASSUME NEW spent \in SUBSET Tokens, actionsPending \in [Replies -> {0, 1, 2}],
           Spend(spent, actionsPending),
           UNCHANGED <<mode, state, header, headerPending, place, job, shown, late, doubt>>
    PROVE  SpentRows(spent)
  BY SpendEffect DEF SpentRows

\* An accepted command spends its button.
LEMMA ConsumeEffect ==
    ASSUME IInv, NEW c \in Clicks, Consume(c)
    PROVE  /\ wants[c] \in Reserved /\ by[wants[c]] = c /\ receipt[c] = "taken"
           /\ SpentRows({wants[c]}) /\ consumed' = consumed \cup {wants[c]}
           /\ receipt' = [receipt EXCEPT ![c] = "accepted"]
           /\ runs' = [runs EXCEPT ![wants[c]] = @ + 1]
           /\ UNCHANGED <<registered, by, click, wants, grants, lost>>
  <1>1. {wants[c]} \in SUBSET Tokens /\ actionsPending \in [Replies -> {0, 1, 2}]
    BY DEF Consume, IInv, TypeOK, Reserved
  <1>2. Spend({wants[c]}, actionsPending)
    BY DEF Consume
  <1>3. SpentRows({wants[c]})
    BY <1>1, <1>2, SpentRowsFacts DEF Consume, workVars, shownVars
  <1> QED
    BY <1>2, <1>3 DEF Consume, Spend, Receives

\* A cut off acceptance spends its button or changes nothing.
LEMMA ConsumeFailsEffect ==
    ASSUME IInv, NEW c \in Clicks, ConsumeFails(c)
    PROVE  /\ receipt[c] = "taken" /\ receipt' = [receipt EXCEPT ![c] = "lost"]
           /\ \/ /\ wants[c] \in Reserved /\ SpentRows({wants[c]})
                 /\ consumed' = consumed \cup {wants[c]}
              \/ SpentRows({}) /\ consumed' = consumed
           /\ UNCHANGED <<registered, by, click, wants, runs, grants, lost>>
  <1>1. actionsPending \in [Replies -> {0, 1, 2}] /\ Reserved \subseteq Tokens
    BY DEF IInv, TypeOK, Reserved
  <1>2. CASE wants[c] \in Reserved /\ Spend({wants[c]}, actionsPending)
    <2>0. {wants[c]} \in SUBSET Tokens
      BY <1>1, <1>2
    <2>1. SpentRows({wants[c]})
      BY <2>0, <1>1, <1>2, SpentRowsFacts DEF ConsumeFails, workVars, shownVars
    <2> QED
      BY <1>2, <2>1 DEF ConsumeFails, Spend, Receives, pastVars
  <1>3. CASE UNCHANGED <<consumed, actions, actionsPending>>
    <2>1. SpentRows({})
      BY <1>3 DEF SpentRows, ConsumeFails, workVars, shownVars
    <2> QED
      BY <1>3, <2>1 DEF ConsumeFails, Receives, pastVars
  <1> QED
    BY <1>2, <1>3 DEF ConsumeFails

\* What a restart does to the rows and to the tokens.
LEMMA ReopenEffect ==
    ASSUME IInv, Reopen
    PROVE  /\ mode = "down"
           /\ \A r \in Replies :
                 /\ state'[r] = IF state[r] = "sending" THEN "uncertain" ELSE state[r]
                 /\ actions'[r] = {b \in actions[r] : <<r, b>> \notin Reserved}
                 /\ actionsPending'[r] \in {0, 1}
                 /\ actionsPending'[r] = 0 =>
                       actions'[r] = actions[r] /\ actionsPending[r] \in {0, 2}
                 /\ r \in doubt' <=> r \in doubt \/ actionsPending[r] = 2
           /\ consumed' = consumed \cup Reserved /\ lost' = lost \cup Reserved
           /\ UNCHANGED <<header, headerPending, place, job, shown, late>>
           /\ UNCHANGED <<registered, by, wants, receipt, runs, grants>>
  <1> DEFINE pending == [r \in Replies |-> Reconciled(actionsPending[r])]
  <1>1. actionsPending \in [Replies -> {0, 1, 2}] /\ Reserved \subseteq Tokens
    BY DEF IInv, TypeOK, Reserved
  <1>2. pending \in [Replies -> {0, 1, 2}] /\ \A r \in Replies : pending[r] \in {0, 1}
    BY <1>1 DEF Reconciled
  <1>3. Spend(Reserved, pending) /\ by' = by
    BY DEF Reopen, Recover
  <1>4. \A r \in Replies : pending[r] = 0 => actionsPending[r] \in {0, 2}
    BY <1>1 DEF Reconciled
  <1> HIDE DEF pending
  <1>5. \A r \in Replies :
           /\ actions'[r] = {b \in actions[r] : <<r, b>> \notin Reserved}
           /\ actionsPending'[r] \in {0, 1}
           /\ actionsPending'[r] = 0 => actions'[r] = actions[r] /\ actionsPending[r] \in {0, 2}
    BY <1>1, <1>2, <1>3, <1>4, SpendEffect
  <1>6. \A r \in Replies :
           /\ state'[r] = IF state[r] = "sending" THEN "uncertain" ELSE state[r]
           /\ r \in doubt' <=> r \in doubt \/ actionsPending[r] = 2
    BY DEF Reopen
  <1> QED
    BY <1>3, <1>5, <1>6 DEF Reopen, Spend, workVars

-----------------------------------------------------------------------------
(* What the steps do to the buttons and the clicks.                        *)

ClickStates == {"none", "pending", "submitted", "done", "cancelled", "uncertain"}
Receipts == {"none", "taken", "held", "accepted", "released", "lost"}

\* The types of the buttons and the clicks.
LEMMA TokenTypes ==
    ASSUME TypeOK
    PROVE  /\ registered \subseteq Tokens /\ consumed \subseteq registered
           /\ by \in [Tokens -> Clicks \cup {NoClick}]
           /\ click \in [Clicks -> ClickStates]
           /\ wants \in [Clicks -> Tokens \cup {Unclicked}]
           /\ receipt \in [Clicks -> Receipts]
           /\ runs \in [Tokens -> Nat] /\ grants \in [Clicks -> Nat] /\ lost \subseteq Tokens
           /\ state \in [Replies -> States] /\ bound \in [Replies -> BOOLEAN]
           /\ NoClick \notin Clicks
  BY NullAssumption DEF TypeOK, ClickStates, Receipts

\* A token is a button of an answer.
LEMMA TokenFacts ==
    /\ \A k \in Tokens : k[1] \in Replies /\ k[2] \in Buttons
    /\ \A r \in Replies, b \in Buttons : <<r, b>> \in Tokens /\ <<r, b>>[1] = r
    /\ \A r \in Replies : Of(r) \subseteq Tokens /\ \A k \in Tokens : k \in Of(r) <=> k[1] = r
    /\ Unclicked \notin Tokens
  <1>1. \A k \in Tokens : k[1] \in Replies /\ k[2] \in Buttons
    BY DEF Tokens
  <1>2. \A r \in Replies, b \in Buttons : <<r, b>> \in Tokens /\ <<r, b>>[1] = r
    BY DEF Tokens
  <1>3. \A r \in Replies : Of(r) \subseteq Tokens /\ \A k \in Tokens : k \in Of(r) <=> k[1] = r
    BY DEF Of
  <1>4. Unclicked \notin Tokens
    BY <1>1, NoJobFacts DEF Unclicked
  <1> QED
    BY <1>1, <1>2, <1>3, <1>4

\* What stays of the clicks when a step is about buttons, and the other way round.
ClicksStay == UNCHANGED <<click, wants, receipt>>
PastStays == UNCHANGED <<runs, grants, lost>>

\* An answer without buttons gets all of its own.
LEMMA RegisterTokens ==
    ASSUME IInv, NEW r \in Replies, Register(r)
    PROVE  /\ state[r] \notin {"none", "gone"} /\ Of(r) \cap registered = {}
           /\ registered' = registered \cup Of(r)
           /\ ClicksStay /\ PastStays /\ UNCHANGED <<state, consumed, by, mode>>
  BY DEF Register, ClicksStay, PastStays, clickVars, pastVars

\* A removed answer takes its buttons with it.
LEMMA RemoveTokens ==
    ASSUME IInv, NEW r \in Replies, Remove(r)
    PROVE  /\ state[r] \in {"done", "failed", "uncertain"} /\ state'[r] = "gone"
           /\ \A q \in Replies \ {r} : state'[q] = state[q]
           /\ Of(r) \cap Reserved = {}
           /\ registered' = registered \ Of(r) /\ consumed' = consumed \ Of(r)
           /\ \A k \in Tokens : k \notin Of(r) => by'[k] = by[k]
           /\ ClicksStay /\ PastStays /\ mode = "up" /\ mode' = "up"
  <1>1. TypeOK
    BY DEF IInv
  <1>2. /\ state' = [state EXCEPT ![r] = "gone"] /\ Removable(r) /\ mode = "up"
        /\ registered' = registered \ Of(r) /\ consumed' = consumed \ Of(r)
        /\ by' = [k \in Tokens |-> IF k[1] = r THEN NoClick ELSE by[k]]
        /\ ClicksStay /\ PastStays /\ mode' = mode
    BY DEF Remove, ClicksStay, PastStays, clickVars, pastVars
  <1>3. state[r] \in {"done", "failed", "uncertain"} /\ Of(r) \cap Reserved = {}
    BY <1>2 DEF Removable
  <1>4. state'[r] = "gone" /\ \A q \in Replies \ {r} : state'[q] = state[q]
    BY <1>1, <1>2, TokenTypes
  <1>5. \A k \in Tokens : k \notin Of(r) => by'[k] = by[k]
    BY <1>2, TokenFacts
  <1> QED
    BY <1>2, <1>3, <1>4, <1>5

\* A new click is pending and wants a button.
LEMMA ClickTokens ==
    ASSUME IInv, NEW c \in Clicks, NEW k \in Tokens, Click(c, k)
    PROVE  /\ click[c] = "none" /\ click'[c] = "pending" /\ wants'[c] = k
           /\ \A d \in Clicks \ {c} : click'[d] = click[d] /\ wants'[d] = wants[d]
           /\ PastStays /\ UNCHANGED <<state, registered, consumed, by, receipt, mode>>
  <1>1. TypeOK
    BY DEF IInv
  <1> QED
    BY <1>1, TokenTypes DEF Click, PastStays, pastVars, rowVars, tokenVars

\* An unused button is given to a click that has none.
LEMMA ReserveTokens ==
    ASSUME IInv, NEW c \in Clicks, Reserve(c)
    PROVE  LET k == wants[c]
           IN /\ mode = "up" /\ click[c] = "pending" /\ receipt[c] = "none"
              /\ k \in registered /\ k \notin consumed /\ by[k] = NoClick /\ state[k[1]] = "done"
              /\ UsedBy(c) = {}
              /\ by'[k] = c /\ \A j \in Tokens \ {k} : by'[j] = by[j]
              /\ grants'[c] = grants[c] + 1 /\ receipt'[c] = "taken"
              /\ \A d \in Clicks \ {c} : grants'[d] = grants[d] /\ receipt'[d] = receipt[d]
              /\ UNCHANGED <<state, registered, consumed, click, wants, runs, lost, mode>>
  <1>1. TypeOK
    BY DEF IInv
  <1>2. /\ mode = "up" /\ click[c] = "pending" /\ receipt[c] = "none"
        /\ wants[c] \in registered /\ wants[c] \notin consumed /\ by[wants[c]] = NoClick
        /\ state[wants[c][1]] = "done" /\ UsedBy(c) = {}
    BY DEF Reserve, Handles, Claimable
  <1>3. /\ by' = [by EXCEPT ![wants[c]] = c] /\ grants' = [grants EXCEPT ![c] = @ + 1]
        /\ receipt' = [receipt EXCEPT ![c] = "taken"]
        /\ UNCHANGED <<state, registered, consumed, click, wants, runs, lost, mode>>
    BY DEF Reserve, Receives, rowVars
  <1>4. wants[c] \in Tokens
    BY <1>1, <1>2, TokenTypes
  <1>5. by'[wants[c]] = c /\ \A j \in Tokens \ {wants[c]} : by'[j] = by[j]
    BY <1>1, <1>3, <1>4, TokenTypes
  <1>6. /\ grants'[c] = grants[c] + 1 /\ receipt'[c] = "taken"
        /\ \A d \in Clicks \ {c} : grants'[d] = grants[d] /\ receipt'[d] = receipt[d]
    BY <1>1, <1>3, TokenTypes
  <1> QED
    BY <1>2, <1>3, <1>5, <1>6

\* The row of a click changes from one state to another, if it changes.
LEMMA RejectTokens ==
    ASSUME IInv, NEW c \in Clicks, Reject(c)
    PROVE  /\ click[c] = "pending" /\ click'[c] = "done"
           /\ \A d \in Clicks \ {c} : click'[d] = click[d]
           /\ PastStays /\ UNCHANGED <<state, registered, consumed, by, wants, receipt, mode>>
  <1>1. TypeOK
    BY DEF IInv
  <1> QED
    BY <1>1, TokenTypes DEF Reject, Handles, ClickBecomes, PastStays, pastVars, rowVars, tokenVars

\* A held click is still undecided.
LEMMA HoldTokens ==
    ASSUME IInv, NEW c \in Clicks, Hold(c)
    PROVE  /\ Running /\ receipt[c] \in {"taken", "held"} /\ receipt'[c] \in {"taken", "held"}
           /\ \A d \in Clicks \ {c} : receipt'[d] = receipt[d]
           /\ PastStays /\ UNCHANGED <<state, registered, consumed, by, click, wants, mode>>
  <1>1. TypeOK
    BY DEF IInv
  <1> QED
    BY <1>1, TokenTypes DEF Hold, Receives, PastStays, pastVars, rowVars, tokenVars

\* A click's row goes on, and never back to pending.
LEMMA MarkClickTokens ==
    ASSUME IInv, NEW c \in Clicks, MarkClick(c)
    PROVE  /\ click'[c] = click[c] \/ (click[c] # "none" /\ click'[c] \notin {"none", "pending"})
           /\ \A d \in Clicks \ {c} : click'[d] = click[d]
           /\ PastStays /\ UNCHANGED <<state, registered, consumed, by, wants, receipt, mode>>
  <1>1. TypeOK
    BY DEF IInv
  <1>2. /\ \/ ClickBecomes(c, {"pending"}, "submitted") \/ ClickBecomes(c, {"submitted"}, "done")
           \/ ClickBecomes(c, {"pending"}, "cancelled")
        /\ PastStays /\ UNCHANGED <<state, registered, consumed, by, wants, receipt, mode>>
    BY DEF MarkClick, PastStays, pastVars, rowVars, tokenVars
  <1>3. /\ click'[c] = click[c] \/ (click[c] # "none" /\ click'[c] \notin {"none", "pending"})
        /\ \A d \in Clicks \ {c} : click'[d] = click[d]
    BY <1>1, <1>2, TokenTypes DEF ClickBecomes
  <1> QED
    BY <1>2, <1>3

\* A released button is free, and the click that had it no longer pending.
LEMMA ReleaseTokens ==
    ASSUME IInv, NEW c \in Clicks, Release(c)
    PROVE  /\ Running /\ receipt[c] \in {"taken", "held"} /\ receipt'[c] = "released"
           /\ \A d \in Clicks \ {c} : receipt'[d] = receipt[d] /\ click'[d] = click[d]
           /\ click'[c] = click[c] \/ (click[c] # "none" /\ click'[c] \notin {"none", "pending"})
           /\ UsedBy(c) \ consumed # {} => click'[c] # "pending"
           /\ \A k \in Tokens : by'[k] = IF k \in Reserved /\ by[k] = c THEN NoClick ELSE by[k]
           /\ PastStays /\ UNCHANGED <<state, registered, consumed, wants, mode>>
  <1>1. TypeOK
    BY DEF IInv
  <1>2. /\ Running /\ receipt[c] \in {"taken", "held"} /\ Free(c)
        /\ receipt' = [receipt EXCEPT ![c] = "released"]
        /\ PastStays /\ UNCHANGED <<state, registered, consumed, wants, mode>>
    BY DEF Release, Receives, PastStays, pastVars, rowVars
  <1>3. \A k \in Tokens : by'[k] = IF k \in Reserved /\ by[k] = c THEN NoClick ELSE by[k]
    BY <1>2 DEF Free
  <1>4. /\ click'[c] = click[c] \/ (click[c] # "none" /\ click'[c] \notin {"none", "pending"})
        /\ UsedBy(c) \ consumed # {} => click'[c] # "pending"
        /\ \A d \in Clicks \ {c} : click'[d] = click[d]
    BY <1>1, <1>2, TokenTypes DEF Free, ClickBecomes
  <1>5. receipt'[c] = "released" /\ \A d \in Clicks \ {c} : receipt'[d] = receipt[d]
    BY <1>1, <1>2, TokenTypes
  <1> QED
    BY <1>2, <1>3, <1>4, <1>5

\* A cut off release only ends the receipt.
LEMMA ReleaseFailsTokens ==
    ASSUME IInv, NEW c \in Clicks, ReleaseFails(c)
    PROVE  /\ mode = "stopping" /\ receipt'[c] = "lost" /\ receipt[c] \in {"taken", "held"}
           /\ \A d \in Clicks \ {c} : receipt'[d] = receipt[d]
           /\ PastStays /\ UNCHANGED <<state, registered, consumed, by, click, wants, mode>>
  <1>1. TypeOK
    BY DEF IInv
  <1> QED
    BY <1>1, TokenTypes DEF ReleaseFails, Receives, PastStays, pastVars, rowVars, tokenVars

\* A command is accepted with the button its click has.
LEMMA ConsumeTokens ==
    ASSUME IInv, NEW c \in Clicks, Consume(c)
    PROVE  /\ Running /\ wants[c] \in Reserved /\ by[wants[c]] = c /\ receipt[c] = "taken"
           /\ consumed' = consumed \cup {wants[c]} /\ receipt'[c] = "accepted"
           /\ runs'[wants[c]] = runs[wants[c]] + 1
           /\ \A d \in Clicks \ {c} : receipt'[d] = receipt[d]
           /\ \A k \in Tokens \ {wants[c]} : runs'[k] = runs[k]
           /\ UNCHANGED <<state, registered, by, click, wants, grants, lost, mode>>
  <1>1. TypeOK
    BY DEF IInv
  <1>2. /\ Running /\ wants[c] \in Reserved /\ by[wants[c]] = c /\ receipt[c] = "taken"
        /\ consumed' = consumed \cup {wants[c]} /\ receipt' = [receipt EXCEPT ![c] = "accepted"]
        /\ runs' = [runs EXCEPT ![wants[c]] = @ + 1]
        /\ UNCHANGED <<state, registered, by, click, wants, grants, lost, mode>>
    BY DEF Consume, Spend, Receives
  <1>3. wants[c] \in Tokens
    BY <1>1, <1>2, TokenTypes DEF Reserved
  <1>4. receipt'[c] = "accepted" /\ \A d \in Clicks \ {c} : receipt'[d] = receipt[d]
    BY <1>1, <1>2, TokenTypes
  <1>5. /\ runs'[wants[c]] = runs[wants[c]] + 1
        /\ \A k \in Tokens \ {wants[c]} : runs'[k] = runs[k]
    BY <1>1, <1>2, <1>3, TokenTypes
  <1> QED
    BY <1>2, <1>4, <1>5

\* A cut off acceptance ends the receipt, with or without the button.
LEMMA ConsumeFailsTokens ==
    ASSUME IInv, NEW c \in Clicks, ConsumeFails(c)
    PROVE  /\ mode = "stopping" /\ receipt[c] = "taken" /\ receipt'[c] = "lost"
           /\ \A d \in Clicks \ {c} : receipt'[d] = receipt[d]
           /\ \/ wants[c] \in Reserved /\ consumed' = consumed \cup {wants[c]}
              \/ consumed' = consumed
           /\ PastStays /\ UNCHANGED <<state, registered, by, click, wants, mode>>
  <1>1. TypeOK
    BY DEF IInv
  <1>2. /\ mode = "stopping" /\ receipt[c] = "taken" /\ receipt' = [receipt EXCEPT ![c] = "lost"]
        /\ \/ wants[c] \in Reserved /\ consumed' = consumed \cup {wants[c]}
           \/ consumed' = consumed
        /\ PastStays /\ UNCHANGED <<state, registered, by, click, wants, mode>>
    BY DEF ConsumeFails, Spend, Receives, PastStays, pastVars
  <1>3. receipt'[c] = "lost" /\ \A d \in Clicks \ {c} : receipt'[d] = receipt[d]
    BY <1>1, <1>2, TokenTypes
  <1> QED
    BY <1>2, <1>3

\* A restart uses up reserved buttons and settles the clicks that had one.
LEMMA ReopenTokens ==
    ASSUME IInv, Reopen
    PROVE  /\ mode = "down" /\ mode' = "up"
           /\ \A r \in Replies : state'[r] = IF state[r] = "sending" THEN "uncertain" ELSE state[r]
           /\ consumed' = consumed \cup Reserved /\ lost' = lost \cup Reserved
           /\ \A c \in Clicks :
                 /\ click'[c] = "none" <=> click[c] = "none"
                 /\ click'[c] = "pending" => click[c] = "pending" /\ UsedBy(c) = {}
           /\ UNCHANGED <<registered, by, wants, receipt, runs, grants>>
  <1>1. /\ mode = "down" /\ mode' = "up"
        /\ consumed' = consumed \cup Reserved /\ lost' = lost \cup Reserved
        /\ UNCHANGED <<registered, by, wants, receipt, runs, grants>>
    BY DEF Reopen, Recover, Spend
  <1>2. \A r \in Replies : state'[r] = IF state[r] = "sending" THEN "uncertain" ELSE state[r]
    BY DEF Reopen
  <1>3. \A c \in Clicks :
           /\ click'[c] = "none" <=> click[c] = "none"
           /\ click'[c] = "pending" => click[c] = "pending" /\ UsedBy(c) = {}
    BY DEF Reopen
  <1> QED
    BY <1>1, <1>2, <1>3

\* A late edit changes only what its message shows, and only of an answer in doubt.
LEMMA LateEditEffect ==
    ASSUME IInv, NEW r \in Replies, NEW f \in late[r], LateEdit(r, f)
    PROVE  /\ r \in doubt /\ late'[r] \subseteq late[r]
           /\ \A q \in Replies \ {r} : shown'[q] = shown[q] /\ late'[q] = late[q]
           /\ UNCHANGED <<mode, state, header, headerPending, actions, actionsPending, place, job,
                          doubt>>
  <1>1. TypeOK /\ FaceIsCurrent
    BY DEF IInv
  <1>2. /\ shown' = shown \/ shown' = [shown EXCEPT ![r] = f]
        /\ late' = [late EXCEPT ![r] = @ \ {f}]
        /\ UNCHANGED <<mode, state, header, headerPending, actions, actionsPending, place, job,
                       doubt>>
    BY DEF LateEdit, rowVars, workVars
  <1>3. shown \in [Replies -> Face] /\ late \in [Replies -> SUBSET Face]
    BY <1>1 DEF TypeOK
  <1>4. r \in doubt
    BY <1>1 DEF FaceIsCurrent
  <1> QED
    BY <1>2, <1>3, <1>4

\* A row that is there stays there, a delivered one stays delivered, and a removed
\* one removed.
RowsStay ==
    \A r \in Replies :
        /\ state[r] \notin {"none", "gone"} => state'[r] \notin {"none", "gone"}
        /\ state[r] = "gone" => state'[r] = "gone"
        /\ state[r] = "done" => state'[r] = "done"

\* Only retention takes a row away.
LEMMA RowsStayStep == IInv /\ [Next]_vars => RowsStay \/ \E r \in Replies : Remove(r)
  <1> SUFFICES ASSUME IInv, [Next]_vars, \A r \in Replies : ~Remove(r)
               PROVE  RowsStay
    OBVIOUS
  <1>t. TypeOK /\ JobsFollowPlaces /\ ClaimedAreMarked
    BY DEF IInv
  <1>1. ASSUME NEW r \in Replies, NEW h \in Headers \cup {NoHeader}, Append(r, h)
        PROVE  RowsStay
    BY <1>1, <1>t, WorkTypes
       DEF Append, RowsStay, JobsFollowPlaces, ClaimedAreMarked, HasRow, Edits, tokenVars,
           clickVars, workVars, shownVars, pastVars, boundVars
  <1>15. ASSUME NEW w \in Workers, ClaimOutput(w) PROVE RowsStay
    BY <1>15, <1>t, ClaimOutputEffect
       DEF ClaimKeeps, Taken, RestStays, OthersStay, RowsStay, JobsFollowPlaces,
           ClaimedAreMarked, HasRow, Edits
  <1>17. ASSUME NEW w \in Workers, NEW s \in {"pending", "failed", "uncertain"},
                MessageNotSent(w, s)
         PROVE  RowsStay
    BY <1>17, <1>t, MessageNotSentEffect
       DEF Left, OthersStay, RestStays, RowsStay, JobsFollowPlaces, ClaimedAreMarked, HasRow,
           Edits
  <1>18. ASSUME NEW w \in Workers, MarkDelivered(w) PROVE RowsStay
    BY <1>18, <1>t, MarkDeliveredEffect
       DEF Left, Unclaimed, OthersStay, RestStays, RowsStay, JobsFollowPlaces, ClaimedAreMarked,
           HasRow, Edits
  <1>32. ASSUME Reopen PROVE RowsStay
    BY <1>32, <1>t, ReopenEffect DEF RowsStay, JobsFollowPlaces, ClaimedAreMarked, HasRow, Edits
  <1>33. CASE UNCHANGED state
    BY <1>33, <1>t DEF RowsStay
  <1> QED
    BY <1>1, <1>15, <1>17, <1>18, <1>32, <1>33
       DEF Next, Worker, Handle, Decide, vars, rowVars, tokenVars, clickVars, workVars,
           shownVars, pastVars, boundVars, SetHeader, Register, Rebind, LateEdit, ClaimHeader,
           ClaimActions, StartEdit, ReleaseEdit, EditMade, EditFails, MarkHeader, MarkActions,
           MessageSent, WorkerLeaves, Click, Reserve, Reject, Hold, MarkClick, Consume,
           ConsumeFails, Release, ReleaseFails, Stop, Exit, Crash, Down

-----------------------------------------------------------------------------
(* Every step keeps the parts of the invariant.                            *)

\* Every action keeps the types.
LEMMA TypeStep == IInv /\ [Next]_vars => TypeOK'
  <1> SUFFICES ASSUME IInv, [Next]_vars PROVE TypeOK'
    OBVIOUS
  <1>t. TypeOK /\ JobsFollowPlaces
    BY DEF IInv
  <1>1. ASSUME NEW r \in Replies, NEW h \in Headers \cup {NoHeader}, Append(r, h) PROVE TypeOK'
    BY <1>1, <1>t, NoJobFacts
       DEF Append, TypeOK, States, Face, Edits, HasRow, JobsFollowPlaces, rowVars, tokenVars,
           clickVars, workVars, shownVars, pastVars, boundVars
  <1>2. ASSUME NEW r \in Replies, NEW h \in Headers \cup {NoHeader}, SetHeader(r, h)
        PROVE  TypeOK'
    <2>1. changes' \in 0 .. MaxChanges
      BY <1>2, <1>t, BoundAssumption DEF SetHeader, TypeOK
    <2> QED
      BY <1>2, <1>t, <2>1
         DEF SetHeader, TypeOK, rowVars, tokenVars, clickVars, workVars, shownVars, pastVars,
             boundVars
  <1>3. ASSUME NEW r \in Replies, Register(r) PROVE TypeOK'
    BY <1>3, <1>t, NoJobFacts
       DEF Register, Requested, Of, TypeOK, States, Face, Edits, HasRow, JobsFollowPlaces,
           rowVars, tokenVars, clickVars, workVars, shownVars, pastVars, boundVars
  <1>4. ASSUME NEW r \in Replies, Rebind(r) PROVE TypeOK'
    BY <1>4, <1>t, NoJobFacts
       DEF Rebind, TypeOK, States, Face, Edits, HasRow, JobsFollowPlaces, rowVars, tokenVars,
           clickVars, workVars, shownVars, pastVars, boundVars
  <1>5. ASSUME NEW r \in Replies, Remove(r) PROVE TypeOK'
    BY <1>5, <1>t, NoJobFacts
       DEF Remove, Removable, Of, TypeOK, States, Face, Edits, HasRow, JobsFollowPlaces,
           rowVars, tokenVars, clickVars, workVars, shownVars, pastVars, boundVars
  <1>6. ASSUME NEW r \in Replies, NEW f \in late[r], LateEdit(r, f) PROVE TypeOK'
    <2>1. f \in Face /\ shown' \in [Replies -> Face] /\ late' \in [Replies -> SUBSET Face]
      BY <1>6, <1>t DEF LateEdit, TypeOK
    <2> QED
      BY <1>6, <1>t, <2>1
         DEF LateEdit, TypeOK, rowVars, tokenVars, clickVars, workVars, shownVars, pastVars,
             boundVars
  <1>7. ASSUME NEW w \in Workers, ClaimHeader(w) PROVE TypeOK'
    <2>1. place' \in [Workers -> Places] /\ job' \in [Workers -> Jobs]
      BY <1>7, <1>t, PlaceTypes, WorkTypes DEF ClaimHeader, StaleHeaders, Places, HasRow, Edits
    <2>2. differing' \in SUBSET Replies
      BY <1>7, <1>t DEF ClaimHeader, Takes, TypeOK
    <2>3. actionsPending' \in [Replies -> {0, 1, 2}]
      BY <1>7, <1>t, WorkTypes DEF ClaimHeader, StaleHeaders, States
    <2> QED
      BY <1>7, <1>t, <2>1, <2>2, <2>3 DEF ClaimHeader, TypeOK, Places, Jobs, HasRow, Edits, States,
         rowVars, tokenVars, clickVars, workVars, shownVars, pastVars, boundVars
  <1>8. ASSUME NEW w \in Workers, ClaimActions(w) PROVE TypeOK'
    <2>1. place' \in [Workers -> Places] /\ job' \in [Workers -> Jobs]
      BY <1>8, <1>t, PlaceTypes, WorkTypes DEF ClaimActions, StaleActions, Places, HasRow, Edits
    <2>2. differing' \in SUBSET Replies
      BY <1>8, <1>t DEF ClaimActions, Takes, TypeOK
    <2>3. actionsPending' \in [Replies -> {0, 1, 2}]
      BY <1>8, <1>t, WorkTypes DEF ClaimActions, StaleActions, States
    <2> QED
      BY <1>8, <1>t, <2>1, <2>2, <2>3 DEF ClaimActions, TypeOK, Places, Jobs, HasRow, Edits, States,
         rowVars, tokenVars, clickVars, workVars, shownVars, pastVars, boundVars
  <1>9. ASSUME NEW w \in Workers, StartEdit(w) PROVE TypeOK'
    BY <1>9, <1>t, NoJobFacts
       DEF StartEdit, GoTo, TypeOK, States, Face, Edits, HasRow, JobsFollowPlaces, rowVars,
           tokenVars, clickVars, workVars, shownVars, pastVars, boundVars
  <1>10. ASSUME NEW w \in Workers, ReleaseEdit(w) PROVE TypeOK'
    <2>1. place' \in [Workers -> Places] /\ job' \in [Workers -> Jobs]
      BY <1>10, <1>t, PlaceTypes DEF ReleaseEdit, Places, HasRow, Edits
    <2>2. actionsPending' \in [Replies -> {0, 1, 2}]
      BY <1>10, <1>t, WorkTypes DEF ReleaseEdit, States
    <2> QED
      BY <1>10, <1>t, <2>1, <2>2 DEF ReleaseEdit, TypeOK, Places, Jobs, HasRow, Edits, States,
         rowVars, tokenVars, clickVars, workVars, shownVars, pastVars, boundVars
  <1>11. ASSUME NEW w \in Workers, EditMade(w) PROVE TypeOK'
    BY <1>11, <1>t, NoJobFacts
       DEF EditMade, Editing, Edited, Returned, GoTo, TypeOK, States, Face, Edits, HasRow,
           JobsFollowPlaces, rowVars, tokenVars, clickVars, workVars, shownVars, pastVars,
           boundVars
  <1>12. ASSUME NEW w \in Workers, NEW unknown \in BOOLEAN, EditFails(w, unknown) PROVE TypeOK'
    BY <1>12, <1>t, NoJobFacts
       DEF EditFails, Editing, Edited, Returned, GoTo, TypeOK, States, Face, Edits, HasRow,
           JobsFollowPlaces, rowVars, tokenVars, clickVars, workVars, shownVars, pastVars,
           boundVars
  <1>13. ASSUME NEW w \in Workers, MarkHeader(w) PROVE TypeOK'
    <2>1. place' \in [Workers -> Places] /\ job' \in [Workers -> Jobs]
      BY <1>13, <1>t, PlaceTypes DEF MarkHeader, Places, HasRow, Edits
    <2>2. actionsPending' \in [Replies -> {0, 1, 2}] /\ headerPending' \in [Replies -> BOOLEAN]
      BY <1>13, <1>t, WorkTypes DEF MarkHeader, Unclaim, HeaderDelivered, States
    <2> QED
      BY <1>13, <1>t, <2>1, <2>2 DEF MarkHeader, TypeOK, Places, Jobs, HasRow, Edits, States,
         rowVars, tokenVars, clickVars, workVars, shownVars, pastVars, boundVars
  <1>14. ASSUME NEW w \in Workers, MarkActions(w) PROVE TypeOK'
    <2>1. place' \in [Workers -> Places] /\ job' \in [Workers -> Jobs]
      BY <1>14, <1>t, PlaceTypes DEF MarkActions, Places, HasRow, Edits
    <2>2. actionsPending' \in [Replies -> {0, 1, 2}]
      BY <1>14, <1>t, WorkTypes DEF MarkActions, Unclaim, States
    <2> QED
      BY <1>14, <1>t, <2>1, <2>2 DEF MarkActions, TypeOK, Places, Jobs, HasRow, Edits, States,
         rowVars, tokenVars, clickVars, workVars, shownVars, pastVars, boundVars
  <1>15. ASSUME NEW w \in Workers, ClaimOutput(w) PROVE TypeOK'
    <2>1. place' \in [Workers -> Places] /\ job' \in [Workers -> Jobs]
      BY <1>15, <1>t, PlaceTypes, WorkTypes DEF ClaimOutput, Unsent, Places, HasRow, Edits
    <2>2. differing' \in SUBSET Replies
      BY <1>15, <1>t DEF ClaimOutput, Takes, TypeOK
    <2>3. state' \in [Replies -> States]
      BY <1>15, <1>t, WorkTypes DEF ClaimOutput, Unsent, States
    <2> QED
      BY <1>15, <1>t, <2>1, <2>2, <2>3 DEF ClaimOutput, TypeOK, Places, Jobs, HasRow, Edits, States,
         rowVars, tokenVars, clickVars, workVars, shownVars, pastVars, boundVars
  <1>16. ASSUME NEW w \in Workers, MessageSent(w) PROVE TypeOK'
    BY <1>16, <1>t, NoJobFacts
       DEF MessageSent, GoTo, TypeOK, States, Face, Edits, HasRow, JobsFollowPlaces, rowVars,
           tokenVars, clickVars, workVars, shownVars, pastVars, boundVars
  <1>17. ASSUME NEW w \in Workers, NEW s \in {"pending", "failed", "uncertain"},
                MessageNotSent(w, s)
         PROVE  TypeOK'
    <2>1. place' \in [Workers -> Places] /\ job' \in [Workers -> Jobs]
      BY <1>17, <1>t, PlaceTypes DEF MessageNotSent, Places, HasRow, Edits
    <2>2. state' \in [Replies -> States]
      BY <1>17, <1>t, WorkTypes DEF MessageNotSent, States
    <2> QED
      BY <1>17, <1>t, <2>1, <2>2 DEF MessageNotSent, TypeOK, Places, Jobs, HasRow, Edits, States,
         rowVars, tokenVars, clickVars, workVars, shownVars, pastVars, boundVars
  <1>18. ASSUME NEW w \in Workers, MarkDelivered(w) PROVE TypeOK'
    <2>1. place' \in [Workers -> Places] /\ job' \in [Workers -> Jobs]
      BY <1>18, <1>t, PlaceTypes DEF MarkDelivered, Places, HasRow, Edits
    <2>2. /\ state' \in [Replies -> States] /\ actionsPending' \in [Replies -> {0, 1, 2}]
          /\ headerPending' \in [Replies -> BOOLEAN]
      BY <1>18, <1>t, WorkTypes DEF MarkDelivered, DeliveredMetadata, Unclaim, States
    <2> QED
      BY <1>18, <1>t, <2>1, <2>2 DEF MarkDelivered, TypeOK, Places, Jobs, HasRow, Edits, States,
         rowVars, tokenVars, clickVars, workVars, shownVars, pastVars, boundVars
  <1>19. ASSUME NEW w \in Workers, WorkerLeaves(w) PROVE TypeOK'
    BY <1>19, <1>t, NoJobFacts
       DEF WorkerLeaves, GoTo, TypeOK, States, Face, Edits, HasRow, JobsFollowPlaces, rowVars,
           tokenVars, clickVars, workVars, shownVars, pastVars, boundVars
  <1>20. ASSUME NEW c \in Clicks, NEW k \in Tokens, Click(c, k) PROVE TypeOK'
    BY <1>20, <1>t, NoJobFacts
       DEF Click, TypeOK, States, Face, Edits, HasRow, JobsFollowPlaces, rowVars, tokenVars,
           clickVars, workVars, shownVars, pastVars, boundVars
  <1>21. ASSUME NEW c \in Clicks, Reserve(c) PROVE TypeOK'
    BY <1>21, <1>t, NoJobFacts
       DEF Reserve, Handles, Claimable, Receives, TypeOK, States, Face, Edits, HasRow,
           JobsFollowPlaces, rowVars, tokenVars, clickVars, workVars, shownVars, pastVars,
           boundVars
  <1>22. ASSUME NEW c \in Clicks, Reject(c) PROVE TypeOK'
    BY <1>22, <1>t, NoJobFacts
       DEF Reject, Handles, ClickBecomes, TypeOK, States, Face, Edits, HasRow, JobsFollowPlaces,
           rowVars, tokenVars, clickVars, workVars, shownVars, pastVars, boundVars
  <1>23. ASSUME NEW c \in Clicks, Hold(c) PROVE TypeOK'
    BY <1>23, <1>t, NoJobFacts
       DEF Hold, Receives, TypeOK, States, Face, Edits, HasRow, JobsFollowPlaces, rowVars,
           tokenVars, clickVars, workVars, shownVars, pastVars, boundVars
  <1>24. ASSUME NEW c \in Clicks, MarkClick(c) PROVE TypeOK'
    BY <1>24, <1>t, NoJobFacts
       DEF MarkClick, ClickBecomes, TypeOK, States, Face, Edits, HasRow, JobsFollowPlaces,
           rowVars, tokenVars, clickVars, workVars, shownVars, pastVars, boundVars
  <1>25. ASSUME NEW c \in Clicks, Consume(c) PROVE TypeOK'
    BY <1>25, <1>t, NoJobFacts
       DEF Consume, Spend, Requested, Receives, Reserved, Of, TypeOK, States, Face, Edits,
           HasRow, JobsFollowPlaces, rowVars, tokenVars, clickVars, workVars, shownVars,
           pastVars, boundVars
  <1>26. ASSUME NEW c \in Clicks, ConsumeFails(c) PROVE TypeOK'
    BY <1>26, <1>t, NoJobFacts
       DEF ConsumeFails, Spend, Requested, Receives, Reserved, Of, TypeOK, States, Face, Edits,
           HasRow, JobsFollowPlaces, rowVars, tokenVars, clickVars, workVars, shownVars,
           pastVars, boundVars
  <1>27. ASSUME NEW c \in Clicks, Release(c) PROVE TypeOK'
    BY <1>27, <1>t, NoJobFacts
       DEF Release, Free, ClickBecomes, Receives, Reserved, UsedBy, TypeOK, States, Face, Edits,
           HasRow, JobsFollowPlaces, rowVars, tokenVars, clickVars, workVars, shownVars,
           pastVars, boundVars
  <1>28. ASSUME NEW c \in Clicks, ReleaseFails(c) PROVE TypeOK'
    BY <1>28, <1>t, NoJobFacts
       DEF ReleaseFails, Receives, TypeOK, States, Face, Edits, HasRow, JobsFollowPlaces,
           rowVars, tokenVars, clickVars, workVars, shownVars, pastVars, boundVars
  <1>29. ASSUME Stop PROVE TypeOK'
    <2>1. stops' \in 0 .. MaxStops
      BY <1>29, <1>t, BoundAssumption DEF Stop, TypeOK
    <2> QED
      BY <1>29, <1>t, <2>1
         DEF Stop, TypeOK, rowVars, tokenVars, clickVars, workVars, shownVars, pastVars,
             boundVars
  <1>30. ASSUME Exit PROVE TypeOK'
    BY <1>30, <1>t, NoJobFacts
       DEF Exit, Down, TypeOK, States, Face, Edits, HasRow, JobsFollowPlaces, rowVars,
           tokenVars, clickVars, workVars, shownVars, pastVars, boundVars
  <1>31. ASSUME Crash PROVE TypeOK'
    <2>1. stops' \in 0 .. MaxStops
      BY <1>31, <1>t, BoundAssumption DEF Crash, TypeOK
    <2> QED
      BY <1>31, <1>t, <2>1, NoJobFacts
         DEF Crash, Down, TypeOK, Jobs, rowVars, tokenVars, clickVars, workVars, shownVars,
             pastVars, boundVars
  <1>32. ASSUME Reopen PROVE TypeOK'
    BY <1>32, <1>t, NoJobFacts
       DEF Reopen, Recover, Spend, Requested, Reconciled, Reserved, Of, TypeOK, States, Face,
           Edits, HasRow, JobsFollowPlaces, rowVars, tokenVars, clickVars, workVars, shownVars,
           pastVars, boundVars
  <1>33. CASE UNCHANGED vars
    BY <1>33, <1>t, NoJobFacts
       DEF TypeOK, States, Face, Edits, HasRow, JobsFollowPlaces, rowVars, tokenVars, clickVars,
           workVars, shownVars, pastVars, boundVars, vars, rowVars, tokenVars, clickVars,
           workVars, shownVars, pastVars, boundVars
  <1> QED
    BY <1>1, <1>2, <1>3, <1>4, <1>5, <1>6, <1>7, <1>8, <1>9, <1>10, <1>11, <1>12, <1>13, <1>14,
       <1>15, <1>16, <1>17, <1>18, <1>19, <1>20, <1>21, <1>22, <1>23, <1>24, <1>25, <1>26,
       <1>27, <1>28, <1>29, <1>30, <1>31, <1>32, <1>33
       DEF Next, Worker, Handle, Decide

\* A worker takes a row, keeps it to the mark and gives it up.
LEMMA JobsFollowPlacesStep == IInv /\ [Next]_vars => JobsFollowPlaces'
  <1> SUFFICES ASSUME IInv, [Next]_vars PROVE JobsFollowPlaces'
    OBVIOUS
  <1>t. TypeOK /\ JobsFollowPlaces /\ ClaimedAreMarked /\ JobsDiffer /\ MarkedAreClaimed
    BY DEF IInv
  <1>1. ASSUME NEW r \in Replies, NEW h \in Headers \cup {NoHeader}, Append(r, h)
        PROVE  JobsFollowPlaces'
    BY <1>1, <1>t, NoJobFacts, WorkTypes
       DEF Append, JobsFollowPlaces, JobsDiffer, Running, Edits, HasRow, tokenVars, clickVars,
           workVars, shownVars, pastVars, boundVars
  <1>5. ASSUME NEW r \in Replies, Remove(r) PROVE JobsFollowPlaces'
    BY <1>5, <1>t, NoJobFacts, RemoveEffect
       DEF JobsFollowPlaces, JobsDiffer, Running, Edits, HasRow
  <1>7. ASSUME NEW w \in Workers, ClaimHeader(w) PROVE JobsFollowPlaces'
    BY <1>7, <1>t, NoJobFacts, ClaimHeaderEffect
       DEF ClaimKeeps, Taken, RestStays, OthersStay, JobsFollowPlaces, JobsDiffer, Running,
           Edits, HasRow
  <1>8. ASSUME NEW w \in Workers, ClaimActions(w) PROVE JobsFollowPlaces'
    BY <1>8, <1>t, NoJobFacts, ClaimActionsEffect
       DEF ClaimKeeps, Taken, RestStays, OthersStay, JobsFollowPlaces, JobsDiffer, Running,
           Edits, HasRow
  <1>9. ASSUME NEW w \in Workers, StartEdit(w) PROVE JobsFollowPlaces'
    BY <1>9, <1>t, NoJobFacts, StartEditEffect
       DEF Moved, OthersStay, JobsFollowPlaces, JobsDiffer, Running, Edits, HasRow
  <1>10. ASSUME NEW w \in Workers, ReleaseEdit(w) PROVE JobsFollowPlaces'
    BY <1>10, <1>t, NoJobFacts, ReleaseEditEffect
       DEF Left, OthersStay, RestStays, JobsFollowPlaces, JobsDiffer, Running, Edits, HasRow
  <1>11. ASSUME NEW w \in Workers, EditMade(w) PROVE JobsFollowPlaces'
    BY <1>11, <1>t, NoJobFacts, EditMadeEffect
       DEF Moved, OthersStay, FacesStay, JobsFollowPlaces, JobsDiffer, Running, Edits, HasRow
  <1>12. ASSUME NEW w \in Workers, NEW unknown \in BOOLEAN, EditFails(w, unknown)
         PROVE  JobsFollowPlaces'
    BY <1>12, <1>t, NoJobFacts, EditFailsEffect
       DEF Moved, OthersStay, FacesStay, JobsFollowPlaces, JobsDiffer, Running, Edits, HasRow
  <1>13. ASSUME NEW w \in Workers, MarkHeader(w) PROVE JobsFollowPlaces'
    BY <1>13, <1>t, NoJobFacts, MarkHeaderEffect
       DEF Left, Unclaimed, OthersStay, RestStays, JobsFollowPlaces, JobsDiffer, Running, Edits,
           HasRow
  <1>14. ASSUME NEW w \in Workers, MarkActions(w) PROVE JobsFollowPlaces'
    BY <1>14, <1>t, NoJobFacts, MarkActionsEffect
       DEF Left, Unclaimed, OthersStay, RestStays, JobsFollowPlaces, JobsDiffer, Running, Edits,
           HasRow
  <1>15. ASSUME NEW w \in Workers, ClaimOutput(w) PROVE JobsFollowPlaces'
    BY <1>15, <1>t, NoJobFacts, ClaimOutputEffect
       DEF ClaimKeeps, Taken, RestStays, OthersStay, JobsFollowPlaces, JobsDiffer, Running,
           Edits, HasRow
  <1>16. ASSUME NEW w \in Workers, MessageSent(w) PROVE JobsFollowPlaces'
    BY <1>16, <1>t, NoJobFacts, MessageSentEffect
       DEF Moved, OthersStay, FacesStay, JobsFollowPlaces, JobsDiffer, Running, Edits, HasRow
  <1>17. ASSUME NEW w \in Workers, NEW s \in {"pending", "failed", "uncertain"},
                MessageNotSent(w, s)
         PROVE  JobsFollowPlaces'
    BY <1>17, <1>t, NoJobFacts, MessageNotSentEffect
       DEF Left, OthersStay, RestStays, JobsFollowPlaces, JobsDiffer, Running, Edits, HasRow
  <1>18. ASSUME NEW w \in Workers, MarkDelivered(w) PROVE JobsFollowPlaces'
    BY <1>18, <1>t, NoJobFacts, MarkDeliveredEffect
       DEF Left, Unclaimed, OthersStay, RestStays, JobsFollowPlaces, JobsDiffer, Running, Edits,
           HasRow
  <1>19. ASSUME NEW w \in Workers, WorkerLeaves(w) PROVE JobsFollowPlaces'
    BY <1>19, <1>t, NoJobFacts, WorkerLeavesEffect
       DEF Moved, OthersStay, JobsFollowPlaces, JobsDiffer, Running, Edits, HasRow
  <1>29. ASSUME Stop PROVE JobsFollowPlaces'
    BY <1>29, <1>t, NoJobFacts, WorkTypes
       DEF Stop, JobsFollowPlaces, JobsDiffer, Running, Edits, HasRow, rowVars, tokenVars,
           clickVars, workVars, shownVars, pastVars
  <1>30. ASSUME Exit PROVE JobsFollowPlaces'
    BY <1>30, <1>t, NoJobFacts, WorkTypes, DownEffect
       DEF Exit, Down, JobsFollowPlaces, JobsDiffer, Running, Edits, HasRow, rowVars, tokenVars,
           shownVars, pastVars
  <1>31. ASSUME Crash PROVE JobsFollowPlaces'
    BY <1>31, <1>t, NoJobFacts, WorkTypes, DownEffect
       DEF Crash, Down, JobsFollowPlaces, JobsDiffer, Running, Edits, HasRow, rowVars,
           tokenVars, shownVars, pastVars
  <1>32. ASSUME Reopen PROVE JobsFollowPlaces'
    BY <1>32, <1>t, NoJobFacts, ReopenEffect
       DEF JobsFollowPlaces, JobsDiffer, Running, Edits, HasRow
  <1>33. CASE UNCHANGED <<state, place, job, mode>>
    BY <1>33, <1>t, NoJobFacts DEF JobsFollowPlaces
  <1> QED
    BY <1>1, <1>5, <1>7, <1>8, <1>9, <1>10, <1>11, <1>12, <1>13, <1>14, <1>15, <1>16, <1>17,
       <1>18, <1>19, <1>29, <1>30, <1>31, <1>32, <1>33
       DEF Next, Worker, Handle, Decide, vars, rowVars, tokenVars, clickVars, workVars,
           shownVars, pastVars, boundVars, SetHeader, Register, Rebind, LateEdit, Click,
           Reserve, Reject, Hold, MarkClick, Consume, ConsumeFails, Release, ReleaseFails

\* Whoever changes the keyboard leaves the claim alone.
LEMMA ClaimedAreMarkedStep == IInv /\ [Next]_vars => ClaimedAreMarked'
  <1> SUFFICES ASSUME IInv, [Next]_vars PROVE ClaimedAreMarked'
    OBVIOUS
  <1>t. TypeOK /\ JobsFollowPlaces /\ ClaimedAreMarked /\ JobsDiffer /\ MarkedAreClaimed
    BY DEF IInv
  <1>1. ASSUME NEW r \in Replies, NEW h \in Headers \cup {NoHeader}, Append(r, h)
        PROVE  ClaimedAreMarked'
    BY <1>1, <1>t, WorkTypes
       DEF Append, ClaimedAreMarked, JobsDiffer, JobsFollowPlaces, Edits, HasRow, tokenVars,
           clickVars, workVars, shownVars, pastVars, boundVars
  <1>3. ASSUME NEW r \in Replies, Register(r) PROVE ClaimedAreMarked'
    BY <1>3, <1>t, RegisterEffect
       DEF ClaimedAreMarked, JobsDiffer, JobsFollowPlaces, Edits, HasRow
  <1>5. ASSUME NEW r \in Replies, Remove(r) PROVE ClaimedAreMarked'
    BY <1>5, <1>t, RemoveEffect
       DEF ClaimedAreMarked, JobsDiffer, JobsFollowPlaces, Edits, HasRow
  <1>7. ASSUME NEW w \in Workers, ClaimHeader(w) PROVE ClaimedAreMarked'
    BY <1>7, <1>t, ClaimHeaderEffect
       DEF ClaimKeeps, Taken, RestStays, OthersStay, ClaimedAreMarked, JobsDiffer,
           JobsFollowPlaces, Edits, HasRow
  <1>8. ASSUME NEW w \in Workers, ClaimActions(w) PROVE ClaimedAreMarked'
    BY <1>8, <1>t, ClaimActionsEffect
       DEF ClaimKeeps, Taken, RestStays, OthersStay, ClaimedAreMarked, JobsDiffer,
           JobsFollowPlaces, Edits, HasRow
  <1>9. ASSUME NEW w \in Workers, StartEdit(w) PROVE ClaimedAreMarked'
    BY <1>9, <1>t, StartEditEffect
       DEF Moved, OthersStay, ClaimedAreMarked, JobsDiffer, JobsFollowPlaces, Edits, HasRow
  <1>10. ASSUME NEW w \in Workers, ReleaseEdit(w) PROVE ClaimedAreMarked'
    BY <1>10, <1>t, ReleaseEditEffect
       DEF Left, OthersStay, RestStays, ClaimedAreMarked, JobsDiffer, JobsFollowPlaces, Edits,
           HasRow
  <1>11. ASSUME NEW w \in Workers, EditMade(w) PROVE ClaimedAreMarked'
    BY <1>11, <1>t, EditMadeEffect
       DEF Moved, OthersStay, FacesStay, ClaimedAreMarked, JobsDiffer, JobsFollowPlaces, Edits,
           HasRow
  <1>12. ASSUME NEW w \in Workers, NEW unknown \in BOOLEAN, EditFails(w, unknown)
         PROVE  ClaimedAreMarked'
    BY <1>12, <1>t, EditFailsEffect
       DEF Moved, OthersStay, FacesStay, ClaimedAreMarked, JobsDiffer, JobsFollowPlaces, Edits,
           HasRow
  <1>13. ASSUME NEW w \in Workers, MarkHeader(w) PROVE ClaimedAreMarked'
    BY <1>13, <1>t, MarkHeaderEffect
       DEF Left, Unclaimed, OthersStay, RestStays, ClaimedAreMarked, JobsDiffer,
           JobsFollowPlaces, Edits, HasRow
  <1>14. ASSUME NEW w \in Workers, MarkActions(w) PROVE ClaimedAreMarked'
    BY <1>14, <1>t, MarkActionsEffect
       DEF Left, Unclaimed, OthersStay, RestStays, ClaimedAreMarked, JobsDiffer,
           JobsFollowPlaces, Edits, HasRow
  <1>15. ASSUME NEW w \in Workers, ClaimOutput(w) PROVE ClaimedAreMarked'
    BY <1>15, <1>t, ClaimOutputEffect
       DEF ClaimKeeps, Taken, RestStays, OthersStay, ClaimedAreMarked, JobsDiffer,
           JobsFollowPlaces, Edits, HasRow
  <1>16. ASSUME NEW w \in Workers, MessageSent(w) PROVE ClaimedAreMarked'
    BY <1>16, <1>t, MessageSentEffect
       DEF Moved, OthersStay, FacesStay, ClaimedAreMarked, JobsDiffer, JobsFollowPlaces, Edits,
           HasRow
  <1>17. ASSUME NEW w \in Workers, NEW s \in {"pending", "failed", "uncertain"},
                MessageNotSent(w, s)
         PROVE  ClaimedAreMarked'
    BY <1>17, <1>t, MessageNotSentEffect
       DEF Left, OthersStay, RestStays, ClaimedAreMarked, JobsDiffer, JobsFollowPlaces, Edits,
           HasRow
  <1>18. ASSUME NEW w \in Workers, MarkDelivered(w) PROVE ClaimedAreMarked'
    BY <1>18, <1>t, MarkDeliveredEffect
       DEF Left, Unclaimed, OthersStay, RestStays, ClaimedAreMarked, JobsDiffer,
           JobsFollowPlaces, Edits, HasRow
  <1>19. ASSUME NEW w \in Workers, WorkerLeaves(w) PROVE ClaimedAreMarked'
    BY <1>19, <1>t, WorkerLeavesEffect
       DEF Moved, OthersStay, ClaimedAreMarked, JobsDiffer, JobsFollowPlaces, Edits, HasRow
  <1>25. ASSUME NEW c \in Clicks, Consume(c) PROVE ClaimedAreMarked'
    BY <1>25, <1>t, ConsumeEffect
       DEF SpentRows, ClaimedAreMarked, JobsDiffer, JobsFollowPlaces, Edits, HasRow
  <1>26. ASSUME NEW c \in Clicks, ConsumeFails(c) PROVE ClaimedAreMarked'
    BY <1>26, <1>t, ConsumeFailsEffect
       DEF SpentRows, ClaimedAreMarked, JobsDiffer, JobsFollowPlaces, Edits, HasRow
  <1>30. ASSUME Exit PROVE ClaimedAreMarked'
    BY <1>30, <1>t, WorkTypes, DownEffect
       DEF Exit, Down, ClaimedAreMarked, JobsDiffer, JobsFollowPlaces, Edits, HasRow, rowVars,
           tokenVars, shownVars, pastVars
  <1>31. ASSUME Crash PROVE ClaimedAreMarked'
    BY <1>31, <1>t, WorkTypes, DownEffect
       DEF Crash, Down, ClaimedAreMarked, JobsDiffer, JobsFollowPlaces, Edits, HasRow, rowVars,
           tokenVars, shownVars, pastVars
  <1>32. ASSUME Reopen PROVE ClaimedAreMarked'
    BY <1>32, <1>t, ReopenEffect
       DEF ClaimedAreMarked, JobsDiffer, JobsFollowPlaces, Edits, HasRow
  <1>33. CASE UNCHANGED <<state, actionsPending, place, job>>
    BY <1>33, <1>t DEF ClaimedAreMarked
  <1> QED
    BY <1>1, <1>3, <1>5, <1>7, <1>8, <1>9, <1>10, <1>11, <1>12, <1>13, <1>14, <1>15, <1>16,
       <1>17, <1>18, <1>19, <1>25, <1>26, <1>30, <1>31, <1>32, <1>33
       DEF Next, Worker, Handle, Decide, vars, rowVars, tokenVars, clickVars, workVars,
           shownVars, pastVars, boundVars, SetHeader, Rebind, LateEdit, Click, Reserve, Reject,
           Hold, MarkClick, Release, ReleaseFails, Stop

\* A worker takes a row that no other worker has.
LEMMA JobsDifferStep == IInv /\ [Next]_vars => JobsDiffer'
  <1> SUFFICES ASSUME IInv, [Next]_vars PROVE JobsDiffer'
    OBVIOUS
  <1>t. TypeOK /\ JobsFollowPlaces /\ ClaimedAreMarked /\ JobsDiffer /\ MarkedAreClaimed
    BY DEF IInv
  <1>7. ASSUME NEW w \in Workers, ClaimHeader(w) PROVE JobsDiffer'
    BY <1>7, <1>t, ClaimHeaderEffect
       DEF ClaimKeeps, Taken, RestStays, OthersStay, ClaimedAreMarked, JobsDiffer,
           JobsFollowPlaces, Edits, HasRow
  <1>8. ASSUME NEW w \in Workers, ClaimActions(w) PROVE JobsDiffer'
    BY <1>8, <1>t, ClaimActionsEffect
       DEF ClaimKeeps, Taken, RestStays, OthersStay, ClaimedAreMarked, JobsDiffer,
           JobsFollowPlaces, Edits, HasRow
  <1>9. ASSUME NEW w \in Workers, StartEdit(w) PROVE JobsDiffer'
    BY <1>9, <1>t, StartEditEffect
       DEF Moved, OthersStay, ClaimedAreMarked, JobsDiffer, JobsFollowPlaces, Edits, HasRow
  <1>10. ASSUME NEW w \in Workers, ReleaseEdit(w) PROVE JobsDiffer'
    BY <1>10, <1>t, ReleaseEditEffect
       DEF Left, OthersStay, RestStays, ClaimedAreMarked, JobsDiffer, JobsFollowPlaces, Edits,
           HasRow
  <1>11. ASSUME NEW w \in Workers, EditMade(w) PROVE JobsDiffer'
    BY <1>11, <1>t, EditMadeEffect
       DEF Moved, OthersStay, FacesStay, ClaimedAreMarked, JobsDiffer, JobsFollowPlaces, Edits,
           HasRow
  <1>12. ASSUME NEW w \in Workers, NEW unknown \in BOOLEAN, EditFails(w, unknown)
         PROVE  JobsDiffer'
    BY <1>12, <1>t, EditFailsEffect
       DEF Moved, OthersStay, FacesStay, ClaimedAreMarked, JobsDiffer, JobsFollowPlaces, Edits,
           HasRow
  <1>13. ASSUME NEW w \in Workers, MarkHeader(w) PROVE JobsDiffer'
    BY <1>13, <1>t, MarkHeaderEffect
       DEF Left, Unclaimed, OthersStay, RestStays, ClaimedAreMarked, JobsDiffer,
           JobsFollowPlaces, Edits, HasRow
  <1>14. ASSUME NEW w \in Workers, MarkActions(w) PROVE JobsDiffer'
    BY <1>14, <1>t, MarkActionsEffect
       DEF Left, Unclaimed, OthersStay, RestStays, ClaimedAreMarked, JobsDiffer,
           JobsFollowPlaces, Edits, HasRow
  <1>15. ASSUME NEW w \in Workers, ClaimOutput(w) PROVE JobsDiffer'
    BY <1>15, <1>t, ClaimOutputEffect
       DEF ClaimKeeps, Taken, RestStays, OthersStay, ClaimedAreMarked, JobsDiffer,
           JobsFollowPlaces, Edits, HasRow
  <1>16. ASSUME NEW w \in Workers, MessageSent(w) PROVE JobsDiffer'
    BY <1>16, <1>t, MessageSentEffect
       DEF Moved, OthersStay, FacesStay, ClaimedAreMarked, JobsDiffer, JobsFollowPlaces, Edits,
           HasRow
  <1>17. ASSUME NEW w \in Workers, NEW s \in {"pending", "failed", "uncertain"},
                MessageNotSent(w, s)
         PROVE  JobsDiffer'
    BY <1>17, <1>t, MessageNotSentEffect
       DEF Left, OthersStay, RestStays, ClaimedAreMarked, JobsDiffer, JobsFollowPlaces, Edits,
           HasRow
  <1>18. ASSUME NEW w \in Workers, MarkDelivered(w) PROVE JobsDiffer'
    BY <1>18, <1>t, MarkDeliveredEffect
       DEF Left, Unclaimed, OthersStay, RestStays, ClaimedAreMarked, JobsDiffer,
           JobsFollowPlaces, Edits, HasRow
  <1>19. ASSUME NEW w \in Workers, WorkerLeaves(w) PROVE JobsDiffer'
    BY <1>19, <1>t, WorkerLeavesEffect
       DEF Moved, OthersStay, ClaimedAreMarked, JobsDiffer, JobsFollowPlaces, Edits, HasRow
  <1>30. ASSUME Exit PROVE JobsDiffer'
    BY <1>30, <1>t, WorkTypes, DownEffect
       DEF Exit, Down, ClaimedAreMarked, JobsDiffer, JobsFollowPlaces, Edits, HasRow, rowVars,
           tokenVars, shownVars, pastVars
  <1>31. ASSUME Crash PROVE JobsDiffer'
    BY <1>31, <1>t, WorkTypes, DownEffect
       DEF Crash, Down, ClaimedAreMarked, JobsDiffer, JobsFollowPlaces, Edits, HasRow, rowVars,
           tokenVars, shownVars, pastVars
  <1>33. CASE UNCHANGED <<place, job>>
    BY <1>33, <1>t DEF JobsDiffer
  <1> QED
    BY <1>7, <1>8, <1>9, <1>10, <1>11, <1>12, <1>13, <1>14, <1>15, <1>16, <1>17, <1>18, <1>19,
       <1>30, <1>31, <1>33
       DEF Next, Worker, Handle, Decide, vars, rowVars, tokenVars, clickVars, workVars,
           shownVars, pastVars, boundVars, Append, SetHeader, Register, Rebind, Remove,
           LateEdit, Click, Reserve, Reject, Hold, MarkClick, Consume, ConsumeFails, Release,
           ReleaseFails, Stop, Reopen

\* A claim ends when its worker gives it back, or with the process.
LEMMA MarkedAreClaimedStep == IInv /\ [Next]_vars => MarkedAreClaimed'
  <1> SUFFICES ASSUME IInv, [Next]_vars PROVE MarkedAreClaimed'
    OBVIOUS
  <1>t. TypeOK /\ JobsFollowPlaces /\ ClaimedAreMarked /\ JobsDiffer /\ MarkedAreClaimed
    BY DEF IInv
  <1>3. ASSUME NEW r \in Replies, Register(r) PROVE MarkedAreClaimed'
    BY <1>3, <1>t, RegisterEffect
       DEF MarkedAreClaimed, JobsFollowPlaces, Running, Has, Edits, HasRow
  <1>7. ASSUME NEW w \in Workers, ClaimHeader(w) PROVE MarkedAreClaimed'
    BY <1>7, <1>t, ClaimHeaderEffect
       DEF ClaimKeeps, Taken, RestStays, OthersStay, MarkedAreClaimed, JobsFollowPlaces,
           Running, Has, Edits, HasRow
  <1>8. ASSUME NEW w \in Workers, ClaimActions(w) PROVE MarkedAreClaimed'
    BY <1>8, <1>t, ClaimActionsEffect
       DEF ClaimKeeps, Taken, RestStays, OthersStay, MarkedAreClaimed, JobsFollowPlaces,
           Running, Has, Edits, HasRow
  <1>9. ASSUME NEW w \in Workers, StartEdit(w) PROVE MarkedAreClaimed'
    BY <1>9, <1>t, StartEditEffect
       DEF Moved, OthersStay, MarkedAreClaimed, JobsFollowPlaces, Running, Has, Edits, HasRow
  <1>10. ASSUME NEW w \in Workers, ReleaseEdit(w) PROVE MarkedAreClaimed'
    BY <1>10, <1>t, ReleaseEditEffect
       DEF Left, OthersStay, RestStays, MarkedAreClaimed, JobsFollowPlaces, Running, Has, Edits,
           HasRow
  <1>11. ASSUME NEW w \in Workers, EditMade(w) PROVE MarkedAreClaimed'
    BY <1>11, <1>t, EditMadeEffect
       DEF Moved, OthersStay, FacesStay, MarkedAreClaimed, JobsFollowPlaces, Running, Has,
           Edits, HasRow
  <1>12. ASSUME NEW w \in Workers, NEW unknown \in BOOLEAN, EditFails(w, unknown)
         PROVE  MarkedAreClaimed'
    BY <1>12, <1>t, EditFailsEffect
       DEF Moved, OthersStay, FacesStay, MarkedAreClaimed, JobsFollowPlaces, Running, Has,
           Edits, HasRow
  <1>13. ASSUME NEW w \in Workers, MarkHeader(w) PROVE MarkedAreClaimed'
    BY <1>13, <1>t, MarkHeaderEffect
       DEF Left, Unclaimed, OthersStay, RestStays, MarkedAreClaimed, JobsFollowPlaces, Running,
           Has, Edits, HasRow
  <1>14. ASSUME NEW w \in Workers, MarkActions(w) PROVE MarkedAreClaimed'
    BY <1>14, <1>t, MarkActionsEffect
       DEF Left, Unclaimed, OthersStay, RestStays, MarkedAreClaimed, JobsFollowPlaces, Running,
           Has, Edits, HasRow
  <1>15. ASSUME NEW w \in Workers, ClaimOutput(w) PROVE MarkedAreClaimed'
    BY <1>15, <1>t, ClaimOutputEffect
       DEF ClaimKeeps, Taken, RestStays, OthersStay, MarkedAreClaimed, JobsFollowPlaces,
           Running, Has, Edits, HasRow
  <1>16. ASSUME NEW w \in Workers, MessageSent(w) PROVE MarkedAreClaimed'
    BY <1>16, <1>t, MessageSentEffect
       DEF Moved, OthersStay, FacesStay, MarkedAreClaimed, JobsFollowPlaces, Running, Has,
           Edits, HasRow
  <1>17. ASSUME NEW w \in Workers, NEW s \in {"pending", "failed", "uncertain"},
                MessageNotSent(w, s)
         PROVE  MarkedAreClaimed'
    BY <1>17, <1>t, MessageNotSentEffect
       DEF Left, OthersStay, RestStays, MarkedAreClaimed, JobsFollowPlaces, Running, Has, Edits,
           HasRow
  <1>18. ASSUME NEW w \in Workers, MarkDelivered(w) PROVE MarkedAreClaimed'
    BY <1>18, <1>t, MarkDeliveredEffect
       DEF Left, Unclaimed, OthersStay, RestStays, MarkedAreClaimed, JobsFollowPlaces, Running,
           Has, Edits, HasRow
  <1>19. ASSUME NEW w \in Workers, WorkerLeaves(w) PROVE MarkedAreClaimed'
    BY <1>19, <1>t, WorkerLeavesEffect
       DEF Moved, OthersStay, MarkedAreClaimed, JobsFollowPlaces, Running, Has, Edits, HasRow
  <1>25. ASSUME NEW c \in Clicks, Consume(c) PROVE MarkedAreClaimed'
    BY <1>25, <1>t, ConsumeEffect
       DEF SpentRows, MarkedAreClaimed, JobsFollowPlaces, Running, Has, Edits, HasRow
  <1>26. ASSUME NEW c \in Clicks, ConsumeFails(c) PROVE MarkedAreClaimed'
    BY <1>26, <1>t, ConsumeFailsEffect
       DEF SpentRows, MarkedAreClaimed, JobsFollowPlaces, Running, Has, Edits, HasRow
  <1>29. ASSUME Stop PROVE MarkedAreClaimed'
    BY <1>29, <1>t, WorkTypes
       DEF Stop, MarkedAreClaimed, JobsFollowPlaces, Running, Has, Edits, HasRow, rowVars,
           tokenVars, clickVars, workVars, shownVars, pastVars
  <1>30. ASSUME Exit PROVE MarkedAreClaimed'
    BY <1>30, <1>t, WorkTypes, DownEffect
       DEF Exit, Down, MarkedAreClaimed, JobsFollowPlaces, Running, Has, Edits, HasRow, rowVars,
           tokenVars, shownVars, pastVars
  <1>31. ASSUME Crash PROVE MarkedAreClaimed'
    BY <1>31, <1>t, WorkTypes, DownEffect
       DEF Crash, Down, MarkedAreClaimed, JobsFollowPlaces, Running, Has, Edits, HasRow,
           rowVars, tokenVars, shownVars, pastVars
  <1>32. ASSUME Reopen PROVE MarkedAreClaimed'
    BY <1>32, <1>t, ReopenEffect
       DEF MarkedAreClaimed, JobsFollowPlaces, Running, Has, Edits, HasRow
  <1>33. CASE UNCHANGED <<actionsPending, place, job, mode>>
    BY <1>33, <1>t DEF MarkedAreClaimed, Running, Has
  <1> QED
    BY <1>3, <1>7, <1>8, <1>9, <1>10, <1>11, <1>12, <1>13, <1>14, <1>15, <1>16, <1>17, <1>18,
       <1>19, <1>25, <1>26, <1>29, <1>30, <1>31, <1>32, <1>33
       DEF Next, Worker, Handle, Decide, vars, rowVars, tokenVars, clickVars, workVars,
           shownVars, pastVars, boundVars, Append, SetHeader, Rebind, Remove, LateEdit, Click,
           Reserve, Reject, Hold, MarkClick, Release, ReleaseFails

\* Buttons are registered for a row that is there and go with it.
LEMMA TokensHaveRowsStep == IInv /\ [Next]_vars => TokensHaveRows'
  <1> SUFFICES ASSUME IInv, [Next]_vars PROVE TokensHaveRows'
    OBVIOUS
  <1>t. TypeOK /\ TokensHaveRows
    BY DEF IInv
  <1>3. ASSUME NEW r \in Replies, Register(r) PROVE TokensHaveRows'
    BY <1>3, <1>t, RegisterTokens, TokenFacts, TokenTypes
       DEF TokensHaveRows, ClicksStay, PastStays
  <1>5. ASSUME NEW r \in Replies, Remove(r) PROVE TokensHaveRows'
    BY <1>5, <1>t, RemoveTokens, TokenFacts, TokenTypes
       DEF TokensHaveRows, ClicksStay, PastStays
  <1>33. ASSUME RowsStay, UNCHANGED registered
        PROVE  TokensHaveRows'
    BY <1>33, <1>t, TokenFacts, TokenTypes DEF TokensHaveRows, RowsStay
  <1>r. RowsStay \/ \E r \in Replies : Remove(r)
    BY RowsStayStep
  <1> QED
    BY <1>3, <1>5, <1>33, <1>r
       DEF Next, Worker, Handle, Decide, vars, rowVars, tokenVars, clickVars, workVars,
           shownVars, pastVars, boundVars, Append, SetHeader, Rebind, LateEdit, ClaimHeader,
           ClaimActions, StartEdit, ReleaseEdit, EditMade, EditFails, MarkHeader, MarkActions,
           ClaimOutput, MessageSent, MessageNotSent, MarkDelivered, WorkerLeaves, Click,
           Reserve, Reject, Hold, MarkClick, Consume, ConsumeFails, Release, ReleaseFails, Stop,
           Exit, Crash, Reopen, Down

\* What is registered, used and removed is what the keyboard shows.
LEMMA KeyboardIsUnusedStep == IInv /\ [Next]_vars => KeyboardIsUnused'
  <1> SUFFICES ASSUME IInv, [Next]_vars PROVE KeyboardIsUnused'
    OBVIOUS
  <1>t. TypeOK /\ KeyboardIsUnused
    BY DEF IInv
  <1>3. ASSUME NEW r \in Replies, Register(r) PROVE KeyboardIsUnused'
    BY <1>3, <1>t, RegisterEffect, RegisterTokens, TokenFacts, TokenTypes DEF KeyboardIsUnused
  <1>5. ASSUME NEW r \in Replies, Remove(r) PROVE KeyboardIsUnused'
    BY <1>5, <1>t, RemoveEffect, RemoveTokens, TokenFacts, TokenTypes DEF KeyboardIsUnused
  <1>25. ASSUME NEW c \in Clicks, Consume(c) PROVE KeyboardIsUnused'
    BY <1>25, <1>t, ConsumeEffect DEF SpentRows, KeyboardIsUnused
  <1>26. ASSUME NEW c \in Clicks, ConsumeFails(c) PROVE KeyboardIsUnused'
    BY <1>26, <1>t, ConsumeFailsEffect DEF SpentRows, KeyboardIsUnused
  <1>32. ASSUME Reopen PROVE KeyboardIsUnused'
    BY <1>32, <1>t, ReopenEffect DEF KeyboardIsUnused
  <1>33. CASE UNCHANGED <<registered, consumed, actions>>
    BY <1>33, <1>t DEF KeyboardIsUnused
  <1> QED
    BY <1>3, <1>5, <1>25, <1>26, <1>32, <1>33
       DEF Next, Worker, Handle, Decide, vars, rowVars, tokenVars, clickVars, workVars,
           shownVars, pastVars, boundVars, Append, SetHeader, Rebind, LateEdit, ClaimHeader,
           ClaimActions, StartEdit, ReleaseEdit, EditMade, EditFails, MarkHeader, MarkActions,
           ClaimOutput, MessageSent, MessageNotSent, MarkDelivered, WorkerLeaves, Click,
           Reserve, Reject, Hold, MarkClick, Release, ReleaseFails, Stop, Exit, Crash, Down

\* A command is accepted with an unused button, and a restart uses up what is reserved.
LEMMA AcceptedIsConsumedStep == IInv /\ [Next]_vars => AcceptedIsConsumed'
  <1> SUFFICES ASSUME IInv, [Next]_vars PROVE AcceptedIsConsumed'
    OBVIOUS
  <1>t. TypeOK /\ AcceptedIsConsumed /\ TokensHaveRows
    BY DEF IInv
  <1>5. ASSUME NEW r \in Replies, Remove(r) PROVE AcceptedIsConsumed'
    BY <1>5, <1>t, RemoveTokens, TokenFacts, TokenTypes
       DEF AcceptedIsConsumed, TokensHaveRows, Reserved, ClicksStay, PastStays
  <1>25. ASSUME NEW c \in Clicks, Consume(c) PROVE AcceptedIsConsumed'
    BY <1>25, <1>t, ConsumeTokens, TokenFacts, TokenTypes
       DEF AcceptedIsConsumed, TokensHaveRows, Reserved, ClicksStay, PastStays
  <1>26. ASSUME NEW c \in Clicks, ConsumeFails(c) PROVE AcceptedIsConsumed'
    BY <1>26, <1>t, ConsumeFailsTokens, TokenFacts, TokenTypes
       DEF AcceptedIsConsumed, TokensHaveRows, Reserved, ClicksStay, PastStays
  <1>32. ASSUME Reopen PROVE AcceptedIsConsumed'
    BY <1>32, <1>t, ReopenTokens, TokenFacts, TokenTypes
       DEF AcceptedIsConsumed, TokensHaveRows, Reserved, ClicksStay, PastStays
  <1>33. ASSUME RowsStay, UNCHANGED <<consumed, runs, lost>>
        PROVE  AcceptedIsConsumed'
    BY <1>33, <1>t, TokenFacts, TokenTypes DEF AcceptedIsConsumed, RowsStay
  <1>r. RowsStay \/ \E r \in Replies : Remove(r)
    BY RowsStayStep
  <1> QED
    BY <1>5, <1>25, <1>26, <1>32, <1>33, <1>r
       DEF Next, Worker, Handle, Decide, vars, rowVars, tokenVars, clickVars, workVars,
           shownVars, pastVars, boundVars, Append, SetHeader, Register, Rebind, LateEdit,
           ClaimHeader, ClaimActions, StartEdit, ReleaseEdit, EditMade, EditFails, MarkHeader,
           MarkActions, ClaimOutput, MessageSent, MessageNotSent, MarkDelivered, WorkerLeaves,
           Click, Reserve, Reject, Hold, MarkClick, Release, ReleaseFails, Stop, Exit, Crash,
           Down

\* A button leaves the click it is reserved for only through that click.
LEMMA HeldIsReservedStep == IInv /\ [Next]_vars => HeldIsReserved'
  <1> SUFFICES ASSUME IInv, [Next]_vars PROVE HeldIsReserved'
    OBVIOUS
  <1>t. TypeOK /\ HeldIsReserved /\ GrantedIsKept
    BY DEF IInv
  <1>3. ASSUME NEW r \in Replies, Register(r) PROVE HeldIsReserved'
    BY <1>3, <1>t, RegisterTokens, TokenFacts, TokenTypes
       DEF HeldIsReserved, GrantedIsKept, Reserved, ClicksStay, PastStays
  <1>5. ASSUME NEW r \in Replies, Remove(r) PROVE HeldIsReserved'
    BY <1>5, <1>t, RemoveTokens, TokenFacts, TokenTypes
       DEF HeldIsReserved, GrantedIsKept, Reserved, ClicksStay, PastStays
  <1>20. ASSUME NEW c \in Clicks, NEW k \in Tokens, Click(c, k) PROVE HeldIsReserved'
    BY <1>20, <1>t, ClickTokens, TokenFacts, TokenTypes
       DEF HeldIsReserved, GrantedIsKept, Reserved, ClicksStay, PastStays
  <1>21. ASSUME NEW c \in Clicks, Reserve(c) PROVE HeldIsReserved'
    BY <1>21, <1>t, ReserveTokens, TokenFacts, TokenTypes
       DEF HeldIsReserved, GrantedIsKept, Reserved, ClicksStay, PastStays
  <1>23. ASSUME NEW c \in Clicks, Hold(c) PROVE HeldIsReserved'
    BY <1>23, <1>t, HoldTokens, TokenFacts, TokenTypes
       DEF HeldIsReserved, GrantedIsKept, Reserved, ClicksStay, PastStays
  <1>25. ASSUME NEW c \in Clicks, Consume(c) PROVE HeldIsReserved'
    BY <1>25, <1>t, ConsumeTokens, TokenFacts, TokenTypes
       DEF HeldIsReserved, GrantedIsKept, Reserved, ClicksStay, PastStays
  <1>26. ASSUME NEW c \in Clicks, ConsumeFails(c) PROVE HeldIsReserved'
    BY <1>26, <1>t, ConsumeFailsTokens, TokenFacts, TokenTypes
       DEF HeldIsReserved, GrantedIsKept, Reserved, ClicksStay, PastStays
  <1>27. ASSUME NEW c \in Clicks, Release(c) PROVE HeldIsReserved'
    BY <1>27, <1>t, ReleaseTokens, TokenFacts, TokenTypes
       DEF HeldIsReserved, GrantedIsKept, Reserved, ClicksStay, PastStays
  <1>28. ASSUME NEW c \in Clicks, ReleaseFails(c) PROVE HeldIsReserved'
    BY <1>28, <1>t, ReleaseFailsTokens, TokenFacts, TokenTypes
       DEF HeldIsReserved, GrantedIsKept, Reserved, ClicksStay, PastStays
  <1>30. ASSUME Exit PROVE HeldIsReserved'
    BY <1>30, <1>t, DownEffect
       DEF Exit, Down, HeldIsReserved, GrantedIsKept, Reserved, rowVars, tokenVars, shownVars,
           pastVars
  <1>31. ASSUME Crash PROVE HeldIsReserved'
    BY <1>31, <1>t, DownEffect
       DEF Crash, Down, HeldIsReserved, GrantedIsKept, Reserved, rowVars, tokenVars, shownVars,
           pastVars
  <1>32. ASSUME Reopen PROVE HeldIsReserved'
    BY <1>32, <1>t, ReopenTokens, TokenFacts, TokenTypes
       DEF HeldIsReserved, GrantedIsKept, Reserved, ClicksStay, PastStays
  <1>33. ASSUME RowsStay, UNCHANGED <<registered, consumed, by, wants, receipt>>
        PROVE  HeldIsReserved'
    BY <1>33, <1>t, TokenFacts, TokenTypes DEF HeldIsReserved, Reserved, RowsStay
  <1>r. RowsStay \/ \E r \in Replies : Remove(r)
    BY RowsStayStep
  <1> QED
    BY <1>3, <1>5, <1>20, <1>21, <1>23, <1>25, <1>26, <1>27, <1>28, <1>30, <1>31, <1>32, <1>33,
       <1>r
       DEF Next, Worker, Handle, Decide, vars, rowVars, tokenVars, clickVars, workVars,
           shownVars, pastVars, boundVars, Append, SetHeader, Rebind, LateEdit, ClaimHeader,
           ClaimActions, StartEdit, ReleaseEdit, EditMade, EditFails, MarkHeader, MarkActions,
           ClaimOutput, MessageSent, MessageNotSent, MarkDelivered, WorkerLeaves, Reject,
           MarkClick, Stop

\* A click is given a button once.
LEMMA GrantedIsKeptStep == IInv /\ [Next]_vars => GrantedIsKept'
  <1> SUFFICES ASSUME IInv, [Next]_vars PROVE GrantedIsKept'
    OBVIOUS
  <1>t. TypeOK /\ HeldIsReserved /\ GrantedIsKept
    BY DEF IInv
  <1>3. ASSUME NEW r \in Replies, Register(r) PROVE GrantedIsKept'
    BY <1>3, <1>t, RegisterTokens, TokenFacts, TokenTypes
       DEF GrantedIsKept, HeldIsReserved, Reserved, UsedBy, ClicksStay, PastStays
  <1>5. ASSUME NEW r \in Replies, Remove(r) PROVE GrantedIsKept'
    BY <1>5, <1>t, RemoveTokens, TokenFacts, TokenTypes
       DEF GrantedIsKept, HeldIsReserved, Reserved, UsedBy, ClicksStay, PastStays
  <1>20. ASSUME NEW c \in Clicks, NEW k \in Tokens, Click(c, k) PROVE GrantedIsKept'
    BY <1>20, <1>t, ClickTokens, TokenFacts, TokenTypes
       DEF GrantedIsKept, HeldIsReserved, Reserved, UsedBy, ClicksStay, PastStays
  <1>21. ASSUME NEW c \in Clicks, Reserve(c) PROVE GrantedIsKept'
    BY <1>21, <1>t, ReserveTokens, TokenFacts, TokenTypes
       DEF GrantedIsKept, HeldIsReserved, Reserved, UsedBy, ClicksStay, PastStays
  <1>22. ASSUME NEW c \in Clicks, Reject(c) PROVE GrantedIsKept'
    BY <1>22, <1>t, RejectTokens, TokenFacts, TokenTypes
       DEF GrantedIsKept, HeldIsReserved, Reserved, UsedBy, ClicksStay, PastStays
  <1>23. ASSUME NEW c \in Clicks, Hold(c) PROVE GrantedIsKept'
    BY <1>23, <1>t, HoldTokens, TokenFacts, TokenTypes
       DEF GrantedIsKept, HeldIsReserved, Reserved, UsedBy, ClicksStay, PastStays
  <1>24. ASSUME NEW c \in Clicks, MarkClick(c) PROVE GrantedIsKept'
    BY <1>24, <1>t, MarkClickTokens, TokenFacts, TokenTypes
       DEF GrantedIsKept, HeldIsReserved, Reserved, UsedBy, ClicksStay, PastStays
  <1>25. ASSUME NEW c \in Clicks, Consume(c) PROVE GrantedIsKept'
    BY <1>25, <1>t, ConsumeTokens, TokenFacts, TokenTypes
       DEF GrantedIsKept, HeldIsReserved, Reserved, UsedBy, ClicksStay, PastStays
  <1>26. ASSUME NEW c \in Clicks, ConsumeFails(c) PROVE GrantedIsKept'
    BY <1>26, <1>t, ConsumeFailsTokens, TokenFacts, TokenTypes
       DEF GrantedIsKept, HeldIsReserved, Reserved, UsedBy, ClicksStay, PastStays
  <1>27. ASSUME NEW c \in Clicks, Release(c) PROVE GrantedIsKept'
    BY <1>27, <1>t, ReleaseTokens, TokenFacts, TokenTypes
       DEF GrantedIsKept, HeldIsReserved, Reserved, UsedBy, ClicksStay, PastStays
  <1>28. ASSUME NEW c \in Clicks, ReleaseFails(c) PROVE GrantedIsKept'
    BY <1>28, <1>t, ReleaseFailsTokens, TokenFacts, TokenTypes
       DEF GrantedIsKept, HeldIsReserved, Reserved, UsedBy, ClicksStay, PastStays
  <1>29. ASSUME Stop PROVE GrantedIsKept'
    BY <1>29, <1>t
       DEF Stop, GrantedIsKept, HeldIsReserved, Reserved, UsedBy, rowVars, tokenVars, clickVars,
           workVars, shownVars, pastVars
  <1>30. ASSUME Exit PROVE GrantedIsKept'
    BY <1>30, <1>t, DownEffect
       DEF Exit, Down, GrantedIsKept, HeldIsReserved, Reserved, UsedBy, rowVars, tokenVars,
           shownVars, pastVars
  <1>31. ASSUME Crash PROVE GrantedIsKept'
    BY <1>31, <1>t, DownEffect
       DEF Crash, Down, GrantedIsKept, HeldIsReserved, Reserved, UsedBy, rowVars, tokenVars,
           shownVars, pastVars
  <1>32. ASSUME Reopen PROVE GrantedIsKept'
    BY <1>32, <1>t, ReopenTokens, TokenFacts, TokenTypes
       DEF GrantedIsKept, HeldIsReserved, Reserved, UsedBy, ClicksStay, PastStays
  <1>33. ASSUME RowsStay, UNCHANGED <<registered, by, click, wants, receipt, grants, mode>>
        PROVE  GrantedIsKept'
    BY <1>33, <1>t, TokenFacts, TokenTypes DEF GrantedIsKept, RowsStay
  <1>r. RowsStay \/ \E r \in Replies : Remove(r)
    BY RowsStayStep
  <1> QED
    BY <1>3, <1>5, <1>20, <1>21, <1>22, <1>23, <1>24, <1>25, <1>26, <1>27, <1>28, <1>29, <1>30,
       <1>31, <1>32, <1>33, <1>r
       DEF Next, Worker, Handle, Decide, vars, rowVars, tokenVars, clickVars, workVars,
           shownVars, pastVars, boundVars, Append, SetHeader, Rebind, LateEdit, ClaimHeader,
           ClaimActions, StartEdit, ReleaseEdit, EditMade, EditFails, MarkHeader, MarkActions,
           ClaimOutput, MessageSent, MessageNotSent, MarkDelivered, WorkerLeaves

\* Between its request and its mark a worker knows what the message shows.
LEMMA JobIsShownStep == IInv /\ [Next]_vars => JobIsShown'
  <1> SUFFICES ASSUME IInv, [Next]_vars PROVE JobIsShown'
    OBVIOUS
  <1>t. TypeOK /\ JobsFollowPlaces /\ ClaimedAreMarked /\ JobsDiffer /\ JobIsShown /\ FaceIsCurrent
    BY DEF IInv
  <1>2. ASSUME NEW r \in Replies, NEW h \in Headers \cup {NoHeader}, SetHeader(r, h)
        PROVE  JobIsShown'
    BY <1>2, <1>t, WorkTypes
       DEF SetHeader, JobIsShown, FaceIsCurrent, JobsFollowPlaces, JobsDiffer, ClaimedAreMarked,
           Edits, HasRow, tokenVars, clickVars, workVars, shownVars, pastVars
  <1>6. ASSUME NEW r \in Replies, NEW f \in late[r], LateEdit(r, f) PROVE JobIsShown'
    BY <1>6, <1>t, LateEditEffect
       DEF JobIsShown, FaceIsCurrent, JobsFollowPlaces, JobsDiffer, ClaimedAreMarked, Edits,
           HasRow
  <1>7. ASSUME NEW w \in Workers, ClaimHeader(w) PROVE JobIsShown'
    BY <1>7, <1>t, ClaimHeaderEffect
       DEF ClaimKeeps, Taken, RestStays, OthersStay, JobIsShown, FaceIsCurrent,
           JobsFollowPlaces, JobsDiffer, ClaimedAreMarked, Edits, HasRow
  <1>8. ASSUME NEW w \in Workers, ClaimActions(w) PROVE JobIsShown'
    BY <1>8, <1>t, ClaimActionsEffect
       DEF ClaimKeeps, Taken, RestStays, OthersStay, JobIsShown, FaceIsCurrent,
           JobsFollowPlaces, JobsDiffer, ClaimedAreMarked, Edits, HasRow
  <1>9. ASSUME NEW w \in Workers, StartEdit(w) PROVE JobIsShown'
    BY <1>9, <1>t, StartEditEffect
       DEF Moved, OthersStay, JobIsShown, FaceIsCurrent, JobsFollowPlaces, JobsDiffer,
           ClaimedAreMarked, Edits, HasRow
  <1>10. ASSUME NEW w \in Workers, ReleaseEdit(w) PROVE JobIsShown'
    BY <1>10, <1>t, ReleaseEditEffect
       DEF Left, OthersStay, RestStays, JobIsShown, FaceIsCurrent, JobsFollowPlaces, JobsDiffer,
           ClaimedAreMarked, Edits, HasRow
  <1>11. ASSUME NEW w \in Workers, EditMade(w) PROVE JobIsShown'
    BY <1>11, <1>t, EditMadeEffect
       DEF Moved, OthersStay, FacesStay, JobIsShown, FaceIsCurrent, JobsFollowPlaces,
           JobsDiffer, ClaimedAreMarked, Edits, HasRow
  <1>12. ASSUME NEW w \in Workers, NEW unknown \in BOOLEAN, EditFails(w, unknown)
         PROVE  JobIsShown'
    BY <1>12, <1>t, EditFailsEffect
       DEF Moved, OthersStay, FacesStay, JobIsShown, FaceIsCurrent, JobsFollowPlaces,
           JobsDiffer, ClaimedAreMarked, Edits, HasRow
  <1>13. ASSUME NEW w \in Workers, MarkHeader(w) PROVE JobIsShown'
    BY <1>13, <1>t, MarkHeaderEffect
       DEF Left, Unclaimed, OthersStay, RestStays, JobIsShown, FaceIsCurrent, JobsFollowPlaces,
           JobsDiffer, ClaimedAreMarked, Edits, HasRow
  <1>14. ASSUME NEW w \in Workers, MarkActions(w) PROVE JobIsShown'
    BY <1>14, <1>t, MarkActionsEffect
       DEF Left, Unclaimed, OthersStay, RestStays, JobIsShown, FaceIsCurrent, JobsFollowPlaces,
           JobsDiffer, ClaimedAreMarked, Edits, HasRow
  <1>15. ASSUME NEW w \in Workers, ClaimOutput(w) PROVE JobIsShown'
    BY <1>15, <1>t, ClaimOutputEffect
       DEF ClaimKeeps, Taken, RestStays, OthersStay, JobIsShown, FaceIsCurrent,
           JobsFollowPlaces, JobsDiffer, ClaimedAreMarked, Edits, HasRow
  <1>16. ASSUME NEW w \in Workers, MessageSent(w) PROVE JobIsShown'
    BY <1>16, <1>t, MessageSentEffect
       DEF Moved, OthersStay, FacesStay, JobIsShown, FaceIsCurrent, JobsFollowPlaces,
           JobsDiffer, ClaimedAreMarked, Edits, HasRow
  <1>17. ASSUME NEW w \in Workers, NEW s \in {"pending", "failed", "uncertain"},
                MessageNotSent(w, s)
         PROVE  JobIsShown'
    BY <1>17, <1>t, MessageNotSentEffect
       DEF Left, OthersStay, RestStays, JobIsShown, FaceIsCurrent, JobsFollowPlaces, JobsDiffer,
           ClaimedAreMarked, Edits, HasRow
  <1>18. ASSUME NEW w \in Workers, MarkDelivered(w) PROVE JobIsShown'
    BY <1>18, <1>t, MarkDeliveredEffect
       DEF Left, Unclaimed, OthersStay, RestStays, JobIsShown, FaceIsCurrent, JobsFollowPlaces,
           JobsDiffer, ClaimedAreMarked, Edits, HasRow
  <1>19. ASSUME NEW w \in Workers, WorkerLeaves(w) PROVE JobIsShown'
    BY <1>19, <1>t, WorkerLeavesEffect
       DEF Moved, OthersStay, JobIsShown, FaceIsCurrent, JobsFollowPlaces, JobsDiffer,
           ClaimedAreMarked, Edits, HasRow
  <1>30. ASSUME Exit PROVE JobIsShown'
    BY <1>30, <1>t, WorkTypes, DownEffect
       DEF Exit, Down, JobIsShown, FaceIsCurrent, JobsFollowPlaces, JobsDiffer,
           ClaimedAreMarked, Edits, HasRow, rowVars, tokenVars, shownVars, pastVars
  <1>31. ASSUME Crash PROVE JobIsShown'
    BY <1>31, <1>t, WorkTypes, DownEffect
       DEF Crash, Down, JobIsShown, FaceIsCurrent, JobsFollowPlaces, JobsDiffer,
           ClaimedAreMarked, Edits, HasRow, rowVars, tokenVars, shownVars, pastVars
  <1>32. ASSUME Reopen PROVE JobIsShown'
    BY <1>32, <1>t, ReopenEffect
       DEF JobIsShown, FaceIsCurrent, JobsFollowPlaces, JobsDiffer, ClaimedAreMarked, Edits,
           HasRow
  <1>33. CASE UNCHANGED <<headerPending, shown, doubt, place, job>>
    BY <1>33, <1>t DEF JobIsShown
  <1> QED
    BY <1>2, <1>6, <1>7, <1>8, <1>9, <1>10, <1>11, <1>12, <1>13, <1>14, <1>15, <1>16, <1>17,
       <1>18, <1>19, <1>30, <1>31, <1>32, <1>33
       DEF Next, Worker, Handle, Decide, vars, rowVars, tokenVars, clickVars, workVars,
           shownVars, pastVars, boundVars, Append, Register, Rebind, Remove, Click, Reserve,
           Reject, Hold, MarkClick, Consume, ConsumeFails, Release, ReleaseFails, Stop

\* A header or keyboard that is not shown is still to be edited, or in doubt.
LEMMA FaceIsCurrentStep == IInv /\ [Next]_vars => FaceIsCurrent'
  <1> SUFFICES ASSUME IInv, [Next]_vars PROVE FaceIsCurrent'
    OBVIOUS
  <1>t. TypeOK /\ JobsFollowPlaces /\ ClaimedAreMarked /\ JobIsShown /\ FaceIsCurrent
    BY DEF IInv
  <1>1. ASSUME NEW r \in Replies, NEW h \in Headers \cup {NoHeader}, Append(r, h)
        PROVE  FaceIsCurrent'
    BY <1>1, <1>t, WorkTypes
       DEF Append, JobIsShown, FaceIsCurrent, JobsFollowPlaces, ClaimedAreMarked, Edits, HasRow,
           tokenVars, clickVars, workVars, shownVars, pastVars, boundVars
  <1>2. ASSUME NEW r \in Replies, NEW h \in Headers \cup {NoHeader}, SetHeader(r, h)
        PROVE  FaceIsCurrent'
    BY <1>2, <1>t, WorkTypes
       DEF SetHeader, JobIsShown, FaceIsCurrent, JobsFollowPlaces, ClaimedAreMarked, Edits,
           HasRow, tokenVars, clickVars, workVars, shownVars, pastVars
  <1>3. ASSUME NEW r \in Replies, Register(r) PROVE FaceIsCurrent'
    BY <1>3, <1>t, RegisterEffect
       DEF JobIsShown, FaceIsCurrent, JobsFollowPlaces, ClaimedAreMarked, Edits, HasRow
  <1>5. ASSUME NEW r \in Replies, Remove(r) PROVE FaceIsCurrent'
    BY <1>5, <1>t, RemoveEffect
       DEF JobIsShown, FaceIsCurrent, JobsFollowPlaces, ClaimedAreMarked, Edits, HasRow
  <1>6. ASSUME NEW r \in Replies, NEW f \in late[r], LateEdit(r, f) PROVE FaceIsCurrent'
    BY <1>6, <1>t, LateEditEffect
       DEF JobIsShown, FaceIsCurrent, JobsFollowPlaces, ClaimedAreMarked, Edits, HasRow
  <1>7. ASSUME NEW w \in Workers, ClaimHeader(w) PROVE FaceIsCurrent'
    BY <1>7, <1>t, ClaimHeaderEffect
       DEF ClaimKeeps, Taken, RestStays, OthersStay, JobIsShown, FaceIsCurrent,
           JobsFollowPlaces, ClaimedAreMarked, Edits, HasRow
  <1>8. ASSUME NEW w \in Workers, ClaimActions(w) PROVE FaceIsCurrent'
    BY <1>8, <1>t, ClaimActionsEffect
       DEF ClaimKeeps, Taken, RestStays, OthersStay, JobIsShown, FaceIsCurrent,
           JobsFollowPlaces, ClaimedAreMarked, Edits, HasRow
  <1>10. ASSUME NEW w \in Workers, ReleaseEdit(w) PROVE FaceIsCurrent'
    BY <1>10, <1>t, ReleaseEditEffect
       DEF Left, OthersStay, RestStays, JobIsShown, FaceIsCurrent, JobsFollowPlaces,
           ClaimedAreMarked, Edits, HasRow
  <1>11. ASSUME NEW w \in Workers, EditMade(w) PROVE FaceIsCurrent'
    BY <1>11, <1>t, EditMadeEffect
       DEF Moved, OthersStay, FacesStay, JobIsShown, FaceIsCurrent, JobsFollowPlaces,
           ClaimedAreMarked, Edits, HasRow
  <1>12. ASSUME NEW w \in Workers, NEW unknown \in BOOLEAN, EditFails(w, unknown)
         PROVE  FaceIsCurrent'
    BY <1>12, <1>t, EditFailsEffect
       DEF Moved, OthersStay, FacesStay, JobIsShown, FaceIsCurrent, JobsFollowPlaces,
           ClaimedAreMarked, Edits, HasRow
  <1>13. ASSUME NEW w \in Workers, MarkHeader(w) PROVE FaceIsCurrent'
    <2> DEFINE r == job[w].reply
    <2>1. r \notin doubt' /\ ~headerPending'[r] => shown'[r].header = header'[r]
      <3>1. place[w] = "headerEdited" /\ UNCHANGED <<header, shown, doubt>>
        BY <1>13, MarkHeaderEffect DEF Left
      <3>2. r \notin doubt => headerPending[r] /\ shown[r].header = job[w].header
        BY <1>t, <3>1 DEF JobIsShown
      <3>3. \/ headerPending'[r] = headerPending[r]
            \/ headerPending'[r] = (headerPending[r] /\ header[r] # job[w].header)
        BY <1>13, MarkHeaderEffect
      <3>4. r \notin doubt /\ ~headerPending'[r] => header[r] = job[w].header
        BY <3>2, <3>3
      <3> QED
        BY <3>1, <3>2, <3>4
    <2>2. r \in Replies /\ r \notin doubt' => shown'[r].actions = job[w].actions
      BY <1>13, <1>t, MarkHeaderEffect DEF Left, JobIsShown
    <2>3. actionsPending'[r] = 0 => actions'[r] = job[w].actions
      BY <1>13, MarkHeaderEffect DEF Left, Unclaimed
    <2>4. /\ \A q \in Replies \ {r} :
                state'[q] = state[q] /\ headerPending'[q] = headerPending[q]
                /\ actionsPending'[q] = actionsPending[q]
          /\ UNCHANGED <<header, actions, shown, late, doubt>>
      BY <1>13, MarkHeaderEffect DEF Left, RestStays
    <2>5. ASSUME NEW q \in Replies
          PROVE  /\ late'[q] # {} => q \in doubt'
                 /\ state'[q] = "done" /\ q \notin doubt' /\ ~headerPending'[q] =>
                       shown'[q].header = header'[q]
                 /\ state'[q] = "done" /\ q \notin doubt' /\ actionsPending'[q] = 0 =>
                       shown'[q].actions = actions'[q]
      <3>1. CASE q = r
        BY <1>t, <2>1, <2>2, <2>3, <2>4, <3>1 DEF FaceIsCurrent
      <3>2. CASE q # r
        BY <1>t, <2>4, <3>2 DEF FaceIsCurrent
      <3> QED
        BY <3>1, <3>2
    <2> QED
      BY <2>5 DEF FaceIsCurrent
  <1>14. ASSUME NEW w \in Workers, MarkActions(w) PROVE FaceIsCurrent'
    BY <1>14, <1>t, MarkActionsEffect
       DEF Left, Unclaimed, OthersStay, RestStays, JobIsShown, FaceIsCurrent, JobsFollowPlaces,
           ClaimedAreMarked, Edits, HasRow
  <1>15. ASSUME NEW w \in Workers, ClaimOutput(w) PROVE FaceIsCurrent'
    BY <1>15, <1>t, ClaimOutputEffect
       DEF ClaimKeeps, Taken, RestStays, OthersStay, JobIsShown, FaceIsCurrent,
           JobsFollowPlaces, ClaimedAreMarked, Edits, HasRow
  <1>16. ASSUME NEW w \in Workers, MessageSent(w) PROVE FaceIsCurrent'
    BY <1>16, <1>t, MessageSentEffect
       DEF Moved, OthersStay, FacesStay, JobIsShown, FaceIsCurrent, JobsFollowPlaces,
           ClaimedAreMarked, Edits, HasRow
  <1>17. ASSUME NEW w \in Workers, NEW s \in {"pending", "failed", "uncertain"},
                MessageNotSent(w, s)
         PROVE  FaceIsCurrent'
    BY <1>17, <1>t, MessageNotSentEffect
       DEF Left, OthersStay, RestStays, JobIsShown, FaceIsCurrent, JobsFollowPlaces,
           ClaimedAreMarked, Edits, HasRow
  <1>18. ASSUME NEW w \in Workers, MarkDelivered(w) PROVE FaceIsCurrent'
    <2> DEFINE r == job[w].reply
    <2>1. r \notin doubt' /\ ~headerPending'[r] => shown'[r].header = header'[r]
      <3>1. place[w] = "sent" /\ UNCHANGED <<header, shown, doubt>>
        BY <1>18, MarkDeliveredEffect DEF Left
      <3>2. r \notin doubt => shown[r].header = job[w].header
        BY <1>t, <3>1 DEF JobIsShown
      <3>3. headerPending'[r] = (header[r] # job[w].header)
        BY <1>18, MarkDeliveredEffect
      <3>4. ~headerPending'[r] => header[r] = job[w].header
        BY <3>3
      <3> QED
        BY <3>1, <3>2, <3>4
    <2>2. r \in Replies /\ r \notin doubt' => shown'[r].actions = job[w].actions
      BY <1>18, <1>t, MarkDeliveredEffect DEF Left, JobIsShown
    <2>3. actionsPending'[r] = 0 => actions'[r] = job[w].actions
      BY <1>18, MarkDeliveredEffect DEF Left, Unclaimed
    <2>4. /\ \A q \in Replies \ {r} :
                state'[q] = state[q] /\ headerPending'[q] = headerPending[q]
                /\ actionsPending'[q] = actionsPending[q]
          /\ UNCHANGED <<header, actions, shown, late, doubt>>
      BY <1>18, MarkDeliveredEffect DEF Left, RestStays
    <2>5. ASSUME NEW q \in Replies
          PROVE  /\ late'[q] # {} => q \in doubt'
                 /\ state'[q] = "done" /\ q \notin doubt' /\ ~headerPending'[q] =>
                       shown'[q].header = header'[q]
                 /\ state'[q] = "done" /\ q \notin doubt' /\ actionsPending'[q] = 0 =>
                       shown'[q].actions = actions'[q]
      <3>1. CASE q = r
        BY <1>t, <2>1, <2>2, <2>3, <2>4, <3>1 DEF FaceIsCurrent
      <3>2. CASE q # r
        BY <1>t, <2>4, <3>2 DEF FaceIsCurrent
      <3> QED
        BY <3>1, <3>2
    <2> QED
      BY <2>5 DEF FaceIsCurrent
  <1>25. ASSUME NEW c \in Clicks, Consume(c) PROVE FaceIsCurrent'
    BY <1>25, <1>t, ConsumeEffect
       DEF SpentRows, JobIsShown, FaceIsCurrent, JobsFollowPlaces, ClaimedAreMarked, Edits,
           HasRow
  <1>26. ASSUME NEW c \in Clicks, ConsumeFails(c) PROVE FaceIsCurrent'
    BY <1>26, <1>t, ConsumeFailsEffect
       DEF SpentRows, JobIsShown, FaceIsCurrent, JobsFollowPlaces, ClaimedAreMarked, Edits,
           HasRow
  <1>32. ASSUME Reopen PROVE FaceIsCurrent'
    BY <1>32, <1>t, ReopenEffect
       DEF JobIsShown, FaceIsCurrent, JobsFollowPlaces, ClaimedAreMarked, Edits, HasRow
  <1>33. CASE UNCHANGED <<state, header, headerPending, actions, actionsPending, shown, late,
                          doubt>>
    BY <1>33, <1>t DEF FaceIsCurrent
  <1> QED
    BY <1>1, <1>2, <1>3, <1>5, <1>6, <1>7, <1>8, <1>10, <1>11, <1>12, <1>13, <1>14, <1>15,
       <1>16, <1>17, <1>18, <1>25, <1>26, <1>32, <1>33
       DEF Next, Worker, Handle, Decide, vars, rowVars, tokenVars, clickVars, workVars,
           shownVars, pastVars, boundVars, Rebind, StartEdit, WorkerLeaves, Click, Reserve,
           Reject, Hold, MarkClick, Release, ReleaseFails, Stop, Exit, Crash, Down

-----------------------------------------------------------------------------
(* The theorems.                                                           *)

\* Without answers and clicks everything holds.
LEMMA InitInv == Init => IInv
  <1> SUFFICES ASSUME Init PROVE IInv
    OBVIOUS
  <1>1. TypeOK
    BY NoJobFacts, BoundAssumption
       DEF Init, TypeOK, States, Face, Jobs, Edits, Unclicked
  <1>2. JobsFollowPlaces /\ ClaimedAreMarked /\ JobsDiffer /\ JobIsShown
    BY DEF Init, JobsFollowPlaces, ClaimedAreMarked, JobsDiffer, JobIsShown, HasRow, Edits
  <1>3. MarkedAreClaimed /\ TokensHaveRows /\ KeyboardIsUnused
    BY DEF Init, MarkedAreClaimed, TokensHaveRows, KeyboardIsUnused
  <1>4. AcceptedIsConsumed /\ HeldIsReserved /\ GrantedIsKept
    BY DEF Init, AcceptedIsConsumed, HeldIsReserved, GrantedIsKept
  <1>5. FaceIsCurrent
    BY DEF Init, FaceIsCurrent
  <1> QED
    BY <1>1, <1>2, <1>3, <1>4, <1>5 DEF IInv

\* Every step keeps every part.
LEMMA Inductive == IInv /\ [Next]_vars => IInv'
  BY TypeStep, JobsFollowPlacesStep, ClaimedAreMarkedStep, JobsDifferStep, MarkedAreClaimedStep,
     TokensHaveRowsStep, KeyboardIsUnusedStep, AcceptedIsConsumedStep, HeldIsReservedStep,
     GrantedIsKeptStep, JobIsShownStep, FaceIsCurrentStep DEF IInv

\* Claims, buttons and faces are as the inductive invariant says.
THEOREM Invariant == Spec => []IInv
  BY InitInv, Inductive, PTL DEF Spec

\* The columns of outbox and final_actions, the workers and the clicks keep their
\* types.
THEOREM TypeCorrect == Spec => []TypeOK
  <1>1. IInv => TypeOK
    BY DEF IInv
  <1> QED
    BY <1>1, Invariant, PTL

\* Edits of a message exclude each other and its sending, every claim has its
\* worker, and a delivered answer with nothing left to edit shows its header and
\* the unused buttons (ClaimFinalActionEdit, NextAssistantHeader and what marks
\* them done).
THEOREM EditsSound == Spec => []EditsAreSound
  <1>1. ASSUME IInv PROVE ClaimIsExclusive
    <2>0. /\ TypeOK /\ JobsFollowPlaces /\ ClaimedAreMarked /\ JobsDiffer /\ MarkedAreClaimed
      BY <1>1 DEF IInv
    <2>1. \A w \in Workers, r \in Replies : Has(w, r) => state[r] = "done" /\ actionsPending[r] = 2
      BY <2>0 DEF Has, ClaimedAreMarked
    <2>2. ASSUME NEW v \in Workers, NEW w \in Workers, v # w, job[v].reply = job[w].reply
          PROVE  job[v] = NoJob
      <3>1. place[v] \in HasRow /\ place[w] \in HasRow => FALSE
        BY <2>0, <2>2 DEF JobsDiffer
      <3>2. \A u \in Workers : place[u] \in HasRow \/ job[u] = NoJob
        BY <2>0 DEF JobsFollowPlaces
      <3>3. place[v] \in HasRow => job[v].reply # 0
        BY <2>0, NoJobFacts DEF JobsFollowPlaces
      <3> QED
        BY <2>2, <3>1, <3>2, <3>3, NoJobFacts
    <2>3. \A r \in Replies : Running /\ actionsPending[r] = 2 => \E w \in Workers : Has(w, r)
      BY <2>0 DEF MarkedAreClaimed
    <2> QED
      BY <2>1, <2>2, <2>3 DEF ClaimIsExclusive
  <1>2. ASSUME IInv PROVE ShownIsCurrent
    <2>1. FaceIsCurrent /\ KeyboardIsUnused
      BY <1>2 DEF IInv
    <2> QED
      BY <2>1 DEF ShownIsCurrent, FaceIsCurrent, KeyboardIsUnused
  <1>3. IInv => EditsAreSound
    BY <1>1, <1>2 DEF EditsAreSound
  <1> QED
    BY <1>3, Invariant, PTL

\* A button stays reserved for the click whose command is undecided, and retention
\* leaves its answer alone.
THEOREM HeldAreReserved == Spec => []HeldIsReserved
  <1>1. IInv => HeldIsReserved
    BY DEF IInv
  <1> QED
    BY <1>1, Invariant, PTL

\* A button's command is accepted at most once, a lost one never, and no click is
\* given a button twice.
THEOREM ClicksCount == Spec => []ClicksCountOnce
  <1>1. ASSUME IInv PROVE ClicksCountOnce
    <2>1. AcceptedIsConsumed /\ GrantedIsKept
      BY <1>1 DEF IInv
    <2>2. ASSUME NEW k \in Tokens PROVE runs[k] + Cardinality({k} \cap lost) <= 1
      <3>1. runs[k] \in {0, 1} /\ (k \in lost => runs[k] = 0)
        BY <2>1 DEF AcceptedIsConsumed
      <3>2. CASE k \in lost
        <4>1. {k} \cap lost = {k} /\ Cardinality({k}) = 1
          BY <3>2, FS_Singleton
        <4> QED
          BY <3>1, <3>2, <4>1
      <3>3. CASE k \notin lost
        <4>1. {k} \cap lost = {} /\ Cardinality({}) = 0
          BY <3>3, FS_EmptySet
        <4> QED
          BY <3>1, <4>1
      <3> QED
        BY <3>2, <3>3
    <2>3. \A c \in Clicks : grants[c] <= 1
      BY <2>1 DEF GrantedIsKept
    <2> QED
      BY <2>2, <2>3 DEF ClicksCountOnce
  <1>2. IInv => ClicksCountOnce
    BY <1>1
  <1> QED
    BY <1>2, Invariant, PTL

=============================================================================
