------------------------------ MODULE Progress ------------------------------
(* The progress message ("preview") of a task: sent and edited while the task *)
(* runs, replaced by the durable replies that follow it, and deleted when     *)
(* these are delivered, whatever the answers of Telegram, the janitor, the    *)
(* retention of old rows and restarts do in between.                          *)
EXTENDS Integers, Sequences

CONSTANTS
    Roots,       \* the inputs that become tasks of the conversation
    None,
    MaxRows,     \* bound on the replies
    MaxEpochs,   \* bound on the previews
    MaxStops     \* bound on stops and crashes

VARIABLES
    process,  \* "up", "stopping" or "down"
    stops,
    inbox,    \* state of the roots: "new", "submitted", "settled" or "pruned"
    rows,     \* the text rows of outbox with their root, and the epoch they were written in
    records,  \* the rows of progress_messages
    posts,    \* the previews Telegram shows or has shown
    sends,    \* requests to Telegram on their way, and their results, with their previewRetirement
    doomed,   \* previews that some goroutine is about to delete
    actor

progressVars == <<process, stops, inbox, rows, records, posts, sends, doomed, actor>>

\* epoch is previewEpoch, waiting previewBusy, preview previewID; retiring holds the replies whose preview is not retired yet.
Open == [retired |-> FALSE, first |-> 0, parts |-> 0]
NewActor(e) ==
    [active |-> None, finishing |-> FALSE, epoch |-> e, waiting |-> FALSE, preview |-> 0,
     suppressed |-> FALSE, retiring |-> Open]

Init ==
    /\ process = "up" /\ stops = 0
    /\ inbox = [t \in Roots |-> "new"]
    /\ rows = <<>> /\ posts = <<>>
    /\ records = {} /\ sends = {} /\ doomed = {}
    /\ actor = NewActor(1)

-----------------------------------------------------------------------------
(* The database.                                                             *)

Kept(t) == {i \in DOMAIN rows : rows[i].root = t /\ rows[i].kept}
Delivered(i) == rows[i].state = "done"

\* CompletedProgressMessages.
Replaced(r) ==
    IF r.retired
      THEN \/ r.first = 0
           \/ /\ {r.first, r.last} \subseteq Kept(r.root)
              /\ \A i \in Kept(r.root) : i \in r.first..r.last => Delivered(i)
      ELSE /\ inbox[r.root] = "settled"
           /\ Kept(r.root) # {} /\ \A i \in Kept(r.root) : Delivered(i)

\* body says that the reply has more than a notice about the limits.
WithReplies(parts, body) ==
    rows \o [i \in 1..parts |-> [root |-> actor.active, epoch |-> actor.epoch, body |-> body,
                                 state |-> "pending", kept |-> TRUE]]

\* The last of the replies from the first on: LIMIT 1 OFFSET parts-1.
LastOffByOne(b) == IF b.parts = 0 THEN 0 ELSE b.first
LastOf(b) == IF b.parts = 0 THEN 0 ELSE b.first + b.parts - 1

\* RetireProgressMessages freezes the first boundary of the previews that have none.
Retired(rs, ms, b) ==
    {IF r.msg \in ms /\ ~r.retired
       THEN [r EXCEPT !.retired = TRUE, !.first = b.first, !.last = LastOf(b)] ELSE r : r \in rs}

\* recordProgressMessage: the preview is associated with its root, and retired at once
\* when its replacement came first.
Recorded(x) ==
    IF x.created /\ x.ok
      THEN LET all == records \cup {[msg |-> x.msg, root |-> x.root, retired |-> FALSE, first |-> 0, last |-> 0]}
           IN  IF x.retirement.retired THEN Retired(all, {x.msg}, x.retirement) ELSE all
      ELSE records

-----------------------------------------------------------------------------
(* The actor.                                                                *)

Acts == process = "up" /\ ~actor.retiring.retired
Runs == Acts /\ actor.active # None

\* rotatePreview, for a new phase of the task or its end.
Rotated(a) ==
    [a EXCEPT !.epoch = @ + 1, !.waiting = FALSE, !.preview = 0, !.suppressed = FALSE]

CanRotate == actor.epoch < MaxEpochs

\* beginTask; dispatch waits for the end of the last preview.
Begin(t) ==
    /\ Acts /\ CanRotate
    /\ actor.active = None /\ ~actor.finishing
    /\ inbox[t] = "new"
    /\ inbox' = [inbox EXCEPT ![t] = "submitted"]
    /\ actor' = [Rotated(actor) EXCEPT !.active = t]
    /\ UNCHANGED <<process, stops, rows, records, posts, sends, doomed>>

\* flushPreview: a preview is not created ahead of replies that are still to be sent.
Flush ==
    /\ Runs
    /\ ~actor.finishing /\ ~actor.waiting /\ ~actor.suppressed
    /\ actor.preview = 0 => \A i \in DOMAIN rows : rows[i].state # "pending"
    /\ actor' = [actor EXCEPT !.waiting = TRUE]
    /\ sends' = sends \cup {[root |-> actor.active, epoch |-> actor.epoch, created |-> actor.preview = 0,
                             msg |-> actor.preview, retirement |-> Open,
                             step |-> "sent", ok |-> FALSE]}
    /\ UNCHANGED <<process, stops, inbox, rows, records, posts, doomed>>

Answered(x, msg, ok) == sends' = (sends \ {x}) \cup {[x EXCEPT !.msg = msg, !.step = "answered", !.ok = ok]}

\* Telegram shows a new preview (known when it is confirmed), with or without an answer.
Shows(x) ==
    /\ x.step = "sent" /\ x.created
    /\ \E ok \in BOOLEAN :
         /\ posts' = posts \o <<[root |-> x.root, epoch |-> x.epoch, state |-> "visible", known |-> ok]>>
         /\ Answered(x, IF ok THEN Len(posts) + 1 ELSE 0, ok)
    /\ UNCHANGED <<process, stops, inbox, rows, records, doomed, actor>>

\* It answers an edit, whose outcome changes nothing here, or refuses a preview.
Answers(x) ==
    /\ x.step = "sent"
    /\ Answered(x, x.msg, FALSE)
    /\ UNCHANGED <<process, stops, inbox, rows, records, posts, doomed, actor>>

Take(x) ==
    /\ Acts /\ x.step = "answered"
    /\ sends' = sends \ {x}
    /\ UNCHANGED <<process, stops, inbox, rows, posts, doomed>>

\* previewFinished.  The message identity is recorded before anything else.
Adopted(x) ==
    LET a == [actor EXCEPT !.waiting = FALSE]
        b == IF x.root # a.active THEN a
             ELSE [a EXCEPT !.preview = IF x.ok THEN x.msg ELSE @,
                            !.suppressed = @ \/ (~x.ok /\ x.msg = 0)]
    IN  IF x.epoch # actor.epoch THEN actor
        ELSE IF b.finishing THEN Rotated([b EXCEPT !.finishing = FALSE]) ELSE b

\* Mutant: only the result of the current preview is recorded.
PreviewFinishedCurrent(x) ==
    /\ Take(x)
    /\ actor.finishing => CanRotate
    /\ records' = IF x.epoch = actor.epoch THEN Recorded(x) ELSE records
    /\ actor' = Adopted(x)

PreviewFinished(x) ==
    /\ Take(x)
    /\ actor.finishing => CanRotate
    /\ records' = Recorded(x)
    /\ actor' = Adopted(x)

\* queueAssistantText with a body: the replies are stored first, then the preview they
\* replace is retired.
AppendBody(parts) ==
    /\ Runs /\ CanRotate
    /\ Len(rows) + parts <= MaxRows
    /\ rows' = WithReplies(parts, TRUE)
    /\ actor' = [actor EXCEPT !.retiring = [retired |-> TRUE, first |-> Len(rows) + 1, parts |-> parts]]
    /\ UNCHANGED <<process, stops, inbox, records, posts, sends, doomed>>

\* retirePreview, under the lock of the retirement.
Retire(b) ==
    /\ records' = Retired(records, {r.msg : r \in {q \in records : q.root = actor.active}}, b)
    /\ sends' = {IF x.created /\ x.epoch = actor.epoch THEN [x EXCEPT !.retirement = b] ELSE x : x \in sends}

RetireBody ==
    /\ process = "up" /\ actor.retiring.retired
    /\ Retire(actor.retiring)
    /\ actor' = Rotated([actor EXCEPT !.retiring = Open])
    /\ UNCHANGED <<process, stops, inbox, rows, posts, doomed>>

\* Replies without a body only rotate the preview.
AppendNotice ==
    /\ Runs /\ CanRotate /\ Len(rows) < MaxRows
    /\ rows' = WithReplies(1, FALSE)
    /\ actor' = Rotated(actor)
    /\ UNCHANGED <<process, stops, inbox, records, posts, sends, doomed>>

\* supersedePreview, for a steer: the next preview answers it, nothing else does.
Supersede ==
    /\ Runs /\ CanRotate
    /\ Retire([retired |-> TRUE, first |-> 0, parts |-> 0])
    /\ actor' = Rotated(actor)
    /\ UNCHANGED <<process, stops, inbox, rows, posts, doomed>>

\* finishResult and finishIncomplete: one transaction for the last replies and the
\* input; a local command without a body takes its preview with it.
Finish(parts) ==
    /\ Runs /\ CanRotate
    /\ Len(rows) + parts <= MaxRows
    /\ rows' = WithReplies(parts, TRUE)
    /\ inbox' = [inbox EXCEPT ![actor.active] = "settled"]
    /\ IF parts = 0 /\ \A i \in Kept(actor.active) : ~rows[i].body
         THEN /\ Retire([retired |-> TRUE, first |-> 0, parts |-> 0])
              /\ actor' = Rotated([actor EXCEPT !.active = None])
         ELSE /\ UNCHANGED <<records, sends>>
              /\ actor' = IF actor.waiting THEN [actor EXCEPT !.active = None, !.finishing = TRUE]
                          ELSE Rotated([actor EXCEPT !.active = None])
    /\ UNCHANGED <<process, stops, posts, doomed>>

-----------------------------------------------------------------------------
(* Delivery, cleanup and retention.                                          *)

\* An uncertain delivery counts like a failed one.
Deliver(i) ==
    /\ process # "down" /\ rows[i].state = "pending"
    /\ \E s \in {"done", "failed"} : rows' = [rows EXCEPT ![i].state = s]
    /\ UNCHANGED <<process, stops, inbox, records, posts, sends, doomed, actor>>

\* cleanupDeliveredProgress of a root, after each delivery and each end of a preview,
\* and reconcileProgressCleanup of all, at the start and every minute.
Reconcile ==
    /\ process # "down"
    /\ doomed' = doomed \cup {r.msg : r \in {q \in records : Replaced(q)}}
    /\ doomed' # doomed
    /\ UNCHANGED <<process, stops, inbox, rows, records, posts, sends, actor>>

Clear(m) == {r \in records : r.msg # m}

\* deleteProgressMessage: a permanent refusal clears the record like a success; after
\* anything else the record stays for the next time.
DeleteMessage(m) ==
    /\ process # "down" /\ m \in doomed
    /\ doomed' = doomed \ {m}
    /\ \/ posts' = [posts EXCEPT ![m].state = "gone"] /\ records' \in {records, Clear(m)}
       \/ UNCHANGED <<posts, records>>
       \/ posts' = [posts EXCEPT ![m].state = IF @ = "gone" THEN @ ELSE "stuck"] /\ records' = Clear(m)
    /\ UNCHANGED <<process, stops, inbox, rows, sends, actor>>

\* Old rows of a settled root; a request is never as old as the retention period.
Old(t) ==
    /\ process # "down" /\ inbox[t] = "settled"
    /\ \A i \in Kept(t) : rows[i].state # "pending"
    /\ \A x \in sends : x.root # t
    /\ inbox' = [inbox EXCEPT ![t] = "pruned"]
    /\ rows' = [i \in DOMAIN rows |-> IF rows[i].root = t THEN [rows[i] EXCEPT !.kept = FALSE] ELSE rows[i]]
    /\ UNCHANGED <<process, stops, records, posts, sends, doomed, actor>>

Prune(t) == (\A r \in records : r.root # t) /\ Old(t)

-----------------------------------------------------------------------------
(* Stops and restarts.                                                       *)

\* teardownWorker settles the active input; what is still on its way is recorded by
\* its own goroutine, or drained.
Stop(parts) ==
    /\ Acts /\ stops < MaxStops /\ CanRotate
    /\ Len(rows) + parts <= MaxRows
    /\ process' = "stopping" /\ stops' = stops + 1
    /\ IF actor.active = None THEN parts = 0 /\ UNCHANGED <<inbox, rows>>
       ELSE inbox' = [inbox EXCEPT ![actor.active] = "settled"] /\ rows' = WithReplies(parts, TRUE)
    /\ actor' = NewActor(actor.epoch + 1)
    /\ UNCHANGED <<records, posts, sends, doomed>>

RecordLate(x) ==
    /\ process = "stopping" /\ x.step = "answered"
    /\ sends' = sends \ {x}
    /\ records' = Recorded(x)
    /\ UNCHANGED <<process, stops, inbox, rows, posts, doomed, actor>>

Exit ==
    /\ process = "stopping" /\ sends = {}
    /\ process' = "down" /\ doomed' = {}
    /\ UNCHANGED <<stops, inbox, rows, records, posts, sends, actor>>

Crash ==
    /\ process # "down" /\ stops < MaxStops
    /\ process' = "down" /\ stops' = stops + 1
    /\ sends' = {} /\ doomed' = {}
    /\ actor' = NewActor(actor.epoch + 1)
    /\ posts' = [m \in DOMAIN posts |-> [posts[m] EXCEPT !.known = @ /\ \E r \in records : r.msg = m]]
    /\ UNCHANGED <<inbox, rows, records>>

Restart ==
    /\ process = "down"
    /\ process' = "up"
    /\ inbox' = [t \in Roots |-> IF inbox[t] = "submitted" THEN "settled" ELSE inbox[t]]
    /\ UNCHANGED <<stops, rows, records, posts, sends, doomed, actor>>

Tasks ==
    \/ \E t \in Roots : Begin(t)
    \/ Flush \/ RetireBody \/ AppendNotice \/ Supersede
    \/ (\E n \in 1..2 : AppendBody(n)) \/ \E n \in 0..1 : Finish(n)
    \/ \E x \in sends : PreviewFinished(x)

Background ==
    \/ \E x \in sends : Shows(x) \/ Answers(x) \/ RecordLate(x)
    \/ \E i \in DOMAIN rows : Deliver(i)
    \/ Reconcile \/ (\E m \in doomed : DeleteMessage(m)) \/ \E t \in Roots : Prune(t)

Next == Tasks \/ Background \/ (\E n \in 0..1 : Stop(n)) \/ Exit \/ Crash \/ Restart

Spec == Init /\ [][Next]_progressVars

-----------------------------------------------------------------------------

\* A preview disappears only after the replies that were written while it was the
\* current one have been delivered, all parts of them, also after a restart; and never
\* while it is the current one.
DeletesReplaced ==
    \A m \in DOMAIN posts : posts[m].state = "visible" /\ posts'[m].state = "gone" =>
        /\ actor.active = posts[m].root => actor.epoch # posts[m].epoch
        /\ \A i \in DOMAIN rows :
              rows[i].body /\ rows[i].root = posts[m].root /\ rows[i].epoch = posts[m].epoch => Delivered(i)
DeletesOnlyReplaced == [][DeletesReplaced]_progressVars

\* A preview that Telegram confirmed, and that no crash made forget, is known until it
\* is deleted: recorded, or with a result on its way.
NothingForgotten ==
    \A m \in DOMAIN posts : posts[m].state = "visible" /\ posts[m].known =>
        (\E r \in records : r.msg = m) \/ \E x \in sends : x.created /\ x.msg = m

\* The replies that a replaced preview waits for are kept as long as its record;
\* without them it could never be deleted.
RowsOutlivePreviews ==
    \A r \in records : r.retired /\ r.first # 0 => {r.first, r.last} \subseteq Kept(r.root)

-----------------------------------------------------------------------------
(* The inductive invariant from which PartsProofs derives the three.         *)

BoundaryType == [retired : BOOLEAN, first : Nat, parts : Nat]
RowType ==
    [root : Roots, epoch : Nat, body : BOOLEAN, state : {"pending", "done", "failed"}, kept : BOOLEAN]
PostType == [root : Roots, epoch : Nat, state : {"visible", "gone", "stuck"}, known : BOOLEAN]
RecordType == [msg : Nat, root : Roots, retired : BOOLEAN, first : Nat, last : Nat]
SendType ==
    [root : Roots, epoch : Nat, created : BOOLEAN, msg : Nat, retirement : BoundaryType,
     step : {"sent", "answered"}, ok : BOOLEAN]
ActorType ==
    [active : Roots \cup {None}, finishing : BOOLEAN, epoch : Nat, waiting : BOOLEAN, preview : Nat,
     suppressed : BOOLEAN, retiring : BoundaryType]

TypeOK ==
    /\ process \in {"up", "stopping", "down"}
    /\ inbox \in [Roots -> {"new", "submitted", "settled", "pruned"}]
    /\ rows \in Seq(RowType) /\ posts \in Seq(PostType)
    /\ records \subseteq RecordType /\ sends \subseteq SendType
    /\ doomed \subseteq DOMAIN posts
    /\ actor \in ActorType

Over(t) == inbox[t] \in {"settled", "pruned"}

\* Rows, previews and requests belong to roots that have begun, and to epochs that have.
RootsHaveBegun ==
    /\ actor.active # None => inbox[actor.active] = "submitted" /\ process = "up" /\ ~actor.finishing
    /\ actor.active = None \/ ~actor.retiring.retired => actor.retiring = Open
    /\ \A i \in DOMAIN rows :
         /\ inbox[rows[i].root] # "new" /\ rows[i].epoch <= actor.epoch
         /\ rows[i].kept <=> inbox[rows[i].root] # "pruned"
    /\ \A m \in DOMAIN posts : posts[m].epoch <= actor.epoch
    /\ \A r \in records : inbox[r.root] # "new"
    /\ \A x \in sends : inbox[x.root] # "new" /\ x.epoch <= actor.epoch
    /\ process = "down" => sends = {}

\* A record, or a result that will be one, names its preview, and nothing else does.
IdentitiesAgree ==
    /\ \A r \in records : r.msg \in DOMAIN posts /\ posts[r.msg].root = r.root
    /\ \A x \in sends : x.created =>
         /\ x.ok <=> x.msg # 0
         /\ x.step = "sent" => ~x.ok
         /\ x.ok => /\ x.msg \in DOMAIN posts
                    /\ posts[x.msg].root = x.root /\ posts[x.msg].epoch = x.epoch

\* The bodies written while a preview was the current one are within the boundary b.
Bodies(t, e) == {i \in DOMAIN rows : rows[i].body /\ rows[i].root = t /\ rows[i].epoch = e}
Within(t, e, first, last) ==
    /\ \A i \in Bodies(t, e) : first <= i /\ i <= last
    /\ IF first = 0 THEN last = 0 ELSE {first, last} \subseteq Kept(t)

\* Until a boundary is frozen there is no such body, but those being retired.
Pending(t, e) ==
    IF e = actor.epoch THEN Within(t, e, actor.retiring.first, LastOf(actor.retiring)) ELSE Bodies(t, e) = {}
Frozen(t, e, first, last) == Within(t, e, first, last) /\ (e < actor.epoch \/ Over(t))

BoundariesHold ==
    /\ actor.active # None => Pending(actor.active, actor.epoch)
    /\ actor.active # None => \A x \in sends : x.epoch = actor.epoch => x.root = actor.active
    /\ \A r \in records :
         IF r.retired THEN Frozen(r.root, posts[r.msg].epoch, r.first, r.last)
         ELSE r.root = actor.active => Pending(r.root, posts[r.msg].epoch)
    /\ \A x \in sends : x.created =>
         IF x.retirement.retired THEN Frozen(x.root, x.epoch, x.retirement.first, LastOf(x.retirement))
         ELSE x.root = actor.active => Pending(x.root, x.epoch)

\* What is about to be deleted has been replaced, and stays so.
DoomedAreOver ==
    \A m \in doomed :
        /\ \A i \in Bodies(posts[m].root, posts[m].epoch) : Delivered(i)
        /\ posts[m].epoch < actor.epoch \/ Over(posts[m].root)

PInv ==
    TypeOK /\ RootsHaveBegun /\ IdentitiesAgree /\ BoundariesHold /\ DoomedAreOver /\ NothingForgotten
=============================================================================
