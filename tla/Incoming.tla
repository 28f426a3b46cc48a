------------------------------ MODULE Incoming ------------------------------
(* The attachments a user sends: albums collected from several messages, the *)
(* preparation that downloads them beside the actor, the queue entry that    *)
(* waits for it, and the janitor that removes old directories while sessions *)
(* come and go.                                                              *)
EXTENDS Integers, Sequences, FiniteSets, SequencesExt

CONSTANTS
    Singles,       \* messages with one attachment
    Members,       \* messages of one media group
    SessionIds,
    None,
    MaxMessages,   \* how many of them are sent
    MaxAlbumItems,
    Capacity,      \* queue_capacity
    MediaSlots,
    MaxTimers, MaxGeneration,
    MaxHalts       \* stops and crashes; see also LosesRuntime

Inputs == Singles \cup Members

VARIABLES
    process,   \* "up", "closing" or "down"
    binding,   \* the session of the conversation, None when it is closed, and its generation
    intent,    \* the session a pending start resumes
    inbox,     \* inbox state of the messages: "ended" stands for done and uncertain,
               \* "dropped" for cancelled and failed
    actor,     \* the fields of the worker
    timers,    \* versions of the album's timer that may still fire
    jobs,      \* preparations, and results the actor has not taken
    dirs,      \* the directory of an input under attachments/inbox
    inUse,     \* b.incomingInUse
    janitor,
    collected, \* for a collected member the owner of its album
    halts

incomingVars == <<process, binding, intent, inbox, actor, timers, jobs, dirs, inUse, janitor, collected, halts>>

NoAlbum == [owner |-> None, members |-> {}, version |-> 0]
NoDir == [there |-> FALSE, owner |-> None, old |-> FALSE, members |-> {}, life |-> 0]
Resting == [todo |-> {}, starts |-> None, at |-> None]

\* album is the entry of w.albums for the group of Members; suppressed its entry of
\* w.albumSuppressed; active the running task. claim is w.sessionID, the session this
\* conversation has claimed; runtime the OMP process, "failed" once it could not be
\* restored for the queue (w.resumeFailed).
NewActor == [queue |-> <<>>, album |-> NoAlbum, suppressed |-> FALSE, active |-> None,
             claim |-> None, runtime |-> "released"]

Init ==
    /\ process = "up"
    /\ binding \in {[session |-> s, generation |-> 1] : s \in SessionIds}
    /\ intent = None
    /\ inbox \in {[i \in Inputs |-> IF i \in S THEN "new" ELSE "unsent"] :
                    S \in {T \in SUBSET Inputs : Cardinality(T) = MaxMessages}}
    /\ actor = [NewActor EXCEPT !.claim = binding.session, !.runtime = "connected"]
    /\ timers = {} /\ jobs = {} /\ inUse = {}
    /\ dirs = [i \in Inputs |-> NoDir]
    /\ janitor = Resting
    /\ collected = [i \in Inputs |-> None]
    /\ halts = 0

-----------------------------------------------------------------------------
(* Directories and the queue.                                                *)

Queued(i) == \E n \in DOMAIN actor.queue : actor.queue[n].id = i
Preparing(i) == \E n \in DOMAIN actor.queue : actor.queue[n].id = i /\ actor.queue[n].preparing

Place(i) == SelectInSeq(actor.queue, LAMBDA q : q.id = i)
Dequeued(i) == RemoveAt(actor.queue, Place(i))

\* discardIncoming, with the directories the actor knows of.
Discarded(S) == [i \in Inputs |-> IF i \in S THEN NoDir ELSE dirs[i]]
Held(S) == {i \in S : Queued(i) /\ ~Preparing(i)}

Discard(S) == dirs' = Discarded(S) /\ inUse' = inUse \ S

Job(i, members, owner) == [id |-> i, generation |-> binding.generation, owner |-> owner, members |-> members,
                           step |-> "waiting", cancelled |-> FALSE, ok |-> FALSE]

\* The cancel function of the queue entries reaches preparations that have not ended.
CancelJobs(S) == {IF j.id \in S /\ j.step # "ended" THEN [j EXCEPT !.cancelled = TRUE] ELSE j : j \in jobs}

Marked(S, state) == [i \in Inputs |-> IF i \in S THEN state ELSE inbox[i]]

-----------------------------------------------------------------------------
(* The runtime and the claim: OMP is released and comes back when it is      *)
(* needed, the claim stays meanwhile.                                        *)

Up == process = "up"
Connected == actor.runtime = "connected"

\* ensureRuntime, called before anything is sent or queued. beginSessionRestore claims
\* the session again before OMP is launched; it may fail before that, the claim as it
\* was, or after it, and then the claim is given up although the conversation keeps
\* its session (closeFailedStart).
Restored == [actor EXCEPT !.claim = binding.session, !.runtime = "connected"]
FailedRestores == {actor, [actor EXCEPT !.claim = None]}
EnsureRuntime ==
    IF Connected \/ binding.session = None THEN {actor} ELSE {Restored} \cup FailedRestores
HasRuntime(a) == a.runtime = "connected"

\* A command or a prompt without attachments.
CommandRestores ==
    /\ Up /\ ~Connected
    /\ actor' \in EnsureRuntime
    /\ UNCHANGED <<process, binding, intent, inbox, timers, jobs, dirs, inUse, janitor, collected, halts>>

-----------------------------------------------------------------------------
(* Messages arrive.                                                          *)

\* The first message of a task is refused without a runtime, then by a full queue.
Room == Len(actor.queue) < Capacity
Refusal(a) == IF HasRuntime(a) THEN "dropped" ELSE "ended"

QueueMedia(i) ==
    /\ Up /\ inbox[i] = "new"
    /\ \E a \in EnsureRuntime :
         IF HasRuntime(a) /\ Room
           THEN /\ inbox' = Marked({i}, "pending")
                /\ actor' = [a EXCEPT !.queue = @ \o <<[id |-> i, preparing |-> TRUE]>>]
                /\ jobs' = jobs \cup {Job(i, {i}, a.claim)}
           ELSE /\ inbox' = Marked({i}, Refusal(a))
                /\ actor' = a
                /\ UNCHANGED jobs
    /\ UNCHANGED <<process, binding, intent, timers, dirs, inUse, janitor, collected, halts>>

\* scheduleAlbum stops the timer before, which may have fired already.
Schedule(a, album) ==
    LET v == album.version + 1
    IN  /\ v <= MaxTimers
        /\ timers' \in {timers \cup {v}, (timers \ {actor.album.version}) \cup {v}}
        /\ actor' = [a EXCEPT !.album = [album EXCEPT !.version = v],
                         !.queue = IF Queued(album.owner) THEN @ ELSE @ \o <<[id |-> album.owner, preparing |-> TRUE]>>]

AlbumBegins(i) ==
    /\ Up /\ inbox[i] = "new" /\ ~actor.suppressed
    /\ actor.album.owner = None /\ Room
    /\ inbox' = Marked({i}, "pending")
    /\ \E a \in EnsureRuntime :
         HasRuntime(a) /\ Schedule(a, [owner |-> i, members |-> {i}, version |-> actor.album.version])
    /\ UNCHANGED <<process, binding, intent, jobs, dirs, inUse, janitor, collected, halts>>

AlbumGrows(i) ==
    LET album == actor.album
    IN  /\ Up /\ inbox[i] = "new" /\ ~actor.suppressed
        /\ album.owner # None /\ Cardinality(album.members) < MaxAlbumItems
        /\ inbox' = Marked({i}, "ended")
        /\ collected' = [collected EXCEPT ![i] = album.owner]
        /\ Schedule(actor, [album EXCEPT !.members = @ \cup {i}])
        /\ UNCHANGED <<process, binding, intent, jobs, dirs, inUse, janitor, halts>>

Closed(album) == [album EXCEPT !.owner = None, !.members = {}]

\* rejectAlbum: one item too many loses the owner and the members.
AlbumRejected(i) ==
    LET album == actor.album
    IN  /\ Up /\ inbox[i] = "new" /\ ~actor.suppressed
        /\ album.owner # None /\ Cardinality(album.members) >= MaxAlbumItems
        /\ inbox' = [Marked({i}, "dropped") EXCEPT ![album.owner] = "dropped"]
        /\ actor' = [actor EXCEPT !.album = Closed(@), !.suppressed = TRUE, !.queue = Dequeued(album.owner)]
        /\ jobs' = CancelJobs({album.owner})
        /\ Discard(Held({album.owner}))
        /\ UNCHANGED <<process, binding, intent, timers, janitor, collected, halts>>

\* A late member of a suppressed group, or a refused first one.
AlbumRefused(i) ==
    /\ Up /\ inbox[i] = "new"
    /\ \/ actor.suppressed /\ inbox' = Marked({i}, "dropped") /\ UNCHANGED actor
       \/ /\ ~actor.suppressed /\ actor.album.owner = None
          /\ \E a \in EnsureRuntime :
               /\ ~HasRuntime(a) \/ ~Room
               /\ inbox' = Marked({i}, Refusal(a))
               /\ actor' = [a EXCEPT !.suppressed = TRUE]
    /\ UNCHANGED <<process, binding, intent, timers, jobs, dirs, inUse, janitor, collected, halts>>

SuppressionEnds ==
    /\ Up /\ actor.suppressed
    /\ actor' = [actor EXCEPT !.suppressed = FALSE]
    /\ UNCHANGED <<process, binding, intent, inbox, timers, jobs, dirs, inUse, janitor, collected, halts>>

\* sealAlbum; keep is what stays of the entry of w.albums. The owner is whatever is
\* claimed now: nothing, when a restore has failed since the album began.
SealLeaving(v, keep) ==
    LET album == actor.album
    IN  /\ Up /\ v \in timers
        /\ timers' = timers \ {v}
        /\ IF album.owner = None \/ album.version # v
             THEN UNCHANGED <<actor, jobs>>
             ELSE /\ actor' = [actor EXCEPT !.album = keep, !.suppressed = TRUE]
                  /\ jobs' = jobs \cup {Job(album.owner, album.members, actor.claim)}
        /\ UNCHANGED <<process, binding, intent, inbox, dirs, inUse, janitor, collected, halts>>

\* Mutant: the sealed album stays open.
SealOpen(v) == SealLeaving(v, actor.album)
Seal(v) == SealLeaving(v, Closed(actor.album))

-----------------------------------------------------------------------------
(* startMediaPreparation: the goroutine of one preparation.                  *)

Steps(j, step) == (jobs \ {j}) \cup {[j EXCEPT !.step = step]}
Ends(j, ok) == (jobs \ {j}) \cup {[j EXCEPT !.step = "ended", !.ok = ok]}

\* A slot is free; the directory is created with the marker .preparing.
PreparationBegins(j) ==
    /\ process # "down" /\ j.step = "waiting" /\ ~j.cancelled
    /\ Cardinality({k \in jobs : k.step = "writing"}) < MediaSlots
    /\ jobs' = Steps(j, "writing")
    /\ dirs' = [dirs EXCEPT ![j.id] = [there |-> TRUE, owner |-> None, old |-> FALSE, members |-> {}, life |-> halts]]
    /\ UNCHANGED <<process, binding, intent, inbox, actor, timers, inUse, janitor, collected, halts>>

\* All files are there, WriteIncomingOwner names the session, which it must have, and
\* removes the marker.
PreparationSucceeds(j) ==
    /\ process # "down" /\ j.step = "writing" /\ dirs[j.id].there /\ j.owner # None
    /\ jobs' = Ends(j, TRUE)
    /\ dirs' = [dirs EXCEPT ![j.id].owner = j.owner, ![j.id].members = j.members]
    /\ UNCHANGED <<process, binding, intent, inbox, actor, timers, inUse, janitor, collected, halts>>

\* An error, or the cancellation, at any point: the directory is removed again.
PreparationFails(j) ==
    /\ process # "down" /\ j.step \in {"waiting", "writing"}
    /\ j.step = "waiting" => j.cancelled
    /\ jobs' = Ends(j, FALSE)
    /\ Discard({j.id})
    /\ UNCHANGED <<process, binding, intent, inbox, actor, timers, janitor, collected, halts>>

Awaited(r) == r.generation = binding.generation /\ Preparing(r.id)

\* preparedMedia, and the drain of a worker that is gone.
PreparedMedia(r) ==
    /\ Up /\ r.step = "ended" /\ Awaited(r)
    /\ jobs' = jobs \ {r}
    /\ IF r.ok
         THEN /\ actor' = [actor EXCEPT !.queue = [n \in DOMAIN @ |->
                               IF @[n].id = r.id THEN [@[n] EXCEPT !.preparing = FALSE] ELSE @[n]]]
              /\ inUse' = inUse \cup {r.id}
              /\ UNCHANGED <<inbox, dirs>>
         ELSE /\ actor' = [actor EXCEPT !.queue = Dequeued(r.id), !.suppressed = @ \/ r.id \in Members]
              /\ inbox' = Marked({r.id}, "dropped")
              /\ Discard({r.id})
    /\ UNCHANGED <<process, binding, intent, timers, janitor, collected, halts>>

Late(r) ==
    /\ process # "down" /\ r.step = "ended" /\ ~(Up /\ Awaited(r))
    /\ jobs' = jobs \ {r}
    /\ Discard({r.id})
    /\ UNCHANGED <<process, binding, intent, inbox, actor, timers, janitor, collected, halts>>

-----------------------------------------------------------------------------
(* Tasks and sessions.                                                       *)

\* cancelQueuedTask of every entry in S.
Cancelling(S) ==
    /\ inbox' = Marked(S, "dropped")
    /\ jobs' = CancelJobs(S)

CancelQueued(i) ==
    /\ Up /\ Queued(i)
    /\ Cancelling({i})
    /\ Discard(Held({i}))
    /\ actor' = [actor EXCEPT !.queue = Dequeued(i),
                     !.suppressed = @ \/ i \in Members,
                     !.album = IF @.owner = i THEN Closed(@) ELSE @]
    /\ UNCHANGED <<process, binding, intent, timers, janitor, collected, halts>>

CanDispatch == actor.queue # <<>> /\ actor.active = None /\ actor.runtime # "failed"

\* dispatch looks for the runtime first, whether the head of the queue is ready or not;
\* after a failure the queue waits until something else restores it.
DispatchRestores ==
    /\ Up /\ CanDispatch
    /\ \E a \in EnsureRuntime :
         /\ HasRuntime(a) => Head(actor.queue).preparing
         /\ actor' = IF HasRuntime(a) THEN a ELSE [a EXCEPT !.runtime = "failed"]
    /\ UNCHANGED <<process, binding, intent, inbox, timers, jobs, dirs, inUse, janitor, collected, halts>>

\* The head of the queue is submitted, or does not fit into a frame.
Dispatch ==
    /\ Up /\ CanDispatch
    /\ \E a \in EnsureRuntime :
         LET q == Head(actor.queue)
         IN  /\ HasRuntime(a) /\ ~q.preparing
             /\ \/ /\ actor' = [a EXCEPT !.queue = Tail(@), !.active = q.id]
                   /\ inbox' = Marked({q.id}, "submitted")
                   /\ UNCHANGED <<dirs, inUse>>
                \/ /\ actor' = [a EXCEPT !.queue = Tail(@)]
                   /\ inbox' = Marked({q.id}, "dropped")
                   /\ Discard({q.id})
    /\ UNCHANGED <<process, binding, intent, timers, jobs, janitor, collected, halts>>

\* finishIncoming: the age starts again; without the timestamp the directory stays in use.
Touched(S, touched) ==
    IF touched THEN /\ dirs' = [i \in Inputs |-> IF i \in S /\ dirs[i].there THEN [dirs[i] EXCEPT !.old = FALSE] ELSE dirs[i]]
                    /\ inUse' = inUse \ S
               ELSE UNCHANGED <<dirs, inUse>>

TaskEnds ==
    /\ Up /\ actor.active # None
    /\ inbox' = Marked({actor.active}, "ended")
    /\ \E touched \in BOOLEAN : Touched({actor.active}, touched)
    /\ actor' = [actor EXCEPT !.active = None]
    /\ UNCHANGED <<process, binding, intent, timers, jobs, janitor, collected, halts>>

\* OMP is lost as long as a resume and a halt are still to come; then it is released only
\* by a restart.
LosesRuntime == Up /\ Connected /\ binding.generation < MaxGeneration /\ halts < MaxHalts

\* releaseRuntimeWithReason: after the idle timeout, or because the bridge no longer trusts
\* OMP; then the task ends uncertain and the queue waits for the next runtime. The claim
\* is kept.
RuntimeReleased ==
    /\ LosesRuntime
    /\ actor' = [actor EXCEPT !.active = None, !.runtime = "released"]
    /\ inbox' = Marked({actor.active}, "ended")
    /\ \E touched \in BOOLEAN : Touched({actor.active}, touched)
    /\ UNCHANGED <<process, binding, intent, timers, jobs, janitor, collected, halts>>

\* teardownWorker: the queue and the albums are cleared, the task ends uncertain, the
\* runtime goes; claim is what the conversation keeps.
Teardown(claim) ==
    LET waiting == {i \in Inputs : Queued(i)}
        held == Held(waiting)
    IN  /\ inbox' = [i \in Inputs |-> IF i \in waiting THEN "dropped"
                                      ELSE IF i = actor.active THEN "ended" ELSE inbox[i]]
        /\ jobs' = CancelJobs(waiting)
        /\ dirs' = [i \in Inputs |-> IF i = actor.active /\ dirs[i].there THEN [dirs[i] EXCEPT !.old = FALSE]
                                     ELSE Discarded(held)[i]]
        /\ inUse' = inUse \ (held \cup {actor.active})
        /\ actor' = [NewActor EXCEPT !.suppressed = actor.suppressed \/ waiting \cap Members # {},
                                     !.album.version = actor.album.version, !.claim = claim]

\* failed: OMP exits by itself, nothing is replayed and the conversation stays.
RuntimeExits ==
    /\ LosesRuntime
    /\ Teardown(actor.claim)
    /\ UNCHANGED <<process, binding, intent, timers, janitor, collected, halts>>

Close ==
    /\ Up /\ binding.session # None
    /\ Teardown(None)
    /\ binding' = [binding EXCEPT !.session = None]
    /\ UNCHANGED <<process, intent, timers, janitor, collected, halts>>

\* startInternalWithArgs: the intent of a resume is durable before the claim.
ResumeBegins(s) ==
    /\ Up /\ binding.session = None /\ intent = None /\ binding.generation < MaxGeneration
    /\ intent' = s
    /\ UNCHANGED <<process, binding, inbox, actor, timers, jobs, dirs, inUse, janitor, collected, halts>>

ResumeEnds(claimed) ==
    /\ Up /\ intent # None
    /\ intent' = None
    /\ binding' = IF claimed THEN [session |-> intent, generation |-> binding.generation + 1] ELSE binding
    /\ actor' = IF claimed THEN [actor EXCEPT !.claim = intent, !.runtime = "connected"] ELSE actor
    /\ UNCHANGED <<process, inbox, timers, jobs, dirs, inUse, janitor, collected, halts>>

-----------------------------------------------------------------------------
(* The janitor, once a day.                                                  *)

\* A retention period passes between two cleanups; no preparation lasts that long.
PeriodPasses ==
    /\ janitor = Resting
    /\ dirs' = [i \in Inputs |-> IF dirs[i].there /\ ~\E j \in jobs : j.id = i THEN [dirs[i] EXCEPT !.old = TRUE] ELSE dirs[i]]
    /\ UNCHANGED <<process, binding, intent, inbox, actor, timers, jobs, inUse, janitor, collected, halts>>

Expired(i) == dirs[i].there /\ dirs[i].old /\ i \notin inUse

\* The pending resumes and the directories in use are read before the entries: what
\* has expired then still has when its turn comes.
CleanupBegins ==
    /\ Up /\ janitor = Resting
    /\ \E i \in Inputs : Expired(i)
    /\ janitor' = [todo |-> {i \in Inputs : Expired(i)}, starts |-> intent, at |-> None]
    /\ UNCHANGED <<process, binding, intent, inbox, actor, timers, jobs, dirs, inUse, collected, halts>>

Claimed(s) == s = actor.claim

\* Without an owner only a marked directory goes, at once. For an owner that is neither
\* claimed nor being resumed the sessions are listed; the list may make the directory
\* eligible.
CleanupVisits(i) ==
    /\ Up /\ i \in janitor.todo /\ janitor.at = None
    /\ \E eligible \in BOOLEAN :
         /\ eligible => dirs[i].owner # None /\ ~Claimed(dirs[i].owner) /\ dirs[i].owner # janitor.starts
         /\ janitor' = IF eligible \/ janitor.todo # {i}
                         THEN [janitor EXCEPT !.todo = @ \ {i}, !.at = IF eligible THEN i ELSE None]
                         ELSE Resting
    /\ dirs' = IF dirs[i].there /\ dirs[i].owner = None THEN Discarded({i}) ELSE dirs
    /\ UNCHANGED <<process, binding, intent, inbox, actor, timers, jobs, inUse, collected, halts>>

\* Mutant: what was eligible before the listing is removed after it.
StillEligibleAsBefore(s) == TRUE
StillEligible(s) == ~Claimed(s) /\ s # intent

\* removeEligible, under sessionMu.
CleanupRemoves ==
    /\ Up /\ janitor.at # None
    /\ dirs' = IF dirs[janitor.at].there /\ StillEligible(dirs[janitor.at].owner) THEN Discarded({janitor.at}) ELSE dirs
    /\ janitor' = IF janitor.todo = {} THEN Resting ELSE [janitor EXCEPT !.at = None]
    /\ UNCHANGED <<process, binding, intent, inbox, actor, timers, jobs, inUse, collected, halts>>

-----------------------------------------------------------------------------
(* Shutdown, crash, restart.                                                 *)

\* The worker's context ends: teardown, then its goroutines are waited for.
Stop ==
    /\ Up /\ halts < MaxHalts
    /\ process' = "closing" /\ halts' = halts + 1
    /\ Teardown(None)
    /\ janitor' = Resting
    /\ UNCHANGED <<binding, intent, timers, collected>>

Exit ==
    /\ process = "closing" /\ jobs = {}
    /\ process' = "down"
    /\ timers' = {} /\ inUse' = {} /\ actor' = NewActor
    /\ UNCHANGED <<binding, intent, inbox, jobs, dirs, janitor, collected, halts>>

Crash ==
    /\ Up /\ halts < MaxHalts
    /\ process' = "down" /\ halts' = halts + 1
    /\ timers' = {} /\ jobs' = {} /\ inUse' = {} /\ janitor' = Resting /\ actor' = NewActor
    /\ UNCHANGED <<binding, intent, inbox, dirs, collected>>

\* Submitted inputs become uncertain, prompts that waited are cancelled, the queue and
\* the album are not built again; restoreWorkers claims the session, OMP comes later.
Restart ==
    /\ process = "down"
    /\ process' = "up"
    /\ inbox' = [i \in Inputs |-> IF inbox[i] = "submitted" THEN "ended"
                                  ELSE IF inbox[i] = "pending" THEN "dropped" ELSE inbox[i]]
    /\ actor' = [actor EXCEPT !.claim = binding.session]
    /\ UNCHANGED <<binding, intent, timers, jobs, dirs, inUse, janitor, collected, halts>>

Next ==
    \/ \E i \in Singles : QueueMedia(i)
    \/ \E i \in Members : AlbumBegins(i) \/ AlbumGrows(i) \/ AlbumRejected(i) \/ AlbumRefused(i)
    \/ SuppressionEnds
    \/ \E v \in timers : Seal(v)
    \/ \E j \in jobs : \/ PreparationBegins(j) \/ PreparationSucceeds(j) \/ PreparationFails(j)
                       \/ PreparedMedia(j) \/ Late(j)
    \/ (\E i \in Inputs : CancelQueued(i)) \/ DispatchRestores \/ Dispatch \/ TaskEnds
    \/ CommandRestores \/ RuntimeReleased \/ RuntimeExits \/ Close
    \/ (\E s \in SessionIds : ResumeBegins(s)) \/ \E claimed \in BOOLEAN : ResumeEnds(claimed)
    \/ PeriodPasses \/ CleanupBegins \/ (\E i \in Inputs : CleanupVisits(i)) \/ CleanupRemoves
    \/ Stop \/ Exit \/ Crash \/ Restart

Spec == Init /\ [][Next]_incomingVars

-----------------------------------------------------------------------------

\* The directory of a task is there from its preparation to its end, and holds every
\* message that was settled as a member of its album; the directory of a task that
\* was cancelled or failed is gone once its preparation has been seen, but after a crash.
DirectoriesMatchTasks ==
    /\ \A j \in jobs : j.step = "writing" => dirs[j.id].there
    /\ \A i \in Inputs :
         /\ (i = actor.active \/ i \in Held(Inputs)) =>
              /\ dirs[i].there /\ i \in inUse
              /\ \A m \in Inputs : collected[m] = i => m \in dirs[i].members
         /\ inbox[i] = "dropped" /\ ~(\E j \in jobs : j.id = i) /\ dirs[i].there
              => dirs[i].life < halts

\* While a session is being resumed, is claimed, or is open in the conversation's OMP,
\* no attachments of its ended tasks are removed, whatever the janitor had found out
\* before. The claim alone would not do: a failed restore gives it up.
OpenInOMP(s) == Connected /\ s = binding.session
KeepsResumed ==
    \A i \in Inputs :
        dirs[i].there /\ ~dirs'[i].there /\ inbox[i] = "ended"
            => dirs[i].owner # intent /\ ~Claimed(dirs[i].owner) /\ ~OpenInOMP(dirs[i].owner)
ResumedKeepTheirFiles == [][KeepsResumed]_incomingVars
-----------------------------------------------------------------------------
\* The types, and what makes the two inductive: an input in the queue is being
\* fetched, by a job or because its album is open, or is held; the janitor has none
\* of these in its hands.

EntryType == [id : Inputs, preparing : BOOLEAN]
AlbumType == [owner : Inputs \cup {None}, members : SUBSET Inputs, version : Nat]
ActorType == [queue : Seq(EntryType), album : AlbumType, suppressed : BOOLEAN, active : Inputs \cup {None},
              claim : SessionIds \cup {None}, runtime : {"released", "connected", "failed"}]
JobType == [id : Inputs, generation : Nat, owner : SessionIds \cup {None}, members : SUBSET Inputs,
            step : {"waiting", "writing", "ended"}, cancelled : BOOLEAN, ok : BOOLEAN]
DirType == [there : BOOLEAN, owner : SessionIds \cup {None}, old : BOOLEAN, members : SUBSET Inputs, life : Nat]

TypeOK ==
    /\ process \in {"up", "closing", "down"}
    /\ binding \in [session : SessionIds \cup {None}, generation : Nat]
    /\ intent \in SessionIds \cup {None}
    /\ inbox \in [Inputs -> {"unsent", "new", "pending", "submitted", "ended", "dropped"}]
    /\ actor \in ActorType
    /\ jobs \subseteq JobType
    /\ dirs \in [Inputs -> DirType]
    /\ inUse \subseteq Inputs
    /\ janitor \in [todo : SUBSET Inputs, starts : SessionIds \cup {None}, at : Inputs \cup {None}]
    /\ collected \in [Inputs -> Inputs \cup {None}]
    /\ halts \in Nat

IdsDiffer ==
    \A m, n \in DOMAIN actor.queue : actor.queue[m].id = actor.queue[n].id => m = n

Fetching == {i \in Inputs : Preparing(i)}
Waiting == {i \in Inputs : Queued(i)}
Cleaned == janitor.todo \cup {janitor.at}
Collected(i) == {m \in Inputs : collected[m] = i}

\* What the inbox says of the messages, and what becomes of them when the bridge stops.
InboxFollows ==
    /\ \A i \in Waiting : inbox[i] = "pending"
    /\ actor.active # None => inbox[actor.active] = "submitted"
    /\ binding.session = None => Waiting = {} /\ actor.active = None
    /\ process # "up" => Waiting = {} /\ actor.active = None /\ janitor = Resting
    /\ process # "down" => \A i \in Inputs : /\ inbox[i] = "pending" => i \in Waiting
                                             /\ inbox[i] = "submitted" => i = actor.active
    /\ process = "down" => jobs = {}

\* The claim is of the conversation's session, and OMP runs only while it is held.
ClaimFits ==
    /\ actor.claim \in {None, binding.session}
    /\ Connected => actor.claim # None

\* Of each input there is at most one preparation, and its directory is as the
\* preparation left it.
JobFits(j) ==
    /\ \A k \in jobs : k.id = j.id => k = j
    /\ j.id \in Fetching \/ inbox[j.id] = "dropped"
    /\ j.id # actor.album.owner /\ j.id \notin Cleaned
    /\ Collected(j.id) \subseteq j.members
    /\ dirs[j.id].there => ~dirs[j.id].old
    /\ j.step = "waiting" \/ (j.step = "ended" /\ ~j.ok) => ~dirs[j.id].there
    /\ j.step = "writing" => dirs[j.id].there
    /\ j.step = "ended" /\ j.ok => j.owner # None
    /\ j.step = "ended" /\ j.ok =>
         dirs[j.id].there /\ dirs[j.id].owner = j.owner /\ dirs[j.id].members = j.members
JobsFit == \A j \in jobs : JobFits(j)

AlbumFits ==
    LET album == actor.album
    IN  album.owner # None => album.owner \in Fetching /\ Collected(album.owner) \subseteq album.members

DirFits(i) ==
    /\ inbox[i] \in {"unsent", "new"} => ~dirs[i].there /\ i \notin Cleaned /\ Collected(i) = {}
    /\ i \in Fetching /\ dirs[i].there => \E j \in jobs : j.id = i
    /\ i \in Waiting \/ i = actor.active => i \notin Cleaned
    /\ i \in Waiting \ Fetching \/ i = actor.active =>
         /\ dirs[i].there /\ i \in inUse
         /\ dirs[i].owner # None /\ Collected(i) \subseteq dirs[i].members
    /\ inbox[i] \in {"submitted", "ended"} /\ dirs[i].there => dirs[i].owner # None
    /\ dirs[i].life <= halts
    /\ inbox[i] = "dropped" /\ ~(\E j \in jobs : j.id = i) /\ dirs[i].there => dirs[i].life < halts
    /\ inbox[i] = "pending" /\ process = "down" /\ dirs[i].there => dirs[i].life < halts
DirsFit == \A i \in Inputs : DirFits(i)

IInv == TypeOK /\ IdsDiffer /\ InboxFollows /\ ClaimFits /\ JobsFit /\ AlbumFits /\ DirsFit
=============================================================================
