------------------------------ MODULE Sessions ------------------------------
(* Who owns an OMP session: the bindings and start intents in the database,  *)
(* the logical claims, the runtimes and the delete claims in memory, the     *)
(* session files on disk, through starts, lazy restores, deletions and       *)
(* restarts of the bridge.                                                   *)
EXTENDS Integers, FiniteSets

CONSTANTS
    Conversations,
    SessionIds,
    Existing,      \* sessions that OMP saved before the bridge first ran
    None,
    MaxGeneration, \* bound on the generation of a binding
    MaxHalts       \* bound on stops and crashes of the bridge

ASSUME NoneAssumption == None \notin SessionIds

VARIABLES
    running,  \* "up", "down", or "refused": Run returned an error from restoreWorkers
    binding,  \* the row of bindings, or NoBinding
    intent,   \* the row of startup_intents, or NoIntent
    file,     \* the session file: "none" yet, "there" or "gone"
    doubtful, \* sessions whose deletion happened without a confirmation
    worker,   \* what the actor of a conversation knows and does
    deletion, \* the session deletion an actor has begun
    halts

sessionVars == <<running, binding, intent, file, doubtful, worker, deletion, halts>>

NoBinding == [session |-> None, generation |-> 0, running |-> FALSE]
NoIntent == [kind |-> "none", session |-> None, generation |-> 0]
NoDeletion == [session |-> None, bound |-> None, step |-> "none"]

\* cached is w.binding and held is w.startIntent; claim is the entry of sessionClaims
\* that w owns, runtime the pair sessionRuntimeStarting and sessionRuntimeActive, omp
\* the session its process has open; step, how, aim and old belong to a start.
NewWorker(b, i) ==
    [cached |-> b, held |-> i, claim |-> None, runtime |-> "released", omp |-> None,
     step |-> "idle", how |-> "none", aim |-> None, old |-> NoBinding]

Init ==
    /\ running = "up"
    /\ binding = [c \in Conversations |-> NoBinding]
    /\ intent = [c \in Conversations |-> NoIntent]
    /\ file = [s \in SessionIds |-> IF s \in Existing THEN "there" ELSE "none"]
    /\ doubtful = {}
    /\ worker = [c \in Conversations |-> NewWorker(NoBinding, NoIntent)]
    /\ deletion = [c \in Conversations |-> NoDeletion]
    /\ halts = 0

-----------------------------------------------------------------------------
(* Claims, all read and written under sessionMu.                             *)

ClaimedByOther(c, s) == \E d \in Conversations \ {c} : worker[d].claim = s
BeingDeleted(s) == \E d \in Conversations : deletion[d].session = s
RuntimeOn(s) == \E d \in Conversations : worker[d].claim = s /\ worker[d].runtime # "released"
ResumePending(s) == \E d \in Conversations : intent[d].kind = "resume" /\ intent[d].session = s

Idle(c) == running = "up" /\ worker[c].step = "idle"
At(c, step) == running = "up" /\ worker[c].step = step

Ended(w) == [w EXCEPT !.step = "idle", !.how = "none", !.aim = None, !.old = NoBinding]

\* teardownWorker: the process is closed, then releaseSession.
Teardown(w) == Ended([w EXCEPT !.claim = None, !.runtime = "released", !.omp = None])

-----------------------------------------------------------------------------
(* An explicit start: /new, or /resume with a session id.                    *)

\* The checks that start makes before it takes the lock.
AskStart(c, how, s) ==
    /\ Idle(c)
    /\ worker[c].held = NoIntent
    /\ deletion[c].step = "none"
    /\ how = "resume" => ~ClaimedByOther(c, s) /\ ~BeingDeleted(s)
    /\ binding[c].generation < MaxGeneration
    /\ worker' = [worker EXCEPT ![c].step = "checked", ![c].how = how,
                                ![c].aim = s, ![c].old = binding[c]]
    /\ UNCHANGED <<running, binding, intent, file, doubtful, deletion, halts>>

AskNew(c) == AskStart(c, "new", None)
AskResume(c, s) == file[s] # "none" /\ AskStart(c, "resume", s)

\* PrepareStart wants the binding as start read it; it stops being running.
Preparable(c) ==
    /\ binding[c].generation = worker[c].old.generation
    /\ worker[c].old.running => binding[c].running
    /\ intent[c] = NoIntent

NotDeletedNow(c) == worker[c].how = "resume" => ~BeingDeleted(worker[c].aim)

\* The argument replace of start: /new tears down only what it has asked about, the
\* running conversation; a resume always does.
Replaces(w) == w.how = "resume" \/ w.cached.running

\* The lock covers the check of the delete claims and PrepareStart; then the
\* runtime the conversation had is torn down.
Prepared(c) ==
    LET w == worker[c]
        left == IF Replaces(w) THEN Teardown(w) ELSE Ended(w)
        i == [kind |-> w.how, session |-> w.aim, generation |-> w.old.generation + 1]
    IN  /\ Preparable(c)
        /\ binding' = [binding EXCEPT ![c].running = FALSE]
        /\ intent' = [intent EXCEPT ![c] = i]
        /\ worker' = [worker EXCEPT ![c] =
               [left EXCEPT !.step = "prepared", !.how = w.how, !.aim = w.aim, !.held = i,
                            !.cached = [w.old EXCEPT !.running = FALSE]]]
        /\ UNCHANGED <<running, file, doubtful, deletion, halts>>

\* Mutant: the delete claims are not read again under the lock.
PrepareUnchecked(c) == At(c, "checked") /\ Prepared(c)
Prepare(c) == At(c, "checked") /\ NotDeletedNow(c) /\ Prepared(c)

PrepareRefused(c) ==
    /\ At(c, "checked")
    /\ ~NotDeletedNow(c) \/ ~Preparable(c)
    /\ worker' = [worker EXCEPT ![c] = Ended(@)]
    /\ UNCHANGED <<running, binding, intent, file, doubtful, deletion, halts>>

-----------------------------------------------------------------------------
(* A lazy restore of the released runtime of a running binding.              *)

\* beginSessionRestore compares with the database and claims under the lock.
Restorable(c) ==
    LET s == worker[c].cached.session
    IN  ~BeingDeleted(s) /\ ~ClaimedByOther(c, s) /\ binding[c] = worker[c].cached

\* ensureRuntime: the runtime is marked as starting with the claim.
BeginRestore(c) ==
    LET w == worker[c]
        s == w.cached.session
    IN  /\ Idle(c)
        /\ w.omp = None
        /\ w.cached.running
        /\ file[s] = "there"
        /\ Restorable(c)
        /\ worker' = [worker EXCEPT ![c].step = "prepared", ![c].how = "lazy", ![c].aim = s,
                                    ![c].claim = s, ![c].runtime = "starting"]
        /\ UNCHANGED <<running, binding, intent, file, doubtful, deletion, halts>>

-----------------------------------------------------------------------------
(* From the process to the committed binding, for both kinds of start.       *)

\* OMP opens the session it resumes, or a new one.
Opens(w, s) ==
    IF w.how = "new" THEN file[s] = "none" /\ \A d \in Conversations : worker[d].omp # s
                     ELSE s = w.aim /\ file[s] = "there"

Launch(c) ==
    /\ At(c, "prepared")
    /\ \E s \in SessionIds :
         /\ Opens(worker[c], s)
         /\ worker' = [worker EXCEPT ![c].step = "launched", ![c].omp = s, ![c].runtime = "active"]
    /\ UNCHANGED <<running, binding, intent, file, doubtful, deletion, halts>>

\* omp.Start failed: the intent of an explicit start stays, a lazy one lets go.
LaunchFails(c) ==
    /\ At(c, "prepared")
    /\ LET w == worker[c]
       IN  worker' = [worker EXCEPT ![c] =
               Ended([w EXCEPT !.runtime = "released",
                               !.claim = IF w.how = "lazy" THEN None ELSE @])]
    /\ UNCHANGED <<running, binding, intent, file, doubtful, deletion, halts>>

\* SessionInfo, its validation, and claimSession under the lock.  OMP saves a new
\* session when it has something to save, later than this; nobody lists it before.
Claimable(c) == ~ClaimedByOther(c, worker[c].omp) /\ ~BeingDeleted(worker[c].omp)

ClaimedNow(c) ==
    /\ worker' = [worker EXCEPT ![c].step = "claimed", ![c].claim = worker[c].omp]
    /\ file' = [file EXCEPT ![worker[c].omp] = IF @ = "none" THEN "there" ELSE @]
    /\ UNCHANGED <<running, binding, intent, doubtful, deletion, halts>>

\* Mutant: only other deletions stand in the way of a claim.
ClaimUnchecked(c) == At(c, "launched") /\ ~BeingDeleted(worker[c].omp) /\ ClaimedNow(c)
Claim(c) == At(c, "launched") /\ Claimable(c) /\ ClaimedNow(c)

\* CommitStart: one transaction for the binding and the end of its intent.
CommitStart(c, b) ==
    /\ intent[c].generation = b.generation
    /\ binding' = [binding EXCEPT ![c] = b]
    /\ intent' = [intent EXCEPT ![c] = NoIntent]

\* The host tools are registered; a lazy restore has nothing to commit.
Commit(c) ==
    LET w == worker[c]
        b == [session |-> w.omp, generation |-> w.held.generation, running |-> TRUE]
    IN  /\ At(c, "claimed")
        /\ IF w.how = "lazy"
             THEN /\ worker' = [worker EXCEPT ![c] = Ended(w)]
                  /\ UNCHANGED <<binding, intent>>
             ELSE /\ CommitStart(c, b)
                  /\ worker' = [worker EXCEPT ![c] =
                         Ended([w EXCEPT !.cached = b, !.held = NoIntent])]
        /\ UNCHANGED <<running, file, doubtful, deletion, halts>>

\* SessionInfo, the validation, the claim, the host tools or the commit failed.
StartFails(c) ==
    /\ At(c, "launched") \/ At(c, "claimed")
    /\ worker' = [worker EXCEPT ![c].step = "failed"]
    /\ UNCHANGED <<running, binding, intent, file, doubtful, deletion, halts>>

\* closeFailedStart of a lazy restore: release the runtime, then the claim.
FailedRestoreCloses(c) ==
    /\ At(c, "failed") /\ worker[c].how = "lazy"
    /\ worker' = [worker EXCEPT ![c] = Teardown(@)]
    /\ UNCHANGED <<running, binding, intent, file, doubtful, deletion, halts>>

\* persistClosed: the update wants the generation the actor knows.
PersistClosed(c) ==
    LET w == worker[c]
    IN  binding' = IF w.cached.running /\ binding[c].generation = w.cached.generation
                     THEN [binding EXCEPT ![c].running = FALSE] ELSE binding

\* closeLogicalSession, for /close and after a failed start: cancelStart, then
\* persistClosed, then the teardown.
LetGo(c) ==
    /\ intent' = [intent EXCEPT ![c] = NoIntent]
    /\ PersistClosed(c)
    /\ worker' = [worker EXCEPT ![c].held = NoIntent, ![c].cached.running = FALSE,
                                ![c].step = "closing", ![c].how = "none", ![c].aim = None]
    /\ UNCHANGED <<running, file, doubtful, deletion, halts>>

FailedStartLetsGo(c) == At(c, "failed") /\ worker[c].how # "lazy" /\ LetGo(c)
Close(c) == Idle(c) /\ (worker[c].held # NoIntent \/ worker[c].cached.running) /\ LetGo(c)

FinishClose(c) ==
    /\ At(c, "closing")
    /\ worker' = [worker EXCEPT ![c] = Teardown(@)]
    /\ UNCHANGED <<running, binding, intent, file, doubtful, deletion, halts>>

-----------------------------------------------------------------------------

\* An idle runtime is released, or its process exits: the claim stays.
ReleaseRuntime(c) ==
    /\ Idle(c)
    /\ worker[c].omp # None
    /\ worker' = [worker EXCEPT ![c].omp = None, ![c].runtime = "released"]
    /\ UNCHANGED <<running, binding, intent, file, doubtful, deletion, halts>>

\* expireStartIntent after the retention period.
ExpireIntent(c) ==
    /\ Idle(c)
    /\ worker[c].omp = None /\ worker[c].held # NoIntent
    /\ intent' = [intent EXCEPT ![c] = NoIntent]
    /\ worker' = [worker EXCEPT ![c].held = NoIntent]
    /\ UNCHANGED <<running, binding, file, doubtful, deletion, halts>>

\* DeleteClosedBinding from the binding list of any conversation: the actor of a
\* closed binding is not told.
ForgetClosed(c) ==
    /\ running = "up"
    /\ binding[c] # NoBinding /\ ~binding[c].running
    /\ intent[c] = NoIntent
    /\ binding' = [binding EXCEPT ![c] = NoBinding]
    /\ UNCHANGED <<running, intent, file, doubtful, worker, deletion, halts>>

\* forgetBinding asked of the actor of a running binding, which ends with it.
ForgetRunning(c) ==
    /\ Idle(c)
    /\ worker[c].cached.running /\ worker[c].held = NoIntent /\ deletion[c].step = "none"
    /\ binding[c].generation \in {0, worker[c].cached.generation}
    /\ binding' = [binding EXCEPT ![c] = NoBinding]
    /\ worker' = [worker EXCEPT ![c] = NewWorker(NoBinding, NoIntent)]
    /\ UNCHANGED <<running, intent, file, doubtful, deletion, halts>>

-----------------------------------------------------------------------------
(* Deleting a native session, from a session list or with a closed binding.  *)

\* reserveDelete: an idle claim does not stand in its way, a runtime does.
Reservable(s) == ~RuntimeOn(s) /\ ~BeingDeleted(s)

ReserveDelete(d, s, b) ==
    /\ Idle(d)
    /\ deletion[d].step = "none"
    /\ file[s] # "none"
    /\ b # None => binding[b].session = s /\ ~binding[b].running
    /\ Reservable(s)
    /\ deletion' = [deletion EXCEPT ![d] = [session |-> s, bound |-> b, step |-> "reserved"]]
    /\ UNCHANGED <<running, binding, intent, file, doubtful, worker, halts>>

\* The binding is read again, sessionDeleteAvailable looks for a pending resume.
StillDeletable(x) ==
    x.bound # None => binding[x.bound].session = x.session /\ ~binding[x.bound].running

StartDeletion(d, available) ==
    /\ Idle(d) /\ deletion[d].step = "reserved"
    /\ deletion' = [deletion EXCEPT ![d] =
           IF available /\ StillDeletable(@) THEN [@ EXCEPT !.step = "native"] ELSE NoDeletion]
    /\ UNCHANGED <<running, binding, intent, file, doubtful, worker, halts>>

\* Mutant: pending resumes are not looked for.
CheckDeletionBlindly(d) == StartDeletion(d, TRUE)
CheckDeletion(d) == StartDeletion(d, ~ResumePending(deletion[d].session))

\* DeleteSession: a process of its own resumes the session, verifies it and gives the
\* native command, after which the removed file may stay without a confirmation.
FileRemoved(d) ==
    LET s == deletion[d].session
    IN  /\ file[s] = "there"
        /\ file' = [file EXCEPT ![s] = "gone"]
        /\ \/ deletion' = [deletion EXCEPT ![d].step = "deleted"] /\ UNCHANGED doubtful
           \/ deletion' = [deletion EXCEPT ![d].step = "failed"] /\ doubtful' = doubtful \cup {s}

NotDeleted(d) ==
    /\ deletion' = [deletion EXCEPT ![d].step = "failed"]
    /\ UNCHANGED <<file, doubtful>>

\* DeleteBoundSession: the file of a bound session may be missing already.
BoundSessionMissing(d) ==
    /\ file[deletion[d].session] = "gone" /\ deletion[d].bound # None
    /\ deletion' = [deletion EXCEPT ![d].step = "deleted"]
    /\ UNCHANGED <<file, doubtful>>

NativeDeletion(d) ==
    /\ running = "up" /\ deletion[d].step = "native"
    /\ FileRemoved(d) \/ NotDeleted(d) \/ BoundSessionMissing(d)
    /\ UNCHANGED <<running, binding, intent, worker, halts>>

\* deleteSessionReferences, whichever conversation they belong to.
DeleteReferences(s) ==
    binding' = [c \in Conversations |->
                   IF binding[c].session = s THEN NoBinding ELSE binding[c]]

DeletionFailed(d) ==
    /\ running = "up" /\ deletion[d].step = "failed"
    /\ deletion' = [deletion EXCEPT ![d] = NoDeletion]
    /\ UNCHANGED <<running, binding, intent, file, doubtful, worker, halts>>

\* sessionDeleteFinished: the references of every conversation go in one
\* transaction, and the claims of those without a runtime.
DeletionFinished(d) ==
    LET s == deletion[d].session
    IN  /\ running = "up" /\ deletion[d].step = "deleted"
        /\ DeleteReferences(s)
        /\ worker' = [c \in Conversations |->
                         IF worker[c].claim = s /\ worker[c].runtime = "released"
                           THEN [worker[c] EXCEPT !.claim = None] ELSE worker[c]]
        /\ deletion' = [deletion EXCEPT ![d] = NoDeletion]
        /\ UNCHANGED <<running, intent, file, doubtful, halts>>

-----------------------------------------------------------------------------
(* Stops, crashes and restarts.                                              *)

Halt ==
    /\ running = "up" /\ halts < MaxHalts
    /\ running' = "down"
    /\ halts' = halts + 1
    /\ worker' = [c \in Conversations |-> NewWorker(NoBinding, NoIntent)]
    /\ deletion' = [c \in Conversations |-> NoDeletion]
    /\ UNCHANGED <<binding, intent, file, doubtful>>

Restored == {c \in Conversations : binding[c].running}
Conflicting == \E c, d \in Restored : c # d /\ binding[c].session = binding[d].session

\* restoreWorkers: expired intents go, the running bindings are claimed, the other
\* conversations with an intent get an actor that holds it.
Restart ==
    /\ running = "down" /\ ~Conflicting
    /\ running' = "up"
    /\ \E expired \in SUBSET Conversations :
         LET left == [c \in Conversations |-> IF c \in expired THEN NoIntent ELSE intent[c]]
         IN  /\ intent' = left
             /\ worker' = [c \in Conversations |->
                    IF c \in Restored
                      THEN [NewWorker(binding[c], NoIntent) EXCEPT !.claim = binding[c].session,
                                                                   !.step = "restoring"]
                      ELSE NewWorker(binding[c], left[c])]
    /\ UNCHANGED <<binding, file, doubtful, deletion, halts>>

RestartRefused ==
    /\ running = "down" /\ Conflicting
    /\ running' = "refused"
    /\ UNCHANGED <<binding, intent, file, doubtful, worker, deletion, halts>>

\* restoreBinding: a binding without its session file is closed and not claimed.
RestoreBinding(c) ==
    /\ At(c, "restoring")
    /\ IF file[worker[c].cached.session] = "there"
         THEN worker' = [worker EXCEPT ![c].step = "idle"] /\ UNCHANGED binding
         ELSE /\ worker' = [worker EXCEPT ![c] = [Teardown(@) EXCEPT !.cached.running = FALSE]]
              /\ PersistClosed(c)
    /\ UNCHANGED <<running, intent, file, doubtful, deletion, halts>>

-----------------------------------------------------------------------------

Starting(c) ==
    \/ AskNew(c) \/ \E s \in SessionIds : AskResume(c, s)
    \/ Prepare(c) \/ PrepareRefused(c) \/ BeginRestore(c)
    \/ Launch(c) \/ LaunchFails(c) \/ Claim(c) \/ Commit(c) \/ StartFails(c)

Ending(c) ==
    \/ FailedRestoreCloses(c) \/ FailedStartLetsGo(c) \/ Close(c) \/ FinishClose(c)
    \/ ReleaseRuntime(c) \/ ExpireIntent(c) \/ ForgetClosed(c) \/ ForgetRunning(c)

Deleting(c) ==
    \/ \E s \in SessionIds, b \in Conversations \cup {None} : ReserveDelete(c, s, b)
    \/ CheckDeletion(c) \/ NativeDeletion(c) \/ DeletionFailed(c) \/ DeletionFinished(c)

Next ==
    \/ \E c \in Conversations : Starting(c) \/ Ending(c) \/ Deleting(c) \/ RestoreBinding(c)
    \/ Halt \/ Restart \/ RestartRefused

Spec == Init /\ [][Next]_sessionVars

-----------------------------------------------------------------------------

\* No session is claimed by two conversations.
ClaimsDiffer ==
    \A c, d \in Conversations : c # d /\ worker[c].claim # None => worker[c].claim # worker[d].claim

\* Outside of a start, and in one from the claim on, no process has a session open that
\* another conversation has claimed. Before the claim it may, and is closed then.
PastClaim(c) == worker[c].step \in {"idle", "checked", "claimed", "restoring"}
OpensNoOthers ==
    \A c \in Conversations :
        PastClaim(c) /\ worker[c].omp # None => ~ClaimedByOther(c, worker[c].omp)

\* Whatever starts, restores, deletions and restarts run at a time, a session has one
\* owner: one claim, and behind it the only process that is past its start. Running
\* bindings are not claims: two of them may name a session (RestartCanClaim).
OneOwner == ClaimsDiffer /\ OpensNoOthers

\* Native deletion never takes the file from under a conversation that owns it with a
\* runtime, or that is about to.
DeletesIdle ==
    \A s \in SessionIds : file[s] = "there" /\ file'[s] = "gone" =>
        \A c \in Conversations : worker[c].step \in {"idle", "launched", "claimed"} => worker[c].omp # s
DeletesOnlyIdle == [][DeletesIdle]_sessionVars

\* After a confirmed deletion no conversation keeps a running binding to the session.
DeletedIsForgotten ==
    running = "up" =>
        \A c \in Conversations :
            binding[c].running /\ worker[c].step # "restoring" /\ ~BeingDeleted(binding[c].session)
                => file[binding[c].session] = "there" \/ binding[c].session \in doubtful

\* An intent in the database has an actor that can commit, cancel or expire it.
IntentsAreHeld ==
    running = "up" =>
        \A c \in Conversations : intent[c] = worker[c].held

\* After a crash at any step, a running binding names a session OMP still has, and each
\* recorded intent has an actor to commit, cancel or expire it (restoreWorkers,
\* PrepareStart, expireStartIntent, deleteSessionReferences).
BindingsRecover == DeletedIsForgotten /\ IntentsAreHeld

\* A binding that is running can be claimed again: no two bindings name a session.
RestartCanClaim == ~Conflicting
=============================================================================
