------------------------------- MODULE Parts -------------------------------
(***************************************************************************)
(* The parts of the bridge that share no state with each other, as one     *)
(* specification: a behaviour is one of the part it starts with.  Sessions *)
(* has its own variables.  The other parts put their state into x1 .. x12, *)
(* under the names their modules give it, and leave those they do not need *)
(* at 0.                                                                   *)
(***************************************************************************)
EXTENDS Sessions

CONSTANTS
    Triple,  \* commands, or messages of an album
    Singles, \* an export, or messages with one attachment
    Source,  \* the session a migration starts from
    \* The bounds of each part, under the names its module gives them.
    MaxCrashes,
    MaxRows, MaxEpochs, MaxStops,
    MaxMessages, MaxAlbumItems, Capacity, MediaSlots, MaxTimers, MaxBindings,
    MaxHostRequests,
    MaxInputs, MaxClients, MaxEvents, MaxRevisions

ASSUME PartsAssumption ==
    /\ Source \in SessionIds
    /\ IsFiniteSet(Triple)
    /\ Conversations \cap Singles = {} /\ None \notin Conversations \cup Singles \cup Triple \cup Existing

VARIABLES
    part,
    x1, x2, x3, x4, x5, x6, x7, x8, x9, x10, x11, x12

partVars == <<sessionVars, part, x1, x2, x3, x4, x5, x6, x7, x8, x9, x10, x11, x12>>

M == INSTANCE Migration WITH
    up <- x1, crashes <- x2, row <- x3, binding <- x4, input <- x5, journal <- x6, rival <- x7,
    reserved <- x8, actor <- x9, procs <- x10, jobs <- x11, last <- x12,
    Inputs <- Triple
P == INSTANCE Progress WITH
    process <- x1, stops <- x2, inbox <- x3, rows <- x4, records <- x5, posts <- x6, sends <- x7,
    doomed <- x8, actor <- x9,
    Roots <- Conversations
I == INSTANCE Incoming WITH
    process <- x1, binding <- x2, intent <- x3, inbox <- x4, actor <- x5, timers <- x6,
    jobs <- x7, dirs <- x8, inUse <- x9, janitor <- x10, collected <- x11, halts <- x12,
    Members <- Triple, SessionIds <- Existing, MaxGeneration <- MaxBindings
F == INSTANCE Snapshots WITH
    process <- x1, asked <- x2, actor <- x3, jobs <- x4, claim <- x5, rival <- x6, file <- x7,
    row <- x8, leftover <- x9, listed <- x10, halts <- x11,
    Sends <- Conversations, Exports <- Singles, MaxGeneration <- MaxBindings
R == INSTANCE Research WITH
    mode <- x1, o <- x2, w <- x3

\* The variables past those of a part.
Rest11 == <<x12>>
Rest9 == <<x10, x11, Rest11>>
Rest3 == <<x4, x5, x6, x7, x8, x9, Rest9>>
Rest == <<x1, x2, x3, Rest3>>
Unused11 == x12 = 0
Unused9 == x10 = 0 /\ x11 = 0 /\ Unused11
Unused3 == x4 = 0 /\ x5 = 0 /\ x6 = 0 /\ x7 = 0 /\ x8 = 0 /\ x9 = 0 /\ Unused9
Unused == x1 = 0 /\ x2 = 0 /\ x3 = 0 /\ Unused3

PartsInit ==
    /\ Init
    /\ \/ part = "sessions" /\ Unused
       \/ part = "migration" /\ M!Init
       \/ part = "progress" /\ P!Init /\ Unused9
       \/ part = "attachments" /\ I!Init
       \/ part = "snapshots" /\ F!Init /\ Unused11
       \/ part = "research" /\ R!Init /\ Unused3

PartNext ==
    \/ part = "migration" /\ M!Next
    \/ part = "progress" /\ P!Next /\ UNCHANGED Rest9
    \/ part = "attachments" /\ I!Next
    \/ part = "snapshots" /\ F!Next /\ UNCHANGED Rest11
    \/ part = "research" /\ R!Next /\ UNCHANGED Rest3

PartsNext ==
    /\ UNCHANGED part
    /\ \/ part = "sessions" /\ Next /\ UNCHANGED Rest
       \/ PartNext /\ UNCHANGED sessionVars

PartsSpec == PartsInit /\ [][PartsNext]_partVars

-----------------------------------------------------------------------------
\* Migration: while one is unresolved nobody else has its source or candidate, and the
\* conversation never has two processes, through cancellations and crashes (cancelMigration,
\* recoverMigration, observeMigrationCandidate).
MigrationIsAlone == part = "migration" => M!BothReserved /\ M!OneProcess

\* Migration: the binding moves only in the step that resolves the migration, to a
\* verified candidate or back to the source the user chose (migrationFinished,
\* publishMigration).
PublishesVerified == [][part = "migration" => M!Publishes]_partVars

\* Progress: a preview is deleted only after all parts of the replies that replace it
\* have been delivered, also after a restart (CompletedProgressMessages,
\* cleanupDeliveredProgress).
DeletesOnlyReplaced == [][part = "progress" => P!DeletesReplaced]_partVars

\* Progress: a confirmed preview is known until it is deleted, and the replies it waits
\* for are kept as long (previewFinished, CleanupMessages).
PreviewsAreKnown == part = "progress" => P!NothingForgotten /\ P!RowsOutlivePreviews

\* Attachments: a queued or running task has the directory with all its files, a
\* cancelled or failed one leaves none (preparedMedia, sealAlbum, discardIncoming).
DirectoriesMatchTasks == part = "attachments" => I!DirectoriesMatchTasks

\* Attachments: no directory of an ended task is removed while its session is being
\* resumed, is claimed or is open in the conversation's OMP, although the janitor decided
\* before (cleanupIncomingAttachments, whose removeEligible checks again under sessionMu).
ResumedKeepTheirFiles == [][part = "attachments" => I!KeepsResumed]_partVars

\* Snapshots: a row that can still be sent has its file, and an export keeps its session
\* while it copies (reconcileOutboxSnapshots, beginExportWithArgs).
FilesOutliveUse == part = "snapshots" => F!RowHasFile /\ F!ExportHasSession

\* Autoresearch: an ordinary root never runs while the session records that research is
\* on; the mode was read some calls before its prompt left (researchAdmissionReady).
OrdinaryRootsRunWithoutResearch == part = "research" => R!OrdinaryRootsRunWithoutResearch

\* Autoresearch: research is reported off only when the session records it, and a
\* research root is done only when OMP is (researchSettlementFinished).
ResearchEndsConfirmed == [][part = "research" => R!ConfirmsOff /\ R!SettlesOver]_partVars
=============================================================================
