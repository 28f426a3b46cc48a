----------------------------- MODULE Snapshots -----------------------------
(* The spool of outgoing attachments: what OMP asks to send and what the user *)
(* exports is copied into a private file beside the actor, becomes a row of   *)
(* the outbox, and is removed after the delivery or by the janitor.           *)
EXTENDS Integers, FiniteSets

CONSTANTS
    Sends,     \* host tool calls telegram_send
    Exports,   \* exports of one session
    None,
    MaxHostRequests,
    MaxGeneration,
    MaxHalts

Files == Sends \cup Exports

VARIABLES
    process,   \* "up", "closing" or "down"
    asked,     \* the requests and exports that have been made
    actor,     \* the fields of the worker
    jobs,      \* copies under way, and results the actor has not taken
    claim,     \* the conversation's entry of exportClaims
    rival,     \* another conversation works in the session
    file,      \* the snapshots: "none", "fresh" or "old"
    row,       \* state of the outbox row that names the snapshot, or "none"
    leftover,  \* snapshots of rows that are terminal or deleted, about to be removed
    listed,    \* the paths of the outbox as the janitor read them, or None
    halts

snapshotVars == <<process, asked, actor, jobs, claim, rival, file, row, leftover, listed, halts>>

\* requests is w.hostRequests, export the export exportCancel belongs to, current
\* whether it is the one of exportRequest; generation stands for client and binding.
NewActor == [generation |-> 1, requests |-> {}, export |-> None, current |-> FALSE]

Init ==
    /\ process = "up"
    /\ asked = {}
    /\ actor = NewActor
    /\ jobs = {}
    /\ claim = FALSE /\ rival = FALSE
    /\ file = [f \in Files |-> "none"] /\ row = [f \in Files |-> "none"]
    /\ leftover = {} /\ listed = None
    /\ halts = 0

-----------------------------------------------------------------------------
(* Copies.                                                                   *)

Up == process = "up"

Job(f) == [file |-> f, generation |-> actor.generation, step |-> "copying", cancelled |-> FALSE, ok |-> FALSE]
Cancelled(S) == {IF j.file \in S /\ j.step = "copying" THEN [j EXCEPT !.cancelled = TRUE] ELSE j : j \in jobs}

Removed(S) == [f \in Files |-> IF f \in S THEN "none" ELSE file[f]]

\* hostSend of a running task; too many pending requests are refused.
HostSend(f) ==
    /\ Up /\ f \notin asked
    /\ asked' = asked \cup {f}
    /\ IF Cardinality(actor.requests) >= MaxHostRequests
         THEN UNCHANGED <<actor, jobs>>
         ELSE actor' = [actor EXCEPT !.requests = @ \cup {f}] /\ jobs' = jobs \cup {Job(f)}
    /\ UNCHANGED <<process, claim, rival, file, row, leftover, listed, halts>>

\* beginExport: the session is reserved first, unless another conversation has it.
BeginExport(f) ==
    /\ Up /\ f \notin asked /\ actor.export = None
    /\ asked' = asked \cup {f}
    /\ IF rival \/ claim
         THEN UNCHANGED <<actor, jobs, claim>>
         ELSE /\ claim' = TRUE
              /\ actor' = [actor EXCEPT !.export = f, !.current = TRUE]
              /\ jobs' = jobs \cup {Job(f)}
    /\ UNCHANGED <<process, rival, file, row, leftover, listed, halts>>

\* The temporary file is there before its contents are.
CopyBegins(j) ==
    /\ process # "down" /\ j.step = "copying" /\ file[j.file] = "none" /\ ~j.cancelled
    /\ file' = [file EXCEPT ![j.file] = "fresh"]
    /\ UNCHANGED <<process, asked, actor, jobs, claim, rival, row, leftover, listed, halts>>

\* Snapshot, SnapshotSession: complete and synced, or removed again.
CopyEnds(j) ==
    /\ process # "down" /\ j.step = "copying"
    /\ \E ok \in {TRUE, FALSE} :
         /\ IF ok THEN file[j.file] # "none" ELSE TRUE
         /\ jobs' = (jobs \ {j}) \cup {[j EXCEPT !.step = "ended", !.ok = ok]}
         /\ file' = IF ok THEN file ELSE Removed({j.file})
    /\ UNCHANGED <<process, asked, actor, claim, rival, row, leftover, listed, halts>>

-----------------------------------------------------------------------------
(* The actor takes the results.                                              *)

Result(r) == Up /\ r.step = "ended"

\* EnqueueAttachment, whose row owns the file from now on.
Enqueued(f) == row' = [row EXCEPT ![f] = "pending"] /\ UNCHANGED file

PreparedSend(r) ==
    /\ Result(r) /\ r.file \in Sends
    /\ jobs' = jobs \ {r}
    /\ IF r.file \in actor.requests /\ r.generation = actor.generation
         THEN /\ actor' = [actor EXCEPT !.requests = @ \ {r.file}]
              /\ IF r.ok THEN Enqueued(r.file) ELSE UNCHANGED <<row, file>>
         ELSE UNCHANGED <<actor, row>> /\ file' = Removed({r.file})
    /\ UNCHANGED <<process, asked, claim, rival, leftover, listed, halts>>

\* exportFinished: for the current request, the generation and the committed binding.
ExportFinished(r) ==
    /\ Result(r) /\ r.file \in Exports
    /\ jobs' = jobs \ {r}
    /\ claim' = FALSE
    /\ actor' = [actor EXCEPT !.export = None, !.current = FALSE]
    /\ IF actor.current /\ r.generation = actor.generation /\ r.ok
         THEN Enqueued(r.file)
         ELSE file' = Removed({r.file}) /\ UNCHANGED row
    /\ UNCHANGED <<process, asked, rival, leftover, listed, halts>>

\* The task ends, or the runtime goes: cancelHostRequests.
CancelHostRequests ==
    /\ Up /\ actor.requests # {}
    /\ actor' = [actor EXCEPT !.requests = {}]
    /\ jobs' = Cancelled(actor.requests)
    /\ UNCHANGED <<process, asked, claim, rival, file, row, leftover, listed, halts>>

\* cancelExport, then another client or binding; the claim stays with the copy.
Teardown(kept) ==
    /\ Up /\ actor.generation < MaxGeneration
    /\ actor' = [actor EXCEPT !.requests = {}, !.current = FALSE, !.generation = @ + 1]
    /\ jobs' = Cancelled(actor.requests \cup {actor.export})
    /\ claim' = (claim /\ kept)
    /\ UNCHANGED <<process, asked, rival, file, row, leftover, listed, halts>>

Close == Teardown(TRUE)

\* Another conversation claims the session, or leaves it.
Rival ==
    /\ rival \/ (Up /\ ~claim)
    /\ rival' = ~rival
    /\ UNCHANGED <<process, asked, actor, jobs, claim, file, row, leftover, listed, halts>>

-----------------------------------------------------------------------------
(* Delivery and clean-up.                                                    *)

Claim(f) ==
    /\ Up /\ row[f] = "pending"
    /\ row' = [row EXCEPT ![f] = "sending"]
    /\ UNCHANGED <<process, asked, actor, jobs, claim, rival, file, leftover, listed, halts>>

\* The request needs the file; a rate limit or a server error puts the row back, any
\* other outcome is committed before the file goes.
Attempted(f) ==
    /\ Up /\ row[f] = "sending"
    /\ \E outcome \in {"pending", "terminal"} :
         /\ row' = [row EXCEPT ![f] = outcome]
         /\ leftover' = IF outcome = "terminal" THEN leftover \cup {f} ELSE leftover
    /\ UNCHANGED <<process, asked, actor, jobs, claim, rival, file, listed, halts>>

RemoveSnapshot(f) ==
    /\ Up /\ f \in leftover
    /\ leftover' = leftover \ {f}
    /\ file' = Removed({f})
    /\ UNCHANGED <<process, asked, actor, jobs, claim, rival, row, listed, halts>>

\* A retention period passes, in which no copy is under way.
PeriodPasses ==
    /\ listed = None
    /\ file' = [f \in Files |-> IF file[f] = "fresh" /\ ~\E j \in jobs : j.file = f THEN "old" ELSE file[f]]
    /\ UNCHANGED <<process, asked, actor, jobs, claim, rival, row, leftover, listed, halts>>

\* cleanupOutboxBatch deletes old terminal rows; their files are removed afterwards.
CleanupRows ==
    /\ Up /\ listed = None
    /\ LET S == {f \in Files : row[f] = "terminal" /\ file[f] # "fresh"}
       IN  S # {} /\ row' = [f \in Files |-> IF f \in S THEN "none" ELSE row[f]] /\ leftover' = leftover \cup S
    /\ UNCHANGED <<process, asked, actor, jobs, claim, rival, file, listed, halts>>

\* reconcileOutboxSnapshots reads the paths of all rows, then goes through the spool.
ReconcileReads ==
    /\ Up /\ listed = None /\ \E f \in Files : file[f] # "none"
    /\ listed' = {f \in Files : row[f] # "none"}
    /\ UNCHANGED <<process, asked, actor, jobs, claim, rival, file, row, leftover, halts>>

\* Mutant: the time of the file does not count.
AbandonedAtOnce(f) == file[f] # "none" /\ f \notin listed
Abandoned(f) == file[f] = "old" /\ f \notin listed

ReconcileRemoves(f) ==
    /\ Up /\ listed # None /\ Abandoned(f)
    /\ file' = Removed({f})
    /\ UNCHANGED <<process, asked, actor, jobs, claim, rival, row, leftover, listed, halts>>

ReconcileEnds ==
    /\ Up /\ listed # None
    /\ listed' = None
    /\ UNCHANGED <<process, asked, actor, jobs, claim, rival, file, row, leftover, halts>>

-----------------------------------------------------------------------------
(* Shutdown, crash, restart.                                                 *)

\* The worker's context ends; the copies end by themselves.
Stop ==
    /\ Up /\ halts < MaxHalts
    /\ process' = "closing" /\ halts' = halts + 1
    /\ actor' = [actor EXCEPT !.requests = {}, !.current = FALSE]
    /\ jobs' = Cancelled(Files)
    /\ listed' = None
    /\ UNCHANGED <<asked, claim, rival, file, row, leftover>>

\* A result nobody takes: its goroutine or drainMediaResults removes the file. That of
\* an export may have been put into the channel, where it is left.
Dropped(r) ==
    /\ process = "closing" /\ r.step = "ended"
    /\ jobs' = jobs \ {r}
    /\ \/ file' = Removed({r.file}) /\ claim' = (claim /\ r.file \notin Exports)
       \/ r.file \in Exports /\ UNCHANGED <<file, claim>>
    /\ UNCHANGED <<process, asked, actor, rival, row, leftover, listed, halts>>

Down ==
    /\ \/ process = "closing" /\ jobs = {} /\ UNCHANGED halts
       \/ Up /\ halts < MaxHalts /\ halts' = halts + 1
    /\ process' = "down"
    /\ actor' = NewActor /\ jobs' = {} /\ claim' = FALSE /\ rival' = FALSE
    /\ leftover' = {} /\ listed' = None
    /\ UNCHANGED <<asked, file, row>>

\* What was being sent is uncertain now.
Restart ==
    /\ process = "down"
    /\ process' = "up"
    /\ row' = [f \in Files |-> IF row[f] = "sending" THEN "terminal" ELSE row[f]]
    /\ UNCHANGED <<asked, actor, jobs, claim, rival, file, leftover, listed, halts>>

Next ==
    \/ \E f \in Sends : HostSend(f)
    \/ \E f \in Exports : BeginExport(f)
    \/ \E j \in jobs : CopyBegins(j) \/ CopyEnds(j) \/ PreparedSend(j) \/ ExportFinished(j) \/ Dropped(j)
    \/ CancelHostRequests \/ Close \/ Rival
    \/ \E f \in Files : Claim(f) \/ Attempted(f) \/ RemoveSnapshot(f) \/ ReconcileRemoves(f)
    \/ PeriodPasses \/ CleanupRows \/ ReconcileReads \/ ReconcileEnds
    \/ Stop \/ Down \/ Restart

Spec == Init /\ [][Next]_snapshotVars

-----------------------------------------------------------------------------

\* A row that can still be sent has its snapshot, although the janitor decides what is
\* abandoned from an earlier reading of the rows.
RowHasFile == \A f \in Files : row[f] \in {"pending", "sending"} => file[f] # "none"

\* While a session is copied no other conversation works in it, also when the export
\* was cancelled meanwhile.
ExportHasSession == Up /\ (\E j \in jobs : j.file \in Exports /\ j.step = "copying") => ~rival

-----------------------------------------------------------------------------
(* The inductive invariant from which PartsProofs derives both.              *)

JobType ==
    [file : Files, generation : Nat, step : {"copying", "ended"}, cancelled : BOOLEAN, ok : BOOLEAN]

TypeOK ==
    /\ process \in {"up", "closing", "down"}
    /\ asked \subseteq Files
    /\ actor \in [generation : Nat, requests : SUBSET Sends, export : Exports \cup {None}, current : BOOLEAN]
    /\ jobs \subseteq JobType
    /\ claim \in BOOLEAN /\ rival \in BOOLEAN
    /\ file \in [Files -> {"none", "fresh", "old"}]
    /\ row \in [Files -> {"none", "pending", "sending", "terminal"}]
    /\ leftover \subseteq Files

\* What is being copied has no row yet, and no retention period has passed over it.
CopiesAreNew ==
    /\ \A j \in jobs :
         /\ j.file \in asked /\ j.file \notin leftover
         /\ row[j.file] = "none" /\ file[j.file] # "old"
         /\ j.step = "ended" /\ j.ok => file[j.file] # "none"
    /\ \A i, j \in jobs : i.file = j.file => i = j
    /\ process = "down" => jobs = {}

\* A snapshot that is about to be removed belongs to no row that can be sent.
RowsAreOver ==
    \A f \in Files :
        /\ f \notin asked => row[f] = "none" /\ file[f] = "none" /\ f \notin leftover
        /\ f \in leftover => row[f] \in {"terminal", "none"}

\* The rows the janitor has not seen are younger than a retention period.
ReadingIsRecent ==
    listed # None =>
        \A f \in Files \ listed : row[f] \in {"pending", "sending"} => file[f] # "old"

ExportsAreClaimed ==
    /\ claim => ~rival
    /\ \A j \in jobs : j.file \in Exports => claim /\ (Up => actor.export = j.file)
    /\ \A i, j \in jobs : i.file \in Exports /\ j.file \in Exports => i = j

FInv == TypeOK /\ CopiesAreNew /\ RowsAreOver /\ RowHasFile /\ ReadingIsRecent /\ ExportsAreClaimed
=============================================================================
