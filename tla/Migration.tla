----------------------------- MODULE Migration -----------------------------
(* The migration of one conversation to a fresh OMP session: the durable     *)
(* record, the run that drives it, its background jobs, the reservations of  *)
(* source and candidate, explicit recovery, and another conversation that    *)
(* would like to use the same sessions.                                      *)
EXTENDS Integers, FiniteSets

CONSTANTS
    SessionIds,
    Source,        \* the session the conversation starts with
    None,
    Inputs,        \* the /migrate commands
    MaxCrashes

VARIABLES
    up, crashes,
    row,       \* the row of migrations, or NoRow
    binding,   \* session and generation of the conversation's binding
    input,     \* inbox state of the commands
    journal,   \* what the journal of a session proves
    rival,     \* the session another conversation claims, exports or deletes, or None
    reserved,  \* the migration claims of this conversation
    actor,     \* the fields of its worker
    procs,     \* its live OMP processes and the sessions they have open
    jobs,      \* background jobs, and results the actor has not taken
    last       \* the last client id

migrationVars == <<up, crashes, row, binding, input, journal, rival, reserved, actor, procs, jobs, last>>

NoRow == [id |-> 0, phase |-> "none", source |-> None, candidate |-> None, failed |-> FALSE, input |-> None]
NoRun == [id |-> 0, input |-> None, recovery |-> FALSE, old |-> FALSE]
Blank == [of |-> 0, state |-> "none"]

\* mig is w.migration, run w.migrationRun, leased w.migrationClientID, startup the
\* attempt of w.migrationStartup.
NewActor(m) == [mig |-> m, run |-> NoRun, attempt |-> 0, leased |-> 0, client |-> 0, startup |-> 0]

Init ==
    /\ up = TRUE /\ crashes = 0
    /\ row = NoRow
    /\ binding = [session |-> Source, generation |-> 1]
    /\ input = [i \in Inputs |-> "pending"]
    /\ journal = [s \in SessionIds |-> IF s = Source THEN [of |-> 0, state |-> "conversation"] ELSE Blank]
    /\ rival = None /\ reserved = {}
    /\ actor = NewActor(NoRow)
    /\ procs = {} /\ jobs = {} /\ last = 0

-----------------------------------------------------------------------------
(* Evidence and reservations.                                                *)

\* validateMigrationJournal: one seed and its completion marker, and nothing else.
JournalComplete(s, id) == journal[s] = [of |-> id, state |-> "complete"]

\* VerifyMigration compares the live context of the process with the journal.
Verified(k, s, id) == [client |-> k, session |-> s] \in procs /\ JournalComplete(s, id)

Named(m) == {m.source, m.candidate} \ {None}

\* checkMigrationClaimsLocked: the rival has neither of the sessions of m.
ClaimsFree(m) == rival \notin Named(m)

\* observeMigrationCandidate, under sessionMu: the identity is checked against the
\* claims, written, and reserved.
Observable(id, s) ==
    /\ row.id = id
    /\ row.candidate \in {None, s}
    /\ ClaimsFree([row EXCEPT !.candidate = s])

Observe(s) ==
    /\ row' = [row EXCEPT !.candidate = s]
    /\ reserved' = {row.source, s}

-----------------------------------------------------------------------------
(* Jobs and the cancellation of a run.                                       *)

Job(stage, attempt, id, leased, target) ==
    [stage |-> stage, attempt |-> attempt, id |-> id, leased |-> leased, target |-> target,
     ended |-> FALSE, ok |-> FALSE, session |-> None, client |-> 0]

Cancelled(j) == actor.run = NoRun \/ actor.attempt # j.attempt

Without(ks) == {p \in procs : p.client \notin ks}

\* The result is sent, or dropped when the run is cancelled first; that of a
\* recovery start is always sent, the actor must reap the process.
Ends(j, ok, s, k) ==
    jobs' = (jobs \ {j}) \cup {[j EXCEPT !.ended = TRUE, !.ok = ok, !.session = s, !.client = k]}

Dropped(j) == Cancelled(j) /\ j.stage # "start" /\ jobs' = jobs \ {j}

\* FailMigration keeps the row; the inputs of an unresolved migration are uncertain.
FailedInputs ==
    LET mine == {actor.run.input} \cup {actor.mig.input}
    IN  [i \in Inputs |-> IF i \in mine /\ input[i] = "submitted"
                            THEN IF actor.mig = NoRow THEN "failed" ELSE "uncertain"
                            ELSE input[i]]

\* cancelMigration: the run ends, the process is closed, row and claims stay.
CancelMigration(closing) ==
    /\ row' = IF actor.mig = NoRow THEN row ELSE [row EXCEPT !.failed = TRUE]
    /\ input' = FailedInputs
    /\ actor' = [actor EXCEPT !.run = NoRun, !.leased = 0, !.client = 0,
                              !.mig = IF @ = NoRow THEN NoRow ELSE row']
    /\ procs' = Without({actor.client} \cup closing)
    /\ UNCHANGED <<up, crashes, binding, journal, rival, reserved, last>>

-----------------------------------------------------------------------------
(* What the user asks for.                                                   *)

Locked == actor.mig # NoRow \/ actor.run # NoRun

\* newMigrationID: an id no migration has had.
NextId == Cardinality({i \in Inputs : input[i] # "pending"}) + 1

\* beginMigration, with ensureRuntime.
Begin(i) ==
    LET k == IF actor.client = 0 THEN last + 1 ELSE actor.client
        n == actor.attempt + 1
    IN  /\ up /\ input[i] = "pending"
        /\ ~Locked
        /\ input' = [input EXCEPT ![i] = "submitted"]
        /\ procs' = procs \cup {[client |-> k, session |-> binding.session]}
        /\ last' = IF actor.client = 0 THEN last + 1 ELSE last
        /\ actor' = [actor EXCEPT !.client = k, !.leased = k, !.attempt = n,
                         !.run = [id |-> NextId, input |-> i, recovery |-> FALSE, old |-> FALSE]]
        /\ jobs' = jobs \cup {Job("prepare", n, NextId, k, None)}
        /\ UNCHANGED <<up, crashes, row, binding, journal, rival, reserved>>

\* recoverMigration: "old", or a session; the previous start must have been reaped.
RecoverTo(i, s) ==
    LET n == actor.attempt + 1
    IN  /\ up /\ input[i] = "pending"
        /\ actor.mig # NoRow /\ actor.run = NoRun
        /\ input' = [input EXCEPT ![i] = "submitted"]
        /\ actor' = [actor EXCEPT !.client = 0, !.leased = 0, !.attempt = n,
                         !.run = [id |-> actor.mig.id, input |-> i, recovery |-> TRUE,
                                  old |-> s = actor.mig.source]]
        /\ procs' = Without({actor.client})
        /\ jobs' = jobs \cup {Job("resolve", n, actor.mig.id, 0, s)}
        /\ UNCHANGED <<up, crashes, row, binding, journal, rival, reserved, last>>

\* Mutant: an earlier recovery start may still be on its way.
RecoverUnreaped(i, s) == RecoverTo(i, s)
Recover(i, s) == actor.startup = 0 /\ RecoverTo(i, s)

\* /migrate while one is running, /migrate recover without one or too early.
Answer(i) ==
    /\ up /\ input[i] = "pending"
    /\ input' = [input EXCEPT ![i] = "done"]
    /\ UNCHANGED <<up, crashes, row, binding, journal, rival, reserved, actor, procs, jobs, last>>

\* /stop, /close, or the process is gone.
Stop ==
    /\ up /\ actor.run # NoRun
    /\ CancelMigration({})
    /\ UNCHANGED jobs

-----------------------------------------------------------------------------
(* The work of the jobs.                                                     *)

Working(j, stage) == up /\ j.stage = stage /\ ~j.ended

Alive(k) == \E p \in procs : p.client = k

SourceJobEnds(j) ==
    /\ \/ Alive(j.leased) /\ Ends(j, TRUE, None, 0)
       \/ Ends(j, FALSE, None, 0)
       \/ Dropped(j)
    /\ UNCHANGED <<up, crashes, row, binding, input, journal, rival, reserved, actor, procs, last>>

\* The extension is there, the identity is that of the binding, the settings are known.
PrepareJobEnds(j) == Working(j, "prepare") /\ SourceJobEnds(j)

\* The handoff is written and read back: the only new compaction behind an unchanged
\* prefix.
HandoffJobEnds(j) == Working(j, "handoff") /\ SourceJobEnds(j)

\* The extension command lets OMP switch to a new session, reload, and set the marker.
OmpSwitches(j) ==
    \E s \in SessionIds, p \in procs :
        /\ Working(j, "candidate")
        /\ p.client = j.leased /\ p.session = j.target
        /\ journal[s] = Blank
        /\ journal' = [journal EXCEPT ![s] = [of |-> j.id, state |-> "seeded"]]
        /\ procs' = (procs \ {p}) \cup {[p EXCEPT !.session = s]}
        /\ UNCHANGED <<up, crashes, row, binding, input, rival, reserved, actor, jobs, last>>

OmpCompletes(p) ==
    /\ up /\ p \in procs
    /\ journal[p.session].state = "seeded"
    /\ journal' = [journal EXCEPT ![p.session].state = "complete"]
    /\ UNCHANGED <<up, crashes, row, binding, input, rival, reserved, actor, procs, jobs, last>>

\* awaitMigrationCandidate, then the observation, before the result is handed over.
CandidateJobEnds(j) ==
    /\ Working(j, "candidate")
    /\ \/ \E p \in procs :
            /\ p.client = j.leased /\ p.session # j.target
            /\ IF Observable(j.id, p.session)
                 THEN Observe(p.session) /\ (Ends(j, TRUE, p.session, 0) \/ Dropped(j))
                 ELSE Ends(j, FALSE, p.session, 0) /\ UNCHANGED <<row, reserved>>
       \/ Ends(j, FALSE, None, 0) /\ UNCHANGED <<row, reserved>>
       \/ Dropped(j) /\ UNCHANGED <<row, reserved>>
    /\ UNCHANGED <<up, crashes, binding, input, journal, rival, actor, procs, last>>

\* A candidate is verified; for the source the host tools suffice.
VerifyJobEnds(j) ==
    /\ Working(j, "verify")
    /\ \/ /\ IF j.target = row.source THEN Alive(j.leased) ELSE Verified(j.leased, j.target, j.id)
          /\ Ends(j, TRUE, j.target, 0)
       \/ Ends(j, FALSE, None, 0)
       \/ Dropped(j)
    /\ UNCHANGED <<up, crashes, row, binding, input, journal, rival, reserved, actor, procs, last>>

\* InspectMigrationCandidate reads the journal of what the user named.
Inspectable(j) ==
    \/ j.target = row.source
    \/ row.candidate \in {None, j.target} /\ JournalComplete(j.target, j.id)

ResolveJobEnds(j) ==
    /\ Working(j, "resolve")
    /\ \/ Inspectable(j) /\ Ends(j, TRUE, j.target, 0)
       \/ Ends(j, FALSE, None, 0)
       \/ Dropped(j)
    /\ UNCHANGED <<up, crashes, row, binding, input, journal, rival, reserved, actor, procs, last>>

\* migrationStartup.run: the process starts, and its result may meet a cancellation.
StartJobStarts(j) ==
    /\ Working(j, "start") /\ j.client = 0
    /\ last' = last + 1
    /\ procs' = procs \cup {[client |-> last + 1, session |-> j.target]}
    /\ jobs' = (jobs \ {j}) \cup {[j EXCEPT !.client = last + 1]}
    /\ UNCHANGED <<up, crashes, row, binding, input, journal, rival, reserved, actor>>

StartJobEnds(j) ==
    /\ Working(j, "start")
    /\ \/ j.client # 0 /\ Ends(j, ~Cancelled(j), j.target, j.client) /\ UNCHANGED procs
       \/ Ends(j, FALSE, None, 0) /\ procs' = Without({j.client})
    /\ UNCHANGED <<up, crashes, row, binding, input, journal, rival, reserved, actor, last>>

-----------------------------------------------------------------------------
(* migrationFinished: the actor takes a result.                              *)

Result(r) == up /\ r.ended
Rest(r) == jobs \ {r}

\* Mutant: a result is matched to the run by its lease alone.
LateForLease(r) == actor.run = NoRun \/ r.leased # actor.leased
Late(r) == Cancelled(r) \/ r.leased # actor.leased

\* discardMigrationClient, with the row reloaded after a late candidate.
TakeLate(r) ==
    /\ Result(r) /\ Late(r)
    /\ jobs' = Rest(r)
    /\ procs' = Without({r.client} \ {0})
    /\ actor' = [actor EXCEPT
           !.startup = IF r.stage = "start" /\ @ = r.attempt THEN 0 ELSE @,
           !.mig = IF r.stage = "candidate" /\ @ # NoRow THEN row ELSE @]
    /\ UNCHANGED <<up, crashes, row, binding, input, journal, rival, reserved, last>>

\* An error, or a runtime that is no longer the leased one.
Unconfirmed(r) ==
    \/ ~r.ok
    \/ r.stage \notin {"resolve", "start"} /\ ~(actor.client = r.leased /\ Alive(r.leased))

TakeError(r) ==
    /\ Result(r) /\ ~Late(r) /\ Unconfirmed(r)
    /\ jobs' = Rest(r)
    /\ LET reaped == r.stage = "start" /\ actor.startup = r.attempt
       IN  /\ row' = IF actor.mig = NoRow THEN row ELSE [row EXCEPT !.failed = TRUE]
           /\ input' = FailedInputs
           /\ procs' = Without({actor.client, r.client} \ {0})
           /\ actor' = [actor EXCEPT !.run = NoRun, !.leased = 0, !.client = 0,
                            !.startup = IF reaped THEN 0 ELSE @,
                            !.mig = IF @ = NoRow THEN NoRow ELSE row']
    /\ UNCHANGED <<up, crashes, binding, journal, rival, reserved, last>>

Takes(r, stage) == Result(r) /\ ~Late(r) /\ ~Unconfirmed(r) /\ r.stage = stage

Continues(r, stage, k, s) == jobs' = Rest(r) \cup {Job(stage, actor.attempt, actor.run.id, k, s)}

\* PrepareMigration and the claims; the phase is saved before the handoff begins.
TakePrepared(r) ==
    LET m == [id |-> actor.run.id, phase |-> "handoff", source |-> binding.session,
              candidate |-> None, failed |-> FALSE, input |-> actor.run.input]
    IN  /\ Takes(r, "prepare")
        /\ row = NoRow
        /\ row' = m
        /\ reserved' = {m.source}
        /\ actor' = [actor EXCEPT !.mig = m]
        /\ Continues(r, "handoff", actor.leased, None)
        /\ UNCHANGED <<up, crashes, binding, input, journal, rival, procs, last>>

TakeHandoff(r) ==
    /\ Takes(r, "handoff")
    /\ row' = [row EXCEPT !.phase = "initialize"]
    /\ actor' = [actor EXCEPT !.mig = row']
    /\ Continues(r, "candidate", actor.leased, row.source)
    /\ UNCHANGED <<up, crashes, binding, input, journal, rival, reserved, procs, last>>

\* The observation is repeated; the job has made it already.
TakeCandidate(r) ==
    /\ Takes(r, "candidate")
    /\ row' = [row EXCEPT !.phase = "verify"]
    /\ actor' = [actor EXCEPT !.mig = row']
    /\ Continues(r, "verify", actor.leased, r.session)
    /\ UNCHANGED <<up, crashes, binding, input, journal, rival, reserved, procs, last>>

\* A named candidate is observed like a new one; then its process is started.
TakeResolved(r) ==
    /\ Takes(r, "resolve")
    /\ IF actor.run.old \/ Observable(actor.mig.id, r.session)
         THEN /\ IF actor.run.old THEN UNCHANGED <<row, reserved>> ELSE Observe(r.session)
              /\ actor' = [actor EXCEPT !.mig = row', !.startup = actor.attempt]
              /\ Continues(r, "start", 0, r.session)
              /\ UNCHANGED <<up, crashes, binding, input, journal, rival, procs, last>>
         ELSE CancelMigration({}) /\ jobs' = Rest(r)

\* No free slot for the recovery.
RecoveryRefused(r) == Takes(r, "resolve") /\ CancelMigration({}) /\ jobs' = Rest(r)

\* migrationRecoveryStarted adopts the process.
TakeStarted(r) ==
    /\ Takes(r, "start")
    /\ actor' = [actor EXCEPT !.startup = 0, !.client = r.client, !.leased = r.client]
    /\ Continues(r, "verify", r.client, r.session)
    /\ UNCHANGED <<up, crashes, row, binding, input, journal, rival, reserved, procs, last>>

\* publishMigration: the record must be what the actor knows, and the target its
\* source or its candidate; without a recovery only the candidate of a verify phase.
Publishable(s) ==
    /\ row = actor.mig
    /\ IF actor.run.recovery THEN s \in Named(row) ELSE row.phase = "verify" /\ s = row.candidate

\* One transaction for binding, row and inputs; then finishMigrationClaims.
TakeVerified(r) ==
    /\ Takes(r, "verify")
    /\ Publishable(r.session)
    /\ binding' = [session |-> r.session, generation |-> binding.generation + 1]
    /\ row' = NoRow
    /\ input' = [i \in Inputs |-> IF i \in {row.input, actor.run.input} THEN "done" ELSE input[i]]
    /\ reserved' = {}
    /\ actor' = [actor EXCEPT !.mig = NoRow, !.run = NoRun, !.leased = 0]
    /\ jobs' = Rest(r)
    /\ UNCHANGED <<up, crashes, journal, rival, procs, last>>

-----------------------------------------------------------------------------
(* The other conversation, crashes and restarts.                             *)

\* claimSession, reserveExport and reserveDelete refuse what is claimed, and what a
\* pending migration names in the database.
RivalTakes(s) ==
    /\ up /\ rival = None
    /\ journal[s] # Blank
    /\ s \notin reserved \cup Named(row) \cup {binding.session}
    /\ rival' = s
    /\ UNCHANGED <<up, crashes, row, binding, input, journal, reserved, actor, procs, jobs, last>>

\* It adds to the conversation.
RivalWrites ==
    /\ rival # None
    /\ journal' = [journal EXCEPT ![rival].state = "conversation"]
    /\ UNCHANGED <<up, crashes, row, binding, input, rival, reserved, actor, procs, jobs, last>>

RivalLeaves ==
    /\ rival # None
    /\ rival' = None
    /\ UNCHANGED <<up, crashes, row, binding, input, journal, reserved, actor, procs, jobs, last>>

Crash ==
    /\ up /\ crashes < MaxCrashes
    /\ up' = FALSE /\ crashes' = crashes + 1
    /\ rival' = None /\ reserved' = {} /\ actor' = NewActor(NoRow)
    /\ procs' = {} /\ jobs' = {} /\ last' = 0
    /\ UNCHANGED <<row, binding, input, journal>>

\* The store settles submitted inputs; restoreWorkers restores the claims of the row
\* before those of any binding, and nothing runs by itself.
Restart ==
    /\ ~up
    /\ up' = TRUE
    /\ input' = [i \in Inputs |-> IF input[i] = "submitted" THEN "uncertain" ELSE input[i]]
    /\ actor' = NewActor(row)
    /\ reserved' = Named(row)
    /\ UNCHANGED <<crashes, row, binding, journal, rival, procs, jobs, last>>

Next ==
    \/ \E i \in Inputs : Begin(i) \/ Answer(i) \/ \E s \in SessionIds : Recover(i, s)
    \/ Stop
    \/ \E j \in jobs :
         \/ PrepareJobEnds(j) \/ HandoffJobEnds(j) \/ OmpSwitches(j) \/ CandidateJobEnds(j) \/ VerifyJobEnds(j)
         \/ ResolveJobEnds(j) \/ StartJobStarts(j) \/ StartJobEnds(j)
    \/ \E p \in procs : OmpCompletes(p)
    \/ \E r \in jobs :
         \/ TakeLate(r) \/ TakeError(r) \/ TakePrepared(r) \/ TakeHandoff(r) \/ TakeCandidate(r)
         \/ TakeResolved(r) \/ RecoveryRefused(r) \/ TakeStarted(r) \/ TakeVerified(r)
    \/ (\E s \in SessionIds : RivalTakes(s)) \/ RivalWrites \/ RivalLeaves
    \/ Crash \/ Restart

Spec == Init /\ [][Next]_migrationVars

-----------------------------------------------------------------------------

\* While a migration is unresolved its source and its candidate are reserved, and no
\* other conversation has either, through cancellations and restarts.
BothReserved == up /\ row # NoRow => reserved = Named(row) /\ rival \notin Named(row)

\* The conversation never has two processes: a recovery waits until the process of an
\* earlier one has been reaped.
OneProcess == Cardinality(procs) <= 1

\* The binding moves only in the step that resolves the migration, to the candidate
\* whose journal is complete and untouched, or back to the source when the user chose
\* that; a migration that failed moves it only through a recovery.
Publishes ==
    binding' # binding =>
        LET s == binding'.session
        IN  /\ row # NoRow /\ row' = NoRow
            /\ s = row.source \/ JournalComplete(s, row.id)
            /\ row.failed => actor.run.recovery
            /\ actor.run.old <=> s = row.source
PublishesVerified == [][Publishes]_migrationVars

-----------------------------------------------------------------------------
(* The inductive invariant from which PartsProofs derives the three          *)
(* properties.                                                               *)

Ids == SessionIds \cup {None}
RowType ==
    [id : Nat, phase : {"none", "handoff", "initialize", "verify"}, source : Ids, candidate : Ids,
     failed : BOOLEAN, input : Inputs \cup {None}]
RunType == [id : Nat, input : Inputs \cup {None}, recovery : BOOLEAN, old : BOOLEAN]
JobType ==
    [stage : {"prepare", "handoff", "candidate", "verify", "resolve", "start"}, attempt : Nat, id : Nat,
     leased : Nat, target : Ids, ended : BOOLEAN, ok : BOOLEAN, session : Ids, client : Nat]
ActorType == [mig : RowType, run : RunType, attempt : Nat, leased : Nat, client : Nat, startup : Nat]

TypeOK ==
    /\ up \in BOOLEAN /\ crashes \in Nat
    /\ row \in RowType
    /\ binding \in [session : SessionIds, generation : Nat]
    /\ input \in [Inputs -> {"pending", "submitted", "done", "failed", "uncertain"}]
    /\ journal \in [SessionIds -> [of : Nat, state : {"none", "conversation", "seeded", "complete"}]]
    /\ rival \in Ids /\ reserved \subseteq SessionIds
    /\ actor \in ActorType
    /\ procs \subseteq [client : Nat, session : SessionIds]
    /\ jobs \subseteq JobType
    /\ last \in Nat

Open == actor.run # NoRun
Current(j) == Open /\ j.attempt = actor.attempt

\* The record and the actor's copy of it differ in the candidate at most.
RowIsKnown ==
    /\ row # NoRow => row.id # 0 /\ row.source \in SessionIds /\ row.candidate # row.source
    /\ up => /\ reserved = Named(row)
             /\ row = NoRow <=> actor.mig = NoRow
             /\ actor.mig = [row EXCEPT !.candidate = actor.mig.candidate]
    /\ ~up => actor = NewActor(NoRow) /\ procs = {} /\ jobs = {} /\ rival = None

RivalIsElsewhere ==
    /\ rival \notin Named(row)
    /\ rival # None => rival # binding.session

RunIsOwned ==
    /\ actor.client <= last
    /\ actor.startup # 0 => actor.mig # NoRow /\ actor.client = 0
    /\ Open => /\ actor.leased = actor.client
               /\ actor.run.id # 0
               /\ actor.mig # NoRow => actor.run.id = row.id
               /\ actor.run.recovery => actor.mig # NoRow
               /\ ~actor.run.recovery => ~row.failed /\ ~actor.run.old

\* What a job knows of the run that has begun it, and what its target is.
StageFits(j) ==
    /\ j.id = actor.run.id /\ j.leased = actor.leased
    /\ j.stage # "prepare" => actor.mig # NoRow
    /\ j.stage \in {"resolve", "start"} => actor.run.recovery
    /\ j.stage \in {"prepare", "handoff", "candidate"} => ~actor.run.recovery
    /\ j.stage \in {"prepare", "handoff", "candidate", "verify"} => actor.client # 0
    /\ j.stage = "resolve" => actor.client = 0
    /\ actor.startup # 0 => j.stage = "start"

TargetFits(j) ==
    /\ j.stage = "candidate" => j.target = row.source
    /\ j.stage \in {"resolve", "start", "verify"} =>
         j.target \in SessionIds /\ (actor.run.old <=> j.target = row.source)
    /\ j.stage \in {"start", "verify"} => j.target \in Named(row)

ResultFits(j) ==
    j.ended /\ j.ok =>
        /\ j.stage = "candidate" => j.session = row.candidate /\ j.session # None
        /\ j.stage \in {"resolve", "verify"} => j.session = j.target
        /\ j.stage = "verify" /\ j.target # row.source => JournalComplete(j.target, j.id)

StartFits(j) ==
    /\ actor.startup = j.attempt /\ j.target \in SessionIds /\ j.client <= last
    /\ j.ended /\ j.ok => j.client # 0 /\ j.session = j.target

JobsAreOwned ==
    /\ \A j \in jobs :
         /\ j.attempt # 0 /\ j.attempt <= actor.attempt /\ j.id # 0 /\ j.leased <= last
         /\ Current(j) => StageFits(j) /\ TargetFits(j) /\ ResultFits(j)
         /\ j.stage = "start" => StartFits(j)
         /\ j.stage # "start" => j.client = 0
         /\ j.stage = "candidate" => j.leased # 0
    /\ \A i, j \in jobs : i.attempt = j.attempt => i = j

\* There is one process, the actor's or one a recovery has started, in the session it
\* is meant to be in; a job of an earlier run can no longer switch it.
Stale(j) == j.stage = "candidate" /\ ~j.ended /\ ~Current(j)

SessionFits(p) ==
    /\ p.client = actor.client /\ ~Locked => p.session = binding.session
    /\ \A j \in jobs :
         /\ j.stage = "start" /\ p.client = j.client => p.session = j.target
         /\ Current(j) /\ j.stage = "verify" => p.session = j.target
         /\ Current(j) /\ j.stage = "candidate" /\ j.ended /\ j.ok => p.session = j.session

ProcessIsOwned ==
    /\ \A p \in procs :
         /\ p.client # 0 /\ p.client <= last
         /\ p.client = actor.client \/ \E j \in jobs : j.stage = "start" /\ j.client = p.client
         /\ SessionFits(p)
    /\ \A p, q \in procs : p = q
    /\ \A j \in jobs : Stale(j) =>
         /\ j.leased # actor.client
         /\ \A p \in procs : p.client # j.leased
         /\ \A i \in jobs : i.stage = "start" => i.client # j.leased

MInv ==
    /\ TypeOK /\ RowIsKnown /\ RivalIsElsewhere /\ RunIsOwned /\ JobsAreOwned /\ ProcessIsOwned
=============================================================================
