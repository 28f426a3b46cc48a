------------------------------- MODULE Outbox -------------------------------
(***************************************************************************)
(* The durable Telegram outbox of the bridge (internal/store/store.go) and *)
(* the delivery workers that drain it (internal/bridge/bridge.go, deliver).*)
(*                                                                         *)
(* Producers append rows; a delivery worker claims the oldest due row of a *)
(* topic that has nothing in flight, calls Telegram, and persists what the *)
(* call proved.  The database transaction, the network call and the next   *)
(* transaction are separate steps: the process may crash between any two.  *)
(***************************************************************************)
EXTENDS Integers, FiniteSets, Sequences

CONSTANTS
    Topics,             \* the (chat, thread) pairs
    NoTopic,            \* the topic of a row that does not exist yet
    Workers,            \* the deliveryWorkerCount goroutines that run deliver
    MaxServerAttempts,  \* maxServerDeliveryAttempts
    MaxProduced,        \* bound: rows that producers other than deliver append
    MaxAttachments,     \* bound: attachments among them, each good for one notice
    MaxCrashes          \* bound: process deaths and orderly stops

ASSUME TopicAssumption == NoTopic \notin Topics
ASSUME BoundAssumption ==
    /\ MaxServerAttempts \in Nat \ {0}
    /\ MaxProduced \in Nat
    /\ MaxAttachments \in Nat
    /\ MaxCrashes \in Nat

VARIABLES
    \* the outbox table
    lastId,      \* the AUTOINCREMENT counter: ids 1..lastId have been used
    topic,       \* the conversation of each row
    kind,        \* "text", or "file" for the photo and document kinds
    state,       \* OutboxState; "absent" for an id not yet used
    due,         \* next_attempt_at <= now
    rejections,  \* server_retry_count
    \* the process
    mode,        \* "up", "stopping" (context cancelled) or "down"
    pc,          \* where each delivery worker is
    job,         \* the row a worker claimed
    outcome,     \* what the Telegram client reported for it
    \* Telegram
    wire,        \* rows whose request is under way and undecided
    received,    \* the messages of each topic, in the order Telegram made them
    \* history
    noticed,     \* attachments whose failure notice was appended
    crashes      \* process deaths and orderly stops so far

tableVars    == <<lastId, topic, kind, state, due, rejections>>
workerVars   == <<pc, job, outcome>>
telegramVars == <<wire, received>>
vars == <<tableVars, mode, workerVars, telegramVars, noticed, crashes>>

MaxRows  == MaxProduced + MaxAttachments
Rows     == 1 .. MaxRows
Kinds    == {"text", "file"}
Active   == {"pending", "sending"}
Settled  == {"done", "failed", "uncertain"}
States   == {"absent"} \cup Active \cup Settled
Outcomes == {"ok", "limited", "server", "failed", "uncertain"}
Busy     == {"send", "wire", "settle"}
Places   == {"idle", "send", "wire", "settle", "notice", "exited"}

Existing == {r \in Rows : state[r] # "absent"}
Landed(r) == \E t \in Topics : \E i \in DOMAIN received[t] : received[t][i] = r

-----------------------------------------------------------------------------
\* Appending rows.  A transaction that appends n rows gives them consecutive ids.

Fresh(n) == lastId + 1 .. lastId + n

InsertPending(t, k, n) ==
    /\ lastId + n <= MaxRows
    /\ lastId' = lastId + n
    /\ topic' = [r \in Rows |-> IF r \in Fresh(n) THEN t ELSE topic[r]]
    /\ kind' = [r \in Rows |-> IF r \in Fresh(n) THEN k ELSE kind[r]]
    /\ state' = [r \in Rows |-> IF r \in Fresh(n) THEN "pending" ELSE state[r]]
    /\ due' = [r \in Rows |-> IF r \in Fresh(n) THEN TRUE ELSE due[r]]
    /\ rejections' = [r \in Rows |-> IF r \in Fresh(n) THEN 0 ELSE rejections[r]]

Produce(t, k, n) ==
    /\ mode # "down"
    /\ lastId - Cardinality(noticed) + n <= MaxProduced
    /\ InsertPending(t, k, n)
    /\ UNCHANGED <<mode, workerVars, telegramVars, noticed, crashes>>

Enqueue(t) == Produce(t, "text", 1)
AppendInboxReplies(t, n) == Produce(t, "text", n)
EnqueueAttachment(t) ==
    /\ Cardinality({r \in Rows : kind[r] = "file"}) < MaxAttachments
    /\ Produce(t, "file", 1)

-----------------------------------------------------------------------------
\* A delivery worker.

\* Mutant: a row waiting for its retry deadline no longer blocks its successors.
ClaimableIgnoringOlder(r) ==
    /\ state[r] = "pending"
    /\ due[r]
    /\ \A q \in Rows : topic[q] = topic[r] => state[q] # "sending"

\* ClaimNextOutput: nothing of the topic is sending, nothing older of it is open.
Claimable(r) ==
    /\ state[r] = "pending"
    /\ due[r]
    /\ \A q \in Rows : topic[q] = topic[r] => state[q] # "sending"
    /\ \A q \in Rows : topic[q] = topic[r] /\ q < r => state[q] \notin Active

ClaimNextOutput(w, r) ==
    /\ mode = "up"
    /\ pc[w] = "idle"
    /\ Claimable(r)
    /\ \A q \in Rows : Claimable(q) => r <= q
    /\ state' = [state EXCEPT ![r] = "sending"]
    /\ job' = [job EXCEPT ![w] = r]
    /\ pc' = [pc EXCEPT ![w] = "send"]
    /\ UNCHANGED <<lastId, topic, kind, due, rejections, mode, outcome,
                   telegramVars, noticed, crashes>>

\* The request leaves the process.
Transmit(w) ==
    /\ pc[w] = "send"
    /\ wire' = wire \cup {job[w]}
    /\ pc' = [pc EXCEPT ![w] = "wire"]
    /\ UNCHANGED <<tableVars, mode, job, outcome, received, noticed, crashes>>

Report(w, o) ==
    /\ outcome' = [outcome EXCEPT ![w] = o]
    /\ pc' = [pc EXCEPT ![w] = "settle"]
    /\ UNCHANGED <<tableVars, mode, job, received, noticed, crashes>>

\* A definite failure before any request: a context already cancelled, an
\* attachment that cannot be opened, a request that cannot be encoded.
FailLocally(w) ==
    /\ pc[w] = "send"
    /\ Report(w, "failed")
    /\ UNCHANGED wire

\* A complete success envelope arrives.
AnswerOk(w) ==
    /\ pc[w] = "wire"
    /\ Landed(job[w])
    /\ Report(w, "ok")
    /\ UNCHANGED wire

\* A complete failure envelope arrives: 429, one of the four server codes, or
\* any other code.  Telegram rejects instead of making a message.
AnswerRejection(w, o) ==
    /\ pc[w] = "wire"
    /\ job[w] \in wire
    /\ o \in {"limited", "server", "failed"}
    /\ wire' = wire \ {job[w]}
    /\ Report(w, o)

\* Mutant: a transport error is taken for a definite failure.
AnswerUnknownAsFailed(w) ==
    /\ pc[w] = "wire"
    /\ Report(w, "failed")
    /\ UNCHANGED wire

\* Transport error, timeout, cancelled context, truncated or contradictory
\* answer.  The request may have landed, may be lost, may still be under way.
AnswerUnknown(w) ==
    /\ pc[w] = "wire"
    /\ Report(w, "uncertain")
    /\ UNCHANGED wire

\* Mutant: the retry forgets to count.
RetryServerOutputUncounted(r) ==
    /\ state' = [state EXCEPT ![r] = "pending"]
    /\ due' = [due EXCEPT ![r] = FALSE]
    /\ UNCHANGED rejections

\* RetryServerOutput counts the rejection and fails the row at the limit.
RetryServerOutput(r) ==
    /\ rejections' = [rejections EXCEPT ![r] = @ + 1]
    /\ IF rejections[r] + 1 >= MaxServerAttempts
         THEN /\ state' = [state EXCEPT ![r] = "failed"]
              /\ due' = [due EXCEPT ![r] = TRUE]
         ELSE /\ state' = [state EXCEPT ![r] = "pending"]
              /\ due' = [due EXCEPT ![r] = FALSE]

\* RetryOutput: no count, only a deadline.
RetryOutput(r) ==
    /\ state' = [state EXCEPT ![r] = "pending"]
    /\ due' = [due EXCEPT ![r] = FALSE]
    /\ UNCHANGED rejections

\* MarkOutput and MarkOutputDelivered; both reset next_attempt_at.
MarkOutput(r, s) ==
    /\ state' = [state EXCEPT ![r] = s]
    /\ due' = [due EXCEPT ![r] = TRUE]
    /\ UNCHANGED rejections

\* The loop variables die with the iteration.
NextIteration(w, place) ==
    /\ pc' = [pc EXCEPT ![w] = place]
    /\ job' = [job EXCEPT ![w] = 0]
    /\ outcome' = [outcome EXCEPT ![w] = "none"]

\* The transaction after the call: expects state='sending'.
Persist(w) ==
    LET r == job[w] IN
    /\ pc[w] = "settle"
    /\ state[r] = "sending"
    /\ \/ outcome[w] = "ok" /\ MarkOutput(r, "done")
       \/ outcome[w] = "limited" /\ RetryOutput(r)
       \/ outcome[w] = "server" /\ RetryServerOutput(r)
       \/ outcome[w] \in {"failed", "uncertain"} /\ MarkOutput(r, outcome[w])
    /\ IF kind[r] = "file" /\ state'[r] \in {"failed", "uncertain"}
         THEN /\ pc' = [pc EXCEPT ![w] = "notice"]
              /\ UNCHANGED <<job, outcome>>
         ELSE NextIteration(w, "idle")
    /\ UNCHANGED <<lastId, topic, kind, mode, telegramVars, noticed, crashes>>

\* deliver returns the database error; the row stays as it is.
PersistenceFailure(w) ==
    /\ pc[w] \in {"settle", "notice"}
    /\ NextIteration(w, "exited")
    /\ UNCHANGED <<tableVars, mode, telegramVars, noticed, crashes>>

\* The notice about an attachment that will not be sent again.
EnqueueFailureNotice(w) ==
    /\ pc[w] = "notice"
    /\ InsertPending(topic[job[w]], "text", 1)
    /\ noticed' = noticed \cup {job[w]}
    /\ NextIteration(w, "idle")
    /\ UNCHANGED <<mode, telegramVars, crashes>>

\* The loop condition ctx.Err() == nil.
Leave(w) ==
    /\ mode = "stopping"
    /\ pc[w] = "idle"
    /\ pc' = [pc EXCEPT ![w] = "exited"]
    /\ UNCHANGED <<tableVars, mode, job, outcome, telegramVars, noticed, crashes>>

-----------------------------------------------------------------------------
\* Telegram, the clock, the process.

Land(r) ==
    /\ r \in wire
    /\ wire' = wire \ {r}
    /\ received' = [received EXCEPT ![topic[r]] = Append(@, r)]
    /\ UNCHANGED <<tableVars, mode, workerVars, noticed, crashes>>

LoseRequest(r) ==
    /\ r \in wire
    /\ wire' = wire \ {r}
    /\ UNCHANGED <<tableVars, mode, workerVars, received, noticed, crashes>>

DeadlinePasses(r) ==
    /\ state[r] = "pending"
    /\ ~due[r]
    /\ due' = [due EXCEPT ![r] = TRUE]
    /\ UNCHANGED <<lastId, topic, kind, state, rejections, mode, workerVars,
                   telegramVars, noticed, crashes>>

\* SIGINT or SIGTERM, or the first error a delivery worker hands to fail.
Stop ==
    /\ mode = "up"
    /\ crashes < MaxCrashes \/ \E w \in Workers : pc[w] = "exited"
    /\ mode' = "stopping"
    /\ crashes' = IF crashes < MaxCrashes THEN crashes + 1 ELSE crashes
    /\ UNCHANGED <<tableVars, workerVars, telegramVars, noticed>>

\* Run returns after every goroutine has.
Exit ==
    /\ mode = "stopping"
    /\ \A w \in Workers : pc[w] = "exited"
    /\ mode' = "down"
    /\ UNCHANGED <<tableVars, workerVars, telegramVars, noticed, crashes>>

Crash ==
    /\ mode # "down"
    /\ crashes < MaxCrashes
    /\ crashes' = crashes + 1
    /\ mode' = "down"
    /\ pc' = [w \in Workers |-> "exited"]
    /\ job' = [w \in Workers |-> 0]
    /\ outcome' = [w \in Workers |-> "none"]
    /\ UNCHANGED <<tableVars, telegramVars, noticed>>

\* Reopening gives the rows in R the state s.
ReopenWith(R, s) ==
    /\ mode = "down"
    /\ mode' = "up"
    /\ state' = [r \in Rows |-> IF r \in R THEN s ELSE state[r]]
    /\ pc' = [w \in Workers |-> "idle"]
    /\ UNCHANGED <<lastId, topic, kind, due, rejections, job, outcome,
                   telegramVars, noticed, crashes>>

InState(S) == {r \in Rows : state[r] \in S}

\* Mutant: interrupted sends are queued again.
ReopenRequeueing == ReopenWith(InState({"sending"}), "pending")

\* initialize: no side effect in flight can be reconstructed.
Reopen == ReopenWith(InState({"sending"}), "uncertain")

-----------------------------------------------------------------------------
Init ==
    /\ lastId = 0
    /\ topic = [r \in Rows |-> NoTopic]
    /\ kind = [r \in Rows |-> "text"]
    /\ state = [r \in Rows |-> "absent"]
    /\ due = [r \in Rows |-> TRUE]
    /\ rejections = [r \in Rows |-> 0]
    /\ mode = "up"
    /\ pc = [w \in Workers |-> "idle"]
    /\ job = [w \in Workers |-> 0]
    /\ outcome = [w \in Workers |-> "none"]
    /\ wire = {}
    /\ received = [t \in Topics |-> <<>>]
    /\ noticed = {}
    /\ crashes = 0

Producer ==
    \E t \in Topics :
        \/ Enqueue(t)
        \/ \E n \in 1 .. MaxProduced : AppendInboxReplies(t, n)
        \/ EnqueueAttachment(t)

Worker(w) ==
    \/ \E r \in Rows : ClaimNextOutput(w, r)
    \/ Transmit(w)
    \/ FailLocally(w)
    \/ AnswerOk(w)
    \/ \E o \in Outcomes : AnswerRejection(w, o)
    \/ AnswerUnknown(w)
    \/ Persist(w)
    \/ PersistenceFailure(w)
    \/ EnqueueFailureNotice(w)
    \/ Leave(w)

Environment ==
    \/ \E r \in Rows : Land(r) \/ LoseRequest(r) \/ DeadlinePasses(r)
    \/ Stop
    \/ Exit
    \/ Crash
    \/ Reopen

Next == Producer \/ (\E w \in Workers : Worker(w)) \/ Environment

Spec == Init /\ [][Next]_vars
-----------------------------------------------------------------------------
\* Properties.

TypeOK ==
    /\ lastId \in 0 .. MaxRows
    /\ topic \in [Rows -> Topics \cup {NoTopic}]
    /\ kind \in [Rows -> Kinds]
    /\ state \in [Rows -> States]
    /\ due \in [Rows -> BOOLEAN]
    /\ rejections \in [Rows -> Nat]
    /\ mode \in {"up", "stopping", "down"}
    /\ pc \in [Workers -> Places]
    /\ job \in [Workers -> Rows \cup {0}]
    /\ \A w \in Workers : pc[w] \in Busy \cup {"notice"} => job[w] \in Rows
    /\ outcome \in [Workers -> Outcomes \cup {"none"}]
    /\ wire \subseteq Rows
    /\ received \in [Topics -> Seq(Rows)]
    /\ noticed \subseteq Rows
    /\ crashes \in Nat

\* Telegram never makes two messages out of one outbox row, whatever is
\* retried, crashes, restarts or answers late ("no automatic resend" of an
\* uncertain delivery; RetryOutput and RetryServerOutput only after a definite
\* rejection; initialize never returns a sending row to pending).
AtMostOnce ==
    \A t \in Topics : \A i, j \in DOMAIN received[t] :
        i # j => received[t][i] # received[t][j]

\* In one topic a row appears before an older row only if the older one was
\* settled as uncertain: a retry deadline, a second worker or a restart never
\* lets a later reply overtake an earlier one (ClaimNextOutput's two NOT EXISTS).
OvertakesOnlyUncertain ==
    \A t \in Topics : \A i, j \in DOMAIN received[t] :
        i < j /\ received[t][i] > received[t][j] => state[received[t][j]] = "uncertain"

\* The stored verdict is true of Telegram: done means the message exists; failed
\* and pending mean that it does not and that no request can still create it.
VerdictIsTrue ==
    \A r \in Rows :
        /\ state[r] = "done" => Landed(r)
        /\ state[r] \in {"failed", "pending"} => ~Landed(r) /\ r \notin wire

\* A settled row never changes again: no late answer, retry or reopening revises it.
SettledForever ==
    [][\A r \in Rows : state[r] \in Settled => state'[r] = state[r]]_vars

\* "A terminal attachment failure also queues a delivery notice": once no worker
\* is on it, a failed or uncertain attachment has its notice (architecture.md).
FailedAttachmentHasNotice ==
    \A r \in Rows :
        kind[r] = "file" /\ state[r] \in {"failed", "uncertain"} =>
            r \in noticed \/ \E w \in Workers : pc[w] = "notice" /\ job[w] = r

\* The inductive strengthening of the invariants above.

Untouched(r) == ~Landed(r) /\ r \notin wire

\* Ids are handed out in order and an existing row has a real topic.
RowsInOrder ==
    \A r \in Rows :
        /\ state[r] = "absent" <=> r > lastId
        /\ state[r] # "absent" => topic[r] \in Topics

\* A busy worker owns a sending row alone, and knows what it was told of it.
OwnsJob(w) ==
    /\ pc[w] \in Busy => state[job[w]] = "sending"
    /\ pc[w] = "notice" => state[job[w]] \in {"failed", "uncertain"}
    /\ pc[w] = "send" => Untouched(job[w])
    /\ pc[w] = "settle" =>
         /\ outcome[w] \in Outcomes
         /\ outcome[w] = "ok" => Landed(job[w])
         /\ outcome[w] \in {"limited", "server", "failed"} => Untouched(job[w])

JobsDisjoint ==
    \A v, w \in Workers :
        pc[v] \in Busy /\ pc[w] \in Busy /\ job[v] = job[w] => v = w

NobodyWhenDown == mode = "down" => \A w \in Workers : pc[w] = "exited"

\* Only a row that was claimed is under way, and it has not landed yet.
WireIsOpen == \A r \in wire : state[r] \in {"sending", "uncertain"} /\ ~Landed(r)

\* Once a row was tried nothing older of its topic is open again.
Tried(r) == state[r] = "sending" \/ ~Untouched(r)
TriedInOrder ==
    \A q, r \in Rows :
        Tried(r) /\ q < r /\ topic[q] = topic[r] => state[q] \notin Active

\* Messages stand in the topic of their row, and only tried rows have one.
ReceivedInTopic ==
    \A t \in Topics : \A i \in DOMAIN received[t] : topic[received[t][i]] = t
LandedWasTried ==
    \A r \in Rows : state[r] \in {"absent", "pending", "failed"} => Untouched(r)
DoneLanded == \A r \in Rows : state[r] = "done" => Landed(r)

IInv ==
    /\ TypeOK
    /\ RowsInOrder
    /\ \A w \in Workers : OwnsJob(w)
    /\ JobsDisjoint
    /\ NobodyWhenDown
    /\ WireIsOpen
    /\ TriedInOrder
    /\ ReceivedInTopic
    /\ LandedWasTried
    /\ DoneLanded
    /\ AtMostOnce
    /\ OvertakesOnlyUncertain

\* The outbox keeps the promise TopicDelivery states: settled rows are its
\* verdicts, the messages Telegram made are what it shows.
Verdict(s) ==
    CASE s = "absent" -> "none"
      [] s \in Active -> "open"
      [] s = "done" -> "delivered"
      [] s = "failed" -> "failed"
      [] s = "uncertain" -> "doubtful"

Promise == INSTANCE TopicDelivery WITH
    Messages <- Rows,
    home     <- topic,
    verdict  <- [r \in Rows |-> Verdict(state[r])],
    shown    <- received

KeepsPromise == Promise!ASpec
=============================================================================
