---------------------------- MODULE OutboxProofs ----------------------------
(***************************************************************************)
(* Proofs about the outbox for any set of topics and workers, any bounds.  *)
(***************************************************************************)
EXTENDS Outbox, SequenceTheorems, TLAPS

-----------------------------------------------------------------------------
\* Type correctness.

\* What appending a message does to one topic's history.
LEMMA AppendFacts ==
    ASSUME NEW S, NEW s \in Seq(S), NEW e \in S
    PROVE  /\ Append(s, e) \in Seq(S)
           /\ DOMAIN s = 1 .. Len(s)
           /\ Len(s) \in Nat
           /\ DOMAIN Append(s, e) = 1 .. Len(s) + 1
           /\ \A i \in DOMAIN s : Append(s, e)[i] = s[i]
           /\ Append(s, e)[Len(s) + 1] = e
  OBVIOUS

\* The initial state has the declared types.
LEMMA TypeInit == Init => TypeOK
  <1>1. MaxRows \in Nat /\ <<>> \in Seq(Rows)
    BY BoundAssumption DEF MaxRows
  <1> QED
    BY <1>1 DEF Init, TypeOK, States, Kinds, Places, Outcomes, Busy

\* Every action keeps the shape of the table, of the workers and of Telegram.
LEMMA TypeStep == TypeOK /\ [Next]_vars => TypeOK'
  <1> SUFFICES ASSUME TypeOK, [Next]_vars PROVE TypeOK'
    OBVIOUS
  <1>0. MaxRows \in Nat
    BY BoundAssumption DEF MaxRows
  <1> USE DEF TypeOK, tableVars, workerVars, telegramVars, Rows,
          States, Kinds, Places, Outcomes, Active, Settled, Busy
  <1>ins. ASSUME NEW t \in Topics \cup {NoTopic}, NEW k \in Kinds, NEW n \in Nat,
                 InsertPending(t, k, n)
          PROVE  /\ lastId' \in 0 .. MaxRows
                 /\ topic' \in [Rows -> Topics \cup {NoTopic}]
                 /\ kind' \in [Rows -> Kinds]
                 /\ state' \in [Rows -> States]
                 /\ due' \in [Rows -> BOOLEAN]
                 /\ rejections' \in [Rows -> Nat]
    <2>1. lastId' \in 0 .. MaxRows
      BY <1>0, <1>ins DEF InsertPending
    <2>2. topic' \in [Rows -> Topics \cup {NoTopic}] /\ kind' \in [Rows -> Kinds]
      BY <1>ins DEF InsertPending, Fresh
    <2>3. state' \in [Rows -> States]
      BY <1>ins DEF InsertPending, Fresh
    <2>4. due' \in [Rows -> BOOLEAN] /\ rejections' \in [Rows -> Nat]
      BY <1>ins DEF InsertPending, Fresh
    <2> QED
      BY <2>1, <2>2, <2>3, <2>4
  <1>1. ASSUME NEW t \in Topics, NEW k \in Kinds, NEW n \in Nat, Produce(t, k, n)
        PROVE  TypeOK'
    BY <1>ins, <1>1 DEF Produce
  <1>2. ASSUME Producer PROVE TypeOK'
    BY <1>1, <1>2, BoundAssumption DEF Producer, Enqueue, AppendInboxReplies, EnqueueAttachment
  <1>3. ASSUME NEW w \in Workers, Worker(w) PROVE TypeOK'
    <2>1. ASSUME NEW r \in Rows, ClaimNextOutput(w, r) PROVE TypeOK'
      BY <2>1 DEF ClaimNextOutput
    <2>2. ASSUME Transmit(w) PROVE TypeOK'
      BY <2>2 DEF Transmit
    <2>3. ASSUME FailLocally(w) PROVE TypeOK'
      BY <2>3 DEF FailLocally, Report
    <2>4. ASSUME AnswerOk(w) PROVE TypeOK'
      BY <2>4 DEF AnswerOk, Report
    <2>5. ASSUME NEW o \in Outcomes, AnswerRejection(w, o) PROVE TypeOK'
      BY <2>5 DEF AnswerRejection, Report
    <2>6. ASSUME AnswerUnknown(w) PROVE TypeOK'
      BY <2>6 DEF AnswerUnknown, Report
    <2>7. ASSUME Persist(w) PROVE TypeOK'
      <3> DEFINE r == job[w]
      <3>1. r \in Rows /\ pc[w] = "settle"
        BY <2>7 DEF Persist
      <3>2. /\ state' \in [Rows -> States]
            /\ due' \in [Rows -> BOOLEAN]
            /\ rejections' \in [Rows -> Nat]
        <4>1. ASSUME NEW s \in Settled, MarkOutput(r, s) PROVE <3>2
          BY <3>1, <4>1 DEF MarkOutput
        <4>2. ASSUME RetryOutput(r) PROVE <3>2
          BY <3>1, <4>2 DEF RetryOutput
        <4>3. ASSUME RetryServerOutput(r) PROVE <3>2
          <5>1. rejections' \in [Rows -> Nat]
            BY <3>1, <4>3 DEF RetryServerOutput
          <5>2. \E s \in States, b \in BOOLEAN :
                  state' = [state EXCEPT ![r] = s] /\ due' = [due EXCEPT ![r] = b]
            BY <4>3, Zenon DEF RetryServerOutput
          <5> QED
            BY <3>1, <5>1, <5>2
        <4> QED
          BY <2>7, <4>1, <4>2, <4>3 DEF Persist
      <3>3. /\ pc' \in [Workers -> Places]
            /\ job' \in [Workers -> Rows \cup {0}]
            /\ outcome' \in [Workers -> Outcomes \cup {"none"}]
            /\ \A v \in Workers : pc'[v] \in Busy \cup {"notice"} => job'[v] \in Rows
        <4>1. \/ /\ pc' = [pc EXCEPT ![w] = "notice"]
                 /\ UNCHANGED <<job, outcome>>
              \/ NextIteration(w, "idle")
          BY <2>7 DEF Persist
        <4> QED
          BY <3>1, <4>1 DEF NextIteration
      <3> QED
        BY <2>7, <3>2, <3>3 DEF Persist
    <2>8. ASSUME PersistenceFailure(w) PROVE TypeOK'
      BY <2>8 DEF PersistenceFailure, NextIteration
    <2>9. ASSUME EnqueueFailureNotice(w) PROVE TypeOK'
      <3>1. InsertPending(topic[job[w]], "text", 1) /\ job[w] \in Rows
        BY <2>9 DEF EnqueueFailureNotice
      <3> QED
        BY <1>ins, <2>9, <3>1 DEF EnqueueFailureNotice, NextIteration
    <2>10. ASSUME Leave(w) PROVE TypeOK'
      BY <2>10 DEF Leave
    <2> QED
      BY <1>3, <2>1, <2>2, <2>3, <2>4, <2>5, <2>6, <2>7, <2>8, <2>9, <2>10 DEF Worker
  <1>4. ASSUME NEW r \in Rows, Land(r) PROVE TypeOK'
    <2>1. received' \in [Topics -> Seq(Rows)]
      <3>1. CASE topic[r] \in Topics
        BY <1>4, <3>1, AppendFacts DEF Land
      <3>2. CASE topic[r] \notin Topics
        BY <1>4, <3>2 DEF Land
      <3> QED
        BY <3>1, <3>2
    <2> QED
      BY <1>4, <2>1 DEF Land
  <1>5. ASSUME Environment PROVE TypeOK'
    <2>1. ASSUME NEW r \in Rows, LoseRequest(r) \/ DeadlinePasses(r) PROVE TypeOK'
      BY <2>1 DEF LoseRequest, DeadlinePasses
    <2>2. ASSUME Stop \/ Exit PROVE TypeOK'
      <3>1. crashes' \in Nat
        BY <2>2 DEF Stop, Exit
      <3> QED
        BY <2>2, <3>1 DEF Stop, Exit
    <2>3. ASSUME Crash PROVE TypeOK'
      BY <2>3 DEF Crash
    <2>4. ASSUME Reopen PROVE TypeOK'
      BY <2>4 DEF Reopen, ReopenWith, InState
    <2> QED
      BY <1>4, <1>5, <2>1, <2>2, <2>3, <2>4 DEF Environment
  <1>6. ASSUME UNCHANGED vars PROVE TypeOK'
    BY <1>6 DEF vars
  <1> QED
    BY <1>2, <1>3, <1>5, <1>6 DEF Next
-----------------------------------------------------------------------------
\* The inductive invariant.

TableInv == RowsInOrder /\ WireIsOpen /\ TriedInOrder /\ LandedWasTried /\ DoneLanded
WorkerInv == (\A w \in Workers : OwnsJob(w)) /\ JobsDisjoint /\ NobodyWhenDown
HistoryInv == ReceivedInTopic /\ AtMostOnce /\ OvertakesOnlyUncertain

\* The invariant, split by what its parts are about.
LEMMA IInvParts == IInv <=> TypeOK /\ TableInv /\ WorkerInv /\ HistoryInv
  BY DEF IInv, TableInv, WorkerInv, HistoryInv

\* The invariant holds of an empty outbox with idle workers.
LEMMA InvInit == Init => IInv
  <1> SUFFICES ASSUME Init PROVE IInv
    OBVIOUS
  <1>1. TypeOK
    BY TypeInit
  <1>2. \A r \in Rows : ~Landed(r) /\ Untouched(r)
    BY DEF Init, Landed, Untouched
  <1>3. TableInv
    BY <1>1, <1>2, BoundAssumption
    DEF Init, TableInv, RowsInOrder, WireIsOpen, TriedInOrder, LandedWasTried,
        DoneLanded, Tried, Active, Rows
  <1>4. WorkerInv
    BY DEF Init, WorkerInv, OwnsJob, JobsDisjoint, NobodyWhenDown, Busy
  <1>5. HistoryInv
    BY DEF Init, HistoryInv, ReceivedInTopic, AtMostOnce, OvertakesOnlyUncertain
  <1> QED
    BY <1>1, <1>3, <1>4, <1>5, IInvParts

\* While Telegram makes no message, its history keeps its properties if landed
\* rows keep their topic and uncertain rows stay uncertain.
LEMMA HistoryKept ==
    ASSUME TypeOK, HistoryInv, received' = received,
           \A r \in Rows : Landed(r) =>
               topic'[r] = topic[r] /\ (state[r] = "uncertain" => state'[r] = "uncertain")
    PROVE  HistoryInv'
  <1>1. \A t \in Topics : \A i \in DOMAIN received[t] :
            received[t][i] \in Rows /\ Landed(received[t][i])
    BY LenProperties, ElementOfSeq DEF TypeOK, Landed
  <1>2. ReceivedInTopic'
    BY <1>1 DEF HistoryInv, ReceivedInTopic
  <1>3. AtMostOnce'
    BY DEF HistoryInv, AtMostOnce
  <1>4. OvertakesOnlyUncertain'
    BY <1>1 DEF HistoryInv, OvertakesOnlyUncertain
  <1> QED
    BY <1>2, <1>3, <1>4 DEF HistoryInv

\* What Telegram shows depends on its history alone.
LEMMA LandedKept ==
    ASSUME received' = received
    PROVE  \A r : Landed(r)' <=> Landed(r)
  BY DEF Landed

\* Appending rows of an existing topic.
LEMMA InsertKeeps ==
    ASSUME IInv, NEW t \in Topics, NEW k \in Kinds, NEW n \in Nat,
           InsertPending(t, k, n), UNCHANGED telegramVars
    PROVE  /\ TableInv'
           /\ HistoryInv'
           /\ \A r \in Rows : state[r] # "absent" =>
                state'[r] = state[r] /\ topic'[r] = topic[r]
           /\ \A r \in Rows : Landed(r)' <=> Landed(r)
  <1> USE DEF TypeOK, IInv, telegramVars
  <1>0. MaxRows \in Nat
    BY BoundAssumption DEF MaxRows
  <1>1. \A r \in Rows : Landed(r)' <=> Landed(r)
    BY LandedKept
  <1>2. \A r \in Rows : Untouched(r)' <=> Untouched(r)
    BY <1>1 DEF Untouched
  <1>3. \A r \in Rows : state[r] # "absent" =>
            state'[r] = state[r] /\ topic'[r] = topic[r]
    BY <1>0 DEF InsertPending, Fresh, RowsInOrder, Rows
  <1>4. \A r \in Rows : state[r] = "absent" =>
            \/ state'[r] = "absent"
            \/ state'[r] = "pending" /\ topic'[r] = t
    BY DEF InsertPending
  <1>5. RowsInOrder'
    BY <1>0 DEF InsertPending, Fresh, RowsInOrder, Rows
  <1>6. WireIsOpen'
    BY <1>1, <1>3 DEF WireIsOpen
  <1>7. TriedInOrder'
    <2> SUFFICES ASSUME NEW q \in Rows, NEW r \in Rows, Tried(r)', q < r,
                        topic'[q] = topic'[r]
                 PROVE  state'[q] \notin Active
      BY DEF TriedInOrder
    <2>1. state[r] # "absent" /\ Tried(r)
      BY <1>2, <1>3, <1>4 DEF Tried, LandedWasTried
    <2>2. state[q] # "absent"
      BY <1>0, <2>1 DEF RowsInOrder, Rows
    <2> QED
      BY <1>3, <2>1, <2>2 DEF TriedInOrder
  <1>8. LandedWasTried' /\ DoneLanded'
    BY <1>1, <1>2, <1>3, <1>4 DEF LandedWasTried, DoneLanded
  <1>9. HistoryInv'
    <2>1. \A r \in Rows : Landed(r) => state[r] # "absent"
      BY DEF LandedWasTried, Untouched
    <2> QED
      BY <1>3, <2>1, HistoryKept DEF HistoryInv
  <1> QED
    BY <1>1, <1>3, <1>5, <1>6, <1>7, <1>8, <1>9 DEF TableInv

\* The producers of rows.
LEMMA ProducerStep == IInv /\ Producer => WorkerInv' /\ TableInv' /\ HistoryInv'
  <1> SUFFICES ASSUME IInv, Producer PROVE WorkerInv' /\ TableInv' /\ HistoryInv'
    OBVIOUS
  <1>1. PICK t \in Topics, k \in Kinds, n \in Nat : Produce(t, k, n)
    BY BoundAssumption DEF Producer, Enqueue, AppendInboxReplies, EnqueueAttachment, Kinds
  <1>2. InsertPending(t, k, n) /\ UNCHANGED telegramVars /\ UNCHANGED workerVars
        /\ UNCHANGED mode
    BY <1>1 DEF Produce
  <1>3. /\ TableInv' /\ HistoryInv'
        /\ \A r \in Rows : state[r] # "absent" => state'[r] = state[r]
        /\ \A r \in Rows : Landed(r)' <=> Landed(r)
    BY <1>2, InsertKeeps
  <1>4. WorkerInv'
    BY <1>2, <1>3 DEF IInv, TypeOK, WorkerInv, OwnsJob, JobsDisjoint, NobodyWhenDown,
       Untouched, workerVars, telegramVars, Busy
  <1> QED
    BY <1>3, <1>4

\* The failure notice a worker appends.
LEMMA NoticeStep ==
    ASSUME IInv, NEW w \in Workers, EnqueueFailureNotice(w)
    PROVE  WorkerInv' /\ TableInv' /\ HistoryInv'
  <1> USE DEF IInv, TypeOK
  <1>1. job[w] \in Rows /\ topic[job[w]] \in Topics /\ pc[w] = "notice"
    BY DEF EnqueueFailureNotice, OwnsJob, RowsInOrder
  <1>2. InsertPending(topic[job[w]], "text", 1) /\ UNCHANGED telegramVars
    BY DEF EnqueueFailureNotice
  <1>3. /\ TableInv' /\ HistoryInv'
        /\ \A r \in Rows : state[r] # "absent" => state'[r] = state[r]
        /\ \A r \in Rows : Landed(r)' <=> Landed(r)
    BY <1>1, <1>2, InsertKeeps DEF Kinds
  <1>4. WorkerInv'
    BY <1>1, <1>2, <1>3 DEF EnqueueFailureNotice, NextIteration, WorkerInv, OwnsJob,
       JobsDisjoint, NobodyWhenDown, Untouched, telegramVars, Busy
  <1> QED
    BY <1>3, <1>4

\* Claiming the oldest due row of a quiet topic.
LEMMA ClaimStep ==
    ASSUME IInv, NEW w \in Workers, NEW r \in Rows, ClaimNextOutput(w, r)
    PROVE  WorkerInv' /\ TableInv' /\ HistoryInv'
  <1> USE DEF IInv, TypeOK, telegramVars
  <1>1. /\ state[r] = "pending" /\ Untouched(r) /\ pc[w] = "idle" /\ mode = "up"
        /\ \A q \in Rows : topic[q] = topic[r] /\ q < r => state[q] \notin Active
    BY DEF ClaimNextOutput, Claimable, LandedWasTried
  <1>2. /\ state' = [state EXCEPT ![r] = "sending"]
        /\ job' = [job EXCEPT ![w] = r]
        /\ pc' = [pc EXCEPT ![w] = "send"]
        /\ UNCHANGED <<lastId, topic, outcome, wire, received, mode>>
    BY DEF ClaimNextOutput
  <1>3. \A q \in Rows : (Landed(q)' <=> Landed(q)) /\ (Untouched(q)' <=> Untouched(q))
    BY <1>2 DEF Landed, Untouched
  <1>4. RowsInOrder' /\ WireIsOpen' /\ LandedWasTried' /\ DoneLanded'
    BY <1>1, <1>2, <1>3 DEF RowsInOrder, WireIsOpen, LandedWasTried, DoneLanded
  <1>5. TriedInOrder'
    BY <1>1, <1>2, <1>3 DEF TriedInOrder, Tried, Active
  <1>6. WorkerInv'
    BY <1>1, <1>2, <1>3 DEF WorkerInv, OwnsJob, JobsDisjoint, NobodyWhenDown, Busy
  <1>7. HistoryInv'
    BY <1>1, <1>2, HistoryKept DEF HistoryInv
  <1> QED
    BY <1>4, <1>5, <1>6, <1>7 DEF TableInv

\* The network call: only the wire and the worker's own knowledge change.
LEMMA CallStep ==
    ASSUME IInv, NEW w \in Workers,
           \/ Transmit(w)
           \/ FailLocally(w)
           \/ AnswerOk(w)
           \/ \E o \in Outcomes : AnswerRejection(w, o)
           \/ AnswerUnknown(w)
    PROVE  WorkerInv' /\ TableInv' /\ HistoryInv'
  <1> USE DEF IInv, TypeOK, tableVars
  <1>1. /\ pc[w] \in Busy /\ job[w] \in Rows /\ state[job[w]] = "sending"
        /\ UNCHANGED <<lastId, topic, state, job, mode, received>>
    BY DEF Transmit, FailLocally, AnswerOk, AnswerRejection, AnswerUnknown, Report,
       OwnsJob, Busy
  <1>2. \A r \in Rows : Landed(r)' <=> Landed(r)
    BY <1>1 DEF Landed
  <1>3. HistoryInv'
    BY <1>1, HistoryKept DEF HistoryInv
  <1>4. RowsInOrder' /\ DoneLanded'
    BY <1>1, <1>2 DEF RowsInOrder, DoneLanded
  <1>5. CASE Transmit(w)
    <2>1. /\ Untouched(job[w]) /\ wire' = wire \cup {job[w]}
          /\ pc[w] = "send" /\ pc' = [pc EXCEPT ![w] = "wire"] /\ UNCHANGED outcome
      BY <1>5 DEF Transmit, OwnsJob
    <2>2. \A r \in Rows : r # job[w] => (Untouched(r)' <=> Untouched(r))
      BY <1>2, <2>1 DEF Untouched
    <2>3. WireIsOpen' /\ LandedWasTried'
      BY <1>1, <1>2, <2>1, <2>2 DEF WireIsOpen, LandedWasTried, Untouched
    <2>4. TriedInOrder'
      BY <1>1, <2>2 DEF TriedInOrder, Tried
    <2>5. WorkerInv'
      BY <1>1, <1>2, <2>1, <2>2
      DEF WorkerInv, OwnsJob, JobsDisjoint, NobodyWhenDown, Busy
    <2> QED
      BY <1>3, <1>4, <2>3, <2>4, <2>5 DEF TableInv
  <1>6. CASE ~Transmit(w)
    <2>1. PICK o \in Outcomes :
            /\ outcome' = [outcome EXCEPT ![w] = o]
            /\ pc' = [pc EXCEPT ![w] = "settle"]
            /\ wire' \in {wire, wire \ {job[w]}}
            /\ o = "ok" => Landed(job[w])
            /\ o \in {"limited", "server", "failed"} => Untouched(job[w])'
      BY <1>1, <1>2, <1>6
      DEF FailLocally, AnswerOk, AnswerRejection, AnswerUnknown, Report, OwnsJob,
          Outcomes, Untouched, WireIsOpen
    <2>2. \A r \in Rows : /\ r # job[w] => (Untouched(r)' <=> Untouched(r))
                          /\ Untouched(r) => Untouched(r)'
      BY <1>1, <1>2, <2>1 DEF Untouched
    <2>3. WireIsOpen' /\ LandedWasTried'
      BY <1>1, <1>2, <2>1, <2>2 DEF WireIsOpen, LandedWasTried
    <2>4. TriedInOrder'
      BY <1>1, <2>2 DEF TriedInOrder, Tried
    <2>5. WorkerInv'
      BY <1>1, <1>2, <2>1, <2>2
      DEF WorkerInv, OwnsJob, JobsDisjoint, NobodyWhenDown, Busy
    <2> QED
      BY <1>3, <1>4, <2>3, <2>4, <2>5 DEF TableInv
  <1> QED
    BY <1>5, <1>6

\* Persisting what the call proved: only the worker's own row moves.
LEMMA PersistStep ==
    ASSUME IInv, NEW w \in Workers, Persist(w)
    PROVE  WorkerInv' /\ TableInv' /\ HistoryInv'
  <1> USE DEF IInv, TypeOK
  <1> DEFINE r == job[w]
  <1>1. /\ r \in Rows /\ state[r] = "sending" /\ pc[w] = "settle"
        /\ UNCHANGED <<lastId, topic, mode, wire, received>>
    BY DEF Persist, Busy, telegramVars
  <1>2. PICK s \in {"done", "pending", "failed", "uncertain"} :
          /\ state' = [state EXCEPT ![r] = s]
          /\ s = "done" => Landed(r)
          /\ s \in {"pending", "failed"} => Untouched(r)
    <2>1. PICK s \in {"done", "pending", "failed", "uncertain"} :
            /\ state' = [state EXCEPT ![r] = s]
            /\ s = "done" => outcome[w] = "ok"
            /\ s \in {"pending", "failed"} => outcome[w] \in {"limited", "server", "failed"}
      BY Zenon DEF Persist, MarkOutput, RetryOutput, RetryServerOutput
    <2> QED
      BY <1>1, <2>1 DEF OwnsJob
  <1>3. \A q \in Rows : (Landed(q)' <=> Landed(q)) /\ (Untouched(q)' <=> Untouched(q))
    BY <1>1 DEF Landed, Untouched
  <1>4. RowsInOrder' /\ LandedWasTried' /\ DoneLanded'
    BY <1>1, <1>2, <1>3 DEF RowsInOrder, LandedWasTried, DoneLanded
  <1>5. WireIsOpen'
    BY <1>1, <1>2, <1>3 DEF WireIsOpen, LandedWasTried, DoneLanded, Untouched
  <1>6. TriedInOrder'
    BY <1>1, <1>2, <1>3 DEF TriedInOrder, Tried, Active
  <1>7. HistoryInv'
    BY <1>1, <1>2, HistoryKept DEF HistoryInv
  <1>8. WorkerInv'
    <2>1. CASE kind[r] = "file" /\ state'[r] \in {"failed", "uncertain"}
      BY <1>1, <1>2, <1>3, <2>1
      DEF Persist, WorkerInv, OwnsJob, JobsDisjoint, NobodyWhenDown, Busy
    <2>2. CASE ~(kind[r] = "file" /\ state'[r] \in {"failed", "uncertain"})
      <3>1. NextIteration(w, "idle")
        BY <2>2 DEF Persist
      <3> QED
        BY <1>1, <1>2, <1>3, <3>1
        DEF NextIteration, WorkerInv, OwnsJob, JobsDisjoint, NobodyWhenDown, Busy
    <2> QED
      BY <2>1, <2>2
  <1> QED
    BY <1>4, <1>5, <1>6, <1>7, <1>8 DEF TableInv

\* A worker that stops working; what is left of its row stays.
LEMMA ExitStep ==
    ASSUME IInv, NEW w \in Workers, PersistenceFailure(w) \/ Leave(w)
    PROVE  WorkerInv' /\ TableInv' /\ HistoryInv'
  <1> USE DEF IInv, TypeOK
  <1>1. /\ pc' = [pc EXCEPT ![w] = "exited"]
        /\ \A v \in Workers : v # w => job'[v] = job[v] /\ outcome'[v] = outcome[v]
        /\ UNCHANGED <<lastId, topic, state, mode, wire, received>>
    BY DEF PersistenceFailure, Leave, NextIteration, tableVars, telegramVars
  <1>2. \A r \in Rows : (Landed(r)' <=> Landed(r)) /\ (Untouched(r)' <=> Untouched(r))
    BY <1>1 DEF Landed, Untouched
  <1>3. TableInv'
    BY <1>1, <1>2 DEF TableInv, RowsInOrder, LandedWasTried, DoneLanded, WireIsOpen,
       TriedInOrder, Tried
  <1>4. HistoryInv'
    BY <1>1, HistoryKept DEF HistoryInv
  <1>5. WorkerInv'
    BY <1>1, <1>2 DEF WorkerInv, OwnsJob, JobsDisjoint, NobodyWhenDown, Busy
  <1> QED
    BY <1>3, <1>4, <1>5

\* Telegram makes the message of a request that is under way.
LEMMA LandStep ==
    ASSUME IInv, NEW r \in Rows, Land(r)
    PROVE  WorkerInv' /\ TableInv' /\ HistoryInv'
  <1> USE DEF IInv, TypeOK
  <1> DEFINE t == topic[r]
             n == Len(received[t])
  <1>1. /\ r \in wire /\ ~Landed(r) /\ state[r] \in {"sending", "uncertain"} /\ t \in Topics
        /\ UNCHANGED <<lastId, topic, state, pc, job, outcome, mode>>
        /\ wire' = wire \ {r}
        /\ received' = [received EXCEPT ![t] = Append(@, r)]
    BY DEF Land, WireIsOpen, RowsInOrder, tableVars, workerVars
  <1>2. /\ \A u \in Topics : DOMAIN received[u] = 1 .. Len(received[u]) /\ Len(received[u]) \in Nat
        /\ \A u \in Topics : \A i \in DOMAIN received[u] :
             received[u][i] \in Rows /\ Landed(received[u][i])
    BY LenProperties, ElementOfSeq DEF Landed
  <1>3. /\ \A u \in Topics : u # t => received'[u] = received[u]
        /\ DOMAIN received'[t] = 1 .. n + 1
        /\ received'[t][n + 1] = r
        /\ \A i \in 1 .. n : received'[t][i] = received[t][i]
    BY <1>1, <1>2, AppendFacts
  <1>4. \A q \in Rows : Landed(q)' <=> Landed(q) \/ q = r
    <2> SUFFICES ASSUME NEW q \in Rows PROVE Landed(q)' <=> Landed(q) \/ q = r
      OBVIOUS
    <2>1. ASSUME Landed(q)' PROVE Landed(q) \/ q = r
      <3>1. PICK u \in Topics : \E i \in DOMAIN received'[u] : received'[u][i] = q
        BY <2>1 DEF Landed
      <3>2. PICK i \in DOMAIN received'[u] : received'[u][i] = q
        BY <3>1
      <3>3. CASE u # t
        BY <1>3, <3>2, <3>3 DEF Landed
      <3>4. CASE u = t
        BY <1>1, <1>2, <1>3, <3>2, <3>4 DEF Landed
      <3> QED
        BY <3>3, <3>4
    <2>2. ASSUME Landed(q) PROVE Landed(q)'
      <3>1. PICK u \in Topics : \E i \in DOMAIN received[u] : received[u][i] = q
        BY <2>2 DEF Landed
      <3>2. PICK i \in DOMAIN received[u] : received[u][i] = q
        BY <3>1
      <3>3. i \in DOMAIN received'[u] /\ received'[u][i] = q
        BY <1>1, <1>2, <1>3, <3>2
      <3> QED
        BY <3>3 DEF Landed
    <2>3. Landed(r)'
      <3>1. n + 1 \in DOMAIN received'[t] /\ received'[t][n + 1] = r
        BY <1>1, <1>2, <1>3
      <3> QED
        BY <1>1, <3>1 DEF Landed
    <2> QED
      BY <2>1, <2>2, <2>3
  <1>5. \A q \in Rows : Untouched(q)' <=> Untouched(q)
    BY <1>1, <1>4 DEF Untouched
  <1>6. TableInv'
    BY <1>1, <1>4, <1>5 DEF TableInv, RowsInOrder, LandedWasTried, DoneLanded,
       WireIsOpen, TriedInOrder, Tried
  <1>7. WorkerInv'
    BY <1>1, <1>4, <1>5 DEF WorkerInv, OwnsJob, JobsDisjoint, NobodyWhenDown, Busy
  <1>8. ReceivedInTopic'
    BY <1>1, <1>2, <1>3 DEF ReceivedInTopic
  <1>9. AtMostOnce'
    BY <1>1, <1>2, <1>3 DEF AtMostOnce
  <1>10. OvertakesOnlyUncertain'
    <2> SUFFICES ASSUME NEW u \in Topics,
                        NEW i \in DOMAIN received'[u], NEW j \in DOMAIN received'[u],
                        i < j, received'[u][i] > received'[u][j]
                 PROVE  state[received'[u][j]] = "uncertain"
      BY <1>1 DEF OvertakesOnlyUncertain
    <2>1. CASE u # t
      BY <1>3, <2>1 DEF OvertakesOnlyUncertain
    <2>2. CASE u = t /\ j \in 1 .. n
      BY <1>1, <1>2, <1>3, <2>2 DEF OvertakesOnlyUncertain
    <2>3. CASE u = t /\ j \notin 1 .. n
      <3>1. j = n + 1 /\ i \in 1 .. n /\ received'[u][j] = r
        BY <1>1, <1>2, <1>3, <2>3
      <3> DEFINE q == received[t][i]
      <3>2. q \in Rows /\ Landed(q) /\ topic[q] = topic[r] /\ r < q
        BY <1>1, <1>2, <1>3, <2>3, <3>1 DEF ReceivedInTopic, Rows
      <3>3. state[r] \notin Active
        BY <3>2 DEF TriedInOrder, Tried, Untouched
      <3> QED
        BY <1>1, <3>1, <3>3 DEF Active
    <2> QED
      BY <2>1, <2>2, <2>3
  <1> QED
    BY <1>6, <1>7, <1>8, <1>9, <1>10 DEF HistoryInv

\* Lost requests, deadlines, stops, crashes, restarts, and stuttering.
LEMMA EnvironmentStep ==
    ASSUME IInv, Environment \/ UNCHANGED vars
    PROVE  WorkerInv' /\ TableInv' /\ HistoryInv'
  <1> USE DEF IInv, TypeOK, tableVars, workerVars, telegramVars
  <1>1. ASSUME NEW r \in Rows, Land(r) PROVE WorkerInv' /\ TableInv' /\ HistoryInv'
    BY <1>1, LandStep
  <1>2. ASSUME NEW r \in Rows, LoseRequest(r)
        PROVE  WorkerInv' /\ TableInv' /\ HistoryInv'
    <2>1. /\ UNCHANGED <<lastId, topic, state, pc, job, outcome, mode, received>>
          /\ wire' = wire \ {r}
      BY <1>2 DEF LoseRequest
    <2>2. \A q \in Rows : (Landed(q)' <=> Landed(q)) /\ (Untouched(q) => Untouched(q)')
      BY <2>1 DEF Landed, Untouched
    <2>3. TableInv'
      BY <2>1, <2>2 DEF TableInv, RowsInOrder, LandedWasTried, DoneLanded, WireIsOpen,
         TriedInOrder, Tried
    <2>4. WorkerInv'
      BY <2>1, <2>2 DEF WorkerInv, OwnsJob, JobsDisjoint, NobodyWhenDown, Busy
    <2> QED
      BY <2>1, <2>3, <2>4, HistoryKept DEF HistoryInv
  <1>3. ASSUME (\E r \in Rows : DeadlinePasses(r)) \/ Stop \/ Exit \/ UNCHANGED vars
        PROVE  WorkerInv' /\ TableInv' /\ HistoryInv'
    <2>1. /\ UNCHANGED <<lastId, topic, state, pc, job, outcome, wire, received>>
          /\ mode' # "down" \/ mode' = mode \/ \A w \in Workers : pc[w] = "exited"
          /\ mode' = "down" => \A w \in Workers : pc[w] = "exited"
      BY <1>3 DEF DeadlinePasses, Stop, Exit, vars, NobodyWhenDown
    <2>2. \A q \in Rows : (Landed(q)' <=> Landed(q)) /\ (Untouched(q)' <=> Untouched(q))
      BY <2>1 DEF Landed, Untouched
    <2>3. TableInv'
      BY <2>1, <2>2 DEF TableInv, RowsInOrder, LandedWasTried, DoneLanded, WireIsOpen,
         TriedInOrder, Tried
    <2>4. WorkerInv'
      BY <2>1, <2>2 DEF WorkerInv, OwnsJob, JobsDisjoint, NobodyWhenDown, Busy
    <2> QED
      BY <2>1, <2>3, <2>4, HistoryKept DEF HistoryInv
  <1>4. ASSUME Crash \/ Reopen PROVE WorkerInv' /\ TableInv' /\ HistoryInv'
    <2>1. /\ UNCHANGED <<lastId, topic, wire, received>>
          /\ \A r \in Rows : \/ state'[r] = state[r]
                             \/ state[r] = "sending" /\ state'[r] = "uncertain"
          /\ \/ \A w \in Workers : pc'[w] = "exited"
             \/ mode' = "up" /\ \A w \in Workers : pc'[w] = "idle"
      BY <1>4 DEF Crash, Reopen, ReopenWith, InState
    <2>2. \A q \in Rows : (Landed(q)' <=> Landed(q)) /\ (Untouched(q)' <=> Untouched(q))
      BY <2>1 DEF Landed, Untouched
    <2>3. RowsInOrder' /\ LandedWasTried' /\ DoneLanded' /\ WireIsOpen'
      BY <2>1, <2>2 DEF RowsInOrder, LandedWasTried, DoneLanded, WireIsOpen
    <2>4. TriedInOrder'
      BY <2>1, <2>2 DEF TriedInOrder, Tried, Active
    <2>5. WorkerInv'
      BY <2>1 DEF WorkerInv, OwnsJob, JobsDisjoint, NobodyWhenDown, Busy
    <2>6. HistoryInv'
      BY <2>1, HistoryKept DEF HistoryInv
    <2> QED
      BY <2>3, <2>4, <2>5, <2>6 DEF TableInv
  <1> QED
    BY <1>1, <1>2, <1>3, <1>4 DEF Environment

\* Any step of deliver.
LEMMA WorkerStep ==
    ASSUME IInv, NEW w \in Workers, Worker(w)
    PROVE  WorkerInv' /\ TableInv' /\ HistoryInv'
  BY ClaimStep, CallStep, PersistStep, ExitStep, NoticeStep DEF Worker

\* The invariant is inductive.
LEMMA InvStep == IInv /\ [Next]_vars => IInv'
  <1> SUFFICES ASSUME IInv, [Next]_vars PROVE IInv'
    OBVIOUS
  <1>1. TypeOK'
    BY TypeStep DEF IInv
  <1>2. WorkerInv' /\ TableInv' /\ HistoryInv'
    BY ProducerStep, WorkerStep, EnvironmentStep DEF Next
  <1> QED
    BY <1>1, <1>2 DEF IInv, TableInv, WorkerInv, HistoryInv

-----------------------------------------------------------------------------
\* The safety theorems.

\* The invariant of the outbox holds in every state the bridge can reach, with
\* any number of topics, workers, rows, retries and crashes.
THEOREM Invariant == Spec => []IInv
  BY InvInit, InvStep, PTL DEF Spec

\* Type correctness of the table, the workers and Telegram.
THEOREM TypeCorrect == Spec => []TypeOK
  BY TypeInit, TypeStep, PTL DEF Spec

\* Telegram makes at most one message out of one outbox row.
THEOREM NoDuplicates == Spec => []AtMostOnce
  <1>1. IInv => AtMostOnce
    BY DEF IInv
  <1> QED
    BY Invariant, <1>1, PTL

\* Within a topic only an uncertain row can be overtaken.
THEOREM TopicOrder == Spec => []OvertakesOnlyUncertain
  <1>1. IInv => OvertakesOnlyUncertain
    BY DEF IInv
  <1> QED
    BY Invariant, <1>1, PTL

\* done, failed and pending rows say the truth about Telegram.
THEOREM TrueVerdicts == Spec => []VerdictIsTrue
  <1>1. IInv => VerdictIsTrue
    BY DEF IInv, VerdictIsTrue, LandedWasTried, DoneLanded, Untouched
  <1> QED
    BY Invariant, <1>1, PTL

\* What one step may do to the state of a row.
LEMMA StateStep ==
    ASSUME IInv, [Next]_vars, NEW r \in Rows, state'[r] # state[r]
    PROVE  \/ state[r] = "absent" /\ state'[r] = "pending"
           \/ state[r] = "pending" /\ state'[r] = "sending"
           \/ state[r] = "sending" /\ state'[r] \in Settled \cup {"pending"}
  <1> USE DEF IInv, TypeOK, tableVars, Settled
  <1>1. ASSUME NEW t, NEW k, NEW n \in Nat, InsertPending(t, k, n)
        PROVE  state[r] = "absent" /\ state'[r] = "pending"
    <2>0. MaxRows \in Nat
      BY BoundAssumption DEF MaxRows
    <2>1. r \in Fresh(n) /\ state'[r] = "pending"
      BY <1>1 DEF InsertPending
    <2>2. r > lastId
      BY <2>0, <2>1 DEF Fresh, Rows
    <2> QED
      BY <2>1, <2>2 DEF RowsInOrder
  <1>2. CASE Producer
    <2>1. \E t, k : \E n \in Nat : InsertPending(t, k, n)
      BY <1>2, BoundAssumption DEF Producer, Enqueue, AppendInboxReplies, EnqueueAttachment, Produce
    <2> QED
      BY <1>1, <2>1
  <1>3. ASSUME NEW w \in Workers, Worker(w)
        PROVE  \/ state[r] = "absent" /\ state'[r] = "pending"
               \/ state[r] = "pending" /\ state'[r] = "sending"
               \/ state[r] = "sending" /\ state'[r] \in Settled \cup {"pending"}
    <2>1. CASE \E q \in Rows : ClaimNextOutput(w, q)
      BY <2>1 DEF ClaimNextOutput, Claimable
    <2>2. CASE EnqueueFailureNotice(w)
      BY <1>1, <2>2 DEF EnqueueFailureNotice
    <2>3. CASE Persist(w)
      <3>1. PICK s \in Settled \cup {"pending"} : state' = [state EXCEPT ![job[w]] = s]
        BY <2>3, Zenon DEF Persist, MarkOutput, RetryOutput, RetryServerOutput
      <3>2. state[job[w]] = "sending"
        BY <2>3 DEF Persist
      <3> QED
        BY <3>1, <3>2
    <2> QED
      BY <1>3, <2>1, <2>2, <2>3 DEF Worker, Transmit, FailLocally, AnswerOk,
         AnswerRejection, AnswerUnknown, Report, PersistenceFailure, Leave
  <1>4. CASE Environment
    BY <1>4 DEF Environment, Land, LoseRequest, DeadlinePasses, Stop, Exit, Crash, Reopen, ReopenWith, InState
  <1>5. CASE UNCHANGED vars
    BY <1>5 DEF vars
  <1> QED
    BY <1>2, <1>3, <1>4, <1>5 DEF Next

\* Nothing revises the verdict on a settled row.
THEOREM VerdictIsFinal == Spec => SettledForever
  <1>1. IInv /\ [Next]_vars =>
          [\A r \in Rows : state[r] \in Settled => state'[r] = state[r]]_vars
    BY StateStep DEF Settled
  <1> QED
    BY Invariant, <1>1, PTL DEF Spec, SettledForever

-----------------------------------------------------------------------------
\* The outbox implements TopicDelivery.

\* The verdict TopicDelivery sees in each state of a row.
LEMMA VerdictOf ==
    /\ Verdict("absent") = "none"
    /\ Verdict("pending") = "open"
    /\ Verdict("sending") = "open"
    /\ Verdict("done") = "delivered"
    /\ Verdict("failed") = "failed"
    /\ Verdict("uncertain") = "doubtful"
  BY DEF Verdict, Active

\* An empty outbox has promised nothing.
LEMMA PromiseInit == Init => Promise!AInit
  <1> SUFFICES ASSUME Init PROVE Promise!AInit
    OBVIOUS
  <1>1. [r \in Rows |-> Verdict(state[r])] = [r \in Rows |-> "none"]
    BY VerdictOf DEF Init
  <1> QED
    BY <1>1 DEF Init, Promise!AInit

\* The verdict map, primed.
LEMMA VerdictMap ==
    ASSUME NEW v, NEW M \in SUBSET Rows,
           \A r \in Rows : Verdict(state'[r]) = IF r \in M THEN v ELSE Verdict(state[r])
    PROVE  [r \in Rows |-> Verdict(state[r])]' =
           [r \in Rows |-> IF r \in M THEN v ELSE [q \in Rows |-> Verdict(state[q])][r]]
  OBVIOUS

\* The two modules mean the same by a shown message.
LEMMA LandedIsShown == \A r : Promise!IsShown(r) <=> Landed(r)
  BY DEF Promise!IsShown, Landed

\* Appending rows submits a batch.
LEMMA PromiseSubmit ==
    ASSUME IInv, NEW t \in Topics, NEW k \in Kinds, NEW n \in Nat \ {0},
           InsertPending(t, k, n), UNCHANGED telegramVars
    PROVE  Promise!ANext
  <1> USE DEF IInv, TypeOK
  <1>0. MaxRows \in Nat
    BY BoundAssumption DEF MaxRows
  <1>1. /\ Fresh(n) \in SUBSET Rows /\ Fresh(n) # {}
        /\ \A m \in Fresh(n) : state[m] = "absent"
        /\ \A m \in Fresh(n) : \A q \in Rows : state[q] # "absent" => q < m
    <2>1. /\ lastId \in Nat /\ n \in Nat /\ n > 0 /\ lastId + n <= MaxRows
          /\ \A r \in Rows : state[r] = "absent" <=> r > lastId
      BY <1>0 DEF InsertPending, RowsInOrder
    <2>2. Fresh(n) \in SUBSET Rows /\ lastId + 1 \in Fresh(n)
      BY <1>0, <2>1 DEF Fresh, Rows
    <2>3. \A m \in Fresh(n) : m \in Rows /\ m > lastId
      BY <1>0, <2>1 DEF Fresh, Rows
    <2>4. \A m \in Fresh(n) : \A q \in Rows : state[q] # "absent" => q < m
      BY <1>0, <2>1, <2>3 DEF Rows
    <2> QED
      BY <2>1, <2>2, <2>3, <2>4
  <1>2. \A r \in Rows : Verdict(state'[r]) = IF r \in Fresh(n) THEN "open" ELSE Verdict(state[r])
    BY <1>1, VerdictOf DEF InsertPending
  <1>3. \A r \in Rows : Verdict(state[r]) = "none" <=> state[r] = "absent"
    BY VerdictOf DEF States, Active, Settled
  <1>4. Promise!Submit(t, Fresh(n))
    <2>1. /\ topic' = [m \in Rows |-> IF m \in Fresh(n) THEN t ELSE topic[m]]
          /\ received' = received
      BY DEF InsertPending, telegramVars
    <2> QED
      BY <1>1, <1>2, <1>3, <2>1, VerdictMap DEF Promise!Submit
  <1> QED
    BY <1>1, <1>4 DEF Promise!ANext

\* A message that lands is one TopicDelivery may show now.
LEMMA PromiseShow ==
    ASSUME IInv, NEW r \in Rows, Land(r)
    PROVE  Promise!ANext
  <1> USE DEF IInv, TypeOK
  <1>1. /\ r \in wire /\ ~Landed(r) /\ state[r] \in {"sending", "uncertain"}
        /\ UNCHANGED <<topic, state>>
        /\ received' = [received EXCEPT ![topic[r]] = Append(@, r)]
    BY DEF Land, WireIsOpen, tableVars
  <1>2. \A q \in Rows : q < r /\ topic[q] = topic[r] => state[q] \notin Active
    BY <1>1 DEF TriedInOrder, Tried, Untouched
  <1>3. \A q \in Rows : Verdict(state[q]) = "open" <=> state[q] \in Active
    BY VerdictOf DEF States, Active, Settled
  <1>4. Verdict(state[r]) \in {"open", "doubtful"}
    BY <1>1, VerdictOf
  <1>5. Promise!Show(r)
    BY <1>1, <1>2, <1>3, <1>4, LandedIsShown DEF Promise!Show
  <1> QED
    BY <1>5 DEF Promise!ANext

\* A settling row, or all rows that a reopening finds sending.
LEMMA PromiseConclude ==
    ASSUME IInv, IInv', NEW M \in SUBSET Rows, NEW s \in Settled,
           \A r \in M : state[r] = "sending",
           \A r \in Rows : r \notin M => Verdict(state'[r]) = Verdict(state[r]),
           \A r \in M : state'[r] = s,
           UNCHANGED <<topic, received>>
    PROVE  Promise!ANext
  <1> USE DEF IInv, TypeOK
  <1> DEFINE v == Verdict(s)
  <1>1. v \in {"delivered", "failed", "doubtful"}
    BY VerdictOf DEF Settled
  <1>2. \A r \in M : Verdict(state[r]) = "open" /\ Promise!Justified(r, v)
    <2> SUFFICES ASSUME NEW r \in M PROVE Verdict(state[r]) = "open" /\ Promise!Justified(r, v)
      OBVIOUS
    <2>1. Landed(r)' <=> Landed(r)
      BY DEF Landed
    <2>2. s = "done" => Landed(r)
      BY <2>1 DEF DoneLanded
    <2>3. s = "failed" => ~Landed(r)
      BY <2>1 DEF LandedWasTried, Untouched
    <2> QED
      BY <2>2, <2>3, LandedIsShown, VerdictOf DEF Promise!Justified, Settled
  <1>3. \A r \in Rows : Verdict(state'[r]) = IF r \in M THEN v ELSE Verdict(state[r])
    OBVIOUS
  <1>4. Promise!Conclude(M, v)
    <2> HIDE DEF v
    <2> QED
      BY <1>2, <1>3, VerdictMap DEF Promise!Conclude
  <1> QED
    BY <1>1, <1>4 DEF Promise!ANext

\* What leaves topics, messages and verdicts alone is invisible to the promise.
LEMMA PromiseStutter ==
    ASSUME UNCHANGED <<topic, received>>,
           \A r \in Rows : Verdict(state'[r]) = Verdict(state[r])
    PROVE  UNCHANGED Promise!avars
  <1>1. [r \in Rows |-> Verdict(state[r])]' = [r \in Rows |-> Verdict(state[r])]
    OBVIOUS
  <1> QED
    BY <1>1 DEF Promise!avars

\* Every step of the bridge is a step of the promise or invisible to it.
LEMMA PromiseStep == IInv /\ IInv' /\ [Next]_vars => [Promise!ANext]_Promise!avars
  <1> SUFFICES ASSUME IInv, IInv', [Next]_vars PROVE [Promise!ANext]_Promise!avars
    OBVIOUS
  <1> USE DEF IInv, TypeOK, tableVars, telegramVars
  <1>1. CASE Producer
    <2>1. \E t \in Topics, k \in Kinds, n \in Nat \ {0} : Produce(t, k, n)
      BY <1>1, BoundAssumption DEF Producer, Enqueue, AppendInboxReplies, EnqueueAttachment, Kinds
    <2> QED
      BY <2>1, PromiseSubmit DEF Produce
  <1>2. ASSUME NEW w \in Workers, Worker(w) PROVE [Promise!ANext]_Promise!avars
    <2>1. CASE \E r \in Rows : ClaimNextOutput(w, r)
      <3>1. /\ UNCHANGED <<topic, received>>
            /\ \A r \in Rows : \/ state'[r] = state[r]
                               \/ state[r] = "pending" /\ state'[r] = "sending"
        BY <2>1 DEF ClaimNextOutput, Claimable
      <3> QED
        BY <3>1, VerdictOf, PromiseStutter
    <2>2. CASE EnqueueFailureNotice(w)
      <3>1. job[w] \in Rows /\ topic[job[w]] \in Topics
        BY <2>2 DEF EnqueueFailureNotice, OwnsJob, RowsInOrder
      <3> QED
        BY <2>2, <3>1, PromiseSubmit DEF EnqueueFailureNotice, Kinds
    <2>3. CASE Persist(w)
      <3> DEFINE r == job[w]
      <3>1. r \in Rows /\ state[r] = "sending" /\ UNCHANGED <<topic, received>>
        BY <2>3 DEF Persist, Busy
      <3>2. PICK s \in Settled \cup {"pending"} : state' = [state EXCEPT ![r] = s]
        BY <2>3, Zenon DEF Persist, MarkOutput, RetryOutput, RetryServerOutput, Settled
      <3>3. CASE s = "pending"
        BY <3>1, <3>2, <3>3, VerdictOf, PromiseStutter
      <3>4. CASE s \in Settled
        <4>1. /\ {r} \in SUBSET Rows
              /\ \A q \in {r} : state[q] = "sending" /\ state'[q] = s
              /\ \A q \in Rows : q \notin {r} => Verdict(state'[q]) = Verdict(state[q])
          BY <3>1, <3>2
        <4> QED
          BY <3>1, <3>4, <4>1, PromiseConclude
      <3> QED
        BY <3>3, <3>4
    <2>4. CASE \/ Transmit(w) \/ FailLocally(w) \/ AnswerOk(w)
               \/ (\E o \in Outcomes : AnswerRejection(w, o)) \/ AnswerUnknown(w)
               \/ PersistenceFailure(w) \/ Leave(w)
      <3>1. UNCHANGED <<topic, received, state>>
        BY <2>4 DEF Transmit, FailLocally, AnswerOk, AnswerRejection, AnswerUnknown, Report,
           PersistenceFailure, Leave
      <3> QED
        BY <3>1, PromiseStutter
    <2> QED
      BY <1>2, <2>1, <2>2, <2>3, <2>4 DEF Worker
  <1>3. CASE Environment
    <2>1. CASE \E r \in Rows : Land(r)
      BY <2>1, PromiseShow
    <2>2. CASE Reopen
      <3> DEFINE M == {r \in Rows : state[r] = "sending"}
      <3>1. /\ M \in SUBSET Rows
            /\ \A r \in M : state[r] = "sending" /\ state'[r] = "uncertain"
            /\ \A r \in Rows : r \notin M => Verdict(state'[r]) = Verdict(state[r])
            /\ UNCHANGED <<topic, received>>
        BY <2>2 DEF Reopen, ReopenWith, InState
      <3> QED
        BY <3>1, PromiseConclude DEF Settled
    <2>3. CASE \/ \E r \in Rows : LoseRequest(r) \/ DeadlinePasses(r)
               \/ Stop \/ Exit \/ Crash
      <3>1. UNCHANGED <<topic, received, state>>
        BY <2>3 DEF LoseRequest, DeadlinePasses, Stop, Exit, Crash
      <3> QED
        BY <3>1, PromiseStutter
    <2> QED
      BY <1>3, <2>1, <2>2, <2>3 DEF Environment
  <1>4. CASE UNCHANGED vars
    BY <1>4, PromiseStutter DEF vars
  <1> QED
    BY <1>1, <1>2, <1>3, <1>4 DEF Next

\* The delivery workers, the retries, the crashes and the reopening of the
\* database together keep the promise TopicDelivery makes to each conversation.
THEOREM Refinement == Spec => KeepsPromise
  BY Invariant, PromiseInit, PromiseStep, PTL DEF Spec, KeepsPromise, Promise!ASpec
=============================================================================
