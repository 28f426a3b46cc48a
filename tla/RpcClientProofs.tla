-------------------------- MODULE RpcClientProofs --------------------------
(***************************************************************************)
(* Two properties of the client, proved for any number of calls, budget,   *)
(* slots and frames.                                                       *)
(*                                                                         *)
(* DeletionIsFinal: ArmDestructiveShutdown and CloseStdin look at          *)
(* different flags, the one at stop, the other at destructiveShutdown.     *)
(* What connects them is that the supervisor closes nothing before stop is *)
(* closed, so that a client can no longer be armed once the end of the     *)
(* input has been seen.                                                    *)
(*                                                                         *)
(* EventsAreAccounted: an event moves from the output to the line the      *)
(* reader holds, to the queue, to the offer and to the actor, and its      *)
(* credits with it.  The invariant says of each place which events it      *)
(* holds, counted from those behind it (Stream for the output, Upstream,   *)
(* Downstream), and which credits (CreditsMatch).                          *)
(***************************************************************************)
EXTENDS RpcClient, FiniteSetTheorems, TLAPS

\* The supervisor, and with it the end of the input, comes after stop.
StopComesFirst ==
    /\ sup # "watching" => stop
    /\ eof => stop

Flags == stop \in BOOLEAN /\ eof \in BOOLEAN /\ armed \in BOOLEAN /\ killed \in BOOLEAN

IInv == Flags /\ StopComesFirst /\ DeletionIsFinal

\* The steps of the reader, the forwarder and the calls leave the flags alone, but
\* for stop, which they may close.
QuietStep ==
    /\ stop' = stop \/ stop' = TRUE
    /\ UNCHANGED <<sup, eof, armed, killed>>

\* The reader may end the client.
LEMMA ReaderIsQuiet == ReaderStep => QuietStep
  BY DEF ReaderStep, ReadLine, ReadEnd, RejectFrame, Announced, FirstChunk, Response,
         EnqueueEvent, Overflow, Drain, Abandon, Finish, QuietStep, pipeVars, clientVars

\* So may a call and a start that fail.
LEMMA OthersAreQuiet ==
    ASSUME NEW c \in Calls
    PROVE  /\ WriteFrame \/ OmpExits => QuietStep
           /\ TakeEvent \/ Receive \/ Release \/ ForwarderLeaves => QuietStep
           /\ Reply(c) \/ Register(c) \/ SendRequest(c) \/ SendFails(c) => QuietStep
           /\ TakeAnswer(c) \/ CallFails(c) \/ GiveUp(c) => QuietStep
           /\ Negotiate \/ Negotiated \/ StartFails => QuietStep
  <1>1. WriteFrame \/ OmpExits => QuietStep
    BY DEF WriteFrame, Write, OmpExits, QuietStep, pipeVars, clientVars
  <1>2. TakeEvent \/ Receive \/ Release \/ ForwarderLeaves => QuietStep
    BY DEF TakeEvent, Receive, Release, ForwarderLeaves, Forwarded, QuietStep, pipeVars, clientVars
  <1>3. Reply(c) \/ Register(c) \/ SendRequest(c) \/ SendFails(c) => QuietStep
    BY DEF Reply, Register, SendRequest, SendFails, Called, QuietStep, pipeVars, clientVars
  <1>4. TakeAnswer(c) \/ CallFails(c) \/ GiveUp(c) => QuietStep
    BY DEF TakeAnswer, CallFails, GiveUp, Called, QuietStep, pipeVars, clientVars
  <1>5. Negotiate \/ Negotiated \/ StartFails => QuietStep
    BY DEF Negotiate, Negotiated, StartFails, Started, QuietStep, pipeVars
  <1> QED
    BY <1>1, <1>2, <1>3, <1>4, <1>5

\* A quiet step keeps the invariant.
LEMMA QuietKeeps == IInv /\ QuietStep => IInv'
  <1> SUFFICES ASSUME IInv, QuietStep PROVE IInv'
    OBVIOUS
  <1>1. Flags /\ StopComesFirst /\ DeletionIsFinal
    BY DEF IInv
  <1>2. UNCHANGED <<sup, eof, armed, killed>> /\ (stop' = stop \/ stop' = TRUE)
    BY DEF QuietStep
  <1>3. Flags' /\ (stop => stop')
    BY <1>1, <1>2 DEF Flags
  <1>4. StopComesFirst'
    BY <1>1, <1>2, <1>3 DEF StopComesFirst
  <1>5. DeletionIsFinal'
    BY <1>1, <1>2 DEF DeletionIsFinal
  <1> QED
    BY <1>3, <1>4, <1>5 DEF IInv

\* Every step keeps the invariant; what counts is who arms and who closes the input.
LEMMA Inductive == IInv /\ [Next]_rpcVars => IInv'
  <1> SUFFICES ASSUME IInv, [Next]_rpcVars PROVE IInv'
    OBVIOUS
  <1>1. CASE QuietStep
    BY <1>1, QuietKeeps
  <1>2. CASE ArmDestructiveShutdown
    <2>1. ~stop /\ armed' = TRUE /\ UNCHANGED <<stop, sup, eof, killed>>
      BY <1>2 DEF ArmDestructiveShutdown, pipeVars
    <2>2. ~eof
      BY <2>1 DEF IInv, StopComesFirst
    <2> QED
      BY <2>1, <2>2 DEF IInv, Flags, StopComesFirst, DeletionIsFinal
  <1>3. CASE CloseStdin
    <2>1. /\ sup = "closing" /\ sup' = "waiting" /\ killed' = (killed \/ armed)
          /\ eof' = (eof \/ (omp = "running" /\ ~killed'))
          /\ UNCHANGED <<stop, armed>>
      BY <1>3 DEF CloseStdin
    <2>2. stop /\ Flags /\ DeletionIsFinal
      BY <2>1 DEF IInv, StopComesFirst
    <2>3. armed => ~eof'
      BY <2>1, <2>2 DEF Flags, DeletionIsFinal
    <2>4. Flags'
      BY <2>1, <2>2 DEF Flags
    <2> QED
      BY <2>1, <2>2, <2>3, <2>4 DEF IInv, StopComesFirst, DeletionIsFinal
  <1>4. CASE Close \/ TerminateNow
    <2>1. /\ (stop' = stop \/ stop' = TRUE) /\ killed' \in BOOLEAN
          /\ UNCHANGED <<sup, eof, armed>>
      BY <1>4 DEF Close, TerminateNow, pipeVars, IInv, Flags
    <2>2. Flags /\ StopComesFirst /\ DeletionIsFinal
      BY DEF IInv
    <2>3. Flags' /\ (stop => stop')
      BY <2>1, <2>2 DEF Flags
    <2>4. StopComesFirst'
      BY <2>1, <2>2, <2>3 DEF StopComesFirst
    <2>5. DeletionIsFinal'
      BY <2>1, <2>2 DEF DeletionIsFinal
    <2> QED
      BY <2>3, <2>4, <2>5 DEF IInv
  <1>5. CASE Notice \/ KillGroup \/ Reap \/ CloseStdout \/ CloseDone
    <2>1. /\ (stop' = stop /\ sup # "watching") \/ stop' = TRUE
          /\ killed' \in BOOLEAN /\ UNCHANGED <<eof, armed>>
      BY <1>5 DEF Notice, KillGroup, Reap, CloseStdout, CloseDone, pipeVars, IInv, Flags
    <2>2. Flags /\ StopComesFirst /\ DeletionIsFinal
      BY DEF IInv
    <2>3. Flags' /\ (stop => stop')
      BY <2>1, <2>2 DEF Flags
    <2>4. StopComesFirst'
      BY <2>1, <2>2, <2>3 DEF StopComesFirst
    <2>5. DeletionIsFinal'
      BY <2>1, <2>2 DEF DeletionIsFinal
    <2> QED
      BY <2>3, <2>4, <2>5 DEF IInv
  <1>6. CASE UNCHANGED rpcVars
    BY <1>6, QuietKeeps DEF rpcVars, QuietStep, pipeVars, clientVars
  <1>7. ASSUME NEW c \in Calls,
               \/ Reply(c) \/ Register(c) \/ SendRequest(c) \/ SendFails(c)
               \/ TakeAnswer(c) \/ CallFails(c) \/ GiveUp(c)
        PROVE  QuietStep
    BY <1>7, OthersAreQuiet
  <1>8. ASSUME \/ WriteFrame \/ OmpExits \/ ReaderStep
               \/ TakeEvent \/ Receive \/ Release \/ ForwarderLeaves
               \/ Negotiate \/ Negotiated \/ StartFails
        PROVE  QuietStep
    BY <1>8, ReaderIsQuiet, OthersAreQuiet, CallAssumption
  <1> QED
    BY <1>1, <1>2, <1>3, <1>4, <1>5, <1>6, <1>7, <1>8 DEF Next, Supervise

\* The end of the input comes after stop, an armed client's never while the process
\* lives.
THEOREM Invariant == Spec => []IInv
  <1>1. Init => IInv
    BY DEF Init, IInv, Flags, StopComesFirst, DeletionIsFinal
  <1> QED
    BY <1>1, Inductive, PTL DEF Spec

\* ArmDestructiveShutdown, CloseStdin and TerminateNow: OMP never sees the end of its
\* input once the client is armed for a deletion.
THEOREM DeletionStaysFinal == Spec => []DeletionIsFinal
  <1>1. IInv => DeletionIsFinal
    BY DEF IInv
  <1> QED
    BY <1>1, Invariant, PTL

-----------------------------------------------------------------------------
\* The events.  What is counted are indices of a sequence: an element appended adds
\* one at the end, the tail shifts them all.

\* A set of indices is finite.
LEMMA IndicesAreFinite ==
    ASSUME NEW n \in Nat, NEW S \in SUBSET (1 .. n)
    PROVE  IsFiniteSet(S) /\ Cardinality(S) \in Nat
  <1>1. IsFiniteSet(1 .. n)
    BY FS_Interval
  <1>2. IsFiniteSet(S)
    BY <1>1, FS_Subset
  <1> QED
    BY <1>2, FS_CardinalityType

\* The indices that are left once the first is gone.
LEMMA ShiftedIndices ==
    ASSUME NEW n \in Nat \ {0}, NEW S \in SUBSET (1 .. n),
           NEW T \in SUBSET (1 .. n - 1), \A i \in 1 .. n - 1 : i \in T <=> i + 1 \in S
    PROVE  /\ IsFiniteSet(T) /\ Cardinality(T) \in Nat
           /\ Cardinality(S) = Cardinality(T) + (IF 1 \in S THEN 1 ELSE 0)
  <1> DEFINE f == [i \in T |-> i + 1]
  <1>1. IsFiniteSet(S) /\ Cardinality(S) \in Nat
    BY IndicesAreFinite
  <1>2. IsFiniteSet(T) /\ Cardinality(T) \in Nat
    <2>1. T \in SUBSET (1 .. n)
      OBVIOUS
    <2> QED
      BY <2>1, IndicesAreFinite
  <1>3. f \in Bijection(T, S \ {1})
    <2>1. f \in Injection(T, S \ {1})
      <3>1. f \in [T -> S \ {1}]
        OBVIOUS
      <3>2. \A a, b \in T : f[a] = f[b] => a = b
        OBVIOUS
      <3> QED
        BY <3>1, <3>2 DEF Injection, IsInjective
    <2>2. \A s \in S \ {1} : \E t \in T : f[t] = s
      <3> SUFFICES ASSUME NEW s \in S \ {1} PROVE \E t \in T : f[t] = s
        OBVIOUS
      <3>1. s - 1 \in 1 .. n - 1 /\ (s - 1) + 1 = s
        OBVIOUS
      <3> QED
        BY <3>1
    <2> QED
      BY <2>1, <2>2 DEF Bijection, Surjection, Injection
  <1>4. Cardinality(S \ {1}) = Cardinality(T)
    <2>1. ExistsBijection(T, S \ {1})
      BY <1>3 DEF ExistsBijection
    <2> QED
      BY <1>2, <2>1, FS_Bijection
  <1>5. Cardinality(S \ {1}) = IF 1 \in S THEN Cardinality(S) - 1 ELSE Cardinality(S)
    BY <1>1, FS_RemoveElement
  <1> QED
    BY <1>1, <1>2, <1>4, <1>5

Frames == [kind : Kinds, event : Nat, of : Calls, cost : Nat]
EventsIn(s) == {i \in DOMAIN s : s[i].event > 0}

\* The events of the sequence are those after n up to m, in their order.
Stream(s, n, m) ==
    /\ \A i \in EventsIn(s) : s[i].event \in n + 1 .. m
    /\ \A i, j \in EventsIn(s) : i < j => s[i].event < s[j].event
    /\ \A e \in n + 1 .. m : \E i \in EventsIn(s) : s[i].event = e
    /\ m = n + Cardinality(EventsIn(s))

\* What the tail of a sequence of frames is.
LEMMA TailOfFrames ==
    ASSUME NEW s \in Seq(Frames), s # <<>>
    PROVE  /\ Tail(s) \in Seq(Frames) /\ Len(s) \in Nat \ {0} /\ Len(Tail(s)) = Len(s) - 1
           /\ Head(s) = s[1] /\ Head(s) \in Frames
           /\ DOMAIN s = 1 .. Len(s) /\ DOMAIN Tail(s) = 1 .. Len(s) - 1
           /\ \A i \in 1 .. Len(s) - 1 : Tail(s)[i] = s[i + 1]
  OBVIOUS

\* What an appended frame changes.
LEMMA AppendedFrame ==
    ASSUME NEW s \in Seq(Frames), NEW f \in Frames
    PROVE  /\ Append(s, f) \in Seq(Frames) /\ Len(s) \in Nat
           /\ Len(Append(s, f)) = Len(s) + 1
           /\ DOMAIN s = 1 .. Len(s) /\ DOMAIN Append(s, f) = 1 .. Len(s) + 1
           /\ \A i \in 1 .. Len(s) : Append(s, f)[i] = s[i]
           /\ Append(s, f)[Len(s) + 1] = f
  OBVIOUS

\* The events of a sequence can be counted.
LEMMA EventsAreFinite ==
    ASSUME NEW s \in Seq(Frames)
    PROVE  IsFiniteSet(EventsIn(s)) /\ Cardinality(EventsIn(s)) \in Nat
  <1>1. EventsIn(s) \in SUBSET (1 .. Len(s)) /\ Len(s) \in Nat
    BY DEF EventsIn
  <1> QED
    BY <1>1, IndicesAreFinite

\* A frame that is no event changes nothing.
LEMMA StreamIgnores ==
    ASSUME NEW s \in Seq(Frames), NEW f \in Frames, NEW n \in Nat, NEW m \in Nat,
           f.event = 0, Stream(s, n, m)
    PROVE  Stream(Append(s, f), n, m)
  <1>1. EventsIn(Append(s, f)) = EventsIn(s)
    BY AppendedFrame DEF EventsIn
  <1>2. \A i \in EventsIn(s) : Append(s, f)[i] = s[i]
    BY AppendedFrame DEF EventsIn
  <1> QED
    BY <1>1, <1>2 DEF Stream

\* The next event makes the stream longer.
LEMMA StreamGrows ==
    ASSUME NEW s \in Seq(Frames), NEW f \in Frames, NEW n \in Nat, NEW m \in Nat,
           f.event = m + 1, Stream(s, n, m)
    PROVE  Stream(Append(s, f), n, m + 1)
  <1> DEFINE t == Append(s, f)
             l == Len(s) + 1
  <1>1. /\ EventsIn(t) = EventsIn(s) \cup {l}
        /\ l \notin EventsIn(s)
        /\ t[l] = f
        /\ \A i \in EventsIn(s) : t[i] = s[i] /\ i \in 1 .. Len(s)
    BY AppendedFrame DEF EventsIn
  <1> HIDE DEF t
  <1>2. Cardinality(EventsIn(t)) = Cardinality(EventsIn(s)) + 1
    BY <1>1, EventsAreFinite, FS_AddElement
  <1>3. m = n + Cardinality(EventsIn(s)) /\ Cardinality(EventsIn(s)) \in Nat
    BY EventsAreFinite DEF Stream
  <1>4. \A i \in EventsIn(t) : t[i].event \in n + 1 .. m + 1
    BY <1>1, <1>3 DEF Stream
  <1>5. \A i, j \in EventsIn(t) : i < j => t[i].event < t[j].event
    <2> SUFFICES ASSUME NEW i \in EventsIn(t), NEW j \in EventsIn(t), i < j
                 PROVE  t[i].event < t[j].event
      OBVIOUS
    <2>1. Len(s) \in Nat
      OBVIOUS
    <2>2. i \in EventsIn(s)
      BY <1>1, <2>1
    <2>3. CASE j = l
      BY <1>1, <2>2, <2>3 DEF Stream
    <2>4. CASE j \in EventsIn(s)
      BY <1>1, <2>2, <2>4 DEF Stream
    <2> QED
      BY <1>1, <2>3, <2>4
  <1>6. \A e \in n + 1 .. m + 1 : \E i \in EventsIn(t) : t[i].event = e
    <2> SUFFICES ASSUME NEW e \in n + 1 .. m + 1 PROVE \E i \in EventsIn(t) : t[i].event = e
      OBVIOUS
    <2>1. CASE e = m + 1
      BY <1>1, <2>1
    <2>2. CASE e \in n + 1 .. m
      <3>1. PICK i \in EventsIn(s) : s[i].event = e
        BY <2>2 DEF Stream
      <3> QED
        BY <1>1, <3>1
    <2> QED
      BY <2>1, <2>2
  <1>7. m + 1 = n + Cardinality(EventsIn(t))
    BY <1>2, <1>3
  <1> QED
    BY <1>4, <1>5, <1>6, <1>7 DEF Stream, t

\* The first frame is no event, or the next one.
LEMMA StreamShrinks ==
    ASSUME NEW s \in Seq(Frames), s # <<>>, NEW n \in Nat, NEW m \in Nat, Stream(s, n, m)
    PROVE  /\ Head(s).event = 0 => Stream(Tail(s), n, m)
           /\ Head(s).event > 0 => Head(s).event = n + 1 /\ Stream(Tail(s), n + 1, m)
  <1> DEFINE t == Tail(s)
             k == IF Head(s).event > 0 THEN n + 1 ELSE n
  <1>1. /\ Len(s) \in Nat \ {0} /\ Head(s) = s[1] /\ Head(s).event \in Nat
        /\ DOMAIN s = 1 .. Len(s) /\ DOMAIN t = 1 .. Len(s) - 1
        /\ \A i \in 1 .. Len(s) - 1 : t[i] = s[i + 1]
    BY TailOfFrames DEF Frames
  <1> HIDE DEF t
  <1>2. EventsIn(t) = {i \in 1 .. Len(s) - 1 : i + 1 \in EventsIn(s)}
    BY <1>1 DEF EventsIn
  <1>3. /\ EventsIn(s) \in SUBSET (1 .. Len(s))
        /\ 1 \in EventsIn(s) <=> Head(s).event > 0
    BY <1>1 DEF EventsIn
  <1>4. Cardinality(EventsIn(s)) = Cardinality(EventsIn(t)) + (IF 1 \in EventsIn(s) THEN 1 ELSE 0)
        /\ Cardinality(EventsIn(t)) \in Nat
    <2> DEFINE S == EventsIn(s)
               T == EventsIn(t)
               length == Len(s)
    <2>1. /\ length \in Nat \ {0}
          /\ S \in SUBSET (1 .. length) /\ T \in SUBSET (1 .. length - 1)
          /\ \A i \in 1 .. length - 1 : i \in T <=> i + 1 \in S
      BY <1>1, <1>2, <1>3
    <2>2. /\ Cardinality(S) = Cardinality(T) + (IF 1 \in S THEN 1 ELSE 0)
          /\ Cardinality(T) \in Nat
      <3> HIDE DEF S, T, length
      <3> QED
        BY <2>1, ShiftedIndices, ZenonT(60)
    <2> QED
      BY <2>2 DEF S, T
  <1>5. m = k + Cardinality(EventsIn(t))
    BY <1>3, <1>4 DEF Stream
  <1>6. Head(s).event > 0 => Head(s).event = n + 1
    <2> SUFFICES ASSUME Head(s).event > 0 PROVE Head(s).event = n + 1
      OBVIOUS
    <2>1. 1 \in EventsIn(s) /\ s[1].event \in n + 1 .. m
      BY <1>1, <1>3 DEF Stream
    <2>2. PICK i \in EventsIn(s) : s[i].event = n + 1
      BY <2>1 DEF Stream
    <2>3. i \in 1 .. Len(s) /\ (i # 1 => s[1].event < s[i].event)
      BY <1>1, <1>3, <2>1 DEF Stream
    <2> QED
      BY <1>1, <2>1, <2>2, <2>3
  <1>7. \A i \in EventsIn(t) : /\ i \in Nat /\ i + 1 \in EventsIn(s)
                               /\ t[i] = s[i + 1] /\ t[i].event \in k + 1 .. m
    <2> SUFFICES ASSUME NEW i \in EventsIn(t)
                 PROVE  /\ i \in Nat /\ i + 1 \in EventsIn(s)
                        /\ t[i] = s[i + 1] /\ t[i].event \in k + 1 .. m
      OBVIOUS
    <2>1. i \in 1 .. Len(s) - 1 /\ i + 1 \in EventsIn(s) /\ t[i] = s[i + 1]
      BY <1>1, <1>2
    <2>2. s[i + 1].event \in n + 1 .. m
      BY <2>1 DEF Stream
    <2>3. Head(s).event > 0 => s[1].event < s[i + 1].event
      BY <1>1, <1>3, <2>1 DEF Stream
    <2> QED
      BY <1>1, <1>6, <2>1, <2>2, <2>3
  <1>8. \A i, j \in EventsIn(t) : i < j => t[i].event < t[j].event
    BY <1>7 DEF Stream
  <1>9. \A e \in k + 1 .. m : \E i \in EventsIn(t) : t[i].event = e
    <2> SUFFICES ASSUME NEW e \in k + 1 .. m PROVE \E i \in EventsIn(t) : t[i].event = e
      OBVIOUS
    <2>1. e \in n + 1 .. m
      OBVIOUS
    <2>2. PICK i \in EventsIn(s) : s[i].event = e
      BY <2>1 DEF Stream
    <2>3. i # 1 /\ i \in 1 .. Len(s)
      BY <1>1, <1>3, <1>6, <2>2
    <2>4. i - 1 \in 1 .. Len(s) - 1 /\ (i - 1) + 1 = i
      BY <1>1, <2>3
    <2> QED
      BY <1>1, <1>2, <2>2, <2>4
  <1>10. Stream(t, k, m)
    BY <1>5, <1>7, <1>8, <1>9 DEF Stream
  <1> QED
    BY <1>6, <1>10 DEF t

-----------------------------------------------------------------------------
\* The credits of the queue.

Cost(q) == Len(q) + (LogicalCost - 1) * Cardinality({i \in DOMAIN q : q[i].cost # 1})

\* What one more reassembled frame adds.
LEMMA OneMore ==
    ASSUME NEW a \in Nat, NEW b \in Nat
    PROVE  a * (b + 1) = a * b + a /\ a * b \in Nat
  OBVIOUS

\* An appended frame adds what it cost.
LEMMA CostOfAppended ==
    ASSUME NEW q \in Seq(Frames), NEW f \in Frames, f.cost \in {1, LogicalCost}
    PROVE  Cost(Append(q, f)) = Cost(q) + f.cost
  <1> DEFINE t == Append(q, f)
             S == {i \in DOMAIN q : q[i].cost # 1}
             T == {i \in DOMAIN t : t[i].cost # 1}
             l == Len(q) + 1
  <1>1. /\ Len(q) \in Nat /\ Len(t) = l
        /\ S \in SUBSET (1 .. Len(q))
        /\ T = IF f.cost = 1 THEN S ELSE S \cup {l}
    BY AppendedFrame
  <1>2. Cost(q) = Len(q) + (LogicalCost - 1) * Cardinality(S)
        /\ Cost(t) = Len(t) + (LogicalCost - 1) * Cardinality(T)
    BY DEF Cost
  <1> HIDE DEF S, T, t
  <1>8. IsFiniteSet(S) /\ Cardinality(S) \in Nat
    BY <1>1, IndicesAreFinite
  <1>9. l \notin S
    BY <1>1
  <1>3. Cardinality(S) \in Nat /\ Cardinality(S \cup {l}) = Cardinality(S) + 1
    BY <1>8, <1>9, FS_AddElement
  <1>4. LogicalCost - 1 \in Nat
    BY BudgetAssumption
  <1>5. (LogicalCost - 1) * (Cardinality(S) + 1)
          = (LogicalCost - 1) * Cardinality(S) + (LogicalCost - 1)
        /\ (LogicalCost - 1) * Cardinality(S) \in Nat
    BY <1>3, <1>4, OneMore
  <1>6. CASE f.cost = 1
    BY <1>1, <1>2, <1>5, <1>6 DEF t
  <1>7. CASE f.cost # 1
    <2>1. Cost(t) = Len(q) + 1 + (LogicalCost - 1) * (Cardinality(S) + 1)
      BY <1>1, <1>2, <1>3, <1>7
    <2>2. f.cost = LogicalCost /\ LogicalCost \in Nat
      BY <1>7, BudgetAssumption
    <2>3. Cost(t) = Cost(q) + f.cost
      BY <1>1, <1>2, <1>5, <2>1, <2>2
    <2> QED
      BY <2>3 DEF t
  <1> QED
    BY <1>6, <1>7

\* The first frame takes what it cost away with it.
LEMMA CostOfTail ==
    ASSUME NEW q \in Seq(Frames), q # <<>>, Head(q).cost \in {1, LogicalCost}
    PROVE  Cost(q) = Head(q).cost + Cost(Tail(q)) /\ Cost(Tail(q)) \in Nat
  <1> DEFINE t == Tail(q)
             S == {i \in DOMAIN q : q[i].cost # 1}
             T == {i \in DOMAIN t : t[i].cost # 1}
             h == Head(q).cost
             n == Len(q)
  <1>1. /\ n \in Nat \ {0} /\ Len(t) = n - 1
        /\ S \in SUBSET (1 .. n) /\ T \in SUBSET (1 .. n - 1)
        /\ \A i \in 1 .. n - 1 : i \in T <=> i + 1 \in S
        /\ 1 \in S <=> h # 1
    BY TailOfFrames
  <1>2. Cost(q) = n + (LogicalCost - 1) * Cardinality(S)
        /\ Cost(t) = Len(t) + (LogicalCost - 1) * Cardinality(T)
    BY DEF Cost
  <1>3. h \in {1, LogicalCost}
    OBVIOUS
  <1> HIDE DEF S, T, t, h, n
  <1>4. /\ Cardinality(T) \in Nat
        /\ Cardinality(S) = Cardinality(T) + (IF 1 \in S THEN 1 ELSE 0)
    BY <1>1, ShiftedIndices
  <1>5. LogicalCost - 1 \in Nat
    BY BudgetAssumption
  <1>6. (LogicalCost - 1) * (Cardinality(T) + 1)
          = (LogicalCost - 1) * Cardinality(T) + (LogicalCost - 1)
        /\ (LogicalCost - 1) * Cardinality(T) \in Nat
    BY <1>4, <1>5, OneMore
  <1>7. Cost(t) \in Nat /\ Cost(t) = n - 1 + (LogicalCost - 1) * Cardinality(T)
    BY <1>1, <1>2, <1>6
  <1>8. CASE h = 1
    <2>1. Cost(q) = n + (LogicalCost - 1) * Cardinality(T)
      BY <1>1, <1>2, <1>4, <1>8
    <2>2. Cost(q) = h + Cost(t)
      BY <1>1, <1>6, <1>7, <1>8, <2>1
    <2> QED
      BY <1>7, <2>2 DEF t, h
  <1>9. CASE h # 1
    <2>1. Cost(q) = n + (LogicalCost - 1) * (Cardinality(T) + 1)
      BY <1>1, <1>2, <1>4, <1>9
    <2>2. h = LogicalCost /\ LogicalCost \in Nat
      BY <1>3, <1>9, BudgetAssumption
    <2>3. Cost(q) = h + Cost(t)
      BY <1>1, <1>6, <1>7, <2>1, <2>2
    <2> QED
      BY <1>7, <2>3 DEF t, h
  <1> QED
    BY <1>8, <1>9

\* A queue costs nothing or something, never less.
LEMMA CostIsNatural ==
    ASSUME NEW q \in Seq(Frames)
    PROVE  Cost(q) \in Nat
  <1> DEFINE S == {i \in DOMAIN q : q[i].cost # 1}
  <1>1. S \in SUBSET (1 .. Len(q)) /\ Len(q) \in Nat /\ LogicalCost - 1 \in Nat
    BY BudgetAssumption
  <1>2. Cost(q) = Len(q) + (LogicalCost - 1) * Cardinality(S)
    BY DEF Cost
  <1> HIDE DEF S
  <1>3. Cardinality(S) \in Nat
    BY <1>1, IndicesAreFinite
  <1>4. (LogicalCost - 1) * Cardinality(S) \in Nat
    BY <1>1, <1>3, OneMore
  <1> QED
    BY <1>1, <1>2, <1>4

-----------------------------------------------------------------------------
\* Where the events are.

\* A line as OMP writes it.
Whole(f) == f.cost = 1 /\ (f.event > 0 <=> f.kind \in {"event", "last"})

Types ==
    /\ pipe \in Seq(Frames) /\ queue \in Seq(Frames) /\ got \in Seq(Nat)
    /\ line \in Frames /\ offer \in Frames
    /\ emitted \in Nat /\ used \in Int
    /\ partial \in BOOLEAN /\ stop \in BOOLEAN
    /\ reader \in {"reading", "frame", "draining", "gone"}
    /\ fwd \in {"taking", "offering", "releasing", "gone"}

\* What each place may hold, and that a reader or a forwarder that left it follows stop.
Places ==
    /\ \A i \in DOMAIN pipe : Whole(pipe[i])
    /\ reader = "frame" => Whole(line)
    /\ reader # "frame" => line = NoFrame
    /\ reader \in {"draining", "gone"} => stop /\ ~partial
    /\ \A i \in DOMAIN queue : queue[i].cost \in {1, LogicalCost}
    /\ fwd = "taking" => offer = NoFrame
    /\ fwd = "gone" => stop

\* The events received or offered; with those of the queue; with that of the line.
Taken == Len(got) + (IF fwd = "offering" THEN 1 ELSE 0)
Queued == Taken + Len(queue)
Read == Queued + (IF line.event > 0 THEN 1 ELSE 0)

Received == \A i \in DOMAIN got : got[i] = i

Downstream ==
    fwd # "gone" =>
        /\ fwd = "offering" => offer.event = Len(got) + 1
        /\ \A i \in DOMAIN queue : queue[i].event = Taken + i

Upstream ==
    fwd # "gone" /\ reader \in {"reading", "frame"} =>
        /\ line.event > 0 => line.event = Queued + 1
        /\ Stream(pipe, Read, emitted)

EInv == Types /\ Places /\ CreditsMatch /\ Received /\ Downstream /\ Upstream

\* The credits, in terms of the queue's, before and after a step.
LEMMA CreditsAre ==
    /\ Outstanding = line.cost + Assembly + offer.cost + Cost(queue)
    /\ Outstanding' = line'.cost + Assembly' + offer'.cost + Cost(queue')
  <1> DEFINE a == line.cost + Assembly + offer.cost
             b == line'.cost + Assembly' + offer'.cost
             c(q) == Cardinality({i \in DOMAIN q : q[i].cost # 1})
  <1>1. Outstanding = a + (Len(queue) + (LogicalCost - 1) * c(queue))
    BY DEF Outstanding, Reassembled
  <1>2. Outstanding' = b + (Len(queue') + (LogicalCost - 1) * c(queue'))
    BY DEF Outstanding, Reassembled
  <1>3. Cost(queue) = Len(queue) + (LogicalCost - 1) * c(queue)
        /\ Cost(queue') = Len(queue') + (LogicalCost - 1) * c(queue')
    BY DEF Cost
  <1> QED
    BY <1>1, <1>2, <1>3

\* A frame that is none.
LEMMA NoFrameIs ==
    /\ NoFrame \in Frames /\ NoFrame.kind = "none" /\ NoFrame.event = 0 /\ NoFrame.cost = 0
  BY CallAssumption DEF NoFrame, Frames, Kinds

\* Each count is a number.
LEMMA Counts ==
    ASSUME Types
    PROVE  /\ Len(got) \in Nat /\ Len(queue) \in Nat /\ line.event \in Nat /\ line.cost \in Nat
           /\ offer.event \in Nat /\ offer.cost \in Nat
           /\ Taken \in Nat /\ Queued \in Nat /\ Read \in Nat /\ Cost(queue) \in Nat
           /\ LogicalCost \in Nat \ {0} /\ Assembly \in Nat
  <1>1. Len(got) \in Nat /\ Len(queue) \in Nat /\ line.event \in Nat /\ line.cost \in Nat
        /\ offer.event \in Nat /\ offer.cost \in Nat /\ queue \in Seq(Frames)
    BY DEF Types, Frames
  <1>2. Taken \in Nat
    BY <1>1 DEF Taken
  <1>4. Queued \in Nat
    BY <1>1, <1>2 DEF Queued
  <1>5. Read \in Nat
    BY <1>1, <1>4 DEF Read
  <1>3. LogicalCost \in Nat \ {0} /\ Assembly \in Nat
    BY BudgetAssumption DEF Assembly
  <1> QED
    BY <1>1, <1>2, <1>3, <1>4, <1>5, CostIsNatural

-----------------------------------------------------------------------------
\* The steps, by what they do to the events.

stationVars == <<pipe, emitted, reader, line, partial, used, queue, fwd, offer, got>>

\* Nothing moves; the client may end.
Bystander == UNCHANGED stationVars /\ (stop' = stop \/ stop' = TRUE)

LEMMA BystanderKeeps == EInv /\ Bystander => EInv'
  <1> SUFFICES ASSUME EInv, Bystander PROVE EInv'
    OBVIOUS
  <1>1. /\ UNCHANGED <<pipe, emitted, reader, line, partial, used, queue, fwd, offer, got>>
        /\ stop' = stop \/ stop' = TRUE
    BY DEF Bystander, stationVars
  <1>2. Types' /\ (stop => stop')
    BY <1>1 DEF EInv, Types
  <1>3. Places'
    BY <1>1, <1>2 DEF EInv, Places
  <1>4. CreditsMatch'
    BY <1>1 DEF EInv, CreditsMatch, Outstanding, Assembly, Reassembled
  <1>5. Received' /\ Downstream' /\ Upstream'
    BY <1>1 DEF EInv, Received, Downstream, Upstream, Read, Queued, Taken
  <1> QED
    BY <1>2, <1>3, <1>4, <1>5 DEF EInv

\* OMP writes a frame, an event with the next number.
Written(f) ==
    /\ f \in Frames /\ Whole(f)
    /\ \/ f.event = 0 /\ emitted' = emitted
       \/ f.event = emitted + 1 /\ emitted' = emitted + 1
    /\ pipe' = Append(pipe, f)
    /\ UNCHANGED <<reader, line, partial, used, queue, fwd, offer, got, stop>>

LEMMA WrittenKeeps ==
    ASSUME EInv, NEW f, Written(f)
    PROVE  EInv'
  <1>1. /\ f \in Frames /\ Whole(f) /\ pipe' = Append(pipe, f)
        /\ \/ f.event = 0 /\ emitted' = emitted
           \/ f.event = emitted + 1 /\ emitted' = emitted + 1
        /\ UNCHANGED <<reader, line, partial, used, queue, fwd, offer, got, stop>>
    BY DEF Written
  <1>2. Types /\ Places /\ pipe \in Seq(Frames) /\ emitted \in Nat
    BY DEF EInv, Types
  <1>3. Types'
    BY <1>1, <1>2, AppendedFrame DEF Types
  <1>4. \A i \in DOMAIN pipe' : Whole(pipe'[i])
    <2> SUFFICES ASSUME NEW i \in DOMAIN pipe' PROVE Whole(pipe'[i])
      OBVIOUS
    <2>1. (i \in DOMAIN pipe /\ pipe'[i] = pipe[i]) \/ pipe'[i] = f
      BY <1>1, <1>2, AppendedFrame
    <2> QED
      BY <1>1, <1>2, <2>1 DEF Places
  <1>5. Places'
    BY <1>1, <1>2, <1>4 DEF Places
  <1>6. CreditsMatch'
    BY <1>1 DEF EInv, CreditsMatch, Outstanding, Assembly, Reassembled
  <1>7. Received' /\ Downstream' /\ Read' = Read /\ Queued' = Queued
    BY <1>1 DEF EInv, Received, Downstream, Read, Queued, Taken
  <1>8. Read \in Nat
    BY <1>2, Counts
  <1>9. Stream(pipe, Read, emitted) => Stream(pipe', Read, emitted')
    BY <1>1, <1>2, <1>8, StreamIgnores, StreamGrows
  <1>10. Upstream'
    BY <1>1, <1>7, <1>9 DEF EInv, Upstream
  <1> QED
    BY <1>3, <1>5, <1>6, <1>7, <1>10 DEF EInv

\* The frames OMP writes are of this kind.
LEMMA WritesFrames ==
    ASSUME EInv, NEW c \in Calls, WriteFrame \/ Reply(c)
    PROVE  \E f : Written(f)
  <1>1. emitted \in Nat
    BY DEF EInv, Types
  <1>8. \A k \in Kinds : /\ Frame(k) \in Frames /\ Frame(k).kind = k
                        /\ Frame(k).event = 0 /\ Frame(k).cost = 1
    BY NoFrameIs DEF Frame, Frames
  <1>9. \A n \in Nat : /\ Event(n, 1) \in Frames /\ Event(n, 1).kind = "event"
                      /\ Event(n, 1).event = n /\ Event(n, 1).cost = 1
    BY NoFrameIs DEF Event, Frames, Kinds
  <1>3. ASSUME NEW f \in Frames, f.cost = 1,
               \/ f.kind \in {"event", "last"} /\ f.event = emitted + 1 /\ emitted' = emitted + 1
               \/ f.kind \notin {"event", "last"} /\ f.event = 0 /\ emitted' = emitted,
               pipe' = Append(pipe, f), UNCHANGED <<readerVars, used, queue, fwdVars, stop>>
        PROVE  Written(f)
    <2>1. Whole(f)
      BY <1>1, <1>3 DEF Whole
    <2>2. UNCHANGED <<reader, line, partial, used, queue, fwd, offer, got, stop>>
      BY <1>3 DEF readerVars, fwdVars
    <2>3. \/ f.event = 0 /\ emitted' = emitted
          \/ f.event = emitted + 1 /\ emitted' = emitted + 1
      BY <1>3
    <2> QED
      BY <1>3, <2>1, <2>2, <2>3 DEF Written
  <1>10. \A f : Write(f) =>
            /\ pipe' = Append(pipe, f) /\ UNCHANGED <<readerVars, used, queue, fwdVars, stop>>
            /\ f.kind \in {"event", "last"} => emitted' = emitted + 1
            /\ f.kind \notin {"event", "last"} => emitted' = emitted
    BY DEF Write
  <1>2. ASSUME NEW k \in {"ready", "first", "bad"}, Write(Frame(k))
        PROVE  \E f : Written(f)
    <2> DEFINE f == Frame(k)
    <2>1. f \in Frames /\ f.kind = k /\ f.event = 0 /\ f.cost = 1
      BY <1>8 DEF Kinds
    <2> HIDE DEF f
    <2>2. Write(f)
      BY <1>2 DEF f
    <2>3. Written(f)
      BY <1>3, <1>10, <2>1, <2>2
    <2> QED
      BY <2>3
  <1>11. ASSUME NEW f \in Frames, Write(f),
                f.kind \in {"event", "last"}, f.event = emitted + 1, f.cost = 1
         PROVE  Written(f)
    <2>1. /\ pipe' = Append(pipe, f) /\ UNCHANGED <<readerVars, used, queue, fwdVars, stop>>
          /\ emitted' = emitted + 1
      BY <1>10, <1>11
    <2> QED
      BY <1>3, <1>11, <2>1
  <1> DEFINE l == [Event(emitted + 1, 1) EXCEPT !.kind = "last"]
  <1>4. l \in Frames /\ l.kind = "last" /\ l.event = emitted + 1 /\ l.cost = 1
    BY <1>1, <1>9 DEF Frames, Kinds
  <1>6. CASE WriteFrame
    <2>1. \/ \E k \in {"ready", "first", "bad"} : Write(Frame(k))
          \/ Write(Event(emitted + 1, 1)) \/ Write(l)
      BY <1>6 DEF WriteFrame
    <2> HIDE DEF l
    <2>2. CASE Write(Event(emitted + 1, 1))
      BY <1>1, <1>9, <1>11, <2>2
    <2>3. CASE Write(l)
      BY <1>4, <1>11, <2>3
    <2> QED
      BY <1>2, <2>1, <2>2, <2>3
  <1>7. CASE Reply(c)
    <2> DEFINE f == [Frame("response") EXCEPT !.of = c]
    <2>1. /\ f \in Frames /\ f.kind = "response" /\ f.event = 0 /\ f.cost = 1
      BY <1>8 DEF Frames, Kinds
    <2>2. pipe' = Append(pipe, f) /\ emitted' = emitted
          /\ UNCHANGED <<readerVars, used, queue, fwdVars, stop>>
      BY <1>7 DEF Reply
    <2> HIDE DEF f
    <2>3. Written(f)
      BY <1>3, <2>1, <2>2
    <2> QED
      BY <2>3
  <1> QED
    BY <1>6, <1>7

\* The reader takes a line.
Takes ==
    /\ reader = "reading" /\ reader' = "frame"
    /\ pipe # <<>> /\ pipe' = Tail(pipe) /\ line' = Head(pipe)
    /\ used + 1 <= Budget /\ used' = used + 1
    /\ UNCHANGED <<emitted, partial, queue, fwd, offer, got, stop>>

LEMMA TakesKeeps == EInv /\ Takes => EInv'
  <1> SUFFICES ASSUME EInv, Takes PROVE EInv'
    OBVIOUS
  <1>1. /\ reader = "reading" /\ reader' = "frame"
        /\ pipe # <<>> /\ pipe' = Tail(pipe) /\ line' = Head(pipe)
        /\ used + 1 <= Budget /\ used' = used + 1
        /\ UNCHANGED <<emitted, partial, queue, fwd, offer, got, stop>>
    BY DEF Takes
  <1>2. Types /\ Places /\ pipe \in Seq(Frames) /\ emitted \in Nat
    BY DEF EInv, Types
  <1>3. /\ pipe' \in Seq(Frames) /\ Head(pipe) \in Frames
        /\ DOMAIN pipe = 1 .. Len(pipe) /\ DOMAIN pipe' = 1 .. Len(pipe) - 1
        /\ Len(pipe) \in Nat \ {0} /\ Head(pipe) = pipe[1]
        /\ \A i \in 1 .. Len(pipe) - 1 : pipe'[i] = pipe[i + 1]
    BY <1>1, <1>2, TailOfFrames
  <1>4. Types'
    BY <1>1, <1>2, <1>3 DEF Types
  <1>5. Whole(Head(pipe)) /\ \A i \in DOMAIN pipe' : Whole(pipe'[i])
    BY <1>2, <1>3 DEF Places
  <1>6. Places'
    BY <1>1, <1>2, <1>5 DEF Places
  <1>7. line = NoFrame /\ line.cost = 0 /\ line.event = 0
    BY <1>1, <1>2, NoFrameIs DEF Places
  <1>8. line'.cost = 1 /\ line'.event \in Nat
    BY <1>1, <1>3, <1>5 DEF Whole, Frames
  <1>9. CreditsMatch'
    <2>1. Assembly' = Assembly /\ Cost(queue') = Cost(queue) /\ offer' = offer
      BY <1>1 DEF Assembly, Cost
    <2>2. /\ used = line.cost + Assembly + offer.cost + Cost(queue)
          /\ used \in 0 .. Budget
      BY CreditsAre DEF EInv, CreditsMatch
    <2>3. Outstanding' = line'.cost + Assembly' + offer'.cost + Cost(queue')
      BY CreditsAre
    <2>4. Assembly \in Nat /\ offer.cost \in Nat /\ Cost(queue) \in Nat
      BY <1>2, Counts
    <2>5. Outstanding' = used + 1
      BY <1>7, <1>8, <2>1, <2>2, <2>3, <2>4
    <2>6. Budget \in Nat
      BY BudgetAssumption
    <2> QED
      BY <1>1, <2>2, <2>5, <2>6 DEF CreditsMatch
  <1>10. Received' /\ Downstream' /\ Queued' = Queued /\ Taken' = Taken
    BY <1>1 DEF EInv, Received, Downstream, Queued, Taken
  <1>11. Upstream'
    <2> SUFFICES ASSUME fwd # "gone" PROVE Upstream'
      BY <1>1 DEF Upstream
    <2>1. Queued \in Nat /\ Read = Queued
      BY <1>2, <1>7, Counts DEF Read
    <2>2. Stream(pipe, Queued, emitted)
      BY <1>1, <2>1 DEF EInv, Upstream
    <2>3. CASE line'.event > 0
      <3>1. line'.event = Queued + 1 /\ Stream(pipe', Queued + 1, emitted)
        BY <1>1, <1>2, <2>1, <2>2, <2>3, StreamShrinks
      <3>2. Read' = Queued + 1
        BY <1>10, <2>3 DEF Read
      <3> QED
        BY <1>1, <1>10, <3>1, <3>2 DEF Upstream
    <2>4. CASE line'.event = 0
      <3>1. Stream(pipe', Queued, emitted)
        BY <1>1, <1>2, <2>1, <2>2, <2>4, StreamShrinks
      <3>2. Read' = Queued
        BY <1>10, <2>1, <2>4 DEF Read
      <3> QED
        BY <1>1, <2>4, <3>1, <3>2 DEF Upstream
    <2> QED
      BY <1>8, <2>3, <2>4
  <1> QED
    BY <1>4, <1>6, <1>9, <1>10, <1>11 DEF EInv

\* The reader gives up: it gives back what it holds, and what follows is discarded.
GivesUp ==
    /\ reader' = "draining" /\ stop' = TRUE
    /\ line' = NoFrame /\ partial' = FALSE
    /\ used' = used - line.cost - Assembly
    /\ pipe' = pipe \/ (pipe # <<>> /\ pipe' = Tail(pipe))
    /\ UNCHANGED <<emitted, queue, fwd, offer, got>>

LEMMA GivesUpKeeps == EInv /\ GivesUp => EInv'
  <1> SUFFICES ASSUME EInv, GivesUp PROVE EInv'
    OBVIOUS
  <1>1. /\ reader' = "draining" /\ stop' = TRUE
        /\ line' = NoFrame /\ partial' = FALSE
        /\ used' = used - line.cost - Assembly
        /\ pipe' = pipe \/ (pipe # <<>> /\ pipe' = Tail(pipe))
        /\ UNCHANGED <<emitted, queue, fwd, offer, got>>
    BY DEF GivesUp
  <1>2. Types /\ Places /\ pipe \in Seq(Frames)
    BY DEF EInv, Types
  <1>3. pipe' \in Seq(Frames) /\ \A i \in DOMAIN pipe' : Whole(pipe'[i])
    <2>1. CASE pipe' = pipe
      BY <1>2, <2>1 DEF Places
    <2>2. CASE pipe # <<>> /\ pipe' = Tail(pipe)
      BY <1>2, <2>2, TailOfFrames DEF Places
    <2> QED
      BY <1>1, <2>1, <2>2
  <1>4. Types'
    <2>1. used' \in Int
      BY <1>1, <1>2, Counts DEF Types
    <2> QED
      BY <1>1, <1>2, <1>3, <2>1, NoFrameIs DEF Types
  <1>5. Places'
    BY <1>1, <1>2, <1>3 DEF Places
  <1>6. CreditsMatch'
    <2>1. Assembly' = 0 /\ line'.cost = 0 /\ queue' = queue /\ offer' = offer
      BY <1>1, NoFrameIs DEF Assembly
    <2>2. /\ used = line.cost + Assembly + offer.cost + Cost(queue)
          /\ used \in 0 .. Budget
      BY CreditsAre DEF EInv, CreditsMatch
    <2>3. Outstanding' = line'.cost + Assembly' + offer'.cost + Cost(queue')
      BY CreditsAre
    <2>4. /\ Assembly \in Nat /\ offer.cost \in Nat /\ Cost(queue) \in Nat /\ line.cost \in Nat
          /\ Budget \in Nat
      BY <1>2, Counts, BudgetAssumption
    <2>5. Outstanding' = offer.cost + Cost(queue)
      BY <2>1, <2>3, <2>4
    <2>6. used' = offer.cost + Cost(queue)
      BY <1>1, <2>2, <2>4
    <2> QED
      BY <2>2, <2>4, <2>5, <2>6 DEF CreditsMatch
  <1>7. Received' /\ Downstream' /\ Upstream'
    BY <1>1 DEF EInv, Received, Downstream, Upstream, Taken
  <1> QED
    BY <1>4, <1>5, <1>6, <1>7 DEF EInv

\* The reader is done with a frame that is no event; a chunk may have reserved what
\* the whole frame will cost.
LetsGo ==
    /\ reader = "frame" /\ reader' = "reading"
    /\ line.event = 0 /\ line' = NoFrame
    /\ used' = used - 1 + Assembly' - Assembly /\ used' <= Budget
    /\ partial' \in BOOLEAN
    /\ UNCHANGED <<pipe, emitted, queue, fwd, offer, got, stop>>

LEMMA LetsGoKeeps == EInv /\ LetsGo => EInv'
  <1> SUFFICES ASSUME EInv, LetsGo PROVE EInv'
    OBVIOUS
  <1>1. /\ reader = "frame" /\ reader' = "reading"
        /\ line.event = 0 /\ line' = NoFrame
        /\ used' = used - 1 + Assembly' - Assembly /\ used' <= Budget
        /\ partial' \in BOOLEAN
        /\ UNCHANGED <<pipe, emitted, queue, fwd, offer, got, stop>>
    BY DEF LetsGo
  <1>2. Types /\ Places /\ line.cost = 1
    BY <1>1 DEF EInv, Places, Whole
  <1>3. Assembly' \in Nat /\ Assembly \in Nat /\ used \in Int
    BY <1>2, BudgetAssumption DEF Assembly, Types
  <1>4. Types'
    <2>1. used' \in Int
      BY <1>1, <1>3
    <2> QED
      BY <1>1, <1>2, <2>1, NoFrameIs DEF Types
  <1>5. Places'
    BY <1>1, <1>2 DEF Places
  <1>6. CreditsMatch'
    <2>1. line'.cost = 0 /\ queue' = queue /\ offer' = offer
      BY <1>1, NoFrameIs
    <2>2. /\ used = line.cost + Assembly + offer.cost + Cost(queue)
      BY CreditsAre DEF EInv, CreditsMatch
    <2>3. Outstanding' = line'.cost + Assembly' + offer'.cost + Cost(queue')
      BY CreditsAre
    <2>4. offer.cost \in Nat /\ Cost(queue) \in Nat /\ Budget \in Nat
      BY <1>2, Counts, BudgetAssumption
    <2>5. Outstanding' = Assembly' + offer.cost + Cost(queue)
      BY <1>3, <2>1, <2>3, <2>4
    <2>6. used' = Assembly' + offer.cost + Cost(queue)
      BY <1>1, <1>2, <1>3, <2>2, <2>4
    <2>7. used' = Outstanding' /\ used' \in Nat
      BY <1>3, <2>4, <2>5, <2>6
    <2>8. used' \in 0 .. Budget
      BY <1>1, <2>4, <2>7
    <2> QED
      BY <2>7, <2>8 DEF CreditsMatch
  <1>7. Received' /\ Downstream'
    BY <1>1 DEF EInv, Received, Downstream, Taken
  <1>8. Queued' = Queued /\ Read' = Queued /\ Read = Queued
    BY <1>1, <1>2, NoFrameIs, Counts DEF Queued, Taken, Read
  <1>9. Upstream'
    BY <1>1, <1>8, NoFrameIs DEF EInv, Upstream
  <1> QED
    BY <1>4, <1>5, <1>6, <1>7, <1>9 DEF EInv

\* The event of the line joins the queue, as what it is now complete with.
Joins(f) ==
    /\ reader = "frame" /\ reader' = "reading"
    /\ line.event > 0 /\ line' = NoFrame
    /\ f \in Frames /\ f.event = line.event
    /\ f.cost = (IF partial THEN LogicalCost ELSE 1)
    /\ queue' = Append(queue, f)
    /\ used' = used - (IF partial THEN 1 ELSE 0)
    /\ partial' = FALSE
    /\ UNCHANGED <<pipe, emitted, fwd, offer, got, stop>>

LEMMA JoinsKeeps ==
    ASSUME EInv, NEW f, Joins(f)
    PROVE  EInv'
  <1>1. /\ reader = "frame" /\ reader' = "reading"
        /\ line.event > 0 /\ line' = NoFrame
        /\ f \in Frames /\ f.event = line.event
        /\ f.cost = (IF partial THEN LogicalCost ELSE 1)
        /\ queue' = Append(queue, f)
        /\ used' = used - (IF partial THEN 1 ELSE 0)
        /\ partial' = FALSE
        /\ UNCHANGED <<pipe, emitted, fwd, offer, got, stop>>
    BY DEF Joins
  <1>2. Types /\ Places /\ line.cost = 1 /\ queue \in Seq(Frames)
    BY <1>1 DEF EInv, Places, Whole, Types
  <1>3. /\ queue' \in Seq(Frames) /\ Len(queue) \in Nat
        /\ Len(queue') = Len(queue) + 1
        /\ DOMAIN queue = 1 .. Len(queue) /\ DOMAIN queue' = 1 .. Len(queue) + 1
        /\ \A i \in 1 .. Len(queue) : queue'[i] = queue[i]
        /\ queue'[Len(queue) + 1] = f
    BY <1>1, <1>2, AppendedFrame
  <1>4. Types'
    <2>1. used' \in Int
      BY <1>1, <1>2 DEF Types
    <2> QED
      BY <1>1, <1>2, <1>3, <2>1, NoFrameIs DEF Types
  <1>5. Places'
    <2>1. \A i \in DOMAIN queue' : queue'[i].cost \in {1, LogicalCost}
      BY <1>1, <1>2, <1>3 DEF Places
    <2> QED
      BY <1>1, <1>2, <2>1 DEF Places
  <1>6. CreditsMatch'
    <2>1. line'.cost = 0 /\ offer' = offer /\ Assembly' = 0
      BY <1>1, NoFrameIs DEF Assembly
    <2>2. /\ used = line.cost + Assembly + offer.cost + Cost(queue)
          /\ used \in 0 .. Budget
      BY CreditsAre DEF EInv, CreditsMatch
    <2>3. Outstanding' = line'.cost + Assembly' + offer'.cost + Cost(queue')
      BY CreditsAre
    <2>4. /\ offer.cost \in Nat /\ Cost(queue) \in Nat /\ Budget \in Nat
          /\ LogicalCost \in Nat
      BY <1>2, Counts, BudgetAssumption
    <2>5. Cost(queue') = Cost(queue) + f.cost
      BY <1>1, <1>2, CostOfAppended
    <2>6. CASE partial
      <3>1. Assembly = LogicalCost /\ f.cost = LogicalCost /\ used' = used - 1
        BY <1>1, <2>6 DEF Assembly
      <3>2. used = 1 + LogicalCost + offer.cost + Cost(queue)
        BY <1>2, <2>2, <3>1
      <3>3. Outstanding' = offer.cost + Cost(queue) + LogicalCost
        BY <2>1, <2>3, <2>4, <2>5, <3>1
      <3>4. used' = Outstanding' /\ used' \in 0 .. Budget
        BY <2>2, <2>4, <3>1, <3>2, <3>3
      <3> QED
        BY <3>4 DEF CreditsMatch
    <2>7. CASE ~partial
      <3>1. Assembly = 0 /\ f.cost = 1 /\ used' = used
        BY <1>1, <1>2, <2>7 DEF Assembly, Types
      <3>2. used' = Outstanding' /\ used' \in 0 .. Budget
        BY <1>2, <2>1, <2>2, <2>3, <2>4, <2>5, <3>1
      <3> QED
        BY <3>2 DEF CreditsMatch
    <2> QED
      BY <2>6, <2>7
  <1>7. Received' /\ Taken' = Taken
    BY <1>1 DEF EInv, Received, Taken
  <1>8. Queued' = Queued + 1 /\ Read = Queued + 1 /\ Read' = Queued' /\ Queued \in Nat
    <2>1. Queued' = Queued + 1 /\ Queued \in Nat
      BY <1>2, <1>3, <1>7, Counts DEF Queued
    <2> QED
      BY <1>1, <2>1, NoFrameIs DEF Read
  <1>9. Downstream'
    <2> SUFFICES ASSUME fwd # "gone" PROVE Downstream'
      BY <1>1 DEF Downstream
    <2>1. line.event = Queued + 1 /\ Queued = Taken + Len(queue) /\ Taken \in Nat
      BY <1>1, <1>2, Counts DEF EInv, Upstream, Queued
    <2>2. \A i \in DOMAIN queue' : queue'[i].event = Taken + i
      <3> SUFFICES ASSUME NEW i \in DOMAIN queue' PROVE queue'[i].event = Taken + i
        OBVIOUS
      <3>1. CASE i = Len(queue) + 1
        BY <1>1, <1>3, <2>1, <3>1
      <3>2. CASE i \in DOMAIN queue
        BY <1>3, <3>2 DEF EInv, Downstream
      <3> QED
        BY <1>3, <3>1, <3>2
    <2> QED
      BY <1>1, <1>7, <2>2 DEF EInv, Downstream
  <1>10. Upstream'
    BY <1>1, <1>8, NoFrameIs DEF EInv, Upstream
  <1> QED
    BY <1>4, <1>5, <1>6, <1>7, <1>9, <1>10 DEF EInv

\* The output is discarded, up to its end.
LEMMA DrainKeeps == EInv /\ Drain => EInv'
  <1> SUFFICES ASSUME EInv, Drain PROVE EInv'
    OBVIOUS
  <1>1. /\ reader = "draining" /\ reader' \in {"draining", "gone"}
        /\ pipe' = pipe \/ pipe' = <<>>
        /\ UNCHANGED <<emitted, line, partial, used, queue, fwd, offer, got, stop>>
    BY DEF Drain, fwdVars
  <1>2. Types /\ Places
    BY DEF EInv
  <1>3. pipe' \in Seq(Frames) /\ \A i \in DOMAIN pipe' : Whole(pipe'[i])
    <2>1. CASE pipe' = pipe
      BY <1>2, <2>1 DEF Types, Places
    <2>2. CASE pipe' = <<>>
      BY <2>2
    <2> QED
      BY <1>1, <2>1, <2>2
  <1>4. Types'
    BY <1>1, <1>2, <1>3 DEF Types
  <1>5. Places'
    BY <1>1, <1>2, <1>3 DEF Places
  <1>6. CreditsMatch'
    BY <1>1 DEF EInv, CreditsMatch, Outstanding, Assembly, Reassembled
  <1>7. Received' /\ Downstream' /\ Upstream'
    BY <1>1 DEF EInv, Received, Downstream, Upstream, Taken
  <1> QED
    BY <1>4, <1>5, <1>6, <1>7 DEF EInv

\* The forwarder takes the first event of the queue.
LEMMA TakeEventKeeps == EInv /\ TakeEvent => EInv'
  <1> SUFFICES ASSUME EInv, TakeEvent PROVE EInv'
    OBVIOUS
  <1>1. /\ fwd = "taking" /\ fwd' = "offering"
        /\ queue # <<>> /\ offer' = Head(queue) /\ queue' = Tail(queue)
        /\ UNCHANGED <<pipe, emitted, reader, line, partial, used, got, stop>>
    BY DEF TakeEvent, Forwarded, ompVars, readerVars
  <1>2. Types /\ Places /\ queue \in Seq(Frames) /\ offer = NoFrame
    BY <1>1 DEF EInv, Places, Types
  <1>3. /\ queue' \in Seq(Frames) /\ Len(queue) \in Nat \ {0} /\ Len(queue') = Len(queue) - 1
        /\ Head(queue) = queue[1] /\ Head(queue) \in Frames
        /\ DOMAIN queue = 1 .. Len(queue) /\ DOMAIN queue' = 1 .. Len(queue) - 1
        /\ \A i \in 1 .. Len(queue) - 1 : queue'[i] = queue[i + 1]
    BY <1>1, <1>2, TailOfFrames
  <1>4. Types'
    BY <1>1, <1>2, <1>3 DEF Types
  <1>5. Head(queue).cost \in {1, LogicalCost} /\ \A i \in DOMAIN queue' : queue'[i].cost \in {1, LogicalCost}
    BY <1>2, <1>3 DEF Places
  <1>6. Places'
    BY <1>1, <1>2, <1>5 DEF Places
  <1>7. CreditsMatch'
    <2>1. Assembly' = Assembly /\ offer.cost = 0 /\ line' = line
      BY <1>1, <1>2, NoFrameIs DEF Assembly
    <2>2. Cost(queue) = offer'.cost + Cost(queue') /\ Cost(queue') \in Nat
      BY <1>1, <1>2, <1>5, CostOfTail
    <2>3. /\ used = line.cost + Assembly + offer.cost + Cost(queue)
          /\ used \in 0 .. Budget
      BY CreditsAre DEF EInv, CreditsMatch
    <2>4. Outstanding' = line'.cost + Assembly' + offer'.cost + Cost(queue')
      BY CreditsAre
    <2>5. /\ Assembly \in Nat /\ Cost(queue) \in Nat /\ line.cost \in Nat
          /\ offer'.cost \in Nat
      BY <1>1, <1>2, <1>3, Counts DEF Frames
    <2>6. used = Outstanding'
      BY <2>1, <2>2, <2>3, <2>4, <2>5
    <2> QED
      BY <1>1, <2>3, <2>6 DEF CreditsMatch
  <1>8. Taken = Len(got) /\ Taken' = Taken + 1 /\ Len(got) \in Nat
    BY <1>1, <1>2, Counts DEF Taken
  <1>9. Queued' = Queued /\ Read' = Read
    <2>1. Queued' = Queued
      BY <1>3, <1>8 DEF Queued
    <2> QED
      BY <1>1, <2>1 DEF Read
  <1>10. Downstream'
    <2>1. queue[1].event = Len(got) + 1
      BY <1>1, <1>3, <1>8 DEF EInv, Downstream
    <2>2. \A i \in DOMAIN queue' : queue'[i].event = Taken' + i
      <3> SUFFICES ASSUME NEW i \in DOMAIN queue' PROVE queue'[i].event = Taken' + i
        OBVIOUS
      <3>1. i + 1 \in DOMAIN queue /\ queue'[i] = queue[i + 1] /\ i \in Nat
        BY <1>3
      <3>2. queue[i + 1].event = Taken + (i + 1)
        BY <1>1, <3>1 DEF EInv, Downstream
      <3> QED
        BY <1>8, <3>1, <3>2
    <2> QED
      BY <1>1, <1>3, <2>1, <2>2 DEF Downstream
  <1>11. Upstream' /\ Received'
    BY <1>1, <1>9 DEF EInv, Upstream, Received
  <1> QED
    BY <1>4, <1>6, <1>7, <1>10, <1>11 DEF EInv

\* The actor receives the event that is offered.
LEMMA ReceiveKeeps == EInv /\ Receive => EInv'
  <1> SUFFICES ASSUME EInv, Receive PROVE EInv'
    OBVIOUS
  <1>1. /\ fwd = "offering" /\ fwd' = "releasing" /\ got' = Append(got, offer.event)
        /\ UNCHANGED <<pipe, emitted, reader, line, partial, used, queue, offer, stop>>
    BY DEF Receive, Forwarded, ompVars, readerVars
  <1>2. Types /\ Places /\ got \in Seq(Nat) /\ offer.event \in Nat
    BY Counts DEF EInv, Types
  <1>3. offer.event = Len(got) + 1 /\ Len(got) \in Nat
    BY <1>1, <1>2 DEF EInv, Downstream
  <1>4. /\ got' \in Seq(Nat) /\ Len(got') = Len(got) + 1
        /\ \A i \in DOMAIN got' : (i \in DOMAIN got /\ got'[i] = got[i])
                                    \/ (i = Len(got) + 1 /\ got'[i] = offer.event)
    BY <1>1, <1>2
  <1>5. Received'
    BY <1>3, <1>4 DEF EInv, Received
  <1>6. Types' /\ Places'
    BY <1>1, <1>2, <1>4 DEF Types, Places
  <1>7. CreditsMatch'
    BY <1>1 DEF EInv, CreditsMatch, Outstanding, Assembly, Reassembled
  <1>8. Taken' = Taken
    BY <1>1, <1>3, <1>4 DEF Taken
  <1>9. Queued' = Queued /\ Read' = Read
    BY <1>1, <1>8 DEF Queued, Read
  <1>10. Downstream' /\ Upstream'
    BY <1>1, <1>8, <1>9 DEF EInv, Downstream, Upstream
  <1> QED
    BY <1>5, <1>6, <1>7, <1>10 DEF EInv

\* Its credits are given back.
LEMMA ReleaseKeeps == EInv /\ Release => EInv'
  <1> SUFFICES ASSUME EInv, Release PROVE EInv'
    OBVIOUS
  <1>1. /\ fwd = "releasing" /\ fwd' = "taking" /\ offer' = NoFrame
        /\ used' = used - offer.cost
        /\ UNCHANGED <<pipe, emitted, reader, line, partial, queue, got, stop>>
    BY DEF Release, Forwarded, ompVars, readerVars
  <1>2. Types /\ Places /\ used \in Int /\ offer.cost \in Nat
    BY Counts DEF EInv, Types
  <1>3. used' \in Int
    BY <1>1, <1>2
  <1>4. Types' /\ Places'
    BY <1>1, <1>2, <1>3, NoFrameIs DEF Types, Places
  <1>5. CreditsMatch'
    <2>1. Assembly' = Assembly /\ offer'.cost = 0 /\ line' = line /\ queue' = queue
      BY <1>1, NoFrameIs DEF Assembly
    <2>2. /\ used = line.cost + Assembly + offer.cost + Cost(queue)
          /\ used \in 0 .. Budget
      BY CreditsAre DEF EInv, CreditsMatch
    <2>3. Outstanding' = line'.cost + Assembly' + offer'.cost + Cost(queue')
      BY CreditsAre
    <2>4. Assembly \in Nat /\ Cost(queue) \in Nat /\ line.cost \in Nat /\ Budget \in Nat
      BY <1>2, Counts, BudgetAssumption
    <2>5. Outstanding' = line.cost + Assembly + Cost(queue)
      BY <2>1, <2>3, <2>4
    <2>6. used' = line.cost + Assembly + Cost(queue)
      BY <1>1, <1>2, <2>2, <2>4
    <2>7. used' \in 0 .. Budget
      BY <1>1, <1>2, <2>2, <2>4, <2>6
    <2> QED
      BY <2>5, <2>6, <2>7 DEF CreditsMatch
  <1>6. Taken' = Taken
    BY <1>1 DEF Taken
  <1>7. Queued' = Queued /\ Read' = Read
    BY <1>1, <1>6 DEF Queued, Read
  <1>8. Received' /\ Downstream' /\ Upstream'
    BY <1>1, <1>6, <1>7 DEF EInv, Received, Downstream, Upstream
  <1> QED
    BY <1>4, <1>5, <1>8 DEF EInv

\* The forwarder leaves only once the client has stopped: the reader's end implies it.
LEMMA LeavesKeeps == EInv /\ ForwarderLeaves => EInv'
  <1> SUFFICES ASSUME EInv, ForwarderLeaves PROVE EInv'
    OBVIOUS
  <1>1. /\ fwd' = "gone" /\ (stop \/ reader = "gone")
        /\ UNCHANGED <<pipe, emitted, reader, line, partial, used, queue, offer, got, stop>>
    BY DEF ForwarderLeaves, Forwarded, ompVars, readerVars
  <1>2. Types /\ Places /\ stop
    BY <1>1 DEF EInv, Places
  <1>3. Types' /\ Places'
    BY <1>1, <1>2 DEF Types, Places
  <1>4. CreditsMatch'
    BY <1>1 DEF EInv, CreditsMatch, Outstanding, Assembly, Reassembled
  <1>5. Received' /\ Downstream' /\ Upstream'
    BY <1>1 DEF EInv, Received, Downstream, Upstream
  <1> QED
    BY <1>3, <1>4, <1>5 DEF EInv

-----------------------------------------------------------------------------
\* Every step is one of these.

\* The reader's steps.
LEMMA ReaderKeeps == EInv /\ ReaderStep => EInv'
  <1> SUFFICES ASSUME EInv, ReaderStep PROVE EInv'
    OBVIOUS
  <1>1. /\ Types /\ Places /\ line.event \in Nat /\ line.cost \in Nat
        /\ LogicalCost \in Nat \ {0} /\ Budget \in Nat
        /\ used \in Int /\ used <= Budget
        /\ partial \in BOOLEAN
    BY Counts, BudgetAssumption DEF EInv, CreditsMatch, Types
  <1>2. reader = "reading" => line.cost = 0
    BY <1>1, NoFrameIs DEF Places
  <1>3. reader = "frame" => line.cost = 1 /\ (line.event > 0 <=> line.kind \in {"event", "last"})
    BY <1>1 DEF Places, Whole
  <1>4. partial => Assembly = LogicalCost
    BY DEF Assembly
  <1>5. ~partial => Assembly = 0
    BY DEF Assembly
  <1>6. CASE ReadLine
    <2>1. CASE used + 1 > Budget
      <3>1. GivesUp
        BY <1>1, <1>2, <1>4, <1>5, <1>6, <2>1 DEF ReadLine, Abandon, GivesUp, fwdVars
      <3> QED
        BY <3>1, GivesUpKeeps
    <2>2. CASE ~(used + 1 > Budget)
      <3>1. Takes
        BY <1>1, <1>6, <2>2 DEF ReadLine, Takes, fwdVars
      <3> QED
        BY <3>1, TakesKeeps
    <2> QED
      BY <2>1, <2>2
  <1>7. CASE ReadEnd \/ RejectFrame \/ Overflow
    <2>1. GivesUp
      <3>1. CASE ReadEnd
        BY <1>1, <1>2, <1>4, <1>5, <3>1 DEF ReadEnd, Abandon, GivesUp, fwdVars, ompVars
      <3>2. CASE RejectFrame \/ Overflow
        <4>1. /\ reader = "frame" /\ Abandon(1 + Assembly)
              /\ UNCHANGED <<pipe, emitted, queue, fwd, offer, got>>
          BY <3>2 DEF RejectFrame, Overflow, HasEvent, fwdVars, ompVars
        <4> QED
          BY <1>1, <1>3, <1>4, <1>5, <4>1 DEF Abandon, GivesUp
      <3> QED
        BY <1>7, <3>1, <3>2
    <2> QED
      BY <2>1, GivesUpKeeps
  <1>8. CASE Announced \/ Response
    <2>1. /\ reader = "frame" /\ line.kind \notin {"event", "last"} /\ Finish(1)
          /\ UNCHANGED <<pipe, emitted, partial, queue, fwd, offer, got>>
      BY <1>8 DEF Announced, Response, fwdVars, ompVars
    <2>2. line.event = 0 /\ Assembly' = Assembly
      BY <1>1, <1>3, <2>1 DEF Assembly
    <2>3. LetsGo
      BY <1>1, <1>4, <1>5, <2>1, <2>2 DEF Finish, LetsGo
    <2> QED
      BY <2>3, LetsGoKeeps
  <1>9. CASE FirstChunk
    <2>1. /\ reader = "frame" /\ line.kind = "first" /\ ~partial
          /\ UNCHANGED <<pipe, emitted, queue, fwd, offer, got>>
      BY <1>9 DEF FirstChunk, Rejected, fwdVars, ompVars
    <2>2. Assembly = 0 /\ line.event = 0 /\ line.cost = 1
      BY <1>1, <1>3, <1>5, <2>1
    <2>3. CASE used + LogicalCost > Budget
      <3>1. GivesUp
        BY <1>1, <1>9, <2>1, <2>2, <2>3 DEF FirstChunk, Abandon, GivesUp
      <3> QED
        BY <3>1, GivesUpKeeps
    <2>4. CASE ~(used + LogicalCost > Budget)
      <3>1. /\ Finish(1 - LogicalCost) /\ partial' = TRUE /\ Assembly' = LogicalCost
        BY <1>9, <2>4 DEF FirstChunk, Assembly
      <3>2. used' = used - 1 + Assembly' - Assembly /\ used' <= Budget
        BY <1>1, <2>2, <2>4, <3>1 DEF Finish
      <3>3. LetsGo
        BY <1>1, <2>1, <2>2, <3>1, <3>2 DEF Finish, LetsGo
      <3> QED
        BY <3>3, LetsGoKeeps
    <2> QED
      BY <2>3, <2>4
  <1>10. CASE EnqueueEvent
    <2>1. /\ reader = "frame" /\ ~Rejected /\ line.kind \in {"event", "last"}
          /\ queue' = Append(queue, Complete) /\ partial' = FALSE
          /\ Finish(IF partial THEN 1 ELSE 0)
          /\ UNCHANGED <<pipe, emitted, fwd, offer, got>>
      BY <1>10 DEF EnqueueEvent, HasEvent, fwdVars, ompVars
    <2>2. /\ Complete \in Frames /\ Complete.event = line.event
          /\ Complete.cost = (IF partial THEN LogicalCost ELSE 1)
      <3>1. CASE partial
        BY <1>1, <3>1, NoFrameIs DEF Complete, Event, Frames, Kinds
      <3>2. CASE ~partial
        BY <1>1, <1>3, <2>1, <3>2 DEF Complete, Types
      <3> QED
        BY <3>1, <3>2
    <2>3. Joins(Complete)
      BY <1>3, <2>1, <2>2 DEF Finish, Joins
    <2> QED
      BY <2>3, JoinsKeeps
  <1>11. CASE Drain
    BY <1>11, DrainKeeps
  <1> QED
    BY <1>6, <1>7, <1>8, <1>9, <1>10, <1>11 DEF ReaderStep

\* The calls, the start, the shutdown and the end of the process move no event.
LEMMA OthersStandBy ==
    ASSUME NEW c \in Calls
    PROVE  /\ Register(c) \/ SendRequest(c) \/ SendFails(c) => Bystander
           /\ TakeAnswer(c) \/ CallFails(c) \/ GiveUp(c) => Bystander
           /\ Negotiate \/ Negotiated \/ StartFails \/ OmpExits => Bystander
           /\ ArmDestructiveShutdown \/ Close \/ TerminateNow => Bystander
           /\ Supervise => Bystander
  <1> USE DEF Bystander, stationVars, readerVars, fwdVars, ompVars
  <1>1. Register(c) \/ SendRequest(c) \/ SendFails(c) => Bystander
    BY DEF Register, SendRequest, SendFails, Called
  <1>2. TakeAnswer(c) \/ CallFails(c) \/ GiveUp(c) => Bystander
    BY DEF TakeAnswer, CallFails, GiveUp, Called
  <1>3. Negotiate \/ Negotiated \/ StartFails \/ OmpExits => Bystander
    BY DEF Negotiate, Negotiated, StartFails, Started, OmpExits
  <1>4. ArmDestructiveShutdown \/ Close \/ TerminateNow => Bystander
    BY DEF ArmDestructiveShutdown, Close, TerminateNow, ShutdownStep
  <1>5. Supervise => Bystander
    BY DEF Supervise, Notice, CloseStdin, KillGroup, Reap, CloseStdout, CloseDone, ShutdownStep
  <1> QED
    BY <1>1, <1>2, <1>3, <1>4, <1>5

\* The places are empty in the beginning.
LEMMA EventsInit == Init => EInv
  <1> SUFFICES ASSUME Init PROVE EInv
    OBVIOUS
  <1>1. /\ pipe = <<>> /\ queue = <<>> /\ got = <<>> /\ line = NoFrame /\ offer = NoFrame
        /\ emitted = 0 /\ used = 0 /\ partial = FALSE /\ stop = FALSE
        /\ reader = "reading" /\ fwd = "taking"
    BY DEF Init
  <1>2. Types
    <2>1. <<>> \in Seq(Frames) /\ <<>> \in Seq(Nat) /\ 0 \in Nat /\ 0 \in Int
      OBVIOUS
    <2> QED
      BY <1>1, <2>1, NoFrameIs DEF Types
  <1>3. Places
    BY <1>1 DEF Places
  <1>4. CreditsMatch
    <2>1. {i \in DOMAIN queue : queue[i].cost # 1} = {} /\ Len(queue) = 0
      BY <1>1
    <2>2. Reassembled = {} /\ Cardinality({}) = 0
      BY <2>1, FS_EmptySet DEF Reassembled
    <2>3. LogicalCost \in Nat /\ Budget \in Nat /\ Assembly = 0
      BY <1>1, BudgetAssumption DEF Assembly
    <2> QED
      BY <1>1, <2>1, <2>2, <2>3, NoFrameIs DEF CreditsMatch, Outstanding
  <1>5. Received /\ Downstream
    BY <1>1 DEF Received, Downstream
  <1>6. Upstream
    <2>1. Read = 0
      BY <1>1, NoFrameIs DEF Read, Queued, Taken
    <2>2. EventsIn(pipe) = {} /\ Cardinality({}) = 0
      BY <1>1, FS_EmptySet DEF EventsIn
    <2>3. Stream(<<>>, 0, 0)
      BY <1>1, <2>2 DEF Stream, EventsIn
    <2> QED
      BY <1>1, <2>1, <2>3, NoFrameIs DEF Upstream
  <1> QED
    BY <1>2, <1>3, <1>4, <1>5, <1>6 DEF EInv

LEMMA EventsInductive == EInv /\ [Next]_rpcVars => EInv'
  <1> SUFFICES ASSUME EInv, [Next]_rpcVars PROVE EInv'
    OBVIOUS
  <1>1. CASE UNCHANGED rpcVars
    BY <1>1, BystanderKeeps DEF rpcVars, Bystander, stationVars, ompVars, readerVars, fwdVars
  <1>2. CASE WriteFrame
    BY <1>2, WritesFrames, WrittenKeeps, CallAssumption
  <1>3. CASE ReaderStep
    BY <1>3, ReaderKeeps
  <1>4. CASE TakeEvent \/ Receive \/ Release \/ ForwarderLeaves
    BY <1>4, TakeEventKeeps, ReceiveKeeps, ReleaseKeeps, LeavesKeeps
  <1>5. ASSUME NEW c \in Calls,
               \/ Reply(c) \/ Register(c) \/ SendRequest(c) \/ SendFails(c)
               \/ TakeAnswer(c) \/ CallFails(c) \/ GiveUp(c)
        PROVE  EInv'
    BY <1>5, OthersStandBy, BystanderKeeps, WritesFrames, WrittenKeeps
  <1>6. CASE \/ OmpExits \/ Negotiate \/ Negotiated \/ StartFails
             \/ ArmDestructiveShutdown \/ Close \/ TerminateNow \/ Supervise
    BY <1>6, OthersStandBy, BystanderKeeps, CallAssumption
  <1> QED
    BY <1>1, <1>2, <1>3, <1>4, <1>5, <1>6 DEF Next

\* The inductive invariant says that every event is accounted for.
LEMMA EventsFollow == EInv => EventsAreAccounted
  <1> SUFFICES ASSUME EInv PROVE EventsAreAccounted
    OBVIOUS
  <1>1. CreditsMatch /\ Received /\ Types
    BY DEF EInv
  <1>2. ASSUME ~stop
        PROVE  emitted = Len(got) + Len(queue)
                           + Cardinality({s \in {"offer"} : fwd = "offering"})
                           + Cardinality({s \in {"line"} : line.event > 0})
                           + Cardinality({i \in DOMAIN pipe : pipe[i].event > 0})
    <2>1. fwd # "gone" /\ reader \in {"reading", "frame"}
      BY <1>2 DEF EInv, Places, Types
    <2>2. emitted = Read + Cardinality({i \in DOMAIN pipe : pipe[i].event > 0})
      BY <2>1 DEF EInv, Upstream, Stream, EventsIn
    <2>3. Cardinality({}) = 0 /\ Cardinality({"offer"}) = 1 /\ Cardinality({"line"}) = 1
      BY FS_EmptySet, FS_Singleton
    <2>4. Cardinality({s \in {"offer"} : fwd = "offering"}) = IF fwd = "offering" THEN 1 ELSE 0
      <3>1. {s \in {"offer"} : fwd = "offering"} = IF fwd = "offering" THEN {"offer"} ELSE {}
        OBVIOUS
      <3> QED
        BY <2>3, <3>1
    <2>5. Cardinality({s \in {"line"} : line.event > 0}) = IF line.event > 0 THEN 1 ELSE 0
      <3>1. {s \in {"line"} : line.event > 0} = IF line.event > 0 THEN {"line"} ELSE {}
        OBVIOUS
      <3> QED
        BY <2>3, <3>1
    <2>6. Len(got) \in Nat /\ Len(queue) \in Nat
      BY <1>1, Counts
    <2>7. Read = Len(got) + Len(queue) + (IF fwd = "offering" THEN 1 ELSE 0)
                   + (IF line.event > 0 THEN 1 ELSE 0)
      <3> DEFINE x == IF fwd = "offering" THEN 1 ELSE 0
                 y == IF line.event > 0 THEN 1 ELSE 0
      <3>1. Taken = Len(got) + x /\ Queued = Taken + Len(queue) /\ Read = Queued + y
        BY DEF Taken, Queued, Read
      <3>2. x \in Nat /\ y \in Nat
        OBVIOUS
      <3> HIDE DEF x, y
      <3>3. Read = Len(got) + Len(queue) + x + y
        BY <2>6, <3>1, <3>2
      <3> QED
        BY <3>3 DEF x, y
    <2> QED
      BY <2>2, <2>4, <2>5, <2>7
  <1>3. EventsInOrder
    BY <1>1, <1>2 DEF EventsInOrder, Received
  <1> QED
    BY <1>1, <1>3 DEF EventsAreAccounted

\* readLineBudget, queueOverflow, forwardEvents and the supervisor: the actor receives
\* the events in order and without a gap, and credits are held for exactly what was
\* read and is not yet received, whatever limit is reached and whoever ends the client.
THEOREM EventsAccounted == Spec => []EventsAreAccounted
  BY EventsInit, EventsInductive, EventsFollow, PTL DEF Spec
=============================================================================
