--------------------------- MODULE TaskInputProofs ---------------------------
(* The inputs of a conversation: the attachments of its tasks (Incoming) and  *)
(* its managed autoresearch (Research).  Every step of each keeps the part's  *)
(* invariant.  For the attachments that ties the entries of the queue, the    *)
(* preparations, the directories and the collected members of an album to     *)
(* each other: a queued or running task has its files; the ended tasks of a   *)
(* session keep theirs while it is resumed, claimed or open in OMP, which it  *)
(* is only while it is claimed.  For research it says that what an answer in  *)
(* the lane tells of the session is still true when the answer is handled: an *)
(* ordinary root runs only without research, and nothing is reported over     *)
(* that is not.                                                               *)
EXTENDS Parts, SequenceTheorems, WellFoundedInduction, TLAPS

-----------------------------------------------------------------------------
\* The queue of the attachments' worker.

\* The inputs in a queue, those of them whose preparation is not finished, and that
\* no input is in it twice.
Ids(q) == {q[n].id : n \in DOMAIN q}
Open(q) == {q[n].id : n \in {m \in DOMAIN q : q[m].preparing}}
Differ(q) == \A m, n \in DOMAIN q : q[m].id = q[n].id => m = n

\* An input that is not queued yet is added at the end, its preparation open.
LEMMA EntryAdded ==
    ASSUME NEW q \in Seq(I!EntryType), NEW i \in I!Inputs, i \notin Ids(q), Differ(q),
           NEW r, r = q \o <<[id |-> i, preparing |-> TRUE]>>
    PROVE  /\ r \in Seq(I!EntryType) /\ Differ(r)
           /\ Ids(r) = Ids(q) \cup {i} /\ Open(r) = Open(q) \cup {i}
  <1> DEFINE e == [id |-> i, preparing |-> TRUE]
  <1>1. e \in I!EntryType /\ e.id = i /\ e.preparing
    BY DEF I!EntryType
  <1> HIDE DEF e
  <1>2. r = q \o <<e>>
    BY DEF e
  <1>a. Len(q) \in Nat /\ DOMAIN q = 1..Len(q)
    OBVIOUS
  <1>b. r \in Seq(I!EntryType) /\ Len(r) = Len(q) + 1
    <2> DEFINE s == <<e>>
    <2>1. s \in Seq(I!EntryType) /\ Len(s) = 1
      BY <1>1
    <2>2. r = q \o s
      BY <1>2
    <2> HIDE DEF s
    <2>3. r \in Seq(I!EntryType) /\ Len(r) = Len(q) + Len(s)
      BY <2>1, <2>2, ConcatProperties
    <2> QED
      BY <2>1, <2>3
  <1>c. \A k \in 1..Len(q) : r[k] = q[k]
    BY <1>1, <1>2
  <1>d. r[Len(q) + 1] = e
    BY <1>1, <1>2
  <1> DEFINE n == Len(q)
  <1>3. /\ n \in Nat /\ DOMAIN q = 1..n /\ DOMAIN r = 1..n + 1 /\ r[n + 1] = e
        /\ \A k \in 1..n : k \in 1..n + 1 /\ r[k] = q[k]
        /\ n + 1 \in 1..n + 1 /\ \A k \in 1..n + 1 : k = n + 1 \/ k \in 1..n
    BY <1>a, <1>b, <1>c, <1>d
  <1> HIDE DEF n
  <1>4. Differ(r)
    BY <1>1, <1>3 DEF Differ, Ids
  <1>5. Ids(r) = Ids(q) \cup {i}
    <2>1. \A k \in 1..n : r[k].id \in Ids(q) /\ q[k].id \in Ids(r)
      BY <1>3 DEF Ids
    <2>2. i \in Ids(r)
      BY <1>1, <1>3 DEF Ids
    <2> QED
      BY <1>1, <1>3, <2>1, <2>2 DEF Ids
  <1>6. Open(r) = Open(q) \cup {i}
    <2>1. \A k \in 1..n : q[k].preparing => r[k].id \in Open(q) /\ q[k].id \in Open(r)
      BY <1>3 DEF Open
    <2>2. i \in Open(r)
      BY <1>1, <1>3 DEF Open
    <2> QED
      BY <1>1, <1>3, <2>1, <2>2 DEF Open
  <1> QED
    BY <1>b, <1>4, <1>5, <1>6

\* The head is taken off the queue.
LEMMA EntryTaken ==
    ASSUME NEW q \in Seq(I!EntryType), q # <<>>, Differ(q)
    PROVE  /\ Tail(q) \in Seq(I!EntryType) /\ Differ(Tail(q))
           /\ Head(q) \in I!EntryType /\ Head(q).id \in Ids(q)
           /\ (~Head(q).preparing => Head(q).id \notin Open(q))
           /\ Ids(Tail(q)) = Ids(q) \ {Head(q).id}
           /\ Open(Tail(q)) = Open(q) \ {Head(q).id}
  <1>1. /\ Len(q) \in Nat \ {0} /\ DOMAIN q = 1..Len(q) /\ DOMAIN Tail(q) = 1..Len(q) - 1
        /\ Tail(q) \in Seq(I!EntryType) /\ Head(q) = q[1] /\ q[1] \in I!EntryType
        /\ \A k \in 1..Len(q) - 1 : Tail(q)[k] = q[k + 1]
    OBVIOUS
  <1> DEFINE t == Tail(q)
  <1>2. /\ DOMAIN t = 1..Len(q) - 1 /\ t \in Seq(I!EntryType)
        /\ \A k \in 1..Len(q) - 1 : t[k] = q[k + 1] /\ k + 1 \in 1..Len(q) /\ k + 1 # 1
        /\ \A k \in 2..Len(q) : q[k] = t[k - 1] /\ k - 1 \in 1..Len(q) - 1
    BY <1>1
  <1> HIDE DEF t
  <1>3. Differ(t)
    <2>1. ASSUME NEW k \in 1..Len(q) - 1, NEW l \in 1..Len(q) - 1, t[k].id = t[l].id PROVE k = l
      <3>1. /\ k + 1 \in DOMAIN q /\ l + 1 \in DOMAIN q
            /\ t[k] = q[k + 1] /\ t[l] = q[l + 1]
        BY <1>1, <1>2
      <3>2. q[k + 1].id = q[l + 1].id
        BY <2>1, <3>1
      <3>3. \A m, n \in DOMAIN q : q[m].id = q[n].id => m = n
        BY DEF Differ
      <3>4. k + 1 = l + 1
        BY <3>1, <3>2, <3>3, ZenonT(60)
      <3> QED
        BY <3>4
    <2> QED
      BY <2>1, <1>2 DEF Differ
  <1>4. Ids(t) = Ids(q) \ {q[1].id}
    <2>1. ASSUME NEW n \in 1..Len(q) - 1 PROVE t[n].id \in Ids(q) \ {q[1].id}
      <3>1. t[n] = q[n + 1] /\ n + 1 \in 1..Len(q) /\ n + 1 # 1 /\ 1 \in 1..Len(q)
        BY <1>1, <1>2
      <3>2. q[n + 1].id \in Ids(q)
        BY <1>1, <3>1 DEF Ids
      <3>3. q[n + 1].id # q[1].id
        BY <1>1, <3>1 DEF Differ
      <3> QED
        BY <3>1, <3>2, <3>3
    <2>2. ASSUME NEW n \in 1..Len(q), q[n].id # q[1].id PROVE q[n].id \in Ids(t)
      <3>1. n \in 2..Len(q)
        BY <2>2, <1>1
      <3> QED
        BY <3>1, <1>2 DEF Ids
    <2>3. Ids(t) \subseteq Ids(q) \ {q[1].id}
      BY <2>1, <1>2 DEF Ids
    <2>4. Ids(q) \ {q[1].id} \subseteq Ids(t)
      <3> SUFFICES ASSUME NEW j \in Ids(q), j # q[1].id PROVE j \in Ids(t)
        OBVIOUS
      <3>1. PICK n \in 1..Len(q) : q[n].id = j
        BY <1>1 DEF Ids
      <3> QED
        BY <3>1, <2>2
    <2> QED
      BY <2>3, <2>4
  <1>5. Open(t) = Open(q) \ {q[1].id}
    <2>1. ASSUME NEW n \in 1..Len(q) - 1, t[n].preparing PROVE t[n].id \in Open(q) \ {q[1].id}
      BY <1>1, <1>2, <2>1 DEF Differ, Open
    <2>2. ASSUME NEW n \in 1..Len(q), q[n].preparing, q[n].id # q[1].id PROVE q[n].id \in Open(t)
      <3>1. n \in 2..Len(q)
        BY <2>2, <1>1
      <3> QED
        BY <2>2, <3>1, <1>2 DEF Open
    <2>3. Open(t) \subseteq Open(q) \ {q[1].id}
      BY <2>1, <1>2 DEF Open
    <2>4. ASSUME NEW j \in Open(q), j # q[1].id PROVE j \in Open(t)
      <3>1. PICK n \in 1..Len(q) : q[n].id = j /\ q[n].preparing
        BY <1>1 DEF Open
      <3> QED
        BY <3>1, <2>2, <2>4
    <2> QED
      BY <2>3, <2>4
  <1>6. Head(q).id \in Ids(q) /\ (~Head(q).preparing => Head(q).id \notin Open(q))
    BY <1>1 DEF Ids, Open, Differ
  <1> QED
    BY <1>1, <1>2, <1>3, <1>4, <1>5, <1>6 DEF t

\* An entry is removed wherever it is.
LEMMA EntryRemoved ==
    ASSUME x5.queue \in Seq(I!EntryType), Differ(x5.queue), NEW i \in Ids(x5.queue)
    PROVE  LET r == I!Dequeued(i) q == x5.queue IN
           /\ r \in Seq(I!EntryType) /\ Differ(r)
           /\ Ids(r) = Ids(q) \ {i} /\ Open(r) = Open(q) \ {i}
  <1> DEFINE q == x5.queue  m == Len(q) - 1
  <1>p. PICK p \in DOMAIN q : q[p].id = i /\ \A k \in DOMAIN q : q[k].id = i => k = p
    BY DEF Ids, Differ
  <1>0. Len(q) \in Nat \ {0} /\ DOMAIN q = 1..Len(q) /\ m \in Nat
    BY <1>p
  <1>1. I!Place(i) = p
    BY <1>p DEF I!Place, I!SelectInSeq, I!Min
  <1> DEFINE r == SubSeq(q, 1, p - 1) \o SubSeq(q, p + 1, Len(q))
  <1>2. I!Dequeued(i) = r
    BY <1>1 DEF I!Dequeued, I!RemoveAt
  <1>3. /\ r \in Seq(I!EntryType) /\ Len(r) = m /\ DOMAIN r = 1..m
        /\ \A k \in 1..m : r[k] = IF k < p THEN q[k] ELSE q[k + 1]
    <2>1. /\ SubSeq(q, 1, p - 1) \in Seq(I!EntryType) /\ Len(SubSeq(q, 1, p - 1)) = p - 1
          /\ \A k \in 1..p - 1 : SubSeq(q, 1, p - 1)[k] = q[k]
      BY <1>0
    <2>2. /\ SubSeq(q, p + 1, Len(q)) \in Seq(I!EntryType) /\ Len(SubSeq(q, p + 1, Len(q))) = Len(q) - p
          /\ \A k \in 1..Len(q) - p : SubSeq(q, p + 1, Len(q))[k] = q[k + p]
      BY <1>0
    <2> DEFINE a == SubSeq(q, 1, p - 1)  b == SubSeq(q, p + 1, Len(q))
    <2> HIDE DEF a, b, q
    <2>3. r = a \o b /\ a \in Seq(I!EntryType) /\ b \in Seq(I!EntryType) /\ Len(a) = p - 1 /\ Len(b) = Len(q) - p
      BY <2>1, <2>2 DEF a, b
    <2>4. /\ \A k \in 1..p - 1 : a[k] = q[k]
          /\ \A k \in 1..Len(q) - p : b[k] = q[k + p]
      BY <2>1, <2>2 DEF a, b
    <2> HIDE DEF r
    <2>b. r \in Seq(I!EntryType) /\ Len(r) = Len(a) + Len(b)
      BY <2>3, ConcatProperties
    <2>c. Len(r) = m
      BY <2>b, <2>3, <1>0
    <2>5. r \in Seq(I!EntryType) /\ Len(r) = m /\ DOMAIN r = 1..m
      BY <2>b, <2>c
    <2>6. \A k \in 1..m : r[k] = IF k < p THEN a[k] ELSE b[k - (p - 1)]
      BY <2>3, <1>0
    <2>7. ASSUME NEW k \in 1..m PROVE r[k] = IF k < p THEN q[k] ELSE q[k + 1]
      <3>1. CASE k < p
        BY <3>1, <2>6, <2>4, <1>0
      <3>2. CASE ~(k < p)
        <4>1. k - (p - 1) \in 1..Len(q) - p /\ (k - (p - 1)) + p = k + 1
          BY <3>2, <1>0
        <4>2. b[k - (p - 1)] = q[(k - (p - 1)) + p]
          BY <4>1, <2>4
        <4> QED
          BY <3>2, <4>1, <4>2, <2>6
      <3> QED
        BY <3>1, <3>2
    <2> QED
      BY <2>5, <2>7
  <1> HIDE DEF r
  <1>4. Differ(r)
    <2>1. ASSUME NEW k \in 1..m, NEW l \in 1..m, r[k].id = r[l].id PROVE k = l
      <3> DEFINE u == IF k < p THEN k ELSE k + 1  v == IF l < p THEN l ELSE l + 1
      <3>1. u \in 1..Len(q) /\ v \in 1..Len(q) /\ r[k] = q[u] /\ r[l] = q[v]
        BY <1>0, <1>3
      <3>2. u = v
        BY <2>1, <3>1, <1>0 DEF Differ
      <3> QED
        BY <3>2, <1>0
    <2> QED
      BY <2>1, <1>3 DEF Differ
  <1>5. ASSUME NEW k \in 1..m PROVE r[k].id \in Ids(q) \ {i} /\ (r[k].preparing => r[k].id \in Open(q))
    <2> DEFINE u == IF k < p THEN k ELSE k + 1
    <2>1. u \in 1..Len(q) /\ u # p /\ r[k] = q[u]
      BY <1>0, <1>3
    <2> HIDE DEF u
    <2>2. q[u].id # i
      BY <2>1, <1>0, <1>p
    <2> QED
      BY <2>1, <2>2, <1>0 DEF Ids, Open
  <1>6. ASSUME NEW k \in 1..Len(q), q[k].id # i PROVE \E l \in 1..m : r[l] = q[k]
    <2>1. CASE k < p
      BY <2>1, <1>0, <1>3
    <2>2. CASE k > p
      <3>1. k - 1 \in 1..m /\ ~(k - 1 < p) /\ (k - 1) + 1 = k
        BY <2>2, <1>0
      <3> QED
        BY <3>1, <1>3
    <2> QED
      BY <2>1, <2>2, <1>6, <1>p, <1>0
  <1>7. Ids(r) = Ids(q) \ {i}
    <2>1. Ids(r) \subseteq Ids(q) \ {i}
      BY <1>5, <1>3 DEF Ids
    <2>2. ASSUME NEW j \in Ids(q), j # i PROVE j \in Ids(r)
      <3>1. PICK k \in 1..Len(q) : q[k].id = j
        BY <1>0 DEF Ids
      <3>2. PICK l \in 1..m : r[l] = q[k]
        BY <1>6, <2>2, <3>1
      <3> QED
        BY <3>1, <3>2, <1>3 DEF Ids
    <2> QED
      BY <2>1, <2>2
  <1>8. Open(r) = Open(q) \ {i}
    <2>1. ASSUME NEW k \in 1..Len(q), q[k].preparing, q[k].id # i PROVE q[k].id \in Open(r)
      <3>1. PICK l \in 1..m : r[l] = q[k]
        BY <1>6, <2>1
      <3> QED
        BY <3>1, <2>1, <1>3 DEF Open
    <2>2. ASSUME NEW k \in 1..m, r[k].preparing PROVE r[k].id \in Open(q) \ {i}
      BY <1>5, <2>2
    <2> QED
      BY <2>1, <2>2, <1>0, <1>3 DEF Open
  <1> QED
    BY <1>2, <1>3, <1>4, <1>7, <1>8

\* An entry's preparation is finished.
LEMMA EntryPrepared ==
    ASSUME NEW q \in Seq(I!EntryType), Differ(q), NEW i \in Open(q), NEW r,
           r = [n \in DOMAIN q |-> IF q[n].id = i THEN [q[n] EXCEPT !.preparing = FALSE] ELSE q[n]]
    PROVE  /\ r \in Seq(I!EntryType) /\ Differ(r)
           /\ Ids(r) = Ids(q) /\ Open(r) = Open(q) \ {i}
  <1>1. Len(q) \in Nat /\ DOMAIN q = 1..Len(q) /\ DOMAIN r = 1..Len(q) /\ \A n \in 1..Len(q) : q[n] \in I!EntryType
    OBVIOUS
  <1>2. ASSUME NEW n \in 1..Len(q)
        PROVE  r[n] \in I!EntryType /\ r[n].id = q[n].id /\ (r[n].preparing <=> q[n].preparing /\ q[n].id # i)
    <2>1. r[n] = IF q[n].id = i THEN [q[n] EXCEPT !.preparing = FALSE] ELSE q[n]
      BY <1>1
    <2> QED
      BY <1>1, <2>1 DEF I!EntryType
  <1>3. r \in Seq(I!EntryType)
    BY <1>1, <1>2
  <1>4. Differ(r)
    BY <1>1, <1>2 DEF Differ
  <1>5. Ids(r) = Ids(q)
    BY <1>1, <1>2 DEF Ids
  <1>6. Open(r) = Open(q) \ {i}
    BY <1>1, <1>2 DEF Open
  <1> QED
    BY <1>3, <1>4, <1>5, <1>6

\* The empty queue.
LEMMA NoEntries == <<>> \in Seq(I!EntryType) /\ Differ(<<>>) /\ Ids(<<>>) = {} /\ Open(<<>>) = {}
  BY DEF Differ, Ids, Open

\* The queue of the invariant, in these terms.
LEMMA QueueNow ==
    ASSUME x5.queue \in Seq(I!EntryType)
    PROVE  /\ I!Waiting = Ids(x5.queue) /\ I!Fetching = Open(x5.queue)
           /\ I!Fetching \subseteq I!Waiting /\ (I!IdsDiffer <=> Differ(x5.queue))
           /\ \A i : (I!Queued(i) <=> i \in I!Waiting) /\ (I!Preparing(i) <=> i \in I!Fetching)
           /\ \A S \in SUBSET I!Inputs : I!Held(S) = S \cap (I!Waiting \ I!Fetching)
  <1>a. \A n \in DOMAIN x5.queue : x5.queue[n] \in I!EntryType
    OBVIOUS
  <1>1. \A n \in DOMAIN x5.queue : x5.queue[n].id \in I!Inputs
    BY <1>a DEF I!EntryType
  <1> QED
    BY <1>1 DEF I!Waiting, I!Fetching, I!Queued, I!Preparing, Ids, Open, I!IdsDiffer, Differ, I!Held

\* The same after a step.
LEMMA QueueThen ==
    ASSUME x5'.queue \in Seq(I!EntryType)
    PROVE  /\ I!Waiting' = Ids(x5'.queue) /\ I!Fetching' = Open(x5'.queue)
           /\ I!Fetching' \subseteq I!Waiting' /\ (I!IdsDiffer' <=> Differ(x5'.queue))
  <1>a. \A n \in DOMAIN x5'.queue : x5'.queue[n] \in I!EntryType
    OBVIOUS
  <1>1. \A n \in DOMAIN x5'.queue : x5'.queue[n].id \in I!Inputs
    BY <1>a DEF I!EntryType
  <1> QED
    BY <1>1 DEF I!Waiting, I!Fetching, I!Queued, I!Preparing, Ids, Open, I!IdsDiffer, Differ

\* Steps that leave the queue alone.
LEMMA QueueKept ==
    ASSUME I!TypeOK, I!IdsDiffer, x5'.queue = x5.queue
    PROVE  I!Waiting' = I!Waiting /\ I!Fetching' = I!Fetching /\ I!IdsDiffer'
  <1>1. x5.queue \in Seq(I!EntryType)
    BY DEF I!TypeOK, I!ActorType
  <1> QED
    BY <1>1, QueueNow, QueueThen

\* None stands for no input and no session.
LEMMA NoneIsNobody == None \notin I!Inputs /\ None \notin Existing
  BY PartsAssumption DEF I!Inputs

\* What the invariant says now.
LEMMA IncomingParts ==
    ASSUME I!IInv
    PROVE  /\ I!TypeOK /\ I!IdsDiffer /\ I!InboxFollows /\ I!ClaimFits /\ I!JobsFit /\ I!AlbumFits /\ I!DirsFit
           /\ x5.queue \in Seq(I!EntryType) /\ Differ(x5.queue)
           /\ I!Waiting = Ids(x5.queue) /\ I!Fetching = Open(x5.queue) /\ I!Fetching \subseteq I!Waiting
           /\ I!Waiting \subseteq I!Inputs
           /\ x5.active \in I!Inputs \cup {None} /\ x5.album.owner \in I!Inputs \cup {None}
           /\ (\A k \in x7 : k.id \in I!Inputs) /\ x12 \in Nat
           /\ x5.album.owner # None => x5.album.owner \in I!Fetching
  <1>1. x5.queue \in Seq(I!EntryType)
    BY DEF I!IInv, I!TypeOK, I!ActorType
  <1>2. /\ x5.active \in I!Inputs \cup {None} /\ x5.album.owner \in I!Inputs \cup {None}
        /\ (\A k \in x7 : k.id \in I!Inputs) /\ x12 \in Nat
    BY DEF I!IInv, I!TypeOK, I!ActorType, I!AlbumType, I!JobType
  <1> QED
    BY <1>1, <1>2, QueueNow DEF I!IInv, I!Waiting, I!AlbumFits

\* Steps that leave the claim, the runtime and the binding alone.
LEMMA ClaimKept ==
    ASSUME I!IInv, x2' = x2, x5'.claim = x5.claim, x5'.runtime = x5.runtime
    PROVE  I!ClaimFits'
  BY DEF I!IInv, I!ClaimFits, I!Connected

\* Whatever becomes of a restore, the claim fits, and a runtime is of a session.
LEMMA EnsuredFits ==
    ASSUME I!IInv, NEW a \in I!EnsureRuntime
    PROVE  /\ a \in I!ActorType /\ a.queue = x5.queue /\ a.album = x5.album /\ a.active = x5.active
           /\ a.claim \in {None, x2.session} /\ a.claim \in Existing \cup {None}
           /\ a.runtime = "connected" => a.claim # None /\ x2.session # None
  <1>1. x5 \in I!ActorType /\ x2.session \in Existing \cup {None} /\ x5.claim \in {None, x2.session}
        /\ (x5.runtime = "connected" => x5.claim # None)
    BY DEF I!IInv, I!TypeOK, I!ClaimFits, I!Connected
  <1>2. CASE a = x5
    BY <1>1, <1>2 DEF I!ActorType
  <1>3. CASE a = [x5 EXCEPT !.claim = None] /\ x5.runtime # "connected"
    BY <1>1, <1>3 DEF I!ActorType
  <1>4. CASE a = [x5 EXCEPT !.claim = x2.session, !.runtime = "connected"] /\ x2.session # None
    BY <1>1, <1>4 DEF I!ActorType
  <1> QED
    BY <1>2, <1>3, <1>4 DEF I!EnsureRuntime, I!Restored, I!FailedRestores, I!Connected

\* Steps that change only the claim, the runtime and what is suppressed.
LEMMA ClaimMoves ==
    ASSUME I!IInv, x5' \in I!ActorType, x5'.queue = x5.queue, x5'.album = x5.album, x5'.active = x5.active,
           I!ClaimFits', UNCHANGED <<x1, x2, x3, x4, x7, x8, x9, x10, x11, x12>>
    PROVE  I!IInv' /\ I!KeepsResumed
  <1>i. /\ I!TypeOK /\ I!IdsDiffer /\ I!InboxFollows /\ I!JobsFit /\ I!AlbumFits /\ I!DirsFit
        /\ x5.queue \in Seq(I!EntryType) /\ Differ(x5.queue)
        /\ I!Waiting = Ids(x5.queue) /\ I!Fetching = Open(x5.queue) /\ I!Fetching \subseteq I!Waiting
        /\ I!Waiting \subseteq I!Inputs
        /\ x5.active \in I!Inputs \cup {None} /\ x5.album.owner \in I!Inputs \cup {None}
        /\ (\A k \in x7 : k.id \in I!Inputs) /\ x12 \in Nat
        /\ x5.album.owner # None => x5.album.owner \in I!Fetching
    BY IncomingParts
  <1>n. None \notin I!Inputs /\ None \notin Existing
    BY NoneIsNobody
  <1>k. I!KeepsResumed
    BY DEF I!KeepsResumed
  <1>s. I!Cleaned' = I!Cleaned /\ \A k : I!Collected(k)' = I!Collected(k)
    BY DEF I!Cleaned, I!Collected
  <1>t. I!TypeOK'
    BY <1>i DEF I!TypeOK
  <1>q. I!Waiting' = I!Waiting /\ I!Fetching' = I!Fetching /\ I!IdsDiffer'
    BY <1>i, QueueKept
  <1>7. I!InboxFollows' /\ I!JobsFit' /\ I!AlbumFits' /\ I!DirsFit'
    BY <1>i, <1>s, <1>q DEF I!InboxFollows, I!JobsFit, I!JobFits, I!AlbumFits, I!DirsFit, I!DirFits
  <1> QED
    BY <1>k, <1>t, <1>q, <1>7 DEF I!IInv

\* A command finds OMP, or claims the session and starts it, or fails.
LEMMA IncomingCommandRestores ==
    ASSUME I!IInv, I!CommandRestores
    PROVE  I!IInv' /\ I!KeepsResumed
  <1>1. x5' \in I!EnsureRuntime /\ UNCHANGED <<x1, x2, x3, x4, x7, x8, x9, x10, x11, x12>>
    BY DEF I!CommandRestores
  <1>2. /\ x5' \in I!ActorType /\ x5'.queue = x5.queue /\ x5'.album = x5.album /\ x5'.active = x5.active
        /\ x5'.claim \in {None, x2.session} /\ (x5'.runtime = "connected" => x5'.claim # None)
    BY <1>1, EnsuredFits
  <1>3. I!ClaimFits'
    BY <1>1, <1>2 DEF I!ClaimFits, I!Connected
  <1> QED
    BY <1>1, <1>2, <1>3, ClaimMoves

\* The queue finds OMP and waits for its head, or starts it, or fails to.
LEMMA IncomingDispatchRestores ==
    ASSUME I!IInv, I!DispatchRestores
    PROVE  I!IInv' /\ I!KeepsResumed
  <1>1. PICK a \in I!EnsureRuntime : x5' = IF I!HasRuntime(a) THEN a ELSE [a EXCEPT !.runtime = "failed"]
    BY DEF I!DispatchRestores
  <1>u. UNCHANGED <<x1, x2, x3, x4, x7, x8, x9, x10, x11, x12>>
    BY DEF I!DispatchRestores
  <1>2. /\ a \in I!ActorType /\ a.queue = x5.queue /\ a.album = x5.album /\ a.active = x5.active
        /\ a.claim \in {None, x2.session} /\ (a.runtime = "connected" => a.claim # None)
    BY EnsuredFits
  <1>3. /\ x5' \in I!ActorType /\ x5'.queue = x5.queue /\ x5'.album = x5.album /\ x5'.active = x5.active
        /\ x5'.claim = a.claim /\ (x5'.runtime = "connected" => a.runtime = "connected")
    BY <1>1, <1>2 DEF I!ActorType
  <1>4. I!ClaimFits'
    BY <1>u, <1>2, <1>3 DEF I!ClaimFits, I!Connected
  <1> QED
    BY <1>u, <1>3, <1>4, ClaimMoves

\* A message with one attachment is queued, or refused.
LEMMA IncomingQueueMedia ==
    ASSUME I!IInv, NEW i \in Singles, I!QueueMedia(i)
    PROVE  I!IInv' /\ I!KeepsResumed
  <1>i. /\ I!TypeOK /\ I!IdsDiffer /\ I!InboxFollows /\ I!JobsFit /\ I!AlbumFits /\ I!DirsFit
        /\ x5.queue \in Seq(I!EntryType) /\ Differ(x5.queue)
        /\ I!Waiting = Ids(x5.queue) /\ I!Fetching = Open(x5.queue) /\ I!Fetching \subseteq I!Waiting
        /\ I!Waiting \subseteq I!Inputs
        /\ x5.active \in I!Inputs \cup {None} /\ x5.album.owner \in I!Inputs \cup {None}
        /\ (\A k \in x7 : k.id \in I!Inputs) /\ x12 \in Nat
        /\ x5.album.owner # None => x5.album.owner \in I!Fetching
    BY IncomingParts
  <1>n. None \notin I!Inputs /\ None \notin Existing
    BY NoneIsNobody
  <1>u. /\ i \in I!Inputs /\ x1 = "up" /\ x4[i] = "new"
        /\ UNCHANGED <<x1, x2, x3, x6, x8, x9, x10, x11, x12>>
    BY DEF I!QueueMedia, I!Up, I!Inputs
  <1>k. I!KeepsResumed
    BY <1>u DEF I!KeepsResumed
  <1>s. I!Cleaned' = I!Cleaned /\ \A k : I!Collected(k)' = I!Collected(k)
    BY <1>u DEF I!Cleaned, I!Collected
  <1>a. i \notin I!Waiting /\ i # x5.active /\ i \notin I!Cleaned /\ ~x8[i].there /\ I!Collected(i) = {}
        /\ (\A j \in x7 : j.id # i) /\ i # x5.album.owner
    BY <1>i, <1>u, <1>n DEF I!DirsFit, I!DirFits, I!InboxFollows, I!JobsFit, I!JobFits
  <1>e. PICK a \in I!EnsureRuntime :
          IF I!HasRuntime(a) /\ I!Room
            THEN /\ x4' = I!Marked({i}, "pending")
                 /\ x5' = [a EXCEPT !.queue = @ \o <<[id |-> i, preparing |-> TRUE]>>]
                 /\ x7' = x7 \cup {I!Job(i, {i}, a.claim)}
            ELSE /\ x4' = I!Marked({i}, I!Refusal(a))
                 /\ x5' = a
                 /\ UNCHANGED x7
    BY DEF I!QueueMedia
  <1>r. /\ a \in I!ActorType /\ a.queue = x5.queue /\ a.album = x5.album /\ a.active = x5.active
        /\ a.claim \in {None, x2.session} /\ a.claim \in Existing \cup {None}
        /\ (a.runtime = "connected" => a.claim # None /\ x2.session # None)
    BY EnsuredFits
  <1>1. CASE ~(I!HasRuntime(a) /\ I!Room)
    <2>0. PICK state \in {"dropped", "ended"} : state = I!Refusal(a)
      BY DEF I!Refusal
    <2>1. x5' = a /\ x7' = x7 /\ x4' = I!Marked({i}, state)
      BY <1>1, <1>e, <2>0
    <2>9. /\ x5' \in I!ActorType /\ x5'.queue = x5.queue /\ x5'.album = x5.album /\ x5'.active = x5.active
      BY <1>r, <2>1
    <2>f. I!ClaimFits'
      BY <1>r, <1>u, <2>1 DEF I!ClaimFits, I!Connected
    <2>t. I!TypeOK'
      BY <1>i, <1>u, <2>1, <2>9 DEF I!TypeOK, I!Marked
    <2>q. I!Waiting' = I!Waiting /\ I!Fetching' = I!Fetching /\ I!IdsDiffer'
      BY <1>i, <2>9, QueueKept
    <2>m. \A k \in I!Inputs : x4'[k] = IF k = i THEN state ELSE x4[k]
      BY <2>1 DEF I!Marked
    <2>2. I!InboxFollows'
      BY <1>i, <1>u, <1>a, <2>9, <2>q, <2>m DEF I!InboxFollows
    <2>3. I!JobsFit'
      BY <1>i, <1>u, <1>a, <1>s, <2>1, <2>9, <2>q, <2>m DEF I!JobsFit, I!JobFits
    <2>4. I!AlbumFits'
      BY <1>i, <1>u, <1>s, <2>9, <2>q DEF I!AlbumFits
    <2>5. I!DirsFit'
      BY <1>i, <1>u, <1>a, <1>s, <2>1, <2>9, <2>q, <2>m DEF I!DirsFit, I!DirFits
    <2> QED
      BY <1>k, <2>f, <2>t, <2>q, <2>2, <2>3, <2>4, <2>5 DEF I!IInv
  <1>2. CASE I!HasRuntime(a) /\ I!Room
    <2>1. /\ x4' = I!Marked({i}, "pending") /\ x5' = [a EXCEPT !.queue = @ \o <<[id |-> i, preparing |-> TRUE]>>]
          /\ x7' = x7 \cup {I!Job(i, {i}, a.claim)}
      BY <1>2, <1>e
    <2>z. a.claim # None /\ x2.session # None
      BY <1>2, <1>r DEF I!HasRuntime
    <2>j. PICK n : n = I!Job(i, {i}, a.claim)
      OBVIOUS
    <2>n. /\ n \in I!JobType /\ n.id = i /\ n.step = "waiting" /\ n.members = {i}
      BY <1>i, <1>u, <1>r, <2>j DEF I!Job, I!JobType, I!TypeOK
    <2>5. x5' = [a EXCEPT !.queue = x5.queue \o <<[id |-> i, preparing |-> TRUE]>>]
      BY <1>r, <2>1
    <2>6. PICK r : r = x5.queue \o <<[id |-> i, preparing |-> TRUE]>>
      OBVIOUS
    <2>7. /\ r \in Seq(I!EntryType) /\ Differ(r)
          /\ Ids(r) = Ids(x5.queue) \cup {i} /\ Open(r) = Open(x5.queue) \cup {i}
      BY <1>i, <1>u, <1>a, <2>6, EntryAdded
    <2>8. x5' = [a EXCEPT !.queue = r]
      BY <2>5, <2>6
    <2>9. /\ x5' \in I!ActorType /\ x5'.queue = r /\ x5'.album = x5.album /\ x5'.active = x5.active
          /\ x5'.claim = a.claim
      BY <1>r, <2>7, <2>8 DEF I!ActorType
    <2>f. I!ClaimFits'
      BY <1>r, <1>u, <2>z, <2>9 DEF I!ClaimFits
    <2>t. I!TypeOK'
      BY <1>i, <1>u, <2>1, <2>9, <2>j, <2>n DEF I!TypeOK, I!Marked
    <2>q. I!Waiting' = I!Waiting \cup {i} /\ I!Fetching' = I!Fetching \cup {i} /\ I!IdsDiffer'
      BY <1>i, <2>7, <2>9, QueueThen
    <2>m. \A k \in I!Inputs : x4'[k] = IF k = i THEN "pending" ELSE x4[k]
      BY <2>1 DEF I!Marked
    <2>x. x7' = x7 \cup {n}
      BY <2>1, <2>j
    <2>2. I!InboxFollows'
      BY <1>i, <1>u, <1>a, <2>z, <2>9, <2>q, <2>m DEF I!InboxFollows
    <2>3. I!JobsFit'
      BY <1>i, <1>u, <1>a, <1>s, <2>n, <2>x, <2>9, <2>q, <2>m DEF I!JobsFit, I!JobFits
    <2>4. I!AlbumFits'
      BY <1>i, <1>u, <1>s, <2>9, <2>q DEF I!AlbumFits
    <2>d. I!DirsFit'
      BY <1>i, <1>u, <1>a, <1>s, <2>9, <2>n, <2>x, <2>q, <2>m DEF I!DirsFit, I!DirFits
    <2> QED
      BY <1>k, <2>f, <2>t, <2>q, <2>2, <2>3, <2>4, <2>d DEF I!IInv
  <1> QED
    BY <1>1, <1>2

\* The first member of an album is queued as its owner.
LEMMA IncomingAlbumBegins ==
    ASSUME I!IInv, NEW i \in Triple, I!AlbumBegins(i)
    PROVE  I!IInv' /\ I!KeepsResumed
  <1>i. /\ I!TypeOK /\ I!IdsDiffer /\ I!InboxFollows /\ I!JobsFit /\ I!AlbumFits /\ I!DirsFit
        /\ x5.queue \in Seq(I!EntryType) /\ Differ(x5.queue)
        /\ I!Waiting = Ids(x5.queue) /\ I!Fetching = Open(x5.queue) /\ I!Fetching \subseteq I!Waiting
        /\ I!Waiting \subseteq I!Inputs
        /\ x5.active \in I!Inputs \cup {None} /\ x5.album.owner \in I!Inputs \cup {None}
        /\ (\A k \in x7 : k.id \in I!Inputs) /\ x12 \in Nat
        /\ x5.album.owner # None => x5.album.owner \in I!Fetching
    BY IncomingParts
  <1>n. None \notin I!Inputs /\ None \notin Existing
    BY NoneIsNobody
  <1>u. /\ i \in I!Inputs /\ x1 = "up" /\ x4[i] = "new" /\ x5.album.owner = None
        /\ UNCHANGED <<x1, x2, x3, x7, x8, x9, x10, x11, x12>> /\ x4' = I!Marked({i}, "pending")
    BY DEF I!AlbumBegins, I!Up, I!Inputs
  <1>e. PICK c \in I!EnsureRuntime :
          I!HasRuntime(c) /\ I!Schedule(c, [owner |-> i, members |-> {i}, version |-> x5.album.version])
    BY DEF I!AlbumBegins
  <1>c. /\ c \in I!ActorType /\ c.queue = x5.queue /\ c.album = x5.album /\ c.active = x5.active
        /\ c.claim \in {None, x2.session} /\ c.claim # None /\ x2.session # None
    BY <1>e, EnsuredFits DEF I!HasRuntime
  <1>k. I!KeepsResumed
    BY <1>u DEF I!KeepsResumed
  <1>s. I!Cleaned' = I!Cleaned /\ \A k : I!Collected(k)' = I!Collected(k)
    BY <1>u DEF I!Cleaned, I!Collected
  <1>a. i \notin I!Waiting /\ i # x5.active /\ i \notin I!Cleaned /\ ~x8[i].there /\ I!Collected(i) = {}
        /\ (\A j \in x7 : j.id # i) /\ i # x5.album.owner
    BY <1>i, <1>u, <1>n DEF I!DirsFit, I!DirFits, I!InboxFollows, I!JobsFit, I!JobFits
  <1> DEFINE album == [owner |-> i, members |-> {i}, version |-> x5.album.version]
             v == album.version + 1
  <1>1. PICK b : b = [album EXCEPT !.version = v]
    OBVIOUS
  <1>2. b \in I!AlbumType /\ b.owner = i /\ b.members = {i}
    BY <1>i, <1>u, <1>1 DEF I!TypeOK, I!ActorType, I!AlbumType
  <1>3. PICK r : r = x5.queue \o <<[id |-> i, preparing |-> TRUE]>>
    OBVIOUS
  <1>4. /\ r \in Seq(I!EntryType) /\ Differ(r)
        /\ Ids(r) = Ids(x5.queue) \cup {i} /\ Open(r) = Open(x5.queue) \cup {i}
    BY <1>i, <1>u, <1>a, <1>3, EntryAdded
  <1>5. x5' = [c EXCEPT !.album = b, !.queue = r]
    <2>1. ~I!Queued(i)
      BY <1>i, <1>a, QueueNow
    <2> QED
      BY <1>c, <1>e, <1>1, <1>3, <2>1 DEF I!Schedule
  <1>6. /\ x5' \in I!ActorType /\ x5'.queue = r /\ x5'.album = b /\ x5'.active = x5.active
        /\ x5'.claim = c.claim
    BY <1>c, <1>2, <1>4, <1>5 DEF I!ActorType
  <1>f. I!ClaimFits'
    BY <1>c, <1>u, <1>6 DEF I!ClaimFits
  <1>t. I!TypeOK'
    BY <1>i, <1>u, <1>6 DEF I!TypeOK, I!Marked
  <1>q. I!Waiting' = I!Waiting \cup {i} /\ I!Fetching' = I!Fetching \cup {i} /\ I!IdsDiffer'
    BY <1>i, <1>4, <1>6, QueueThen
  <1>m. \A k \in I!Inputs : x4'[k] = IF k = i THEN "pending" ELSE x4[k]
    BY <1>u DEF I!Marked
  <1>7. I!InboxFollows'
    BY <1>i, <1>u, <1>c, <1>a, <1>6, <1>q, <1>m DEF I!InboxFollows
  <1>8. I!JobsFit'
    <2> SUFFICES ASSUME NEW j \in x7 PROVE I!JobFits(j)'
      BY <1>u DEF I!JobsFit
    <2>1. I!JobFits(j) /\ j.id # i /\ j.id \in I!Inputs
      BY <1>i, <1>a DEF I!JobsFit
    <2> QED
      BY <2>1, <1>u, <1>s, <1>2, <1>6, <1>q, <1>m DEF I!JobFits
  <1>9. I!AlbumFits'
    BY <1>i, <1>u, <1>a, <1>s, <1>2, <1>6, <1>q DEF I!AlbumFits
  <1>10. I!DirsFit'
    BY <1>i, <1>u, <1>a, <1>s, <1>6, <1>q, <1>m DEF I!DirsFit, I!DirFits
  <1> QED
    BY <1>k, <1>f, <1>t, <1>q, <1>7, <1>8, <1>9, <1>10 DEF I!IInv

\* A further member is settled, and its album holds it.
LEMMA IncomingAlbumGrows ==
    ASSUME I!IInv, NEW i \in Triple, I!AlbumGrows(i)
    PROVE  I!IInv' /\ I!KeepsResumed
  <1>i. /\ I!TypeOK /\ I!IdsDiffer /\ I!InboxFollows /\ I!JobsFit /\ I!AlbumFits /\ I!DirsFit
        /\ x5.queue \in Seq(I!EntryType) /\ Differ(x5.queue)
        /\ I!Waiting = Ids(x5.queue) /\ I!Fetching = Open(x5.queue) /\ I!Fetching \subseteq I!Waiting
        /\ I!Waiting \subseteq I!Inputs
        /\ x5.active \in I!Inputs \cup {None} /\ x5.album.owner \in I!Inputs \cup {None}
        /\ (\A k \in x7 : k.id \in I!Inputs) /\ x12 \in Nat
        /\ x5.album.owner # None => x5.album.owner \in I!Fetching
    BY IncomingParts
  <1>n. None \notin I!Inputs /\ None \notin Existing
    BY NoneIsNobody
  <1>u. /\ i \in I!Inputs /\ x1 = "up" /\ x4[i] = "new" /\ x5.album.owner # None
        /\ UNCHANGED <<x1, x2, x3, x7, x8, x9, x10, x12>> /\ x4' = I!Marked({i}, "ended")
        /\ x11' = [x11 EXCEPT ![i] = x5.album.owner]
        /\ I!Schedule(x5, [x5.album EXCEPT !.members = @ \cup {i}])
    BY DEF I!AlbumGrows, I!Up, I!Inputs
  <1>k. I!KeepsResumed
    BY <1>u DEF I!KeepsResumed
  <1>s. /\ I!Cleaned' = I!Cleaned
        /\ \A k : I!Collected(k)' \subseteq (IF k = x5.album.owner THEN I!Collected(k) \cup {i} ELSE I!Collected(k))
    BY <1>i, <1>u DEF I!Cleaned, I!Collected, I!TypeOK
  <1>a. i \notin I!Waiting /\ i # x5.active /\ i \notin I!Cleaned /\ ~x8[i].there /\ I!Collected(i) = {}
        /\ (\A j \in x7 : j.id # i) /\ i # x5.album.owner
    BY <1>i, <1>u, <1>n DEF I!DirsFit, I!DirFits, I!InboxFollows, I!JobsFit, I!JobFits
  <1> DEFINE album == [x5.album EXCEPT !.members = @ \cup {i}]
             v == album.version + 1
  <1>1. PICK b : b = [album EXCEPT !.version = v]
    OBVIOUS
  <1>a2. x5.album \in I!AlbumType
    BY <1>i DEF I!TypeOK, I!ActorType
  <1>a3. album \in I!AlbumType /\ album.owner = x5.album.owner /\ album.members = x5.album.members \cup {i}
    BY <1>a2, <1>u DEF I!AlbumType
  <1>2. b \in I!AlbumType /\ b.owner = x5.album.owner /\ b.members = x5.album.members \cup {i}
    <2> HIDE DEF album
    <2> QED
      BY <1>a3, <1>1 DEF I!AlbumType
  <1>5. x5' = [x5 EXCEPT !.album = b, !.queue = x5.queue]
    <2>1. I!Queued(album.owner)
      BY <1>i, <1>u, <1>a3, QueueNow
    <2> QED
      BY <1>u, <1>1, <2>1 DEF I!Schedule
  <1>6. /\ x5' \in I!ActorType /\ x5'.queue = x5.queue /\ x5'.album = b /\ x5'.active = x5.active
        /\ x5'.claim = x5.claim /\ x5'.runtime = x5.runtime
    BY <1>i, <1>2, <1>5 DEF I!TypeOK, I!ActorType
  <1>f. I!ClaimFits'
    BY <1>u, <1>6, ClaimKept
  <1>t. I!TypeOK'
    BY <1>i, <1>u, <1>6 DEF I!TypeOK, I!Marked
  <1>q. I!Waiting' = I!Waiting /\ I!Fetching' = I!Fetching /\ I!IdsDiffer'
    BY <1>i, <1>6, QueueKept
  <1>m. \A k \in I!Inputs : x4'[k] = IF k = i THEN "ended" ELSE x4[k]
    BY <1>u DEF I!Marked
  <1>7. I!InboxFollows'
    BY <1>i, <1>u, <1>a, <1>6, <1>q, <1>m DEF I!InboxFollows
  <1>8. I!JobsFit'
    BY <1>i, <1>u, <1>a, <1>s, <1>2, <1>6, <1>q, <1>m DEF I!JobsFit, I!JobFits
  <1>9. I!AlbumFits'
    BY <1>i, <1>u, <1>a, <1>s, <1>2, <1>6, <1>q DEF I!AlbumFits
  <1>o. PICK o : o = x5.album.owner
    OBVIOUS
  <1>p. x4[o] = "pending" /\ o # x5.active /\ o \in I!Fetching /\ o # i
    BY <1>i, <1>u, <1>n, <1>a, <1>o DEF I!InboxFollows
  <1>c. \A k \in I!Inputs : k # x5.album.owner => I!Collected(k)' \subseteq I!Collected(k)
    BY <1>s
  <1>d. I!Cleaned' = I!Cleaned
    BY <1>s
  <1>10. I!DirsFit'
    <2>1. ASSUME NEW k \in I!Inputs, k # i, k # o PROVE I!DirFits(k)'
      BY <2>1, <1>i, <1>u, <1>c, <1>o, <1>d, <1>6, <1>q, <1>m DEF I!DirsFit, I!DirFits
    <2>2. I!DirFits(i)'
      BY <1>i, <1>u, <1>a, <1>d, <1>6, <1>q, <1>m DEF I!DirsFit, I!DirFits
    <2>3. I!DirFits(o)'
      BY <1>i, <1>u, <1>p, <1>d, <1>6, <1>q, <1>m DEF I!DirsFit, I!DirFits
    <2> QED
      BY <2>1, <2>2, <2>3 DEF I!DirsFit
  <1> QED
    BY <1>k, <1>f, <1>t, <1>q, <1>7, <1>8, <1>9, <1>10 DEF I!IInv

\* A member that comes too late, or cannot be queued, is not kept.
LEMMA IncomingAlbumRefused ==
    ASSUME I!IInv, NEW i \in Triple, I!AlbumRefused(i)
    PROVE  I!IInv' /\ I!KeepsResumed
  <1>i. /\ I!TypeOK /\ I!IdsDiffer /\ I!InboxFollows /\ I!JobsFit /\ I!AlbumFits /\ I!DirsFit
        /\ x5.queue \in Seq(I!EntryType) /\ Differ(x5.queue)
        /\ I!Waiting = Ids(x5.queue) /\ I!Fetching = Open(x5.queue) /\ I!Fetching \subseteq I!Waiting
        /\ I!Waiting \subseteq I!Inputs
        /\ x5.active \in I!Inputs \cup {None} /\ x5.album.owner \in I!Inputs \cup {None}
        /\ (\A k \in x7 : k.id \in I!Inputs) /\ x12 \in Nat
        /\ x5.album.owner # None => x5.album.owner \in I!Fetching
    BY IncomingParts
  <1>n. None \notin I!Inputs /\ None \notin Existing
    BY NoneIsNobody
  <1>u. /\ i \in I!Inputs /\ x1 = "up" /\ x4[i] = "new"
        /\ UNCHANGED <<x1, x2, x3, x7, x8, x9, x10, x11, x12>>
    BY DEF I!AlbumRefused, I!Up, I!Inputs
  <1>0. PICK state \in {"dropped", "ended"} : x4' = I!Marked({i}, state)
    BY DEF I!AlbumRefused, I!Refusal
  <1>k. I!KeepsResumed
    BY <1>u DEF I!KeepsResumed
  <1>s. I!Cleaned' = I!Cleaned /\ \A k : I!Collected(k)' = I!Collected(k)
    BY <1>u DEF I!Cleaned, I!Collected
  <1>a. i \notin I!Waiting /\ i # x5.active /\ i \notin I!Cleaned /\ ~x8[i].there /\ I!Collected(i) = {}
        /\ (\A j \in x7 : j.id # i) /\ i # x5.album.owner
    BY <1>i, <1>u, <1>n DEF I!DirsFit, I!DirFits, I!InboxFollows, I!JobsFit, I!JobFits
  <1>6. /\ x5' \in I!ActorType /\ x5'.queue = x5.queue /\ x5'.album = x5.album /\ x5'.active = x5.active
        /\ I!ClaimFits'
    <2>1. CASE x5' = x5
      BY <1>i, <1>u, <2>1, ClaimKept DEF I!TypeOK
    <2>2. CASE \E a \in I!EnsureRuntime : x5' = [a EXCEPT !.suppressed = TRUE]
      <3>1. PICK a \in I!EnsureRuntime : x5' = [a EXCEPT !.suppressed = TRUE]
        BY <2>2
      <3>2. /\ a \in I!ActorType /\ a.queue = x5.queue /\ a.album = x5.album /\ a.active = x5.active
            /\ a.claim \in {None, x2.session} /\ (a.runtime = "connected" => a.claim # None)
        BY EnsuredFits
      <3>3. /\ x5' \in I!ActorType /\ x5'.queue = x5.queue /\ x5'.album = x5.album /\ x5'.active = x5.active
            /\ x5'.claim = a.claim /\ x5'.runtime = a.runtime
        BY <3>1, <3>2 DEF I!ActorType
      <3> QED
        BY <1>u, <3>2, <3>3 DEF I!ClaimFits, I!Connected
    <2> QED
      BY <2>1, <2>2 DEF I!AlbumRefused
  <1>t. I!TypeOK'
    BY <1>i, <1>u, <1>0, <1>6 DEF I!TypeOK, I!Marked
  <1>q. I!Waiting' = I!Waiting /\ I!Fetching' = I!Fetching /\ I!IdsDiffer'
    BY <1>i, <1>6, QueueKept
  <1>m. \A k \in I!Inputs : x4'[k] = IF k = i THEN state ELSE x4[k]
    BY <1>0 DEF I!Marked
  <1>7. I!InboxFollows'
    BY <1>i, <1>u, <1>a, <1>6, <1>q, <1>m DEF I!InboxFollows
  <1>8. I!JobsFit'
    BY <1>i, <1>u, <1>a, <1>s, <1>6, <1>q, <1>m DEF I!JobsFit, I!JobFits
  <1>9. I!AlbumFits'
    BY <1>i, <1>u, <1>s, <1>6, <1>q DEF I!AlbumFits
  <1>10. I!DirsFit'
    BY <1>i, <1>u, <1>a, <1>s, <1>6, <1>q, <1>m DEF I!DirsFit, I!DirFits
  <1> QED
    BY <1>k, <1>6, <1>t, <1>q, <1>7, <1>8, <1>9, <1>10 DEF I!IInv

\* Late members of a group are not suppressed for ever.
LEMMA IncomingSuppressionEnds ==
    ASSUME I!IInv, I!SuppressionEnds
    PROVE  I!IInv' /\ I!KeepsResumed
  <1>i. x5 \in I!ActorType
    BY DEF I!IInv, I!TypeOK
  <1>u. UNCHANGED <<x1, x2, x3, x4, x7, x8, x9, x10, x11, x12>> /\ x5' = [x5 EXCEPT !.suppressed = FALSE]
    BY DEF I!SuppressionEnds
  <1>1. /\ x5' \in I!ActorType /\ x5'.queue = x5.queue /\ x5'.album = x5.album /\ x5'.active = x5.active
        /\ x5'.claim = x5.claim /\ x5'.runtime = x5.runtime
    BY <1>i, <1>u DEF I!ActorType
  <1>2. I!ClaimFits'
    BY <1>u, <1>1, ClaimKept
  <1> QED
    BY <1>u, <1>1, <1>2, ClaimMoves

\* The album is closed, and its one preparation begins with its members.
LEMMA IncomingSeal ==
    ASSUME I!IInv, NEW v \in x6, I!Seal(v)
    PROVE  I!IInv' /\ I!KeepsResumed
  <1>i. /\ I!TypeOK /\ I!IdsDiffer /\ I!InboxFollows /\ I!JobsFit /\ I!AlbumFits /\ I!DirsFit
        /\ x5.queue \in Seq(I!EntryType) /\ Differ(x5.queue)
        /\ I!Waiting = Ids(x5.queue) /\ I!Fetching = Open(x5.queue) /\ I!Fetching \subseteq I!Waiting
        /\ I!Waiting \subseteq I!Inputs
        /\ x5.active \in I!Inputs \cup {None} /\ x5.album.owner \in I!Inputs \cup {None}
        /\ (\A k \in x7 : k.id \in I!Inputs) /\ x12 \in Nat
        /\ x5.album.owner # None => x5.album.owner \in I!Fetching
    BY IncomingParts
  <1>n. None \notin I!Inputs /\ None \notin Existing
    BY NoneIsNobody
  <1>u. UNCHANGED <<x1, x2, x3, x4, x8, x9, x10, x11, x12>>
    BY DEF I!Seal, I!SealLeaving
  <1>k. I!KeepsResumed
    BY <1>u DEF I!KeepsResumed
  <1>s. I!Cleaned' = I!Cleaned /\ \A k : I!Collected(k)' = I!Collected(k)
    BY <1>u DEF I!Cleaned, I!Collected
  <1>1. CASE UNCHANGED <<x5, x7>>
    <2>t. I!TypeOK'
      BY <1>i, <1>u, <1>1 DEF I!TypeOK
    <2>q. I!Waiting' = I!Waiting /\ I!Fetching' = I!Fetching /\ I!IdsDiffer'
      BY <1>i, <1>1, QueueKept
    <2>7. I!InboxFollows' /\ I!JobsFit' /\ I!AlbumFits' /\ I!DirsFit'
      BY <1>i, <1>u, <1>s, <1>1, <2>q DEF I!InboxFollows, I!JobsFit, I!JobFits, I!AlbumFits, I!DirsFit, I!DirFits
    <2>f. I!ClaimFits'
      BY <1>u, <1>1, ClaimKept
    <2> QED
      BY <1>k, <2>f, <2>t, <2>q, <2>7 DEF I!IInv
  <1>2. CASE ~(UNCHANGED <<x5, x7>>)
    <2> DEFINE o == x5.album.owner
    <2>1. /\ x5' = [x5 EXCEPT !.album = I!Closed(x5.album), !.suppressed = TRUE] /\ o # None
          /\ x7' = x7 \cup {I!Job(o, x5.album.members, x5.claim)}
      BY <1>2 DEF I!Seal, I!SealLeaving
    <2>2. x5.album \in I!AlbumType /\ o \in I!Fetching
      BY <1>i, <2>1 DEF I!TypeOK, I!ActorType
    <2>3. PICK b : b = I!Closed(x5.album)
      OBVIOUS
    <2>4. b \in I!AlbumType /\ b.owner = None
      BY <2>2, <2>3 DEF I!Closed, I!AlbumType
    <2>5. /\ x5' \in I!ActorType /\ x5'.queue = x5.queue /\ x5'.album = b /\ x5'.active = x5.active
          /\ x5'.claim = x5.claim /\ x5'.runtime = x5.runtime
      BY <1>i, <2>1, <2>3, <2>4 DEF I!TypeOK, I!ActorType
    <2>f. I!ClaimFits'
      BY <1>u, <2>5, ClaimKept
    <2>j. PICK n : n = I!Job(o, x5.album.members, x5.claim)
      OBVIOUS
    <2>b. x5.claim \in Existing \cup {None}
      BY <1>i DEF I!TypeOK, I!ActorType
    <2>n. n \in I!JobType /\ n.id = o /\ n.step = "waiting" /\ n.members = x5.album.members
      BY <1>i, <2>1, <2>2, <2>b, <2>j DEF I!Job, I!JobType, I!TypeOK, I!AlbumType
    <2>x. x7' = x7 \cup {n}
      BY <2>1, <2>j
    <2>t. I!TypeOK'
      BY <1>i, <1>u, <2>5, <2>x, <2>n DEF I!TypeOK
    <2>q. I!Waiting' = I!Waiting /\ I!Fetching' = I!Fetching /\ I!IdsDiffer'
      BY <1>i, <2>5, QueueKept
    <2>a. /\ \A j \in x7 : j.id # o
          /\ o \in I!Waiting /\ o \in I!Inputs /\ x4[o] = "pending" /\ x1 # "down" /\ o \notin I!Cleaned
          /\ I!Collected(o) \subseteq x5.album.members /\ ~x8[o].there
      BY <1>i, <2>1, <2>2 DEF I!JobsFit, I!JobFits, I!InboxFollows, I!AlbumFits, I!DirsFit, I!DirFits
    <2> HIDE DEF o
    <2>6. I!InboxFollows'
      BY <1>i, <1>u, <2>5, <2>q, <2>a DEF I!InboxFollows
    <2>7. I!JobsFit'
      <3>1. \A j \in x7' : j = n \/ (j \in x7 /\ j.id # o)
        BY <2>a, <2>x
      <3>2. I!Collected(n.id)' \subseteq n.members /\ n.id \notin I!Cleaned' /\ ~x8'[n.id].there
        BY <1>u, <1>s, <2>n, <2>a
      <3>3. n.id \in I!Fetching'
        BY <2>2, <2>n, <2>q DEF o
      <3> QED
        BY <1>i, <1>u, <1>n, <1>s, <2>4, <2>5, <2>n, <2>a, <2>q, <3>1, <3>2, <3>3 DEF I!JobsFit, I!JobFits
    <2>8. I!AlbumFits'
      BY <2>4, <2>5 DEF I!AlbumFits
    <2>9. I!DirsFit'
      BY <1>i, <1>u, <1>s, <2>5, <2>n, <2>x, <2>q, <2>a DEF I!DirsFit, I!DirFits
    <2> QED
      BY <1>k, <2>f, <2>t, <2>q, <2>6, <2>7, <2>8, <2>9 DEF I!IInv
  <1> QED
    BY <1>1, <1>2

\* The jobs that a cancellation reaches keep what they are known by.
Alike(j, k) ==
    j.id = k.id /\ j.step = k.step /\ j.ok = k.ok /\ j.members = k.members /\ j.owner = k.owner
Unique(jobs) == \A j, k \in jobs : j.id = k.id => j = k

LEMMA JobsCancelled ==
    ASSUME x7 \subseteq I!JobType, Unique(x7), NEW S
    PROVE  /\ I!CancelJobs(S) \subseteq I!JobType /\ Unique(I!CancelJobs(S))
           /\ \A k \in I!CancelJobs(S) : \E j \in x7 : Alike(j, k)
           /\ \A j \in x7 : \E k \in I!CancelJobs(S) : Alike(j, k)
  <1> DEFINE c(j) == IF j.id \in S /\ j.step # "ended" THEN [j EXCEPT !.cancelled = TRUE] ELSE j
  <1>1. I!CancelJobs(S) = {c(j) : j \in x7}
    BY DEF I!CancelJobs
  <1>2. ASSUME NEW j \in x7 PROVE c(j) \in I!JobType /\ Alike(j, c(j))
    BY DEF I!JobType, Alike
  <1> HIDE DEF c
  <1>3. Unique({c(j) : j \in x7})
    BY <1>2 DEF Unique, Alike
  <1> QED
    BY <1>1, <1>2, <1>3

\* What follows for the invariant.
LEMMA JobsFitCancelled ==
    ASSUME I!TypeOK, I!JobsFit, NEW S, x7' = I!CancelJobs(S)
    PROVE  /\ x7' \subseteq I!JobType /\ Unique(x7')
           /\ \A k \in x7' : \E j \in x7 : Alike(j, k)
           /\ \A i : (\E j \in x7 : j.id = i) <=> (\E k \in x7' : k.id = i)
           /\ x7 = {} => x7' = {}
  <1>1. x7 \subseteq I!JobType /\ Unique(x7)
    BY DEF I!TypeOK, I!JobsFit, I!JobFits, Unique
  <1>2. /\ x7' \subseteq I!JobType /\ Unique(x7')
        /\ \A k \in x7' : \E j \in x7 : Alike(j, k)
        /\ \A j \in x7 : \E k \in x7' : Alike(j, k)
    BY <1>1, JobsCancelled
  <1> QED
    BY <1>2 DEF Alike

\* The directories of the discarded inputs are gone, the others stay.
LEMMA DirsDiscarded ==
    ASSUME x8 \in [I!Inputs -> I!DirType], NEW S
    PROVE  /\ I!Discarded(S) \in [I!Inputs -> I!DirType]
           /\ \A i \in I!Inputs : i \notin S => I!Discarded(S)[i] = x8[i]
           /\ \A i \in I!Inputs : i \in S => ~I!Discarded(S)[i].there /\ I!Discarded(S)[i].life = 0
  BY DEF I!Discarded, I!NoDir, I!DirType

\* One job goes on.
LEMMA JobMoves ==
    ASSUME I!TypeOK, I!JobsFit, NEW j \in x7, NEW n \in I!JobType, n.id = j.id, n.members = j.members,
           n.owner = j.owner,
           x7' = (x7 \ {j}) \cup {n}
    PROVE  /\ x7' \subseteq I!JobType /\ \A k \in x7' : k = n \/ (k \in x7 /\ k.id # j.id)
           /\ \A i : (\E k \in x7 : k.id = i) <=> (\E k \in x7' : k.id = i)
  BY DEF I!TypeOK, I!JobsFit, I!JobFits

\* A preparation gets a slot and creates its directory.
LEMMA IncomingPreparationBegins ==
    ASSUME I!IInv, NEW j \in x7, I!PreparationBegins(j)
    PROVE  I!IInv' /\ I!KeepsResumed
  <1>i. /\ I!TypeOK /\ I!IdsDiffer /\ I!InboxFollows /\ I!JobsFit /\ I!AlbumFits /\ I!DirsFit
        /\ x5.queue \in Seq(I!EntryType) /\ Differ(x5.queue)
        /\ I!Waiting = Ids(x5.queue) /\ I!Fetching = Open(x5.queue) /\ I!Fetching \subseteq I!Waiting
        /\ I!Waiting \subseteq I!Inputs
        /\ x5.active \in I!Inputs \cup {None} /\ x5.album.owner \in I!Inputs \cup {None}
        /\ (\A k \in x7 : k.id \in I!Inputs) /\ x12 \in Nat
        /\ x5.album.owner # None => x5.album.owner \in I!Fetching
    BY IncomingParts
  <1>n. None \notin I!Inputs /\ None \notin Existing
    BY NoneIsNobody
  <1>u. /\ x1 # "down" /\ j.step = "waiting" /\ x7' = I!Steps(j, "writing")
        /\ UNCHANGED <<x1, x2, x3, x4, x5, x6, x9, x10, x11, x12>>
        /\ x8' = [x8 EXCEPT ![j.id] = [there |-> TRUE, owner |-> None, old |-> FALSE, members |-> {}, life |-> x12]]
    BY DEF I!PreparationBegins
  <1>j. PICK n : n = [j EXCEPT !.step = "writing"]
    OBVIOUS
  <1>1. n \in I!JobType /\ n.id = j.id /\ n.members = j.members /\ n.owner = j.owner /\ n.step = "writing"
    BY <1>i, <1>j DEF I!TypeOK, I!JobType
  <1>2. x7' = (x7 \ {j}) \cup {n}
    BY <1>u, <1>j DEF I!Steps
  <1>3. /\ x7' \subseteq I!JobType /\ \A k \in x7' : k = n \/ (k \in x7 /\ k.id # j.id)
        /\ \A i : (\E k \in x7 : k.id = i) <=> (\E k \in x7' : k.id = i)
    BY <1>i, <1>1, <1>2, JobMoves
  <1>4. /\ x8' \in [I!Inputs -> I!DirType] /\ x8'[j.id].there /\ ~x8'[j.id].old /\ x8'[j.id].life = x12
        /\ \A i \in I!Inputs : i # j.id => x8'[i] = x8[i]
    BY <1>i, <1>u DEF I!TypeOK, I!DirType
  <1>k. I!KeepsResumed
    BY <1>4 DEF I!KeepsResumed
  <1>s. I!Cleaned' = I!Cleaned /\ \A k : I!Collected(k)' = I!Collected(k)
    BY <1>u DEF I!Cleaned, I!Collected
  <1>t. I!TypeOK'
    BY <1>i, <1>u, <1>3, <1>4 DEF I!TypeOK
  <1>q. I!Waiting' = I!Waiting /\ I!Fetching' = I!Fetching /\ I!IdsDiffer'
    BY <1>i, <1>u, QueueKept
  <1>a. /\ j.id \in I!Fetching \/ x4[j.id] = "dropped"
        /\ j.id \in I!Inputs /\ j.id # x5.album.owner /\ j.id \notin I!Cleaned /\ I!Collected(j.id) \subseteq j.members
    BY <1>i DEF I!JobsFit, I!JobFits
  <1>b. j.id \notin I!Waiting \ I!Fetching /\ j.id # x5.active /\ x4[j.id] \in {"pending", "dropped"}
    BY <1>i, <1>a, <1>n DEF I!InboxFollows
  <1>5. I!InboxFollows'
    BY <1>i, <1>u, <1>q DEF I!InboxFollows
  <1>6. I!JobsFit'
    <2>1. ASSUME NEW k \in x7', k \in x7, k.id # j.id PROVE I!JobFits(k)'
      <3>1. k.id \in I!Inputs /\ x8'[k.id] = x8[k.id] /\ \A l \in x7' : l.id = k.id => l \in x7
        BY <2>1, <1>i, <1>1, <1>3, <1>4
      <3>2. I!JobFits(k)
        BY <2>1, <1>i DEF I!JobsFit
      <3> QED
        BY <3>1, <3>2, <1>u, <1>s, <1>q DEF I!JobFits
    <2>2. ASSUME NEW k \in x7', k.id = n.id PROVE k = n
      BY <2>2, <1>1, <1>3
    <2>3. I!JobFits(n)'
      BY <2>2, <1>i, <1>u, <1>s, <1>q, <1>1, <1>4, <1>a DEF I!JobFits
    <2> QED
      BY <1>3, <2>1, <2>3 DEF I!JobsFit
  <1>7. I!AlbumFits'
    BY <1>i, <1>u, <1>s, <1>q DEF I!AlbumFits
  <1>8. I!DirsFit'
    <2>1. ASSUME NEW k \in I!Inputs, k # j.id PROVE I!DirFits(k)'
      BY <2>1, <1>i, <1>u, <1>s, <1>q, <1>3, <1>4 DEF I!DirsFit, I!DirFits
    <2>2. I!DirFits(j.id)'
      <3>1. I!DirFits(j.id) /\ \E k \in x7' : k.id = j.id
        BY <1>i, <1>a, <1>1, <1>2 DEF I!DirsFit
      <3> QED
        BY <3>1, <1>i, <1>u, <1>s, <1>q, <1>4, <1>a, <1>b DEF I!DirFits
    <2> QED
      BY <2>1, <2>2 DEF I!DirsFit
  <1>f. I!ClaimFits'
    BY <1>u, ClaimKept
  <1> QED
    BY <1>k, <1>f, <1>t, <1>q, <1>5, <1>6, <1>7, <1>8 DEF I!IInv

\* A preparation succeeds: the directory names its session and holds the members.
LEMMA IncomingPreparationSucceeds ==
    ASSUME I!IInv, NEW j \in x7, I!PreparationSucceeds(j)
    PROVE  I!IInv' /\ I!KeepsResumed
  <1>i. /\ I!TypeOK /\ I!IdsDiffer /\ I!InboxFollows /\ I!JobsFit /\ I!AlbumFits /\ I!DirsFit
        /\ x5.queue \in Seq(I!EntryType) /\ Differ(x5.queue)
        /\ I!Waiting = Ids(x5.queue) /\ I!Fetching = Open(x5.queue) /\ I!Fetching \subseteq I!Waiting
        /\ I!Waiting \subseteq I!Inputs
        /\ x5.active \in I!Inputs \cup {None} /\ x5.album.owner \in I!Inputs \cup {None}
        /\ (\A k \in x7 : k.id \in I!Inputs) /\ x12 \in Nat
        /\ x5.album.owner # None => x5.album.owner \in I!Fetching
    BY IncomingParts
  <1>n. None \notin I!Inputs /\ None \notin Existing
    BY NoneIsNobody
  <1>u. /\ x1 # "down" /\ j.step = "writing" /\ j.owner # None /\ x7' = I!Ends(j, TRUE)
        /\ UNCHANGED <<x1, x2, x3, x4, x5, x6, x9, x10, x11, x12>>
        /\ x8' = [x8 EXCEPT ![j.id].owner = j.owner, ![j.id].members = j.members]
    BY DEF I!PreparationSucceeds
  <1>j. PICK n : n = [j EXCEPT !.step = "ended", !.ok = TRUE]
    OBVIOUS
  <1>1. /\ n \in I!JobType /\ n.id = j.id /\ n.members = j.members /\ n.owner = j.owner
        /\ n.step = "ended" /\ n.ok /\ j.owner \in Existing \cup {None} /\ j.members \subseteq I!Inputs
    BY <1>i, <1>j, ZenonT(60) DEF I!TypeOK, I!JobType
  <1>2. x7' = (x7 \ {j}) \cup {n}
    BY <1>u, <1>j DEF I!Ends
  <1>3. /\ x7' \subseteq I!JobType /\ \A k \in x7' : k = n \/ (k \in x7 /\ k.id # j.id)
        /\ \A i : (\E k \in x7 : k.id = i) <=> (\E k \in x7' : k.id = i)
    BY <1>i, <1>1, <1>2, JobMoves
  <1>d. x8[j.id].there /\ ~x8[j.id].old
    BY <1>i, <1>u DEF I!JobsFit, I!JobFits
  <1>4. /\ x8' \in [I!Inputs -> I!DirType] /\ x8'[j.id].there /\ ~x8'[j.id].old /\ x8'[j.id].life = x8[j.id].life
        /\ x8'[j.id].owner = j.owner /\ x8'[j.id].members = j.members
        /\ \A i \in I!Inputs : i # j.id => x8'[i] = x8[i]
    <2>1. PICK b : b = [x8[j.id] EXCEPT !.owner = j.owner, !.members = j.members]
      OBVIOUS
    <2>2. x8[j.id] \in I!DirType
      BY <1>i DEF I!TypeOK
    <2>3. b \in I!DirType /\ b.there /\ ~b.old /\ b.life = x8[j.id].life /\ b.owner = j.owner /\ b.members = j.members
      BY <2>1, <2>2, <1>1, <1>d DEF I!DirType
    <2>4. x8' = [x8 EXCEPT ![j.id] = b]
      BY <1>u, <2>1
    <2> QED
      BY <1>i, <2>3, <2>4 DEF I!TypeOK
  <1>k. I!KeepsResumed
    BY <1>4 DEF I!KeepsResumed
  <1>s. I!Cleaned' = I!Cleaned /\ \A k : I!Collected(k)' = I!Collected(k)
    BY <1>u DEF I!Cleaned, I!Collected
  <1>t. I!TypeOK'
    BY <1>i, <1>u, <1>3, <1>4 DEF I!TypeOK
  <1>q. I!Waiting' = I!Waiting /\ I!Fetching' = I!Fetching /\ I!IdsDiffer'
    BY <1>i, <1>u, QueueKept
  <1>a. /\ j.id \in I!Fetching \/ x4[j.id] = "dropped"
        /\ j.id \in I!Inputs /\ j.id # x5.album.owner /\ j.id \notin I!Cleaned /\ I!Collected(j.id) \subseteq j.members
    BY <1>i DEF I!JobsFit, I!JobFits
  <1>b. j.id \notin I!Waiting \ I!Fetching /\ j.id # x5.active /\ x4[j.id] \in {"pending", "dropped"}
    BY <1>i, <1>a, <1>n DEF I!InboxFollows
  <1>5. I!InboxFollows'
    BY <1>i, <1>u, <1>q DEF I!InboxFollows
  <1>6. I!JobsFit'
    <2>1. ASSUME NEW k \in x7', k \in x7, k.id # j.id PROVE I!JobFits(k)'
      <3>1. k.id \in I!Inputs /\ x8'[k.id] = x8[k.id] /\ \A l \in x7' : l.id = k.id => l \in x7
        BY <2>1, <1>i, <1>1, <1>3, <1>4
      <3>2. I!JobFits(k)
        BY <2>1, <1>i DEF I!JobsFit
      <3> QED
        BY <3>1, <3>2, <1>u, <1>s, <1>q DEF I!JobFits
    <2>2. ASSUME NEW k \in x7', k.id = n.id PROVE k = n
      BY <2>2, <1>1, <1>3
    <2>3. I!JobFits(n)'
      BY <2>2, <1>i, <1>u, <1>s, <1>q, <1>1, <1>4, <1>a DEF I!JobFits
    <2> QED
      BY <1>3, <2>1, <2>3 DEF I!JobsFit
  <1>7. I!AlbumFits'
    BY <1>i, <1>u, <1>s, <1>q DEF I!AlbumFits
  <1>8. I!DirsFit'
    <2>1. ASSUME NEW k \in I!Inputs, k # j.id PROVE I!DirFits(k)'
      BY <2>1, <1>i, <1>u, <1>s, <1>q, <1>3, <1>4 DEF I!DirsFit, I!DirFits
    <2>2. I!DirFits(j.id)'
      <3>1. I!DirFits(j.id) /\ \E k \in x7' : k.id = j.id
        BY <1>i, <1>a, <1>1, <1>2 DEF I!DirsFit
      <3> QED
        BY <3>1, <1>i, <1>u, <1>s, <1>q, <1>4, <1>a, <1>b, <1>d DEF I!DirFits
    <2> QED
      BY <2>1, <2>2 DEF I!DirsFit
  <1>f. I!ClaimFits'
    BY <1>u, ClaimKept
  <1> QED
    BY <1>k, <1>f, <1>t, <1>q, <1>5, <1>6, <1>7, <1>8 DEF I!IInv

\* A preparation fails, and removes what it wrote.
LEMMA IncomingPreparationFails ==
    ASSUME I!IInv, NEW j \in x7, I!PreparationFails(j)
    PROVE  I!IInv' /\ I!KeepsResumed
  <1>i. /\ I!TypeOK /\ I!IdsDiffer /\ I!InboxFollows /\ I!JobsFit /\ I!AlbumFits /\ I!DirsFit
        /\ x5.queue \in Seq(I!EntryType) /\ Differ(x5.queue)
        /\ I!Waiting = Ids(x5.queue) /\ I!Fetching = Open(x5.queue) /\ I!Fetching \subseteq I!Waiting
        /\ I!Waiting \subseteq I!Inputs
        /\ x5.active \in I!Inputs \cup {None} /\ x5.album.owner \in I!Inputs \cup {None}
        /\ (\A k \in x7 : k.id \in I!Inputs) /\ x12 \in Nat
        /\ x5.album.owner # None => x5.album.owner \in I!Fetching
    BY IncomingParts
  <1>n. None \notin I!Inputs /\ None \notin Existing
    BY NoneIsNobody
  <1>u. /\ x1 # "down" /\ j.step # "ended" /\ x7' = I!Ends(j, FALSE) /\ x8' = I!Discarded({j.id}) /\ x9' = x9 \ {j.id}
        /\ UNCHANGED <<x1, x2, x3, x4, x5, x6, x10, x11, x12>>
    BY DEF I!PreparationFails, I!Discard
  <1>j. PICK n : n = [j EXCEPT !.step = "ended", !.ok = FALSE]
    OBVIOUS
  <1>1. n \in I!JobType /\ n.id = j.id /\ n.members = j.members /\ n.owner = j.owner /\ n.step = "ended" /\ ~n.ok
    BY <1>i, <1>j, ZenonT(60) DEF I!TypeOK, I!JobType
  <1>2. x7' = (x7 \ {j}) \cup {n}
    BY <1>u, <1>j DEF I!Ends
  <1>3. /\ x7' \subseteq I!JobType /\ \A k \in x7' : k = n \/ (k \in x7 /\ k.id # j.id)
        /\ \A i : (\E k \in x7 : k.id = i) <=> (\E k \in x7' : k.id = i)
    BY <1>i, <1>1, <1>2, JobMoves
  <1>4. /\ x8' \in [I!Inputs -> I!DirType] /\ ~x8'[j.id].there /\ x8'[j.id].life = 0
        /\ \A i \in I!Inputs : i # j.id => x8'[i] = x8[i]
    BY <1>i, <1>u, DirsDiscarded DEF I!TypeOK
  <1>s. I!Cleaned' = I!Cleaned /\ \A k : I!Collected(k)' = I!Collected(k)
    BY <1>u DEF I!Cleaned, I!Collected
  <1>t. I!TypeOK'
    BY <1>i, <1>u, <1>3, <1>4 DEF I!TypeOK
  <1>q. I!Waiting' = I!Waiting /\ I!Fetching' = I!Fetching /\ I!IdsDiffer'
    BY <1>i, <1>u, QueueKept
  <1>a. /\ j.id \in I!Fetching \/ x4[j.id] = "dropped"
        /\ j.id \in I!Inputs /\ j.id # x5.album.owner /\ j.id \notin I!Cleaned /\ I!Collected(j.id) \subseteq j.members
    BY <1>i DEF I!JobsFit, I!JobFits
  <1>b. j.id \notin I!Waiting \ I!Fetching /\ j.id # x5.active /\ x4[j.id] \in {"pending", "dropped"}
    BY <1>i, <1>a, <1>n DEF I!InboxFollows
  <1>k. I!KeepsResumed
    BY <1>4, <1>b DEF I!KeepsResumed
  <1>5. I!InboxFollows'
    BY <1>i, <1>u, <1>q DEF I!InboxFollows
  <1>6. I!JobsFit'
    <2>1. ASSUME NEW k \in x7', k \in x7, k.id # j.id PROVE I!JobFits(k)'
      <3>1. k.id \in I!Inputs /\ x8'[k.id] = x8[k.id] /\ \A l \in x7' : l.id = k.id => l \in x7
        BY <2>1, <1>i, <1>1, <1>3, <1>4
      <3>2. I!JobFits(k)
        BY <2>1, <1>i DEF I!JobsFit
      <3> QED
        BY <3>1, <3>2, <1>u, <1>s, <1>q DEF I!JobFits
    <2>2. ASSUME NEW k \in x7', k.id = n.id PROVE k = n
      BY <2>2, <1>1, <1>3
    <2>3. I!JobFits(n)'
      BY <2>2, <1>i, <1>u, <1>s, <1>q, <1>1, <1>4, <1>a DEF I!JobFits
    <2> QED
      BY <1>3, <2>1, <2>3 DEF I!JobsFit
  <1>7. I!AlbumFits'
    BY <1>i, <1>u, <1>s, <1>q DEF I!AlbumFits
  <1>8. I!DirsFit'
    <2>1. ASSUME NEW k \in I!Inputs, k # j.id PROVE I!DirFits(k)'
      BY <2>1, <1>i, <1>u, <1>s, <1>q, <1>3, <1>4 DEF I!DirsFit, I!DirFits
    <2>2. I!DirFits(j.id)'
      <3>1. I!DirFits(j.id) /\ \E k \in x7' : k.id = j.id
        BY <1>i, <1>a, <1>1, <1>2 DEF I!DirsFit
      <3>2. 0 <= x12 /\ I!Fetching \subseteq I!Waiting
        BY <1>i
      <3> QED
        BY <3>1, <3>2, <1>u, <1>s, <1>q, <1>4, <1>a, <1>b DEF I!DirFits
    <2> QED
      BY <2>1, <2>2 DEF I!DirsFit
  <1>f. I!ClaimFits'
    BY <1>u, ClaimKept
  <1> QED
    BY <1>k, <1>f, <1>t, <1>q, <1>5, <1>6, <1>7, <1>8 DEF I!IInv

\* The actor takes the result of a preparation it waits for.
LEMMA IncomingPreparedMedia ==
    ASSUME I!IInv, NEW r \in x7, I!PreparedMedia(r)
    PROVE  I!IInv' /\ I!KeepsResumed
  <1>i. /\ I!TypeOK /\ I!IdsDiffer /\ I!InboxFollows /\ I!JobsFit /\ I!AlbumFits /\ I!DirsFit
        /\ x5.queue \in Seq(I!EntryType) /\ Differ(x5.queue)
        /\ I!Waiting = Ids(x5.queue) /\ I!Fetching = Open(x5.queue) /\ I!Fetching \subseteq I!Waiting
        /\ I!Waiting \subseteq I!Inputs
        /\ x5.active \in I!Inputs \cup {None} /\ x5.album.owner \in I!Inputs \cup {None}
        /\ (\A k \in x7 : k.id \in I!Inputs) /\ x12 \in Nat
        /\ x5.album.owner # None => x5.album.owner \in I!Fetching
    BY IncomingParts
  <1>n. None \notin I!Inputs /\ None \notin Existing
    BY NoneIsNobody
  <1>u. /\ x1 = "up" /\ r.step = "ended" /\ r.id \in I!Fetching /\ x7' = x7 \ {r} /\ r.id \in I!Inputs
        /\ UNCHANGED <<x1, x2, x3, x6, x10, x11, x12>>
    BY <1>i, QueueNow DEF I!PreparedMedia, I!Up, I!Awaited
  <1>s. I!Cleaned' = I!Cleaned /\ \A k : I!Collected(k)' = I!Collected(k)
    BY <1>u DEF I!Cleaned, I!Collected
  <1>a. /\ r.id \in I!Waiting /\ r.id # x5.active /\ r.id # x5.album.owner
        /\ r.id \notin I!Cleaned /\ x4[r.id] = "pending"
        /\ I!Collected(r.id) \subseteq r.members /\ (r.ok => x8[r.id].there) /\ (~r.ok => ~x8[r.id].there)
    BY <1>i, <1>u, <1>n DEF I!JobsFit, I!JobFits, I!InboxFollows
  <1>b. x7' \subseteq x7 /\ \A k \in x7 : k \in x7' <=> k.id # r.id
    BY <1>i, <1>u DEF I!JobsFit, I!JobFits
  <1>1. CASE r.ok
    <2>0. /\ x5' = [x5 EXCEPT !.queue = [n \in DOMAIN @ |->
                               IF @[n].id = r.id THEN [@[n] EXCEPT !.preparing = FALSE] ELSE @[n]]]
          /\ x9' = x9 \cup {r.id} /\ x4' = x4 /\ x8' = x8
      BY <1>1 DEF I!PreparedMedia
    <2>1. PICK q : q = [n \in DOMAIN x5.queue |-> IF x5.queue[n].id = r.id
                                                   THEN [x5.queue[n] EXCEPT !.preparing = FALSE] ELSE x5.queue[n]]
      OBVIOUS
    <2>2. q \in Seq(I!EntryType) /\ Differ(q) /\ Ids(q) = Ids(x5.queue) /\ Open(q) = Open(x5.queue) \ {r.id}
      <3>1. x5.queue \in Seq(I!EntryType) /\ Differ(x5.queue) /\ r.id \in Open(x5.queue)
        BY <1>i, <1>u
      <3> QED
        BY <3>1, <2>1, EntryPrepared, Zenon
    <2>3. x5' = [x5 EXCEPT !.queue = q]
      BY <2>0, <2>1
    <2>4. /\ x5' \in I!ActorType /\ x5'.queue = q /\ x5'.album = x5.album /\ x5'.active = x5.active
          /\ x5'.claim = x5.claim /\ x5'.runtime = x5.runtime
      BY <1>i, <2>2, <2>3 DEF I!TypeOK, I!ActorType
    <2>f. I!ClaimFits'
      BY <1>u, <2>4, ClaimKept
    <2>t. I!TypeOK'
      BY <1>i, <1>u, <2>0, <2>4 DEF I!TypeOK
    <2>q. I!Waiting' = I!Waiting /\ I!Fetching' = I!Fetching \ {r.id} /\ I!IdsDiffer'
      BY <1>i, <2>2, <2>4, QueueThen
    <2>5. I!InboxFollows'
      BY <1>i, <1>u, <2>0, <2>4, <2>q DEF I!InboxFollows
    <2>6. I!JobsFit'
      <3> SUFFICES ASSUME NEW k \in x7' PROVE I!JobFits(k)'
        BY DEF I!JobsFit
      <3>1. I!JobFits(k) /\ k.id # r.id /\ k \in x7
        BY <1>i, <1>b DEF I!JobsFit
      <3> QED
        BY <3>1, <1>b, <1>u, <1>s, <2>0, <2>4, <2>q DEF I!JobFits
    <2>7. I!AlbumFits'
      BY <1>i, <1>a, <1>u, <1>s, <2>4, <2>q DEF I!AlbumFits
    <2>8. I!DirsFit'
      <3>1. ASSUME NEW k \in I!Inputs, k # r.id PROVE I!DirFits(k)'
        <4>1. (\E j \in x7 : j.id = k) <=> (\E j \in x7' : j.id = k)
          BY <3>1, <1>b
        <4>2. I!DirFits(k)
          BY <3>1, <1>i DEF I!DirsFit
        <4> QED
          BY <3>1, <4>1, <4>2, <1>u, <1>s, <2>0, <2>4, <2>q DEF I!DirFits
      <3>2. x8[r.id].owner = r.owner /\ x8[r.id].members = r.members /\ r.owner # None
        BY <1>i, <1>u, <1>n, <1>1 DEF I!JobsFit, I!JobFits, I!TypeOK, I!JobType
      <3>3. I!DirFits(r.id)'
        <4>1. I!DirFits(r.id)
          BY <1>i, <1>u DEF I!DirsFit
        <4> QED
          BY <4>1, <3>2, <1>1, <1>a, <1>u, <1>s, <2>0, <2>4, <2>q DEF I!DirFits
      <3> QED
        BY <3>1, <3>3, <1>u DEF I!DirsFit
    <2>9. I!KeepsResumed
      BY <2>0 DEF I!KeepsResumed
    <2> QED
      BY <2>f, <2>t, <2>q, <2>5, <2>6, <2>7, <2>8, <2>9 DEF I!IInv
  <1>2. CASE ~r.ok
    <2>0. /\ x5' = [x5 EXCEPT !.queue = I!Dequeued(r.id), !.suppressed = @ \/ r.id \in Triple]
          /\ x9' = x9 \ {r.id} /\ x4' = I!Marked({r.id}, "dropped") /\ x8' = I!Discarded({r.id})
      BY <1>2 DEF I!PreparedMedia, I!Discard
    <2>1. PICK q : q = I!Dequeued(r.id)
      OBVIOUS
    <2>2. q \in Seq(I!EntryType) /\ Differ(q) /\ Ids(q) = Ids(x5.queue) \ {r.id} /\ Open(q) = Open(x5.queue) \ {r.id}
      BY <1>i, <1>u, <2>1, EntryRemoved
    <2>3. x5' = [x5 EXCEPT !.queue = q, !.suppressed = x5.suppressed \/ r.id \in Triple]
      BY <2>0, <2>1
    <2>4. /\ x5' \in I!ActorType /\ x5'.queue = q /\ x5'.album = x5.album /\ x5'.active = x5.active
          /\ x5'.claim = x5.claim /\ x5'.runtime = x5.runtime
      BY <1>i, <2>2, <2>3 DEF I!TypeOK, I!ActorType
    <2>f. I!ClaimFits'
      BY <1>u, <2>4, ClaimKept
    <2>d. /\ x8' \in [I!Inputs -> I!DirType] /\ ~x8'[r.id].there /\ x8'[r.id].life = 0
          /\ \A k \in I!Inputs : k # r.id => x8'[k] = x8[k]
      BY <1>i, <1>u, <2>0, DirsDiscarded DEF I!TypeOK
    <2>t. I!TypeOK'
      BY <1>i, <1>u, <2>0, <2>4, <2>d DEF I!TypeOK, I!Marked
    <2>m. \A k \in I!Inputs : x4'[k] = IF k = r.id THEN "dropped" ELSE x4[k]
      BY <2>0 DEF I!Marked
    <2>q. I!Waiting' = I!Waiting \ {r.id} /\ I!Fetching' = I!Fetching \ {r.id} /\ I!IdsDiffer'
      BY <1>i, <2>2, <2>4, QueueThen
    <2>5. I!InboxFollows'
      BY <1>i, <1>u, <1>a, <2>4, <2>m, <2>q DEF I!InboxFollows
    <2>6. I!JobsFit'
      <3> SUFFICES ASSUME NEW k \in x7' PROVE I!JobFits(k)'
        BY DEF I!JobsFit
      <3>1. I!JobFits(k) /\ k.id # r.id /\ k \in x7 /\ k.id \in I!Inputs
        BY <1>i, <1>b DEF I!JobsFit
      <3> QED
        BY <3>1, <1>b, <1>u, <1>s, <2>d, <2>4, <2>m, <2>q DEF I!JobFits
    <2>7. I!AlbumFits'
      BY <1>i, <1>a, <1>u, <1>s, <2>4, <2>q DEF I!AlbumFits
    <2>8. I!DirsFit'
      <3>1. ASSUME NEW k \in I!Inputs, k # r.id PROVE I!DirFits(k)'
        <4>1. (\E j \in x7 : j.id = k) <=> (\E j \in x7' : j.id = k)
          BY <3>1, <1>b
        <4>2. I!DirFits(k)
          BY <3>1, <1>i DEF I!DirsFit
        <4> QED
          BY <3>1, <4>1, <4>2, <1>u, <1>s, <2>0, <2>d, <2>4, <2>m, <2>q DEF I!DirFits
      <3>3. I!DirFits(r.id)'
        BY <1>i, <1>a, <1>u, <1>s, <2>d, <2>4, <2>m, <2>q DEF I!DirFits
      <3> QED
        BY <3>1, <3>3, <1>u DEF I!DirsFit
    <2>9. I!KeepsResumed
      BY <1>a, <2>d DEF I!KeepsResumed
    <2> QED
      BY <2>f, <2>t, <2>q, <2>5, <2>6, <2>7, <2>8, <2>9 DEF I!IInv
  <1> QED
    BY <1>1, <1>2

\* A result nobody waits for: its directory is removed.
LEMMA IncomingLate ==
    ASSUME I!IInv, NEW r \in x7, I!Late(r)
    PROVE  I!IInv' /\ I!KeepsResumed
  <1>i. /\ I!TypeOK /\ I!IdsDiffer /\ I!InboxFollows /\ I!JobsFit /\ I!AlbumFits /\ I!DirsFit
        /\ x5.queue \in Seq(I!EntryType) /\ Differ(x5.queue)
        /\ I!Waiting = Ids(x5.queue) /\ I!Fetching = Open(x5.queue) /\ I!Fetching \subseteq I!Waiting
        /\ I!Waiting \subseteq I!Inputs
        /\ x5.active \in I!Inputs \cup {None} /\ x5.album.owner \in I!Inputs \cup {None}
        /\ (\A k \in x7 : k.id \in I!Inputs) /\ x12 \in Nat
        /\ x5.album.owner # None => x5.album.owner \in I!Fetching
    BY IncomingParts
  <1>n. None \notin I!Inputs /\ None \notin Existing
    BY NoneIsNobody
  <1>u. /\ r.step = "ended" /\ x7' = x7 \ {r} /\ r.id \in I!Inputs /\ x1 # "down"
        /\ UNCHANGED <<x1, x2, x3, x4, x5, x6, x10, x11, x12>> /\ x8' = I!Discarded({r.id}) /\ x9' = x9 \ {r.id}
    BY <1>i DEF I!Late, I!Discard
  <1>s. I!Cleaned' = I!Cleaned /\ \A k : I!Collected(k)' = I!Collected(k)
    BY <1>u DEF I!Cleaned, I!Collected
  <1>c. I!JobFits(r)
    BY <1>i DEF I!JobsFit
  <1>a. /\ r.id \notin I!Waiting \ I!Fetching /\ r.id # x5.active /\ r.id \notin I!Cleaned
        /\ x4[r.id] \in {"pending", "dropped"}
    BY <1>i, <1>u, <1>n, <1>c DEF I!JobFits, I!InboxFollows
  <1>b. x7' \subseteq x7 /\ \A k \in x7 : k \in x7' <=> k.id # r.id
    BY <1>c, <1>u DEF I!JobFits
  <1>d. /\ x8' \in [I!Inputs -> I!DirType] /\ ~x8'[r.id].there /\ x8'[r.id].life = 0
        /\ \A k \in I!Inputs : k # r.id => x8'[k] = x8[k]
    BY <1>i, <1>u, DirsDiscarded DEF I!TypeOK
  <1>t. I!TypeOK'
    BY <1>i, <1>u, <1>d DEF I!TypeOK
  <1>q. I!Waiting' = I!Waiting /\ I!Fetching' = I!Fetching /\ I!IdsDiffer'
    BY <1>i, <1>u, QueueKept
  <1>5. I!InboxFollows'
    BY <1>i, <1>u, <1>q DEF I!InboxFollows
  <1>6. I!JobsFit'
    <2> SUFFICES ASSUME NEW k \in x7' PROVE I!JobFits(k)'
      BY DEF I!JobsFit
    <2>1. I!JobFits(k) /\ k.id # r.id /\ k \in x7 /\ k.id \in I!Inputs
      BY <1>i, <1>b DEF I!JobsFit
    <2> QED
      BY <2>1, <1>b, <1>u, <1>s, <1>d, <1>q DEF I!JobFits
  <1>7. I!AlbumFits'
    BY <1>i, <1>u, <1>s, <1>q DEF I!AlbumFits
  <1>8. I!DirsFit'
    <2>1. ASSUME NEW k \in I!Inputs, k # r.id PROVE I!DirFits(k)'
      <3>1. (\E j \in x7 : j.id = k) <=> (\E j \in x7' : j.id = k)
        BY <2>1, <1>b
      <3>2. I!DirFits(k)
        BY <2>1, <1>i DEF I!DirsFit
      <3> QED
        BY <2>1, <3>1, <3>2, <1>u, <1>s, <1>d, <1>q DEF I!DirFits
    <2>2. 0 <= x12 /\ I!Fetching \subseteq I!Waiting
      BY <1>i
    <2>3. I!DirFits(r.id)'
      BY <2>2, <1>a, <1>u, <1>s, <1>d, <1>q DEF I!DirFits
    <2> QED
      BY <2>1, <2>3, <1>u DEF I!DirsFit
  <1>9. I!KeepsResumed
    BY <1>a, <1>d DEF I!KeepsResumed
  <1>f. I!ClaimFits'
    BY <1>u, ClaimKept
  <1> QED
    BY <1>f, <1>t, <1>q, <1>5, <1>6, <1>7, <1>8, <1>9 DEF I!IInv

\* An entry of the queue is cancelled.
LEMMA IncomingCancelQueued ==
    ASSUME I!IInv, NEW i \in I!Inputs, I!CancelQueued(i)
    PROVE  I!IInv' /\ I!KeepsResumed
  <1>i. /\ I!TypeOK /\ I!IdsDiffer /\ I!InboxFollows /\ I!JobsFit /\ I!AlbumFits /\ I!DirsFit
        /\ x5.queue \in Seq(I!EntryType) /\ Differ(x5.queue)
        /\ I!Waiting = Ids(x5.queue) /\ I!Fetching = Open(x5.queue) /\ I!Fetching \subseteq I!Waiting
        /\ I!Waiting \subseteq I!Inputs
        /\ x5.active \in I!Inputs \cup {None} /\ x5.album.owner \in I!Inputs \cup {None}
        /\ (\A k \in x7 : k.id \in I!Inputs) /\ x12 \in Nat
        /\ x5.album.owner # None => x5.album.owner \in I!Fetching
    BY IncomingParts
  <1>n. None \notin I!Inputs /\ None \notin Existing
    BY NoneIsNobody
  <1>u. /\ x1 = "up" /\ i \in I!Waiting /\ x4' = I!Marked({i}, "dropped") /\ x7' = I!CancelJobs({i})
        /\ UNCHANGED <<x1, x2, x3, x6, x10, x11, x12>>
        /\ x8' = I!Discarded(I!Held({i})) /\ x9' = x9 \ I!Held({i})
        /\ x5' = [x5 EXCEPT !.queue = I!Dequeued(i), !.suppressed = @ \/ i \in Triple,
                     !.album = IF @.owner = i THEN I!Closed(@) ELSE @]
    BY <1>i, QueueNow DEF I!CancelQueued, I!Up, I!Discard, I!Cancelling
  <1>s. I!Cleaned' = I!Cleaned /\ \A k : I!Collected(k)' = I!Collected(k)
    BY <1>u DEF I!Cleaned, I!Collected
  <1>h. I!Held({i}) = {i} \cap (I!Waiting \ I!Fetching)
    BY <1>i, QueueNow
  <1>j. /\ x7' \subseteq I!JobType /\ Unique(x7')
        /\ \A k \in x7' : \E j \in x7 : Alike(j, k)
        /\ \A k : (\E j \in x7 : j.id = k) <=> (\E j \in x7' : j.id = k)
        /\ x7 = {} => x7' = {}
    BY <1>i, <1>u, JobsFitCancelled
  <1>1. PICK q : q = I!Dequeued(i)
    OBVIOUS
  <1>2. q \in Seq(I!EntryType) /\ Differ(q) /\ Ids(q) = Ids(x5.queue) \ {i} /\ Open(q) = Open(x5.queue) \ {i}
    BY <1>i, <1>u, <1>1, EntryRemoved
  <1>3. PICK b : b = IF x5.album.owner = i THEN I!Closed(x5.album) ELSE x5.album
    OBVIOUS
  <1>4. /\ b \in I!AlbumType /\ b.owner = (IF x5.album.owner = i THEN None ELSE x5.album.owner)
        /\ (b.owner # None => b.members = x5.album.members)
    <2>1. x5.album \in I!AlbumType
      BY <1>i DEF I!TypeOK, I!ActorType
    <2> QED
      BY <2>1, <1>3 DEF I!Closed, I!AlbumType
  <1>5. x5' = [x5 EXCEPT !.queue = q, !.suppressed = x5.suppressed \/ i \in Triple, !.album = b]
    BY <1>u, <1>1, <1>3
  <1>6. /\ x5' \in I!ActorType /\ x5'.queue = q /\ x5'.album = b /\ x5'.active = x5.active
        /\ x5'.claim = x5.claim /\ x5'.runtime = x5.runtime
    BY <1>i, <1>2, <1>4, <1>5 DEF I!TypeOK, I!ActorType
  <1>c. I!ClaimFits'
    BY <1>u, <1>6, ClaimKept
  <1>d. /\ x8' \in [I!Inputs -> I!DirType] /\ (i \notin I!Fetching => ~x8'[i].there /\ x8'[i].life = 0)
        /\ (i \in I!Fetching => x8'[i] = x8[i])
        /\ \A k \in I!Inputs : k # i => x8'[k] = x8[k]
    BY <1>i, <1>u, <1>h, DirsDiscarded DEF I!TypeOK
  <1>t. I!TypeOK'
    BY <1>i, <1>u, <1>j, <1>6, <1>d DEF I!TypeOK, I!Marked
  <1>m. \A k \in I!Inputs : x4'[k] = IF k = i THEN "dropped" ELSE x4[k]
    BY <1>u DEF I!Marked
  <1>q. I!Waiting' = I!Waiting \ {i} /\ I!Fetching' = I!Fetching \ {i} /\ I!IdsDiffer'
    BY <1>i, <1>2, <1>6, QueueThen
  <1>a. x4[i] = "pending" /\ i # x5.active /\ i \notin I!Cleaned
    BY <1>i, <1>u, <1>n DEF I!InboxFollows, I!DirsFit, I!DirFits
  <1>7. I!InboxFollows'
    BY <1>i, <1>u, <1>a, <1>j, <1>6, <1>m, <1>q DEF I!InboxFollows
  <1>8. I!JobsFit'
    <2> SUFFICES ASSUME NEW k \in x7' PROVE I!JobFits(k)'
      BY DEF I!JobsFit
    <2>1. PICK j \in x7 : Alike(j, k)
      BY <1>j
    <2>2. I!JobFits(j) /\ j.id = k.id /\ j.step = k.step /\ j.ok = k.ok /\ j.members = k.members /\ j.owner = k.owner
      BY <1>i, <2>1 DEF I!JobsFit, Alike
    <2>3. x8'[k.id] = x8[k.id] /\ k.id \in I!Inputs
      BY <1>i, <1>a, <1>d, <2>2 DEF I!JobFits
    <2>4. \A l \in x7' : l.id = k.id => l = k
      BY <1>j DEF Unique
    <2>5. k.id # b.owner
      BY <1>4, <1>n, <2>2, <2>3 DEF I!JobFits
    <2> QED
      BY <2>2, <2>3, <2>4, <2>5, <1>u, <1>s, <1>6, <1>m, <1>q DEF I!JobFits
  <1>9. I!AlbumFits'
    BY <1>i, <1>s, <1>4, <1>6, <1>q DEF I!AlbumFits
  <1>10. I!DirsFit'
    <2>1. ASSUME NEW k \in I!Inputs, k # i PROVE I!DirFits(k)'
      <3>1. I!DirFits(k)
        BY <2>1, <1>i DEF I!DirsFit
      <3> QED
        BY <2>1, <3>1, <1>u, <1>h, <1>s, <1>j, <1>d, <1>6, <1>m, <1>q DEF I!DirFits
    <2>2. I!DirFits(i)'
      <3>1. I!DirFits(i) /\ 0 <= x12
        BY <1>i, <1>u DEF I!DirsFit
      <3> QED
        BY <3>1, <1>u, <1>a, <1>s, <1>j, <1>d, <1>6, <1>m, <1>q DEF I!DirFits
    <2> QED
      BY <2>1, <2>2 DEF I!DirsFit
  <1>11. I!KeepsResumed
    BY <1>a, <1>d DEF I!KeepsResumed
  <1> QED
    BY <1>c, <1>t, <1>q, <1>7, <1>8, <1>9, <1>10, <1>11 DEF I!IInv

\* One item too many: the album loses its owner.
LEMMA IncomingAlbumRejected ==
    ASSUME I!IInv, NEW i \in Triple, I!AlbumRejected(i)
    PROVE  I!IInv' /\ I!KeepsResumed
  <1>i. /\ I!TypeOK /\ I!IdsDiffer /\ I!InboxFollows /\ I!JobsFit /\ I!AlbumFits /\ I!DirsFit
        /\ x5.queue \in Seq(I!EntryType) /\ Differ(x5.queue)
        /\ I!Waiting = Ids(x5.queue) /\ I!Fetching = Open(x5.queue) /\ I!Fetching \subseteq I!Waiting
        /\ I!Waiting \subseteq I!Inputs
        /\ x5.active \in I!Inputs \cup {None} /\ x5.album.owner \in I!Inputs \cup {None}
        /\ (\A k \in x7 : k.id \in I!Inputs) /\ x12 \in Nat
        /\ x5.album.owner # None => x5.album.owner \in I!Fetching
    BY IncomingParts
  <1>n. None \notin I!Inputs /\ None \notin Existing
    BY NoneIsNobody
  <1>o. PICK o : o = x5.album.owner
    OBVIOUS
  <1>u. /\ x1 = "up" /\ o # None /\ x4[i] = "new" /\ x4' = [I!Marked({i}, "dropped") EXCEPT ![o] = "dropped"]
        /\ x7' = I!CancelJobs({o}) /\ i \in I!Inputs
        /\ UNCHANGED <<x1, x2, x3, x6, x10, x11, x12>>
        /\ x8' = I!Discarded(I!Held({o})) /\ x9' = x9 \ I!Held({o})
        /\ x5' = [x5 EXCEPT !.album = I!Closed(@), !.suppressed = TRUE, !.queue = I!Dequeued(o)]
    BY <1>i, <1>o DEF I!AlbumRejected, I!Up, I!Discard, I!Inputs
  <1>f. o \in I!Fetching /\ o \in I!Inputs /\ o \in I!Waiting /\ o \notin I!Cleaned /\ x4[o] = "pending"
    BY <1>i, <1>o, <1>u DEF I!InboxFollows, I!DirsFit, I!DirFits
  <1>s. I!Cleaned' = I!Cleaned /\ \A k : I!Collected(k)' = I!Collected(k)
    BY <1>u DEF I!Cleaned, I!Collected
  <1>h. I!Held({o}) = {}
    BY <1>i, <1>f, QueueNow
  <1>j. /\ x7' \subseteq I!JobType /\ Unique(x7')
        /\ \A k \in x7' : \E j \in x7 : Alike(j, k)
        /\ \A k : (\E j \in x7 : j.id = k) <=> (\E j \in x7' : j.id = k)
        /\ x7 = {} => x7' = {}
    BY <1>i, <1>u, JobsFitCancelled
  <1>1. PICK q : q = I!Dequeued(o)
    OBVIOUS
  <1>2. q \in Seq(I!EntryType) /\ Differ(q) /\ Ids(q) = Ids(x5.queue) \ {o} /\ Open(q) = Open(x5.queue) \ {o}
    BY <1>i, <1>f, <1>1, EntryRemoved
  <1>3. PICK b : b = I!Closed(x5.album)
    OBVIOUS
  <1>4. b \in I!AlbumType /\ b.owner = None
    <2>1. x5.album \in I!AlbumType
      BY <1>i DEF I!TypeOK, I!ActorType
    <2> QED
      BY <2>1, <1>3 DEF I!Closed, I!AlbumType
  <1>5. x5' = [x5 EXCEPT !.album = b, !.suppressed = TRUE, !.queue = q]
    BY <1>u, <1>1, <1>3
  <1>6. /\ x5' \in I!ActorType /\ x5'.queue = q /\ x5'.album = b /\ x5'.active = x5.active
        /\ x5'.claim = x5.claim /\ x5'.runtime = x5.runtime
    BY <1>i, <1>2, <1>4, <1>5 DEF I!TypeOK, I!ActorType
  <1>c. I!ClaimFits'
    BY <1>u, <1>6, ClaimKept
  <1>d. x8' = x8 /\ x9' = x9
    <2>0. x8' = I!Discarded({}) /\ x9' = x9 \ {}
      BY <1>u, <1>h
    <2>1. x8 \in [I!Inputs -> I!DirType]
      BY <1>i DEF I!TypeOK
    <2>2. x8' \in [I!Inputs -> I!DirType] /\ \A k \in I!Inputs : x8'[k] = x8[k]
      BY <2>0, <2>1, DirsDiscarded
    <2> QED
      BY <2>0, <2>1, <2>2
  <1>m. x4' \in [I!Inputs -> {"unsent", "new", "pending", "submitted", "ended", "dropped"}]
        /\ \A k \in I!Inputs : x4'[k] = IF k = i \/ k = o THEN "dropped" ELSE x4[k]
    BY <1>i, <1>u, <1>f DEF I!Marked, I!TypeOK
  <1>t. I!TypeOK'
    BY <1>i, <1>u, <1>j, <1>6, <1>d, <1>m, ZenonT(60) DEF I!TypeOK
  <1>q. I!Waiting' = I!Waiting \ {o} /\ I!Fetching' = I!Fetching \ {o} /\ I!IdsDiffer'
    BY <1>i, <1>2, <1>6, QueueThen
  <1>a. /\ i # o /\ o # x5.active /\ i # x5.active /\ i \notin I!Waiting /\ ~x8[i].there /\ i \notin I!Cleaned
        /\ (\A j \in x7 : j.id # i /\ j.id # o) /\ ~x8[o].there
    <2>1. \A j \in x7 : j.id # i /\ j.id # o
      BY <1>i, <1>u, <1>o DEF I!JobsFit, I!JobFits, I!InboxFollows
    <2> QED
      BY <1>i, <1>u, <1>f, <1>n, <2>1 DEF I!InboxFollows, I!DirsFit, I!DirFits
  <1>7. I!InboxFollows'
    <2>1. I!InboxFollows /\ I!Waiting \subseteq I!Inputs /\ x5.active \in I!Inputs \cup {None}
      BY <1>i
    <2>2. \A k \in I!Waiting' : x4'[k] = "pending"
      BY <2>1, <1>a, <1>m, <1>q DEF I!InboxFollows
    <2>3. x5'.active # None => x4'[x5'.active] = "submitted"
      BY <2>1, <1>a, <1>6, <1>m DEF I!InboxFollows
    <2>4. \A k \in I!Inputs : /\ x4'[k] = "pending" => k \in I!Waiting'
                              /\ x4'[k] = "submitted" => k = x5'.active
      <3>1. \A k \in I!Inputs : /\ x4[k] = "pending" => k \in I!Waiting
                                /\ x4[k] = "submitted" => k = x5.active
        BY <2>1, <1>u DEF I!InboxFollows
      <3>2. x5'.active = x5.active /\ I!Waiting' = I!Waiting \ {o}
        BY <1>6, <1>q
      <3> QED
        BY ONLY <3>1, <3>2, <1>m, SMT
    <2> QED
      BY <2>1, <2>2, <2>3, <2>4, <1>u, <1>6, <1>q DEF I!InboxFollows
  <1>8. I!JobsFit'
    <2> SUFFICES ASSUME NEW k \in x7' PROVE I!JobFits(k)'
      BY DEF I!JobsFit
    <2>1. PICK j \in x7 : Alike(j, k)
      BY <1>j
    <2>2. I!JobFits(j) /\ j.id = k.id /\ j.step = k.step /\ j.ok = k.ok /\ j.members = k.members /\ j.owner = k.owner
      BY <1>i, <2>1 DEF I!JobsFit, Alike
    <2>3. k.id \in I!Inputs /\ k.id # i /\ k.id # o
      BY <1>i, <1>a, <2>1, <2>2
    <2>4. \A l \in x7' : l.id = k.id => l = k
      BY <1>j DEF Unique
    <2> QED
      BY <2>2, <2>3, <2>4, <1>u, <1>n, <1>s, <1>4, <1>6, <1>d, <1>m, <1>q DEF I!JobFits
  <1>9. I!AlbumFits'
    BY <1>4, <1>6 DEF I!AlbumFits
  <1>10. I!DirsFit'
    <2>1. ASSUME NEW k \in I!Inputs, k # i, k # o PROVE I!DirFits(k)'
      <3>1. I!DirFits(k)
        BY <2>1, <1>i DEF I!DirsFit
      <3> QED
        BY <2>1, <3>1, <1>u, <1>s, <1>j, <1>d, <1>6, <1>m, <1>q DEF I!DirFits
    <2>2. ASSUME NEW k \in {i, o} PROVE I!DirFits(k)'
      <3>1. I!DirFits(k) /\ k \in I!Inputs
        BY <1>i, <1>u, <1>f DEF I!DirsFit
      <3> QED
        BY <3>1, <1>u, <1>f, <1>a, <1>s, <1>d, <1>6, <1>m, <1>q DEF I!DirFits
    <2> QED
      BY <2>1, <2>2 DEF I!DirsFit
  <1>11. I!KeepsResumed
    BY <1>d DEF I!KeepsResumed
  <1> QED
    BY <1>c, <1>t, <1>q, <1>7, <1>8, <1>9, <1>10, <1>11 DEF I!IInv

\* The head of the queue becomes the task, or does not fit.
LEMMA IncomingDispatch ==
    ASSUME I!IInv, I!Dispatch
    PROVE  I!IInv' /\ I!KeepsResumed
  <1>i. /\ I!TypeOK /\ I!IdsDiffer /\ I!InboxFollows /\ I!JobsFit /\ I!AlbumFits /\ I!DirsFit
        /\ x5.queue \in Seq(I!EntryType) /\ Differ(x5.queue)
        /\ I!Waiting = Ids(x5.queue) /\ I!Fetching = Open(x5.queue) /\ I!Fetching \subseteq I!Waiting
        /\ I!Waiting \subseteq I!Inputs
        /\ x5.active \in I!Inputs \cup {None} /\ x5.album.owner \in I!Inputs \cup {None}
        /\ (\A k \in x7 : k.id \in I!Inputs) /\ x12 \in Nat
        /\ x5.album.owner # None => x5.album.owner \in I!Fetching
    BY IncomingParts
  <1>n. None \notin I!Inputs /\ None \notin Existing
    BY NoneIsNobody
  <1>h. PICK h : h = Head(x5.queue)
    OBVIOUS
  <1>o. PICK i : i = h.id
    OBVIOUS
  <1>e. PICK a \in I!EnsureRuntime :
          /\ I!HasRuntime(a) /\ ~h.preparing
          /\ \/ /\ x5' = [a EXCEPT !.queue = Tail(@), !.active = h.id]
                /\ x4' = I!Marked({h.id}, "submitted")
                /\ UNCHANGED <<x8, x9>>
             \/ /\ x5' = [a EXCEPT !.queue = Tail(@)]
                /\ x4' = I!Marked({h.id}, "dropped")
                /\ I!Discard({h.id})
    BY <1>h DEF I!Dispatch
  <1>r. /\ a \in I!ActorType /\ a.queue = x5.queue /\ a.album = x5.album /\ a.active = x5.active
        /\ a.claim \in {None, x2.session} /\ a.claim # None /\ x2.session # None
    BY <1>e, EnsuredFits DEF I!HasRuntime
  <1>u. /\ x1 = "up" /\ x5.queue # <<>> /\ x5.active = None /\ x2.session # None /\ ~h.preparing
        /\ UNCHANGED <<x1, x2, x3, x6, x7, x10, x11, x12>>
    BY <1>e, <1>r DEF I!Dispatch, I!Up, I!CanDispatch
  <1>p. PICK q : q = Tail(x5.queue)
    OBVIOUS
  <1>1. /\ q \in Seq(I!EntryType) /\ Differ(q) /\ i \in I!Waiting /\ i \notin I!Fetching /\ i \in I!Inputs
        /\ Ids(q) = I!Waiting \ {i} /\ Open(q) = I!Fetching \ {i}
    <2>1. /\ q \in Seq(I!EntryType) /\ Differ(q) /\ h \in I!EntryType /\ h.id \in Ids(x5.queue)
          /\ (~h.preparing => h.id \notin Open(x5.queue))
          /\ Ids(q) = Ids(x5.queue) \ {h.id} /\ Open(q) = Open(x5.queue) \ {h.id}
      BY <1>i, <1>h, <1>u, <1>p, EntryTaken
    <2> QED
      BY <2>1, <1>i, <1>o, <1>u
  <1>a. x4[i] = "pending" /\ i # x5.album.owner /\ i \notin I!Cleaned /\ (\A j \in x7 : j.id # i)
        /\ x8[i].there /\ i \in x9 /\ x8[i].owner # None /\ I!Collected(i) \subseteq x8[i].members
    BY <1>i, <1>1, <1>n DEF I!InboxFollows, I!DirsFit, I!DirFits, I!JobsFit, I!JobFits
  <1>s. I!Cleaned' = I!Cleaned /\ \A k : I!Collected(k)' = I!Collected(k)
    BY <1>u DEF I!Cleaned, I!Collected
  <1>2. CASE /\ x5' = [a EXCEPT !.queue = Tail(@), !.active = h.id]
             /\ x4' = I!Marked({h.id}, "submitted")
             /\ UNCHANGED <<x8, x9>>
    <2>1. x5' = [a EXCEPT !.queue = q, !.active = i] /\ x4' = I!Marked({i}, "submitted") /\ UNCHANGED <<x8, x9>>
      BY <1>2, <1>p, <1>o, <1>r
    <2>6. /\ x5' \in I!ActorType /\ x5'.queue = q /\ x5'.album = x5.album /\ x5'.active = i
          /\ x5'.claim = a.claim
      BY <1>r, <1>1, <2>1 DEF I!ActorType
    <2>f. I!ClaimFits'
      BY <1>r, <1>u, <2>6 DEF I!ClaimFits
    <2>t. I!TypeOK'
      BY <1>i, <1>u, <2>1, <2>6 DEF I!TypeOK, I!Marked
    <2>m. \A k \in I!Inputs : x4'[k] = IF k = i THEN "submitted" ELSE x4[k]
      BY <2>1 DEF I!Marked
    <2>q. I!Waiting' = I!Waiting \ {i} /\ I!Fetching' = I!Fetching \ {i} /\ I!IdsDiffer'
      BY <1>1, <2>6, QueueThen
    <2>7. I!InboxFollows'
      <3>1. I!InboxFollows /\ I!Waiting \subseteq I!Inputs
        BY <1>i
      <3>2. \A k \in I!Waiting' : x4'[k] = "pending"
        BY <3>1, <1>1, <2>m, <2>q DEF I!InboxFollows
      <3>3. \A k \in I!Inputs : /\ x4'[k] = "pending" => k \in I!Waiting'
                                /\ x4'[k] = "submitted" => k = x5'.active
        BY <3>1, <1>u, <1>n, <1>1, <2>6, <2>m, <2>q DEF I!InboxFollows
      <3> QED
        BY <3>1, <3>2, <3>3, <1>u, <1>1, <2>6, <2>m DEF I!InboxFollows
    <2>8. I!JobsFit'
      <3> SUFFICES ASSUME NEW k \in x7 PROVE I!JobFits(k)'
        BY <1>u DEF I!JobsFit
      <3>1. I!JobFits(k) /\ k.id # i /\ k.id \in I!Inputs
        BY <1>i, <1>a DEF I!JobsFit
      <3> QED
        BY <3>1, <1>u, <1>s, <2>1, <2>6, <2>m, <2>q DEF I!JobFits
    <2>9. I!AlbumFits'
      BY <1>i, <1>s, <1>a, <2>6, <2>q DEF I!AlbumFits
    <2>10. I!DirsFit'
      <3>1. ASSUME NEW k \in I!Inputs, k # i PROVE I!DirFits(k)'
        <4>1. I!DirFits(k)
          BY <3>1, <1>i DEF I!DirsFit
        <4> QED
          BY <3>1, <4>1, <1>u, <1>s, <2>1, <2>6, <2>m, <2>q DEF I!DirFits
      <3>2. I!DirFits(i)'
        <4>1. I!DirFits(i)
          BY <1>i, <1>1 DEF I!DirsFit
        <4> QED
          BY <4>1, <1>u, <1>a, <1>1, <1>s, <2>1, <2>6, <2>m, <2>q DEF I!DirFits
      <3> QED
        BY <3>1, <3>2 DEF I!DirsFit
    <2>11. I!KeepsResumed
      BY <2>1 DEF I!KeepsResumed
    <2> QED
      BY <2>f, <2>t, <2>q, <2>7, <2>8, <2>9, <2>10, <2>11 DEF I!IInv
  <1>3. CASE /\ x5' = [a EXCEPT !.queue = Tail(@)]
             /\ x4' = I!Marked({h.id}, "dropped")
             /\ I!Discard({h.id})
    <2>1. /\ x5' = [a EXCEPT !.queue = q] /\ x4' = I!Marked({i}, "dropped")
          /\ x8' = I!Discarded({i}) /\ x9' = x9 \ {i}
      BY <1>3, <1>p, <1>o, <1>r DEF I!Discard
    <2>6. /\ x5' \in I!ActorType /\ x5'.queue = q /\ x5'.album = x5.album /\ x5'.active = x5.active
          /\ x5'.claim = a.claim
      BY <1>r, <1>1, <2>1 DEF I!ActorType
    <2>f. I!ClaimFits'
      BY <1>r, <1>u, <2>6 DEF I!ClaimFits
    <2>d. /\ x8' \in [I!Inputs -> I!DirType] /\ ~x8'[i].there /\ x8'[i].life = 0
          /\ \A k \in I!Inputs : k # i => x8'[k] = x8[k]
      BY <1>i, <1>1, <2>1, DirsDiscarded DEF I!TypeOK
    <2>t. I!TypeOK'
      BY <1>i, <1>u, <2>1, <2>6, <2>d DEF I!TypeOK, I!Marked
    <2>m. \A k \in I!Inputs : x4'[k] = IF k = i THEN "dropped" ELSE x4[k]
      BY <2>1 DEF I!Marked
    <2>q. I!Waiting' = I!Waiting \ {i} /\ I!Fetching' = I!Fetching \ {i} /\ I!IdsDiffer'
      BY <1>1, <2>6, QueueThen
    <2>7. I!InboxFollows'
      BY <1>i, <1>u, <1>1, <2>6, <2>m, <2>q DEF I!InboxFollows
    <2>8. I!JobsFit'
      <3> SUFFICES ASSUME NEW k \in x7 PROVE I!JobFits(k)'
        BY <1>u DEF I!JobsFit
      <3>1. I!JobFits(k) /\ k.id # i /\ k.id \in I!Inputs
        BY <1>i, <1>a DEF I!JobsFit
      <3> QED
        BY <3>1, <1>u, <1>s, <2>d, <2>6, <2>m, <2>q DEF I!JobFits
    <2>9. I!AlbumFits'
      BY <1>i, <1>s, <1>a, <2>6, <2>q DEF I!AlbumFits
    <2>10. I!DirsFit'
      <3>1. ASSUME NEW k \in I!Inputs, k # i PROVE I!DirFits(k)'
        <4>1. I!DirFits(k)
          BY <3>1, <1>i DEF I!DirsFit
        <4> QED
          BY <3>1, <4>1, <1>u, <1>s, <2>1, <2>d, <2>6, <2>m, <2>q DEF I!DirFits
      <3>2. I!DirFits(i)'
        <4>1. 0 <= x12 /\ i # x5.active
          BY <1>i, <1>u, <1>n, <1>1
        <4> QED
          BY <4>1, <1>u, <1>a, <1>1, <1>s, <2>d, <2>6, <2>m, <2>q DEF I!DirFits
      <3> QED
        BY <3>1, <3>2 DEF I!DirsFit
    <2>11. I!KeepsResumed
      BY <1>a, <2>d DEF I!KeepsResumed
    <2> QED
      BY <2>f, <2>t, <2>q, <2>7, <2>8, <2>9, <2>10, <2>11 DEF I!IInv
  <1> QED
    BY <1>2, <1>3, <1>e

\* A task that ends, with OMP or without, leaves its directory, whose age starts again.
LEMMA TaskGoes ==
    ASSUME I!IInv, x1 = "up", x5.active # None, x4' = I!Marked({x5.active}, "ended"),
           NEW touched \in BOOLEAN, I!Touched({x5.active}, touched), x5' \in I!ActorType,
           x5'.queue = x5.queue, x5'.album = x5.album, x5'.active = None, I!ClaimFits',
           UNCHANGED <<x1, x2, x3, x7, x10, x11, x12>>
    PROVE  I!IInv' /\ I!KeepsResumed
  <1>i. /\ I!TypeOK /\ I!IdsDiffer /\ I!InboxFollows /\ I!JobsFit /\ I!AlbumFits /\ I!DirsFit
        /\ x5.queue \in Seq(I!EntryType) /\ Differ(x5.queue)
        /\ I!Waiting = Ids(x5.queue) /\ I!Fetching = Open(x5.queue) /\ I!Fetching \subseteq I!Waiting
        /\ I!Waiting \subseteq I!Inputs
        /\ x5.active \in I!Inputs \cup {None} /\ x5.album.owner \in I!Inputs \cup {None}
        /\ (\A k \in x7 : k.id \in I!Inputs) /\ x12 \in Nat
        /\ x5.album.owner # None => x5.album.owner \in I!Fetching
    BY IncomingParts
  <1>n. None \notin I!Inputs /\ None \notin Existing
    BY NoneIsNobody
  <1>o. PICK i : i = x5.active
    OBVIOUS
  <1>u. /\ x1 = "up" /\ i # None /\ i \in I!Inputs /\ x4' = I!Marked({i}, "ended")
        /\ UNCHANGED <<x1, x2, x3, x7, x10, x11, x12>>
    BY <1>i, <1>o
  <1>r. I!Touched({i}, touched)
    BY <1>o
  <1>d. /\ x8' \in [I!Inputs -> I!DirType] /\ x9' \subseteq I!Inputs
        /\ \A k \in I!Inputs : k # i => x8'[k] = x8[k] /\ (k \in x9 => k \in x9')
        /\ x8'[i].there = x8[i].there /\ x8'[i].owner = x8[i].owner /\ x8'[i].life = x8[i].life
    <2>1. x8 \in [I!Inputs -> I!DirType] /\ x9 \subseteq I!Inputs
      BY <1>i DEF I!TypeOK
    <2>2. CASE touched
      <3>1. /\ x8' = [k \in I!Inputs |-> IF k \in {i} /\ x8[k].there THEN [x8[k] EXCEPT !.old = FALSE] ELSE x8[k]]
            /\ x9' = x9 \ {i}
        BY <1>r, <2>2 DEF I!Touched
      <3>2. PICK e \in I!DirType : e = x8[i]
        BY <1>u, <2>1
      <3>3. PICK b : b = [e EXCEPT !.old = FALSE]
        OBVIOUS
      <3>4. b \in I!DirType /\ b.there = x8[i].there /\ b.owner = x8[i].owner /\ b.life = x8[i].life
        BY <3>2, <3>3 DEF I!DirType
      <3>5. x8' = [k \in I!Inputs |-> IF k \in {i} /\ x8[k].there THEN (IF k = i THEN b ELSE [x8[k] EXCEPT !.old = FALSE])
                                      ELSE x8[k]]
        BY <3>1, <3>2, <3>3
      <3>6. \A k \in I!Inputs : x8'[k] = IF k = i /\ x8[k].there THEN b ELSE x8[k]
        BY <3>5
      <3>7. x8' = [k \in I!Inputs |-> IF k = i /\ x8[k].there THEN b ELSE x8[k]]
        BY <3>5
      <3> QED
        BY <2>1, <3>1, <3>4, <3>6, <3>7, <1>u
    <2>3. CASE ~touched
      BY <1>r, <2>1, <2>3 DEF I!Touched
    <2> QED
      BY <2>2, <2>3
  <1>s. I!Cleaned' = I!Cleaned /\ \A k : I!Collected(k)' = I!Collected(k)
    BY <1>u DEF I!Cleaned, I!Collected
  <1>6. x5' \in I!ActorType /\ x5'.queue = x5.queue /\ x5'.album = x5.album /\ x5'.active = None
    OBVIOUS
  <1>t. I!TypeOK'
    BY <1>i, <1>u, <1>6, <1>d DEF I!TypeOK, I!Marked
  <1>m. \A k \in I!Inputs : x4'[k] = IF k = i THEN "ended" ELSE x4[k]
    BY <1>u DEF I!Marked
  <1>q. I!Waiting' = I!Waiting /\ I!Fetching' = I!Fetching /\ I!IdsDiffer'
    BY <1>i, <1>6, QueueKept
  <1>a. x4[i] = "submitted" /\ i \notin I!Waiting /\ (\A j \in x7 : j.id # i) /\ i \notin I!Cleaned
        /\ x8[i].there /\ x8[i].owner # None
    BY <1>i, <1>o, <1>u DEF I!InboxFollows, I!JobsFit, I!JobFits, I!DirsFit, I!DirFits
  <1>7. I!InboxFollows'
    <2>1. I!InboxFollows /\ I!Waiting \subseteq I!Inputs
      BY <1>i
    <2>2. \A k \in I!Waiting' : x4'[k] = "pending"
      BY <2>1, <1>a, <1>m, <1>q DEF I!InboxFollows
    <2>3. \A k \in I!Inputs : /\ x4'[k] = "pending" => k \in I!Waiting'
                              /\ x4'[k] # "submitted"
      BY <2>1, <1>o, <1>u, <1>a, <1>m, <1>q DEF I!InboxFollows
    <2> QED
      BY <2>1, <2>2, <2>3, <1>u, <1>6, <1>q DEF I!InboxFollows
  <1>8. I!JobsFit'
    <2> SUFFICES ASSUME NEW k \in x7 PROVE I!JobFits(k)'
      BY <1>u DEF I!JobsFit
    <2>1. I!JobFits(k) /\ k.id # i /\ k.id \in I!Inputs
      BY <1>i, <1>a DEF I!JobsFit
    <2> QED
      BY <2>1, <1>u, <1>s, <1>d, <1>6, <1>m, <1>q DEF I!JobFits
  <1>9. I!AlbumFits'
    BY <1>i, <1>s, <1>6, <1>q DEF I!AlbumFits
  <1>10. I!DirsFit'
    <2>1. ASSUME NEW k \in I!Inputs, k # i PROVE I!DirFits(k)'
      <3>1. I!DirFits(k)
        BY <2>1, <1>i DEF I!DirsFit
      <3> QED
        BY <2>1, <3>1, <1>o, <1>n, <1>u, <1>s, <1>d, <1>6, <1>m, <1>q DEF I!DirFits
    <2>2. I!DirFits(i)'
      <3>1. I!DirFits(i) /\ i \notin I!Fetching
        BY <1>i, <1>u, <1>a DEF I!DirsFit
      <3> QED
        BY <3>1, <1>u, <1>a, <1>s, <1>d, <1>6, <1>m, <1>q DEF I!DirFits
    <2> QED
      BY <2>1, <2>2 DEF I!DirsFit
  <1>11. I!KeepsResumed
    BY <1>d DEF I!KeepsResumed
  <1> QED
    BY <1>t, <1>q, <1>7, <1>8, <1>9, <1>10, <1>11 DEF I!IInv

\* The task ends.
LEMMA IncomingTaskEnds ==
    ASSUME I!IInv, I!TaskEnds
    PROVE  I!IInv' /\ I!KeepsResumed
  <1>i. x5 \in I!ActorType
    BY DEF I!IInv, I!TypeOK
  <1>u. /\ x1 = "up" /\ x5.active # None /\ x4' = I!Marked({x5.active}, "ended")
        /\ x5' = [x5 EXCEPT !.active = None] /\ UNCHANGED <<x1, x2, x3, x7, x10, x11, x12>>
    BY DEF I!TaskEnds, I!Up
  <1>r. PICK touched \in BOOLEAN : I!Touched({x5.active}, touched)
    BY DEF I!TaskEnds
  <1>1. /\ x5' \in I!ActorType /\ x5'.queue = x5.queue /\ x5'.album = x5.album /\ x5'.active = None
        /\ x5'.claim = x5.claim /\ x5'.runtime = x5.runtime
    BY <1>i, <1>u DEF I!ActorType
  <1>2. I!ClaimFits'
    BY <1>u, <1>1, ClaimKept
  <1> QED
    BY <1>u, <1>r, <1>1, <1>2, TaskGoes

\* OMP is released, and a task with it; the claim stays.
LEMMA IncomingRuntimeReleased ==
    ASSUME I!IInv, I!RuntimeReleased
    PROVE  I!IInv' /\ I!KeepsResumed
  <1>i. /\ x5 \in I!ActorType /\ x4 \in [I!Inputs -> {"unsent", "new", "pending", "submitted", "ended", "dropped"}]
        /\ x8 \in [I!Inputs -> I!DirType] /\ x9 \subseteq I!Inputs /\ x5.claim \in {None, x2.session}
    BY DEF I!IInv, I!TypeOK, I!ClaimFits
  <1>n. None \notin I!Inputs
    BY NoneIsNobody
  <1>u. /\ x1 = "up" /\ x4' = I!Marked({x5.active}, "ended")
        /\ x5' = [x5 EXCEPT !.active = None, !.runtime = "released"]
        /\ UNCHANGED <<x1, x2, x3, x7, x10, x11, x12>>
    BY DEF I!RuntimeReleased, I!LosesRuntime, I!Up
  <1>r. PICK touched \in BOOLEAN : I!Touched({x5.active}, touched)
    BY DEF I!RuntimeReleased
  <1>1. /\ x5' \in I!ActorType /\ x5'.queue = x5.queue /\ x5'.album = x5.album /\ x5'.active = None
        /\ x5'.claim = x5.claim /\ x5'.runtime = "released"
    BY <1>i, <1>u DEF I!ActorType
  <1>2. I!ClaimFits'
    BY <1>i, <1>u, <1>1 DEF I!ClaimFits, I!Connected
  <1>3. CASE x5.active # None
    BY <1>u, <1>r, <1>1, <1>2, <1>3, TaskGoes
  <1>4. CASE x5.active = None
    <2>1. x4' = x4
      BY <1>i, <1>n, <1>u, <1>4 DEF I!Marked
    <2>2. x8' = x8 /\ x9' = x9
      BY <1>i, <1>n, <1>r, <1>4 DEF I!Touched
    <2> QED
      BY <1>u, <1>1, <1>2, <1>4, <2>1, <2>2, ClaimMoves
  <1> QED
    BY <1>3, <1>4

\* What a worker leaves behind.
LEMMA TornDown ==
    ASSUME I!IInv, NEW c \in Existing \cup {None}, I!Teardown(c)
    PROVE  /\ I!KeepsResumed /\ I!IdsDiffer' /\ I!Waiting' = {} /\ I!Fetching' = {} /\ x5' \in I!ActorType
           /\ x5'.active = None /\ x5'.album.owner = None /\ x5'.claim = c /\ x5'.runtime = "released"
           /\ x7' \subseteq I!JobType /\ Unique(x7') /\ x9' \subseteq I!Inputs
           /\ \A k \in x7' : \E j \in x7 : Alike(j, k)
           /\ \A k : (\E j \in x7 : j.id = k) <=> (\E j \in x7' : j.id = k)
           /\ x8' \in [I!Inputs -> I!DirType]
           /\ x4' \in [I!Inputs -> {"unsent", "new", "pending", "submitted", "ended", "dropped"}]
           /\ \A k \in I!Inputs :
                /\ x4'[k] = IF k \in I!Waiting THEN "dropped" ELSE IF k = x5.active THEN "ended" ELSE x4[k]
                /\ k \in I!Waiting \ I!Fetching => ~x8'[k].there /\ x8'[k].life = 0
                /\ k \notin I!Waiting \ I!Fetching => x8'[k].there = x8[k].there /\ x8'[k].owner = x8[k].owner
                                                      /\ x8'[k].life = x8[k].life
                /\ k \notin I!Waiting \ I!Fetching /\ k # x5.active => x8'[k] = x8[k]
  <1>i. /\ I!TypeOK /\ I!IdsDiffer /\ I!InboxFollows /\ I!JobsFit /\ I!AlbumFits /\ I!DirsFit
        /\ x5.queue \in Seq(I!EntryType) /\ Differ(x5.queue)
        /\ I!Waiting = Ids(x5.queue) /\ I!Fetching = Open(x5.queue) /\ I!Fetching \subseteq I!Waiting
        /\ I!Waiting \subseteq I!Inputs
        /\ x5.active \in I!Inputs \cup {None} /\ x5.album.owner \in I!Inputs \cup {None}
        /\ (\A k \in x7 : k.id \in I!Inputs) /\ x12 \in Nat
        /\ x5.album.owner # None => x5.album.owner \in I!Fetching
    BY IncomingParts
  <1>n. None \notin I!Inputs /\ None \notin Existing
    BY NoneIsNobody
  <1>w. {i \in I!Inputs : I!Queued(i)} = I!Waiting
    BY DEF I!Waiting
  <1>h. PICK held : held = I!Held(I!Waiting)
    OBVIOUS
  <1>a. held = I!Waiting \ I!Fetching
    BY <1>i, <1>h, QueueNow
  <1>u. /\ x4' = [i \in I!Inputs |-> IF i \in I!Waiting THEN "dropped"
                                     ELSE IF i = x5.active THEN "ended" ELSE x4[i]]
        /\ x7' = I!CancelJobs(I!Waiting)
        /\ x8' = [i \in I!Inputs |-> IF i = x5.active /\ x8[i].there THEN [x8[i] EXCEPT !.old = FALSE]
                                     ELSE I!Discarded(held)[i]]
        /\ x9' = x9 \ (held \cup {x5.active})
        /\ x5' = [I!NewActor EXCEPT !.suppressed = x5.suppressed \/ I!Waiting \cap Triple # {},
                                    !.album.version = x5.album.version, !.claim = c]
    BY <1>w, <1>h DEF I!Teardown
  <1>1. /\ x5' \in I!ActorType /\ x5'.queue = <<>> /\ x5'.active = None /\ x5'.album.owner = None
        /\ x5'.claim = c /\ x5'.runtime = "released"
    <2>1. x5.album.version \in Nat
      BY <1>i DEF I!TypeOK, I!ActorType, I!AlbumType
    <2>2. PICK b : b = [owner |-> None, members |-> {}, version |-> x5.album.version]
      OBVIOUS
    <2>3. b \in I!AlbumType /\ b.owner = None
      BY <2>1, <2>2 DEF I!AlbumType
    <2>s. PICK f \in BOOLEAN : f = (x5.suppressed \/ I!Waiting \cap Triple # {})
      BY <1>i DEF I!TypeOK, I!ActorType
    <2>4. x5' = [queue |-> <<>>, album |-> b, suppressed |-> f, active |-> None, claim |-> c, runtime |-> "released"]
      BY <2>2, <2>s, <1>u DEF I!NewActor, I!NoAlbum
    <2> QED
      BY <2>3, <2>4 DEF I!ActorType
  <1>2. I!IdsDiffer' /\ I!Waiting' = {} /\ I!Fetching' = {}
    BY <1>1, NoEntries, QueueThen
  <1>3. /\ x7' \subseteq I!JobType /\ Unique(x7')
        /\ \A k \in x7' : \E j \in x7 : Alike(j, k)
        /\ \A k : (\E j \in x7 : j.id = k) <=> (\E j \in x7' : j.id = k)
    BY <1>i, <1>u, JobsFitCancelled
  <1>4. /\ x4' \in [I!Inputs -> {"unsent", "new", "pending", "submitted", "ended", "dropped"}]
        /\ \A k \in I!Inputs : x4'[k] = IF k \in I!Waiting THEN "dropped" ELSE IF k = x5.active THEN "ended" ELSE x4[k]
    BY <1>i, <1>u DEF I!TypeOK
  <1>5. x8 \in [I!Inputs -> I!DirType] /\ x9 \subseteq I!Inputs
    BY <1>i DEF I!TypeOK
  <1>6. PICK d : d = I!Discarded(held)
    OBVIOUS
  <1>7. /\ d \in [I!Inputs -> I!DirType]
        /\ \A i \in I!Inputs : i \notin held => d[i] = x8[i]
        /\ \A i \in I!Inputs : i \in held => ~d[i].there /\ d[i].life = 0
    BY <1>5, <1>6, DirsDiscarded
  <1>8. x5.active \notin held
    BY <1>i, <1>a, <1>n DEF I!InboxFollows
  <1>9. ASSUME NEW k \in I!Inputs
        PROVE  /\ x8'[k] \in I!DirType
               /\ k = x5.active /\ x8[k].there => x8'[k].there /\ x8'[k].owner = x8[k].owner /\ x8'[k].life = x8[k].life
               /\ ~(k = x5.active /\ x8[k].there) => x8'[k] = d[k]
    <2>1. x8'[k] = IF k = x5.active /\ x8[k].there THEN [x8[k] EXCEPT !.old = FALSE] ELSE d[k]
      BY <1>u, <1>6
    <2>2. x8[k] \in I!DirType /\ d[k] \in I!DirType
      BY <1>5, <1>7
    <2>3. CASE k = x5.active /\ x8[k].there
      <3>1. PICK e \in I!DirType : e = x8[k]
        BY <2>2
      <3>2. x8'[k] = [e EXCEPT !.old = FALSE]
        BY <2>1, <2>3, <3>1
      <3> QED
        BY <2>3, <3>1, <3>2, ZenonT(60) DEF I!DirType
    <2>4. CASE ~(k = x5.active /\ x8[k].there)
      BY <2>1, <2>2, <2>4
    <2> QED
      BY <2>3, <2>4
  <1>10. x8' \in [I!Inputs -> I!DirType]
    <2>1. DOMAIN x8' = I!Inputs /\ x8' = [k \in I!Inputs |-> x8'[k]]
      BY <1>u
    <2> QED
      BY <2>1, <1>9
  <1>11. ASSUME NEW k \in I!Inputs
         PROVE  /\ k \in I!Waiting \ I!Fetching => ~x8'[k].there /\ x8'[k].life = 0
                /\ k \notin I!Waiting \ I!Fetching => x8'[k].there = x8[k].there /\ x8'[k].owner = x8[k].owner
                                                      /\ x8'[k].life = x8[k].life
                /\ k \notin I!Waiting \ I!Fetching /\ k # x5.active => x8'[k] = x8[k]
    <2>1. k \in held <=> k \in I!Waiting \ I!Fetching
      BY <1>a
    <2>2. CASE k \in held
      BY <2>1, <2>2, <1>7, <1>8, <1>9
    <2>3. CASE k \notin held
      <3>1. CASE k = x5.active /\ x8[k].there
        BY <3>1, <2>1, <2>3, <1>5, <1>9 DEF I!DirType
      <3>2. CASE ~(k = x5.active /\ x8[k].there)
        BY <3>2, <2>1, <2>3, <1>7, <1>9
      <3> QED
        BY <3>1, <3>2
    <2> QED
      BY <2>2, <2>3
  <1>12. I!KeepsResumed
    <2> SUFFICES ASSUME NEW k \in I!Inputs, x8[k].there, ~x8'[k].there PROVE x4[k] # "ended"
      BY DEF I!KeepsResumed
    <2>1. k \in I!Waiting
      BY <1>11
    <2> QED
      BY <2>1, <1>i DEF I!InboxFollows
  <1>13. x9' \subseteq I!Inputs
    BY <1>5, <1>u
  <1> QED
    BY <1>1, <1>2, <1>3, <1>4, <1>10, <1>11, <1>12, <1>13

\* A torn down worker fits what is left.
LEMMA TornDownFits ==
    ASSUME I!IInv, NEW c \in Existing \cup {None}, I!Teardown(c), x1 = "up", x10' \in {x10, I!Resting}, x11' = x11, x12' \in Nat, x12' >= x12
    PROVE  /\ I!JobsFit' /\ I!AlbumFits'
           /\ x1' # "down" => I!DirsFit'
           /\ \A i \in I!Waiting' : x4'[i] = "pending"
           /\ \A i \in I!Inputs : x4'[i] # "pending" /\ x4'[i] # "submitted"
  <1>i. /\ I!TypeOK /\ I!IdsDiffer /\ I!InboxFollows /\ I!JobsFit /\ I!AlbumFits /\ I!DirsFit
        /\ x5.queue \in Seq(I!EntryType) /\ Differ(x5.queue)
        /\ I!Waiting = Ids(x5.queue) /\ I!Fetching = Open(x5.queue) /\ I!Fetching \subseteq I!Waiting
        /\ I!Waiting \subseteq I!Inputs
        /\ x5.active \in I!Inputs \cup {None} /\ x5.album.owner \in I!Inputs \cup {None}
        /\ (\A k \in x7 : k.id \in I!Inputs) /\ x12 \in Nat
        /\ x5.album.owner # None => x5.album.owner \in I!Fetching
    BY IncomingParts
  <1>n. None \notin I!Inputs /\ None \notin Existing
    BY NoneIsNobody
  <1>1. /\ I!Waiting' = {} /\ I!Fetching' = {}
        /\ x5'.active = None /\ x5'.album.owner = None
        /\ x7' \subseteq I!JobType /\ Unique(x7')
        /\ \A k \in x7' : \E j \in x7 : Alike(j, k)
        /\ \A k : (\E j \in x7 : j.id = k) <=> (\E j \in x7' : j.id = k)
        /\ \A k \in I!Inputs :
             /\ x4'[k] = IF k \in I!Waiting THEN "dropped" ELSE IF k = x5.active THEN "ended" ELSE x4[k]
             /\ k \in I!Waiting \ I!Fetching => ~x8'[k].there /\ x8'[k].life = 0
             /\ k \notin I!Waiting \ I!Fetching => x8'[k].there = x8[k].there /\ x8'[k].owner = x8[k].owner
                                                   /\ x8'[k].life = x8[k].life
             /\ k \notin I!Waiting \ I!Fetching /\ k # x5.active => x8'[k] = x8[k]
    BY TornDown
  <1>s. I!Cleaned' \subseteq I!Cleaned \cup {None} /\ \A k : I!Collected(k)' = I!Collected(k)
    BY DEF I!Cleaned, I!Collected, I!Resting
  <1>l. ASSUME NEW k \in I!Inputs PROVE x8[k].life \in Nat
    BY <1>l, <1>i DEF I!TypeOK, I!DirType
  <1>2. \A i \in I!Inputs : x4'[i] # "pending" /\ x4'[i] # "submitted"
    BY <1>i, <1>1 DEF I!InboxFollows
  <1>3. I!JobsFit'
    <2> SUFFICES ASSUME NEW k \in x7' PROVE I!JobFits(k)'
      BY DEF I!JobsFit
    <2>1. PICK j \in x7 : Alike(j, k)
      BY <1>1
    <2>2. I!JobFits(j) /\ j.id = k.id /\ j.step = k.step /\ j.ok = k.ok /\ j.members = k.members /\ j.owner = k.owner
      BY <1>i, <2>1 DEF I!JobsFit, Alike
    <2>3. k.id \in I!Inputs /\ k.id # None /\ k.id \notin I!Cleaned'
      BY <1>i, <1>n, <1>s, <2>1, <2>2 DEF I!JobFits
    <2>4. \A l \in x7' : l.id = k.id => l = k
      BY <1>1 DEF Unique
    <2>5. (k.id \in I!Fetching \/ x4[k.id] = "dropped") /\ k.id # x5.active
      BY <1>i, <2>2, <2>3 DEF I!JobFits, I!InboxFollows
    <2>6. k.id \notin I!Waiting \ I!Fetching /\ x4'[k.id] = "dropped"
      BY <1>1, <1>i, <2>3, <2>5 DEF I!InboxFollows
    <2>7. x8'[k.id] = x8[k.id]
      BY <1>1, <2>3, <2>5, <2>6
    <2> QED
      BY <2>2, <2>3, <2>4, <2>6, <2>7, <1>1, <1>s DEF I!JobFits
  <1>4. I!AlbumFits'
    BY <1>1 DEF I!AlbumFits
  <1>5. ASSUME x1' # "down" PROVE I!DirsFit'
    <2> SUFFICES ASSUME NEW k \in I!Inputs PROVE I!DirFits(k)'
      BY DEF I!DirsFit
    <2>1. I!DirFits(k) /\ k # None
      BY <1>i, <1>n DEF I!DirsFit
    <2>2. CASE k \in I!Waiting \ I!Fetching
      <3>1. x4'[k] = "dropped" /\ ~x8'[k].there /\ x8'[k].life = 0
        BY <2>2, <1>1
      <3> QED
        BY <2>1, <3>1, <1>1, <1>5 DEF I!DirFits
    <2>3. CASE k \in I!Fetching
      <3>1. x4'[k] = "dropped" /\ x8'[k].there = x8[k].there /\ x8'[k].life = x8[k].life
        BY <2>3, <1>1, <1>i
      <3> QED
        BY <2>1, <2>3, <3>1, <1>1, <1>i, <1>l, <1>5 DEF I!DirFits
    <2>4. CASE k \notin I!Waiting /\ k = x5.active
      <3>1. x4'[k] = "ended" /\ x8'[k].owner = x8[k].owner /\ x8'[k].life = x8[k].life
        BY <2>4, <1>1
      <3> QED
        BY <2>1, <2>4, <3>1, <1>1, <1>i, <1>l, <1>5 DEF I!DirFits
    <2>5. CASE k \notin I!Waiting /\ k # x5.active
      <3>1. x4'[k] = x4[k] /\ x8'[k] = x8[k]
        BY <2>5, <1>1
      <3>2. x4[k] # "pending"
        BY <2>5, <1>i DEF I!InboxFollows
      <3> QED
        BY <2>1, <2>5, <3>1, <3>2, <1>1, <1>s, <1>i, <1>l, <1>5 DEF I!DirFits
    <2> QED
      BY <2>2, <2>3, <2>4, <2>5, <1>i
  <1> QED
    BY <1>1, <1>2, <1>3, <1>4, <1>5

\* The conversation is closed.
LEMMA IncomingClose ==
    ASSUME I!IInv, I!Close
    PROVE  I!IInv' /\ I!KeepsResumed
  <1>i. /\ I!TypeOK /\ I!IdsDiffer /\ I!InboxFollows /\ I!JobsFit /\ I!AlbumFits /\ I!DirsFit
        /\ x5.queue \in Seq(I!EntryType) /\ Differ(x5.queue)
        /\ I!Waiting = Ids(x5.queue) /\ I!Fetching = Open(x5.queue) /\ I!Fetching \subseteq I!Waiting
        /\ I!Waiting \subseteq I!Inputs
        /\ x5.active \in I!Inputs \cup {None} /\ x5.album.owner \in I!Inputs \cup {None}
        /\ (\A k \in x7 : k.id \in I!Inputs) /\ x12 \in Nat
        /\ x5.album.owner # None => x5.album.owner \in I!Fetching
    BY IncomingParts
  <1>n. None \notin I!Inputs /\ None \notin Existing
    BY NoneIsNobody
  <1>u. /\ x1 = "up" /\ I!Teardown(None) /\ x2' = [x2 EXCEPT !.session = None]
        /\ UNCHANGED <<x1, x3, x6, x10, x11, x12>>
    BY DEF I!Close, I!Up
  <1>1. /\ I!KeepsResumed /\ I!IdsDiffer' /\ I!Waiting' = {} /\ I!Fetching' = {} /\ x5' \in I!ActorType
        /\ x5'.active = None /\ x5'.album.owner = None /\ x5'.claim = None /\ x5'.runtime = "released"
        /\ x7' \subseteq I!JobType /\ x9' \subseteq I!Inputs
        /\ x8' \in [I!Inputs -> I!DirType]
        /\ x4' \in [I!Inputs -> {"unsent", "new", "pending", "submitted", "ended", "dropped"}]
    BY <1>u, TornDown
  <1>2. /\ I!JobsFit' /\ I!AlbumFits' /\ I!DirsFit'
        /\ \A i \in I!Inputs : x4'[i] # "pending" /\ x4'[i] # "submitted"
    BY <1>i, <1>u, TornDownFits
  <1>t. I!TypeOK'
    BY <1>i, <1>u, <1>1 DEF I!TypeOK
  <1>3. I!InboxFollows'
    BY <1>i, <1>u, <1>1, <1>2 DEF I!InboxFollows
  <1>4. I!ClaimFits'
    BY <1>1 DEF I!ClaimFits, I!Connected
  <1> QED
    BY <1>4, <1>1, <1>2, <1>t, <1>3 DEF I!IInv

\* OMP exits by itself: the worker is torn down and keeps its claim.
LEMMA IncomingRuntimeExits ==
    ASSUME I!IInv, I!RuntimeExits
    PROVE  I!IInv' /\ I!KeepsResumed
  <1>i. /\ I!TypeOK /\ I!IdsDiffer /\ I!InboxFollows /\ I!JobsFit /\ I!AlbumFits /\ I!DirsFit
        /\ x5.queue \in Seq(I!EntryType) /\ Differ(x5.queue)
        /\ I!Waiting = Ids(x5.queue) /\ I!Fetching = Open(x5.queue) /\ I!Fetching \subseteq I!Waiting
        /\ I!Waiting \subseteq I!Inputs
        /\ x5.active \in I!Inputs \cup {None} /\ x5.album.owner \in I!Inputs \cup {None}
        /\ (\A k \in x7 : k.id \in I!Inputs) /\ x12 \in Nat
        /\ x5.album.owner # None => x5.album.owner \in I!Fetching
    BY IncomingParts
  <1>n. None \notin I!Inputs /\ None \notin Existing
    BY NoneIsNobody
  <1>u. /\ x1 = "up" /\ I!Teardown(x5.claim) /\ UNCHANGED <<x1, x2, x3, x10, x11, x12>>
    BY DEF I!RuntimeExits, I!LosesRuntime, I!Up
  <1>c. x5.claim \in Existing \cup {None} /\ x5.claim \in {None, x2.session}
    BY DEF I!IInv, I!TypeOK, I!ActorType, I!ClaimFits
  <1>1. /\ I!KeepsResumed /\ I!IdsDiffer' /\ I!Waiting' = {} /\ I!Fetching' = {} /\ x5' \in I!ActorType
        /\ x5'.active = None /\ x5'.album.owner = None /\ x5'.claim = x5.claim /\ x5'.runtime = "released"
        /\ x7' \subseteq I!JobType /\ x9' \subseteq I!Inputs
        /\ x8' \in [I!Inputs -> I!DirType]
        /\ x4' \in [I!Inputs -> {"unsent", "new", "pending", "submitted", "ended", "dropped"}]
    BY <1>u, <1>c, TornDown
  <1>2. /\ I!JobsFit' /\ I!AlbumFits' /\ I!DirsFit'
        /\ \A i \in I!Inputs : x4'[i] # "pending" /\ x4'[i] # "submitted"
    BY <1>i, <1>u, <1>c, TornDownFits
  <1>t. I!TypeOK'
    BY <1>i, <1>u, <1>1 DEF I!TypeOK
  <1>3. I!InboxFollows'
    BY <1>i, <1>u, <1>1, <1>2 DEF I!InboxFollows
  <1>4. I!ClaimFits'
    BY <1>u, <1>c, <1>1 DEF I!ClaimFits, I!Connected
  <1> QED
    BY <1>4, <1>1, <1>2, <1>t, <1>3 DEF I!IInv

\* The bridge is asked to stop: the worker ends before its preparations do.
LEMMA IncomingStop ==
    ASSUME I!IInv, I!Stop
    PROVE  I!IInv' /\ I!KeepsResumed
  <1>i. /\ I!TypeOK /\ I!IdsDiffer /\ I!InboxFollows /\ I!JobsFit /\ I!AlbumFits /\ I!DirsFit
        /\ x5.queue \in Seq(I!EntryType) /\ Differ(x5.queue)
        /\ I!Waiting = Ids(x5.queue) /\ I!Fetching = Open(x5.queue) /\ I!Fetching \subseteq I!Waiting
        /\ I!Waiting \subseteq I!Inputs
        /\ x5.active \in I!Inputs \cup {None} /\ x5.album.owner \in I!Inputs \cup {None}
        /\ (\A k \in x7 : k.id \in I!Inputs) /\ x12 \in Nat
        /\ x5.album.owner # None => x5.album.owner \in I!Fetching
    BY IncomingParts
  <1>n. None \notin I!Inputs /\ None \notin Existing
    BY NoneIsNobody
  <1>u. /\ x1 = "up" /\ x1' = "closing" /\ I!Teardown(None) /\ x10' = I!Resting /\ x12' = x12 + 1
        /\ UNCHANGED <<x2, x3, x6, x11>>
    BY DEF I!Stop, I!Up
  <1>1. /\ I!KeepsResumed /\ I!IdsDiffer' /\ I!Waiting' = {} /\ I!Fetching' = {} /\ x5' \in I!ActorType
        /\ x5'.active = None /\ x5'.album.owner = None /\ x5'.claim = None /\ x5'.runtime = "released"
        /\ x7' \subseteq I!JobType /\ x9' \subseteq I!Inputs
        /\ x8' \in [I!Inputs -> I!DirType]
        /\ x4' \in [I!Inputs -> {"unsent", "new", "pending", "submitted", "ended", "dropped"}]
    BY <1>u, TornDown
  <1>l. x12' \in Nat /\ x12' >= x12
    BY <1>i, <1>u
  <1>2. /\ I!JobsFit' /\ I!AlbumFits' /\ I!DirsFit'
        /\ \A i \in I!Inputs : x4'[i] # "pending" /\ x4'[i] # "submitted"
    BY <1>u, <1>l, TornDownFits
  <1>t. I!TypeOK'
    BY <1>i, <1>u, <1>1, <1>l DEF I!TypeOK, I!Resting
  <1>3. I!InboxFollows'
    BY <1>i, <1>u, <1>1, <1>2 DEF I!InboxFollows
  <1>4. I!ClaimFits'
    BY <1>1 DEF I!ClaimFits, I!Connected
  <1> QED
    BY <1>4, <1>1, <1>2, <1>t, <1>3 DEF I!IInv

\* Nothing is left of a process that has gone but what it wrote.
LEMMA IncomingGone ==
    ASSUME I!IInv, x1' = "down", x4' = x4, x5' = I!NewActor, x7' = {}, x8' = x8, x9' = {}, x10' = I!Resting, x11' = x11,
           x12' \in Nat, x12' >= x12, UNCHANGED <<x2, x3>>,
           \A i \in I!Inputs : /\ x4[i] = "dropped" /\ x8[i].there => x8[i].life < x12'
                               /\ x4[i] = "pending" /\ x8[i].there => x8[i].life < x12'
    PROVE  I!IInv' /\ I!KeepsResumed
  <1>i. /\ I!TypeOK /\ I!IdsDiffer /\ I!InboxFollows /\ I!JobsFit /\ I!AlbumFits /\ I!DirsFit
        /\ x5.queue \in Seq(I!EntryType) /\ Differ(x5.queue)
        /\ I!Waiting = Ids(x5.queue) /\ I!Fetching = Open(x5.queue) /\ I!Fetching \subseteq I!Waiting
        /\ I!Waiting \subseteq I!Inputs
        /\ x5.active \in I!Inputs \cup {None} /\ x5.album.owner \in I!Inputs \cup {None}
        /\ (\A k \in x7 : k.id \in I!Inputs) /\ x12 \in Nat
        /\ x5.album.owner # None => x5.album.owner \in I!Fetching
    BY IncomingParts
  <1>n. None \notin I!Inputs /\ None \notin Existing
    BY NoneIsNobody
  <1>1. /\ x5' \in I!ActorType /\ x5'.queue = <<>> /\ x5'.active = None /\ x5'.album.owner = None
        /\ x5'.claim = None /\ x5'.runtime = "released"
    BY DEF I!NewActor, I!NoAlbum, I!ActorType, I!AlbumType
  <1>2. I!IdsDiffer' /\ I!Waiting' = {} /\ I!Fetching' = {}
    BY <1>1, NoEntries, QueueThen
  <1>t. I!TypeOK'
    BY <1>i, <1>1 DEF I!TypeOK, I!Resting
  <1>s. I!Cleaned' = {None} /\ \A k : I!Collected(k)' = I!Collected(k)
    BY DEF I!Cleaned, I!Collected, I!Resting
  <1>3. I!InboxFollows' /\ I!JobsFit' /\ I!AlbumFits'
    BY <1>i, <1>1, <1>2 DEF I!InboxFollows, I!JobsFit, I!AlbumFits
  <1>4. I!DirsFit'
    <2> SUFFICES ASSUME NEW k \in I!Inputs PROVE I!DirFits(k)'
      BY DEF I!DirsFit
    <2>1. I!DirFits(k) /\ k # None /\ x8[k].life \in Nat
      BY <1>i, <1>n DEF I!DirsFit, I!TypeOK, I!DirType
    <2>2. x8'[k].life <= x12'
      BY <2>1, <1>i DEF I!DirFits
    <2> QED
      BY <2>1, <2>2, <1>i, <1>1, <1>2, <1>s DEF I!DirFits
  <1>5. I!KeepsResumed
    BY DEF I!KeepsResumed
  <1>6. I!ClaimFits'
    BY <1>1 DEF I!ClaimFits, I!Connected
  <1> QED
    BY <1>6, <1>t, <1>2, <1>3, <1>4, <1>5 DEF I!IInv

\* The process ends after its goroutines have.
LEMMA IncomingExit ==
    ASSUME I!IInv, I!Exit
    PROVE  I!IInv' /\ I!KeepsResumed
  <1>i. /\ I!TypeOK /\ I!IdsDiffer /\ I!InboxFollows /\ I!JobsFit /\ I!AlbumFits /\ I!DirsFit
        /\ x5.queue \in Seq(I!EntryType) /\ Differ(x5.queue)
        /\ I!Waiting = Ids(x5.queue) /\ I!Fetching = Open(x5.queue) /\ I!Fetching \subseteq I!Waiting
        /\ I!Waiting \subseteq I!Inputs
        /\ x5.active \in I!Inputs \cup {None} /\ x5.album.owner \in I!Inputs \cup {None}
        /\ (\A k \in x7 : k.id \in I!Inputs) /\ x12 \in Nat
        /\ x5.album.owner # None => x5.album.owner \in I!Fetching
    BY IncomingParts
  <1>n. None \notin I!Inputs /\ None \notin Existing
    BY NoneIsNobody
  <1>u. /\ x1 = "closing" /\ x7 = {} /\ x1' = "down" /\ x6' = {} /\ x9' = {} /\ x5' = I!NewActor
        /\ UNCHANGED <<x2, x3, x4, x7, x8, x10, x11, x12>>
    BY DEF I!Exit
  <1>1. x10 = I!Resting /\ \A i \in I!Inputs : x4[i] # "pending"
    BY <1>i, <1>u DEF I!InboxFollows
  <1>2. \A i \in I!Inputs : x4[i] = "dropped" /\ x8[i].there => x8[i].life < x12
    BY <1>i, <1>u DEF I!DirsFit, I!DirFits
  <1> QED
    BY <1>i, <1>u, <1>1, <1>2, IncomingGone

\* The process crashes.
LEMMA IncomingCrash ==
    ASSUME I!IInv, I!Crash
    PROVE  I!IInv' /\ I!KeepsResumed
  <1>i. /\ I!TypeOK /\ I!IdsDiffer /\ I!InboxFollows /\ I!JobsFit /\ I!AlbumFits /\ I!DirsFit
        /\ x5.queue \in Seq(I!EntryType) /\ Differ(x5.queue)
        /\ I!Waiting = Ids(x5.queue) /\ I!Fetching = Open(x5.queue) /\ I!Fetching \subseteq I!Waiting
        /\ I!Waiting \subseteq I!Inputs
        /\ x5.active \in I!Inputs \cup {None} /\ x5.album.owner \in I!Inputs \cup {None}
        /\ (\A k \in x7 : k.id \in I!Inputs) /\ x12 \in Nat
        /\ x5.album.owner # None => x5.album.owner \in I!Fetching
    BY IncomingParts
  <1>n. None \notin I!Inputs /\ None \notin Existing
    BY NoneIsNobody
  <1>u. /\ x1' = "down" /\ x12' = x12 + 1
        /\ x6' = {} /\ x7' = {} /\ x9' = {} /\ x10' = I!Resting /\ x5' = I!NewActor
        /\ UNCHANGED <<x2, x3, x4, x8, x11>>
    BY DEF I!Crash
  <1>1. x12' \in Nat /\ x12' >= x12
    BY <1>i, <1>u
  <1>2. \A i \in I!Inputs : x8[i].life < x12'
    <2> SUFFICES ASSUME NEW i \in I!Inputs PROVE x8[i].life < x12'
      OBVIOUS
    <2>1. x8[i].life \in Nat /\ x8[i].life <= x12
      BY <1>i DEF I!DirsFit, I!DirFits, I!TypeOK, I!DirType
    <2> QED
      BY <2>1, <1>i, <1>u
  <1> QED
    BY <1>i, <1>u, <1>1, <1>2, IncomingGone

\* The bridge starts again and settles what it finds.
LEMMA IncomingRestart ==
    ASSUME I!IInv, I!Restart
    PROVE  I!IInv' /\ I!KeepsResumed
  <1>i. /\ I!TypeOK /\ I!IdsDiffer /\ I!InboxFollows /\ I!JobsFit /\ I!AlbumFits /\ I!DirsFit
        /\ x5.queue \in Seq(I!EntryType) /\ Differ(x5.queue)
        /\ I!Waiting = Ids(x5.queue) /\ I!Fetching = Open(x5.queue) /\ I!Fetching \subseteq I!Waiting
        /\ I!Waiting \subseteq I!Inputs
        /\ x5.active \in I!Inputs \cup {None} /\ x5.album.owner \in I!Inputs \cup {None}
        /\ (\A k \in x7 : k.id \in I!Inputs) /\ x12 \in Nat
        /\ x5.album.owner # None => x5.album.owner \in I!Fetching
    BY IncomingParts
  <1>n. None \notin I!Inputs /\ None \notin Existing
    BY NoneIsNobody
  <1>u. /\ x1 = "down" /\ x1' = "up"
        /\ x4' = [i \in I!Inputs |-> IF x4[i] = "submitted" THEN "ended"
                                     ELSE IF x4[i] = "pending" THEN "dropped" ELSE x4[i]]
        /\ x5' = [x5 EXCEPT !.claim = x2.session]
        /\ UNCHANGED <<x2, x3, x6, x7, x8, x9, x10, x11, x12>>
    BY DEF I!Restart
  <1>c. /\ x5' \in I!ActorType /\ x5'.queue = x5.queue /\ x5'.album = x5.album /\ x5'.active = x5.active
        /\ x5'.claim = x2.session /\ x5'.runtime = x5.runtime
    BY <1>i, <1>u DEF I!TypeOK, I!ActorType
  <1>f. I!ClaimFits'
    <2>1. x5.claim \in {None, x2.session} /\ (x5.runtime = "connected" => x5.claim # None)
      BY DEF I!IInv, I!ClaimFits, I!Connected
    <2> QED
      BY <2>1, <1>u, <1>c DEF I!ClaimFits, I!Connected
  <1>s. I!Cleaned' = I!Cleaned /\ \A k : I!Collected(k)' = I!Collected(k)
    BY <1>u DEF I!Cleaned, I!Collected
  <1>q. I!Waiting' = I!Waiting /\ I!Fetching' = I!Fetching /\ I!IdsDiffer'
    BY <1>i, <1>c, QueueKept
  <1>0. I!Waiting = {} /\ x5.active = None /\ x7 = {}
    BY <1>i, <1>u DEF I!InboxFollows
  <1>t. I!TypeOK'
    BY <1>i, <1>u, <1>c DEF I!TypeOK
  <1>3. I!InboxFollows'
    BY <1>i, <1>u, <1>c, <1>q, <1>0 DEF I!InboxFollows
  <1>4. I!JobsFit' /\ I!AlbumFits'
    BY <1>i, <1>u, <1>c, <1>s, <1>q, <1>0 DEF I!JobsFit, I!AlbumFits
  <1>5. I!DirsFit'
    <2> SUFFICES ASSUME NEW k \in I!Inputs PROVE I!DirFits(k)'
      BY DEF I!DirsFit
    <2>1. I!DirFits(k) /\ k # None
      BY <1>i, <1>n DEF I!DirsFit
    <2>2. x4'[k] = IF x4[k] = "submitted" THEN "ended" ELSE IF x4[k] = "pending" THEN "dropped" ELSE x4[k]
      BY <1>u
    <2> QED
      BY <2>1, <2>2, <1>i, <1>u, <1>c, <1>s, <1>q, <1>0 DEF I!DirFits
  <1>6. I!KeepsResumed
    BY <1>u DEF I!KeepsResumed
  <1> QED
    BY <1>f, <1>t, <1>q, <1>3, <1>4, <1>5, <1>6 DEF I!IInv

\* A session is being resumed, or the resume is over.
LEMMA IncomingResume ==
    ASSUME I!IInv, \/ \E s \in Existing : I!ResumeBegins(s)
                   \/ \E claimed \in BOOLEAN : I!ResumeEnds(claimed)
    PROVE  I!IInv' /\ I!KeepsResumed
  <1>i. /\ I!TypeOK /\ I!IdsDiffer /\ I!InboxFollows /\ I!JobsFit /\ I!AlbumFits /\ I!DirsFit
        /\ x5.queue \in Seq(I!EntryType) /\ Differ(x5.queue)
        /\ I!Waiting = Ids(x5.queue) /\ I!Fetching = Open(x5.queue) /\ I!Fetching \subseteq I!Waiting
        /\ I!Waiting \subseteq I!Inputs
        /\ x5.active \in I!Inputs \cup {None} /\ x5.album.owner \in I!Inputs \cup {None}
        /\ (\A k \in x7 : k.id \in I!Inputs) /\ x12 \in Nat
        /\ x5.album.owner # None => x5.album.owner \in I!Fetching
    BY IncomingParts
  <1>n. None \notin I!Inputs /\ None \notin Existing
    BY NoneIsNobody
  <1>u. UNCHANGED <<x1, x4, x6, x7, x8, x9, x10, x11, x12>> /\ x1 = "up"
    BY DEF I!ResumeBegins, I!ResumeEnds, I!Up
  <1>e. \/ x5' = x5 /\ x2' = x2
        \/ /\ x3 # None /\ x5' = [x5 EXCEPT !.claim = x3, !.runtime = "connected"] /\ x2'.session = x3
    BY DEF I!ResumeBegins, I!ResumeEnds
  <1>c. /\ x5' \in I!ActorType /\ x5'.queue = x5.queue /\ x5'.album = x5.album /\ x5'.active = x5.active
        /\ ((x5' = x5 /\ x2' = x2) \/ (x5'.claim = x2'.session /\ x5'.claim # None))
    BY <1>i, <1>e DEF I!TypeOK, I!ActorType
  <1>f. I!ClaimFits'
    <2>1. CASE x5' = x5 /\ x2' = x2
      BY <2>1, ClaimKept
    <2>2. CASE x5'.claim = x2'.session /\ x5'.claim # None
      BY <2>2 DEF I!ClaimFits
    <2> QED
      BY <2>1, <2>2, <1>c
  <1>1. /\ x2' \in [session : Existing \cup {None}, generation : Nat] /\ x3' \in Existing \cup {None}
        /\ (x2'.session = None => x2.session = None)
    BY <1>i DEF I!ResumeBegins, I!ResumeEnds, I!TypeOK
  <1>s. I!Cleaned' = I!Cleaned /\ \A k : I!Collected(k)' = I!Collected(k)
    BY <1>u DEF I!Cleaned, I!Collected
  <1>q. I!Waiting' = I!Waiting /\ I!Fetching' = I!Fetching /\ I!IdsDiffer'
    BY <1>i, <1>c, QueueKept
  <1>t. I!TypeOK'
    BY <1>i, <1>u, <1>c, <1>1 DEF I!TypeOK
  <1>2. I!InboxFollows'
    BY <1>i, <1>u, <1>c, <1>1, <1>q DEF I!InboxFollows
  <1>3. I!JobsFit'
    BY <1>i, <1>u, <1>c, <1>s, <1>q DEF I!JobsFit, I!JobFits
  <1>4. I!AlbumFits'
    BY <1>i, <1>u, <1>c, <1>s, <1>q DEF I!AlbumFits
  <1>5. I!DirsFit'
    BY <1>i, <1>u, <1>c, <1>s, <1>q DEF I!DirsFit, I!DirFits
  <1>6. I!KeepsResumed
    BY <1>u DEF I!KeepsResumed
  <1> QED
    BY <1>f, <1>t, <1>q, <1>2, <1>3, <1>4, <1>5, <1>6 DEF I!IInv

\* A retention period passes.
LEMMA IncomingPeriodPasses ==
    ASSUME I!IInv, I!PeriodPasses
    PROVE  I!IInv' /\ I!KeepsResumed
  <1>i. /\ I!TypeOK /\ I!IdsDiffer /\ I!InboxFollows /\ I!JobsFit /\ I!AlbumFits /\ I!DirsFit
        /\ x5.queue \in Seq(I!EntryType) /\ Differ(x5.queue)
        /\ I!Waiting = Ids(x5.queue) /\ I!Fetching = Open(x5.queue) /\ I!Fetching \subseteq I!Waiting
        /\ I!Waiting \subseteq I!Inputs
        /\ x5.active \in I!Inputs \cup {None} /\ x5.album.owner \in I!Inputs \cup {None}
        /\ (\A k \in x7 : k.id \in I!Inputs) /\ x12 \in Nat
        /\ x5.album.owner # None => x5.album.owner \in I!Fetching
    BY IncomingParts
  <1>n. None \notin I!Inputs /\ None \notin Existing
    BY NoneIsNobody
  <1>u. /\ x10 = I!Resting
        /\ x8' = [i \in I!Inputs |-> IF x8[i].there /\ ~\E j \in x7 : j.id = i
                                      THEN [x8[i] EXCEPT !.old = TRUE] ELSE x8[i]]
        /\ UNCHANGED <<x1, x2, x3, x4, x5, x6, x7, x9, x10, x11, x12>>
    BY DEF I!PeriodPasses
  <1>1. ASSUME NEW i \in I!Inputs
        PROVE  /\ x8'[i] \in I!DirType /\ x8'[i].there = x8[i].there /\ x8'[i].owner = x8[i].owner
               /\ x8'[i].members = x8[i].members /\ x8'[i].life = x8[i].life
               /\ (\E j \in x7 : j.id = i) => x8'[i] = x8[i]
    <2>1. PICK e \in I!DirType : e = x8[i]
      BY <1>i DEF I!TypeOK
    <2>2. PICK b : b = [e EXCEPT !.old = TRUE]
      OBVIOUS
    <2>3. b \in I!DirType /\ b.there = e.there /\ b.owner = e.owner /\ b.members = e.members /\ b.life = e.life
      BY <2>1, <2>2 DEF I!DirType
    <2>4. x8'[i] = IF x8[i].there /\ ~\E j \in x7 : j.id = i THEN b ELSE x8[i]
      BY <1>u, <2>1, <2>2
    <2> QED
      BY <2>1, <2>3, <2>4
  <1>2. x8' \in [I!Inputs -> I!DirType]
    <2>1. DOMAIN x8' = I!Inputs /\ x8' = [k \in I!Inputs |-> x8'[k]]
      BY <1>u
    <2> QED
      BY <2>1, <1>1
  <1>s. I!Cleaned' = I!Cleaned /\ \A k : I!Collected(k)' = I!Collected(k)
    BY <1>u DEF I!Cleaned, I!Collected
  <1>q. I!Waiting' = I!Waiting /\ I!Fetching' = I!Fetching /\ I!IdsDiffer'
    BY <1>i, <1>u, QueueKept
  <1>t. I!TypeOK'
    BY <1>i, <1>u, <1>2 DEF I!TypeOK
  <1>3. I!InboxFollows'
    BY <1>i, <1>u, <1>q DEF I!InboxFollows
  <1>4. I!JobsFit'
    <2> SUFFICES ASSUME NEW k \in x7 PROVE I!JobFits(k)'
      BY <1>u DEF I!JobsFit
    <2>1. I!JobFits(k) /\ x8'[k.id] = x8[k.id]
      BY <1>i, <1>1 DEF I!JobsFit
    <2> QED
      BY <2>1, <1>u, <1>s, <1>q DEF I!JobFits
  <1>5. I!AlbumFits'
    BY <1>i, <1>u, <1>s, <1>q DEF I!AlbumFits
  <1>6. I!DirsFit'
    <2> SUFFICES ASSUME NEW k \in I!Inputs PROVE I!DirFits(k)'
      BY DEF I!DirsFit
    <2>1. I!DirFits(k)
      BY <1>i DEF I!DirsFit
    <2> QED
      BY <2>1, <1>1, <1>u, <1>s, <1>q DEF I!DirFits
  <1>7. I!KeepsResumed
    BY <1>1 DEF I!KeepsResumed
  <1>f. I!ClaimFits'
    BY <1>u, ClaimKept
  <1> QED
    BY <1>f, <1>t, <1>q, <1>3, <1>4, <1>5, <1>6, <1>7 DEF I!IInv

\* The janitor looks for what has expired.
LEMMA IncomingCleanupBegins ==
    ASSUME I!IInv, I!CleanupBegins
    PROVE  I!IInv' /\ I!KeepsResumed
  <1>i. /\ I!TypeOK /\ I!IdsDiffer /\ I!InboxFollows /\ I!JobsFit /\ I!AlbumFits /\ I!DirsFit
        /\ x5.queue \in Seq(I!EntryType) /\ Differ(x5.queue)
        /\ I!Waiting = Ids(x5.queue) /\ I!Fetching = Open(x5.queue) /\ I!Fetching \subseteq I!Waiting
        /\ I!Waiting \subseteq I!Inputs
        /\ x5.active \in I!Inputs \cup {None} /\ x5.album.owner \in I!Inputs \cup {None}
        /\ (\A k \in x7 : k.id \in I!Inputs) /\ x12 \in Nat
        /\ x5.album.owner # None => x5.album.owner \in I!Fetching
    BY IncomingParts
  <1>n. None \notin I!Inputs /\ None \notin Existing
    BY NoneIsNobody
  <1>u. /\ x1 = "up" /\ x10' = [todo |-> {i \in I!Inputs : I!Expired(i)}, starts |-> x3, at |-> None]
        /\ UNCHANGED <<x1, x2, x3, x4, x5, x6, x7, x8, x9, x11, x12>>
    BY DEF I!CleanupBegins, I!Up
  <1>s. I!Cleaned' = {i \in I!Inputs : I!Expired(i)} \cup {None} /\ \A k : I!Collected(k)' = I!Collected(k)
    BY <1>u DEF I!Cleaned, I!Collected
  <1>e. ASSUME NEW i \in I!Inputs, I!Expired(i)
        PROVE  x4[i] \notin {"unsent", "new"} /\ i \notin I!Waiting /\ i # x5.active /\ \A j \in x7 : j.id # i
    <2>1. I!DirFits(i) /\ x8[i].there /\ x8[i].old /\ i \notin x9
      BY <1>i, <1>e DEF I!DirsFit, I!Expired
    <2>2. \A j \in x7 : j.id # i
      BY <1>i, <2>1 DEF I!JobsFit, I!JobFits
    <2> QED
      BY <2>1, <2>2 DEF I!DirFits
  <1>q. I!Waiting' = I!Waiting /\ I!Fetching' = I!Fetching /\ I!IdsDiffer'
    BY <1>i, <1>u, QueueKept
  <1>t. I!TypeOK'
    BY <1>i, <1>u DEF I!TypeOK
  <1>3. I!InboxFollows'
    BY <1>i, <1>u, <1>q DEF I!InboxFollows
  <1>4. I!JobsFit'
    <2> SUFFICES ASSUME NEW k \in x7 PROVE I!JobFits(k)'
      BY <1>u DEF I!JobsFit
    <2>1. I!JobFits(k) /\ k.id \notin I!Cleaned'
      BY <1>i, <1>n, <1>e, <1>s DEF I!JobsFit
    <2> QED
      BY <2>1, <1>u, <1>s, <1>q DEF I!JobFits
  <1>5. I!AlbumFits'
    BY <1>i, <1>u, <1>s, <1>q DEF I!AlbumFits
  <1>6. I!DirsFit'
    <2> SUFFICES ASSUME NEW k \in I!Inputs PROVE I!DirFits(k)'
      BY DEF I!DirsFit
    <2>1. I!DirFits(k) /\ (k \in I!Cleaned' => x4[k] \notin {"unsent", "new"} /\ k \notin I!Waiting /\ k # x5.active)
      BY <1>i, <1>n, <1>e, <1>s DEF I!DirsFit
    <2> QED
      BY <2>1, <1>u, <1>s, <1>q DEF I!DirFits
  <1>7. I!KeepsResumed
    BY <1>u DEF I!KeepsResumed
  <1>f. I!ClaimFits'
    BY <1>u, ClaimKept
  <1> QED
    BY <1>f, <1>t, <1>q, <1>3, <1>4, <1>5, <1>6, <1>7 DEF I!IInv

\* The janitor goes on: it removes at most one of those it found, and none of an input
\* that has ended and whose session is wanted.
LEMMA IncomingCleans ==
    ASSUME I!IInv, NEW i \in I!Inputs, i \in I!Cleaned, x1 = "up",
           x8' \in {x8, I!Discarded({i})}, I!Cleaned' \subseteq I!Cleaned \cup {None},
           x10' \in [todo : SUBSET I!Inputs, starts : Existing \cup {None}, at : I!Inputs \cup {None}],
           UNCHANGED <<x1, x2, x3, x4, x5, x6, x7, x9, x11, x12>>
    PROVE  I!IInv'
  <1>i. /\ I!TypeOK /\ I!IdsDiffer /\ I!InboxFollows /\ I!JobsFit /\ I!AlbumFits /\ I!DirsFit
        /\ x5.queue \in Seq(I!EntryType) /\ Differ(x5.queue)
        /\ I!Waiting = Ids(x5.queue) /\ I!Fetching = Open(x5.queue) /\ I!Fetching \subseteq I!Waiting
        /\ I!Waiting \subseteq I!Inputs
        /\ x5.active \in I!Inputs \cup {None} /\ x5.album.owner \in I!Inputs \cup {None}
        /\ (\A k \in x7 : k.id \in I!Inputs) /\ x12 \in Nat
        /\ x5.album.owner # None => x5.album.owner \in I!Fetching
    BY IncomingParts
  <1>n. None \notin I!Inputs /\ None \notin Existing
    BY NoneIsNobody
  <1>s. \A k : I!Collected(k)' = I!Collected(k)
    BY DEF I!Collected
  <1>d. /\ x8' \in [I!Inputs -> I!DirType] /\ (x8'[i] = x8[i] \/ (~x8'[i].there /\ x8'[i].life = 0))
        /\ \A k \in I!Inputs : k # i => x8'[k] = x8[k]
    BY <1>i, DirsDiscarded DEF I!TypeOK
  <1>a. i \notin I!Waiting /\ i # x5.active /\ \A j \in x7 : j.id # i
    BY <1>i DEF I!DirsFit, I!DirFits, I!JobsFit, I!JobFits
  <1>q. I!Waiting' = I!Waiting /\ I!Fetching' = I!Fetching /\ I!IdsDiffer'
    BY <1>i, QueueKept
  <1>t. I!TypeOK'
    BY <1>i, <1>d DEF I!TypeOK
  <1>3. I!InboxFollows'
    BY <1>i, <1>q DEF I!InboxFollows
  <1>4. I!JobsFit'
    <2> SUFFICES ASSUME NEW k \in x7 PROVE I!JobFits(k)'
      BY DEF I!JobsFit
    <2>1. I!JobFits(k) /\ x8'[k.id] = x8[k.id] /\ k.id # None
      BY <1>i, <1>n, <1>a, <1>d DEF I!JobsFit
    <2> QED
      BY <2>1, <1>s, <1>q DEF I!JobFits
  <1>5. I!AlbumFits'
    BY <1>i, <1>s, <1>q DEF I!AlbumFits
  <1>6. I!DirsFit'
    <2>1. ASSUME NEW k \in I!Inputs, k # i PROVE I!DirFits(k)'
      <3>1. I!DirFits(k) /\ k # None
        BY <1>i, <1>n DEF I!DirsFit
      <3> QED
        BY <2>1, <3>1, <1>s, <1>d, <1>q DEF I!DirFits
    <2>2. I!DirFits(i)'
      <3>1. I!DirFits(i) /\ i # None /\ I!Fetching \subseteq I!Waiting /\ 0 <= x12
        BY <1>i, <1>n DEF I!DirsFit
      <3>2. CASE x8'[i] = x8[i]
        BY <3>1, <3>2, <1>s, <1>q DEF I!DirFits
      <3>3. CASE ~x8'[i].there /\ x8'[i].life = 0
        BY <3>1, <3>3, <1>a, <1>s, <1>q DEF I!DirFits
      <3> QED
        BY <3>2, <3>3, <1>d
    <2> QED
      BY <2>1, <2>2 DEF I!DirsFit
  <1>f. I!ClaimFits'
    BY ClaimKept
  <1> QED
    BY <1>f, <1>t, <1>q, <1>3, <1>4, <1>5, <1>6 DEF I!IInv

\* The janitor considers a directory.
LEMMA IncomingCleanupVisits ==
    ASSUME I!IInv, NEW i \in I!Inputs, I!CleanupVisits(i)
    PROVE  I!IInv' /\ I!KeepsResumed
  <1>i. /\ I!TypeOK /\ I!IdsDiffer /\ I!InboxFollows /\ I!JobsFit /\ I!AlbumFits /\ I!DirsFit
        /\ x5.queue \in Seq(I!EntryType) /\ Differ(x5.queue)
        /\ I!Waiting = Ids(x5.queue) /\ I!Fetching = Open(x5.queue) /\ I!Fetching \subseteq I!Waiting
        /\ I!Waiting \subseteq I!Inputs
        /\ x5.active \in I!Inputs \cup {None} /\ x5.album.owner \in I!Inputs \cup {None}
        /\ (\A k \in x7 : k.id \in I!Inputs) /\ x12 \in Nat
        /\ x5.album.owner # None => x5.album.owner \in I!Fetching
    BY IncomingParts
  <1>n. None \notin I!Inputs /\ None \notin Existing
    BY NoneIsNobody
  <1>u. /\ x1 = "up" /\ i \in x10.todo /\ x10.at = None
        /\ x8' = IF x8[i].there /\ x8[i].owner = None THEN I!Discarded({i}) ELSE x8
        /\ UNCHANGED <<x1, x2, x3, x4, x5, x6, x7, x9, x11, x12>>
    BY DEF I!CleanupVisits, I!Up
  <1>e. PICK eligible \in BOOLEAN :
          x10' = IF eligible \/ x10.todo # {i}
                 THEN [x10 EXCEPT !.todo = @ \ {i}, !.at = IF eligible THEN i ELSE None]
                 ELSE I!Resting
    BY DEF I!CleanupVisits
  <1>j. x10 \in [todo : SUBSET I!Inputs, starts : Existing \cup {None}, at : I!Inputs \cup {None}]
    BY <1>i DEF I!TypeOK
  <1>1. /\ x10' \in [todo : SUBSET I!Inputs, starts : Existing \cup {None}, at : I!Inputs \cup {None}]
        /\ x10'.todo \subseteq x10.todo /\ x10'.at \in {i, None}
    BY <1>e, <1>j DEF I!Resting
  <1>2. i \in I!Cleaned /\ I!Cleaned' \subseteq I!Cleaned \cup {None}
    BY <1>u, <1>1 DEF I!Cleaned
  <1>3. I!IInv'
    BY <1>u, <1>1, <1>2, IncomingCleans
  <1>4. I!KeepsResumed
    <2> SUFFICES ASSUME NEW k \in I!Inputs, x8[k].there, ~x8'[k].there, x4[k] = "ended" PROVE FALSE
      BY DEF I!KeepsResumed
    <2>1. x8 \in [I!Inputs -> I!DirType]
      BY <1>i DEF I!TypeOK
    <2>2. k = i /\ x8[i].owner = None
      BY <2>1, <1>u, DirsDiscarded
    <2> QED
      BY <2>2, <1>i DEF I!DirsFit, I!DirFits
  <1> QED
    BY <1>3, <1>4

\* The janitor removes a directory nobody has come to want.
LEMMA IncomingCleanupRemoves ==
    ASSUME I!IInv, I!CleanupRemoves
    PROVE  I!IInv' /\ I!KeepsResumed
  <1>i. /\ I!TypeOK /\ I!IdsDiffer /\ I!InboxFollows /\ I!JobsFit /\ I!AlbumFits /\ I!DirsFit
        /\ x5.queue \in Seq(I!EntryType) /\ Differ(x5.queue)
        /\ I!Waiting = Ids(x5.queue) /\ I!Fetching = Open(x5.queue) /\ I!Fetching \subseteq I!Waiting
        /\ I!Waiting \subseteq I!Inputs
        /\ x5.active \in I!Inputs \cup {None} /\ x5.album.owner \in I!Inputs \cup {None}
        /\ (\A k \in x7 : k.id \in I!Inputs) /\ x12 \in Nat
        /\ x5.album.owner # None => x5.album.owner \in I!Fetching
    BY IncomingParts
  <1>n. None \notin I!Inputs /\ None \notin Existing
    BY NoneIsNobody
  <1>o. PICK i : i = x10.at
    OBVIOUS
  <1>j. x10 \in [todo : SUBSET I!Inputs, starts : Existing \cup {None}, at : I!Inputs \cup {None}]
    BY <1>i DEF I!TypeOK
  <1>u. /\ x1 = "up" /\ i # None /\ i \in I!Inputs /\ i \in I!Cleaned
        /\ x8' = IF x8[i].there /\ I!StillEligible(x8[i].owner) THEN I!Discarded({i}) ELSE x8
        /\ x10' = IF x10.todo = {} THEN I!Resting ELSE [x10 EXCEPT !.at = None]
        /\ UNCHANGED <<x1, x2, x3, x4, x5, x6, x7, x9, x11, x12>>
    BY <1>o, <1>j DEF I!CleanupRemoves, I!Up, I!Cleaned
  <1>1. /\ x10' \in [todo : SUBSET I!Inputs, starts : Existing \cup {None}, at : I!Inputs \cup {None}]
        /\ x10'.todo \subseteq x10.todo /\ x10'.at = None
    BY <1>u, <1>j DEF I!Resting
  <1>2. I!Cleaned' \subseteq I!Cleaned \cup {None}
    BY <1>1 DEF I!Cleaned
  <1>3. I!IInv'
    BY <1>u, <1>1, <1>2, IncomingCleans
  <1>4. I!KeepsResumed
    <2> SUFFICES ASSUME NEW k \in I!Inputs, x8[k].there, ~x8'[k].there
                 PROVE  x8[k].owner # x3 /\ ~I!Claimed(x8[k].owner) /\ ~I!OpenInOMP(x8[k].owner)
      BY DEF I!KeepsResumed
    <2>1. x8 \in [I!Inputs -> I!DirType]
      BY <1>i DEF I!TypeOK
    <2>2. k = i /\ I!StillEligible(x8[i].owner)
      BY <2>1, <1>u, DirsDiscarded
    <2>3. x8[k].owner # x3 /\ ~I!Claimed(x8[k].owner)
      BY <2>2 DEF I!StillEligible
    <2>4. I!OpenInOMP(x8[k].owner) => I!Claimed(x8[k].owner)
      BY DEF I!OpenInOMP, I!Claimed, I!IInv, I!ClaimFits
    <2> QED
      BY <2>3, <2>4
  <1> QED
    BY <1>3, <1>4

-----------------------------------------------------------------------------

\* The invariant holds at the start.
LEMMA IncomingInit == I!Init => I!IInv
  <1> SUFFICES ASSUME I!Init PROVE I!IInv
    OBVIOUS
  <1>n. None \notin I!Inputs /\ None \notin Existing
    BY NoneIsNobody
  <1>1. /\ x1 = "up" /\ x3 = None /\ x7 = {} /\ x9 = {} /\ x8 = [i \in I!Inputs |-> I!NoDir]
        /\ x10 = I!Resting /\ x11 = [i \in I!Inputs |-> None] /\ x12 = 0
    BY DEF I!Init
  <1>2. PICK s \in Existing : x2 = [session |-> s, generation |-> 1]
    BY DEF I!Init
  <1>3. PICK S : x4 = [i \in I!Inputs |-> IF i \in S THEN "new" ELSE "unsent"]
    BY DEF I!Init
  <1>4. /\ x5 \in I!ActorType /\ x5.queue = <<>> /\ x5.active = None /\ x5.album.owner = None
        /\ x5.claim = x2.session
    <2>1. I!NoAlbum \in I!AlbumType /\ I!NoAlbum.owner = None
      BY DEF I!NoAlbum, I!AlbumType
    <2>2. PICK c : c = x2.session
      OBVIOUS
    <2>3. x5 = [queue |-> <<>>, album |-> I!NoAlbum, suppressed |-> FALSE, active |-> None,
                claim |-> c, runtime |-> "connected"]
      BY <2>2 DEF I!Init, I!NewActor
    <2>4. c \in Existing
      BY <1>2, <2>2
    <2> QED
      BY <2>1, <2>2, <2>3, <2>4, NoEntries DEF I!ActorType
  <1>5. I!TypeOK
    BY <1>1, <1>2, <1>3, <1>4 DEF I!TypeOK, I!NoDir, I!DirType, I!Resting
  <1>6. I!Waiting = {} /\ I!Fetching = {} /\ I!IdsDiffer
    BY <1>4, NoEntries, QueueNow
  <1>7. I!Cleaned = {None} /\ \A i \in I!Inputs : I!Collected(i) = {}
    BY <1>1, <1>n DEF I!Cleaned, I!Collected, I!Resting
  <1>8. I!InboxFollows /\ I!JobsFit /\ I!AlbumFits
    BY <1>1, <1>2, <1>3, <1>4, <1>6, <1>n DEF I!InboxFollows, I!JobsFit, I!AlbumFits
  <1>9. I!DirsFit
    BY <1>1, <1>3, <1>4, <1>6, <1>7, <1>n DEF I!DirsFit, I!DirFits, I!NoDir
  <1>10. I!ClaimFits
    BY <1>2, <1>4, <1>n DEF I!ClaimFits
  <1> QED
    BY <1>10, <1>5, <1>6, <1>8, <1>9 DEF I!IInv

\* Every step of the attachments keeps the invariant and the files of a session in use.
LEMMA IncomingStep == ASSUME I!IInv, I!Next PROVE I!IInv' /\ I!KeepsResumed
  <1>1. CASE \E i \in Singles : I!QueueMedia(i)
    BY <1>1, IncomingQueueMedia
  <1>2. CASE \E i \in Triple : I!AlbumBegins(i) \/ I!AlbumGrows(i) \/ I!AlbumRejected(i) \/ I!AlbumRefused(i)
    BY <1>2, IncomingAlbumBegins, IncomingAlbumGrows, IncomingAlbumRejected, IncomingAlbumRefused
  <1>3. CASE I!SuppressionEnds \/ \E v \in x6 : I!Seal(v)
    BY <1>3, IncomingSuppressionEnds, IncomingSeal
  <1>4. CASE \E j \in x7 : \/ I!PreparationBegins(j) \/ I!PreparationSucceeds(j) \/ I!PreparationFails(j)
                           \/ I!PreparedMedia(j) \/ I!Late(j)
    BY <1>4, IncomingPreparationBegins, IncomingPreparationSucceeds, IncomingPreparationFails,
       IncomingPreparedMedia, IncomingLate
  <1>5. CASE (\E i \in I!Inputs : I!CancelQueued(i)) \/ I!DispatchRestores \/ I!Dispatch \/ I!TaskEnds
    BY <1>5, IncomingCancelQueued, IncomingDispatchRestores, IncomingDispatch, IncomingTaskEnds
  <1>9. CASE I!CommandRestores \/ I!RuntimeReleased \/ I!RuntimeExits \/ I!Close
    BY <1>9, IncomingCommandRestores, IncomingRuntimeReleased, IncomingRuntimeExits, IncomingClose
  <1>6. CASE (\E s \in Existing : I!ResumeBegins(s)) \/ \E claimed \in BOOLEAN : I!ResumeEnds(claimed)
    BY <1>6, IncomingResume
  <1>7. CASE I!PeriodPasses \/ I!CleanupBegins \/ (\E i \in I!Inputs : I!CleanupVisits(i)) \/ I!CleanupRemoves
    BY <1>7, IncomingPeriodPasses, IncomingCleanupBegins, IncomingCleanupVisits, IncomingCleanupRemoves
  <1>8. CASE I!Stop \/ I!Exit \/ I!Crash \/ I!Restart
    BY <1>8, IncomingStop, IncomingExit, IncomingCrash, IncomingRestart
  <1> QED
    BY <1>1, <1>2, <1>3, <1>4, <1>5, <1>6, <1>7, <1>8, <1>9 DEF I!Next

\* Steps of other parts leave it alone.
LEMMA IncomingKept ==
    ASSUME I!IInv, UNCHANGED <<x1, x2, x3, x4, x5, x6, x7, x8, x9, x10, x11, x12>> PROVE I!IInv'
  <1>i. /\ I!TypeOK /\ I!IdsDiffer /\ I!InboxFollows /\ I!JobsFit /\ I!AlbumFits /\ I!DirsFit
    BY DEF I!IInv
  <1>s. I!Cleaned' = I!Cleaned /\ \A k : I!Collected(k)' = I!Collected(k)
    BY DEF I!Cleaned, I!Collected
  <1>q. I!Waiting' = I!Waiting /\ I!Fetching' = I!Fetching /\ I!IdsDiffer'
    BY <1>i, QueueKept
  <1>t. I!TypeOK'
    BY <1>i DEF I!TypeOK
  <1>1. I!InboxFollows' /\ I!AlbumFits'
    BY <1>i, <1>s, <1>q DEF I!InboxFollows, I!AlbumFits
  <1>2. I!JobsFit'
    BY <1>i, <1>s, <1>q DEF I!JobsFit, I!JobFits
  <1>3. I!DirsFit'
    BY <1>i, <1>s, <1>q DEF I!DirsFit, I!DirFits
  <1>f. I!ClaimFits'
    BY ClaimKept
  <1> QED
    BY <1>f, <1>t, <1>q, <1>1, <1>2, <1>3 DEF I!IInv

\* What follows for the directories.
LEMMA IncomingSafe == I!IInv => I!DirectoriesMatchTasks
  <1> SUFFICES ASSUME I!IInv PROVE I!DirectoriesMatchTasks
    OBVIOUS
  <1>i. /\ I!TypeOK /\ I!IdsDiffer /\ I!InboxFollows /\ I!JobsFit /\ I!AlbumFits /\ I!DirsFit
        /\ x5.queue \in Seq(I!EntryType) /\ Differ(x5.queue)
        /\ I!Waiting = Ids(x5.queue) /\ I!Fetching = Open(x5.queue) /\ I!Fetching \subseteq I!Waiting
        /\ I!Waiting \subseteq I!Inputs
        /\ x5.active \in I!Inputs \cup {None} /\ x5.album.owner \in I!Inputs \cup {None}
        /\ (\A k \in x7 : k.id \in I!Inputs) /\ x12 \in Nat
        /\ x5.album.owner # None => x5.album.owner \in I!Fetching
    BY IncomingParts
  <1>n. None \notin I!Inputs /\ None \notin Existing
    BY NoneIsNobody
  <1>1. I!Held(I!Inputs) = I!Waiting \ I!Fetching
    BY <1>i, QueueNow
  <1>2. \A j \in x7 : j.step = "writing" => x8[j.id].there
    BY <1>i DEF I!JobsFit, I!JobFits
  <1>3. ASSUME NEW i \in I!Inputs
        PROVE  /\ i = x5.active \/ i \in I!Held(I!Inputs) =>
                    /\ x8[i].there /\ i \in x9
                    /\ \A m \in I!Inputs : x11[m] = i => m \in x8[i].members
               /\ x4[i] = "dropped" /\ ~(\E j \in x7 : j.id = i) /\ x8[i].there => x8[i].life < x12
    BY <1>i, <1>1 DEF I!DirsFit, I!DirFits, I!Collected
  <1> QED
    BY <1>2, <1>3 DEF I!DirectoriesMatchTasks

-----------------------------------------------------------------------------
\* Recursion up to a number, for the functions of Research that are defined by it.

\* What holds at 0 and goes on from each number to the next holds up to n.
LEMMA UpTo ==
    ASSUME NEW n \in Nat, NEW Past, 0 \in Past, \A k \in 1..n : k - 1 \in Past => k \in Past
    PROVE  0..n \subseteq Past
  <1> DEFINE T == (0..n) \ Past
  <1> SUFFICES ASSUME T # {} PROVE FALSE
    OBVIOUS
  <1>1. T \subseteq Nat
    OBVIOUS
  <1> HIDE DEF T
  <1>2. PICK x \in T : \A y \in T : ~(<<y, x>> \in OpToRel(<, Nat))
    BY <1>1, WFMin, NatLessThanWellFounded
  <1>3. x \in T /\ x \in Nat /\ \A y \in T : ~(y < x)
    BY <1>1, <1>2 DEF OpToRel
  <1> QED
    BY <1>3 DEF T

\* f is the recursion from a by the steps G.
Recursive(f, n, U, a, G) ==
    f \in [0..n -> U] /\ f[0] = a /\ \A k \in 1..n : f[k] = G[<<k, f[k - 1]>>]

\* Recursion up to n has a result.
LEMMA Recursion ==
    ASSUME NEW n \in Nat, NEW U, NEW a \in U, NEW G \in [(1..n) \X U -> U]
    PROVE  \E f : Recursive(f, n, U, a, G)
  <1> DEFINE Begun(m, f) == f[0] = a /\ \A k \in 1..m : f[k] = G[<<k, f[k - 1]>>]
             Past == {m \in 0..n : \E f \in [0..m -> U] : Begun(m, f)}
  <1>1. 0 \in Past
    <2> DEFINE f == [k \in 0..0 |-> a]
    <2>1. f \in [0..0 -> U] /\ Begun(0, f)
      OBVIOUS
    <2> HIDE DEF f
    <2> QED
      BY <2>1
  <1>2. ASSUME NEW m \in 1..n, m - 1 \in Past PROVE m \in Past
    <2>1. PICK f \in [0..m - 1 -> U] : Begun(m - 1, f)
      BY <1>2
    <2> DEFINE g == [k \in 0..m |-> IF k = m THEN G[<<m, f[m - 1]>>] ELSE f[k]]
    <2>a. G[<<m, f[m - 1]>>] \in U
      <3>1. f[m - 1] \in U
        BY <2>1
      <3> QED
        BY <3>1
    <2>2. g \in [0..m -> U]
      BY <2>1, <2>a
    <2>b. g[m] = G[<<m, f[m - 1]>>] /\ \A k \in 0..m - 1 : g[k] = f[k]
      OBVIOUS
    <2> HIDE DEF g
    <2>3. Begun(m, g)
      <3>1. g[0] = a
        BY <2>1, <2>b
      <3>2. ASSUME NEW k \in 1..m PROVE g[k] = G[<<k, g[k - 1]>>]
        <4>1. CASE k = m
          BY <4>1, <2>b
        <4>2. CASE k # m
          <5>1. k \in 1..m - 1 /\ k - 1 \in 0..m - 1 /\ k \in 0..m - 1
            BY <4>2
          <5> QED
            BY <5>1, <2>1, <2>b
        <4> QED
          BY <4>1, <4>2
      <3> QED
        BY <3>1, <3>2
    <2> QED
      BY <2>2, <2>3
  <1>3. n \in Past
    <2> HIDE DEF Past
    <2>1. 0..n \subseteq Past
      BY <1>1, <1>2, UpTo
    <2> QED
      BY <2>1
  <1>4. PICK f \in [0..n -> U] : Begun(n, f)
    BY <1>3
  <1> QED
    BY <1>4 DEF Recursive

\* The entries that are kept are some of the queue's.
LEMMA OnlyIsQueue ==
    ASSUME NEW S, NEW q \in Seq(S), NEW kept
    PROVE  R!Only(q, kept) \in Seq(S)
  <1> DEFINE n == Len(q)
             U == Seq(S)
             Goes(k, x) == IF q[k] \in kept THEN Append(x, q[k]) ELSE x
             G == [p \in (1..n) \X U |-> Goes(p[1], p[2])]
             Eq(f) == f = [k \in 0..n |-> IF k = 0 THEN <<>> ELSE Goes(k, f[k - 1])]
             c == CHOOSE f : Eq(f)
  <1>1. n \in Nat /\ <<>> \in U /\ \A k \in 1..n, x \in U : Goes(k, x) \in U
    OBVIOUS
  <1>2. R!Only(q, kept) = c[n]
    BY DEF R!Only
  <1> HIDE DEF n, U, Goes
  <1>3. G \in [(1..n) \X U -> U] /\ \A k \in 1..n, x \in U : G[<<k, x>>] = Goes(k, x)
    BY <1>1
  <1> HIDE DEF G
  <1>4. \E f : Eq(f)
    <2>1. PICK f : Recursive(f, n, U, <<>>, G)
      BY <1>1, <1>3, Recursion
    <2>2. ASSUME NEW k \in 1..n PROVE f[k] = Goes(k, f[k - 1])
      <3>1. f \in [0..n -> U] /\ k - 1 \in 0..n /\ f[k] = G[<<k, f[k - 1]>>]
        BY <1>1, <2>1 DEF Recursive
      <3>2. f[k - 1] \in U
        BY <3>1
      <3> QED
        BY <1>3, <3>1, <3>2
    <2>3. f = [k \in 0..n |-> f[k]] /\ \A k \in 0..n : f[k] = IF k = 0 THEN <<>> ELSE Goes(k, f[k - 1])
      BY <2>1, <2>2 DEF Recursive
    <2> QED
      BY <2>3
  <1>5. Eq(c)
    BY <1>4
  <1> HIDE DEF c
  <1>6. c[0] = <<>> /\ \A k \in 1..n : c[k] = Goes(k, c[k - 1])
    BY <1>1, <1>5
  <1> DEFINE Past == {k \in 0..n : c[k] \in U}
  <1>7. 0 \in Past /\ \A k \in 1..n : k - 1 \in Past => k \in Past
    BY <1>1, <1>6
  <1> HIDE DEF Past
  <1>8. 0..n \subseteq Past
    BY <1>1, <1>7, UpTo
  <1> QED
    BY <1>1, <1>2, <1>8 DEF Past, U

-----------------------------------------------------------------------------
\* What a handler of the research actor keeps while it works.

\* OMP runs nothing and nothing is about to run.
Calm == ~x2.run /\ ~x2.pending

\* No operation in the lane can still switch research on.
Clear(s) == \A k \in DOMAIN s.lane : ~R!Switches(s.lane[k])

\* s is the actor within a handler that began with the task a: it is sound, the inputs
\* that are done are of done, and the task is still a.
Fit(s, done, a) ==
    /\ R!Sound(s, x1, Calm)
    /\ DOMAIN x3.inputs \subseteq DOMAIN s.inputs
    /\ \A i \in DOMAIN s.inputs : s.inputs[i].state = "done" => i \in done
    /\ s.active \in {0, a}
    /\ s.active # 0 /\ ~s.root => Nat \subseteq done
    /\ s.root /\ a \in done => Clear(s)

\* The fields Fit is about.
Same(t, s) ==
    /\ t \in R!ActorType
    /\ t.active = s.active /\ t.root = s.root /\ t.queue = s.queue /\ t.control = s.control
    /\ t.admission = s.admission /\ t.lane = s.lane /\ t.inputs = s.inputs

\* Some of the operations of s are dropped in t.
Voided(t, s) ==
    /\ DOMAIN t.lane = DOMAIN s.lane
    /\ \A k \in DOMAIN s.lane : t.lane[k] = s.lane[k] \/ t.lane[k] = R!Void

\* What a dropped operation leaves in the lane.
LEMMA VoidIs == R!Void \in R!OpType /\ R!Void.owner = "nobody" /\ R!Void.phase = "answered"
  BY DEF R!Void, R!Op, R!OpType

\* Other fields do not matter.
LEMMA SameFits ==
    ASSUME NEW s, NEW t, NEW done, NEW a, Fit(s, done, a), Same(t, s)
    PROVE  Fit(t, done, a)
  <1>1. R!LaneFits(t, x1, Calm) /\ (Clear(s) => Clear(t))
    BY DEF Fit, Same, R!Sound, R!LaneFits, R!OpFits, Clear
  <1>2. R!TaskFits(t, x1) /\ R!QueueFits(t)
    BY DEF Fit, Same, R!Sound, R!TaskFits, R!QueueFits
  <1> QED
    BY <1>1, <1>2 DEF Fit, Same, R!Sound

\* Operations that are dropped.
LEMMA VoidedFits ==
    ASSUME NEW s \in R!ActorType, NEW t, R!LaneFits(s, x1, Calm), Voided(t, s),
           t.root = s.root \/ Clear(s),
           t.control.intent = s.control.intent \/ \A k \in DOMAIN t.lane : t.lane[k].owner # "control"
    PROVE  R!LaneFits(t, x1, Calm) /\ (Clear(s) => Clear(t))
  <1>1. Clear(s) => Clear(t)
    BY VoidIs DEF Clear, Voided, R!Switches
  <1>2. ASSUME NEW k \in DOMAIN t.lane PROVE R!OpFits(t, k, x1, Calm)
    <2>1. CASE t.lane[k] = R!Void
      BY <2>1, VoidIs DEF R!OpFits, R!Switches
    <2>2. CASE t.lane[k] = s.lane[k] /\ t.lane[k] # R!Void
      <3>1. k \in DOMAIN s.lane /\ R!OpFits(s, k, x1, Calm)
        BY DEF Voided, R!LaneFits
      <3>2. ASSUME R!Switches(t.lane[k])
            PROVE  t.root /\ \A j \in 1..k - 1 : t.lane[j].owner \in {"nobody", "task"}
        <4>1. ~Clear(s) /\ s.root /\ \A j \in 1..k - 1 : s.lane[j].owner \in {"nobody", "task"}
          BY <2>2, <3>1, <3>2 DEF Clear, R!OpFits
        <4>2. \A j \in 1..k - 1 : j \in DOMAIN s.lane
          <5>1. s.lane \in Seq(R!OpType)
            BY DEF R!ActorType
          <5> QED
            BY <3>1, <5>1
        <4> QED
          BY <4>1, <4>2, VoidIs DEF Voided
      <3> QED
        BY <2>2, <3>1, <3>2 DEF R!OpFits
    <2> QED
      BY <2>1, <2>2 DEF Voided
  <1> QED
    BY <1>1, <1>2 DEF R!LaneFits

\* An owner's operations are dropped.
LEMMA DropIs ==
    ASSUME NEW s \in R!ActorType, NEW owner
    PROVE  LET t == R!Drop(s, owner) IN
           /\ t \in R!ActorType /\ t = [s EXCEPT !.lane = t.lane] /\ Voided(t, s)
           /\ t.active = s.active /\ t.root = s.root /\ t.queue = s.queue /\ t.control = s.control
           /\ t.admission = s.admission /\ t.inputs = s.inputs
           /\ owner # "nobody" => \A k \in DOMAIN t.lane : t.lane[k].owner # owner
  <1> DEFINE l == [i \in DOMAIN s.lane |-> IF s.lane[i].owner = owner THEN R!Void ELSE s.lane[i]]
             t == [s EXCEPT !.lane = l]
  <1>1. s.lane \in Seq(R!OpType)
    BY DEF R!ActorType
  <1>2. l \in Seq(R!OpType)
    BY <1>1, VoidIs
  <1>3. /\ DOMAIN l = DOMAIN s.lane
        /\ \A k \in DOMAIN s.lane : l[k] = s.lane[k] \/ l[k] = R!Void
        /\ owner # "nobody" => \A k \in DOMAIN l : l[k].owner # owner
    BY VoidIs
  <1> HIDE DEF l
  <1>4. t \in R!ActorType /\ t.lane = l
    BY <1>2 DEF R!ActorType
  <1>5. /\ t.active = s.active /\ t.root = s.root /\ t.queue = s.queue /\ t.control = s.control
        /\ t.admission = s.admission /\ t.inputs = s.inputs
    BY DEF R!ActorType
  <1>6. R!Drop(s, owner) = t
    BY DEF R!Drop, l
  <1>7. t = [s EXCEPT !.lane = t.lane]
    BY <1>4
  <1> HIDE DEF t
  <1> QED
    BY <1>3, <1>4, <1>5, <1>6, <1>7 DEF Voided

\* The probe and the control that are none.
LEMMA NothingsTyped == R!NoProbe \in R!ProbeType /\ R!NoControl \in R!ControlType /\ R!NoControl.intent = "none"
                       /\ ~R!NoControl.accepted /\ ~R!NoProbe.ready
  BY DEF R!NoProbe, R!ProbeType, R!NoControl, R!ControlType

\* The probe of the head is forgotten.
LEMMA InvalidateAdmissionFits ==
    ASSUME NEW s, NEW done, NEW a, Fit(s, done, a)
    PROVE  LET t == R!InvalidateAdmission(s) IN
           /\ Fit(t, done, a) /\ t.active = s.active /\ t.root = s.root /\ t.control = s.control
           /\ t.admission = R!NoProbe /\ t.inputs = s.inputs /\ t.queue = s.queue
           /\ \A k \in DOMAIN t.lane : t.lane[k].owner # "admission"
  <1> DEFINE d == R!Drop(s, "admission")
             t == [d EXCEPT !.admission = R!NoProbe]
  <1>s. s \in R!ActorType /\ R!LaneFits(s, x1, Calm) /\ R!TaskFits(s, x1) /\ R!QueueFits(s)
    BY DEF Fit, R!Sound
  <1>1. /\ d \in R!ActorType /\ Voided(d, s)
        /\ d.active = s.active /\ d.root = s.root /\ d.queue = s.queue /\ d.control = s.control
        /\ d.admission = s.admission /\ d.inputs = s.inputs
        /\ \A k \in DOMAIN d.lane : d.lane[k].owner # "admission"
    BY <1>s, DropIs
  <1> HIDE DEF d
  <1>2. /\ t \in R!ActorType /\ t.active = s.active /\ t.root = s.root /\ t.queue = s.queue
        /\ t.control = s.control /\ t.inputs = s.inputs /\ t.admission = R!NoProbe /\ t.lane = d.lane
    BY <1>1, NothingsTyped DEF R!ActorType
  <1>3. R!InvalidateAdmission(s) = t
    BY DEF R!InvalidateAdmission, d
  <1> HIDE DEF t
  <1>4. R!LaneFits(t, x1, Calm) /\ (Clear(s) => Clear(t))
    BY <1>s, <1>1, <1>2, VoidedFits DEF Voided
  <1>5. R!TaskFits(t, x1) /\ R!QueueFits(t)
    BY <1>s, <1>2, NothingsTyped DEF R!TaskFits, R!QueueFits
  <1>6. Fit(t, done, a)
    BY <1>2, <1>4, <1>5 DEF Fit, R!Sound
  <1> QED
    BY <1>1, <1>2, <1>3, <1>6

\* A settlement is not believed any more.
LEMMA InvalidateSettlementFits ==
    ASSUME NEW s, NEW done, NEW a, Fit(s, done, a)
    PROVE  LET t == R!InvalidateSettlement(s) IN
           /\ Fit(t, done, a) /\ t.active = s.active /\ t.root = s.root /\ t.control = s.control
           /\ t.admission = s.admission /\ t.inputs = s.inputs /\ t.queue = s.queue /\ Voided(t, s)
           /\ \A k \in DOMAIN t.lane : t.lane[k].owner # "settlement"
  <1> DEFINE d == R!Drop(s, "settlement")
             t == [d EXCEPT !.probing = FALSE, !.changed = TRUE]
  <1>s. s \in R!ActorType /\ R!LaneFits(s, x1, Calm) /\ R!TaskFits(s, x1) /\ R!QueueFits(s)
    BY DEF Fit, R!Sound
  <1>1. /\ d \in R!ActorType /\ Voided(d, s)
        /\ d.active = s.active /\ d.root = s.root /\ d.queue = s.queue /\ d.control = s.control
        /\ d.admission = s.admission /\ d.inputs = s.inputs
        /\ \A k \in DOMAIN d.lane : d.lane[k].owner # "settlement"
    BY <1>s, DropIs
  <1> HIDE DEF d
  <1>2. /\ t \in R!ActorType /\ t.active = s.active /\ t.root = s.root /\ t.queue = s.queue
        /\ t.control = s.control /\ t.inputs = s.inputs /\ t.admission = s.admission /\ t.lane = d.lane
    BY <1>1 DEF R!ActorType
  <1>3. R!InvalidateSettlement(s) = t
    BY DEF R!InvalidateSettlement, d
  <1> HIDE DEF t
  <1>4. R!LaneFits(t, x1, Calm) /\ (Clear(s) => Clear(t)) /\ Voided(t, s)
    BY <1>s, <1>1, <1>2, VoidedFits DEF Voided
  <1>5. R!TaskFits(t, x1) /\ R!QueueFits(t)
    BY <1>s, <1>2 DEF R!TaskFits, R!QueueFits
  <1>6. Fit(t, done, a)
    BY <1>2, <1>4, <1>5 DEF Fit, R!Sound
  <1> QED
    BY <1>1, <1>2, <1>3, <1>4, <1>6

\* The control is over, and what it asked is dropped.
LEMMA EndControlFits ==
    ASSUME NEW s, NEW done, NEW a, Fit(s, done, a)
    PROVE  LET t == R!EndControl(s) IN
           /\ Fit(t, done, a) /\ t.active = s.active /\ t.root = s.root /\ t.control = R!NoControl
           /\ t.admission = s.admission /\ t.inputs = s.inputs /\ t.queue = s.queue
  <1> DEFINE d == R!Drop(s, "control")
             t == [d EXCEPT !.control = R!NoControl]
  <1>s. s \in R!ActorType /\ R!LaneFits(s, x1, Calm) /\ R!TaskFits(s, x1) /\ R!QueueFits(s)
    BY DEF Fit, R!Sound
  <1>1. /\ d \in R!ActorType /\ Voided(d, s)
        /\ d.active = s.active /\ d.root = s.root /\ d.queue = s.queue /\ d.control = s.control
        /\ d.admission = s.admission /\ d.inputs = s.inputs
        /\ \A k \in DOMAIN d.lane : d.lane[k].owner # "control"
    BY <1>s, DropIs
  <1> HIDE DEF d
  <1>2. /\ t \in R!ActorType /\ t.active = s.active /\ t.root = s.root /\ t.queue = s.queue
        /\ t.control = R!NoControl /\ t.inputs = s.inputs /\ t.admission = s.admission /\ t.lane = d.lane
    BY <1>1, NothingsTyped DEF R!ActorType
  <1>3. R!EndControl(s) = t
    BY DEF R!EndControl, d
  <1> HIDE DEF t
  <1>4. R!LaneFits(t, x1, Calm) /\ (Clear(s) => Clear(t))
    BY <1>s, <1>1, <1>2, VoidedFits DEF Voided
  <1>5. R!TaskFits(t, x1) /\ R!QueueFits(t)
    BY <1>s, <1>2, NothingsTyped DEF R!TaskFits, R!QueueFits
  <1>6. Fit(t, done, a)
    BY <1>2, <1>4, <1>5 DEF Fit, R!Sound
  <1> QED
    BY <1>2, <1>3, <1>6


\* A function on the positions of a sequence is a sequence.
LEMMA SeqFrom ==
    ASSUME NEW U, NEW q \in Seq(U), NEW S, NEW f, DOMAIN f = DOMAIN q, f = [k \in DOMAIN q |-> f[k]],
           \A k \in DOMAIN q : f[k] \in S
    PROVE  f \in Seq(S) /\ Len(f) = Len(q)
  <1>1. Len(q) \in Nat /\ DOMAIN q = 1..Len(q)
    OBVIOUS
  <1> QED
    BY <1>1

\* The states of an input.
States == {"pending", "submitted", "done", "cancelled", "uncertain"}

\* Other states of the inputs, none of them done where that says more than it may.
LEMMA InputsFit ==
    ASSUME NEW s, NEW t, NEW done, NEW a, Fit(s, done, a), t \in R!ActorType,
           t.active = s.active, t.root = s.root, t.queue = s.queue, t.control = s.control,
           t.admission = s.admission, t.lane = s.lane, Len(t.inputs) >= Len(s.inputs),
           \A i \in DOMAIN t.inputs : t.inputs[i].state = "done" =>
                \/ i \in DOMAIN s.inputs /\ s.inputs[i].state = "done"
                \/ i \in done /\ ~(s.root /\ i = s.active)
    PROVE  Fit(t, done, a)
  <1>s. s \in R!ActorType /\ R!LaneFits(s, x1, Calm) /\ R!TaskFits(s, x1) /\ R!QueueFits(s)
    BY DEF Fit, R!Sound
  <1>1. DOMAIN s.inputs \subseteq DOMAIN t.inputs
    <2>1. s.inputs \in Seq(R!InputType) /\ t.inputs \in Seq(R!InputType)
      BY <1>s DEF R!ActorType
    <2> QED
      BY <2>1
  <1>2. R!LaneFits(t, x1, Calm) /\ (Clear(s) => Clear(t))
    BY <1>s DEF R!LaneFits, R!OpFits, Clear
  <1>3. R!TaskFits(t, x1)
    BY <1>s, <1>1 DEF R!TaskFits
  <1>4. R!QueueFits(t)
    BY <1>s, <1>1 DEF R!QueueFits
  <1> QED
    BY <1>s, <1>1, <1>2, <1>3, <1>4 DEF Fit, R!Sound

\* An input gets another state.
LEMMA MarkIs ==
    ASSUME NEW s \in R!ActorType, NEW i \in Nat, NEW state \in States
    PROVE  LET t == R!Mark(s, i, state) IN
           /\ t \in R!ActorType /\ t.active = s.active /\ t.root = s.root /\ t.queue = s.queue
           /\ t.control = s.control /\ t.admission = s.admission /\ t.lane = s.lane
           /\ t.client = s.client /\ t.enabled = s.enabled
           /\ Len(t.inputs) = Len(s.inputs) /\ DOMAIN t.inputs = DOMAIN s.inputs
           /\ \A k \in DOMAIN s.inputs : k # i => t.inputs[k] = s.inputs[k]
           /\ \A k \in DOMAIN s.inputs : t.inputs[k].kind = s.inputs[k].kind
           /\ i \in DOMAIN s.inputs => t.inputs[i].state = state
  <1> DEFINE l == [s.inputs EXCEPT ![i].state = state]
             t == [s EXCEPT !.inputs = l]
  <1>0. s.inputs \in Seq(R!InputType) /\ \A k \in DOMAIN s.inputs : s.inputs[k] \in R!InputType
    BY DEF R!ActorType
  <1>1. ASSUME NEW k \in DOMAIN s.inputs PROVE [s.inputs[k] EXCEPT !.state = state] \in R!InputType
    BY <1>0 DEF R!InputType, States
  <1>2. l \in Seq(R!InputType) /\ DOMAIN l = DOMAIN s.inputs /\ Len(l) = Len(s.inputs)
    <2>1. \A k \in DOMAIN s.inputs : l[k] = IF k = i THEN [s.inputs[k] EXCEPT !.state = state] ELSE s.inputs[k]
      OBVIOUS
    <2>2. DOMAIN l = DOMAIN s.inputs /\ l = [k \in DOMAIN s.inputs |-> l[k]]
      OBVIOUS
    <2>3. \A k \in DOMAIN s.inputs : l[k] \in R!InputType
      BY <1>0, <1>1, <2>1
    <2> HIDE DEF l
    <2> QED
      BY <1>0, <2>2, <2>3, SeqFrom
  <1>3. /\ \A k \in DOMAIN s.inputs : k # i => l[k] = s.inputs[k]
        /\ i \in DOMAIN s.inputs => l[i] = [s.inputs[i] EXCEPT !.state = state]
    BY <1>0
  <1>4. i \in DOMAIN s.inputs => l[i].state = state /\ l[i].kind = s.inputs[i].kind
    BY <1>0, <1>3 DEF R!InputType
  <1> HIDE DEF l
  <1>5. /\ t \in R!ActorType /\ t.active = s.active /\ t.root = s.root /\ t.queue = s.queue
        /\ t.control = s.control /\ t.admission = s.admission /\ t.lane = s.lane /\ t.inputs = l
        /\ t.client = s.client /\ t.enabled = s.enabled
    BY <1>2 DEF R!ActorType
  <1> HIDE DEF t
  <1>6. CASE i = 0
    <2>1. R!Mark(s, i, state) = s /\ i \notin DOMAIN s.inputs
      BY <1>0, <1>6 DEF R!Mark
    <2> QED
      BY <2>1
  <1>7. CASE i # 0
    <2>1. R!Mark(s, i, state) = t
      BY <1>7 DEF R!Mark, t, l
    <2> QED
      BY <1>2, <1>3, <1>4, <1>5, <2>1
  <1> QED
    BY <1>6, <1>7

\* A handler may mark an input, done only where that is confirmed.
LEMMA MarkFits ==
    ASSUME NEW s, NEW done, NEW a, Fit(s, done, a), NEW i \in Nat, NEW state \in States,
           state = "done" => i \in done /\ ~(s.root /\ i = s.active)
    PROVE  LET t == R!Mark(s, i, state) IN
           /\ Fit(t, done, a) /\ t.active = s.active /\ t.root = s.root /\ t.control = s.control
           /\ t.admission = s.admission /\ t.lane = s.lane /\ t.queue = s.queue
           /\ DOMAIN t.inputs = DOMAIN s.inputs /\ t.client = s.client /\ t.enabled = s.enabled
  <1> DEFINE t == R!Mark(s, i, state)
  <1>s. s \in R!ActorType
    BY DEF Fit, R!Sound
  <1>1. /\ t \in R!ActorType /\ t.active = s.active /\ t.root = s.root /\ t.queue = s.queue
        /\ t.control = s.control /\ t.admission = s.admission /\ t.lane = s.lane
        /\ t.client = s.client /\ t.enabled = s.enabled
        /\ Len(t.inputs) = Len(s.inputs) /\ DOMAIN t.inputs = DOMAIN s.inputs
        /\ \A k \in DOMAIN s.inputs : k # i => t.inputs[k] = s.inputs[k]
        /\ i \in DOMAIN s.inputs => t.inputs[i].state = state
    <2>1. i \in Nat /\ state \in States
      OBVIOUS
    <2> QED
      BY ONLY <1>s, <2>1, MarkIs, SMTT(30)
  <1>2. s.inputs \in Seq(R!InputType)
    BY <1>s DEF R!ActorType
  <1> HIDE DEF t
  <1>3. Len(t.inputs) >= Len(s.inputs)
    BY <1>1, <1>2
  <1>4. Fit(t, done, a)
    BY <1>1, <1>3, InputsFit
  <1> QED
    BY <1>1, <1>4 DEF t

\* cancelQueuedTask of some inputs.
LEMMA UnqueuedFits ==
    ASSUME NEW s, NEW done, NEW a, Fit(s, done, a), NEW gone
    PROVE  LET t == R!Unqueued(s, gone) IN
           /\ Fit(t, done, a) /\ t.active = s.active /\ t.root = s.root /\ t.control = s.control
           /\ t.admission = s.admission /\ t.lane = s.lane /\ t.inputs = s.inputs
           /\ t.client = s.client /\ t.enabled = s.enabled
  <1> DEFINE q == R!Only(s.queue, R!ToSet(s.queue) \ gone)
             t == [s EXCEPT !.queue = q]
             S == DOMAIN s.inputs
  <1>s. s \in R!ActorType /\ R!LaneFits(s, x1, Calm) /\ R!TaskFits(s, x1) /\ R!QueueFits(s)
    BY DEF Fit, R!Sound
  <1>1. s.queue \in Seq(Nat) /\ s.inputs \in Seq(R!InputType)
    BY <1>s DEF R!ActorType
  <1>2. s.queue \in Seq(S)
    <2>1. \A k \in DOMAIN s.queue : s.queue[k] \in S
      BY <1>s DEF R!QueueFits
    <2> QED
      BY <1>1, <2>1, SeqFrom
  <1>3. S \subseteq Nat
    BY <1>1
  <1> HIDE DEF S
  <1>4. q \in Seq(S)
    BY <1>2, OnlyIsQueue
  <1> HIDE DEF q
  <1>5. q \in Seq(Nat) /\ \A k \in DOMAIN q : q[k] \in S
    <2>1. \A k \in DOMAIN q : q[k] \in S /\ q[k] \in Nat
      <3>1. Len(q) \in Nat /\ DOMAIN q = 1..Len(q)
        BY <1>4
      <3>2. \A k \in DOMAIN q : q[k] \in S
        BY <1>4, <3>1, ElementOfSeq
      <3> QED
        BY <1>3, <3>2
    <2> QED
      BY <1>4, <2>1, SeqFrom
  <1>6. /\ t \in R!ActorType /\ t.active = s.active /\ t.root = s.root /\ t.queue = q
        /\ t.control = s.control /\ t.inputs = s.inputs /\ t.admission = s.admission /\ t.lane = s.lane
        /\ t.client = s.client /\ t.enabled = s.enabled
    BY <1>s, <1>5 DEF R!ActorType
  <1>7. R!Unqueued(s, gone) = t
    BY DEF R!Unqueued, q
  <1> HIDE DEF t
  <1>8. R!QueueFits(t) /\ R!TaskFits(t, x1)
    BY <1>s, <1>5, <1>6 DEF R!QueueFits, S, R!TaskFits
  <1>9. R!LaneFits(t, x1, Calm) /\ (Clear(s) => Clear(t))
    BY <1>s, <1>6 DEF R!LaneFits, R!OpFits, Clear
  <1>10. Fit(t, done, a)
    BY <1>6, <1>8, <1>9 DEF Fit, R!Sound
  <1> QED
    BY <1>6, <1>7, <1>10

\* Inputs that are cancelled.
LEMMA CancelledFits ==
    ASSUME NEW s, NEW done, NEW a, Fit(s, done, a), NEW gone
    PROVE  LET t == R!Cancelled(s, gone) IN
           /\ Fit(t, done, a) /\ t.active = s.active /\ t.root = s.root /\ t.control = s.control
           /\ t.admission = s.admission /\ t.lane = s.lane /\ t.client = s.client /\ t.enabled = s.enabled
           /\ DOMAIN t.inputs = DOMAIN s.inputs
  <1> DEFINE l == [i \in DOMAIN s.inputs |->
                      IF i \in gone THEN [s.inputs[i] EXCEPT !.state = "cancelled"] ELSE s.inputs[i]]
             t == [s EXCEPT !.inputs = l]
  <1>s. s \in R!ActorType
    BY DEF Fit, R!Sound
  <1>0. s.inputs \in Seq(R!InputType) /\ \A k \in DOMAIN s.inputs : s.inputs[k] \in R!InputType
    BY <1>s DEF R!ActorType
  <1>1. ASSUME NEW k \in DOMAIN s.inputs
        PROVE  LET r == [s.inputs[k] EXCEPT !.state = "cancelled"] IN r \in R!InputType /\ r.state = "cancelled"
    BY <1>0 DEF R!InputType
  <1>2. /\ l \in Seq(R!InputType) /\ DOMAIN l = DOMAIN s.inputs
        /\ \A k \in DOMAIN l : l[k].state = "done" => s.inputs[k].state = "done"
    <2>1. /\ DOMAIN l = DOMAIN s.inputs /\ l = [k \in DOMAIN s.inputs |-> l[k]]
          /\ \A k \in DOMAIN s.inputs : l[k] \in R!InputType /\ (l[k].state = "done" => s.inputs[k].state = "done")
      BY <1>0, <1>1
    <2> HIDE DEF l
    <2> QED
      BY <1>0, <2>1, SeqFrom, ZenonT(60)
  <1>3. Len(l) >= Len(s.inputs)
    BY <1>0, <1>2
  <1> HIDE DEF l
  <1>4. /\ t \in R!ActorType /\ t.active = s.active /\ t.root = s.root /\ t.queue = s.queue
        /\ t.control = s.control /\ t.admission = s.admission /\ t.lane = s.lane /\ t.inputs = l
        /\ t.client = s.client /\ t.enabled = s.enabled
    BY <1>s, <1>2 DEF R!ActorType
  <1>5. R!Cancelled(s, gone) = t
    BY DEF R!Cancelled, l
  <1> HIDE DEF t
  <1>6. Fit(t, done, a)
    BY <1>2, <1>3, <1>4, InputsFit
  <1> QED
    BY <1>2, <1>4, <1>5, <1>6

\* A cancelled input takes its lookup and its probe with it.
LEMMA WithoutFits ==
    ASSUME NEW s, NEW done, NEW a, Fit(s, done, a), NEW gone
    PROVE  LET t == R!WithoutRoute(R!WithoutAdmission(s, gone), gone) IN
           /\ Fit(t, done, a) /\ t.active = s.active /\ t.root = s.root
           /\ t.control \in {s.control, R!NoControl} /\ t.admission \in {s.admission, R!NoProbe}
           /\ t.inputs = s.inputs /\ t.queue = s.queue
  <1> DEFINE u == R!WithoutAdmission(s, gone)
             t == R!WithoutRoute(u, gone)
  <1>1. u \in {s, R!InvalidateAdmission(s)}
    BY DEF R!WithoutAdmission
  <1>2. /\ Fit(u, done, a) /\ u.active = s.active /\ u.root = s.root /\ u.control = s.control
        /\ u.admission \in {s.admission, R!NoProbe} /\ u.inputs = s.inputs /\ u.queue = s.queue
    BY <1>1, InvalidateAdmissionFits
  <1> HIDE DEF u
  <1>3. t \in {u, R!EndControl(u)}
    BY DEF R!WithoutRoute
  <1>4. /\ Fit(t, done, a) /\ t.active = u.active /\ t.root = u.root /\ t.control \in {u.control, R!NoControl}
        /\ t.admission = u.admission /\ t.inputs = u.inputs /\ t.queue = u.queue
    BY <1>2, <1>3, EndControlFits
  <1> HIDE DEF t
  <1> QED
    BY <1>2, <1>4 DEF t, u

\* cancelQueuedTask of all of these inputs.
LEMMA CancelAllFits ==
    ASSUME NEW s, NEW done, NEW a, Fit(s, done, a), NEW inputs
    PROVE  LET t == R!CancelAll(s, inputs) IN
           /\ Fit(t, done, a) /\ t.active = s.active /\ t.root = s.root
           /\ t.control \in {s.control, R!NoControl} /\ t.admission \in {s.admission, R!NoProbe}
           /\ DOMAIN t.inputs = DOMAIN s.inputs
  <1> DEFINE gone == R!ToSet(s.queue) \cap inputs
             u == R!WithoutRoute(R!WithoutAdmission(s, gone), gone)
             q == R!Unqueued(u, gone)
             t == R!Cancelled(q, gone)
  <1>0. R!CancelAll(s, inputs) = t
    BY DEF R!CancelAll
  <1> HIDE DEF gone
  <1>1. /\ Fit(u, done, a) /\ u.active = s.active /\ u.root = s.root
        /\ u.control \in {s.control, R!NoControl} /\ u.admission \in {s.admission, R!NoProbe}
        /\ u.inputs = s.inputs
    BY WithoutFits
  <1> HIDE DEF u
  <1>2. /\ Fit(q, done, a) /\ q.active = u.active /\ q.root = u.root /\ q.control = u.control
        /\ q.admission = u.admission /\ q.inputs = u.inputs
    BY <1>1, UnqueuedFits
  <1> HIDE DEF q
  <1>3. /\ Fit(t, done, a) /\ t.active = q.active /\ t.root = q.root /\ t.control = q.control
        /\ t.admission = q.admission /\ DOMAIN t.inputs = DOMAIN q.inputs
    BY <1>2, CancelledFits
  <1> HIDE DEF t
  <1> QED
    BY <1>0, <1>1, <1>2, <1>3

\* The queue pauses until the user goes on.
LEMMA PauseFits ==
    ASSUME NEW s, NEW done, NEW a, Fit(s, done, a), NEW pauses \in BOOLEAN
    PROVE  LET t == R!Pause(s, pauses) IN
           /\ Fit(t, done, a) /\ t.active = s.active /\ t.root = s.root /\ t.control = s.control
           /\ t.admission = s.admission /\ t.inputs = s.inputs /\ t.lane = s.lane
  <1> DEFINE t == [s EXCEPT !.disable = TRUE, !.paused = TRUE]
  <1>1. s \in R!ActorType
    BY DEF Fit, R!Sound
  <1>2. Same(t, s)
    BY <1>1 DEF Same, R!ActorType
  <1>3. R!Pause(s, pauses) \in {t, s}
    BY DEF R!Pause
  <1>4. Same(s, s)
    BY <1>1 DEF Same
  <1> HIDE DEF t
  <1> QED
    BY <1>2, <1>3, <1>4, SameFits DEF Same

\* cancelResearchControl
LEMMA CancelControlFits ==
    ASSUME NEW s, NEW done, NEW a, Fit(s, done, a)
    PROVE  LET t == R!CancelControl(s) IN
           /\ Fit(t, done, a) /\ t.active = s.active /\ t.root = s.root /\ t.control = R!NoControl
           /\ t.admission \in {s.admission, R!NoProbe} /\ DOMAIN t.inputs = DOMAIN s.inputs
  <1> DEFINE c == s.control
             e == R!EndControl(s)
             u == R!CancelQueued(e, c.input)
             i == IF c.intent = "off" THEN c.input ELSE 0
             m == R!Mark(e, i, "uncertain")
             b == c.intent # "route" \/ s.root
  <1>1. CASE ~R!Controlled(s)
    <2>1. R!CancelControl(s) = s /\ s.control = R!NoControl
      BY <1>1 DEF R!CancelControl, R!Controlled
    <2> QED
      BY <2>1
  <1>2. CASE R!Controlled(s)
    <2>1. R!CancelControl(s) = R!Pause(IF c.intent = "route" THEN u ELSE m, b)
      BY <1>2 DEF R!CancelControl
    <2>2. s \in R!ActorType
      BY DEF Fit, R!Sound
    <2>3. i \in Nat /\ b \in BOOLEAN
      BY <2>2 DEF R!ActorType, R!ControlType
    <2>4. /\ Fit(e, done, a) /\ e.active = s.active /\ e.root = s.root /\ e.control = R!NoControl
          /\ e.admission = s.admission /\ e.inputs = s.inputs
      BY EndControlFits
    <2> HIDE DEF e, i, b
    <2>5. /\ Fit(u, done, a) /\ u.active = e.active /\ u.root = e.root
          /\ u.control = R!NoControl /\ u.admission \in {e.admission, R!NoProbe}
          /\ DOMAIN u.inputs = DOMAIN e.inputs
      BY <2>4, CancelAllFits DEF R!CancelQueued
    <2>6. /\ Fit(m, done, a) /\ m.active = e.active /\ m.root = e.root /\ m.control = e.control
          /\ m.admission = e.admission /\ DOMAIN m.inputs = DOMAIN e.inputs
      BY <2>3, <2>4, MarkFits, ZenonT(60) DEF States
    <2> HIDE DEF u, m
    <2> QED
      BY <2>1, <2>3, <2>4, <2>5, <2>6, PauseFits
  <1> QED
    BY <1>1, <1>2

-----------------------------------------------------------------------------
\* The runtime and the task.

\* What is left of the lane is the return of the operation under way.
LEMMA ReleaseRuntimeFits ==
    ASSUME NEW s, NEW done, NEW a, Fit(s, done, a)
    PROVE  LET t == R!ReleaseRuntime(s) IN
           /\ Fit(t, done, a) /\ t.active = s.active /\ t.root = s.root /\ t.control = R!NoControl
           /\ t.admission = R!NoProbe /\ DOMAIN t.inputs = DOMAIN s.inputs /\ Clear(t)
           /\ \A k \in DOMAIN t.lane : t.lane[k] = R!Void
  <1> DEFINE u == R!InvalidateAdmission(s)
             c == R!CancelControl(u)
             v == R!InvalidateSettlement(c)
             l == IF v.lane = <<>> THEN <<>> ELSE <<R!Void>>
             t == [v EXCEPT !.client = 0, !.known = FALSE, !.enabled = FALSE, !.lane = l]
  <1>0. R!ReleaseRuntime(s) = t
    BY DEF R!ReleaseRuntime
  <1>1. /\ Fit(u, done, a) /\ u.active = s.active /\ u.root = s.root
        /\ u.admission = R!NoProbe /\ u.inputs = s.inputs
    BY InvalidateAdmissionFits
  <1> HIDE DEF u
  <1>2. /\ Fit(c, done, a) /\ c.active = u.active /\ c.root = u.root /\ c.control = R!NoControl
        /\ c.admission = R!NoProbe /\ DOMAIN c.inputs = DOMAIN u.inputs
    BY <1>1, CancelControlFits
  <1> HIDE DEF c
  <1>3. /\ Fit(v, done, a) /\ v.active = c.active /\ v.root = c.root /\ v.control = R!NoControl
        /\ v.admission = R!NoProbe /\ v.inputs = c.inputs
    BY <1>2, InvalidateSettlementFits
  <1> HIDE DEF v
  <1>4. l \in Seq(R!OpType) /\ \A k \in DOMAIN l : k = 1 /\ l[k] = R!Void
    BY VoidIs
  <1> HIDE DEF l
  <1>5. v \in R!ActorType
    BY <1>3 DEF Fit, R!Sound
  <1>6. /\ t \in R!ActorType /\ t.active = v.active /\ t.root = v.root /\ t.control = v.control
        /\ t.admission = v.admission /\ t.inputs = v.inputs /\ t.queue = v.queue /\ t.lane = l
    BY <1>4, <1>5 DEF R!ActorType
  <1> HIDE DEF t
  <1>7. Clear(t) /\ R!LaneFits(t, x1, Calm)
    BY <1>4, <1>6, VoidIs DEF Clear, R!Switches, R!LaneFits, R!OpFits
  <1>8. R!TaskFits(t, x1) /\ R!QueueFits(t)
    BY <1>3, <1>6 DEF Fit, R!Sound, R!TaskFits, R!QueueFits
  <1>9. Fit(t, done, a)
    BY <1>3, <1>6, <1>7, <1>8 DEF Fit, R!Sound
  <1> QED
    BY <1>0, <1>1, <1>2, <1>3, <1>4, <1>6, <1>7, <1>9

\* The task ends, and nothing in the lane can switch research on for it.
LEMMA FinishFits ==
    ASSUME NEW s, NEW done, NEW a, Fit(s, done, a), NEW state \in States,
           state = "done" => s.active \in done \cup {0}, s.root => Clear(s)
    PROVE  LET t == R!Finish(s, state) IN
           /\ Fit(t, done, a) /\ t.active = 0 /\ ~t.root /\ t.control = s.control
           /\ t.admission = s.admission /\ DOMAIN t.inputs = DOMAIN s.inputs
           /\ t.lane = s.lane
  <1> DEFINE m == R!Mark(s, s.active, state)
             t == [m EXCEPT !.active = 0, !.native = FALSE, !.root = FALSE, !.accepted = FALSE,
                            !.command = FALSE, !.open = FALSE]
  <1>s. s \in R!ActorType /\ R!LaneFits(s, x1, Calm) /\ R!TaskFits(s, x1) /\ R!QueueFits(s)
    BY DEF Fit, R!Sound
  <1>0. R!Finish(s, state) = t
    BY DEF R!Finish, R!ClearTask
  <1>1. /\ m \in R!ActorType /\ m.queue = s.queue /\ m.control = s.control
        /\ m.admission = s.admission /\ m.lane = s.lane
        /\ DOMAIN m.inputs = DOMAIN s.inputs
        /\ \A k \in DOMAIN s.inputs : k # s.active => m.inputs[k] = s.inputs[k]
        /\ s.active \in DOMAIN s.inputs => m.inputs[s.active].state = state
    <2>1. PICK i \in Nat : i = s.active
      BY <1>s DEF R!ActorType
    <2> DEFINE n == R!Mark(s, i, state)
    <2>2. /\ n \in R!ActorType /\ n.queue = s.queue /\ n.control = s.control
          /\ n.admission = s.admission /\ n.lane = s.lane
          /\ DOMAIN n.inputs = DOMAIN s.inputs
          /\ \A k \in DOMAIN s.inputs : k # i => n.inputs[k] = s.inputs[k]
          /\ i \in DOMAIN s.inputs => n.inputs[i].state = state
      BY <1>s, MarkIs
    <2> QED
      BY <2>1, <2>2
  <1> HIDE DEF m
  <1>2. /\ t \in R!ActorType /\ t.active = 0 /\ ~t.root /\ t.control = m.control
        /\ t.admission = m.admission /\ t.inputs = m.inputs /\ t.queue = m.queue /\ t.lane = m.lane
    BY <1>1 DEF R!ActorType
  <1> HIDE DEF t
  <1>3. Clear(s)
    BY <1>s DEF R!LaneFits, R!OpFits, Clear
  <1>4. R!LaneFits(t, x1, Calm)
    BY <1>s, <1>1, <1>2, <1>3 DEF R!LaneFits, R!OpFits, Clear
  <1>5. R!TaskFits(t, x1)
    BY <1>s, <1>1, <1>2 DEF R!TaskFits
  <1>6. R!QueueFits(t)
    BY <1>s, <1>1, <1>2 DEF R!QueueFits
  <1>7. \A i \in DOMAIN t.inputs : t.inputs[i].state = "done" => i \in done
    <2>1. s.inputs \in Seq(R!InputType)
      BY <1>s DEF R!ActorType
    <2>2. 0 \notin DOMAIN s.inputs
      BY <2>1
    <2> QED
      BY <1>1, <1>2, <2>2 DEF Fit
  <1> QED
    BY <1>0, <1>1, <1>2, <1>4, <1>5, <1>6, <1>7 DEF Fit, R!Sound

\* retireResearch: the process is killed and its root is uncertain.
LEMMA RetireResearchFits ==
    ASSUME NEW s, NEW done, NEW a, Fit(s, done, a)
    PROVE  LET t == R!RetireResearch(s) IN
           /\ Fit(t, done, a) /\ t.active = 0 /\ ~t.root /\ t.control = R!NoControl
           /\ t.admission = R!NoProbe /\ DOMAIN t.inputs = DOMAIN s.inputs
  <1> DEFINE u == R!InvalidateSettlement(s)
             p == R!Pause(u, TRUE)
             r == R!ReleaseRuntime(p)
             t == R!Finish(r, "uncertain")
  <1>1. Fit(u, done, a) /\ u.inputs = s.inputs
    BY InvalidateSettlementFits
  <1> HIDE DEF u
  <1>2. Fit(p, done, a) /\ p.inputs = u.inputs
    BY <1>1, PauseFits
  <1> HIDE DEF p
  <1>3. /\ Fit(r, done, a) /\ r.control = R!NoControl /\ r.admission = R!NoProbe
        /\ DOMAIN r.inputs = DOMAIN p.inputs /\ Clear(r)
    BY <1>2, ReleaseRuntimeFits
  <1> HIDE DEF r
  <1>4. /\ Fit(t, done, a) /\ t.active = 0 /\ ~t.root /\ t.control = r.control
        /\ t.admission = r.admission /\ DOMAIN t.inputs = DOMAIN r.inputs
    BY <1>3, FinishFits DEF States
  <1> HIDE DEF t
  <1>5. R!RetireResearch(s) = t
    BY DEF R!RetireResearch, t, r, p, u
  <1> QED
    BY <1>1, <1>2, <1>3, <1>4, <1>5

\* The task's process is gone, whatever kind of task it is.
LEMMA RetireTaskFits ==
    ASSUME NEW s, NEW done, NEW a, Fit(s, done, a)
    PROVE  LET t == R!RetireTask(s) IN
           /\ Fit(t, done, a) /\ t.active = 0 /\ ~t.root /\ t.control = R!NoControl
           /\ t.admission = R!NoProbe /\ DOMAIN t.inputs = DOMAIN s.inputs
  <1> DEFINE r == R!ReleaseRuntime(s)
             t == R!Finish(r, "uncertain")
  <1>3. /\ Fit(r, done, a) /\ r.control = R!NoControl /\ r.admission = R!NoProbe
        /\ DOMAIN r.inputs = DOMAIN s.inputs /\ Clear(r)
    BY ReleaseRuntimeFits
  <1> HIDE DEF r
  <1>4. /\ Fit(t, done, a) /\ t.active = 0 /\ ~t.root /\ t.control = r.control
        /\ t.admission = r.admission /\ DOMAIN t.inputs = DOMAIN r.inputs
    BY <1>3, FinishFits DEF States
  <1> HIDE DEF t
  <1>5. R!RetireTask(s) = IF s.root THEN R!RetireResearch(s) ELSE t
    BY DEF R!RetireTask, t, r
  <1> QED
    BY <1>3, <1>4, <1>5, RetireResearchFits

\* The process of the saved session is started.
LEMMA EnsureRuntimeFits ==
    ASSUME NEW s, NEW done, NEW a, Fit(s, done, a)
    PROVE  LET t == R!EnsureRuntime(s) IN
           /\ Fit(t, done, a) /\ t.active = s.active /\ t.root = s.root /\ t.control = s.control
           /\ t.admission = s.admission /\ t.inputs = s.inputs /\ t.lane = s.lane /\ t.queue = s.queue
  <1> DEFINE n == s.launched + 1
             t == [s EXCEPT !.launched = n, !.client = n, !.paused = FALSE]
  <1>1. s \in R!ActorType
    BY DEF Fit, R!Sound
  <1>2. n \in Nat
    BY <1>1 DEF R!ActorType
  <1> HIDE DEF n
  <1>3. Same(t, s) /\ Same(s, s)
    BY <1>1, <1>2 DEF Same, R!ActorType
  <1> HIDE DEF t
  <1>4. R!EnsureRuntime(s) \in {t, s}
    BY <1>1 DEF R!EnsureRuntime, R!RuntimeStarted, t, n
  <1> QED
    BY <1>3, <1>4, SameFits DEF Same

\* The revision of the catalog is a number.
LEMMA RevisionTyped == ASSUME NEW s, R!TypeOK PROVE R!Revision(s) \in Nat
  BY DEF R!Revision, R!TypeOK, R!ProcessType

\* What was read of the mode is remembered, with where it was read.
LEMMA RememberFits ==
    ASSUME NEW s, NEW done, NEW a, Fit(s, done, a), R!TypeOK, NEW enabled \in BOOLEAN
    PROVE  LET t == R!Remember(s, enabled) IN
           /\ Fit(t, done, a) /\ t.active = s.active /\ t.root = s.root /\ t.control = s.control
           /\ t.admission = s.admission /\ t.inputs = s.inputs /\ t.lane = s.lane /\ t.queue = s.queue
           /\ t.enabled = enabled
  <1> DEFINE p == [client |-> s.client, revision |-> R!Revision(s)]
             t == [s EXCEPT !.known = TRUE, !.enabled = enabled, !.proof = p]
  <1>1. s \in R!ActorType
    BY DEF Fit, R!Sound
  <1>2. p \in [client : Nat, revision : Nat]
    BY <1>1, RevisionTyped DEF R!ActorType
  <1> HIDE DEF p
  <1>3. Same(t, s) /\ t.enabled = enabled
    BY <1>1, <1>2 DEF Same, R!ActorType
  <1> HIDE DEF t
  <1>4. R!Remember(s, enabled) = t
    BY DEF R!Remember, t, p
  <1> QED
    BY <1>3, <1>4, SameFits DEF Same

-----------------------------------------------------------------------------
\* The lane.

\* An operation joins the lane.
LEMMA StartFits ==
    ASSUME NEW s, NEW done, NEW a, Fit(s, done, a), NEW op \in R!OpType, op.phase = "sent",
           op.step \notin {"goal", "toggle"}, op.owner \in {"admission", "settlement"} => op.step = "mode",
           op.owner = "control" => /\ op.step \in {"mode", "postmode", "identity", "idle", "off"}
                                   /\ s.control.intent # "none" /\ (op.step # "mode" => s.control.intent # "route"),
           op.owner = "settlement" => op.value \in Nat
    PROVE  LET t == R!Start(s, op) IN
           /\ Fit(t, done, a) /\ t.active = s.active /\ t.root = s.root /\ t.control = s.control
           /\ t.admission = s.admission /\ t.inputs = s.inputs /\ t.queue = s.queue
  <1> DEFINE l == Append(s.lane, op)
             t == [s EXCEPT !.lane = l]
  <1>s. s \in R!ActorType /\ R!LaneFits(s, x1, Calm) /\ R!TaskFits(s, x1) /\ R!QueueFits(s)
    BY DEF Fit, R!Sound
  <1>1. s.lane \in Seq(R!OpType)
    BY <1>s DEF R!ActorType
  <1>2. /\ l \in Seq(R!OpType) /\ DOMAIN s.lane = 1..Len(s.lane) /\ DOMAIN l = 1..Len(s.lane) + 1 /\ Len(s.lane) \in Nat
        /\ \A k \in 1..Len(s.lane) : l[k] = s.lane[k]
        /\ l[Len(s.lane) + 1] = op
    BY <1>1
  <1> HIDE DEF l
  <1>3. /\ t \in R!ActorType /\ t.active = s.active /\ t.root = s.root /\ t.queue = s.queue
        /\ t.control = s.control /\ t.inputs = s.inputs /\ t.admission = s.admission /\ t.lane = l
    BY <1>s, <1>2 DEF R!ActorType
  <1>4. R!Start(s, op) = t
    BY DEF R!Start, l
  <1> HIDE DEF t
  <1>5. ~R!Switches(op)
    BY DEF R!Switches
  <1>6. ASSUME NEW k \in DOMAIN t.lane PROVE R!OpFits(t, k, x1, Calm)
    <2>1. CASE k = Len(s.lane) + 1
      <3>1. t.lane[k] = op
        BY <1>2, <1>3, <2>1
      <3> QED
        BY <1>3, <1>5, <3>1 DEF R!OpFits
    <2>2. CASE k \in 1..Len(s.lane)
      <3>1. t.lane[k] = s.lane[k] /\ R!OpFits(s, k, x1, Calm) /\ \A j \in 1..k - 1 : t.lane[j] = s.lane[j]
        BY <1>s, <1>2, <1>3, <2>2 DEF R!LaneFits
      <3> QED
        BY <1>3, <3>1 DEF R!OpFits
    <2> QED
      BY <1>2, <1>3, <2>1, <2>2
  <1>7. R!LaneFits(t, x1, Calm)
    BY <1>6 DEF R!LaneFits
  <1>8. Clear(s) => Clear(t)
    BY <1>2, <1>3, <1>5 DEF Clear
  <1>9. R!TaskFits(t, x1) /\ R!QueueFits(t)
    BY <1>s, <1>3 DEF R!TaskFits, R!QueueFits
  <1>10. Fit(t, done, a)
    BY <1>3, <1>7, <1>8, <1>9 DEF Fit, R!Sound
  <1> QED
    BY <1>3, <1>4, <1>10

\* An operation that is sent.
LEMMA OpIs ==
    ASSUME NEW owner \in {"task", "control", "admission", "settlement", "nobody"},
           NEW step \in R!Kinds \cup {"none", "mode", "postmode", "identity", "idle"}, NEW turn \in Nat
    PROVE  LET op == R!Op(owner, step, turn) IN
           op \in R!OpType /\ op.owner = owner /\ op.step = step /\ op.phase = "sent"
  BY DEF R!Op, R!OpType

-----------------------------------------------------------------------------
\* Controls.

\* The control goes on with a call.
LEMMA StepFits ==
    ASSUME NEW s, NEW done, NEW a, Fit(s, done, a),
           NEW step \in {"mode", "postmode", "identity", "idle", "off"}, s.control.intent # "none",
           step # "mode" => s.control.intent # "route"
    PROVE  LET t == R!Step(s, step) IN
           /\ Fit(t, done, a) /\ t.active = s.active /\ t.root = s.root /\ t.control.intent = s.control.intent
           /\ t.control.input = s.control.input /\ t.control.accepted = s.control.accepted
           /\ t.inputs = s.inputs
  <1> DEFINE c == [s.control EXCEPT !.phase = step]
             u == [s EXCEPT !.control = c]
             op == R!Op("control", step, u.turn)
             t == R!Start(u, op)
  <1>s. s \in R!ActorType /\ R!LaneFits(s, x1, Calm) /\ R!TaskFits(s, x1) /\ R!QueueFits(s)
    BY DEF Fit, R!Sound
  <1>1. s.control \in R!ControlType
    BY <1>s DEF R!ActorType
  <1>2. /\ c \in R!ControlType /\ c.intent = s.control.intent /\ c.input = s.control.input
        /\ c.accepted = s.control.accepted
    BY <1>1 DEF R!ControlType
  <1> HIDE DEF c
  <1>3. /\ u \in R!ActorType /\ u.active = s.active /\ u.root = s.root /\ u.queue = s.queue
        /\ u.control = c /\ u.inputs = s.inputs /\ u.admission = s.admission /\ u.lane = s.lane
        /\ u.turn = s.turn /\ u.turn \in Nat
    BY <1>s, <1>2 DEF R!ActorType
  <1>4. R!Step(s, step) = t
    <2>1. u = [s EXCEPT !.control.phase = step]
      BY <1>s, <1>1 DEF c, R!ActorType
    <2>2. u.turn = s.turn
      BY <1>3
    <2> HIDE DEF u
    <2> QED
      BY <2>1, <2>2 DEF R!Step
  <1> HIDE DEF u
  <1>5. R!LaneFits(u, x1, Calm) /\ (Clear(s) => Clear(u))
    BY <1>s, <1>2, <1>3 DEF R!LaneFits, R!OpFits, Clear
  <1>6. R!TaskFits(u, x1) /\ R!QueueFits(u)
    BY <1>s, <1>2, <1>3 DEF R!TaskFits, R!QueueFits
  <1>7. Fit(u, done, a)
    BY <1>3, <1>5, <1>6 DEF Fit, R!Sound
  <1>8. op \in R!OpType /\ op.owner = "control" /\ op.step = step /\ op.phase = "sent"
    BY <1>3, OpIs DEF R!Kinds
  <1> HIDE DEF op
  <1>9. /\ Fit(t, done, a) /\ t.active = u.active /\ t.root = u.root /\ t.control = u.control
        /\ t.inputs = u.inputs
    BY <1>2, <1>3, <1>7, <1>8, StartFits
  <1> HIDE DEF t
  <1> QED
    BY <1>2, <1>3, <1>4, <1>9

\* The control changes, what it is for does not.
LEMMA ControlKeeps ==
    ASSUME NEW s, NEW t, NEW done, NEW a, Fit(s, done, a), t \in R!ActorType,
           t.active = s.active, t.root = s.root, t.queue = s.queue, t.admission = s.admission,
           t.lane = s.lane, t.inputs = s.inputs, t.control.intent = s.control.intent,
           t.control.accepted => t.control.intent \notin {"none", "route"}
    PROVE  Fit(t, done, a)
  <1>s. s \in R!ActorType /\ R!LaneFits(s, x1, Calm) /\ R!TaskFits(s, x1) /\ R!QueueFits(s)
    BY DEF Fit, R!Sound
  <1>1. R!LaneFits(t, x1, Calm) /\ (Clear(s) => Clear(t))
    BY <1>s DEF R!LaneFits, R!OpFits, Clear
  <1>2. R!TaskFits(t, x1) /\ R!QueueFits(t)
    BY <1>s DEF R!TaskFits, R!QueueFits
  <1> QED
    BY <1>1, <1>2 DEF Fit, R!Sound

\* A control begins where there is none.
LEMMA NewControlFits ==
    ASSUME NEW s, NEW done, NEW a, Fit(s, done, a), s.control.intent = "none", R!TypeOK,
           NEW what \in {"route", "off", "local"}, NEW i \in Nat, what = "off" => ~s.root
    PROVE  LET t == R!NewControl(s, what, i) IN
           /\ Fit(t, done, a) /\ t.active = s.active /\ t.root = s.root /\ t.control.intent = what
           /\ t.control.input = i /\ ~t.control.accepted /\ t.control \in R!ControlType
           /\ t.inputs = s.inputs /\ t.admission = s.admission /\ t.lane = s.lane /\ t.queue = s.queue
  <1> DEFINE c == [R!NoControl EXCEPT !.intent = what, !.input = i, !.turn = s.turn, !.revision = R!Revision(s)]
             t == [s EXCEPT !.control = c]
  <1>s. s \in R!ActorType /\ R!LaneFits(s, x1, Calm) /\ R!TaskFits(s, x1) /\ R!QueueFits(s)
    BY DEF Fit, R!Sound
  <1>1. s.turn \in Nat /\ R!Revision(s) \in Nat
    BY <1>s, RevisionTyped DEF R!ActorType
  <1>2. c \in R!ControlType /\ c.intent = what /\ c.input = i /\ ~c.accepted
    BY <1>1, NothingsTyped DEF R!ControlType
  <1>3. R!NewControl(s, what, i) = t
    BY DEF R!NewControl
  <1> HIDE DEF c
  <1>4. /\ t \in R!ActorType /\ t.active = s.active /\ t.root = s.root /\ t.queue = s.queue
        /\ t.control = c /\ t.inputs = s.inputs /\ t.admission = s.admission /\ t.lane = s.lane
    BY <1>s, <1>2 DEF R!ActorType
  <1> HIDE DEF t
  <1>5. \A k \in DOMAIN s.lane : s.lane[k].owner # "control"
    BY <1>s DEF R!LaneFits, R!OpFits
  <1>6. R!LaneFits(t, x1, Calm) /\ (Clear(s) => Clear(t))
    BY <1>s, <1>4, <1>5 DEF R!LaneFits, R!OpFits, Clear
  <1>7. R!TaskFits(t, x1) /\ R!QueueFits(t)
    BY <1>s, <1>2, <1>4 DEF R!TaskFits, R!QueueFits
  <1>8. Fit(t, done, a)
    BY <1>4, <1>6, <1>7 DEF Fit, R!Sound
  <1> QED
    BY <1>2, <1>3, <1>4, <1>8

\* The mode is looked up before anything is submitted.
LEMMA LookupFits ==
    ASSUME NEW s, NEW done, NEW a, Fit(s, done, a), s.control.intent = "none", R!TypeOK,
           NEW what \in {"route", "off"}, NEW i \in Nat, what = "off" => ~s.root
    PROVE  LET t == R!Lookup(s, what, i) IN
           Fit(t, done, a) /\ t.active = s.active /\ t.root = s.root /\ t.inputs = s.inputs
  <1> DEFINE n == R!NewControl(s, what, i)
             t == R!Step(n, "mode")
  <1>1. Fit(n, done, a) /\ n.active = s.active /\ n.root = s.root /\ n.control.intent = what /\ n.inputs = s.inputs
    BY NewControlFits
  <1>2. R!Lookup(s, what, i) = t
    BY DEF R!Lookup
  <1> HIDE DEF n
  <1>3. Fit(t, done, a) /\ t.active = n.active /\ t.root = n.root /\ t.inputs = n.inputs
    BY <1>1, StepFits
  <1> QED
    BY <1>1, <1>2, <1>3

\* prepareResearchControlRuntime, and the command that switches research off.
LEMMA NativeOffFits ==
    ASSUME NEW s, NEW done, NEW a, Fit(s, done, a), s.control.intent = "none", R!TypeOK,
           ~s.root, NEW i \in Nat, NEW starts
    PROVE  Fit(R!NativeOff(s, i, starts), done, a)
  <1> DEFINE e == R!EnsureRuntime(s)
             n == R!NewControl(e, "off", i)
             c == [n.control EXCEPT !.native = TRUE]
             u == [n EXCEPT !.control = c]
             t == R!Step(u, "identity")
             m == R!Mark(s, i, "uncertain")
  <1>1. Fit(e, done, a) /\ e.root = s.root /\ e.control = s.control
    BY EnsureRuntimeFits
  <1> HIDE DEF e
  <1>2. /\ Fit(n, done, a) /\ n.active = e.active /\ n.control.intent = "off" /\ ~n.control.accepted
        /\ n.control \in R!ControlType
    BY <1>1, NewControlFits
  <1> HIDE DEF n
  <1>3. c \in R!ControlType /\ c.intent = "off" /\ ~c.accepted
    BY <1>2 DEF R!ControlType
  <1> HIDE DEF c
  <1>4. n \in R!ActorType
    BY <1>2 DEF Fit, R!Sound
  <1>5. /\ u \in R!ActorType /\ u.active = n.active /\ u.root = n.root /\ u.queue = n.queue
        /\ u.control = c /\ u.inputs = n.inputs /\ u.admission = n.admission /\ u.lane = n.lane
    BY <1>3, <1>4 DEF R!ActorType
  <1>6. u = [n EXCEPT !.control.native = TRUE]
    BY <1>2, <1>4 DEF c, R!ActorType
  <1> HIDE DEF u
  <1>7. Fit(u, done, a)
    BY <1>2, <1>3, <1>5, ControlKeeps
  <1>8. Fit(t, done, a)
    BY <1>3, <1>5, <1>7, StepFits
  <1>9. Fit(m, done, a)
    BY MarkFits DEF States
  <1>10. R!NativeOff(s, i, starts) = IF R!CanStart(s, starts) THEN t ELSE m
    BY <1>6 DEF R!NativeOff, t, n, e
  <1> QED
    BY <1>8, <1>9, <1>10

\* A running root is retired before research is switched off.
LEMMA BeginDisableFits ==
    ASSUME NEW s, NEW done, NEW a, Fit(s, done, a), s.control.intent = "none", R!TypeOK,
           NEW i \in Nat, NEW starts
    PROVE  Fit(R!BeginDisable(s, i, starts), done, a)
  <1> DEFINE busy == R!TaskActive(s) \/ s.root \/ s.lane # <<>>
             r == IF busy THEN R!RetireResearch(s) ELSE s
             p == R!Pause(r, TRUE)
  <1>1. Fit(r, done, a) /\ r.control.intent = "none" /\ ~r.root
    BY RetireResearchFits, NothingsTyped
  <1> HIDE DEF r
  <1>2. Fit(p, done, a) /\ p.control.intent = "none" /\ ~p.root
    BY <1>1, PauseFits
  <1> HIDE DEF p
  <1>3. Fit(R!NativeOff(p, i, starts), done, a)
    BY <1>2, NativeOffFits
  <1> QED
    BY <1>3 DEF R!BeginDisable, p, r, busy

\* A control gives way to another one.
LEMMA ReplaceFits ==
    ASSUME NEW s, NEW done, NEW a, Fit(s, done, a), NEW readOnly
    PROVE  LET t == R!Replace(s, readOnly) IN
           /\ Fit(t, done, a) /\ t.control = R!NoControl /\ (t.root => s.root)
  <1> DEFINE c == R!CancelControl(s)
  <1>1. Fit(c, done, a) /\ c.control = R!NoControl /\ c.root = s.root
    BY CancelControlFits
  <1> HIDE DEF c
  <1>2. Fit(R!RetireResearch(c), done, a) /\ R!RetireResearch(c).control = R!NoControl /\ ~R!RetireResearch(c).root
    BY <1>1, RetireResearchFits
  <1>3. R!Replace(s, readOnly) = IF ~R!Controlled(s) THEN s ELSE IF readOnly THEN c ELSE R!RetireResearch(c)
    BY DEF R!Replace, c
  <1>4. ~R!Controlled(s) => s.control = R!NoControl
    BY DEF R!Controlled
  <1> QED
    BY <1>1, <1>2, <1>3, <1>4

\* An off that is confirmed, looked up or carried out.
LEMMA DisableOrConfirmFits ==
    ASSUME NEW s, NEW done, NEW a, Fit(s, done, a), s.control.intent = "none", R!TypeOK,
           NEW i \in Nat, NEW ordinary, NEW replaced, NEW starts, ordinary => ~s.root
    PROVE  Fit(R!DisableOrConfirm(s, i, ordinary, replaced, starts), done, a)
  <1>1. CASE ordinary /\ s.client # 0 /\ R!TaskActive(s) /\ R!OffProof(s)
    <2>1. i \in done
      BY <1>1 DEF Fit, R!TaskActive
    <2>2. Fit(R!Mark(s, i, "done"), done, a)
      BY <1>1, <2>1, MarkFits DEF States
    <2> QED
      BY <1>1, <2>2 DEF R!DisableOrConfirm
  <1>2. ordinary => Fit(R!Lookup(s, "off", i), done, a)
    BY LookupFits
  <1>3. Fit(R!BeginDisable(s, i, starts), done, a)
    BY BeginDisableFits
  <1> QED
    BY <1>1, <1>2, <1>3 DEF R!DisableOrConfirm

\* disableResearch
LEMMA DisableFits ==
    ASSUME NEW s, NEW done, NEW a, Fit(s, done, a), R!TypeOK, NEW i \in Nat, NEW starts
    PROVE  Fit(R!Disable(s, i, starts), done, a)
  <1> DEFINE active == s.root \/ s.enabled
             replaced == R!Controlled(s) /\ R!ReadOnly(s.control) /\ ~active
             kept == R!CancelAll(s, IF active \/ s.disable THEN R!Toggles(s) ELSE {})
             r == R!Replace(kept, replaced)
             u == R!InvalidateAdmission(r)
  <1>1. Fit(kept, done, a) /\ kept.root = s.root
    BY CancelAllFits
  <1> HIDE DEF kept
  <1>2. Fit(r, done, a) /\ r.control = R!NoControl /\ (r.root => kept.root)
    BY <1>1, ReplaceFits
  <1> HIDE DEF r
  <1>3. Fit(u, done, a) /\ u.control = R!NoControl /\ u.root = r.root
    BY <1>2, InvalidateAdmissionFits
  <1> HIDE DEF u
  <1>4. ~active => ~u.root
    BY <1>1, <1>2, <1>3
  <1>5. Fit(R!DisableOrConfirm(u, i, ~active, replaced, starts), done, a)
    BY <1>3, <1>4, NothingsTyped, DisableOrConfirmFits
  <1> QED
    BY <1>5 DEF R!Disable, u, r, kept

\* What a failed control leaves: nothing is reported done.
LEMMA FailedControlFits ==
    ASSUME NEW s, NEW done, NEW a, Fit(s, done, a), NEW c \in R!ControlType
    PROVE  Fit(R!FailedControl(s, c), done, a)
  <1> DEFINE q == R!CancelQueued(s, c.input)
             u == IF s.root THEN R!RetireResearch(q) ELSE q
             t == [u EXCEPT !.paused = TRUE]
  <1>c. c.input \in Nat
    BY DEF R!ControlType
  <1>1. CASE c.intent = "route"
    <2>1. Fit(q, done, a)
      BY CancelAllFits DEF R!CancelQueued
    <2> HIDE DEF q
    <2>2. Fit(u, done, a)
      BY <2>1, RetireResearchFits
    <2> HIDE DEF u
    <2>3. Same(t, u)
      BY <2>2 DEF Fit, R!Sound, Same, R!ActorType
    <2>4. Fit(t, done, a)
      BY <2>2, <2>3, SameFits
    <2>5. ~(R!ReadOnly(c) /\ c.intent = "off") /\ R!ReadOnly(c)
      BY <1>1 DEF R!ReadOnly
    <2> HIDE DEF t
    <2>6. R!FailedControl(s, c) = t
      BY <1>1, <2>5 DEF R!FailedControl, t, u, q
    <2> QED
      BY <2>4, <2>6
  <1>2. CASE R!ReadOnly(c) /\ c.intent = "off"
    <2> DEFINE p == R!Pause(s, TRUE)
    <2>1. Fit(p, done, a)
      BY PauseFits
    <2> HIDE DEF p
    <2>2. Fit(R!Mark(p, c.input, "uncertain"), done, a)
      BY <1>c, <2>1, MarkFits DEF States
    <2>3. R!FailedControl(s, c) = R!Mark(p, c.input, "uncertain")
      BY <1>2 DEF R!FailedControl, p
    <2> QED
      BY <2>2, <2>3
  <1>3. CASE ~R!ReadOnly(c)
    <2> DEFINE p == R!Pause(s, TRUE)
               v == IF c.intent = "local" \/ R!TaskActive(s) THEN R!RetireResearch(s) ELSE R!ReleaseRuntime(p)
               i == IF c.intent = "off" THEN c.input ELSE 0
    <2>1. Fit(p, done, a)
      BY PauseFits
    <2> HIDE DEF p
    <2>2. Fit(v, done, a)
      BY <2>1, RetireResearchFits, ReleaseRuntimeFits
    <2>3. i \in Nat
      BY <1>c
    <2>4. R!FailedControl(s, c) = R!Mark(v, i, "uncertain")
      BY <1>3 DEF R!FailedControl, R!ReadOnly, p
    <2> HIDE DEF v, i
    <2>5. Fit(R!Mark(v, i, "uncertain"), done, a)
      BY <2>2, <2>3, MarkFits DEF States
    <2> QED
      BY <2>4, <2>5
  <1> QED
    BY <1>1, <1>2, <1>3 DEF R!ReadOnly

\* failResearchControl
LEMMA ControlFailedFits ==
    ASSUME NEW s, NEW done, NEW a, Fit(s, done, a)
    PROVE  Fit(R!ControlFailed(s), done, a)
  <1> DEFINE e == R!EndControl(s)
             u == [e EXCEPT !.known = FALSE]
  <1>1. Fit(e, done, a)
    BY EndControlFits
  <1> HIDE DEF e
  <1>2. Same(u, e)
    BY <1>1 DEF Fit, R!Sound, Same, R!ActorType
  <1> HIDE DEF u
  <1>3. Fit(u, done, a)
    BY <1>1, <1>2, SameFits
  <1>4. s.control \in R!ControlType
    BY DEF Fit, R!Sound, R!ActorType
  <1>5. R!ControlFailed(s) = R!FailedControl(u, s.control)
    BY DEF R!ControlFailed, u, e
  <1> QED
    BY <1>3, <1>4, <1>5, FailedControlFits

\* A command whose lookup is over stays queued or switches research off.
LEMMA FinishRouteFits ==
    ASSUME NEW s, NEW done, NEW a, Fit(s, done, a), R!TypeOK, NEW enabled, NEW starts
    PROVE  Fit(R!FinishRoute(s, enabled, starts), done, a)
  <1> DEFINE e == R!EndControl(s)
             i == s.control.input
             u == R!Unqueued(e, {i})
             m == R!Mark(u, i, "submitted")
  <1>1. Fit(e, done, a)
    BY EndControlFits
  <1>2. i \in Nat
    BY DEF Fit, R!Sound, R!ActorType, R!ControlType
  <1> HIDE DEF e, i
  <1>3. Fit(u, done, a)
    BY <1>1, UnqueuedFits
  <1> HIDE DEF u
  <1>4. Fit(m, done, a)
    BY <1>2, <1>3, MarkFits DEF States
  <1> HIDE DEF m
  <1>5. Fit(R!Disable(m, i, starts), done, a)
    BY <1>2, <1>4, DisableFits
  <1>6. R!FinishRoute(s, enabled, starts) \in {e, R!Disable(m, i, starts)}
    BY DEF R!FinishRoute, m, u, i, e
  <1> QED
    BY <1>1, <1>5, <1>6

\* What an answer to a control says when it is handled: whoever is marked done then may be.
Confirmed(s, done, a) ==
    /\ s.control.intent = "off" => Nat \subseteq done
    /\ s.control.intent = "local" => a \in done

\* finishResearchControl: what is done now is confirmed.
LEMMA FinishControlFits ==
    ASSUME NEW s, NEW done, NEW a, Fit(s, done, a), s.control.intent \in {"off", "local"},
           Confirmed(s, done, a)
    PROVE  Fit(R!FinishControl(s), done, a)
  <1> DEFINE e == R!EndControl(s)
             u == [e EXCEPT !.command = FALSE]
             v == [u EXCEPT !.disable = FALSE, !.paused = FALSE, !.root = FALSE]
             i == s.control.input
  <1>1. Fit(e, done, a) /\ e.root = s.root
    BY EndControlFits
  <1>2. i \in Nat /\ (s.control.intent = "off" => ~s.root)
    BY DEF Fit, R!Sound, R!ActorType, R!ControlType, R!TaskFits
  <1> HIDE DEF e, i
  <1>3. Same(u, e)
    BY <1>1 DEF Fit, R!Sound, Same, R!ActorType
  <1> HIDE DEF u
  <1>4. Fit(u, done, a) /\ u.root = s.root
    BY <1>1, <1>3, SameFits DEF Same
  <1>5. CASE s.control.intent = "local"
    <2>1. u.active \in done \cup {0} /\ (u.root => Clear(u))
      BY <1>4, <1>5 DEF Confirmed, Fit
    <2>2. Fit(R!Finish(u, "done"), done, a)
      BY <1>4, <2>1, FinishFits DEF States
    <2> QED
      BY <1>5, <2>2 DEF R!FinishControl, u, e
  <1>6. CASE s.control.intent = "off"
    <2>1. u \in R!ActorType /\ ~u.root
      BY <1>2, <1>4, <1>6 DEF Fit, R!Sound
    <2>2. Same(v, u)
      BY <2>1 DEF Same, R!ActorType
    <2> HIDE DEF v
    <2>3. Fit(v, done, a) /\ ~v.root
      BY <1>4, <2>1, <2>2, SameFits DEF Same
    <2>4. i \in done
      BY <1>2, <1>6 DEF Confirmed
    <2>5. Fit(R!Mark(v, i, "done"), done, a)
      BY <1>2, <2>3, <2>4, MarkFits DEF States
    <2>6. R!FinishControl(s) = R!Mark(v, i, "done")
      BY <1>6 DEF R!FinishControl, v, u, e, i
    <2> QED
      BY <2>5, <2>6
  <1> QED
    BY <1>5, <1>6

\* A control's call has returned.
Returned(s, op, done, a) ==
    /\ op \in R!OpType /\ op.step \in {"mode", "postmode", "identity", "idle", "off"}
    /\ s.control.intent # "none" /\ (op.step # "mode" => s.control.intent # "route")
    /\ op.ok => op.value \in BOOLEAN
    /\ op.ok /\ op.step \in R!Reads /\ ~op.value /\ s.control.intent = "off" => Nat \subseteq done
    /\ s.control.intent = "local" => a \in done

\* A control goes on after a call that returned well.
LEMMA AdvancedFits ==
    ASSUME NEW s, NEW done, NEW a, Fit(s, done, a), R!TypeOK, NEW op, NEW starts,
           Returned(s, op, done, a), op.ok,
           op.step = "postmode" /\ s.control.intent # "local" => ~op.value
    PROVE  Fit(R!Advanced(s, op, starts), done, a)
  <1>s. s \in R!ActorType /\ s.control \in R!ControlType
    BY DEF Fit, R!Sound, R!ActorType
  <1>r. /\ op.step \in {"mode", "postmode", "identity", "idle", "off"} /\ op.value \in BOOLEAN
        /\ s.control.intent \in {"route", "off", "local"} /\ (op.step # "mode" => s.control.intent # "route")
    BY <1>s DEF Returned, R!ControlType
  <1>1. CASE op.step = "identity"
    <2>1. Fit(R!Step(s, "idle"), done, a)
      BY <1>r, <1>1, StepFits
    <2> QED
      BY <1>1, <2>1 DEF R!Advanced
  <1>2. CASE op.step = "idle"
    <2> DEFINE c == [s.control EXCEPT !.request = 0]
               u == [s EXCEPT !.control = c, !.command = TRUE]
    <2>1. c \in R!ControlType /\ c.intent = s.control.intent /\ c.accepted = s.control.accepted
      BY <1>s DEF R!ControlType
    <2>2. R!Advanced(s, op, starts) = R!Step(u, "off")
      <3>1. [s EXCEPT !.control.request = 0, !.command = TRUE] = u
        BY <1>s DEF R!ActorType
      <3> QED
        BY <1>2, <3>1 DEF R!Advanced
    <2> HIDE DEF c
    <2>3. /\ u \in R!ActorType /\ u.active = s.active /\ u.root = s.root /\ u.queue = s.queue
          /\ u.control = c /\ u.inputs = s.inputs /\ u.admission = s.admission /\ u.lane = s.lane
      BY <1>s, <2>1 DEF R!ActorType
    <2> HIDE DEF u
    <2>4. s.control.accepted => s.control.intent \notin {"none", "route"}
      BY DEF Fit, R!Sound, R!TaskFits
    <2>5. Fit(u, done, a)
      BY <2>1, <2>3, <2>4, ControlKeeps
    <2>6. Fit(R!Step(u, "off"), done, a)
      BY <1>r, <1>2, <2>1, <2>3, <2>5, StepFits
    <2> QED
      BY <2>2, <2>6
  <1>3. CASE op.step = "off"
    <2> DEFINE p == R!Step(s, "postmode")
               d == [s.control EXCEPT !.phase = "completion"]
               n == [s EXCEPT !.control = d]
               u == IF s.control.completed THEN p ELSE n
               c == [u.control EXCEPT !.accepted = TRUE]
               t == [u EXCEPT !.control = c]
    <2>1. Fit(p, done, a) /\ p.control.intent = s.control.intent
      BY <1>r, <1>3, StepFits
    <2> HIDE DEF p
    <2>2. d \in R!ControlType /\ d.intent = s.control.intent /\ d.accepted = s.control.accepted
      BY <1>s DEF R!ControlType
    <2>3. n = [s EXCEPT !.control.phase = "completion"]
      BY <1>s DEF R!ActorType
    <2> HIDE DEF d
    <2>4. /\ n \in R!ActorType /\ n.active = s.active /\ n.root = s.root /\ n.queue = s.queue
          /\ n.control = d /\ n.inputs = s.inputs /\ n.admission = s.admission /\ n.lane = s.lane
      BY <1>s, <2>2 DEF R!ActorType
    <2> HIDE DEF n
    <2>5. s.control.accepted => s.control.intent \notin {"none", "route"}
      BY DEF Fit, R!Sound, R!TaskFits
    <2>6. Fit(n, done, a)
      BY <2>2, <2>4, <2>5, ControlKeeps
    <2>7. Fit(u, done, a) /\ u.control.intent = s.control.intent
      BY <2>1, <2>2, <2>4, <2>6
    <2>8. R!Advanced(s, op, starts) = [u EXCEPT !.control.accepted = TRUE]
      BY <1>3, <2>3 DEF R!Advanced, p
    <2> HIDE DEF u
    <2>9. u \in R!ActorType /\ u.control \in R!ControlType
      BY <2>7 DEF Fit, R!Sound, R!ActorType
    <2>10. c \in R!ControlType /\ c.intent = u.control.intent
      BY <2>9 DEF R!ControlType
    <2>11. t = [u EXCEPT !.control.accepted = TRUE]
      BY <2>9 DEF R!ActorType
    <2> HIDE DEF c
    <2>12. /\ t \in R!ActorType /\ t.active = u.active /\ t.root = u.root /\ t.queue = u.queue
           /\ t.control = c /\ t.inputs = u.inputs /\ t.admission = u.admission /\ t.lane = u.lane
      BY <2>9, <2>10 DEF R!ActorType
    <2> HIDE DEF t
    <2>13. Fit(t, done, a)
      BY <1>r, <1>3, <2>7, <2>10, <2>12, ControlKeeps
    <2> QED
      BY <2>8, <2>11, <2>13
  <1>4. CASE op.step = "postmode"
    <2> DEFINE m == R!Remember(s, op.value)
    <2>1. Fit(m, done, a) /\ m.control = s.control
      BY <1>r, RememberFits
    <2> HIDE DEF m
    <2>2. Confirmed(m, done, a)
      BY <1>r, <1>4, <2>1 DEF Confirmed, Returned, R!Reads
    <2>3. Fit(R!FinishControl(m), done, a)
      BY <1>r, <1>4, <2>1, <2>2, FinishControlFits
    <2> QED
      BY <1>4, <2>3 DEF R!Advanced, m
  <1>5. CASE op.step = "mode"
    <2> DEFINE m == R!Remember(s, op.value)
    <2>1. Fit(m, done, a) /\ m.control = s.control
      BY <1>r, RememberFits
    <2> HIDE DEF m
    <2>2. CASE s.control.intent = "route"
      <3>1. Fit(R!FinishRoute(m, op.value, starts), done, a)
        BY <2>1, FinishRouteFits
      <3> QED
        BY <1>5, <2>2, <3>1 DEF R!Advanced, m
    <2>3. CASE s.control.intent # "route" /\ op.value
      <3> DEFINE n == R!Remember(s, TRUE)
                 e == R!EndControl(n)
                 i == s.control.input
      <3>1. i \in Nat
        BY <1>s DEF R!ControlType
      <3>2. Fit(n, done, a)
        BY RememberFits
      <3> HIDE DEF n, i
      <3>3. Fit(e, done, a) /\ e.control = R!NoControl
        BY <3>2, EndControlFits
      <3> HIDE DEF e
      <3>4. Fit(R!BeginDisable(e, i, starts), done, a)
        BY <3>1, <3>3, NothingsTyped, BeginDisableFits
      <3> QED
        BY <1>5, <2>3, <3>4 DEF R!Advanced, e, n, i
    <2>4. CASE s.control.intent # "route" /\ ~op.value
      <3> DEFINE n == R!Remember(s, FALSE)
      <3>1. Fit(n, done, a) /\ n.control = s.control
        BY RememberFits
      <3> HIDE DEF n
      <3>2. Confirmed(n, done, a)
        BY <1>r, <1>5, <2>4, <3>1 DEF Confirmed, Returned, R!Reads
      <3>3. Fit(R!FinishControl(n), done, a)
        BY <1>r, <2>4, <3>1, <3>2, FinishControlFits
      <3> QED
        BY <1>5, <2>4, <3>3 DEF R!Advanced, n
    <2> QED
      BY <1>r, <2>2, <2>3, <2>4
  <1> QED
    BY <1>r, <1>1, <1>2, <1>3, <1>4, <1>5

\* researchControlFinished
LEMMA ControlFinishedFits ==
    ASSUME NEW s, NEW done, NEW a, Fit(s, done, a), R!TypeOK, NEW op, NEW starts,
           Returned(s, op, done, a)
    PROVE  Fit(R!ControlFinished(s, op, starts), done, a)
  <1> DEFINE failed == \/ ~op.ok \/ ~R!InScope(s)
                       \/ (op.step = "idle" /\ ~op.value)
                       \/ (op.step = "postmode" /\ s.control.intent # "local" /\ op.value)
  <1>1. R!ControlFinished(s, op, starts) = IF failed THEN R!ControlFailed(s) ELSE R!Advanced(s, op, starts)
    BY DEF R!ControlFinished
  <1>2. CASE failed
    BY <1>1, <1>2, ControlFailedFits
  <1>3. CASE ~failed
    <2>1. op.ok /\ (op.step = "postmode" /\ s.control.intent # "local" => ~op.value)
      BY <1>3
    <2>2. Fit(R!Advanced(s, op, starts), done, a)
      BY <2>1, AdvancedFits
    <2> QED
      BY <1>1, <1>3, <2>2
  <1> QED
    BY <1>2, <1>3

-----------------------------------------------------------------------------
\* Admission and dispatch.

\* A handler has ended: the actor is sound and no input is done that may not be.
AtEnd(t, done) ==
    /\ R!Sound(t, x1, Calm)
    /\ DOMAIN x3.inputs \subseteq DOMAIN t.inputs
    /\ \A i \in DOMAIN t.inputs : t.inputs[i].state = "done" => i \in done

\* A handler may end whenever the actor fits.
LEMMA FitEnds == ASSUME NEW s, NEW done, NEW a, Fit(s, done, a) PROVE AtEnd(s, done)
  BY DEF Fit, AtEnd

\* The head of the queue is an input, and so is the rest.
LEMMA HeadIsInput ==
    ASSUME NEW s \in R!ActorType, R!QueueFits(s), s.queue # <<>>
    PROVE  /\ Head(s.queue) \in DOMAIN s.inputs /\ Head(s.queue) \in Nat \ {0}
           /\ Tail(s.queue) \in Seq(Nat)
           /\ \A k \in DOMAIN Tail(s.queue) : Tail(s.queue)[k] \in DOMAIN s.inputs
  <1>1. s.queue \in Seq(Nat) /\ s.inputs \in Seq(R!InputType)
    BY DEF R!ActorType
  <1>2. /\ 1 \in DOMAIN s.queue /\ Head(s.queue) = s.queue[1]
        /\ Tail(s.queue) \in Seq(Nat)
        /\ \A k \in DOMAIN Tail(s.queue) : k + 1 \in DOMAIN s.queue /\ Tail(s.queue)[k] = s.queue[k + 1]
    BY <1>1
  <1>3. DOMAIN s.inputs \subseteq Nat \ {0}
    BY <1>1
  <1> QED
    BY <1>2, <1>3 DEF R!QueueFits

\* The mode is asked for the head of the queue.
LEMMA AdmitFits ==
    ASSUME NEW s, NEW done, NEW a, Fit(s, done, a), R!TypeOK, s.queue # <<>>, s.active = 0
    PROVE  Fit(R!Admit(s), done, a)
  <1> DEFINE p == [R!NoProbe EXCEPT !.input = Head(s.queue), !.turn = s.turn, !.revision = R!Revision(s)]
             u == [s EXCEPT !.admission = p]
             op == R!Op("admission", "mode", s.turn)
             t == R!Start(u, op)
  <1>s. s \in R!ActorType /\ R!LaneFits(s, x1, Calm) /\ R!TaskFits(s, x1) /\ R!QueueFits(s)
    BY DEF Fit, R!Sound
  <1>1. s.turn \in Nat /\ R!Revision(s) \in Nat /\ Head(s.queue) \in Nat
    BY <1>s, RevisionTyped, HeadIsInput DEF R!ActorType
  <1>2. p \in R!ProbeType /\ ~p.ready
    BY <1>1, NothingsTyped DEF R!ProbeType
  <1>3. op \in R!OpType /\ op.owner = "admission" /\ op.step = "mode" /\ op.phase = "sent"
    <2>1. PICK n \in Nat : n = s.turn
      BY <1>1
    <2>2. op = R!Op("admission", "mode", n)
      BY <2>1
    <2> HIDE DEF op
    <2> QED
      BY <2>2, OpIs DEF R!Kinds
  <1>4. R!Admit(s) = t
    BY DEF R!Admit
  <1> HIDE DEF p, op
  <1>5. /\ u \in R!ActorType /\ u.active = s.active /\ u.root = s.root /\ u.queue = s.queue
        /\ u.control = s.control /\ u.inputs = s.inputs /\ u.admission = p /\ u.lane = s.lane
    BY <1>s, <1>2 DEF R!ActorType
  <1> HIDE DEF u
  <1>6. R!LaneFits(u, x1, Calm) /\ (Clear(s) => Clear(u))
    BY <1>s, <1>5 DEF R!LaneFits, R!OpFits, Clear
  <1>7. R!TaskFits(u, x1) /\ R!QueueFits(u)
    BY <1>s, <1>2, <1>5 DEF R!TaskFits, R!QueueFits
  <1>8. Fit(u, done, a)
    BY <1>5, <1>6, <1>7 DEF Fit, R!Sound
  <1>9. Fit(t, done, a)
    BY <1>3, <1>8, StartFits
  <1> QED
    BY <1>4, <1>9

\* researchAdmissionFinished
LEMMA AdmissionFinishedFits ==
    ASSUME NEW s, NEW done, NEW a, Fit(s, done, a), R!TypeOK, NEW op,
           op.ok => op.value \in BOOLEAN /\ (~op.value => ~x1)
    PROVE  Fit(R!AdmissionFinished(s, op), done, a)
  <1> DEFINE p == s.admission
             v == R!InvalidateAdmission(s)
             q == R!CancelQueued(s, p.input)
             u == [q EXCEPT !.known = FALSE, !.paused = TRUE]
             c == [p EXCEPT !.ready = TRUE, !.enabled = op.value]
             t == [s EXCEPT !.admission = c]
             stays == ~(s.turn # p.turn \/ s.queue = <<>>) /\ Head(s.queue) = p.input
  <1>s. s \in R!ActorType /\ R!LaneFits(s, x1, Calm) /\ R!TaskFits(s, x1) /\ R!QueueFits(s)
    BY DEF Fit, R!Sound
  <1>p. p \in R!ProbeType
    BY <1>s DEF R!ActorType
  <1>1. Fit(v, done, a)
    BY InvalidateAdmissionFits
  <1>2. Fit(u, done, a)
    <2>1. Fit(q, done, a)
      BY CancelAllFits DEF R!CancelQueued
    <2> HIDE DEF q
    <2>2. Same(u, q)
      BY <2>1 DEF Fit, R!Sound, Same, R!ActorType
    <2> HIDE DEF u
    <2> QED
      BY <2>1, <2>2, SameFits
  <1>3. ASSUME stays, op.ok PROVE Fit(t, done, a)
    <2>1. p # R!NoProbe
      BY <1>s, <1>3, HeadIsInput DEF R!NoProbe
    <2>2. c \in R!ProbeType /\ c.enabled = op.value
      BY <1>p, <1>3 DEF R!ProbeType
    <2> HIDE DEF c
    <2>3. /\ t \in R!ActorType /\ t.active = s.active /\ t.root = s.root /\ t.queue = s.queue
          /\ t.control = s.control /\ t.inputs = s.inputs /\ t.admission = c /\ t.lane = s.lane
      BY <1>s, <2>2 DEF R!ActorType
    <2> HIDE DEF t
    <2>4. R!LaneFits(t, x1, Calm) /\ (Clear(s) => Clear(t))
      BY <1>s, <2>3 DEF R!LaneFits, R!OpFits, Clear
    <2>5. R!TaskFits(t, x1) /\ R!QueueFits(t)
      BY <1>s, <1>3, <2>1, <2>2, <2>3 DEF R!TaskFits, R!QueueFits
    <2> QED
      BY <2>3, <2>4, <2>5 DEF Fit, R!Sound
  <1>4. t = [s EXCEPT !.admission.ready = TRUE, !.admission.enabled = op.value]
    BY <1>s, <1>p DEF R!ActorType, R!ProbeType
  <1> HIDE DEF v, u, t
  <1>5. R!AdmissionFinished(s, op) =
            IF ~stays THEN v
            ELSE IF ~op.ok THEN u
            ELSE IF R!Revision(s) # p.revision THEN v
            ELSE t
    BY <1>4 DEF R!AdmissionFinished, v, u
  <1> QED
    BY <1>1, <1>2, <1>3, <1>5

\* beginTask: an ordinary root begins only where the session was read to have no research
\* on, and nobody could switch it on since.
LEMMA BeginEnds ==
    ASSUME NEW s, NEW done, NEW a, Fit(s, done, a), R!TypeOK, s.queue # <<>>, s.active = 0,
           s.control.intent = "none", ~s.enabled => ~x1
    PROVE  AtEnd(R!Begin(s), done)
  <1> DEFINE i == Head(s.queue)
             kind == R!Kind(s, i)
             native == kind # "prompt"
             root == s.enabled \/ native
             ia == R!InvalidateAdmission(s)
             is == R!InvalidateSettlement(ia)
             m == R!Mark(is, i, "submitted")
             turn == s.turn + 1
             u == [m EXCEPT !.queue = Tail(m.queue), !.active = i, !.native = native, !.turn = m.turn + 1,
                            !.command = native, !.accepted = FALSE, !.root = root, !.open = FALSE]
             op == R!Op("task", kind, turn)
             l == Append(u.lane, op)
             t == [u EXCEPT !.lane = l]
  <1>s. s \in R!ActorType /\ R!LaneFits(s, x1, Calm) /\ R!TaskFits(s, x1) /\ R!QueueFits(s)
    BY DEF Fit, R!Sound
  <1>h. i \in Nat \ {0} /\ i \in DOMAIN s.inputs
    BY <1>s, HeadIsInput
  <1>k. kind \in R!Kinds
    <2>1. s.inputs[i] \in R!InputType
      BY <1>s, <1>h DEF R!ActorType
    <2> QED
      BY <2>1 DEF R!Kind, R!InputType
  <1>b. R!Begin(s) = t
    BY DEF R!Begin, R!Start
  <1>1. /\ Fit(ia, done, a) /\ ia.active = s.active /\ ia.root = s.root /\ ia.control = s.control
        /\ ia.admission = R!NoProbe /\ ia.inputs = s.inputs /\ ia.queue = s.queue
        /\ \A k \in DOMAIN ia.lane : ia.lane[k].owner # "admission"
    BY InvalidateAdmissionFits
  <1> HIDE DEF ia
  <1>2. /\ Fit(is, done, a) /\ is.active = s.active /\ is.root = s.root /\ is.control = s.control
        /\ is.admission = R!NoProbe /\ is.inputs = s.inputs /\ is.queue = s.queue /\ Voided(is, ia)
        /\ \A k \in DOMAIN is.lane : is.lane[k].owner # "settlement"
    BY <1>1, InvalidateSettlementFits
  <1> HIDE DEF is
  <1>3. is \in R!ActorType /\ R!LaneFits(is, x1, Calm)
    BY <1>2 DEF Fit, R!Sound
  <1>4. /\ m \in R!ActorType /\ m.queue = s.queue /\ m.control = s.control /\ m.lane = is.lane
        /\ m.admission = R!NoProbe
        /\ DOMAIN m.inputs = DOMAIN s.inputs
        /\ \A k \in DOMAIN s.inputs : k # i => m.inputs[k] = s.inputs[k]
        /\ m.inputs[i].state = "submitted"
    <2>1. PICK j \in Nat : j = i
      BY <1>h
    <2> DEFINE n == R!Mark(is, j, "submitted")
    <2>2. /\ n \in R!ActorType /\ n.queue = is.queue /\ n.control = is.control /\ n.lane = is.lane
          /\ n.admission = is.admission
          /\ DOMAIN n.inputs = DOMAIN is.inputs
          /\ \A k \in DOMAIN is.inputs : k # j => n.inputs[k] = is.inputs[k]
          /\ j \in DOMAIN is.inputs => n.inputs[j].state = "submitted"
      BY <1>3, MarkIs DEF States
    <2> HIDE DEF n
    <2>3. n = m
      BY <2>1 DEF n
    <2> HIDE DEF m
    <2> QED
      BY <1>2, <1>h, <2>1, <2>2, <2>3
  <1> HIDE DEF m
  <1>5. native \in BOOLEAN /\ root \in BOOLEAN /\ m.turn + 1 \in Nat /\ turn \in Nat
    <2>1. m.turn \in Nat /\ s.turn \in Nat /\ s.enabled \in BOOLEAN
      BY <1>s, <1>4 DEF R!ActorType
    <2>2. native \in BOOLEAN
      BY ZenonT(10)
    <2> HIDE DEF native
    <2>3. root \in BOOLEAN
      BY <2>1, <2>2
    <2> QED
      BY <2>1, <2>2, <2>3
  <1>6. Tail(m.queue) \in Seq(Nat) /\ \A k \in DOMAIN Tail(m.queue) : Tail(m.queue)[k] \in DOMAIN s.inputs
    BY <1>s, <1>4, HeadIsInput
  <1>7. op \in R!OpType /\ op.owner = "task" /\ op.step = kind /\ op.phase = "sent"
    BY <1>k, <1>5, OpIs
  <1>8. (R!Switches(op) => root) /\ (~root => ~x1)
    BY <1>7 DEF R!Switches
  <1> HIDE DEF op, turn
  <1>9. /\ u \in R!ActorType /\ u.active = i /\ u.root = root /\ u.queue = Tail(m.queue)
        /\ u.control = m.control /\ u.inputs = m.inputs /\ u.admission = m.admission /\ u.lane = m.lane
    <2> HIDE DEF native, root, i
    <2>1. PICK n : n = m.turn + 1
      OBVIOUS
    <2>2. PICK q : q = Tail(m.queue)
      OBVIOUS
    <2>3. q \in Seq(Nat) /\ n \in Nat
      BY <1>5, <1>6, <2>1, <2>2
    <2>5. i \in Nat /\ root \in BOOLEAN /\ native \in BOOLEAN /\ m \in R!ActorType
      BY <1>h, <1>5, <1>4
    <2>4. u = [m EXCEPT !.queue = q, !.active = i, !.native = native, !.turn = n,
                        !.command = native, !.accepted = FALSE, !.root = root, !.open = FALSE]
      BY <2>1, <2>2
    <2> HIDE DEF u
    <2>6. /\ u.active = i /\ u.root = root /\ u.queue = q
          /\ u.control = m.control /\ u.inputs = m.inputs /\ u.admission = m.admission /\ u.lane = m.lane
      BY <2>4, <2>5 DEF R!ActorType
    <2>7. u \in R!ActorType
      <3> DEFINE x == [m EXCEPT !.queue = q, !.active = i, !.turn = n, !.accepted = FALSE, !.open = FALSE]
                 y == [x EXCEPT !.native = native, !.command = native]
                 z == [y EXCEPT !.root = root]
      <3>1. x \in R!ActorType
        BY <2>3, <2>5 DEF R!ActorType
      <3>2. u = z
        BY <2>4, <2>5 DEF R!ActorType
      <3> HIDE DEF x
      <3>3. y \in R!ActorType
        BY <2>5, <3>1 DEF R!ActorType
      <3> HIDE DEF y
      <3>4. z \in R!ActorType
        BY <2>5, <3>3 DEF R!ActorType
      <3> QED
        BY <3>2, <3>4
    <2> QED
      BY <2>2, <2>6, <2>7
  <1> HIDE DEF u, root, native, i
  <1>10. u.lane \in Seq(R!OpType)
    BY <1>9 DEF R!ActorType
  <1>11. /\ l \in Seq(R!OpType) /\ DOMAIN u.lane = 1..Len(u.lane)
         /\ DOMAIN l = 1..Len(u.lane) + 1 /\ Len(u.lane) \in Nat
         /\ \A k \in 1..Len(u.lane) : l[k] = u.lane[k]
         /\ l[Len(u.lane) + 1] = op
    BY <1>7, <1>10
  <1> HIDE DEF l
  <1>12. /\ t \in R!ActorType /\ t.active = i /\ t.root = root /\ t.queue = Tail(m.queue)
         /\ t.control = s.control /\ t.inputs = m.inputs /\ t.admission = R!NoProbe /\ t.lane = l
    BY <1>4, <1>9, <1>11 DEF R!ActorType
  <1> HIDE DEF t
  <1>13. u.lane = is.lane
         /\ \A k \in DOMAIN is.lane : is.lane[k].owner \in {"nobody", "task"} /\ ~R!Switches(is.lane[k])
    <2>1. \A k \in DOMAIN is.lane : is.lane[k].owner # "admission"
      BY <1>1, <1>2, VoidIs DEF Voided
    <2>2. \A k \in DOMAIN is.lane : is.lane[k].owner # "control" /\ ~R!Switches(is.lane[k])
      BY <1>2, <1>3, <1>s DEF R!LaneFits, R!OpFits, R!TaskFits
    <2>3. is.lane \in Seq(R!OpType)
      BY <1>3 DEF R!ActorType
    <2>4. \A k \in DOMAIN is.lane : is.lane[k].owner \in {"task", "control", "admission", "settlement", "nobody"}
      <3>1. \A k \in DOMAIN is.lane : is.lane[k] \in R!OpType
        BY <2>3
      <3> QED
        BY <3>1 DEF R!OpType
    <2> QED
      BY <1>2, <1>4, <1>9, <2>1, <2>2, <2>4
  <1>14. ASSUME NEW k \in DOMAIN t.lane PROVE R!OpFits(t, k, x1, Calm)
    <2>1. CASE k = Len(u.lane) + 1
      <3>1. t.lane[k] = op /\ \A j \in 1..k - 1 : t.lane[j].owner \in {"nobody", "task"}
        BY <1>11, <1>12, <1>13, <2>1
      <3> QED
        BY <1>7, <1>8, <1>12, <3>1 DEF R!OpFits
    <2>2. CASE k \in 1..Len(u.lane)
      <3>1. t.lane[k] = is.lane[k] /\ R!OpFits(is, k, x1, Calm)
        BY <1>3, <1>11, <1>12, <1>13, <2>2 DEF R!LaneFits
      <3> QED
        BY <1>2, <1>12, <1>13, <3>1, <1>11, <2>2 DEF R!OpFits
    <2> QED
      BY <1>11, <1>12, <2>1, <2>2
  <1>15. R!LaneFits(t, x1, Calm)
    BY <1>14 DEF R!LaneFits
  <1>16. R!TaskFits(t, x1)
    BY <1>s, <1>h, <1>4, <1>8, <1>12, NothingsTyped DEF R!TaskFits
  <1>17. R!QueueFits(t)
    BY <1>4, <1>6, <1>12 DEF R!QueueFits
  <1>18. /\ DOMAIN x3.inputs \subseteq DOMAIN t.inputs
         /\ \A k \in DOMAIN t.inputs : t.inputs[k].state = "done" => k \in done
    BY <1>4, <1>12 DEF Fit
  <1> QED
    BY <1>b, <1>12, <1>15, <1>16, <1>17, <1>18 DEF AtEnd, R!Sound

\* researchDispatchReady and the rest of dispatch.
LEMMA DispatchReadyEnds ==
    ASSUME NEW s, NEW done, NEW a, Fit(s, done, a), R!TypeOK, s.queue # <<>>, s.active = 0,
           s.control.intent = "none", NEW starts
    PROVE  AtEnd(R!DispatchReady(s, starts), done)
  <1> DEFINE p == s.admission
             stale == p # R!NoProbe /\ (\/ p.turn # s.turn \/ p.input # Head(s.queue)
                                        \/ (p.ready /\ p.revision # R!Revision(s)))
             seen == R!Remember(s, p.enabled)
             i == Head(s.queue)
             z == [s EXCEPT !.paused = TRUE]
             v == R!InvalidateAdmission(s)
             m == R!Mark(R!Unqueued(seen, {i}), i, "submitted")
             toggles == R!Kind(s, i) = "toggle" /\ seen.enabled
  <1>s. s \in R!ActorType /\ p \in R!ProbeType /\ R!TaskFits(s, x1) /\ R!QueueFits(s)
    BY DEF Fit, R!Sound, R!ActorType
  <1>h. i \in Nat
    BY <1>s, HeadIsInput
  <1>1. AtEnd(z, done)
    <2>1. Same(z, s)
      BY <1>s DEF Same, R!ActorType
    <2> HIDE DEF z
    <2> QED
      BY <2>1, SameFits, FitEnds
  <1>2. AtEnd(R!Admit(v), done)
    <2>1. Fit(v, done, a) /\ v.queue = s.queue /\ v.active = s.active
      BY InvalidateAdmissionFits
    <2> HIDE DEF v
    <2> QED
      BY <2>1, AdmitFits, FitEnds
  <1>3. AtEnd(s, done)
    BY FitEnds
  <1>4. p.enabled \in BOOLEAN
    BY <1>s DEF R!ProbeType
  <1>5. /\ Fit(seen, done, a) /\ seen.active = s.active /\ seen.control = s.control
        /\ seen.queue = s.queue /\ seen.enabled = p.enabled
    BY <1>4, RememberFits
  <1>6. AtEnd(R!Disable(m, i, starts), done)
    <2> HIDE DEF seen, i
    <2>1. Fit(R!Unqueued(seen, {i}), done, a)
      BY <1>5, UnqueuedFits
    <2>2. Fit(m, done, a)
      BY <1>h, <2>1, MarkFits DEF States
    <2> HIDE DEF m
    <2> QED
      BY <1>h, <2>2, DisableFits, FitEnds
  <1>7. p.ready => AtEnd(R!Begin(seen), done)
    <2> HIDE DEF seen
    <2>1. p.ready /\ ~seen.enabled => ~x1
      BY <1>s, <1>5 DEF R!TaskFits
    <2> QED
      BY <1>5, <2>1, BeginEnds
  <1> HIDE DEF z, v, m
  <1>8. R!DispatchReady(s, starts) =
            IF s.disable THEN z
            ELSE IF stale \/ p = R!NoProbe THEN R!Admit(v)
            ELSE IF ~p.ready THEN s
            ELSE IF toggles THEN R!Disable(m, i, starts)
            ELSE R!Begin(seen)
    BY DEF R!DispatchReady, z, v, m
  <1> HIDE DEF seen, i, stale, toggles, p
  <1> QED
    BY <1>1, <1>2, <1>3, <1>6, <1>7, <1>8

\* dispatch ends every handler.
LEMMA DispatchEnds ==
    ASSUME NEW s, NEW done, NEW a, Fit(s, done, a), R!TypeOK, NEW starts
    PROVE  AtEnd(R!Dispatch(s, starts), done)
  <1> DEFINE idle == s.paused \/ R!TaskActive(s) \/ R!Controlled(s) \/ s.queue = <<>>
             e == R!EnsureRuntime(s)
             z == [s EXCEPT !.paused = TRUE]
  <1>1. AtEnd(z, done)
    <2>1. Same(z, s)
      BY DEF Fit, R!Sound, Same, R!ActorType
    <2> HIDE DEF z
    <2> QED
      BY <2>1, SameFits, FitEnds
  <1>2. ~idle => AtEnd(R!DispatchReady(e, starts), done)
    <2>1. Fit(e, done, a) /\ e.queue = s.queue /\ e.active = s.active /\ e.control = s.control
      BY EnsureRuntimeFits
    <2>2. ~idle => s.active = 0 /\ s.queue # <<>> /\ s.control.intent = "none"
      BY NothingsTyped DEF R!TaskActive, R!Controlled
    <2> HIDE DEF e, idle
    <2> QED
      BY <2>1, <2>2, DispatchReadyEnds
  <1>3. AtEnd(s, done)
    BY FitEnds
  <1> HIDE DEF z, e
  <1>4. R!Dispatch(s, starts) = IF idle THEN s ELSE IF R!CanStart(s, starts) THEN R!DispatchReady(e, starts) ELSE z
    BY DEF R!Dispatch, z, e
  <1> QED
    BY <1>1, <1>2, <1>3, <1>4

-----------------------------------------------------------------------------
\* Events.

\* The settlement of a root is read.
LEMMA ProbeSettlementFits ==
    ASSUME NEW s, NEW done, NEW a, Fit(s, done, a), R!TypeOK
    PROVE  Fit(R!ProbeSettlement(s), done, a)
  <1> DEFINE u == [s EXCEPT !.probing = TRUE]
             op == [R!Op("settlement", "mode", s.turn) EXCEPT !.value = R!Revision(s)]
  <1>s. s \in R!ActorType /\ s.turn \in Nat /\ R!Revision(s) \in Nat
    BY RevisionTyped DEF Fit, R!Sound, R!ActorType
  <1>1. Same(u, s)
    BY <1>s DEF Same, R!ActorType
  <1>2. op \in R!OpType /\ op.owner = "settlement" /\ op.step = "mode" /\ op.phase = "sent" /\ op.value \in Nat
    BY <1>s DEF R!Op, R!OpType
  <1>3. R!ProbeSettlement(s) \in {s, R!Start(u, op)}
    BY DEF R!ProbeSettlement
  <1> HIDE DEF u, op
  <1>4. Fit(u, done, a)
    BY <1>1, SameFits
  <1>5. Fit(R!Start(u, op), done, a)
    BY <1>2, <1>4, StartFits
  <1> QED
    BY <1>3, <1>5

\* A set of numbers has a least element.
LEMMA LeastIsOne ==
    ASSUME NEW T \in SUBSET Nat, T # {}
    PROVE  R!Min(T) \in T
  <1>1. PICK x \in T : \A y \in T : ~(<<y, x>> \in OpToRel(<, Nat))
    BY WFMin, NatLessThanWellFounded
  <1>2. x \in Nat /\ \A y \in T : y \in Nat /\ ~(y < x)
    BY <1>1 DEF OpToRel
  <1>3. \E m \in T : \A y \in T : m <= y
    BY <1>2
  <1> QED
    BY <1>3 DEF R!Min

\* A toggle that waits behind a root is looked up.
LEMMA DeferredToggleFits ==
    ASSUME NEW s, NEW done, NEW a, Fit(s, done, a), R!TypeOK
    PROVE  Fit(R!DeferredToggle(s), done, a)
  <1> DEFINE T == {k \in 1..Len(s.queue) : R!Kind(s, s.queue[k]) = "toggle"}
             k == R!SelectInSeq(s.queue, LAMBDA i : R!Kind(s, i) = "toggle")
  <1>1. s.queue \in Seq(Nat)
    BY DEF Fit, R!Sound, R!ActorType
  <1>2. k \in T \cup {0}
    <2>1. T \subseteq Nat
      BY <1>1
    <2>2. k = IF T # {} THEN R!Min(T) ELSE 0
      BY DEF R!SelectInSeq
    <2> HIDE DEF T, k
    <2>3. T # {} => R!Min(T) \in T
      BY <2>1, LeastIsOne
    <2> QED
      BY <2>2, <2>3
  <1>3. k # 0 => s.queue[k] \in Nat
    BY <1>1, <1>2
  <1>4. R!DeferredToggle(s) = IF s.root /\ ~R!Controlled(s) /\ k # 0 THEN R!Lookup(s, "route", s.queue[k]) ELSE s
    BY DEF R!DeferredToggle
  <1> HIDE DEF k, T
  <1>5. CASE k # 0 /\ ~R!Controlled(s)
    <2>1. PICK i \in Nat : i = s.queue[k]
      BY <1>3, <1>5
    <2>2. s.control.intent = "none"
      BY <1>5, NothingsTyped DEF R!Controlled
    <2>3. Fit(R!Lookup(s, "route", i), done, a)
      BY <2>2, LookupFits
    <2> QED
      BY <1>4, <2>1, <2>3
  <1> QED
    BY <1>4, <1>5

\* An agent starts.
LEMMA AgentStartedFits ==
    ASSUME NEW s, NEW done, NEW a, Fit(s, done, a), R!TypeOK
    PROVE  Fit(R!AgentStarted(s), done, a)
  <1> DEFINE v == R!InvalidateSettlement(s)
             x == [v EXCEPT !.open = TRUE]
             y == IF s.root THEN x ELSE s
             z == [y EXCEPT !.native = FALSE]
  <1>1. Fit(v, done, a)
    BY InvalidateSettlementFits
  <1> HIDE DEF v
  <1>2. Same(x, v)
    BY <1>1 DEF Fit, R!Sound, Same, R!ActorType
  <1> HIDE DEF x
  <1>3. Fit(y, done, a)
    BY <1>1, <1>2, SameFits
  <1>4. R!AgentStarted(s) = IF R!TaskActive(s) THEN R!DeferredToggle(z) ELSE y
    BY DEF R!AgentStarted, x, v
  <1> HIDE DEF y
  <1>5. Same(z, y)
    BY <1>3 DEF Fit, R!Sound, Same, R!ActorType
  <1> HIDE DEF z
  <1>6. Fit(R!DeferredToggle(z), done, a)
    BY <1>3, <1>5, SameFits, DeferredToggleFits
  <1> QED
    BY <1>3, <1>4, <1>6

\* An agent ends: only an ordinary task is done by it.
LEMMA AgentEndedFits ==
    ASSUME NEW s, NEW done, NEW a, Fit(s, done, a), R!TypeOK, NEW ok
    PROVE  Fit(R!AgentEnded(s, ok), done, a)
  <1> DEFINE x == [s EXCEPT !.open = FALSE]
             f == R!Finish(s, IF ok THEN "done" ELSE "uncertain")
  <1>s. s \in R!ActorType
    BY DEF Fit, R!Sound
  <1>1. Same(x, s)
    BY <1>s DEF Same, R!ActorType
  <1>2. ~s.root /\ s.active # 0 => Fit(f, done, a)
    <2>1. ASSUME ~s.root, s.active # 0 PROVE s.active \in done
      <3>1. s.active \in Nat /\ Nat \subseteq done
        BY <1>s, <2>1 DEF Fit, R!ActorType
      <3> QED
        BY <3>1
    <2>2. PICK state \in States : state = IF ok THEN "done" ELSE "uncertain"
      BY DEF States
    <2> QED
      BY <2>1, <2>2, FinishFits
  <1>3. R!AgentEnded(s, ok) = IF s.active = 0 THEN s
                              ELSE IF ~s.root THEN f
                              ELSE IF ~ok THEN R!RetireResearch(s)
                              ELSE IF s.open THEN R!ProbeSettlement(x) ELSE s
    BY DEF R!AgentEnded, R!TaskActive
  <1> HIDE DEF x, f
  <1>4. Fit(R!ProbeSettlement(x), done, a)
    BY <1>1, SameFits, ProbeSettlementFits
  <1>5. Fit(R!RetireResearch(s), done, a)
    BY RetireResearchFits
  <1> QED
    BY <1>2, <1>3, <1>4, <1>5

\* researchLocalResult
LEMMA LocalResultFits ==
    ASSUME NEW s, NEW done, NEW a, Fit(s, done, a), R!TypeOK, NEW e
    PROVE  Fit(R!LocalResult(s, e), done, a)
  <1> DEFINE n == R!NewControl(s, "local", s.active)
             c == [n.control EXCEPT !.request = s.turn, !.completed = TRUE, !.accepted = s.accepted,
                                    !.phase = "acceptance"]
             x == [n EXCEPT !.control = c]
  <1>s. s \in R!ActorType /\ s.turn \in Nat /\ s.accepted \in BOOLEAN /\ s.active \in Nat
    BY DEF Fit, R!Sound, R!ActorType
  <1>1. ~R!Controlled(s) =>
            /\ Fit(n, done, a) /\ n.control.intent = "local" /\ n.control \in R!ControlType
    <2>1. PICK i \in Nat : i = s.active
      BY <1>s
    <2>2. ~R!Controlled(s) => s.control.intent = "none"
      BY NothingsTyped DEF R!Controlled
    <2> QED
      BY <2>1, <2>2, NewControlFits
  <1>2. R!LocalResult(s, e) =
            IF ~s.root \/ e.request # s.turn THEN s
            ELSE IF ~e.ok THEN R!RetireResearch(s)
            ELSE IF R!Controlled(s) THEN s
            ELSE IF s.accepted THEN R!Step([n EXCEPT !.control.request = s.turn, !.control.completed = TRUE,
                                                     !.control.accepted = s.accepted,
                                                     !.control.phase = "acceptance"], "postmode")
            ELSE [n EXCEPT !.control.request = s.turn, !.control.completed = TRUE,
                           !.control.accepted = s.accepted, !.control.phase = "acceptance"]
    BY DEF R!LocalResult
  <1> HIDE DEF n
  <1>3. ASSUME ~R!Controlled(s)
        PROVE  /\ x = [n EXCEPT !.control.request = s.turn, !.control.completed = TRUE,
                                !.control.accepted = s.accepted, !.control.phase = "acceptance"]
               /\ Fit(x, done, a) /\ Fit(R!Step(x, "postmode"), done, a)
    <2>1. n \in R!ActorType
      BY <1>1, <1>3 DEF Fit, R!Sound
    <2>2. c \in R!ControlType /\ c.intent = "local"
      <3>1. PICK d \in R!ControlType : d = n.control
        BY <1>1, <1>3
      <3>2. PICK turn \in Nat : turn = s.turn
        BY <1>s
      <3>3. PICK accepted \in BOOLEAN : accepted = s.accepted
        BY <1>s
      <3>4. d.intent = "local" /\ c = [d EXCEPT !.request = turn, !.completed = TRUE, !.accepted = accepted,
                                               !.phase = "acceptance"]
        BY <1>1, <1>3, <3>1, <3>2, <3>3
      <3> HIDE DEF c
      <3> DEFINE m == [d EXCEPT !.request = turn, !.completed = TRUE, !.phase = "acceptance"]
      <3>5. m \in R!ControlType /\ m.intent = "local"
        <4>1. PICK r \in Int : r = turn
          OBVIOUS
        <4>2. m = [d EXCEPT !.request = r, !.completed = TRUE, !.phase = "acceptance"]
          BY <4>1
        <4> HIDE DEF m
        <4>3. m.intent = "local"
          BY <3>4, <4>2 DEF R!ControlType
        <4>4. m \in R!ControlType
          BY <4>2 DEF R!ControlType
        <4> QED
          BY <4>3, <4>4
      <3>6. c = [m EXCEPT !.accepted = accepted]
        BY <3>4 DEF R!ControlType
      <3> HIDE DEF m
      <3> QED
        BY <3>5, <3>6 DEF R!ControlType
    <2>3. x = [n EXCEPT !.control.request = s.turn, !.control.completed = TRUE,
                        !.control.accepted = s.accepted, !.control.phase = "acceptance"]
      BY <1>1, <1>3, <2>1 DEF R!ActorType, R!ControlType
    <2> HIDE DEF c
    <2>4. /\ x \in R!ActorType /\ x.active = n.active /\ x.root = n.root /\ x.queue = n.queue
          /\ x.control = c /\ x.inputs = n.inputs /\ x.admission = n.admission /\ x.lane = n.lane
      BY <2>1, <2>2 DEF R!ActorType
    <2> HIDE DEF x
    <2>5. Fit(x, done, a)
      BY <1>1, <1>3, <2>2, <2>4, ControlKeeps
    <2>6. Fit(R!Step(x, "postmode"), done, a)
      BY <2>2, <2>4, <2>5, StepFits
    <2> QED
      BY <2>3, <2>5, <2>6
  <1>4. Fit(R!RetireResearch(s), done, a)
    BY RetireResearchFits
  <1> HIDE DEF x
  <1> QED
    BY <1>2, <1>3, <1>4

\* An event that no control takes.
LEMMA DispatchedFits ==
    ASSUME NEW s, NEW done, NEW a, Fit(s, done, a), R!TypeOK, NEW e \in R!EventType
    PROVE  Fit(R!Dispatched(s, e), done, a)
  <1> DEFINE v == R!InvalidateSettlement(s)
  <1>1. Fit(R!AgentStarted(s), done, a) /\ Fit(R!AgentEnded(s, e.ok), done, a) /\ Fit(R!LocalResult(s, e), done, a)
    BY AgentStartedFits, AgentEndedFits, LocalResultFits
  <1>2. Fit(R!ProbeSettlement(v), done, a)
    <2>1. Fit(v, done, a)
      BY InvalidateSettlementFits
    <2> HIDE DEF v
    <2> QED
      BY <2>1, ProbeSettlementFits
  <1>3. e.type \in {"start", "end", "result", "settled", "catalog"}
    BY DEF R!EventType
  <1>4. R!Dispatched(s, e) \in
            {s, R!AgentStarted(s), R!AgentEnded(s, e.ok), R!LocalResult(s, e), R!ProbeSettlement(v)}
    BY <1>3 DEF R!Dispatched
  <1> QED
    BY <1>1, <1>2, <1>4

\* event, with researchControlEvent first.
LEMMA TakenFits ==
    ASSUME NEW s, NEW done, NEW a, Fit(s, done, a), R!TypeOK, NEW e \in R!EventType
    PROVE  Fit(R!Taken(s, e), done, a)
  <1> DEFINE c == [s.control EXCEPT !.completed = TRUE]
             x == [s EXCEPT !.control = c]
             f == R!ControlFailed(s)
  <1>s. s \in R!ActorType /\ s.control \in R!ControlType
        /\ (s.control.accepted => s.control.intent \notin {"none", "route"})
    BY DEF Fit, R!Sound, R!ActorType, R!TaskFits
  <1>1. c \in R!ControlType /\ c.intent = s.control.intent /\ c.accepted = s.control.accepted
    BY <1>s DEF R!ControlType
  <1>2. x = [s EXCEPT !.control.completed = TRUE]
    BY <1>s DEF R!ActorType
  <1> HIDE DEF c
  <1>3. /\ x \in R!ActorType /\ x.active = s.active /\ x.root = s.root /\ x.queue = s.queue
        /\ x.control = c /\ x.inputs = s.inputs /\ x.admission = s.admission /\ x.lane = s.lane
    BY <1>s, <1>1 DEF R!ActorType
  <1> HIDE DEF x
  <1>4. Fit(x, done, a)
    BY <1>s, <1>1, <1>3, ControlKeeps
  <1>5. Fit(R!Completed(x), done, a)
    <2>1. x.control.accepted => Fit(R!Step(x, "postmode"), done, a)
      BY <1>s, <1>1, <1>3, <1>4, StepFits
    <2> QED
      BY <1>4, <2>1 DEF R!Completed
  <1>6. Fit(f, done, a)
    BY ControlFailedFits
  <1>7. R!Taken(s, e) \in {R!Completed(x), f, R!Dispatched(f, e), R!Dispatched(s, e)}
    BY <1>2 DEF R!Taken
  <1> HIDE DEF f
  <1>8. Fit(R!Dispatched(f, e), done, a) /\ Fit(R!Dispatched(s, e), done, a)
    BY <1>6, DispatchedFits
  <1> QED
    BY <1>5, <1>6, <1>7, <1>8

-----------------------------------------------------------------------------
\* Results of the lane.

\* The events of the channel are handled one after the other.
LEMMA DrainedFits ==
    ASSUME NEW s, NEW done, NEW a, Fit(s, done, a), R!TypeOK, NEW events \in Seq(R!EventType)
    PROVE  Fit(R!Drained(s, events), done, a)
  <1> DEFINE n == Len(events)
             U == {t \in R!ActorType : Fit(t, done, a)}
             Goes(k, t) == IF t.client = s.client THEN R!Taken(t, events[k]) ELSE t
             G == [p \in (1..n) \X U |-> Goes(p[1], p[2])]
             Eq(f) == f = [k \in 0..n |-> IF k = 0 THEN s
                                          ELSE IF f[k - 1].client = s.client THEN R!Taken(f[k - 1], events[k])
                                          ELSE f[k - 1]]
             c == CHOOSE f : Eq(f)
  <1>1. n \in Nat /\ s \in U
    BY DEF Fit, R!Sound
  <1>2. ASSUME NEW k \in 1..n, NEW t \in U PROVE Goes(k, t) \in U
    <2>1. events[k] \in R!EventType
      OBVIOUS
    <2>2. Fit(R!Taken(t, events[k]), done, a)
      BY <2>1, TakenFits
    <2>3. R!Taken(t, events[k]) \in R!ActorType
      BY <2>2 DEF Fit, R!Sound
    <2> QED
      BY <2>2, <2>3
  <1>3. R!Drained(s, events) = c[n]
    BY DEF R!Drained
  <1>4. \A f : Eq(f) <=> f = [k \in 0..n |-> IF k = 0 THEN s ELSE Goes(k, f[k - 1])]
    OBVIOUS
  <1> HIDE DEF n, U, Goes, Eq
  <1>5. G \in [(1..n) \X U -> U] /\ \A k \in 1..n, x \in U : G[<<k, x>>] = Goes(k, x)
    BY <1>1, <1>2
  <1> HIDE DEF G
  <1>6. \E f : Eq(f)
    <2>1. PICK f : Recursive(f, n, U, s, G)
      BY <1>1, <1>5, Recursion
    <2>2. ASSUME NEW k \in 1..n PROVE f[k] = Goes(k, f[k - 1])
      <3>1. f \in [0..n -> U] /\ k - 1 \in 0..n /\ f[k] = G[<<k, f[k - 1]>>]
        BY <1>1, <2>1 DEF Recursive
      <3>2. f[k - 1] \in U
        BY <3>1
      <3> QED
        BY <1>5, <3>1, <3>2
    <2>3. f = [k \in 0..n |-> f[k]] /\ \A k \in 0..n : f[k] = IF k = 0 THEN s ELSE Goes(k, f[k - 1])
      BY <2>1, <2>2 DEF Recursive
    <2>4. f = [k \in 0..n |-> IF k = 0 THEN s ELSE Goes(k, f[k - 1])]
      BY <2>3
    <2> QED
      BY <1>4, <2>4
  <1>7. c = [k \in 0..n |-> IF k = 0 THEN s ELSE Goes(k, c[k - 1])]
    BY <1>4, <1>6
  <1> HIDE DEF c
  <1>8. c[0] = s /\ \A k \in 1..n : c[k] = Goes(k, c[k - 1])
    BY <1>1, <1>7
  <1> DEFINE Past == {k \in 0..n : c[k] \in U}
  <1>9. 0 \in Past /\ \A k \in 1..n : k - 1 \in Past => k \in Past
    BY <1>1, <1>2, <1>8
  <1> HIDE DEF Past
  <1>10. 0..n \subseteq Past
    BY <1>1, <1>9, UpTo
  <1> QED
    BY <1>1, <1>3, <1>10 DEF Past, U

\* A root is over only when what was read says so.
LEMMA SettledFits ==
    ASSUME NEW s, NEW done, NEW a, Fit(s, done, a), NEW read \in R!Reading,
           ~read.mode /\ read.quiet => a \in done
    PROVE  Fit(R!Settled(s, read), done, a)
  <1> DEFINE x == [s EXCEPT !.known = TRUE, !.enabled = read.mode]
             f == R!Finish(x, "done")
  <1>s. s \in R!ActorType /\ read.mode \in BOOLEAN
    BY DEF Fit, R!Sound, R!Reading
  <1>1. Same(x, s)
    BY <1>s DEF Same, R!ActorType
  <1>2. R!Settled(s, read) = IF read.mode \/ ~read.quiet THEN x ELSE R!InvalidateSettlement(f)
    BY DEF R!Settled
  <1> HIDE DEF x
  <1>3. Fit(x, done, a)
    BY <1>1, SameFits
  <1>4. a \in done => Fit(f, done, a)
    <2>1. a \in done => x.active \in done \cup {0} /\ (x.root => Clear(x))
      BY <1>3 DEF Fit
    <2> QED
      BY <1>3, <2>1, FinishFits DEF States
  <1> HIDE DEF f
  <1>5. a \in done => Fit(R!InvalidateSettlement(f), done, a)
    BY <1>4, InvalidateSettlementFits
  <1> QED
    BY <1>2, <1>3, <1>5

\* A settlement's answer is believed only when nothing came in between.
LEMMA BelievedFits ==
    ASSUME NEW s, NEW done, NEW a, Fit(s, done, a), R!TypeOK, NEW op, NEW buffered \in BOOLEAN,
           op.ok => op.value \in R!Reading,
           op.ok /\ ~op.value.mode /\ op.value.quiet /\ ~buffered => a \in done
    PROVE  Fit(R!Believed(s, op, buffered), done, a)
  <1>1. Fit(R!ProbeSettlement(s), done, a) /\ Fit(R!RetireResearch(s), done, a)
    BY ProbeSettlementFits, RetireResearchFits
  <1>2. op.ok /\ ~buffered => Fit(R!Settled(s, op.value), done, a)
    <2>1. ASSUME op.ok, ~buffered PROVE Fit(R!Settled(s, op.value), done, a)
      <3>1. PICK read \in R!Reading : read = op.value
        BY <2>1
      <3>2. ~read.mode /\ read.quiet => a \in done
        BY <2>1, <3>1
      <3>3. Fit(R!Settled(s, read), done, a)
        BY <3>2, SettledFits
      <3> QED
        BY <3>1, <3>3
    <2> QED
      BY <2>1
  <1> QED
    BY <1>1, <1>2 DEF R!Believed

\* researchSettlementFinished
LEMMA SettlementFinishedFits ==
    ASSUME NEW s, NEW done, NEW a, Fit(s, done, a), R!TypeOK, NEW op,
           NEW events \in Seq(R!EventType), NEW buffered \in BOOLEAN,
           op.ok => op.value \in R!Reading,
           op.ok /\ ~op.value.mode /\ op.value.quiet /\ ~buffered => a \in done
    PROVE  Fit(R!SettlementFinished(s, op, events, buffered), done, a)
  <1> DEFINE x == [s EXCEPT !.probing = FALSE]
             y == [s EXCEPT !.probing = FALSE, !.changed = FALSE]
             d == R!Drained(y, events)
  <1>1. Same(x, s) /\ Same(y, s)
    BY DEF Fit, R!Sound, Same, R!ActorType
  <1>2. R!SettlementFinished(s, op, events, buffered) \in {x, R!Believed(d, op, buffered)}
    BY DEF R!SettlementFinished
  <1> HIDE DEF x, y
  <1>3. Fit(x, done, a) /\ Fit(y, done, a)
    BY <1>1, SameFits
  <1>4. Fit(d, done, a)
    BY <1>3, DrainedFits
  <1> HIDE DEF d
  <1>5. Fit(R!Believed(d, op, buffered), done, a)
    BY <1>4, BelievedFits
  <1> QED
    BY <1>2, <1>3, <1>5

\* The answer to the prompt of the root.
LEMMA TaskAnsweredFits ==
    ASSUME NEW s, NEW done, NEW a, Fit(s, done, a), NEW op
    PROVE  Fit(R!TaskAnswered(s, op), done, a)
  <1> DEFINE c == [s.control EXCEPT !.accepted = TRUE]
             x == [s EXCEPT !.accepted = TRUE, !.control = c]
             y == [s EXCEPT !.accepted = TRUE]
             k == R!CancelAll(s, R!ToSet(s.queue))
             retired == R!RetireTask(k)
             stepped == R!Step(x, "postmode")
  <1>s. s \in R!ActorType /\ s.control \in R!ControlType
    BY DEF Fit, R!Sound, R!ActorType
  <1>1. c \in R!ControlType /\ c.intent = s.control.intent
    BY <1>s DEF R!ControlType
  <1>2. x = [s EXCEPT !.accepted = TRUE, !.control.accepted = TRUE]
    BY <1>s DEF R!ActorType
  <1>3. R!TaskAnswered(s, op) \in {s, retired, y} \cup (IF s.control.intent = "local" THEN {stepped} ELSE {})
    BY <1>2 DEF R!TaskAnswered
  <1> HIDE DEF c
  <1>4. /\ x \in R!ActorType /\ x.active = s.active /\ x.root = s.root /\ x.queue = s.queue
        /\ x.control = c /\ x.inputs = s.inputs /\ x.admission = s.admission /\ x.lane = s.lane
    BY <1>s, <1>1 DEF R!ActorType
  <1>5. Same(y, s)
    BY <1>s DEF Same, R!ActorType
  <1> HIDE DEF x, y
  <1>6. Fit(y, done, a)
    BY <1>5, SameFits
  <1>7. s.control.intent = "local" => Fit(stepped, done, a)
    <2>1. s.control.intent = "local" => Fit(x, done, a)
      BY <1>1, <1>4, ControlKeeps
    <2> QED
      BY <1>1, <1>4, <2>1, StepFits
  <1>8. Fit(retired, done, a)
    <2>1. Fit(k, done, a)
      BY CancelAllFits
    <2> HIDE DEF k
    <2> QED
      BY <2>1, RetireTaskFits
  <1> HIDE DEF retired, stepped
  <1> QED
    BY <1>3, <1>6, <1>7, <1>8

-----------------------------------------------------------------------------
\* A handler from its beginning to its end.

\* The inputs that may be done when a handler that begins now has ended: those that are,
\* new ones, any while the session records no research, and the task of the actor when it
\* is no root of research, or when what was read tells that the root is over.
Dones(over) ==
    {i \in Nat : \/ i \notin DOMAIN x3.inputs \/ x3.inputs[i].state = "done"
                 \/ i # x3.active /\ ~x1
                 \/ i = x3.active /\ (x3.root => over)}

\* The parts of a sound actor.
LEMMA SoundParts ==
    ASSUME R!RInv
    PROVE  /\ x3 \in R!ActorType /\ R!LaneFits(x3, x1, Calm) /\ R!TaskFits(x3, x1) /\ R!QueueFits(x3)
           /\ x3.inputs \in Seq(R!InputType) /\ x3.active \in Nat /\ R!TypeOK /\ x1 \in BOOLEAN
           /\ x2 \in R!ProcessType /\ x2.events \in Seq(R!EventType)
  BY DEF R!RInv, R!Sound, Calm, R!ActorType, R!TypeOK, R!ProcessType

\* What a task that is no root of research lets be done.
LEMMA DonesAre ==
    ASSUME R!RInv, NEW over
    PROVE  /\ \A i \in DOMAIN x3.inputs : x3.inputs[i].state = "done" => i \in Dones(over)
           /\ x3.active # 0 /\ ~x3.root => Nat \subseteq Dones(over)
           /\ ~x1 /\ ~x3.root => Nat \subseteq Dones(over)
           /\ x3.root => (x3.active \in Dones(over) <=> over)
           /\ \A i \in Nat : i \notin DOMAIN x3.inputs => i \in Dones(over)
  <1>s. x3.inputs \in Seq(R!InputType) /\ x3.active \in Nat /\ R!TaskFits(x3, x1)
    BY SoundParts
  <1>1. DOMAIN x3.inputs \subseteq Nat
    BY <1>s
  <1> QED
    BY <1>s, <1>1 DEF Dones, R!TaskFits

\* A handler begins.
LEMMA BegunFits ==
    ASSUME R!RInv
    PROVE  Fit(x3, Dones(FALSE), x3.active)
  <1>1. x3.root => x3.active \notin Dones(FALSE)
    BY DonesAre
  <1>2. /\ \A i \in DOMAIN x3.inputs : x3.inputs[i].state = "done" => i \in Dones(FALSE)
        /\ x3.active # 0 /\ ~x3.root => Nat \subseteq Dones(FALSE)
    BY DonesAre
  <1> QED
    BY <1>1, <1>2, SoundParts DEF Fit, R!Sound

\* The operation at the head of the lane has returned: what it answered was true, and
\* where that ends the root, nothing behind it can switch research on.
LEMMA ReturnedFits ==
    ASSUME R!RInv, x3.lane # <<>>, Head(x3.lane).phase = "answered", NEW over \in BOOLEAN,
           over => Head(x3.lane).owner \in {"control", "settlement"}
    PROVE  LET op == Head(x3.lane)
               s  == [x3 EXCEPT !.lane = Tail(@)]
           IN  /\ Fit(s, Dones(over), x3.active) /\ s.control = x3.control /\ op \in R!OpType
               /\ op.owner # "nobody" => R!Truthful(op, x1, Calm)
               /\ op.owner = "admission" => op.step = "mode"
               /\ op.owner = "control" =>
                    /\ op.step \in {"mode", "postmode", "identity", "idle", "off"}
                    /\ x3.control.intent # "none" /\ (op.step # "mode" => x3.control.intent # "route")
  <1> DEFINE op == Head(x3.lane)
             l == Tail(x3.lane)
             s == [x3 EXCEPT !.lane = l]
  <1>s. /\ x3 \in R!ActorType /\ R!LaneFits(x3, x1, Calm) /\ R!TaskFits(x3, x1) /\ R!QueueFits(x3)
        /\ x3.lane \in Seq(R!OpType)
    BY SoundParts DEF R!ActorType
  <1>1. /\ op = x3.lane[1] /\ 1 \in DOMAIN x3.lane /\ op \in R!OpType /\ l \in Seq(R!OpType)
        /\ \A k \in DOMAIN l : k \in Nat /\ k + 1 \in DOMAIN x3.lane /\ l[k] = x3.lane[k + 1] /\ k + 1 # 1
        /\ \A k \in DOMAIN l : \A j \in 1..k - 1 : j + 1 \in 1..(k + 1) - 1 /\ l[j] = x3.lane[j + 1]
        /\ \A k \in DOMAIN l : 1 \in 1..(k + 1) - 1
    BY <1>s
  <1>2. R!OpFits(x3, 1, x1, Calm) /\ op.phase = "answered"
    BY <1>s, <1>1 DEF R!LaneFits
  <1> HIDE DEF op, l
  <1>3. /\ s \in R!ActorType /\ s.active = x3.active /\ s.root = x3.root /\ s.queue = x3.queue
        /\ s.control = x3.control /\ s.inputs = x3.inputs /\ s.admission = x3.admission /\ s.lane = l
    BY <1>s, <1>1 DEF R!ActorType
  <1> HIDE DEF s
  <1>4. ASSUME NEW k \in DOMAIN l
        PROVE  R!OpFits(s, k, x1, Calm) /\ (R!Switches(l[k]) => op.owner \in {"nobody", "task"})
    <2>1. R!OpFits(x3, k + 1, x1, Calm)
      BY <1>s, <1>1 DEF R!LaneFits
    <2>2. R!Switches(l[k]) => /\ x3.root /\ op.owner \in {"nobody", "task"}
                              /\ \A j \in 1..k - 1 : l[j].owner \in {"nobody", "task"}
      <3>1. R!Switches(l[k]) => x3.root /\ \A j \in 1..(k + 1) - 1 : x3.lane[j].owner \in {"nobody", "task"}
        BY <1>1, <2>1 DEF R!OpFits
      <3> QED
        BY <1>1, <3>1
    <2> QED
      BY <1>1, <1>3, <2>1, <2>2 DEF R!OpFits
  <1>5. R!LaneFits(s, x1, Calm) /\ (over => Clear(s))
    BY <1>3, <1>4 DEF R!LaneFits, Clear, op
  <1>6. R!TaskFits(s, x1) /\ R!QueueFits(s)
    BY <1>s, <1>3 DEF R!TaskFits, R!QueueFits
  <1>7. Fit(s, Dones(over), x3.active)
    <2>1. x3.root /\ x3.active \in Dones(over) => Clear(s)
      BY <1>5, DonesAre
    <2>2. /\ \A i \in DOMAIN x3.inputs : x3.inputs[i].state = "done" => i \in Dones(over)
          /\ x3.active # 0 /\ ~x3.root => Nat \subseteq Dones(over)
      BY DonesAre
    <2> QED
      BY <1>3, <1>5, <1>6, <2>1, <2>2 DEF Fit, R!Sound
  <1>8. /\ op.owner # "nobody" => R!Truthful(op, x1, Calm)
        /\ op.owner = "admission" => op.step = "mode"
        /\ op.owner = "control" =>
             /\ op.step \in {"mode", "postmode", "identity", "idle", "off"}
             /\ x3.control.intent # "none" /\ (op.step # "mode" => x3.control.intent # "route")
    BY <1>1, <1>2 DEF R!OpFits
  <1> QED
    BY <1>1, <1>3, <1>7, <1>8 DEF op, s, l

\* The process of a client runs nothing that the present one does not.
LEMMA ProcessHolds ==
    ASSUME R!TypeOK, NEW c
    PROVE  /\ R!Process(c) \in R!ProcessType /\ (Calm => ~R!Process(c).run /\ ~R!Process(c).pending)
           /\ c # x3.client => R!Process(c).events = <<>>
  <1>1. R!Dead \in R!ProcessType /\ ~R!Dead.run /\ ~R!Dead.pending /\ R!Dead.events = <<>>
    BY DEF R!Dead, R!ProcessType
  <1>2. R!Fresh \in R!ProcessType /\ ~R!Fresh.run /\ ~R!Fresh.pending /\ R!Fresh.events = <<>>
    BY <1>1 DEF R!Fresh, R!ProcessType
  <1> QED
    BY <1>1, <1>2 DEF R!Process, R!TypeOK, Calm

\* Events are taken from a process.
LEMMA EventsTaken ==
    ASSUME NEW p \in R!ProcessType, NEW events \in Seq(R!EventType)
    PROVE  LET q == [p EXCEPT !.events = events] IN
           q \in R!ProcessType /\ q.run = p.run /\ q.pending = p.pending /\ q.events = events
  BY DEF R!ProcessType

\* The end of a handler.
LEMMA HandledHolds ==
    ASSUME R!RInv, NEW s, NEW done, NEW a, Fit(s, done, a), NEW starts, R!Handled(s, starts),
           x2' \in R!ProcessType, Calm => ~x2'.run /\ ~x2'.pending
    PROVE  /\ R!RInv' /\ x1' = x1 /\ DOMAIN x3.inputs \subseteq DOMAIN x3'.inputs
           /\ \A i \in DOMAIN x3.inputs : x3'.inputs[i].state = "done" => i \in done
  <1> DEFINE d == R!Dispatch(s, starts)
  <1>1. AtEnd(d, done)
    BY DispatchEnds, SoundParts
  <1>2. x3' = [d EXCEPT !.changed = FALSE] /\ x1' = x1
    BY DEF R!Handled
  <1> HIDE DEF d
  <1>3. d \in R!ActorType
    BY <1>1 DEF AtEnd, R!Sound
  <1>4. /\ x3' \in R!ActorType /\ x3'.active = d.active /\ x3'.root = d.root /\ x3'.queue = d.queue
        /\ x3'.control = d.control /\ x3'.admission = d.admission /\ x3'.lane = d.lane /\ x3'.inputs = d.inputs
    BY <1>2, <1>3 DEF R!ActorType
  <1>5. R!LaneFits(d, x1, Calm) /\ R!TaskFits(d, x1) /\ R!QueueFits(d)
    BY <1>1 DEF AtEnd, R!Sound
  <1>6. R!TaskFits(x3', x1) /\ R!QueueFits(x3')
    BY <1>4, <1>5 DEF R!TaskFits, R!QueueFits
  <1>7. R!LaneFits(x3', x1, Calm')
    BY <1>4, <1>5 DEF R!LaneFits, R!OpFits, R!Truthful, Calm
  <1>8. R!RInv'
    <2>1. x1 \in BOOLEAN
      BY SoundParts
    <2> QED
      BY <1>2, <1>4, <1>6, <1>7, <2>1 DEF R!RInv, R!TypeOK, R!Sound, Calm
  <1> QED
    BY <1>1, <1>2, <1>4, <1>8 DEF AtEnd

-----------------------------------------------------------------------------
\* What users send.

\* A new input.
LEMMA AcceptedFits ==
    ASSUME R!RInv, NEW kind \in R!Kinds
    PROVE  LET t == R!Accepted(kind) IN
           /\ Fit(t, Dones(FALSE), x3.active) /\ R!NewInput \in DOMAIN t.inputs /\ R!NewInput \in Nat
           /\ R!NewInput \notin DOMAIN x3.inputs /\ R!NewInput \in Dones(FALSE)
           /\ t.active = x3.active /\ t.root = x3.root /\ t.control = x3.control
  <1> DEFINE n == [kind |-> kind, state |-> "pending"]
             l == Append(x3.inputs, n)
             t == [x3 EXCEPT !.inputs = l]
  <1>s. x3 \in R!ActorType /\ x3.inputs \in Seq(R!InputType)
    BY SoundParts
  <1>1. n \in R!InputType /\ n.state # "done"
    BY DEF R!InputType, R!Kinds
  <1>2. R!Accepted(kind) = t
    BY DEF R!Accepted
  <1> HIDE DEF n
  <1>3. /\ l \in Seq(R!InputType) /\ Len(l) = Len(x3.inputs) + 1 /\ Len(x3.inputs) \in Nat
        /\ DOMAIN l = 1..Len(x3.inputs) + 1 /\ DOMAIN x3.inputs = 1..Len(x3.inputs)
        /\ \A k \in DOMAIN x3.inputs : l[k] = x3.inputs[k]
        /\ l[Len(x3.inputs) + 1] = n
    BY <1>s, <1>1
  <1> HIDE DEF l
  <1>4. /\ t \in R!ActorType /\ t.active = x3.active /\ t.root = x3.root /\ t.queue = x3.queue
        /\ t.control = x3.control /\ t.inputs = l /\ t.admission = x3.admission /\ t.lane = x3.lane
    BY <1>s, <1>3 DEF R!ActorType
  <1> HIDE DEF t
  <1>5. Len(l) >= Len(x3.inputs) /\ R!NewInput = Len(x3.inputs) + 1
        /\ \A k \in DOMAIN l : k \in DOMAIN x3.inputs \/ k = Len(x3.inputs) + 1
    BY <1>3 DEF R!NewInput
  <1>6. \A k \in DOMAIN l : l[k].state = "done" => k \in DOMAIN x3.inputs /\ x3.inputs[k].state = "done"
    BY <1>1, <1>3, <1>5
  <1>7. Fit(t, Dones(FALSE), x3.active)
    BY <1>4, <1>5, <1>6, BegunFits, InputsFit
  <1>8. /\ R!NewInput \in DOMAIN l /\ R!NewInput \in Nat
        /\ R!NewInput \notin DOMAIN x3.inputs
    BY <1>3, <1>5
  <1> QED
    BY <1>2, <1>4, <1>7, <1>8, DonesAre

\* An input is queued.
LEMMA QueuedFits ==
    ASSUME NEW s, NEW done, NEW a, Fit(s, done, a), NEW i \in Nat, i \in DOMAIN s.inputs
    PROVE  LET t == [s EXCEPT !.queue = Append(@, i)] IN
           Fit(t, done, a) /\ t.control = s.control /\ t.active = s.active /\ t.root = s.root
  <1> DEFINE q == Append(s.queue, i)
             t == [s EXCEPT !.queue = q]
  <1>s. s \in R!ActorType /\ R!LaneFits(s, x1, Calm) /\ R!TaskFits(s, x1) /\ R!QueueFits(s) /\ s.queue \in Seq(Nat)
    BY DEF Fit, R!Sound, R!ActorType
  <1>1. /\ q \in Seq(Nat)
        /\ \A k \in DOMAIN q : q[k] = i \/ (k \in DOMAIN s.queue /\ q[k] = s.queue[k])
    BY <1>s
  <1> HIDE DEF q
  <1>2. /\ t \in R!ActorType /\ t.active = s.active /\ t.root = s.root /\ t.queue = q
        /\ t.control = s.control /\ t.inputs = s.inputs /\ t.admission = s.admission /\ t.lane = s.lane
    BY <1>s, <1>1 DEF R!ActorType
  <1>3. t = [s EXCEPT !.queue = Append(@, i)]
    BY <1>s DEF q, R!ActorType
  <1> HIDE DEF t
  <1>4. R!LaneFits(t, x1, Calm) /\ (Clear(s) => Clear(t))
    BY <1>s, <1>2 DEF R!LaneFits, R!OpFits, Clear
  <1>5. R!TaskFits(t, x1) /\ R!QueueFits(t)
    BY <1>s, <1>1, <1>2 DEF R!TaskFits, R!QueueFits
  <1>6. Fit(t, done, a)
    BY <1>2, <1>4, <1>5 DEF Fit, R!Sound
  <1> QED
    BY <1>2, <1>3, <1>6

\* What a step that is no end of a root keeps.
Kept ==
    /\ R!RInv' /\ x1' = x1 /\ DOMAIN x3.inputs \subseteq DOMAIN x3'.inputs
    /\ \A i \in DOMAIN x3.inputs : x3'.inputs[i].state = "done" => i \in Dones(FALSE)

\* A handler that takes no event and ends no root.
LEMMA PlainHandled ==
    ASSUME R!RInv, NEW s, Fit(s, Dones(FALSE), x3.active), NEW starts, R!Handled(s, starts),
           x2' = R!Process(x3'.client)
    PROVE  Kept
  <1>1. x2' \in R!ProcessType /\ (Calm => ~x2'.run /\ ~x2'.pending)
    BY SoundParts, ProcessHolds
  <1> QED
    BY <1>1, HandledHolds DEF Kept

\* A message of the user.
LEMMA SendPromptKeeps == ASSUME R!RInv, R!SendPrompt PROVE Kept
  <1>1. PICK starts \in BOOLEAN :
            /\ R!Handled([R!Accepted("prompt") EXCEPT !.queue = Append(@, R!NewInput)], starts)
            /\ x2' = R!Process(x3'.client)
    BY DEF R!SendPrompt
  <1> DEFINE t == R!Accepted("prompt")
             i == R!NewInput
             q == [t EXCEPT !.queue = Append(@, i)]
  <1>2. Fit(t, Dones(FALSE), x3.active) /\ i \in DOMAIN t.inputs /\ i \in Nat
    BY AcceptedFits DEF R!Kinds
  <1> HIDE DEF t, i
  <1>3. Fit(q, Dones(FALSE), x3.active)
    BY <1>2, QueuedFits
  <1>4. R!Handled(q, starts)
    BY <1>1 DEF t, i
  <1> HIDE DEF q
  <1> QED
    BY <1>1, <1>3, <1>4, PlainHandled

\* routeResearchInput
LEMMA RouteCommandKeeps == ASSUME R!RInv, R!RouteCommand PROVE Kept
  <1>1. PICK kind \in {"goal", "toggle"}, starts \in BOOLEAN :
            LET i == R!NewInput
                s == R!EnsureRuntime(R!Accepted(kind))
                queued == [s EXCEPT !.queue = Append(@, i)]
                routed == IF R!Controlled(s) THEN R!Mark(s, i, "cancelled")
                          ELSE IF R!TaskActive(s) /\ s.native THEN queued
                          ELSE R!Lookup(queued, "route", i)
            IN /\ R!Handled(IF R!CanStart(x3, starts) THEN routed ELSE R!Mark(R!Accepted(kind), i, "done"), starts)
               /\ x2' = R!Process(x3'.client)
    BY DEF R!RouteCommand
  <1> DEFINE i == R!NewInput
             t == R!Accepted(kind)
             s == R!EnsureRuntime(t)
             queued == [s EXCEPT !.queue = Append(@, i)]
             looked == R!Lookup(queued, "route", i)
             cancelled == R!Mark(s, i, "cancelled")
             refused == R!Mark(t, i, "done")
             h == IF R!CanStart(x3, starts)
                  THEN IF R!Controlled(s) THEN cancelled
                       ELSE IF R!TaskActive(s) /\ s.native THEN queued ELSE looked
                  ELSE refused
  <1>2. /\ Fit(t, Dones(FALSE), x3.active) /\ i \in DOMAIN t.inputs /\ i \in Nat
        /\ i \notin DOMAIN x3.inputs /\ i \in Dones(FALSE) /\ t.active = x3.active /\ t.root = x3.root
    BY AcceptedFits DEF R!Kinds
  <1>h. R!Handled(h, starts) /\ x2' = R!Process(x3'.client)
    BY <1>1
  <1> HIDE DEF t, i
  <1>3. Fit(s, Dones(FALSE), x3.active) /\ s.inputs = t.inputs
    BY <1>2, EnsureRuntimeFits
  <1> HIDE DEF s
  <1>4. Fit(queued, Dones(FALSE), x3.active) /\ queued.control = s.control
    BY <1>2, <1>3, QueuedFits
  <1> HIDE DEF queued
  <1>5. ~R!Controlled(s) => Fit(looked, Dones(FALSE), x3.active)
    <2>1. ~R!Controlled(s) => queued.control.intent = "none"
      BY <1>4, NothingsTyped DEF R!Controlled
    <2> QED
      BY <1>2, <1>4, <2>1, LookupFits, SoundParts
  <1>6. Fit(cancelled, Dones(FALSE), x3.active)
    BY <1>2, <1>3, MarkFits DEF States
  <1>7. Fit(refused, Dones(FALSE), x3.active)
    <2>1. ~(t.root /\ i = t.active)
      BY <1>2, SoundParts DEF R!TaskFits
    <2> QED
      BY <1>2, <2>1, MarkFits DEF States
  <1> HIDE DEF looked, cancelled, refused
  <1>8. Fit(h, Dones(FALSE), x3.active)
    BY <1>4, <1>5, <1>6, <1>7
  <1> HIDE DEF h
  <1> QED
    BY <1>h, <1>8, PlainHandled

\* /autoresearch off
LEMMA RouteOffKeeps == ASSUME R!RInv, R!RouteOff PROVE Kept
  <1>1. PICK starts \in BOOLEAN :
            /\ R!Handled(R!Disable(R!Mark(R!Accepted("off"), R!NewInput, "submitted"), R!NewInput, starts), starts)
            /\ x2' = R!Process(x3'.client)
    BY DEF R!RouteOff
  <1> DEFINE i == R!NewInput
             t == R!Accepted("off")
             m == R!Mark(t, i, "submitted")
             d == R!Disable(m, i, starts)
  <1>2. Fit(t, Dones(FALSE), x3.active) /\ i \in Nat
    BY AcceptedFits DEF R!Kinds
  <1>h. R!Handled(d, starts)
    BY <1>1
  <1> HIDE DEF t, i
  <1>3. Fit(m, Dones(FALSE), x3.active)
    BY <1>2, MarkFits DEF States
  <1> HIDE DEF m
  <1>4. Fit(d, Dones(FALSE), x3.active)
    BY <1>2, <1>3, DisableFits, SoundParts
  <1> HIDE DEF d
  <1> QED
    BY <1>1, <1>h, <1>4, PlainHandled

\* stop and handleResearchStop
LEMMA StopKeeps == ASSUME R!RInv, R!Stop PROVE Kept
  <1> DEFINE looking == x3.admission # R!NoProbe /\ ~x3.admission.ready
             emptied(s) == R!CancelAll(s, R!ToSet(s.queue))
             i == R!NewInput
             t == R!Accepted("stop")
             m == R!Mark(t, i, "submitted")
             c == R!CancelControl(m)
             r == R!RetireResearch(c)
             q == emptied(m)
             z == R!RetireResearch(q)
  <1>1. PICK starts \in BOOLEAN :
            /\ R!Handled(IF R!Controlled(m) THEN emptied(r)
                         ELSE IF looking THEN R!Disable(z, 0, starts)
                         ELSE R!Disable(q, 0, starts), starts)
            /\ x2' = R!Process(x3'.client)
    BY DEF R!Stop
  <1>2. Fit(t, Dones(FALSE), x3.active) /\ i \in Nat
    BY AcceptedFits DEF R!Kinds
  <1> DEFINE h == IF R!Controlled(m) THEN emptied(r)
                  ELSE IF looking THEN R!Disable(z, 0, starts)
                  ELSE R!Disable(q, 0, starts)
  <1>h. R!Handled(h, starts)
    BY <1>1
  <1> HIDE DEF t, i, looking
  <1>3. Fit(m, Dones(FALSE), x3.active)
    BY <1>2, MarkFits DEF States
  <1> HIDE DEF m
  <1>4. Fit(c, Dones(FALSE), x3.active)
    BY <1>3, CancelControlFits
  <1> HIDE DEF c
  <1>5. Fit(r, Dones(FALSE), x3.active)
    BY <1>4, RetireResearchFits
  <1> HIDE DEF r
  <1>6. Fit(emptied(r), Dones(FALSE), x3.active)
    BY <1>5, CancelAllFits
  <1>7. Fit(q, Dones(FALSE), x3.active)
    BY <1>3, CancelAllFits
  <1> HIDE DEF q
  <1>8. Fit(z, Dones(FALSE), x3.active)
    BY <1>7, RetireResearchFits
  <1> HIDE DEF z
  <1>9. Fit(R!Disable(z, 0, starts), Dones(FALSE), x3.active) /\ Fit(R!Disable(q, 0, starts), Dones(FALSE), x3.active)
    BY <1>7, <1>8, DisableFits, SoundParts
  <1>10. Fit(h, Dones(FALSE), x3.active)
    BY <1>6, <1>9
  <1> HIDE DEF h
  <1> QED
    BY <1>1, <1>h, <1>10, PlainHandled

-----------------------------------------------------------------------------
\* What OMP reports, what the lane returns, and what the actor does by itself.

\* The next event of OMP.
LEMMA EventHandledKeeps == ASSUME R!RInv, R!EventHandled PROVE Kept
  <1> DEFINE e == Head(x2.events)
             t == R!Taken(x3, e)
             p == R!Process(x3'.client)
             l == IF x3'.client = x3.client THEN Tail(p.events) ELSE p.events
  <1>1. x2.events # <<>>
    BY DEF R!EventHandled
  <1>2. PICK starts \in BOOLEAN : R!Handled(t, starts) /\ x2' = [p EXCEPT !.events = l]
    BY DEF R!EventHandled
  <1>3. e \in R!EventType /\ x2.events \in Seq(R!EventType) /\ Tail(x2.events) \in Seq(R!EventType)
    BY <1>1, SoundParts
  <1> HIDE DEF e
  <1>4. Fit(t, Dones(FALSE), x3.active)
    BY <1>3, BegunFits, TakenFits, SoundParts
  <1> HIDE DEF t
  <1>5. /\ p \in R!ProcessType /\ (Calm => ~p.run /\ ~p.pending)
        /\ x3'.client = x3.client => p = x2
    BY SoundParts, ProcessHolds DEF R!Process
  <1>6. l \in Seq(R!EventType)
    <2>1. p.events \in Seq(R!EventType)
      BY <1>5 DEF R!ProcessType
    <2> QED
      BY <1>3, <1>5, <2>1
  <1> HIDE DEF p, l
  <1>7. x2' \in R!ProcessType /\ (Calm => ~x2'.run /\ ~x2'.pending)
    BY <1>2, <1>5, <1>6, EventsTaken
  <1> QED
    BY <1>2, <1>4, <1>7, HandledHolds DEF Kept

\* researchControlTick
LEMMA ControlExpiresKeeps == ASSUME R!RInv, R!ControlExpires PROVE Kept
  <1>1. PICK starts \in BOOLEAN : R!Handled(R!ControlFailed(x3), starts) /\ x2' = R!Process(x3'.client)
    BY DEF R!ControlExpires
  <1>2. Fit(R!ControlFailed(x3), Dones(FALSE), x3.active)
    BY BegunFits, ControlFailedFits
  <1> QED
    BY <1>1, <1>2, PlainHandled

\* The process is gone.
LEMMA ExitedKeeps == ASSUME R!RInv, R!Exited PROVE Kept
  <1> DEFINE c == R!CancelAll(x3, R!ToSet(x3.queue))
             s == IF x3.root THEN x3 ELSE c
             t == R!RetireTask(s)
  <1>1. PICK starts \in BOOLEAN : R!Handled(t, starts) /\ x2' = R!Process(x3'.client)
    BY DEF R!Exited
  <1>2. Fit(c, Dones(FALSE), x3.active)
    BY BegunFits, CancelAllFits
  <1> HIDE DEF c
  <1>3. Fit(s, Dones(FALSE), x3.active)
    BY <1>2, BegunFits
  <1> HIDE DEF s
  <1>4. Fit(t, Dones(FALSE), x3.active)
    BY <1>3, RetireTaskFits
  <1> HIDE DEF t
  <1> QED
    BY <1>1, <1>4, PlainHandled

\* The idle process is released.
LEMMA IdleReleaseKeeps == ASSUME R!RInv, R!IdleRelease PROVE Kept
  <1>1. R!Handled(R!ReleaseRuntime(x3), FALSE) /\ x2' = R!Process(x3'.client)
    BY DEF R!IdleRelease
  <1>2. Fit(R!ReleaseRuntime(x3), Dones(FALSE), x3.active)
    BY BegunFits, ReleaseRuntimeFits
  <1> QED
    BY <1>1, <1>2, PlainHandled

\* What the answer at the head of the lane says of the root, when n events were taken with it.
Over(n) ==
    LET op == Head(x3.lane)
    IN  \/ op.owner = "control" /\ x3.control.intent = "local"
        \/ op.owner = "settlement" /\ ~x1 /\ Calm /\ n = Len(x2.events)

\* What the handler of a result keeps.
LEMMA ResultFits ==
    ASSUME R!RInv, x3.lane # <<>>, Head(x3.lane).phase = "answered", NEW starts,
           NEW n \in 0..Len(x2.events)
    PROVE  LET op == Head(x3.lane)
               s  == [x3 EXCEPT !.lane = Tail(@)]
           IN  Fit(CASE op.owner = "control"    -> R!ControlFinished(s, op, starts)
                     [] op.owner = "admission"  -> R!AdmissionFinished(s, op)
                     [] op.owner = "settlement" ->
                          R!SettlementFinished(s, op, SubSeq(x2.events, 1, n), n < Len(x2.events))
                     [] op.owner = "task"       -> R!TaskAnswered(s, op)
                     [] op.owner = "nobody"     -> s, Dones(Over(n)), x3.active)
  <1> DEFINE op == Head(x3.lane)
             s == [x3 EXCEPT !.lane = Tail(@)]
             done == Dones(Over(n))
             a == x3.active
             events == SubSeq(x2.events, 1, n)
             buffered == n < Len(x2.events)
  <1>t. R!TypeOK /\ x2.events \in Seq(R!EventType) /\ R!TaskFits(x3, x1) /\ x1 \in BOOLEAN
    BY SoundParts
  <1>0. Over(n) \in BOOLEAN
    BY ZenonT(10) DEF Over
  <1>1. /\ Fit(s, done, a) /\ s.control = x3.control /\ op \in R!OpType
        /\ op.owner # "nobody" => R!Truthful(op, x1, Calm)
        /\ op.owner = "control" =>
             /\ op.step \in {"mode", "postmode", "identity", "idle", "off"}
             /\ x3.control.intent # "none" /\ (op.step # "mode" => x3.control.intent # "route")
    <2>1. Over(n) => op.owner \in {"control", "settlement"}
      BY DEF Over
    <2> QED
      BY <1>0, <2>1, ReturnedFits
  <1>2. events \in Seq(R!EventType) /\ buffered \in BOOLEAN /\ (~buffered => n = Len(x2.events))
    BY <1>t
  <1>o. op.owner \in {"task", "control", "admission", "settlement", "nobody"}
    BY <1>1 DEF R!OpType
  <1>d. /\ x3.control.intent = "off" /\ ~x1 => Nat \subseteq done
        /\ Over(n) => x3.active \in done
    <2>1. x3.control.intent = "off" => ~x3.root
      BY <1>t DEF R!TaskFits
    <2>2. ~x1 /\ ~x3.root => Nat \subseteq done
      BY DonesAre
    <2>3. ASSUME Over(n) PROVE x3.active \in done
      <3>1. x3.root => x3.active \in done
        BY <2>3, DonesAre
      <3>2. ~x3.root => x3.active \in done
        BY SoundParts DEF Dones
      <3> QED
        BY <3>1, <3>2
    <2> QED
      BY <2>1, <2>2, <2>3
  <1>p. Over(n) <=> \/ op.owner = "control" /\ x3.control.intent = "local"
                    \/ op.owner = "settlement" /\ ~x1 /\ Calm /\ n = Len(x2.events)
    BY DEF Over
  <1> HIDE DEF op, s, done, events, buffered
  <1>3. CASE op.owner = "control"
    <2>1. op.ok => op.value \in BOOLEAN /\ (op.step \in R!Reads /\ ~op.value => ~x1)
      BY <1>1, <1>3 DEF R!Truthful
    <2>2. x3.control.intent = "local" => a \in done
      BY <1>3, <1>d, <1>p
    <2>3. Returned(s, op, done, a)
      BY <1>1, <1>3, <1>d, <2>1, <2>2 DEF Returned
    <2>4. Fit(R!ControlFinished(s, op, starts), done, a)
      BY <1>1, <1>t, <2>3, ControlFinishedFits
    <2> QED
      BY <1>3, <2>4 DEF op, s, done, events, buffered
  <1>4. CASE op.owner = "admission"
    <2>1. op.step = "mode"
      BY <1>0, <1>4, <1>p, ReturnedFits DEF op
    <2>2. op.ok => op.value \in BOOLEAN /\ (~op.value => ~x1)
      BY <1>1, <1>4, <2>1 DEF R!Truthful, R!Reads
    <2>3. Fit(R!AdmissionFinished(s, op), done, a)
      BY <1>1, <1>t, <2>2, AdmissionFinishedFits
    <2> QED
      BY <1>4, <2>3 DEF op, s, done, events, buffered
  <1>5. CASE op.owner = "settlement"
    <2>1. op.ok => op.value \in R!Reading /\ (~op.value.mode /\ op.value.quiet => ~x1 /\ Calm)
      BY <1>1, <1>5 DEF R!Truthful
    <2>2. op.ok /\ ~op.value.mode /\ op.value.quiet /\ ~buffered => a \in done
      BY <1>2, <1>5, <1>d, <1>p, <2>1
    <2>3. Fit(R!SettlementFinished(s, op, events, buffered), done, a)
      BY <1>1, <1>2, <1>t, <2>1, <2>2, SettlementFinishedFits
    <2> QED
      BY <1>5, <2>3 DEF op, s, done, events, buffered
  <1>6. CASE op.owner = "task"
    <2>1. Fit(R!TaskAnswered(s, op), done, a)
      BY <1>1, TaskAnsweredFits
    <2> QED
      BY <1>6, <2>1 DEF op, s, done, events, buffered
  <1>7. CASE op.owner = "nobody"
    BY <1>1, <1>7 DEF op, s, done, events, buffered
  <1> QED
    BY <1>o, <1>3, <1>4, <1>5, <1>6, <1>7

\* A step's promises about what is said to be over.
Promises == R!RInv' /\ R!ConfirmsOff /\ R!SettlesOver

\* A step that ends no root keeps the promises.
LEMMA KeptIsPromised == ASSUME R!RInv, Kept PROVE Promises
  <1>1. /\ x3.inputs \in Seq(R!InputType) /\ R!TaskFits(x3, x1)
        /\ \A i \in DOMAIN x3.inputs : x3'.inputs[i].state = "done" => i \in Dones(FALSE)
    BY SoundParts DEF Kept
  <1>2. R!ConfirmsOff
    BY <1>1 DEF R!ConfirmsOff, Dones
  <1>3. x3.root => x3.active \in DOMAIN x3.inputs /\ x3.active \notin Dones(FALSE)
    BY <1>1, DonesAre DEF R!TaskFits
  <1>4. R!SettlesOver
    BY <1>1, <1>3 DEF R!SettlesOver
  <1> QED
    BY <1>2, <1>4 DEF Promises, Kept

\* The result of the lane's head: what it ends was told over by what it read.
LEMMA ResultHandledPromises == ASSUME R!RInv, R!ResultHandled PROVE Promises
  <1> DEFINE op == Head(x3.lane)
             s == [x3 EXCEPT !.lane = Tail(@)]
             h(starts, n) == CASE op.owner = "control"    -> R!ControlFinished(s, op, starts)
                               [] op.owner = "admission"  -> R!AdmissionFinished(s, op)
                               [] op.owner = "settlement" ->
                                    R!SettlementFinished(s, op, SubSeq(x2.events, 1, n), n < Len(x2.events))
                               [] op.owner = "task"       -> R!TaskAnswered(s, op)
                               [] op.owner = "nobody"     -> s
             p == R!Process(x3'.client)
             l(n) == IF x3'.client = x3.client THEN SubSeq(p.events, n + 1, Len(p.events)) ELSE p.events
  <1>1. PICK starts \in BOOLEAN, n \in 0..Len(x2.events) :
            /\ x3.lane # <<>> /\ op.phase = "answered"
            /\ R!Handled(h(starts, n), starts)
            /\ x2' = [p EXCEPT !.events = l(n)]
    BY DEF R!ResultHandled
  <1> DEFINE t == h(starts, n)
             e == l(n)
  <1>2. Fit(t, Dones(Over(n)), x3.active)
    BY <1>1, ResultFits
  <1>3. R!Handled(t, starts) /\ x2' = [p EXCEPT !.events = e]
    BY <1>1
  <1> HIDE DEF t
  <1>4. /\ p \in R!ProcessType /\ (Calm => ~p.run /\ ~p.pending)
        /\ x3'.client = x3.client => p = x2
        /\ x3'.client # x3.client => p.events = <<>>
    BY SoundParts, ProcessHolds DEF R!Process
  <1>5. e \in Seq(R!EventType) /\ (n = Len(x2.events) => e = <<>>)
    <2>1. p.events \in Seq(R!EventType)
      BY <1>4 DEF R!ProcessType
    <2> QED
      BY <1>4, <2>1
  <1> HIDE DEF p, e
  <1>6. x2' \in R!ProcessType /\ x2'.run = p.run /\ x2'.pending = p.pending /\ x2'.events = e
    BY <1>3, <1>4, <1>5, EventsTaken
  <1>7. /\ R!RInv' /\ x1' = x1 /\ DOMAIN x3.inputs \subseteq DOMAIN x3'.inputs
        /\ \A i \in DOMAIN x3.inputs : x3'.inputs[i].state = "done" => i \in Dones(Over(n))
    BY <1>2, <1>3, <1>4, <1>6, HandledHolds
  <1>8. R!ConfirmsOff
    BY <1>7 DEF R!ConfirmsOff, Dones
  <1>9. R!SettlesOver
    <2>1. ASSUME x3.root, x3'.inputs[x3.active].state = "done", x3.control.intent # "local"
          PROVE  ~x1 /\ Calm /\ n = Len(x2.events)
      <3>1. x3.active \in DOMAIN x3.inputs
        BY <2>1, SoundParts DEF R!TaskFits
      <3>2. Over(n)
        BY <1>7, <2>1, <3>1, DonesAre
      <3> QED
        BY <2>1, <3>2 DEF Over
    <2>3. n = Len(x2.events) => \A k \in DOMAIN x2'.events : x2'.events[k].type \notin {"start", "end"}
      BY <1>5, <1>6
    <2>4. ASSUME x3.root, x3'.inputs[x3.active].state = "done", x3.control.intent # "local"
          PROVE  /\ ~x1 /\ (x2'.alive => ~x2.run /\ ~x2.pending)
                 /\ \A k \in DOMAIN x2'.events : x2'.events[k].type \notin {"start", "end"}
      BY <2>1, <2>3, <2>4 DEF Calm
    <2> QED
      BY <2>4 DEF R!SettlesOver
  <1> QED
    BY <1>7, <1>8, <1>9 DEF Promises

-----------------------------------------------------------------------------
\* OMP.

\* Steps of OMP end no input.
LEMMA UnmovedIsPromised == ASSUME R!RInv, R!RInv', x3'.inputs = x3.inputs PROVE Promises
  <1>1. R!TaskFits(x3, x1)
    BY SoundParts
  <1> QED
    BY <1>1 DEF Promises, R!ConfirmsOff, R!SettlesOver, R!TaskFits

\* The actor stays sound where research is not switched on and OMP, when it was calm and
\* research off, is still calm.
LEMMA UnmovedKeeps ==
    ASSUME R!RInv, x3' = x3, x1' \in BOOLEAN, x2' \in R!ProcessType, x1' => x1,
           ~x1 /\ Calm => ~x2'.run /\ ~x2'.pending
    PROVE  Promises
  <1>s. x3 \in R!ActorType /\ R!LaneFits(x3, x1, Calm) /\ R!TaskFits(x3, x1) /\ R!QueueFits(x3)
    BY SoundParts
  <1>1. R!LaneFits(x3, x1', Calm')
    BY <1>s DEF R!LaneFits, R!OpFits, R!Truthful, Calm
  <1>2. R!TaskFits(x3, x1')
    BY <1>s DEF R!TaskFits
  <1>3. R!RInv'
    BY <1>s, <1>1, <1>2 DEF R!RInv, R!TypeOK, R!Sound, Calm, R!QueueFits
  <1> QED
    BY <1>3, UnmovedIsPromised

\* The operation at the head of the lane goes on.
LEMMA HeadKeeps ==
    ASSUME R!RInv, x3.lane # <<>>, NEW op \in R!OpType, x3' = [x3 EXCEPT !.lane[1] = op],
           x2' \in R!ProcessType, x1' \in BOOLEAN, x1' => x1 \/ R!Switches(x3.lane[1]),
           op.owner = x3.lane[1].owner, op.step = x3.lane[1].step,
           op.phase = "answered" => R!Truthful(op, x1', Calm'),
           op.phase = "state" => op.owner = "settlement" /\ ~x1',
           op.phase # "answered" => op.value = x3.lane[1].value /\ x3.lane[1].phase # "answered"
    PROVE  Promises
  <1> DEFINE l == [x3.lane EXCEPT ![1] = op]
  <1>s. /\ x3 \in R!ActorType /\ R!LaneFits(x3, x1, Calm) /\ R!TaskFits(x3, x1) /\ R!QueueFits(x3)
        /\ x3.lane \in Seq(R!OpType)
    BY SoundParts DEF R!ActorType
  <1>1. /\ 1 \in DOMAIN x3.lane /\ l \in Seq(R!OpType) /\ DOMAIN l = DOMAIN x3.lane /\ l[1] = op
        /\ \A k \in DOMAIN x3.lane : k \in Nat /\ (k # 1 => l[k] = x3.lane[k])
        /\ \A k \in DOMAIN x3.lane : \A j \in 1..k - 1 : j \in DOMAIN x3.lane
    BY <1>s
  <1>2. x3' = [x3 EXCEPT !.lane = l]
    BY <1>s DEF R!ActorType
  <1> HIDE DEF l
  <1>3. /\ x3' \in R!ActorType /\ x3'.active = x3.active /\ x3'.root = x3.root /\ x3'.queue = x3.queue
        /\ x3'.control = x3.control /\ x3'.admission = x3.admission /\ x3'.lane = l /\ x3'.inputs = x3.inputs
    BY <1>s, <1>1, <1>2 DEF R!ActorType
  <1>4. R!OpFits(x3, 1, x1, Calm)
    BY <1>s, <1>1 DEF R!LaneFits
  <1>5. ASSUME NEW k \in DOMAIN x3.lane PROVE R!OpFits(x3', k, x1', Calm')
    <2>1. CASE k = 1
      <3>1. R!Switches(op) => R!Switches(x3.lane[1])
        BY DEF R!Switches
      <3>2. \A j \in 1..k - 1 : FALSE
        BY <2>1
      <3> QED
        BY <1>1, <1>3, <1>4, <2>1, <3>1, <3>2 DEF R!OpFits
    <2>2. CASE k # 1
      <3>1. R!OpFits(x3, k, x1, Calm) /\ l[k] = x3.lane[k]
        BY <1>s, <1>1, <2>2 DEF R!LaneFits
      <3>2. \A j \in 1..k - 1 : l[j].owner = x3.lane[j].owner
        BY <1>1
      <3> QED
        BY <1>3, <2>2, <3>1, <3>2 DEF R!OpFits
    <2> QED
      BY <2>1, <2>2
  <1>6. R!LaneFits(x3', x1', Calm')
    BY <1>1, <1>3, <1>5 DEF R!LaneFits
  <1>7. R!TaskFits(x3', x1')
    <2>1. R!Switches(x3.lane[1]) => x3.root
      BY <1>4 DEF R!OpFits
    <2> QED
      BY <1>s, <1>3, <2>1, NothingsTyped DEF R!TaskFits
  <1>8. R!QueueFits(x3')
    BY <1>s, <1>3 DEF R!QueueFits
  <1>9. R!RInv'
    BY <1>3, <1>6, <1>7, <1>8 DEF R!RInv, R!TypeOK, R!Sound, Calm
  <1> QED
    BY <1>3, <1>9, UnmovedIsPromised

\* The operation h with its answer.
AnswerOf(h, v, ok) == [h EXCEPT !.phase = "answered", !.value = v, !.ok = ok]

\* The answer of the operation at the head of the lane.
LEMMA AnsweredIs ==
    ASSUME x3 \in R!ActorType, x3.lane # <<>>, NEW v \in BOOLEAN \cup Nat \cup R!Reading,
           NEW ok \in BOOLEAN, R!Answer(v, ok)
    PROVE  LET h  == x3.lane[1]
               op == AnswerOf(h, v, ok)
           IN  /\ x3' = [x3 EXCEPT !.lane[1] = op] /\ op \in R!OpType /\ h \in R!OpType
               /\ op.owner = h.owner /\ op.step = h.step /\ op.phase = "answered"
               /\ op.value = v /\ op.ok = ok
  <1> DEFINE h == x3.lane[1]
             op == [h EXCEPT !.phase = "answered", !.value = v, !.ok = ok]
             l1 == [x3.lane EXCEPT ![1].phase = "answered"]
             l2 == [l1 EXCEPT ![1].value = v]
             l3 == [l2 EXCEPT ![1].ok = ok]
             y1 == [x3 EXCEPT !.lane = l1]
             y2 == [y1 EXCEPT !.lane = l2]
  <1>1. x3.lane \in Seq(R!OpType) /\ 1 \in DOMAIN x3.lane /\ h \in R!OpType
    BY DEF R!ActorType
  <1>2. /\ op \in R!OpType /\ op.owner = h.owner /\ op.step = h.step /\ op.phase = "answered"
        /\ op.value = v /\ op.ok = ok
    <2>1. op \in R!OpType
      <3> DEFINE m == [h EXCEPT !.phase = "answered", !.ok = ok]
      <3>1. m \in R!OpType
        BY <1>1 DEF R!OpType
      <3>2. op = [m EXCEPT !.value = v]
        BY <1>1 DEF R!OpType
      <3> HIDE DEF m
      <3> QED
        BY <3>1, <3>2 DEF R!OpType
    <2>2. /\ op.owner = h.owner /\ op.step = h.step /\ op.phase = "answered"
          /\ op.value = v /\ op.ok = ok
      BY <1>1 DEF R!OpType
    <2> QED
      BY <2>1, <2>2
  <1>3. l3 = [x3.lane EXCEPT ![1] = op]
    <2>1. DOMAIN l3 = DOMAIN x3.lane /\ l3 = [k \in DOMAIN x3.lane |-> l3[k]]
      OBVIOUS
    <2>2. l1[1] = [h EXCEPT !.phase = "answered"] /\ \A k \in DOMAIN x3.lane : k # 1 => l1[k] = x3.lane[k]
      BY <1>1
    <2>3. l2[1] = [l1[1] EXCEPT !.value = v] /\ \A k \in DOMAIN x3.lane : k # 1 => l2[k] = l1[k]
      BY <1>1
    <2>4. l3[1] = [l2[1] EXCEPT !.ok = ok] /\ \A k \in DOMAIN x3.lane : k # 1 => l3[k] = l2[k]
      BY <1>1
    <2>5. l3[1] = op
      BY <2>2, <2>3, <2>4
    <2> DEFINE r == [x3.lane EXCEPT ![1] = op]
    <2>6. /\ r = [k \in DOMAIN x3.lane |-> r[k]] /\ r[1] = op
          /\ \A k \in DOMAIN x3.lane : k # 1 => r[k] = x3.lane[k]
      <3> HIDE DEF op
      <3> QED
        BY <1>1
    <2> HIDE DEF l1, l2, l3, op, r
    <2>7. \A k \in DOMAIN x3.lane : l3[k] = r[k]
      BY <2>2, <2>3, <2>4, <2>5, <2>6
    <2>8. l3 = r
      BY <2>1, <2>6, <2>7
    <2> QED
      BY <2>8 DEF r
  <1>4. x3' = [x3 EXCEPT !.lane = l3]
    <2>1. y1 = [x3 EXCEPT !.lane[1].phase = "answered"] /\ y1.lane = l1
      BY DEF R!ActorType
    <2>2. y2 = [y1 EXCEPT !.lane[1].value = v] /\ y2.lane = l2
      BY <2>1 DEF R!ActorType
    <2>3. x3' = [y2 EXCEPT !.lane[1].ok = ok]
      BY <2>1, <2>2 DEF R!Answer
    <2>4. [y2 EXCEPT !.lane[1].ok = ok] = [y2 EXCEPT !.lane = l3]
      BY <2>2
    <2>5. [y2 EXCEPT !.lane = l3] = [x3 EXCEPT !.lane = l3]
      OBVIOUS
    <2> QED
      BY <2>3, <2>4, <2>5
  <1>5. [x3 EXCEPT !.lane[1] = op] = [x3 EXCEPT !.lane = [x3.lane EXCEPT ![1] = op]]
    <2> HIDE DEF op
    <2> QED
      OBVIOUS
  <1> HIDE DEF l3
  <1>6. op = AnswerOf(h, v, ok)
    BY DEF AnswerOf
  <1> HIDE DEF op
  <1> QED
    BY <1>1, <1>2, <1>3, <1>4, <1>5, <1>6

\* The operation at the head of the lane is answered.
LEMMA AnswerKeeps ==
    ASSUME R!RInv, R!Reached, NEW v \in BOOLEAN \cup Nat \cup R!Reading, NEW ok \in BOOLEAN,
           R!Answer(v, ok), x2' \in R!ProcessType, x1' \in BOOLEAN, x1' => x1 \/ R!Switches(R!Now),
           ok /\ R!Now.owner \in {"control", "admission"} =>
               v \in BOOLEAN /\ (R!Now.step \in R!Reads /\ ~v => ~x1'),
           ok /\ R!Now.owner = "settlement" =>
               v \in R!Reading /\ (~v.mode /\ v.quiet => ~x1' /\ Calm')
    PROVE  Promises
  <1> DEFINE h == x3.lane[1]
             op == AnswerOf(h, v, ok)
  <1>1. x3.lane # <<>> /\ R!Now = h
    BY DEF R!Reached, R!Now
  <1>2. /\ x3' = [x3 EXCEPT !.lane[1] = op] /\ op \in R!OpType
        /\ op.owner = h.owner /\ op.step = h.step /\ op.phase = "answered"
        /\ op.value = v /\ op.ok = ok
    <2>1. x3 \in R!ActorType /\ x3.lane # <<>> /\ R!Answer(v, ok)
      BY <1>1, SoundParts
    <2> QED
      BY <2>1, AnsweredIs
  <1> HIDE DEF op
  <1>3. R!Truthful(op, x1', Calm')
    BY <1>1, <1>2 DEF R!Truthful
  <1> QED
    BY <1>1, <1>2, <1>3, HeadKeeps

\* A read is answered with what it reads.
LEMMA ServeReadPromises == ASSUME R!RInv, R!ServeRead PROVE Promises
  <1> DEFINE value == IF R!Now.step \in R!Reads THEN x1 ELSE ~x2.run /\ ~x2.pending /\ x2.settled
  <1>1. PICK v \in BOOLEAN : v = value
    <2>1. x1 \in BOOLEAN /\ x2 \in R!ProcessType
      BY SoundParts
    <2>2. x2.run \in BOOLEAN /\ x2.pending \in BOOLEAN /\ x2.settled \in BOOLEAN
      BY <2>1 DEF R!ProcessType
    <2> QED
      BY <2>1, <2>2
  <1>2. R!Reached /\ R!Now.owner \in {"control", "admission"} /\ x1' = x1 /\ x2' = x2 /\ R!Answer(v, TRUE)
    BY <1>1 DEF R!ServeRead
  <1>3. v \in BOOLEAN /\ (R!Now.step \in R!Reads /\ ~v => ~x1)
    BY <1>1
  <1> QED
    BY <1>2, <1>3, SoundParts, AnswerKeeps

\* What the operation under way may be.
LEMMA NowFits ==
    ASSUME R!RInv, R!Reached
    PROVE  /\ R!Now = x3.lane[1] /\ R!Now \in R!OpType /\ R!Now.phase # "answered" /\ x3.lane # <<>>
           /\ R!Now.owner \in {"admission", "settlement"} => R!Now.step = "mode"
           /\ R!Now.owner = "control" => R!Now.step \in {"mode", "postmode", "identity", "idle", "off"}
           /\ R!Now.owner = "settlement" => R!Now.value \in Nat
           /\ R!Now.phase = "state" => R!Now.owner = "settlement" /\ ~x1
  <1>1. x3.lane \in Seq(R!OpType) /\ x3.lane # <<>> /\ R!Now = x3.lane[1] /\ R!Now.phase # "answered"
    BY SoundParts DEF R!ActorType, R!Reached, R!Now
  <1>2. 1 \in DOMAIN x3.lane /\ x3.lane[1] \in R!OpType
    BY <1>1
  <1>3. R!OpFits(x3, 1, x1, Calm)
    BY <1>2, SoundParts DEF R!LaneFits
  <1> QED
    BY <1>1, <1>2, <1>3 DEF R!OpFits

\* A process writes an event.
LEMMA WritesIs ==
    ASSUME NEW p \in R!ProcessType, NEW e \in R!EventType
    PROVE  LET q == R!Writes(p, e) IN q \in R!ProcessType /\ q.run = p.run /\ q.pending = p.pending
  <1> DEFINE l == Append(p.events, e)
  <1>1. l \in Seq(R!EventType)
    BY DEF R!ProcessType
  <1>2. R!Writes(p, e) = [p EXCEPT !.events = l]
    BY DEF R!Writes
  <1> HIDE DEF l
  <1> QED
    BY <1>1, <1>2, EventsTaken

\* A round of OMP begins.
LEMMA RoundBeginsTyped == ASSUME NEW p \in R!ProcessType PROVE R!RoundBegins(p) \in R!ProcessType
  <1> DEFINE n == p.rounds + 1
             q == [p EXCEPT !.run = TRUE, !.pending = FALSE, !.settled = FALSE, !.rounds = n]
             e == R!Event("start", 0, TRUE)
  <1>1. n \in Nat
    BY DEF R!ProcessType
  <1>2. R!RoundBegins(p) = R!Writes(q, e)
    BY DEF R!RoundBegins
  <1>3. e \in R!EventType
    BY DEF R!Event, R!EventType
  <1> HIDE DEF n, e
  <1>4. q \in R!ProcessType
    BY <1>1 DEF R!ProcessType
  <1> HIDE DEF q
  <1> QED
    BY <1>2, <1>3, <1>4, WritesIs

\* A settlement reads the mode, and, when it is off, the state after that.
LEMMA ServeSettlementModePromises == ASSUME R!RInv, R!ServeSettlementMode PROVE Promises
  <1>1. R!Reached /\ R!Now.owner = "settlement" /\ R!Now.phase = "sent" /\ x1' = x1 /\ x2' = x2
    BY DEF R!ServeSettlementMode
  <1>2. R!Now = x3.lane[1] /\ R!Now \in R!OpType /\ R!Now.value \in Nat /\ R!Now.step = "mode"
        /\ x3.lane # <<>>
    BY <1>1, NowFits
  <1>3. CASE x1
    <2> DEFINE v == [mode |-> TRUE, quiet |-> FALSE, revision |-> R!Now.value]
    <2>1. R!Answer(v, TRUE)
      BY <1>3 DEF R!ServeSettlementMode
    <2>2. v \in R!Reading /\ v.mode
      BY <1>2 DEF R!Reading
    <2> HIDE DEF v
    <2> QED
      BY <1>1, <2>1, <2>2, SoundParts, AnswerKeeps
  <1>4. CASE ~x1
    <2> DEFINE op == [x3.lane[1] EXCEPT !.phase = "state"]
    <2>1. /\ op \in R!OpType /\ op.owner = x3.lane[1].owner /\ op.step = x3.lane[1].step
          /\ op.phase = "state" /\ op.value = x3.lane[1].value
      BY <1>2 DEF R!OpType
    <2>2. x3' = [x3 EXCEPT !.lane[1] = op]
      BY <1>4 DEF R!ServeSettlementMode
    <2> HIDE DEF op
    <2> QED
      BY <1>1, <1>2, <1>4, <2>1, <2>2, SoundParts, HeadKeeps
  <1> QED
    BY <1>3, <1>4

\* A settlement reads the state, research being off.
LEMMA ServeSettlementStatePromises == ASSUME R!RInv, R!ServeSettlementState PROVE Promises
  <1> DEFINE quiet == ~x2.run /\ ~x2.pending /\ x2.settled
             same == R!Now.value = x2.revision
  <1>1. R!Reached /\ R!Now.phase = "state" /\ x1' = x1 /\ x2' = x2
        /\ R!Answer([mode |-> FALSE, quiet |-> quiet, revision |-> R!Now.value], same)
    BY DEF R!ServeSettlementState
  <1>2. R!Now.owner = "settlement" /\ R!Now.value \in Nat /\ ~x1
    BY <1>1, NowFits
  <1>3. PICK q \in BOOLEAN : q = quiet
    <2>1. x2 \in R!ProcessType
      BY SoundParts
    <2>2. x2.run \in BOOLEAN /\ x2.pending \in BOOLEAN /\ x2.settled \in BOOLEAN
      BY <2>1 DEF R!ProcessType
    <2> QED
      BY <2>2
  <1>4. PICK ok \in BOOLEAN : ok = same
    OBVIOUS
  <1> DEFINE v == [mode |-> FALSE, quiet |-> q, revision |-> R!Now.value]
  <1>5. R!Answer(v, ok)
    BY <1>1, <1>3, <1>4
  <1>6. v \in R!Reading /\ (v.quiet => Calm)
    <2>1. q => Calm
      BY <1>3 DEF Calm
    <2> QED
      BY <1>2, <2>1 DEF R!Reading
  <1> HIDE DEF v, quiet, same
  <1>7. Calm' <=> Calm
    BY <1>1 DEF Calm
  <1> QED
    BY <1>1, <1>2, <1>5, <1>6, <1>7, SoundParts, AnswerKeeps

\* OMP takes a prompt; a goal switches research on, for a root.
LEMMA ServePromptPromises == ASSUME R!RInv, R!ServePrompt PROVE Promises
  <1>1. /\ R!Reached /\ R!Now.owner = "task" /\ R!Now.step \in {"prompt", "goal"}
        /\ x1' = (x1 \/ R!Now.step = "goal") /\ x2' = R!RoundBegins(x2) /\ R!Answer(FALSE, TRUE)
    BY DEF R!ServePrompt
  <1>2. R!Now.phase # "answered"
    BY <1>1, NowFits
  <1>3. x1' \in BOOLEAN /\ (x1' => x1 \/ R!Switches(R!Now))
    BY <1>1, <1>2, SoundParts DEF R!Switches
  <1>4. x2' \in R!ProcessType
    BY <1>1, SoundParts, RoundBeginsTyped
  <1> QED
    BY <1>1, <1>3, <1>4, AnswerKeeps

\* A command that completes without an agent.
LEMMA ServeCommandPromises == ASSUME R!RInv, R!ServeCommand PROVE Promises
  <1>1. /\ R!Reached /\ R!Now.step \in {"goal", "toggle", "off"} /\ R!Answer(FALSE, TRUE)
        /\ x1' \in CASE R!Now.step = "goal" -> {x1}
                     [] R!Now.step = "toggle" -> {~x1, x1}
                     [] R!Now.step = "off" -> {FALSE, x1}
    BY DEF R!ServeCommand
  <1>2. PICK ok \in BOOLEAN :
            x2' = R!Writes(x2, R!Event("result", IF R!Now.step = "off" THEN 0 ELSE R!Now.turn, ok))
    BY DEF R!ServeCommand
  <1>3. /\ R!Now.phase # "answered" /\ R!Now \in R!OpType
        /\ R!Now.owner \notin {"admission", "settlement"}
        /\ R!Now.owner = "control" => R!Now.step = "off"
    BY <1>1, NowFits
  <1>4. x1' \in BOOLEAN /\ (x1' => x1 \/ R!Switches(R!Now))
    <2>1. x1 \in BOOLEAN
      BY SoundParts
    <2>2. CASE R!Now.step = "goal"
      BY <1>1, <2>1, <2>2
    <2>3. CASE R!Now.step = "off"
      BY <1>1, <2>1, <2>3
    <2>4. CASE R!Now.step = "toggle"
      <3>1. R!Switches(R!Now)
        BY <1>3, <2>4 DEF R!Switches
      <3>2. x1' \in {~x1, x1}
        BY <1>1, <2>4
      <3> QED
        BY <2>1, <3>1, <3>2
    <2> QED
      BY <1>1, <2>2, <2>3, <2>4
  <1>5. x2' \in R!ProcessType
    <2>1. R!Now.turn \in Nat
      BY <1>3 DEF R!OpType
    <2>2. R!Event("result", IF R!Now.step = "off" THEN 0 ELSE R!Now.turn, ok) \in R!EventType
      BY <2>1 DEF R!Event, R!EventType
    <2> QED
      BY <1>2, <2>2, SoundParts, WritesIs
  <1>6. R!Now.step = "off" => R!Now.step \notin R!Reads
    BY DEF R!Reads
  <1> QED
    BY <1>1, <1>3, <1>4, <1>5, <1>6, AnswerKeeps

\* A call fails.
LEMMA ServeFailsPromises == ASSUME R!RInv, R!ServeFails PROVE Promises
  <1> DEFINE v == [mode |-> FALSE, quiet |-> FALSE, revision |-> 0]
  <1>1. R!Reached /\ x1' = x1 /\ x2' = x2 /\ R!Answer(v, FALSE)
    BY DEF R!ServeFails
  <1>2. v \in R!Reading
    BY DEF R!Reading
  <1> HIDE DEF v
  <1> QED
    BY <1>1, <1>2, SoundParts, AnswerKeeps

\* A round ends, so OMP was not calm.
LEMMA RoundEndsPromises == ASSUME R!RInv, R!RoundEnds PROVE Promises
  <1>1. PICK ok, off, more \in BOOLEAN :
            /\ x2.run /\ x3' = x3 /\ x1' = (x1 /\ ~off)
            /\ x2' = R!Writes([x2 EXCEPT !.run = FALSE, !.pending = more], R!Event("end", 0, ok))
    BY DEF R!RoundEnds
  <1>2. [x2 EXCEPT !.run = FALSE, !.pending = more] \in R!ProcessType
    BY SoundParts DEF R!ProcessType
  <1>3. R!Event("end", 0, ok) \in R!EventType
    BY DEF R!Event, R!EventType
  <1>4. x2' \in R!ProcessType
    BY <1>1, <1>2, <1>3, WritesIs
  <1>5. ~Calm /\ x1' \in BOOLEAN /\ (x1' => x1)
    BY <1>1, SoundParts DEF Calm
  <1> QED
    BY <1>1, <1>4, <1>5, UnmovedKeeps

\* OMP goes on by itself only with research on or work left.
LEMMA ContinuesPromises == ASSUME R!RInv, R!Continues PROVE Promises
  <1>1. x2' = R!RoundBegins(x2) /\ x1' = x1 /\ x3' = x3 /\ (x1 \/ x2.pending)
    BY DEF R!Continues
  <1>2. x2' \in R!ProcessType
    BY <1>1, SoundParts, RoundBeginsTyped
  <1>3. ~(~x1 /\ Calm)
    BY <1>1 DEF Calm
  <1> QED
    BY <1>1, <1>2, <1>3, SoundParts, UnmovedKeeps

\* OMP settles.
LEMMA SettlesPromises == ASSUME R!RInv, R!Settles PROVE Promises
  <1> DEFINE p == [x2 EXCEPT !.settled = TRUE]
  <1>1. x2' = R!Writes(p, R!Event("settled", 0, TRUE)) /\ x1' = x1 /\ x3' = x3
    BY DEF R!Settles
  <1>2. p \in R!ProcessType /\ p.run = x2.run /\ p.pending = x2.pending
    BY SoundParts DEF R!ProcessType
  <1>3. R!Event("settled", 0, TRUE) \in R!EventType
    BY DEF R!Event, R!EventType
  <1> HIDE DEF p
  <1>4. x2' \in R!ProcessType /\ x2'.run = x2.run /\ x2'.pending = x2.pending
    BY <1>1, <1>2, <1>3, WritesIs
  <1> QED
    BY <1>1, <1>4, SoundParts, UnmovedKeeps DEF Calm

\* The catalog changes.
LEMMA CatalogChangesPromises == ASSUME R!RInv, R!CatalogChanges PROVE Promises
  <1> DEFINE n == x2.revision + 1
             p == [x2 EXCEPT !.revision = n]
  <1>1. x2' = R!Writes(p, R!Event("catalog", 0, TRUE)) /\ x1' = x1 /\ x3' = x3
    BY DEF R!CatalogChanges
  <1>n. n \in Nat
    BY SoundParts DEF R!ProcessType
  <1> HIDE DEF n
  <1>2. p \in R!ProcessType /\ p.run = x2.run /\ p.pending = x2.pending
    BY <1>n, SoundParts DEF R!ProcessType
  <1>3. R!Event("catalog", 0, TRUE) \in R!EventType
    BY DEF R!Event, R!EventType
  <1> HIDE DEF p
  <1>4. x2' \in R!ProcessType /\ x2'.run = x2.run /\ x2'.pending = x2.pending
    BY <1>1, <1>2, <1>3, WritesIs
  <1> QED
    BY <1>1, <1>4, SoundParts, UnmovedKeeps DEF Calm

\* The process dies.
LEMMA DiesPromises == ASSUME R!RInv, R!Dies PROVE Promises
  <1> DEFINE l == IF x3.lane = <<>> THEN <<>> ELSE x2.events
  <1>1. x2' = [R!Dead EXCEPT !.revision = x2.revision, !.events = l] /\ x1' = x1 /\ x3' = x3
    BY DEF R!Dies
  <1>2. l \in Seq(R!EventType) /\ x2.revision \in Nat
    BY SoundParts DEF R!ProcessType
  <1> HIDE DEF l
  <1>3. x2' \in R!ProcessType /\ ~x2'.run /\ ~x2'.pending
    BY <1>1, <1>2 DEF R!Dead, R!ProcessType
  <1> QED
    BY <1>1, <1>3, SoundParts, UnmovedKeeps

-----------------------------------------------------------------------------
\* Every step.

\* The invariant holds at the start.
LEMMA ResearchBegins == ASSUME R!Init PROVE R!RInv
  <1>1. x1 \in BOOLEAN /\ x2 = R!Dead /\ R!Dead \in R!ProcessType
    BY DEF R!Init, R!Dead, R!ProcessType
  <1>2. /\ x3 \in R!ActorType /\ x3.lane = <<>> /\ x3.queue = <<>> /\ x3.active = 0 /\ ~x3.root
        /\ x3.admission = R!NoProbe /\ x3.control = R!NoControl
    BY NothingsTyped DEF R!Init, R!ActorType, R!NoProof
  <1>3. R!LaneFits(x3, x1, Calm) /\ R!QueueFits(x3)
    BY <1>2 DEF R!LaneFits, R!QueueFits
  <1>4. R!TaskFits(x3, x1)
    BY <1>2, NothingsTyped DEF R!TaskFits
  <1> QED
    BY <1>1, <1>2, <1>3, <1>4 DEF R!RInv, R!TypeOK, R!Sound, Calm

\* Every step of research keeps the invariant and the promises.
LEMMA ResearchStepPromises == ASSUME R!RInv, R!Next PROVE Promises
  <1> USE KeptIsPromised
  <1> QED
    BY SendPromptKeeps, RouteCommandKeeps, RouteOffKeeps, StopKeeps, EventHandledKeeps,
       ResultHandledPromises, ControlExpiresKeeps, ExitedKeeps, IdleReleaseKeeps, ServeReadPromises,
       ServeSettlementModePromises, ServeSettlementStatePromises, ServePromptPromises,
       ServeCommandPromises, ServeFailsPromises, RoundEndsPromises, ContinuesPromises,
       SettlesPromises, CatalogChangesPromises, DiesPromises DEF R!Next

-----------------------------------------------------------------------------
\* The theorems.

\* The invariants of the two, each in a behaviour that is of it.
InputsInv == (part = "attachments" => I!IInv) /\ (part = "research" => R!RInv)

\* The attachments and research start in their invariants and their steps keep them.
THEOREM InputsInvariant == PartsSpec => []InputsInv
  <1>1. PartsInit => InputsInv
    BY IncomingInit, ResearchBegins DEF PartsInit, InputsInv
  <1>2. InputsInv /\ [PartsNext]_partVars => InputsInv'
    <2>1. ASSUME InputsInv, [PartsNext]_partVars, part' = "attachments" PROVE I!IInv'
      <3>1. part = "attachments" /\ I!IInv
        BY <2>1 DEF PartsNext, partVars, InputsInv
      <3>2. I!Next \/ UNCHANGED <<x1, x2, x3, x4, x5, x6, x7, x8, x9, x10, x11, x12>>
        BY <2>1, <3>1 DEF PartsNext, PartNext, partVars
      <3> QED
        BY <3>1, <3>2, IncomingStep, IncomingKept
    <2>2. ASSUME InputsInv, [PartsNext]_partVars, part' = "research" PROVE R!RInv'
      <3>1. part = "research" /\ R!RInv
        BY <2>2 DEF PartsNext, partVars, InputsInv
      <3>2. R!Next \/ UNCHANGED <<x1, x2, x3>>
        BY <2>2, <3>1 DEF PartsNext, PartNext, partVars
      <3>3. UNCHANGED <<x1, x2, x3>> => R!RInv'
        BY <3>1, SoundParts, UnmovedKeeps DEF Calm, Promises
      <3> QED
        BY <3>1, <3>2, <3>3, ResearchStepPromises DEF Promises
    <2> QED
      BY <2>1, <2>2 DEF InputsInv
  <1> QED
    BY <1>1, <1>2, PTL DEF PartsSpec

\* A queued or running task has the directory with all its files, a cancelled or failed
\* one leaves none (preparedMedia, sealAlbum, discardIncoming).
THEOREM DirectoriesFollowTasks == PartsSpec => []DirectoriesMatchTasks
  <1>1. InputsInv => DirectoriesMatchTasks
    BY IncomingSafe DEF InputsInv, DirectoriesMatchTasks
  <1> QED
    BY <1>1, InputsInvariant, PTL

\* No directory of an ended task is removed while its session is being resumed, is claimed
\* or is open in the conversation's OMP (cleanupIncomingAttachments, whose removeEligible
\* checks again under sessionMu); those of cancelled tasks are, and those of a session
\* whose claim a failed restore gave up may be (startInternalWithArgs, closeFailedStart).
THEOREM ResumedFilesAreKept == PartsSpec => ResumedKeepTheirFiles
  <1>1. InputsInv /\ [PartsNext]_partVars => [part = "attachments" => I!KeepsResumed]_partVars
    <2> SUFFICES ASSUME InputsInv, PartsNext, part = "attachments" PROVE I!KeepsResumed
      OBVIOUS
    <2>1. I!IInv /\ I!Next
      BY DEF InputsInv, PartsNext, PartNext
    <2> QED
      BY <2>1, IncomingStep
  <1> QED
    BY <1>1, InputsInvariant, PTL DEF PartsSpec, ResumedKeepTheirFiles

\* An ordinary root never runs while the session records that research is on; the mode was
\* read some calls before its prompt left (researchAdmissionReady, beginTask).
THEOREM OrdinaryRootsAreSafe == PartsSpec => []OrdinaryRootsRunWithoutResearch
  <1>1. InputsInv => OrdinaryRootsRunWithoutResearch
    BY SoundParts DEF InputsInv, OrdinaryRootsRunWithoutResearch, R!OrdinaryRootsRunWithoutResearch,
       R!TaskFits, R!TaskActive
  <1> QED
    BY <1>1, InputsInvariant, PTL

\* Research is reported off only when the session records it, and a root of research is
\* done only when OMP runs nothing more (finishResearchControl, researchSettlementFinished).
THEOREM ResearchEndIsConfirmed == PartsSpec => ResearchEndsConfirmed
  <1>1. InputsInv /\ [PartsNext]_partVars => [part = "research" => R!ConfirmsOff /\ R!SettlesOver]_partVars
    <2> SUFFICES ASSUME InputsInv, PartsNext, part = "research" PROVE R!ConfirmsOff /\ R!SettlesOver
      OBVIOUS
    <2>1. R!RInv /\ R!Next
      BY DEF InputsInv, PartsNext, PartNext
    <2> QED
      BY <2>1, ResearchStepPromises DEF Promises
  <1> QED
    BY <1>1, InputsInvariant, PTL DEF PartsSpec, ResearchEndsConfirmed
=============================================================================
