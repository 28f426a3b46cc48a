---------------------------- MODULE PartsProofs ----------------------------
(***************************************************************************)
(* Migrations, outgoing attachments and progress messages: proofs for any  *)
(* sessions, commands, files, tasks and bounds.                            *)
(*                                                                         *)
(* Migration: what the properties need is that the one process is in the   *)
(* session it is meant to be in.  That rests on who owns it: the actor, or *)
(* a start whose result the actor must still take (ProcessIsOwned).  A job *)
(* belongs to the run that began it, and its result says of the record and *)
(* the journal what it saw, as long as that run lasts (JobsAreOwned).  The *)
(* actor's copy of the record may lack a candidate that a cancelled job    *)
(* has observed, so the two differ there (RowIsKnown).                     *)
(*                                                                         *)
(* Snapshots: the janitor removes what was in no row when it read them.    *)
(* Such a file can have become a row since; but then it was being copied   *)
(* and is younger than a retention period (CopiesAreNew, ReadingIsRecent). *)
(*                                                                         *)
(* Progress: the replies written while a preview was the current one are   *)
(* within its boundary: the one in its record, the one its request was     *)
(* given meanwhile, or the one being retired; and there are none before    *)
(* that (BoundariesHold).  So what is found replaced has been, and no      *)
(* later reply can change it, since its epoch or its task is over          *)
(* (DoomedAreOver).                                                        *)
(***************************************************************************)
EXTENDS Parts, Sequences, FiniteSetTheorems, TLAPS

-----------------------------------------------------------------------------
\* Migration.

\* The empty record and the idle actor have their types, and a record keeps its own
\* when a field of it changes.
LEMMA MigrationTypes ==
    /\ M!NoRow \in M!RowType /\ M!NoRun \in M!RunType
    /\ \A r \in M!RowType : M!NewActor(r) \in M!ActorType
  BY DEF M!NoRow, M!NoRun, M!NewActor, M!RowType, M!RunType, M!ActorType, M!Ids

\* A record with a changed field is a record.
LEMMA RowEdits ==
    ASSUME NEW r \in M!RowType
    PROVE  /\ [r EXCEPT !.failed = TRUE] \in M!RowType
           /\ \A p \in {"handoff", "initialize", "verify"} : [r EXCEPT !.phase = p] \in M!RowType
           /\ \A c \in M!Ids : [r EXCEPT !.candidate = c] \in M!RowType
           /\ r.id \in Nat /\ r.source \in M!Ids /\ r.candidate \in M!Ids /\ r.failed \in BOOLEAN
           /\ M!Named(r) \subseteq SessionIds
  BY DEF M!RowType, M!Ids, M!Named

\* The instance's Cardinality is that of FiniteSets.
LEMMA SameCardinality == ASSUME NEW S PROVE M!Cardinality(S) = Cardinality(S)
  BY DEF M!Cardinality, Cardinality

\* The number of a migration is positive.
LEMMA MigrationsAreNumbered == M!NextId \in Nat \ {0}
  <1> DEFINE S == {i \in Triple : x5[i] # "pending"}
  <1>1. Cardinality(S) \in Nat
    BY PartsAssumption, FS_Subset, FS_CardinalityType
  <1>2. M!NextId = M!Cardinality(S) + 1
    BY DEF M!NextId
  <1> HIDE DEF S
  <1> QED
    BY <1>1, <1>2, SameCardinality

\* What holds of the empty record.
LEMMA NoRowIsKnown ==
    ASSUME x3' = M!NoRow, x9'.mig = M!NoRow, x8' = {}, x1'
    PROVE  M!RowIsKnown'
  <1>1. M!Named(M!NoRow) = {} /\ [M!NoRow EXCEPT !.candidate = M!NoRow.candidate] = M!NoRow
    BY DEF M!Named, M!NoRow
  <1> QED
    BY <1>1 DEF M!RowIsKnown

\* A failed record names the same sessions, and the actor knows it.
LEMMA FailedRowIsKnown ==
    ASSUME M!TypeOK, M!RowIsKnown, x1, x1' = x1, x8' = x8,
           x3' = IF x9.mig = M!NoRow THEN x3 ELSE [x3 EXCEPT !.failed = TRUE],
           x9'.mig = IF x9.mig = M!NoRow THEN M!NoRow ELSE x3'
    PROVE  x3' \in M!RowType /\ x9'.mig \in M!RowType /\ M!RowIsKnown'
  <1>1. x3 \in M!RowType /\ x9.mig \in M!RowType
    BY DEF M!TypeOK, M!ActorType
  <1>2. CASE x9.mig = M!NoRow
    <2>1. x3 = M!NoRow /\ x8 = M!Named(x3)
      BY <1>2 DEF M!RowIsKnown
    <2>2. M!Named(M!NoRow) = {}
      BY DEF M!Named, M!NoRow
    <2>3. M!RowIsKnown'
      BY <1>2, <2>1, <2>2, NoRowIsKnown
    <2> QED
      BY <1>1, <1>2, <2>3
  <1>3. CASE x9.mig # M!NoRow
    <2>1. x3 # M!NoRow /\ x8 = M!Named(x3) /\ x3.id # 0 /\ x3.source \in SessionIds /\ x3.candidate # x3.source
      BY <1>3 DEF M!RowIsKnown
    <2>2. x3' = [x3 EXCEPT !.failed = TRUE] /\ x9'.mig = x3'
      BY <1>3
    <2>3. /\ x3' \in M!RowType /\ x3'.id = x3.id /\ x3'.source = x3.source /\ x3'.candidate = x3.candidate
          /\ [x3' EXCEPT !.candidate = x3'.candidate] = x3'
      BY <1>1, <2>2 DEF M!RowType
    <2>4. x3' # M!NoRow
      BY <2>1, <2>3 DEF M!NoRow
    <2>5. M!Named(x3') = M!Named(x3)
      BY <2>3 DEF M!Named
    <2> QED
      BY <2>1, <2>2, <2>3, <2>4, <2>5 DEF M!RowIsKnown
  <1> QED
    BY <1>2, <1>3

\* An actor whose run is over.
LEMMA RunEnds ==
    ASSUME NEW a \in M!ActorType, NEW m \in M!RowType, NEW c \in Nat, NEW s \in Nat
    PROVE  [a EXCEPT !.run = M!NoRun, !.leased = 0, !.client = c, !.startup = s, !.mig = m] \in M!ActorType
  <1> DEFINE b == [a EXCEPT !.run = M!NoRun]
             d == [b EXCEPT !.leased = 0]
             e == [d EXCEPT !.client = c]
             f == [e EXCEPT !.startup = s]
  <1>1. b \in M!ActorType
    BY MigrationTypes DEF M!ActorType
  <1>2. [a EXCEPT !.run = M!NoRun, !.leased = 0, !.client = c, !.startup = s, !.mig = m]
          = [b EXCEPT !.leased = 0, !.client = c, !.startup = s, !.mig = m]
    BY DEF M!ActorType
  <1> HIDE DEF b
  <1>3. d \in M!ActorType
    BY <1>1 DEF M!ActorType
  <1>4. [b EXCEPT !.leased = 0, !.client = c, !.startup = s, !.mig = m] = [d EXCEPT !.client = c, !.startup = s, !.mig = m]
    BY <1>1 DEF M!ActorType
  <1> HIDE DEF d
  <1>5. e \in M!ActorType
    BY <1>3 DEF M!ActorType
  <1>6. [d EXCEPT !.client = c, !.startup = s, !.mig = m] = [e EXCEPT !.startup = s, !.mig = m]
    BY <1>3 DEF M!ActorType
  <1> HIDE DEF e
  <1>7. f \in M!ActorType
    BY <1>5 DEF M!ActorType
  <1>8. [e EXCEPT !.startup = s, !.mig = m] = [f EXCEPT !.mig = m]
    BY <1>5 DEF M!ActorType
  <1> HIDE DEF f
  <1>9. [f EXCEPT !.mig = m] \in M!ActorType
    BY <1>7 DEF M!ActorType
  <1> QED
    BY <1>2, <1>4, <1>6, <1>8, <1>9

\* A migration begins: nothing is pending, and the process it leases is in the session of
\* the binding.
LEMMA MigrationBegin ==
    ASSUME M!MInv, NEW i \in Triple, M!Begin(i)
    PROVE  M!MInv'
  <1>i. /\ M!TypeOK /\ M!RowIsKnown /\ M!RivalIsElsewhere /\ M!RunIsOwned
        /\ M!JobsAreOwned /\ M!ProcessIsOwned
    BY DEF M!MInv
  <1> DEFINE k == IF x9.client = 0 THEN x12 + 1 ELSE x9.client
             id == M!NextId
             run == [id |-> id, input |-> i, recovery |-> FALSE, old |-> FALSE]
  <1>u. /\ x1 /\ x9.mig = M!NoRow /\ x9.run = M!NoRun
        /\ x1' = x1 /\ x2' = x2 /\ x3' = x3 /\ x4' = x4 /\ x6' = x6 /\ x7' = x7 /\ x8' = x8
        /\ x5' = [x5 EXCEPT ![i] = "submitted"]
        /\ x10' = x10 \cup {[client |-> k, session |-> x4.session]}
        /\ x12' = IF x9.client = 0 THEN x12 + 1 ELSE x12
        /\ x9' = [x9 EXCEPT !.client = k, !.leased = k, !.attempt = x9.attempt + 1, !.run = run]
        /\ x11' = x11 \cup {M!Job("prepare", x9.attempt + 1, id, k, None)}
    <2>1. /\ x1 /\ x9.mig = M!NoRow /\ x9.run = M!NoRun
          /\ x1' = x1 /\ x2' = x2 /\ x3' = x3 /\ x4' = x4 /\ x6' = x6 /\ x7' = x7 /\ x8' = x8
          /\ x5' = [x5 EXCEPT ![i] = "submitted"]
      BY DEF M!Begin, M!Locked
    <2>2. /\ x10' = x10 \cup {[client |-> k, session |-> x4.session]}
          /\ x12' = IF x9.client = 0 THEN x12 + 1 ELSE x12
      BY DEF M!Begin
    <2>3. x9' = [x9 EXCEPT !.client = k, !.leased = k, !.attempt = x9.attempt + 1, !.run = run]
      BY DEF M!Begin
    <2>4. x11' = x11 \cup {M!Job("prepare", x9.attempt + 1, id, k, None)}
      BY DEF M!Begin
    <2> QED
      BY <2>1, <2>2, <2>3, <2>4
  <1>t. /\ x9 \in M!ActorType /\ x12 \in Nat /\ x9.client \in Nat /\ x9.attempt \in Nat /\ x9.client <= x12
        /\ x4.session \in SessionIds /\ x3 = M!NoRow /\ x8 = M!Named(x3)
    BY <1>i, <1>u DEF M!TypeOK, M!ActorType, M!RunIsOwned, M!RowIsKnown
  <1>k. k \in Nat /\ k # 0 /\ k <= x12' /\ x12' \in Nat /\ x12 <= x12'
    BY <1>u, <1>t
  <1>d. id \in Nat /\ id # 0
    BY MigrationsAreNumbered
  <1>r. run \in M!RunType /\ run.id = id /\ ~run.recovery /\ ~run.old /\ run # M!NoRun
    BY <1>d DEF M!RunType, M!NoRun
  <1>n. PICK n \in M!JobType :
          /\ x11' = x11 \cup {n}
          /\ n.stage = "prepare" /\ n.attempt = x9.attempt + 1 /\ n.id = id /\ n.leased = k
          /\ n.target = None /\ ~n.ended /\ n.client = 0
    <2> HIDE DEF k, id, run
    <2> DEFINE n == M!Job("prepare", x9.attempt + 1, id, k, None)
    <2>1. x11' = x11 \cup {n}
      BY <1>u
    <2>2. /\ n \in M!JobType
          /\ n.stage = "prepare" /\ n.attempt = x9.attempt + 1 /\ n.id = id /\ n.leased = k
          /\ n.target = None /\ ~n.ended /\ n.client = 0
      BY <1>t, <1>k, <1>d DEF M!Job, M!JobType, M!Ids
    <2> HIDE DEF n
    <2> QED
      BY <2>1, <2>2
  <1>q. PICK q \in [client : Nat, session : SessionIds] :
          x10' = x10 \cup {q} /\ q.client = k /\ q.session = x4.session
    <2> HIDE DEF k, id, run
    <2> DEFINE q == [client |-> k, session |-> x4.session]
    <2>1. x10' = x10 \cup {q}
      BY <1>u
    <2>2. q \in [client : Nat, session : SessionIds] /\ q.client = k /\ q.session = x4.session
      BY <1>t, <1>k
    <2> HIDE DEF q
    <2> QED
      BY <2>1, <2>2
  <1> HIDE DEF id, run
  <1>a. /\ x9' \in M!ActorType
        /\ x9'.mig = x9.mig /\ x9'.startup = x9.startup /\ x9'.client = k /\ x9'.leased = k
        /\ x9'.attempt = x9.attempt + 1 /\ x9'.run = run
    <2> HIDE DEF k
    <2>1. x9' = [x9 EXCEPT !.client = k, !.leased = k, !.attempt = x9.attempt + 1, !.run = run]
      BY <1>u
    <2>2. x9 \in M!ActorType /\ k \in Nat /\ x9.attempt + 1 \in Nat /\ run \in M!RunType
      BY <1>t, <1>k, <1>r
    <2>3. x9' \in M!ActorType
      BY <2>1, <2>2 DEF M!ActorType
    <2> QED
      BY <2>1, <2>2, <2>3 DEF M!ActorType
  <1>p. /\ \A z \in x11 : z \in M!JobType /\ z.attempt <= x9.attempt /\ z.leased <= x12
        /\ \A z \in x11 : ~M!Current(z)'
        /\ M!Open' /\ x9.startup = 0
        /\ \A z \in x11 : z.stage # "start"
    <2>1. \A z \in x11 : z \in M!JobType /\ z.attempt <= x9.attempt /\ z.leased <= x12
      BY <1>i DEF M!TypeOK, M!JobsAreOwned
    <2>2. \A z \in x11 : ~M!Current(z)'
      BY <1>a, <1>t, <2>1 DEF M!Current, M!JobType
    <2>3. x9.startup = 0
      BY <1>i, <1>u DEF M!RunIsOwned
    <2>4. \A z \in x11 : z.stage # "start"
      BY <1>i, <2>3 DEF M!JobsAreOwned, M!StartFits
    <2> QED
      BY <1>a, <1>r, <2>1, <2>2, <2>3, <2>4 DEF M!Open
  <1>c. \A q0 \in x10 : q0.client = x9.client /\ q0.session = x4.session /\ k = x9.client /\ q0 = q
    <2> SUFFICES ASSUME NEW q0 \in x10 PROVE q0.client = x9.client /\ q0.session = x4.session /\ k = x9.client /\ q0 = q
      OBVIOUS
    <2>1. q0.client = x9.client /\ q0.client # 0
      BY <1>i, <1>p DEF M!ProcessIsOwned
    <2>2. q0.session = x4.session
      BY <1>i, <1>u, <2>1 DEF M!ProcessIsOwned, M!SessionFits, M!Locked
    <2>3. k = x9.client
      BY <2>1
    <2>4. q0 \in [client : Nat, session : SessionIds]
      BY <1>i DEF M!TypeOK
    <2> QED
      BY <1>q, <2>1, <2>2, <2>3, <2>4
  <1> HIDE DEF k
  <1>1. M!TypeOK'
    <2>1. x5' \in [Triple -> {"pending", "submitted", "done", "failed", "uncertain"}]
      BY <1>i, <1>u DEF M!TypeOK
    <2>2. x10' \subseteq [client : Nat, session : SessionIds] /\ x11' \subseteq M!JobType
      BY <1>i, <1>n, <1>q DEF M!TypeOK
    <2> QED
      BY <1>i, <1>u, <1>a, <1>k, <2>1, <2>2 DEF M!TypeOK
  <1>2. M!RowIsKnown'
    <2>1. /\ x3 # M!NoRow => x3.id # 0 /\ x3.source \in SessionIds /\ x3.candidate # x3.source
          /\ x9.mig = [x3 EXCEPT !.candidate = x9.mig.candidate]
      BY <1>i, <1>u DEF M!RowIsKnown
    <2>2. M!Named(x3)' = M!Named(x3) /\ M!NoRow' = M!NoRow
      BY <1>u DEF M!Named, M!NoRow
    <2>3. x9'.mig = [x3' EXCEPT !.candidate = x9'.mig.candidate]
      BY <1>u, <1>a, <2>1
    <2> QED
      BY <1>u, <1>t, <1>a, <2>1, <2>2, <2>3 DEF M!RowIsKnown
  <1>3. M!RivalIsElsewhere'
    BY <1>i, <1>u DEF M!RivalIsElsewhere, M!Named
  <1>4. M!RunIsOwned'
    BY <1>u, <1>t, <1>a, <1>d, <1>k, <1>p, <1>r DEF M!RunIsOwned, M!Open, M!NoRow
  <1>5. M!JobsAreOwned'
    <2>1. ASSUME NEW z \in x11'
          PROVE  /\ z.attempt # 0 /\ z.attempt <= x9'.attempt /\ z.id # 0 /\ z.leased <= x12'
                 /\ z.stage = "candidate" => z.leased # 0
      <3>1. CASE z = n
        BY <1>t, <1>a, <1>d, <1>k, <1>n, <3>1
      <3>2. CASE z \in x11
        BY <1>i, <1>t, <1>a, <1>k, <1>p, <3>2 DEF M!JobsAreOwned, M!JobType
      <3> QED
        BY <1>n, <2>1, <3>1, <3>2
    <2>2. ASSUME NEW z \in x11', M!Current(z)'
          PROVE  M!StageFits(z)' /\ M!TargetFits(z)' /\ M!ResultFits(z)'
      <3>1. z = n
        BY <1>n, <1>p, <2>2
      <3>2. M!StageFits(n)'
        BY <1>a, <1>k, <1>n, <1>p, <1>r DEF M!StageFits
      <3>3. M!TargetFits(n)' /\ M!ResultFits(n)'
        BY <1>n DEF M!TargetFits, M!ResultFits
      <3> QED
        BY <3>1, <3>2, <3>3
    <2>3. ASSUME NEW z \in x11' PROVE IF z.stage = "start" THEN M!StartFits(z)' ELSE z.client = 0
      BY <1>i, <1>n, <1>p, <2>3 DEF M!JobsAreOwned
    <2>4. ASSUME NEW z1 \in x11', NEW z2 \in x11', z1.attempt = z2.attempt PROVE z1 = z2
      BY <1>i, <1>n, <1>p, <1>t, <2>4 DEF M!JobsAreOwned, M!JobType
    <2> QED
      BY <2>1, <2>2, <2>3, <2>4 DEF M!JobsAreOwned
  <1>6. M!ProcessIsOwned'
    <2>1. x10' = {q}
      BY <1>q, <1>c
    <2>2. q.client # 0 /\ q.client <= x12' /\ q.client = x9'.client
      BY <1>q, <1>k, <1>a
    <2>3. M!SessionFits(q)'
      BY <1>u, <1>a, <1>n, <1>p, <1>q DEF M!SessionFits
    <2>4. ASSUME NEW z \in x11', M!Stale(z)'
          PROVE  z.leased # k
      <3>1. z \in x11 /\ z.stage = "candidate" /\ ~z.ended
        BY <1>n, <2>4 DEF M!Stale
      <3>2. M!Stale(z)
        BY <1>u, <3>1 DEF M!Stale, M!Current, M!Open
      <3>3. z.leased # x9.client /\ z.leased <= x12 /\ z.leased \in Nat
        BY <1>i, <1>p, <3>1, <3>2 DEF M!ProcessIsOwned, M!JobType
      <3> QED
        BY <1>t, <3>3 DEF k
    <2>5. \A z \in x11' : z.stage # "start"
      BY <1>n, <1>p
    <2> QED
      BY <1>a, <1>q, <2>1, <2>2, <2>3, <2>4, <2>5 DEF M!ProcessIsOwned
  <1> QED
    BY <1>1, <1>2, <1>3, <1>4, <1>5, <1>6 DEF M!MInv

\* A command is answered without a run.
LEMMA MigrationAnswer ==
    ASSUME M!MInv, NEW i \in Triple, M!Answer(i)
    PROVE  M!MInv'
  <1>i. /\ M!TypeOK /\ M!RowIsKnown /\ M!RivalIsElsewhere /\ M!RunIsOwned
        /\ M!JobsAreOwned /\ M!ProcessIsOwned
    BY DEF M!MInv
  <1>1. M!TypeOK'
    <2>1. x9' \in M!ActorType
      BY <1>i DEF M!Answer, M!TypeOK
    <2>2. x11' \subseteq M!JobType
      BY <1>i, NoneAssumption DEF M!Answer, M!TypeOK, M!JobType, M!Ids
    <2>3. x3' \in M!RowType
      BY <1>i DEF M!Answer, M!TypeOK
    <2>4. x10' \subseteq [client : Nat, session : SessionIds]
      BY <1>i, NoneAssumption DEF M!Answer, M!TypeOK, M!JobType, M!ActorType
    <2>5. x8' \subseteq SessionIds
      BY <1>i DEF M!Answer, M!TypeOK
    <2> QED
      BY <1>i DEF M!Answer, M!TypeOK
  <1>2. M!RowIsKnown'
    BY <1>i DEF M!Answer, M!RowIsKnown
  <1>3. M!RivalIsElsewhere'
    BY <1>i DEF M!Answer, M!RivalIsElsewhere
  <1>4. M!RunIsOwned'
    BY <1>i DEF M!Answer, M!RunIsOwned, M!Open
  <1>5. M!JobsAreOwned'
    <2>1. ASSUME NEW k \in x11'
          PROVE  /\ k.attempt # 0 /\ k.attempt <= x9'.attempt /\ k.id # 0 /\ k.leased <= x12'
                 /\ k.stage = "candidate" => k.leased # 0
      BY <1>i DEF M!Answer, M!JobsAreOwned
    <2>2. ASSUME NEW k \in x11', M!Current(k)' PROVE M!StageFits(k)'
      BY <1>i, <2>2 DEF M!Answer, M!JobsAreOwned, M!Open, M!Current, M!StageFits
    <2>3. ASSUME NEW k \in x11', M!Current(k)' PROVE M!TargetFits(k)'
      BY <1>i, <2>3 DEF M!Answer, M!JobsAreOwned, M!Open, M!Current, M!TargetFits
    <2>4. ASSUME NEW k \in x11', M!Current(k)' PROVE M!ResultFits(k)'
      BY <1>i, <2>4 DEF M!Answer, M!JobsAreOwned, M!Open, M!Current, M!ResultFits, M!JournalComplete
    <2>5. ASSUME NEW k \in x11' PROVE IF k.stage = "start" THEN M!StartFits(k)' ELSE k.client = 0
      BY <1>i DEF M!Answer, M!JobsAreOwned, M!StartFits
    <2>6. ASSUME NEW k1 \in x11', NEW k2 \in x11', k1.attempt = k2.attempt PROVE k1 = k2
      BY <1>i, <2>6 DEF M!Answer, M!JobsAreOwned
    <2> QED
      BY <2>1, <2>2, <2>3, <2>4, <2>5, <2>6 DEF M!JobsAreOwned
  <1>6. M!ProcessIsOwned'
    <2>1. ASSUME NEW q \in x10'
          PROVE  /\ q.client # 0 /\ q.client <= x12'
                 /\ q.client = x9'.client \/ \E k \in x11' : k.stage = "start" /\ k.client = q.client
      BY <1>i DEF M!Answer, M!ProcessIsOwned
    <2>2. ASSUME NEW q \in x10' PROVE M!SessionFits(q)'
      BY <1>i DEF M!Answer, M!ProcessIsOwned, M!Open, M!Current, M!SessionFits, M!Locked
    <2>3. ASSUME NEW q1 \in x10', NEW q2 \in x10' PROVE q1 = q2
      BY <1>i DEF M!Answer, M!ProcessIsOwned
    <2>4. ASSUME NEW k \in x11', M!Stale(k)'
          PROVE  /\ k.leased # x9'.client
                 /\ \A q \in x10' : q.client # k.leased
                 /\ \A k1 \in x11' : k1.stage = "start" => k1.client # k.leased
      BY <1>i, <2>4 DEF M!Answer, M!ProcessIsOwned, M!Open, M!Current, M!Stale
    <2> QED
      BY <2>1, <2>2, <2>3, <2>4 DEF M!ProcessIsOwned
  <1> QED
    BY <1>1, <1>2, <1>3, <1>4, <1>5, <1>6 DEF M!MInv

\* A recovery begins: the process of the run before is closed, and none is starting.
LEMMA MigrationRecover ==
    ASSUME M!MInv, NEW i \in Triple, NEW s \in SessionIds, M!Recover(i, s)
    PROVE  M!MInv'
  <1>i. /\ M!TypeOK /\ M!RowIsKnown /\ M!RivalIsElsewhere /\ M!RunIsOwned
        /\ M!JobsAreOwned /\ M!ProcessIsOwned
    BY DEF M!MInv
  <1> DEFINE run == [id |-> x9.mig.id, input |-> i, recovery |-> TRUE, old |-> s = x9.mig.source]
  <1>u. /\ x1 /\ x9.mig # M!NoRow /\ x9.startup = 0
        /\ x1' = x1 /\ x2' = x2 /\ x3' = x3 /\ x4' = x4 /\ x6' = x6 /\ x7' = x7 /\ x8' = x8 /\ x12' = x12
        /\ x5' = [x5 EXCEPT ![i] = "submitted"]
        /\ x10' = {p \in x10 : p.client # x9.client}
        /\ x9' = [x9 EXCEPT !.client = 0, !.leased = 0, !.attempt = x9.attempt + 1, !.run = run]
        /\ x11' = x11 \cup {M!Job("resolve", x9.attempt + 1, x9.mig.id, 0, s)}
    BY DEF M!Recover, M!RecoverTo, M!Without
  <1>t. /\ x9 \in M!ActorType /\ x9.mig \in M!RowType /\ x3 \in M!RowType
        /\ x12 \in Nat /\ x9.client \in Nat /\ x9.attempt \in Nat
    BY <1>i DEF M!TypeOK, M!ActorType
  <1>m. /\ x3 # M!NoRow /\ x3.id # 0 /\ x3.source \in SessionIds /\ x3.candidate # x3.source
        /\ x8 = M!Named(x3) /\ x9.mig = [x3 EXCEPT !.candidate = x9.mig.candidate]
    BY <1>i, <1>u DEF M!RowIsKnown
  <1>d. x9.mig.id = x3.id /\ x9.mig.source = x3.source /\ x9.mig.id \in Nat /\ x9.mig.id # 0
    BY <1>t, <1>m DEF M!RowType
  <1>r. /\ run \in M!RunType /\ run.id = x3.id /\ run.recovery /\ (run.old <=> s = x3.source)
        /\ run # M!NoRun
    BY <1>d DEF M!RunType, M!NoRun
  <1>n. PICK n \in M!JobType :
          /\ x11' = x11 \cup {n}
          /\ n.stage = "resolve" /\ n.attempt = x9.attempt + 1 /\ n.id = x9.mig.id /\ n.leased = 0
          /\ n.target = s /\ ~n.ended /\ n.client = 0
    <2> HIDE DEF run
    <2> DEFINE n == M!Job("resolve", x9.attempt + 1, x9.mig.id, 0, s)
    <2>1. x11' = x11 \cup {n}
      BY <1>u
    <2>2. /\ n \in M!JobType
          /\ n.stage = "resolve" /\ n.attempt = x9.attempt + 1 /\ n.id = x9.mig.id /\ n.leased = 0
          /\ n.target = s /\ ~n.ended /\ n.client = 0
      BY <1>t, <1>d DEF M!Job, M!JobType, M!Ids
    <2> HIDE DEF n
    <2> QED
      BY <2>1, <2>2
  <1> HIDE DEF run
  <1>a. /\ x9' \in M!ActorType
        /\ x9'.mig = x9.mig /\ x9'.startup = 0 /\ x9'.client = 0 /\ x9'.leased = 0
        /\ x9'.attempt = x9.attempt + 1 /\ x9'.run = run
    <2>1. x9' = [x9 EXCEPT !.client = 0, !.leased = 0, !.attempt = x9.attempt + 1, !.run = run]
      BY <1>u
    <2>2. x9 \in M!ActorType /\ x9.attempt + 1 \in Nat /\ run \in M!RunType /\ x9.startup = 0
      BY <1>t, <1>r, <1>u
    <2>3. x9' \in M!ActorType
      BY <2>1, <2>2 DEF M!ActorType
    <2> QED
      BY <2>1, <2>2, <2>3 DEF M!ActorType
  <1>p. /\ \A z \in x11 : z \in M!JobType /\ z.attempt <= x9.attempt
        /\ \A z \in x11 : ~M!Current(z)'
        /\ M!Open'
        /\ \A z \in x11 : z.stage # "start"
    <2>1. \A z \in x11 : z \in M!JobType /\ z.attempt <= x9.attempt
      BY <1>i DEF M!TypeOK, M!JobsAreOwned
    <2>2. \A z \in x11 : ~M!Current(z)'
      BY <1>a, <1>t, <2>1 DEF M!Current, M!JobType
    <2>3. \A z \in x11 : z.stage # "start"
      BY <1>i, <1>u DEF M!JobsAreOwned, M!StartFits
    <2> QED
      BY <1>a, <1>r, <2>1, <2>2, <2>3 DEF M!Open
  <1>c. x10' = {}
    BY <1>i, <1>u, <1>p DEF M!ProcessIsOwned
  <1>1. M!TypeOK'
    <2>1. x5' \in [Triple -> {"pending", "submitted", "done", "failed", "uncertain"}]
      BY <1>i, <1>u DEF M!TypeOK
    <2>2. x10' \subseteq [client : Nat, session : SessionIds] /\ x11' \subseteq M!JobType
      BY <1>i, <1>n, <1>c DEF M!TypeOK
    <2> QED
      BY <1>i, <1>u, <1>a, <2>1, <2>2 DEF M!TypeOK
  <1>2. M!RowIsKnown'
    <2>1. M!Named(x3)' = M!Named(x3) /\ M!NoRow' = M!NoRow
      BY <1>u DEF M!Named, M!NoRow
    <2>2. x9'.mig = [x3' EXCEPT !.candidate = x9'.mig.candidate]
      BY <1>u, <1>a, <1>m
    <2> QED
      BY <1>u, <1>a, <1>m, <2>1, <2>2 DEF M!RowIsKnown
  <1>3. M!RivalIsElsewhere'
    BY <1>i, <1>u DEF M!RivalIsElsewhere, M!Named
  <1>4. M!RunIsOwned'
    BY <1>u, <1>t, <1>a, <1>d, <1>m, <1>r DEF M!RunIsOwned, M!Open, M!NoRow
  <1>5. M!JobsAreOwned'
    <2>1. ASSUME NEW z \in x11'
          PROVE  /\ z.attempt # 0 /\ z.attempt <= x9'.attempt /\ z.id # 0 /\ z.leased <= x12'
                 /\ z.stage = "candidate" => z.leased # 0
      <3>1. CASE z = n
        BY <1>u, <1>t, <1>a, <1>d, <1>n, <3>1
      <3>2. CASE z \in x11
        BY <1>i, <1>u, <1>t, <1>a, <1>p, <3>2 DEF M!JobsAreOwned, M!JobType
      <3> QED
        BY <1>n, <2>1, <3>1, <3>2
    <2>2. ASSUME NEW z \in x11', M!Current(z)'
          PROVE  M!StageFits(z)' /\ M!TargetFits(z)' /\ M!ResultFits(z)'
      <3>1. z = n
        BY <1>n, <1>p, <2>2
      <3>2. M!StageFits(n)'
        BY <1>u, <1>a, <1>d, <1>n, <1>r DEF M!StageFits, M!NoRow
      <3>3. M!TargetFits(n)' /\ M!ResultFits(n)'
        BY <1>u, <1>a, <1>n, <1>r DEF M!TargetFits, M!ResultFits
      <3> QED
        BY <3>1, <3>2, <3>3
    <2>3. ASSUME NEW z \in x11' PROVE IF z.stage = "start" THEN M!StartFits(z)' ELSE z.client = 0
      BY <1>i, <1>n, <1>p, <2>3 DEF M!JobsAreOwned
    <2>4. ASSUME NEW z1 \in x11', NEW z2 \in x11', z1.attempt = z2.attempt PROVE z1 = z2
      BY <1>i, <1>n, <1>p, <1>t, <2>4 DEF M!JobsAreOwned, M!JobType
    <2> QED
      BY <2>1, <2>2, <2>3, <2>4 DEF M!JobsAreOwned
  <1>6. M!ProcessIsOwned'
    <2>1. ASSUME NEW z \in x11', M!Stale(z)'
          PROVE  z.leased # 0 /\ z.stage # "start"
      <3>1. z \in x11 /\ z.stage = "candidate"
        BY <1>n, <2>1 DEF M!Stale
      <3> QED
        BY <1>i, <3>1 DEF M!JobsAreOwned
    <2>2. \A z \in x11' : z.stage # "start"
      BY <1>n, <1>p
    <2> QED
      BY <1>a, <1>c, <2>1, <2>2 DEF M!ProcessIsOwned
  <1> QED
    BY <1>1, <1>2, <1>3, <1>4, <1>5, <1>6 DEF M!MInv

\* A run is cancelled: its process goes, the record and the claims stay.
LEMMA MigrationStop ==
    ASSUME M!MInv, M!Stop
    PROVE  M!MInv'
  <1>i. /\ M!TypeOK /\ M!RowIsKnown /\ M!RivalIsElsewhere /\ M!RunIsOwned
        /\ M!JobsAreOwned /\ M!ProcessIsOwned
    BY DEF M!MInv
  <1>1. M!TypeOK'
    <2>1. x9' \in M!ActorType
      BY <1>i, MigrationTypes, RowEdits DEF M!Stop, M!CancelMigration, M!TypeOK, M!ActorType
    <2>2. x11' \subseteq M!JobType
      BY <1>i DEF M!Stop, M!TypeOK
    <2>3. x3' \in M!RowType
      BY <1>i, RowEdits DEF M!Stop, M!CancelMigration, M!TypeOK
    <2>4. x10' \subseteq [client : Nat, session : SessionIds]
      BY <1>i DEF M!Stop, M!CancelMigration, M!Without, M!TypeOK
    <2>5. x8' \subseteq SessionIds
      BY <1>i DEF M!Stop, M!CancelMigration, M!TypeOK
    <2> QED
      BY <1>i, <2>1 DEF M!Stop, M!CancelMigration, M!FailedInputs, M!Without, M!TypeOK, M!ActorType
  <1>2. M!RowIsKnown'
    BY <1>i DEF M!Stop, M!CancelMigration, M!RowIsKnown, M!Named, M!TypeOK, M!ActorType, M!RowType
  <1>3. M!RivalIsElsewhere'
    BY <1>i DEF M!Stop, M!CancelMigration, M!RivalIsElsewhere, M!Named
  <1>4. M!RunIsOwned'
    BY <1>i DEF M!Stop, M!CancelMigration, M!RunIsOwned, M!Open, M!TypeOK, M!NoRow
  <1>5. M!JobsAreOwned'
    <2>1. ASSUME NEW k \in x11'
          PROVE  /\ k.attempt # 0 /\ k.attempt <= x9'.attempt /\ k.id # 0 /\ k.leased <= x12'
                 /\ k.stage = "candidate" => k.leased # 0
      BY <1>i DEF M!Stop, M!CancelMigration, M!JobsAreOwned
    <2>2. ASSUME NEW k \in x11', M!Current(k)' PROVE M!StageFits(k)'
      BY <1>i, <2>2 DEF M!Stop, M!CancelMigration, M!Open, M!Current
    <2>3. ASSUME NEW k \in x11', M!Current(k)' PROVE M!TargetFits(k)'
      BY <1>i, <2>3 DEF M!Stop, M!CancelMigration, M!Open, M!Current
    <2>4. ASSUME NEW k \in x11', M!Current(k)' PROVE M!ResultFits(k)'
      BY <1>i, <2>4 DEF M!Stop, M!CancelMigration, M!Open, M!Current
    <2>5. ASSUME NEW k \in x11' PROVE IF k.stage = "start" THEN M!StartFits(k)' ELSE k.client = 0
      BY <1>i DEF M!Stop, M!CancelMigration, M!JobsAreOwned, M!StartFits
    <2>6. ASSUME NEW k1 \in x11', NEW k2 \in x11', k1.attempt = k2.attempt PROVE k1 = k2
      BY <1>i, <2>6 DEF M!Stop, M!JobsAreOwned
    <2> QED
      BY <2>1, <2>2, <2>3, <2>4, <2>5, <2>6 DEF M!JobsAreOwned
  <1>6. M!ProcessIsOwned'
    <2>1. ASSUME NEW q \in x10'
          PROVE  /\ q.client # 0 /\ q.client <= x12'
                 /\ q.client = x9'.client \/ \E k \in x11' : k.stage = "start" /\ k.client = q.client
      BY <1>i DEF M!Stop, M!CancelMigration, M!Without, M!ProcessIsOwned
    <2>2. ASSUME NEW q \in x10' PROVE M!SessionFits(q)'
      BY <1>i DEF M!Stop, M!CancelMigration, M!Without, M!ProcessIsOwned, M!Open, M!Current,
             M!SessionFits
    <2>3. ASSUME NEW q1 \in x10', NEW q2 \in x10' PROVE q1 = q2
      BY <1>i DEF M!Stop, M!CancelMigration, M!Without, M!ProcessIsOwned
    <2>4. ASSUME NEW k \in x11', M!Stale(k)'
          PROVE  /\ k.leased # x9'.client
                 /\ \A q \in x10' : q.client # k.leased
                 /\ \A k1 \in x11' : k1.stage = "start" => k1.client # k.leased
      BY <1>i, <2>4 DEF M!Stop, M!CancelMigration, M!Without, M!ProcessIsOwned, M!JobsAreOwned,
             M!StartFits, M!StageFits, M!Stale
    <2> QED
      BY <2>1, <2>2, <2>3, <2>4 DEF M!ProcessIsOwned
  <1> QED
    BY <1>1, <1>2, <1>3, <1>4, <1>5, <1>6 DEF M!MInv

\* A job that is not a start ends: the result replaces it.
LEMMA MigrationJobEnded ==
    ASSUME M!MInv, NEW j \in x11, ~j.ended, j.stage # "start",
           NEW ok \in BOOLEAN, NEW s \in M!Ids, M!Ends(j, ok, s, 0),
           UNCHANGED <<x1, x2, x3, x4, x5, x6, x7, x8, x9, x10, x12>>,
           ASSUME ok, M!Current(j)
           PROVE  /\ j.stage = "candidate" =>
                       s = x3.candidate /\ s # None /\ \A p \in x10 : p.session = s
                  /\ j.stage \in {"resolve", "verify"} => s = j.target
                  /\ j.stage = "verify" /\ j.target # x3.source => M!JournalComplete(j.target, j.id)
    PROVE  M!MInv'
  <1>i. /\ M!TypeOK /\ M!RowIsKnown /\ M!RivalIsElsewhere /\ M!RunIsOwned
        /\ M!JobsAreOwned /\ M!ProcessIsOwned
    BY DEF M!MInv
  <1>u. /\ x1' = x1 /\ x2' = x2 /\ x3' = x3 /\ x4' = x4 /\ x5' = x5 /\ x6' = x6 /\ x7' = x7
        /\ x8' = x8 /\ x9' = x9 /\ x10' = x10 /\ x12' = x12
    OBVIOUS
  <1>n. PICK n \in M!JobType :
          /\ x11' = (x11 \ {j}) \cup {n}
          /\ n.stage = j.stage /\ n.attempt = j.attempt /\ n.id = j.id /\ n.leased = j.leased
          /\ n.target = j.target /\ n.ended /\ n.ok = ok /\ n.session = s /\ n.client = 0
    <2>1. j \in M!JobType
      BY <1>i DEF M!TypeOK
    <2> DEFINE n == [j EXCEPT !.ended = TRUE, !.ok = ok, !.session = s, !.client = 0]
    <2>2. x11' = (x11 \ {j}) \cup {n}
      BY DEF M!Ends
    <2>3. /\ n \in M!JobType
          /\ n.stage = j.stage /\ n.attempt = j.attempt /\ n.id = j.id /\ n.leased = j.leased
          /\ n.target = j.target /\ n.ended /\ n.ok = ok /\ n.session = s /\ n.client = 0
      BY <2>1 DEF M!JobType
    <2> HIDE DEF n
    <2> QED
      BY <2>2, <2>3
  <1>p. /\ M!Current(n) <=> M!Current(j)
        /\ \A k : M!Current(k)' <=> M!Current(k)
    BY <1>u, <1>n DEF M!Current, M!Open
  <1>1. M!TypeOK'
    BY <1>i, <1>u, <1>n DEF M!TypeOK
  <1>2. M!RowIsKnown'
    <2>1. x1
      BY <1>i DEF M!RowIsKnown, M!TypeOK
    <2> QED
      BY <1>i, <1>u, <2>1 DEF M!RowIsKnown, M!Named, M!NoRow
  <1>3. M!RivalIsElsewhere'
    BY <1>i, <1>u DEF M!RivalIsElsewhere, M!Named
  <1>4. M!RunIsOwned'
    BY <1>i, <1>u DEF M!RunIsOwned, M!Open
  <1>5. M!JobsAreOwned'
    <2>1. ASSUME NEW k \in x11'
          PROVE  /\ k.attempt # 0 /\ k.attempt <= x9'.attempt /\ k.id # 0 /\ k.leased <= x12'
                 /\ k.stage = "candidate" => k.leased # 0
      BY <1>i, <1>u, <1>n, <2>1 DEF M!JobsAreOwned
    <2>2. ASSUME NEW k \in x11', M!Current(k)' PROVE M!StageFits(k)'
      BY <1>i, <1>u, <1>n, <1>p, <2>2 DEF M!JobsAreOwned, M!StageFits
    <2>3. ASSUME NEW k \in x11', M!Current(k)' PROVE M!TargetFits(k)'
      BY <1>i, <1>u, <1>n, <1>p, <2>3 DEF M!JobsAreOwned, M!TargetFits, M!Named
    <2>4. ASSUME NEW k \in x11', M!Current(k)' PROVE M!ResultFits(k)'
      <3>1. CASE k = n
        BY <1>u, <1>n, <1>p, <2>4, <3>1 DEF M!ResultFits, M!JournalComplete
      <3>2. CASE k \in x11
        BY <1>i, <1>u, <1>n, <1>p, <2>4, <3>2 DEF M!JobsAreOwned, M!ResultFits, M!JournalComplete
      <3> QED
        BY <1>n, <2>4, <3>1, <3>2
    <2>5. ASSUME NEW k \in x11' PROVE IF k.stage = "start" THEN M!StartFits(k)' ELSE k.client = 0
      BY <1>i, <1>u, <1>n, <2>5 DEF M!JobsAreOwned, M!StartFits
    <2>6. ASSUME NEW k1 \in x11', NEW k2 \in x11', k1.attempt = k2.attempt PROVE k1 = k2
      BY <1>i, <1>n, <2>6 DEF M!JobsAreOwned
    <2> QED
      BY <2>1, <2>2, <2>3, <2>4, <2>5, <2>6 DEF M!JobsAreOwned
  <1>6. M!ProcessIsOwned'
    <2>1. ASSUME NEW q \in x10'
          PROVE  /\ q.client # 0 /\ q.client <= x12'
                 /\ q.client = x9'.client \/ \E k \in x11' : k.stage = "start" /\ k.client = q.client
      BY <1>i, <1>u, <1>n, <2>1 DEF M!ProcessIsOwned
    <2>2. ASSUME NEW q \in x10' PROVE M!SessionFits(q)'
      <3>1. q \in x10 /\ M!SessionFits(q)
        BY <1>i, <1>u, <2>2 DEF M!ProcessIsOwned
      <3>2. ASSUME NEW k \in x11'
            PROVE  /\ k.stage = "start" /\ q.client = k.client => q.session = k.target
                   /\ M!Current(k)' /\ k.stage = "verify" => q.session = k.target
                   /\ M!Current(k)' /\ k.stage = "candidate" /\ k.ended /\ k.ok => q.session = k.session
        BY <1>n, <1>p, <3>1, <3>2 DEF M!SessionFits
      <3> QED
        BY <1>u, <3>1, <3>2 DEF M!SessionFits, M!Locked
    <2>3. ASSUME NEW q1 \in x10', NEW q2 \in x10' PROVE q1 = q2
      BY <1>i, <1>u, <2>3 DEF M!ProcessIsOwned
    <2>4. ASSUME NEW k \in x11', M!Stale(k)'
          PROVE  /\ k.leased # x9'.client
                 /\ \A q \in x10' : q.client # k.leased
                 /\ \A k1 \in x11' : k1.stage = "start" => k1.client # k.leased
      BY <1>i, <1>u, <1>n, <1>p, <2>4 DEF M!ProcessIsOwned, M!Stale
    <2> QED
      BY <2>1, <2>2, <2>3, <2>4 DEF M!ProcessIsOwned
  <1> QED
    BY <1>1, <1>2, <1>3, <1>4, <1>5, <1>6 DEF M!MInv

\* A job whose run is over leaves no result.
LEMMA MigrationJobDropped ==
    ASSUME M!MInv, NEW j \in x11, M!Dropped(j),
           UNCHANGED <<x1, x2, x3, x4, x5, x6, x7, x8, x9, x10, x12>>
    PROVE  M!MInv'
  <1>i. /\ M!TypeOK /\ M!RowIsKnown /\ M!RivalIsElsewhere /\ M!RunIsOwned
        /\ M!JobsAreOwned /\ M!ProcessIsOwned
    BY DEF M!MInv
  <1>u. /\ x1' = x1 /\ x2' = x2 /\ x3' = x3 /\ x4' = x4 /\ x5' = x5 /\ x6' = x6 /\ x7' = x7
        /\ x8' = x8 /\ x9' = x9 /\ x10' = x10 /\ x12' = x12
    OBVIOUS
  <1>n. x11' = x11 \ {j} /\ j.stage # "start"
    BY DEF M!Dropped
  <1>p. \A k : M!Current(k)' <=> M!Current(k)
    BY <1>u DEF M!Current, M!Open
  <1>1. M!TypeOK'
    BY <1>i, <1>u, <1>n DEF M!TypeOK
  <1>2. M!RowIsKnown'
    <2>1. x1
      BY <1>i DEF M!RowIsKnown, M!TypeOK
    <2> QED
      BY <1>i, <1>u, <2>1 DEF M!RowIsKnown, M!Named, M!NoRow
  <1>3. M!RivalIsElsewhere'
    BY <1>i, <1>u DEF M!RivalIsElsewhere, M!Named
  <1>4. M!RunIsOwned'
    BY <1>i, <1>u DEF M!RunIsOwned, M!Open
  <1>5. M!JobsAreOwned'
    BY <1>i, <1>u, <1>n, <1>p DEF M!JobsAreOwned, M!StageFits, M!TargetFits, M!ResultFits, M!StartFits,
           M!Named, M!JournalComplete
  <1>6. M!ProcessIsOwned'
    <2>1. ASSUME NEW q \in x10'
          PROVE  /\ q.client # 0 /\ q.client <= x12'
                 /\ q.client = x9'.client \/ \E k \in x11' : k.stage = "start" /\ k.client = q.client
      BY <1>i, <1>u, <1>n, <2>1 DEF M!ProcessIsOwned
    <2>2. ASSUME NEW q \in x10' PROVE M!SessionFits(q)'
      BY <1>i, <1>u, <1>n, <1>p, <2>2 DEF M!ProcessIsOwned, M!SessionFits, M!Locked
    <2>3. ASSUME NEW q1 \in x10', NEW q2 \in x10' PROVE q1 = q2
      BY <1>i, <1>u, <2>3 DEF M!ProcessIsOwned
    <2>4. ASSUME NEW k \in x11', M!Stale(k)'
          PROVE  /\ k.leased # x9'.client
                 /\ \A q \in x10' : q.client # k.leased
                 /\ \A k1 \in x11' : k1.stage = "start" => k1.client # k.leased
      BY <1>i, <1>u, <1>n, <1>p, <2>4 DEF M!ProcessIsOwned, M!Stale
    <2> QED
      BY <2>1, <2>2, <2>3, <2>4 DEF M!ProcessIsOwned
  <1> QED
    BY <1>1, <1>2, <1>3, <1>4, <1>5, <1>6 DEF M!MInv

\* The preparation ends, or is dropped.
LEMMA MigrationPrepareJobEnds ==
    ASSUME M!MInv, NEW j \in x11, M!PrepareJobEnds(j)
    PROVE  M!MInv'
  <1>1. /\ ~j.ended /\ j.stage = "prepare"
        /\ UNCHANGED <<x1, x2, x3, x4, x5, x6, x7, x8, x9, x10, x12>>
        /\ M!Ends(j, TRUE, None, 0) \/ M!Ends(j, FALSE, None, 0) \/ M!Dropped(j)
    BY DEF M!PrepareJobEnds, M!Working, M!SourceJobEnds
  <1>2. None \in M!Ids
    BY DEF M!Ids
  <1>3. CASE M!Ends(j, TRUE, None, 0)
    BY <1>1, <1>2, <1>3, MigrationJobEnded
  <1>4. CASE M!Ends(j, FALSE, None, 0)
    BY <1>1, <1>2, <1>4, MigrationJobEnded
  <1>5. CASE M!Dropped(j)
    BY <1>1, <1>5, MigrationJobDropped
  <1> QED
    BY <1>1, <1>3, <1>4, <1>5

\* The handoff ends, or is dropped.
LEMMA MigrationHandoffJobEnds ==
    ASSUME M!MInv, NEW j \in x11, M!HandoffJobEnds(j)
    PROVE  M!MInv'
  <1>1. /\ ~j.ended /\ j.stage = "handoff"
        /\ UNCHANGED <<x1, x2, x3, x4, x5, x6, x7, x8, x9, x10, x12>>
        /\ M!Ends(j, TRUE, None, 0) \/ M!Ends(j, FALSE, None, 0) \/ M!Dropped(j)
    BY DEF M!HandoffJobEnds, M!Working, M!SourceJobEnds
  <1>2. None \in M!Ids
    BY DEF M!Ids
  <1>3. CASE M!Ends(j, TRUE, None, 0)
    BY <1>1, <1>2, <1>3, MigrationJobEnded
  <1>4. CASE M!Ends(j, FALSE, None, 0)
    BY <1>1, <1>2, <1>4, MigrationJobEnded
  <1>5. CASE M!Dropped(j)
    BY <1>1, <1>5, MigrationJobDropped
  <1> QED
    BY <1>1, <1>3, <1>4, <1>5

\* The verification ends: it has seen that the journal of a candidate is complete.
LEMMA MigrationVerifyJobEnds ==
    ASSUME M!MInv, NEW j \in x11, M!VerifyJobEnds(j)
    PROVE  M!MInv'
  <1>1. /\ ~j.ended /\ j.stage = "verify"
        /\ UNCHANGED <<x1, x2, x3, x4, x5, x6, x7, x8, x9, x10, x12>>
        /\ \/ M!Ends(j, TRUE, j.target, 0) /\ (j.target # x3.source => M!JournalComplete(j.target, j.id))
           \/ M!Ends(j, FALSE, None, 0) \/ M!Dropped(j)
    BY DEF M!VerifyJobEnds, M!Working, M!Verified
  <1>2. None \in M!Ids /\ j.target \in M!Ids
    BY DEF M!Ids, M!MInv, M!TypeOK, M!JobType
  <1>3. CASE M!Ends(j, TRUE, j.target, 0) /\ (j.target # x3.source => M!JournalComplete(j.target, j.id))
    BY <1>1, <1>2, <1>3, MigrationJobEnded
  <1>4. CASE M!Ends(j, FALSE, None, 0)
    BY <1>1, <1>2, <1>4, MigrationJobEnded
  <1>5. CASE M!Dropped(j)
    BY <1>1, <1>5, MigrationJobDropped
  <1> QED
    BY <1>1, <1>3, <1>4, <1>5

\* The inspection of what the user named ends.
LEMMA MigrationResolveJobEnds ==
    ASSUME M!MInv, NEW j \in x11, M!ResolveJobEnds(j)
    PROVE  M!MInv'
  <1>1. /\ ~j.ended /\ j.stage = "resolve"
        /\ UNCHANGED <<x1, x2, x3, x4, x5, x6, x7, x8, x9, x10, x12>>
        /\ M!Ends(j, TRUE, j.target, 0) \/ M!Ends(j, FALSE, None, 0) \/ M!Dropped(j)
    BY DEF M!ResolveJobEnds, M!Working
  <1>2. None \in M!Ids /\ j.target \in M!Ids
    BY DEF M!Ids, M!MInv, M!TypeOK, M!JobType
  <1>3. CASE M!Ends(j, TRUE, j.target, 0)
    BY <1>1, <1>2, <1>3, MigrationJobEnded
  <1>4. CASE M!Ends(j, FALSE, None, 0)
    BY <1>1, <1>2, <1>4, MigrationJobEnded
  <1>5. CASE M!Dropped(j)
    BY <1>1, <1>5, MigrationJobDropped
  <1> QED
    BY <1>1, <1>3, <1>4, <1>5

\* The observation belongs to the run that is open: a candidate job of an earlier run
\* no longer finds its process.
LEMMA MigrationCandidateJobEnds ==
    ASSUME M!MInv, NEW j \in x11, M!CandidateJobEnds(j)
    PROVE  M!MInv'
  <1>i. /\ M!TypeOK /\ M!RowIsKnown /\ M!RivalIsElsewhere /\ M!RunIsOwned
        /\ M!JobsAreOwned /\ M!ProcessIsOwned
    BY DEF M!MInv
  <1>u. /\ x1' = x1 /\ x2' = x2 /\ x4' = x4 /\ x5' = x5 /\ x6' = x6 /\ x7' = x7
        /\ x9' = x9 /\ x10' = x10 /\ x12' = x12
        /\ ~j.ended /\ j.stage = "candidate" /\ x1
    BY DEF M!CandidateJobEnds, M!Working
  <1>t. j \in M!JobType /\ None \in M!Ids /\ \A p \in x10 : p.session \in M!Ids /\ p.session \in SessionIds
    BY <1>i DEF M!TypeOK, M!Ids
  <1>a. CASE /\ M!Ends(j, FALSE, None, 0) /\ x3' = x3 /\ x8' = x8
    BY <1>u, <1>t, <1>a, MigrationJobEnded
  <1>b. CASE /\ M!Dropped(j) /\ x3' = x3 /\ x8' = x8
    BY <1>u, <1>b, MigrationJobDropped
  <1>c. ASSUME NEW p \in x10, M!Ends(j, FALSE, p.session, 0), x3' = x3, x8' = x8
        PROVE  M!MInv'
    BY <1>u, <1>t, <1>c, MigrationJobEnded
  <1>d. ASSUME NEW p \in x10, p.client = j.leased, p.session # j.target,
               M!Observable(j.id, p.session), M!Observe(p.session),
               M!Ends(j, TRUE, p.session, 0) \/ M!Dropped(j)
        PROVE  M!MInv'
    <2> DEFINE s == p.session
    <2>1. M!Current(j)
      BY <1>i, <1>u, <1>d DEF M!ProcessIsOwned, M!Stale
    <2>2. ~M!Dropped(j)
      BY <2>1 DEF M!Dropped, M!Cancelled, M!Current, M!Open
    <2>3. /\ j.target = x3.source /\ x9.mig # M!NoRow /\ j.id = x9.run.id /\ j.id # 0
          /\ s # x3.source /\ s \in SessionIds /\ s # None
      BY <1>i, <1>u, <1>t, <1>d, <2>1, NoneAssumption DEF M!JobsAreOwned, M!StageFits, M!TargetFits
    <2>4. /\ x3 # M!NoRow /\ x3.id = j.id /\ x3.source \in SessionIds /\ x3 \in M!RowType
          /\ x3.candidate \in {None, s} /\ x8 = M!Named(x3)
          /\ x9.mig = [x3 EXCEPT !.candidate = x9.mig.candidate]
      BY <1>i, <1>u, <1>d, <2>3 DEF M!RowIsKnown, M!Observable, M!TypeOK
    <2> DEFINE r == [x3 EXCEPT !.candidate = s]
    <2>5. /\ x3' = r /\ x8' = {x3.source, s} /\ x7 \notin M!Named(r)
      BY <1>d DEF M!Observe, M!Observable, M!ClaimsFree
    <2>6. /\ r \in M!RowType /\ r.id = x3.id /\ r.source = x3.source /\ r.candidate = s
          /\ r.failed = x3.failed /\ r.phase = x3.phase /\ r.input = x3.input
          /\ r # M!NoRow
          /\ x9.mig = [r EXCEPT !.candidate = x9.mig.candidate]
      BY <2>3, <2>4 DEF M!RowType, M!Ids, M!NoRow
    <2> HIDE DEF r
    <2>7. M!Named(r) = {x3.source, s}
      BY <2>3, <2>4, <2>6, NoneAssumption DEF M!Named
    <2>n. PICK n \in M!JobType :
            /\ x11' = (x11 \ {j}) \cup {n}
            /\ n.stage = "candidate" /\ n.attempt = j.attempt /\ n.id = j.id /\ n.leased = j.leased
            /\ n.target = j.target /\ n.ended /\ n.ok /\ n.session = s /\ n.client = 0
      <3> DEFINE n == [j EXCEPT !.ended = TRUE, !.ok = TRUE, !.session = s, !.client = 0]
      <3>1. x11' = (x11 \ {j}) \cup {n}
        BY <1>d, <2>2 DEF M!Ends
      <3>2. /\ n \in M!JobType
            /\ n.stage = j.stage /\ n.attempt = j.attempt /\ n.id = j.id /\ n.leased = j.leased
            /\ n.target = j.target /\ n.ended /\ n.ok /\ n.session = s /\ n.client = 0
        BY <1>t, <2>3 DEF M!JobType
      <3> HIDE DEF n
      <3> QED
        BY <1>u, <3>1, <3>2
    <2>p. /\ M!Current(n) /\ M!Open
          /\ \A k : M!Current(k)' <=> M!Current(k)
          /\ \A k \in x11 : M!Current(k) => k = j
      BY <1>i, <1>u, <2>1, <2>n DEF M!Current, M!Open, M!JobsAreOwned
    <2>8. /\ M!StageFits(j) /\ M!TargetFits(j)
      BY <1>i, <2>1 DEF M!JobsAreOwned
    <2>9. M!TypeOK'
      <3>1. x3' \in M!RowType /\ x8' \subseteq SessionIds /\ x11' \subseteq M!JobType
        BY <1>i, <2>3, <2>4, <2>5, <2>6, <2>n DEF M!TypeOK
      <3> QED
        BY <1>i, <1>u, <3>1 DEF M!TypeOK
    <2>10. M!RowIsKnown'
      <3>1. r.id # 0 /\ r.source \in SessionIds /\ r.candidate # r.source
        BY <2>3, <2>4, <2>6
      <3>2. x8' = M!Named(r) /\ x9'.mig # M!NoRow /\ r # M!NoRow
        BY <1>u, <2>3, <2>5, <2>6, <2>7
      <3> QED
        BY <1>u, <2>5, <2>6, <3>1, <3>2 DEF M!RowIsKnown, M!Named, M!NoRow
    <2>11. M!RivalIsElsewhere'
      BY <1>i, <1>u, <2>5 DEF M!RivalIsElsewhere, M!Named
    <2>12. M!RunIsOwned'
      BY <1>i, <1>u, <2>5, <2>6 DEF M!RunIsOwned, M!Open
    <2>13. M!JobsAreOwned'
      <3>1. ASSUME NEW k \in x11'
            PROVE  /\ k.attempt # 0 /\ k.attempt <= x9'.attempt /\ k.id # 0 /\ k.leased <= x12'
                   /\ k.stage = "candidate" => k.leased # 0
        BY <1>i, <1>u, <2>n, <3>1 DEF M!JobsAreOwned
      <3>2. ASSUME NEW k \in x11', M!Current(k)'
            PROVE  M!StageFits(k)' /\ M!TargetFits(k)' /\ M!ResultFits(k)'
        <4>1. k = n
          BY <2>n, <2>p, <3>2
        <4>2. M!StageFits(n)'
          BY <1>u, <2>8, <2>n DEF M!StageFits
        <4>3. M!TargetFits(n)'
          BY <2>3, <2>5, <2>6, <2>n DEF M!TargetFits
        <4>4. M!ResultFits(n)'
          BY <2>3, <2>5, <2>6, <2>n DEF M!ResultFits
        <4> QED
          BY <4>1, <4>2, <4>3, <4>4
      <3>5. ASSUME NEW k \in x11' PROVE IF k.stage = "start" THEN M!StartFits(k)' ELSE k.client = 0
        BY <1>i, <1>u, <2>n, <3>5 DEF M!JobsAreOwned, M!StartFits
      <3>6. ASSUME NEW k1 \in x11', NEW k2 \in x11', k1.attempt = k2.attempt PROVE k1 = k2
        BY <1>i, <2>n, <3>6 DEF M!JobsAreOwned
      <3> QED
        BY <3>1, <3>2, <3>5, <3>6 DEF M!JobsAreOwned
    <2>14. M!ProcessIsOwned'
      <3>1. ASSUME NEW q \in x10'
            PROVE  /\ q.client # 0 /\ q.client <= x12'
                   /\ q.client = x9'.client \/ \E k \in x11' : k.stage = "start" /\ k.client = q.client
        BY <1>i, <1>u, <2>n, <3>1 DEF M!ProcessIsOwned
      <3>2. ASSUME NEW q \in x10' PROVE M!SessionFits(q)'
        <4>1. q = p /\ M!SessionFits(p)
          BY <1>i, <1>u, <3>2, <1>d DEF M!ProcessIsOwned
        <4>2. ASSUME NEW k \in x11'
              PROVE  /\ k.stage = "start" /\ p.client = k.client => p.session = k.target
                     /\ M!Current(k)' /\ k.stage = "verify" => p.session = k.target
                     /\ M!Current(k)' /\ k.stage = "candidate" /\ k.ended /\ k.ok => p.session = k.session
          BY <2>n, <2>p, <4>1, <4>2 DEF M!SessionFits
        <4> QED
          BY <1>u, <4>1, <4>2 DEF M!SessionFits, M!Locked
      <3>3. ASSUME NEW q1 \in x10', NEW q2 \in x10' PROVE q1 = q2
        BY <1>i, <1>u, <3>3 DEF M!ProcessIsOwned
      <3>4. ASSUME NEW k \in x11', M!Stale(k)'
            PROVE  /\ k.leased # x9'.client
                   /\ \A q \in x10' : q.client # k.leased
                   /\ \A k1 \in x11' : k1.stage = "start" => k1.client # k.leased
        BY <1>i, <1>u, <2>n, <2>p, <3>4 DEF M!ProcessIsOwned, M!Stale
      <3> QED
        BY <3>1, <3>2, <3>3, <3>4 DEF M!ProcessIsOwned
    <2> QED
      BY <2>9, <2>10, <2>11, <2>12, <2>13, <2>14 DEF M!MInv
  <1>e. \/ \E p \in x10 :
             /\ p.client = j.leased /\ p.session # j.target
             /\ \/ M!Observable(j.id, p.session) /\ M!Observe(p.session)
                   /\ (M!Ends(j, TRUE, p.session, 0) \/ M!Dropped(j))
                \/ M!Ends(j, FALSE, p.session, 0) /\ x3' = x3 /\ x8' = x8
        \/ M!Ends(j, FALSE, None, 0) /\ x3' = x3 /\ x8' = x8
        \/ M!Dropped(j) /\ x3' = x3 /\ x8' = x8
    BY DEF M!CandidateJobEnds
  <1> QED
    BY <1>a, <1>b, <1>c, <1>d, <1>e

\* OMP switches the session of a process: the one a candidate job of the open run waits
\* for, before it has ended.
LEMMA MigrationOmpSwitches ==
    ASSUME M!MInv, NEW j \in x11, M!OmpSwitches(j)
    PROVE  M!MInv'
  <1>i. /\ M!TypeOK /\ M!RowIsKnown /\ M!RivalIsElsewhere /\ M!RunIsOwned
        /\ M!JobsAreOwned /\ M!ProcessIsOwned
    BY DEF M!MInv
  <1>1. PICK s \in SessionIds, p \in x10 :
          /\ M!Working(j, "candidate")
          /\ p.client = j.leased /\ p.session = j.target
          /\ x6[s] = M!Blank
          /\ x6' = [x6 EXCEPT ![s] = [of |-> j.id, state |-> "seeded"]]
          /\ x10' = (x10 \ {p}) \cup {[p EXCEPT !.session = s]}
          /\ x1' = x1 /\ x2' = x2 /\ x3' = x3 /\ x4' = x4 /\ x5' = x5 /\ x7' = x7 /\ x8' = x8
          /\ x9' = x9 /\ x11' = x11 /\ x12' = x12
    BY DEF M!OmpSwitches
  <1>u. x1 /\ ~j.ended /\ j.stage = "candidate" /\ j \in M!JobType
    BY <1>i, <1>1 DEF M!Working, M!TypeOK
  <1>n. PICK q \in [client : Nat, session : SessionIds] :
          x10' = (x10 \ {p}) \cup {q} /\ q.client = p.client /\ q.session = s
    <2> DEFINE q == [p EXCEPT !.session = s]
    <2>1. x10' = (x10 \ {p}) \cup {q}
      BY <1>1
    <2>2. q \in [client : Nat, session : SessionIds] /\ q.client = p.client /\ q.session = s
      BY <1>i DEF M!TypeOK
    <2> HIDE DEF q
    <2> QED
      BY <2>1, <2>2
  <1>p. /\ M!Current(j) /\ M!Open /\ M!StageFits(j)
        /\ \A k : M!Current(k)' <=> M!Current(k)
        /\ \A k \in x11 : M!Current(k) => k = j
    <2>1. M!Current(j)
      BY <1>i, <1>1, <1>u DEF M!ProcessIsOwned, M!Stale
    <2>2. \A k : M!Current(k)' <=> M!Current(k)
      BY <1>1 DEF M!Current, M!Open
    <2>3. \A k \in x11 : M!Current(k) => k = j
      BY <1>i, <2>1 DEF M!Current, M!JobsAreOwned
    <2> QED
      BY <1>i, <2>1, <2>2, <2>3 DEF M!Current, M!JobsAreOwned
  <1>q. x10' = {q}
    BY <1>i, <1>n DEF M!ProcessIsOwned
  <1>2. M!TypeOK'
    <2>1. x6' \in [SessionIds -> [of : Nat, state : {"none", "conversation", "seeded", "complete"}]]
      BY <1>i, <1>1, <1>u DEF M!TypeOK, M!JobType
    <2> QED
      BY <1>i, <1>1, <1>n, <2>1 DEF M!TypeOK
  <1>3. M!RowIsKnown'
    BY <1>i, <1>1, <1>u DEF M!RowIsKnown, M!Named, M!NoRow
  <1>4. M!RivalIsElsewhere'
    BY <1>i, <1>1 DEF M!RivalIsElsewhere, M!Named
  <1>5. M!RunIsOwned'
    BY <1>i, <1>1 DEF M!RunIsOwned, M!Open
  <1>6. M!JobsAreOwned'
    <2>1. ASSUME NEW k \in x11', M!Current(k)'
          PROVE  M!StageFits(k)' /\ M!TargetFits(k)' /\ M!ResultFits(k)'
      <3>1. k = j
        BY <1>1, <1>p, <2>1
      <3>2. M!StageFits(j)' /\ M!TargetFits(j)'
        BY <1>i, <1>1, <1>p DEF M!JobsAreOwned, M!StageFits, M!TargetFits, M!Named
      <3>3. M!ResultFits(j)'
        BY <1>u DEF M!ResultFits
      <3> QED
        BY <3>1, <3>2, <3>3
    <2> QED
      BY <1>i, <1>1, <2>1 DEF M!JobsAreOwned, M!StartFits
  <1>7. M!ProcessIsOwned'
    <2>1. p.client = x9.client /\ p.client <= x12 /\ p.client # 0 /\ q.client <= x12
      BY <1>i, <1>1, <1>n, <1>p DEF M!ProcessIsOwned, M!StageFits, M!RunIsOwned
    <2>2. /\ \A k \in x11 : k.stage = "start" => k.client # q.client
          /\ x9.mig # M!NoRow
      <3>1. x9.mig # M!NoRow /\ ~x9.run.recovery
        BY <1>u, <1>p DEF M!StageFits
      <3>2. ASSUME NEW k \in x11, k.stage = "start" PROVE k.client # q.client
        <4>1. M!StartFits(k) /\ k.attempt # 0
          BY <1>i, <3>2 DEF M!JobsAreOwned
        <4>2. x9.startup # 0 => j.stage = "start"
          BY <1>p DEF M!StageFits
        <4> QED
          BY <1>u, <4>1, <4>2 DEF M!StartFits
      <3> QED
        BY <3>1, <3>2
    <2>3. M!SessionFits(q)'
      <3>1. M!Locked'
        BY <1>1, <1>p DEF M!Locked, M!Open
      <3>2. ASSUME NEW k \in x11, M!Current(k) PROVE k.stage # "verify" /\ ~k.ended
        BY <1>u, <1>p, <3>2
      <3> QED
        BY <1>1, <1>p, <2>2, <3>1, <3>2 DEF M!SessionFits
    <2>4. ASSUME NEW k \in x11', M!Stale(k)'
          PROVE  /\ k.leased # x9'.client
                 /\ \A z \in x10' : z.client # k.leased
                 /\ \A k1 \in x11' : k1.stage = "start" => k1.client # k.leased
      BY <1>i, <1>1, <1>n, <1>p, <1>q, <2>4 DEF M!ProcessIsOwned, M!Stale
    <2> QED
      BY <1>1, <1>n, <1>q, <2>1, <2>3, <2>4 DEF M!ProcessIsOwned
  <1> QED
    BY <1>2, <1>3, <1>4, <1>5, <1>6, <1>7 DEF M!MInv

\* The recovery's process starts; the start job is the only one that can have one then.
LEMMA MigrationStartJobStarts ==
    ASSUME M!MInv, NEW j \in x11, M!StartJobStarts(j)
    PROVE  M!MInv'
  <1>i. /\ M!TypeOK /\ M!RowIsKnown /\ M!RivalIsElsewhere /\ M!RunIsOwned
        /\ M!JobsAreOwned /\ M!ProcessIsOwned
    BY DEF M!MInv
  <1>u. /\ x1' = x1 /\ x2' = x2 /\ x3' = x3 /\ x4' = x4 /\ x5' = x5 /\ x6' = x6 /\ x7' = x7
        /\ x8' = x8 /\ x9' = x9 /\ x12' = x12 + 1
        /\ x10' = x10 \cup {[client |-> x12 + 1, session |-> j.target]}
        /\ x1 /\ ~j.ended /\ j.stage = "start" /\ j.client = 0 /\ x12 \in Nat /\ j \in M!JobType
    BY <1>i DEF M!StartJobStarts, M!Working, M!TypeOK
  <1>s. M!StartFits(j) /\ j.attempt # 0 /\ j.target \in SessionIds /\ x9.startup = j.attempt
    BY <1>i, <1>u DEF M!JobsAreOwned, M!StartFits
  <1>c. x9.client = 0 /\ x9.mig # M!NoRow /\ x9.startup # 0
    BY <1>i, <1>s DEF M!RunIsOwned
  <1>o. \A k \in x11 : k.stage = "start" => k = j
    BY <1>i, <1>s DEF M!JobsAreOwned, M!StartFits
  <1>e. x10 = {}
    BY <1>i, <1>u, <1>c, <1>o DEF M!ProcessIsOwned
  <1>n. PICK n \in M!JobType :
          /\ x11' = (x11 \ {j}) \cup {n}
          /\ n.stage = "start" /\ n.attempt = j.attempt /\ n.id = j.id /\ n.leased = j.leased
          /\ n.target = j.target /\ ~n.ended /\ n.client = x12 + 1
    <2> DEFINE n == [j EXCEPT !.client = x12 + 1]
    <2>1. x11' = (x11 \ {j}) \cup {n}
      BY DEF M!StartJobStarts
    <2>2. /\ n \in M!JobType
          /\ n.stage = "start" /\ n.attempt = j.attempt /\ n.id = j.id /\ n.leased = j.leased
          /\ n.target = j.target /\ ~n.ended /\ n.client = x12 + 1
      BY <1>u DEF M!JobType
    <2> HIDE DEF n
    <2> QED
      BY <2>1, <2>2
  <1>q. PICK q \in [client : Nat, session : SessionIds] :
          x10' = {q} /\ q.client = x12 + 1 /\ q.session = j.target
    <2> DEFINE q == [client |-> x12 + 1, session |-> j.target]
    <2>1. x10' = {q}
      BY <1>u, <1>e
    <2>2. q \in [client : Nat, session : SessionIds] /\ q.client = x12 + 1 /\ q.session = j.target
      BY <1>u, <1>s
    <2> HIDE DEF q
    <2> QED
      BY <2>1, <2>2
  <1>p. /\ M!Current(n) <=> M!Current(j)
        /\ \A k : M!Current(k)' <=> M!Current(k)
    BY <1>u, <1>n DEF M!Current, M!Open
  <1>1. M!TypeOK'
    <2>1. x12' \in Nat /\ x11' \subseteq M!JobType /\ x10' \subseteq [client : Nat, session : SessionIds]
      BY <1>i, <1>u, <1>n, <1>q DEF M!TypeOK
    <2> QED
      BY <1>i, <1>u, <2>1 DEF M!TypeOK
  <1>2. M!RowIsKnown'
    BY <1>i, <1>u DEF M!RowIsKnown, M!Named, M!NoRow
  <1>3. M!RivalIsElsewhere'
    BY <1>i, <1>u DEF M!RivalIsElsewhere, M!Named
  <1>4. M!RunIsOwned'
    <2>1. x9'.client <= x12'
      BY <1>u, <1>c
    <2> QED
      BY <1>i, <1>u, <2>1 DEF M!RunIsOwned, M!Open
  <1>5. M!JobsAreOwned'
    <2>1. ASSUME NEW k \in x11'
          PROVE  /\ k.attempt # 0 /\ k.attempt <= x9'.attempt /\ k.id # 0 /\ k.leased <= x12'
                 /\ k.stage = "candidate" => k.leased # 0
      <3>1. \A z \in x11 : z.leased \in Nat /\ z.leased <= x12
        BY <1>i DEF M!JobsAreOwned, M!TypeOK, M!JobType
      <3> QED
        BY <1>i, <1>u, <1>n, <2>1, <3>1 DEF M!JobsAreOwned
    <2>2. ASSUME NEW k \in x11', M!Current(k)' PROVE M!StageFits(k)'
      BY <1>i, <1>u, <1>n, <1>p, <2>2 DEF M!JobsAreOwned, M!StageFits
    <2>3. ASSUME NEW k \in x11', M!Current(k)' PROVE M!TargetFits(k)'
      BY <1>i, <1>u, <1>n, <1>p, <2>3 DEF M!JobsAreOwned, M!TargetFits, M!Named
    <2>4. ASSUME NEW k \in x11', M!Current(k)' PROVE M!ResultFits(k)'
      BY <1>i, <1>u, <1>n, <1>p, <2>4 DEF M!JobsAreOwned, M!ResultFits, M!JournalComplete
    <2>5. ASSUME NEW k \in x11' PROVE IF k.stage = "start" THEN M!StartFits(k)' ELSE k.client = 0
      <3>1. CASE k = n
        BY <1>u, <1>n, <1>s, <3>1 DEF M!StartFits
      <3>2. CASE k \in x11 \ {j}
        BY <1>i, <1>o, <1>u, <3>2 DEF M!JobsAreOwned
      <3> QED
        BY <1>n, <2>5, <3>1, <3>2
    <2>6. ASSUME NEW k1 \in x11', NEW k2 \in x11', k1.attempt = k2.attempt PROVE k1 = k2
      BY <1>i, <1>n, <2>6 DEF M!JobsAreOwned
    <2> QED
      BY <2>1, <2>2, <2>3, <2>4, <2>5, <2>6 DEF M!JobsAreOwned
  <1>6. M!ProcessIsOwned'
    <2>1. /\ q.client # 0 /\ q.client <= x12'
          /\ \E k \in x11' : k.stage = "start" /\ k.client = q.client
      BY <1>u, <1>n, <1>q
    <2>2. M!SessionFits(q)'
      <3>1. q.client # x9'.client
        BY <1>u, <1>c, <1>q
      <3>2. ASSUME NEW k \in x11'
            PROVE  /\ k.stage = "start" /\ q.client = k.client => q.session = k.target
                   /\ ~(M!Current(k)' /\ k.stage \in {"verify", "candidate"})
        <4>1. M!Current(k)' => M!StageFits(k)'
          BY <1>5, <3>2 DEF M!JobsAreOwned
        <4> QED
          BY <1>c, <1>n, <1>o, <1>q, <1>u, <3>2, <4>1 DEF M!StageFits
      <3> QED
        BY <3>1, <3>2 DEF M!SessionFits
    <2>4. ASSUME NEW k \in x11', M!Stale(k)'
          PROVE  /\ k.leased # x9'.client
                 /\ \A z \in x10' : z.client # k.leased
                 /\ \A k1 \in x11' : k1.stage = "start" => k1.client # k.leased
      <3>1. k \in x11 /\ M!Stale(k)
        BY <1>n, <1>p, <2>4 DEF M!Stale
      <3>2. k.leased # x9.client /\ k.leased \in Nat /\ k.leased <= x12
        BY <1>i, <3>1 DEF M!ProcessIsOwned, M!JobsAreOwned, M!TypeOK, M!JobType
      <3> QED
        BY <1>u, <1>n, <1>o, <1>q, <3>2
    <2> QED
      BY <1>q, <2>1, <2>2, <2>4 DEF M!ProcessIsOwned
  <1> QED
    BY <1>1, <1>2, <1>3, <1>4, <1>5, <1>6 DEF M!MInv

\* A start ends: with its process, or with none, and then the process has been reaped.
LEMMA MigrationStartJobEnds ==
    ASSUME M!MInv, NEW j \in x11, M!StartJobEnds(j)
    PROVE  M!MInv'
  <1>i. /\ M!TypeOK /\ M!RowIsKnown /\ M!RivalIsElsewhere /\ M!RunIsOwned
        /\ M!JobsAreOwned /\ M!ProcessIsOwned
    BY DEF M!MInv
  <1>u. /\ x1' = x1 /\ x2' = x2 /\ x3' = x3 /\ x4' = x4 /\ x5' = x5 /\ x6' = x6 /\ x7' = x7
        /\ x8' = x8 /\ x9' = x9 /\ x12' = x12
        /\ x1 /\ ~j.ended /\ j.stage = "start" /\ j \in M!JobType
    BY <1>i DEF M!StartJobEnds, M!Working, M!TypeOK
  <1>s. M!StartFits(j) /\ j.attempt # 0 /\ j.target \in SessionIds /\ x9.startup = j.attempt
    BY <1>i, <1>u DEF M!JobsAreOwned, M!StartFits
  <1>c. x9.client = 0 /\ x9.mig # M!NoRow /\ x9.startup # 0
    BY <1>i, <1>s DEF M!RunIsOwned
  <1>o. \A k \in x11 : k.stage = "start" => k = j
    BY <1>i, <1>s DEF M!JobsAreOwned, M!StartFits
  <1>n. PICK n \in M!JobType :
          /\ x11' = (x11 \ {j}) \cup {n}
          /\ n.stage = "start" /\ n.attempt = j.attempt /\ n.id = j.id /\ n.leased = j.leased
          /\ n.target = j.target /\ n.ended
          /\ n.ok => n.session = j.target /\ n.client # 0
          /\ \/ n.client = j.client /\ x10' = x10
             \/ n.client = 0 /\ x10' = {p \in x10 : p.client # j.client}
    <2>1. CASE j.client # 0 /\ M!Ends(j, ~M!Cancelled(j), j.target, j.client) /\ x10' = x10
      <3> DEFINE n == [j EXCEPT !.ended = TRUE, !.ok = ~M!Cancelled(j), !.session = j.target, !.client = j.client]
      <3>1. x11' = (x11 \ {j}) \cup {n}
        BY <2>1 DEF M!Ends
      <3>2. /\ n \in M!JobType
            /\ n.stage = "start" /\ n.attempt = j.attempt /\ n.id = j.id /\ n.leased = j.leased
            /\ n.target = j.target /\ n.ended /\ n.session = j.target /\ n.client = j.client
        BY <1>u DEF M!JobType
      <3> HIDE DEF n
      <3> QED
        BY <2>1, <3>1, <3>2
    <2>2. CASE M!Ends(j, FALSE, None, 0) /\ x10' = {p \in x10 : p.client # j.client}
      <3> DEFINE n == [j EXCEPT !.ended = TRUE, !.ok = FALSE, !.session = None, !.client = 0]
      <3>1. x11' = (x11 \ {j}) \cup {n}
        BY <2>2 DEF M!Ends
      <3>2. /\ n \in M!JobType
            /\ n.stage = "start" /\ n.attempt = j.attempt /\ n.id = j.id /\ n.leased = j.leased
            /\ n.target = j.target /\ n.ended /\ ~n.ok /\ n.client = 0
        BY <1>u DEF M!JobType, M!Ids
      <3> HIDE DEF n
      <3> QED
        BY <2>2, <3>1, <3>2
    <2> QED
      BY <2>1, <2>2 DEF M!StartJobEnds, M!Without
  <1>p. /\ M!Current(n) <=> M!Current(j)
        /\ \A k : M!Current(k)' <=> M!Current(k)
    BY <1>u, <1>n DEF M!Current, M!Open
  <1>w. x10' \subseteq x10
    BY <1>n
  <1>1. M!TypeOK'
    BY <1>i, <1>u, <1>n, <1>w DEF M!TypeOK
  <1>2. M!RowIsKnown'
    BY <1>i, <1>u DEF M!RowIsKnown, M!Named, M!NoRow
  <1>3. M!RivalIsElsewhere'
    BY <1>i, <1>u DEF M!RivalIsElsewhere, M!Named
  <1>4. M!RunIsOwned'
    BY <1>i, <1>u DEF M!RunIsOwned, M!Open
  <1>5. M!JobsAreOwned'
    <2>1. ASSUME NEW k \in x11'
          PROVE  /\ k.attempt # 0 /\ k.attempt <= x9'.attempt /\ k.id # 0 /\ k.leased <= x12'
                 /\ k.stage = "candidate" => k.leased # 0
      BY <1>i, <1>u, <1>n, <2>1 DEF M!JobsAreOwned
    <2>2. ASSUME NEW k \in x11', M!Current(k)' PROVE M!StageFits(k)'
      BY <1>i, <1>u, <1>n, <1>p, <2>2 DEF M!JobsAreOwned, M!StageFits
    <2>3. ASSUME NEW k \in x11', M!Current(k)' PROVE M!TargetFits(k)'
      BY <1>i, <1>u, <1>n, <1>p, <2>3 DEF M!JobsAreOwned, M!TargetFits, M!Named
    <2>4. ASSUME NEW k \in x11', M!Current(k)' PROVE M!ResultFits(k)'
      BY <1>i, <1>u, <1>n, <1>p, <2>4 DEF M!JobsAreOwned, M!ResultFits, M!JournalComplete
    <2>5. ASSUME NEW k \in x11' PROVE IF k.stage = "start" THEN M!StartFits(k)' ELSE k.client = 0
      <3>1. CASE k = n
        <4>1. x12 \in Nat /\ j.client <= x12
          BY <1>i, <1>s DEF M!TypeOK, M!StartFits
        <4>2. n.client <= x12
          BY <4>1, <1>n
        <4> QED
          BY <1>u, <1>n, <1>s, <3>1, <4>2 DEF M!StartFits
      <3>2. CASE k \in x11 \ {j}
        BY <1>i, <1>o, <1>u, <3>2 DEF M!JobsAreOwned
      <3> QED
        BY <1>n, <2>5, <3>1, <3>2
    <2>6. ASSUME NEW k1 \in x11', NEW k2 \in x11', k1.attempt = k2.attempt PROVE k1 = k2
      BY <1>i, <1>n, <2>6 DEF M!JobsAreOwned
    <2> QED
      BY <2>1, <2>2, <2>3, <2>4, <2>5, <2>6 DEF M!JobsAreOwned
  <1>6. M!ProcessIsOwned'
    <2>1. ASSUME NEW q \in x10'
          PROVE  /\ q.client # 0 /\ q.client <= x12'
                 /\ \E k \in x11' : k.stage = "start" /\ k.client = q.client
                 /\ q.client = j.client /\ n.client = j.client
      BY <1>i, <1>u, <1>c, <1>o, <1>n, <1>w, <2>1 DEF M!ProcessIsOwned
    <2>2. ASSUME NEW q \in x10' PROVE M!SessionFits(q)'
      <3>1. q.client # x9'.client /\ q.session = j.target
        BY <1>i, <1>u, <1>c, <1>w, <2>1, <2>2 DEF M!ProcessIsOwned, M!SessionFits
      <3>2. ASSUME NEW k \in x11'
            PROVE  /\ k.stage = "start" /\ q.client = k.client => q.session = k.target
                   /\ ~(M!Current(k)' /\ k.stage \in {"verify", "candidate"})
        <4>1. M!Current(k)' => M!StageFits(k)'
          BY <1>5, <3>2 DEF M!JobsAreOwned
        <4> QED
          BY <1>c, <1>n, <1>o, <1>u, <3>1, <3>2, <4>1 DEF M!StageFits
      <3> QED
        BY <3>1, <3>2 DEF M!SessionFits
    <2>3. ASSUME NEW q1 \in x10', NEW q2 \in x10' PROVE q1 = q2
      BY <1>i, <1>w, <2>3 DEF M!ProcessIsOwned
    <2>4. ASSUME NEW k \in x11', M!Stale(k)'
          PROVE  /\ k.leased # x9'.client
                 /\ \A z \in x10' : z.client # k.leased
                 /\ \A k1 \in x11' : k1.stage = "start" => k1.client # k.leased
      <3>1. k \in x11 /\ M!Stale(k)
        BY <1>n, <1>p, <2>4 DEF M!Stale
      <3>2. k.leased # 0
        BY <1>i, <3>1 DEF M!JobsAreOwned, M!Stale
      <3>3. /\ k.leased # x9.client
            /\ \A z \in x10 : z.client # k.leased
            /\ \A k1 \in x11 : k1.stage = "start" => k1.client # k.leased
        BY <1>i, <3>1 DEF M!ProcessIsOwned
      <3> QED
        BY <1>u, <1>n, <1>o, <1>w, <3>2, <3>3
    <2> QED
      BY <2>1, <2>2, <2>3, <2>4 DEF M!ProcessIsOwned
  <1> QED
    BY <1>1, <1>2, <1>3, <1>4, <1>5, <1>6 DEF M!MInv

\* OMP marks a candidate as complete; other journals stay.
LEMMA MigrationOmpCompletes ==
    ASSUME M!MInv, NEW p \in x10, M!OmpCompletes(p)
    PROVE  M!MInv'
  <1>i. /\ M!TypeOK /\ M!RowIsKnown /\ M!RivalIsElsewhere /\ M!RunIsOwned
        /\ M!JobsAreOwned /\ M!ProcessIsOwned
    BY DEF M!MInv
  <1>1. M!TypeOK'
    <2>1. x9' \in M!ActorType
      BY <1>i, NoneAssumption, MigrationTypes, RowEdits DEF M!OmpCompletes, M!TypeOK,
             M!ActorType, M!RunType
    <2>2. x11' \subseteq M!JobType
      BY <1>i, NoneAssumption DEF M!OmpCompletes, M!TypeOK, M!JobType, M!Ids
    <2>3. x3' \in M!RowType
      BY <1>i, NoneAssumption, MigrationTypes, RowEdits DEF M!OmpCompletes, M!TypeOK,
             M!ActorType
    <2>4. x10' \subseteq [client : Nat, session : SessionIds]
      BY <1>i, NoneAssumption DEF M!OmpCompletes, M!TypeOK, M!JobType, M!ActorType
    <2>5. x8' \subseteq SessionIds
      BY <1>i, NoneAssumption, RowEdits DEF M!OmpCompletes, M!TypeOK, M!ActorType, M!JobType,
             M!Ids
    <2> QED
      BY <1>i, NoneAssumption, <2>1, <2>2, <2>3, <2>4, <2>5 DEF M!OmpCompletes, M!TypeOK,
             M!ActorType, M!JobType, M!Ids
  <1>2. M!RowIsKnown'
    BY <1>i, NoneAssumption DEF M!OmpCompletes, M!RowIsKnown, M!Named, M!Current, M!TypeOK,
           M!ActorType, M!RowType, M!RunType, M!JobType, M!Ids, M!NoRow, M!NoRun, M!NewActor
  <1>3. M!RivalIsElsewhere'
    BY <1>i, NoneAssumption DEF M!OmpCompletes, M!RivalIsElsewhere, M!RowIsKnown, M!RunIsOwned,
           M!JobsAreOwned, M!TargetFits, M!ResultFits, M!Current, M!Open, M!Named, M!TypeOK,
           M!ActorType, M!RowType, M!RunType, M!JobType, M!Ids, M!NoRow, M!NoRun, M!NewActor
  <1>4. M!RunIsOwned'
    BY <1>i, NoneAssumption DEF M!OmpCompletes, M!RunIsOwned, M!RowIsKnown, M!JobsAreOwned,
           M!StageFits, M!StartFits, M!Current, M!Open, M!TypeOK, M!ActorType, M!RowType,
           M!RunType, M!JobType, M!Ids, M!NoRow, M!NoRun, M!NewActor
  <1>5. M!JobsAreOwned'
    <2>1. ASSUME NEW k \in x11'
          PROVE  /\ k.attempt # 0 /\ k.attempt <= x9'.attempt /\ k.id # 0 /\ k.leased <= x12'
                 /\ k.stage = "candidate" => k.leased # 0
      BY <1>i, NoneAssumption, <2>1 DEF M!OmpCompletes, M!JobsAreOwned, M!RunIsOwned, M!Open,
             M!Current, M!StageFits, M!TypeOK, M!ActorType, M!JobType, M!RunType
    <2>2. ASSUME NEW k \in x11', M!Current(k)' PROVE M!StageFits(k)'
      BY <1>i, NoneAssumption, <2>2 DEF M!OmpCompletes, M!JobsAreOwned, M!RunIsOwned, M!Open,
             M!Current, M!RowIsKnown, M!StageFits, M!StartFits, M!TypeOK, M!ActorType,
             M!RowType, M!RunType, M!JobType, M!Ids, M!NoRow, M!NoRun, M!NewActor
    <2>3. ASSUME NEW k \in x11', M!Current(k)' PROVE M!TargetFits(k)'
      BY <1>i, NoneAssumption, <2>3 DEF M!OmpCompletes, M!JobsAreOwned, M!RunIsOwned, M!Open,
             M!Current, M!RowIsKnown, M!StageFits, M!TargetFits, M!ResultFits, M!Named,
             M!TypeOK, M!ActorType, M!RowType, M!RunType, M!JobType, M!Ids, M!NoRow, M!NoRun,
             M!NewActor
    <2>4. ASSUME NEW k \in x11', M!Current(k)' PROVE M!ResultFits(k)'
      BY <1>i, NoneAssumption, <2>4 DEF M!OmpCompletes, M!JobsAreOwned, M!RunIsOwned, M!Open,
             M!Current, M!RowIsKnown, M!StageFits, M!TargetFits, M!ResultFits, M!Named,
             M!JournalComplete, M!RivalIsElsewhere, M!TypeOK, M!ActorType, M!RowType, M!RunType,
             M!JobType, M!Ids, M!NoRow, M!NoRun, M!NewActor
    <2>5. ASSUME NEW k \in x11' PROVE IF k.stage = "start" THEN M!StartFits(k)' ELSE k.client = 0
      BY <1>i, NoneAssumption, <2>5 DEF M!OmpCompletes, M!JobsAreOwned, M!RunIsOwned, M!Open,
             M!Current, M!RowIsKnown, M!StageFits, M!StartFits, M!TypeOK, M!ActorType,
             M!RowType, M!RunType, M!JobType, M!Ids, M!NoRow, M!NoRun, M!NewActor
    <2>6. ASSUME NEW k1 \in x11', NEW k2 \in x11', k1.attempt = k2.attempt PROVE k1 = k2
      BY <1>i, NoneAssumption, <2>6 DEF M!OmpCompletes, M!JobsAreOwned, M!TypeOK, M!ActorType,
             M!JobType
    <2> QED
      BY <2>1, <2>2, <2>3, <2>4, <2>5, <2>6 DEF M!JobsAreOwned
  <1>6. M!ProcessIsOwned'
    <2>1. ASSUME NEW q \in x10'
          PROVE  /\ q.client # 0 /\ q.client <= x12'
                 /\ q.client = x9'.client \/ \E k \in x11' : k.stage = "start" /\ k.client = q.client
      BY <1>i, NoneAssumption, <2>1 DEF M!OmpCompletes, M!ProcessIsOwned, M!JobsAreOwned,
             M!RunIsOwned, M!Open, M!Current, M!RowIsKnown, M!StartFits, M!StageFits, M!TypeOK,
             M!ActorType, M!RowType, M!RunType, M!JobType, M!Ids, M!NoRow, M!NoRun, M!NewActor
    <2>2. ASSUME NEW q \in x10' PROVE M!SessionFits(q)'
      BY <1>i, NoneAssumption, <2>2 DEF M!OmpCompletes, M!ProcessIsOwned, M!JobsAreOwned,
             M!RunIsOwned, M!Open, M!Current, M!RowIsKnown, M!StartFits, M!StageFits,
             M!SessionFits, M!Locked, M!TargetFits, M!ResultFits, M!TypeOK, M!ActorType,
             M!RowType, M!RunType, M!JobType, M!Ids, M!NoRow, M!NoRun, M!NewActor
    <2>3. ASSUME NEW q1 \in x10', NEW q2 \in x10' PROVE q1 = q2
      BY <1>i, NoneAssumption, <2>3 DEF M!OmpCompletes, M!ProcessIsOwned, M!JobsAreOwned,
             M!RunIsOwned, M!Open, M!Current, M!RowIsKnown, M!StartFits, M!StageFits,
             M!SessionFits, M!Locked, M!TypeOK, M!ActorType, M!RowType, M!RunType, M!JobType,
             M!Ids, M!NoRow, M!NoRun, M!NewActor
    <2>4. ASSUME NEW k \in x11', M!Stale(k)'
          PROVE  /\ k.leased # x9'.client
                 /\ \A q \in x10' : q.client # k.leased
                 /\ \A k1 \in x11' : k1.stage = "start" => k1.client # k.leased
      BY <1>i, NoneAssumption, <2>4 DEF M!OmpCompletes, M!ProcessIsOwned, M!JobsAreOwned,
             M!RunIsOwned, M!Open, M!Current, M!RowIsKnown, M!StartFits, M!StageFits, M!Stale,
             M!TypeOK, M!ActorType, M!JobType, M!RunType, M!NewActor, M!NoRow
    <2> QED
      BY <2>1, <2>2, <2>3, <2>4 DEF M!ProcessIsOwned
  <1> QED
    BY <1>1, <1>2, <1>3, <1>4, <1>5, <1>6 DEF M!MInv

\* A late result leaves nothing but the candidate its job has observed.
LEMMA MigrationTakeLate ==
    ASSUME M!MInv, NEW j \in x11, M!TakeLate(j)
    PROVE  M!MInv'
  <1>i. /\ M!TypeOK /\ M!RowIsKnown /\ M!RivalIsElsewhere /\ M!RunIsOwned
        /\ M!JobsAreOwned /\ M!ProcessIsOwned
    BY DEF M!MInv
  <1>1. M!TypeOK'
    <2>1. x9' \in M!ActorType
      BY <1>i DEF M!TakeLate, M!TypeOK, M!ActorType
    <2>2. x11' \subseteq M!JobType
      BY <1>i DEF M!TakeLate, M!Rest, M!TypeOK
    <2>3. x3' \in M!RowType
      BY <1>i DEF M!TakeLate, M!TypeOK
    <2>4. x10' \subseteq [client : Nat, session : SessionIds]
      BY <1>i DEF M!TakeLate, M!Without, M!TypeOK
    <2>5. x8' \subseteq SessionIds
      BY <1>i DEF M!TakeLate, M!TypeOK
    <2> QED
      BY <1>i DEF M!TakeLate, M!Rest, M!Without, M!TypeOK, M!ActorType
  <1>2. M!RowIsKnown'
    BY <1>i DEF M!TakeLate, M!RowIsKnown, M!TypeOK, M!RowType
  <1>3. M!RivalIsElsewhere'
    BY <1>i DEF M!TakeLate, M!RivalIsElsewhere
  <1>4. M!RunIsOwned'
    BY <1>i DEF M!TakeLate, M!RunIsOwned, M!RowIsKnown, M!Open
  <1>5. M!JobsAreOwned'
    <2>1. ASSUME NEW k \in x11'
          PROVE  /\ k.attempt # 0 /\ k.attempt <= x9'.attempt /\ k.id # 0 /\ k.leased <= x12'
                 /\ k.stage = "candidate" => k.leased # 0
      BY <1>i DEF M!TakeLate, M!Rest, M!JobsAreOwned
    <2>2. ASSUME NEW k \in x11', M!Current(k)' PROVE M!StageFits(k)'
      BY <1>i, <2>2 DEF M!TakeLate, M!Rest, M!JobsAreOwned, M!Open, M!Current, M!RowIsKnown,
             M!StageFits, M!TypeOK
    <2>3. ASSUME NEW k \in x11', M!Current(k)' PROVE M!TargetFits(k)'
      BY <1>i, <2>3 DEF M!TakeLate, M!Rest, M!JobsAreOwned, M!Open, M!Current, M!TargetFits
    <2>4. ASSUME NEW k \in x11', M!Current(k)' PROVE M!ResultFits(k)'
      BY <1>i, <2>4 DEF M!TakeLate, M!Rest, M!JobsAreOwned, M!Open, M!Current, M!ResultFits,
             M!JournalComplete
    <2>5. ASSUME NEW k \in x11' PROVE IF k.stage = "start" THEN M!StartFits(k)' ELSE k.client = 0
      BY <1>i DEF M!TakeLate, M!Rest, M!JobsAreOwned, M!StartFits
    <2>6. ASSUME NEW k1 \in x11', NEW k2 \in x11', k1.attempt = k2.attempt PROVE k1 = k2
      BY <1>i, <2>6 DEF M!TakeLate, M!Rest, M!JobsAreOwned
    <2> QED
      BY <2>1, <2>2, <2>3, <2>4, <2>5, <2>6 DEF M!JobsAreOwned
  <1>6. M!ProcessIsOwned'
    <2>1. ASSUME NEW q \in x10'
          PROVE  /\ q.client # 0 /\ q.client <= x12'
                 /\ q.client = x9'.client \/ \E k \in x11' : k.stage = "start" /\ k.client = q.client
      BY <1>i DEF M!TakeLate, M!Rest, M!Without, M!ProcessIsOwned
    <2>2. ASSUME NEW q \in x10' PROVE M!SessionFits(q)'
      BY <1>i DEF M!TakeLate, M!Rest, M!Without, M!ProcessIsOwned, M!Open, M!Current, M!RowIsKnown,
             M!SessionFits, M!Locked, M!TypeOK, M!ActorType
    <2>3. ASSUME NEW q1 \in x10', NEW q2 \in x10' PROVE q1 = q2
      BY <1>i DEF M!TakeLate, M!Without, M!ProcessIsOwned
    <2>4. ASSUME NEW k \in x11', M!Stale(k)'
          PROVE  /\ k.leased # x9'.client
                 /\ \A q \in x10' : q.client # k.leased
                 /\ \A k1 \in x11' : k1.stage = "start" => k1.client # k.leased
      BY <1>i, <2>4 DEF M!TakeLate, M!Rest, M!Without, M!ProcessIsOwned, M!Open, M!Current, M!Stale
    <2> QED
      BY <2>1, <2>2, <2>3, <2>4 DEF M!ProcessIsOwned
  <1> QED
    BY <1>1, <1>2, <1>3, <1>4, <1>5, <1>6 DEF M!MInv

\* An error ends the run; a start that failed has been reaped.
LEMMA MigrationTakeError ==
    ASSUME M!MInv, NEW j \in x11, M!TakeError(j)
    PROVE  M!MInv'
  <1>i. /\ M!TypeOK /\ M!RowIsKnown /\ M!RivalIsElsewhere /\ M!RunIsOwned
        /\ M!JobsAreOwned /\ M!ProcessIsOwned
    BY DEF M!MInv
  <1>v. /\ x1 = TRUE /\ x1' = x1 /\ x2' = x2 /\ x4' = x4 /\ x6' = x6 /\ x7' = x7 /\ x8' = x8 /\ x12' = x12
        /\ x3' = IF x9.mig = M!NoRow THEN x3 ELSE [x3 EXCEPT !.failed = TRUE]
        /\ x5' = M!FailedInputs /\ x11' = x11 \ {j} /\ x10' \subseteq x10
        /\ \E s \in {0, x9.startup} :
             x9' = [x9 EXCEPT !.run = M!NoRun, !.leased = 0, !.client = 0, !.startup = s,
                              !.mig = IF x9.mig = M!NoRow THEN M!NoRow ELSE x3']
    BY <1>i DEF M!TakeError, M!Result, M!Rest, M!Without, M!TypeOK
  <1>m. x9'.mig = IF x9.mig = M!NoRow THEN M!NoRow ELSE x3'
    BY <1>i, <1>v DEF M!TypeOK, M!ActorType
  <1>r. x3' \in M!RowType /\ x9'.mig \in M!RowType /\ M!RowIsKnown'
    BY <1>i, <1>v, <1>m, FailedRowIsKnown
  <1>1. M!TypeOK'
    <2>1. x9' \in M!ActorType
      <3>1. x9 \in M!ActorType /\ 0 \in Nat /\ x9.startup \in Nat
        BY <1>i DEF M!TypeOK, M!ActorType
      <3> DEFINE m == IF x9.mig = M!NoRow THEN M!NoRow ELSE x3'
      <3>2. m \in M!RowType
        BY <1>m, <1>r
      <3> HIDE DEF m
      <3>3. PICK s \in Nat : x9' = [x9 EXCEPT !.run = M!NoRun, !.leased = 0, !.client = 0, !.startup = s, !.mig = m]
        BY <1>v, <3>1 DEF m
      <3> QED
        BY <3>1, <3>2, <3>3, RunEnds, Zenon
    <2>2. x5' \in [Triple -> {"pending", "submitted", "done", "failed", "uncertain"}]
      BY <1>i, <1>v DEF M!FailedInputs, M!TypeOK
    <2> QED
      BY <1>i, <1>v, <1>r, <2>1, <2>2 DEF M!TypeOK
  <1>2. M!RowIsKnown'
    BY <1>r
  <1>3. M!RivalIsElsewhere'
    BY <1>i DEF M!TakeError, M!RivalIsElsewhere, M!Named
  <1>4. M!RunIsOwned'
    BY <1>i DEF M!TakeError, M!RunIsOwned, M!Open, M!TypeOK, M!NoRow
  <1>5. M!JobsAreOwned'
    <2>1. ASSUME NEW k \in x11'
          PROVE  /\ k.attempt # 0 /\ k.attempt <= x9'.attempt /\ k.id # 0 /\ k.leased <= x12'
                 /\ k.stage = "candidate" => k.leased # 0
      BY <1>i DEF M!TakeError, M!Rest, M!JobsAreOwned
    <2>2. ASSUME NEW k \in x11', M!Current(k)' PROVE M!StageFits(k)'
      BY <1>i, <2>2 DEF M!TakeError, M!Open, M!Current
    <2>3. ASSUME NEW k \in x11', M!Current(k)' PROVE M!TargetFits(k)'
      BY <1>i, <2>3 DEF M!TakeError, M!Open, M!Current
    <2>4. ASSUME NEW k \in x11', M!Current(k)' PROVE M!ResultFits(k)'
      BY <1>i, <2>4 DEF M!TakeError, M!Open, M!Current
    <2>5. ASSUME NEW k \in x11' PROVE IF k.stage = "start" THEN M!StartFits(k)' ELSE k.client = 0
      BY <1>i DEF M!TakeError, M!Rest, M!JobsAreOwned, M!StartFits
    <2>6. ASSUME NEW k1 \in x11', NEW k2 \in x11', k1.attempt = k2.attempt PROVE k1 = k2
      BY <1>i, <2>6 DEF M!TakeError, M!Rest, M!JobsAreOwned
    <2> QED
      BY <2>1, <2>2, <2>3, <2>4, <2>5, <2>6 DEF M!JobsAreOwned
  <1>6. M!ProcessIsOwned'
    <2>1. ASSUME NEW q \in x10'
          PROVE  /\ q.client # 0 /\ q.client <= x12'
                 /\ q.client = x9'.client \/ \E k \in x11' : k.stage = "start" /\ k.client = q.client
      BY <1>i DEF M!TakeError, M!Rest, M!Without, M!ProcessIsOwned
    <2>2. ASSUME NEW q \in x10' PROVE M!SessionFits(q)'
      BY <1>i DEF M!TakeError, M!Rest, M!Without, M!ProcessIsOwned, M!Open, M!Current,
             M!SessionFits, M!Locked, M!TargetFits, M!ResultFits, M!TypeOK, M!ActorType, M!RowType,
             M!RunType, M!JobType, M!Ids, M!NoRow, M!NoRun, M!NewActor
    <2>3. ASSUME NEW q1 \in x10', NEW q2 \in x10' PROVE q1 = q2
      BY <1>i DEF M!TakeError, M!Without, M!ProcessIsOwned
    <2>4. ASSUME NEW k \in x11', M!Stale(k)'
          PROVE  /\ k.leased # x9'.client
                 /\ \A q \in x10' : q.client # k.leased
                 /\ \A k1 \in x11' : k1.stage = "start" => k1.client # k.leased
      BY <1>i, <2>4 DEF M!TakeError, M!Rest, M!Without, M!ProcessIsOwned, M!JobsAreOwned,
             M!StartFits, M!StageFits, M!Stale, M!TypeOK, M!ActorType, M!JobType, M!RunType,
             M!NewActor, M!NoRow
    <2> QED
      BY <2>1, <2>2, <2>3, <2>4 DEF M!ProcessIsOwned
  <1> QED
    BY <1>1, <1>2, <1>3, <1>4, <1>5, <1>6 DEF M!MInv

\* The record appears with the reservation of its source.
LEMMA MigrationTakePrepared ==
    ASSUME M!MInv, NEW j \in x11, M!TakePrepared(j)
    PROVE  M!MInv'
  <1>i. /\ M!TypeOK /\ M!RowIsKnown /\ M!RivalIsElsewhere /\ M!RunIsOwned
        /\ M!JobsAreOwned /\ M!ProcessIsOwned
    BY DEF M!MInv
  <1>n. PICK n \in M!JobType :
          /\ x11' = (x11 \ {j}) \cup {n}
          /\ n.stage = "handoff" /\ n.attempt = x9.attempt /\ n.id = x9.run.id /\ n.leased = x9.leased
          /\ n.target = None /\ ~n.ended /\ n.client = 0
    <2> DEFINE k == M!Job("handoff", x9.attempt, x9.run.id, x9.leased, None)
    <2>1. /\ x9.attempt \in Nat /\ x9.run.id \in Nat /\ x9.leased \in Nat /\ None \in M!Ids
      BY <1>i DEF M!TypeOK, M!ActorType, M!RunType, M!Ids
    <2>4. x11' = (x11 \ {j}) \cup {k}
      BY DEF M!TakePrepared, M!Continues, M!Rest
    <2>5. /\ k \in M!JobType
          /\ k.stage = "handoff" /\ k.attempt = x9.attempt /\ k.id = x9.run.id /\ k.leased = x9.leased
          /\ k.target = None /\ ~k.ended /\ k.client = 0
      BY <2>1, NoneAssumption DEF M!Job, M!JobType, M!Ids
    <2> HIDE DEF k
    <2> QED
      BY <2>4, <2>5
  <1>1. M!TypeOK'
    <2>1. x3' \in M!RowType
      BY <1>i DEF M!TakePrepared, M!TypeOK, M!ActorType, M!RowType, M!RunType, M!Ids
    <2>2. x9' \in M!ActorType
      BY <1>i, <2>1 DEF M!TakePrepared, M!TypeOK, M!ActorType
    <2>3. x11' \subseteq M!JobType
      BY <1>i, <1>n DEF M!TypeOK
    <2>4. x10' \subseteq [client : Nat, session : SessionIds]
      BY <1>i DEF M!TakePrepared, M!TypeOK
    <2>5. x8' \subseteq SessionIds
      BY <1>i DEF M!TakePrepared, M!TypeOK
    <2> QED
      BY <1>i, <2>2, <2>3 DEF M!TakePrepared, M!TypeOK, M!ActorType
  <1>2. M!RowIsKnown'
    <2>1. /\ x1 /\ x1' = x1 /\ x9.run.id \in Nat /\ x9.run.id # 0 /\ x4.session \in SessionIds
          /\ x9.run.input \in Triple \cup {None}
      BY <1>i DEF M!TakePrepared, M!Takes, M!Result, M!Late, M!Cancelled, M!RunIsOwned, M!Open,
             M!TypeOK, M!ActorType, M!RunType
    <2>2. x3' = [id |-> x9.run.id, phase |-> "handoff", source |-> x4.session, candidate |-> None,
                 failed |-> FALSE, input |-> x9.run.input]
      BY DEF M!TakePrepared
    <2>3. x9'.mig = x3' /\ x8' = {x4.session}
      BY <1>i, <2>2 DEF M!TakePrepared, M!TypeOK, M!ActorType
    <2>4. x3'.id # 0 /\ x3'.source = x4.session /\ x3'.candidate = None /\ x3' # M!NoRow
      BY <2>1, <2>2 DEF M!NoRow
    <2>5. x3' = [x3' EXCEPT !.candidate = x3'.candidate]
      BY <2>2
    <2> QED
      BY <2>1, <2>3, <2>4, <2>5, NoneAssumption DEF M!RowIsKnown, M!Named
  <1>3. M!RivalIsElsewhere'
    BY <1>i DEF M!TakePrepared, M!RivalIsElsewhere, M!Named
  <1>4. M!RunIsOwned'
    BY <1>i DEF M!TakePrepared, M!RunIsOwned, M!Open, M!NoRow
  <1>5. M!JobsAreOwned'
    <2>1. ASSUME NEW k \in x11'
          PROVE  /\ k.attempt # 0 /\ k.attempt <= x9'.attempt /\ k.id # 0 /\ k.leased <= x12'
                 /\ k.stage = "candidate" => k.leased # 0
      BY <1>i, <1>n DEF M!TakePrepared, M!Takes, M!Late, M!Cancelled, M!JobsAreOwned, M!Open,
             M!Current, M!StageFits
    <2>2. ASSUME NEW k \in x11', M!Current(k)' PROVE M!StageFits(k)'
      BY <1>i, <1>n, <2>2 DEF M!TakePrepared, M!Takes, M!Late, M!Cancelled, M!JobsAreOwned, M!Open,
             M!Current, M!StageFits, M!TypeOK, M!ActorType, M!NoRow
    <2>3. ASSUME NEW k \in x11', M!Current(k)' PROVE M!TargetFits(k)'
      BY <1>i, <1>n, <2>3 DEF M!TakePrepared, M!JobsAreOwned, M!Open, M!Current, M!RowIsKnown,
             M!StageFits, M!TargetFits
    <2>4. ASSUME NEW k \in x11', M!Current(k)' PROVE M!ResultFits(k)'
      BY <1>i, <1>n, <2>4 DEF M!TakePrepared, M!JobsAreOwned, M!Open, M!Current, M!TargetFits,
             M!ResultFits, M!Named, M!NoRow
    <2>5. ASSUME NEW k \in x11' PROVE IF k.stage = "start" THEN M!StartFits(k)' ELSE k.client = 0
      BY <1>i, <1>n DEF M!TakePrepared, M!JobsAreOwned, M!StartFits
    <2>6. ASSUME NEW k1 \in x11', NEW k2 \in x11', k1.attempt = k2.attempt PROVE k1 = k2
      BY <1>i, <1>n, <2>6 DEF M!TakePrepared, M!Takes, M!Late, M!Cancelled, M!JobsAreOwned
    <2> QED
      BY <2>1, <2>2, <2>3, <2>4, <2>5, <2>6 DEF M!JobsAreOwned
  <1>6. M!ProcessIsOwned'
    <2>1. ASSUME NEW q \in x10'
          PROVE  /\ q.client # 0 /\ q.client <= x12'
                 /\ q.client = x9'.client \/ \E k \in x11' : k.stage = "start" /\ k.client = q.client
      BY <1>i DEF M!TakePrepared, M!ProcessIsOwned, M!JobsAreOwned, M!RunIsOwned, M!RowIsKnown,
             M!StartFits
    <2>2. ASSUME NEW q \in x10' PROVE M!SessionFits(q)'
      BY <1>i, <1>n DEF M!TakePrepared, M!JobsAreOwned, M!RunIsOwned, M!Open, M!Current,
             M!RowIsKnown, M!StartFits, M!StageFits, M!SessionFits, M!Locked, M!TypeOK, M!ActorType,
             M!NoRow
    <2>3. ASSUME NEW q1 \in x10', NEW q2 \in x10' PROVE q1 = q2
      BY <1>i DEF M!TakePrepared, M!ProcessIsOwned
    <2>4. ASSUME NEW k \in x11', M!Stale(k)'
          PROVE  /\ k.leased # x9'.client
                 /\ \A q \in x10' : q.client # k.leased
                 /\ \A k1 \in x11' : k1.stage = "start" => k1.client # k.leased
      BY <1>i, <1>n, <2>4 DEF M!TakePrepared, M!ProcessIsOwned, M!Open, M!Current, M!Stale
    <2> QED
      BY <2>1, <2>2, <2>3, <2>4 DEF M!ProcessIsOwned
  <1> QED
    BY <1>1, <1>2, <1>3, <1>4, <1>5, <1>6 DEF M!MInv

\* The switch begins, with the source as its target.
LEMMA MigrationTakeHandoff ==
    ASSUME M!MInv, NEW j \in x11, M!TakeHandoff(j)
    PROVE  M!MInv'
  <1>i. /\ M!TypeOK /\ M!RowIsKnown /\ M!RivalIsElsewhere /\ M!RunIsOwned
        /\ M!JobsAreOwned /\ M!ProcessIsOwned
    BY DEF M!MInv
  <1>n. PICK n \in M!JobType :
          /\ x11' = (x11 \ {j}) \cup {n}
          /\ n.stage = "candidate" /\ n.attempt = x9.attempt /\ n.id = x9.run.id /\ n.leased = x9.leased
          /\ n.target = x3.source /\ ~n.ended /\ n.client = 0
    <2> DEFINE k == M!Job("candidate", x9.attempt, x9.run.id, x9.leased, x3.source)
    <2>1. /\ x9.attempt \in Nat /\ x9.run.id \in Nat /\ x9.leased \in Nat /\ x3.source \in M!Ids
      BY <1>i, RowEdits DEF M!TypeOK, M!ActorType, M!RunType
    <2>4. x11' = (x11 \ {j}) \cup {k}
      BY DEF M!TakeHandoff, M!Continues, M!Rest
    <2>5. /\ k \in M!JobType
          /\ k.stage = "candidate" /\ k.attempt = x9.attempt /\ k.id = x9.run.id /\ k.leased = x9.leased
          /\ k.target = x3.source /\ ~k.ended /\ k.client = 0
      BY <2>1, NoneAssumption DEF M!Job, M!JobType, M!Ids
    <2> HIDE DEF k
    <2> QED
      BY <2>4, <2>5
  <1>1. M!TypeOK'
    <2>1. x9' \in M!ActorType
      BY <1>i, RowEdits DEF M!TakeHandoff, M!TypeOK, M!ActorType
    <2>2. x11' \subseteq M!JobType
      BY <1>i, <1>n DEF M!TypeOK
    <2>3. x3' \in M!RowType
      BY <1>i, RowEdits DEF M!TakeHandoff, M!TypeOK
    <2>4. x10' \subseteq [client : Nat, session : SessionIds]
      BY <1>i DEF M!TakeHandoff, M!TypeOK
    <2>5. x8' \subseteq SessionIds
      BY <1>i DEF M!TakeHandoff, M!TypeOK
    <2> QED
      BY <1>i, <2>2, <2>3 DEF M!TakeHandoff, M!TypeOK, M!ActorType
  <1>2. M!RowIsKnown'
    <2>1. x3.id \in Nat /\ x3'.id = x3.id /\ x3'.source = x3.source /\ x3'.candidate = x3.candidate
      BY <1>i, RowEdits DEF M!TakeHandoff, M!TypeOK, M!RowType
    <2>2. x3 # M!NoRow /\ x9.mig # M!NoRow /\ x1
      BY <1>i DEF M!TakeHandoff, M!Takes, M!Late, M!Cancelled, M!RowIsKnown, M!JobsAreOwned,
             M!StageFits, M!Current, M!Open
    <2>3. x3' # M!NoRow
      BY <1>i, <2>1, <2>2 DEF M!RowIsKnown, M!NoRow
    <2>4. x9'.mig = x3' /\ x8' = x8 /\ x1' = x1
      BY <1>i DEF M!TakeHandoff, M!TypeOK, M!ActorType
    <2>5. x3' = [x3' EXCEPT !.candidate = x3'.candidate]
      BY <1>1 DEF M!TypeOK, M!RowType
    <2> QED
      BY <1>i, <2>1, <2>2, <2>4, <2>5 DEF M!RowIsKnown, M!Named
  <1>3. M!RivalIsElsewhere'
    BY <1>i DEF M!TakeHandoff, M!RivalIsElsewhere, M!Named
  <1>4. M!RunIsOwned'
    BY <1>i DEF M!TakeHandoff, M!Takes, M!Late, M!Cancelled, M!RunIsOwned, M!JobsAreOwned,
           M!StageFits, M!Current, M!Open, M!TypeOK, M!ActorType
  <1>5. M!JobsAreOwned'
    <2>1. ASSUME NEW k \in x11'
          PROVE  /\ k.attempt # 0 /\ k.attempt <= x9'.attempt /\ k.id # 0 /\ k.leased <= x12'
                 /\ k.stage = "candidate" => k.leased # 0
      BY <1>i, <1>n DEF M!TakeHandoff, M!Takes, M!Late, M!Cancelled, M!JobsAreOwned, M!RunIsOwned,
             M!Open, M!Current, M!StageFits
    <2>2. ASSUME NEW k \in x11', M!Current(k)' PROVE M!StageFits(k)'
      BY <1>i, <1>n, <2>2 DEF M!TakeHandoff, M!Takes, M!Late, M!Cancelled, M!JobsAreOwned, M!Open,
             M!Current, M!StageFits, M!TypeOK, M!ActorType, M!NoRow
    <2>3. ASSUME NEW k \in x11', M!Current(k)' PROVE M!TargetFits(k)'
      BY <1>i, <1>n, <2>3 DEF M!TakeHandoff, M!JobsAreOwned, M!Open, M!Current, M!TargetFits,
             M!Named
    <2>4. ASSUME NEW k \in x11', M!Current(k)' PROVE M!ResultFits(k)'
      BY <1>i, <1>n, <2>4 DEF M!TakeHandoff, M!JobsAreOwned, M!Open, M!Current, M!ResultFits,
             M!JournalComplete
    <2>5. ASSUME NEW k \in x11' PROVE IF k.stage = "start" THEN M!StartFits(k)' ELSE k.client = 0
      BY <1>i, <1>n DEF M!TakeHandoff, M!JobsAreOwned, M!StartFits
    <2>6. ASSUME NEW k1 \in x11', NEW k2 \in x11', k1.attempt = k2.attempt PROVE k1 = k2
      BY <1>i, <1>n, <2>6 DEF M!TakeHandoff, M!Takes, M!Late, M!Cancelled, M!JobsAreOwned
    <2> QED
      BY <2>1, <2>2, <2>3, <2>4, <2>5, <2>6 DEF M!JobsAreOwned
  <1>6. M!ProcessIsOwned'
    <2>1. ASSUME NEW q \in x10'
          PROVE  /\ q.client # 0 /\ q.client <= x12'
                 /\ q.client = x9'.client \/ \E k \in x11' : k.stage = "start" /\ k.client = q.client
      BY <1>i DEF M!TakeHandoff, M!Takes, M!Continues, M!Rest, M!ProcessIsOwned
    <2>2. ASSUME NEW q \in x10' PROVE M!SessionFits(q)'
      BY <1>i, <1>n DEF M!TakeHandoff, M!ProcessIsOwned, M!Open, M!Current, M!SessionFits, M!Locked,
             M!TypeOK, M!ActorType, M!NoRow
    <2>3. ASSUME NEW q1 \in x10', NEW q2 \in x10' PROVE q1 = q2
      BY <1>i DEF M!TakeHandoff, M!ProcessIsOwned
    <2>4. ASSUME NEW k \in x11', M!Stale(k)'
          PROVE  /\ k.leased # x9'.client
                 /\ \A q \in x10' : q.client # k.leased
                 /\ \A k1 \in x11' : k1.stage = "start" => k1.client # k.leased
      BY <1>i, <1>n, <2>4 DEF M!TakeHandoff, M!Takes, M!Late, M!Cancelled, M!ProcessIsOwned, M!Open,
             M!Current, M!Stale
    <2> QED
      BY <2>1, <2>2, <2>3, <2>4 DEF M!ProcessIsOwned
  <1> QED
    BY <1>1, <1>2, <1>3, <1>4, <1>5, <1>6 DEF M!MInv

\* The verification begins; the process is in the session the candidate job has seen.
LEMMA MigrationTakeCandidate ==
    ASSUME M!MInv, NEW j \in x11, M!TakeCandidate(j)
    PROVE  M!MInv'
  <1>i. /\ M!TypeOK /\ M!RowIsKnown /\ M!RivalIsElsewhere /\ M!RunIsOwned
        /\ M!JobsAreOwned /\ M!ProcessIsOwned
    BY DEF M!MInv
  <1>n. PICK n \in M!JobType :
          /\ x11' = (x11 \ {j}) \cup {n}
          /\ n.stage = "verify" /\ n.attempt = x9.attempt /\ n.id = x9.run.id /\ n.leased = x9.leased
          /\ n.target = j.session /\ ~n.ended /\ n.client = 0
    <2> DEFINE k == M!Job("verify", x9.attempt, x9.run.id, x9.leased, j.session)
    <2>1. /\ x9.attempt \in Nat /\ x9.run.id \in Nat /\ x9.leased \in Nat /\ j.session \in M!Ids
      BY <1>i, RowEdits DEF M!TypeOK, M!ActorType, M!RunType, M!JobType, M!Ids
    <2>4. x11' = (x11 \ {j}) \cup {k}
      BY DEF M!TakeCandidate, M!Continues, M!Rest
    <2>5. /\ k \in M!JobType
          /\ k.stage = "verify" /\ k.attempt = x9.attempt /\ k.id = x9.run.id /\ k.leased = x9.leased
          /\ k.target = j.session /\ ~k.ended /\ k.client = 0
      BY <2>1, NoneAssumption DEF M!Job, M!JobType, M!Ids
    <2> HIDE DEF k
    <2> QED
      BY <2>4, <2>5
  <1>1. M!TypeOK'
    <2>1. x9' \in M!ActorType
      BY <1>i, NoneAssumption, <1>n, MigrationTypes, RowEdits DEF M!TakeCandidate, M!Takes,
             M!Result, M!Late, M!Cancelled, M!Unconfirmed, M!Continues, M!Rest, M!TypeOK,
             M!ActorType, M!RunType
    <2>2. x11' \subseteq M!JobType
      BY <1>i, NoneAssumption, <1>n DEF M!TakeCandidate, M!Takes, M!Result, M!Late, M!Cancelled,
             M!Unconfirmed, M!Continues, M!Rest, M!TypeOK, M!JobType, M!Ids
    <2>3. x3' \in M!RowType
      BY <1>i, NoneAssumption, <1>n, MigrationTypes, RowEdits DEF M!TakeCandidate, M!Takes,
             M!Result, M!Late, M!Cancelled, M!Unconfirmed, M!Continues, M!Rest, M!TypeOK,
             M!ActorType
    <2>4. x10' \subseteq [client : Nat, session : SessionIds]
      BY <1>i, NoneAssumption, <1>n DEF M!TakeCandidate, M!Takes, M!Result, M!Late, M!Cancelled,
             M!Unconfirmed, M!Continues, M!Rest, M!TypeOK, M!JobType, M!ActorType
    <2>5. x8' \subseteq SessionIds
      BY <1>i, NoneAssumption, <1>n, RowEdits DEF M!TakeCandidate, M!Takes, M!Result, M!Late,
             M!Cancelled, M!Unconfirmed, M!Continues, M!Rest, M!TypeOK, M!ActorType, M!JobType,
             M!Ids
    <2> QED
      BY <1>i, NoneAssumption, <1>n, <2>1, <2>2, <2>3, <2>4, <2>5 DEF M!TakeCandidate, M!Takes,
             M!Result, M!Late, M!Cancelled, M!Unconfirmed, M!Continues, M!Rest, M!TypeOK,
             M!ActorType, M!JobType, M!Ids
  <1>2. M!RowIsKnown'
    <2>1. x3.id \in Nat /\ x3'.id = x3.id /\ x3'.source = x3.source /\ x3'.candidate = x3.candidate
      BY <1>i, RowEdits DEF M!TakeCandidate, M!TypeOK, M!RowType
    <2>2. x3 # M!NoRow /\ x9.mig # M!NoRow /\ x1
      BY <1>i DEF M!TakeCandidate, M!Takes, M!Result, M!Late, M!Cancelled, M!RowIsKnown, M!JobsAreOwned, M!StageFits, M!Current, M!Open
    <2>3. x3' # M!NoRow
      BY <1>i, <2>1, <2>2 DEF M!RowIsKnown, M!NoRow
    <2>4. x9'.mig = x3' /\ x8' = x8 /\ x1' = x1
      BY <1>i DEF M!TakeCandidate, M!TypeOK, M!ActorType
    <2>5. x3' = [x3' EXCEPT !.candidate = x3'.candidate]
      BY <1>1 DEF M!TypeOK, M!RowType
    <2> QED
      BY <1>i, <2>1, <2>2, <2>3, <2>4, <2>5 DEF M!RowIsKnown, M!Named
  <1>3. M!RivalIsElsewhere'
    BY <1>i, NoneAssumption, <1>n DEF M!TakeCandidate, M!Takes, M!Result, M!Late, M!Cancelled,
           M!Unconfirmed, M!Continues, M!Rest, M!RivalIsElsewhere, M!RowIsKnown, M!RunIsOwned,
           M!JobsAreOwned, M!TargetFits, M!ResultFits, M!Current, M!Open, M!Named, M!TypeOK,
           M!ActorType, M!RowType, M!RunType, M!JobType, M!Ids, M!NoRow, M!NoRun, M!NewActor
  <1>4. M!RunIsOwned'
    BY <1>i, NoneAssumption, <1>n DEF M!TakeCandidate, M!Takes, M!Result, M!Late, M!Cancelled,
           M!Unconfirmed, M!Continues, M!Rest, M!RunIsOwned, M!RowIsKnown, M!JobsAreOwned,
           M!StageFits, M!StartFits, M!Current, M!Open, M!TypeOK, M!ActorType, M!RowType,
           M!RunType, M!JobType, M!Ids, M!NoRow, M!NoRun, M!NewActor
  <1>5. M!JobsAreOwned'
    <2>1. ASSUME NEW k \in x11'
          PROVE  /\ k.attempt # 0 /\ k.attempt <= x9'.attempt /\ k.id # 0 /\ k.leased <= x12'
                 /\ k.stage = "candidate" => k.leased # 0
      BY <1>i, NoneAssumption, <1>n, <2>1 DEF M!TakeCandidate, M!Takes, M!Result, M!Late,
             M!Cancelled, M!Unconfirmed, M!Continues, M!Rest, M!JobsAreOwned, M!RunIsOwned,
             M!Open, M!Current, M!StageFits, M!TypeOK, M!ActorType, M!JobType, M!RunType
    <2>2. ASSUME NEW k \in x11', M!Current(k)' PROVE M!StageFits(k)'
      BY <1>i, NoneAssumption, <1>n, <2>2 DEF M!TakeCandidate, M!Takes, M!Result, M!Late,
             M!Cancelled, M!Unconfirmed, M!Continues, M!Rest, M!JobsAreOwned, M!RunIsOwned,
             M!Open, M!Current, M!RowIsKnown, M!StageFits, M!StartFits, M!TypeOK, M!ActorType,
             M!RowType, M!RunType, M!JobType, M!Ids, M!NoRow, M!NoRun, M!NewActor
    <2>3. ASSUME NEW k \in x11', M!Current(k)' PROVE M!TargetFits(k)'
      BY <1>i, NoneAssumption, <1>n, <2>3 DEF M!TakeCandidate, M!Takes, M!Result, M!Late,
             M!Cancelled, M!Unconfirmed, M!Continues, M!Rest, M!JobsAreOwned, M!RunIsOwned,
             M!Open, M!Current, M!RowIsKnown, M!StageFits, M!TargetFits, M!ResultFits, M!Named,
             M!TypeOK, M!ActorType, M!RowType, M!RunType, M!JobType, M!Ids, M!NoRow, M!NoRun,
             M!NewActor
    <2>4. ASSUME NEW k \in x11', M!Current(k)' PROVE M!ResultFits(k)'
      BY <1>i, NoneAssumption, <1>n, <2>4 DEF M!TakeCandidate, M!Takes, M!Result, M!Late,
             M!Cancelled, M!Unconfirmed, M!Continues, M!Rest, M!JobsAreOwned, M!RunIsOwned,
             M!Open, M!Current, M!RowIsKnown, M!StageFits, M!TargetFits, M!ResultFits, M!Named,
             M!JournalComplete, M!RivalIsElsewhere, M!TypeOK, M!ActorType, M!RowType, M!RunType,
             M!JobType, M!Ids, M!NoRow, M!NoRun, M!NewActor
    <2>5. ASSUME NEW k \in x11' PROVE IF k.stage = "start" THEN M!StartFits(k)' ELSE k.client = 0
      BY <1>i, NoneAssumption, <1>n, <2>5 DEF M!TakeCandidate, M!Takes, M!Result, M!Late,
             M!Cancelled, M!Unconfirmed, M!Continues, M!Rest, M!JobsAreOwned, M!RunIsOwned,
             M!Open, M!Current, M!RowIsKnown, M!StageFits, M!StartFits, M!TypeOK, M!ActorType,
             M!RowType, M!RunType, M!JobType, M!Ids, M!NoRow, M!NoRun, M!NewActor
    <2>6. ASSUME NEW k1 \in x11', NEW k2 \in x11', k1.attempt = k2.attempt PROVE k1 = k2
      BY <1>i, NoneAssumption, <1>n, <2>6 DEF M!TakeCandidate, M!Takes, M!Result, M!Late,
             M!Cancelled, M!Unconfirmed, M!Continues, M!Rest, M!JobsAreOwned, M!TypeOK,
             M!ActorType, M!JobType
    <2> QED
      BY <2>1, <2>2, <2>3, <2>4, <2>5, <2>6 DEF M!JobsAreOwned
  <1>6. M!ProcessIsOwned'
    <2>1. ASSUME NEW q \in x10'
          PROVE  /\ q.client # 0 /\ q.client <= x12'
                 /\ q.client = x9'.client \/ \E k \in x11' : k.stage = "start" /\ k.client = q.client
      BY <1>i, NoneAssumption, <1>n, <2>1 DEF M!TakeCandidate, M!Takes, M!Result, M!Late,
             M!Cancelled, M!Unconfirmed, M!Continues, M!Rest, M!ProcessIsOwned, M!JobsAreOwned,
             M!RunIsOwned, M!Open, M!Current, M!RowIsKnown, M!StartFits, M!StageFits, M!TypeOK,
             M!ActorType, M!RowType, M!RunType, M!JobType, M!Ids, M!NoRow, M!NoRun, M!NewActor
    <2>2. ASSUME NEW q \in x10' PROVE M!SessionFits(q)'
      BY <1>i, NoneAssumption, <1>n, <2>2 DEF M!TakeCandidate, M!Takes, M!Result, M!Late,
             M!Cancelled, M!Unconfirmed, M!Continues, M!Rest, M!ProcessIsOwned, M!JobsAreOwned,
             M!RunIsOwned, M!Open, M!Current, M!RowIsKnown, M!StartFits, M!StageFits,
             M!SessionFits, M!Locked, M!TargetFits, M!ResultFits, M!TypeOK, M!ActorType,
             M!RowType, M!RunType, M!JobType, M!Ids, M!NoRow, M!NoRun, M!NewActor
    <2>3. ASSUME NEW q1 \in x10', NEW q2 \in x10' PROVE q1 = q2
      BY <1>i, NoneAssumption, <1>n, <2>3 DEF M!TakeCandidate, M!Takes, M!Result, M!Late,
             M!Cancelled, M!Unconfirmed, M!Continues, M!Rest, M!ProcessIsOwned, M!JobsAreOwned,
             M!RunIsOwned, M!Open, M!Current, M!RowIsKnown, M!StartFits, M!StageFits,
             M!SessionFits, M!Locked, M!TypeOK, M!ActorType, M!RowType, M!RunType, M!JobType,
             M!Ids, M!NoRow, M!NoRun, M!NewActor
    <2>4. ASSUME NEW k \in x11', M!Stale(k)'
          PROVE  /\ k.leased # x9'.client
                 /\ \A q \in x10' : q.client # k.leased
                 /\ \A k1 \in x11' : k1.stage = "start" => k1.client # k.leased
      BY <1>i, NoneAssumption, <1>n, <2>4 DEF M!TakeCandidate, M!Takes, M!Result, M!Late,
             M!Cancelled, M!Unconfirmed, M!Continues, M!Rest, M!ProcessIsOwned, M!JobsAreOwned,
             M!RunIsOwned, M!Open, M!Current, M!RowIsKnown, M!StartFits, M!StageFits, M!Stale,
             M!TypeOK, M!ActorType, M!JobType, M!RunType, M!NewActor, M!NoRow
    <2> QED
      BY <2>1, <2>2, <2>3, <2>4 DEF M!ProcessIsOwned
  <1> QED
    BY <1>1, <1>2, <1>3, <1>4, <1>5, <1>6 DEF M!MInv

\* A recovery without a slot is cancelled before it has a process.
LEMMA MigrationRecoveryRefused ==
    ASSUME M!MInv, NEW j \in x11, M!RecoveryRefused(j)
    PROVE  M!MInv'
  <1>i. /\ M!TypeOK /\ M!RowIsKnown /\ M!RivalIsElsewhere /\ M!RunIsOwned
        /\ M!JobsAreOwned /\ M!ProcessIsOwned
    BY DEF M!MInv
  <1>v. /\ x1 = TRUE /\ x1' = x1 /\ x2' = x2 /\ x4' = x4 /\ x6' = x6 /\ x7' = x7 /\ x8' = x8 /\ x12' = x12
        /\ x3' = IF x9.mig = M!NoRow THEN x3 ELSE [x3 EXCEPT !.failed = TRUE]
        /\ x5' = M!FailedInputs /\ x11' = x11 \ {j} /\ x10' \subseteq x10
        /\ \E s \in {0, x9.startup} :
             x9' = [x9 EXCEPT !.run = M!NoRun, !.leased = 0, !.client = 0, !.startup = s,
                              !.mig = IF x9.mig = M!NoRow THEN M!NoRow ELSE x3']
    <2>1. /\ x1 = TRUE /\ x1' = x1 /\ x2' = x2 /\ x4' = x4 /\ x6' = x6 /\ x7' = x7 /\ x8' = x8 /\ x12' = x12
          /\ x3' = IF x9.mig = M!NoRow THEN x3 ELSE [x3 EXCEPT !.failed = TRUE]
          /\ x5' = M!FailedInputs /\ x11' = x11 \ {j} /\ x10' \subseteq x10
          /\ x9' = [x9 EXCEPT !.run = M!NoRun, !.leased = 0, !.client = 0,
                              !.mig = IF x9.mig = M!NoRow THEN M!NoRow ELSE x3']
      BY <1>i DEF M!RecoveryRefused, M!CancelMigration, M!Takes, M!Result, M!Rest, M!Without, M!TypeOK
    <2>2. [x9 EXCEPT !.run = M!NoRun, !.leased = 0, !.client = 0, !.mig = IF x9.mig = M!NoRow THEN M!NoRow ELSE x3']
            = [x9 EXCEPT !.run = M!NoRun, !.leased = 0, !.client = 0, !.startup = x9.startup,
                         !.mig = IF x9.mig = M!NoRow THEN M!NoRow ELSE x3']
      BY <1>i DEF M!TypeOK, M!ActorType
    <2> QED
      BY <2>1, <2>2
  <1>m. x9'.mig = IF x9.mig = M!NoRow THEN M!NoRow ELSE x3'
    BY <1>i, <1>v DEF M!TypeOK, M!ActorType
  <1>r. x3' \in M!RowType /\ x9'.mig \in M!RowType /\ M!RowIsKnown'
    BY <1>i, <1>v, <1>m, FailedRowIsKnown
  <1>1. M!TypeOK'
    <2>1. x9' \in M!ActorType
      <3>1. x9 \in M!ActorType /\ 0 \in Nat /\ x9.startup \in Nat
        BY <1>i DEF M!TypeOK, M!ActorType
      <3> DEFINE m == IF x9.mig = M!NoRow THEN M!NoRow ELSE x3'
      <3>2. m \in M!RowType
        BY <1>m, <1>r
      <3> HIDE DEF m
      <3>3. PICK s \in Nat : x9' = [x9 EXCEPT !.run = M!NoRun, !.leased = 0, !.client = 0, !.startup = s, !.mig = m]
        BY <1>v, <3>1 DEF m
      <3> QED
        BY <3>1, <3>2, <3>3, RunEnds, Zenon
    <2>2. x5' \in [Triple -> {"pending", "submitted", "done", "failed", "uncertain"}]
      BY <1>i, <1>v DEF M!FailedInputs, M!TypeOK
    <2> QED
      BY <1>i, <1>v, <1>r, <2>1, <2>2 DEF M!TypeOK
  <1>2. M!RowIsKnown'
    BY <1>r
  <1>3. M!RivalIsElsewhere'
    BY <1>i DEF M!RecoveryRefused, M!CancelMigration, M!RivalIsElsewhere, M!Named, M!TypeOK,
           M!ActorType, M!RowType, M!RunType, M!JobType, M!Ids, M!NoRow, M!NoRun, M!NewActor
  <1>4. M!RunIsOwned'
    BY <1>i DEF M!RecoveryRefused, M!CancelMigration, M!RunIsOwned, M!Open, M!TypeOK, M!ActorType,
           M!RowType, M!RunType, M!JobType, M!Ids, M!NoRow, M!NoRun, M!NewActor
  <1>5. M!JobsAreOwned'
    <2>1. ASSUME NEW k \in x11'
          PROVE  /\ k.attempt # 0 /\ k.attempt <= x9'.attempt /\ k.id # 0 /\ k.leased <= x12'
                 /\ k.stage = "candidate" => k.leased # 0
      BY <1>i DEF M!RecoveryRefused, M!CancelMigration, M!Rest, M!JobsAreOwned
    <2>2. ASSUME NEW k \in x11', M!Current(k)' PROVE M!StageFits(k)'
      BY <1>i, <2>2 DEF M!RecoveryRefused, M!CancelMigration, M!Open, M!Current, M!StageFits,
             M!StartFits, M!TypeOK, M!ActorType, M!RowType, M!RunType, M!JobType, M!Ids, M!NoRow,
             M!NoRun, M!NewActor
    <2>3. ASSUME NEW k \in x11', M!Current(k)' PROVE M!TargetFits(k)'
      BY <1>i, <2>3 DEF M!RecoveryRefused, M!CancelMigration, M!Open, M!Current, M!ResultFits,
             M!Named, M!TypeOK, M!ActorType, M!RowType, M!RunType, M!JobType, M!Ids, M!NoRow,
             M!NoRun, M!NewActor
    <2>4. ASSUME NEW k \in x11', M!Current(k)' PROVE M!ResultFits(k)'
      BY <1>i, <2>4 DEF M!RecoveryRefused, M!CancelMigration, M!Open, M!Current, M!RowIsKnown,
             M!StageFits, M!TargetFits, M!ResultFits, M!Named, M!JournalComplete,
             M!RivalIsElsewhere, M!TypeOK, M!ActorType, M!RowType, M!RunType, M!JobType, M!Ids,
             M!NoRow, M!NoRun, M!NewActor
    <2>5. ASSUME NEW k \in x11' PROVE IF k.stage = "start" THEN M!StartFits(k)' ELSE k.client = 0
      BY <1>i DEF M!RecoveryRefused, M!Takes, M!Late, M!Cancelled, M!Rest, M!JobsAreOwned,
             M!RunIsOwned, M!Open, M!Current, M!RowIsKnown, M!StageFits, M!StartFits, M!TypeOK,
             M!ActorType, M!RowType, M!RunType, M!JobType, M!Ids, M!NoRow, M!NoRun, M!NewActor
    <2>6. ASSUME NEW k1 \in x11', NEW k2 \in x11', k1.attempt = k2.attempt PROVE k1 = k2
      BY <1>i, <2>6 DEF M!RecoveryRefused, M!Rest, M!JobsAreOwned
    <2> QED
      BY <2>1, <2>2, <2>3, <2>4, <2>5, <2>6 DEF M!JobsAreOwned
  <1>6. M!ProcessIsOwned'
    <2>1. ASSUME NEW q \in x10'
          PROVE  /\ q.client # 0 /\ q.client <= x12'
                 /\ q.client = x9'.client \/ \E k \in x11' : k.stage = "start" /\ k.client = q.client
      BY <1>i DEF M!RecoveryRefused, M!CancelMigration, M!Without, M!Takes, M!Rest,
             M!ProcessIsOwned, M!JobsAreOwned, M!RunIsOwned, M!Open, M!Current, M!RowIsKnown,
             M!StartFits, M!StageFits, M!TypeOK, M!ActorType, M!RowType, M!RunType, M!JobType,
             M!Ids, M!NoRow, M!NoRun, M!NewActor
    <2>2. ASSUME NEW q \in x10' PROVE M!SessionFits(q)'
      BY <1>i DEF M!RecoveryRefused, M!CancelMigration, M!Takes, M!Late, M!Cancelled, M!Continues,
             M!Rest, M!ProcessIsOwned, M!JobsAreOwned, M!RunIsOwned, M!Open, M!Current,
             M!RowIsKnown, M!StartFits, M!StageFits, M!SessionFits, M!Locked, M!TargetFits,
             M!ResultFits, M!TypeOK, M!ActorType, M!RowType, M!RunType, M!JobType, M!Ids, M!NoRow,
             M!NoRun, M!NewActor
    <2>3. ASSUME NEW q1 \in x10', NEW q2 \in x10' PROVE q1 = q2
      BY <1>i DEF M!RecoveryRefused, M!CancelMigration, M!Without, M!ProcessIsOwned, M!JobsAreOwned,
             M!RunIsOwned, M!Open, M!Current, M!RowIsKnown, M!StartFits, M!StageFits, M!SessionFits,
             M!Locked, M!TypeOK, M!ActorType, M!RowType, M!RunType, M!JobType, M!Ids, M!NoRow,
             M!NoRun, M!NewActor
    <2>4. ASSUME NEW k \in x11', M!Stale(k)'
          PROVE  /\ k.leased # x9'.client
                 /\ \A q \in x10' : q.client # k.leased
                 /\ \A k1 \in x11' : k1.stage = "start" => k1.client # k.leased
      BY <1>i, <2>4 DEF M!RecoveryRefused, M!CancelMigration, M!Without, M!Rest, M!ProcessIsOwned,
             M!JobsAreOwned, M!RunIsOwned, M!Open, M!Current, M!RowIsKnown, M!StartFits,
             M!StageFits, M!Stale, M!TypeOK, M!ActorType, M!JobType, M!RunType, M!NewActor, M!NoRow
    <2> QED
      BY <2>1, <2>2, <2>3, <2>4 DEF M!ProcessIsOwned
  <1> QED
    BY <1>1, <1>2, <1>3, <1>4, <1>5, <1>6 DEF M!MInv

\* What the user named is observed, if it is the candidate, and its start begins.
LEMMA MigrationTakeResolved ==
    ASSUME M!MInv, NEW j \in x11, M!TakeResolved(j)
    PROVE  M!MInv'
  <1>i. /\ M!TypeOK /\ M!RowIsKnown /\ M!RivalIsElsewhere /\ M!RunIsOwned
        /\ M!JobsAreOwned /\ M!ProcessIsOwned
    BY DEF M!MInv
  <1>1. CASE M!CancelMigration({}) /\ x11' = M!Rest(j)
    <2>1. M!RecoveryRefused(j)
      BY <1>1 DEF M!TakeResolved, M!RecoveryRefused
    <2> QED
      BY <2>1, MigrationRecoveryRefused
  <1>2. ASSUME x9.run.old \/ M!Observable(x9.mig.id, j.session),
               IF x9.run.old THEN x3' = x3 /\ x8' = x8 ELSE M!Observe(j.session),
               x9' = [x9 EXCEPT !.mig = x3', !.startup = x9.attempt],
               M!Continues(j, "start", 0, j.session),
               UNCHANGED <<x1, x2, x4, x5, x6, x7, x10, x12>>
        PROVE  M!MInv'
    <2>u. /\ x1 /\ j.ended /\ j.ok /\ j.stage = "resolve" /\ M!Current(j) /\ M!Open
          /\ x1' = x1 /\ x2' = x2 /\ x4' = x4 /\ x5' = x5 /\ x6' = x6 /\ x7' = x7
          /\ x10' = x10 /\ x12' = x12
      <3>1. M!Takes(j, "resolve")
        BY DEF M!TakeResolved
      <3> QED
        BY <1>2, <3>1 DEF M!Takes, M!Result, M!Late, M!Cancelled, M!Unconfirmed, M!Current, M!Open
    <2>t. /\ x9 \in M!ActorType /\ x9.run \in M!RunType /\ x9.run.id \in Nat /\ x9.attempt \in Nat
          /\ j \in M!JobType /\ x12 \in Nat /\ x3 \in M!RowType /\ x9.mig \in M!RowType
      BY <1>i DEF M!TypeOK, M!ActorType, M!RunType
    <2>s. /\ M!StageFits(j) /\ M!TargetFits(j) /\ M!ResultFits(j) /\ j.attempt # 0
          /\ j.session = j.target /\ j.target \in SessionIds /\ x9.run.recovery
          /\ x9.mig # M!NoRow /\ x9.client = 0 /\ x9.startup = 0 /\ x9.run.id # 0
          /\ (x9.run.old <=> j.target = x3.source) /\ j.attempt = x9.attempt
          /\ x9.leased = x9.client /\ x9.run.id = x3.id
      BY <1>i, <2>u DEF M!JobsAreOwned, M!StageFits, M!TargetFits, M!ResultFits, M!RunIsOwned, M!Current
    <2>m. /\ x3 # M!NoRow /\ x3.id # 0 /\ x3.source \in SessionIds /\ x3.candidate # x3.source
          /\ x8 = M!Named(x3) /\ x9.mig = [x3 EXCEPT !.candidate = x9.mig.candidate]
      BY <1>i, <2>u, <2>s DEF M!RowIsKnown
    <2>o. /\ \A k \in x11 : k.stage # "start"
          /\ \A k \in x11 \ {j} : ~M!Current(k)
      BY <1>i, <2>s DEF M!JobsAreOwned, M!StartFits, M!Current
    <2>e. x10 = {}
      BY <1>i, <2>s, <2>o DEF M!ProcessIsOwned
    <2>r. /\ x3' \in M!RowType /\ x3'.id = x3.id /\ x3'.source = x3.source /\ x3'.failed = x3.failed
          /\ x3'.candidate # x3.source /\ x3' # M!NoRow
          /\ x8' = M!Named(x3') /\ x7 \notin M!Named(x3') /\ j.target \in M!Named(x3')
          /\ x8' \subseteq SessionIds
      <3>1. CASE x9.run.old
        <4>1. x3' = x3 /\ x8' = x8 /\ j.target = x3.source
          BY <1>2, <2>s, <3>1
        <4>2. x7 \notin M!Named(x3) /\ x8 \subseteq SessionIds
          BY <1>i DEF M!RivalIsElsewhere, M!TypeOK
        <4>3. x3.source \in M!Named(x3)
          BY <2>m, NoneAssumption DEF M!Named
        <4> QED
          BY <2>t, <2>m, <4>1, <4>2, <4>3
      <3>2. CASE ~x9.run.old
        <4> DEFINE r == [x3 EXCEPT !.candidate = j.target]
        <4>1. x3' = r /\ x8' = {x3.source, j.target} /\ x7 \notin M!Named(r) /\ j.target # x3.source
          BY <1>2, <2>s, <3>2 DEF M!Observe, M!Observable, M!ClaimsFree
        <4>2. /\ r \in M!RowType /\ r.id = x3.id /\ r.source = x3.source /\ r.candidate = j.target
              /\ r.failed = x3.failed
          BY <2>t, <2>s DEF M!RowType, M!Ids
        <4> HIDE DEF r
        <4>3. M!Named(r) = {x3.source, j.target}
          BY <2>m, <2>s, <4>2, NoneAssumption DEF M!Named
        <4>4. r # M!NoRow
          BY <2>m, <4>2 DEF M!NoRow
        <4> QED
          BY <2>m, <2>s, <4>1, <4>2, <4>3, <4>4
      <3> QED
        BY <3>1, <3>2
    <2>n. PICK n \in M!JobType :
            /\ x11' = (x11 \ {j}) \cup {n}
            /\ n.stage = "start" /\ n.attempt = x9.attempt /\ n.id = x9.run.id /\ n.leased = 0
            /\ n.target = j.target /\ ~n.ended /\ n.client = 0
      <3> DEFINE n == M!Job("start", x9.attempt, x9.run.id, 0, j.session)
      <3>1. x11' = (x11 \ {j}) \cup {n}
        BY <1>2 DEF M!Continues, M!Rest
      <3>2. j.session \in M!Ids
        BY <2>s DEF M!Ids
      <3>3. /\ n \in M!JobType
            /\ n.stage = "start" /\ n.attempt = x9.attempt /\ n.id = x9.run.id /\ n.leased = 0
            /\ n.target = j.session /\ ~n.ended /\ n.client = 0
        BY <2>t, <3>2 DEF M!Job, M!JobType, M!Ids
      <3> HIDE DEF n
      <3> QED
        BY <2>s, <3>1, <3>3
    <2>a. /\ x9' \in M!ActorType
          /\ x9'.mig = x3' /\ x9'.run = x9.run /\ x9'.attempt = x9.attempt
          /\ x9'.startup = x9.attempt /\ x9'.client = 0 /\ x9'.leased = 0
      <3>1. x9' = [x9 EXCEPT !.mig = x3', !.startup = x9.attempt]
        BY <1>2
      <3>2. x9 \in M!ActorType /\ x3' \in M!RowType /\ x9.attempt \in Nat /\ x9.client = 0 /\ x9.leased = 0
        BY <2>t, <2>r, <2>s
      <3> QED
        BY <3>1, <3>2 DEF M!ActorType
    <2>p. /\ \A k : M!Current(k)' <=> M!Current(k)
          /\ M!Open'
      BY <2>a, <2>u DEF M!Current, M!Open
    <2>1. M!TypeOK'
      <3>1. x11' \subseteq M!JobType
        BY <1>i, <2>n DEF M!TypeOK
      <3> QED
        BY <1>i, <2>u, <2>a, <2>r, <3>1 DEF M!TypeOK
    <2>2. M!RowIsKnown'
      <3>1. M!Named(x3)' = M!Named(x3') /\ M!NoRow' = M!NoRow
        BY DEF M!Named, M!NoRow
      <3>2. x9'.mig = [x3' EXCEPT !.candidate = x9'.mig.candidate]
        BY <2>a, <2>r DEF M!RowType
      <3> QED
        BY <2>u, <2>a, <2>m, <2>r, <3>1, <3>2 DEF M!RowIsKnown
    <2>3. M!RivalIsElsewhere'
      BY <1>i, <2>u, <2>r DEF M!RivalIsElsewhere, M!Named
    <2>4. M!RunIsOwned'
      BY <2>t, <2>u, <2>a, <2>r, <2>s DEF M!RunIsOwned, M!Open, M!NoRow
    <2>5. M!JobsAreOwned'
      <3>1. ASSUME NEW k \in x11'
            PROVE  /\ k.attempt # 0 /\ k.attempt <= x9'.attempt /\ k.id # 0 /\ k.leased <= x12'
                   /\ k.stage = "candidate" => k.leased # 0
        <4>1. CASE k = n
          BY <2>t, <2>u, <2>a, <2>n, <2>s, <4>1
        <4>2. CASE k \in x11
          BY <1>i, <2>u, <2>a, <4>2 DEF M!JobsAreOwned
        <4> QED
          BY <2>n, <3>1, <4>1, <4>2
      <3>2. ASSUME NEW k \in x11', M!Current(k)'
            PROVE  M!StageFits(k)' /\ M!TargetFits(k)' /\ M!ResultFits(k)'
        <4>1. k = n
          BY <2>n, <2>p, <2>o, <3>2
        <4>2. M!StageFits(n)'
          BY <2>a, <2>n, <2>r, <2>s DEF M!StageFits, M!NoRow
        <4>3. M!TargetFits(n)'
          BY <2>a, <2>n, <2>r, <2>s DEF M!TargetFits, M!Named
        <4>4. M!ResultFits(n)'
          BY <2>n DEF M!ResultFits
        <4> QED
          BY <4>1, <4>2, <4>3, <4>4
      <3>5. ASSUME NEW k \in x11' PROVE IF k.stage = "start" THEN M!StartFits(k)' ELSE k.client = 0
        <4>1. CASE k = n
          BY <2>t, <2>u, <2>a, <2>n, <2>s, <4>1 DEF M!StartFits
        <4>2. CASE k \in x11
          BY <1>i, <2>o, <4>2 DEF M!JobsAreOwned
        <4> QED
          BY <2>n, <3>5, <4>1, <4>2
      <3>6. ASSUME NEW k1 \in x11', NEW k2 \in x11', k1.attempt = k2.attempt PROVE k1 = k2
        BY <1>i, <2>n, <2>s, <3>6 DEF M!JobsAreOwned
      <3> QED
        BY <3>1, <3>2, <3>5, <3>6 DEF M!JobsAreOwned
    <2>6. M!ProcessIsOwned'
      <3>1. ASSUME NEW k \in x11', M!Stale(k)'
            PROVE  /\ k.leased # x9'.client
                   /\ \A k1 \in x11' : k1.stage = "start" => k1.client # k.leased
        <4>1. k \in x11 /\ k.stage = "candidate" /\ k.leased # 0
          BY <1>i, <2>n, <3>1 DEF M!Stale, M!JobsAreOwned
        <4> QED
          BY <2>a, <2>n, <2>o, <4>1
      <3> QED
        BY <2>u, <2>e, <3>1 DEF M!ProcessIsOwned
    <2> QED
      BY <2>1, <2>2, <2>3, <2>4, <2>5, <2>6 DEF M!MInv
  <1> QED
    BY <1>1, <1>2 DEF M!TakeResolved

\* The actor adopts the process of the recovery.
LEMMA MigrationTakeStarted ==
    ASSUME M!MInv, NEW j \in x11, M!TakeStarted(j)
    PROVE  M!MInv'
  <1>i. /\ M!TypeOK /\ M!RowIsKnown /\ M!RivalIsElsewhere /\ M!RunIsOwned
        /\ M!JobsAreOwned /\ M!ProcessIsOwned
    BY DEF M!MInv
  <1>u. /\ x1 /\ j.ended /\ j.ok /\ j.stage = "start" /\ M!Current(j) /\ M!Open
        /\ x1' = x1 /\ x2' = x2 /\ x3' = x3 /\ x4' = x4 /\ x5' = x5 /\ x6' = x6 /\ x7' = x7
        /\ x8' = x8 /\ x10' = x10 /\ x12' = x12
        /\ x9' = [x9 EXCEPT !.startup = 0, !.client = j.client, !.leased = j.client]
        /\ x11' = (x11 \ {j}) \cup {M!Job("verify", x9.attempt, x9.run.id, j.client, j.session)}
    BY DEF M!TakeStarted, M!Takes, M!Result, M!Late, M!Cancelled, M!Unconfirmed, M!Continues, M!Rest,
           M!Current, M!Open
  <1>t. /\ x9 \in M!ActorType /\ x9.run \in M!RunType /\ x9.run.id \in Nat /\ x9.attempt \in Nat
        /\ j \in M!JobType /\ j.client \in Nat /\ j.session \in M!Ids /\ x12 \in Nat
    BY <1>i DEF M!TypeOK, M!ActorType, M!RunType, M!JobType
  <1>s. /\ M!StartFits(j) /\ M!StageFits(j) /\ M!TargetFits(j) /\ j.attempt # 0
        /\ x9.startup = j.attempt /\ j.client # 0 /\ j.client <= x12 /\ j.session = j.target
        /\ j.target \in SessionIds /\ x9.run.recovery /\ x9.mig # M!NoRow /\ x9.client = 0
        /\ (x9.run.old <=> j.target = x3.source) /\ j.target \in M!Named(x3) /\ x9.run.id # 0
        /\ j.attempt = x9.attempt
    BY <1>i, <1>u DEF M!JobsAreOwned, M!StartFits, M!StageFits, M!TargetFits, M!RunIsOwned, M!Current
  <1>o. \A k \in x11 : k.stage = "start" => k = j
    BY <1>i, <1>s DEF M!JobsAreOwned, M!StartFits
  <1>e. \A k \in x11 \ {j} : ~M!Current(k)
    BY <1>i, <1>s DEF M!JobsAreOwned, M!Current
  <1>n. PICK n \in M!JobType :
          /\ x11' = (x11 \ {j}) \cup {n}
          /\ n.stage = "verify" /\ n.attempt = x9.attempt /\ n.id = x9.run.id /\ n.leased = j.client
          /\ n.target = j.target /\ ~n.ended /\ n.client = 0
    <2> DEFINE n == M!Job("verify", x9.attempt, x9.run.id, j.client, j.session)
    <2>1. x11' = (x11 \ {j}) \cup {n}
      BY <1>u
    <2>2. /\ n \in M!JobType
          /\ n.stage = "verify" /\ n.attempt = x9.attempt /\ n.id = x9.run.id /\ n.leased = j.client
          /\ n.target = j.session /\ ~n.ended /\ n.client = 0
      BY <1>t DEF M!Job, M!JobType, M!Ids
    <2> HIDE DEF n
    <2> QED
      BY <1>s, <2>1, <2>2
  <1>a. /\ x9' \in M!ActorType
        /\ x9'.mig = x9.mig /\ x9'.run = x9.run /\ x9'.attempt = x9.attempt
        /\ x9'.startup = 0 /\ x9'.client = j.client /\ x9'.leased = j.client
    <2>1. x9' = [x9 EXCEPT !.startup = 0, !.client = j.client, !.leased = j.client]
      BY <1>u
    <2>2. x9 \in M!ActorType /\ j.client \in Nat
      BY <1>t
    <2> QED
      BY <2>1, <2>2 DEF M!ActorType
  <1>p. /\ \A k : M!Current(k)' <=> M!Current(k)
        /\ M!Open'
    BY <1>a, <1>u DEF M!Current, M!Open
  <1>1. M!TypeOK'
    BY <1>i, <1>u, <1>a, <1>n DEF M!TypeOK
  <1>2. M!RowIsKnown'
    <2>1. /\ x3 # M!NoRow => x3.id # 0 /\ x3.source \in SessionIds /\ x3.candidate # x3.source
          /\ x8 = M!Named(x3) /\ (x3 = M!NoRow <=> x9.mig = M!NoRow)
          /\ x9.mig = [x3 EXCEPT !.candidate = x9.mig.candidate]
      BY <1>i, <1>u DEF M!RowIsKnown
    <2>2. M!Named(x3)' = M!Named(x3) /\ M!NoRow' = M!NoRow
      BY <1>u DEF M!Named, M!NoRow
    <2>3. x9'.mig = [x3' EXCEPT !.candidate = x9'.mig.candidate]
      BY <1>u, <1>a, <2>1
    <2> QED
      BY <1>u, <1>a, <2>1, <2>2, <2>3 DEF M!RowIsKnown
  <1>3. M!RivalIsElsewhere'
    BY <1>i, <1>u DEF M!RivalIsElsewhere, M!Named
  <1>4. M!RunIsOwned'
    BY <1>i, <1>u, <1>a, <1>s DEF M!RunIsOwned, M!Open, M!NoRow
  <1>5. M!JobsAreOwned'
    <2>1. ASSUME NEW k \in x11'
          PROVE  /\ k.attempt # 0 /\ k.attempt <= x9'.attempt /\ k.id # 0 /\ k.leased <= x12'
                 /\ k.stage = "candidate" => k.leased # 0
      <3>1. CASE k = n
        BY <1>t, <1>u, <1>a, <1>n, <1>s, <3>1
      <3>2. CASE k \in x11
        BY <1>i, <1>u, <1>a, <3>2 DEF M!JobsAreOwned
      <3> QED
        BY <1>n, <2>1, <3>1, <3>2
    <2>2. ASSUME NEW k \in x11', M!Current(k)'
          PROVE  M!StageFits(k)' /\ M!TargetFits(k)' /\ M!ResultFits(k)'
      <3>1. k = n
        BY <1>n, <1>p, <1>e, <2>2
      <3>2. M!StageFits(n)'
        BY <1>a, <1>n, <1>s DEF M!StageFits, M!NoRow
      <3>3. M!TargetFits(n)'
        BY <1>u, <1>a, <1>n, <1>s DEF M!TargetFits, M!Named
      <3>4. M!ResultFits(n)'
        BY <1>n DEF M!ResultFits
      <3> QED
        BY <3>1, <3>2, <3>3, <3>4
    <2>5. ASSUME NEW k \in x11' PROVE IF k.stage = "start" THEN M!StartFits(k)' ELSE k.client = 0
      BY <1>i, <1>n, <1>o, <2>5 DEF M!JobsAreOwned
    <2>6. ASSUME NEW k1 \in x11', NEW k2 \in x11', k1.attempt = k2.attempt PROVE k1 = k2
      BY <1>i, <1>n, <1>s, <2>6 DEF M!JobsAreOwned
    <2> QED
      BY <2>1, <2>2, <2>5, <2>6 DEF M!JobsAreOwned
  <1>6. M!ProcessIsOwned'
    <2>0. \A k \in x11' : k.stage # "start"
      BY <1>n, <1>o
    <2>1. ASSUME NEW q \in x10'
          PROVE  q.client # 0 /\ q.client <= x12' /\ q.client = x9'.client /\ q.session = j.target
      <3>1. /\ q \in x10 /\ q.client # 0 /\ q.client <= x12 /\ M!SessionFits(q)
            /\ q.client = x9.client \/ \E k \in x11 : k.stage = "start" /\ k.client = q.client
        BY <1>i, <1>u, <2>1 DEF M!ProcessIsOwned
      <3> QED
        BY <1>a, <1>o, <1>s, <1>u, <3>1 DEF M!SessionFits
    <2>2. ASSUME NEW q \in x10' PROVE M!SessionFits(q)'
      <3>1. M!Locked'
        BY <1>p DEF M!Locked, M!Open
      <3>2. ASSUME NEW k \in x11', M!Current(k)' PROVE k = n
        BY <1>n, <1>p, <1>e, <3>2
      <3> QED
        BY <1>n, <2>0, <2>1, <2>2, <3>1, <3>2 DEF M!SessionFits
    <2>3. ASSUME NEW q1 \in x10', NEW q2 \in x10' PROVE q1 = q2
      BY <1>i, <1>u, <2>3 DEF M!ProcessIsOwned
    <2>4. ASSUME NEW k \in x11', M!Stale(k)'
          PROVE  /\ k.leased # x9'.client
                 /\ \A q \in x10' : q.client # k.leased
      <3>1. k \in x11 /\ M!Stale(k)
        BY <1>n, <1>p, <2>4 DEF M!Stale
      <3>2. /\ \A q \in x10 : q.client # k.leased
            /\ \A k1 \in x11 : k1.stage = "start" => k1.client # k.leased
        BY <1>i, <3>1 DEF M!ProcessIsOwned
      <3> QED
        BY <1>a, <1>u, <3>2
    <2> QED
      BY <2>0, <2>1, <2>2, <2>3, <2>4 DEF M!ProcessIsOwned
  <1> QED
    BY <1>1, <1>2, <1>3, <1>4, <1>5, <1>6 DEF M!MInv

\* The migration is resolved: the process is in the session the binding moves to.
LEMMA MigrationTakeVerified ==
    ASSUME M!MInv, NEW j \in x11, M!TakeVerified(j)
    PROVE  M!MInv'
  <1>i. /\ M!TypeOK /\ M!RowIsKnown /\ M!RivalIsElsewhere /\ M!RunIsOwned
        /\ M!JobsAreOwned /\ M!ProcessIsOwned
    BY DEF M!MInv
  <1>v. /\ x1 = TRUE /\ x1' = x1 /\ x2' = x2 /\ x6' = x6 /\ x7' = x7 /\ x10' = x10 /\ x12' = x12
        /\ x3' = M!NoRow /\ x8' = {} /\ x11' = x11 \ {j}
        /\ x4' = [session |-> j.session, generation |-> x4.generation + 1]
        /\ x5' = [c \in Triple |-> IF c \in {x3.input, x9.run.input} THEN "done" ELSE x5[c]]
        /\ x9' = [x9 EXCEPT !.mig = M!NoRow, !.run = M!NoRun, !.leased = 0]
    BY <1>i DEF M!TakeVerified, M!Takes, M!Result, M!Rest, M!TypeOK
  <1>1. M!TypeOK'
    <2>1. x9' \in M!ActorType
      <3>1. x9 \in M!ActorType /\ x9.client \in Nat /\ x9.startup \in Nat
        BY <1>i DEF M!TypeOK, M!ActorType
      <3>2. x9' = [x9 EXCEPT !.run = M!NoRun, !.leased = 0, !.client = x9.client, !.startup = x9.startup,
                             !.mig = M!NoRow]
        BY <1>v, <3>1 DEF M!ActorType
      <3> QED
        BY <3>1, <3>2, MigrationTypes, RunEnds, Zenon
    <2>2. j.session \in SessionIds
      <3>1. x3 = x9.mig /\ M!Current(j) /\ j.ok /\ j.ended /\ j.stage = "verify"
        BY DEF M!TakeVerified, M!Publishable, M!Takes, M!Result, M!Late, M!Cancelled, M!Unconfirmed,
               M!Current, M!Open
      <3>2. j.session = j.target /\ j.target \in SessionIds
        BY <1>i, <3>1 DEF M!JobsAreOwned, M!ResultFits, M!TargetFits
      <3> QED
        BY <3>2
    <2>3. /\ x4' \in [session : SessionIds, generation : Nat]
          /\ x5' \in [Triple -> {"pending", "submitted", "done", "failed", "uncertain"}]
      BY <1>i, <1>v, <2>2 DEF M!TypeOK
    <2> QED
      BY <1>i, <1>v, <2>1, <2>3, MigrationTypes DEF M!TypeOK
  <1>2. M!RowIsKnown'
    BY <1>i, <1>v, NoRowIsKnown DEF M!TypeOK, M!ActorType
  <1>3. M!RivalIsElsewhere'
    BY <1>i, NoneAssumption DEF M!TakeVerified, M!Publishable, M!Takes, M!Result, M!Late,
           M!Cancelled, M!Unconfirmed, M!Continues, M!Rest, M!RivalIsElsewhere, M!RowIsKnown,
           M!RunIsOwned, M!JobsAreOwned, M!TargetFits, M!ResultFits, M!Current, M!Open, M!Named,
           M!TypeOK, M!ActorType, M!RowType, M!RunType, M!JobType, M!Ids, M!NoRow, M!NoRun,
           M!NewActor
  <1>4. M!RunIsOwned'
    BY <1>i, NoneAssumption DEF M!TakeVerified, M!Publishable, M!Takes, M!Result, M!Late,
           M!Cancelled, M!Unconfirmed, M!Continues, M!Rest, M!RunIsOwned, M!RowIsKnown,
           M!JobsAreOwned, M!StageFits, M!StartFits, M!Current, M!Open, M!TypeOK, M!ActorType,
           M!RowType, M!RunType, M!JobType, M!Ids, M!NoRow, M!NoRun, M!NewActor
  <1>5. M!JobsAreOwned'
    <2>1. ASSUME NEW k \in x11'
          PROVE  /\ k.attempt # 0 /\ k.attempt <= x9'.attempt /\ k.id # 0 /\ k.leased <= x12'
                 /\ k.stage = "candidate" => k.leased # 0
      BY <1>i, NoneAssumption, <2>1 DEF M!TakeVerified, M!Publishable, M!Takes, M!Result,
             M!Late, M!Cancelled, M!Unconfirmed, M!Continues, M!Rest, M!JobsAreOwned,
             M!RunIsOwned, M!Open, M!Current, M!StageFits, M!TypeOK, M!ActorType, M!JobType,
             M!RunType
    <2>2. ASSUME NEW k \in x11', M!Current(k)' PROVE M!StageFits(k)'
      BY <1>i, NoneAssumption, <2>2 DEF M!TakeVerified, M!Publishable, M!Takes, M!Result,
             M!Late, M!Cancelled, M!Unconfirmed, M!Continues, M!Rest, M!JobsAreOwned,
             M!RunIsOwned, M!Open, M!Current, M!RowIsKnown, M!StageFits, M!StartFits, M!TypeOK,
             M!ActorType, M!RowType, M!RunType, M!JobType, M!Ids, M!NoRow, M!NoRun, M!NewActor
    <2>3. ASSUME NEW k \in x11', M!Current(k)' PROVE M!TargetFits(k)'
      BY <1>i, NoneAssumption, <2>3 DEF M!TakeVerified, M!Publishable, M!Takes, M!Result,
             M!Late, M!Cancelled, M!Unconfirmed, M!Continues, M!Rest, M!JobsAreOwned,
             M!RunIsOwned, M!Open, M!Current, M!RowIsKnown, M!StageFits, M!TargetFits,
             M!ResultFits, M!Named, M!TypeOK, M!ActorType, M!RowType, M!RunType, M!JobType,
             M!Ids, M!NoRow, M!NoRun, M!NewActor
    <2>4. ASSUME NEW k \in x11', M!Current(k)' PROVE M!ResultFits(k)'
      BY <1>i, NoneAssumption, <2>4 DEF M!TakeVerified, M!Publishable, M!Takes, M!Result,
             M!Late, M!Cancelled, M!Unconfirmed, M!Continues, M!Rest, M!JobsAreOwned,
             M!RunIsOwned, M!Open, M!Current, M!RowIsKnown, M!StageFits, M!TargetFits,
             M!ResultFits, M!Named, M!JournalComplete, M!RivalIsElsewhere, M!TypeOK,
             M!ActorType, M!RowType, M!RunType, M!JobType, M!Ids, M!NoRow, M!NoRun, M!NewActor
    <2>5. ASSUME NEW k \in x11' PROVE IF k.stage = "start" THEN M!StartFits(k)' ELSE k.client = 0
      BY <1>i, NoneAssumption, <2>5 DEF M!TakeVerified, M!Publishable, M!Takes, M!Result,
             M!Late, M!Cancelled, M!Unconfirmed, M!Continues, M!Rest, M!JobsAreOwned,
             M!RunIsOwned, M!Open, M!Current, M!RowIsKnown, M!StageFits, M!StartFits, M!TypeOK,
             M!ActorType, M!RowType, M!RunType, M!JobType, M!Ids, M!NoRow, M!NoRun, M!NewActor
    <2>6. ASSUME NEW k1 \in x11', NEW k2 \in x11', k1.attempt = k2.attempt PROVE k1 = k2
      BY <1>i, NoneAssumption, <2>6 DEF M!TakeVerified, M!Publishable, M!Takes, M!Result,
             M!Late, M!Cancelled, M!Unconfirmed, M!Continues, M!Rest, M!JobsAreOwned, M!TypeOK,
             M!ActorType, M!JobType
    <2> QED
      BY <2>1, <2>2, <2>3, <2>4, <2>5, <2>6 DEF M!JobsAreOwned
  <1>6. M!ProcessIsOwned'
    <2>1. ASSUME NEW q \in x10'
          PROVE  /\ q.client # 0 /\ q.client <= x12'
                 /\ q.client = x9'.client \/ \E k \in x11' : k.stage = "start" /\ k.client = q.client
      BY <1>i, NoneAssumption, <2>1 DEF M!TakeVerified, M!Publishable, M!Takes, M!Result,
             M!Late, M!Cancelled, M!Unconfirmed, M!Continues, M!Rest, M!ProcessIsOwned,
             M!JobsAreOwned, M!RunIsOwned, M!Open, M!Current, M!RowIsKnown, M!StartFits,
             M!StageFits, M!TypeOK, M!ActorType, M!RowType, M!RunType, M!JobType, M!Ids,
             M!NoRow, M!NoRun, M!NewActor
    <2>2. ASSUME NEW q \in x10' PROVE M!SessionFits(q)'
      BY <1>i, NoneAssumption, <2>2 DEF M!TakeVerified, M!Publishable, M!Takes, M!Result,
             M!Late, M!Cancelled, M!Unconfirmed, M!Continues, M!Rest, M!ProcessIsOwned,
             M!JobsAreOwned, M!RunIsOwned, M!Open, M!Current, M!RowIsKnown, M!StartFits,
             M!StageFits, M!SessionFits, M!Locked, M!TargetFits, M!ResultFits, M!TypeOK,
             M!ActorType, M!RowType, M!RunType, M!JobType, M!Ids, M!NoRow, M!NoRun, M!NewActor
    <2>3. ASSUME NEW q1 \in x10', NEW q2 \in x10' PROVE q1 = q2
      BY <1>i, NoneAssumption, <2>3 DEF M!TakeVerified, M!Publishable, M!Takes, M!Result,
             M!Late, M!Cancelled, M!Unconfirmed, M!Continues, M!Rest, M!ProcessIsOwned,
             M!JobsAreOwned, M!RunIsOwned, M!Open, M!Current, M!RowIsKnown, M!StartFits,
             M!StageFits, M!SessionFits, M!Locked, M!TypeOK, M!ActorType, M!RowType, M!RunType,
             M!JobType, M!Ids, M!NoRow, M!NoRun, M!NewActor
    <2>4. ASSUME NEW k \in x11', M!Stale(k)'
          PROVE  /\ k.leased # x9'.client
                 /\ \A q \in x10' : q.client # k.leased
                 /\ \A k1 \in x11' : k1.stage = "start" => k1.client # k.leased
      BY <1>i, NoneAssumption, <2>4 DEF M!TakeVerified, M!Publishable, M!Takes, M!Result,
             M!Late, M!Cancelled, M!Unconfirmed, M!Continues, M!Rest, M!ProcessIsOwned,
             M!JobsAreOwned, M!RunIsOwned, M!Open, M!Current, M!RowIsKnown, M!StartFits,
             M!StageFits, M!Stale, M!TypeOK, M!ActorType, M!JobType, M!RunType, M!NewActor,
             M!NoRow
    <2> QED
      BY <2>1, <2>2, <2>3, <2>4 DEF M!ProcessIsOwned
  <1> QED
    BY <1>1, <1>2, <1>3, <1>4, <1>5, <1>6 DEF M!MInv

\* Another conversation takes a session that is not reserved.
LEMMA MigrationRivalTakes ==
    ASSUME M!MInv, NEW s \in SessionIds, M!RivalTakes(s)
    PROVE  M!MInv'
  <1>i. /\ M!TypeOK /\ M!RowIsKnown /\ M!RivalIsElsewhere /\ M!RunIsOwned
        /\ M!JobsAreOwned /\ M!ProcessIsOwned
    BY DEF M!MInv
  <1>1. M!TypeOK'
    <2>1. x9' \in M!ActorType
      BY <1>i, NoneAssumption, MigrationTypes, RowEdits DEF M!RivalTakes, M!TypeOK, M!ActorType,
             M!RunType
    <2>2. x11' \subseteq M!JobType
      BY <1>i, NoneAssumption DEF M!RivalTakes, M!TypeOK, M!JobType, M!Ids
    <2>3. x3' \in M!RowType
      BY <1>i, NoneAssumption, MigrationTypes, RowEdits DEF M!RivalTakes, M!TypeOK, M!ActorType
    <2>4. x10' \subseteq [client : Nat, session : SessionIds]
      BY <1>i, NoneAssumption DEF M!RivalTakes, M!TypeOK, M!JobType, M!ActorType
    <2>5. x8' \subseteq SessionIds
      BY <1>i, NoneAssumption, RowEdits DEF M!RivalTakes, M!TypeOK, M!ActorType, M!JobType,
             M!Ids
    <2> QED
      BY <1>i, NoneAssumption, <2>1, <2>2, <2>3, <2>4, <2>5 DEF M!RivalTakes, M!TypeOK,
             M!ActorType, M!JobType, M!Ids
  <1>2. M!RowIsKnown'
    BY <1>i, NoneAssumption DEF M!RivalTakes, M!RowIsKnown, M!Named, M!Current, M!TypeOK,
           M!ActorType, M!RowType, M!RunType, M!JobType, M!Ids, M!NoRow, M!NoRun, M!NewActor
  <1>3. M!RivalIsElsewhere'
    BY <1>i, NoneAssumption DEF M!RivalTakes, M!RivalIsElsewhere, M!RowIsKnown, M!RunIsOwned,
           M!JobsAreOwned, M!TargetFits, M!ResultFits, M!Current, M!Open, M!Named, M!TypeOK,
           M!ActorType, M!RowType, M!RunType, M!JobType, M!Ids, M!NoRow, M!NoRun, M!NewActor
  <1>4. M!RunIsOwned'
    BY <1>i, NoneAssumption DEF M!RivalTakes, M!RunIsOwned, M!RowIsKnown, M!JobsAreOwned,
           M!StageFits, M!StartFits, M!Current, M!Open, M!TypeOK, M!ActorType, M!RowType,
           M!RunType, M!JobType, M!Ids, M!NoRow, M!NoRun, M!NewActor
  <1>5. M!JobsAreOwned'
    <2>1. ASSUME NEW k \in x11'
          PROVE  /\ k.attempt # 0 /\ k.attempt <= x9'.attempt /\ k.id # 0 /\ k.leased <= x12'
                 /\ k.stage = "candidate" => k.leased # 0
      BY <1>i, NoneAssumption, <2>1 DEF M!RivalTakes, M!JobsAreOwned, M!RunIsOwned, M!Open,
             M!Current, M!StageFits, M!TypeOK, M!ActorType, M!JobType, M!RunType
    <2>2. ASSUME NEW k \in x11', M!Current(k)' PROVE M!StageFits(k)'
      BY <1>i, NoneAssumption, <2>2 DEF M!RivalTakes, M!JobsAreOwned, M!RunIsOwned, M!Open,
             M!Current, M!RowIsKnown, M!StageFits, M!StartFits, M!TypeOK, M!ActorType,
             M!RowType, M!RunType, M!JobType, M!Ids, M!NoRow, M!NoRun, M!NewActor
    <2>3. ASSUME NEW k \in x11', M!Current(k)' PROVE M!TargetFits(k)'
      BY <1>i, NoneAssumption, <2>3 DEF M!RivalTakes, M!JobsAreOwned, M!RunIsOwned, M!Open,
             M!Current, M!RowIsKnown, M!StageFits, M!TargetFits, M!ResultFits, M!Named,
             M!TypeOK, M!ActorType, M!RowType, M!RunType, M!JobType, M!Ids, M!NoRow, M!NoRun,
             M!NewActor
    <2>4. ASSUME NEW k \in x11', M!Current(k)' PROVE M!ResultFits(k)'
      BY <1>i, NoneAssumption, <2>4 DEF M!RivalTakes, M!JobsAreOwned, M!RunIsOwned, M!Open,
             M!Current, M!RowIsKnown, M!StageFits, M!TargetFits, M!ResultFits, M!Named,
             M!JournalComplete, M!RivalIsElsewhere, M!TypeOK, M!ActorType, M!RowType, M!RunType,
             M!JobType, M!Ids, M!NoRow, M!NoRun, M!NewActor
    <2>5. ASSUME NEW k \in x11' PROVE IF k.stage = "start" THEN M!StartFits(k)' ELSE k.client = 0
      BY <1>i, NoneAssumption, <2>5 DEF M!RivalTakes, M!JobsAreOwned, M!RunIsOwned, M!Open,
             M!Current, M!RowIsKnown, M!StageFits, M!StartFits, M!TypeOK, M!ActorType,
             M!RowType, M!RunType, M!JobType, M!Ids, M!NoRow, M!NoRun, M!NewActor
    <2>6. ASSUME NEW k1 \in x11', NEW k2 \in x11', k1.attempt = k2.attempt PROVE k1 = k2
      BY <1>i, NoneAssumption, <2>6 DEF M!RivalTakes, M!JobsAreOwned, M!TypeOK, M!ActorType,
             M!JobType
    <2> QED
      BY <2>1, <2>2, <2>3, <2>4, <2>5, <2>6 DEF M!JobsAreOwned
  <1>6. M!ProcessIsOwned'
    <2>1. ASSUME NEW q \in x10'
          PROVE  /\ q.client # 0 /\ q.client <= x12'
                 /\ q.client = x9'.client \/ \E k \in x11' : k.stage = "start" /\ k.client = q.client
      BY <1>i, NoneAssumption, <2>1 DEF M!RivalTakes, M!ProcessIsOwned, M!JobsAreOwned,
             M!RunIsOwned, M!Open, M!Current, M!RowIsKnown, M!StartFits, M!StageFits, M!TypeOK,
             M!ActorType, M!RowType, M!RunType, M!JobType, M!Ids, M!NoRow, M!NoRun, M!NewActor
    <2>2. ASSUME NEW q \in x10' PROVE M!SessionFits(q)'
      BY <1>i, NoneAssumption, <2>2 DEF M!RivalTakes, M!ProcessIsOwned, M!JobsAreOwned,
             M!RunIsOwned, M!Open, M!Current, M!RowIsKnown, M!StartFits, M!StageFits,
             M!SessionFits, M!Locked, M!TargetFits, M!ResultFits, M!TypeOK, M!ActorType,
             M!RowType, M!RunType, M!JobType, M!Ids, M!NoRow, M!NoRun, M!NewActor
    <2>3. ASSUME NEW q1 \in x10', NEW q2 \in x10' PROVE q1 = q2
      BY <1>i, NoneAssumption, <2>3 DEF M!RivalTakes, M!ProcessIsOwned, M!JobsAreOwned,
             M!RunIsOwned, M!Open, M!Current, M!RowIsKnown, M!StartFits, M!StageFits,
             M!SessionFits, M!Locked, M!TypeOK, M!ActorType, M!RowType, M!RunType, M!JobType,
             M!Ids, M!NoRow, M!NoRun, M!NewActor
    <2>4. ASSUME NEW k \in x11', M!Stale(k)'
          PROVE  /\ k.leased # x9'.client
                 /\ \A q \in x10' : q.client # k.leased
                 /\ \A k1 \in x11' : k1.stage = "start" => k1.client # k.leased
      BY <1>i, NoneAssumption, <2>4 DEF M!RivalTakes, M!ProcessIsOwned, M!JobsAreOwned,
             M!RunIsOwned, M!Open, M!Current, M!RowIsKnown, M!StartFits, M!StageFits, M!Stale,
             M!TypeOK, M!ActorType, M!JobType, M!RunType, M!NewActor, M!NoRow
    <2> QED
      BY <2>1, <2>2, <2>3, <2>4 DEF M!ProcessIsOwned
  <1> QED
    BY <1>1, <1>2, <1>3, <1>4, <1>5, <1>6 DEF M!MInv

\* It writes only into the session it has.
LEMMA MigrationRivalWrites ==
    ASSUME M!MInv, M!RivalWrites
    PROVE  M!MInv'
  <1>i. /\ M!TypeOK /\ M!RowIsKnown /\ M!RivalIsElsewhere /\ M!RunIsOwned
        /\ M!JobsAreOwned /\ M!ProcessIsOwned
    BY DEF M!MInv
  <1>1. M!TypeOK'
    <2>1. x9' \in M!ActorType
      BY <1>i, NoneAssumption, MigrationTypes, RowEdits DEF M!RivalWrites, M!TypeOK,
             M!ActorType, M!RunType
    <2>2. x11' \subseteq M!JobType
      BY <1>i, NoneAssumption DEF M!RivalWrites, M!TypeOK, M!JobType, M!Ids
    <2>3. x3' \in M!RowType
      BY <1>i, NoneAssumption, MigrationTypes, RowEdits DEF M!RivalWrites, M!TypeOK, M!ActorType
    <2>4. x10' \subseteq [client : Nat, session : SessionIds]
      BY <1>i, NoneAssumption DEF M!RivalWrites, M!TypeOK, M!JobType, M!ActorType
    <2>5. x8' \subseteq SessionIds
      BY <1>i, NoneAssumption, RowEdits DEF M!RivalWrites, M!TypeOK, M!ActorType, M!JobType,
             M!Ids
    <2> QED
      BY <1>i, NoneAssumption, <2>1, <2>2, <2>3, <2>4, <2>5 DEF M!RivalWrites, M!TypeOK,
             M!ActorType, M!JobType, M!Ids
  <1>2. M!RowIsKnown'
    BY <1>i, NoneAssumption DEF M!RivalWrites, M!RowIsKnown, M!Named, M!Current, M!TypeOK,
           M!ActorType, M!RowType, M!RunType, M!JobType, M!Ids, M!NoRow, M!NoRun, M!NewActor
  <1>3. M!RivalIsElsewhere'
    BY <1>i, NoneAssumption DEF M!RivalWrites, M!RivalIsElsewhere, M!RowIsKnown, M!RunIsOwned,
           M!JobsAreOwned, M!TargetFits, M!ResultFits, M!Current, M!Open, M!Named, M!TypeOK,
           M!ActorType, M!RowType, M!RunType, M!JobType, M!Ids, M!NoRow, M!NoRun, M!NewActor
  <1>4. M!RunIsOwned'
    BY <1>i, NoneAssumption DEF M!RivalWrites, M!RunIsOwned, M!RowIsKnown, M!JobsAreOwned,
           M!StageFits, M!StartFits, M!Current, M!Open, M!TypeOK, M!ActorType, M!RowType,
           M!RunType, M!JobType, M!Ids, M!NoRow, M!NoRun, M!NewActor
  <1>5. M!JobsAreOwned'
    <2>1. ASSUME NEW k \in x11'
          PROVE  /\ k.attempt # 0 /\ k.attempt <= x9'.attempt /\ k.id # 0 /\ k.leased <= x12'
                 /\ k.stage = "candidate" => k.leased # 0
      BY <1>i, NoneAssumption, <2>1 DEF M!RivalWrites, M!JobsAreOwned, M!RunIsOwned, M!Open,
             M!Current, M!StageFits, M!TypeOK, M!ActorType, M!JobType, M!RunType
    <2>2. ASSUME NEW k \in x11', M!Current(k)' PROVE M!StageFits(k)'
      BY <1>i, NoneAssumption, <2>2 DEF M!RivalWrites, M!JobsAreOwned, M!RunIsOwned, M!Open,
             M!Current, M!RowIsKnown, M!StageFits, M!StartFits, M!TypeOK, M!ActorType,
             M!RowType, M!RunType, M!JobType, M!Ids, M!NoRow, M!NoRun, M!NewActor
    <2>3. ASSUME NEW k \in x11', M!Current(k)' PROVE M!TargetFits(k)'
      BY <1>i, NoneAssumption, <2>3 DEF M!RivalWrites, M!JobsAreOwned, M!RunIsOwned, M!Open,
             M!Current, M!RowIsKnown, M!StageFits, M!TargetFits, M!ResultFits, M!Named,
             M!TypeOK, M!ActorType, M!RowType, M!RunType, M!JobType, M!Ids, M!NoRow, M!NoRun,
             M!NewActor
    <2>4. ASSUME NEW k \in x11', M!Current(k)' PROVE M!ResultFits(k)'
      BY <1>i, NoneAssumption, <2>4 DEF M!RivalWrites, M!JobsAreOwned, M!RunIsOwned, M!Open,
             M!Current, M!RowIsKnown, M!StageFits, M!TargetFits, M!ResultFits, M!Named,
             M!JournalComplete, M!RivalIsElsewhere, M!TypeOK, M!ActorType, M!RowType, M!RunType,
             M!JobType, M!Ids, M!NoRow, M!NoRun, M!NewActor
    <2>5. ASSUME NEW k \in x11' PROVE IF k.stage = "start" THEN M!StartFits(k)' ELSE k.client = 0
      BY <1>i, NoneAssumption, <2>5 DEF M!RivalWrites, M!JobsAreOwned, M!RunIsOwned, M!Open,
             M!Current, M!RowIsKnown, M!StageFits, M!StartFits, M!TypeOK, M!ActorType,
             M!RowType, M!RunType, M!JobType, M!Ids, M!NoRow, M!NoRun, M!NewActor
    <2>6. ASSUME NEW k1 \in x11', NEW k2 \in x11', k1.attempt = k2.attempt PROVE k1 = k2
      BY <1>i, NoneAssumption, <2>6 DEF M!RivalWrites, M!JobsAreOwned, M!TypeOK, M!ActorType,
             M!JobType
    <2> QED
      BY <2>1, <2>2, <2>3, <2>4, <2>5, <2>6 DEF M!JobsAreOwned
  <1>6. M!ProcessIsOwned'
    <2>1. ASSUME NEW q \in x10'
          PROVE  /\ q.client # 0 /\ q.client <= x12'
                 /\ q.client = x9'.client \/ \E k \in x11' : k.stage = "start" /\ k.client = q.client
      BY <1>i, NoneAssumption, <2>1 DEF M!RivalWrites, M!ProcessIsOwned, M!JobsAreOwned,
             M!RunIsOwned, M!Open, M!Current, M!RowIsKnown, M!StartFits, M!StageFits, M!TypeOK,
             M!ActorType, M!RowType, M!RunType, M!JobType, M!Ids, M!NoRow, M!NoRun, M!NewActor
    <2>2. ASSUME NEW q \in x10' PROVE M!SessionFits(q)'
      BY <1>i, NoneAssumption, <2>2 DEF M!RivalWrites, M!ProcessIsOwned, M!JobsAreOwned,
             M!RunIsOwned, M!Open, M!Current, M!RowIsKnown, M!StartFits, M!StageFits,
             M!SessionFits, M!Locked, M!TargetFits, M!ResultFits, M!TypeOK, M!ActorType,
             M!RowType, M!RunType, M!JobType, M!Ids, M!NoRow, M!NoRun, M!NewActor
    <2>3. ASSUME NEW q1 \in x10', NEW q2 \in x10' PROVE q1 = q2
      BY <1>i, NoneAssumption, <2>3 DEF M!RivalWrites, M!ProcessIsOwned, M!JobsAreOwned,
             M!RunIsOwned, M!Open, M!Current, M!RowIsKnown, M!StartFits, M!StageFits,
             M!SessionFits, M!Locked, M!TypeOK, M!ActorType, M!RowType, M!RunType, M!JobType,
             M!Ids, M!NoRow, M!NoRun, M!NewActor
    <2>4. ASSUME NEW k \in x11', M!Stale(k)'
          PROVE  /\ k.leased # x9'.client
                 /\ \A q \in x10' : q.client # k.leased
                 /\ \A k1 \in x11' : k1.stage = "start" => k1.client # k.leased
      BY <1>i, NoneAssumption, <2>4 DEF M!RivalWrites, M!ProcessIsOwned, M!JobsAreOwned,
             M!RunIsOwned, M!Open, M!Current, M!RowIsKnown, M!StartFits, M!StageFits, M!Stale,
             M!TypeOK, M!ActorType, M!JobType, M!RunType, M!NewActor, M!NoRow
    <2> QED
      BY <2>1, <2>2, <2>3, <2>4 DEF M!ProcessIsOwned
  <1> QED
    BY <1>1, <1>2, <1>3, <1>4, <1>5, <1>6 DEF M!MInv

\* It leaves the session.
LEMMA MigrationRivalLeaves ==
    ASSUME M!MInv, M!RivalLeaves
    PROVE  M!MInv'
  <1>i. /\ M!TypeOK /\ M!RowIsKnown /\ M!RivalIsElsewhere /\ M!RunIsOwned
        /\ M!JobsAreOwned /\ M!ProcessIsOwned
    BY DEF M!MInv
  <1>1. M!TypeOK'
    <2>1. x9' \in M!ActorType
      BY <1>i, NoneAssumption, MigrationTypes, RowEdits DEF M!RivalLeaves, M!TypeOK,
             M!ActorType, M!RunType
    <2>2. x11' \subseteq M!JobType
      BY <1>i, NoneAssumption DEF M!RivalLeaves, M!TypeOK, M!JobType, M!Ids
    <2>3. x3' \in M!RowType
      BY <1>i, NoneAssumption, MigrationTypes, RowEdits DEF M!RivalLeaves, M!TypeOK, M!ActorType
    <2>4. x10' \subseteq [client : Nat, session : SessionIds]
      BY <1>i, NoneAssumption DEF M!RivalLeaves, M!TypeOK, M!JobType, M!ActorType
    <2>5. x8' \subseteq SessionIds
      BY <1>i, NoneAssumption, RowEdits DEF M!RivalLeaves, M!TypeOK, M!ActorType, M!JobType,
             M!Ids
    <2> QED
      BY <1>i, NoneAssumption, <2>1, <2>2, <2>3, <2>4, <2>5 DEF M!RivalLeaves, M!TypeOK,
             M!ActorType, M!JobType, M!Ids
  <1>2. M!RowIsKnown'
    BY <1>i, NoneAssumption DEF M!RivalLeaves, M!RowIsKnown, M!Named, M!Current, M!TypeOK,
           M!ActorType, M!RowType, M!RunType, M!JobType, M!Ids, M!NoRow, M!NoRun, M!NewActor
  <1>3. M!RivalIsElsewhere'
    BY <1>i, NoneAssumption DEF M!RivalLeaves, M!RivalIsElsewhere, M!RowIsKnown, M!RunIsOwned,
           M!JobsAreOwned, M!TargetFits, M!ResultFits, M!Current, M!Open, M!Named, M!TypeOK,
           M!ActorType, M!RowType, M!RunType, M!JobType, M!Ids, M!NoRow, M!NoRun, M!NewActor
  <1>4. M!RunIsOwned'
    BY <1>i, NoneAssumption DEF M!RivalLeaves, M!RunIsOwned, M!RowIsKnown, M!JobsAreOwned,
           M!StageFits, M!StartFits, M!Current, M!Open, M!TypeOK, M!ActorType, M!RowType,
           M!RunType, M!JobType, M!Ids, M!NoRow, M!NoRun, M!NewActor
  <1>5. M!JobsAreOwned'
    <2>1. ASSUME NEW k \in x11'
          PROVE  /\ k.attempt # 0 /\ k.attempt <= x9'.attempt /\ k.id # 0 /\ k.leased <= x12'
                 /\ k.stage = "candidate" => k.leased # 0
      BY <1>i, NoneAssumption, <2>1 DEF M!RivalLeaves, M!JobsAreOwned, M!RunIsOwned, M!Open,
             M!Current, M!StageFits, M!TypeOK, M!ActorType, M!JobType, M!RunType
    <2>2. ASSUME NEW k \in x11', M!Current(k)' PROVE M!StageFits(k)'
      BY <1>i, NoneAssumption, <2>2 DEF M!RivalLeaves, M!JobsAreOwned, M!RunIsOwned, M!Open,
             M!Current, M!RowIsKnown, M!StageFits, M!StartFits, M!TypeOK, M!ActorType,
             M!RowType, M!RunType, M!JobType, M!Ids, M!NoRow, M!NoRun, M!NewActor
    <2>3. ASSUME NEW k \in x11', M!Current(k)' PROVE M!TargetFits(k)'
      BY <1>i, NoneAssumption, <2>3 DEF M!RivalLeaves, M!JobsAreOwned, M!RunIsOwned, M!Open,
             M!Current, M!RowIsKnown, M!StageFits, M!TargetFits, M!ResultFits, M!Named,
             M!TypeOK, M!ActorType, M!RowType, M!RunType, M!JobType, M!Ids, M!NoRow, M!NoRun,
             M!NewActor
    <2>4. ASSUME NEW k \in x11', M!Current(k)' PROVE M!ResultFits(k)'
      BY <1>i, NoneAssumption, <2>4 DEF M!RivalLeaves, M!JobsAreOwned, M!RunIsOwned, M!Open,
             M!Current, M!RowIsKnown, M!StageFits, M!TargetFits, M!ResultFits, M!Named,
             M!JournalComplete, M!RivalIsElsewhere, M!TypeOK, M!ActorType, M!RowType, M!RunType,
             M!JobType, M!Ids, M!NoRow, M!NoRun, M!NewActor
    <2>5. ASSUME NEW k \in x11' PROVE IF k.stage = "start" THEN M!StartFits(k)' ELSE k.client = 0
      BY <1>i, NoneAssumption, <2>5 DEF M!RivalLeaves, M!JobsAreOwned, M!RunIsOwned, M!Open,
             M!Current, M!RowIsKnown, M!StageFits, M!StartFits, M!TypeOK, M!ActorType,
             M!RowType, M!RunType, M!JobType, M!Ids, M!NoRow, M!NoRun, M!NewActor
    <2>6. ASSUME NEW k1 \in x11', NEW k2 \in x11', k1.attempt = k2.attempt PROVE k1 = k2
      BY <1>i, NoneAssumption, <2>6 DEF M!RivalLeaves, M!JobsAreOwned, M!TypeOK, M!ActorType,
             M!JobType
    <2> QED
      BY <2>1, <2>2, <2>3, <2>4, <2>5, <2>6 DEF M!JobsAreOwned
  <1>6. M!ProcessIsOwned'
    <2>1. ASSUME NEW q \in x10'
          PROVE  /\ q.client # 0 /\ q.client <= x12'
                 /\ q.client = x9'.client \/ \E k \in x11' : k.stage = "start" /\ k.client = q.client
      BY <1>i, NoneAssumption, <2>1 DEF M!RivalLeaves, M!ProcessIsOwned, M!JobsAreOwned,
             M!RunIsOwned, M!Open, M!Current, M!RowIsKnown, M!StartFits, M!StageFits, M!TypeOK,
             M!ActorType, M!RowType, M!RunType, M!JobType, M!Ids, M!NoRow, M!NoRun, M!NewActor
    <2>2. ASSUME NEW q \in x10' PROVE M!SessionFits(q)'
      BY <1>i, NoneAssumption, <2>2 DEF M!RivalLeaves, M!ProcessIsOwned, M!JobsAreOwned,
             M!RunIsOwned, M!Open, M!Current, M!RowIsKnown, M!StartFits, M!StageFits,
             M!SessionFits, M!Locked, M!TargetFits, M!ResultFits, M!TypeOK, M!ActorType,
             M!RowType, M!RunType, M!JobType, M!Ids, M!NoRow, M!NoRun, M!NewActor
    <2>3. ASSUME NEW q1 \in x10', NEW q2 \in x10' PROVE q1 = q2
      BY <1>i, NoneAssumption, <2>3 DEF M!RivalLeaves, M!ProcessIsOwned, M!JobsAreOwned,
             M!RunIsOwned, M!Open, M!Current, M!RowIsKnown, M!StartFits, M!StageFits,
             M!SessionFits, M!Locked, M!TypeOK, M!ActorType, M!RowType, M!RunType, M!JobType,
             M!Ids, M!NoRow, M!NoRun, M!NewActor
    <2>4. ASSUME NEW k \in x11', M!Stale(k)'
          PROVE  /\ k.leased # x9'.client
                 /\ \A q \in x10' : q.client # k.leased
                 /\ \A k1 \in x11' : k1.stage = "start" => k1.client # k.leased
      BY <1>i, NoneAssumption, <2>4 DEF M!RivalLeaves, M!ProcessIsOwned, M!JobsAreOwned,
             M!RunIsOwned, M!Open, M!Current, M!RowIsKnown, M!StartFits, M!StageFits, M!Stale,
             M!TypeOK, M!ActorType, M!JobType, M!RunType, M!NewActor, M!NoRow
    <2> QED
      BY <2>1, <2>2, <2>3, <2>4 DEF M!ProcessIsOwned
  <1> QED
    BY <1>1, <1>2, <1>3, <1>4, <1>5, <1>6 DEF M!MInv

\* After a crash only what is stored remains.
LEMMA MigrationCrash ==
    ASSUME M!MInv, M!Crash
    PROVE  M!MInv'
  <1>i. /\ M!TypeOK /\ M!RowIsKnown /\ M!RivalIsElsewhere /\ M!RunIsOwned
        /\ M!JobsAreOwned /\ M!ProcessIsOwned
    BY DEF M!MInv
  <1>1. M!TypeOK'
    <2>1. x9' \in M!ActorType
      BY <1>i, NoneAssumption, MigrationTypes, RowEdits DEF M!Crash, M!NewActor, M!TypeOK,
             M!ActorType, M!RunType
    <2>2. x11' \subseteq M!JobType
      BY <1>i, NoneAssumption DEF M!Crash, M!NewActor, M!TypeOK, M!JobType, M!Ids
    <2>3. x3' \in M!RowType
      BY <1>i, NoneAssumption, MigrationTypes, RowEdits DEF M!Crash, M!NewActor, M!TypeOK,
             M!ActorType
    <2>4. x10' \subseteq [client : Nat, session : SessionIds]
      BY <1>i, NoneAssumption DEF M!Crash, M!NewActor, M!TypeOK, M!JobType, M!ActorType
    <2>5. x8' \subseteq SessionIds
      BY <1>i, NoneAssumption, RowEdits DEF M!Crash, M!NewActor, M!TypeOK, M!ActorType,
             M!JobType, M!Ids
    <2> QED
      <3>1. /\ x2 \in Nat /\ x2' = x2 + 1 /\ x12' = 0 /\ x1' \in BOOLEAN /\ x7' = None
        BY <1>i DEF M!Crash, M!TypeOK
      <3>3. x2' \in Nat /\ x12' \in Nat
        BY <3>1
      <3>4. x7' \in M!Ids
        BY <3>1 DEF M!Ids
      <3>2. UNCHANGED <<x3, x4, x5, x6>>
        BY DEF M!Crash
      <3> QED
        BY <1>i, <2>1, <2>2, <2>3, <2>4, <2>5, <3>2, <3>1, <3>3, <3>4 DEF M!TypeOK
  <1>2. M!RowIsKnown'
    BY <1>i, NoneAssumption DEF M!Crash, M!NewActor, M!RowIsKnown, M!Named, M!Current, M!TypeOK,
           M!ActorType, M!RowType, M!RunType, M!JobType, M!Ids, M!NoRow, M!NoRun
  <1>3. M!RivalIsElsewhere'
    BY <1>i, NoneAssumption DEF M!Crash, M!NewActor, M!RivalIsElsewhere, M!RowIsKnown,
           M!RunIsOwned, M!JobsAreOwned, M!TargetFits, M!ResultFits, M!Current, M!Open, M!Named,
           M!TypeOK, M!ActorType, M!RowType, M!RunType, M!JobType, M!Ids, M!NoRow, M!NoRun
  <1>4. M!RunIsOwned'
    BY <1>i, NoneAssumption DEF M!Crash, M!NewActor, M!RunIsOwned, M!RowIsKnown, M!JobsAreOwned,
           M!StageFits, M!StartFits, M!Current, M!Open, M!TypeOK, M!ActorType, M!RowType,
           M!RunType, M!JobType, M!Ids, M!NoRow, M!NoRun
  <1>5. M!JobsAreOwned'
    <2>1. ASSUME NEW k \in x11'
          PROVE  /\ k.attempt # 0 /\ k.attempt <= x9'.attempt /\ k.id # 0 /\ k.leased <= x12'
                 /\ k.stage = "candidate" => k.leased # 0
      BY <1>i, NoneAssumption, <2>1 DEF M!Crash, M!NewActor, M!JobsAreOwned, M!RunIsOwned,
             M!Open, M!Current, M!StageFits, M!TypeOK, M!ActorType, M!JobType, M!RunType
    <2>2. ASSUME NEW k \in x11', M!Current(k)' PROVE M!StageFits(k)'
      BY <1>i, NoneAssumption, <2>2 DEF M!Crash, M!NewActor, M!JobsAreOwned, M!RunIsOwned,
             M!Open, M!Current, M!RowIsKnown, M!StageFits, M!StartFits, M!TypeOK, M!ActorType,
             M!RowType, M!RunType, M!JobType, M!Ids, M!NoRow, M!NoRun
    <2>3. ASSUME NEW k \in x11', M!Current(k)' PROVE M!TargetFits(k)'
      BY <1>i, NoneAssumption, <2>3 DEF M!Crash, M!NewActor, M!JobsAreOwned, M!RunIsOwned,
             M!Open, M!Current, M!RowIsKnown, M!StageFits, M!TargetFits, M!ResultFits, M!Named,
             M!TypeOK, M!ActorType, M!RowType, M!RunType, M!JobType, M!Ids, M!NoRow, M!NoRun
    <2>4. ASSUME NEW k \in x11', M!Current(k)' PROVE M!ResultFits(k)'
      BY <1>i, NoneAssumption, <2>4 DEF M!Crash, M!NewActor, M!JobsAreOwned, M!RunIsOwned,
             M!Open, M!Current, M!RowIsKnown, M!StageFits, M!TargetFits, M!ResultFits, M!Named,
             M!JournalComplete, M!RivalIsElsewhere, M!TypeOK, M!ActorType, M!RowType, M!RunType,
             M!JobType, M!Ids, M!NoRow, M!NoRun
    <2>5. ASSUME NEW k \in x11' PROVE IF k.stage = "start" THEN M!StartFits(k)' ELSE k.client = 0
      BY <1>i, NoneAssumption, <2>5 DEF M!Crash, M!NewActor, M!JobsAreOwned, M!RunIsOwned,
             M!Open, M!Current, M!RowIsKnown, M!StageFits, M!StartFits, M!TypeOK, M!ActorType,
             M!RowType, M!RunType, M!JobType, M!Ids, M!NoRow, M!NoRun
    <2>6. ASSUME NEW k1 \in x11', NEW k2 \in x11', k1.attempt = k2.attempt PROVE k1 = k2
      BY <1>i, NoneAssumption, <2>6 DEF M!Crash, M!NewActor, M!JobsAreOwned, M!TypeOK,
             M!ActorType, M!JobType
    <2> QED
      BY <2>1, <2>2, <2>3, <2>4, <2>5, <2>6 DEF M!JobsAreOwned
  <1>6. M!ProcessIsOwned'
    <2>1. ASSUME NEW q \in x10'
          PROVE  /\ q.client # 0 /\ q.client <= x12'
                 /\ q.client = x9'.client \/ \E k \in x11' : k.stage = "start" /\ k.client = q.client
      BY <1>i, NoneAssumption, <2>1 DEF M!Crash, M!NewActor, M!ProcessIsOwned, M!JobsAreOwned,
             M!RunIsOwned, M!Open, M!Current, M!RowIsKnown, M!StartFits, M!StageFits, M!TypeOK,
             M!ActorType, M!RowType, M!RunType, M!JobType, M!Ids, M!NoRow, M!NoRun
    <2>2. ASSUME NEW q \in x10' PROVE M!SessionFits(q)'
      BY <1>i, NoneAssumption, <2>2 DEF M!Crash, M!NewActor, M!ProcessIsOwned, M!JobsAreOwned,
             M!RunIsOwned, M!Open, M!Current, M!RowIsKnown, M!StartFits, M!StageFits,
             M!SessionFits, M!Locked, M!TargetFits, M!ResultFits, M!TypeOK, M!ActorType,
             M!RowType, M!RunType, M!JobType, M!Ids, M!NoRow, M!NoRun
    <2>3. ASSUME NEW q1 \in x10', NEW q2 \in x10' PROVE q1 = q2
      BY <1>i, NoneAssumption, <2>3 DEF M!Crash, M!NewActor, M!ProcessIsOwned, M!JobsAreOwned,
             M!RunIsOwned, M!Open, M!Current, M!RowIsKnown, M!StartFits, M!StageFits,
             M!SessionFits, M!Locked, M!TypeOK, M!ActorType, M!RowType, M!RunType, M!JobType,
             M!Ids, M!NoRow, M!NoRun
    <2>4. ASSUME NEW k \in x11', M!Stale(k)'
          PROVE  /\ k.leased # x9'.client
                 /\ \A q \in x10' : q.client # k.leased
                 /\ \A k1 \in x11' : k1.stage = "start" => k1.client # k.leased
      BY <1>i, NoneAssumption, <2>4 DEF M!Crash, M!NewActor, M!ProcessIsOwned, M!JobsAreOwned,
             M!RunIsOwned, M!Open, M!Current, M!RowIsKnown, M!StartFits, M!StageFits, M!Stale,
             M!TypeOK, M!ActorType, M!JobType, M!RunType, M!NoRow
    <2> QED
      BY <2>1, <2>2, <2>3, <2>4 DEF M!ProcessIsOwned
  <1> QED
    BY <1>1, <1>2, <1>3, <1>4, <1>5, <1>6 DEF M!MInv

\* A restart reserves what the record names.
LEMMA MigrationRestart ==
    ASSUME M!MInv, M!Restart
    PROVE  M!MInv'
  <1>i. /\ M!TypeOK /\ M!RowIsKnown /\ M!RivalIsElsewhere /\ M!RunIsOwned
        /\ M!JobsAreOwned /\ M!ProcessIsOwned
    BY DEF M!MInv
  <1>1. M!TypeOK'
    <2>1. x9' \in M!ActorType
      BY <1>i, NoneAssumption, MigrationTypes, RowEdits DEF M!Restart, M!NewActor, M!TypeOK,
             M!ActorType, M!RunType
    <2>2. x11' \subseteq M!JobType
      BY <1>i, NoneAssumption DEF M!Restart, M!NewActor, M!TypeOK, M!JobType, M!Ids
    <2>3. x3' \in M!RowType
      BY <1>i, NoneAssumption, MigrationTypes, RowEdits DEF M!Restart, M!NewActor, M!TypeOK,
             M!ActorType
    <2>4. x10' \subseteq [client : Nat, session : SessionIds]
      BY <1>i, NoneAssumption DEF M!Restart, M!NewActor, M!TypeOK, M!JobType, M!ActorType
    <2>5. x8' \subseteq SessionIds
      BY <1>i, NoneAssumption, RowEdits DEF M!Restart, M!NewActor, M!TypeOK, M!ActorType,
             M!JobType, M!Ids
    <2> QED
      BY <1>i, NoneAssumption, <2>1, <2>2, <2>3, <2>4, <2>5 DEF M!Restart, M!NewActor, M!TypeOK,
             M!ActorType, M!JobType, M!Ids
  <1>2. M!RowIsKnown'
    BY <1>i, NoneAssumption DEF M!Restart, M!NewActor, M!RowIsKnown, M!Named, M!Current,
           M!TypeOK, M!ActorType, M!RowType, M!RunType, M!JobType, M!Ids, M!NoRow, M!NoRun
  <1>3. M!RivalIsElsewhere'
    BY <1>i, NoneAssumption DEF M!Restart, M!NewActor, M!RivalIsElsewhere, M!RowIsKnown,
           M!RunIsOwned, M!JobsAreOwned, M!TargetFits, M!ResultFits, M!Current, M!Open, M!Named,
           M!TypeOK, M!ActorType, M!RowType, M!RunType, M!JobType, M!Ids, M!NoRow, M!NoRun
  <1>4. M!RunIsOwned'
    BY <1>i, NoneAssumption DEF M!Restart, M!NewActor, M!RunIsOwned, M!RowIsKnown,
           M!JobsAreOwned, M!StageFits, M!StartFits, M!Current, M!Open, M!TypeOK, M!ActorType,
           M!RowType, M!RunType, M!JobType, M!Ids, M!NoRow, M!NoRun
  <1>5. M!JobsAreOwned'
    <2>1. ASSUME NEW k \in x11'
          PROVE  /\ k.attempt # 0 /\ k.attempt <= x9'.attempt /\ k.id # 0 /\ k.leased <= x12'
                 /\ k.stage = "candidate" => k.leased # 0
      BY <1>i, NoneAssumption, <2>1 DEF M!Restart, M!NewActor, M!JobsAreOwned, M!RunIsOwned,
             M!Open, M!Current, M!StageFits, M!TypeOK, M!ActorType, M!JobType, M!RunType, M!RowIsKnown
    <2>2. ASSUME NEW k \in x11', M!Current(k)' PROVE M!StageFits(k)'
      BY <1>i, NoneAssumption, <2>2 DEF M!Restart, M!NewActor, M!JobsAreOwned, M!RunIsOwned,
             M!Open, M!Current, M!RowIsKnown, M!StageFits, M!StartFits, M!TypeOK, M!ActorType,
             M!RowType, M!RunType, M!JobType, M!Ids, M!NoRow, M!NoRun
    <2>3. ASSUME NEW k \in x11', M!Current(k)' PROVE M!TargetFits(k)'
      BY <1>i, NoneAssumption, <2>3 DEF M!Restart, M!NewActor, M!JobsAreOwned, M!RunIsOwned,
             M!Open, M!Current, M!RowIsKnown, M!StageFits, M!TargetFits, M!ResultFits, M!Named,
             M!TypeOK, M!ActorType, M!RowType, M!RunType, M!JobType, M!Ids, M!NoRow, M!NoRun
    <2>4. ASSUME NEW k \in x11', M!Current(k)' PROVE M!ResultFits(k)'
      BY <1>i, NoneAssumption, <2>4 DEF M!Restart, M!NewActor, M!JobsAreOwned, M!RunIsOwned,
             M!Open, M!Current, M!RowIsKnown, M!StageFits, M!TargetFits, M!ResultFits, M!Named,
             M!JournalComplete, M!RivalIsElsewhere, M!TypeOK, M!ActorType, M!RowType, M!RunType,
             M!JobType, M!Ids, M!NoRow, M!NoRun
    <2>5. ASSUME NEW k \in x11' PROVE IF k.stage = "start" THEN M!StartFits(k)' ELSE k.client = 0
      BY <1>i, NoneAssumption, <2>5 DEF M!Restart, M!NewActor, M!JobsAreOwned, M!RunIsOwned,
             M!Open, M!Current, M!RowIsKnown, M!StageFits, M!StartFits, M!TypeOK, M!ActorType,
             M!RowType, M!RunType, M!JobType, M!Ids, M!NoRow, M!NoRun
    <2>6. ASSUME NEW k1 \in x11', NEW k2 \in x11', k1.attempt = k2.attempt PROVE k1 = k2
      BY <1>i, NoneAssumption, <2>6 DEF M!Restart, M!NewActor, M!JobsAreOwned, M!TypeOK,
             M!ActorType, M!JobType
    <2> QED
      BY <2>1, <2>2, <2>3, <2>4, <2>5, <2>6 DEF M!JobsAreOwned
  <1>6. M!ProcessIsOwned'
    <2>1. ASSUME NEW q \in x10'
          PROVE  /\ q.client # 0 /\ q.client <= x12'
                 /\ q.client = x9'.client \/ \E k \in x11' : k.stage = "start" /\ k.client = q.client
      BY <1>i, NoneAssumption, <2>1 DEF M!Restart, M!NewActor, M!ProcessIsOwned, M!JobsAreOwned,
             M!RunIsOwned, M!Open, M!Current, M!RowIsKnown, M!StartFits, M!StageFits, M!TypeOK,
             M!ActorType, M!RowType, M!RunType, M!JobType, M!Ids, M!NoRow, M!NoRun
    <2>2. ASSUME NEW q \in x10' PROVE M!SessionFits(q)'
      BY <1>i, NoneAssumption, <2>2 DEF M!Restart, M!NewActor, M!ProcessIsOwned, M!JobsAreOwned,
             M!RunIsOwned, M!Open, M!Current, M!RowIsKnown, M!StartFits, M!StageFits,
             M!SessionFits, M!Locked, M!TargetFits, M!ResultFits, M!TypeOK, M!ActorType,
             M!RowType, M!RunType, M!JobType, M!Ids, M!NoRow, M!NoRun
    <2>3. ASSUME NEW q1 \in x10', NEW q2 \in x10' PROVE q1 = q2
      BY <1>i, NoneAssumption, <2>3 DEF M!Restart, M!NewActor, M!ProcessIsOwned, M!JobsAreOwned,
             M!RunIsOwned, M!Open, M!Current, M!RowIsKnown, M!StartFits, M!StageFits,
             M!SessionFits, M!Locked, M!TypeOK, M!ActorType, M!RowType, M!RunType, M!JobType,
             M!Ids, M!NoRow, M!NoRun
    <2>4. ASSUME NEW k \in x11', M!Stale(k)'
          PROVE  /\ k.leased # x9'.client
                 /\ \A q \in x10' : q.client # k.leased
                 /\ \A k1 \in x11' : k1.stage = "start" => k1.client # k.leased
      BY <1>i, NoneAssumption, <2>4 DEF M!Restart, M!NewActor, M!ProcessIsOwned, M!JobsAreOwned,
             M!RunIsOwned, M!Open, M!Current, M!RowIsKnown, M!StartFits, M!StageFits, M!Stale,
             M!TypeOK, M!ActorType, M!JobType, M!RunType, M!NoRow
    <2> QED
      BY <2>1, <2>2, <2>3, <2>4 DEF M!ProcessIsOwned
  <1> QED
    BY <1>1, <1>2, <1>3, <1>4, <1>5, <1>6 DEF M!MInv

\* At the start there is no migration, no process and no job.
LEMMA MigrationInit == M!Init => M!MInv
  <1> SUFFICES ASSUME M!Init PROVE M!MInv
    OBVIOUS
  <1>u. /\ x1 = TRUE /\ x2 = 0 /\ x3 = M!NoRow /\ x7 = None /\ x8 = {} /\ x10 = {} /\ x11 = {} /\ x12 = 0
        /\ x9 = M!NewActor(M!NoRow) /\ x4 = [session |-> Source, generation |-> 1]
        /\ x5 = [i \in Triple |-> "pending"]
        /\ x6 = [s \in SessionIds |-> IF s = Source THEN [of |-> 0, state |-> "conversation"] ELSE M!Blank]
    BY DEF M!Init
  <1>1. M!TypeOK
    <2>1. M!Blank \in [of : Nat, state : {"none", "conversation", "seeded", "complete"}]
      BY DEF M!Blank
    <2>2. x6 \in [SessionIds -> [of : Nat, state : {"none", "conversation", "seeded", "complete"}]]
      BY <1>u, <2>1
    <2>3. x4 \in [session : SessionIds, generation : Nat]
      BY <1>u, PartsAssumption
    <2>4. x5 \in [Triple -> {"pending", "submitted", "done", "failed", "uncertain"}]
      BY <1>u
    <2> QED
      BY <1>u, <2>2, <2>3, <2>4, MigrationTypes DEF M!TypeOK, M!Ids
  <1>2. M!RowIsKnown
    <2>1. M!Named(M!NoRow) = {}
      BY DEF M!Named, M!NoRow
    <2>2. /\ M!NewActor(M!NoRow).mig = M!NoRow
          /\ M!NoRow = [M!NoRow EXCEPT !.candidate = M!NoRow.candidate]
      BY DEF M!NewActor, M!NoRow
    <2> QED
      BY <1>u, <2>1, <2>2 DEF M!RowIsKnown
  <1>3. M!RivalIsElsewhere
    BY <1>u DEF M!RivalIsElsewhere, M!Named
  <1>4. M!RunIsOwned
    BY <1>u DEF M!RunIsOwned, M!NewActor, M!Open
  <1>5. M!JobsAreOwned /\ M!ProcessIsOwned
    BY <1>u DEF M!JobsAreOwned, M!ProcessIsOwned
  <1> QED
    BY <1>1, <1>2, <1>3, <1>4, <1>5 DEF M!MInv

\* Every step of a migration keeps its invariant.
LEMMA MigrationNext == M!MInv /\ M!Next => M!MInv'
  <1> SUFFICES ASSUME M!MInv, M!Next PROVE M!MInv'
    OBVIOUS
  <1>1. CASE \E i \in Triple : M!Begin(i) \/ M!Answer(i) \/ \E s \in SessionIds : M!Recover(i, s)
    BY <1>1, MigrationBegin, MigrationAnswer, MigrationRecover
  <1>2. CASE M!Stop
    BY <1>2, MigrationStop
  <1>3. ASSUME NEW j \in x11,
               \/ M!PrepareJobEnds(j) \/ M!HandoffJobEnds(j) \/ M!OmpSwitches(j) \/ M!CandidateJobEnds(j)
               \/ M!VerifyJobEnds(j) \/ M!ResolveJobEnds(j) \/ M!StartJobStarts(j) \/ M!StartJobEnds(j)
        PROVE  M!MInv'
    BY <1>3, MigrationPrepareJobEnds, MigrationHandoffJobEnds, MigrationOmpSwitches, MigrationCandidateJobEnds,
       MigrationVerifyJobEnds, MigrationResolveJobEnds, MigrationStartJobStarts, MigrationStartJobEnds
  <1>4. CASE \E p \in x10 : M!OmpCompletes(p)
    BY <1>4, MigrationOmpCompletes
  <1>5. ASSUME NEW r \in x11,
               \/ M!TakeLate(r) \/ M!TakeError(r) \/ M!TakePrepared(r) \/ M!TakeHandoff(r) \/ M!TakeCandidate(r)
               \/ M!TakeResolved(r) \/ M!RecoveryRefused(r) \/ M!TakeStarted(r) \/ M!TakeVerified(r)
        PROVE  M!MInv'
    BY <1>5, MigrationTakeLate, MigrationTakeError, MigrationTakePrepared, MigrationTakeHandoff,
       MigrationTakeCandidate, MigrationTakeResolved, MigrationRecoveryRefused, MigrationTakeStarted,
       MigrationTakeVerified
  <1>6. CASE \/ \E s \in SessionIds : M!RivalTakes(s)
             \/ M!RivalWrites \/ M!RivalLeaves \/ M!Crash \/ M!Restart
    BY <1>6, MigrationRivalTakes, MigrationRivalWrites, MigrationRivalLeaves, MigrationCrash, MigrationRestart
  <1> QED
    BY <1>1, <1>2, <1>3, <1>4, <1>5, <1>6 DEF M!Next

\* A step of another part leaves the migration alone.
LEMMA MigrationStutters ==
    ASSUME M!MInv, UNCHANGED <<x1, x2, x3, x4, x5, x6, x7, x8, x9, x10, x11, x12>>
    PROVE  M!MInv'
  <1>1. M!TypeOK' /\ M!RowIsKnown' /\ M!RivalIsElsewhere' /\ M!RunIsOwned'
    BY DEF M!MInv, M!TypeOK, M!RowIsKnown, M!RivalIsElsewhere, M!RunIsOwned, M!Open
  <1>2. M!JobsAreOwned'
    BY DEF M!MInv, M!JobsAreOwned, M!Current, M!Open, M!StageFits, M!TargetFits, M!ResultFits, M!StartFits,
           M!JournalComplete
  <1>3. M!ProcessIsOwned'
    BY DEF M!MInv, M!ProcessIsOwned, M!SessionFits, M!Stale, M!Current, M!Open, M!Locked
  <1> QED
    BY <1>1, <1>2, <1>3 DEF M!MInv

\* The invariant has what is claimed of reservations and processes.
LEMMA MigrationConsequence == M!MInv => M!BothReserved /\ M!OneProcess
  <1> SUFFICES ASSUME M!MInv PROVE M!BothReserved /\ M!OneProcess
    OBVIOUS
  <1>1. M!BothReserved
    BY DEF M!MInv, M!RowIsKnown, M!RivalIsElsewhere, M!BothReserved
  <1>2. \A p, q \in x10 : p = q
    BY DEF M!MInv, M!ProcessIsOwned
  <1>3. ASSUME x10 = {} PROVE M!OneProcess
    <2>1. Cardinality(x10) = 0
      BY <1>3, FS_EmptySet
    <2>2. M!Cardinality(x10) = 0
      BY <2>1, SameCardinality
    <2> QED
      BY <2>2 DEF M!OneProcess
  <1>4. ASSUME NEW p \in x10 PROVE M!OneProcess
    <2>1. x10 = {p}
      BY <1>2
    <2>2. Cardinality(x10) = 1
      BY <2>1, FS_Singleton
    <2>3. M!Cardinality(x10) = 1
      BY <2>2, SameCardinality
    <2> QED
      BY <2>3 DEF M!OneProcess
  <1> QED
    BY <1>1, <1>3, <1>4

\* A step that moves the binding takes the result of a verification: what it says of the
\* journal and of the user's choice is still true.
LEMMA MigrationPublishes == M!MInv /\ M!Next => M!Publishes
  <1> SUFFICES ASSUME M!MInv, M!Next, x4' # x4 PROVE M!Publishes
    BY DEF M!Publishes
  <1>1. PICK r \in x11 : M!TakeVerified(r)
    <2>1. ASSUME M!CancelMigration({}) PROVE FALSE
      BY <2>1 DEF M!CancelMigration
    <2>2. ASSUME NEW i \in Triple, M!Begin(i) \/ M!Answer(i) \/ \E s \in SessionIds : M!Recover(i, s) PROVE FALSE
      BY <2>2 DEF M!Begin, M!Answer, M!Recover, M!RecoverTo
    <2>3. ASSUME M!Stop PROVE FALSE
      BY <2>1, <2>3 DEF M!Stop
    <2>4. ASSUME NEW j \in x11,
                 \/ M!PrepareJobEnds(j) \/ M!HandoffJobEnds(j) \/ M!OmpSwitches(j) \/ M!CandidateJobEnds(j)
                 \/ M!VerifyJobEnds(j) \/ M!ResolveJobEnds(j) \/ M!StartJobStarts(j) \/ M!StartJobEnds(j)
          PROVE  FALSE
      BY <2>4 DEF M!PrepareJobEnds, M!HandoffJobEnds, M!OmpSwitches, M!CandidateJobEnds, M!VerifyJobEnds,
             M!ResolveJobEnds, M!StartJobStarts, M!StartJobEnds, M!SourceJobEnds
    <2>5. ASSUME NEW p \in x10, M!OmpCompletes(p) PROVE FALSE
      BY <2>5 DEF M!OmpCompletes
    <2>6. ASSUME NEW r \in x11,
                 \/ M!TakeLate(r) \/ M!TakeError(r) \/ M!TakePrepared(r) \/ M!TakeHandoff(r)
                 \/ M!TakeCandidate(r) \/ M!TakeResolved(r) \/ M!RecoveryRefused(r) \/ M!TakeStarted(r)
          PROVE  FALSE
      BY <2>1, <2>6 DEF M!TakeLate, M!TakeError, M!TakePrepared, M!TakeHandoff, M!TakeCandidate, M!TakeResolved,
             M!RecoveryRefused, M!TakeStarted
    <2>7. ASSUME \/ \E s \in SessionIds : M!RivalTakes(s)
                 \/ M!RivalWrites \/ M!RivalLeaves \/ M!Crash \/ M!Restart
          PROVE  FALSE
      BY <2>7 DEF M!RivalTakes, M!RivalWrites, M!RivalLeaves, M!Crash, M!Restart
    <2> QED
      BY <2>2, <2>3, <2>4, <2>5, <2>6, <2>7 DEF M!Next
  <1>u. /\ x1 /\ r.ended /\ r.ok /\ r.stage = "verify" /\ M!Current(r) /\ M!Open
        /\ x3 = x9.mig
        /\ IF x9.run.recovery THEN r.session \in M!Named(x3) ELSE r.session = x3.candidate
        /\ x4' = [session |-> r.session, generation |-> x4.generation + 1]
        /\ x3' = M!NoRow
    BY <1>1 DEF M!TakeVerified, M!Takes, M!Result, M!Late, M!Unconfirmed, M!Cancelled, M!Current, M!Open,
           M!Publishable
  <1>2. /\ M!StageFits(r) /\ M!TargetFits(r) /\ M!ResultFits(r)
        /\ x9.run.recovery => x9.mig # M!NoRow
        /\ ~x9.run.recovery => ~x3.failed /\ ~x9.run.old
    BY <1>u DEF M!MInv, M!JobsAreOwned, M!RunIsOwned
  <1>3. x3 # M!NoRow
    BY <1>u, <1>2 DEF M!StageFits
  <1>4. /\ r.id = x9.run.id
        /\ r.session = r.target
        /\ r.target # x3.source => M!JournalComplete(r.target, r.id)
        /\ x9.run.old <=> r.target = x3.source
    BY <1>u, <1>2 DEF M!StageFits, M!TargetFits, M!ResultFits
  <1>5. x9.run.id = x3.id
    BY <1>u, <1>3 DEF M!MInv, M!RunIsOwned
  <1>6. x4'.session = r.target
    BY <1>u, <1>4
  <1> QED
    BY <1>u, <1>2, <1>3, <1>4, <1>5, <1>6 DEF M!Publishes

-----------------------------------------------------------------------------
\* Snapshots.

\* A call of telegram_send begins a copy, or is refused.
LEMMA SnapshotsHostSend ==
    ASSUME F!FInv, NEW f \in Conversations, F!HostSend(f)
    PROVE  F!FInv'
  <1>i. F!TypeOK /\ F!CopiesAreNew /\ F!RowsAreOver /\ F!RowHasFile /\ F!ReadingIsRecent /\ F!ExportsAreClaimed
    BY DEF F!FInv
  <1>u. /\ x1 = "up" /\ f \notin x2 /\ f \in F!Files
        /\ x1' = x1 /\ x2' = x2 \cup {f} /\ x6' = x6 /\ x7' = x7 /\ x8' = x8 /\ x9' = x9 /\ x10' = x10
    BY DEF F!HostSend, F!Up, F!Files
  <1>f. x8[f] = "none" /\ x7[f] = "none" /\ f \notin x9
    BY <1>i, <1>u DEF F!RowsAreOver
  <1>1. CASE x3' = x3 /\ x4' = x4 /\ x5' = x5
    BY <1>i, <1>u, <1>1 DEF F!FInv, F!TypeOK, F!CopiesAreNew, F!RowsAreOver, F!RowHasFile, F!ReadingIsRecent,
           F!ExportsAreClaimed, F!Up
  <1>2. CASE x5' = x5
             /\ x3' = [x3 EXCEPT !.requests = @ \cup {f}]
             /\ x4' = x4 \cup {F!Job(f)}
    <2>n. PICK n \in F!JobType :
            x4' = x4 \cup {n} /\ n.file = f /\ n.step = "copying"
      <3> DEFINE n == F!Job(f)
      <3>1. x4' = x4 \cup {n}
        BY <1>2
      <3>2. n \in F!JobType /\ n.file = f /\ n.step = "copying"
        BY <1>i, <1>u DEF F!TypeOK, F!Job, F!JobType
      <3> HIDE DEF n
      <3> QED
        BY <3>1, <3>2
    <2>a. x3' \in [generation : Nat, requests : SUBSET Conversations, export : Singles \cup {None}, current : BOOLEAN]
          /\ x3'.export = x3.export
      BY <1>i, <1>2 DEF F!TypeOK
    <2>1. F!TypeOK'
      BY <1>i, <1>u, <1>2, <2>n, <2>a DEF F!TypeOK
    <2>2. F!CopiesAreNew'
      BY <1>i, <1>u, <1>f, <2>n DEF F!CopiesAreNew
    <2>3. F!RowsAreOver' /\ F!RowHasFile' /\ F!ReadingIsRecent'
      BY <1>i, <1>u DEF F!RowsAreOver, F!RowHasFile, F!ReadingIsRecent
    <2>4. F!ExportsAreClaimed'
      <3>1. n.file \notin Singles
        BY <2>n, PartsAssumption
      <3> QED
        BY <1>i, <1>u, <1>2, <2>n, <2>a, <3>1 DEF F!ExportsAreClaimed, F!Up
    <2> QED
      BY <2>1, <2>2, <2>3, <2>4 DEF F!FInv
  <1> QED
    BY <1>1, <1>2 DEF F!HostSend

\* An export claims its session before it copies it, or is refused.
LEMMA SnapshotsBeginExport ==
    ASSUME F!FInv, NEW f \in Singles, F!BeginExport(f)
    PROVE  F!FInv'
  <1>i. F!TypeOK /\ F!CopiesAreNew /\ F!RowsAreOver /\ F!RowHasFile /\ F!ReadingIsRecent /\ F!ExportsAreClaimed
    BY DEF F!FInv
  <1>u. /\ x1 = "up" /\ f \notin x2 /\ f \in F!Files
        /\ x1' = x1 /\ x2' = x2 \cup {f} /\ x6' = x6 /\ x7' = x7 /\ x8' = x8 /\ x9' = x9 /\ x10' = x10
    BY DEF F!BeginExport, F!Up, F!Files
  <1>f. x8[f] = "none" /\ x7[f] = "none" /\ f \notin x9
    BY <1>i, <1>u DEF F!RowsAreOver
  <1>1. CASE x3' = x3 /\ x4' = x4 /\ x5' = x5
    BY <1>i, <1>u, <1>1 DEF F!FInv, F!TypeOK, F!CopiesAreNew, F!RowsAreOver, F!RowHasFile, F!ReadingIsRecent,
           F!ExportsAreClaimed, F!Up
  <1>2. CASE x3.export = None /\ ~x6 /\ x5'
             /\ x3' = [x3 EXCEPT !.export = f, !.current = TRUE]
             /\ x4' = x4 \cup {F!Job(f)}
    <2>n. PICK n \in F!JobType :
            x4' = x4 \cup {n} /\ n.file = f /\ n.step = "copying"
      <3> DEFINE n == F!Job(f)
      <3>1. x4' = x4 \cup {n}
        BY <1>2
      <3>2. n \in F!JobType /\ n.file = f /\ n.step = "copying"
        BY <1>i, <1>u DEF F!TypeOK, F!Job, F!JobType
      <3> HIDE DEF n
      <3> QED
        BY <3>1, <3>2
    <2>a. x3' \in [generation : Nat, requests : SUBSET Conversations, export : Singles \cup {None}, current : BOOLEAN]
          /\ x3'.export = f
      BY <1>i, <1>2 DEF F!TypeOK
    <2>1. F!TypeOK'
      BY <1>i, <1>u, <1>2, <2>n, <2>a DEF F!TypeOK
    <2>2. F!CopiesAreNew'
      BY <1>i, <1>u, <1>f, <2>n DEF F!CopiesAreNew
    <2>3. F!RowsAreOver' /\ F!RowHasFile' /\ F!ReadingIsRecent'
      BY <1>i, <1>u DEF F!RowsAreOver, F!RowHasFile, F!ReadingIsRecent
    <2>4. F!ExportsAreClaimed'
      <3>1. \A j \in x4 : j.file \in Singles => j.file = None
        BY <1>i, <1>u, <1>2 DEF F!ExportsAreClaimed, F!Up
      <3>2. \A j \in x4 : j.file \notin Singles
        BY <3>1, PartsAssumption
      <3> QED
        BY <1>i, <1>u, <1>2, <2>n, <2>a, <3>2 DEF F!ExportsAreClaimed, F!Up
    <2> QED
      BY <2>1, <2>2, <2>3, <2>4 DEF F!FInv
  <1> QED
    BY <1>1, <1>2 DEF F!BeginExport

\* The copy creates its file; it has no row yet.
LEMMA SnapshotsCopyBegins ==
    ASSUME F!FInv, NEW j \in x4, F!CopyBegins(j)
    PROVE  F!FInv'
  <1>i. F!TypeOK /\ F!CopiesAreNew /\ F!RowsAreOver /\ F!RowHasFile /\ F!ReadingIsRecent /\ F!ExportsAreClaimed
    BY DEF F!FInv
  <1>1. F!TypeOK'
    BY <1>i DEF F!CopyBegins, F!TypeOK, F!Files, F!JobType
  <1>2. F!CopiesAreNew'
    BY <1>i DEF F!CopyBegins, F!CopiesAreNew, F!TypeOK, F!JobType, F!Up
  <1>3. F!RowsAreOver'
    BY <1>i DEF F!CopyBegins, F!RowsAreOver, F!TypeOK, F!CopiesAreNew, F!Files
  <1>4. F!RowHasFile'
    BY <1>i DEF F!CopyBegins, F!RowHasFile, F!TypeOK, F!CopiesAreNew, F!RowsAreOver,
           F!ReadingIsRecent, F!Files
  <1>5. F!ReadingIsRecent'
    BY <1>i DEF F!CopyBegins, F!ReadingIsRecent, F!TypeOK, F!CopiesAreNew, F!RowsAreOver, F!Files
  <1>6. F!ExportsAreClaimed'
    BY <1>i DEF F!CopyBegins, F!ExportsAreClaimed, F!TypeOK, F!CopiesAreNew, F!Up, F!Files
  <1> QED
    BY <1>1, <1>2, <1>3, <1>4, <1>5, <1>6 DEF F!FInv

\* A copy ends: a good one has its file.
LEMMA SnapshotsCopyEnds ==
    ASSUME F!FInv, NEW j \in x4, F!CopyEnds(j)
    PROVE  F!FInv'
  <1>i. F!TypeOK /\ F!CopiesAreNew /\ F!RowsAreOver /\ F!RowHasFile /\ F!ReadingIsRecent /\ F!ExportsAreClaimed
    BY DEF F!FInv
  <1>1. PICK ok \in {TRUE, FALSE} :
          /\ ok => x7[j.file] # "none"
          /\ x4' = (x4 \ {j}) \cup {[j EXCEPT !.step = "ended", !.ok = ok]}
          /\ x7' = IF ok THEN x7 ELSE F!Removed({j.file})
    BY DEF F!CopyEnds
  <1>u. /\ j.step = "copying" /\ x1 # "down"
        /\ x1' = x1 /\ x2' = x2 /\ x3' = x3 /\ x5' = x5 /\ x6' = x6 /\ x8' = x8 /\ x9' = x9 /\ x10' = x10
    BY DEF F!CopyEnds
  <1>n. PICK n \in F!JobType :
          x4' = (x4 \ {j}) \cup {n} /\ n.file = j.file /\ n.step = "ended" /\ n.ok = ok
    <2> DEFINE n == [j EXCEPT !.step = "ended", !.ok = ok]
    <2>1. x4' = (x4 \ {j}) \cup {n}
      BY <1>1
    <2>2. n \in F!JobType /\ n.file = j.file /\ n.step = "ended" /\ n.ok = ok
      BY <1>i DEF F!TypeOK, F!JobType
    <2> HIDE DEF n
    <2> QED
      BY <2>1, <2>2
  <1>f. /\ j.file \in F!Files /\ x8[j.file] = "none"
        /\ x7' \in [F!Files -> {"none", "fresh", "old"}]
        /\ \A f \in F!Files \ {j.file} : x7'[f] = x7[f]
        /\ x7'[j.file] = IF ok THEN x7[j.file] ELSE "none"
    <2>1. j.file \in F!Files /\ x8[j.file] = "none"
      BY <1>i DEF F!TypeOK, F!JobType, F!CopiesAreNew
    <2>2. CASE ok
      BY <1>i, <1>1, <2>1, <2>2 DEF F!TypeOK
    <2>3. CASE ~ok
      BY <1>i, <1>1, <2>1, <2>3 DEF F!TypeOK, F!Removed
    <2> QED
      BY <2>1, <2>2, <2>3
  <1>2. F!TypeOK'
    BY <1>i, <1>u, <1>n, <1>f DEF F!TypeOK
  <1>3. F!CopiesAreNew'
    <2>1. ASSUME NEW k \in x4'
          PROVE  /\ k.file \in x2' /\ k.file \notin x9' /\ x8'[k.file] = "none" /\ x7'[k.file] # "old"
                 /\ k.step = "ended" /\ k.ok => x7'[k.file] # "none"
      <3>1. CASE k = n
        BY <1>i, <1>u, <1>1, <1>n, <1>f, <3>1 DEF F!CopiesAreNew
      <3>2. CASE k \in x4 \ {j}
        <4>1. k.file # j.file /\ k.file \in F!Files
          BY <1>i, <3>2 DEF F!CopiesAreNew, F!TypeOK, F!JobType
        <4> QED
          BY <1>i, <1>u, <1>f, <3>2, <4>1 DEF F!CopiesAreNew
      <3> QED
        BY <1>n, <2>1, <3>1, <3>2
    <2>2. ASSUME NEW k1 \in x4', NEW k2 \in x4', k1.file = k2.file PROVE k1 = k2
      BY <1>i, <1>n, <2>2 DEF F!CopiesAreNew
    <2>3. x1' # "down"
      BY <1>u
    <2> QED
      BY <2>1, <2>2, <2>3 DEF F!CopiesAreNew
  <1>4. F!RowsAreOver' /\ F!RowHasFile' /\ F!ReadingIsRecent'
    BY <1>i, <1>u, <1>f DEF F!RowsAreOver, F!RowHasFile, F!ReadingIsRecent, F!CopiesAreNew
  <1>5. F!ExportsAreClaimed'
    BY <1>i, <1>u, <1>n DEF F!ExportsAreClaimed, F!Up
  <1> QED
    BY <1>2, <1>3, <1>4, <1>5 DEF F!FInv

\* A copy becomes a row, whose file is there; or it is removed before it has one.
LEMMA SnapshotsPreparedSend ==
    ASSUME F!FInv, NEW r \in x4, F!PreparedSend(r)
    PROVE  F!FInv'
  <1>i. F!TypeOK /\ F!CopiesAreNew /\ F!RowsAreOver /\ F!RowHasFile /\ F!ReadingIsRecent /\ F!ExportsAreClaimed
    BY DEF F!FInv
  <1>1. F!TypeOK'
    BY <1>i DEF F!PreparedSend, F!Result, F!Enqueued, F!Removed, F!TypeOK, F!Files, F!JobType
  <1>2. F!CopiesAreNew'
    BY <1>i DEF F!PreparedSend, F!Result, F!Enqueued, F!Removed, F!CopiesAreNew, F!TypeOK,
           F!JobType, F!Up
  <1>3. F!RowsAreOver'
    BY <1>i DEF F!PreparedSend, F!Result, F!Enqueued, F!Removed, F!RowsAreOver, F!TypeOK,
           F!CopiesAreNew, F!Files
  <1>4. F!RowHasFile'
    BY <1>i DEF F!PreparedSend, F!Result, F!Enqueued, F!Removed, F!RowHasFile, F!TypeOK,
           F!CopiesAreNew, F!RowsAreOver, F!ReadingIsRecent, F!Files
  <1>5. F!ReadingIsRecent'
    BY <1>i DEF F!PreparedSend, F!Result, F!Enqueued, F!Removed, F!ReadingIsRecent, F!TypeOK,
           F!CopiesAreNew, F!RowsAreOver, F!Files
  <1>6. F!ExportsAreClaimed'
    BY <1>i DEF F!PreparedSend, F!Result, F!Enqueued, F!Removed, F!ExportsAreClaimed, F!TypeOK,
           F!CopiesAreNew, F!Up, F!Files
  <1> QED
    BY <1>1, <1>2, <1>3, <1>4, <1>5, <1>6 DEF F!FInv

\* An export becomes a row and gives up its claim, or its file is removed.
LEMMA SnapshotsExportFinished ==
    ASSUME F!FInv, NEW r \in x4, F!ExportFinished(r)
    PROVE  F!FInv'
  <1>i. F!TypeOK /\ F!CopiesAreNew /\ F!RowsAreOver /\ F!RowHasFile /\ F!ReadingIsRecent /\ F!ExportsAreClaimed
    BY DEF F!FInv
  <1>1. F!TypeOK'
    <2>1. x3' \in [generation : Nat, requests : SUBSET Conversations, export : Singles \cup {None}, current : BOOLEAN]
      BY <1>i DEF F!ExportFinished, F!TypeOK
    <2>2. r.file \in F!Files
      BY <1>i DEF F!TypeOK, F!JobType
    <2>3. x7' \in [F!Files -> {"none", "fresh", "old"}] /\ x8' \in [F!Files -> {"none", "pending", "sending", "terminal"}]
      BY <1>i, <2>2 DEF F!ExportFinished, F!Enqueued, F!Removed, F!TypeOK
    <2> QED
      BY <1>i, <2>1, <2>3 DEF F!ExportFinished, F!TypeOK
  <1>2. F!CopiesAreNew'
    BY <1>i DEF F!ExportFinished, F!Result, F!Enqueued, F!Removed, F!CopiesAreNew, F!TypeOK, F!Up
  <1>3. F!RowsAreOver'
    BY <1>i DEF F!ExportFinished, F!Result, F!Enqueued, F!Removed, F!RowsAreOver, F!TypeOK,
           F!CopiesAreNew, F!Files
  <1>4. F!RowHasFile'
    BY <1>i DEF F!ExportFinished, F!Result, F!Enqueued, F!Removed, F!RowHasFile, F!TypeOK,
           F!CopiesAreNew, F!RowsAreOver, F!ReadingIsRecent, F!Files
  <1>5. F!ReadingIsRecent'
    BY <1>i DEF F!ExportFinished, F!Result, F!Enqueued, F!Removed, F!ReadingIsRecent, F!TypeOK,
           F!CopiesAreNew, F!RowsAreOver, F!Files
  <1>6. F!ExportsAreClaimed'
    BY <1>i DEF F!ExportFinished, F!Result, F!Enqueued, F!Removed, F!ExportsAreClaimed, F!TypeOK,
           F!CopiesAreNew, F!Up, F!Files
  <1> QED
    BY <1>1, <1>2, <1>3, <1>4, <1>5, <1>6 DEF F!FInv

\* Cancelling copies changes nothing else of them.
LEMMA CopiesAreCancelled ==
    ASSUME F!TypeOK, F!CopiesAreNew, NEW S, x4' = F!Cancelled(S)
    PROVE  /\ x4' \subseteq F!JobType
           /\ \A k \in x4' : \E j \in x4 : k.file = j.file /\ k.step = j.step /\ k.ok = j.ok
           /\ \A k1, k2 \in x4' : k1.file = k2.file => k1 = k2
           /\ x4 = {} => x4' = {}
  <1> DEFINE c(j) == IF j.file \in S /\ j.step = "copying" THEN [j EXCEPT !.cancelled = TRUE] ELSE j
  <1>1. x4' = {c(j) : j \in x4}
    BY DEF F!Cancelled
  <1>2. ASSUME NEW j \in x4
        PROVE  c(j) \in F!JobType /\ c(j).file = j.file /\ c(j).step = j.step /\ c(j).ok = j.ok
    <2>1. j \in F!JobType
      BY DEF F!TypeOK
    <2> QED
      BY <2>1 DEF F!JobType
  <1> HIDE DEF c
  <1> QED
    BY <1>1, <1>2 DEF F!CopiesAreNew

\* The requests of a task are cancelled; their copies end by themselves.
LEMMA SnapshotsCancelHostRequests ==
    ASSUME F!FInv, F!CancelHostRequests
    PROVE  F!FInv'
  <1>i. F!TypeOK /\ F!CopiesAreNew /\ F!RowsAreOver /\ F!RowHasFile /\ F!ReadingIsRecent /\ F!ExportsAreClaimed
    BY DEF F!FInv
  <1>u. /\ x1 = "up" /\ x1' = x1 /\ x5' = x5 /\ x10' = x10 /\ x2' = x2 /\ x6' = x6 /\ x7' = x7 /\ x8' = x8 /\ x9' = x9
        /\ x3' \in [generation : Nat, requests : SUBSET Conversations, export : Singles \cup {None}, current : BOOLEAN]
        /\ x3'.export = x3.export
    BY <1>i DEF F!CancelHostRequests, F!Up, F!TypeOK
  <1>c. /\ x4' \subseteq F!JobType
        /\ \A k \in x4' : \E j \in x4 : k.file = j.file /\ k.step = j.step /\ k.ok = j.ok
        /\ \A k1, k2 \in x4' : k1.file = k2.file => k1 = k2
        /\ x4 = {} => x4' = {}
    <2>1. x4' = F!Cancelled(x3.requests)
      BY DEF F!CancelHostRequests
    <2> QED
      BY <1>i, <2>1, CopiesAreCancelled
  <1>1. F!TypeOK'
    BY <1>i, <1>u, <1>c DEF F!TypeOK
  <1>2. F!CopiesAreNew'
    BY <1>i, <1>u, <1>c DEF F!CopiesAreNew
  <1>3. F!RowsAreOver' /\ F!RowHasFile' /\ F!ReadingIsRecent'
    BY <1>i, <1>u DEF F!RowsAreOver, F!RowHasFile, F!ReadingIsRecent
  <1>4. F!ExportsAreClaimed'
    BY <1>i, <1>u, <1>c DEF F!ExportsAreClaimed, F!Up
  <1> QED
    BY <1>1, <1>2, <1>3, <1>4 DEF F!FInv

\* A new client or binding cancels the copies; the claim stays with that of an export.
LEMMA SnapshotsClose ==
    ASSUME F!FInv, F!Close
    PROVE  F!FInv'
  <1>i. F!TypeOK /\ F!CopiesAreNew /\ F!RowsAreOver /\ F!RowHasFile /\ F!ReadingIsRecent /\ F!ExportsAreClaimed
    BY DEF F!FInv
  <1>u. /\ x1 = "up" /\ x1' = x1 /\ x5' = x5 /\ x10' = x10 /\ x2' = x2 /\ x6' = x6 /\ x7' = x7 /\ x8' = x8 /\ x9' = x9
        /\ x3' \in [generation : Nat, requests : SUBSET Conversations, export : Singles \cup {None}, current : BOOLEAN]
        /\ x3'.export = x3.export
    <2>1. /\ x1 = "up" /\ x1' = x1 /\ x5' = x5 /\ x10' = x10
          /\ x2' = x2 /\ x6' = x6 /\ x7' = x7 /\ x8' = x8 /\ x9' = x9
      BY <1>i DEF F!Close, F!Teardown, F!Up, F!TypeOK
    <2>2. x3' = [x3 EXCEPT !.requests = {}, !.current = FALSE, !.generation = x3.generation + 1]
      BY DEF F!Close, F!Teardown
    <2>3. x3 \in [generation : Nat, requests : SUBSET Conversations, export : Singles \cup {None}, current : BOOLEAN]
      BY <1>i DEF F!TypeOK
    <2>4. x3.generation + 1 \in Nat
      BY <2>3
    <2> QED
      BY <2>1, <2>2, <2>3, <2>4
  <1>c. /\ x4' \subseteq F!JobType
        /\ \A k \in x4' : \E j \in x4 : k.file = j.file /\ k.step = j.step /\ k.ok = j.ok
        /\ \A k1, k2 \in x4' : k1.file = k2.file => k1 = k2
        /\ x4 = {} => x4' = {}
    <2>1. x4' = F!Cancelled(x3.requests \cup {x3.export})
      BY DEF F!Close, F!Teardown
    <2> QED
      BY <1>i, <2>1, CopiesAreCancelled
  <1>1. F!TypeOK'
    BY <1>i, <1>u, <1>c DEF F!TypeOK
  <1>2. F!CopiesAreNew'
    BY <1>i, <1>u, <1>c DEF F!CopiesAreNew
  <1>3. F!RowsAreOver' /\ F!RowHasFile' /\ F!ReadingIsRecent'
    BY <1>i, <1>u DEF F!RowsAreOver, F!RowHasFile, F!ReadingIsRecent
  <1>4. F!ExportsAreClaimed'
    BY <1>i, <1>u, <1>c DEF F!ExportsAreClaimed, F!Up
  <1> QED
    BY <1>1, <1>2, <1>3, <1>4 DEF F!FInv

\* A shutdown cancels all copies.
LEMMA SnapshotsStop ==
    ASSUME F!FInv, F!Stop
    PROVE  F!FInv'
  <1>i. F!TypeOK /\ F!CopiesAreNew /\ F!RowsAreOver /\ F!RowHasFile /\ F!ReadingIsRecent /\ F!ExportsAreClaimed
    BY DEF F!FInv
  <1>u. /\ x1 = "up" /\ x1' = "closing" /\ x5' = x5 /\ x10' = None /\ x2' = x2 /\ x6' = x6 /\ x7' = x7 /\ x8' = x8 /\ x9' = x9
        /\ x3' \in [generation : Nat, requests : SUBSET Conversations, export : Singles \cup {None}, current : BOOLEAN]
        /\ x3'.export = x3.export
    BY <1>i DEF F!Stop, F!Up, F!TypeOK
  <1>c. /\ x4' \subseteq F!JobType
        /\ \A k \in x4' : \E j \in x4 : k.file = j.file /\ k.step = j.step /\ k.ok = j.ok
        /\ \A k1, k2 \in x4' : k1.file = k2.file => k1 = k2
        /\ x4 = {} => x4' = {}
    <2>1. x4' = F!Cancelled(F!Files)
      BY DEF F!Stop
    <2> QED
      BY <1>i, <2>1, CopiesAreCancelled
  <1>1. F!TypeOK'
    BY <1>i, <1>u, <1>c DEF F!TypeOK
  <1>2. F!CopiesAreNew'
    BY <1>i, <1>u, <1>c DEF F!CopiesAreNew
  <1>3. F!RowsAreOver' /\ F!RowHasFile' /\ F!ReadingIsRecent'
    BY <1>i, <1>u DEF F!RowsAreOver, F!RowHasFile, F!ReadingIsRecent
  <1>4. F!ExportsAreClaimed'
    BY <1>i, <1>u, <1>c DEF F!ExportsAreClaimed, F!Up
  <1> QED
    BY <1>1, <1>2, <1>3, <1>4 DEF F!FInv

\* Another conversation takes the session only while no export claims it.
LEMMA SnapshotsRival ==
    ASSUME F!FInv, F!Rival
    PROVE  F!FInv'
  <1>i. F!TypeOK /\ F!CopiesAreNew /\ F!RowsAreOver /\ F!RowHasFile /\ F!ReadingIsRecent /\ F!ExportsAreClaimed
    BY DEF F!FInv
  <1>1. F!TypeOK'
    BY <1>i DEF F!Rival, F!TypeOK, F!Files, F!JobType
  <1>2. F!CopiesAreNew'
    BY <1>i DEF F!Rival, F!CopiesAreNew, F!TypeOK, F!JobType, F!Up
  <1>3. F!RowsAreOver'
    BY <1>i DEF F!Rival, F!RowsAreOver, F!TypeOK, F!CopiesAreNew, F!Files
  <1>4. F!RowHasFile'
    BY <1>i DEF F!Rival, F!RowHasFile, F!TypeOK, F!CopiesAreNew, F!RowsAreOver, F!ReadingIsRecent,
           F!Files
  <1>5. F!ReadingIsRecent'
    BY <1>i DEF F!Rival, F!ReadingIsRecent, F!TypeOK, F!CopiesAreNew, F!RowsAreOver, F!Files
  <1>6. F!ExportsAreClaimed'
    BY <1>i DEF F!Rival, F!ExportsAreClaimed, F!TypeOK, F!CopiesAreNew, F!Up, F!Files
  <1> QED
    BY <1>1, <1>2, <1>3, <1>4, <1>5, <1>6 DEF F!FInv

\* A delivery begins with the file that its row has.
LEMMA SnapshotsClaim ==
    ASSUME F!FInv, NEW f \in F!Files, F!Claim(f)
    PROVE  F!FInv'
  <1>i. F!TypeOK /\ F!CopiesAreNew /\ F!RowsAreOver /\ F!RowHasFile /\ F!ReadingIsRecent /\ F!ExportsAreClaimed
    BY DEF F!FInv
  <1>1. F!TypeOK'
    BY <1>i DEF F!Claim, F!TypeOK, F!Files, F!JobType
  <1>2. F!CopiesAreNew'
    BY <1>i DEF F!Claim, F!CopiesAreNew, F!TypeOK, F!JobType, F!Up
  <1>3. F!RowsAreOver'
    BY <1>i DEF F!Claim, F!RowsAreOver, F!TypeOK, F!CopiesAreNew, F!Files
  <1>4. F!RowHasFile'
    BY <1>i DEF F!Claim, F!RowHasFile, F!TypeOK, F!CopiesAreNew, F!RowsAreOver, F!ReadingIsRecent,
           F!Files
  <1>5. F!ReadingIsRecent'
    BY <1>i DEF F!Claim, F!ReadingIsRecent, F!TypeOK, F!CopiesAreNew, F!RowsAreOver, F!Files
  <1>6. F!ExportsAreClaimed'
    BY <1>i DEF F!Claim, F!ExportsAreClaimed, F!TypeOK, F!CopiesAreNew, F!Up, F!Files
  <1> QED
    BY <1>1, <1>2, <1>3, <1>4, <1>5, <1>6 DEF F!FInv

\* Only a row that is over leaves its file to be removed.
LEMMA SnapshotsAttempted ==
    ASSUME F!FInv, NEW f \in F!Files, F!Attempted(f)
    PROVE  F!FInv'
  <1>i. F!TypeOK /\ F!CopiesAreNew /\ F!RowsAreOver /\ F!RowHasFile /\ F!ReadingIsRecent /\ F!ExportsAreClaimed
    BY DEF F!FInv
  <1>1. F!TypeOK'
    BY <1>i DEF F!Attempted, F!TypeOK, F!Files, F!JobType
  <1>2. F!CopiesAreNew'
    BY <1>i DEF F!Attempted, F!CopiesAreNew, F!TypeOK, F!JobType, F!Up
  <1>3. F!RowsAreOver'
    BY <1>i DEF F!Attempted, F!RowsAreOver, F!TypeOK, F!CopiesAreNew, F!Files
  <1>4. F!RowHasFile'
    BY <1>i DEF F!Attempted, F!RowHasFile, F!TypeOK, F!CopiesAreNew, F!RowsAreOver,
           F!ReadingIsRecent, F!Files
  <1>5. F!ReadingIsRecent'
    BY <1>i DEF F!Attempted, F!ReadingIsRecent, F!TypeOK, F!CopiesAreNew, F!RowsAreOver, F!Files
  <1>6. F!ExportsAreClaimed'
    BY <1>i DEF F!Attempted, F!ExportsAreClaimed, F!TypeOK, F!CopiesAreNew, F!Up, F!Files
  <1> QED
    BY <1>1, <1>2, <1>3, <1>4, <1>5, <1>6 DEF F!FInv

\* The file that is removed belongs to no row that can be sent.
LEMMA SnapshotsRemoveSnapshot ==
    ASSUME F!FInv, NEW f \in F!Files, F!RemoveSnapshot(f)
    PROVE  F!FInv'
  <1>i. F!TypeOK /\ F!CopiesAreNew /\ F!RowsAreOver /\ F!RowHasFile /\ F!ReadingIsRecent /\ F!ExportsAreClaimed
    BY DEF F!FInv
  <1>1. F!TypeOK'
    BY <1>i DEF F!RemoveSnapshot, F!Removed, F!TypeOK, F!Files, F!JobType
  <1>2. F!CopiesAreNew'
    BY <1>i DEF F!RemoveSnapshot, F!Removed, F!CopiesAreNew, F!TypeOK, F!JobType, F!Up
  <1>3. F!RowsAreOver'
    BY <1>i DEF F!RemoveSnapshot, F!Removed, F!RowsAreOver, F!TypeOK, F!CopiesAreNew, F!Files
  <1>4. F!RowHasFile'
    BY <1>i DEF F!RemoveSnapshot, F!Removed, F!RowHasFile, F!TypeOK, F!CopiesAreNew,
           F!RowsAreOver, F!ReadingIsRecent, F!Files
  <1>5. F!ReadingIsRecent'
    BY <1>i DEF F!RemoveSnapshot, F!Removed, F!ReadingIsRecent, F!TypeOK, F!CopiesAreNew,
           F!RowsAreOver, F!Files
  <1>6. F!ExportsAreClaimed'
    BY <1>i DEF F!RemoveSnapshot, F!Removed, F!ExportsAreClaimed, F!TypeOK, F!CopiesAreNew, F!Up,
           F!Files
  <1> QED
    BY <1>1, <1>2, <1>3, <1>4, <1>5, <1>6 DEF F!FInv

\* A retention period passes over no reading and no copy.
LEMMA SnapshotsPeriodPasses ==
    ASSUME F!FInv, F!PeriodPasses
    PROVE  F!FInv'
  <1>i. F!TypeOK /\ F!CopiesAreNew /\ F!RowsAreOver /\ F!RowHasFile /\ F!ReadingIsRecent /\ F!ExportsAreClaimed
    BY DEF F!FInv
  <1>1. F!TypeOK'
    BY <1>i DEF F!PeriodPasses, F!TypeOK, F!Files, F!JobType
  <1>2. F!CopiesAreNew'
    BY <1>i DEF F!PeriodPasses, F!CopiesAreNew, F!TypeOK, F!JobType, F!Up
  <1>3. F!RowsAreOver'
    BY <1>i DEF F!PeriodPasses, F!RowsAreOver, F!TypeOK, F!CopiesAreNew, F!Files
  <1>4. F!RowHasFile'
    BY <1>i DEF F!PeriodPasses, F!RowHasFile, F!TypeOK, F!CopiesAreNew, F!RowsAreOver,
           F!ReadingIsRecent, F!Files
  <1>5. F!ReadingIsRecent'
    BY <1>i DEF F!PeriodPasses, F!ReadingIsRecent, F!TypeOK, F!CopiesAreNew, F!RowsAreOver,
           F!Files
  <1>6. F!ExportsAreClaimed'
    BY <1>i DEF F!PeriodPasses, F!ExportsAreClaimed, F!TypeOK, F!CopiesAreNew, F!Up, F!Files
  <1> QED
    BY <1>1, <1>2, <1>3, <1>4, <1>5, <1>6 DEF F!FInv

\* The rows that are deleted can no longer be sent.
LEMMA SnapshotsCleanupRows ==
    ASSUME F!FInv, F!CleanupRows
    PROVE  F!FInv'
  <1>i. F!TypeOK /\ F!CopiesAreNew /\ F!RowsAreOver /\ F!RowHasFile /\ F!ReadingIsRecent /\ F!ExportsAreClaimed
    BY DEF F!FInv
  <1>1. F!TypeOK'
    BY <1>i DEF F!CleanupRows, F!TypeOK, F!Files, F!JobType
  <1>2. F!CopiesAreNew'
    BY <1>i DEF F!CleanupRows, F!CopiesAreNew, F!TypeOK, F!JobType, F!Up
  <1>3. F!RowsAreOver'
    BY <1>i DEF F!CleanupRows, F!RowsAreOver, F!TypeOK, F!CopiesAreNew, F!Files
  <1>4. F!RowHasFile'
    BY <1>i DEF F!CleanupRows, F!RowHasFile, F!TypeOK, F!CopiesAreNew, F!RowsAreOver,
           F!ReadingIsRecent, F!Files
  <1>5. F!ReadingIsRecent'
    BY <1>i DEF F!CleanupRows, F!ReadingIsRecent, F!TypeOK, F!CopiesAreNew, F!RowsAreOver, F!Files
  <1>6. F!ExportsAreClaimed'
    BY <1>i DEF F!CleanupRows, F!ExportsAreClaimed, F!TypeOK, F!CopiesAreNew, F!Up, F!Files
  <1> QED
    BY <1>1, <1>2, <1>3, <1>4, <1>5, <1>6 DEF F!FInv

\* The janitor reads the rows: it has seen all there are.
LEMMA SnapshotsReconcileReads ==
    ASSUME F!FInv, F!ReconcileReads
    PROVE  F!FInv'
  <1>i. F!TypeOK /\ F!CopiesAreNew /\ F!RowsAreOver /\ F!RowHasFile /\ F!ReadingIsRecent /\ F!ExportsAreClaimed
    BY DEF F!FInv
  <1>1. F!TypeOK'
    BY <1>i DEF F!ReconcileReads, F!TypeOK, F!Files, F!JobType
  <1>2. F!CopiesAreNew'
    BY <1>i DEF F!ReconcileReads, F!CopiesAreNew, F!TypeOK, F!JobType, F!Up
  <1>3. F!RowsAreOver'
    BY <1>i DEF F!ReconcileReads, F!RowsAreOver, F!TypeOK, F!CopiesAreNew, F!Files
  <1>4. F!RowHasFile'
    BY <1>i DEF F!ReconcileReads, F!RowHasFile, F!TypeOK, F!CopiesAreNew, F!RowsAreOver,
           F!ReadingIsRecent, F!Files
  <1>5. F!ReadingIsRecent'
    BY <1>i DEF F!ReconcileReads, F!ReadingIsRecent, F!TypeOK, F!CopiesAreNew, F!RowsAreOver,
           F!Files
  <1>6. F!ExportsAreClaimed'
    BY <1>i DEF F!ReconcileReads, F!ExportsAreClaimed, F!TypeOK, F!CopiesAreNew, F!Up, F!Files
  <1> QED
    BY <1>1, <1>2, <1>3, <1>4, <1>5, <1>6 DEF F!FInv

\* What the janitor removes is old and was in no row, so it is in none that can be sent.
LEMMA SnapshotsReconcileRemoves ==
    ASSUME F!FInv, NEW f \in F!Files, F!ReconcileRemoves(f)
    PROVE  F!FInv'
  <1>i. F!TypeOK /\ F!CopiesAreNew /\ F!RowsAreOver /\ F!RowHasFile /\ F!ReadingIsRecent /\ F!ExportsAreClaimed
    BY DEF F!FInv
  <1>1. F!TypeOK'
    BY <1>i DEF F!ReconcileRemoves, F!Abandoned, F!Removed, F!TypeOK, F!Files, F!JobType
  <1>2. F!CopiesAreNew'
    BY <1>i DEF F!ReconcileRemoves, F!Abandoned, F!Removed, F!CopiesAreNew, F!TypeOK, F!JobType,
           F!Up
  <1>3. F!RowsAreOver'
    BY <1>i DEF F!ReconcileRemoves, F!Abandoned, F!Removed, F!RowsAreOver, F!TypeOK,
           F!CopiesAreNew, F!Files
  <1>4. F!RowHasFile'
    BY <1>i DEF F!ReconcileRemoves, F!Abandoned, F!Removed, F!RowHasFile, F!TypeOK,
           F!CopiesAreNew, F!RowsAreOver, F!ReadingIsRecent, F!Files
  <1>5. F!ReadingIsRecent'
    BY <1>i DEF F!ReconcileRemoves, F!Abandoned, F!Removed, F!ReadingIsRecent, F!TypeOK,
           F!CopiesAreNew, F!RowsAreOver, F!Files
  <1>6. F!ExportsAreClaimed'
    BY <1>i DEF F!ReconcileRemoves, F!Abandoned, F!Removed, F!ExportsAreClaimed, F!TypeOK,
           F!CopiesAreNew, F!Up, F!Files
  <1> QED
    BY <1>1, <1>2, <1>3, <1>4, <1>5, <1>6 DEF F!FInv

\* The janitor forgets its reading.
LEMMA SnapshotsReconcileEnds ==
    ASSUME F!FInv, F!ReconcileEnds
    PROVE  F!FInv'
  <1>i. F!TypeOK /\ F!CopiesAreNew /\ F!RowsAreOver /\ F!RowHasFile /\ F!ReadingIsRecent /\ F!ExportsAreClaimed
    BY DEF F!FInv
  <1>1. F!TypeOK'
    BY <1>i DEF F!ReconcileEnds, F!TypeOK, F!Files, F!JobType
  <1>2. F!CopiesAreNew'
    BY <1>i DEF F!ReconcileEnds, F!CopiesAreNew, F!TypeOK, F!JobType, F!Up
  <1>3. F!RowsAreOver'
    BY <1>i DEF F!ReconcileEnds, F!RowsAreOver, F!TypeOK, F!CopiesAreNew, F!Files
  <1>4. F!RowHasFile'
    BY <1>i DEF F!ReconcileEnds, F!RowHasFile, F!TypeOK, F!CopiesAreNew, F!RowsAreOver,
           F!ReadingIsRecent, F!Files
  <1>5. F!ReadingIsRecent'
    BY <1>i DEF F!ReconcileEnds, F!ReadingIsRecent, F!TypeOK, F!CopiesAreNew, F!RowsAreOver,
           F!Files
  <1>6. F!ExportsAreClaimed'
    BY <1>i DEF F!ReconcileEnds, F!ExportsAreClaimed, F!TypeOK, F!CopiesAreNew, F!Up, F!Files
  <1> QED
    BY <1>1, <1>2, <1>3, <1>4, <1>5, <1>6 DEF F!FInv

\* A result nobody takes has no row.
LEMMA SnapshotsDropped ==
    ASSUME F!FInv, NEW r \in x4, F!Dropped(r)
    PROVE  F!FInv'
  <1>i. F!TypeOK /\ F!CopiesAreNew /\ F!RowsAreOver /\ F!RowHasFile /\ F!ReadingIsRecent /\ F!ExportsAreClaimed
    BY DEF F!FInv
  <1>1. F!TypeOK'
    BY <1>i DEF F!Dropped, F!Removed, F!TypeOK, F!Files, F!JobType
  <1>2. F!CopiesAreNew'
    BY <1>i DEF F!Dropped, F!Removed, F!CopiesAreNew, F!TypeOK, F!JobType, F!Up
  <1>3. F!RowsAreOver'
    BY <1>i DEF F!Dropped, F!Removed, F!RowsAreOver, F!TypeOK, F!CopiesAreNew, F!Files
  <1>4. F!RowHasFile'
    BY <1>i DEF F!Dropped, F!Removed, F!RowHasFile, F!TypeOK, F!CopiesAreNew, F!RowsAreOver,
           F!ReadingIsRecent, F!Files
  <1>5. F!ReadingIsRecent'
    BY <1>i DEF F!Dropped, F!Removed, F!ReadingIsRecent, F!TypeOK, F!CopiesAreNew, F!RowsAreOver,
           F!Files
  <1>6. F!ExportsAreClaimed'
    BY <1>i DEF F!Dropped, F!Removed, F!ExportsAreClaimed, F!TypeOK, F!CopiesAreNew, F!Up, F!Files
  <1> QED
    BY <1>1, <1>2, <1>3, <1>4, <1>5, <1>6 DEF F!FInv

\* The process ends, and with it all copies and claims.
LEMMA SnapshotsDown ==
    ASSUME F!FInv, F!Down
    PROVE  F!FInv'
  <1>i. F!TypeOK /\ F!CopiesAreNew /\ F!RowsAreOver /\ F!RowHasFile /\ F!ReadingIsRecent /\ F!ExportsAreClaimed
    BY DEF F!FInv
  <1>1. F!TypeOK'
    BY <1>i DEF F!Down, F!NewActor, F!TypeOK, F!Files, F!JobType
  <1>2. F!CopiesAreNew'
    BY <1>i DEF F!Down, F!NewActor, F!CopiesAreNew, F!TypeOK, F!JobType, F!Up
  <1>3. F!RowsAreOver'
    BY <1>i DEF F!Down, F!NewActor, F!RowsAreOver, F!TypeOK, F!CopiesAreNew, F!Files
  <1>4. F!RowHasFile'
    BY <1>i DEF F!Down, F!NewActor, F!RowHasFile, F!TypeOK, F!CopiesAreNew, F!RowsAreOver,
           F!ReadingIsRecent, F!Files
  <1>5. F!ReadingIsRecent'
    BY <1>i DEF F!Down, F!NewActor, F!ReadingIsRecent, F!TypeOK, F!CopiesAreNew, F!RowsAreOver,
           F!Files
  <1>6. F!ExportsAreClaimed'
    BY <1>i DEF F!Down, F!NewActor, F!ExportsAreClaimed, F!TypeOK, F!CopiesAreNew, F!Up, F!Files
  <1> QED
    BY <1>1, <1>2, <1>3, <1>4, <1>5, <1>6 DEF F!FInv

\* What was being sent is over after a restart.
LEMMA SnapshotsRestart ==
    ASSUME F!FInv, F!Restart
    PROVE  F!FInv'
  <1>i. F!TypeOK /\ F!CopiesAreNew /\ F!RowsAreOver /\ F!RowHasFile /\ F!ReadingIsRecent /\ F!ExportsAreClaimed
    BY DEF F!FInv
  <1>1. F!TypeOK'
    BY <1>i DEF F!Restart, F!TypeOK, F!Files, F!JobType
  <1>2. F!CopiesAreNew'
    BY <1>i DEF F!Restart, F!CopiesAreNew, F!TypeOK, F!JobType, F!Up
  <1>3. F!RowsAreOver'
    BY <1>i DEF F!Restart, F!RowsAreOver, F!TypeOK, F!CopiesAreNew, F!Files
  <1>4. F!RowHasFile'
    BY <1>i DEF F!Restart, F!RowHasFile, F!TypeOK, F!CopiesAreNew, F!RowsAreOver,
           F!ReadingIsRecent, F!Files
  <1>5. F!ReadingIsRecent'
    BY <1>i DEF F!Restart, F!ReadingIsRecent, F!TypeOK, F!CopiesAreNew, F!RowsAreOver, F!Files
  <1>6. F!ExportsAreClaimed'
    BY <1>i DEF F!Restart, F!ExportsAreClaimed, F!TypeOK, F!CopiesAreNew, F!Up, F!Files
  <1> QED
    BY <1>1, <1>2, <1>3, <1>4, <1>5, <1>6 DEF F!FInv

\* At the start nothing is copied.
LEMMA SnapshotsInit == F!Init => F!FInv
  <1> SUFFICES ASSUME F!Init PROVE F!FInv
    OBVIOUS
  <1>u. /\ x1 = "up" /\ x2 = {} /\ x4 = {} /\ x5 = FALSE /\ x6 = FALSE /\ x9 = {} /\ x10 = None
        /\ x7 = [f \in F!Files |-> "none"] /\ x8 = [f \in F!Files |-> "none"]
        /\ x3 = [generation |-> 1, requests |-> {}, export |-> None, current |-> FALSE]
    BY DEF F!Init, F!NewActor
  <1>1. F!TypeOK
    <2>1. x3 \in [generation : Nat, requests : SUBSET Conversations, export : Singles \cup {None}, current : BOOLEAN]
      BY <1>u
    <2> QED
      BY <1>u, <2>1 DEF F!TypeOK
  <1>2. F!CopiesAreNew /\ F!RowsAreOver /\ F!RowHasFile /\ F!ReadingIsRecent /\ F!ExportsAreClaimed
    BY <1>u DEF F!CopiesAreNew, F!RowsAreOver, F!RowHasFile, F!ReadingIsRecent, F!ExportsAreClaimed
  <1> QED
    BY <1>1, <1>2 DEF F!FInv

\* Every step of the spool keeps its invariant.
LEMMA SnapshotsNext == F!FInv /\ F!Next => F!FInv'
  <1> SUFFICES ASSUME F!FInv, F!Next PROVE F!FInv'
    OBVIOUS
  <1>1. CASE (\E f \in Conversations : F!HostSend(f)) \/ \E f \in Singles : F!BeginExport(f)
    BY <1>1, SnapshotsHostSend, SnapshotsBeginExport
  <1>2. CASE \E j \in x4 : F!CopyBegins(j) \/ F!CopyEnds(j) \/ F!PreparedSend(j) \/ F!ExportFinished(j)
                           \/ F!Dropped(j)
    BY <1>2, SnapshotsCopyBegins, SnapshotsCopyEnds, SnapshotsPreparedSend, SnapshotsExportFinished,
       SnapshotsDropped
  <1>3. CASE F!CancelHostRequests \/ F!Close \/ F!Rival
    BY <1>3, SnapshotsCancelHostRequests, SnapshotsClose, SnapshotsRival
  <1>4. CASE \E f \in F!Files : F!Claim(f) \/ F!Attempted(f) \/ F!RemoveSnapshot(f) \/ F!ReconcileRemoves(f)
    BY <1>4, SnapshotsClaim, SnapshotsAttempted, SnapshotsRemoveSnapshot, SnapshotsReconcileRemoves
  <1>5. CASE \/ F!PeriodPasses \/ F!CleanupRows \/ F!ReconcileReads \/ F!ReconcileEnds
             \/ F!Stop \/ F!Down \/ F!Restart
    BY <1>5, SnapshotsPeriodPasses, SnapshotsCleanupRows, SnapshotsReconcileReads, SnapshotsReconcileEnds,
       SnapshotsStop, SnapshotsDown, SnapshotsRestart
  <1> QED
    BY <1>1, <1>2, <1>3, <1>4, <1>5 DEF F!Next

\* A step of another part leaves the spool alone.
LEMMA SnapshotsStutter ==
    ASSUME F!FInv, UNCHANGED <<x1, x2, x3, x4, x5, x6, x7, x8, x9, x10, x11>>
    PROVE  F!FInv'
  BY DEF F!FInv, F!TypeOK, F!CopiesAreNew, F!RowsAreOver, F!RowHasFile, F!ReadingIsRecent, F!ExportsAreClaimed,
         F!Up

\* Only a session that is claimed is copied for an export, and then it has no rival.
LEMMA SnapshotsConsequence == F!FInv => F!RowHasFile /\ F!ExportHasSession
  BY DEF F!FInv, F!ExportsAreClaimed, F!ExportHasSession

-----------------------------------------------------------------------------
\* Progress.

\* What replies add to the rows.
LEMMA RepliesAreAppended ==
    ASSUME P!TypeOK, x9.active \in Conversations, NEW n \in Nat, NEW body \in BOOLEAN,
           x4' = P!WithReplies(n, body)
    PROVE  /\ x4' \in Seq(P!RowType) /\ DOMAIN x4' = 1..(Len(x4) + n)
           /\ DOMAIN x4 = 1..Len(x4) /\ Len(x4) \in Nat
           /\ \A i \in DOMAIN x4 : x4'[i] = x4[i]
           /\ \A i \in DOMAIN x4' \ DOMAIN x4 :
                /\ x4'[i].root = x9.active /\ x4'[i].epoch = x9.epoch /\ x4'[i].kept /\ x4'[i].body = body
                /\ x4'[i].state = "pending"
  <1> DEFINE r == [root |-> x9.active, epoch |-> x9.epoch, body |-> body, state |-> "pending", kept |-> TRUE]
             s == [i \in 1..n |-> r]
  <1>1. r \in P!RowType
    BY DEF P!TypeOK, P!ActorType, P!RowType
  <1>2. r.root = x9.active /\ r.epoch = x9.epoch /\ r.kept /\ r.body = body /\ r.state = "pending"
    OBVIOUS
  <1> HIDE DEF r
  <1>3. s \in Seq(P!RowType) /\ Len(s) = n /\ \A i \in 1..n : s[i] = r
    BY <1>1
  <1>4. x4 \in Seq(P!RowType) /\ DOMAIN x4 = 1..Len(x4) /\ Len(x4) \in Nat
    BY DEF P!TypeOK
  <1> HIDE DEF s
  <1> DEFINE rs == x4 \o s
  <1>5. rs \in Seq(P!RowType) /\ Len(rs) = Len(x4) + n /\ DOMAIN rs = 1..Len(rs)
    BY <1>3, <1>4
  <1>6. \A i \in 1..Len(x4) : rs[i] = x4[i]
    BY <1>3, <1>4
  <1>7. \A i \in (Len(x4) + 1)..(Len(x4) + n) : rs[i] = r
    <2>1. ASSUME NEW i \in (Len(x4) + 1)..(Len(x4) + n) PROVE rs[i] = r
      <3>1. i - Len(x4) \in 1..n /\ i \in 1..(Len(x4) + Len(s)) /\ i > Len(x4)
        BY <1>3, <1>4
      <3>2. rs[i] = s[i - Len(x4)]
        BY <1>3, <1>4, <3>1
      <3> QED
        BY <1>3, <3>1, <3>2
    <2> QED
      BY <2>1
  <1>8. P!WithReplies(n, body) = rs
    BY DEF P!WithReplies, s, r
  <1> HIDE DEF rs
  <1>9. DOMAIN rs \ DOMAIN x4 = (Len(x4) + 1)..(Len(x4) + n)
    BY <1>3, <1>4, <1>5
  <1> QED
    BY <1>2, <1>3, <1>4, <1>5, <1>6, <1>7, <1>8, <1>9

\* A new phase: another epoch, and no preview of it yet.
LEMMA PreviewRotates ==
    ASSUME NEW a \in P!ActorType
    PROVE  /\ P!Rotated(a) \in P!ActorType
           /\ P!Rotated(a).epoch = a.epoch + 1 /\ P!Rotated(a).active = a.active
           /\ P!Rotated(a).finishing = a.finishing /\ P!Rotated(a).retiring = a.retiring
  <1>1. a.epoch \in Nat /\ a.epoch + 1 \in Nat
    BY DEF P!ActorType
  <1>2. P!Rotated(a) = [a EXCEPT !.epoch = a.epoch + 1, !.waiting = FALSE, !.preview = 0, !.suppressed = FALSE]
    BY DEF P!Rotated
  <1> DEFINE e == a.epoch + 1
  <1>3. P!Rotated(a) \in P!ActorType
    <2>1. e \in Nat
      BY <1>1
    <2>2. P!Rotated(a) = [a EXCEPT !.epoch = e, !.waiting = FALSE, !.preview = 0, !.suppressed = FALSE]
      BY <1>2
    <2> HIDE DEF e
    <2> DEFINE b == [a EXCEPT !.epoch = e]
               c == [b EXCEPT !.waiting = FALSE]
               d == [c EXCEPT !.preview = 0]
    <2>3. b \in P!ActorType
      BY <2>1 DEF P!ActorType
    <2>4. P!Rotated(a) = [b EXCEPT !.waiting = FALSE, !.preview = 0, !.suppressed = FALSE]
      BY <2>2, <2>3 DEF P!ActorType
    <2> HIDE DEF b
    <2>5. c \in P!ActorType
      BY <2>3 DEF P!ActorType
    <2>6. P!Rotated(a) = [c EXCEPT !.preview = 0, !.suppressed = FALSE]
      BY <2>4, <2>5 DEF P!ActorType
    <2> HIDE DEF c
    <2>7. d \in P!ActorType
      BY <2>5 DEF P!ActorType
    <2>8. P!Rotated(a) = [d EXCEPT !.suppressed = FALSE]
      BY <2>6, <2>7 DEF P!ActorType
    <2> HIDE DEF d
    <2> QED
      BY <2>7, <2>8 DEF P!ActorType
  <1>4. /\ P!Rotated(a).epoch = a.epoch + 1 /\ P!Rotated(a).active = a.active
        /\ P!Rotated(a).finishing = a.finishing /\ P!Rotated(a).retiring = a.retiring
    BY <1>2 DEF P!ActorType
  <1> QED
    BY <1>3, <1>4

\* The empty boundary, and the last reply of any.
LEMMA BoundaryTypes ==
    /\ P!Open \in P!BoundaryType /\ ~P!Open.retired /\ P!Open.first = 0 /\ P!LastOf(P!Open) = 0
    /\ \A b \in P!BoundaryType : P!LastOf(b) \in Nat
  <1>1. P!Open \in P!BoundaryType /\ ~P!Open.retired /\ P!Open.first = 0 /\ P!LastOf(P!Open) = 0
    BY DEF P!Open, P!BoundaryType, P!LastOf
  <1>2. ASSUME NEW b \in P!BoundaryType PROVE P!LastOf(b) \in Nat
    <2>1. b.first \in Nat /\ b.parts \in Nat
      BY DEF P!BoundaryType
    <2>2. CASE b.parts = 0
      BY <2>2 DEF P!LastOf
    <2>3. CASE b.parts # 0
      <3>1. b.first + b.parts - 1 \in Nat
        BY <2>1, <2>3
      <3> QED
        BY <2>3, <3>1 DEF P!LastOf
    <2> QED
      BY <2>2, <2>3
  <1> QED
    BY <1>1, <1>2

\* The actor of a new run of the bridge.
LEMMA ActorsAreNew ==
    ASSUME NEW n \in Nat
    PROVE  /\ P!NewActor(n) \in P!ActorType /\ P!NewActor(n).active = None /\ ~P!NewActor(n).finishing
           /\ P!NewActor(n).epoch = n /\ P!NewActor(n).retiring = P!Open
  BY BoundaryTypes DEF P!NewActor, P!ActorType

\* What RetireProgressMessages does to the records.
LEMMA RecordsRetire ==
    ASSUME NEW rs \in SUBSET P!RecordType, NEW ms, NEW b \in P!BoundaryType
    PROVE  /\ P!Retired(rs, ms, b) \subseteq P!RecordType
           /\ \A r \in rs : \E q \in P!Retired(rs, ms, b) : q.msg = r.msg
           /\ \A q \in P!Retired(rs, ms, b) : \E r \in rs :
                /\ q.msg = r.msg /\ q.root = r.root
                /\ IF r.msg \in ms /\ ~r.retired
                     THEN q.retired /\ q.first = b.first /\ q.last = P!LastOf(b) ELSE q = r
  <1> DEFINE last == P!LastOf(b)
             e(r) == [r EXCEPT !.retired = TRUE, !.first = b.first, !.last = last]
             c(r) == IF r.msg \in ms /\ ~r.retired THEN e(r) ELSE r
  <1>1. b.first \in Nat /\ last \in Nat
    BY BoundaryTypes DEF P!BoundaryType
  <1>2. P!Retired(rs, ms, b) = {c(r) : r \in rs}
    BY DEF P!Retired
  <1> HIDE DEF last
  <1>3. ASSUME NEW r \in rs
        PROVE  /\ e(r) \in P!RecordType /\ e(r).msg = r.msg /\ e(r).root = r.root
               /\ e(r).retired /\ e(r).first = b.first /\ e(r).last = last
    BY <1>1 DEF P!RecordType
  <1> HIDE DEF e
  <1>4. ASSUME NEW r \in rs
        PROVE  /\ c(r) \in P!RecordType /\ c(r).msg = r.msg /\ c(r).root = r.root
               /\ IF r.msg \in ms /\ ~r.retired
                    THEN c(r).retired /\ c(r).first = b.first /\ c(r).last = last ELSE c(r) = r
    BY <1>3
  <1> HIDE DEF c
  <1> QED
    BY <1>2, <1>4 DEF last

\* What the retirement of the current preview does to the records and the requests.
LEMMA PreviewRetires ==
    ASSUME P!TypeOK, P!IdentitiesAgree, NEW b \in P!BoundaryType, b.retired, P!Retire(b)
    PROVE  /\ x5' \subseteq P!RecordType /\ x7' \subseteq P!SendType
           /\ \A r \in x5 : \E q \in x5' : q.msg = r.msg
           /\ \A q \in x5' : \E r \in x5 :
                /\ q.msg = r.msg /\ q.root = r.root
                /\ IF r.root = x9.active /\ ~r.retired
                     THEN q.retired /\ q.first = b.first /\ q.last = P!LastOf(b) ELSE q = r
           /\ \A x \in x7 : \E y \in x7' : y.created = x.created /\ y.msg = x.msg
           /\ \A y \in x7' : \E x \in x7 :
                /\ y.root = x.root /\ y.epoch = x.epoch /\ y.created = x.created
                /\ y.msg = x.msg /\ y.step = x.step /\ y.ok = x.ok
                /\ IF x.created /\ x.epoch = x9.epoch THEN y.retirement = b ELSE y = x
  <1> DEFINE ms == {r.msg : r \in {q \in x5 : q.root = x9.active}}
             e(x) == [x EXCEPT !.retirement = b]
             c(x) == IF x.created /\ x.epoch = x9.epoch THEN e(x) ELSE x
  <1>1. x5' = P!Retired(x5, ms, b) /\ x7' = {c(x) : x \in x7}
    BY DEF P!Retire
  <1>2. x5 \in SUBSET P!RecordType /\ x7 \subseteq P!SendType
    BY DEF P!TypeOK
  <1>3. \A r \in x5 : r.msg \in ms <=> r.root = x9.active
    BY DEF P!IdentitiesAgree
  <1> HIDE DEF ms
  <1>4. /\ x5' \subseteq P!RecordType
        /\ \A r \in x5 : \E q \in x5' : q.msg = r.msg
        /\ \A q \in x5' : \E r \in x5 :
             /\ q.msg = r.msg /\ q.root = r.root
             /\ IF r.msg \in ms /\ ~r.retired
                  THEN q.retired /\ q.first = b.first /\ q.last = P!LastOf(b) ELSE q = r
    BY <1>1, <1>2, RecordsRetire
  <1>5. ASSUME NEW x \in x7
        PROVE  /\ e(x) \in P!SendType /\ e(x).root = x.root /\ e(x).epoch = x.epoch
               /\ e(x).created = x.created /\ e(x).msg = x.msg /\ e(x).step = x.step /\ e(x).ok = x.ok
               /\ e(x).retirement = b
    BY <1>2 DEF P!SendType
  <1> HIDE DEF e
  <1>6. ASSUME NEW x \in x7
        PROVE  /\ c(x) \in P!SendType /\ c(x).root = x.root /\ c(x).epoch = x.epoch
               /\ c(x).created = x.created /\ c(x).msg = x.msg /\ c(x).step = x.step /\ c(x).ok = x.ok
               /\ IF x.created /\ x.epoch = x9.epoch THEN c(x).retirement = b ELSE c(x) = x
    BY <1>2, <1>5
  <1> HIDE DEF c
  <1>7. /\ x7' \subseteq P!SendType
        /\ \A x \in x7 : \E y \in x7' : y.created = x.created /\ y.msg = x.msg
        /\ \A y \in x7' : \E x \in x7 :
             /\ y.root = x.root /\ y.epoch = x.epoch /\ y.created = x.created
             /\ y.msg = x.msg /\ y.step = x.step /\ y.ok = x.ok
             /\ IF x.created /\ x.epoch = x9.epoch THEN y.retirement = b ELSE y = x
    BY <1>1, <1>6
  <1> QED
    BY <1>3, <1>4, <1>7

\* Replies that are there, and those to a current preview that is retired, stay as they are.
LEMMA SameReplies ==
    ASSUME x4' = x4
    PROVE  /\ \A t : P!Kept(t)' = P!Kept(t)
           /\ \A t, e : P!Bodies(t, e)' = P!Bodies(t, e)
  BY DEF P!Kept, P!Bodies

\* Replies of the current task are added behind those there are.
LEMMA RepliesExtend ==
    ASSUME P!TypeOK, x9.active \in Conversations, NEW n \in Nat, NEW body \in BOOLEAN,
           x4' = P!WithReplies(n, body)
    PROVE  /\ x4' \in Seq(P!RowType) /\ Len(x4) \in Nat
           /\ DOMAIN x4' = 1..(Len(x4) + n) /\ DOMAIN x4 = 1..Len(x4)
           /\ \A i \in DOMAIN x4 : x4'[i] = x4[i]
           /\ \A i \in DOMAIN x4' \ DOMAIN x4 :
                x4'[i].root = x9.active /\ x4'[i].epoch = x9.epoch /\ x4'[i].kept
           /\ \A t : P!Kept(t) \subseteq P!Kept(t)'
           /\ \A t, e : (t # x9.active \/ e # x9.epoch \/ ~body) => P!Bodies(t, e)' = P!Bodies(t, e)
           /\ \A t, e : P!Bodies(t, e)' \subseteq P!Bodies(t, e) \cup (DOMAIN x4' \ DOMAIN x4)
           /\ \A t : t = x9.active => DOMAIN x4' \ DOMAIN x4 \subseteq P!Kept(t)'
  <1>1. /\ x4' \in Seq(P!RowType) /\ Len(x4) \in Nat
        /\ DOMAIN x4' = 1..(Len(x4) + n) /\ DOMAIN x4 = 1..Len(x4)
        /\ \A i \in DOMAIN x4 : x4'[i] = x4[i]
        /\ \A i \in DOMAIN x4' \ DOMAIN x4 :
             /\ x4'[i].root = x9.active /\ x4'[i].epoch = x9.epoch /\ x4'[i].kept /\ x4'[i].body = body
    BY RepliesAreAppended
  <1>2. DOMAIN x4 \subseteq DOMAIN x4'
    BY <1>1
  <1>3. \A t : P!Kept(t) \subseteq P!Kept(t)'
    BY <1>1, <1>2 DEF P!Kept
  <1>4. ASSUME NEW t, NEW e, t # x9.active \/ e # x9.epoch \/ ~body
        PROVE  P!Bodies(t, e)' = P!Bodies(t, e)
    BY <1>1, <1>2, <1>4 DEF P!Bodies
  <1>5. \A t, e : P!Bodies(t, e)' \subseteq P!Bodies(t, e) \cup (DOMAIN x4' \ DOMAIN x4)
    BY <1>1, <1>2 DEF P!Bodies
  <1>6. \A t : t = x9.active => DOMAIN x4' \ DOMAIN x4 \subseteq P!Kept(t)'
    BY <1>1 DEF P!Kept
  <1> QED
    BY <1>1, <1>3, <1>4, <1>5, <1>6

\* A delivery changes the state of a reply that is still to be sent.
LEMMA ReplyIsDelivered ==
    ASSUME P!TypeOK, NEW i \in DOMAIN x4, x4[i].state = "pending", NEW s \in {"done", "failed"},
           x4' = [x4 EXCEPT ![i].state = s]
    PROVE  /\ x4' \in Seq(P!RowType) /\ DOMAIN x4' = DOMAIN x4
           /\ \A k \in DOMAIN x4 : /\ x4'[k].root = x4[k].root /\ x4'[k].epoch = x4[k].epoch
                                   /\ x4'[k].kept = x4[k].kept
                                   /\ x4[k].state = "done" => x4'[k].state = "done"
           /\ \A t : P!Kept(t)' = P!Kept(t)
           /\ \A t, e : P!Bodies(t, e)' = P!Bodies(t, e)
  <1> DEFINE r == [x4[i] EXCEPT !.state = s]
  <1>1. x4 \in Seq(P!RowType) /\ x4[i] \in P!RowType
    BY DEF P!TypeOK
  <1>2. r \in P!RowType /\ r.root = x4[i].root /\ r.epoch = x4[i].epoch /\ r.kept = x4[i].kept /\ r.body = x4[i].body
    BY <1>1 DEF P!RowType
  <1>3. x4' = [x4 EXCEPT ![i] = r]
    OBVIOUS
  <1> HIDE DEF r
  <1>4. x4' \in Seq(P!RowType) /\ DOMAIN x4' = DOMAIN x4
    <2>1. Len(x4) \in Nat /\ DOMAIN x4 = 1..Len(x4) /\ \A k \in 1..Len(x4) : x4[k] \in P!RowType
      BY <1>1
    <2> DEFINE c(k) == IF k = i THEN r ELSE x4[k]
    <2>2. x4' = [k \in 1..Len(x4) |-> c(k)]
      BY <1>3, <2>1
    <2>3. \A k \in 1..Len(x4) : c(k) \in P!RowType
      BY <1>2, <2>1
    <2> HIDE DEF c
    <2> DEFINE n == Len(x4)
    <2>4. n \in Nat
      BY <2>1
    <2> HIDE DEF n
    <2>5. [k \in 1..n |-> c(k)] \in Seq(P!RowType) /\ DOMAIN [k \in 1..n |-> c(k)] = 1..n
      BY <2>3, <2>4 DEF n
    <2> QED
      BY <2>1, <2>2, <2>5 DEF n
  <1>5. \A k \in DOMAIN x4 : x4'[k] = IF k = i THEN r ELSE x4[k]
    BY <1>1, <1>3
  <1>6. \A k \in DOMAIN x4 :
           /\ x4'[k].root = x4[k].root /\ x4'[k].epoch = x4[k].epoch /\ x4'[k].kept = x4[k].kept
           /\ x4'[k].body = x4[k].body
           /\ x4[k].state = "done" => x4'[k].state = "done"
    BY <1>2, <1>5
  <1>7. \A t : P!Kept(t)' = P!Kept(t)
    BY <1>4, <1>6 DEF P!Kept
  <1>8. \A t, e : P!Bodies(t, e)' = P!Bodies(t, e)
    BY <1>4, <1>6 DEF P!Bodies
  <1> QED
    BY <1>4, <1>6, <1>7, <1>8

\* Retention takes the replies of one root.
LEMMA RepliesArePruned ==
    ASSUME P!TypeOK, NEW t \in Conversations,
           x4' = [i \in DOMAIN x4 |-> IF x4[i].root = t THEN [x4[i] EXCEPT !.kept = FALSE] ELSE x4[i]]
    PROVE  /\ x4' \in Seq(P!RowType) /\ DOMAIN x4' = DOMAIN x4
           /\ \A i \in DOMAIN x4 :
                /\ x4'[i].root = x4[i].root /\ x4'[i].epoch = x4[i].epoch /\ x4'[i].state = x4[i].state
                /\ x4'[i].kept = (x4[i].kept /\ x4[i].root # t)
           /\ \A u : u # t => P!Kept(u)' = P!Kept(u)
           /\ \A u, e : P!Bodies(u, e)' = P!Bodies(u, e)
  <1> DEFINE o(r) == [r EXCEPT !.kept = FALSE]
             c(i) == IF x4[i].root = t THEN o(x4[i]) ELSE x4[i]
  <1>1. x4 \in Seq(P!RowType) /\ Len(x4) \in Nat /\ DOMAIN x4 = 1..Len(x4) /\ \A i \in DOMAIN x4 : x4[i] \in P!RowType
    BY DEF P!TypeOK
  <1>2. ASSUME NEW r \in P!RowType
        PROVE  /\ o(r) \in P!RowType /\ o(r).root = r.root /\ o(r).epoch = r.epoch /\ o(r).state = r.state
               /\ o(r).body = r.body /\ o(r).kept = FALSE
    BY DEF P!RowType
  <1>3. x4' = [i \in 1..Len(x4) |-> c(i)]
    BY <1>1
  <1> HIDE DEF o
  <1>4. \A i \in 1..Len(x4) : c(i) \in P!RowType
    BY <1>1, <1>2
  <1>5. x4' \in Seq(P!RowType) /\ DOMAIN x4' = DOMAIN x4
    <2> HIDE DEF c
    <2> DEFINE n == Len(x4)
    <2>1. n \in Nat /\ \A i \in 1..n : c(i) \in P!RowType
      BY <1>1, <1>4
    <2> HIDE DEF n
    <2>2. [i \in 1..n |-> c(i)] \in Seq(P!RowType) /\ DOMAIN [i \in 1..n |-> c(i)] = 1..n
      BY <2>1
    <2> QED
      BY <1>1, <1>3, <2>2 DEF n
  <1>6. \A i \in DOMAIN x4 :
           /\ x4'[i].root = x4[i].root /\ x4'[i].epoch = x4[i].epoch /\ x4'[i].state = x4[i].state
           /\ x4'[i].body = x4[i].body
           /\ x4'[i].kept = (x4[i].kept /\ x4[i].root # t)
    <2>1. \A r \in P!RowType : r.kept \in BOOLEAN
      BY DEF P!RowType
    <2> QED
      BY <1>1, <1>2, <1>3, <2>1
  <1>7. \A u : u # t => P!Kept(u)' = P!Kept(u)
    BY <1>5, <1>6 DEF P!Kept
  <1>8. \A u, e : P!Bodies(u, e)' = P!Bodies(u, e)
    BY <1>5, <1>6 DEF P!Bodies
  <1> QED
    BY <1>5, <1>6, <1>7, <1>8

\* A frozen boundary stays one: the replies it covers are kept, and its preview gets no
\* other.
LEMMA FrozenStays ==
    ASSUME P!TypeOK, P!RootsHaveBegun, x9'.epoch \in Nat, x9.epoch <= x9'.epoch,
           NEW t \in Conversations, NEW e \in Nat, NEW first, NEW last,
           P!Frozen(t, e, first, last),
           P!Over(t) => P!Over(t)',
           P!Kept(t) \subseteq P!Kept(t)',
           (t # x9.active \/ e # x9.epoch) => P!Bodies(t, e)' = P!Bodies(t, e)
    PROVE  P!Frozen(t, e, first, last)'
  <1>1. x9.epoch \in Nat
    BY DEF P!TypeOK, P!ActorType
  <1>2. P!Within(t, e, first, last) /\ (e < x9.epoch \/ P!Over(t))
    BY DEF P!Frozen
  <1>3. t # x9.active \/ e # x9.epoch
    <2>1. CASE P!Over(t)
      BY <2>1, PartsAssumption DEF P!RootsHaveBegun, P!Over
    <2>2. CASE e < x9.epoch
      BY <1>1, <2>2
    <2> QED
      BY <1>2, <2>1, <2>2
  <1>4. P!Bodies(t, e)' = P!Bodies(t, e)
    BY <1>3
  <1>5. P!Within(t, e, first, last)'
    BY <1>2, <1>4 DEF P!Within
  <1>6. e < x9'.epoch \/ P!Over(t)'
    BY <1>1, <1>2
  <1> QED
    BY <1>5, <1>6 DEF P!Frozen

\* No reply has a later epoch than the actor.
LEMMA EpochsAreReached ==
    ASSUME P!TypeOK, P!RootsHaveBegun, NEW t, NEW e \in Nat, e > x9.epoch
    PROVE  P!Bodies(t, e) = {}
  <1>1. \A i \in DOMAIN x4 : x4[i].epoch <= x9.epoch /\ x4[i].epoch \in Nat
    <2>1. \A i \in DOMAIN x4 : x4[i] \in P!RowType
      BY DEF P!TypeOK
    <2> QED
      BY <2>1 DEF P!RootsHaveBegun, P!RowType
  <1>2. x9.epoch \in Nat
    BY DEF P!TypeOK, P!ActorType
  <1> QED
    BY <1>1, <1>2 DEF P!Bodies

\* Without a boundary to retire a preview that has none has no replies yet.
LEMMA NothingPending ==
    ASSUME P!TypeOK, P!RootsHaveBegun, x9.retiring = P!Open, NEW t, NEW e
    PROVE  P!Pending(t, e) <=> P!Bodies(t, e) = {}
  <1>1. P!Bodies(t, e) \subseteq DOMAIN x4 /\ \A i \in DOMAIN x4 : i \in Nat /\ i > 0
    BY DEF P!Bodies, P!TypeOK
  <1>2. P!Within(t, e, 0, 0) <=> P!Bodies(t, e) = {}
    BY <1>1 DEF P!Within
  <1> QED
    BY <1>2, BoundaryTypes DEF P!Pending

\* The boundary b retires the current preview, and with it all previews of the task.
LEMMA RetirementHolds ==
    ASSUME P!PInv, x9.active \in Conversations,
           NEW b \in P!BoundaryType, b.retired, P!Retire(b),
           P!Within(x9.active, x9.epoch, b.first, P!LastOf(b)),
           x4' = x4, x6' = x6, \A t \in Conversations : P!Over(t) => P!Over(t)',
           x9'.epoch = x9.epoch + 1, x9'.retiring = P!Open, x9'.active \in {x9.active, None}
    PROVE  P!BoundariesHold'
  <1>i. P!TypeOK /\ P!RootsHaveBegun /\ P!IdentitiesAgree /\ P!BoundariesHold
    BY DEF P!PInv
  <1>e. x9.epoch \in Nat
    BY <1>i DEF P!TypeOK, P!ActorType
  <1>k. /\ \A t : P!Kept(t)' = P!Kept(t)
        /\ \A t, e : P!Bodies(t, e)' = P!Bodies(t, e)
    BY SameReplies
  <1>a. x9.active # None
    BY PartsAssumption
  <1>r. /\ \A q \in x5' : \E r \in x5 :
             /\ q.msg = r.msg /\ q.root = r.root
             /\ IF r.root = x9.active /\ ~r.retired
                  THEN q.retired /\ q.first = b.first /\ q.last = P!LastOf(b) ELSE q = r
        /\ \A y \in x7' : \E x \in x7 :
             /\ y.root = x.root /\ y.epoch = x.epoch /\ y.created = x.created
             /\ y.msg = x.msg /\ y.step = x.step /\ y.ok = x.ok
             /\ IF x.created /\ x.epoch = x9.epoch THEN y.retirement = b ELSE y = x
    BY <1>i, PreviewRetires
  <1>l. P!LastOf(P!Open) = 0 /\ P!Open.first = 0
    BY BoundaryTypes
  <1>w. ASSUME NEW t, t = x9.active, NEW e \in Nat, e <= x9.epoch, P!Pending(t, e)
        PROVE  P!Frozen(t, e, b.first, P!LastOf(b))'
    <2>1. IF b.first = 0 THEN P!LastOf(b) = 0 ELSE {b.first, P!LastOf(b)} \subseteq P!Kept(t)
      BY <1>w DEF P!Within
    <2>2. P!Within(t, e, b.first, P!LastOf(b))
      BY <1>w, <2>1 DEF P!Within, P!Pending
    <2>3. P!Within(t, e, b.first, P!LastOf(b))'
      BY <1>k, <2>2 DEF P!Within
    <2> QED
      BY <1>e, <1>w, <2>3 DEF P!Frozen
  <1>f. ASSUME NEW t \in Conversations, NEW e \in Nat, NEW first, NEW last, P!Frozen(t, e, first, last)
        PROVE  P!Frozen(t, e, first, last)'
    BY <1>i, <1>e, <1>k, <1>f, FrozenStays
  <1>1. x9'.active # None => P!Pending(x9.active, x9.epoch)'
    <2>1. \A t : P!Bodies(t, x9.epoch + 1) = {}
      BY <1>i, <1>e, EpochsAreReached
    <2>2. P!Bodies(x9.active, x9.epoch)' = {}
      BY <1>k, <2>1
    <2> QED
      BY <1>l, <2>2 DEF P!Pending, P!Within
  <1>2. \A y \in x7' : y.epoch <= x9.epoch /\ y.epoch # x9'.epoch
    BY <1>i, <1>e, <1>r DEF P!RootsHaveBegun, P!TypeOK, P!SendType
  <1>3. ASSUME NEW q \in x5'
        PROVE  IF q.retired THEN P!Frozen(q.root, x6[q.msg].epoch, q.first, q.last)'
               ELSE q.root = x9'.active => P!Pending(q.root, x6[q.msg].epoch)'
    <2>1. PICK r \in x5 :
            /\ q.msg = r.msg /\ q.root = r.root
            /\ IF r.root = x9.active /\ ~r.retired
                 THEN q.retired /\ q.first = b.first /\ q.last = P!LastOf(b) ELSE q = r
      BY <1>r
    <2>2. /\ q.root \in Conversations /\ x6[q.msg].epoch \in Nat /\ x6[q.msg].epoch <= x9.epoch
          /\ x6'[q.msg] = x6[q.msg]
      <3>1. q.root \in Conversations /\ q.msg \in DOMAIN x6
        BY <1>i, <2>1 DEF P!IdentitiesAgree, P!TypeOK, P!RecordType
      <3>2. x6[q.msg] \in P!PostType
        BY <1>i, <3>1 DEF P!TypeOK
      <3> QED
        BY <1>i, <3>1, <3>2 DEF P!RootsHaveBegun, P!PostType
    <2>3. CASE r.root = x9.active /\ ~r.retired
      <3>1. P!Pending(x9.active, x6[q.msg].epoch)
        BY <1>i, <2>1, <2>3 DEF P!BoundariesHold
      <3>2. P!Frozen(q.root, x6[q.msg].epoch, q.first, q.last)'
        BY <1>w, <2>1, <2>2, <2>3, <3>1
      <3> QED
        BY <2>1, <2>3, <3>2
    <2>4. CASE r.retired
      <3>1. q = r /\ P!Frozen(q.root, x6[q.msg].epoch, q.first, q.last)
        BY <1>i, <2>1, <2>4 DEF P!BoundariesHold
      <3> QED
        BY <1>f, <2>2, <2>4, <3>1
    <2>5. CASE r.root # x9.active /\ ~r.retired
      BY <2>1, <2>2, <2>5, PartsAssumption
    <2> QED
      BY <2>3, <2>4, <2>5
  <1>4. ASSUME NEW y \in x7', y.created
        PROVE  IF y.retirement.retired THEN P!Frozen(y.root, y.epoch, y.retirement.first, P!LastOf(y.retirement))'
               ELSE y.root = x9'.active => P!Pending(y.root, y.epoch)'
    <2>1. PICK x \in x7 :
            /\ y.root = x.root /\ y.epoch = x.epoch /\ y.created = x.created
            /\ IF x.created /\ x.epoch = x9.epoch THEN y.retirement = b ELSE y = x
      BY <1>r
    <2>2. y.root \in Conversations /\ y.epoch \in Nat /\ y.epoch <= x9.epoch
      BY <1>i, <2>1 DEF P!RootsHaveBegun, P!TypeOK, P!SendType
    <2>3. CASE x.epoch = x9.epoch
      <3>1. y.root = x9.active /\ y.retirement = b
        BY <1>i, <1>a, <1>4, <2>1, <2>3 DEF P!BoundariesHold
      <3>2. P!Pending(x9.active, y.epoch)
        BY <1>i, <1>a, <2>1, <2>3 DEF P!BoundariesHold
      <3> QED
        BY <1>w, <2>2, <3>1, <3>2
    <2>4. CASE x.epoch # x9.epoch
      <3>1. y = x
        BY <2>1, <2>4
      <3>2. CASE y.retirement.retired
        BY <1>i, <1>f, <1>4, <2>2, <3>1, <3>2 DEF P!BoundariesHold
      <3>3. ASSUME ~y.retirement.retired, y.root = x9'.active PROVE P!Pending(y.root, y.epoch)'
        <4>1. y.root = x9.active
          BY <2>2, <3>3, PartsAssumption
        <4>2. P!Pending(y.root, y.epoch)
          BY <1>i, <1>4, <3>1, <3>3, <4>1 DEF P!BoundariesHold
        <4>3. P!Bodies(y.root, y.epoch) = {}
          BY <2>4, <3>1, <4>2 DEF P!Pending
        <4> QED
          BY <1>2, <1>k, <4>3 DEF P!Pending
      <3> QED
        BY <3>2, <3>3
    <2> QED
      BY <2>3, <2>4
  <1> QED
    BY <1>1, <1>2, <1>3, <1>4 DEF P!BoundariesHold

\* A record has the place and the epoch of its preview.
LEMMA RecordsArePlaced ==
    ASSUME P!TypeOK, P!RootsHaveBegun, P!IdentitiesAgree, NEW r \in x5
    PROVE  /\ r.root \in Conversations /\ r.msg \in DOMAIN x6
           /\ x6[r.msg].epoch \in Nat /\ x6[r.msg].epoch <= x9.epoch
  <1>1. r.root \in Conversations /\ r.msg \in DOMAIN x6
    BY DEF P!IdentitiesAgree, P!TypeOK, P!RecordType
  <1>2. x6[r.msg] \in P!PostType
    BY <1>1 DEF P!TypeOK
  <1> QED
    BY <1>1, <1>2 DEF P!RootsHaveBegun, P!PostType

\* A step that writes no reply and leaves task and epoch keeps the boundaries.
LEMMA BoundariesStay ==
    ASSUME P!PInv, x5' \subseteq x5,
           \A y \in x7' :
              \/ \E x \in x7 : /\ y.root = x.root /\ y.epoch = x.epoch /\ y.created = x.created
                               /\ y.retirement = x.retirement
              \/ y.root = x9.active /\ y.epoch = x9.epoch /\ ~y.retirement.retired,
           \A m \in DOMAIN x6 : x6'[m].epoch = x6[m].epoch,
           x9'.active = x9.active, x9'.epoch = x9.epoch, x9'.retiring = x9.retiring,
           \A t \in Conversations : P!Over(t) => P!Over(t)',
           \A t, e : P!Bodies(t, e)' = P!Bodies(t, e),
           \A t : \/ P!Kept(t) \subseteq P!Kept(t)'
                  \/ t # x9.active /\ (\A r \in x5 : r.root # t) /\ \A x \in x7 : x.root # t
    PROVE  P!BoundariesHold'
  <1>i. P!TypeOK /\ P!RootsHaveBegun /\ P!IdentitiesAgree /\ P!BoundariesHold
    BY DEF P!PInv
  <1>e. x9.epoch \in Nat
    BY <1>i DEF P!TypeOK, P!ActorType
  <1>f. ASSUME NEW t \in Conversations, NEW e \in Nat, NEW first, NEW last, P!Frozen(t, e, first, last),
               P!Kept(t) \subseteq P!Kept(t)'
        PROVE  P!Frozen(t, e, first, last)'
    BY <1>i, <1>e, <1>f, FrozenStays
  <1>p. ASSUME NEW t, t = x9.active, NEW e, P!Pending(t, e)
        PROVE  P!Pending(t, e)'
    <2>1. P!Kept(t) \subseteq P!Kept(t)'
      BY <1>p
    <2>2. CASE e = x9.epoch
      BY <1>p, <2>1, <2>2 DEF P!Pending, P!Within
    <2>3. CASE e # x9.epoch
      BY <1>p, <2>3 DEF P!Pending
    <2> QED
      BY <2>2, <2>3
  <1>1. x9'.active # None => P!Pending(x9.active, x9.epoch)'
    <2>1. x9.active # None => P!Pending(x9.active, x9.epoch)
      BY <1>i DEF P!BoundariesHold
    <2>2. ASSUME NEW t, t = x9.active, NEW e, e = x9.epoch, x9.active # None PROVE P!Pending(t, e)'
      BY <1>p, <2>1, <2>2
    <2> QED
      BY <2>2
  <1>2. x9'.active # None => \A y \in x7' : y.epoch = x9'.epoch => y.root = x9'.active
    BY <1>i DEF P!BoundariesHold
  <1>3. ASSUME NEW r \in x5'
        PROVE  IF r.retired THEN P!Frozen(r.root, x6[r.msg].epoch, r.first, r.last)'
               ELSE r.root = x9'.active => P!Pending(r.root, x6[r.msg].epoch)'
    <2>1. r \in x5 /\ r.root \in Conversations /\ x6[r.msg].epoch \in Nat /\ x6'[r.msg].epoch = x6[r.msg].epoch
      BY <1>i, RecordsArePlaced
    <2>2. P!Kept(r.root) \subseteq P!Kept(r.root)'
      BY <2>1
    <2>3. CASE r.retired
      BY <1>i, <1>f, <2>1, <2>2, <2>3 DEF P!BoundariesHold
    <2>4. CASE ~r.retired
      BY <1>i, <1>p, <2>1, <2>4 DEF P!BoundariesHold
    <2> QED
      BY <2>3, <2>4
  <1>4. ASSUME NEW y \in x7', y.created
        PROVE  IF y.retirement.retired THEN P!Frozen(y.root, y.epoch, y.retirement.first, P!LastOf(y.retirement))'
               ELSE y.root = x9'.active => P!Pending(y.root, y.epoch)'
    <2>1. CASE y.root = x9.active /\ y.epoch = x9.epoch /\ ~y.retirement.retired
      <3>1. ASSUME x9.active # None PROVE P!Pending(y.root, y.epoch)
        BY <1>i, <2>1, <3>1 DEF P!BoundariesHold
      <3>2. ASSUME x9.active = None PROVE P!Pending(y.root, y.epoch)
        <4>1. P!Pending(y.root, y.epoch) <=> P!Bodies(y.root, y.epoch) = {}
          BY <1>i, <3>2, NothingPending DEF P!RootsHaveBegun
        <4>2. P!Bodies(y.root, y.epoch) = {}
          <5>1. \A i \in DOMAIN x4 : x4[i] \in P!RowType
            BY <1>i DEF P!TypeOK
          <5> QED
            BY <2>1, <3>2, <5>1, PartsAssumption DEF P!Bodies, P!RowType
        <4> QED
          BY <4>1, <4>2
      <3> QED
        BY <1>p, <2>1, <3>1, <3>2
    <2>2. ASSUME NEW x \in x7, y.root = x.root /\ y.epoch = x.epoch /\ y.created = x.created,
                 y.retirement = x.retirement
          PROVE  IF y.retirement.retired
                   THEN P!Frozen(y.root, y.epoch, y.retirement.first, P!LastOf(y.retirement))'
                   ELSE y.root = x9'.active => P!Pending(y.root, y.epoch)'
      <3>1. y.root \in Conversations /\ y.epoch \in Nat /\ P!Kept(y.root) \subseteq P!Kept(y.root)'
        BY <1>i, <2>2 DEF P!TypeOK, P!SendType
      <3>2. CASE y.retirement.retired
        BY <1>i, <1>f, <1>4, <2>2, <3>1, <3>2 DEF P!BoundariesHold
      <3>3. CASE ~y.retirement.retired
        BY <1>i, <1>p, <1>4, <2>2, <3>1, <3>3 DEF P!BoundariesHold
      <3> QED
        BY <3>2, <3>3
    <2> QED
      BY <2>1, <2>2
  <1> QED
    BY <1>1, <1>2, <1>3, <1>4 DEF P!BoundariesHold

\* A step to the next epoch keeps them, and so does the end of a task.
LEMMA BoundariesRotate ==
    ASSUME P!PInv, x5' = x5, x7' \subseteq x7,
           \A m \in DOMAIN x6 : x6'[m].epoch = x6[m].epoch,
           x9'.epoch \in Nat, x9.epoch <= x9'.epoch, x9'.retiring = P!Open,
           \A t \in Conversations : P!Over(t) => P!Over(t)',
           \A t : P!Kept(t) \subseteq P!Kept(t)',
           \A t, e : (t # x9.active \/ e # x9.epoch) => P!Bodies(t, e)' = P!Bodies(t, e),
           \/ x9'.active = None
           \/ /\ x9.retiring = P!Open /\ x9'.epoch = x9.epoch + 1
              /\ \A t, e : P!Bodies(t, e)' = P!Bodies(t, e)
              /\ x9'.active = x9.active \/ x3[x9'.active] = "new"
    PROVE  P!BoundariesHold'
  <1>i. P!TypeOK /\ P!RootsHaveBegun /\ P!IdentitiesAgree /\ P!BoundariesHold
    BY DEF P!PInv
  <1>e. x9.epoch \in Nat
    BY <1>i DEF P!TypeOK, P!ActorType
  <1>f. ASSUME NEW t \in Conversations, NEW e \in Nat, NEW first, NEW last, P!Frozen(t, e, first, last)
        PROVE  P!Frozen(t, e, first, last)'
    BY <1>i, <1>e, <1>f, FrozenStays
  <1>l. P!LastOf(P!Open) = 0 /\ P!Open.first = 0
    BY BoundaryTypes
  <1>s. \A x \in x7 : x.root \in Conversations /\ x.epoch \in Nat /\ x.epoch <= x9.epoch
    BY <1>i DEF P!RootsHaveBegun, P!TypeOK, P!SendType
  <1>n. CASE x9'.active = None
    <2>1. ASSUME NEW r \in x5'
          PROVE  /\ r.root # None
                 /\ r.retired => P!Frozen(r.root, x6[r.msg].epoch, r.first, r.last)'
      <3>1. r \in x5 /\ r.root \in Conversations /\ x6[r.msg].epoch \in Nat /\ x6'[r.msg].epoch = x6[r.msg].epoch
        BY <1>i, RecordsArePlaced
      <3>2. ASSUME r.retired PROVE P!Frozen(r.root, x6[r.msg].epoch, r.first, r.last)'
        BY <1>i, <1>f, <3>1, <3>2 DEF P!BoundariesHold
      <3> QED
        BY <3>1, <3>2, PartsAssumption
    <2>2. ASSUME NEW x \in x7', x.created
          PROVE  /\ x.root # None
                 /\ x.retirement.retired =>
                      P!Frozen(x.root, x.epoch, x.retirement.first, P!LastOf(x.retirement))'
      <3>1. ASSUME x.retirement.retired
            PROVE  P!Frozen(x.root, x.epoch, x.retirement.first, P!LastOf(x.retirement))'
        BY <1>i, <1>f, <1>s, <2>2, <3>1 DEF P!BoundariesHold
      <3> QED
        BY <1>s, <3>1, PartsAssumption
    <2> QED
      BY <1>n, <2>1, <2>2 DEF P!BoundariesHold
  <1>a. CASE /\ x9'.active # None
             /\ x9.retiring = P!Open /\ x9'.epoch = x9.epoch + 1
             /\ \A t, e : P!Bodies(t, e)' = P!Bodies(t, e)
             /\ x9'.active = x9.active \/ x3[x9'.active] = "new"
    <2>p. ASSUME NEW t, t = x9'.active, NEW e \in Nat, e <= x9.epoch, t = x9.active => P!Pending(t, e),
                 x3[t] # "new"
          PROVE  P!Pending(t, e)'
      <3>1. P!Bodies(t, e) = {}
        BY <1>i, <1>a, <2>p, NothingPending
      <3> QED
        BY <1>a, <1>e, <2>p, <3>1 DEF P!Pending
    <2>1. P!Pending(x9.active, x9.epoch)'
      <3>1. \A t : P!Bodies(t, x9.epoch + 1) = {}
        BY <1>i, <1>e, EpochsAreReached
      <3>2. P!Bodies(x9.active, x9.epoch)' = {}
        BY <1>a, <3>1
      <3> QED
        BY <1>a, <1>l, <3>2 DEF P!Pending, P!Within
    <2>2. \A x \in x7' : x.epoch # x9'.epoch
      BY <1>a, <1>e, <1>s
    <2>3. ASSUME NEW r \in x5'
          PROVE  IF r.retired THEN P!Frozen(r.root, x6[r.msg].epoch, r.first, r.last)'
                 ELSE r.root = x9'.active => P!Pending(r.root, x6[r.msg].epoch)'
      <3>1. /\ r \in x5 /\ r.root \in Conversations /\ x6[r.msg].epoch \in Nat /\ x6[r.msg].epoch <= x9.epoch
            /\ x6'[r.msg].epoch = x6[r.msg].epoch
        BY <1>i, RecordsArePlaced
      <3>2. CASE r.retired
        BY <1>i, <1>f, <3>1, <3>2 DEF P!BoundariesHold
      <3>3. ASSUME ~r.retired, r.root = x9'.active PROVE P!Pending(r.root, x6[r.msg].epoch)'
        <4>1. x3[r.root] # "new"
          BY <1>i, <3>1 DEF P!RootsHaveBegun
        <4>2. r.root = x9.active => P!Pending(r.root, x6[r.msg].epoch)
          BY <1>i, <3>1, <3>3 DEF P!BoundariesHold
        <4> QED
          BY <2>p, <3>1, <3>3, <4>1, <4>2
      <3> QED
        BY <3>2, <3>3
    <2>4. ASSUME NEW x \in x7', x.created
          PROVE  IF x.retirement.retired
                   THEN P!Frozen(x.root, x.epoch, x.retirement.first, P!LastOf(x.retirement))'
                   ELSE x.root = x9'.active => P!Pending(x.root, x.epoch)'
      <3>1. CASE x.retirement.retired
        BY <1>i, <1>f, <1>s, <2>4, <3>1 DEF P!BoundariesHold
      <3>2. ASSUME ~x.retirement.retired, x.root = x9'.active PROVE P!Pending(x.root, x.epoch)'
        <4>1. x3[x.root] # "new"
          BY <1>i DEF P!RootsHaveBegun
        <4>2. x.root = x9.active => P!Pending(x.root, x.epoch)
          BY <1>i, <2>4, <3>2 DEF P!BoundariesHold
        <4> QED
          BY <1>s, <2>p, <3>2, <4>1, <4>2
      <3> QED
        BY <3>1, <3>2
    <2> QED
      BY <2>1, <2>2, <2>3, <2>4 DEF P!BoundariesHold
  <1> QED
    BY <1>n, <1>a

\* What was about to be deleted still is.
LEMMA DoomedStay ==
    ASSUME P!PInv, x8' \subseteq x8,
           \A m \in x8 : x6'[m].root = x6[m].root /\ x6'[m].epoch = x6[m].epoch,
           x9'.epoch \in Nat, x9.epoch <= x9'.epoch,
           \A t \in Conversations : P!Over(t) => P!Over(t)',
           \A t, e : (t # x9.active \/ e # x9.epoch) => P!Bodies(t, e)' = P!Bodies(t, e),
           \A i : P!Delivered(i) /\ i \in DOMAIN x4 => P!Delivered(i)'
    PROVE  P!DoomedAreOver'
  <1>i. P!TypeOK /\ P!RootsHaveBegun /\ P!DoomedAreOver
    BY DEF P!PInv
  <1>e. x9.epoch \in Nat
    BY <1>i DEF P!TypeOK, P!ActorType
  <1>1. ASSUME NEW m \in x8'
        PROVE  /\ \A i \in P!Bodies(x6[m].root, x6[m].epoch)' : P!Delivered(i)'
               /\ x6'[m].epoch < x9'.epoch \/ P!Over(x6[m].root)'
    <2> DEFINE t == x6[m].root
               e == x6[m].epoch
    <2>1. /\ x6'[m].root = t /\ x6'[m].epoch = e /\ t \in Conversations /\ e \in Nat
      <3>1. x6[m] \in P!PostType
        BY <1>i DEF P!TypeOK
      <3> QED
        BY <3>1 DEF P!PostType
    <2>2. /\ \A i \in P!Bodies(t, e) : P!Delivered(i)
          /\ e < x9.epoch \/ P!Over(t)
      BY <1>i DEF P!DoomedAreOver
    <2> HIDE DEF t, e
    <2>3. t # x9.active \/ e # x9.epoch
      <3>1. CASE P!Over(t)
        BY <1>i, <2>1, <3>1, PartsAssumption DEF P!RootsHaveBegun, P!Over
      <3>2. CASE e < x9.epoch
        BY <1>e, <2>1, <3>2
      <3> QED
        BY <2>2, <3>1, <3>2
    <2>4. \A i \in P!Bodies(x6[m].root, x6[m].epoch)' : P!Delivered(i)'
      <3>1. \A u, f : u = t /\ f = e => P!Bodies(u, f)' = P!Bodies(t, e)
        BY <2>3
      <3>2. P!Bodies(t, e) \subseteq DOMAIN x4
        BY DEF P!Bodies
      <3> QED
        BY <2>1, <2>2, <3>1, <3>2
    <2>5. x6'[m].epoch < x9'.epoch \/ P!Over(x6[m].root)'
      BY <1>e, <2>1, <2>2
    <2> QED
      BY <2>4, <2>5
  <1> QED
    BY <1>1 DEF P!DoomedAreOver

\* What recordProgressMessage adds: the preview of a confirmed request, with the boundary
\* the request has been given meanwhile.
LEMMA PreviewIsRecorded ==
    ASSUME P!TypeOK, P!IdentitiesAgree, NEW x \in x7, x5' = P!Recorded(x)
    PROVE  /\ x5' \subseteq P!RecordType
           /\ \A r \in x5 : \E q \in x5' : q.msg = r.msg
           /\ x.created /\ x.ok => \E q \in x5' : q.msg = x.msg
           /\ \A q \in x5' :
                \/ q \in x5
                \/ /\ x.created /\ x.msg \in DOMAIN x6 /\ x6[x.msg].root = x.root /\ x6[x.msg].epoch = x.epoch
                   /\ q.msg = x.msg /\ q.root = x.root
                   /\ \/ q.retired /\ x.retirement.retired
                         /\ q.first = x.retirement.first /\ q.last = P!LastOf(x.retirement)
                      \/ ~q.retired /\ ~x.retirement.retired
  <1> DEFINE n == [msg |-> x.msg, root |-> x.root, retired |-> FALSE, first |-> 0, last |-> 0]
             all == x5 \cup {n}
  <1>1. x5 \in SUBSET P!RecordType /\ x \in P!SendType /\ x.retirement \in P!BoundaryType
    BY DEF P!TypeOK, P!SendType
  <1>2. n \in P!RecordType /\ n.msg = x.msg /\ n.root = x.root /\ ~n.retired
    BY <1>1 DEF P!SendType, P!RecordType
  <1>3. x.created /\ x.ok => x.msg \in DOMAIN x6 /\ x6[x.msg].root = x.root /\ x6[x.msg].epoch = x.epoch
    BY DEF P!IdentitiesAgree
  <1>4. x5' = IF x.created /\ x.ok
                THEN IF x.retirement.retired THEN P!Retired(all, {x.msg}, x.retirement) ELSE all
                ELSE x5
    BY DEF P!Recorded
  <1>5. \A r \in x5 : r.root = x6[r.msg].root
    BY DEF P!IdentitiesAgree
  <1> HIDE DEF n
  <1>6. CASE ~(x.created /\ x.ok)
    BY <1>1, <1>4, <1>6
  <1>7. CASE x.created /\ x.ok /\ ~x.retirement.retired
    BY <1>1, <1>2, <1>3, <1>4, <1>7
  <1>8. CASE x.created /\ x.ok /\ x.retirement.retired
    <2>1. all \in SUBSET P!RecordType
      BY <1>1, <1>2
    <2>2. x5' = P!Retired(all, {x.msg}, x.retirement)
      BY <1>4, <1>8
    <2> HIDE DEF all
    <2>3. /\ x5' \subseteq P!RecordType
          /\ \A r \in all : \E q \in x5' : q.msg = r.msg
          /\ \A q \in x5' : \E r \in all :
               /\ q.msg = r.msg /\ q.root = r.root
               /\ IF r.msg \in {x.msg} /\ ~r.retired
                    THEN q.retired /\ q.first = x.retirement.first /\ q.last = P!LastOf(x.retirement) ELSE q = r
      BY <1>1, <2>1, <2>2, RecordsRetire
    <2>4. \A r \in x5 : r \in all
      BY DEF all
    <2>5. n \in all /\ \A r \in all : r \in x5 \/ r = n
      BY DEF all
    <2>6. ASSUME NEW q \in x5', q \notin x5
          PROVE  /\ q.msg = x.msg /\ q.root = x.root
                 /\ q.retired /\ q.first = x.retirement.first /\ q.last = P!LastOf(x.retirement)
      <3>1. PICK r \in all :
              /\ q.msg = r.msg /\ q.root = r.root
              /\ IF r.msg \in {x.msg} /\ ~r.retired
                   THEN q.retired /\ q.first = x.retirement.first /\ q.last = P!LastOf(x.retirement) ELSE q = r
        BY <2>3
      <3>2. r.msg = x.msg /\ ~r.retired
        BY <1>2, <2>5, <2>6, <3>1
      <3>3. r.root = x.root
        BY <1>2, <1>3, <1>5, <1>8, <2>5, <3>2
      <3> QED
        BY <3>1, <3>2, <3>3
    <2>7. \E q \in x5' : q.msg = x.msg
      BY <1>2, <2>3, <2>5
    <2> QED
      BY <1>3, <1>8, <2>3, <2>4, <2>6, <2>7
  <1> QED
    BY <1>6, <1>7, <1>8

\* A result that is recorded keeps the boundaries, whether the actor takes it or its own
\* goroutine.
LEMMA RecordingHolds ==
    ASSUME P!PInv, NEW x \in x7, x5' = P!Recorded(x), x7' = x7 \ {x},
           x3' = x3, x4' = x4, x6' = x6,
           x9'.active = x9.active, x9'.retiring = x9.retiring,
           x9'.epoch \in Nat, x9.epoch <= x9'.epoch, x9.active # None => x9'.epoch = x9.epoch
    PROVE  P!BoundariesHold'
  <1>i. P!TypeOK /\ P!RootsHaveBegun /\ P!IdentitiesAgree /\ P!BoundariesHold
    BY DEF P!PInv
  <1>k. /\ \A t : P!Kept(t)' = P!Kept(t)
        /\ \A t, e : P!Bodies(t, e)' = P!Bodies(t, e)
        /\ \A t : P!Over(t)' = P!Over(t)
    BY SameReplies DEF P!Over
  <1>f. ASSUME NEW t \in Conversations, NEW e \in Nat, NEW first, NEW last, P!Frozen(t, e, first, last)
        PROVE  P!Frozen(t, e, first, last)'
    BY <1>i, <1>k, <1>f, FrozenStays
  <1>p. ASSUME NEW t, NEW e, P!Pending(t, e), x9.active # None
        PROVE  P!Pending(t, e)'
    <2>1. CASE e = x9.epoch
      BY <1>p, <1>k, <2>1 DEF P!Pending, P!Within
    <2>2. CASE e # x9.epoch
      BY <1>p, <1>k, <2>2 DEF P!Pending
    <2> QED
      BY <2>1, <2>2
  <1>s. \A y \in x7 : y.root \in Conversations /\ y.epoch \in Nat
    BY <1>i DEF P!TypeOK, P!SendType
  <1>r. \A q \in x5' :
          \/ q \in x5
          \/ /\ x.created /\ x.msg \in DOMAIN x6 /\ x6[x.msg].root = x.root /\ x6[x.msg].epoch = x.epoch
             /\ q.msg = x.msg /\ q.root = x.root
             /\ \/ q.retired /\ x.retirement.retired
                   /\ q.first = x.retirement.first /\ q.last = P!LastOf(x.retirement)
                \/ ~q.retired /\ ~x.retirement.retired
    BY <1>i, PreviewIsRecorded
  <1>1. x9'.active # None => P!Pending(x9.active, x9.epoch)'
    <2>1. x9.active # None => P!Pending(x9.active, x9.epoch)
      BY <1>i DEF P!BoundariesHold
    <2>2. ASSUME NEW t, t = x9.active, NEW e, e = x9.epoch, x9.active # None PROVE P!Pending(t, e)'
      BY <1>p, <2>1, <2>2
    <2> QED
      BY <2>2
  <1>2. x9'.active # None => \A y \in x7' : y.epoch = x9'.epoch => y.root = x9'.active
    BY <1>i DEF P!BoundariesHold
  <1>3. ASSUME NEW q \in x5'
        PROVE  IF q.retired THEN P!Frozen(q.root, x6[q.msg].epoch, q.first, q.last)'
               ELSE q.root = x9'.active => P!Pending(q.root, x6[q.msg].epoch)'
    <2>1. CASE q \in x5
      <3>1. q.root \in Conversations /\ x6[q.msg].epoch \in Nat
        BY <1>i, <2>1, RecordsArePlaced
      <3>2. CASE q.retired
        BY <1>i, <1>f, <2>1, <3>1, <3>2 DEF P!BoundariesHold
      <3>3. ASSUME ~q.retired, q.root = x9'.active PROVE P!Pending(q.root, x6[q.msg].epoch)'
        BY <1>i, <1>p, <2>1, <3>1, <3>3, PartsAssumption DEF P!BoundariesHold
      <3> QED
        BY <3>2, <3>3
    <2>2. CASE /\ x.created /\ x.msg \in DOMAIN x6 /\ x6[x.msg].root = x.root /\ x6[x.msg].epoch = x.epoch
               /\ q.msg = x.msg /\ q.root = x.root
               /\ \/ q.retired /\ x.retirement.retired
                     /\ q.first = x.retirement.first /\ q.last = P!LastOf(x.retirement)
                  \/ ~q.retired /\ ~x.retirement.retired
      <3>1. x6[q.msg].epoch = x.epoch /\ x6'[q.msg].epoch = x.epoch
        BY <2>2
      <3>2. CASE q.retired
        <4>1. P!Frozen(x.root, x.epoch, q.first, q.last)
          BY <1>i, <2>2, <3>2 DEF P!BoundariesHold
        <4> QED
          BY <1>f, <1>s, <2>2, <3>1, <3>2, <4>1
      <3>3. ASSUME ~q.retired, q.root = x9'.active PROVE P!Pending(q.root, x6[q.msg].epoch)'
        <4>1. P!Pending(x.root, x.epoch)
          BY <1>i, <2>2, <3>3 DEF P!BoundariesHold
        <4> QED
          BY <1>p, <1>s, <2>2, <3>1, <3>3, <4>1, PartsAssumption
      <3> QED
        BY <3>2, <3>3
    <2> QED
      BY <1>r, <2>1, <2>2
  <1>4. ASSUME NEW y \in x7', y.created
        PROVE  IF y.retirement.retired THEN P!Frozen(y.root, y.epoch, y.retirement.first, P!LastOf(y.retirement))'
               ELSE y.root = x9'.active => P!Pending(y.root, y.epoch)'
    <2>1. y \in x7
      OBVIOUS
    <2>2. CASE y.retirement.retired
      BY <1>i, <1>f, <1>s, <1>4, <2>1, <2>2 DEF P!BoundariesHold
    <2>3. ASSUME ~y.retirement.retired, y.root = x9'.active PROVE P!Pending(y.root, y.epoch)'
      BY <1>i, <1>p, <1>s, <1>4, <2>1, <2>3, PartsAssumption DEF P!BoundariesHold
    <2> QED
      BY <2>2, <2>3
  <1> QED
    BY <1>1, <1>2, <1>3, <1>4 DEF P!BoundariesHold

\* What the types say of roots and epochs.
LEMMA PlacesAreTyped ==
    ASSUME P!TypeOK
    PROVE  /\ \A i \in DOMAIN x4 : x4[i].root \in Conversations /\ x4[i].epoch \in Nat
           /\ \A m \in DOMAIN x6 : x6[m].root \in Conversations /\ x6[m].epoch \in Nat
           /\ \A r \in x5 : r.root \in Conversations
           /\ \A x \in x7 : x.root \in Conversations /\ x.epoch \in Nat
  <1>1. \A i \in DOMAIN x4 : x4[i] \in P!RowType
    BY DEF P!TypeOK
  <1>2. \A m \in DOMAIN x6 : x6[m] \in P!PostType
    BY DEF P!TypeOK
  <1> QED
    BY <1>1, <1>2 DEF P!TypeOK, P!RowType, P!PostType, P!RecordType, P!SendType

\* What a deletion does to the messages Telegram shows.
LEMMA PostChanges ==
    ASSUME P!TypeOK, NEW m \in DOMAIN x6, NEW s \in {"gone", "stuck"}, x6' = [x6 EXCEPT ![m].state = s]
    PROVE  /\ x6' \in Seq(P!PostType) /\ DOMAIN x6' = DOMAIN x6
           /\ \A k \in DOMAIN x6 : x6'[k].root = x6[k].root /\ x6'[k].epoch = x6[k].epoch
           /\ x6'[m].state = s
           /\ \A k \in DOMAIN x6 : k # m => x6'[k] = x6[k]
  <1> DEFINE p == [x6[m] EXCEPT !.state = s]
  <1>1. x6 \in Seq(P!PostType) /\ x6[m] \in P!PostType
    BY DEF P!TypeOK
  <1>2. p \in P!PostType /\ p.root = x6[m].root /\ p.epoch = x6[m].epoch /\ p.state = s
    BY <1>1 DEF P!PostType
  <1>3. x6' = [x6 EXCEPT ![m] = p]
    OBVIOUS
  <1> HIDE DEF p
  <1>4. x6' \in Seq(P!PostType) /\ DOMAIN x6' = DOMAIN x6
    <2> DEFINE c(k) == IF k = m THEN p ELSE x6[k]
               n == Len(x6)
    <2>1. n \in Nat /\ DOMAIN x6 = 1..n /\ \A k \in 1..n : x6[k] \in P!PostType
      BY <1>1
    <2>2. x6' = [k \in 1..n |-> c(k)]
      BY <1>3, <2>1
    <2>3. \A k \in 1..n : c(k) \in P!PostType
      BY <1>2, <2>1
    <2> HIDE DEF c, n
    <2>4. [k \in 1..n |-> c(k)] \in Seq(P!PostType) /\ DOMAIN [k \in 1..n |-> c(k)] = 1..n
      BY <2>1, <2>3
    <2> QED
      BY <2>1, <2>2, <2>4
  <1> QED
    BY <1>1, <1>2, <1>3, <1>4

\* What a crash does to them: it forgets those that no record names.
LEMMA PostsAreForgotten ==
    ASSUME P!TypeOK,
           x6' = [m \in DOMAIN x6 |-> [x6[m] EXCEPT !.known = x6[m].known /\ \E r \in x5 : r.msg = m]]
    PROVE  /\ x6' \in Seq(P!PostType) /\ DOMAIN x6' = DOMAIN x6
           /\ \A m \in DOMAIN x6 :
                /\ x6'[m].root = x6[m].root /\ x6'[m].epoch = x6[m].epoch /\ x6'[m].state = x6[m].state
                /\ x6'[m].known => \E r \in x5 : r.msg = m
  <1> DEFINE recorded(m) == \E r \in x5 : r.msg = m
             c(m) == [x6[m] EXCEPT !.known = x6[m].known /\ recorded(m)]
             n == Len(x6)
  <1>1. x6 \in Seq(P!PostType) /\ n \in Nat /\ DOMAIN x6 = 1..n /\ \A m \in 1..n : x6[m] \in P!PostType
    BY DEF P!TypeOK
  <1>2. x6' = [m \in 1..n |-> c(m)]
    BY <1>1
  <1>r. \A m : recorded(m) <=> \E r \in x5 : r.msg = m
    OBVIOUS
  <1> HIDE DEF recorded
  <1>3. ASSUME NEW m \in 1..n
        PROVE  /\ c(m) \in P!PostType
               /\ c(m).root = x6[m].root /\ c(m).epoch = x6[m].epoch /\ c(m).state = x6[m].state
               /\ c(m).known => recorded(m)
    <2>1. x6[m] \in P!PostType
      BY <1>1
    <2>2. x6[m].known \in BOOLEAN
      BY <2>1 DEF P!PostType
    <2> DEFINE k == x6[m].known /\ recorded(m)
    <2>3. k \in BOOLEAN /\ (k => recorded(m)) /\ c(m) = [x6[m] EXCEPT !.known = k]
      BY <2>2
    <2> HIDE DEF c, k
    <2> QED
      BY <2>1, <2>3 DEF P!PostType
  <1> HIDE DEF c, n
  <1>4. [m \in 1..n |-> c(m)] \in Seq(P!PostType) /\ DOMAIN [m \in 1..n |-> c(m)] = 1..n
    BY <1>1, <1>3
  <1>5. \A m \in 1..n : x6'[m] = c(m)
    BY <1>2
  <1>6. x6' \in Seq(P!PostType) /\ DOMAIN x6' = DOMAIN x6
    BY <1>1, <1>2, <1>4
  <1>7. ASSUME NEW m \in 1..n
        PROVE  /\ x6'[m].root = x6[m].root /\ x6'[m].epoch = x6[m].epoch /\ x6'[m].state = x6[m].state
               /\ x6'[m].known => recorded(m)
    BY <1>3, <1>5
  <1> QED
    BY <1>1, <1>r, <1>6, <1>7

\* A task begins with a preview of its own; its root has no replies yet.
LEMMA ProgressBegin ==
    ASSUME P!PInv, NEW t \in Conversations, P!Begin(t)
    PROVE  P!PInv'
  <1>i. /\ P!TypeOK /\ P!RootsHaveBegun /\ P!IdentitiesAgree /\ P!BoundariesHold /\ P!DoomedAreOver
        /\ P!NothingForgotten
    BY DEF P!PInv
  <1>e. x9.epoch \in Nat /\ x9 \in P!ActorType
    BY <1>i DEF P!TypeOK, P!ActorType
  <1>u. /\ x1 = "up" /\ x9.active = None /\ ~x9.finishing /\ x3[t] = "new" /\ x9.retiring = P!Open
        /\ x1' = x1 /\ x3' = [x3 EXCEPT ![t] = "submitted"]
        /\ x4' = x4 /\ x5' = x5 /\ x6' = x6 /\ x7' = x7 /\ x8' = x8
        /\ x9' \in P!ActorType /\ x9'.active = t /\ x9'.epoch = x9.epoch + 1
        /\ ~x9'.finishing /\ x9'.retiring = x9.retiring
    <2> DEFINE a == P!Rotated(x9)
    <2>1. /\ x1 = "up" /\ x9.active = None /\ ~x9.finishing /\ x3[t] = "new"
          /\ x1' = x1 /\ x3' = [x3 EXCEPT ![t] = "submitted"]
          /\ x4' = x4 /\ x5' = x5 /\ x6' = x6 /\ x7' = x7 /\ x8' = x8
          /\ x9' = [a EXCEPT !.active = t]
      BY DEF P!Begin, P!Acts
    <2>2. a \in P!ActorType /\ a.epoch = x9.epoch + 1 /\ ~a.finishing /\ a.retiring = x9.retiring
      BY <1>e, <2>1, PreviewRotates
    <2> HIDE DEF a
    <2>3. /\ x9' \in P!ActorType /\ x9'.active = t /\ x9'.epoch = x9.epoch + 1
          /\ ~x9'.finishing /\ x9'.retiring = x9.retiring
      BY <2>1, <2>2 DEF P!ActorType
    <2> QED
      BY <1>i, <2>1, <2>3 DEF P!RootsHaveBegun
  <1>o. \A w : P!Over(w) => P!Over(w)'
    BY <1>i, <1>u DEF P!Over, P!TypeOK
  <1>b. /\ \A u : P!Kept(u)' = P!Kept(u)
        /\ \A u, e : P!Bodies(u, e)' = P!Bodies(u, e)
        /\ \A i : P!Delivered(i)' = P!Delivered(i)
    BY <1>u, SameReplies DEF P!Delivered
  <1>1. P!TypeOK'
    BY <1>i, <1>u DEF P!TypeOK
  <1>2. P!RootsHaveBegun'
    <2>1. /\ x9'.epoch = x9.epoch + 1
          /\ \A i \in DOMAIN x4 : x4[i].root \in Conversations /\ x4[i].epoch \in Nat
          /\ \A m \in DOMAIN x6 : x6[m].epoch \in Nat
          /\ \A r \in x5 : r.root \in Conversations
          /\ \A x \in x7 : x.root \in Conversations /\ x.epoch \in Nat
      BY <1>i, <1>u, PlacesAreTyped
    <2>2. x3 \in [Conversations -> {"new", "submitted", "settled", "pruned"}]
      BY <1>i DEF P!TypeOK
    <2>3. \A v \in Conversations : (x3[v] # "new" => x3'[v] # "new") /\ (x3'[v] = "pruned" <=> x3[v] = "pruned")
      BY <1>u, <2>2
    <2>4. x3'[t] = "submitted"
      BY <1>u, <2>2
    <2>5. /\ \A i \in DOMAIN x4 : x4[i].epoch <= x9'.epoch
          /\ \A m \in DOMAIN x6 : x6[m].epoch <= x9'.epoch
          /\ \A x \in x7 : x.epoch <= x9'.epoch
      BY <1>i, <1>e, <2>1 DEF P!RootsHaveBegun
    <2> QED
      BY <1>i, <1>u, <2>1, <2>3, <2>4, <2>5 DEF P!RootsHaveBegun
  <1>3. P!IdentitiesAgree'
    BY <1>i, <1>u DEF P!IdentitiesAgree
  <1>4. P!BoundariesHold'
    BY <1>e, <1>o, <1>u, <1>b, BoundariesRotate
  <1>5. P!DoomedAreOver'
    BY <1>e, <1>o, <1>u, <1>b, DoomedStay
  <1>6. P!NothingForgotten'
    BY <1>i, <1>u DEF P!NothingForgotten
  <1> QED
    BY <1>1, <1>2, <1>3, <1>4, <1>5, <1>6 DEF P!PInv

\* A request for a preview, or for its edit, leaves; it names no message yet.
LEMMA ProgressFlush ==
    ASSUME P!PInv, P!Flush
    PROVE  P!PInv'
  <1>i. /\ P!TypeOK /\ P!RootsHaveBegun /\ P!IdentitiesAgree /\ P!BoundariesHold /\ P!DoomedAreOver
        /\ P!NothingForgotten
    BY DEF P!PInv
  <1>e. x9.epoch \in Nat /\ x9 \in P!ActorType
    BY <1>i DEF P!TypeOK, P!ActorType
  <1> DEFINE x == [root |-> x9.active, epoch |-> x9.epoch, created |-> x9.preview = 0, msg |-> x9.preview,
                   retirement |-> P!Open, step |-> "sent", ok |-> FALSE]
  <1>u. /\ x1 = "up" /\ x9.active # None /\ x9.active \in Conversations
        /\ x1' = x1 /\ x3' = x3 /\ x4' = x4 /\ x5' = x5 /\ x6' = x6 /\ x8' = x8
        /\ x7' = x7 \cup {x}
        /\ x9' \in P!ActorType /\ x9'.active = x9.active /\ x9'.epoch = x9.epoch
        /\ x9'.finishing = x9.finishing /\ x9'.retiring = x9.retiring
    BY <1>e DEF P!Flush, P!Runs, P!Acts, P!ActorType
  <1>x. /\ x \in P!SendType /\ x.root = x9.active /\ x.epoch = x9.epoch /\ ~x.retirement.retired
        /\ x.created => x.msg = 0
        /\ x.step = "sent" /\ ~x.ok
    BY <1>e, <1>u, BoundaryTypes DEF P!SendType, P!ActorType
  <1> HIDE DEF x
  <1>o. \A w : P!Over(w) => P!Over(w)'
    BY <1>u DEF P!Over
  <1>b. /\ \A u : P!Kept(u)' = P!Kept(u)
        /\ \A u, e : P!Bodies(u, e)' = P!Bodies(u, e)
        /\ \A i : P!Delivered(i)' = P!Delivered(i)
    BY <1>u, SameReplies DEF P!Delivered
  <1>1. P!TypeOK'
    BY <1>i, <1>u, <1>x DEF P!TypeOK
  <1>2. P!RootsHaveBegun'
    <2>1. x3[x.root] # "new" /\ x.epoch <= x9.epoch
      BY <1>i, <1>e, <1>u, <1>x DEF P!RootsHaveBegun
    <2> QED
      BY <1>i, <1>u, <2>1 DEF P!RootsHaveBegun
  <1>3. P!IdentitiesAgree'
    BY <1>i, <1>u, <1>x DEF P!IdentitiesAgree
  <1>4. P!BoundariesHold'
    BY <1>o, <1>u, <1>x, <1>b, BoundariesStay
  <1>5. P!DoomedAreOver'
    BY <1>e, <1>o, <1>u, <1>b, DoomedStay
  <1>6. P!NothingForgotten'
    BY <1>i, <1>u DEF P!NothingForgotten
  <1> QED
    BY <1>1, <1>2, <1>3, <1>4, <1>5, <1>6 DEF P!PInv

\* Telegram shows a new preview: an answer names it.
LEMMA ProgressShows ==
    ASSUME P!PInv, NEW x \in x7, P!Shows(x)
    PROVE  P!PInv'
  <1>i. /\ P!TypeOK /\ P!RootsHaveBegun /\ P!IdentitiesAgree /\ P!BoundariesHold /\ P!DoomedAreOver
        /\ P!NothingForgotten
    BY DEF P!PInv
  <1>e. x9.epoch \in Nat /\ x9 \in P!ActorType
    BY <1>i DEF P!TypeOK, P!ActorType
  <1>t. x \in P!SendType /\ x6 \in Seq(P!PostType) /\ Len(x6) \in Nat /\ DOMAIN x6 = 1..Len(x6)
    BY <1>i DEF P!TypeOK
  <1>g. PICK ok \in BOOLEAN :
          /\ x6' = x6 \o <<[root |-> x.root, epoch |-> x.epoch, state |-> "visible", known |-> ok]>>
          /\ P!Answered(x, IF ok THEN Len(x6) + 1 ELSE 0, ok)
    BY DEF P!Shows
  <1> DEFINE msg == IF ok THEN Len(x6) + 1 ELSE 0
             p == [root |-> x.root, epoch |-> x.epoch, state |-> "visible", known |-> ok]
  <1>m. x \in P!SendType /\ msg \in Nat
    BY <1>t
  <1>u. /\ x.step = "sent" /\ x.created
        /\ x1' = x1 /\ x3' = x3 /\ x4' = x4 /\ x5' = x5 /\ x8' = x8 /\ x9' = x9
    BY DEF P!Shows
  <1>p. p \in P!PostType /\ p.root = x.root /\ p.epoch = x.epoch /\ p.known = ok
    BY <1>t DEF P!PostType, P!SendType
  <1>q. /\ x6' \in Seq(P!PostType) /\ DOMAIN x6' = 1..(Len(x6) + 1)
        /\ x6'[Len(x6) + 1] = p /\ \A m \in DOMAIN x6 : x6'[m] = x6[m]
    <2> HIDE DEF p
    <2>1. x6' = x6 \o <<p>>
      BY <1>g DEF p
    <2>2. <<p>> \in Seq(P!PostType) /\ Len(<<p>>) = 1
      BY <1>p
    <2> QED
      BY <1>t, <1>p, <2>1, <2>2
  <1>x. PICK y \in P!SendType :
          /\ x7' = (x7 \ {x}) \cup {y}
          /\ y.root = x.root /\ y.epoch = x.epoch /\ y.created = x.created /\ y.retirement = x.retirement
          /\ y.step = "answered" /\ y.msg = msg /\ y.ok = ok
    <2> DEFINE y == [x EXCEPT !.msg = msg, !.step = "answered", !.ok = ok]
    <2>1. x7' = (x7 \ {x}) \cup {y}
      BY <1>g DEF P!Answered
    <2>2. /\ y \in P!SendType
          /\ y.root = x.root /\ y.epoch = x.epoch /\ y.created = x.created /\ y.retirement = x.retirement
          /\ y.step = "answered" /\ y.msg = msg /\ y.ok = ok
      BY <1>m DEF P!SendType
    <2> HIDE DEF y
    <2> QED
      BY <2>1, <2>2
  <1> HIDE DEF p
  <1>o. \A w : P!Over(w) => P!Over(w)'
    BY <1>u DEF P!Over
  <1>d. /\ \A m \in DOMAIN x6 : m \in DOMAIN x6' /\ x6'[m] = x6[m] /\ m # 0
        /\ \A m \in DOMAIN x6' : m \in DOMAIN x6 \/ m = Len(x6) + 1
    BY <1>t, <1>q
  <1>b. /\ \A u : P!Kept(u)' = P!Kept(u)
        /\ \A u, e : P!Bodies(u, e)' = P!Bodies(u, e)
        /\ \A i : P!Delivered(i)' = P!Delivered(i)
    BY <1>u, SameReplies DEF P!Delivered
  <1>1. P!TypeOK'
    BY <1>i, <1>u, <1>x, <1>q, <1>d DEF P!TypeOK
  <1>2. P!RootsHaveBegun'
    <2>1. \A m \in DOMAIN x6' : x6'[m].epoch <= x9.epoch
      BY <1>i, <1>p, <1>q, <1>d DEF P!RootsHaveBegun
    <2> QED
      BY <1>i, <1>u, <1>x, <2>1 DEF P!RootsHaveBegun
  <1>3. P!IdentitiesAgree'
    <2>1. \A r \in x5 : r.msg \in DOMAIN x6' /\ x6'[r.msg].root = r.root
      BY <1>i, <1>d DEF P!IdentitiesAgree
    <2>2. ok => msg # 0 /\ msg \in DOMAIN x6' /\ x6'[msg].root = x.root /\ x6'[msg].epoch = x.epoch
      BY <1>t, <1>p, <1>q
    <2>3. ~ok => msg = 0
      OBVIOUS
    <2> HIDE DEF msg
    <2> QED
      BY <1>i, <1>u, <1>x, <1>d, <2>1, <2>2, <2>3 DEF P!IdentitiesAgree
  <1>4. P!BoundariesHold'
    BY <1>o, <1>u, <1>x, <1>d, <1>b, BoundariesStay
  <1>5. P!DoomedAreOver'
    BY <1>i, <1>e, <1>o, <1>u, <1>d, <1>b, DoomedStay DEF P!TypeOK
  <1>6. P!NothingForgotten'
    <2>1. ASSUME NEW m \in DOMAIN x6, x.msg = m PROVE FALSE
      BY <1>i, <1>u, <1>d, <2>1 DEF P!IdentitiesAgree
    <2>2. ASSUME NEW m \in DOMAIN x6, x6[m].state = "visible", x6[m].known
          PROVE  (\E r \in x5 : r.msg = m) \/ \E z \in x7' : z.created /\ z.msg = m
      BY <1>i, <1>x, <2>1, <2>2 DEF P!NothingForgotten
    <2>3. ok => msg = Len(x6) + 1
      OBVIOUS
    <2> HIDE DEF msg
    <2>4. ok => \E z \in x7' : z.created /\ z.msg = Len(x6) + 1
      BY <1>u, <1>x, <2>3
    <2> QED
      BY <1>u, <1>p, <1>q, <1>d, <2>2, <2>4 DEF P!NothingForgotten
  <1> QED
    BY <1>1, <1>2, <1>3, <1>4, <1>5, <1>6 DEF P!PInv

\* An edit is answered, or a preview refused.
LEMMA ProgressAnswers ==
    ASSUME P!PInv, NEW x \in x7, P!Answers(x)
    PROVE  P!PInv'
  <1>i. /\ P!TypeOK /\ P!RootsHaveBegun /\ P!IdentitiesAgree /\ P!BoundariesHold /\ P!DoomedAreOver
        /\ P!NothingForgotten
    BY DEF P!PInv
  <1>e. x9.epoch \in Nat /\ x9 \in P!ActorType
    BY <1>i DEF P!TypeOK, P!ActorType
  <1>m. x \in P!SendType
    BY <1>i DEF P!TypeOK
  <1>u. /\ x.step = "sent"
        /\ x1' = x1 /\ x3' = x3 /\ x4' = x4 /\ x5' = x5 /\ x6' = x6 /\ x8' = x8 /\ x9' = x9
    BY DEF P!Answers
  <1>x. PICK y \in P!SendType :
          /\ x7' = (x7 \ {x}) \cup {y}
          /\ y.root = x.root /\ y.epoch = x.epoch /\ y.created = x.created /\ y.retirement = x.retirement
          /\ y.step = "answered" /\ y.msg = x.msg /\ y.ok = FALSE
    <2> DEFINE y == [x EXCEPT !.msg = x.msg, !.step = "answered", !.ok = FALSE]
    <2>1. x7' = (x7 \ {x}) \cup {y}
      BY DEF P!Answers, P!Answered
    <2>2. /\ y \in P!SendType
          /\ y.root = x.root /\ y.epoch = x.epoch /\ y.created = x.created /\ y.retirement = x.retirement
          /\ y.step = "answered" /\ y.msg = x.msg /\ y.ok = FALSE
      BY <1>m DEF P!SendType
    <2> HIDE DEF y
    <2> QED
      BY <2>1, <2>2
  <1>o. \A w : P!Over(w) => P!Over(w)'
    BY <1>u DEF P!Over
  <1>b. /\ \A u : P!Kept(u)' = P!Kept(u)
        /\ \A u, e : P!Bodies(u, e)' = P!Bodies(u, e)
        /\ \A i : P!Delivered(i)' = P!Delivered(i)
    BY <1>u, SameReplies DEF P!Delivered
  <1>1. P!TypeOK'
    BY <1>i, <1>u, <1>x DEF P!TypeOK
  <1>2. P!RootsHaveBegun'
    BY <1>i, <1>u, <1>x DEF P!RootsHaveBegun
  <1>3. P!IdentitiesAgree'
    BY <1>i, <1>u, <1>x DEF P!IdentitiesAgree
  <1>4. P!BoundariesHold'
    BY <1>o, <1>u, <1>x, <1>b, BoundariesStay
  <1>5. P!DoomedAreOver'
    BY <1>e, <1>o, <1>u, <1>b, DoomedStay
  <1>6. P!NothingForgotten'
    <2>1. ASSUME NEW m \in DOMAIN x6, x.msg = m, x.created PROVE FALSE
      <3>1. m # 0
        BY <1>i DEF P!TypeOK
      <3> QED
        BY <1>i, <1>u, <2>1, <3>1 DEF P!IdentitiesAgree
    <2> QED
      BY <1>i, <1>u, <1>x, <2>1 DEF P!NothingForgotten
  <1> QED
    BY <1>1, <1>2, <1>3, <1>4, <1>5, <1>6 DEF P!PInv

\* The actor takes the result of a preview, which is recorded before anything else.  Only the
\* end of a task without replies left it waiting for it.
LEMMA ProgressPreviewFinished ==
    ASSUME P!PInv, NEW x \in x7, P!PreviewFinished(x)
    PROVE  P!PInv'
  <1>i. /\ P!TypeOK /\ P!RootsHaveBegun /\ P!IdentitiesAgree /\ P!BoundariesHold /\ P!DoomedAreOver
        /\ P!NothingForgotten
    BY DEF P!PInv
  <1>e. x9.epoch \in Nat /\ x9 \in P!ActorType
    BY <1>i DEF P!TypeOK, P!ActorType
  <1>a. /\ x9' \in P!ActorType /\ x9'.active = x9.active /\ x9'.retiring = x9.retiring
        /\ x9'.finishing => x9.finishing
        /\ x9'.epoch = x9.epoch \/ (x9.finishing /\ x9'.epoch = x9.epoch + 1)
    <2> DEFINE a == [x9 EXCEPT !.waiting = FALSE]
               b == IF x.root # a.active THEN a
                    ELSE [a EXCEPT !.preview = IF x.ok THEN x.msg ELSE @,
                                   !.suppressed = @ \/ (~x.ok /\ x.msg = 0)]
               c == [b EXCEPT !.finishing = FALSE]
    <2>1. x9' = IF x.epoch # x9.epoch THEN x9 ELSE IF b.finishing THEN P!Rotated(c) ELSE b
      BY DEF P!PreviewFinished, P!Adopted
    <2>2. x \in P!SendType
      BY <1>i DEF P!TypeOK
    <2>3. /\ a \in P!ActorType /\ a.active = x9.active /\ a.retiring = x9.retiring
          /\ a.finishing = x9.finishing /\ a.epoch = x9.epoch
      BY <1>e DEF P!ActorType
    <2> HIDE DEF a
    <2>4. /\ b \in P!ActorType /\ b.active = x9.active /\ b.retiring = x9.retiring
          /\ b.finishing = x9.finishing /\ b.epoch = x9.epoch
      <3> DEFINE p == IF x.ok THEN x.msg ELSE a.preview
                 s == a.suppressed \/ (~x.ok /\ x.msg = 0)
      <3>1. p \in Nat
        BY <2>2, <2>3 DEF P!SendType, P!ActorType
      <3>2. s \in BOOLEAN
        OBVIOUS
      <3>3. b = IF x.root # a.active THEN a ELSE [a EXCEPT !.preview = p, !.suppressed = s]
        OBVIOUS
      <3> HIDE DEF p, s, b
      <3> QED
        BY <2>3, <3>1, <3>2, <3>3 DEF P!ActorType
    <2> HIDE DEF b
    <2>5. /\ c \in P!ActorType /\ c.active = x9.active /\ c.retiring = x9.retiring
          /\ ~c.finishing /\ c.epoch = x9.epoch
      BY <2>4 DEF P!ActorType
    <2> HIDE DEF c
    <2>6. /\ P!Rotated(c) \in P!ActorType /\ P!Rotated(c).active = x9.active
          /\ P!Rotated(c).retiring = x9.retiring /\ ~P!Rotated(c).finishing /\ P!Rotated(c).epoch = x9.epoch + 1
      BY <2>5, PreviewRotates
    <2> QED
      BY <1>e, <2>1, <2>4, <2>6
  <1>u. /\ x1 = "up" /\ x1' = x1 /\ x3' = x3 /\ x4' = x4 /\ x6' = x6 /\ x8' = x8
        /\ x7' = x7 \ {x} /\ x5' = P!Recorded(x)
        /\ x9' \in P!ActorType /\ x9'.active = x9.active /\ x9'.retiring = x9.retiring
        /\ x9'.finishing => x9.finishing
        /\ x9'.epoch \in Nat /\ x9.epoch <= x9'.epoch
        /\ x9.active # None => x9'.epoch = x9.epoch
    BY <1>i, <1>e, <1>a DEF P!PreviewFinished, P!Take, P!Acts, P!RootsHaveBegun
  <1>r. /\ x5' \subseteq P!RecordType
        /\ \A r \in x5 : \E q \in x5' : q.msg = r.msg
        /\ x.created /\ x.ok => \E q \in x5' : q.msg = x.msg
        /\ \A q \in x5' :
             \/ q \in x5
             \/ x.msg \in DOMAIN x6 /\ x6[x.msg].root = x.root /\ q.msg = x.msg /\ q.root = x.root
    BY <1>i, <1>u, PreviewIsRecorded
  <1>o. \A u : P!Over(u) => P!Over(u)'
    BY <1>u DEF P!Over
  <1>b. /\ \A u : P!Kept(u)' = P!Kept(u)
        /\ \A u, e : P!Bodies(u, e)' = P!Bodies(u, e)
        /\ \A i : P!Delivered(i)' = P!Delivered(i)
    BY <1>u, SameReplies DEF P!Delivered
  <1>1. P!TypeOK'
    BY <1>i, <1>u, <1>r DEF P!TypeOK
  <1>2. P!RootsHaveBegun'
    <2>1. x9'.epoch \in Nat /\ x9.epoch <= x9'.epoch
      BY <1>e, <1>u
    <2>2. /\ \A k \in DOMAIN x4 : x4[k].epoch <= x9'.epoch
          /\ \A m \in DOMAIN x6 : x6[m].epoch <= x9'.epoch
          /\ \A y \in x7 : y.epoch <= x9'.epoch
      BY <1>i, <1>e, <2>1, PlacesAreTyped DEF P!RootsHaveBegun
    <2>3. \A q \in x5' : x3[q.root] # "new"
      BY <1>i, <1>r DEF P!RootsHaveBegun
    <2> QED
      BY <1>i, <1>u, <2>2, <2>3 DEF P!RootsHaveBegun
  <1>3. P!IdentitiesAgree'
    BY <1>i, <1>u, <1>r DEF P!IdentitiesAgree
  <1>4. P!BoundariesHold'
    BY <1>e, <1>u, RecordingHolds
  <1>5. P!DoomedAreOver'
    BY <1>e, <1>o, <1>u, <1>b, DoomedStay
  <1>6. P!NothingForgotten'
    <2>1. ASSUME NEW m \in DOMAIN x6, x.created, x.msg = m PROVE x.ok
      <3>1. m # 0
        BY <1>i DEF P!TypeOK
      <3> QED
        BY <1>i, <2>1, <3>1 DEF P!IdentitiesAgree
    <2>2. ASSUME NEW m \in DOMAIN x6, x6[m].state = "visible", x6[m].known
          PROVE  (\E q \in x5' : q.msg = m) \/ \E y \in x7' : y.created /\ y.msg = m
      <3>1. CASE \E r \in x5 : r.msg = m
        BY <1>r, <3>1
      <3>2. ASSUME NEW y \in x7, y.created, y.msg = m
            PROVE  (\E q \in x5' : q.msg = m) \/ \E z \in x7' : z.created /\ z.msg = m
        BY <1>r, <1>u, <2>1, <3>2
      <3> QED
        BY <1>i, <2>2, <3>1, <3>2 DEF P!NothingForgotten
    <2> QED
      BY <1>u, <2>2 DEF P!NothingForgotten
  <1> QED
    BY <1>1, <1>2, <1>3, <1>4, <1>5, <1>6 DEF P!PInv

\* Replies are stored; until the previews they replace are retired, the actor knows the
\* boundary they will get.
LEMMA ProgressAppendBody ==
    ASSUME P!PInv, NEW n \in 1..2, P!AppendBody(n)
    PROVE  P!PInv'
  <1>i. /\ P!TypeOK /\ P!RootsHaveBegun /\ P!IdentitiesAgree /\ P!BoundariesHold /\ P!DoomedAreOver
        /\ P!NothingForgotten
    BY DEF P!PInv
  <1>e. x9.epoch \in Nat /\ x9 \in P!ActorType
    BY <1>i DEF P!TypeOK, P!ActorType
  <1> DEFINE b == [retired |-> TRUE, first |-> Len(x4) + 1, parts |-> n]
  <1>u. /\ x1 = "up" /\ x9.active # None /\ x9.active \in Conversations /\ ~x9.finishing
        /\ x9.retiring = P!Open
        /\ x1' = x1 /\ x3' = x3 /\ x5' = x5 /\ x6' = x6 /\ x7' = x7 /\ x8' = x8
        /\ x4' = P!WithReplies(n, TRUE)
        /\ x9' \in P!ActorType /\ x9'.active = x9.active /\ x9'.epoch = x9.epoch /\ ~x9'.finishing
        /\ x9'.retiring = b
        /\ n \in Nat
    <2>1. /\ x1 = "up" /\ x9.active # None /\ ~x9.retiring.retired
          /\ x1' = x1 /\ x3' = x3 /\ x5' = x5 /\ x6' = x6 /\ x7' = x7 /\ x8' = x8
          /\ x4' = P!WithReplies(n, TRUE)
          /\ x9' = [x9 EXCEPT !.retiring = b]
      BY DEF P!AppendBody, P!Runs, P!Acts
    <2>2. x9.active \in Conversations /\ ~x9.finishing /\ x9.retiring = P!Open
      BY <1>i, <1>e, <2>1 DEF P!RootsHaveBegun, P!ActorType
    <2>3. b \in P!BoundaryType
      <3>1. Len(x4) + 1 \in Nat
        BY <1>i DEF P!TypeOK
      <3> QED
        BY <3>1 DEF P!BoundaryType
    <2> HIDE DEF b
    <2>4. /\ x9' \in P!ActorType /\ x9'.active = x9.active /\ x9'.epoch = x9.epoch
          /\ x9'.finishing = x9.finishing /\ x9'.retiring = b
      BY <1>e, <2>1, <2>3 DEF P!ActorType
    <2> QED
      BY <2>1, <2>2, <2>4
  <1>x. /\ x4' \in Seq(P!RowType) /\ Len(x4) \in Nat
        /\ DOMAIN x4' = 1..(Len(x4) + n) /\ DOMAIN x4 = 1..Len(x4)
        /\ \A k \in DOMAIN x4 : x4'[k] = x4[k]
        /\ \A k \in DOMAIN x4' \ DOMAIN x4 :
             x4'[k].root = x9.active /\ x4'[k].epoch = x9.epoch /\ x4'[k].kept
        /\ \A t : P!Kept(t) \subseteq P!Kept(t)'
        /\ \A t, e : (t # x9.active \/ e # x9.epoch \/ ~TRUE) => P!Bodies(t, e)' = P!Bodies(t, e)
        /\ \A t, e : P!Bodies(t, e)' \subseteq P!Bodies(t, e) \cup (DOMAIN x4' \ DOMAIN x4)
        /\ \A t : t = x9.active => DOMAIN x4' \ DOMAIN x4 \subseteq P!Kept(t)'
    BY <1>i, <1>u, RepliesExtend
  <1>d. \A k : P!Delivered(k) /\ k \in DOMAIN x4 => P!Delivered(k)'
    BY <1>x DEF P!Delivered
  <1>s. /\ \A t \in Conversations : (x3[t] # "new" => x3'[t] # "new") /\ (x3'[t] = "pruned" <=> x3[t] = "pruned")
        /\ x3[x9.active] = "submitted"
    BY <1>i, <1>u DEF P!RootsHaveBegun
  <1>o. \A t : P!Over(t) => P!Over(t)'
    BY <1>u DEF P!Over
  <1>c. b.retired /\ b.first = Len(x4) + 1 /\ P!LastOf(b) = Len(x4) + n
    <2>1. b.parts = n /\ b.first = Len(x4) + 1 /\ b.retired
      OBVIOUS
    <2> HIDE DEF b
    <2> QED
      BY <1>x, <2>1 DEF P!LastOf
  <1> HIDE DEF b
  <1>1. P!TypeOK'
    BY <1>i, <1>u, <1>x DEF P!TypeOK
  <1>2. P!RootsHaveBegun'
    <2>1. x9'.epoch \in Nat /\ x9.epoch <= x9'.epoch
      BY <1>e, <1>u
    <2>2. /\ \A k \in DOMAIN x4 : x4[k].epoch <= x9'.epoch
          /\ \A m \in DOMAIN x6 : x6[m].epoch <= x9'.epoch
          /\ \A y \in x7 : y.epoch <= x9'.epoch
      BY <1>i, <1>e, <2>1, PlacesAreTyped DEF P!RootsHaveBegun
    <2>3. \A t \in Conversations : (x3[t] # "new" => x3'[t] # "new") /\ (x3'[t] = "pruned" <=> x3[t] = "pruned")
      BY <1>s
    <2>4. ASSUME NEW k \in DOMAIN x4'
          PROVE  /\ x3'[x4'[k].root] # "new" /\ x4'[k].epoch <= x9'.epoch
                 /\ x4'[k].kept <=> x3'[x4'[k].root] # "pruned"
      <3>1. CASE k \in DOMAIN x4
        <4>1. /\ x4[k].root \in Conversations /\ x3[x4[k].root] # "new"
              /\ x4[k].kept <=> x3[x4[k].root] # "pruned"
          BY <1>i, <3>1, PlacesAreTyped DEF P!RootsHaveBegun
        <4> QED
          BY <1>x, <2>2, <2>3, <3>1, <4>1
      <3>2. CASE k \notin DOMAIN x4
        <4>1. x4'[k].root = x9.active /\ x4'[k].epoch = x9.epoch /\ x4'[k].kept
          BY <1>x, <3>2
        <4> QED
          BY <1>u, <1>s, <2>1, <4>1
      <3> QED
        BY <3>1, <3>2
    <2>5. /\ \A r \in x5 : x3'[r.root] # "new"
          /\ \A y \in x7 : x3'[y.root] # "new"
      BY <1>i, <2>3, PlacesAreTyped DEF P!RootsHaveBegun
    <2> QED
      BY <1>i, <1>u, <1>s, <1>c, <2>2, <2>4, <2>5 DEF P!RootsHaveBegun
  <1>3. P!IdentitiesAgree'
    BY <1>i, <1>u DEF P!IdentitiesAgree
  <1>4. P!BoundariesHold'
    <2>f. ASSUME NEW t \in Conversations, NEW e \in Nat, NEW first, NEW last, P!Frozen(t, e, first, last)
          PROVE  P!Frozen(t, e, first, last)'
      BY <1>i, <1>e, <1>o, <1>u, <1>x, <2>f, FrozenStays
    <2>p. ASSUME NEW t, t = x9.active, NEW e \in Nat, P!Pending(t, e)
          PROVE  P!Pending(t, e)'
      <3>1. P!Bodies(t, e) = {}
        BY <1>i, <1>u, <2>p, NothingPending
      <3>2. CASE e # x9.epoch
        BY <1>u, <1>x, <2>p, <3>1, <3>2 DEF P!Pending
      <3>3. CASE e = x9.epoch
        <4>1. \A k \in P!Bodies(t, e)' : Len(x4) + 1 <= k /\ k <= Len(x4) + n
          BY <1>x, <3>1
        <4>2. {Len(x4) + 1, Len(x4) + n} \subseteq P!Kept(t)'
          BY <1>x, <2>p
        <4>3. /\ \A k \in P!Bodies(t, e)' : b.first <= k /\ k <= P!LastOf(b)
              /\ b.first # 0 /\ {b.first, P!LastOf(b)} \subseteq P!Kept(t)'
          BY <1>c, <1>x, <4>1, <4>2
        <4> QED
          BY <1>u, <2>p, <3>3, <4>3 DEF P!Pending, P!Within
      <3> QED
        BY <3>2, <3>3
    <2>1. P!Pending(x9.active, x9.epoch)'
      <3>1. P!Pending(x9.active, x9.epoch)
        BY <1>i, <1>u DEF P!BoundariesHold
      <3>2. ASSUME NEW t, t = x9.active, NEW e, e = x9.epoch PROVE P!Pending(t, e)'
        BY <1>e, <2>p, <3>1, <3>2
      <3> QED
        BY <1>u, <3>2
    <2>2. \A y \in x7' : y.epoch = x9'.epoch => y.root = x9'.active
      BY <1>i, <1>u DEF P!BoundariesHold
    <2>3. ASSUME NEW r \in x5'
          PROVE  IF r.retired THEN P!Frozen(r.root, x6[r.msg].epoch, r.first, r.last)'
                 ELSE r.root = x9'.active => P!Pending(r.root, x6[r.msg].epoch)'
      <3>1. r \in x5 /\ r.root \in Conversations /\ x6[r.msg].epoch \in Nat /\ x6'[r.msg].epoch = x6[r.msg].epoch
        BY <1>i, <1>u, RecordsArePlaced
      <3>2. CASE r.retired
        BY <1>i, <2>f, <3>1, <3>2 DEF P!BoundariesHold
      <3>3. CASE ~r.retired
        BY <1>i, <1>u, <2>p, <3>1, <3>3 DEF P!BoundariesHold
      <3> QED
        BY <3>2, <3>3
    <2>4. ASSUME NEW y \in x7', y.created
          PROVE  IF y.retirement.retired
                   THEN P!Frozen(y.root, y.epoch, y.retirement.first, P!LastOf(y.retirement))'
                   ELSE y.root = x9'.active => P!Pending(y.root, y.epoch)'
      <3>1. y \in x7 /\ y.root \in Conversations /\ y.epoch \in Nat
        BY <1>i, <1>u, PlacesAreTyped
      <3>2. CASE y.retirement.retired
        BY <1>i, <2>f, <2>4, <3>1, <3>2 DEF P!BoundariesHold
      <3>3. CASE ~y.retirement.retired
        BY <1>i, <1>u, <2>p, <2>4, <3>1, <3>3 DEF P!BoundariesHold
      <3> QED
        BY <3>2, <3>3
    <2> QED
      BY <2>1, <2>2, <2>3, <2>4 DEF P!BoundariesHold
  <1>5. P!DoomedAreOver'
    BY <1>e, <1>o, <1>u, <1>x, <1>d, DoomedStay
  <1>6. P!NothingForgotten'
    BY <1>i, <1>u DEF P!NothingForgotten
  <1> QED
    BY <1>1, <1>2, <1>3, <1>4, <1>5, <1>6 DEF P!PInv

\* The replies that are stored already become the boundary of the previews they replace.
LEMMA ProgressRetireBody ==
    ASSUME P!PInv, P!RetireBody
    PROVE  P!PInv'
  <1>i. /\ P!TypeOK /\ P!RootsHaveBegun /\ P!IdentitiesAgree /\ P!BoundariesHold /\ P!DoomedAreOver
        /\ P!NothingForgotten
    BY DEF P!PInv
  <1>e. x9.epoch \in Nat /\ x9 \in P!ActorType
    BY <1>i DEF P!TypeOK, P!ActorType
  <1> DEFINE b == x9.retiring
  <1>u. /\ x1 = "up" /\ x9.active # None /\ x9.active \in Conversations /\ ~x9.finishing
        /\ b \in P!BoundaryType /\ b.retired /\ P!Retire(b)
        /\ x1' = x1 /\ x3' = x3 /\ x4' = x4 /\ x6' = x6 /\ x8' = x8
        /\ x9' \in P!ActorType /\ x9'.active = x9.active /\ x9'.epoch = x9.epoch + 1
        /\ ~x9'.finishing /\ x9'.retiring = P!Open
    <2> DEFINE c == [x9 EXCEPT !.retiring = P!Open]
    <2>1. /\ x1 = "up" /\ b.retired /\ P!Retire(b)
          /\ x1' = x1 /\ x3' = x3 /\ x4' = x4 /\ x6' = x6 /\ x8' = x8
          /\ x9' = P!Rotated(c)
      BY DEF P!RetireBody
    <2>2. x9.active # None
      BY <1>i, <2>1, BoundaryTypes DEF P!RootsHaveBegun
    <2>3. x9.active \in Conversations /\ ~x9.finishing /\ b \in P!BoundaryType
      BY <1>i, <1>e, <2>2 DEF P!RootsHaveBegun, P!ActorType
    <2>4. /\ c \in P!ActorType /\ c.active = x9.active /\ c.epoch = x9.epoch
          /\ c.finishing = x9.finishing /\ c.retiring = P!Open
      BY <1>e, BoundaryTypes DEF P!ActorType
    <2> HIDE DEF c
    <2>5. /\ x9' \in P!ActorType /\ x9'.active = x9.active /\ x9'.epoch = x9.epoch + 1
          /\ x9'.finishing = x9.finishing /\ x9'.retiring = P!Open
      BY <2>1, <2>4, PreviewRotates
    <2> QED
      BY <2>1, <2>2, <2>3, <2>5
  <1>w. P!Within(x9.active, x9.epoch, b.first, P!LastOf(b))
    BY <1>i, <1>u DEF P!BoundariesHold, P!Pending
  <1> HIDE DEF b
  <1>o. \A u : P!Over(u) => P!Over(u)'
    BY <1>u DEF P!Over
  <1>r. /\ x5' \subseteq P!RecordType /\ x7' \subseteq P!SendType
        /\ \A r \in x5 : \E q \in x5' : q.msg = r.msg
        /\ \A q \in x5' : \E r \in x5 : q.msg = r.msg /\ q.root = r.root
        /\ \A x \in x7 : \E y \in x7' : y.created = x.created /\ y.msg = x.msg
        /\ \A y \in x7' : \E x \in x7 :
             /\ y.root = x.root /\ y.epoch = x.epoch /\ y.created = x.created
             /\ y.msg = x.msg /\ y.step = x.step /\ y.ok = x.ok
    BY <1>i, <1>u, PreviewRetires
  <1>b. /\ \A u : P!Kept(u)' = P!Kept(u)
        /\ \A u, e : P!Bodies(u, e)' = P!Bodies(u, e)
        /\ \A i : P!Delivered(i)' = P!Delivered(i)
    BY <1>u, SameReplies DEF P!Delivered
  <1>1. P!TypeOK'
    BY <1>i, <1>u, <1>r DEF P!TypeOK
  <1>2. P!RootsHaveBegun'
    <2>1. /\ \A k \in DOMAIN x4 : x4[k].epoch <= x9'.epoch
          /\ \A m \in DOMAIN x6 : x6[m].epoch <= x9'.epoch
          /\ \A y \in x7 : y.epoch <= x9'.epoch
      BY <1>i, <1>e, <1>u, PlacesAreTyped DEF P!RootsHaveBegun
    <2> QED
      BY <1>i, <1>u, <1>r, <2>1 DEF P!RootsHaveBegun
  <1>3. P!IdentitiesAgree'
    BY <1>i, <1>u, <1>r DEF P!IdentitiesAgree
  <1>4. P!BoundariesHold'
    BY <1>o, <1>u, <1>w, RetirementHolds
  <1>5. P!DoomedAreOver'
    BY <1>e, <1>o, <1>u, <1>b, DoomedStay
  <1>6. P!NothingForgotten'
    <2>1. ASSUME NEW m \in DOMAIN x6, x6[m].state = "visible", x6[m].known
          PROVE  (\E q \in x5' : q.msg = m) \/ \E y \in x7' : y.created /\ y.msg = m
      BY <1>i, <1>r, <2>1 DEF P!NothingForgotten
    <2> QED
      BY <1>u, <2>1 DEF P!NothingForgotten
  <1> QED
    BY <1>1, <1>2, <1>3, <1>4, <1>5, <1>6 DEF P!PInv

\* A notice rotates the preview without replacing it.
LEMMA ProgressAppendNotice ==
    ASSUME P!PInv, P!AppendNotice
    PROVE  P!PInv'
  <1>i. /\ P!TypeOK /\ P!RootsHaveBegun /\ P!IdentitiesAgree /\ P!BoundariesHold /\ P!DoomedAreOver
        /\ P!NothingForgotten
    BY DEF P!PInv
  <1>e. x9.epoch \in Nat /\ x9 \in P!ActorType
    BY <1>i DEF P!TypeOK, P!ActorType
  <1>u. /\ x1 = "up" /\ x9.active # None /\ x9.active \in Conversations /\ ~x9.finishing
        /\ x9.retiring = P!Open
        /\ x1' = x1 /\ x3' = x3 /\ x5' = x5 /\ x6' = x6 /\ x7' = x7 /\ x8' = x8
        /\ x4' = P!WithReplies(1, FALSE)
        /\ x9' \in P!ActorType /\ x9'.active = x9.active /\ x9'.epoch = x9.epoch + 1 /\ ~x9'.finishing
        /\ x9'.retiring = P!Open
    <2>1. /\ x1 = "up" /\ x9.active # None /\ ~x9.retiring.retired
          /\ x1' = x1 /\ x3' = x3 /\ x5' = x5 /\ x6' = x6 /\ x7' = x7 /\ x8' = x8
          /\ x4' = P!WithReplies(1, FALSE)
          /\ x9' = P!Rotated(x9)
      BY DEF P!AppendNotice, P!Runs, P!Acts
    <2>2. x9.active \in Conversations /\ ~x9.finishing /\ x9.retiring = P!Open
      BY <1>i, <1>e, <2>1 DEF P!RootsHaveBegun, P!ActorType
    <2> QED
      BY <1>e, <2>1, <2>2, PreviewRotates
  <1>x. /\ x4' \in Seq(P!RowType) /\ Len(x4) \in Nat
        /\ DOMAIN x4' = 1..(Len(x4) + 1) /\ DOMAIN x4 = 1..Len(x4)
        /\ \A k \in DOMAIN x4 : x4'[k] = x4[k]
        /\ \A k \in DOMAIN x4' \ DOMAIN x4 :
             x4'[k].root = x9.active /\ x4'[k].epoch = x9.epoch /\ x4'[k].kept
        /\ \A t : P!Kept(t) \subseteq P!Kept(t)'
        /\ \A t, e : (t # x9.active \/ e # x9.epoch \/ ~FALSE) => P!Bodies(t, e)' = P!Bodies(t, e)
        /\ \A t, e : P!Bodies(t, e)' \subseteq P!Bodies(t, e) \cup (DOMAIN x4' \ DOMAIN x4)
        /\ \A t : t = x9.active => DOMAIN x4' \ DOMAIN x4 \subseteq P!Kept(t)'
    BY <1>i, <1>u, RepliesExtend
  <1>d. \A k : P!Delivered(k) /\ k \in DOMAIN x4 => P!Delivered(k)'
    BY <1>x DEF P!Delivered
  <1>s. /\ \A t \in Conversations : (x3[t] # "new" => x3'[t] # "new") /\ (x3'[t] = "pruned" <=> x3[t] = "pruned")
        /\ x3[x9.active] = "submitted"
    BY <1>i, <1>u DEF P!RootsHaveBegun
  <1>o. \A t : P!Over(t) => P!Over(t)'
    BY <1>u DEF P!Over
  <1>1. P!TypeOK'
    BY <1>i, <1>u, <1>x DEF P!TypeOK
  <1>2. P!RootsHaveBegun'
    <2>1. x9'.epoch \in Nat /\ x9.epoch <= x9'.epoch
      BY <1>e, <1>u
    <2>2. /\ \A k \in DOMAIN x4 : x4[k].epoch <= x9'.epoch
          /\ \A m \in DOMAIN x6 : x6[m].epoch <= x9'.epoch
          /\ \A y \in x7 : y.epoch <= x9'.epoch
      BY <1>i, <1>e, <2>1, PlacesAreTyped DEF P!RootsHaveBegun
    <2>3. \A t \in Conversations : (x3[t] # "new" => x3'[t] # "new") /\ (x3'[t] = "pruned" <=> x3[t] = "pruned")
      BY <1>s
    <2>4. ASSUME NEW k \in DOMAIN x4'
          PROVE  /\ x3'[x4'[k].root] # "new" /\ x4'[k].epoch <= x9'.epoch
                 /\ x4'[k].kept <=> x3'[x4'[k].root] # "pruned"
      <3>1. CASE k \in DOMAIN x4
        <4>1. /\ x4[k].root \in Conversations /\ x3[x4[k].root] # "new"
              /\ x4[k].kept <=> x3[x4[k].root] # "pruned"
          BY <1>i, <3>1, PlacesAreTyped DEF P!RootsHaveBegun
        <4> QED
          BY <1>x, <2>2, <2>3, <3>1, <4>1
      <3>2. CASE k \notin DOMAIN x4
        <4>1. x4'[k].root = x9.active /\ x4'[k].epoch = x9.epoch /\ x4'[k].kept
          BY <1>x, <3>2
        <4> QED
          BY <1>u, <1>s, <2>1, <4>1
      <3> QED
        BY <3>1, <3>2
    <2>5. /\ \A r \in x5 : x3'[r.root] # "new"
          /\ \A y \in x7 : x3'[y.root] # "new"
      BY <1>i, <2>3, PlacesAreTyped DEF P!RootsHaveBegun
    <2> QED
      BY <1>i, <1>u, <1>s, <2>2, <2>4, <2>5 DEF P!RootsHaveBegun
  <1>3. P!IdentitiesAgree'
    BY <1>i, <1>u DEF P!IdentitiesAgree
  <1>4. P!BoundariesHold'
    BY <1>e, <1>o, <1>u, <1>x, BoundariesRotate
  <1>5. P!DoomedAreOver'
    BY <1>e, <1>o, <1>u, <1>x, <1>d, DoomedStay
  <1>6. P!NothingForgotten'
    BY <1>i, <1>u DEF P!NothingForgotten
  <1> QED
    BY <1>1, <1>2, <1>3, <1>4, <1>5, <1>6 DEF P!PInv

\* A steer replaces the preview by nothing: the current one has no replies yet.
LEMMA ProgressSupersede ==
    ASSUME P!PInv, P!Supersede
    PROVE  P!PInv'
  <1>i. /\ P!TypeOK /\ P!RootsHaveBegun /\ P!IdentitiesAgree /\ P!BoundariesHold /\ P!DoomedAreOver
        /\ P!NothingForgotten
    BY DEF P!PInv
  <1>e. x9.epoch \in Nat /\ x9 \in P!ActorType
    BY <1>i DEF P!TypeOK, P!ActorType
  <1> DEFINE b == [retired |-> TRUE, first |-> 0, parts |-> 0]
  <1>c. /\ b \in P!BoundaryType /\ b.retired /\ b.first = 0 /\ P!LastOf(b) = 0
    BY DEF P!BoundaryType, P!LastOf
  <1>u. /\ x1 = "up" /\ x9.active # None /\ x9.active \in Conversations /\ ~x9.finishing
        /\ P!Retire(b) /\ x9.retiring = P!Open
        /\ x1' = x1 /\ x3' = x3 /\ x4' = x4 /\ x6' = x6 /\ x8' = x8
        /\ x9' \in P!ActorType /\ x9'.active = x9.active /\ x9'.epoch = x9.epoch + 1
        /\ ~x9'.finishing /\ x9'.retiring = P!Open
        /\ b \in P!BoundaryType /\ b.retired
    <2>1. /\ x1 = "up" /\ x9.active # None /\ ~x9.retiring.retired /\ P!Retire(b)
          /\ x1' = x1 /\ x3' = x3 /\ x4' = x4 /\ x6' = x6 /\ x8' = x8
          /\ x9' = P!Rotated(x9)
      BY DEF P!Supersede, P!Runs, P!Acts
    <2>2. x9.active \in Conversations /\ ~x9.finishing /\ x9.retiring = P!Open
      BY <1>i, <1>e, <2>1 DEF P!RootsHaveBegun, P!ActorType
    <2>3. /\ x9' \in P!ActorType /\ x9'.active = x9.active /\ x9'.epoch = x9.epoch + 1
          /\ ~x9'.finishing /\ x9'.retiring = P!Open
      BY <1>e, <2>1, <2>2, PreviewRotates
    <2> QED
      BY <1>c, <2>1, <2>2, <2>3
  <1>w. P!Within(x9.active, x9.epoch, b.first, P!LastOf(b))
    <2>1. P!Bodies(x9.active, x9.epoch) = {}
      BY <1>i, <1>u, NothingPending DEF P!BoundariesHold
    <2> QED
      BY <1>c, <2>1 DEF P!Within
  <1> HIDE DEF b
  <1>o. \A u : P!Over(u) => P!Over(u)'
    BY <1>u DEF P!Over
  <1>r. /\ x5' \subseteq P!RecordType /\ x7' \subseteq P!SendType
        /\ \A r \in x5 : \E q \in x5' : q.msg = r.msg
        /\ \A q \in x5' : \E r \in x5 : q.msg = r.msg /\ q.root = r.root
        /\ \A x \in x7 : \E y \in x7' : y.created = x.created /\ y.msg = x.msg
        /\ \A y \in x7' : \E x \in x7 :
             /\ y.root = x.root /\ y.epoch = x.epoch /\ y.created = x.created
             /\ y.msg = x.msg /\ y.step = x.step /\ y.ok = x.ok
    BY <1>i, <1>u, PreviewRetires
  <1>b. /\ \A u : P!Kept(u)' = P!Kept(u)
        /\ \A u, e : P!Bodies(u, e)' = P!Bodies(u, e)
        /\ \A i : P!Delivered(i)' = P!Delivered(i)
    BY <1>u, SameReplies DEF P!Delivered
  <1>1. P!TypeOK'
    BY <1>i, <1>u, <1>r DEF P!TypeOK
  <1>2. P!RootsHaveBegun'
    <2>1. /\ \A k \in DOMAIN x4 : x4[k].epoch <= x9'.epoch
          /\ \A m \in DOMAIN x6 : x6[m].epoch <= x9'.epoch
          /\ \A y \in x7 : y.epoch <= x9'.epoch
      BY <1>i, <1>e, <1>u, PlacesAreTyped DEF P!RootsHaveBegun
    <2> QED
      BY <1>i, <1>u, <1>r, <2>1 DEF P!RootsHaveBegun
  <1>3. P!IdentitiesAgree'
    BY <1>i, <1>u, <1>r DEF P!IdentitiesAgree
  <1>4. P!BoundariesHold'
    BY <1>o, <1>u, <1>w, RetirementHolds
  <1>5. P!DoomedAreOver'
    BY <1>e, <1>o, <1>u, <1>b, DoomedStay
  <1>6. P!NothingForgotten'
    <2>1. ASSUME NEW m \in DOMAIN x6, x6[m].state = "visible", x6[m].known
          PROVE  (\E q \in x5' : q.msg = m) \/ \E y \in x7' : y.created /\ y.msg = m
      BY <1>i, <1>r, <2>1 DEF P!NothingForgotten
    <2> QED
      BY <1>u, <2>1 DEF P!NothingForgotten
  <1> QED
    BY <1>1, <1>2, <1>3, <1>4, <1>5, <1>6 DEF P!PInv

\* The task ends: with the last replies the record of its preview waits for its end, without
\* any body its previews are replaced by nothing.
LEMMA ProgressFinish ==
    ASSUME P!PInv, NEW n \in 0..1, P!Finish(n)
    PROVE  P!PInv'
  <1>i. /\ P!TypeOK /\ P!RootsHaveBegun /\ P!IdentitiesAgree /\ P!BoundariesHold /\ P!DoomedAreOver
        /\ P!NothingForgotten
    BY DEF P!PInv
  <1>e. x9.epoch \in Nat /\ x9 \in P!ActorType
    BY <1>i DEF P!TypeOK, P!ActorType
  <1> DEFINE b == [retired |-> TRUE, first |-> 0, parts |-> 0]
  <1>c. b \in P!BoundaryType /\ b.retired /\ b.first = 0 /\ P!LastOf(b) = 0
    BY DEF P!BoundaryType, P!LastOf
  <1>g. \/ /\ n = 0 /\ \A k \in P!Kept(x9.active) : ~x4[k].body
           /\ P!Retire(b)
           /\ x9' = P!Rotated([x9 EXCEPT !.active = None])
        \/ /\ x5' = x5 /\ x7' = x7
           /\ x9' = IF x9.waiting THEN [x9 EXCEPT !.active = None, !.finishing = TRUE]
                    ELSE P!Rotated([x9 EXCEPT !.active = None])
    BY DEF P!Finish
  <1>u. /\ x1 = "up" /\ x9.active # None /\ x9.active \in Conversations
        /\ x9.retiring = P!Open /\ n \in Nat
        /\ x1' = x1 /\ x3' = [x3 EXCEPT ![x9.active] = "settled"] /\ x6' = x6 /\ x8' = x8
        /\ x4' = P!WithReplies(n, TRUE)
        /\ x9' \in P!ActorType /\ x9'.active = None /\ x9'.retiring = P!Open
        /\ x9'.epoch = x9.epoch + 1 \/ (x9'.epoch = x9.epoch /\ x5' = x5)
    <2> DEFINE c == [x9 EXCEPT !.active = None]
               d == [x9 EXCEPT !.active = None, !.finishing = TRUE]
    <2>1. /\ x1 = "up" /\ x9.active # None /\ ~x9.retiring.retired
          /\ x1' = x1 /\ x3' = [x3 EXCEPT ![x9.active] = "settled"] /\ x6' = x6 /\ x8' = x8
          /\ x4' = P!WithReplies(n, TRUE)
      BY DEF P!Finish, P!Runs, P!Acts
    <2>2. x9.active \in Conversations /\ x9.retiring = P!Open
      BY <1>i, <1>e, <2>1 DEF P!RootsHaveBegun, P!ActorType
    <2>3. c \in P!ActorType /\ c.active = None /\ c.epoch = x9.epoch /\ c.retiring = P!Open
      BY <1>e, <2>2 DEF P!ActorType
    <2>4. d \in P!ActorType /\ d.active = None /\ d.epoch = x9.epoch /\ d.retiring = P!Open
      BY <1>e, <2>2 DEF P!ActorType
    <2>5. x9' = P!Rotated(c) \/ (x9' = d /\ x5' = x5)
      BY <1>g
    <2> HIDE DEF c, d
    <2>6. /\ P!Rotated(c) \in P!ActorType /\ P!Rotated(c).active = None
          /\ P!Rotated(c).epoch = x9.epoch + 1 /\ P!Rotated(c).retiring = P!Open
      BY <2>3, PreviewRotates
    <2>7. /\ x9' \in P!ActorType /\ x9'.active = None /\ x9'.retiring = P!Open
          /\ x9'.epoch = x9.epoch + 1 \/ (x9'.epoch = x9.epoch /\ x5' = x5)
      BY <2>4, <2>5, <2>6
    <2> QED
      BY <2>1, <2>2, <2>7
  <1>n. x9'.epoch \in Nat /\ x9.epoch <= x9'.epoch
    BY <1>e, <1>u
  <1>x. /\ x4' \in Seq(P!RowType) /\ Len(x4) \in Nat
        /\ DOMAIN x4' = 1..(Len(x4) + n) /\ DOMAIN x4 = 1..Len(x4)
        /\ \A k \in DOMAIN x4 : x4'[k] = x4[k]
        /\ \A k \in DOMAIN x4' \ DOMAIN x4 :
             x4'[k].root = x9.active /\ x4'[k].epoch = x9.epoch /\ x4'[k].kept
        /\ \A t : P!Kept(t) \subseteq P!Kept(t)'
        /\ \A t, e : (t # x9.active \/ e # x9.epoch \/ ~TRUE) => P!Bodies(t, e)' = P!Bodies(t, e)
        /\ \A t, e : P!Bodies(t, e)' \subseteq P!Bodies(t, e) \cup (DOMAIN x4' \ DOMAIN x4)
        /\ \A t : t = x9.active => DOMAIN x4' \ DOMAIN x4 \subseteq P!Kept(t)'
    BY <1>i, <1>u, RepliesExtend
  <1>d. \A k : P!Delivered(k) /\ k \in DOMAIN x4 => P!Delivered(k)'
    BY <1>x DEF P!Delivered
  <1>s. /\ \A t \in Conversations : (x3[t] # "new" => x3'[t] # "new") /\ (x3'[t] = "pruned" <=> x3[t] = "pruned")
        /\ x3[x9.active] = "submitted"
        /\ x3' \in [Conversations -> {"new", "submitted", "settled", "pruned"}]
        /\ \A t : P!Over(t) => P!Over(t)'
    <2>1. x3 \in [Conversations -> {"new", "submitted", "settled", "pruned"}]
      BY <1>i DEF P!TypeOK
    <2>2. x3[x9.active] = "submitted"
      BY <1>i, <1>u DEF P!RootsHaveBegun
    <2>3. \A t \in Conversations : (x3[t] # "new" => x3'[t] # "new") /\ (x3'[t] = "pruned" <=> x3[t] = "pruned")
      BY <1>u, <2>1, <2>2
    <2>4. x3' \in [Conversations -> {"new", "submitted", "settled", "pruned"}]
      BY <1>u, <2>1
    <2>5. \A t : P!Over(t) => P!Over(t)'
      BY <1>u, <2>1, <2>2 DEF P!Over
    <2> QED
      BY <2>2, <2>3, <2>4, <2>5
  <1> HIDE DEF b
  <1>r. /\ x5' \subseteq P!RecordType /\ x7' \subseteq P!SendType
        /\ \A r \in x5 : \E q \in x5' : q.msg = r.msg
        /\ \A q \in x5' : \E r \in x5 : q.msg = r.msg /\ q.root = r.root
        /\ \A x \in x7 : \E y \in x7' : y.created = x.created /\ y.msg = x.msg
        /\ \A y \in x7' : \E x \in x7 :
             /\ y.root = x.root /\ y.epoch = x.epoch /\ y.created = x.created
             /\ y.msg = x.msg /\ y.step = x.step /\ y.ok = x.ok
    <2>1. CASE P!Retire(b)
      BY <1>i, <1>c, <2>1, PreviewRetires
    <2>2. CASE x5' = x5 /\ x7' = x7
      BY <1>i, <2>2 DEF P!TypeOK
    <2> QED
      BY <1>g, <2>1, <2>2
  <1>1. P!TypeOK'
    BY <1>i, <1>u, <1>s, <1>x, <1>r DEF P!TypeOK
  <1>2. P!RootsHaveBegun'
    <2>1. x9'.epoch \in Nat /\ x9.epoch <= x9'.epoch
      BY <1>e, <1>u
    <2>2. /\ \A k \in DOMAIN x4 : x4[k].epoch <= x9'.epoch
          /\ \A m \in DOMAIN x6 : x6[m].epoch <= x9'.epoch
          /\ \A y \in x7 : y.epoch <= x9'.epoch
      BY <1>i, <1>e, <2>1, PlacesAreTyped DEF P!RootsHaveBegun
    <2>3. \A t \in Conversations : (x3[t] # "new" => x3'[t] # "new") /\ (x3'[t] = "pruned" <=> x3[t] = "pruned")
      BY <1>s
    <2>4. ASSUME NEW k \in DOMAIN x4'
          PROVE  /\ x3'[x4'[k].root] # "new" /\ x4'[k].epoch <= x9'.epoch
                 /\ x4'[k].kept <=> x3'[x4'[k].root] # "pruned"
      <3>1. CASE k \in DOMAIN x4
        <4>1. /\ x4[k].root \in Conversations /\ x3[x4[k].root] # "new"
              /\ x4[k].kept <=> x3[x4[k].root] # "pruned"
          BY <1>i, <3>1, PlacesAreTyped DEF P!RootsHaveBegun
        <4> QED
          BY <1>x, <2>2, <2>3, <3>1, <4>1
      <3>2. CASE k \notin DOMAIN x4
        <4>1. x4'[k].root = x9.active /\ x4'[k].epoch = x9.epoch /\ x4'[k].kept
          BY <1>x, <3>2
        <4> QED
          BY <1>u, <1>s, <2>1, <4>1
      <3> QED
        BY <3>1, <3>2
    <2>5. /\ \A r \in x5 : x3'[r.root] # "new"
          /\ \A y \in x7 : x3'[y.root] # "new"
      BY <1>i, <2>3, PlacesAreTyped DEF P!RootsHaveBegun
    <2>6. \A y \in x7' : x3'[y.root] # "new" /\ y.epoch <= x9'.epoch
      BY <1>r, <2>2, <2>5
    <2>7. \A q \in x5' : x3'[q.root] # "new"
      BY <1>r, <2>5
    <2> QED
      BY <1>u, <1>s, <2>2, <2>4, <2>6, <2>7 DEF P!RootsHaveBegun
  <1>3. P!IdentitiesAgree'
    BY <1>i, <1>u, <1>r DEF P!IdentitiesAgree
  <1>4. P!BoundariesHold'
    <2>1. CASE /\ n = 0 /\ \A k \in P!Kept(x9.active) : ~x4[k].body
               /\ P!Retire(b) /\ x9' = P!Rotated([x9 EXCEPT !.active = None])
      <3>1. x4' = x4
        <4>1. x4 \in Seq(P!RowType)
          BY <1>i DEF P!TypeOK
        <4>2. DOMAIN x4' = DOMAIN x4 /\ Len(x4') = Len(x4)
          BY <1>x, <2>1, <4>1
        <4> QED
          BY <1>x, <4>1, <4>2
      <3>2. P!Bodies(x9.active, x9.epoch) = {}
        <4>1. \A k \in DOMAIN x4 : x4[k].root = x9.active => k \in P!Kept(x9.active)
          BY <1>i, <1>s DEF P!RootsHaveBegun, P!Kept
        <4> QED
          BY <2>1, <4>1 DEF P!Bodies
      <3>3. P!Within(x9.active, x9.epoch, b.first, P!LastOf(b))
        BY <1>c, <3>2 DEF P!Within
      <3>4. x9'.epoch = x9.epoch + 1
        <4> DEFINE c == [x9 EXCEPT !.active = None]
        <4>1. c \in P!ActorType /\ c.epoch = x9.epoch
          BY <1>e DEF P!ActorType
        <4>2. x9' = P!Rotated(c)
          BY <2>1
        <4> HIDE DEF c
        <4> QED
          BY <4>1, <4>2, PreviewRotates
      <3>5. x9'.active \in {x9.active, None}
        BY <1>u
      <3> QED
        BY <1>c, <1>s, <1>u, <2>1, <3>1, <3>3, <3>4, <3>5, RetirementHolds
    <2>2. CASE x5' = x5 /\ x7' = x7
      BY <1>n, <1>s, <1>u, <1>x, <2>2, BoundariesRotate
    <2> QED
      BY <1>g, <2>1, <2>2
  <1>5. P!DoomedAreOver'
    BY <1>n, <1>s, <1>u, <1>x, <1>d, DoomedStay
  <1>6. P!NothingForgotten'
    <2>1. ASSUME NEW m \in DOMAIN x6, x6[m].state = "visible", x6[m].known
          PROVE  (\E q \in x5' : q.msg = m) \/ \E y \in x7' : y.created /\ y.msg = m
      BY <1>i, <1>r, <2>1 DEF P!NothingForgotten
    <2> QED
      BY <1>u, <2>1 DEF P!NothingForgotten
  <1> QED
    BY <1>1, <1>2, <1>3, <1>4, <1>5, <1>6 DEF P!PInv

\* A reply is delivered, or fails; none that was delivered changes.
LEMMA ProgressDeliver ==
    ASSUME P!PInv, NEW k \in DOMAIN x4, P!Deliver(k)
    PROVE  P!PInv'
  <1>i. /\ P!TypeOK /\ P!RootsHaveBegun /\ P!IdentitiesAgree /\ P!BoundariesHold /\ P!DoomedAreOver
        /\ P!NothingForgotten
    BY DEF P!PInv
  <1>e. x9.epoch \in Nat /\ x9 \in P!ActorType
    BY <1>i DEF P!TypeOK, P!ActorType
  <1>g. PICK s \in {"done", "failed"} : x4' = [x4 EXCEPT ![k].state = s] /\ x4[k].state = "pending"
    BY DEF P!Deliver
  <1>u. /\ x1' = x1 /\ x3' = x3 /\ x5' = x5 /\ x6' = x6 /\ x7' = x7 /\ x8' = x8 /\ x9' = x9
    BY DEF P!Deliver
  <1>x. /\ x4' \in Seq(P!RowType) /\ DOMAIN x4' = DOMAIN x4
        /\ \A i \in DOMAIN x4 : /\ x4'[i].root = x4[i].root /\ x4'[i].epoch = x4[i].epoch
                                /\ x4'[i].kept = x4[i].kept
                                /\ x4[i].state = "done" => x4'[i].state = "done"
        /\ \A t : P!Kept(t)' = P!Kept(t)
        /\ \A t, e : P!Bodies(t, e)' = P!Bodies(t, e)
    BY <1>i, <1>g, ReplyIsDelivered
  <1>d. \A i : P!Delivered(i) /\ i \in DOMAIN x4 => P!Delivered(i)'
    BY <1>x DEF P!Delivered
  <1>o. \A t : P!Over(t) => P!Over(t)'
    BY <1>u DEF P!Over
  <1>1. P!TypeOK'
    BY <1>i, <1>u, <1>x DEF P!TypeOK
  <1>2. P!RootsHaveBegun'
    BY <1>i, <1>u, <1>x DEF P!RootsHaveBegun
  <1>3. P!IdentitiesAgree'
    BY <1>i, <1>u DEF P!IdentitiesAgree
  <1>4. P!BoundariesHold'
    BY <1>o, <1>u, <1>x, BoundariesStay
  <1>5. P!DoomedAreOver'
    BY <1>e, <1>o, <1>u, <1>x, <1>d, DoomedStay
  <1>6. P!NothingForgotten'
    BY <1>i, <1>u DEF P!NothingForgotten
  <1> QED
    BY <1>1, <1>2, <1>3, <1>4, <1>5, <1>6 DEF P!PInv

\* What is found replaced is: the replies written while it was the current preview are in its
\* boundary, or the task is over.
LEMMA ProgressReconcile ==
    ASSUME P!PInv, P!Reconcile
    PROVE  P!PInv'
  <1>i. /\ P!TypeOK /\ P!RootsHaveBegun /\ P!IdentitiesAgree /\ P!BoundariesHold /\ P!DoomedAreOver
        /\ P!NothingForgotten
    BY DEF P!PInv
  <1>e. x9.epoch \in Nat /\ x9 \in P!ActorType
    BY <1>i DEF P!TypeOK, P!ActorType
  <1>u. /\ x1' = x1 /\ x3' = x3 /\ x4' = x4 /\ x5' = x5 /\ x6' = x6 /\ x7' = x7 /\ x9' = x9
        /\ \A m \in x8' : m \in x8 \/ \E r \in x5 : r.msg = m /\ P!Replaced(r)
    BY DEF P!Reconcile
  <1>b. /\ \A u : P!Kept(u)' = P!Kept(u)
        /\ \A u, e : P!Bodies(u, e)' = P!Bodies(u, e)
        /\ \A i : P!Delivered(i)' = P!Delivered(i)
    BY <1>u, SameReplies DEF P!Delivered
  <1>o. \A t : P!Over(t) => P!Over(t)'
    BY <1>u DEF P!Over
  <1>r. ASSUME NEW r \in x5, P!Replaced(r)
        PROVE  /\ r.msg \in DOMAIN x6
               /\ \A k \in P!Bodies(x6[r.msg].root, x6[r.msg].epoch) : P!Delivered(k)
               /\ x6[r.msg].epoch < x9.epoch \/ P!Over(x6[r.msg].root)
    <2> DEFINE e == x6[r.msg].epoch
    <2>1. r.msg \in DOMAIN x6 /\ x6[r.msg].root = r.root
      BY <1>i DEF P!IdentitiesAgree
    <2>2. /\ \A k \in DOMAIN x4 : k \in Nat /\ k > 0
          /\ P!Bodies(r.root, e) \subseteq DOMAIN x4
      BY <1>i DEF P!TypeOK, P!Bodies
    <2>3. x3[r.root] # "pruned" => P!Bodies(r.root, e) \subseteq P!Kept(r.root)
      BY <1>i DEF P!RootsHaveBegun, P!Bodies, P!Kept
    <2>4. CASE r.retired
      <3>1. P!Within(r.root, e, r.first, r.last) /\ (e < x9.epoch \/ P!Over(r.root))
        BY <1>i, <2>4 DEF P!BoundariesHold, P!Frozen
      <3> HIDE DEF e
      <3>2. CASE r.first = 0
        <4>1. \A k \in P!Bodies(r.root, e) : P!Delivered(k)
          BY <2>2, <3>1, <3>2 DEF P!Within
        <4> QED
          BY <2>1, <3>1, <4>1 DEF e
      <3>3. CASE r.first # 0
        <4>1. /\ {r.first, r.last} \subseteq P!Kept(r.root)
              /\ \A k \in P!Kept(r.root) : k \in r.first..r.last => P!Delivered(k)
          BY <1>r, <2>4, <3>3 DEF P!Replaced
        <4>2. x3[r.root] # "pruned" /\ r.first \in Nat /\ r.last \in Nat
          BY <1>i, <2>2, <4>1 DEF P!RootsHaveBegun, P!Kept
        <4>3. \A k \in P!Bodies(r.root, e) : k \in r.first..r.last
          BY <2>2, <3>1, <4>2 DEF P!Within
        <4> QED
          BY <2>1, <2>3, <3>1, <4>1, <4>2, <4>3 DEF e
      <3> QED
        BY <3>2, <3>3
    <2>5. CASE ~r.retired
      <3>1. x3[r.root] = "settled" /\ \A k \in P!Kept(r.root) : P!Delivered(k)
        BY <1>r, <2>5 DEF P!Replaced
      <3> QED
        BY <2>1, <2>3, <3>1 DEF P!Over
    <2> QED
      BY <2>4, <2>5
  <1>1. P!TypeOK'
    BY <1>i, <1>u, <1>r DEF P!TypeOK
  <1>2. P!RootsHaveBegun'
    BY <1>i, <1>u DEF P!RootsHaveBegun
  <1>3. P!IdentitiesAgree'
    BY <1>i, <1>u DEF P!IdentitiesAgree
  <1>4. P!BoundariesHold'
    BY <1>o, <1>u, <1>b, BoundariesStay
  <1>5. P!DoomedAreOver'
    <2>1. ASSUME NEW m \in x8'
          PROVE  /\ \A k \in P!Bodies(x6[m].root, x6[m].epoch) : P!Delivered(k)
                 /\ x6[m].epoch < x9.epoch \/ P!Over(x6[m].root)
      BY <1>i, <1>u, <1>r DEF P!DoomedAreOver
    <2>2. \A t : P!Over(t)' = P!Over(t)
      BY <1>u DEF P!Over
    <2>3. \A t, e : (\A k \in P!Bodies(t, e) : P!Delivered(k)) => \A k \in P!Bodies(t, e)' : P!Delivered(k)'
      BY <1>b
    <2> QED
      BY <1>u, <2>1, <2>2, <2>3 DEF P!DoomedAreOver
  <1>6. P!NothingForgotten'
    BY <1>i, <1>u DEF P!NothingForgotten
  <1> QED
    BY <1>1, <1>2, <1>3, <1>4, <1>5, <1>6 DEF P!PInv

\* What becomes of a preview that is deleted: its record goes only when Telegram does not
\* show it any more, or never will delete it.
LEMMA ProgressDeleteMessage ==
    ASSUME P!PInv, NEW m \in x8, P!DeleteMessage(m)
    PROVE  P!PInv'
  <1>i. /\ P!TypeOK /\ P!RootsHaveBegun /\ P!IdentitiesAgree /\ P!BoundariesHold /\ P!DoomedAreOver
        /\ P!NothingForgotten
    BY DEF P!PInv
  <1>e. x9.epoch \in Nat /\ x9 \in P!ActorType
    BY <1>i DEF P!TypeOK, P!ActorType
  <1>u. /\ x1' = x1 /\ x3' = x3 /\ x4' = x4 /\ x7' = x7 /\ x9' = x9
        /\ x8' \subseteq x8 /\ m \in DOMAIN x6
        /\ \/ x6' = x6 /\ x5' = x5
           \/ \E s \in {"gone", "stuck"} : x6' = [x6 EXCEPT ![m].state = s] /\ x5' \in {x5, P!Clear(m)}
    <2>1. m \in DOMAIN x6
      BY <1>i DEF P!TypeOK
    <2>2. /\ x1' = x1 /\ x3' = x3 /\ x4' = x4 /\ x7' = x7 /\ x9' = x9 /\ x8' = x8 \ {m}
          /\ \/ x6' = [x6 EXCEPT ![m].state = "gone"] /\ x5' \in {x5, P!Clear(m)}
             \/ x6' = x6 /\ x5' = x5
             \/ x6' = [x6 EXCEPT ![m].state = IF x6[m].state = "gone" THEN x6[m].state ELSE "stuck"] /\ x5' = P!Clear(m)
      BY <2>1 DEF P!DeleteMessage
    <2> QED
      BY <2>1, <2>2
  <1>x. /\ x5' \subseteq x5 /\ x6' \in Seq(P!PostType) /\ DOMAIN x6' = DOMAIN x6
        /\ \A k \in DOMAIN x6 : x6'[k].root = x6[k].root /\ x6'[k].epoch = x6[k].epoch
        /\ \A k \in DOMAIN x6 : x6'[k].state = "visible" =>
             x6'[k] = x6[k] /\ \A r \in x5 : r.msg = k => r \in x5'
    <2>1. CASE x6' = x6 /\ x5' = x5
      BY <1>i, <2>1 DEF P!TypeOK
    <2>2. ASSUME NEW s \in {"gone", "stuck"}, x6' = [x6 EXCEPT ![m].state = s], x5' \in {x5, P!Clear(m)}
          PROVE  /\ x5' \subseteq x5 /\ x6' \in Seq(P!PostType) /\ DOMAIN x6' = DOMAIN x6
                 /\ \A k \in DOMAIN x6 : x6'[k].root = x6[k].root /\ x6'[k].epoch = x6[k].epoch
                 /\ \A k \in DOMAIN x6 : x6'[k].state = "visible" =>
                      x6'[k] = x6[k] /\ \A r \in x5 : r.msg = k => r \in x5'
      <3>1. /\ x6' \in Seq(P!PostType) /\ DOMAIN x6' = DOMAIN x6
            /\ \A k \in DOMAIN x6 : x6'[k].root = x6[k].root /\ x6'[k].epoch = x6[k].epoch
            /\ x6'[m].state = s
            /\ \A k \in DOMAIN x6 : k # m => x6'[k] = x6[k]
        BY <1>i, <1>u, <2>2, PostChanges
      <3>2. x5' \subseteq x5 /\ \A r \in x5 : r.msg # m => r \in x5'
        BY <2>2 DEF P!Clear
      <3>3. s # "visible"
        BY <2>2
      <3> QED
        BY <3>1, <3>2, <3>3
    <2> QED
      BY <1>u, <2>1, <2>2
  <1>o. \A u : P!Over(u) => P!Over(u)'
    BY <1>u DEF P!Over
  <1>b. /\ \A u : P!Kept(u)' = P!Kept(u)
        /\ \A u, e : P!Bodies(u, e)' = P!Bodies(u, e)
        /\ \A i : P!Delivered(i)' = P!Delivered(i)
    BY <1>u, SameReplies DEF P!Delivered
  <1>1. P!TypeOK'
    BY <1>i, <1>u, <1>x DEF P!TypeOK
  <1>2. P!RootsHaveBegun'
    BY <1>i, <1>u, <1>x DEF P!RootsHaveBegun
  <1>3. P!IdentitiesAgree'
    BY <1>i, <1>u, <1>x DEF P!IdentitiesAgree
  <1>4. P!BoundariesHold'
    BY <1>i, <1>o, <1>u, <1>x, <1>b, BoundariesStay
  <1>5. P!DoomedAreOver'
    <2>1. \A k \in x8 : x6'[k].root = x6[k].root /\ x6'[k].epoch = x6[k].epoch
      BY <1>i, <1>x DEF P!TypeOK
    <2> QED
      BY <1>e, <1>o, <1>u, <1>b, <2>1, DoomedStay
  <1>6. P!NothingForgotten'
    BY <1>i, <1>u, <1>x DEF P!NothingForgotten
  <1> QED
    BY <1>1, <1>2, <1>3, <1>4, <1>5, <1>6 DEF P!PInv

\* Retention takes the replies of a root only when no preview of it is left.
LEMMA ProgressPrune ==
    ASSUME P!PInv, NEW t \in Conversations, P!Prune(t)
    PROVE  P!PInv'
  <1>i. /\ P!TypeOK /\ P!RootsHaveBegun /\ P!IdentitiesAgree /\ P!BoundariesHold /\ P!DoomedAreOver
        /\ P!NothingForgotten
    BY DEF P!PInv
  <1>e. x9.epoch \in Nat /\ x9 \in P!ActorType
    BY <1>i DEF P!TypeOK, P!ActorType
  <1>u. /\ x1' = x1 /\ x5' = x5 /\ x6' = x6 /\ x7' = x7 /\ x8' = x8 /\ x9' = x9
        /\ x3[t] = "settled" /\ x3' = [x3 EXCEPT ![t] = "pruned"]
        /\ x4' = [i \in DOMAIN x4 |-> IF x4[i].root = t THEN [x4[i] EXCEPT !.kept = FALSE] ELSE x4[i]]
        /\ (\A r \in x5 : r.root # t) /\ \A x \in x7 : x.root # t
    BY DEF P!Prune, P!Old
  <1>x. /\ x4' \in Seq(P!RowType) /\ DOMAIN x4' = DOMAIN x4
        /\ \A i \in DOMAIN x4 :
             /\ x4'[i].root = x4[i].root /\ x4'[i].epoch = x4[i].epoch /\ x4'[i].state = x4[i].state
             /\ x4'[i].kept = (x4[i].kept /\ x4[i].root # t)
        /\ \A u : u # t => P!Kept(u)' = P!Kept(u)
        /\ \A u, e : P!Bodies(u, e)' = P!Bodies(u, e)
    BY <1>i, <1>u, RepliesArePruned
  <1>d. \A i : P!Delivered(i) /\ i \in DOMAIN x4 => P!Delivered(i)'
    BY <1>x DEF P!Delivered
  <1>s. /\ x3' \in [Conversations -> {"new", "submitted", "settled", "pruned"}] /\ x3'[t] = "pruned"
        /\ \A u \in Conversations : u # t => x3'[u] = x3[u]
        /\ x9.active # t
    <2>1. x3 \in [Conversations -> {"new", "submitted", "settled", "pruned"}]
      BY <1>i DEF P!TypeOK
    <2>2. x9.active # t
      BY <1>i, <1>u, PartsAssumption DEF P!RootsHaveBegun
    <2> QED
      BY <1>u, <2>1, <2>2
  <1>o. \A u : P!Over(u) => P!Over(u)'
    <2>1. ASSUME NEW u, P!Over(u) PROVE P!Over(u)'
      <3>1. x3 \in [Conversations -> {"new", "submitted", "settled", "pruned"}]
        BY <1>i DEF P!TypeOK
      <3>2. CASE u = t
        BY <1>s, <3>2 DEF P!Over
      <3>3. CASE u # t
        <4>1. x3'[u] = x3[u]
          BY <1>u, <3>1, <3>3
        <4> QED
          BY <2>1, <4>1 DEF P!Over
      <3> QED
        BY <3>2, <3>3
    <2> QED
      BY <2>1
  <1>1. P!TypeOK'
    BY <1>i, <1>u, <1>s, <1>x DEF P!TypeOK
  <1>2. P!RootsHaveBegun'
    <2>1. x9.active # None => x9.active \in Conversations
      BY <1>e DEF P!ActorType
    <2>2. ASSUME NEW i \in DOMAIN x4
          PROVE  /\ x3'[x4[i].root] # "new" /\ x4[i].epoch <= x9.epoch
                 /\ x4'[i].kept <=> x3'[x4[i].root] # "pruned"
      <3>1. /\ x4[i].root \in Conversations /\ x3[x4[i].root] # "new" /\ x4[i].epoch <= x9.epoch
            /\ x4[i].kept <=> x3[x4[i].root] # "pruned"
        BY <1>i, PlacesAreTyped DEF P!RootsHaveBegun
      <3>2. x4'[i].kept <=> x4[i].kept /\ x4[i].root # t
        <4>1. x4[i] \in P!RowType
          BY <1>i DEF P!TypeOK
        <4>2. x4[i].kept \in BOOLEAN
          BY <4>1 DEF P!RowType
        <4> QED
          BY <1>x, <4>2
      <3> QED
        BY <1>s, <3>1, <3>2
    <2>3. /\ \A r \in x5 : x3'[r.root] # "new"
          /\ \A x \in x7 : x3'[x.root] # "new"
      BY <1>i, <1>u, <1>s, PlacesAreTyped DEF P!RootsHaveBegun
    <2> QED
      BY <1>i, <1>u, <1>s, <1>x, <2>1, <2>2, <2>3 DEF P!RootsHaveBegun
  <1>3. P!IdentitiesAgree'
    BY <1>i, <1>u DEF P!IdentitiesAgree
  <1>4. P!BoundariesHold'
    <2>1. \A u : \/ P!Kept(u) \subseteq P!Kept(u)'
                 \/ u # x9.active /\ (\A r \in x5 : r.root # u) /\ \A x \in x7 : x.root # u
      BY <1>u, <1>s, <1>x
    <2> QED
      BY <1>i, <1>o, <1>u, <1>x, <2>1, BoundariesStay
  <1>5. P!DoomedAreOver'
    BY <1>e, <1>o, <1>u, <1>x, <1>d, DoomedStay
  <1>6. P!NothingForgotten'
    BY <1>i, <1>u DEF P!NothingForgotten
  <1> QED
    BY <1>1, <1>2, <1>3, <1>4, <1>5, <1>6 DEF P!PInv

\* A shutdown settles the task, whose last replies it may store.
LEMMA ProgressStop ==
    ASSUME P!PInv, NEW n \in 0..1, P!Stop(n)
    PROVE  P!PInv'
  <1>i. /\ P!TypeOK /\ P!RootsHaveBegun /\ P!IdentitiesAgree /\ P!BoundariesHold /\ P!DoomedAreOver
        /\ P!NothingForgotten
    BY DEF P!PInv
  <1>e. x9.epoch \in Nat /\ x9 \in P!ActorType
    BY <1>i DEF P!TypeOK, P!ActorType
  <1>u. /\ x1 = "up" /\ x9.retiring = P!Open
        /\ x1' = "stopping" /\ x5' = x5 /\ x6' = x6 /\ x7' = x7 /\ x8' = x8
        /\ x9' \in P!ActorType /\ x9'.active = None /\ x9'.retiring = P!Open /\ x9'.epoch = x9.epoch + 1
        /\ \/ x9.active = None /\ x3' = x3 /\ x4' = x4
           \/ /\ x9.active \in Conversations /\ n \in Nat
              /\ x3' = [x3 EXCEPT ![x9.active] = "settled"]
              /\ x4' = P!WithReplies(n, TRUE)
    <2>1. /\ x1 = "up" /\ ~x9.retiring.retired
          /\ x1' = "stopping" /\ x5' = x5 /\ x6' = x6 /\ x7' = x7 /\ x8' = x8
          /\ x9' = P!NewActor(x9.epoch + 1)
          /\ \/ x9.active = None /\ x3' = x3 /\ x4' = x4
             \/ /\ x9.active # None /\ x3' = [x3 EXCEPT ![x9.active] = "settled"]
                /\ x4' = P!WithReplies(n, TRUE)
      BY DEF P!Stop, P!Acts
    <2>2. x9.retiring = P!Open
      BY <1>i, <2>1 DEF P!RootsHaveBegun
    <2>3. x9.active # None => x9.active \in Conversations
      BY <1>e DEF P!ActorType
    <2>4. x9' \in P!ActorType /\ x9'.active = None /\ x9'.retiring = P!Open /\ x9'.epoch = x9.epoch + 1
      BY <1>e, <2>1, ActorsAreNew
    <2>5. ASSUME x9.active # None, x3' = [x3 EXCEPT ![x9.active] = "settled"], x4' = P!WithReplies(n, TRUE)
          PROVE  /\ x9.active \in Conversations /\ n \in Nat
                 /\ x3' = [x3 EXCEPT ![x9.active] = "settled"]
                 /\ x4' = P!WithReplies(n, TRUE)
      <3>1. n \in Nat
        OBVIOUS
      <3> QED
        BY <2>3, <2>5, <3>1
    <2> QED
      BY <2>1, <2>2, <2>4, <2>5
  <1>x. /\ x4' \in Seq(P!RowType) /\ DOMAIN x4 \subseteq DOMAIN x4'
        /\ \A k \in DOMAIN x4 : x4'[k] = x4[k]
        /\ \A k \in DOMAIN x4' \ DOMAIN x4 :
             /\ x4'[k].root \in Conversations /\ x4'[k].root = x9.active
             /\ x4'[k].epoch = x9.epoch /\ x4'[k].kept
        /\ \A t : P!Kept(t) \subseteq P!Kept(t)'
        /\ \A t, e : (t # x9.active \/ e # x9.epoch) => P!Bodies(t, e)' = P!Bodies(t, e)
    <2>1. CASE x4' = x4
      BY <1>i, <2>1, SameReplies DEF P!TypeOK
    <2>2. CASE x9.active \in Conversations /\ n \in Nat /\ x4' = P!WithReplies(n, TRUE)
      <3>1. /\ x4' \in Seq(P!RowType) /\ Len(x4) \in Nat
            /\ DOMAIN x4' = 1..(Len(x4) + n) /\ DOMAIN x4 = 1..Len(x4)
            /\ \A k \in DOMAIN x4 : x4'[k] = x4[k]
            /\ \A k \in DOMAIN x4' \ DOMAIN x4 :
                 x4'[k].root = x9.active /\ x4'[k].epoch = x9.epoch /\ x4'[k].kept
            /\ \A t : P!Kept(t) \subseteq P!Kept(t)'
            /\ \A t, e : (t # x9.active \/ e # x9.epoch) => P!Bodies(t, e)' = P!Bodies(t, e)
        BY <1>i, <2>2, RepliesExtend
      <3>2. ASSUME NEW k \in DOMAIN x4 PROVE k \in DOMAIN x4'
        <4>1. n \in Nat /\ Len(x4) \in Nat /\ k \in 1..Len(x4)
          BY <3>1
        <4>2. k \in 1..(Len(x4) + n)
          BY <4>1
        <4> QED
          BY <3>1, <4>2
      <3>3. ASSUME NEW k \in DOMAIN x4' \ DOMAIN x4
            PROVE  /\ x4'[k].root \in Conversations /\ x4'[k].root = x9.active
                   /\ x4'[k].epoch = x9.epoch /\ x4'[k].kept
        <4>1. x4'[k].root = x9.active /\ x4'[k].epoch = x9.epoch /\ x4'[k].kept
          BY <3>1
        <4> QED
          BY <2>2, <4>1
      <3> QED
        BY <3>1, <3>2, <3>3
    <2> QED
      BY <1>u, <2>1, <2>2
  <1>d. \A k : P!Delivered(k) /\ k \in DOMAIN x4 => P!Delivered(k)'
    BY <1>x DEF P!Delivered
  <1>s. /\ \A t \in Conversations : (x3[t] # "new" => x3'[t] # "new") /\ (x3'[t] = "pruned" <=> x3[t] = "pruned")
        /\ x9.active \in Conversations => x3[x9.active] = "submitted"
        /\ x3' \in [Conversations -> {"new", "submitted", "settled", "pruned"}]
        /\ \A t : P!Over(t) => P!Over(t)'
    <2>1. x3 \in [Conversations -> {"new", "submitted", "settled", "pruned"}]
      BY <1>i DEF P!TypeOK
    <2>2. x9.active \in Conversations => x3[x9.active] = "submitted"
      BY <1>i, PartsAssumption DEF P!RootsHaveBegun
    <2>3. \A t \in Conversations : (x3[t] # "new" => x3'[t] # "new") /\ (x3'[t] = "pruned" <=> x3[t] = "pruned")
      BY <1>u, <2>1, <2>2
    <2>4. x3' \in [Conversations -> {"new", "submitted", "settled", "pruned"}]
      BY <1>u, <2>1
    <2>5. ASSUME NEW t, P!Over(t) PROVE P!Over(t)'
      <3>1. CASE x3' = x3
        BY <2>5, <3>1 DEF P!Over
      <3>2. CASE x9.active \in Conversations /\ x3' = [x3 EXCEPT ![x9.active] = "settled"]
        <4>1. x3[t] \in {"settled", "pruned"} /\ x3[x9.active] = "submitted" /\ x3'[t] = x3[t]
          BY <2>1, <2>2, <2>5, <3>2 DEF P!Over
        <4> QED
          BY <4>1 DEF P!Over
      <3> QED
        BY <1>u, <3>1, <3>2
    <2> QED
      BY <2>2, <2>3, <2>4, <2>5
  <1>1. P!TypeOK'
    BY <1>i, <1>u, <1>s, <1>x DEF P!TypeOK
  <1>2. P!RootsHaveBegun'
    <2>1. x9'.epoch \in Nat /\ x9.epoch <= x9'.epoch
      BY <1>e, <1>u
    <2>2. /\ \A k \in DOMAIN x4 : x4[k].epoch <= x9'.epoch
          /\ \A m \in DOMAIN x6 : x6[m].epoch <= x9'.epoch
          /\ \A y \in x7 : y.epoch <= x9'.epoch
      BY <1>i, <1>e, <2>1, PlacesAreTyped DEF P!RootsHaveBegun
    <2>3. \A t \in Conversations : (x3[t] # "new" => x3'[t] # "new") /\ (x3'[t] = "pruned" <=> x3[t] = "pruned")
      BY <1>s
    <2>4. ASSUME NEW k \in DOMAIN x4'
          PROVE  /\ x3'[x4'[k].root] # "new" /\ x4'[k].epoch <= x9'.epoch
                 /\ x4'[k].kept <=> x3'[x4'[k].root] # "pruned"
      <3>1. CASE k \in DOMAIN x4
        <4>1. /\ x4[k].root \in Conversations /\ x3[x4[k].root] # "new"
              /\ x4[k].kept <=> x3[x4[k].root] # "pruned"
          BY <1>i, <3>1, PlacesAreTyped DEF P!RootsHaveBegun
        <4> QED
          BY <1>x, <2>2, <2>3, <3>1, <4>1
      <3>2. CASE k \notin DOMAIN x4
        <4>1. x4'[k].root = x9.active /\ x4'[k].epoch = x9.epoch /\ x4'[k].kept /\ x9.active \in Conversations
          BY <1>x, <3>2
        <4> QED
          BY <1>e, <1>u, <1>s, <1>x, <3>2, <4>1
      <3> QED
        BY <3>1, <3>2
    <2>5. /\ \A r \in x5 : x3'[r.root] # "new"
          /\ \A y \in x7 : x3'[y.root] # "new"
      BY <1>i, <2>3, PlacesAreTyped DEF P!RootsHaveBegun
    <2> QED
      BY <1>u, <2>2, <2>4, <2>5 DEF P!RootsHaveBegun
  <1>3. P!IdentitiesAgree'
    BY <1>i, <1>u DEF P!IdentitiesAgree
  <1>4. P!BoundariesHold'
    BY <1>e, <1>s, <1>u, <1>x, BoundariesRotate
  <1>5. P!DoomedAreOver'
    BY <1>e, <1>s, <1>u, <1>x, <1>d, DoomedStay
  <1>6. P!NothingForgotten'
    BY <1>i, <1>u DEF P!NothingForgotten
  <1> QED
    BY <1>1, <1>2, <1>3, <1>4, <1>5, <1>6 DEF P!PInv

\* During a shutdown the goroutine of a request records its result.
LEMMA ProgressRecordLate ==
    ASSUME P!PInv, NEW x \in x7, P!RecordLate(x)
    PROVE  P!PInv'
  <1>i. /\ P!TypeOK /\ P!RootsHaveBegun /\ P!IdentitiesAgree /\ P!BoundariesHold /\ P!DoomedAreOver
        /\ P!NothingForgotten
    BY DEF P!PInv
  <1>e. x9.epoch \in Nat /\ x9 \in P!ActorType
    BY <1>i DEF P!TypeOK, P!ActorType
  <1>u. /\ x1 = "stopping" /\ x1' = x1 /\ x3' = x3 /\ x4' = x4 /\ x6' = x6 /\ x8' = x8
        /\ x7' = x7 \ {x} /\ x5' = P!Recorded(x)
        /\ x9' = x9
    BY DEF P!RecordLate
  <1>r. /\ x5' \subseteq P!RecordType
        /\ \A r \in x5 : \E q \in x5' : q.msg = r.msg
        /\ x.created /\ x.ok => \E q \in x5' : q.msg = x.msg
        /\ \A q \in x5' :
             \/ q \in x5
             \/ x.msg \in DOMAIN x6 /\ x6[x.msg].root = x.root /\ q.msg = x.msg /\ q.root = x.root
    BY <1>i, <1>u, PreviewIsRecorded
  <1>o. \A u : P!Over(u) => P!Over(u)'
    BY <1>u DEF P!Over
  <1>b. /\ \A u : P!Kept(u)' = P!Kept(u)
        /\ \A u, e : P!Bodies(u, e)' = P!Bodies(u, e)
        /\ \A i : P!Delivered(i)' = P!Delivered(i)
    BY <1>u, SameReplies DEF P!Delivered
  <1>1. P!TypeOK'
    BY <1>i, <1>u, <1>r DEF P!TypeOK
  <1>2. P!RootsHaveBegun'
    <2>1. x9'.epoch \in Nat /\ x9.epoch <= x9'.epoch
      BY <1>e, <1>u
    <2>2. /\ \A k \in DOMAIN x4 : x4[k].epoch <= x9'.epoch
          /\ \A m \in DOMAIN x6 : x6[m].epoch <= x9'.epoch
          /\ \A y \in x7 : y.epoch <= x9'.epoch
      BY <1>i, <1>e, <2>1, PlacesAreTyped DEF P!RootsHaveBegun
    <2>3. \A q \in x5' : x3[q.root] # "new"
      BY <1>i, <1>r DEF P!RootsHaveBegun
    <2> QED
      BY <1>i, <1>u, <2>2, <2>3 DEF P!RootsHaveBegun
  <1>3. P!IdentitiesAgree'
    BY <1>i, <1>u, <1>r DEF P!IdentitiesAgree
  <1>4. P!BoundariesHold'
    BY <1>e, <1>u, RecordingHolds
  <1>5. P!DoomedAreOver'
    BY <1>e, <1>o, <1>u, <1>b, DoomedStay
  <1>6. P!NothingForgotten'
    <2>1. ASSUME NEW m \in DOMAIN x6, x.created, x.msg = m PROVE x.ok
      <3>1. m # 0
        BY <1>i DEF P!TypeOK
      <3> QED
        BY <1>i, <2>1, <3>1 DEF P!IdentitiesAgree
    <2>2. ASSUME NEW m \in DOMAIN x6, x6[m].state = "visible", x6[m].known
          PROVE  (\E q \in x5' : q.msg = m) \/ \E y \in x7' : y.created /\ y.msg = m
      <3>1. CASE \E r \in x5 : r.msg = m
        BY <1>r, <3>1
      <3>2. ASSUME NEW y \in x7, y.created, y.msg = m
            PROVE  (\E q \in x5' : q.msg = m) \/ \E z \in x7' : z.created /\ z.msg = m
        BY <1>r, <1>u, <2>1, <3>2
      <3> QED
        BY <1>i, <2>2, <3>1, <3>2 DEF P!NothingForgotten
    <2> QED
      BY <1>u, <2>2 DEF P!NothingForgotten
  <1> QED
    BY <1>1, <1>2, <1>3, <1>4, <1>5, <1>6 DEF P!PInv

\* The process ends when nothing is on its way any more.
LEMMA ProgressExit ==
    ASSUME P!PInv, P!Exit
    PROVE  P!PInv'
  <1>i. /\ P!TypeOK /\ P!RootsHaveBegun /\ P!IdentitiesAgree /\ P!BoundariesHold /\ P!DoomedAreOver
        /\ P!NothingForgotten
    BY DEF P!PInv
  <1>e. x9.epoch \in Nat /\ x9 \in P!ActorType
    BY <1>i DEF P!TypeOK, P!ActorType
  <1>u. /\ x1 = "stopping" /\ x1' = "down" /\ x7 = {} /\ x8' = {}
        /\ x3' = x3 /\ x4' = x4 /\ x5' = x5 /\ x6' = x6 /\ x7' = x7 /\ x9' = x9
    BY DEF P!Exit
  <1>o. \A u : P!Over(u) => P!Over(u)'
    BY <1>u DEF P!Over
  <1>b. /\ \A u : P!Kept(u)' = P!Kept(u)
        /\ \A u, e : P!Bodies(u, e)' = P!Bodies(u, e)
        /\ \A i : P!Delivered(i)' = P!Delivered(i)
    BY <1>u, SameReplies DEF P!Delivered
  <1>1. P!TypeOK'
    BY <1>i, <1>u DEF P!TypeOK
  <1>2. P!RootsHaveBegun'
    BY <1>i, <1>u DEF P!RootsHaveBegun
  <1>3. P!IdentitiesAgree'
    BY <1>i, <1>u DEF P!IdentitiesAgree
  <1>4. P!BoundariesHold'
    BY <1>i, <1>o, <1>u, <1>b, BoundariesStay
  <1>5. P!DoomedAreOver'
    BY <1>e, <1>o, <1>u, <1>b, DoomedStay
  <1>6. P!NothingForgotten'
    BY <1>i, <1>u DEF P!NothingForgotten
  <1> QED
    BY <1>1, <1>2, <1>3, <1>4, <1>5, <1>6 DEF P!PInv

\* A crash forgets the previews that are not recorded; the next process starts with a new
\* epoch.
LEMMA ProgressCrash ==
    ASSUME P!PInv, P!Crash
    PROVE  P!PInv'
  <1>i. /\ P!TypeOK /\ P!RootsHaveBegun /\ P!IdentitiesAgree /\ P!BoundariesHold /\ P!DoomedAreOver
        /\ P!NothingForgotten
    BY DEF P!PInv
  <1>e. x9.epoch \in Nat /\ x9 \in P!ActorType
    BY <1>i DEF P!TypeOK, P!ActorType
  <1>u. /\ x1' = "down" /\ x7' = {} /\ x8' = {} /\ x3' = x3 /\ x4' = x4 /\ x5' = x5
        /\ x9' \in P!ActorType /\ x9'.active = None /\ x9'.retiring = P!Open /\ x9'.epoch = x9.epoch + 1
        /\ x6' = [m \in DOMAIN x6 |-> [x6[m] EXCEPT !.known = x6[m].known /\ \E r \in x5 : r.msg = m]]
    <2>1. /\ x1' = "down" /\ x7' = {} /\ x8' = {} /\ x3' = x3 /\ x4' = x4 /\ x5' = x5
          /\ x9' = P!NewActor(x9.epoch + 1)
          /\ x6' = [m \in DOMAIN x6 |-> [x6[m] EXCEPT !.known = x6[m].known /\ \E r \in x5 : r.msg = m]]
      BY DEF P!Crash
    <2> QED
      BY <1>e, <2>1, ActorsAreNew
  <1>x. /\ x6' \in Seq(P!PostType) /\ DOMAIN x6' = DOMAIN x6
        /\ \A m \in DOMAIN x6 :
             /\ x6'[m].root = x6[m].root /\ x6'[m].epoch = x6[m].epoch /\ x6'[m].state = x6[m].state
             /\ x6'[m].known => \E r \in x5 : r.msg = m
    BY <1>i, <1>u, PostsAreForgotten
  <1>o. \A u : P!Over(u) => P!Over(u)'
    BY <1>u DEF P!Over
  <1>b. /\ \A u : P!Kept(u)' = P!Kept(u)
        /\ \A u, e : P!Bodies(u, e)' = P!Bodies(u, e)
        /\ \A i : P!Delivered(i)' = P!Delivered(i)
    BY <1>u, SameReplies DEF P!Delivered
  <1>1. P!TypeOK'
    BY <1>i, <1>u, <1>x DEF P!TypeOK
  <1>2. P!RootsHaveBegun'
    <2>1. /\ \A i \in DOMAIN x4 : x4[i].epoch <= x9.epoch /\ x4[i].epoch \in Nat
          /\ \A m \in DOMAIN x6 : x6[m].epoch <= x9.epoch /\ x6[m].epoch \in Nat
      BY <1>i, PlacesAreTyped DEF P!RootsHaveBegun
    <2>2. \A e \in Nat : e <= x9.epoch => e <= x9'.epoch
      BY <1>e, <1>u
    <2>3. /\ \A i \in DOMAIN x4 : x4[i].epoch <= x9'.epoch
          /\ \A m \in DOMAIN x6 : x6'[m].epoch <= x9'.epoch
      BY <1>x, <2>1, <2>2
    <2> QED
      BY <1>i, <1>u, <1>x, <2>3 DEF P!RootsHaveBegun
  <1>3. P!IdentitiesAgree'
    BY <1>i, <1>u, <1>x DEF P!IdentitiesAgree
  <1>4. P!BoundariesHold'
    <2>1. x9'.epoch \in Nat /\ x9.epoch <= x9'.epoch /\ x7' \subseteq x7
      BY <1>e, <1>u
    <2>2. \A m \in DOMAIN x6 : x6'[m].epoch = x6[m].epoch
      BY <1>x
    <2>3. /\ x5' = x5 /\ x9'.active = None /\ x9'.retiring = P!Open
      BY <1>u
    <2> QED
      BY <1>o, <1>b, <2>1, <2>2, <2>3, BoundariesRotate
  <1>5. P!DoomedAreOver'
    BY <1>u DEF P!DoomedAreOver
  <1>6. P!NothingForgotten'
    BY <1>u, <1>x DEF P!NothingForgotten
  <1> QED
    BY <1>1, <1>2, <1>3, <1>4, <1>5, <1>6 DEF P!PInv

\* The next process settles the inputs that were submitted.
LEMMA ProgressRestart ==
    ASSUME P!PInv, P!Restart
    PROVE  P!PInv'
  <1>i. /\ P!TypeOK /\ P!RootsHaveBegun /\ P!IdentitiesAgree /\ P!BoundariesHold /\ P!DoomedAreOver
        /\ P!NothingForgotten
    BY DEF P!PInv
  <1>e. x9.epoch \in Nat /\ x9 \in P!ActorType
    BY <1>i DEF P!TypeOK, P!ActorType
  <1>u. /\ x1 = "down" /\ x1' = "up" /\ x4' = x4 /\ x5' = x5 /\ x6' = x6 /\ x7' = x7 /\ x8' = x8 /\ x9' = x9
        /\ x3' = [t \in Conversations |-> IF x3[t] = "submitted" THEN "settled" ELSE x3[t]]
        /\ x9.active = None
    <2>1. /\ x1 = "down" /\ x1' = "up" /\ x4' = x4 /\ x5' = x5 /\ x6' = x6 /\ x7' = x7 /\ x8' = x8 /\ x9' = x9
          /\ x3' = [t \in Conversations |-> IF x3[t] = "submitted" THEN "settled" ELSE x3[t]]
      BY DEF P!Restart
    <2> QED
      BY <1>i, <2>1 DEF P!RootsHaveBegun
  <1>s. /\ x3' \in [Conversations -> {"new", "submitted", "settled", "pruned"}]
        /\ \A t \in Conversations : (x3[t] # "new" => x3'[t] # "new") /\ (x3'[t] = "pruned" <=> x3[t] = "pruned")
        /\ \A t \in Conversations : P!Over(t) => P!Over(t)'
    <2>1. x3 \in [Conversations -> {"new", "submitted", "settled", "pruned"}]
      BY <1>i DEF P!TypeOK
    <2>2. x3' \in [Conversations -> {"new", "submitted", "settled", "pruned"}]
      BY <1>u, <2>1
    <2>3. \A t \in Conversations : (x3[t] # "new" => x3'[t] # "new") /\ (x3'[t] = "pruned" <=> x3[t] = "pruned")
      BY <1>u, <2>1
    <2>4. \A t \in Conversations : P!Over(t) => P!Over(t)'
      BY <1>u, <2>1 DEF P!Over
    <2> QED
      BY <2>2, <2>3, <2>4
  <1>b. /\ \A u : P!Kept(u)' = P!Kept(u)
        /\ \A u, e : P!Bodies(u, e)' = P!Bodies(u, e)
        /\ \A i : P!Delivered(i)' = P!Delivered(i)
    BY <1>u, SameReplies DEF P!Delivered
  <1>1. P!TypeOK'
    BY <1>i, <1>u, <1>s DEF P!TypeOK
  <1>2. P!RootsHaveBegun'
    <2>1. /\ \A i \in DOMAIN x4 :
               x3'[x4[i].root] # "new" /\ (x3'[x4[i].root] # "pruned" <=> x3[x4[i].root] # "pruned")
          /\ \A r \in x5 : x3'[r.root] # "new"
          /\ \A x \in x7 : x3'[x.root] # "new"
      BY <1>i, <1>s, PlacesAreTyped DEF P!RootsHaveBegun
    <2> QED
      BY <1>i, <1>u, <2>1 DEF P!RootsHaveBegun
  <1>3. P!IdentitiesAgree'
    BY <1>i, <1>u DEF P!IdentitiesAgree
  <1>4. P!BoundariesHold'
    BY <1>i, <1>u, <1>s, <1>b, BoundariesStay
  <1>5. P!DoomedAreOver'
    BY <1>e, <1>u, <1>s, <1>b, DoomedStay
  <1>6. P!NothingForgotten'
    BY <1>i, <1>u DEF P!NothingForgotten
  <1> QED
    BY <1>1, <1>2, <1>3, <1>4, <1>5, <1>6 DEF P!PInv

\* At the start there is no preview.
LEMMA ProgressInit == P!Init => P!PInv
  <1> SUFFICES ASSUME P!Init PROVE P!PInv
    OBVIOUS
  <1>u. /\ x1 = "up" /\ x3 = [t \in Conversations |-> "new"] /\ x4 = <<>> /\ x6 = <<>>
        /\ x5 = {} /\ x7 = {} /\ x8 = {} /\ x9 = P!NewActor(1)
    BY DEF P!Init
  <1>a. x9 \in P!ActorType /\ x9.active = None /\ x9.retiring = P!Open
    BY <1>u, ActorsAreNew
  <1>s. x4 \in Seq(P!RowType) /\ x6 \in Seq(P!PostType) /\ DOMAIN x4 = {} /\ DOMAIN x6 = {}
    BY <1>u
  <1>1. P!TypeOK
    BY <1>u, <1>a, <1>s DEF P!TypeOK
  <1>2. P!RootsHaveBegun
    BY <1>u, <1>a, <1>s DEF P!RootsHaveBegun
  <1>3. P!IdentitiesAgree /\ P!DoomedAreOver /\ P!NothingForgotten
    BY <1>u, <1>s DEF P!IdentitiesAgree, P!DoomedAreOver, P!NothingForgotten
  <1>4. P!BoundariesHold
    BY <1>u, <1>a DEF P!BoundariesHold
  <1> QED
    BY <1>1, <1>2, <1>3, <1>4 DEF P!PInv

\* Every step of the previews keeps their invariant.
LEMMA ProgressNext == P!PInv /\ P!Next => P!PInv'
  <1> SUFFICES ASSUME P!PInv, P!Next PROVE P!PInv'
    OBVIOUS
  <1>1. CASE P!Tasks
    <2>1. CASE \E t \in Conversations : P!Begin(t)
      BY <2>1, ProgressBegin
    <2>2. CASE P!Flush \/ P!RetireBody \/ P!AppendNotice \/ P!Supersede
      BY <2>2, ProgressFlush, ProgressRetireBody, ProgressAppendNotice, ProgressSupersede
    <2>3. CASE (\E n \in 1..2 : P!AppendBody(n)) \/ \E n \in 0..1 : P!Finish(n)
      BY <2>3, ProgressAppendBody, ProgressFinish
    <2>4. CASE \E x \in x7 : P!PreviewFinished(x)
      BY <2>4, ProgressPreviewFinished
    <2> QED
      BY <1>1, <2>1, <2>2, <2>3, <2>4 DEF P!Tasks
  <1>2. CASE P!Background
    <2>1. CASE \E x \in x7 : P!Shows(x) \/ P!Answers(x) \/ P!RecordLate(x)
      BY <2>1, ProgressShows, ProgressAnswers, ProgressRecordLate
    <2>2. CASE \E i \in DOMAIN x4 : P!Deliver(i)
      BY <2>2, ProgressDeliver
    <2>3. CASE P!Reconcile \/ (\E m \in x8 : P!DeleteMessage(m)) \/ \E t \in Conversations : P!Prune(t)
      BY <2>3, ProgressReconcile, ProgressDeleteMessage, ProgressPrune
    <2> QED
      BY <1>2, <2>1, <2>2, <2>3 DEF P!Background
  <1>3. CASE (\E n \in 0..1 : P!Stop(n)) \/ P!Exit \/ P!Crash \/ P!Restart
    BY <1>3, ProgressStop, ProgressExit, ProgressCrash, ProgressRestart
  <1> QED
    BY <1>1, <1>2, <1>3 DEF P!Next

\* A step of another part leaves the previews alone.
LEMMA ProgressStutters ==
    ASSUME P!PInv, UNCHANGED <<x1, x2, x3, x4, x5, x6, x7, x8, x9>>
    PROVE  P!PInv'
  BY DEF P!PInv, P!TypeOK, P!RootsHaveBegun, P!IdentitiesAgree, P!BoundariesHold, P!DoomedAreOver,
         P!NothingForgotten, P!Pending, P!Frozen, P!Within, P!Bodies, P!Kept, P!Delivered, P!Over

\* The replies of a frozen boundary are kept.
LEMMA ProgressConsequence == P!PInv => P!NothingForgotten /\ P!RowsOutlivePreviews
  BY DEF P!PInv, P!BoundariesHold, P!Frozen, P!Within, P!RowsOutlivePreviews

\* Only a deletion takes a preview away, and only one that is about to be deleted.
LEMMA ProgressDeletes ==
    ASSUME P!PInv, P!Next
    PROVE  P!DeletesReplaced
  <1>i. P!TypeOK /\ P!RootsHaveBegun /\ P!DoomedAreOver
    BY DEF P!PInv
  <1>e. x9.epoch \in Nat /\ \A m \in DOMAIN x6 : x6[m].root \in Conversations /\ x6[m].epoch \in Nat
    BY <1>i, PlacesAreTyped DEF P!TypeOK, P!ActorType
  <1>1. ASSUME NEW m \in DOMAIN x6, x6'[m].state # x6[m].state
        PROVE  m \in x8 /\ x9' = x9 /\ x4' = x4
    <2>1. x6' # x6
      BY <1>1
    <2>2. \/ \E x \in x7 : P!Shows(x)
          \/ \E k \in x8 : P!DeleteMessage(k)
          \/ P!Crash
      BY <2>1 DEF P!Next, P!Tasks, P!Background, P!Begin, P!Flush, P!RetireBody, P!AppendNotice, P!Supersede,
         P!AppendBody, P!Finish, P!PreviewFinished, P!Take, P!Answers, P!RecordLate, P!Deliver, P!Reconcile,
         P!Prune, P!Old, P!Stop, P!Exit, P!Restart
    <2>3. ASSUME NEW x \in x7, P!Shows(x) PROVE FALSE
      <3>1. x6 \in Seq(P!PostType) /\ \E p : x6' = x6 \o <<p>>
        BY <1>i, <2>3 DEF P!Shows, P!TypeOK
      <3> QED
        BY <1>1, <3>1
    <2>4. ASSUME NEW k \in x8, P!DeleteMessage(k) PROVE m = k /\ x9' = x9 /\ x4' = x4
      <3>1. x9' = x9 /\ x4' = x4 /\ (x6' = x6 \/ \E s : x6' = [x6 EXCEPT ![k].state = s])
        BY <2>4 DEF P!DeleteMessage
      <3> QED
        BY <1>1, <3>1
    <2>5. ASSUME P!Crash PROVE FALSE
      <3>1. x6'[m].state = x6[m].state
        BY <1>i, <2>5, PostsAreForgotten DEF P!Crash
      <3> QED
        BY <1>1, <3>1
    <2> QED
      BY <2>2, <2>3, <2>4, <2>5
  <1>2. ASSUME NEW m \in x8
        PROVE  /\ x9.active = x6[m].root => x9.epoch # x6[m].epoch
               /\ \A i \in DOMAIN x4 :
                     x4[i].body /\ x4[i].root = x6[m].root /\ x4[i].epoch = x6[m].epoch => P!Delivered(i)
    <2>1. /\ \A i \in P!Bodies(x6[m].root, x6[m].epoch) : P!Delivered(i)
          /\ x6[m].epoch < x9.epoch \/ P!Over(x6[m].root)
      BY <1>i DEF P!DoomedAreOver
    <2>2. m \in DOMAIN x6
      BY <1>i DEF P!TypeOK
    <2>3. x9.active = x6[m].root => ~P!Over(x6[m].root)
      BY <1>e, <1>i, <2>2, PartsAssumption DEF P!RootsHaveBegun, P!Over
    <2>4. x6[m].epoch < x9.epoch => x9.epoch # x6[m].epoch
      BY <1>e, <2>2
    <2> QED
      BY <2>1, <2>3, <2>4 DEF P!Bodies
  <1> QED
    BY <1>1, <1>2 DEF P!DeletesReplaced

-----------------------------------------------------------------------------
\* The parts together.

\* The invariant of the part a behaviour is of.
PartsInv ==
    /\ part = "migration" => M!MInv
    /\ part = "snapshots" => F!FInv
    /\ part = "progress" => P!PInv

\* Every part starts in its invariant and its steps keep it.
THEOREM PartsInvariant == PartsSpec => []PartsInv
  <1>1. PartsInit => PartsInv
    <2> SUFFICES ASSUME PartsInit PROVE PartsInv
      OBVIOUS
    <2>1. part = "migration" => M!Init
      BY DEF PartsInit
    <2>2. part = "snapshots" => F!Init
      BY DEF PartsInit
    <2>3. part = "progress" => P!Init
      BY DEF PartsInit
    <2> QED
      BY <2>1, <2>2, <2>3, MigrationInit, SnapshotsInit, ProgressInit DEF PartsInv
  <1>2. PartsInv /\ [PartsNext]_partVars => PartsInv'
    <2> SUFFICES ASSUME PartsInv, [PartsNext]_partVars PROVE PartsInv'
      OBVIOUS
    <2>1. part' = part
      BY DEF PartsNext, partVars
    <2>2. ASSUME part = "migration" PROVE M!MInv'
      <3>1. M!MInv
        BY <2>2 DEF PartsInv
      <3>2. M!Next \/ UNCHANGED <<x1, x2, x3, x4, x5, x6, x7, x8, x9, x10, x11, x12>>
        BY <2>2 DEF PartsNext, PartNext, partVars
      <3> QED
        BY <3>1, <3>2, MigrationNext, MigrationStutters
    <2>3. ASSUME part = "snapshots" PROVE F!FInv'
      <3>1. F!FInv
        BY <2>3 DEF PartsInv
      <3>2. F!Next \/ UNCHANGED <<x1, x2, x3, x4, x5, x6, x7, x8, x9, x10, x11>>
        BY <2>3 DEF PartsNext, PartNext, partVars
      <3> QED
        BY <3>1, <3>2, SnapshotsNext, SnapshotsStutter
    <2>4. ASSUME part = "progress" PROVE P!PInv'
      <3>1. P!PInv
        BY <2>4 DEF PartsInv
      <3>2. P!Next \/ UNCHANGED <<x1, x2, x3, x4, x5, x6, x7, x8, x9>>
        BY <2>4 DEF PartsNext, PartNext, partVars
      <3> QED
        BY <3>1, <3>2, ProgressNext, ProgressStutters
    <2> QED
      BY <2>1, <2>2, <2>3, <2>4 DEF PartsInv
  <1> QED
    BY <1>1, <1>2, PTL DEF PartsSpec

\* While a migration is unresolved nobody else has its source or candidate, and the
\* conversation never has two processes, through cancellations and crashes
\* (cancelMigration, recoverMigration, observeMigrationCandidate).
THEOREM MigrationsAreAlone == PartsSpec => []MigrationIsAlone
  <1>1. PartsInv => MigrationIsAlone
    BY MigrationConsequence DEF PartsInv, MigrationIsAlone
  <1> QED
    BY <1>1, PartsInvariant, PTL

\* The binding moves only in the step that resolves the migration, to a verified
\* candidate or back to the source the user chose (migrationFinished, publishMigration).
THEOREM MigrationsPublishVerified == PartsSpec => PublishesVerified
  <1>1. PartsInv /\ [PartsNext]_partVars => [part = "migration" => M!Publishes]_partVars
    <2> SUFFICES ASSUME PartsInv, PartsNext, part = "migration" PROVE M!Publishes
      OBVIOUS
    <2>1. M!MInv /\ M!Next
      BY DEF PartsInv, PartsNext, PartNext
    <2> QED
      BY <2>1, MigrationPublishes
  <1> QED
    BY <1>1, PartsInvariant, PTL DEF PartsSpec, PublishesVerified

\* A row that can still be sent has its file, and an export keeps its session while it
\* copies (reconcileOutboxSnapshots, beginExportWithArgs).
THEOREM SnapshotsOutliveUse == PartsSpec => []FilesOutliveUse
  <1>1. PartsInv => FilesOutliveUse
    BY SnapshotsConsequence DEF PartsInv, FilesOutliveUse
  <1> QED
    BY <1>1, PartsInvariant, PTL

\* A confirmed preview is known until it is deleted, and the replies it waits for are
\* kept as long (previewFinished, CleanupMessages).
THEOREM PreviewsStayKnown == PartsSpec => []PreviewsAreKnown
  <1>1. PartsInv => PreviewsAreKnown
    BY ProgressConsequence DEF PartsInv, PreviewsAreKnown
  <1> QED
    BY <1>1, PartsInvariant, PTL

\* A preview is deleted only after all parts of the replies that replace it have been
\* delivered, also after a restart (CompletedProgressMessages,
\* cleanupDeliveredProgress).
THEOREM PreviewsOutliveReplies == PartsSpec => DeletesOnlyReplaced
  <1>1. PartsInv /\ [PartsNext]_partVars => [part = "progress" => P!DeletesReplaced]_partVars
    <2> SUFFICES ASSUME PartsInv, PartsNext, part = "progress" PROVE P!DeletesReplaced
      OBVIOUS
    <2>1. P!PInv /\ P!Next
      BY DEF PartsInv, PartsNext, PartNext
    <2> QED
      BY <2>1, ProgressDeletes
  <1> QED
    BY <1>1, PartsInvariant, PTL DEF PartsSpec, DeletesOnlyReplaced
=============================================================================
