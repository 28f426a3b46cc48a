--------------------------- MODULE SessionsProofs ---------------------------
(***************************************************************************)
(* A session has one claim, a recorded intent has its actor, and a native  *)
(* deletion takes no file from under a runtime: proved for every number of *)
(* conversations, sessions, generations and restarts.                      *)
(*                                                                         *)
(* The deletion and the runtimes exclude each other in two ways, and the   *)
(* inductive invariant says which applies when.  A runtime whose session   *)
(* is claimed stands in the way of reserveDelete.  A resume that has been  *)
(* launched but has claimed nothing yet stands in its way through the      *)
(* intent that PrepareStart recorded, and sessionDeleteAvailable reads.    *)
(***************************************************************************)
EXTENDS Sessions, TLAPS

-----------------------------------------------------------------------------
(* The inductive invariant.                                                *)

Names == SessionIds \cup {None}
Bindings == [session : Names, generation : Nat, running : BOOLEAN]
Intents == [kind : {"none", "new", "resume"}, session : Names, generation : Nat]
Actors ==
    [cached : Bindings, held : Intents, claim : Names,
     runtime : {"released", "starting", "active"}, omp : Names,
     step : {"idle", "checked", "prepared", "launched", "claimed", "failed", "closing",
             "restoring"},
     how : {"none", "new", "resume", "lazy"}, aim : Names, old : Bindings]
Deletions ==
    [session : Names, bound : Conversations \cup {None},
     step : {"none", "reserved", "native", "deleted", "failed"}]

TypeOK ==
    /\ running \in {"up", "down", "refused"}
    /\ binding \in [Conversations -> Bindings]
    /\ intent \in [Conversations -> Intents]
    /\ file \in [SessionIds -> {"none", "there", "gone"}]
    /\ doubtful \subseteq SessionIds
    /\ worker \in [Conversations -> Actors]
    /\ deletion \in [Conversations -> Deletions]
    /\ halts \in Nat

\* PrepareStart closes the binding, CommitStart ends the intent.
RunningIsCommitted == \A c \in Conversations : binding[c].running => intent[c] = NoIntent

\* What an actor has of a session at each step of a start: outside of a start the
\* session of its process is claimed, within one only a lazy restore has a claim.
ClaimsFollowSteps ==
    \A c \in Conversations :
        /\ worker[c].step \in {"idle", "checked", "claimed", "restoring"} /\ worker[c].omp # None =>
              worker[c].claim = worker[c].omp /\ worker[c].runtime = "active"
        /\ worker[c].step = "checked" => worker[c].how \in {"new", "resume"}
        /\ worker[c].step = "prepared" =>
              /\ worker[c].omp = None
              /\ worker[c].how = "lazy" => worker[c].claim = worker[c].aim /\ worker[c].runtime = "starting"
              /\ worker[c].how # "lazy" => worker[c].claim = None
              /\ worker[c].how # "none"
        /\ worker[c].step = "launched" =>
              /\ worker[c].omp \in SessionIds /\ worker[c].runtime = "active"
              /\ worker[c].how = "lazy" => worker[c].claim = worker[c].omp
              /\ worker[c].how # "lazy" => worker[c].claim = None
              /\ worker[c].how = "resume" => worker[c].omp = worker[c].aim
              /\ worker[c].how # "none"

\* A conversation that is closed has neither a process nor a claim, so that a start
\* which tears nothing down (Replaces) leaves nothing behind.
ClosedHaveNothing ==
    \A c \in Conversations :
        /\ worker[c].how = "lazy" \/ worker[c].step = "restoring" => worker[c].cached.running
        /\ worker[c].step \in {"idle", "checked"} /\ ~worker[c].cached.running =>
              worker[c].claim = None /\ worker[c].omp = None

\* A resume without a claim is in the database until it has one.
ResumesAreRecorded ==
    \A c \in Conversations :
        worker[c].step \in {"prepared", "launched"} /\ worker[c].how = "resume" =>
            intent[c].kind = "resume" /\ intent[c].session = worker[c].aim

\* A new session is nobody else's, and has no file before it is claimed.
NewIsUnsaved ==
    \A c \in Conversations :
        worker[c].step = "launched" /\ worker[c].how = "new" =>
            /\ file[worker[c].omp] = "none"
            /\ \A d \in Conversations \ {c} : worker[d].omp # worker[c].omp

\* While a session is reserved for its deletion no runtime has a claim on it.
DeletionsAreReserved ==
    \A d \in Conversations :
        deletion[d].step # "none" =>
            /\ deletion[d].session \in SessionIds
            /\ \A c \in Conversations :
                  worker[c].claim = deletion[d].session => worker[c].runtime = "released"

\* While the native deletion runs nobody is about to resume the session.
DeletionIsAlone ==
    \A c, d \in Conversations :
        /\ deletion[d].step = "native"
        /\ worker[c].step \in {"prepared", "launched"} /\ worker[c].how = "resume"
        => worker[c].aim # deletion[d].session

\* A session has its file when a process has resumed it, and when it is claimed.
StartsHaveFiles ==
    \A c \in Conversations :
        \/ worker[c].step = "launched" /\ worker[c].how \in {"lazy", "resume"}
        \/ worker[c].step = "claimed"
        => worker[c].omp \in SessionIds /\ file[worker[c].omp] = "there"

\* A restored actor has read the binding it is about to verify.
RestoringIsBound ==
    \A c \in Conversations :
        worker[c].step = "restoring" /\ binding[c].running =>
            /\ worker[c].cached.running
            /\ worker[c].cached.session = binding[c].session
            /\ worker[c].cached.generation = binding[c].generation

\* A running binding has its file, except between the removal and the end of the deletion
\* that takes the binding with it.
RunningHasFile ==
    \A c \in Conversations :
        binding[c].running =>
            /\ binding[c].session \in SessionIds
            /\ running = "up" /\ worker[c].step # "restoring" =>
                  \/ file[binding[c].session] = "there"
                  \/ binding[c].session \in doubtful
                  \/ \E d \in Conversations :
                        deletion[d].session = binding[c].session /\ deletion[d].step = "deleted"

IInv ==
    /\ TypeOK
    /\ ClaimsDiffer
    /\ RunningIsCommitted
    /\ IntentsAreHeld
    /\ ClaimsFollowSteps
    /\ ClosedHaveNothing
    /\ ResumesAreRecorded
    /\ NewIsUnsaved
    /\ DeletionsAreReserved
    /\ DeletionIsAlone
    /\ StartsHaveFiles
    /\ RestoringIsBound
    /\ RunningHasFile

-----------------------------------------------------------------------------
(* What the steps do to the actors.                                        *)

\* Members of the sets of values.
LEMMA Values ==
    /\ None \in Names /\ SessionIds \subseteq Names
    /\ NoBinding \in Bindings /\ NoIntent \in Intents
  BY DEF Names, Bindings, Intents, NoBinding, NoIntent

\* The values an actor holds.
LEMMA ActorFields ==
    ASSUME NEW w \in Actors
    PROVE  /\ w.aim \in Names /\ w.omp \in Names /\ w.claim \in Names
           /\ w.old \in Bindings /\ w.held \in Intents /\ w.cached \in Bindings
           /\ w.old.generation \in Nat /\ w.held.generation \in Nat /\ w.cached.session \in Names
           /\ [w.old EXCEPT !.running = FALSE] \in Bindings
           /\ [w.cached EXCEPT !.running = FALSE] \in Bindings
  BY DEF Actors, Bindings, Intents

\* The ends of a start and of a runtime leave an actor.
LEMMA EndedActor ==
    ASSUME NEW w \in Actors
    PROVE  Ended(w) \in Actors /\ Teardown(w) \in Actors
  BY Values DEF Actors, Ended, Teardown

\* What they keep of it, and what they reset.
LEMMA EndedFields ==
    ASSUME NEW w \in Actors
    PROVE  /\ Ended(w).claim = w.claim /\ Ended(w).omp = w.omp /\ Ended(w).runtime = w.runtime
           /\ Ended(w).held = w.held /\ Ended(w).step = "idle"
           /\ Ended(w).how = "none" /\ Ended(w).cached = w.cached /\ Teardown(w).how = "none"
           /\ Teardown(w).claim = None /\ Teardown(w).omp = None /\ Teardown(w).runtime = "released"
           /\ Teardown(w).held = w.held /\ Teardown(w).step = "idle"
  <1>1. /\ Ended(w).claim = w.claim /\ Ended(w).omp = w.omp /\ Ended(w).runtime = w.runtime
        /\ Ended(w).held = w.held /\ Ended(w).step = "idle"
        /\ Ended(w).how = "none" /\ Ended(w).cached = w.cached
    BY DEF Ended, Actors
  <1> DEFINE t == [w EXCEPT !.claim = None, !.runtime = "released", !.omp = None]
  <1>2. t \in Actors /\ t.claim = None /\ t.omp = None /\ t.runtime = "released" /\ t.held = w.held
    BY Values DEF Actors
  <1> HIDE DEF t
  <1>3. /\ Ended(t).claim = t.claim /\ Ended(t).omp = t.omp /\ Ended(t).runtime = t.runtime
        /\ Ended(t).held = t.held /\ Ended(t).step = "idle" /\ Ended(t).how = "none"
    BY <1>2 DEF Ended, Actors
  <1>4. Teardown(w) = Ended(t)
    BY DEF Teardown, t
  <1> QED
    BY <1>1, <1>2, <1>3, <1>4

\* What CommitStart, or the end of a lazy restore, does to the actor.
LEMMA CommitEffect ==
    ASSUME TypeOK, NEW c \in Conversations, Commit(c)
    PROVE  /\ running = "up" /\ worker[c].step = "claimed"
           /\ UNCHANGED <<running, file, doubtful, deletion>>
           /\ \A d \in Conversations \ {c} :
                 worker'[d] = worker[d] /\ binding'[d] = binding[d] /\ intent'[d] = intent[d]
           /\ worker'[c].step = "idle" /\ worker'[c].claim = worker[c].claim
           /\ worker'[c].omp = worker[c].omp /\ worker'[c].runtime = worker[c].runtime
           /\ worker'[c].how = "none"
           /\ \/ worker'[c].cached.running
              \/ worker[c].how = "lazy" /\ worker'[c].cached = worker[c].cached
           /\ \/ /\ worker'[c].held = worker[c].held
                 /\ binding'[c] = binding[c] /\ intent'[c] = intent[c]
              \/ /\ worker'[c].held = NoIntent /\ intent'[c] = NoIntent
                 /\ binding'[c].session = worker[c].omp
  <1> DEFINE b == [session |-> worker[c].omp, generation |-> worker[c].held.generation, running |-> TRUE]
  <1>1. /\ worker \in [Conversations -> Actors] /\ intent \in [Conversations -> Intents]
        /\ binding \in [Conversations -> Bindings]
    BY DEF TypeOK
  <1>2. CASE worker[c].how = "lazy"
    <2>1. /\ worker' = [worker EXCEPT ![c] = Ended(worker[c])] /\ UNCHANGED <<binding, intent>>
          /\ running = "up" /\ worker[c].step = "claimed"
          /\ UNCHANGED <<running, file, doubtful, deletion>>
      BY <1>2 DEF Commit, At
    <2>2. /\ worker'[c] = Ended(worker[c]) /\ worker[c] \in Actors
          /\ \A d \in Conversations \ {c} : worker'[d] = worker[d]
      BY <1>1, <2>1
    <2> QED
      BY <1>2, <2>1, <2>2, EndedFields
  <1>3. CASE worker[c].how # "lazy"
    <2> DEFINE a == [worker[c] EXCEPT !.cached = b, !.held = NoIntent]
    <2>1. /\ worker' = [worker EXCEPT ![c] = Ended(a)]
          /\ binding' = [binding EXCEPT ![c] = b] /\ intent' = [intent EXCEPT ![c] = NoIntent]
          /\ running = "up" /\ worker[c].step = "claimed"
          /\ UNCHANGED <<running, file, doubtful, deletion>>
      BY <1>3 DEF Commit, CommitStart, At
    <2>2. /\ a.claim = worker[c].claim /\ a.omp = worker[c].omp /\ a.runtime = worker[c].runtime
          /\ a.held = NoIntent /\ DOMAIN a = DOMAIN worker[c] /\ a.cached.running
      BY <1>1 DEF Actors
    <2>3. worker[c] \in Actors
      BY <1>1
    <2>5. binding'[c].session = worker[c].omp
      BY <1>1, <2>1
    <2> HIDE DEF a, b
    <2>4. /\ Ended(a).claim = a.claim /\ Ended(a).omp = a.omp /\ Ended(a).runtime = a.runtime
          /\ Ended(a).held = a.held /\ Ended(a).step = "idle"
          /\ Ended(a).how = "none" /\ Ended(a).cached = a.cached
      BY <2>2, <2>3 DEF Ended, Actors
    <2> QED
      BY <1>1, <2>1, <2>2, <2>4, <2>5
  <1> QED
    BY <1>2, <1>3

\* What the first step of a restored actor does.
LEMMA RestoreEffect ==
    ASSUME TypeOK, NEW c \in Conversations, RestoreBinding(c)
    PROVE  /\ running = "up" /\ worker[c].step = "restoring"
           /\ UNCHANGED <<running, intent, file, doubtful, deletion>>
           /\ \A d \in Conversations \ {c} : worker'[d] = worker[d] /\ binding'[d] = binding[d]
           /\ binding'[c].running => binding[c].running
           /\ /\ worker[c].cached.running /\ binding'[c].running
              /\ binding[c].generation = worker[c].cached.generation
              => binding'[c] = binding[c] /\ file[worker[c].cached.session] = "there"
           /\ worker'[c].step = "idle" /\ worker'[c].held = worker[c].held
           /\ \/ /\ worker'[c].claim = worker[c].claim /\ worker'[c].omp = worker[c].omp
                 /\ worker'[c].runtime = worker[c].runtime
                 /\ worker'[c].how = worker[c].how /\ worker'[c].cached = worker[c].cached
              \/ /\ worker'[c].how = "none"
                 /\ worker'[c].claim = None /\ worker'[c].omp = None
                 /\ worker'[c].runtime = "released"
  <1>1. worker \in [Conversations -> Actors] /\ binding \in [Conversations -> Bindings]
    BY DEF TypeOK
  <1>2. CASE file[worker[c].cached.session] = "there"
    BY <1>1, <1>2 DEF RestoreBinding, At, Actors
  <1>3. CASE file[worker[c].cached.session] # "there"
    <2> DEFINE a == Teardown(worker[c])
               e == [a EXCEPT !.cached.running = FALSE]
    <2>1. /\ worker' = [worker EXCEPT ![c] = e]
          /\ running = "up" /\ worker[c].step = "restoring"
          /\ UNCHANGED <<running, intent, file, doubtful, deletion>>
      BY <1>3 DEF RestoreBinding, At
    <2>2. binding' = [binding EXCEPT ![c].running = FALSE] \/ binding' = binding
      BY <1>3 DEF RestoreBinding, PersistClosed
    <2>3. /\ a.claim = None /\ a.omp = None /\ a.runtime = "released" /\ a.step = "idle"
          /\ a.held = worker[c].held /\ a.how = "none" /\ a \in Actors
      BY <1>1, EndedActor, EndedFields
    <2> HIDE DEF a
    <2>4. /\ e.claim = None /\ e.omp = None /\ e.runtime = "released" /\ e.step = "idle"
          /\ e.held = worker[c].held /\ e.how = "none"
      BY <2>3 DEF Actors
    <2> HIDE DEF e
    <2>5. worker'[c] = e /\ \A d \in Conversations \ {c} : worker'[d] = worker[d]
      BY <1>1, <2>1
    <2>6. (binding'[c].running => binding[c].running) /\ \A d \in Conversations \ {c} : binding'[d] = binding[d]
      BY <1>1, <2>2 DEF Bindings
    <2>7. worker[c].cached.running /\ binding[c].generation = worker[c].cached.generation
            => ~binding'[c].running
      BY <1>1, <1>3 DEF RestoreBinding, PersistClosed, Bindings
    <2> QED
      BY <2>1, <2>4, <2>5, <2>6, <2>7
  <1> QED
    BY <1>2, <1>3

\* What every actor is after a restart.
LEMMA RestartEffect ==
    ASSUME TypeOK, Restart
    PROVE  /\ ~Conflicting
           /\ UNCHANGED <<binding, file, deletion>>
           /\ \A c \in Conversations :
                 /\ worker'[c].omp = None /\ worker'[c].runtime = "released" /\ worker'[c].how = "none"
                 /\ binding[c].running =>
                       /\ worker'[c].step = "restoring" /\ worker'[c].claim = binding[c].session
                       /\ worker'[c].held = NoIntent /\ worker'[c].cached = binding[c]
                 /\ ~binding[c].running =>
                       /\ worker'[c].step = "idle" /\ worker'[c].claim = None
                       /\ worker'[c].held = intent'[c]
                 /\ intent'[c] \in {intent[c], NoIntent}
  <1>1. PICK expired \in SUBSET Conversations :
          /\ intent' = [c \in Conversations |-> IF c \in expired THEN NoIntent ELSE intent[c]]
          /\ worker' = [c \in Conversations |->
                IF c \in Restored
                  THEN [NewWorker(binding[c], NoIntent) EXCEPT !.claim = binding[c].session,
                                                               !.step = "restoring"]
                  ELSE NewWorker(binding[c], IF c \in expired THEN NoIntent ELSE intent[c])]
    BY DEF Restart
  <1>2. \A c \in Conversations : intent'[c] = (IF c \in expired THEN NoIntent ELSE intent[c])
    BY <1>1
  <1>3. ASSUME NEW c \in Conversations, binding[c].running
        PROVE  /\ worker'[c].omp = None /\ worker'[c].runtime = "released" /\ worker'[c].how = "none"
               /\ worker'[c].step = "restoring" /\ worker'[c].claim = binding[c].session
               /\ worker'[c].held = NoIntent /\ worker'[c].cached = binding[c]
    BY <1>1, <1>3 DEF Restored, NewWorker
  <1>4. ASSUME NEW c \in Conversations, ~binding[c].running
        PROVE  /\ worker'[c].omp = None /\ worker'[c].runtime = "released" /\ worker'[c].how = "none"
               /\ worker'[c].step = "idle" /\ worker'[c].claim = None
               /\ worker'[c].held = intent'[c]
    BY <1>1, <1>2, <1>4 DEF Restored, NewWorker
  <1>5. ~Conflicting /\ UNCHANGED <<binding, file, deletion>>
    BY DEF Restart
  <1> QED
    BY <1>2, <1>3, <1>4, <1>5

\* What the native deletion does to the file and to the deletion itself.
LEMMA DeletionEffect ==
    ASSUME TypeOK, NEW d \in Conversations, NativeDeletion(d)
    PROVE  /\ running = "up" /\ deletion[d].step = "native"
           /\ UNCHANGED <<running, binding, intent, worker>>
           /\ deletion'[d].session = deletion[d].session /\ deletion'[d].step \in {"deleted", "failed"}
           /\ \A e \in Conversations \ {d} : deletion'[e] = deletion[e]
           /\ \A s \in SessionIds :
                 file'[s] # file[s] => s = deletion[d].session /\ file[s] = "there" /\ file'[s] = "gone"
  <1>1. deletion \in [Conversations -> Deletions] /\ file \in [SessionIds -> {"none", "there", "gone"}]
    BY DEF TypeOK
  <1>2. running = "up" /\ deletion[d].step = "native" /\ UNCHANGED <<running, binding, intent, worker>>
    BY DEF NativeDeletion
  <1>3. PICK x \in {"deleted", "failed"} : deletion' = [deletion EXCEPT ![d].step = x]
    BY DEF NativeDeletion, FileRemoved, NotDeleted, BoundSessionMissing
  <1>4. /\ deletion'[d].session = deletion[d].session /\ deletion'[d].step = x
        /\ \A e \in Conversations \ {d} : deletion'[e] = deletion[e]
    BY <1>1, <1>3 DEF Deletions
  <1>5. \/ file' = file
        \/ file[deletion[d].session] = "there" /\ file' = [file EXCEPT ![deletion[d].session] = "gone"]
    BY DEF NativeDeletion, FileRemoved, NotDeleted, BoundSessionMissing
  <1> QED
    BY <1>1, <1>2, <1>3, <1>4, <1>5

-----------------------------------------------------------------------------
(* Every step keeps the invariant.                                         *)

\* Every action keeps the types.
LEMMA TypeStep == IInv /\ [Next]_sessionVars => TypeOK'
  <1> SUFFICES ASSUME IInv, [Next]_sessionVars PROVE TypeOK'
    OBVIOUS
  <1>w. /\ TypeOK /\ ClaimsFollowSteps /\ DeletionsAreReserved /\ worker \in [Conversations -> Actors]
        /\ None \in Names /\ SessionIds \subseteq Names /\ NoBinding \in Bindings /\ NoIntent \in Intents
    BY Values DEF IInv, TypeOK
  <1> USE DEF Idle, At
  <1>1. ASSUME NEW c \in Conversations, NEW how \in {"new", "resume"}, NEW s \in Names,
               AskStart(c, how, s)
        PROVE  TypeOK'
    <2>0. /\ worker[c] \in Actors /\ worker[c].aim \in Names
          /\ worker[c].old \in Bindings /\ worker[c].cached \in Bindings
          /\ worker[c].cached.session \in Names
      BY <1>w, ActorFields
    <2>1. worker' \in [Conversations -> Actors]
      <3> DEFINE a == [worker[c] EXCEPT !.step = "checked", !.how = how, !.aim = s, !.old = binding[c]]
      <3>1. binding[c] \in Bindings
        BY <1>w DEF TypeOK
      <3>2. a \in Actors
        BY <2>0, <3>1 DEF Actors
      <3>3. worker' = [worker EXCEPT ![c] = a]
        BY <1>1, <1>w DEF AskStart
      <3> QED
        BY <3>2, <3>3, <1>w
    <2>2. binding' \in [Conversations -> Bindings]
      BY <1>1, <1>w DEF TypeOK, Bindings, AskStart
    <2>3. intent' \in [Conversations -> Intents]
      BY <1>1, <1>w DEF TypeOK, AskStart
    <2> QED
      BY <1>1, <1>w, <2>1, <2>2, <2>3 DEF TypeOK, AskStart
  <1>2. ASSUME NEW c \in Conversations, Prepare(c) PROVE TypeOK'
    <2> DEFINE w == worker[c]
               i == [kind |-> w.how, session |-> w.aim, generation |-> w.old.generation + 1]
               left == IF Replaces(w) THEN Teardown(w) ELSE Ended(w)
               a == [left EXCEPT !.step = "prepared", !.how = w.how, !.aim = w.aim, !.held = i,
                                 !.cached = [w.old EXCEPT !.running = FALSE]]
    <2>1. w \in Actors /\ w.how \in {"new", "resume"}
      BY <1>2, <1>w DEF Prepare, ClaimsFollowSteps
    <2>0. w.aim \in Names /\ w.old.generation \in Nat
      BY <2>1, ActorFields
    <2>2. i \in Intents
      BY <2>1, <2>0 DEF Intents
    <2>4. /\ worker' = [worker EXCEPT ![c] = a] /\ intent' = [intent EXCEPT ![c] = i]
          /\ binding' = [binding EXCEPT ![c].running = FALSE]
          /\ UNCHANGED <<running, file, doubtful, deletion, halts>>
      BY <1>2 DEF Prepare, Prepared
    <2>6. left \in Actors
      BY <2>1, EndedActor
    <2> HIDE DEF left
    <2>3. a \in Actors
      BY <2>1, <2>2, <2>6, ActorFields DEF Actors
    <2>5. binding' \in [Conversations -> Bindings]
      BY <2>4, <1>w DEF TypeOK, Bindings
    <2> QED
      BY <2>2, <2>3, <2>4, <2>5, <1>w DEF TypeOK
  <1>3. ASSUME NEW c \in Conversations, PrepareRefused(c) PROVE TypeOK'
    <2>0. /\ worker[c] \in Actors /\ worker[c].aim \in Names
          /\ worker[c].old \in Bindings /\ worker[c].cached \in Bindings
          /\ worker[c].cached.session \in Names
      BY <1>w, ActorFields
    <2>1. worker' \in [Conversations -> Actors]
      BY <1>3, <1>w, <2>0, EndedActor DEF PrepareRefused
    <2>2. binding' \in [Conversations -> Bindings]
      BY <1>3, <1>w DEF TypeOK, Bindings, PrepareRefused, Ended
    <2>3. intent' \in [Conversations -> Intents]
      BY <1>3, <1>w DEF TypeOK, PrepareRefused, Ended
    <2> QED
      BY <1>3, <1>w, <2>1, <2>2, <2>3 DEF TypeOK, PrepareRefused, Ended
  <1>4. ASSUME NEW c \in Conversations, BeginRestore(c) PROVE TypeOK'
    <2>0. /\ worker[c] \in Actors /\ worker[c].aim \in Names
          /\ worker[c].old \in Bindings /\ worker[c].cached \in Bindings
          /\ worker[c].cached.session \in Names
      BY <1>w, ActorFields
    <2>1. worker' \in [Conversations -> Actors]
      BY <1>4, <1>w, <2>0 DEF Actors, BeginRestore, Restorable
    <2>2. binding' \in [Conversations -> Bindings]
      BY <1>4, <1>w DEF TypeOK, Bindings, BeginRestore, Restorable
    <2>3. intent' \in [Conversations -> Intents]
      BY <1>4, <1>w DEF TypeOK, BeginRestore, Restorable
    <2> QED
      BY <1>4, <1>w, <2>1, <2>2, <2>3 DEF TypeOK, BeginRestore, Restorable
  <1>5. ASSUME NEW c \in Conversations, Launch(c) PROVE TypeOK'
    <2>0. /\ worker[c] \in Actors /\ worker[c].aim \in Names
          /\ worker[c].old \in Bindings /\ worker[c].cached \in Bindings
          /\ worker[c].cached.session \in Names
      BY <1>w, ActorFields
    <2>1. worker' \in [Conversations -> Actors]
      <3>1. PICK s \in SessionIds :
               worker' = [worker EXCEPT ![c].step = "launched", ![c].omp = s, ![c].runtime = "active"]
        BY <1>5 DEF Launch
      <3>2. s \in Names
        BY <1>w
      <3> QED
        BY <1>w, <2>0, <3>1, <3>2 DEF Actors
    <2>2. binding' \in [Conversations -> Bindings]
      BY <1>5, <1>w DEF TypeOK, Bindings, Launch, Opens
    <2>3. intent' \in [Conversations -> Intents]
      BY <1>5, <1>w DEF TypeOK, Launch, Opens
    <2> QED
      BY <1>5, <1>w, <2>1, <2>2, <2>3 DEF TypeOK, Launch, Opens
  <1>6. ASSUME NEW c \in Conversations, LaunchFails(c) PROVE TypeOK'
    <2>0. /\ worker[c] \in Actors /\ worker[c].aim \in Names
          /\ worker[c].old \in Bindings /\ worker[c].cached \in Bindings
          /\ worker[c].cached.session \in Names
      BY <1>w, ActorFields
    <2>1. worker' \in [Conversations -> Actors]
      <3> DEFINE r == [worker[c] EXCEPT !.runtime = "released",
                                      !.claim = IF worker[c].how = "lazy" THEN None ELSE @]
      <3>1. r \in Actors
        BY <2>0, <1>w DEF Actors
      <3>2. worker' = [worker EXCEPT ![c] = Ended(r)]
        BY <1>6 DEF LaunchFails
      <3> QED
        BY <3>1, <3>2, <1>w, EndedActor
    <2>2. binding' \in [Conversations -> Bindings]
      BY <1>6, <1>w DEF TypeOK, Bindings, LaunchFails, Ended
    <2>3. intent' \in [Conversations -> Intents]
      BY <1>6, <1>w DEF TypeOK, LaunchFails, Ended
    <2> QED
      BY <1>6, <1>w, <2>1, <2>2, <2>3 DEF TypeOK, LaunchFails, Ended
  <1>7. ASSUME NEW c \in Conversations, Claim(c) PROVE TypeOK'
    <2>0. /\ worker[c] \in Actors /\ worker[c].aim \in Names
          /\ worker[c].old \in Bindings /\ worker[c].cached \in Bindings
          /\ worker[c].cached.session \in Names
      BY <1>w, ActorFields
    <2>1. worker' \in [Conversations -> Actors]
      BY <1>7, <1>w, <2>0 DEF Actors, Claim, Claimable, ClaimedNow
    <2>2. binding' \in [Conversations -> Bindings]
      BY <1>7, <1>w DEF TypeOK, Bindings, Claim, Claimable, ClaimedNow
    <2>3. intent' \in [Conversations -> Intents]
      BY <1>7, <1>w DEF TypeOK, Claim, Claimable, ClaimedNow
    <2> QED
      BY <1>7, <1>w, <2>1, <2>2, <2>3 DEF TypeOK, Claim, Claimable, ClaimedNow
  <1>8. ASSUME NEW c \in Conversations, Commit(c) PROVE TypeOK'
    <2>0. /\ worker[c] \in Actors /\ worker[c].aim \in Names
          /\ worker[c].old \in Bindings /\ worker[c].cached \in Bindings
          /\ worker[c].cached.session \in Names
      BY <1>w, ActorFields
    <2>1. worker' \in [Conversations -> Actors]
      <3>1. [session |-> worker[c].omp, generation |-> worker[c].held.generation, running |-> TRUE] \in Bindings
        BY <2>0, ActorFields DEF Bindings
      <3>2. CASE worker[c].how = "lazy"
        BY <1>8, <1>w, <2>0, <3>2, EndedActor DEF Commit
      <3>3. CASE worker[c].how # "lazy"
        <4> DEFINE b == [session |-> worker[c].omp, generation |-> worker[c].held.generation, running |-> TRUE]
        <4>1. [worker[c] EXCEPT !.cached = b, !.held = NoIntent] \in Actors
          BY <2>0, <3>1, <1>w DEF Actors
        <4>2. worker' = [worker EXCEPT ![c] = Ended([worker[c] EXCEPT !.cached = b, !.held = NoIntent])]
          BY <1>8, <3>3 DEF Commit
        <4> QED
          BY <4>1, <4>2, <1>w, EndedActor
      <3> QED
        BY <3>2, <3>3
    <2>2. binding' \in [Conversations -> Bindings]
      <3>1. [session |-> worker[c].omp, generation |-> worker[c].held.generation, running |-> TRUE] \in Bindings
        BY <2>0, ActorFields DEF Bindings
      <3> QED
        BY <1>8, <1>w, <3>1 DEF TypeOK, Commit, CommitStart
    <2>3. intent' \in [Conversations -> Intents]
      BY <1>8, <1>w DEF TypeOK, Commit, CommitStart, Ended
    <2> QED
      BY <1>8, <1>w, <2>1, <2>2, <2>3 DEF TypeOK, Commit, CommitStart, Ended
  <1>9. ASSUME NEW c \in Conversations, StartFails(c) PROVE TypeOK'
    <2>0. /\ worker[c] \in Actors /\ worker[c].aim \in Names
          /\ worker[c].old \in Bindings /\ worker[c].cached \in Bindings
          /\ worker[c].cached.session \in Names
      BY <1>w, ActorFields
    <2>1. worker' \in [Conversations -> Actors]
      BY <1>9, <1>w, <2>0 DEF Actors, StartFails
    <2>2. binding' \in [Conversations -> Bindings]
      BY <1>9, <1>w DEF TypeOK, Bindings, StartFails
    <2>3. intent' \in [Conversations -> Intents]
      BY <1>9, <1>w DEF TypeOK, StartFails
    <2> QED
      BY <1>9, <1>w, <2>1, <2>2, <2>3 DEF TypeOK, StartFails
  <1>10. ASSUME NEW c \in Conversations, FailedRestoreCloses(c) PROVE TypeOK'
    <2>0. /\ worker[c] \in Actors /\ worker[c].aim \in Names
          /\ worker[c].old \in Bindings /\ worker[c].cached \in Bindings
          /\ worker[c].cached.session \in Names
      BY <1>w, ActorFields
    <2>1. worker' \in [Conversations -> Actors]
      BY <1>10, <1>w, <2>0, EndedActor DEF FailedRestoreCloses
    <2>2. binding' \in [Conversations -> Bindings]
      BY <1>10, <1>w DEF TypeOK, Bindings, FailedRestoreCloses, Teardown, Ended
    <2>3. intent' \in [Conversations -> Intents]
      BY <1>10, <1>w DEF TypeOK, FailedRestoreCloses, Teardown, Ended
    <2> QED
      BY <1>10, <1>w, <2>1, <2>2, <2>3 DEF TypeOK, FailedRestoreCloses, Teardown, Ended
  <1>11. ASSUME NEW c \in Conversations, FailedStartLetsGo(c) PROVE TypeOK'
    <2>0. /\ worker[c] \in Actors /\ worker[c].aim \in Names
          /\ worker[c].old \in Bindings /\ worker[c].cached \in Bindings
          /\ worker[c].cached.session \in Names
      BY <1>w, ActorFields
    <2>1. worker' \in [Conversations -> Actors]
      BY <1>11, <1>w, <2>0 DEF Actors, FailedStartLetsGo, LetGo, PersistClosed
    <2>2. binding' \in [Conversations -> Bindings]
      BY <1>11, <1>w DEF TypeOK, Bindings, FailedStartLetsGo, LetGo, PersistClosed
    <2>3. intent' \in [Conversations -> Intents]
      BY <1>11, <1>w DEF TypeOK, FailedStartLetsGo, LetGo, PersistClosed
    <2> QED
      BY <1>11, <1>w, <2>1, <2>2, <2>3 DEF TypeOK, FailedStartLetsGo, LetGo, PersistClosed
  <1>12. ASSUME NEW c \in Conversations, Close(c) PROVE TypeOK'
    <2>0. /\ worker[c] \in Actors /\ worker[c].aim \in Names
          /\ worker[c].old \in Bindings /\ worker[c].cached \in Bindings
          /\ worker[c].cached.session \in Names
      BY <1>w, ActorFields
    <2>1. worker' \in [Conversations -> Actors]
      BY <1>12, <1>w, <2>0 DEF Actors, Close, LetGo, PersistClosed
    <2>2. binding' \in [Conversations -> Bindings]
      BY <1>12, <1>w DEF TypeOK, Bindings, Close, LetGo, PersistClosed
    <2>3. intent' \in [Conversations -> Intents]
      BY <1>12, <1>w DEF TypeOK, Close, LetGo, PersistClosed
    <2> QED
      BY <1>12, <1>w, <2>1, <2>2, <2>3 DEF TypeOK, Close, LetGo, PersistClosed
  <1>13. ASSUME NEW c \in Conversations, FinishClose(c) PROVE TypeOK'
    <2>0. /\ worker[c] \in Actors /\ worker[c].aim \in Names
          /\ worker[c].old \in Bindings /\ worker[c].cached \in Bindings
          /\ worker[c].cached.session \in Names
      BY <1>w, ActorFields
    <2>1. worker' \in [Conversations -> Actors]
      BY <1>13, <1>w, <2>0, EndedActor DEF FinishClose
    <2>2. binding' \in [Conversations -> Bindings]
      BY <1>13, <1>w DEF TypeOK, Bindings, FinishClose, Teardown, Ended
    <2>3. intent' \in [Conversations -> Intents]
      BY <1>13, <1>w DEF TypeOK, FinishClose, Teardown, Ended
    <2> QED
      BY <1>13, <1>w, <2>1, <2>2, <2>3 DEF TypeOK, FinishClose, Teardown, Ended
  <1>14. ASSUME NEW c \in Conversations, ReleaseRuntime(c) PROVE TypeOK'
    <2>0. /\ worker[c] \in Actors /\ worker[c].aim \in Names
          /\ worker[c].old \in Bindings /\ worker[c].cached \in Bindings
          /\ worker[c].cached.session \in Names
      BY <1>w, ActorFields
    <2>1. worker' \in [Conversations -> Actors]
      BY <1>14, <1>w, <2>0 DEF Actors, ReleaseRuntime
    <2>2. binding' \in [Conversations -> Bindings]
      BY <1>14, <1>w DEF TypeOK, Bindings, ReleaseRuntime
    <2>3. intent' \in [Conversations -> Intents]
      BY <1>14, <1>w DEF TypeOK, ReleaseRuntime
    <2> QED
      BY <1>14, <1>w, <2>1, <2>2, <2>3 DEF TypeOK, ReleaseRuntime
  <1>15. ASSUME NEW c \in Conversations, ExpireIntent(c) PROVE TypeOK'
    <2>0. /\ worker[c] \in Actors /\ worker[c].aim \in Names
          /\ worker[c].old \in Bindings /\ worker[c].cached \in Bindings
          /\ worker[c].cached.session \in Names
      BY <1>w, ActorFields
    <2>1. worker' \in [Conversations -> Actors]
      BY <1>15, <1>w, <2>0 DEF Actors, ExpireIntent
    <2>2. binding' \in [Conversations -> Bindings]
      BY <1>15, <1>w DEF TypeOK, Bindings, ExpireIntent
    <2>3. intent' \in [Conversations -> Intents]
      BY <1>15, <1>w DEF TypeOK, ExpireIntent
    <2> QED
      BY <1>15, <1>w, <2>1, <2>2, <2>3 DEF TypeOK, ExpireIntent
  <1>16. ASSUME NEW c \in Conversations, ForgetClosed(c) PROVE TypeOK'
    BY <1>16, <1>w DEF TypeOK, Deletions, NoDeletion, ForgetClosed
  <1>17. ASSUME NEW c \in Conversations, ForgetRunning(c) PROVE TypeOK'
    <2>0. /\ worker[c] \in Actors /\ worker[c].aim \in Names
          /\ worker[c].old \in Bindings /\ worker[c].cached \in Bindings
          /\ worker[c].cached.session \in Names
      BY <1>w, ActorFields
    <2>1. worker' \in [Conversations -> Actors]
      BY <1>17, <1>w, <2>0 DEF Actors, ForgetRunning, NewWorker
    <2>2. binding' \in [Conversations -> Bindings]
      BY <1>17, <1>w DEF TypeOK, Bindings, ForgetRunning, NewWorker
    <2>3. intent' \in [Conversations -> Intents]
      BY <1>17, <1>w DEF TypeOK, ForgetRunning, NewWorker
    <2> QED
      BY <1>17, <1>w, <2>1, <2>2, <2>3 DEF TypeOK, ForgetRunning, NewWorker
  <1>18. ASSUME NEW c \in Conversations, NEW s \in SessionIds,
                NEW b \in Conversations \cup {None}, ReserveDelete(c, s, b)
         PROVE  TypeOK'
    BY <1>18, <1>w DEF TypeOK, Deletions, NoDeletion, ReserveDelete, Reservable
  <1>19. ASSUME NEW c \in Conversations, CheckDeletion(c) PROVE TypeOK'
    BY <1>19, <1>w DEF TypeOK, Deletions, NoDeletion, CheckDeletion, StartDeletion,
           StillDeletable
  <1>20. ASSUME NEW c \in Conversations, NativeDeletion(c) PROVE TypeOK'
    <2>1. deletion' \in [Conversations -> Deletions] /\ doubtful' \subseteq SessionIds
      <3>1. CASE FileRemoved(c)
        <4>1. deletion[c].session \in SessionIds
          BY <1>20, <1>w DEF DeletionsAreReserved, NativeDeletion
        <4>2. \A x \in {"deleted", "failed"} : [deletion EXCEPT ![c].step = x] \in [Conversations -> Deletions]
          BY <1>w DEF TypeOK, Deletions
        <4> QED
          BY <3>1, <4>1, <4>2, <1>w DEF TypeOK, FileRemoved
      <3>2. CASE NotDeleted(c) \/ BoundSessionMissing(c)
        BY <1>20, <3>2, <1>w DEF TypeOK, Deletions, NotDeleted, BoundSessionMissing
      <3> QED
        BY <1>20, <3>1, <3>2 DEF NativeDeletion
    <2>2. file' \in [SessionIds -> {"none", "there", "gone"}]
      BY <1>20, <1>w DEF TypeOK, NativeDeletion, FileRemoved, NotDeleted, BoundSessionMissing
    <2> QED
      BY <1>20, <1>w, <2>1, <2>2 DEF TypeOK, NativeDeletion
  <1>21. ASSUME NEW c \in Conversations, DeletionFailed(c) PROVE TypeOK'
    BY <1>21, <1>w DEF TypeOK, Deletions, NoDeletion, DeletionFailed
  <1>22. ASSUME NEW c \in Conversations, DeletionFinished(c) PROVE TypeOK'
    <2>0. /\ worker[c] \in Actors /\ worker[c].aim \in Names
          /\ worker[c].old \in Bindings /\ worker[c].cached \in Bindings
          /\ worker[c].cached.session \in Names
      BY <1>w, ActorFields
    <2>1. worker' \in [Conversations -> Actors]
      <3>1. \A d \in Conversations : worker[d] \in Actors /\ [worker[d] EXCEPT !.claim = None] \in Actors
        BY <1>w DEF Actors
      <3> QED
        BY <1>22, <3>1 DEF DeletionFinished
    <2>2. binding' \in [Conversations -> Bindings]
      BY <1>22, <1>w DEF TypeOK, Bindings, DeletionFinished, DeleteReferences
    <2>3. intent' \in [Conversations -> Intents]
      BY <1>22, <1>w DEF TypeOK, DeletionFinished, DeleteReferences
    <2> QED
      BY <1>22, <1>w, <2>1, <2>2, <2>3 DEF TypeOK, DeletionFinished, DeleteReferences, Deletions,
             NoDeletion
  <1>23. ASSUME NEW c \in Conversations, RestoreBinding(c) PROVE TypeOK'
    <2>0. /\ worker[c] \in Actors /\ worker[c].aim \in Names
          /\ worker[c].old \in Bindings /\ worker[c].cached \in Bindings
          /\ worker[c].cached.session \in Names
      BY <1>w, ActorFields
    <2>1. worker' \in [Conversations -> Actors]
      <3>1. [Teardown(worker[c]) EXCEPT !.cached.running = FALSE] \in Actors
        <4> DEFINE a == Teardown(worker[c])
        <4>1. a \in Actors /\ a.cached \in Bindings
          BY <2>0, EndedActor, ActorFields
        <4>2. [a.cached EXCEPT !.running = FALSE] \in Bindings
          BY <4>1 DEF Bindings
        <4> HIDE DEF a
        <4>3. [a EXCEPT !.cached.running = FALSE] \in Actors
          BY <4>1, <4>2 DEF Actors
        <4> QED
          BY <4>3 DEF a
      <3>2. CASE file[worker[c].cached.session] = "there"
        BY <1>23, <1>w, <2>0, <3>2 DEF Actors, RestoreBinding
      <3>3. CASE file[worker[c].cached.session] # "there"
        BY <1>23, <1>w, <3>1, <3>3 DEF RestoreBinding
      <3> QED
        BY <3>2, <3>3
    <2>2. binding' \in [Conversations -> Bindings]
      <3>1. [binding EXCEPT ![c].running = FALSE] \in [Conversations -> Bindings]
        BY <1>w DEF TypeOK, Bindings
      <3>2. binding' = [binding EXCEPT ![c].running = FALSE] \/ binding' = binding
        BY <1>23 DEF RestoreBinding, PersistClosed
      <3> QED
        BY <3>1, <3>2, <1>w DEF TypeOK
    <2>3. intent' \in [Conversations -> Intents]
      BY <1>23, <1>w DEF TypeOK, RestoreBinding, Teardown, Ended, PersistClosed
    <2> QED
      BY <1>23, <1>w, <2>1, <2>2, <2>3 DEF TypeOK, RestoreBinding, Teardown, Ended,
             PersistClosed
  <1>24. ASSUME Halt PROVE TypeOK'
    <2>1. worker' \in [Conversations -> Actors]
      BY <1>24, <1>w DEF Actors, Halt, NewWorker
    <2>2. binding' \in [Conversations -> Bindings]
      BY <1>24, <1>w DEF TypeOK, Bindings, Halt, NewWorker
    <2>3. intent' \in [Conversations -> Intents]
      BY <1>24, <1>w DEF TypeOK, Halt, NewWorker
    <2> QED
      BY <1>24, <1>w, <2>1, <2>2, <2>3 DEF TypeOK, Halt, NewWorker, Deletions, NoDeletion
  <1>25. ASSUME Restart PROVE TypeOK'
    <2>1. worker' \in [Conversations -> Actors]
      <3>0. \A d \in Conversations : binding[d] \in Bindings /\ binding[d].session \in Names
        BY <1>w DEF TypeOK, Bindings
      <3>1. \A d \in Conversations, i \in Intents : NewWorker(binding[d], i) \in Actors
        BY <1>w, <3>0 DEF Actors, NewWorker
      <3>2. \A d \in Conversations :
               [NewWorker(binding[d], NoIntent) EXCEPT !.claim = binding[d].session, !.step = "restoring"] \in Actors
        BY <1>w, <3>0 DEF Actors, NewWorker
      <3>3. PICK expired \in SUBSET Conversations :
              worker' = [d \in Conversations |->
                  IF d \in Restored
                    THEN [NewWorker(binding[d], NoIntent) EXCEPT !.claim = binding[d].session,
                                                                 !.step = "restoring"]
                    ELSE NewWorker(binding[d], IF d \in expired THEN NoIntent ELSE intent[d])]
        BY <1>25 DEF Restart
      <3>4. \A d \in Conversations : (IF d \in expired THEN NoIntent ELSE intent[d]) \in Intents
        BY <1>w DEF TypeOK
      <3> HIDE DEF NewWorker
      <3> QED
        BY <3>1, <3>2, <3>3, <3>4
    <2>2. binding' \in [Conversations -> Bindings]
      BY <1>25, <1>w DEF TypeOK, Bindings, Restart, NewWorker, Restored, Conflicting
    <2>3. intent' \in [Conversations -> Intents]
      BY <1>25, <1>w DEF TypeOK, Restart, NewWorker, Restored, Conflicting
    <2> QED
      BY <1>25, <1>w, <2>1, <2>2, <2>3 DEF TypeOK, Restart, NewWorker, Restored, Conflicting
  <1>26. ASSUME RestartRefused PROVE TypeOK'
    BY <1>26, <1>w DEF TypeOK, Deletions, NoDeletion, RestartRefused
  <1>27. CASE UNCHANGED sessionVars
    BY <1>27, <1>w DEF TypeOK, sessionVars
  <1> QED
    BY <1>1, <1>2, <1>3, <1>4, <1>5, <1>6, <1>7, <1>8, <1>9, <1>10, <1>11, <1>12, <1>13, <1>14,
       <1>15, <1>16, <1>17, <1>18, <1>19, <1>20, <1>21, <1>22, <1>23, <1>24, <1>25, <1>26, <1>27
       DEF Next, Starting, Ending, Deleting, AskNew, AskResume, Names

\* No claim is made on a session somebody has: claimSession and beginSessionRestore
\* look under the lock, and restoreWorkers refuses two bindings of one session.
LEMMA ClaimsDifferStep == IInv /\ [Next]_sessionVars => ClaimsDiffer'
  <1> SUFFICES ASSUME IInv, [Next]_sessionVars PROVE ClaimsDiffer'
    OBVIOUS
  <1> USE NoneAssumption
  <1> USE DEF IInv, TypeOK, ClaimsDiffer, Actors, Idle, At, ClaimedByOther
  <1>1. ASSUME NEW c \in Conversations, NEW how \in {"new", "resume"}, NEW s \in Names,
               AskStart(c, how, s)
        PROVE  ClaimsDiffer'
    BY <1>1 DEF AskStart
  <1>2. ASSUME NEW c \in Conversations, Prepare(c) PROVE ClaimsDiffer'
    BY <1>2 DEF Prepare, Prepared, Preparable, NotDeletedNow, Replaces, Teardown, Ended
  <1>3. ASSUME NEW c \in Conversations, PrepareRefused(c) PROVE ClaimsDiffer'
    BY <1>3 DEF PrepareRefused, Ended
  <1>4. ASSUME NEW c \in Conversations, BeginRestore(c) PROVE ClaimsDiffer'
    BY <1>4 DEF BeginRestore, Restorable
  <1>5. ASSUME NEW c \in Conversations, Launch(c) PROVE ClaimsDiffer'
    BY <1>5 DEF Launch, Opens
  <1>6. ASSUME NEW c \in Conversations, LaunchFails(c) PROVE ClaimsDiffer'
    BY <1>6 DEF LaunchFails, Ended
  <1>7. ASSUME NEW c \in Conversations, Claim(c) PROVE ClaimsDiffer'
    BY <1>7 DEF Claim, Claimable, ClaimedNow
  <1>8. ASSUME NEW c \in Conversations, Commit(c) PROVE ClaimsDiffer'
    BY <1>8, CommitEffect
  <1>9. ASSUME NEW c \in Conversations, StartFails(c) PROVE ClaimsDiffer'
    BY <1>9 DEF StartFails
  <1>10. ASSUME NEW c \in Conversations, FailedRestoreCloses(c) PROVE ClaimsDiffer'
    BY <1>10 DEF FailedRestoreCloses, Teardown, Ended
  <1>11. ASSUME NEW c \in Conversations, FailedStartLetsGo(c) PROVE ClaimsDiffer'
    BY <1>11 DEF FailedStartLetsGo, LetGo, PersistClosed
  <1>12. ASSUME NEW c \in Conversations, Close(c) PROVE ClaimsDiffer'
    BY <1>12 DEF Close, LetGo, PersistClosed
  <1>13. ASSUME NEW c \in Conversations, FinishClose(c) PROVE ClaimsDiffer'
    BY <1>13 DEF FinishClose, Teardown, Ended
  <1>14. ASSUME NEW c \in Conversations, ReleaseRuntime(c) PROVE ClaimsDiffer'
    BY <1>14 DEF ReleaseRuntime
  <1>15. ASSUME NEW c \in Conversations, ExpireIntent(c) PROVE ClaimsDiffer'
    BY <1>15 DEF ExpireIntent
  <1>16. ASSUME NEW c \in Conversations, ForgetClosed(c) PROVE ClaimsDiffer'
    BY <1>16 DEF ForgetClosed
  <1>17. ASSUME NEW c \in Conversations, ForgetRunning(c) PROVE ClaimsDiffer'
    BY <1>17 DEF ForgetRunning, NewWorker
  <1>18. ASSUME NEW c \in Conversations, NEW s \in SessionIds,
                NEW b \in Conversations \cup {None}, ReserveDelete(c, s, b)
         PROVE  ClaimsDiffer'
    BY <1>18 DEF ReserveDelete, Reservable
  <1>19. ASSUME NEW c \in Conversations, CheckDeletion(c) PROVE ClaimsDiffer'
    BY <1>19 DEF CheckDeletion, StartDeletion, StillDeletable
  <1>20. ASSUME NEW c \in Conversations, NativeDeletion(c) PROVE ClaimsDiffer'
    BY <1>20, DeletionEffect
  <1>21. ASSUME NEW c \in Conversations, DeletionFailed(c) PROVE ClaimsDiffer'
    BY <1>21 DEF DeletionFailed
  <1>22. ASSUME NEW c \in Conversations, DeletionFinished(c) PROVE ClaimsDiffer'
    BY <1>22 DEF DeletionFinished, DeleteReferences
  <1>23. ASSUME NEW c \in Conversations, RestoreBinding(c) PROVE ClaimsDiffer'
    BY <1>23, RestoreEffect
  <1>24. ASSUME Halt PROVE ClaimsDiffer'
    BY <1>24 DEF Halt, NewWorker
  <1>25. ASSUME Restart PROVE ClaimsDiffer'
    <2> SUFFICES ASSUME NEW c \in Conversations, NEW d \in Conversations, c # d,
                        worker'[c].claim # None, worker'[c].claim = worker'[d].claim
                 PROVE  FALSE
      BY DEF ClaimsDiffer
    <2>1. binding[c].running /\ binding[d].running /\ binding[c].session = binding[d].session
      BY <1>25, RestartEffect
    <2> QED
      BY <1>25, <2>1, RestartEffect DEF Conflicting, Restored
  <1>26. ASSUME RestartRefused PROVE ClaimsDiffer'
    BY <1>26 DEF RestartRefused
  <1>27. CASE UNCHANGED sessionVars
    BY <1>27 DEF sessionVars
  <1> QED
    BY <1>1, <1>2, <1>3, <1>4, <1>5, <1>6, <1>7, <1>8, <1>9, <1>10, <1>11, <1>12, <1>13, <1>14,
       <1>15, <1>16, <1>17, <1>18, <1>19, <1>20, <1>21, <1>22, <1>23, <1>24, <1>25, <1>26, <1>27
       DEF Next, Starting, Ending, Deleting, AskNew, AskResume, Names

\* A binding runs again only when its intent ends (CommitStart).
LEMMA RunningIsCommittedStep == IInv /\ [Next]_sessionVars => RunningIsCommitted'
  <1> SUFFICES ASSUME IInv, [Next]_sessionVars PROVE RunningIsCommitted'
    OBVIOUS
  <1> USE NoneAssumption
  <1> USE DEF IInv, TypeOK, RunningIsCommitted, Bindings, Idle, At, NoBinding
  <1>1. ASSUME NEW c \in Conversations, NEW how \in {"new", "resume"}, NEW s \in Names,
               AskStart(c, how, s)
        PROVE  RunningIsCommitted'
    BY <1>1 DEF AskStart
  <1>2. ASSUME NEW c \in Conversations, Prepare(c) PROVE RunningIsCommitted'
    BY <1>2 DEF Prepare, Prepared, Preparable, NotDeletedNow, Replaces, Teardown, Ended
  <1>3. ASSUME NEW c \in Conversations, PrepareRefused(c) PROVE RunningIsCommitted'
    BY <1>3 DEF PrepareRefused, Ended
  <1>4. ASSUME NEW c \in Conversations, BeginRestore(c) PROVE RunningIsCommitted'
    BY <1>4 DEF BeginRestore, Restorable
  <1>5. ASSUME NEW c \in Conversations, Launch(c) PROVE RunningIsCommitted'
    BY <1>5 DEF Launch, Opens
  <1>6. ASSUME NEW c \in Conversations, LaunchFails(c) PROVE RunningIsCommitted'
    BY <1>6 DEF LaunchFails, Ended
  <1>7. ASSUME NEW c \in Conversations, Claim(c) PROVE RunningIsCommitted'
    BY <1>7 DEF Claim, Claimable, ClaimedNow
  <1>8. ASSUME NEW c \in Conversations, Commit(c) PROVE RunningIsCommitted'
    BY <1>8, CommitEffect
  <1>9. ASSUME NEW c \in Conversations, StartFails(c) PROVE RunningIsCommitted'
    BY <1>9 DEF StartFails
  <1>10. ASSUME NEW c \in Conversations, FailedRestoreCloses(c) PROVE RunningIsCommitted'
    BY <1>10 DEF FailedRestoreCloses, Teardown, Ended
  <1>11. ASSUME NEW c \in Conversations, FailedStartLetsGo(c) PROVE RunningIsCommitted'
    BY <1>11 DEF FailedStartLetsGo, LetGo, PersistClosed
  <1>12. ASSUME NEW c \in Conversations, Close(c) PROVE RunningIsCommitted'
    BY <1>12 DEF Close, LetGo, PersistClosed
  <1>13. ASSUME NEW c \in Conversations, FinishClose(c) PROVE RunningIsCommitted'
    BY <1>13 DEF FinishClose, Teardown, Ended
  <1>14. ASSUME NEW c \in Conversations, ReleaseRuntime(c) PROVE RunningIsCommitted'
    BY <1>14 DEF ReleaseRuntime
  <1>15. ASSUME NEW c \in Conversations, ExpireIntent(c) PROVE RunningIsCommitted'
    BY <1>15 DEF ExpireIntent
  <1>16. ASSUME NEW c \in Conversations, ForgetClosed(c) PROVE RunningIsCommitted'
    BY <1>16 DEF ForgetClosed
  <1>17. ASSUME NEW c \in Conversations, ForgetRunning(c) PROVE RunningIsCommitted'
    BY <1>17 DEF ForgetRunning, NewWorker
  <1>18. ASSUME NEW c \in Conversations, NEW s \in SessionIds,
                NEW b \in Conversations \cup {None}, ReserveDelete(c, s, b)
         PROVE  RunningIsCommitted'
    BY <1>18 DEF ReserveDelete, Reservable
  <1>19. ASSUME NEW c \in Conversations, CheckDeletion(c) PROVE RunningIsCommitted'
    BY <1>19 DEF CheckDeletion, StartDeletion, StillDeletable
  <1>20. ASSUME NEW c \in Conversations, NativeDeletion(c) PROVE RunningIsCommitted'
    BY <1>20, DeletionEffect
  <1>21. ASSUME NEW c \in Conversations, DeletionFailed(c) PROVE RunningIsCommitted'
    BY <1>21 DEF DeletionFailed
  <1>22. ASSUME NEW c \in Conversations, DeletionFinished(c) PROVE RunningIsCommitted'
    BY <1>22 DEF DeletionFinished, DeleteReferences
  <1>23. ASSUME NEW c \in Conversations, RestoreBinding(c) PROVE RunningIsCommitted'
    BY <1>23, RestoreEffect
  <1>24. ASSUME Halt PROVE RunningIsCommitted'
    BY <1>24 DEF Halt, NewWorker
  <1>25. ASSUME Restart PROVE RunningIsCommitted'
    BY <1>25, RestartEffect
  <1>26. ASSUME RestartRefused PROVE RunningIsCommitted'
    BY <1>26 DEF RestartRefused
  <1>27. CASE UNCHANGED sessionVars
    BY <1>27 DEF sessionVars
  <1> QED
    BY <1>1, <1>2, <1>3, <1>4, <1>5, <1>6, <1>7, <1>8, <1>9, <1>10, <1>11, <1>12, <1>13, <1>14,
       <1>15, <1>16, <1>17, <1>18, <1>19, <1>20, <1>21, <1>22, <1>23, <1>24, <1>25, <1>26, <1>27
       DEF Next, Starting, Ending, Deleting, AskNew, AskResume, Names

\* The actor and the database change an intent together.
LEMMA IntentsAreHeldStep == IInv /\ [Next]_sessionVars => IntentsAreHeld'
  <1> SUFFICES ASSUME IInv, [Next]_sessionVars PROVE IntentsAreHeld'
    OBVIOUS
  <1> USE NoneAssumption
  <1> USE DEF IInv, TypeOK, IntentsAreHeld, RunningIsCommitted, Actors, Idle, At
  <1>1. ASSUME NEW c \in Conversations, NEW how \in {"new", "resume"}, NEW s \in Names,
               AskStart(c, how, s)
        PROVE  IntentsAreHeld'
    BY <1>1 DEF AskStart
  <1>2. ASSUME NEW c \in Conversations, Prepare(c) PROVE IntentsAreHeld'
    BY <1>2 DEF Prepare, Prepared, Preparable, NotDeletedNow, Replaces, Teardown, Ended
  <1>3. ASSUME NEW c \in Conversations, PrepareRefused(c) PROVE IntentsAreHeld'
    BY <1>3 DEF PrepareRefused, Ended
  <1>4. ASSUME NEW c \in Conversations, BeginRestore(c) PROVE IntentsAreHeld'
    BY <1>4 DEF BeginRestore, Restorable
  <1>5. ASSUME NEW c \in Conversations, Launch(c) PROVE IntentsAreHeld'
    BY <1>5 DEF Launch, Opens
  <1>6. ASSUME NEW c \in Conversations, LaunchFails(c) PROVE IntentsAreHeld'
    BY <1>6 DEF LaunchFails, Ended
  <1>7. ASSUME NEW c \in Conversations, Claim(c) PROVE IntentsAreHeld'
    BY <1>7 DEF Claim, Claimable, ClaimedNow
  <1>8. ASSUME NEW c \in Conversations, Commit(c) PROVE IntentsAreHeld'
    BY <1>8, CommitEffect
  <1>9. ASSUME NEW c \in Conversations, StartFails(c) PROVE IntentsAreHeld'
    BY <1>9 DEF StartFails
  <1>10. ASSUME NEW c \in Conversations, FailedRestoreCloses(c) PROVE IntentsAreHeld'
    BY <1>10 DEF FailedRestoreCloses, Teardown, Ended
  <1>11. ASSUME NEW c \in Conversations, FailedStartLetsGo(c) PROVE IntentsAreHeld'
    BY <1>11 DEF FailedStartLetsGo, LetGo, PersistClosed
  <1>12. ASSUME NEW c \in Conversations, Close(c) PROVE IntentsAreHeld'
    BY <1>12 DEF Close, LetGo, PersistClosed
  <1>13. ASSUME NEW c \in Conversations, FinishClose(c) PROVE IntentsAreHeld'
    BY <1>13 DEF FinishClose, Teardown, Ended
  <1>14. ASSUME NEW c \in Conversations, ReleaseRuntime(c) PROVE IntentsAreHeld'
    BY <1>14 DEF ReleaseRuntime
  <1>15. ASSUME NEW c \in Conversations, ExpireIntent(c) PROVE IntentsAreHeld'
    BY <1>15 DEF ExpireIntent
  <1>16. ASSUME NEW c \in Conversations, ForgetClosed(c) PROVE IntentsAreHeld'
    BY <1>16 DEF ForgetClosed
  <1>17. ASSUME NEW c \in Conversations, ForgetRunning(c) PROVE IntentsAreHeld'
    BY <1>17 DEF ForgetRunning, NewWorker
  <1>18. ASSUME NEW c \in Conversations, NEW s \in SessionIds,
                NEW b \in Conversations \cup {None}, ReserveDelete(c, s, b)
         PROVE  IntentsAreHeld'
    BY <1>18 DEF ReserveDelete, Reservable
  <1>19. ASSUME NEW c \in Conversations, CheckDeletion(c) PROVE IntentsAreHeld'
    BY <1>19 DEF CheckDeletion, StartDeletion, StillDeletable
  <1>20. ASSUME NEW c \in Conversations, NativeDeletion(c) PROVE IntentsAreHeld'
    BY <1>20, DeletionEffect
  <1>21. ASSUME NEW c \in Conversations, DeletionFailed(c) PROVE IntentsAreHeld'
    BY <1>21 DEF DeletionFailed
  <1>22. ASSUME NEW c \in Conversations, DeletionFinished(c) PROVE IntentsAreHeld'
    BY <1>22 DEF DeletionFinished, DeleteReferences
  <1>23. ASSUME NEW c \in Conversations, RestoreBinding(c) PROVE IntentsAreHeld'
    BY <1>23, RestoreEffect
  <1>24. ASSUME Halt PROVE IntentsAreHeld'
    BY <1>24 DEF Halt, NewWorker
  <1>25. ASSUME Restart PROVE IntentsAreHeld'
    BY <1>25, RestartEffect
  <1>26. ASSUME RestartRefused PROVE IntentsAreHeld'
    BY <1>26 DEF RestartRefused
  <1>27. CASE UNCHANGED sessionVars
    BY <1>27 DEF sessionVars
  <1> QED
    BY <1>1, <1>2, <1>3, <1>4, <1>5, <1>6, <1>7, <1>8, <1>9, <1>10, <1>11, <1>12, <1>13, <1>14,
       <1>15, <1>16, <1>17, <1>18, <1>19, <1>20, <1>21, <1>22, <1>23, <1>24, <1>25, <1>26, <1>27
       DEF Next, Starting, Ending, Deleting, AskNew, AskResume, Names

\* The claims an actor has at each step of a start.
LEMMA ClaimsFollowStepsStep == IInv /\ [Next]_sessionVars => ClaimsFollowSteps'
  <1> SUFFICES ASSUME IInv, [Next]_sessionVars PROVE ClaimsFollowSteps'
    OBVIOUS
  <1> USE NoneAssumption
  <1> USE DEF IInv, TypeOK, ClaimsFollowSteps, DeletionsAreReserved, Actors, Idle, At,
     ClaimedByOther
  <1>1. ASSUME NEW c \in Conversations, NEW how \in {"new", "resume"}, NEW s \in Names,
               AskStart(c, how, s)
        PROVE  ClaimsFollowSteps'
    BY <1>1 DEF AskStart
  <1>2. ASSUME NEW c \in Conversations, Prepare(c) PROVE ClaimsFollowSteps'
    BY <1>2 DEF Prepare, Prepared, ClosedHaveNothing, Preparable, NotDeletedNow, Replaces, Teardown, Ended
  <1>3. ASSUME NEW c \in Conversations, PrepareRefused(c) PROVE ClaimsFollowSteps'
    BY <1>3 DEF PrepareRefused, Ended
  <1>4. ASSUME NEW c \in Conversations, BeginRestore(c) PROVE ClaimsFollowSteps'
    BY <1>4 DEF BeginRestore, Restorable
  <1>5. ASSUME NEW c \in Conversations, Launch(c) PROVE ClaimsFollowSteps'
    BY <1>5 DEF Launch, Opens
  <1>6. ASSUME NEW c \in Conversations, LaunchFails(c) PROVE ClaimsFollowSteps'
    BY <1>6 DEF LaunchFails, Ended
  <1>7. ASSUME NEW c \in Conversations, Claim(c) PROVE ClaimsFollowSteps'
    BY <1>7 DEF Claim, Claimable, ClaimedNow
  <1>8. ASSUME NEW c \in Conversations, Commit(c) PROVE ClaimsFollowSteps'
    BY <1>8, CommitEffect
  <1>9. ASSUME NEW c \in Conversations, StartFails(c) PROVE ClaimsFollowSteps'
    BY <1>9 DEF StartFails
  <1>10. ASSUME NEW c \in Conversations, FailedRestoreCloses(c) PROVE ClaimsFollowSteps'
    BY <1>10 DEF FailedRestoreCloses, Teardown, Ended
  <1>11. ASSUME NEW c \in Conversations, FailedStartLetsGo(c) PROVE ClaimsFollowSteps'
    BY <1>11 DEF FailedStartLetsGo, LetGo, PersistClosed
  <1>12. ASSUME NEW c \in Conversations, Close(c) PROVE ClaimsFollowSteps'
    BY <1>12 DEF Close, LetGo, PersistClosed
  <1>13. ASSUME NEW c \in Conversations, FinishClose(c) PROVE ClaimsFollowSteps'
    BY <1>13 DEF FinishClose, Teardown, Ended
  <1>14. ASSUME NEW c \in Conversations, ReleaseRuntime(c) PROVE ClaimsFollowSteps'
    BY <1>14 DEF ReleaseRuntime
  <1>15. ASSUME NEW c \in Conversations, ExpireIntent(c) PROVE ClaimsFollowSteps'
    BY <1>15 DEF ExpireIntent
  <1>16. ASSUME NEW c \in Conversations, ForgetClosed(c) PROVE ClaimsFollowSteps'
    BY <1>16 DEF ForgetClosed
  <1>17. ASSUME NEW c \in Conversations, ForgetRunning(c) PROVE ClaimsFollowSteps'
    BY <1>17 DEF ForgetRunning, NewWorker
  <1>18. ASSUME NEW c \in Conversations, NEW s \in SessionIds,
                NEW b \in Conversations \cup {None}, ReserveDelete(c, s, b)
         PROVE  ClaimsFollowSteps'
    BY <1>18 DEF ReserveDelete, Reservable
  <1>19. ASSUME NEW c \in Conversations, CheckDeletion(c) PROVE ClaimsFollowSteps'
    BY <1>19 DEF CheckDeletion, StartDeletion, StillDeletable
  <1>20. ASSUME NEW c \in Conversations, NativeDeletion(c) PROVE ClaimsFollowSteps'
    BY <1>20, DeletionEffect
  <1>21. ASSUME NEW c \in Conversations, DeletionFailed(c) PROVE ClaimsFollowSteps'
    BY <1>21 DEF DeletionFailed
  <1>22. ASSUME NEW c \in Conversations, DeletionFinished(c) PROVE ClaimsFollowSteps'
    BY <1>22 DEF DeletionFinished, DeleteReferences
  <1>23. ASSUME NEW c \in Conversations, RestoreBinding(c) PROVE ClaimsFollowSteps'
    BY <1>23, RestoreEffect
  <1>24. ASSUME Halt PROVE ClaimsFollowSteps'
    BY <1>24 DEF Halt, NewWorker
  <1>25. ASSUME Restart PROVE ClaimsFollowSteps'
    BY <1>25, RestartEffect
  <1>26. ASSUME RestartRefused PROVE ClaimsFollowSteps'
    BY <1>26 DEF RestartRefused
  <1>27. CASE UNCHANGED sessionVars
    BY <1>27 DEF sessionVars
  <1> QED
    BY <1>1, <1>2, <1>3, <1>4, <1>5, <1>6, <1>7, <1>8, <1>9, <1>10, <1>11, <1>12, <1>13, <1>14,
       <1>15, <1>16, <1>17, <1>18, <1>19, <1>20, <1>21, <1>22, <1>23, <1>24, <1>25, <1>26, <1>27
       DEF Next, Starting, Ending, Deleting, AskNew, AskResume, Names

\* A claim is made with the binding that is running, or comes before it is; what closes
\* a conversation has released both (Teardown, closeLogicalSession, restoreBinding).
LEMMA ClosedHaveNothingStep == IInv /\ [Next]_sessionVars => ClosedHaveNothing'
  <1> SUFFICES ASSUME IInv, [Next]_sessionVars PROVE ClosedHaveNothing'
    OBVIOUS
  <1> USE NoneAssumption
  <1> USE DEF IInv, TypeOK, ClosedHaveNothing, ClaimsFollowSteps, Actors, Bindings, Idle, At,
     ClaimedByOther
  <1>1. ASSUME NEW c \in Conversations, NEW how \in {"new", "resume"}, NEW s \in Names,
               AskStart(c, how, s)
        PROVE  ClosedHaveNothing'
    BY <1>1 DEF AskStart
  <1>2. ASSUME NEW c \in Conversations, Prepare(c) PROVE ClosedHaveNothing'
    BY <1>2 DEF Prepare, Prepared, Preparable, NotDeletedNow, Replaces, Teardown, Ended
  <1>3. ASSUME NEW c \in Conversations, PrepareRefused(c) PROVE ClosedHaveNothing'
    BY <1>3 DEF PrepareRefused, Ended
  <1>4. ASSUME NEW c \in Conversations, BeginRestore(c) PROVE ClosedHaveNothing'
    BY <1>4 DEF BeginRestore, Restorable
  <1>5. ASSUME NEW c \in Conversations, Launch(c) PROVE ClosedHaveNothing'
    BY <1>5 DEF Launch, Opens
  <1>6. ASSUME NEW c \in Conversations, LaunchFails(c) PROVE ClosedHaveNothing'
    BY <1>6 DEF LaunchFails, Ended
  <1>7. ASSUME NEW c \in Conversations, Claim(c) PROVE ClosedHaveNothing'
    BY <1>7 DEF Claim, Claimable, ClaimedNow
  <1>8. ASSUME NEW c \in Conversations, Commit(c) PROVE ClosedHaveNothing'
    BY <1>8, CommitEffect
  <1>9. ASSUME NEW c \in Conversations, StartFails(c) PROVE ClosedHaveNothing'
    BY <1>9 DEF StartFails
  <1>10. ASSUME NEW c \in Conversations, FailedRestoreCloses(c) PROVE ClosedHaveNothing'
    BY <1>10 DEF FailedRestoreCloses, Teardown, Ended
  <1>11. ASSUME NEW c \in Conversations, FailedStartLetsGo(c) PROVE ClosedHaveNothing'
    BY <1>11 DEF FailedStartLetsGo, LetGo, PersistClosed
  <1>12. ASSUME NEW c \in Conversations, Close(c) PROVE ClosedHaveNothing'
    BY <1>12 DEF Close, LetGo, PersistClosed
  <1>13. ASSUME NEW c \in Conversations, FinishClose(c) PROVE ClosedHaveNothing'
    BY <1>13 DEF FinishClose, Teardown, Ended
  <1>14. ASSUME NEW c \in Conversations, ReleaseRuntime(c) PROVE ClosedHaveNothing'
    BY <1>14 DEF ReleaseRuntime
  <1>15. ASSUME NEW c \in Conversations, ExpireIntent(c) PROVE ClosedHaveNothing'
    BY <1>15 DEF ExpireIntent
  <1>16. ASSUME NEW c \in Conversations, ForgetClosed(c) PROVE ClosedHaveNothing'
    BY <1>16 DEF ForgetClosed
  <1>17. ASSUME NEW c \in Conversations, ForgetRunning(c) PROVE ClosedHaveNothing'
    BY <1>17 DEF ForgetRunning, NewWorker
  <1>18. ASSUME NEW c \in Conversations, NEW s \in SessionIds,
                NEW b \in Conversations \cup {None}, ReserveDelete(c, s, b)
         PROVE  ClosedHaveNothing'
    BY <1>18 DEF ReserveDelete, Reservable
  <1>19. ASSUME NEW c \in Conversations, CheckDeletion(c) PROVE ClosedHaveNothing'
    BY <1>19 DEF CheckDeletion, StartDeletion, StillDeletable
  <1>20. ASSUME NEW c \in Conversations, NativeDeletion(c) PROVE ClosedHaveNothing'
    BY <1>20, DeletionEffect
  <1>21. ASSUME NEW c \in Conversations, DeletionFailed(c) PROVE ClosedHaveNothing'
    BY <1>21 DEF DeletionFailed
  <1>22. ASSUME NEW c \in Conversations, DeletionFinished(c) PROVE ClosedHaveNothing'
    BY <1>22 DEF DeletionFinished, DeleteReferences
  <1>23. ASSUME NEW c \in Conversations, RestoreBinding(c) PROVE ClosedHaveNothing'
    BY <1>23, RestoreEffect
  <1>24. ASSUME Halt PROVE ClosedHaveNothing'
    BY <1>24 DEF Halt, NewWorker
  <1>25. ASSUME Restart PROVE ClosedHaveNothing'
    BY <1>25, RestartEffect
  <1>26. ASSUME RestartRefused PROVE ClosedHaveNothing'
    BY <1>26 DEF RestartRefused
  <1>27. CASE UNCHANGED sessionVars
    BY <1>27 DEF sessionVars
  <1> QED
    BY <1>1, <1>2, <1>3, <1>4, <1>5, <1>6, <1>7, <1>8, <1>9, <1>10, <1>11, <1>12, <1>13, <1>14,
       <1>15, <1>16, <1>17, <1>18, <1>19, <1>20, <1>21, <1>22, <1>23, <1>24, <1>25, <1>26, <1>27
       DEF Next, Starting, Ending, Deleting, AskNew, AskResume, Names

\* An intent stays as long as its start has not claimed the session.
LEMMA ResumesAreRecordedStep == IInv /\ [Next]_sessionVars => ResumesAreRecorded'
  <1> SUFFICES ASSUME IInv, [Next]_sessionVars PROVE ResumesAreRecorded'
    OBVIOUS
  <1> USE NoneAssumption
  <1> USE DEF IInv, TypeOK, ResumesAreRecorded, ClaimsFollowSteps, Actors, Idle, At
  <1>1. ASSUME NEW c \in Conversations, NEW how \in {"new", "resume"}, NEW s \in Names,
               AskStart(c, how, s)
        PROVE  ResumesAreRecorded'
    BY <1>1 DEF AskStart
  <1>2. ASSUME NEW c \in Conversations, Prepare(c) PROVE ResumesAreRecorded'
    BY <1>2 DEF Prepare, Prepared, Preparable, NotDeletedNow, Replaces, Teardown, Ended
  <1>3. ASSUME NEW c \in Conversations, PrepareRefused(c) PROVE ResumesAreRecorded'
    BY <1>3 DEF PrepareRefused, Ended
  <1>4. ASSUME NEW c \in Conversations, BeginRestore(c) PROVE ResumesAreRecorded'
    BY <1>4 DEF BeginRestore, Restorable
  <1>5. ASSUME NEW c \in Conversations, Launch(c) PROVE ResumesAreRecorded'
    BY <1>5 DEF Launch, Opens
  <1>6. ASSUME NEW c \in Conversations, LaunchFails(c) PROVE ResumesAreRecorded'
    BY <1>6 DEF LaunchFails, Ended
  <1>7. ASSUME NEW c \in Conversations, Claim(c) PROVE ResumesAreRecorded'
    BY <1>7 DEF Claim, Claimable, ClaimedNow
  <1>8. ASSUME NEW c \in Conversations, Commit(c) PROVE ResumesAreRecorded'
    BY <1>8, CommitEffect
  <1>9. ASSUME NEW c \in Conversations, StartFails(c) PROVE ResumesAreRecorded'
    BY <1>9 DEF StartFails
  <1>10. ASSUME NEW c \in Conversations, FailedRestoreCloses(c) PROVE ResumesAreRecorded'
    BY <1>10 DEF FailedRestoreCloses, Teardown, Ended
  <1>11. ASSUME NEW c \in Conversations, FailedStartLetsGo(c) PROVE ResumesAreRecorded'
    BY <1>11 DEF FailedStartLetsGo, LetGo, PersistClosed
  <1>12. ASSUME NEW c \in Conversations, Close(c) PROVE ResumesAreRecorded'
    BY <1>12 DEF Close, LetGo, PersistClosed
  <1>13. ASSUME NEW c \in Conversations, FinishClose(c) PROVE ResumesAreRecorded'
    BY <1>13 DEF FinishClose, Teardown, Ended
  <1>14. ASSUME NEW c \in Conversations, ReleaseRuntime(c) PROVE ResumesAreRecorded'
    BY <1>14 DEF ReleaseRuntime
  <1>15. ASSUME NEW c \in Conversations, ExpireIntent(c) PROVE ResumesAreRecorded'
    BY <1>15 DEF ExpireIntent
  <1>16. ASSUME NEW c \in Conversations, ForgetClosed(c) PROVE ResumesAreRecorded'
    BY <1>16 DEF ForgetClosed
  <1>17. ASSUME NEW c \in Conversations, ForgetRunning(c) PROVE ResumesAreRecorded'
    BY <1>17 DEF ForgetRunning, NewWorker
  <1>18. ASSUME NEW c \in Conversations, NEW s \in SessionIds,
                NEW b \in Conversations \cup {None}, ReserveDelete(c, s, b)
         PROVE  ResumesAreRecorded'
    BY <1>18 DEF ReserveDelete, Reservable
  <1>19. ASSUME NEW c \in Conversations, CheckDeletion(c) PROVE ResumesAreRecorded'
    BY <1>19 DEF CheckDeletion, StartDeletion, StillDeletable
  <1>20. ASSUME NEW c \in Conversations, NativeDeletion(c) PROVE ResumesAreRecorded'
    BY <1>20, DeletionEffect
  <1>21. ASSUME NEW c \in Conversations, DeletionFailed(c) PROVE ResumesAreRecorded'
    BY <1>21 DEF DeletionFailed
  <1>22. ASSUME NEW c \in Conversations, DeletionFinished(c) PROVE ResumesAreRecorded'
    BY <1>22 DEF DeletionFinished, DeleteReferences
  <1>23. ASSUME NEW c \in Conversations, RestoreBinding(c) PROVE ResumesAreRecorded'
    BY <1>23, RestoreEffect
  <1>24. ASSUME Halt PROVE ResumesAreRecorded'
    BY <1>24 DEF Halt, NewWorker
  <1>25. ASSUME Restart PROVE ResumesAreRecorded'
    BY <1>25, RestartEffect
  <1>26. ASSUME RestartRefused PROVE ResumesAreRecorded'
    BY <1>26 DEF RestartRefused
  <1>27. CASE UNCHANGED sessionVars
    BY <1>27 DEF sessionVars
  <1> QED
    BY <1>1, <1>2, <1>3, <1>4, <1>5, <1>6, <1>7, <1>8, <1>9, <1>10, <1>11, <1>12, <1>13, <1>14,
       <1>15, <1>16, <1>17, <1>18, <1>19, <1>20, <1>21, <1>22, <1>23, <1>24, <1>25, <1>26, <1>27
       DEF Next, Starting, Ending, Deleting, AskNew, AskResume, Names

\* Nobody else opens the session that a new start creates.
LEMMA NewIsUnsavedStep == IInv /\ [Next]_sessionVars => NewIsUnsaved'
  <1> SUFFICES ASSUME IInv, [Next]_sessionVars PROVE NewIsUnsaved'
    OBVIOUS
  <1> USE NoneAssumption
  <1> USE DEF IInv, TypeOK, NewIsUnsaved, ClaimsFollowSteps, Actors, Idle, At
  <1>1. ASSUME NEW c \in Conversations, NEW how \in {"new", "resume"}, NEW s \in Names,
               AskStart(c, how, s)
        PROVE  NewIsUnsaved'
    BY <1>1 DEF AskStart
  <1>2. ASSUME NEW c \in Conversations, Prepare(c) PROVE NewIsUnsaved'
    BY <1>2 DEF Prepare, Prepared, Preparable, NotDeletedNow, Replaces, Teardown, Ended
  <1>3. ASSUME NEW c \in Conversations, PrepareRefused(c) PROVE NewIsUnsaved'
    BY <1>3 DEF PrepareRefused, Ended
  <1>4. ASSUME NEW c \in Conversations, BeginRestore(c) PROVE NewIsUnsaved'
    BY <1>4 DEF BeginRestore, Restorable
  <1>5. ASSUME NEW c \in Conversations, Launch(c) PROVE NewIsUnsaved'
    BY <1>5 DEF Launch, Opens
  <1>6. ASSUME NEW c \in Conversations, LaunchFails(c) PROVE NewIsUnsaved'
    BY <1>6 DEF LaunchFails, Ended
  <1>7. ASSUME NEW c \in Conversations, Claim(c) PROVE NewIsUnsaved'
    BY <1>7 DEF Claim, Claimable, ClaimedNow
  <1>8. ASSUME NEW c \in Conversations, Commit(c) PROVE NewIsUnsaved'
    BY <1>8, CommitEffect
  <1>9. ASSUME NEW c \in Conversations, StartFails(c) PROVE NewIsUnsaved'
    BY <1>9 DEF StartFails
  <1>10. ASSUME NEW c \in Conversations, FailedRestoreCloses(c) PROVE NewIsUnsaved'
    BY <1>10 DEF FailedRestoreCloses, Teardown, Ended
  <1>11. ASSUME NEW c \in Conversations, FailedStartLetsGo(c) PROVE NewIsUnsaved'
    BY <1>11 DEF FailedStartLetsGo, LetGo, PersistClosed
  <1>12. ASSUME NEW c \in Conversations, Close(c) PROVE NewIsUnsaved'
    BY <1>12 DEF Close, LetGo, PersistClosed
  <1>13. ASSUME NEW c \in Conversations, FinishClose(c) PROVE NewIsUnsaved'
    BY <1>13 DEF FinishClose, Teardown, Ended
  <1>14. ASSUME NEW c \in Conversations, ReleaseRuntime(c) PROVE NewIsUnsaved'
    BY <1>14 DEF ReleaseRuntime
  <1>15. ASSUME NEW c \in Conversations, ExpireIntent(c) PROVE NewIsUnsaved'
    BY <1>15 DEF ExpireIntent
  <1>16. ASSUME NEW c \in Conversations, ForgetClosed(c) PROVE NewIsUnsaved'
    BY <1>16 DEF ForgetClosed
  <1>17. ASSUME NEW c \in Conversations, ForgetRunning(c) PROVE NewIsUnsaved'
    BY <1>17 DEF ForgetRunning, NewWorker
  <1>18. ASSUME NEW c \in Conversations, NEW s \in SessionIds,
                NEW b \in Conversations \cup {None}, ReserveDelete(c, s, b)
         PROVE  NewIsUnsaved'
    BY <1>18 DEF ReserveDelete, Reservable
  <1>19. ASSUME NEW c \in Conversations, CheckDeletion(c) PROVE NewIsUnsaved'
    BY <1>19 DEF CheckDeletion, StartDeletion, StillDeletable
  <1>20. ASSUME NEW c \in Conversations, NativeDeletion(c) PROVE NewIsUnsaved'
    BY <1>20, DeletionEffect
  <1>21. ASSUME NEW c \in Conversations, DeletionFailed(c) PROVE NewIsUnsaved'
    BY <1>21 DEF DeletionFailed
  <1>22. ASSUME NEW c \in Conversations, DeletionFinished(c) PROVE NewIsUnsaved'
    BY <1>22 DEF DeletionFinished, DeleteReferences
  <1>23. ASSUME NEW c \in Conversations, RestoreBinding(c) PROVE NewIsUnsaved'
    BY <1>23, RestoreEffect
  <1>24. ASSUME Halt PROVE NewIsUnsaved'
    BY <1>24 DEF Halt, NewWorker
  <1>25. ASSUME Restart PROVE NewIsUnsaved'
    BY <1>25, RestartEffect
  <1>26. ASSUME RestartRefused PROVE NewIsUnsaved'
    BY <1>26 DEF RestartRefused
  <1>27. CASE UNCHANGED sessionVars
    BY <1>27 DEF sessionVars
  <1> QED
    BY <1>1, <1>2, <1>3, <1>4, <1>5, <1>6, <1>7, <1>8, <1>9, <1>10, <1>11, <1>12, <1>13, <1>14,
       <1>15, <1>16, <1>17, <1>18, <1>19, <1>20, <1>21, <1>22, <1>23, <1>24, <1>25, <1>26, <1>27
       DEF Next, Starting, Ending, Deleting, AskNew, AskResume, Names

\* reserveDelete finds no runtime, and nobody claims what is reserved.
LEMMA DeletionsAreReservedStep == IInv /\ [Next]_sessionVars => DeletionsAreReserved'
  <1> SUFFICES ASSUME IInv, [Next]_sessionVars PROVE DeletionsAreReserved'
    OBVIOUS
  <1> USE NoneAssumption
  <1> USE DEF IInv, TypeOK, DeletionsAreReserved, ClaimsFollowSteps, Actors, Deletions,
     NoDeletion, Idle, At, RuntimeOn, BeingDeleted
  <1>1. ASSUME NEW c \in Conversations, NEW how \in {"new", "resume"}, NEW s \in Names,
               AskStart(c, how, s)
        PROVE  DeletionsAreReserved'
    BY <1>1 DEF AskStart
  <1>2. ASSUME NEW c \in Conversations, Prepare(c) PROVE DeletionsAreReserved'
    BY <1>2 DEF Prepare, Prepared, Preparable, NotDeletedNow, Replaces, Teardown, Ended
  <1>3. ASSUME NEW c \in Conversations, PrepareRefused(c) PROVE DeletionsAreReserved'
    BY <1>3 DEF PrepareRefused, Ended
  <1>4. ASSUME NEW c \in Conversations, BeginRestore(c) PROVE DeletionsAreReserved'
    BY <1>4 DEF BeginRestore, Restorable
  <1>5. ASSUME NEW c \in Conversations, Launch(c) PROVE DeletionsAreReserved'
    BY <1>5 DEF Launch, Opens
  <1>6. ASSUME NEW c \in Conversations, LaunchFails(c) PROVE DeletionsAreReserved'
    BY <1>6 DEF LaunchFails, Ended
  <1>7. ASSUME NEW c \in Conversations, Claim(c) PROVE DeletionsAreReserved'
    BY <1>7 DEF Claim, Claimable, ClaimedNow
  <1>8. ASSUME NEW c \in Conversations, Commit(c) PROVE DeletionsAreReserved'
    <2>1. /\ deletion' = deletion
          /\ \A e \in Conversations :
                worker'[e].claim = worker[e].claim /\ worker'[e].runtime = worker[e].runtime
      BY <1>8, CommitEffect
    <2> QED
      BY <2>1
  <1>9. ASSUME NEW c \in Conversations, StartFails(c) PROVE DeletionsAreReserved'
    BY <1>9 DEF StartFails
  <1>10. ASSUME NEW c \in Conversations, FailedRestoreCloses(c) PROVE DeletionsAreReserved'
    BY <1>10 DEF FailedRestoreCloses, Teardown, Ended
  <1>11. ASSUME NEW c \in Conversations, FailedStartLetsGo(c) PROVE DeletionsAreReserved'
    BY <1>11 DEF FailedStartLetsGo, LetGo, PersistClosed
  <1>12. ASSUME NEW c \in Conversations, Close(c) PROVE DeletionsAreReserved'
    BY <1>12 DEF Close, LetGo, PersistClosed
  <1>13. ASSUME NEW c \in Conversations, FinishClose(c) PROVE DeletionsAreReserved'
    BY <1>13 DEF FinishClose, Teardown, Ended
  <1>14. ASSUME NEW c \in Conversations, ReleaseRuntime(c) PROVE DeletionsAreReserved'
    BY <1>14 DEF ReleaseRuntime
  <1>15. ASSUME NEW c \in Conversations, ExpireIntent(c) PROVE DeletionsAreReserved'
    BY <1>15 DEF ExpireIntent
  <1>16. ASSUME NEW c \in Conversations, ForgetClosed(c) PROVE DeletionsAreReserved'
    BY <1>16 DEF ForgetClosed
  <1>17. ASSUME NEW c \in Conversations, ForgetRunning(c) PROVE DeletionsAreReserved'
    BY <1>17 DEF ForgetRunning, NewWorker
  <1>18. ASSUME NEW c \in Conversations, NEW s \in SessionIds,
                NEW b \in Conversations \cup {None}, ReserveDelete(c, s, b)
         PROVE  DeletionsAreReserved'
    BY <1>18 DEF ReserveDelete, Reservable
  <1>19. ASSUME NEW c \in Conversations, CheckDeletion(c) PROVE DeletionsAreReserved'
    BY <1>19 DEF CheckDeletion, StartDeletion, StillDeletable
  <1>20. ASSUME NEW c \in Conversations, NativeDeletion(c) PROVE DeletionsAreReserved'
    <2>1. /\ worker' = worker
          /\ \A e \in Conversations :
                /\ deletion'[e].session = deletion[e].session
                /\ deletion'[e].step # "none" => deletion[e].step # "none"
      BY <1>20, DeletionEffect
    <2> QED
      BY <2>1
  <1>21. ASSUME NEW c \in Conversations, DeletionFailed(c) PROVE DeletionsAreReserved'
    BY <1>21 DEF DeletionFailed
  <1>22. ASSUME NEW c \in Conversations, DeletionFinished(c) PROVE DeletionsAreReserved'
    BY <1>22 DEF DeletionFinished, DeleteReferences
  <1>23. ASSUME NEW c \in Conversations, RestoreBinding(c) PROVE DeletionsAreReserved'
    BY <1>23, RestoreEffect
  <1>24. ASSUME Halt PROVE DeletionsAreReserved'
    BY <1>24 DEF Halt, NewWorker
  <1>25. ASSUME Restart PROVE DeletionsAreReserved'
    BY <1>25, RestartEffect
  <1>26. ASSUME RestartRefused PROVE DeletionsAreReserved'
    BY <1>26 DEF RestartRefused
  <1>27. CASE UNCHANGED sessionVars
    BY <1>27 DEF sessionVars
  <1> QED
    BY <1>1, <1>2, <1>3, <1>4, <1>5, <1>6, <1>7, <1>8, <1>9, <1>10, <1>11, <1>12, <1>13, <1>14,
       <1>15, <1>16, <1>17, <1>18, <1>19, <1>20, <1>21, <1>22, <1>23, <1>24, <1>25, <1>26, <1>27
       DEF Next, Starting, Ending, Deleting, AskNew, AskResume, Names

\* sessionDeleteAvailable finds no pending resume, and PrepareStart records none of a
\* session that is reserved.
LEMMA DeletionIsAloneStep == IInv /\ [Next]_sessionVars => DeletionIsAlone'
  <1> SUFFICES ASSUME IInv, [Next]_sessionVars PROVE DeletionIsAlone'
    OBVIOUS
  <1> USE NoneAssumption
  <1> USE DEF IInv, TypeOK, DeletionIsAlone, ResumesAreRecorded, ClaimsFollowSteps, Actors,
     Deletions, NoDeletion, Idle, At, ResumePending, BeingDeleted
  <1>1. ASSUME NEW c \in Conversations, NEW how \in {"new", "resume"}, NEW s \in Names,
               AskStart(c, how, s)
        PROVE  DeletionIsAlone'
    BY <1>1 DEF AskStart
  <1>2. ASSUME NEW c \in Conversations, Prepare(c) PROVE DeletionIsAlone'
    BY <1>2 DEF Prepare, Prepared, Preparable, NotDeletedNow, Replaces, Teardown, Ended
  <1>3. ASSUME NEW c \in Conversations, PrepareRefused(c) PROVE DeletionIsAlone'
    BY <1>3 DEF PrepareRefused, Ended
  <1>4. ASSUME NEW c \in Conversations, BeginRestore(c) PROVE DeletionIsAlone'
    BY <1>4 DEF BeginRestore, Restorable
  <1>5. ASSUME NEW c \in Conversations, Launch(c) PROVE DeletionIsAlone'
    BY <1>5 DEF Launch, Opens
  <1>6. ASSUME NEW c \in Conversations, LaunchFails(c) PROVE DeletionIsAlone'
    BY <1>6 DEF LaunchFails, Ended
  <1>7. ASSUME NEW c \in Conversations, Claim(c) PROVE DeletionIsAlone'
    BY <1>7 DEF Claim, Claimable, ClaimedNow
  <1>8. ASSUME NEW c \in Conversations, Commit(c) PROVE DeletionIsAlone'
    <2>1. /\ deletion' = deletion /\ worker'[c].step = "idle"
          /\ \A d \in Conversations \ {c} : worker'[d] = worker[d]
      BY <1>8, CommitEffect
    <2> QED
      BY <2>1
  <1>9. ASSUME NEW c \in Conversations, StartFails(c) PROVE DeletionIsAlone'
    BY <1>9 DEF StartFails
  <1>10. ASSUME NEW c \in Conversations, FailedRestoreCloses(c) PROVE DeletionIsAlone'
    BY <1>10 DEF FailedRestoreCloses, Teardown, Ended
  <1>11. ASSUME NEW c \in Conversations, FailedStartLetsGo(c) PROVE DeletionIsAlone'
    BY <1>11 DEF FailedStartLetsGo, LetGo, PersistClosed
  <1>12. ASSUME NEW c \in Conversations, Close(c) PROVE DeletionIsAlone'
    BY <1>12 DEF Close, LetGo, PersistClosed
  <1>13. ASSUME NEW c \in Conversations, FinishClose(c) PROVE DeletionIsAlone'
    BY <1>13 DEF FinishClose, Teardown, Ended
  <1>14. ASSUME NEW c \in Conversations, ReleaseRuntime(c) PROVE DeletionIsAlone'
    BY <1>14 DEF ReleaseRuntime
  <1>15. ASSUME NEW c \in Conversations, ExpireIntent(c) PROVE DeletionIsAlone'
    BY <1>15 DEF ExpireIntent
  <1>16. ASSUME NEW c \in Conversations, ForgetClosed(c) PROVE DeletionIsAlone'
    BY <1>16 DEF ForgetClosed
  <1>17. ASSUME NEW c \in Conversations, ForgetRunning(c) PROVE DeletionIsAlone'
    BY <1>17 DEF ForgetRunning, NewWorker
  <1>18. ASSUME NEW c \in Conversations, NEW s \in SessionIds,
                NEW b \in Conversations \cup {None}, ReserveDelete(c, s, b)
         PROVE  DeletionIsAlone'
    BY <1>18 DEF ReserveDelete, Reservable
  <1>19. ASSUME NEW c \in Conversations, CheckDeletion(c) PROVE DeletionIsAlone'
    BY <1>19 DEF CheckDeletion, StartDeletion, StillDeletable
  <1>20. ASSUME NEW c \in Conversations, NativeDeletion(c) PROVE DeletionIsAlone'
    <2>1. /\ worker' = worker /\ deletion'[c].step \in {"deleted", "failed"}
          /\ \A e \in Conversations \ {c} : deletion'[e] = deletion[e]
      BY <1>20, DeletionEffect
    <2> QED
      BY <2>1
  <1>21. ASSUME NEW c \in Conversations, DeletionFailed(c) PROVE DeletionIsAlone'
    BY <1>21 DEF DeletionFailed
  <1>22. ASSUME NEW c \in Conversations, DeletionFinished(c) PROVE DeletionIsAlone'
    BY <1>22 DEF DeletionFinished, DeleteReferences
  <1>23. ASSUME NEW c \in Conversations, RestoreBinding(c) PROVE DeletionIsAlone'
    <2>1. /\ deletion' = deletion /\ worker'[c].step = "idle"
          /\ \A d \in Conversations \ {c} : worker'[d] = worker[d]
      BY <1>23, RestoreEffect
    <2> QED
      BY <2>1
  <1>24. ASSUME Halt PROVE DeletionIsAlone'
    BY <1>24 DEF Halt, NewWorker
  <1>25. ASSUME Restart PROVE DeletionIsAlone'
    BY <1>25, RestartEffect
  <1>26. ASSUME RestartRefused PROVE DeletionIsAlone'
    BY <1>26 DEF RestartRefused
  <1>27. CASE UNCHANGED sessionVars
    BY <1>27 DEF sessionVars
  <1> QED
    BY <1>1, <1>2, <1>3, <1>4, <1>5, <1>6, <1>7, <1>8, <1>9, <1>10, <1>11, <1>12, <1>13, <1>14,
       <1>15, <1>16, <1>17, <1>18, <1>19, <1>20, <1>21, <1>22, <1>23, <1>24, <1>25, <1>26, <1>27
       DEF Next, Starting, Ending, Deleting, AskNew, AskResume, Names

\* OMP resumes only what has a file, a claim gives a new session one, and neither is
\* deleted meanwhile.
LEMMA StartsHaveFilesStep == IInv /\ [Next]_sessionVars => StartsHaveFiles'
  <1> SUFFICES ASSUME IInv, [Next]_sessionVars PROVE StartsHaveFiles'
    OBVIOUS
  <1> USE NoneAssumption
  <1> USE DEF IInv, TypeOK, StartsHaveFiles, ClaimsFollowSteps, Actors, Bindings,
     NoBinding, Deletions, NoDeletion, Idle, At
  <1>1. ASSUME NEW c \in Conversations, NEW how \in {"new", "resume"}, NEW s \in Names,
               AskStart(c, how, s)
        PROVE  StartsHaveFiles'
    BY <1>1 DEF AskStart
  <1>2. ASSUME NEW c \in Conversations, Prepare(c) PROVE StartsHaveFiles'
    BY <1>2 DEF Prepare, Prepared, Preparable, NotDeletedNow, Replaces, Teardown, Ended
  <1>3. ASSUME NEW c \in Conversations, PrepareRefused(c) PROVE StartsHaveFiles'
    BY <1>3 DEF PrepareRefused, Ended
  <1>4. ASSUME NEW c \in Conversations, BeginRestore(c) PROVE StartsHaveFiles'
    BY <1>4 DEF BeginRestore, Restorable
  <1>5. ASSUME NEW c \in Conversations, Launch(c) PROVE StartsHaveFiles'
    BY <1>5 DEF Launch, Opens
  <1>6. ASSUME NEW c \in Conversations, LaunchFails(c) PROVE StartsHaveFiles'
    BY <1>6 DEF LaunchFails, Ended
  <1>7. ASSUME NEW c \in Conversations, Claim(c) PROVE StartsHaveFiles'
    BY <1>7 DEF Claim, Claimable, ClaimedNow
  <1>8. ASSUME NEW c \in Conversations, Commit(c) PROVE StartsHaveFiles'
    <2>1. /\ worker'[c].step = "idle" /\ file' = file
          /\ \A d \in Conversations \ {c} : worker'[d] = worker[d] /\ binding'[d] = binding[d]
      BY <1>8, CommitEffect
    <2> QED
      BY <2>1
  <1>9. ASSUME NEW c \in Conversations, StartFails(c) PROVE StartsHaveFiles'
    BY <1>9 DEF StartFails
  <1>10. ASSUME NEW c \in Conversations, FailedRestoreCloses(c) PROVE StartsHaveFiles'
    BY <1>10 DEF FailedRestoreCloses, Teardown, Ended
  <1>11. ASSUME NEW c \in Conversations, FailedStartLetsGo(c) PROVE StartsHaveFiles'
    BY <1>11 DEF FailedStartLetsGo, LetGo, PersistClosed
  <1>12. ASSUME NEW c \in Conversations, Close(c) PROVE StartsHaveFiles'
    BY <1>12 DEF Close, LetGo, PersistClosed
  <1>13. ASSUME NEW c \in Conversations, FinishClose(c) PROVE StartsHaveFiles'
    BY <1>13 DEF FinishClose, Teardown, Ended
  <1>14. ASSUME NEW c \in Conversations, ReleaseRuntime(c) PROVE StartsHaveFiles'
    BY <1>14 DEF ReleaseRuntime
  <1>15. ASSUME NEW c \in Conversations, ExpireIntent(c) PROVE StartsHaveFiles'
    BY <1>15 DEF ExpireIntent
  <1>16. ASSUME NEW c \in Conversations, ForgetClosed(c) PROVE StartsHaveFiles'
    BY <1>16 DEF ForgetClosed
  <1>17. ASSUME NEW c \in Conversations, ForgetRunning(c) PROVE StartsHaveFiles'
    BY <1>17 DEF ForgetRunning, NewWorker
  <1>18. ASSUME NEW c \in Conversations, NEW s \in SessionIds,
                NEW b \in Conversations \cup {None}, ReserveDelete(c, s, b)
         PROVE  StartsHaveFiles'
    BY <1>18 DEF ReserveDelete, Reservable
  <1>19. ASSUME NEW c \in Conversations, CheckDeletion(c) PROVE StartsHaveFiles'
    BY <1>19 DEF CheckDeletion, StartDeletion, StillDeletable
  <1>20. ASSUME NEW c \in Conversations, NativeDeletion(c) PROVE StartsHaveFiles'
    <2>1. /\ worker' = worker /\ deletion[c].step = "native" /\ deletion[c].session \in SessionIds
          /\ \A s \in SessionIds : file'[s] # file[s] => s = deletion[c].session
      BY <1>20, DeletionEffect DEF DeletionsAreReserved
    <2>2. ASSUME NEW d \in Conversations,
                 \/ worker[d].step = "launched" /\ worker[d].how \in {"lazy", "resume"}
                 \/ worker[d].step = "claimed"
          PROVE  worker[d].omp \in SessionIds /\ worker[d].omp # deletion[c].session
      BY <2>1, <2>2, NoneAssumption DEF DeletionsAreReserved, DeletionIsAlone
    <2> QED
      BY <2>1, <2>2
  <1>21. ASSUME NEW c \in Conversations, DeletionFailed(c) PROVE StartsHaveFiles'
    BY <1>21 DEF DeletionFailed
  <1>22. ASSUME NEW c \in Conversations, DeletionFinished(c) PROVE StartsHaveFiles'
    BY <1>22 DEF DeletionFinished, DeleteReferences
  <1>23. ASSUME NEW c \in Conversations, RestoreBinding(c) PROVE StartsHaveFiles'
    <2>1. /\ file' = file /\ worker'[c].step = "idle"
          /\ \A d \in Conversations \ {c} : worker'[d] = worker[d] /\ binding'[d] = binding[d]
      BY <1>23, RestoreEffect
    <2> QED
      BY <2>1
  <1>24. ASSUME Halt PROVE StartsHaveFiles'
    BY <1>24 DEF Halt, NewWorker
  <1>25. ASSUME Restart PROVE StartsHaveFiles'
    BY <1>25, RestartEffect
  <1>26. ASSUME RestartRefused PROVE StartsHaveFiles'
    BY <1>26 DEF RestartRefused
  <1>27. CASE UNCHANGED sessionVars
    BY <1>27 DEF sessionVars
  <1> QED
    BY <1>1, <1>2, <1>3, <1>4, <1>5, <1>6, <1>7, <1>8, <1>9, <1>10, <1>11, <1>12, <1>13, <1>14,
       <1>15, <1>16, <1>17, <1>18, <1>19, <1>20, <1>21, <1>22, <1>23, <1>24, <1>25, <1>26, <1>27
       DEF Next, Starting, Ending, Deleting, AskNew, AskResume, Names


\* Until it has verified its binding a restored actor has what the database has.
LEMMA RestoringIsBoundStep == IInv /\ [Next]_sessionVars => RestoringIsBound'
  <1> SUFFICES ASSUME IInv, [Next]_sessionVars PROVE RestoringIsBound'
    OBVIOUS
  <1> USE NoneAssumption
  <1> USE DEF IInv, TypeOK, RestoringIsBound, ClaimsFollowSteps, Actors, Bindings,
     NoBinding, Deletions, NoDeletion, Idle, At
  <1>1. ASSUME NEW c \in Conversations, NEW how \in {"new", "resume"}, NEW s \in Names,
               AskStart(c, how, s)
        PROVE  RestoringIsBound'
    BY <1>1 DEF AskStart
  <1>2. ASSUME NEW c \in Conversations, Prepare(c) PROVE RestoringIsBound'
    BY <1>2 DEF Prepare, Prepared, Preparable, NotDeletedNow, Replaces, Teardown, Ended
  <1>3. ASSUME NEW c \in Conversations, PrepareRefused(c) PROVE RestoringIsBound'
    BY <1>3 DEF PrepareRefused, Ended
  <1>4. ASSUME NEW c \in Conversations, BeginRestore(c) PROVE RestoringIsBound'
    BY <1>4 DEF BeginRestore, Restorable
  <1>5. ASSUME NEW c \in Conversations, Launch(c) PROVE RestoringIsBound'
    BY <1>5 DEF Launch, Opens
  <1>6. ASSUME NEW c \in Conversations, LaunchFails(c) PROVE RestoringIsBound'
    BY <1>6 DEF LaunchFails, Ended
  <1>7. ASSUME NEW c \in Conversations, Claim(c) PROVE RestoringIsBound'
    BY <1>7 DEF Claim, Claimable, ClaimedNow
  <1>8. ASSUME NEW c \in Conversations, Commit(c) PROVE RestoringIsBound'
    <2>1. /\ worker'[c].step = "idle" /\ file' = file
          /\ \A d \in Conversations \ {c} : worker'[d] = worker[d] /\ binding'[d] = binding[d]
      BY <1>8, CommitEffect
    <2> QED
      BY <2>1
  <1>9. ASSUME NEW c \in Conversations, StartFails(c) PROVE RestoringIsBound'
    BY <1>9 DEF StartFails
  <1>10. ASSUME NEW c \in Conversations, FailedRestoreCloses(c) PROVE RestoringIsBound'
    BY <1>10 DEF FailedRestoreCloses, Teardown, Ended
  <1>11. ASSUME NEW c \in Conversations, FailedStartLetsGo(c) PROVE RestoringIsBound'
    BY <1>11 DEF FailedStartLetsGo, LetGo, PersistClosed
  <1>12. ASSUME NEW c \in Conversations, Close(c) PROVE RestoringIsBound'
    BY <1>12 DEF Close, LetGo, PersistClosed
  <1>13. ASSUME NEW c \in Conversations, FinishClose(c) PROVE RestoringIsBound'
    BY <1>13 DEF FinishClose, Teardown, Ended
  <1>14. ASSUME NEW c \in Conversations, ReleaseRuntime(c) PROVE RestoringIsBound'
    BY <1>14 DEF ReleaseRuntime
  <1>15. ASSUME NEW c \in Conversations, ExpireIntent(c) PROVE RestoringIsBound'
    BY <1>15 DEF ExpireIntent
  <1>16. ASSUME NEW c \in Conversations, ForgetClosed(c) PROVE RestoringIsBound'
    BY <1>16 DEF ForgetClosed
  <1>17. ASSUME NEW c \in Conversations, ForgetRunning(c) PROVE RestoringIsBound'
    BY <1>17 DEF ForgetRunning, NewWorker
  <1>18. ASSUME NEW c \in Conversations, NEW s \in SessionIds,
                NEW b \in Conversations \cup {None}, ReserveDelete(c, s, b)
         PROVE  RestoringIsBound'
    BY <1>18 DEF ReserveDelete, Reservable
  <1>19. ASSUME NEW c \in Conversations, CheckDeletion(c) PROVE RestoringIsBound'
    BY <1>19 DEF CheckDeletion, StartDeletion, StillDeletable
  <1>20. ASSUME NEW c \in Conversations, NativeDeletion(c) PROVE RestoringIsBound'
    <2>1. worker' = worker /\ binding' = binding
      BY <1>20, DeletionEffect
    <2> QED
      BY <2>1
  <1>21. ASSUME NEW c \in Conversations, DeletionFailed(c) PROVE RestoringIsBound'
    BY <1>21 DEF DeletionFailed
  <1>22. ASSUME NEW c \in Conversations, DeletionFinished(c) PROVE RestoringIsBound'
    BY <1>22 DEF DeletionFinished, DeleteReferences
  <1>23. ASSUME NEW c \in Conversations, RestoreBinding(c) PROVE RestoringIsBound'
    <2>1. /\ file' = file /\ worker'[c].step = "idle"
          /\ \A d \in Conversations \ {c} : worker'[d] = worker[d] /\ binding'[d] = binding[d]
      BY <1>23, RestoreEffect
    <2> QED
      BY <2>1
  <1>24. ASSUME Halt PROVE RestoringIsBound'
    BY <1>24 DEF Halt, NewWorker
  <1>25. ASSUME Restart PROVE RestoringIsBound'
    BY <1>25, RestartEffect
  <1>26. ASSUME RestartRefused PROVE RestoringIsBound'
    BY <1>26 DEF RestartRefused
  <1>27. CASE UNCHANGED sessionVars
    BY <1>27 DEF sessionVars
  <1> QED
    BY <1>1, <1>2, <1>3, <1>4, <1>5, <1>6, <1>7, <1>8, <1>9, <1>10, <1>11, <1>12, <1>13, <1>14,
       <1>15, <1>16, <1>17, <1>18, <1>19, <1>20, <1>21, <1>22, <1>23, <1>24, <1>25, <1>26, <1>27
       DEF Next, Starting, Ending, Deleting, AskNew, AskResume, Names


\* A start commits what it has claimed, and a deletion that removed the file removes the
\* bindings before it ends.
LEMMA RunningHasFileStep == IInv /\ [Next]_sessionVars => RunningHasFile'
  <1> SUFFICES ASSUME IInv, [Next]_sessionVars PROVE RunningHasFile'
    OBVIOUS
  <1> USE NoneAssumption
  <1> USE DEF IInv, TypeOK, RunningHasFile, StartsHaveFiles, RestoringIsBound, ClaimsFollowSteps, Actors, Bindings,
     NoBinding, Deletions, NoDeletion, Idle, At
  <1>1. ASSUME NEW c \in Conversations, NEW how \in {"new", "resume"}, NEW s \in Names,
               AskStart(c, how, s)
        PROVE  RunningHasFile'
    BY <1>1 DEF AskStart
  <1>2. ASSUME NEW c \in Conversations, Prepare(c) PROVE RunningHasFile'
    BY <1>2 DEF Prepare, Prepared, Preparable, NotDeletedNow, Replaces, Teardown, Ended
  <1>3. ASSUME NEW c \in Conversations, PrepareRefused(c) PROVE RunningHasFile'
    BY <1>3 DEF PrepareRefused, Ended
  <1>4. ASSUME NEW c \in Conversations, BeginRestore(c) PROVE RunningHasFile'
    BY <1>4 DEF BeginRestore, Restorable
  <1>5. ASSUME NEW c \in Conversations, Launch(c) PROVE RunningHasFile'
    BY <1>5 DEF Launch, Opens
  <1>6. ASSUME NEW c \in Conversations, LaunchFails(c) PROVE RunningHasFile'
    BY <1>6 DEF LaunchFails, Ended
  <1>7. ASSUME NEW c \in Conversations, Claim(c) PROVE RunningHasFile'
    BY <1>7 DEF Claim, Claimable, ClaimedNow
  <1>8. ASSUME NEW c \in Conversations, Commit(c) PROVE RunningHasFile'
    <2>1. /\ worker[c].step = "claimed" /\ worker'[c].step = "idle"
          /\ UNCHANGED <<running, file, doubtful, deletion>>
          /\ \A d \in Conversations \ {c} : worker'[d] = worker[d] /\ binding'[d] = binding[d]
          /\ binding'[c] = binding[c] \/ binding'[c].session = worker[c].omp
      BY <1>8, CommitEffect
    <2>2. worker[c].omp \in SessionIds /\ file[worker[c].omp] = "there"
      BY <2>1
    <2> QED
      BY <2>1, <2>2
  <1>9. ASSUME NEW c \in Conversations, StartFails(c) PROVE RunningHasFile'
    BY <1>9 DEF StartFails
  <1>10. ASSUME NEW c \in Conversations, FailedRestoreCloses(c) PROVE RunningHasFile'
    BY <1>10 DEF FailedRestoreCloses, Teardown, Ended
  <1>11. ASSUME NEW c \in Conversations, FailedStartLetsGo(c) PROVE RunningHasFile'
    BY <1>11 DEF FailedStartLetsGo, LetGo, PersistClosed
  <1>12. ASSUME NEW c \in Conversations, Close(c) PROVE RunningHasFile'
    BY <1>12 DEF Close, LetGo, PersistClosed
  <1>13. ASSUME NEW c \in Conversations, FinishClose(c) PROVE RunningHasFile'
    BY <1>13 DEF FinishClose, Teardown, Ended
  <1>14. ASSUME NEW c \in Conversations, ReleaseRuntime(c) PROVE RunningHasFile'
    BY <1>14 DEF ReleaseRuntime
  <1>15. ASSUME NEW c \in Conversations, ExpireIntent(c) PROVE RunningHasFile'
    BY <1>15 DEF ExpireIntent
  <1>16. ASSUME NEW c \in Conversations, ForgetClosed(c) PROVE RunningHasFile'
    BY <1>16 DEF ForgetClosed
  <1>17. ASSUME NEW c \in Conversations, ForgetRunning(c) PROVE RunningHasFile'
    BY <1>17 DEF ForgetRunning, NewWorker
  <1>18. ASSUME NEW c \in Conversations, NEW s \in SessionIds,
                NEW b \in Conversations \cup {None}, ReserveDelete(c, s, b)
         PROVE  RunningHasFile'
    BY <1>18 DEF ReserveDelete, Reservable
  <1>19. ASSUME NEW c \in Conversations, CheckDeletion(c) PROVE RunningHasFile'
    BY <1>19 DEF CheckDeletion, StartDeletion, StillDeletable
  <1>20. ASSUME NEW c \in Conversations, NativeDeletion(c) PROVE RunningHasFile'
    <2>1. /\ running = "up" /\ running' = "up" /\ worker' = worker /\ binding' = binding
          /\ deletion[c].step = "native" /\ deletion[c].session \in SessionIds
          /\ \A e \in Conversations \ {c} : deletion'[e] = deletion[e]
          /\ deletion'[c].session = deletion[c].session
          /\ \A s \in SessionIds : file'[s] # file[s] => s = deletion[c].session
      BY <1>20, DeletionEffect DEF DeletionsAreReserved
    <2>2. doubtful \subseteq doubtful'
      BY <1>20 DEF NativeDeletion, FileRemoved, NotDeleted, BoundSessionMissing
    <2>3. file' = file \/ deletion[c].session \in doubtful' \/ deletion'[c].step = "deleted"
      BY <1>20 DEF NativeDeletion, FileRemoved, NotDeleted, BoundSessionMissing
    <2>4. ASSUME NEW e \in Conversations, deletion[e].step = "deleted"
          PROVE  deletion'[e] = deletion[e]
      BY <2>1, <2>4
    <2>5. ASSUME NEW d \in Conversations, binding[d].running, worker[d].step # "restoring"
          PROVE  \/ file'[binding[d].session] = "there"
                 \/ binding[d].session \in doubtful'
                 \/ \E e \in Conversations :
                       deletion'[e].session = binding[d].session /\ deletion'[e].step = "deleted"
      <3>1. \/ file[binding[d].session] = "there" \/ binding[d].session \in doubtful
            \/ \E e \in Conversations :
                  deletion[e].session = binding[d].session /\ deletion[e].step = "deleted"
        BY <2>1, <2>5
      <3>2. CASE file[binding[d].session] = "there"
        <4>1. \/ file'[binding[d].session] = "there"
              \/ file' # file /\ binding[d].session = deletion[c].session
          BY <2>1, <2>5, <3>2
        <4> QED
          BY <2>1, <2>3, <4>1
      <3>3. CASE binding[d].session \in doubtful
        BY <2>2, <3>3
      <3>4. CASE \E e \in Conversations :
                    deletion[e].session = binding[d].session /\ deletion[e].step = "deleted"
        <4>1. PICK e \in Conversations :
                deletion[e].session = binding[d].session /\ deletion[e].step = "deleted"
          BY <3>4
        <4>2. deletion'[e] = deletion[e]
          BY <2>4, <4>1
        <4> QED
          BY <4>1, <4>2
      <3> QED
        BY <3>1, <3>2, <3>3, <3>4
    <2> QED
      BY <2>1, <2>5
  <1>21. ASSUME NEW c \in Conversations, DeletionFailed(c) PROVE RunningHasFile'
    BY <1>21 DEF DeletionFailed
  <1>22. ASSUME NEW c \in Conversations, DeletionFinished(c) PROVE RunningHasFile'
    BY <1>22 DEF DeletionFinished, DeleteReferences
  <1>23. ASSUME NEW c \in Conversations, RestoreBinding(c) PROVE RunningHasFile'
    <2>1. /\ worker[c].step = "restoring" /\ running' = running
          /\ UNCHANGED <<file, doubtful, deletion>>
          /\ \A d \in Conversations \ {c} : worker'[d] = worker[d] /\ binding'[d] = binding[d]
          /\ binding'[c].running => binding[c].running
          /\ /\ worker[c].cached.running /\ binding'[c].running
             /\ binding[c].generation = worker[c].cached.generation
             => binding'[c] = binding[c] /\ file[worker[c].cached.session] = "there"
      BY <1>23, RestoreEffect
    <2>2. binding'[c].running => binding'[c] = binding[c] /\ file[binding[c].session] = "there"
      BY <2>1
    <2> QED
      BY <2>1, <2>2
  <1>24. ASSUME Halt PROVE RunningHasFile'
    BY <1>24 DEF Halt, NewWorker
  <1>25. ASSUME Restart PROVE RunningHasFile'
    BY <1>25, RestartEffect
  <1>26. ASSUME RestartRefused PROVE RunningHasFile'
    BY <1>26 DEF RestartRefused
  <1>27. CASE UNCHANGED sessionVars
    BY <1>27 DEF sessionVars
  <1> QED
    BY <1>1, <1>2, <1>3, <1>4, <1>5, <1>6, <1>7, <1>8, <1>9, <1>10, <1>11, <1>12, <1>13, <1>14,
       <1>15, <1>16, <1>17, <1>18, <1>19, <1>20, <1>21, <1>22, <1>23, <1>24, <1>25, <1>26, <1>27
       DEF Next, Starting, Ending, Deleting, AskNew, AskResume, Names

\* Only the native deletion removes a file.
LEMMA FileSteps ==
    ASSUME IInv, [Next]_sessionVars, NEW s \in SessionIds, file[s] = "there", file'[s] = "gone"
    PROVE  \E d \in Conversations : NativeDeletion(d)
  <1> USE DEF IInv, TypeOK, Idle, At
  <1>1. ASSUME NEW c \in Conversations, NEW how \in {"new", "resume"}, NEW t \in Names,
               AskStart(c, how, t)
        PROVE  \E d \in Conversations : NativeDeletion(d)
    BY <1>1 DEF AskStart
  <1>2. ASSUME NEW c \in Conversations, Prepare(c)
        PROVE  \E d \in Conversations : NativeDeletion(d)
    BY <1>2 DEF Prepare, Prepared, Preparable, NotDeletedNow, Replaces, Teardown, Ended
  <1>3. ASSUME NEW c \in Conversations, PrepareRefused(c)
        PROVE  \E d \in Conversations : NativeDeletion(d)
    BY <1>3 DEF PrepareRefused, Ended
  <1>4. ASSUME NEW c \in Conversations, BeginRestore(c)
        PROVE  \E d \in Conversations : NativeDeletion(d)
    BY <1>4 DEF BeginRestore, Restorable
  <1>5. ASSUME NEW c \in Conversations, Launch(c)
        PROVE  \E d \in Conversations : NativeDeletion(d)
    BY <1>5 DEF Launch, Opens
  <1>6. ASSUME NEW c \in Conversations, LaunchFails(c)
        PROVE  \E d \in Conversations : NativeDeletion(d)
    BY <1>6 DEF LaunchFails, Ended
  <1>7. ASSUME NEW c \in Conversations, Claim(c)
        PROVE  \E d \in Conversations : NativeDeletion(d)
    BY <1>7 DEF Claim, Claimable, ClaimedNow
  <1>8. ASSUME NEW c \in Conversations, Commit(c)
        PROVE  \E d \in Conversations : NativeDeletion(d)
    BY <1>8, CommitEffect
  <1>9. ASSUME NEW c \in Conversations, StartFails(c)
        PROVE  \E d \in Conversations : NativeDeletion(d)
    BY <1>9 DEF StartFails
  <1>10. ASSUME NEW c \in Conversations, FailedRestoreCloses(c)
         PROVE  \E d \in Conversations : NativeDeletion(d)
    BY <1>10 DEF FailedRestoreCloses, Teardown, Ended
  <1>11. ASSUME NEW c \in Conversations, FailedStartLetsGo(c)
         PROVE  \E d \in Conversations : NativeDeletion(d)
    BY <1>11 DEF FailedStartLetsGo, LetGo, PersistClosed
  <1>12. ASSUME NEW c \in Conversations, Close(c)
         PROVE  \E d \in Conversations : NativeDeletion(d)
    BY <1>12 DEF Close, LetGo, PersistClosed
  <1>13. ASSUME NEW c \in Conversations, FinishClose(c)
         PROVE  \E d \in Conversations : NativeDeletion(d)
    BY <1>13 DEF FinishClose, Teardown, Ended
  <1>14. ASSUME NEW c \in Conversations, ReleaseRuntime(c)
         PROVE  \E d \in Conversations : NativeDeletion(d)
    BY <1>14 DEF ReleaseRuntime
  <1>15. ASSUME NEW c \in Conversations, ExpireIntent(c)
         PROVE  \E d \in Conversations : NativeDeletion(d)
    BY <1>15 DEF ExpireIntent
  <1>16. ASSUME NEW c \in Conversations, ForgetClosed(c)
         PROVE  \E d \in Conversations : NativeDeletion(d)
    BY <1>16 DEF ForgetClosed
  <1>17. ASSUME NEW c \in Conversations, ForgetRunning(c)
         PROVE  \E d \in Conversations : NativeDeletion(d)
    BY <1>17 DEF ForgetRunning, NewWorker
  <1>18. ASSUME NEW c \in Conversations, NEW t \in SessionIds,
                NEW b \in Conversations \cup {None}, ReserveDelete(c, t, b)
         PROVE  \E d \in Conversations : NativeDeletion(d)
    BY <1>18 DEF ReserveDelete, Reservable
  <1>19. ASSUME NEW c \in Conversations, CheckDeletion(c)
         PROVE  \E d \in Conversations : NativeDeletion(d)
    BY <1>19 DEF CheckDeletion, StartDeletion, StillDeletable
  <1>20. ASSUME NEW c \in Conversations, NativeDeletion(c)
         PROVE  \E d \in Conversations : NativeDeletion(d)
    BY <1>20
  <1>21. ASSUME NEW c \in Conversations, DeletionFailed(c)
         PROVE  \E d \in Conversations : NativeDeletion(d)
    BY <1>21 DEF DeletionFailed
  <1>22. ASSUME NEW c \in Conversations, DeletionFinished(c)
         PROVE  \E d \in Conversations : NativeDeletion(d)
    BY <1>22 DEF DeletionFinished, DeleteReferences
  <1>23. ASSUME NEW c \in Conversations, RestoreBinding(c)
         PROVE  \E d \in Conversations : NativeDeletion(d)
    BY <1>23, RestoreEffect
  <1>24. ASSUME Halt PROVE \E d \in Conversations : NativeDeletion(d)
    BY <1>24 DEF Halt, NewWorker
  <1>25. ASSUME Restart PROVE \E d \in Conversations : NativeDeletion(d)
    BY <1>25, RestartEffect
  <1>26. ASSUME RestartRefused PROVE \E d \in Conversations : NativeDeletion(d)
    BY <1>26 DEF RestartRefused
  <1>27. CASE UNCHANGED sessionVars
    BY <1>27 DEF sessionVars
  <1> QED
    BY <1>1, <1>2, <1>3, <1>4, <1>5, <1>6, <1>7, <1>8, <1>9, <1>10, <1>11, <1>12, <1>13, <1>14,
       <1>15, <1>16, <1>17, <1>18, <1>19, <1>20, <1>21, <1>22, <1>23, <1>24, <1>25, <1>26, <1>27
       DEF Next, Starting, Ending, Deleting, AskNew, AskResume, Names

-----------------------------------------------------------------------------
(* The theorems.                                                           *)

\* A bridge that has not run yet satisfies the invariant.
LEMMA InitInv == Init => IInv
  <1> SUFFICES ASSUME Init PROVE IInv
    OBVIOUS
  <1>1. \A c \in Conversations :
           /\ worker[c] = NewWorker(NoBinding, NoIntent) /\ binding[c] = NoBinding
           /\ intent[c] = NoIntent /\ deletion[c] = NoDeletion
    BY DEF Init
  <1>2. NewWorker(NoBinding, NoIntent) \in Actors /\ NoDeletion \in Deletions
    BY Values DEF NewWorker, Actors, NoDeletion, Deletions
  <1>3. TypeOK
    BY <1>2, Values DEF TypeOK, Init
  <1>4. ClaimsDiffer /\ IntentsAreHeld /\ RunningIsCommitted
    BY <1>1 DEF ClaimsDiffer, IntentsAreHeld, RunningIsCommitted, NewWorker, NoBinding
  <1>5. ClaimsFollowSteps /\ ClosedHaveNothing /\ ResumesAreRecorded /\ NewIsUnsaved
    BY <1>1 DEF ClaimsFollowSteps, ClosedHaveNothing, ResumesAreRecorded, NewIsUnsaved, NewWorker
  <1>6. DeletionsAreReserved /\ DeletionIsAlone
    BY <1>1 DEF DeletionsAreReserved, DeletionIsAlone, NoDeletion
  <1>7. StartsHaveFiles /\ RestoringIsBound /\ RunningHasFile
    BY <1>1 DEF StartsHaveFiles, RestoringIsBound, RunningHasFile, NewWorker, NoBinding
  <1> QED
    BY <1>3, <1>4, <1>5, <1>6, <1>7 DEF IInv

\* Every step of the actors, of a deletion or of a restart keeps it.
LEMMA Inductive == IInv /\ [Next]_sessionVars => IInv'
  BY TypeStep, ClaimsDifferStep, RunningIsCommittedStep, IntentsAreHeldStep, ClaimsFollowStepsStep,
     ClosedHaveNothingStep, ResumesAreRecordedStep, NewIsUnsavedStep, DeletionsAreReservedStep, DeletionIsAloneStep,
     StartsHaveFilesStep, RestoringIsBoundStep, RunningHasFileStep
     DEF IInv

\* The inductive invariant holds for any conversations, sessions and bounds.
THEOREM Invariant == Spec => []IInv
  <1>1. IInv /\ [Next]_sessionVars => IInv'
    BY Inductive
  <1> QED
    BY <1>1, InitInv, PTL DEF Spec

\* The variables of the model keep their types (bindings, startup_intents, the claims
\* and runtimes under sessionMu).
THEOREM TypeCorrect == Spec => []TypeOK
  <1>1. IInv => TypeOK
    BY DEF IInv
  <1> QED
    BY <1>1, Invariant, PTL

\* claimSession, beginSessionRestore, closeFailedStart and restoreWorkers: no session is
\* claimed by two conversations, nor open in a process that is past its start while
\* another conversation has claimed it. Of running bindings nothing is said.
THEOREM SessionsHaveOneOwner == Spec => []OneOwner
  <1>1. IInv => OneOwner
    BY NoneAssumption DEF IInv, OneOwner, ClaimsDiffer, OpensNoOthers, PastClaim, ClaimedByOther,
       ClaimsFollowSteps
  <1> QED
    BY <1>1, Invariant, PTL

\* PrepareStart, CommitStart, cancelStart, expireStartIntent and restoreWorkers: an
\* intent in the database is in the hands of its actor.
THEOREM IntentsHaveActors == Spec => []IntentsAreHeld
  <1>1. IInv => IntentsAreHeld
    BY DEF IInv
  <1> QED
    BY <1>1, Invariant, PTL

\* deleteSessionReferences, restoreBinding and claimSession besides: after a crash at any
\* step a running binding names a session OMP still has, or one whose deletion was in doubt,
\* and an intent has its actor.
THEOREM BindingsAreKept == Spec => []BindingsRecover
  <1>1. IInv => BindingsRecover
    BY DEF IInv, BindingsRecover, IntentsAreHeld, DeletedIsForgotten, RunningHasFile, BeingDeleted
  <1> QED
    BY <1>1, Invariant, PTL

\* reserveDelete and sessionDeleteAvailable: the native deletion takes no file from
\* under a conversation that owns it with a runtime, or is about to.
THEOREM DeletionsSpareRuntimes == Spec => DeletesOnlyIdle
  <1>1. IInv /\ [Next]_sessionVars => [DeletesIdle]_sessionVars
    <2> SUFFICES ASSUME IInv, [Next]_sessionVars,
                        NEW s \in SessionIds, file[s] = "there", file'[s] = "gone",
                        NEW c \in Conversations, worker[c].step \in {"idle", "launched", "claimed"},
                        worker[c].omp = s
                 PROVE  FALSE
      BY DEF DeletesIdle
    <2>1. PICK d \in Conversations : NativeDeletion(d)
      BY FileSteps
    <2>2. deletion[d].step = "native" /\ deletion[d].session = s
      BY <2>1, DeletionEffect DEF IInv
    <2>3. worker[c].claim = s => worker[c].runtime = "released"
      BY <2>2 DEF IInv, DeletionsAreReserved
    <2>4. CASE worker[c].step \in {"idle", "claimed"}
      BY <2>3, <2>4, NoneAssumption DEF IInv, ClaimsFollowSteps
    <2>5. CASE worker[c].step = "launched"
      <3>1. worker[c].how \in {"new", "resume"}
        BY <2>3, <2>5 DEF IInv, ClaimsFollowSteps, TypeOK, Actors
      <3>2. worker[c].how # "new"
        BY <2>5 DEF IInv, NewIsUnsaved
      <3>3. worker[c].how # "resume"
        BY <2>2, <2>5 DEF IInv, ClaimsFollowSteps, DeletionIsAlone
      <3> QED
        BY <3>1, <3>2, <3>3
    <2> QED
      BY <2>4, <2>5
  <1> QED
    BY <1>1, Invariant, PTL DEF Spec, DeletesOnlyIdle
=============================================================================
